----------------------------- MODULE SendPromise -----------------------------
(***************************************************************************)
(* What the send half of the QUIC bridge promises whoever writes to a      *)
(* stream, with none of the buffers, indices and turns that keep it: a     *)
(* byte that was accepted is sent, and kept until it is acknowledged; a    *)
(* half is closed from this side only behind its last byte, and takes      *)
(* nothing more once that was asked for; what is done for one stream does  *)
(* nothing to another.  QuicSend implements this.                          *)
(***************************************************************************)
EXTENDS Naturals

CONSTANTS Streams,
          MaxBuffer \* the most that is kept for a stream

VARIABLES unsent,  \* bytes accepted from the writer and not sent
          unacked, \* bytes sent and not acknowledged
          asked,   \* streams the writer asked to end
          shut,    \* streams whose write half is closed
          over     \* streams that are over, both halves

vars == <<unsent, unacked, asked, shut, over>>

TypeOK == /\ unsent \in [Streams -> Nat] /\ unacked \in [Streams -> Nat]
          /\ asked \subseteq Streams /\ shut \subseteq Streams /\ over \subseteq Streams

Init == /\ unsent = [s \in Streams |-> 0] /\ unacked = [s \in Streams |-> 0]
        /\ asked = {} /\ shut = {} /\ over = {}

\* The writer gives n bytes, and perhaps says that they are the last.
Accept(s, n, fin) == /\ s \notin asked \cup over
                     /\ unsent[s] + unacked[s] + n <= MaxBuffer
                     /\ unsent' = [unsent EXCEPT ![s] = @ + n]
                     /\ asked' = IF fin THEN asked \cup {s} ELSE asked
                     /\ UNCHANGED <<unacked, shut, over>>

\* With the last byte the half may be closed.
Send(s, n) == /\ s \notin shut \cup over
              /\ n \in 1 .. unsent[s]
              /\ unsent' = [unsent EXCEPT ![s] = @ - n]
              /\ unacked' = [unacked EXCEPT ![s] = @ + n]
              /\ shut' \in {shut, shut \cup {s}}
              /\ s \in shut' => s \in asked /\ n = unsent[s]
              /\ UNCHANGED <<asked, over>>

Acknowledge(s, n) == /\ s \notin over
                     /\ n \in 1 .. unacked[s]
                     /\ unacked' = [unacked EXCEPT ![s] = @ - n]
                     /\ UNCHANGED <<unsent, asked, shut, over>>

\* Behind the last byte, or by the peer, who wants no more of it.
Shut(s) == /\ s \notin shut
           /\ shut' = shut \cup {s}
           /\ UNCHANGED <<unsent, unacked, asked, over>>

Close(s) == /\ s \in shut \ over
            /\ over' = over \cup {s}
            /\ UNCHANGED <<unsent, unacked, asked, shut>>

Next == \E s \in Streams : \/ \E n \in 0 .. MaxBuffer, fin \in BOOLEAN : Accept(s, n, fin)
                           \/ \E n \in 1 .. MaxBuffer : Send(s, n) \/ Acknowledge(s, n)
                           \/ Shut(s) \/ Close(s)

Spec == Init /\ [][Next]_vars
=============================================================================
