---------------------------- MODULE StreamPromise ----------------------------
(***************************************************************************)
(* What a QUIC connection promises whoever opens a stream on it and reads  *)
(* it, with none of the threads, tasks and queues in between: bytes come   *)
(* only on a stream that was opened, are given once and before anything    *)
(* else is said, and a reader is told of an end or of an error only when   *)
(* there is one.  QuicConnection implements this.                          *)
(***************************************************************************)
EXTENDS Naturals

CONSTANTS Streams,
          MaxBytes \* the most the peer sends on a stream

VARIABLES opened, \* streams there are
          got,    \* bytes received on each stream
          given,  \* bytes its reader has
          ended,  \* streams the peer has ended
          over,   \* the connection takes no part any more
          failed, \* and why
          told    \* what the last call on each stream was told

vars == <<opened, got, given, ended, over, failed, told>>

Init == /\ opened = {}
        /\ got = [s \in Streams |-> 0] /\ given = [s \in Streams |-> 0]
        /\ ended = {}
        /\ over = FALSE /\ failed = FALSE
        /\ told = [s \in Streams |-> "nothing"]

\* Even one whose opener has been told that it came too late.
Open(s) == /\ opened' = opened \cup {s}
           /\ UNCHANGED <<got, given, ended, over, failed, told>>

Arrive(s, n, fin) == /\ s \in opened \ ended
                     /\ got[s] + n <= MaxBytes
                     /\ got' = [got EXCEPT ![s] = @ + n]
                     /\ ended' = IF fin THEN ended \cup {s} ELSE ended
                     /\ UNCHANGED <<opened, given, over, failed, told>>

Give(s, n) == /\ told[s] = "nothing"
              /\ n <= got[s] - given[s]
              /\ given' = [given EXCEPT ![s] = @ + n]
              /\ UNCHANGED <<opened, got, ended, over, failed, told>>

\* What there is to say.  Patience ends whenever it does.
True(s, answer) == \/ answer = "end" /\ (s \in ended \/ over)
                   \/ answer = "error" /\ (failed \/ over)
                   \/ answer = "timeout"

Tell(s, answer) == /\ told[s] = "nothing"
                   /\ True(s, answer)
                   /\ told' = [told EXCEPT ![s] = answer]
                   /\ UNCHANGED <<opened, got, given, ended, over, failed>>

Fail == /\ failed' = TRUE
        /\ UNCHANGED <<opened, got, given, ended, over, told>>

Stop == /\ over' = TRUE
        /\ UNCHANGED <<opened, got, given, ended, failed, told>>

Next == \/ Fail \/ Stop
        \/ \E s \in Streams :
             \/ Open(s)
             \/ \E n \in 0 .. MaxBytes, fin \in BOOLEAN : Arrive(s, n, fin)
             \/ \E n \in 1 .. MaxBytes : Give(s, n)
             \/ \E answer \in {"end", "error", "timeout"} : Tell(s, answer)

Spec == Init /\ [][Next]_vars
=============================================================================
