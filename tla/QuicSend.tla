------------------------------ MODULE QuicSend ------------------------------
(***************************************************************************)
(* The sending half of jni/quic/quic_conn_jni.c: the streams' send buffers *)
(* and the outgoing datagram queue, between the calls that fill them and   *)
(* nativeWrite, which hands ngtcp2 one packet's worth per call.            *)
(*                                                                         *)
(* Everything runs on the connection's owning thread (checked() refuses    *)
(* any other), so each native call and each ngtcp2 callback is one action. *)
(* A byte is counted, not carried: a buffer is its three indices.          *)
(*                                                                         *)
(* ngtcp2 itself is not in the repository.  What it holds for a stream     *)
(* (credit, inFlight, shut) changes only as the bridge's use of it says.   *)
(***************************************************************************)
EXTENDS Integers, SequencesExt

CONSTANTS Streams,      \* the streams that may be opened
          MaxBuffer,    \* buffer_append's ceiling
          MaxCredit,    \* bound: bytes of flow-control credit a stream can have unused
          QueueMax,     \* SW_DATAGRAM_QUEUE_MAX
          None          \* a null pointer to a stream

ASSUME SizesAssumption == MaxBuffer \in Nat /\ MaxCredit \in Nat /\ QueueMax \in Nat
ASSUME NoneAssumption == None \notin Streams

VARIABLES
  list,       \* c->streams: the open streams, newest first
  nextWrite,  \* c->next_write
  stream,     \* the quic_stream records
  txCount,    \* c->tx_count
  credit,     \* ngtcp2: bytes the peer lets each stream send
  inFlight,   \* ngtcp2: bytes taken from each stream and not acknowledged
  owed,       \* history: bytes nativeSend accepted and ngtcp2 has not taken
  shut,       \* ngtcp2: streams whose write half is closed
  offered,    \* the stream the last nativeWrite offered to ngtcp2
  failed      \* ngtcp2 was given a stream it had forgotten: the connection fails

ngtcp2 == <<credit, inFlight, shut>>
vars == <<list, nextWrite, stream, txCount, ngtcp2, owed, offered, failed>>

QuicStream == [sendLen : 0 .. MaxBuffer, sent : 0 .. MaxBuffer, acked : 0 .. MaxBuffer,
               finRequested : BOOLEAN, finWritten : BOOLEAN, gone : BOOLEAN]
Empty == [sendLen |-> 0, sent |-> 0, acked |-> 0,
          finRequested |-> FALSE, finWritten |-> FALSE, gone |-> FALSE]

Init == /\ list = <<>>
        /\ nextWrite = None
        /\ stream = [s \in Streams |-> Empty]
        /\ txCount = 0
        /\ credit = [s \in Streams |-> MaxCredit]
        /\ inFlight = [s \in Streams |-> 0]
        /\ owed = [s \in Streams |-> 0]
        /\ shut = {}
        /\ offered = None
        /\ failed = FALSE

IsOpen(s) == Contains(list, s)

-----------------------------------------------------------------------------
(* What the session's calls do. *)

\* nativeOpenStream, once the peer has credited a stream.
OpenStream(s) == /\ ~IsOpen(s)
                 /\ list' = <<s>> \o list
                 /\ UNCHANGED <<nextWrite, stream, txCount, ngtcp2, owed, offered, failed>>

\* nativeSend refuses a stream that is gone or whose FIN was asked for, and
\* bytes the buffer cannot take; what it refuses leaves nothing behind.
AcceptsAfterFin(s, n) == ~stream[s].gone /\ stream[s].sendLen + n <= MaxBuffer
Accepts(s, n) == ~stream[s].gone /\ ~stream[s].finRequested /\ stream[s].sendLen + n <= MaxBuffer

Send(s, n, fin) ==
  /\ IsOpen(s)
  /\ Accepts(s, n)
  /\ stream' = [stream EXCEPT ![s].sendLen = @ + n, ![s].finRequested = @ \/ fin]
  /\ owed' = [owed EXCEPT ![s] = @ + n]
  /\ UNCHANGED <<list, nextWrite, txCount, ngtcp2, offered, failed>>

\* nativeSendDatagram: past the bound the datagram is refused.
Push == txCount < QueueMax /\ txCount' = txCount + 1

SendDatagram == /\ Push
                /\ UNCHANGED <<list, nextWrite, stream, ngtcp2, owed, offered, failed>>

-----------------------------------------------------------------------------
(* nativeWrite. *)

Pending(s) == stream[s].sendLen - stream[s].sent

OwesFin(s) == stream[s].finRequested /\ ~stream[s].finWritten
Offers(s) == ~stream[s].gone /\ (Pending(s) > 0 \/ OwesFin(s))

Place(s) == CHOOSE i \in DOMAIN list : list[i] = s

\* The list is walked once around from where the last call stopped: the number
\* of streams the walk passes before it comes to s.
TurnFromHead(s) == Place(s)
Turn(s) == LET start == IF nextWrite = None THEN 1 ELSE Place(nextWrite)
           IN  IF Place(s) >= start THEN Place(s) - start ELSE Place(s) + Len(list) - start

Offering == {s \in Streams : IsOpen(s) /\ Offers(s)}
Chosen == IF Offering = {} THEN None
          ELSE CHOOSE s \in Offering : \A t \in Offering : Turn(s) <= Turn(t)

After(s) == IF Place(s) < Len(list) THEN list[Place(s) + 1] ELSE Head(list)

\* A queued datagram goes first, and nothing else goes in that call.
WriteDatagram == /\ txCount > 0
                 /\ txCount' = txCount - 1
                 /\ UNCHANGED <<list, nextWrite, stream, ngtcp2, owed, offered, failed>>

\* ngtcp2 takes n bytes of the chosen stream, and the FIN with the last one.
WriteStream(n) ==
  LET s == Chosen
      fin == stream[s].finRequested /\ n = Pending(s)
  IN  /\ txCount = 0
      /\ s # None /\ s \notin shut
      /\ n \in 1 .. Pending(s) /\ n <= credit[s]
      /\ stream' = [stream EXCEPT ![s].sent = @ + n, ![s].finWritten = @ \/ fin]
      /\ nextWrite' = After(s)
      /\ credit' = [credit EXCEPT ![s] = @ - n]
      /\ inFlight' = [inFlight EXCEPT ![s] = @ + n]
      /\ owed' = [owed EXCEPT ![s] = @ - n]
      /\ shut' = IF fin THEN shut \cup {s} ELSE shut
      /\ offered' = s
      /\ UNCHANGED <<list, txCount, failed>>

\* A FIN with no bytes left to carry it: wdatalen is 0, so neither fin_written
\* nor next_write moves.
WriteFin == /\ txCount = 0
            /\ Chosen # None /\ Chosen \notin shut
            /\ Pending(Chosen) = 0
            /\ shut' = shut \cup {Chosen}
            /\ offered' = Chosen
            /\ UNCHANGED <<list, nextWrite, stream, txCount, credit, inFlight, owed, failed>>

\* STREAM_SHUT_WR, or STREAM_DATA_BLOCKED: the call answers 0 and moves nothing.
\* STREAM_NOT_FOUND, for a stream that is gone, would fail the connection.
Refused(s) == s \in shut \/ (Pending(s) > 0 /\ credit[s] = 0)
WriteRefused == /\ txCount = 0
                /\ Chosen # None /\ Refused(Chosen)
                /\ offered' = Chosen
                /\ failed' = (failed \/ stream[Chosen].gone)
                /\ UNCHANGED <<list, nextWrite, stream, txCount, ngtcp2, owed>>

Write == WriteDatagram \/ (\E n \in 1 .. MaxBuffer : WriteStream(n)) \/ WriteFin \/ WriteRefused

-----------------------------------------------------------------------------
(* What ngtcp2 reports from the peer. *)

\* acked_stream_data_offset_cb: the buffer starts over once all of it is acknowledged.
AllSentAcked(s, n) == stream[s].acked + n >= stream[s].sent
AllAcked(s, n) == stream[s].acked + n >= stream[s].sendLen

Acked(s, n) ==
  /\ n \in 1 .. inFlight[s]
  /\ ~stream[s].gone
  /\ inFlight' = [inFlight EXCEPT ![s] = @ - n]
  /\ stream' = IF AllAcked(s, n)
               THEN [stream EXCEPT ![s].sendLen = 0, ![s].sent = 0, ![s].acked = 0]
               ELSE [stream EXCEPT ![s].acked = @ + n]
  /\ UNCHANGED <<list, nextWrite, txCount, credit, owed, shut, offered, failed>>

Credited(s, n) == /\ IsOpen(s) /\ s \notin shut
                  /\ credit[s] + n <= MaxCredit
                  /\ credit' = [credit EXCEPT ![s] = @ + n]
                  /\ UNCHANGED <<list, nextWrite, stream, txCount, inFlight, owed, shut, offered, failed>>

\* The peer stops reading a stream: ngtcp2 resets it and closes the write half.
PeerStops(s) == /\ IsOpen(s) /\ s \notin shut
                /\ shut' = shut \cup {s}
                /\ UNCHANGED <<list, nextWrite, stream, txCount, credit, inFlight, owed, offered, failed>>

\* stream_close_cb, once both halves are over.
StreamCloses(s) == /\ s \in shut /\ ~stream[s].gone
                   /\ stream' = [stream EXCEPT ![s].gone = TRUE]
                   /\ UNCHANGED <<list, nextWrite, txCount, ngtcp2, owed, offered, failed>>

Next == \/ \E s \in Streams :
             \/ OpenStream(s) \/ PeerStops(s) \/ StreamCloses(s)
             \/ \E n \in 0 .. MaxBuffer, fin \in BOOLEAN : (n > 0 \/ fin) /\ Send(s, n, fin)
             \/ \E n \in 1 .. MaxBuffer : Acked(s, n)
             \/ \E n \in 1 .. MaxCredit : Credited(s, n)
        \/ SendDatagram \/ Write

Spec == Init /\ [][Next]_vars

\* The owning thread keeps calling nativeWrite.  The peer owes nobody credit,
\* no byte an acknowledgement and no stream an end.
FairSpec == Spec /\ WF_vars(Write)

-----------------------------------------------------------------------------
(* Properties. *)

TypeOK == /\ list \in Seq(Streams) /\ IsInjective(list)
          /\ nextWrite \in Streams \cup {None}
          /\ stream \in [Streams -> QuicStream]
          /\ txCount \in 0 .. QueueMax
          /\ credit \in [Streams -> 0 .. MaxCredit]
          /\ inFlight \in [Streams -> 0 .. MaxBuffer]
          /\ owed \in [Streams -> 0 .. MaxBuffer]
          /\ shut \in SUBSET Streams
          /\ offered \in Streams \cup {None}
          /\ failed \in BOOLEAN

\* "Acknowledged bytes may be dropped and no others": whatever order sends,
\* partial writes and acknowledgements come in, the buffer holds exactly the
\* bytes not taken yet and the bytes taken and not acknowledged.
NothingDropped ==
  \A s \in Streams : /\ Pending(s) = owed[s]
                     /\ stream[s].sent - stream[s].acked = inFlight[s]

\* The FIN leaves with the last byte or after it, and no byte is ever queued
\* behind it.
FinIsLast == \A s \in Streams : stream[s].finWritten => owed[s] = 0

\* What the writer of a stream sees of it: see SendPromise.  The buffer's indices,
\* and that it starts over, are invisible, and so is whose turn it is.
Promise == INSTANCE SendPromise
             WITH unsent <- [s \in Streams |-> Pending(s)],
                  unacked <- [s \in Streams |-> stream[s].sent - stream[s].acked],
                  asked <- {s \in Streams : stream[s].finRequested},
                  over <- {s \in Streams : stream[s].gone}
ImplementsPromise == Promise!Spec

Waiting(s) == IsOpen(s) /\ ~stream[s].gone /\ s \notin shut /\ Pending(s) > 0 /\ credit[s] > 0

\* "Starting at the head every time lets one busy stream starve the rest": with
\* the rotation, a stream that can send is passed over only while a datagram
\* waits or ngtcp2 would refuse another stream.
NoBusyStreamStarves ==
  \A s \in Streams : Waiting(s) ~> \/ ~Waiting(s) \/ offered = s \/ txCount > 0
                                   \/ \E t \in Streams : Offers(t) /\ Refused(t)

\* The safety half of that: bytes taken from one stream bring every other that
\* has something to send nearer its turn, and nothing takes it further from it but
\* a stream that is opened, by one place.
NearerEachTurn ==
  [][\A s \in Offering :
       \/ inFlight'[s] > inFlight[s]
       \/ /\ Turn(s)' <= Turn(s) + Len(list') - Len(list)
          /\ \A t \in Streams : inFlight'[t] > inFlight[t] => Turn(s)' < Turn(s)]_vars
=============================================================================
