----------------------- MODULE QuicConnection_proofs -----------------------
(***************************************************************************)
(* Theorems about QuicConnection, for any finite set of streams, any       *)
(* window, any amount of data and any size of what one read copies.        *)
(***************************************************************************)
EXTENDS QuicConnection, TLAPS

\* What the peer may send and what is not read yet make up the window.
WindowKept == \A s \in Streams : credit[s] + native[s].unread = Window

\* A reader looks into the queue, and waits, with nothing left over.
Waits == {"empty", "noFatal", "unfinished", "waiting"}
NothingLeft == \A s \in Streams : user[s] \in Waits => leftover[s].first = leftover[s].next

IInv == TypeOK /\ NothingLost /\ WindowKept /\ NothingLeft

dataVars == <<native, credit, total, arrived, leftover, delivered>>

-----------------------------------------------------------------------------
(* Steps that move no byte. *)

LEMMA BytesStay ==
  ASSUME IInv, UNCHANGED dataVars
  PROVE  NothingLost' /\ WindowKept'
BY DEF IInv, NothingLost, UpTo, WindowKept, dataVars

\* Nor begin to look into a queue.
LEMMA NobodyLooks ==
  ASSUME IInv, UNCHANGED dataVars,
         \A s \in Streams : user'[s] \in Waits => user[s] \in Waits
  PROVE  NothingLost' /\ WindowKept' /\ NothingLeft'
BY BytesStay DEF IInv, NothingLeft, dataVars

LEMMA OwnerOnly ==
  ASSUME IInv,
         \/ RunTask \/ Drained \/ BurstEnds \/ PassEnds \/ LoopCatches \/ LoopStops
         \/ WakesReaders \/ NativeClose \/ PassFails \/ CloseBegins \/ CloseJoins
         \/ \E s \in Streams : HarvestStops(s)
  PROVE  IInv'
<1>1. CASE RunTask
  <2>1. Head(work) \in Streams /\ work' \in Seq(Streams)
    BY <1>1 DEF IInv, TypeOK, RunTask
  <2>2. TypeOK'
    BY <1>1, <2>1 DEF IInv, TypeOK, RunTask, ownerVars, streamVars, queueVars, readerVars, UserAt
  <2>3. UNCHANGED dataVars
    BY <1>1 DEF RunTask, dataVars, streamVars, queueVars, readerVars
  <2>4. \A s \in Streams : user'[s] \in Waits => user[s] \in Waits
    BY <1>1, <2>1 DEF IInv, TypeOK, RunTask, Waits
  <2> QED BY <2>2, <2>3, <2>4, NobodyLooks DEF IInv
<1>2. CASE \/ Drained \/ BurstEnds \/ PassEnds \/ LoopCatches \/ LoopStops \/ WakesReaders
           \/ NativeClose \/ PassFails \/ CloseBegins \/ CloseJoins
  <2>1. TypeOK'
    BY <1>2 DEF IInv, TypeOK, OwnerAt, Drained, BurstEnds, PassEnds, LoopCatches, LoopStops, WakesReaders,
                NativeClose, PassFails, CloseBegins, CloseJoins, ownerVars, streamVars, queueVars, readerVars
  <2>2. UNCHANGED dataVars /\ UNCHANGED user
    BY <1>2 DEF Drained, BurstEnds, PassEnds, LoopCatches, LoopStops, WakesReaders, NativeClose,
                PassFails, CloseBegins, CloseJoins, dataVars, streamVars, queueVars, readerVars
  <2> QED BY <2>1, <2>2, NobodyLooks DEF IInv
<1>3. CASE \E s \in Streams : HarvestStops(s)
  <2>1. PICK s \in Streams : HarvestStops(s)
    BY <1>3
  <2>2. TypeOK'
    BY <2>1 DEF IInv, TypeOK, HarvestStops, streamVars, readerVars
  <2>3. UNCHANGED dataVars /\ UNCHANGED user
    BY <2>1 DEF HarvestStops, dataVars, streamVars, readerVars
  <2> QED BY <2>2, <2>3, NobodyLooks DEF IInv
<1> QED BY <1>1, <1>2, <1>3

LEMMA Calls ==
  ASSUME IInv, NEW s \in Streams,
         CallChecks(s) \/ CallPuts(s) \/ CallTimesOut(s) \/ ChecksFatal(s) \/ ChecksFinished(s)
           \/ ChecksRunning(s)
  PROVE  IInv'
<1>1. work' \in Seq(Streams)
  <2>1. CASE CallPuts(s)
    BY <2>1 DEF IInv, TypeOK, CallPuts
  <2>2. CASE ~CallPuts(s)
    BY <2>2 DEF IInv, TypeOK, CallChecks, CallTimesOut, ChecksFatal, ChecksFinished, ChecksRunning, readerOnly
  <2> QED BY <2>1, <2>2
<1>2. TypeOK'
  BY <1>1 DEF IInv, TypeOK, CallChecks, CallPuts, CallTimesOut, ChecksFatal, ChecksFinished, ChecksRunning,
              Becomes, UserAt, readerOnly, ownerVars, streamVars, queueVars, readerVars
<1>3. UNCHANGED dataVars
  BY DEF CallChecks, CallPuts, CallTimesOut, ChecksFatal, ChecksFinished, ChecksRunning,
         readerOnly, dataVars, streamVars, queueVars, readerVars
<1>4. \A r \in Streams : user'[r] \in Waits => user[r] \in Waits
  BY DEF IInv, TypeOK, CallChecks, CallPuts, CallTimesOut, ChecksFatal, ChecksFinished, ChecksRunning,
         Becomes, Waits
<1> QED BY <1>2, <1>3, <1>4, NobodyLooks DEF IInv

-----------------------------------------------------------------------------
(* Steps that move bytes. *)

\* What the native buffer of a stream holds is part of what was received.
LEMMA UnreadReceived ==
  ASSUME IInv, NEW s \in Streams
  PROVE  /\ UpTo(s, Len(arrived[s])) \in 0 .. MaxBytes
         /\ UpTo(s, Len(arrived[s])) = total[s] - native[s].unread
<1>1. leftover[s] \in Chunks /\ arrived[s] \in Seq(Chunks) /\ Len(arrived[s]) \in Nat
  BY DEF IInv, TypeOK
<1>2. \A i \in 1 .. Len(arrived[s]) : arrived[s][i] \in Chunks
  BY <1>1
<1>3. UpTo(s, Len(arrived[s])) \in 0 .. MaxBytes
  BY <1>1, <1>2 DEF UpTo, Chunks
<1> QED BY <1>3, SizesAssumption DEF IInv, NothingLost, TypeOK

LEMMA Received ==
  ASSUME IInv, NEW s \in Streams, NEW n \in 0 .. Window, NEW fin \in BOOLEAN, Receive(s, n, fin)
  PROVE  IInv'
<1>1. /\ native[s].unread \in 0 .. Window /\ credit[s] \in 0 .. Window /\ total[s] \in 0 .. MaxBytes
      /\ Window \in Nat /\ MaxBytes \in Nat
      /\ credit[s] + native[s].unread = Window
  BY SizesAssumption DEF IInv, TypeOK, WindowKept
<1>2. native[s].unread + n \in 0 .. Window /\ credit[s] - n \in 0 .. Window /\ total[s] + n \in 0 .. MaxBytes
  BY <1>1 DEF Receive
<1>3. TypeOK'
  BY <1>2 DEF IInv, TypeOK, Receive, ownerVars, queueVars, readerVars
<1>4. \A r \in Streams : /\ native'[r].unread = IF r = s THEN native[s].unread + n ELSE native[r].unread
                         /\ credit'[r] = IF r = s THEN credit[s] - n ELSE credit[r]
                         /\ total'[r] = IF r = s THEN total[s] + n ELSE total[r]
  BY DEF IInv, TypeOK, Receive
<1>5. UNCHANGED <<arrived, leftover, delivered, user>>
  BY DEF Receive, queueVars, readerVars
<1>6. WindowKept'
  BY <1>1, <1>4 DEF IInv, WindowKept
<1>7. NothingLost'
  <2>1. UpTo(s, Len(arrived[s])) \in 0 .. MaxBytes
    BY UnreadReceived
  <2>2. \A r \in Streams : UpTo(r, Len(arrived[r])) + native'[r].unread = total'[r]
    <3>1. \A r \in Streams : UpTo(r, Len(arrived[r])) + native[r].unread = total[r]
      BY DEF IInv, NothingLost
    <3>2. UpTo(s, Len(arrived[s])) + (native[s].unread + n) = total[s] + n
      BY <1>1, <2>1, <3>1
    <3> QED BY <1>4, <3>1, <3>2
  <2>3. \A r \in Streams : \A i \in 1 .. Len(arrived[r]) : arrived[r][i].first = UpTo(r, i - 1)
    BY DEF IInv, NothingLost
  <2>4. \A r \in Streams : delivered[r] = leftover[r].first
    BY DEF IInv, NothingLost
  <2> QED BY <1>5, <2>2, <2>3, <2>4 DEF NothingLost, UpTo
<1>8. NothingLeft'
  BY <1>5 DEF IInv, NothingLeft
<1> QED BY <1>3, <1>6, <1>7, <1>8 DEF IInv

LEMMA Closed ==
  ASSUME IInv, NEW s \in Streams, StreamCloses(s)
  PROVE  IInv'
<1>1. TypeOK'
  BY DEF IInv, TypeOK, StreamCloses, ownerVars, queueVars, readerVars
<1>2. \A r \in Streams : native'[r].unread = native[r].unread
  BY DEF IInv, TypeOK, StreamCloses
<1>3. UNCHANGED <<credit, total, arrived, leftover, delivered, user>>
  BY DEF StreamCloses, queueVars, readerVars
<1> QED BY <1>1, <1>2, <1>3 DEF IInv, NothingLost, UpTo, WindowKept, NothingLeft

\* A chunk goes behind the last.
LEMMA Harvested ==
  ASSUME IInv, NEW s \in Streams, HarvestChunk(s)
  PROVE  IInv'
<1> DEFINE n == IF native[s].unread < Harvest THEN native[s].unread ELSE Harvest
           first == total[s] - native[s].unread
           chunk == Chunk(first, first + n)
<1>1. /\ native[s].unread \in 0 .. Window /\ credit[s] \in 0 .. Window /\ total[s] \in 0 .. MaxBytes
      /\ Window \in Nat /\ MaxBytes \in Nat /\ Harvest \in Nat
      /\ credit[s] + native[s].unread = Window
  BY SizesAssumption DEF IInv, TypeOK, WindowKept
<1>2. /\ n \in 1 .. native[s].unread
      /\ native' = [native EXCEPT ![s].unread = @ - n]
      /\ credit' = [credit EXCEPT ![s] = @ + n]
      /\ arrived' = [arrived EXCEPT ![s] = Append(@, chunk)]
  BY <1>1 DEF HarvestChunk, Returned
<1>3. first = UpTo(s, Len(arrived[s])) /\ first \in 0 .. MaxBytes
  BY UnreadReceived
<1> HIDE DEF n, first
<1>4. chunk \in Chunks /\ chunk.first = first /\ chunk.next = first + n
  <2>1. first + n <= total[s]
    BY <1>1, <1>2 DEF first
  <2> QED BY <1>1, <1>2, <1>3, <2>1 DEF Chunk, Chunks
<1> HIDE DEF chunk
<1>5. native[s].unread - n \in 0 .. Window /\ credit[s] + n \in 0 .. Window
  BY <1>1, <1>2
<1>6. TypeOK'
  <2>1. arrived' \in [Streams -> Seq(Chunks)]
    BY <1>2, <1>4 DEF IInv, TypeOK
  <2>2. native' \in [Streams -> [unread : 0 .. Window, fin : BOOLEAN]] /\ credit' \in [Streams -> 0 .. Window]
    BY <1>2, <1>5 DEF IInv, TypeOK
  <2> QED BY <2>1, <2>2 DEF IInv, TypeOK, HarvestChunk, ownerVars, readerVars
<1>7. UNCHANGED <<total, leftover, delivered, user>>
  BY DEF HarvestChunk, readerVars
<1>8. WindowKept'
  BY <1>1, <1>2 DEF IInv, WindowKept, TypeOK
<1>9. \A r \in Streams \ {s} : arrived'[r] = arrived[r] /\ native'[r].unread = native[r].unread
  BY <1>2 DEF IInv, TypeOK
<1>10. /\ arrived[s] \in Seq(Chunks)
       /\ arrived'[s] = Append(arrived[s], chunk)
       /\ native'[s].unread = native[s].unread - n
  BY <1>2 DEF IInv, TypeOK
<1>11. /\ Len(arrived'[s]) = Len(arrived[s]) + 1 /\ Len(arrived[s]) \in Nat
       /\ arrived'[s][Len(arrived[s]) + 1] = chunk
       /\ \A i \in 1 .. Len(arrived[s]) : arrived'[s][i] = arrived[s][i]
  BY <1>10
<1>12. \A i \in 0 .. Len(arrived[s]) : UpTo(s, i)' = UpTo(s, i)
  BY <1>7, <1>11 DEF UpTo
<1>13. \A i \in 1 .. Len(arrived'[s]) : arrived'[s][i].first = UpTo(s, i - 1)'
  <2> SUFFICES ASSUME NEW i \in 1 .. Len(arrived'[s]) PROVE arrived'[s][i].first = UpTo(s, i - 1)'
    OBVIOUS
  <2>1. CASE i = Len(arrived[s]) + 1
    BY <1>3, <1>4, <1>11, <1>12, <2>1
  <2>2. CASE i \in 1 .. Len(arrived[s])
    BY <1>11, <1>12, <2>2 DEF IInv, NothingLost
  <2> QED BY <1>11, <2>1, <2>2
<1>14. UpTo(s, Len(arrived[s]))' + native'[s].unread = total'[s]
  <2>1. UpTo(s, Len(arrived[s]))' = first + n
    BY <1>4, <1>11 DEF UpTo
  <2> QED BY <1>1, <1>2, <1>7, <1>10, <2>1 DEF first
<1>15. NothingLost'
  BY <1>7, <1>9, <1>13, <1>14 DEF IInv, NothingLost, UpTo
<1>16. NothingLeft'
  BY <1>7 DEF IInv, NothingLeft
<1> QED BY <1>6, <1>8, <1>15, <1>16 DEF IInv

\* The reader's buffer takes from the front of the leftover.
LEMMA Copied ==
  ASSUME IInv, NEW s \in Streams, NEW n \in 1 .. Harvest, CopyOut(s, n)
  PROVE  IInv'
<1>1. /\ leftover[s] \in Chunks /\ delivered[s] = leftover[s].first
      /\ MaxBytes \in Nat /\ n \in Nat
      /\ n \in 1 .. (leftover[s].next - leftover[s].first)
  BY SizesAssumption DEF IInv, TypeOK, NothingLost, Chunks, CopyOut
<1>2. delivered[s] + n \in 0 .. MaxBytes
  BY <1>1 DEF Chunks
<1>3. TypeOK'
  BY <1>1, <1>2 DEF IInv, TypeOK, Chunks, CopyOut, readerOnly, ownerVars, streamVars
<1>4. /\ UNCHANGED <<native, credit, total, arrived, user>>
      /\ \A r \in Streams : leftover'[r].next = leftover[r].next
      /\ \A r \in Streams \ {s} : leftover'[r] = leftover[r] /\ delivered'[r] = delivered[r]
      /\ leftover'[s].first = leftover[s].first + n /\ delivered'[s] = delivered[s] + n
  BY DEF IInv, TypeOK, CopyOut, readerOnly, streamVars
<1>5. NothingLost'
  BY <1>1, <1>4 DEF IInv, NothingLost, UpTo
<1>6. WindowKept' /\ NothingLeft'
  BY <1>4 DEF IInv, WindowKept, NothingLeft, CopyOut, Waits
<1> QED BY <1>3, <1>5, <1>6 DEF IInv

\* The first chunk becomes the leftover, and every other moves up.
LEMMA TakesFirst ==
  ASSUME IInv, NEW s \in Streams, arrived[s] # <<>>, Takes(s),
         leftover[s].first = leftover[s].next,
         UNCHANGED <<native, credit, total, delivered>>
  PROVE  /\ NothingLost' /\ WindowKept'
         /\ arrived' \in [Streams -> Seq(Chunks)] /\ leftover' \in [Streams -> Chunks]
         /\ \A r \in Streams \ {s} : leftover'[r] = leftover[r]
<1>1. arrived[s] \in Seq(Chunks) /\ arrived[s] # <<>>
  BY DEF IInv, TypeOK
<1>2. /\ Len(arrived[s]) \in Nat \ {0}
      /\ Head(arrived[s]) = arrived[s][1] /\ Head(arrived[s]) \in Chunks
      /\ Tail(arrived[s]) \in Seq(Chunks) /\ Len(Tail(arrived[s])) = Len(arrived[s]) - 1
      /\ \A i \in 1 .. Len(arrived[s]) - 1 : Tail(arrived[s])[i] = arrived[s][i + 1]
  BY <1>1
<1>3. /\ arrived' = [arrived EXCEPT ![s] = Tail(arrived[s])]
      /\ leftover' = [leftover EXCEPT ![s] = Head(arrived[s])]
  BY DEF Takes, IInv, TypeOK
<1>4. arrived' \in [Streams -> Seq(Chunks)] /\ leftover' \in [Streams -> Chunks]
  BY <1>2, <1>3 DEF IInv, TypeOK
<1>5. /\ arrived'[s] = Tail(arrived[s]) /\ leftover'[s] = arrived[s][1]
      /\ \A r \in Streams \ {s} : arrived'[r] = arrived[r] /\ leftover'[r] = leftover[r]
  BY <1>2, <1>3 DEF IInv, TypeOK
<1>6. \A i \in 0 .. Len(arrived[s]) - 1 : UpTo(s, i)' = UpTo(s, i + 1)
  BY <1>2, <1>5 DEF UpTo
<1>7. delivered'[s] = leftover'[s].first
  <2>1. arrived[s][1].first = UpTo(s, 0)
    BY <1>2 DEF IInv, NothingLost
  <2> QED BY <1>5, <2>1 DEF IInv, NothingLost, UpTo
<1>8. \A i \in 1 .. Len(arrived'[s]) : arrived'[s][i].first = UpTo(s, i - 1)'
  <2> SUFFICES ASSUME NEW i \in 1 .. Len(arrived[s]) - 1 PROVE arrived'[s][i].first = UpTo(s, i - 1)'
    BY <1>2, <1>5
  <2>1. arrived[s][i + 1].first = UpTo(s, i)
    BY <1>2 DEF IInv, NothingLost
  <2> QED BY <1>2, <1>5, <1>6, <2>1
<1>9. UpTo(s, Len(arrived[s]))' + native'[s].unread = total'[s]
  BY <1>2, <1>5, <1>6 DEF IInv, NothingLost
<1>10. NothingLost'
  <2>1. \A r \in Streams \ {s}, i \in Int : UpTo(r, i)' = UpTo(r, i)
    BY <1>5 DEF UpTo
  <2>2. \A r \in Streams : arrived[r] \in Seq(Chunks)
    BY DEF IInv, TypeOK
  <2>3. \A r \in Streams \ {s} :
          /\ delivered'[r] = leftover'[r].first
          /\ \A i \in 1 .. Len(arrived'[r]) : arrived'[r][i].first = UpTo(r, i - 1)'
          /\ UpTo(r, Len(arrived[r]))' + native'[r].unread = total'[r]
    BY <1>5, <2>1, <2>2 DEF IInv, NothingLost
  <2> QED BY <1>5, <1>7, <1>8, <1>9, <2>3 DEF NothingLost, UpTo
<1>11. WindowKept'
  BY DEF IInv, WindowKept
<1> QED BY <1>4, <1>5, <1>10, <1>11

LEMMA Polls ==
  ASSUME IInv, NEW s \in Streams, Poll(s) \/ WaitPoll(s)
  PROVE  IInv'
<1>1. leftover[s].first = leftover[s].next
  BY DEF IInv, NothingLeft, Poll, WaitPoll, Waits
<1>2. UNCHANGED <<readerOnly, delivered>>
  BY DEF Poll, WaitPoll
<1>3. UNCHANGED <<native, credit, total, delivered>>
  BY <1>2 DEF readerOnly, streamVars
<1>4. /\ user' \in [Streams -> UserAt]
      /\ \A r \in Streams \ {s} : user'[r] = user[r]
  BY DEF IInv, TypeOK, Poll, WaitPoll, Becomes, UserAt
<1>5. CASE arrived[s] # <<>> /\ Takes(s)
  <2>1. /\ NothingLost' /\ WindowKept'
        /\ arrived' \in [Streams -> Seq(Chunks)] /\ leftover' \in [Streams -> Chunks]
        /\ \A r \in Streams \ {s} : leftover'[r] = leftover[r]
    BY <1>1, <1>3, <1>5, TakesFirst
  <2>2. TypeOK'
    BY <1>2, <1>4, <2>1 DEF IInv, TypeOK, readerOnly, ownerVars, streamVars
  <2>3. user'[s] = "reading"
    BY <1>5 DEF IInv, TypeOK, Poll, WaitPoll, Becomes
  <2>4. NothingLeft'
    BY <1>4, <2>1, <2>3 DEF IInv, NothingLeft, Waits
  <2> QED BY <2>1, <2>2, <2>4 DEF IInv
<1>6. CASE UNCHANGED <<arrived, leftover>>
  <2>1. TypeOK'
    BY <1>2, <1>4, <1>6 DEF IInv, TypeOK, readerOnly, ownerVars, streamVars
  <2>2. NothingLost' /\ WindowKept'
    BY <1>3, <1>6, BytesStay DEF dataVars
  <2>3. NothingLeft'
    BY <1>1, <1>4, <1>6 DEF IInv, NothingLeft
  <2> QED BY <2>1, <2>2, <2>3 DEF IInv
<1> QED BY <1>5, <1>6 DEF Poll, WaitPoll

-----------------------------------------------------------------------------
(* The invariant. *)

LEMMA InitInv == Init => IInv
<1> SUFFICES ASSUME Init PROVE IInv
  OBVIOUS
<1>1. <<>> \in Seq(Streams) /\ <<>> \in Seq(Chunks) /\ Len(<<>>) = 0
  OBVIOUS
<1>2. Chunk(0, 0) \in Chunks /\ Window \in Nat /\ MaxBytes \in Nat
  BY SizesAssumption DEF Chunk, Chunks
<1>3. TypeOK
  <2>1. /\ native \in [Streams -> [unread : 0 .. Window, fin : BOOLEAN]]
        /\ credit \in [Streams -> 0 .. Window] /\ total \in [Streams -> 0 .. MaxBytes]
    BY <1>2 DEF Init
  <2>2. /\ arrived \in [Streams -> Seq(Chunks)] /\ leftover \in [Streams -> Chunks]
        /\ delivered \in [Streams -> 0 .. MaxBytes]
    BY <1>1, <1>2 DEF Init
  <2>3. work \in Seq(Streams) /\ streams \in SUBSET Streams /\ left \in SUBSET Streams
    BY <1>1 DEF Init
  <2> QED BY <2>1, <2>2, <2>3 DEF Init, TypeOK, OwnerAt, UserAt
<1>4. NothingLost
  BY <1>1 DEF Init, NothingLost, UpTo, Chunk
<1>5. WindowKept /\ NothingLeft
  BY <1>2 DEF Init, WindowKept, NothingLeft, Chunk
<1> QED BY <1>3, <1>4, <1>5 DEF IInv

LEMMA NextInv == IInv /\ [Next]_vars => IInv'
<1> SUFFICES ASSUME IInv, [Next]_vars PROVE IInv'
  OBVIOUS
<1>1. CASE Owner
  BY <1>1, OwnerOnly, Harvested DEF Owner
<1>2. CASE PassFails \/ CloseBegins \/ CloseJoins
  BY <1>2, OwnerOnly
<1>3. ASSUME NEW s \in Streams, Arrives(s)
      PROVE  IInv'
  BY <1>3, Received, Closed DEF Arrives
<1>4. ASSUME NEW s \in Streams, User(s)
      PROVE  IInv'
  BY <1>4, Calls, Polls, Copied DEF User
<1>5. CASE UNCHANGED vars
  BY <1>5 DEF IInv, TypeOK, NothingLost, UpTo, WindowKept, NothingLeft, vars, ownerVars, streamVars,
              queueVars, readerVars
<1> QED BY <1>1, <1>2, <1>3, <1>4, <1>5 DEF Next

\* The inductive invariant holds in every reachable state.
THEOREM Invariance == Spec => []IInv
BY InitInv, NextInv, PTL DEF Spec

\* No buffer, window or queue is ever out of its bounds, whatever the owner,
\* the callers, the readers and close do in which order.
THEOREM AlwaysTyped == Spec => []TypeOK
<1>1. IInv => TypeOK
  BY DEF IInv
<1> QED BY <1>1, Invariance, PTL

\* harvestStreams and receive: every byte received is given to the reader in its
\* turn, once, or is still somewhere between the two threads.
THEOREM NothingEverLost == Spec => []NothingLost
<1>1. IInv => NothingLost
  BY DEF IInv
<1> QED BY <1>1, Invariance, PTL

-----------------------------------------------------------------------------
(* What is said is true. *)

\* An owner that is past its loop has cleared running, which is never set again.
PastIsStopped == owner \in {"waking", "draining", "closed"} => ~running

\* A stream is marked finished only if it is, or because everything is.
FinishedIsTrue == \A s \in Streams : finished[s] => native[s].fin \/ ~running

\* No chunk in the queue reaches beyond what was received.
ChunksReceived == \A s \in Streams : \A i \in 0 .. Len(arrived[s]) : UpTo(s, i) <= total[s]

Told == PastIsStopped /\ FinishedIsTrue /\ ChunksReceived

LEMMA StoppedStays ==
  ASSUME IInv, Told, [Next]_vars
  PROVE  PastIsStopped' /\ FinishedIsTrue'
<1>1. CASE \/ \E s \in Streams : HarvestStops(s)
           \/ WakesReaders \/ LoopStops \/ CloseBegins \/ NativeClose
  <2>1. /\ UNCHANGED native /\ finished \in [Streams -> BOOLEAN]
        /\ running' => running
    BY <1>1 DEF IInv, TypeOK, HarvestStops, WakesReaders, LoopStops, CloseBegins, NativeClose, streamVars
  <2>2. PastIsStopped'
    BY <1>1 DEF Told, PastIsStopped, HarvestStops, WakesReaders, LoopStops, CloseBegins, NativeClose
  <2>3. \A s \in Streams : finished'[s] => \/ finished[s] \/ native[s].fin
                                           \/ ~running'
    <3>1. CASE \E s \in Streams : HarvestStops(s)
      BY <2>1, <3>1 DEF HarvestStops, AnswersEnd
    <3>2. CASE WakesReaders
      BY <2>1, <3>2 DEF Told, PastIsStopped, WakesReaders
    <3>3. CASE LoopStops \/ CloseBegins \/ NativeClose
      BY <2>1, <3>3 DEF LoopStops, CloseBegins, NativeClose, queueVars
    <3> QED BY <1>1, <3>1, <3>2, <3>3
  <2> QED BY <2>1, <2>2, <2>3 DEF Told, FinishedIsTrue
<1>2. CASE \/ RunTask \/ Drained \/ BurstEnds \/ PassEnds \/ LoopCatches \/ PassFails \/ CloseJoins
  <2>1. UNCHANGED <<running, finished, native>>
    BY <1>2 DEF RunTask, Drained, BurstEnds, PassEnds, LoopCatches, PassFails, CloseJoins,
                ownerVars, streamVars, queueVars
  <2>2. owner' \in {"waking", "draining", "closed"} => owner' = owner
    BY <1>2 DEF RunTask, Drained, BurstEnds, PassEnds, LoopCatches, PassFails, CloseJoins, ownerVars
  <2> QED BY <2>1, <2>2 DEF Told, PastIsStopped, FinishedIsTrue
<1>3. ASSUME NEW s \in Streams, HarvestChunk(s) \/ Arrives(s)
      PROVE  PastIsStopped' /\ FinishedIsTrue'
  <2>1. UNCHANGED <<owner, running, finished>>
    BY <1>3 DEF HarvestChunk, Arrives, Receive, StreamCloses, ownerVars, queueVars
  <2>2. \A r \in Streams : native[r].fin => native'[r].fin
    <3>1. native \in [Streams -> [unread : 0 .. Window, fin : BOOLEAN]]
      BY DEF IInv, TypeOK
    <3>2. CASE HarvestChunk(s)
      BY <3>1, <3>2 DEF HarvestChunk
    <3>3. ASSUME NEW n \in 0 .. Window, NEW fin \in BOOLEAN, Receive(s, n, fin)
          PROVE  \A r \in Streams : native[r].fin => native'[r].fin
      BY <3>1, <3>3 DEF Receive
    <3>4. CASE StreamCloses(s)
      BY <3>1, <3>4 DEF StreamCloses
    <3> QED BY <1>3, <3>2, <3>3, <3>4 DEF Arrives
  <2> QED BY <2>1, <2>2 DEF Told, PastIsStopped, FinishedIsTrue
<1>4. CASE (\E s \in Streams : User(s)) \/ UNCHANGED vars
  <2>1. UNCHANGED <<owner, running, finished, native>>
    BY <1>4 DEF User, CallChecks, CallPuts, CallTimesOut, Poll, ChecksFatal, ChecksFinished, ChecksRunning,
                WaitPoll, CopyOut, readerOnly, vars, ownerVars, streamVars, queueVars
  <2> QED BY <2>1 DEF Told, PastIsStopped, FinishedIsTrue
<1> QED BY <1>1, <1>2, <1>3, <1>4 DEF Next, Owner

LEMMA ChunksStayReceived ==
  ASSUME IInv, Told, [Next]_vars
  PROVE  ChunksReceived'
<1>1. ASSUME UNCHANGED <<total, arrived, leftover>>
      PROVE  ChunksReceived'
  BY <1>1 DEF Told, ChunksReceived, UpTo
<1>2. ASSUME NEW s \in Streams, NEW n \in 0 .. Window, NEW fin \in BOOLEAN, Receive(s, n, fin)
      PROVE  ChunksReceived'
  <2>1. UNCHANGED <<arrived, leftover>>
    BY <1>2 DEF Receive, queueVars, readerVars
  <2>2. \A r \in Streams : total[r] \in Nat /\ total'[r] \in Nat /\ total[r] <= total'[r]
    BY <1>2, SizesAssumption DEF IInv, TypeOK, Receive
  <2>3. \A r \in Streams : \A i \in 0 .. Len(arrived[r]) : UpTo(r, i) \in Nat
    <3> SUFFICES ASSUME NEW r \in Streams, NEW i \in 0 .. Len(arrived[r]) PROVE UpTo(r, i) \in Nat
      OBVIOUS
    <3>1. leftover[r].next \in Nat /\ arrived[r] \in Seq(Chunks)
      <4>1. leftover[r] \in Chunks /\ arrived[r] \in Seq(Chunks)
        BY DEF IInv, TypeOK
      <4> QED BY <4>1 DEF Chunks
    <3>2. CASE i = 0
      BY <3>1, <3>2 DEF UpTo
    <3>3. CASE i # 0
      <4>1. i \in 1 .. Len(arrived[r])
        BY <3>1, <3>3
      <4>2. arrived[r][i] \in Chunks
        BY <3>1, <4>1
      <4> QED BY <3>3, <4>2 DEF UpTo, Chunks
    <3> QED BY <3>2, <3>3
  <2>4. \A r \in Streams : \A i \in 0 .. Len(arrived[r]) : UpTo(r, i) <= total'[r]
    BY <2>2, <2>3 DEF Told, ChunksReceived
  <2> QED BY <2>1, <2>4 DEF ChunksReceived, UpTo
<1>3. ASSUME NEW s \in Streams, HarvestChunk(s)
      PROVE  ChunksReceived'
  <2> DEFINE n == IF native[s].unread < Harvest THEN native[s].unread ELSE Harvest
             first == total[s] - native[s].unread
  <2>1. /\ UNCHANGED <<total, leftover>>
        /\ arrived[s] \in Seq(Chunks)
        /\ arrived'[s] = Append(arrived[s], Chunk(first, first + n))
        /\ \A r \in Streams \ {s} : arrived'[r] = arrived[r]
    BY <1>3 DEF IInv, TypeOK, HarvestChunk, readerVars
  <2>2. first + n <= total[s]
    BY SizesAssumption DEF IInv, TypeOK
  <2> HIDE DEF n, first
  <2>3. /\ Len(arrived'[s]) = Len(arrived[s]) + 1 /\ Len(arrived[s]) \in Nat
        /\ arrived'[s][Len(arrived[s]) + 1].next = first + n
        /\ \A i \in 1 .. Len(arrived[s]) : arrived'[s][i] = arrived[s][i]
    BY <2>1 DEF Chunk
  <2>4. \A i \in 0 .. Len(arrived'[s]) : UpTo(s, i)' <= total'[s]
    <3> SUFFICES ASSUME NEW i \in 0 .. Len(arrived'[s]) PROVE UpTo(s, i)' <= total'[s]
      OBVIOUS
    <3>1. CASE i = Len(arrived[s]) + 1
      BY <2>1, <2>2, <2>3, <3>1 DEF UpTo
    <3>2. CASE i \in 0 .. Len(arrived[s])
      <4>1. UpTo(s, i)' = UpTo(s, i)
        BY <2>1, <2>3, <3>2 DEF UpTo
      <4> QED BY <2>1, <3>2, <4>1 DEF Told, ChunksReceived
    <3> QED BY <2>3, <3>1, <3>2
  <2>5. \A r \in Streams \ {s} : \A i \in 0 .. Len(arrived'[r]) : UpTo(r, i)' <= total'[r]
    BY <2>1 DEF Told, ChunksReceived, UpTo
  <2> QED BY <2>4, <2>5 DEF ChunksReceived
<1>4. ASSUME NEW s \in Streams, NEW n \in 1 .. Harvest, CopyOut(s, n)
      PROVE  ChunksReceived'
  <2>1. /\ UNCHANGED <<total, arrived>>
        /\ \A r \in Streams : leftover'[r].next = leftover[r].next
    BY <1>4 DEF IInv, TypeOK, CopyOut, readerOnly, streamVars
  <2> QED BY <2>1 DEF Told, ChunksReceived, UpTo
<1>5. ASSUME NEW s \in Streams, arrived[s] # <<>>, Takes(s), UNCHANGED total
      PROVE  ChunksReceived'
  <2>1. arrived[s] \in Seq(Chunks) /\ arrived[s] # <<>>
    BY <1>5 DEF IInv, TypeOK
  <2>2. /\ Len(arrived[s]) \in Nat \ {0}
        /\ Head(arrived[s]) = arrived[s][1]
        /\ Len(Tail(arrived[s])) = Len(arrived[s]) - 1
        /\ \A i \in 1 .. Len(arrived[s]) - 1 : Tail(arrived[s])[i] = arrived[s][i + 1]
    BY <2>1
  <2>3. /\ arrived'[s] = Tail(arrived[s]) /\ leftover'[s] = arrived[s][1]
        /\ \A r \in Streams \ {s} : arrived'[r] = arrived[r] /\ leftover'[r] = leftover[r]
    BY <1>5, <2>2 DEF Takes, IInv, TypeOK
  <2>4. \A i \in 0 .. Len(arrived[s]) - 1 : UpTo(s, i)' = UpTo(s, i + 1)
    BY <2>2, <2>3 DEF UpTo
  <2>5. \A i \in 0 .. Len(arrived'[s]) : UpTo(s, i)' <= total'[s]
    BY <1>5, <2>2, <2>3, <2>4 DEF Told, ChunksReceived
  <2>6. \A r \in Streams \ {s} : \A i \in 0 .. Len(arrived'[r]) : UpTo(r, i)' <= total'[r]
    BY <1>5, <2>3 DEF Told, ChunksReceived, UpTo
  <2> QED BY <2>5, <2>6 DEF ChunksReceived
<1>6. ASSUME NEW s \in Streams, Poll(s) \/ WaitPoll(s)
      PROVE  ChunksReceived'
  BY <1>1, <1>5, <1>6 DEF Poll, WaitPoll, readerOnly, streamVars
<1>7. ASSUME NEW s \in Streams,
             CallChecks(s) \/ CallPuts(s) \/ CallTimesOut(s) \/ ChecksFatal(s) \/ ChecksFinished(s)
               \/ ChecksRunning(s) \/ HarvestStops(s) \/ StreamCloses(s)
      PROVE  ChunksReceived'
  BY <1>1, <1>7 DEF CallChecks, CallPuts, CallTimesOut, ChecksFatal, ChecksFinished, ChecksRunning, HarvestStops,
                    StreamCloses, readerOnly, streamVars, queueVars, readerVars
<1>8. CASE \/ RunTask \/ Drained \/ BurstEnds \/ PassEnds \/ LoopCatches \/ LoopStops
           \/ WakesReaders \/ NativeClose \/ PassFails \/ CloseBegins \/ CloseJoins
  BY <1>1, <1>8 DEF RunTask, Drained, BurstEnds, PassEnds, LoopCatches, LoopStops, WakesReaders, NativeClose,
                    PassFails, CloseBegins, CloseJoins, streamVars, queueVars, readerVars
<1>9. CASE UNCHANGED vars
  BY <1>1, <1>9 DEF vars, streamVars, queueVars, readerVars
<1> QED BY <1>2, <1>3, <1>4, <1>6, <1>7, <1>8, <1>9 DEF Next, Owner, Arrives, User

LEMMA InitTold == Init => Told
BY DEF Init, Told, PastIsStopped, FinishedIsTrue, ChunksReceived, UpTo, Chunk

\* A stream is finished in Kotlin only when its end has come, or the connection's.
THEOREM ToldInvariance == Spec => []Told
<1>1. IInv /\ Told /\ [Next]_vars => Told'
  BY StoppedStays, ChunksStayReceived DEF Told
<1> QED BY InitTold, <1>1, Invariance, PTL DEF Spec

-----------------------------------------------------------------------------
(* The promise. *)

\* What the mapping makes of a state.
EndedStreams == {s \in Streams : native[s].fin}
ToldStreams == [s \in Streams |-> IF user[s] \in Answers THEN user[s] ELSE "nothing"]

\* What nobody outside sees: the owner's rounds, a chunk that moves up, a call that goes on.
LEMMA MovesUnseen ==
  ASSUME UNCHANGED <<streams, total, delivered, native, running, fatal, user>>
  PROVE  UNCHANGED Promise!vars
BY DEF Promise!vars

LEMMA ReaderUnseen ==
  ASSUME IInv, NEW s \in Streams, NEW at \in UserAt \ Answers,
         Becomes(s, at), user[s] \notin Answers
  PROVE  ToldStreams' = ToldStreams
<1>1. /\ user \in [Streams -> UserAt] /\ user' = [user EXCEPT ![s] = at]
  BY DEF IInv, TypeOK, Becomes
<1> QED BY <1>1 DEF ToldStreams

\* An answer is told once, and only when it is true.
LEMMA AnswerTells ==
  ASSUME IInv, NEW s \in Streams, NEW answer \in Answers, Becomes(s, answer),
         user[s] \notin Answers, Promise!True(s, answer),
         UNCHANGED <<streams, total, delivered, native, running, fatal>>
  PROVE  Promise!Next
<1>1. /\ user \in [Streams -> UserAt] /\ user' = [user EXCEPT ![s] = answer]
  BY DEF IInv, TypeOK, Becomes
<1>2. ToldStreams[s] = "nothing" /\ ToldStreams' = [ToldStreams EXCEPT ![s] = answer]
  BY <1>1 DEF ToldStreams
<1>3. Promise!Tell(s, answer)
  BY <1>2 DEF Promise!Tell, ToldStreams
<1> QED BY <1>3 DEF Promise!Next, Answers

LEMMA OwnerKeepsPromise ==
  ASSUME IInv, Told, Owner \/ PassFails \/ CloseBegins \/ CloseJoins
  PROVE  [Promise!Next]_(Promise!vars)
<1>1. CASE RunTask
  <2>1. /\ Head(work) \in Streams
        /\ streams' = streams \cup {Head(work)}
        /\ UNCHANGED <<total, delivered, native, running, fatal>>
    BY <1>1 DEF IInv, TypeOK, RunTask, ownerVars, streamVars, readerVars
  <2>2. ToldStreams' = ToldStreams
    <3>1. /\ user \in [Streams -> UserAt]
          /\ user' = [user EXCEPT ![Head(work)] = IF @ = "queued" THEN "reading" ELSE @]
      BY <1>1 DEF IInv, TypeOK, RunTask
    <3> QED BY <2>1, <3>1 DEF ToldStreams, Answers
  <2>3. Promise!Open(Head(work))
    BY <2>1, <2>2 DEF Promise!Open, ToldStreams
  <2> QED BY <2>1, <2>3 DEF Promise!Next
<1>2. CASE LoopCatches
  <2>1. Promise!Fail
    BY <1>2 DEF LoopCatches, Promise!Fail, streamVars, readerVars
  <2> QED BY <2>1 DEF Promise!Next
<1>3. CASE LoopStops
  <2>1. Promise!Stop
    BY <1>3 DEF LoopStops, Promise!Stop, streamVars, readerVars
  <2> QED BY <2>1 DEF Promise!Next
<1>4. CASE CloseBegins
  <2>1. CASE running
    <3>1. Promise!Stop
      BY <1>4, <2>1 DEF CloseBegins, Promise!Stop, streamVars, readerVars
    <3> QED BY <3>1 DEF Promise!Next
  <2>2. CASE ~running
    BY <1>4, <2>2, MovesUnseen DEF CloseBegins, streamVars, readerVars
  <2> QED BY <2>1, <2>2
<1>5. CASE Drained \/ BurstEnds \/ PassEnds \/ WakesReaders \/ NativeClose \/ PassFails \/ CloseJoins
  BY <1>5, MovesUnseen DEF Drained, BurstEnds, PassEnds, WakesReaders, NativeClose, PassFails, CloseJoins,
                           ownerVars, streamVars, readerVars
<1>6. ASSUME NEW s \in Streams, HarvestStops(s)
      PROVE  UNCHANGED Promise!vars
  BY <1>6, MovesUnseen DEF HarvestStops, streamVars, readerVars
<1>7. ASSUME NEW s \in Streams, HarvestChunk(s)
      PROVE  UNCHANGED Promise!vars
  <2>1. UNCHANGED <<streams, total, delivered, running, fatal, user>>
    BY <1>7 DEF HarvestChunk, ownerVars, readerVars
  <2>2. \A r \in Streams : native'[r].fin = native[r].fin
    BY <1>7 DEF IInv, TypeOK, HarvestChunk
  <2> QED BY <2>1, <2>2 DEF Promise!vars
<1> QED BY <1>1, <1>2, <1>3, <1>4, <1>5, <1>6, <1>7 DEF Owner

LEMMA PeerKeepsPromise ==
  ASSUME IInv, NEW s \in Streams, Arrives(s)
  PROVE  Promise!Next
<1>1. native \in [Streams -> [unread : 0 .. Window, fin : BOOLEAN]]
  BY DEF IInv, TypeOK
<1>2. ASSUME NEW n \in 0 .. Window, NEW fin \in BOOLEAN, Receive(s, n, fin)
      PROVE  Promise!Next
  <2>1. EndedStreams' = (IF fin THEN EndedStreams \cup {s} ELSE EndedStreams) /\ s \notin EndedStreams
    BY <1>1, <1>2 DEF Receive, EndedStreams
  <2>2. n \in 0 .. MaxBytes
    BY <1>2, SizesAssumption DEF Receive, IInv, TypeOK
  <2>3. Promise!Arrive(s, n, fin)
    BY <1>2, <2>1 DEF Receive, Promise!Arrive, EndedStreams, ownerVars, readerVars
  <2> QED BY <2>2, <2>3 DEF Promise!Next
<1>3. CASE StreamCloses(s)
  <2>1. EndedStreams' = EndedStreams \cup {s} /\ s \notin EndedStreams
    BY <1>1, <1>3 DEF StreamCloses, EndedStreams
  <2>2. total[s] + 0 <= MaxBytes /\ total' = [total EXCEPT ![s] = @ + 0] /\ 0 \in 0 .. MaxBytes
    BY <1>3, SizesAssumption DEF IInv, TypeOK, StreamCloses
  <2>3. Promise!Arrive(s, 0, TRUE)
    BY <1>3, <2>1, <2>2 DEF StreamCloses, Promise!Arrive, EndedStreams, ownerVars, readerVars
  <2> QED BY <2>2, <2>3 DEF Promise!Next
<1> QED BY <1>2, <1>3 DEF Arrives

LEMMA UserKeepsPromise ==
  ASSUME IInv, Told, NEW s \in Streams, User(s)
  PROVE  [Promise!Next]_(Promise!vars)
<1> USE DEF Answers
<1>1. ASSUME NEW at \in UserAt \ Answers, Becomes(s, at), user[s] \notin Answers,
             UNCHANGED <<streams, total, delivered, native, running, fatal>>
      PROVE  UNCHANGED Promise!vars
  <2>1. ToldStreams' = ToldStreams
    BY <1>1, ReaderUnseen
  <2> QED BY <1>1, <2>1 DEF Promise!vars, ToldStreams
<1>2. CASE CallChecks(s)
  <2>1. /\ user[s] \notin Answers
        /\ UNCHANGED <<streams, total, delivered, native, running, fatal>>
    BY <1>2 DEF CallChecks, ownerVars, streamVars, readerVars
  <2>2. CASE fatal \/ ~running
    BY <1>2, <2>1, <2>2, AnswerTells DEF CallChecks, Promise!True
  <2>3. CASE ~(fatal \/ ~running)
    BY <1>1, <1>2, <2>1, <2>3 DEF CallChecks, UserAt
  <2> QED BY <2>2, <2>3
<1>3. CASE CallPuts(s)
  BY <1>1, <1>3 DEF CallPuts, UserAt, ownerVars, streamVars, readerVars
<1>4. CASE CallTimesOut(s)
  BY <1>4, AnswerTells DEF CallTimesOut, Promise!True, ownerVars, streamVars, readerVars
<1>5. CASE Poll(s) \/ WaitPoll(s)
  <2>1. UNCHANGED <<streams, total, delivered, native, running, fatal>>
    BY <1>5 DEF Poll, WaitPoll, readerOnly, ownerVars, streamVars
  <2>2. \/ UNCHANGED user
        \/ user[s] \notin Answers /\ (Becomes(s, "empty") \/ Becomes(s, "reading"))
    BY <1>5 DEF Poll, WaitPoll
  <2> QED BY <1>1, <2>1, <2>2, MovesUnseen DEF UserAt
<1>6. CASE ChecksFatal(s) \/ ChecksFinished(s) \/ ChecksRunning(s)
  <2>1. /\ user[s] \notin Answers
        /\ UNCHANGED <<streams, total, delivered, native, running, fatal>>
    BY <1>6 DEF ChecksFatal, ChecksFinished, ChecksRunning, readerOnly, ownerVars, streamVars, readerVars
  <2>2. \/ fatal /\ Becomes(s, "error")
        \/ (finished[s] \/ ~running) /\ Becomes(s, "end")
        \/ Becomes(s, "timeout")
        \/ \E at \in {"noFatal", "unfinished", "waiting"} : Becomes(s, at)
    BY <1>6 DEF ChecksFatal, ChecksFinished, ChecksRunning
  <2>3. finished[s] => native[s].fin \/ ~running
    BY DEF Told, FinishedIsTrue
  <2>4. CASE fatal /\ Becomes(s, "error")
    BY <2>1, <2>4, AnswerTells DEF Promise!True
  <2>5. CASE (finished[s] \/ ~running) /\ Becomes(s, "end")
    BY <2>1, <2>3, <2>5, AnswerTells DEF Promise!True
  <2>6. CASE Becomes(s, "timeout")
    BY <2>1, <2>6, AnswerTells DEF Promise!True
  <2>7. CASE \E at \in {"noFatal", "unfinished", "waiting"} : Becomes(s, at)
    BY <1>1, <2>1, <2>7 DEF UserAt
  <2> QED BY <2>2, <2>4, <2>5, <2>6, <2>7
<1>7. ASSUME NEW n \in 1 .. Harvest, CopyOut(s, n)
      PROVE  Promise!Next
  <2>1. /\ user[s] = "reading"
        /\ n \in 1 .. (leftover[s].next - leftover[s].first)
        /\ delivered' = [delivered EXCEPT ![s] = @ + n]
        /\ UNCHANGED <<streams, total, native, running, fatal, user>>
    BY <1>7 DEF CopyOut, readerOnly, ownerVars, streamVars
  <2>2. /\ leftover[s].next \in 0 .. MaxBytes /\ leftover[s].first \in 0 .. MaxBytes
        /\ arrived[s] \in Seq(Chunks) /\ total[s] \in 0 .. MaxBytes
        /\ delivered[s] = leftover[s].first
    BY DEF IInv, TypeOK, NothingLost, Chunks
  <2>3. leftover[s].next <= total[s]
    BY <2>2 DEF Told, ChunksReceived, UpTo
  <2>4. n <= total[s] - delivered[s] /\ n \in 1 .. MaxBytes
    BY <2>1, <2>2, <2>3, SizesAssumption
  <2>5. ToldStreams[s] = "nothing"
    BY <2>1 DEF ToldStreams
  <2>6. Promise!Give(s, n)
    BY <2>1, <2>4, <2>5 DEF Promise!Give, ToldStreams
  <2> QED BY <2>4, <2>6 DEF Promise!Next
<1> QED BY <1>2, <1>3, <1>4, <1>5, <1>6, <1>7 DEF User

LEMMA StepKeepsPromise ==
  ASSUME IInv, Told, [Next]_vars
  PROVE  [Promise!Next]_(Promise!vars)
<1>1. CASE UNCHANGED vars
  BY <1>1, MovesUnseen DEF vars, ownerVars, streamVars, readerVars
<1> QED BY <1>1, OwnerKeepsPromise, PeerKeepsPromise, UserKeepsPromise DEF Next

LEMMA InitKeepsPromise == Init => Promise!Init
BY DEF Init, Promise!Init, Answers

-----------------------------------------------------------------------------
(* The life of the connection. *)

USE DEF This

LEMMA LifeUnseen ==
  ASSUME UNCHANGED <<running, fatal, socketOpen>>, LifeAt' = LifeAt
  PROVE  UNCHANGED Life!vars
BY DEF Life!vars

LEMMA StepLives ==
  ASSUME IInv, Told, [Next]_vars
  PROVE  [Life!Next]_(Life!vars)
<1>1. CASE \/ RunTask \/ Drained \/ BurstEnds \/ PassFails \/ WakesReaders
           \/ \E s \in Streams : HarvestChunk(s) \/ HarvestStops(s)
  BY <1>1, LifeUnseen DEF RunTask, Drained, BurstEnds, PassFails, WakesReaders, HarvestChunk, HarvestStops,
                          ownerVars, LifeAt
<1>2. CASE (\E s \in Streams : Arrives(s) \/ User(s)) \/ UNCHANGED vars
  BY <1>2, LifeUnseen DEF Arrives, Receive, StreamCloses, User, CallChecks, CallPuts, CallTimesOut, Poll,
                          ChecksFatal, ChecksFinished, ChecksRunning, WaitPoll, CopyOut, readerOnly,
                          vars, ownerVars, LifeAt
<1>3. CASE PassEnds
  <2>1. CASE running
    BY <1>3, <2>1, LifeUnseen DEF PassEnds, LifeAt
  <2>2. CASE ~running
    <3>1. LifeAt = "looping" /\ LifeAt' = "left"
      BY <1>3, <2>2 DEF PassEnds, LifeAt
    <3>2. Life!Leave("this")
      BY <1>3, <2>2, <3>1 DEF PassEnds, Life!Leave, Life!Goes
    <3> QED BY <3>2 DEF Life!Next
  <2> QED BY <2>1, <2>2
<1>4. CASE LoopCatches
  <2>1. LifeAt = "looping" /\ LifeAt' = "left"
    BY <1>4 DEF LoopCatches, LifeAt
  <2>2. Life!Fail("this")
    BY <1>4, <2>1 DEF LoopCatches, Life!Fail, Life!Goes
  <2> QED BY <2>2 DEF Life!Next
<1>5. CASE LoopStops
  <2>1. LifeAt = "left" /\ LifeAt' = "stopped"
    BY <1>5 DEF LoopStops, LifeAt
  <2>2. Life!Stop("this")
    BY <1>5, <2>1 DEF LoopStops, Life!Stop, Life!Goes
  <2> QED BY <2>2 DEF Life!Next
<1>6. CASE NativeClose
  <2>1. LifeAt = "stopped" /\ LifeAt' = "done"
    BY <1>6 DEF NativeClose, LifeAt
  <2>2. Life!End("this")
    BY <1>6, <2>1 DEF NativeClose, Life!End, Life!Goes
  <2> QED BY <2>2 DEF Life!Next
<1>7. CASE CloseBegins
  <2>1. CASE ~running
    BY <1>7, <2>1, LifeUnseen DEF CloseBegins, LifeAt
  <2>2. CASE running
    <3>1. owner \in OwnerAt \ {"waking", "draining", "closed"}
      BY <2>2 DEF IInv, TypeOK, Told, PastIsStopped
    <3>2. LifeAt \in {"looping", "left"} /\ LifeAt' = LifeAt
      BY <1>7, <3>1 DEF CloseBegins, OwnerAt, LifeAt
    <3>3. Life!Tell("this")
      BY <1>7, <2>2, <3>2 DEF CloseBegins, Life!Tell
    <3> QED BY <3>3 DEF Life!Next
  <2> QED BY <2>1, <2>2
<1>8. CASE CloseJoins
  <2>1. LifeAt = "done" /\ LifeAt' = LifeAt
    BY <1>8 DEF CloseJoins, ownerVars, LifeAt
  <2>2. Life!Release("this")
    BY <1>8, <2>1 DEF CloseJoins, ownerVars, Life!Release
  <2> QED BY <2>2 DEF Life!Next
<1> QED BY <1>1, <1>2, <1>3, <1>4, <1>5, <1>6, <1>7, <1>8 DEF Next, Owner

LEMMA InitLives == Init => Life!Init
BY DEF Init, Life!Init, LifeAt

\* run and close: the connection these streams are on lives as the connections
\* that ReconnectingQuic opens, replaces and closes do.
THEOREM ConnectionLives == Spec => Life!Spec
<1>1. IInv /\ Told /\ [Next]_vars => [Life!Next]_(Life!vars)
  BY StepLives
<1> QED BY <1>1, InitLives, Invariance, ToldInvariance, PTL DEF Spec, Life!Spec

-----------------------------------------------------------------------------
(* Both promises. *)

\* However the owner, the callers and close interleave, those who open and read
\* streams see StreamPromise: each byte once and before any answer, an end only
\* of a stream that ended or a connection that is over, an error only of one that
\* failed or is over; and the connection lives as its opener is told it does.
THEOREM ReadersKeepPromise == Spec => ImplementsPromise
<1>1. IInv /\ Told /\ [Next]_vars => [Promise!Next]_(Promise!vars)
  BY StepKeepsPromise
<1>2. Spec => Promise!Spec
  BY <1>1, InitKeepsPromise, Invariance, ToldInvariance, PTL DEF Spec, Promise!Spec
<1> QED BY <1>2, ConnectionLives DEF ImplementsPromise
=============================================================================
