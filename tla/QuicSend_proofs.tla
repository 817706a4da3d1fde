--------------------------- MODULE QuicSend_proofs ---------------------------
(***************************************************************************)
(* For every set of streams and all sizes: the bridge's send buffers hold  *)
(* exactly what may still be needed, FIN is the last thing a stream sends, *)
(* a stream's end never fails the connection, whoever waits comes nearer   *)
(* with everybody served, and a writer is promised what SendPromise says.  *)
(***************************************************************************)
EXTENDS QuicSend, SequenceTheorems, WellFoundedInduction, TLAPS

\* next_write points into the list, and a FIN is written only when asked for.
NextListed == nextWrite # None => IsOpen(nextWrite)
FinWasAsked == \A s \in Streams : stream[s].finWritten => stream[s].finRequested

\* nativeWrite passes over a stream that is gone, so ngtcp2 never answers that it
\* knows of no such stream, which would fail the connection.
NoneForgotten == ~failed

\* The inductive invariant.  The bounds in TypeOK on what ngtcp2 holds follow
\* from NothingDropped; FinIsLast needs FinWasAsked, because it is the request
\* for a FIN that refuses further bytes; and NoneForgotten needs the types, for
\* the choice of a stream to be the choice of one that offers something.
IInv == TypeOK /\ NothingDropped /\ FinIsLast /\ NoneForgotten /\ NextListed /\ FinWasAsked

-----------------------------------------------------------------------------
(* The walk over the list. *)

LEMMA PlaceInList ==
  ASSUME TypeOK, NEW s, IsOpen(s)
  PROVE  /\ Place(s) \in 1 .. Len(list)
         /\ list[Place(s)] = s
         /\ s \in Streams
         /\ Len(list) \in Nat
  <1>1. /\ Len(list) \in Nat
        /\ DOMAIN list = 1 .. Len(list)
        /\ \A i \in 1 .. Len(list) : list[i] \in Streams
    BY LenProperties, ElementOfSeq DEF TypeOK
  <1>2. PICK i \in 1 .. Len(list) : list[i] = s
    BY DEF IsOpen, Contains
  <1>3. Place(s) \in DOMAIN list /\ list[Place(s)] = s
    BY <1>1, <1>2 DEF Place
  <1>4. QED
    BY <1>1, <1>3

LEMMA TurnIsNat ==
  ASSUME TypeOK, NextListed, NEW s, IsOpen(s)
  PROVE  Turn(s) \in Nat
  <1>1. CASE nextWrite = None
    BY <1>1, PlaceInList DEF Turn
  <1>2. CASE nextWrite # None
    <2>1. Place(nextWrite) \in 1 .. Len(list) /\ Place(s) \in 1 .. Len(list) /\ Len(list) \in Nat
      BY <1>2, PlaceInList DEF NextListed
    <2>2. QED
      BY <1>2, <2>1 DEF Turn
  <1>3. QED
    BY <1>1, <1>2

\* A set of naturals that is not empty has a least element.
LEMMA LeastNatural ==
  ASSUME NEW T, T \subseteq Nat, T # {}
  PROVE  \E x \in T : \A y \in T : x <= y
  <1> DEFINE Less == {ss \in Nat \X Nat : ss[1] < ss[2]}
  <1>1. IsWellFoundedOn(Less, Nat)
    <2>1. Less = OpToRel(<, Nat)
      BY Zenon DEF OpToRel
    <2>2. QED
      BY <2>1, NatLessThanWellFounded, Zenon
  <1>2. PICK x \in T : \A y \in T : ~ (<<y, x>> \in Less)
    <2> HIDE DEF Less
    <2>1. QED
      BY <1>1, WFMin
  <1>3. ASSUME NEW y \in T PROVE x <= y
    <2>1. x \in Nat /\ y \in Nat
      OBVIOUS
    <2>2. ~ (y < x)
      BY <1>2, <2>1
    <2>3. QED
      BY <2>1, <2>2
  <1>4. QED
    BY <1>3

\* What nativeWrite hands to ngtcp2, when it hands it a stream, is an open
\* stream that has something to offer.
LEMMA ChosenOffers ==
  ASSUME TypeOK, NextListed, Chosen # None
  PROVE  Chosen \in Streams /\ IsOpen(Chosen) /\ Offers(Chosen)
  <1> DEFINE Turns == {Turn(s) : s \in Offering}
  <1>1. Offering # {}
    BY DEF Chosen
  <1>2. Turns \subseteq Nat /\ Turns # {}
    BY <1>1, TurnIsNat DEF Offering
  <1>3. PICK x \in Turns : \A y \in Turns : x <= y
    BY <1>2, LeastNatural
  <1>4. PICK s \in Offering : x = Turn(s)
    BY <1>3
  <1>5. \A t \in Offering : Turn(s) <= Turn(t)
    BY <1>3, <1>4
  <1>6. Chosen \in Offering
    BY <1>1, <1>4, <1>5 DEF Chosen
  <1>7. QED
    BY <1>6 DEF Offering

LEMMA AfterIsOpen ==
  ASSUME TypeOK, NEW s, IsOpen(s)
  PROVE  After(s) \in Streams /\ IsOpen(After(s))
  <1>1. Place(s) \in 1 .. Len(list) /\ Len(list) \in Nat /\ list \in Seq(Streams)
    BY PlaceInList DEF TypeOK
  <1>2. \E i \in 1 .. Len(list) : After(s) = list[i]
    <2>1. CASE Place(s) < Len(list)
      <3>1. Place(s) + 1 \in 1 .. Len(list) /\ After(s) = list[Place(s) + 1]
        BY <1>1, <2>1 DEF After
      <3>2. QED
        BY <3>1
    <2>2. CASE ~(Place(s) < Len(list))
      <3>1. list # <<>> /\ 1 \in 1 .. Len(list)
        BY <1>1
      <3>2. Head(list) = list[1]
        BY <1>1, <3>1
      <3>3. QED
        BY <2>2, <3>1, <3>2 DEF After
    <2>3. QED
      BY <2>1, <2>2
  <1>3. QED
    BY <1>1, <1>2, ElementOfSeq DEF IsOpen, Contains

-----------------------------------------------------------------------------
(* Initially. *)

THEOREM InitIInv == Init => IInv
  <1> SUFFICES ASSUME Init PROVE IInv
    OBVIOUS
  <1>1. TypeOK
    <2>1. list \in Seq(Streams) /\ IsInjective(list)
      <3>1. list \in Seq(Streams) /\ Len(list) = 0
        BY EmptySeq DEF Init
      <3>2. DOMAIN list = {}
        BY <3>1, LenProperties
      <3>3. QED
        BY <3>1, <3>2 DEF IsInjective
    <2>2. stream \in [Streams -> QuicStream]
      BY SizesAssumption DEF Init, Empty, QuicStream
    <2>3. 0 \in 0 .. QueueMax /\ 0 \in 0 .. MaxBuffer /\ MaxCredit \in 0 .. MaxCredit
      BY SizesAssumption
    <2>4. /\ credit \in [Streams -> 0 .. MaxCredit]
          /\ inFlight \in [Streams -> 0 .. MaxBuffer]
          /\ owed \in [Streams -> 0 .. MaxBuffer]
      BY <2>3, Zenon DEF Init
    <2>5. QED
      BY <2>1, <2>2, <2>3, <2>4, Zenon DEF Init, TypeOK
  <1>2. NothingDropped /\ FinIsLast /\ NoneForgotten /\ FinWasAsked
    BY DEF Init, Empty, NothingDropped, Pending, FinIsLast, NoneForgotten, FinWasAsked
  <1>3. NextListed
    BY DEF Init, NextListed
  <1>4. QED
    BY <1>1, <1>2, <1>3 DEF IInv

-----------------------------------------------------------------------------
(* Every step. *)

\* What a stream's record is, spelled out for the arithmetic.
LEMMA StreamFields ==
  ASSUME TypeOK, NEW s \in Streams
  PROVE  /\ stream[s].sendLen \in 0 .. MaxBuffer
         /\ stream[s].sent \in 0 .. MaxBuffer
         /\ stream[s].acked \in 0 .. MaxBuffer
         /\ stream[s].finRequested \in BOOLEAN
         /\ stream[s].finWritten \in BOOLEAN
         /\ stream[s].gone \in BOOLEAN
         /\ inFlight[s] \in 0 .. MaxBuffer
         /\ owed[s] \in 0 .. MaxBuffer
         /\ credit[s] \in 0 .. MaxCredit
  BY DEF TypeOK, QuicStream

LEMMA OpenStep ==
  ASSUME IInv, NEW s \in Streams, OpenStream(s)
  PROVE  IInv'
  <1>1. list \in Seq(Streams) /\ <<s>> \in Seq(Streams) /\ Len(<<s>>) = 1 /\ <<s>>[1] = s
    BY DEF IInv, TypeOK
  <1>2. /\ list' \in Seq(Streams)
        /\ Len(list) \in Nat
        /\ Len(list') = 1 + Len(list)
        /\ \A i \in 1 .. 1 + Len(list) : list'[i] = IF i <= 1 THEN s ELSE list[i - 1]
        /\ DOMAIN list' = 1 .. 1 + Len(list)
        /\ DOMAIN list = 1 .. Len(list)
    BY <1>1, ConcatProperties, LenProperties DEF OpenStream
  <1>3. IsInjective(list')
    <2> SUFFICES ASSUME NEW a \in DOMAIN list', NEW b \in DOMAIN list', list'[a] = list'[b]
                 PROVE  a = b
      BY DEF IsInjective
    <2>1. \A i \in 1 .. Len(list) : list[i] # s
      BY DEF OpenStream, IsOpen, Contains
    <2>2. CASE a = 1 \/ b = 1
      BY <1>2, <2>1, <2>2
    <2>3. CASE a # 1 /\ b # 1
      <3>1. a - 1 \in DOMAIN list /\ b - 1 \in DOMAIN list /\ list[a - 1] = list[b - 1]
        BY <1>2, <2>3
      <3>2. a - 1 = b - 1
        BY <3>1 DEF IInv, TypeOK, IsInjective
      <3>3. QED
        BY <3>2, <1>2
    <2>4. QED
      BY <2>2, <2>3
  <1>4. NextListed'
    <2> SUFFICES ASSUME nextWrite' # None PROVE IsOpen(nextWrite)'
      BY DEF NextListed
    <2>1. nextWrite' = nextWrite
      BY DEF OpenStream
    <2>2. PICK i \in 1 .. Len(list) : list[i] = nextWrite
      BY <2>1 DEF IInv, NextListed, IsOpen, Contains
    <2>3. i + 1 \in 1 .. Len(list') /\ list'[i + 1] = nextWrite'
      BY <1>2, <2>1, <2>2
    <2>4. QED
      BY <2>3 DEF IsOpen, Contains
  <1>5. TypeOK' /\ NothingDropped' /\ FinIsLast' /\ NoneForgotten' /\ FinWasAsked'
    BY <1>2, <1>3 DEF IInv, OpenStream, TypeOK, ngtcp2, NothingDropped, Pending, FinIsLast,
                      NoneForgotten, FinWasAsked
  <1>6. QED
    BY <1>4, <1>5 DEF IInv

\* The rest of a step that leaves the list and next_write alone.
LEMMA SameList ==
  ASSUME IInv, UNCHANGED <<list, nextWrite>>
  PROVE  NextListed' /\ list' \in Seq(Streams) /\ IsInjective(list') /\ nextWrite' \in Streams \cup {None}
  BY DEF IInv, TypeOK, NextListed, IsOpen

LEMMA SendStep ==
  ASSUME IInv, NEW s \in Streams, NEW n \in 0 .. MaxBuffer, NEW fin \in BOOLEAN, Send(s, n, fin)
  PROVE  IInv'
  <1>1. /\ stream \in [Streams -> QuicStream] /\ owed \in [Streams -> 0 .. MaxBuffer]
        /\ stream' = [stream EXCEPT ![s].sendLen = @ + n, ![s].finRequested = @ \/ fin]
        /\ owed' = [owed EXCEPT ![s] = @ + n]
        /\ UNCHANGED <<list, nextWrite, txCount, credit, inFlight, shut, offered, failed>>
    BY DEF Send, IInv, TypeOK, ngtcp2
  <1>2. /\ ~stream[s].finRequested /\ ~stream[s].finWritten
        /\ stream[s].sendLen + n <= MaxBuffer
    BY DEF Send, Accepts, IInv, FinWasAsked
  <1>3. /\ \A t \in Streams : t # s => stream'[t] = stream[t] /\ owed'[t] = owed[t]
        /\ stream'[s].sendLen = stream[s].sendLen + n
        /\ stream'[s].sent = stream[s].sent /\ stream'[s].acked = stream[s].acked
        /\ stream'[s].finWritten = stream[s].finWritten
        /\ owed'[s] = owed[s] + n
    BY <1>1, Zenon DEF QuicStream
  <1>4. stream[s].sendLen + n \in 0 .. MaxBuffer /\ owed[s] + n \in 0 .. MaxBuffer
    BY <1>2, StreamFields, SizesAssumption DEF IInv, NothingDropped, Pending
  <1>5. stream' \in [Streams -> QuicStream]
    BY <1>1, <1>4, Zenon DEF QuicStream
  <1>6. TypeOK'
    BY <1>1, <1>4, <1>5, SameList DEF IInv, TypeOK
  <1>7. NothingDropped'
    <2> SUFFICES ASSUME NEW t \in Streams
                 PROVE  /\ stream'[t].sendLen - stream'[t].sent = owed'[t]
                        /\ stream'[t].sent - stream'[t].acked = inFlight'[t]
      BY DEF NothingDropped, Pending
    <2>1. CASE t = s
      BY <1>1, <1>3, <2>1, StreamFields DEF Pending, IInv, NothingDropped
    <2>2. CASE t # s
      BY <1>1, <1>3, <2>2 DEF Pending, IInv, NothingDropped
    <2>3. QED
      BY <2>1, <2>2
  <1>8. FinIsLast' /\ FinWasAsked'
    BY <1>2, <1>3 DEF IInv, FinIsLast, FinWasAsked
  <1>9. NoneForgotten' /\ NextListed'
    BY <1>1, SameList DEF IInv, NoneForgotten
  <1>10. QED
    BY <1>6, <1>7, <1>8, <1>9 DEF IInv

\* A datagram queued or written touches nothing but the count.
LEMMA DatagramStep ==
  ASSUME IInv, SendDatagram \/ WriteDatagram
  PROVE  IInv'
  <1>1. txCount' \in 0 .. QueueMax
    BY SizesAssumption DEF SendDatagram, Push, WriteDatagram, IInv, TypeOK
  <1>2. UNCHANGED <<list, nextWrite, stream, credit, inFlight, shut, owed, offered, failed>>
    BY DEF SendDatagram, WriteDatagram, ngtcp2
  <1>3. TypeOK'
    BY <1>1, <1>2, SameList DEF IInv, TypeOK
  <1>4. QED
    BY <1>2, <1>3, SameList DEF IInv, NothingDropped, Pending, FinIsLast, NoneForgotten, FinWasAsked

LEMMA WriteStreamStep ==
  ASSUME IInv, NEW n \in 1 .. MaxBuffer, WriteStream(n)
  PROVE  IInv'
  <1> DEFINE s == Chosen
             fin == stream[s].finRequested /\ n = Pending(s)
  <1>1. /\ stream \in [Streams -> QuicStream] /\ owed \in [Streams -> 0 .. MaxBuffer]
        /\ inFlight \in [Streams -> 0 .. MaxBuffer] /\ credit \in [Streams -> 0 .. MaxCredit]
        /\ n \in 1 .. Pending(s) /\ n <= credit[s]
        /\ stream' = [stream EXCEPT ![s].sent = @ + n, ![s].finWritten = @ \/ fin]
        /\ nextWrite' = After(s)
        /\ credit' = [credit EXCEPT ![s] = @ - n]
        /\ inFlight' = [inFlight EXCEPT ![s] = @ + n]
        /\ owed' = [owed EXCEPT ![s] = @ - n]
        /\ shut' = IF fin THEN shut \cup {s} ELSE shut
        /\ offered' = s
        /\ UNCHANGED <<list, txCount, failed>>
    BY DEF WriteStream, IInv, TypeOK
  <1>2. s \in Streams /\ IsOpen(s)
    BY ChosenOffers DEF WriteStream, IInv
  <1>3. IsOpen(After(s)) /\ After(s) \in Streams
    BY <1>2, AfterIsOpen DEF IInv
  <1>4. fin \in BOOLEAN
    OBVIOUS
  <1> HIDE DEF s, fin
  <1>5. /\ \A t \in Streams : t # s => /\ stream'[t] = stream[t] /\ owed'[t] = owed[t]
                                       /\ inFlight'[t] = inFlight[t]
        /\ stream'[s].sendLen = stream[s].sendLen
        /\ stream'[s].sent = stream[s].sent + n /\ stream'[s].acked = stream[s].acked
        /\ stream'[s].finWritten = (stream[s].finWritten \/ fin)
        /\ stream'[s].finRequested = stream[s].finRequested
        /\ owed'[s] = owed[s] - n /\ inFlight'[s] = inFlight[s] + n
    BY <1>1, <1>2, Zenon DEF QuicStream
  <1>6. /\ stream[s].sent + n \in 0 .. MaxBuffer /\ owed[s] - n \in 0 .. MaxBuffer
        /\ inFlight[s] + n \in 0 .. MaxBuffer /\ credit[s] - n \in 0 .. MaxCredit
    BY <1>1, <1>2, StreamFields, SizesAssumption DEF IInv, NothingDropped, Pending
  <1>7. stream' \in [Streams -> QuicStream]
    BY <1>1, <1>4, <1>6, ZenonT(90) DEF QuicStream
  <1>8. TypeOK'
    BY <1>1, <1>2, <1>3, <1>6, <1>7 DEF IInv, TypeOK
  <1>9. NothingDropped'
    <2> SUFFICES ASSUME NEW t \in Streams
                 PROVE  /\ stream'[t].sendLen - stream'[t].sent = owed'[t]
                        /\ stream'[t].sent - stream'[t].acked = inFlight'[t]
      BY DEF NothingDropped, Pending
    <2>1. CASE t = s
      BY <1>5, <2>1, StreamFields DEF Pending, IInv, NothingDropped
    <2>2. CASE t # s
      BY <1>5, <2>2 DEF Pending, IInv, NothingDropped
    <2>3. QED
      BY <2>1, <2>2
  <1>10. FinIsLast' /\ FinWasAsked'
    <2>1. stream[s].finWritten => n <= 0
      BY <1>1, <1>2, StreamFields DEF IInv, FinIsLast, NothingDropped
    <2>2. ~stream[s].finWritten
      BY <2>1
    <2>3. fin => stream[s].finRequested /\ owed[s] - n = 0
      BY <1>2, StreamFields DEF fin, IInv, NothingDropped
    <2>4. QED
      BY <1>5, <2>2, <2>3 DEF IInv, FinIsLast, FinWasAsked
  <1>11. NoneForgotten' /\ NextListed'
    BY <1>1, <1>3 DEF IInv, NoneForgotten, NextListed, IsOpen
  <1>12. QED
    BY <1>8, <1>9, <1>10, <1>11 DEF IInv

\* A call that moves no byte: a FIN sent alone, a stream refused.
LEMMA WriteFinStep ==
  ASSUME IInv, WriteFin \/ WriteRefused
  PROVE  IInv'
  <1>1. /\ Chosen \in Streams
        /\ ~stream[Chosen].gone
    BY ChosenOffers DEF WriteFin, WriteRefused, IInv, Offers
  <1>2. /\ UNCHANGED <<list, nextWrite, stream, txCount, credit, inFlight, owed>>
        /\ shut' \in {shut, shut \cup {Chosen}}
        /\ offered' = Chosen
    BY DEF WriteFin, WriteRefused, ngtcp2
  <1>3. NoneForgotten'
    BY <1>1 DEF WriteFin, WriteRefused, IInv, NoneForgotten
  <1>4. TypeOK'
    <2>1. failed' \in BOOLEAN
      BY DEF WriteFin, WriteRefused, IInv, TypeOK
    <2>2. shut' \in SUBSET Streams /\ offered' \in Streams \cup {None}
      BY <1>1, <1>2 DEF IInv, TypeOK
    <2>3. QED
      BY <1>2, <2>1, <2>2, SameList DEF IInv, TypeOK
  <1>5. NothingDropped' /\ FinIsLast' /\ FinWasAsked' /\ NextListed'
    BY <1>2, SameList DEF IInv, NothingDropped, Pending, FinIsLast, FinWasAsked
  <1>6. QED
    BY <1>3, <1>4, <1>5 DEF IInv

\* The buffer that starts over was sent to its last byte: nothing owed is lost.
LEMMA AckedStep ==
  ASSUME IInv, NEW s \in Streams, NEW n \in 1 .. MaxBuffer, Acked(s, n)
  PROVE  IInv'
  <1>1. /\ stream \in [Streams -> QuicStream] /\ inFlight \in [Streams -> 0 .. MaxBuffer]
        /\ n \in 1 .. inFlight[s]
        /\ inFlight' = [inFlight EXCEPT ![s] = @ - n]
        /\ UNCHANGED <<list, nextWrite, txCount, credit, owed, shut, offered, failed>>
    BY DEF Acked, IInv, TypeOK
  <1>0. /\ stream[s].sendLen - stream[s].sent = owed[s]
        /\ stream[s].sent - stream[s].acked = inFlight[s]
    BY DEF IInv, NothingDropped, Pending
  <1>2. /\ \A t \in Streams : t # s => inFlight'[t] = inFlight[t]
        /\ inFlight'[s] = inFlight[s] - n
    BY <1>1, Zenon
  <1>3. /\ inFlight[s] - n \in 0 .. MaxBuffer
        /\ stream[s].acked + n \in 0 .. MaxBuffer
        /\ 0 \in 0 .. MaxBuffer
    BY <1>1, StreamFields, SizesAssumption DEF IInv, NothingDropped
  <1>4. /\ stream' \in [Streams -> QuicStream]
        /\ \A t \in Streams : t # s => stream'[t] = stream[t]
        /\ stream'[s].finWritten = stream[s].finWritten
        /\ stream'[s].finRequested = stream[s].finRequested
        /\ stream'[s].sendLen - stream'[s].sent = owed[s]
        /\ stream'[s].sent - stream'[s].acked = inFlight[s] - n
    <2>1. CASE AllAcked(s, n)
      <3>1. stream' = [stream EXCEPT ![s].sendLen = 0, ![s].sent = 0, ![s].acked = 0]
        BY <2>1 DEF Acked
      <3>2. /\ stream' \in [Streams -> QuicStream]
            /\ \A t \in Streams : t # s => stream'[t] = stream[t]
            /\ stream'[s].finWritten = stream[s].finWritten
            /\ stream'[s].finRequested = stream[s].finRequested
            /\ stream'[s].sendLen = 0 /\ stream'[s].sent = 0 /\ stream'[s].acked = 0
        BY <1>1, <1>3, <3>1, Zenon DEF QuicStream
      <3>3. owed[s] = 0 /\ inFlight[s] - n = 0
        <4>1. stream[s].acked + n >= stream[s].sendLen
          BY <2>1 DEF AllAcked
        <4>2. QED
          BY <1>0, <1>1, <4>1, StreamFields DEF IInv
      <3>4. QED
        BY <3>2, <3>3
    <2>2. CASE ~AllAcked(s, n)
      <3>1. stream' = [stream EXCEPT ![s].acked = @ + n]
        BY <2>2 DEF Acked
      <3>2. /\ stream' \in [Streams -> QuicStream]
            /\ \A t \in Streams : t # s => stream'[t] = stream[t]
            /\ stream'[s].finWritten = stream[s].finWritten
            /\ stream'[s].finRequested = stream[s].finRequested
            /\ stream'[s].sendLen = stream[s].sendLen /\ stream'[s].sent = stream[s].sent
            /\ stream'[s].acked = stream[s].acked + n
        BY <1>1, <1>3, <3>1, Zenon DEF QuicStream
      <3>3. /\ stream'[s].sendLen - stream'[s].sent = owed[s]
            /\ stream'[s].sent - stream'[s].acked = inFlight[s] - n
        <4>1. stream[s].sent - (stream[s].acked + n) = inFlight[s] - n
          BY <1>0, <1>1, StreamFields DEF IInv
        <4>2. QED
          BY <1>0, <3>2, <4>1
      <3>4. QED
        BY <3>2, <3>3, Zenon
    <2>3. QED
      BY <2>1, <2>2
  <1>5. inFlight' \in [Streams -> 0 .. MaxBuffer]
    BY <1>1, <1>3, Zenon
  <1>6. TypeOK'
    BY <1>1, <1>4, <1>5, SameList DEF IInv, TypeOK
  <1>7. NothingDropped'
    <2> SUFFICES ASSUME NEW t \in Streams
                 PROVE  /\ stream'[t].sendLen - stream'[t].sent = owed'[t]
                        /\ stream'[t].sent - stream'[t].acked = inFlight'[t]
      BY DEF NothingDropped, Pending
    <2>1. CASE t = s
      BY <1>1, <1>2, <1>4, <2>1
    <2>2. CASE t # s
      BY <1>1, <1>2, <1>4, <2>2 DEF Pending, IInv, NothingDropped
    <2>3. QED
      BY <2>1, <2>2
  <1>8. FinIsLast' /\ FinWasAsked'
    BY <1>1, <1>4 DEF IInv, FinIsLast, FinWasAsked
  <1>9. NoneForgotten' /\ NextListed'
    BY <1>1, SameList DEF IInv, NoneForgotten
  <1>10. QED
    BY <1>6, <1>7, <1>8, <1>9 DEF IInv

\* Credit and the peer's STOP_SENDING are ngtcp2's alone.
LEMMA PeerStep ==
  ASSUME IInv, NEW s \in Streams, PeerStops(s) \/ \E n \in 1 .. MaxCredit : Credited(s, n)
  PROVE  IInv'
  <1>1. UNCHANGED <<list, nextWrite, stream, txCount, inFlight, owed, offered, failed>>
    BY DEF Credited, PeerStops
  <1>2. credit' \in [Streams -> 0 .. MaxCredit]
    <2>1. CASE PeerStops(s)
      BY <2>1 DEF PeerStops, IInv, TypeOK
    <2>2. ASSUME NEW n \in 1 .. MaxCredit, Credited(s, n) PROVE credit' \in [Streams -> 0 .. MaxCredit]
      <3>1. credit[s] + n \in 0 .. MaxCredit
        BY <2>2, StreamFields, SizesAssumption DEF Credited, IInv
      <3>2. QED
        BY <2>2, <3>1, Zenon DEF Credited, IInv, TypeOK
    <2>3. QED
      BY <2>1, <2>2
  <1>3. shut' \in SUBSET Streams
    BY DEF Credited, PeerStops, IInv, TypeOK
  <1>4. TypeOK'
    BY <1>1, <1>2, <1>3, SameList DEF IInv, TypeOK
  <1>5. QED
    BY <1>1, <1>4, SameList DEF IInv, NothingDropped, Pending, FinIsLast, NoneForgotten, FinWasAsked

LEMMA StreamClosesStep ==
  ASSUME IInv, NEW s \in Streams, StreamCloses(s)
  PROVE  IInv'
  <1>1. /\ stream \in [Streams -> QuicStream]
        /\ stream' = [stream EXCEPT ![s].gone = TRUE]
        /\ UNCHANGED <<list, nextWrite, txCount, credit, inFlight, shut, owed, offered, failed>>
    BY DEF StreamCloses, IInv, TypeOK, ngtcp2
  <1>2. /\ stream' \in [Streams -> QuicStream]
        /\ \A t \in Streams : /\ stream'[t].sendLen = stream[t].sendLen
                              /\ stream'[t].sent = stream[t].sent
                              /\ stream'[t].acked = stream[t].acked
                              /\ stream'[t].finWritten = stream[t].finWritten
                              /\ stream'[t].finRequested = stream[t].finRequested
    BY <1>1, Zenon DEF QuicStream
  <1>3. TypeOK'
    BY <1>1, <1>2, SameList DEF IInv, TypeOK
  <1>4. QED
    BY <1>1, <1>2, <1>3, SameList DEF IInv, NothingDropped, Pending, FinIsLast, NoneForgotten, FinWasAsked

THEOREM NextIInv == IInv /\ [Next]_vars => IInv'
  <1> SUFFICES ASSUME IInv, [Next]_vars PROVE IInv'
    OBVIOUS
  <1>1. ASSUME NEW s \in Streams, OpenStream(s) PROVE IInv'
    BY <1>1, OpenStep
  <1>2. ASSUME NEW s \in Streams, PeerStops(s) PROVE IInv'
    BY <1>2, PeerStep
  <1>3. ASSUME NEW s \in Streams, StreamCloses(s) PROVE IInv'
    BY <1>3, StreamClosesStep
  <1>4. ASSUME NEW s \in Streams, NEW n \in 0 .. MaxBuffer, NEW fin \in BOOLEAN, Send(s, n, fin)
        PROVE  IInv'
    BY <1>4, SendStep
  <1>5. ASSUME NEW s \in Streams, NEW n \in 1 .. MaxBuffer, Acked(s, n) PROVE IInv'
    BY <1>5, AckedStep
  <1>6. ASSUME NEW s \in Streams, NEW n \in 1 .. MaxCredit, Credited(s, n) PROVE IInv'
    BY <1>6, PeerStep
  <1>7. CASE SendDatagram \/ WriteDatagram
    BY <1>7, DatagramStep
  <1>8. ASSUME NEW n \in 1 .. MaxBuffer, WriteStream(n) PROVE IInv'
    BY <1>8, WriteStreamStep
  <1>9. CASE WriteFin \/ WriteRefused
    BY <1>9, WriteFinStep
  <1>10. CASE UNCHANGED vars
    <2>1. UNCHANGED <<list, nextWrite, stream, txCount, credit, inFlight, shut, owed, offered, failed>>
      BY <1>10 DEF vars, ngtcp2
    <2>2. TypeOK'
      BY <2>1 DEF IInv, TypeOK
    <2>3. QED
      BY <2>1, <2>2, SameList DEF IInv, NothingDropped, Pending, FinIsLast, NoneForgotten, FinWasAsked
  <1>11. QED
    BY <1>1, <1>2, <1>3, <1>4, <1>5, <1>6, <1>7, <1>8, <1>9, <1>10 DEF Next, Write

-----------------------------------------------------------------------------
(* The specification. *)

\* Every reachable state of the send half satisfies the inductive invariant.
THEOREM Invariance == Spec => []IInv
  <1>1. Init => IInv
    BY InitIInv
  <1>2. IInv /\ [Next]_vars => IInv'
    BY NextIInv
  <1>3. QED
    BY <1>1, <1>2, PTL DEF Spec

\* quic_conn_jni.c keeps its buffer indices within the buffer, and the list of
\* streams names each of them once.
THEOREM AlwaysTyped == Spec => []TypeOK
  <1>1. IInv => TypeOK
    BY DEF IInv
  <1>2. QED
    BY <1>1, Invariance, PTL

\* Bytes nativeSend accepted leave the buffer only by being acknowledged,
\* however sends, partial writes and acknowledgements are interleaved.
THEOREM NothingEverDropped == Spec => []NothingDropped
  <1>1. IInv => NothingDropped
    BY DEF IInv
  <1>2. QED
    BY <1>1, Invariance, PTL

\* Once ngtcp2 has taken a stream's FIN with a byte, the bridge owes it nothing.
THEOREM FinAlwaysLast == Spec => []FinIsLast
  <1>1. IInv => FinIsLast
    BY DEF IInv
  <1>2. QED
    BY <1>1, Invariance, PTL

-----------------------------------------------------------------------------
(* The turns. *)

\* A stream's place in the list is where the list names it.
LEMMA PlaceIs ==
  ASSUME NEW l, IsInjective(l), NEW i \in DOMAIN l
  PROVE  (CHOOSE j \in DOMAIN l : l[j] = l[i]) = i
  BY DEF IsInjective

\* Nobody who offers anything comes before the stream that is chosen.
LEMMA ChosenIsNext ==
  ASSUME IInv, NEW t \in Offering
  PROVE  Turn(Chosen) <= Turn(t)
  <1> DEFINE Turns == {Turn(s) : s \in Offering}
  <1>1. Turns \subseteq Nat /\ Turns # {}
    BY TurnIsNat DEF Offering, IInv
  <1>2. PICK x \in Turns : \A y \in Turns : x <= y
    BY <1>1, LeastNatural
  <1>3. PICK s \in Offering : x = Turn(s)
    BY <1>2
  <1>4. \A u \in Offering : Turn(s) <= Turn(u)
    BY <1>2, <1>3
  <1>5. QED
    BY <1>3, <1>4 DEF Chosen

\* The rotation: next_write goes one past the stream that was served, so whoever
\* else is waiting comes nearer by the streams passed over and that one.
LEMMA WriteStreamTurns ==
  ASSUME IInv, NEW n \in 1 .. MaxBuffer, WriteStream(n), NEW t \in Offering, t # Chosen
  PROVE  Turn(t)' < Turn(t) /\ Turn(t)' \in Int /\ Turn(t) \in Int
  <1> DEFINE c == Place(Chosen)
             p == Place(t)
             L == Len(list)
  <1>1. list' = list /\ nextWrite' = After(Chosen)
    BY DEF WriteStream
  <1>2. IsOpen(Chosen) /\ IsOpen(t) /\ TypeOK /\ NextListed
    BY ChosenOffers DEF WriteStream, Offering, IInv
  <1>3. /\ c \in 1 .. L /\ p \in 1 .. L /\ L \in Nat
        /\ list[c] = Chosen /\ list[p] = t
    BY <1>2, PlaceInList
  <1>4. c # p
    BY <1>3
  <1>5. After(Chosen) # None
    BY <1>2, AfterIsOpen, NoneAssumption
  <1>6. Place(After(Chosen)) = IF c < L THEN c + 1 ELSE 1
    <2>1. list \in Seq(Streams) /\ IsInjective(list) /\ DOMAIN list = 1 .. L
      BY <1>2, LenProperties DEF TypeOK
    <2>2. \A i \in 1 .. L : Place(list[i]) = i
      BY <2>1, PlaceIs DEF Place
    <2>3. CASE c < L
      BY <1>3, <2>2, <2>3 DEF After
    <2>4. CASE ~(c < L)
      <3>1. After(Chosen) = list[1] /\ 1 \in 1 .. L
        BY <1>3, <2>1, <2>4 DEF After
      <3>2. QED
        BY <2>2, <2>4, <3>1
    <2>5. QED
      BY <2>3, <2>4
  <1>7. Place(t)' = p /\ Len(list)' = L /\ Place(nextWrite)' = Place(After(Chosen))
    BY <1>1 DEF Place
  <1>8. Turn(t)' = IF p >= Place(After(Chosen)) THEN p - Place(After(Chosen))
                   ELSE p + L - Place(After(Chosen))
    BY <1>1, <1>5, <1>7 DEF Turn
  <1>9. Turn(Chosen) <= Turn(t)
    BY ChosenIsNext
  <1>10. PICK q \in 1 .. L : /\ Turn(t) = IF p >= q THEN p - q ELSE p + L - q
                             /\ Turn(Chosen) = IF c >= q THEN c - q ELSE c + L - q
    <2>1. CASE nextWrite = None
      <3>1. 1 \in 1 .. L
        BY <1>3
      <3>2. QED
        BY <2>1, <3>1 DEF Turn
    <2>2. CASE nextWrite # None
      <3>1. Place(nextWrite) \in 1 .. L
        BY <1>2, <2>2, PlaceInList DEF NextListed
      <3>2. QED
        BY <2>2, <3>1 DEF Turn
    <2>3. QED
      BY <2>1, <2>2
  <1> HIDE DEF c, p, L
  <1>11. QED
    BY <1>3, <1>4, <1>6, <1>8, <1>9, <1>10

\* A stream that is opened goes to the head: the others move by one place, and so
\* does the one the walk starts from.
LEMMA OpenTurns ==
  ASSUME IInv, NEW s \in Streams, OpenStream(s), NEW t \in Offering
  PROVE  Turn(t)' <= Turn(t) + Len(list') - Len(list)
  <1> DEFINE L == Len(list)
  <1>1. list \in Seq(Streams) /\ <<s>> \in Seq(Streams) /\ Len(<<s>>) = 1 /\ L \in Nat
    BY LenProperties DEF IInv, TypeOK
  <1>2. /\ Len(list') = 1 + L
        /\ \A i \in 1 .. 1 + L : list'[i] = IF i <= 1 THEN s ELSE list[i - 1]
        /\ DOMAIN list' = 1 .. 1 + L
    BY <1>1, ConcatProperties, LenProperties DEF OpenStream
  <1>3. IsInjective(list')
    BY OpenStep DEF IInv, TypeOK
  <1>4. ASSUME NEW u, IsOpen(u)
        PROVE  Place(u)' = Place(u) + 1 /\ Place(u) \in 1 .. L
    <2>1. Place(u) \in 1 .. L /\ list[Place(u)] = u
      BY <1>4, PlaceInList DEF IInv
    <2>2. PICK i \in 1 .. L : i = Place(u)
      BY <2>1
    <2>3. i + 1 \in DOMAIN list' /\ list'[i + 1] = u
      BY <1>1, <1>2, <2>1, <2>2
    <2>4. (CHOOSE j \in DOMAIN list' : list'[j] = u) = i + 1
      BY <1>3, <2>3, PlaceIs
    <2>5. QED
      BY <2>1, <2>2, <2>4 DEF Place
  <1>5. nextWrite' = nextWrite /\ IsOpen(t)
    BY DEF OpenStream, Offering
  <1>6. CASE nextWrite = None
    BY <1>1, <1>2, <1>4, <1>5, <1>6 DEF Turn
  <1>7. CASE nextWrite # None
    <2>1. PICK u : u = nextWrite
      OBVIOUS
    <2>2. Place(u)' = Place(u) + 1 /\ Place(u) \in 1 .. L
      BY <1>4, <1>7, <2>1 DEF IInv, NextListed
    <2>3. Place(nextWrite)' = Place(u)'
      BY <1>5, <2>1 DEF Place
    <2>4. QED
      BY <1>1, <1>2, <1>4, <1>5, <1>7, <2>1, <2>2, <2>3 DEF Turn
  <1>8. QED
    BY <1>6, <1>7

\* What takes no byte and opens no stream changes nobody's turn.
LEMMA OtherTurns ==
  ASSUME IInv, NEW t \in Offering, UNCHANGED <<list, nextWrite>>
  PROVE  Turn(t)' <= Turn(t) + Len(list') - Len(list)
  <1>1. Turn(t)' = Turn(t) /\ Len(list') = Len(list)
    BY DEF Turn, Place
  <1>2. Turn(t) \in Nat /\ Len(list) \in Nat
    BY TurnIsNat, LenProperties DEF Offering, IInv, TypeOK
  <1>3. QED
    BY <1>1, <1>2

Nearer(s) == \/ inFlight'[s] > inFlight[s]
             \/ /\ Turn(s)' <= Turn(s) + Len(list') - Len(list)
                /\ \A t \in Streams : inFlight'[t] > inFlight[t] => Turn(s)' < Turn(s)

LEMMA StepNearer ==
  ASSUME IInv, [Next]_vars, NEW s \in Offering
  PROVE  Nearer(s)
  <1>1. \A t \in Streams : inFlight[t] \in Nat
    BY SizesAssumption DEF IInv, TypeOK
  <1>2. s \in Streams
    BY DEF Offering
  <1>3. ASSUME NEW n \in 1 .. MaxBuffer, WriteStream(n)
        PROVE  Nearer(s)
    <2>1. inFlight \in [Streams -> 0 .. MaxBuffer] /\ inFlight' = [inFlight EXCEPT ![Chosen] = @ + n]
      BY <1>3 DEF WriteStream, IInv, TypeOK
    <2>2. CASE s = Chosen
      <3>1. inFlight'[s] = inFlight[s] + n
        BY <1>2, <2>1, <2>2
      <3>2. QED
        BY <1>1, <1>2, <3>1 DEF Nearer
    <2>3. CASE s # Chosen
      <3>1. Turn(s)' < Turn(s) /\ list' = list
        BY <1>3, <2>3, WriteStreamTurns DEF WriteStream
      <3>2. Turn(s) \in Int /\ Turn(s)' \in Int /\ Len(list) \in Nat
        BY <1>3, <2>3, WriteStreamTurns, LenProperties DEF IInv, TypeOK
      <3>3. QED
        BY <3>1, <3>2 DEF Nearer
    <2>4. QED
      BY <2>2, <2>3
  <1>4. ASSUME NEW t \in Streams, OpenStream(t)
        PROVE  Nearer(s)
    BY <1>1, <1>4, OpenTurns DEF OpenStream, ngtcp2, Nearer
  <1>5. ASSUME NEW t \in Streams, NEW n \in 1 .. MaxBuffer, Acked(t, n)
        PROVE  Nearer(s)
    <2>1. inFlight \in [Streams -> 0 .. MaxBuffer] /\ inFlight' = [inFlight EXCEPT ![t] = @ - n]
      BY <1>5 DEF Acked, IInv, TypeOK
    <2>2. \A u \in Streams : ~(inFlight'[u] > inFlight[u])
      BY <1>1, <2>1
    <2>3. QED
      BY <1>5, <2>2, OtherTurns DEF Acked, Nearer
  <1>6. ASSUME UNCHANGED <<list, nextWrite, inFlight>>
        PROVE  Nearer(s)
    BY <1>1, <1>6, OtherTurns DEF Nearer
  <1>7. ASSUME NEW t \in Streams,
               \/ PeerStops(t) \/ StreamCloses(t)
               \/ \E n \in 0 .. MaxBuffer, fin \in BOOLEAN : Send(t, n, fin)
               \/ \E n \in 1 .. MaxCredit : Credited(t, n)
        PROVE  Nearer(s)
    BY <1>6, <1>7 DEF PeerStops, StreamCloses, Send, Credited, ngtcp2
  <1>8. ASSUME SendDatagram \/ WriteDatagram \/ WriteFin \/ WriteRefused \/ UNCHANGED vars
        PROVE  Nearer(s)
    BY <1>6, <1>8 DEF SendDatagram, WriteDatagram, WriteFin, WriteRefused, vars, ngtcp2
  <1>9. QED
    BY <1>3, <1>4, <1>5, <1>7, <1>8 DEF Next, Write

\* nativeWrite starts where it stopped: whatever streams are opened, end or are
\* acknowledged meanwhile, a stream that has something to send comes nearer its
\* turn with every other that is served.
THEOREM AlwaysNearerEachTurn == Spec => NearerEachTurn
  <1>1. IInv /\ [Next]_vars => [\A s \in Offering : Nearer(s)]_vars
    BY StepNearer
  <1>2. IInv /\ [Next]_vars =>
          [\A s \in Offering :
             \/ inFlight'[s] > inFlight[s]
             \/ /\ Turn(s)' <= Turn(s) + Len(list') - Len(list)
                /\ \A t \in Streams : inFlight'[t] > inFlight[t] => Turn(s)' < Turn(s)]_vars
    BY <1>1 DEF Nearer
  <1>3. QED
    BY <1>2, Invariance, PTL DEF Spec, NearerEachTurn

-----------------------------------------------------------------------------
(* The promise. *)

\* What the mapping makes of a state.
Unsent == [s \in Streams |-> Pending(s)]
Unacked == [s \in Streams |-> stream[s].sent - stream[s].acked]
Asked == {s \in Streams : stream[s].finRequested}
Over == {s \in Streams : stream[s].gone}

\* The buffer of each stream holds what the histories say it should.
LEMMA BufferHolds ==
  ASSUME IInv
  PROVE  Unsent = owed /\ Unacked = inFlight
  <1>1. owed \in [Streams -> 0 .. MaxBuffer] /\ inFlight \in [Streams -> 0 .. MaxBuffer]
    BY DEF IInv, TypeOK
  <1>2. \A s \in Streams : Pending(s) = owed[s] /\ stream[s].sent - stream[s].acked = inFlight[s]
    BY DEF IInv, NothingDropped
  <1>3. Unsent = [s \in Streams |-> owed[s]]
    BY <1>2, Zenon DEF Unsent
  <1>4. Unacked = [s \in Streams |-> inFlight[s]]
    BY <1>2, Zenon DEF Unacked
  <1>5. QED
    BY <1>1, <1>3, <1>4

LEMMA BufferStillHolds ==
  ASSUME IInv'
  PROVE  Unsent' = owed' /\ Unacked' = inFlight'
  <1>1. owed' \in [Streams -> 0 .. MaxBuffer] /\ inFlight' \in [Streams -> 0 .. MaxBuffer]
    BY DEF IInv, TypeOK
  <1>2. \A s \in Streams : /\ stream'[s].sendLen - stream'[s].sent = owed'[s]
                           /\ stream'[s].sent - stream'[s].acked = inFlight'[s]
    BY DEF IInv, NothingDropped, Pending
  <1>3. Unsent' = [s \in Streams |-> owed'[s]]
    BY <1>2, Zenon DEF Unsent, Pending
  <1>4. Unacked' = [s \in Streams |-> inFlight'[s]]
    BY <1>2, Zenon DEF Unacked
  <1>5. QED
    BY <1>1, <1>3, <1>4

\* The flags a stream that is not closed has, as the promise sees them.
LEMMA FlagsHold ==
  ASSUME NEW s \in Streams
  PROVE  (s \in Asked <=> stream[s].finRequested) /\ (s \in Over <=> stream[s].gone)
  BY DEF Asked, Over

LEMMA SendAccepts ==
  ASSUME IInv, IInv', NEW s \in Streams, NEW n \in 0 .. MaxBuffer, NEW fin \in BOOLEAN, Send(s, n, fin)
  PROVE  Promise!Accept(s, n, fin)
  <1>1. /\ stream \in [Streams -> QuicStream]
        /\ stream' = [stream EXCEPT ![s].sendLen = @ + n, ![s].finRequested = @ \/ fin]
        /\ owed' = [owed EXCEPT ![s] = @ + n]
        /\ inFlight' = inFlight /\ shut' = shut
        /\ ~stream[s].gone /\ ~stream[s].finRequested
        /\ stream[s].sendLen + n <= MaxBuffer
    BY DEF Send, Accepts, IInv, TypeOK, ngtcp2
  <1>2. /\ \A t \in Streams : t # s => stream'[t] = stream[t]
        /\ stream'[s].finRequested = (stream[s].finRequested \/ fin)
        /\ stream'[s].gone = stream[s].gone
    BY <1>1, Zenon DEF QuicStream
  <1>3. Asked' = (IF fin THEN Asked \cup {s} ELSE Asked) /\ Over' = Over
    BY <1>1, <1>2 DEF Asked, Over
  <1>4. s \notin Asked \cup Over
    BY <1>1 DEF Asked, Over
  <1>5. owed[s] + inFlight[s] + n <= MaxBuffer
    BY <1>1, StreamFields, SizesAssumption DEF IInv, NothingDropped, Pending
  <1>6. QED
    BY <1>1, <1>3, <1>4, <1>5, BufferHolds, BufferStillHolds
    DEF Promise!Accept, Unsent, Unacked, Asked, Over

LEMMA WriteStreamSends ==
  ASSUME IInv, IInv', NEW n \in 1 .. MaxBuffer, WriteStream(n)
  PROVE  Chosen \in Streams /\ Promise!Send(Chosen, n)
  <1> DEFINE s == Chosen
             fin == stream[s].finRequested /\ n = Pending(s)
  <1>1. /\ stream \in [Streams -> QuicStream]
        /\ s \notin shut /\ n \in 1 .. Pending(s)
        /\ stream' = [stream EXCEPT ![s].sent = @ + n, ![s].finWritten = @ \/ fin]
        /\ inFlight' = [inFlight EXCEPT ![s] = @ + n]
        /\ owed' = [owed EXCEPT ![s] = @ - n]
        /\ shut' = IF fin THEN shut \cup {s} ELSE shut
    BY DEF WriteStream, IInv, TypeOK
  <1>2. s \in Streams /\ ~stream[s].gone
    BY ChosenOffers DEF WriteStream, IInv, Offers
  <1>3. Pending(s) = owed[s]
    BY <1>2 DEF IInv, NothingDropped
  <1>4. fin => s \in Asked /\ n = owed[s]
    BY <1>2, <1>3 DEF Asked
  <1> HIDE DEF s, fin
  <1>5. \A t \in Streams : stream'[t].finRequested = stream[t].finRequested /\ stream'[t].gone = stream[t].gone
    BY <1>1, <1>2, Zenon DEF QuicStream
  <1>6. Asked' = Asked /\ Over' = Over
    BY <1>5 DEF Asked, Over
  <1>7. s \notin shut \cup Over
    BY <1>1, <1>2 DEF Over
  <1>8. /\ shut' \in {shut, shut \cup {s}}
        /\ s \in shut' => s \in Asked /\ n = owed[s]
    BY <1>1, <1>4
  <1>9. Promise!Send(s, n)
    BY <1>1, <1>3, <1>6, <1>7, <1>8, BufferHolds, BufferStillHolds
    DEF Promise!Send, Unsent, Unacked, Asked, Over
  <1>10. QED
    BY <1>2, <1>9 DEF s

LEMMA AckedAcknowledges ==
  ASSUME IInv, IInv', NEW s \in Streams, NEW n \in 1 .. MaxBuffer, Acked(s, n)
  PROVE  Promise!Acknowledge(s, n)
  <1>1. /\ stream \in [Streams -> QuicStream]
        /\ n \in 1 .. inFlight[s] /\ ~stream[s].gone
        /\ inFlight' = [inFlight EXCEPT ![s] = @ - n]
        /\ owed' = owed /\ shut' = shut
    BY DEF Acked, IInv, TypeOK
  <1>2. \A t \in Streams : stream'[t].finRequested = stream[t].finRequested /\ stream'[t].gone = stream[t].gone
    <2>1. CASE AllAcked(s, n)
      <3>1. stream' = [stream EXCEPT ![s].sendLen = 0, ![s].sent = 0, ![s].acked = 0]
        BY <2>1 DEF Acked
      <3>2. QED
        BY <1>1, <3>1, Zenon DEF QuicStream
    <2>2. CASE ~AllAcked(s, n)
      <3>1. stream' = [stream EXCEPT ![s].acked = @ + n]
        BY <2>2 DEF Acked
      <3>2. QED
        BY <1>1, <3>1, Zenon DEF QuicStream
    <2>3. QED
      BY <2>1, <2>2
  <1>3. Asked' = Asked /\ Over' = Over /\ s \notin Over
    BY <1>1, <1>2 DEF Asked, Over
  <1>4. QED
    BY <1>1, <1>3, BufferHolds, BufferStillHolds
    DEF Promise!Acknowledge, Unsent, Unacked, Asked, Over

\* Who shuts a write half: the writer's FIN with no byte left to carry it, or the peer.
LEMMA WriteFinShuts ==
  ASSUME IInv, IInv', WriteFin
  PROVE  Chosen \in Streams /\ Promise!Shut(Chosen)
  <1>1. Chosen \in Streams
    BY ChosenOffers DEF WriteFin, IInv
  <1>2. Asked' = Asked /\ Over' = Over
    BY DEF WriteFin, Asked, Over
  <1>3. QED
    BY <1>1, <1>2, BufferHolds, BufferStillHolds
    DEF WriteFin, Promise!Shut, Unsent, Unacked, Asked, Over

LEMMA PeerStopsShuts ==
  ASSUME IInv, IInv', NEW s \in Streams, PeerStops(s)
  PROVE  Promise!Shut(s)
  <1>1. Asked' = Asked /\ Over' = Over
    BY DEF PeerStops, Asked, Over
  <1>2. QED
    BY <1>1, BufferHolds, BufferStillHolds
    DEF PeerStops, Promise!Shut, Unsent, Unacked, Asked, Over

LEMMA StreamClosesCloses ==
  ASSUME IInv, IInv', NEW s \in Streams, StreamCloses(s)
  PROVE  Promise!Close(s)
  <1>1. /\ stream \in [Streams -> QuicStream]
        /\ s \in shut /\ ~stream[s].gone
        /\ stream' = [stream EXCEPT ![s].gone = TRUE]
        /\ inFlight' = inFlight /\ owed' = owed /\ shut' = shut
    BY DEF StreamCloses, IInv, TypeOK, ngtcp2
  <1>2. /\ \A t \in Streams : stream'[t].finRequested = stream[t].finRequested
        /\ \A t \in Streams : t # s => stream'[t].gone = stream[t].gone
        /\ stream'[s].gone
    BY <1>1, Zenon DEF QuicStream
  <1>3. Asked' = Asked /\ Over' = Over \cup {s} /\ s \notin Over
    BY <1>1, <1>2 DEF Asked, Over
  <1>4. QED
    BY <1>1, <1>3, BufferHolds, BufferStillHolds
    DEF Promise!Close, Unsent, Unacked, Asked, Over

\* What a writer does not see: opening a stream, datagrams, a refusal, credit, stuttering.
LEMMA RestUnseen ==
  ASSUME UNCHANGED <<stream, shut>>
  PROVE  UNCHANGED Promise!vars
  BY DEF Promise!vars, Pending

LEMMA StepKeepsPromise ==
  ASSUME IInv, [Next]_vars
  PROVE  [Promise!Next]_(Promise!vars)
  <1>0. IInv'
    BY NextIInv
  <1>1. ASSUME NEW s \in Streams, OpenStream(s) PROVE UNCHANGED Promise!vars
    BY <1>1, RestUnseen DEF OpenStream, ngtcp2
  <1>2. ASSUME NEW s \in Streams, PeerStops(s) PROVE Promise!Next
    BY <1>0, <1>2, PeerStopsShuts DEF Promise!Next
  <1>3. ASSUME NEW s \in Streams, StreamCloses(s) PROVE Promise!Next
    BY <1>0, <1>3, StreamClosesCloses DEF Promise!Next
  <1>4. ASSUME NEW s \in Streams, NEW n \in 0 .. MaxBuffer, NEW fin \in BOOLEAN, Send(s, n, fin)
        PROVE  Promise!Next
    BY <1>0, <1>4, SendAccepts DEF Promise!Next
  <1>5. ASSUME NEW s \in Streams, NEW n \in 1 .. MaxBuffer, Acked(s, n) PROVE Promise!Next
    BY <1>0, <1>5, AckedAcknowledges DEF Promise!Next
  <1>6. ASSUME NEW s \in Streams, NEW n \in 1 .. MaxCredit, Credited(s, n) PROVE UNCHANGED Promise!vars
    BY <1>6, RestUnseen DEF Credited
  <1>7. CASE SendDatagram \/ WriteDatagram
    BY <1>7, RestUnseen DEF SendDatagram, WriteDatagram, ngtcp2
  <1>8. ASSUME NEW n \in 1 .. MaxBuffer, WriteStream(n) PROVE Promise!Next
    BY <1>0, <1>8, WriteStreamSends DEF Promise!Next
  <1>9. CASE WriteFin
    BY <1>0, <1>9, WriteFinShuts DEF Promise!Next
  <1>10. CASE WriteRefused
    BY <1>10, RestUnseen DEF WriteRefused, ngtcp2
  <1>11. CASE UNCHANGED vars
    BY <1>11, RestUnseen DEF vars, ngtcp2
  <1>12. QED
    BY <1>1, <1>2, <1>3, <1>4, <1>5, <1>6, <1>7, <1>8, <1>9, <1>10, <1>11 DEF Next, Write

LEMMA InitKeepsPromise == Init => Promise!Init
  <1> SUFFICES ASSUME Init PROVE Promise!Init
    OBVIOUS
  <1>1. \A s \in Streams : stream[s] = Empty
    BY DEF Init
  <1>2. /\ Unsent = [s \in Streams |-> 0] /\ Unacked = [s \in Streams |-> 0]
        /\ Asked = {} /\ Over = {}
    BY <1>1 DEF Unsent, Unacked, Asked, Over, Pending, Empty
  <1>3. shut = {}
    BY DEF Init
  <1>4. QED
    BY <1>2, <1>3 DEF Promise!Init, Unsent, Unacked, Asked, Over

\* The send half of quic_conn_jni.c, with its buffer that starts over, its list
\* and its turns, keeps what SendPromise promises a stream's writer: bytes leave
\* only by being sent and then acknowledged, nothing is accepted behind a FIN, a
\* half is shut from this side only behind its last byte.
THEOREM SendKeepsPromise == Spec => ImplementsPromise
  <1>1. Init => Promise!Init
    BY InitKeepsPromise
  <1>2. IInv /\ [Next]_vars => [Promise!Next]_(Promise!vars)
    BY StepKeepsPromise
  <1>3. QED
    BY <1>1, <1>2, Invariance, PTL DEF Spec, ImplementsPromise, Promise!Spec
=============================================================================
