--------------------------- MODULE TcpFlows_proofs ---------------------------
(***************************************************************************)
(* For every finite set of connections, whatever the device, the user, the *)
(* dials and the teardown do: holds on synthetic addresses are counted     *)
(* exactly, a pcb is handed back once and not touched by us after, and no  *)
(* connection stays in the live list after its end.                        *)
(***************************************************************************)
EXTENDS TcpFlows, SequenceTheorems, FiniteSetTheorems, TLAPS

\* What one connection's record always satisfies.  A connection the device has
\* not opened has nothing running for it.
Untouched(r) == /\ r.serve = "none" /\ r.calling = {} /\ r.hold = "none"
                /\ ~r.registered /\ ~r.live /\ ~r.ended
Sound(r) == /\ r.pcb = "none" => Untouched(r)
            /\ r.ended <=> r.ending # "no"
            /\ r.pcb = "handedBack" => r.gone /\ r.ending = "done"
            /\ r.misused # "afterUs"
            /\ r.tracked => r.serve \notin {"none", "launched", "listed"}
            /\ r.live => r.tracked \/ r.serve = "listed"
            /\ r.ended /\ r.ending # "untrack" /\ r.serve \notin {"listed", "tracked"} => ~r.live
            /\ r.hold = "held" => r.registered \/ r.ending = "release"
AllSound == \A c \in Conns : Sound(conn[c])

\* A task is queued for a connection the device opened; one that hands its pcb
\* back, by an end() that is over, once, and before the pcb is given up.
Due(r) == r.ending = "done" /\ r.pcb # "handedBack"
Gives(t) == t.task \in {"abort", "close"}
TasksFit == \A c \in Conns : \A i \in DOMAIN queue :
              queue[i].of = {c} => /\ conn[c].pcb # "none"
                                   /\ Gives(queue[i]) => Due(conn[c])
GivenOnce == \A c \in Conns : \A i, j \in DOMAIN queue :
               /\ queue[i].of = {c} /\ Gives(queue[i])
               /\ queue[j].of = {c} /\ Gives(queue[j])
               => i = j

\* While the pool stands the count is right.  The handler releases what it has
\* been over, and when it is through nothing is registered and no task is left.
Counted == phase # "cleared" => holders = OtherHolds + Cardinality(Held)
HandedOver == /\ \A c \in visited : conn[c].hold # "held" /\ conn[c].pcb # "none"
              /\ phase \in {"cancelled", "cleared"} => /\ queue = <<>>
                                                       /\ \A c \in Conns : ~conn[c].registered

\* The inductive invariant.  HandedBackOnce and NoUseAfterHandBack need each
\* other's halves: that the one task is queued by an end() that is over, and
\* that it sets gone when it gives the pcb up.
IInv == TypeOK /\ Counted /\ AllSound /\ TasksFit /\ GivenOnce /\ HandedOver

\* What a step of one connection may do without another noticing.
Follows(r0, r) == /\ r0.pcb # "none" => r.pcb # "none"
                  /\ Due(r0) => Due(r)

-----------------------------------------------------------------------------
(* One connection moves. *)

LEMMA HeldFinite ==
  IsFiniteSet(Held) /\ Cardinality(Held) \in Nat
  <1>1. Held \subseteq Conns
    BY DEF Held
  <1>2. IsFiniteSet(Held)
    BY <1>1, ConnsAssumption, FS_Subset
  <1>3. QED
    BY <1>2, FS_CardinalityType

\* The three ways a step may touch the count of holders.
LEMMA HoldsKept ==
  ASSUME Counted, phase' # "cleared" => phase # "cleared", holders' = holders, Held' = Held
  PROVE  Counted'
  BY DEF Counted

LEMMA HoldTaken ==
  ASSUME TypeOK, Counted, phase' = phase, NEW c \in Conns, c \notin Held,
         holders' = holders + 1, Held' = Held \cup {c}
  PROVE  Counted' /\ holders' \in Nat
  <1>1. Cardinality(Held \cup {c}) = Cardinality(Held) + 1
    BY HeldFinite, FS_AddElement
  <1>2. QED
    BY <1>1, HeldFinite, HoldsAssumption DEF Counted, TypeOK

LEMMA HoldReleased ==
  ASSUME TypeOK, Counted, phase' = phase, NEW c \in Conns, c \in Held,
         holders' = OneLess, Held' = Held \ {c}
  PROVE  Counted' /\ holders' \in Nat
  <1>1. Cardinality(Held \ {c}) = Cardinality(Held) - 1
    BY HeldFinite, FS_RemoveElement
  <1>2. Cardinality(Held) # 0
    BY HeldFinite, FS_EmptySet
  <1>3. holders' \in Nat
    BY DEF OneLess, TypeOK
  <1>4. QED
    BY <1>1, <1>2, <1>3, HeldFinite, HoldsAssumption DEF Counted, TypeOK, OneLess

\* The records after a step of connection c.
LEMMA Moved ==
  ASSUME TypeOK, AllSound, NEW c \in Conns, NEW r, r \in Connection, Sound(r),
         conn' = [conn EXCEPT ![c] = r]
  PROVE  /\ conn' \in [Conns -> Connection]
         /\ AllSound'
         /\ conn'[c] = r
         /\ \A d \in Conns : d # c => conn'[d] = conn[d]
         /\ Held' = IF r.hold = "held" THEN Held \cup {c} ELSE Held \ {c}
  <1>1. conn \in [Conns -> Connection]
    BY DEF TypeOK
  <1>2. /\ conn' \in [Conns -> Connection]
        /\ conn'[c] = r
        /\ \A d \in Conns : d # c => conn'[d] = conn[d]
    BY <1>1, Zenon
  <1>3. AllSound'
    BY <1>2 DEF AllSound
  <1>4. QED
    BY <1>2, <1>3 DEF Held

\* The queue's part of the invariant, when no task comes or goes.
LEMMA QueueKept ==
  ASSUME IInv, NEW c \in Conns, NEW r, Follows(conn[c], r), conn'[c] = r,
         \A d \in Conns : d # c => conn'[d] = conn[d], queue' = queue
  PROVE  queue' \in Seq(Task) /\ TasksFit' /\ GivenOnce'
  BY DEF IInv, TypeOK, TasksFit, GivenOnce, Follows

\* The handler's part, when one connection moves and no teardown step is taken.
LEMMA OverKept ==
  ASSUME IInv, NEW c \in Conns, NEW r, Follows(conn[c], r), conn'[c] = r,
         \A d \in Conns : d # c => conn'[d] = conn[d], UNCHANGED <<phase, visited>>,
         r.hold = "held" => conn[c].hold = "held" \/ conn[c].pcb = "none",
         phase \in {"cancelled", "cleared"} => queue' = queue /\ (r.registered => conn[c].registered)
  PROVE  HandedOver'
  <1>1. visited \subseteq Conns
    BY DEF IInv, TypeOK
  <1>2. QED
    BY <1>1 DEF IInv, HandedOver, Follows

\* Most steps move one connection and leave everything else as it was.
LEMMA OneMoves ==
  ASSUME IInv, NEW c \in Conns, NEW r, r \in Connection, Sound(r), Follows(conn[c], r),
         r.hold = conn[c].hold, r.registered => conn[c].registered, conn' = [conn EXCEPT ![c] = r],
         UNCHANGED <<queue, phase, visited, holders>>, alive' \in BOOLEAN
  PROVE  IInv'
  <1>1. /\ conn' \in [Conns -> Connection] /\ AllSound'
        /\ conn'[c] = r /\ \A d \in Conns : d # c => conn'[d] = conn[d]
    BY Moved DEF IInv
  <1>2. Held' = Held
    BY <1>1 DEF Held
  <1>3. queue' \in Seq(Task) /\ TasksFit' /\ GivenOnce'
    BY <1>1, QueueKept
  <1>4. TypeOK'
    BY <1>1, <1>3 DEF IInv, TypeOK
  <1>5. Counted'
    BY <1>2, HoldsKept DEF IInv
  <1>6. HandedOver'
    BY <1>1, OverKept
  <1>7. QED
    BY <1>1, <1>3, <1>4, <1>5, <1>6 DEF IInv

-----------------------------------------------------------------------------
(* serve, and what else leaves a connection's end alone. *)

\* The fields of a record that such a step does not touch.
Kept(r0, r) == /\ r.pcb = r0.pcb /\ r.misused = r0.misused /\ r.gone = r0.gone
               /\ r.registered = r0.registered /\ r.ended = r0.ended /\ r.ending = r0.ending
               /\ r.hold = r0.hold /\ r.tracked = r0.tracked /\ r.calling \subseteq r0.calling
Early == {"none", "launched", "listed", "tracked"}

LEMMA Served ==
  ASSUME IInv, NEW c \in Conns, NEW r, r \in Connection, conn' = [conn EXCEPT ![c] = r],
         UNCHANGED <<queue, phase, visited, holders>>, alive' \in BOOLEAN,
         Kept(conn[c], r), r.live = conn[c].live,
         r.serve = conn[c].serve \/ (conn[c].serve \notin Early /\ r.serve \notin Early)
  PROVE  IInv'
  <1>1. Sound(conn[c])
    BY DEF IInv, AllSound
  <1>2. Sound(r)
    BY <1>1 DEF Sound, Untouched, Kept, Early
  <1>3. Follows(conn[c], r) /\ r.hold = conn[c].hold /\ r.registered = conn[c].registered
    BY DEF Follows, Due, Kept
  <1>4. QED
    BY <1>2, <1>3, OneMoves

LEMMA HalfClosesStep ==
  ASSUME IInv, NEW c \in Conns, DeviceHalfCloses(c)
  PROVE  IInv'
  <1> DEFINE r == [conn[c] EXCEPT !.outbound = FALSE]
  <1>1. conn[c] \in Connection /\ alive \in BOOLEAN
    BY DEF IInv, TypeOK
  <1>2. conn' = [conn EXCEPT ![c] = r] /\ UNCHANGED <<queue, phase, visited, holders, alive>>
    BY Zenon DEF DeviceHalfCloses
  <1>3. r \in Connection /\ Kept(conn[c], r) /\ r.live = conn[c].live /\ r.serve = conn[c].serve
    BY <1>1, ZenonT(60) DEF Connection, Kept
  <1> HIDE DEF r
  <1>4. QED
    BY <1>1, <1>2, <1>3, Served

LEMMA CloserStep ==
  ASSUME IInv, NEW c \in Conns, CloserRuns(c)
  PROVE  IInv'
  <1> DEFINE r == [conn[c] EXCEPT !.closer = FALSE, !.flow = "closed"]
  <1>1. conn[c] \in Connection /\ alive \in BOOLEAN
    BY DEF IInv, TypeOK
  <1>2. conn' = [conn EXCEPT ![c] = r] /\ UNCHANGED <<queue, phase, visited, holders, alive>>
    BY Zenon DEF CloserRuns
  <1>3. r \in Connection /\ Kept(conn[c], r) /\ r.live = conn[c].live /\ r.serve = conn[c].serve
    BY <1>1, ZenonT(60) DEF Connection, Kept
  <1> HIDE DEF r
  <1>4. QED
    BY <1>1, <1>2, <1>3, Served

LEMMA UpstreamStep ==
  ASSUME IInv, NEW c \in Conns, UpstreamEnds(c)
  PROVE  IInv'
  <1>1. conn[c] \in Connection /\ alive \in BOOLEAN
    BY DEF IInv, TypeOK
  <1>2. UNCHANGED <<queue, phase, visited, holders>> /\ alive' \in BOOLEAN
    BY <1>1 DEF UpstreamEnds
  <1> DEFINE r == [conn[c] EXCEPT !.up = FALSE]
  <1>3. conn' = [conn EXCEPT ![c] = r]
    BY Zenon DEF UpstreamEnds
  <1>4. r \in Connection /\ Kept(conn[c], r) /\ r.live = conn[c].live /\ r.serve = conn[c].serve
    BY <1>1, ZenonT(60) DEF Connection, Kept
  <1> HIDE DEF r
  <1>5. QED
    BY <1>2, <1>3, <1>4, Served

LEMMA DownstreamStep ==
  ASSUME IInv, NEW c \in Conns, DownstreamEnds(c)
  PROVE  IInv'
  <1>1. conn[c] \in Connection /\ alive \in BOOLEAN
    BY DEF IInv, TypeOK
  <1>2. UNCHANGED <<queue, phase, visited, holders>> /\ alive' \in BOOLEAN
    BY <1>1 DEF DownstreamEnds
  <1> DEFINE r == [conn[c] EXCEPT !.down = FALSE]
  <1>3. conn' = [conn EXCEPT ![c] = r]
    BY Zenon DEF DownstreamEnds
  <1>4. r \in Connection /\ Kept(conn[c], r) /\ r.live = conn[c].live /\ r.serve = conn[c].serve
    BY <1>1, ZenonT(60) DEF Connection, Kept
  <1> HIDE DEF r
  <1>5. QED
    BY <1>2, <1>3, <1>4, Served

LEMMA DialStep ==
  ASSUME IInv, NEW c \in Conns, DialAnswers(c)
  PROVE  IInv'
  <1>1. conn[c] \in Connection /\ alive \in BOOLEAN
    BY DEF IInv, TypeOK
  <1>2. /\ UNCHANGED <<queue, phase, visited, holders>> /\ alive' \in BOOLEAN
        /\ conn[c].serve \notin Early
    BY <1>1 DEF DialAnswers, Early
  <1>3. CASE conn' = [conn EXCEPT ![c] = [conn[c] EXCEPT !.serve = "dialed", !.flow = "open"]]
    <2> DEFINE r == [conn[c] EXCEPT !.serve = "dialed", !.flow = "open"]
    <2>1. conn' = [conn EXCEPT ![c] = r]
      BY <1>3, Zenon DEF DialAnswers
    <2>2. r \in Connection /\ Kept(conn[c], r) /\ r.live = conn[c].live /\ r.serve = "dialed"
      BY <1>1, ZenonT(60) DEF Connection, Kept, ServeAt
    <2> HIDE DEF r
    <2>3. QED
      BY <1>2, <2>1, <2>2, Served DEF Early
  <1>4. CASE conn' = [conn EXCEPT ![c] = [conn[c] EXCEPT !.serve = "aborting"]]
    <2> DEFINE r == [conn[c] EXCEPT !.serve = "aborting"]
    <2>1. conn' = [conn EXCEPT ![c] = r]
      BY <1>4, Zenon DEF DialAnswers
    <2>2. r \in Connection /\ Kept(conn[c], r) /\ r.live = conn[c].live /\ r.serve = "aborting"
      BY <1>1, ZenonT(60) DEF Connection, Kept, ServeAt
    <2> HIDE DEF r
    <2>3. QED
      BY <1>2, <2>1, <2>2, Served DEF Early
  <1>5. QED
    BY <1>3, <1>4, Zenon DEF DialAnswers

LEMMA AdmitsStep ==
  ASSUME IInv, NEW c \in Conns, ServeAdmits(c)
  PROVE  IInv'
  <1>1. conn[c] \in Connection /\ alive \in BOOLEAN
    BY DEF IInv, TypeOK
  <1>2. /\ UNCHANGED <<queue, phase, visited, holders>> /\ alive' \in BOOLEAN
        /\ conn[c].serve \notin Early
    BY <1>1 DEF ServeAdmits, Early
  <1>3. CASE conn[c].ended
    <2> DEFINE r == [conn[c] EXCEPT !.serve = "over", !.flow = "closed"]
    <2>1. conn' = [conn EXCEPT ![c] = r]
      BY <1>3, Zenon DEF ServeAdmits
    <2>2. r \in Connection /\ Kept(conn[c], r) /\ r.live = conn[c].live /\ r.serve = "over"
      BY <1>1, ZenonT(60) DEF Connection, Kept, ServeAt
    <2> HIDE DEF r
    <2>3. QED
      BY <1>2, <2>1, <2>2, Served DEF Early
  <1>4. CASE ~conn[c].ended
    <2> DEFINE r == [conn[c] EXCEPT !.serve = "admitted"]
    <2>1. conn' = [conn EXCEPT ![c] = r]
      BY <1>4, Zenon DEF ServeAdmits
    <2>2. r \in Connection /\ Kept(conn[c], r) /\ r.live = conn[c].live /\ r.serve = "admitted"
      BY <1>1, ZenonT(60) DEF Connection, Kept, ServeAt
    <2> HIDE DEF r
    <2>3. QED
      BY <1>2, <2>1, <2>2, Served DEF Early
  <1>5. QED
    BY <1>3, <1>4, Zenon DEF ServeAdmits

LEMMA AssignsStep ==
  ASSUME IInv, NEW c \in Conns, ServeAssigns(c)
  PROVE  IInv'
  <1>1. conn[c] \in Connection /\ alive \in BOOLEAN
    BY DEF IInv, TypeOK
  <1>2. /\ UNCHANGED <<queue, phase, visited, holders>> /\ alive' \in BOOLEAN
        /\ conn[c].serve \notin Early
    BY <1>1 DEF ServeAssigns, Early
  <1> DEFINE r == [conn[c] EXCEPT !.serve = "assigned", !.assigned = TRUE]
  <1>3. conn' = [conn EXCEPT ![c] = r]
    BY Zenon DEF ServeAssigns
  <1>4. r \in Connection /\ Kept(conn[c], r) /\ r.live = conn[c].live /\ r.serve = "assigned"
    BY <1>1, ZenonT(60) DEF Connection, Kept, ServeAt
  <1> HIDE DEF r
  <1>5. QED
    BY <1>2, <1>3, <1>4, Served DEF Early

LEMMA FirstWriteStep ==
  ASSUME IInv, NEW c \in Conns, FirstWriteFails(c)
  PROVE  IInv'
  <1>1. conn[c] \in Connection /\ alive \in BOOLEAN
    BY DEF IInv, TypeOK
  <1>2. /\ UNCHANGED <<queue, phase, visited, holders>> /\ alive' \in BOOLEAN
        /\ conn[c].serve \notin Early
    BY <1>1 DEF FirstWriteFails, Early
  <1> DEFINE r == [conn[c] EXCEPT !.serve = "escaped"]
  <1>3. conn' = [conn EXCEPT ![c] = r]
    BY Zenon DEF FirstWriteFails
  <1>4. r \in Connection /\ Kept(conn[c], r) /\ r.live = conn[c].live /\ r.serve = "escaped"
    BY <1>1, ZenonT(60) DEF Connection, Kept, ServeAt
  <1> HIDE DEF r
  <1>5. QED
    BY <1>2, <1>3, <1>4, Served DEF Early

LEMMA PumpsStartStep ==
  ASSUME IInv, NEW c \in Conns, PumpsStart(c)
  PROVE  IInv'
  <1>1. conn[c] \in Connection /\ alive \in BOOLEAN
    BY DEF IInv, TypeOK
  <1>2. /\ UNCHANGED <<queue, phase, visited, holders>> /\ alive' \in BOOLEAN
        /\ conn[c].serve \notin Early
    BY <1>1 DEF PumpsStart, Early
  <1>3. CASE conn[c].cancelled
    <2> DEFINE r == [conn[c] EXCEPT !.serve = "over"]
    <2>1. conn' = [conn EXCEPT ![c] = r]
      BY <1>3, Zenon DEF PumpsStart
    <2>2. r \in Connection /\ Kept(conn[c], r) /\ r.live = conn[c].live /\ r.serve = "over"
      BY <1>1, ZenonT(60) DEF Connection, Kept, ServeAt
    <2> HIDE DEF r
    <2>3. QED
      BY <1>2, <2>1, <2>2, Served DEF Early
  <1>4. CASE ~conn[c].cancelled
    <2> DEFINE r == [conn[c] EXCEPT !.serve = "pumping", !.up = TRUE, !.down = TRUE]
    <2>1. conn' = [conn EXCEPT ![c] = r]
      BY <1>4, Zenon DEF PumpsStart
    <2>2. r \in Connection /\ Kept(conn[c], r) /\ r.live = conn[c].live /\ r.serve = "pumping"
      BY <1>1, ZenonT(60) DEF Connection, Kept, ServeAt
    <2> HIDE DEF r
    <2>3. QED
      BY <1>2, <2>1, <2>2, Served DEF Early
  <1>5. QED
    BY <1>3, <1>4, Zenon DEF PumpsStart

LEMMA PumpsJoinStep ==
  ASSUME IInv, NEW c \in Conns, PumpsJoin(c)
  PROVE  IInv'
  <1>1. conn[c] \in Connection /\ alive \in BOOLEAN
    BY DEF IInv, TypeOK
  <1>2. /\ UNCHANGED <<queue, phase, visited, holders>> /\ alive' \in BOOLEAN
        /\ conn[c].serve \notin Early
    BY <1>1 DEF PumpsJoin, Early
  <1>3. CASE conn[c].cancelled
    <2> DEFINE r == [conn[c] EXCEPT !.serve = "over"]
    <2>1. conn' = [conn EXCEPT ![c] = r]
      BY <1>3, Zenon DEF PumpsJoin
    <2>2. r \in Connection /\ Kept(conn[c], r) /\ r.live = conn[c].live /\ r.serve = "over"
      BY <1>1, ZenonT(60) DEF Connection, Kept, ServeAt
    <2> HIDE DEF r
    <2>3. QED
      BY <1>2, <2>1, <2>2, Served DEF Early
  <1>4. CASE ~conn[c].cancelled
    <2> DEFINE r == [conn[c] EXCEPT !.serve = "finishing"]
    <2>1. conn' = [conn EXCEPT ![c] = r]
      BY <1>4, Zenon DEF PumpsJoin
    <2>2. r \in Connection /\ Kept(conn[c], r) /\ r.live = conn[c].live /\ r.serve = "finishing"
      BY <1>1, ZenonT(60) DEF Connection, Kept, ServeAt
    <2> HIDE DEF r
    <2>3. QED
      BY <1>2, <2>1, <2>2, Served DEF Early
  <1>5. QED
    BY <1>3, <1>4, Zenon DEF PumpsJoin

LEMMA DnsStep ==
  ASSUME IInv, NEW c \in Conns, DnsEnds(c)
  PROVE  IInv'
  <1>1. conn[c] \in Connection /\ alive \in BOOLEAN
    BY DEF IInv, TypeOK
  <1>2. /\ UNCHANGED <<queue, phase, visited, holders>> /\ alive' \in BOOLEAN
        /\ conn[c].serve \notin Early
    BY <1>1 DEF DnsEnds, Early
  <1> DEFINE r == [conn[c] EXCEPT !.serve = "finishing"]
  <1>3. conn' = [conn EXCEPT ![c] = r]
    BY Zenon DEF DnsEnds
  <1>4. r \in Connection /\ Kept(conn[c], r) /\ r.live = conn[c].live /\ r.serve = "finishing"
    BY <1>1, ZenonT(60) DEF Connection, Kept, ServeAt
  <1> HIDE DEF r
  <1>5. QED
    BY <1>2, <1>3, <1>4, Served DEF Early

-----------------------------------------------------------------------------
(* What the device and the user do. *)

LEMMA OpensStep ==
  ASSUME IInv, NEW c \in Conns, NEW holding \in BOOLEAN, DeviceOpens(c, holding)
  PROVE  IInv'
  <1> DEFINE h == IF holding THEN "held" ELSE "none"
             r == [conn[c] EXCEPT !.pcb = "live", !.registered = TRUE, !.hold = h, !.serve = "launched"]
  <1>1. conn[c] \in Connection /\ Sound(conn[c]) /\ conn[c].pcb = "none" /\ c \notin Held
    <2>1. conn[c] \in Connection /\ Sound(conn[c]) /\ conn[c].pcb = "none"
      BY DEF IInv, TypeOK, AllSound, DeviceOpens
    <2>2. QED
      BY <2>1 DEF Sound, Untouched, Held
  <1>2. conn' = [conn EXCEPT ![c] = r] /\ UNCHANGED <<queue, phase, visited, alive>>
    BY Zenon DEF DeviceOpens
  <1>3. h \in {"none", "held", "released"} /\ (h = "held" <=> holding)
    OBVIOUS
  <1> HIDE DEF h
  <1>4. /\ r \in Connection /\ r.pcb = "live" /\ r.hold = h /\ r.serve = "launched"
        /\ r.misused = conn[c].misused /\ r.ended = conn[c].ended /\ r.ending = conn[c].ending
        /\ r.live = conn[c].live /\ r.tracked = conn[c].tracked /\ r.registered
    BY <1>1, <1>3, ZenonT(60) DEF Connection, ServeAt
  <1> HIDE DEF r
  <1>5. Sound(r) /\ Follows(conn[c], r)
    BY <1>1, <1>4 DEF Sound, Untouched, Follows, Due
  <1>6. /\ conn' \in [Conns -> Connection] /\ AllSound'
        /\ conn'[c] = r /\ \A d \in Conns : d # c => conn'[d] = conn[d]
        /\ Held' = IF holding THEN Held \cup {c} ELSE Held \ {c}
    <2>1. r.hold = "held" <=> holding
      BY <1>3, <1>4
    <2>2. QED
      BY <1>2, <1>4, <1>5, <2>1, Moved DEF IInv
  <1>7. queue' \in Seq(Task) /\ TasksFit' /\ GivenOnce'
    BY <1>2, <1>5, <1>6, QueueKept
  <1>8. Counted' /\ holders' \in Nat
    <2>1. CASE holding
      <3>1. holders' = holders + 1 /\ Held' = Held \cup {c} /\ phase' = phase
        BY <1>2, <1>6, <2>1 DEF DeviceOpens
      <3>2. QED
        BY <1>1, <3>1, HoldTaken DEF IInv
    <2>2. CASE ~holding
      <3>1. holders' = holders /\ Held' = Held
        BY <1>1, <1>6, <2>2 DEF DeviceOpens
      <3>2. QED
        BY <1>2, <3>1, HoldsKept DEF IInv, TypeOK
    <2>3. QED
      BY <2>1, <2>2
  <1>9. TypeOK'
    BY <1>2, <1>6, <1>7, <1>8 DEF IInv, TypeOK
  <1>10. phase \notin {"cancelled", "cleared"}
    <2>1. phase \in {"running", "stopping"} \/ queue # <<>>
      BY EmptySeq, LenProperties DEF DeviceOpens, StackUp, IInv, TypeOK
    <2>2. QED
      BY <2>1 DEF IInv, HandedOver
  <1>11. HandedOver'
    BY <1>1, <1>2, <1>5, <1>6, <1>10, OverKept
  <1>12. QED
    BY <1>6, <1>7, <1>8, <1>9, <1>11 DEF IInv

\* lwIP frees a pcb the device opened.
LEMMA FreedStep ==
  ASSUME IInv, NEW c \in Conns, DeviceResets(c) \/ ShutdownAborts(c)
  PROVE  IInv'
  <1> DEFINE k == conn[c].registered
             g == conn[c].gone \/ k
             x == conn[c].cancelled \/ k
             l == IF k THEN conn[c].calling \cup {"lwip"} ELSE conn[c].calling
             r == [conn[c] EXCEPT !.pcb = "freed", !.gone = g, !.cancelled = x, !.calling = l]
  <1>1. conn[c] \in Connection /\ Sound(conn[c]) /\ conn[c].pcb = "live" /\ alive \in BOOLEAN
    BY DEF IInv, TypeOK, AllSound, DeviceResets, ShutdownAborts
  <1>2. conn' = [conn EXCEPT ![c] = r] /\ UNCHANGED <<queue, phase, visited, holders, alive>>
    <2>1. Closed(c) /\ UNCHANGED <<queue, phase, visited, holders, alive>>
      BY DEF DeviceResets, ShutdownAborts
    <2>2. QED
      BY <2>1, Zenon DEF Closed
  <1>3. g \in BOOLEAN /\ x \in BOOLEAN /\ l \in SUBSET {"lwip", "user"}
    BY <1>1 DEF Connection
  <1> HIDE DEF k, g, x, l
  <1>4. /\ r \in Connection /\ r.pcb = "freed" /\ r.serve = conn[c].serve
        /\ r.misused = conn[c].misused /\ r.ended = conn[c].ended /\ r.ending = conn[c].ending
        /\ r.live = conn[c].live /\ r.tracked = conn[c].tracked /\ r.hold = conn[c].hold
        /\ r.registered = conn[c].registered
    BY <1>1, <1>3, ZenonT(60) DEF Connection
  <1> HIDE DEF r
  <1>5. Sound(r) /\ Follows(conn[c], r)
    BY <1>1, <1>4 DEF Sound, Untouched, Follows, Due
  <1>6. QED
    BY <1>1, <1>2, <1>4, <1>5, OneMoves

LEMMA UserStep ==
  ASSUME IInv, NEW c \in Conns, UserCloses(c)
  PROVE  IInv'
  <1> DEFINE r == [conn[c] EXCEPT !.cancelled = TRUE, !.calling = @ \cup {"user"}]
  <1>1. conn[c] \in Connection /\ Sound(conn[c]) /\ conn[c].live /\ alive \in BOOLEAN
    BY DEF IInv, TypeOK, AllSound, UserCloses
  <1>2. conn' = [conn EXCEPT ![c] = r] /\ UNCHANGED <<queue, phase, visited, holders, alive>>
    BY Zenon DEF UserCloses
  <1>3. conn[c].calling \cup {"user"} \in SUBSET {"lwip", "user"}
    BY <1>1 DEF Connection
  <1>4. /\ r \in Connection /\ r.pcb = conn[c].pcb /\ r.serve = conn[c].serve /\ r.gone = conn[c].gone
        /\ r.misused = conn[c].misused /\ r.ended = conn[c].ended /\ r.ending = conn[c].ending
        /\ r.live = conn[c].live /\ r.tracked = conn[c].tracked /\ r.hold = conn[c].hold
        /\ r.registered = conn[c].registered
    BY <1>1, <1>3, ZenonT(60) DEF Connection
  <1> HIDE DEF r
  <1>5. Sound(r) /\ Follows(conn[c], r)
    BY <1>1, <1>4 DEF Sound, Untouched, Follows, Due
  <1>6. QED
    BY <1>1, <1>2, <1>4, <1>5, OneMoves

-----------------------------------------------------------------------------
(* end(). *)

\* The call that wins: it is the first, so nothing has been handed back yet.
LEMMA Wins ==
  ASSUME IInv, NEW c \in Conns, NEW r, ~conn[c].ended, ~Untouched(conn[c]),
         r.ended, r.ending = "untrack",
         r.pcb = conn[c].pcb, r.misused = conn[c].misused, r.gone = conn[c].gone,
         r.tracked = conn[c].tracked, r.live = conn[c].live, r.hold = conn[c].hold, r.registered = conn[c].registered,
         r.serve = conn[c].serve \/ (conn[c].serve \notin Early /\ r.serve \notin Early)
  PROVE  Sound(r) /\ Follows(conn[c], r)
  <1>1. Sound(conn[c])
    BY DEF IInv, AllSound
  <1>2. QED
    BY <1>1 DEF Sound, Follows, Due, Early

LEMMA CallStep ==
  ASSUME IInv, NEW c \in Conns, NEW who \in {"lwip", "user"}, CallEnds(c, who)
  PROVE  IInv'
  <1> DEFINE l == conn[c].calling \ {who}
  <1>1. conn[c] \in Connection /\ alive \in BOOLEAN /\ l \in SUBSET {"lwip", "user"}
    BY DEF IInv, TypeOK, Connection
  <1>2. UNCHANGED <<queue, phase, visited, holders>> /\ alive' \in BOOLEAN
    BY <1>1 DEF CallEnds
  <1>3. CASE conn[c].ended
    <2> DEFINE r == [conn[c] EXCEPT !.calling = l]
    <2>1. conn' = [conn EXCEPT ![c] = r]
      BY <1>3, Zenon DEF CallEnds, Ends
    <2>2. r \in Connection /\ Kept(conn[c], r) /\ r.live = conn[c].live /\ r.serve = conn[c].serve
      BY <1>1, ZenonT(60) DEF Connection, Kept
    <2> HIDE DEF r
    <2>3. QED
      BY <1>2, <2>1, <2>2, Served
  <1>4. CASE ~conn[c].ended
    <2> DEFINE b == who = "user"
               r == [conn[c] EXCEPT !.ended = TRUE, !.ending = "untrack", !.by = who, !.reset = b,
                                    !.calling = l]
    <2>1. conn' = [conn EXCEPT ![c] = r]
      BY <1>4, Zenon DEF CallEnds, Ends, Winning
    <2>2. b \in BOOLEAN /\ who \in {"nobody", "lwip", "user", "serve"} /\ "untrack" \in EndAt
      BY DEF EndAt
    <2> HIDE DEF b, l
    <2>3. /\ r \in Connection /\ r.ended /\ r.ending = "untrack"
          /\ r.pcb = conn[c].pcb /\ r.misused = conn[c].misused /\ r.gone = conn[c].gone
          /\ r.tracked = conn[c].tracked /\ r.live = conn[c].live /\ r.hold = conn[c].hold /\ r.registered = conn[c].registered
          /\ r.serve = conn[c].serve
      BY <1>1, <2>2, ZenonT(60) DEF Connection
    <2> HIDE DEF r
    <2>4. ~Untouched(conn[c])
      BY DEF CallEnds, Untouched
    <2>5. QED
      BY <1>2, <1>4, <2>1, <2>3, <2>4, Wins, OneMoves
  <1>5. QED
    BY <1>3, <1>4

LEMMA ServeEndsStep ==
  ASSUME IInv, NEW c \in Conns, ServeEnds(c)
  PROVE  IInv'
  <1>1. conn[c] \in Connection /\ alive \in BOOLEAN
    BY DEF IInv, TypeOK
  <1>2. /\ UNCHANGED <<queue, phase, visited, holders>> /\ alive' \in BOOLEAN
        /\ conn[c].serve \notin Early /\ ~Untouched(conn[c])
    BY <1>1 DEF ServeEnds, Early, Untouched
  <1>3. CASE conn[c].ended
    <2> DEFINE r == [conn[c] EXCEPT !.serve = "over"]
    <2>1. conn' = [conn EXCEPT ![c] = r]
      BY <1>3, Zenon DEF ServeEnds
    <2>2. r \in Connection /\ Kept(conn[c], r) /\ r.live = conn[c].live /\ r.serve = "over"
      BY <1>1, ZenonT(60) DEF Connection, Kept, ServeAt
    <2> HIDE DEF r
    <2>3. QED
      BY <1>2, <2>1, <2>2, Served DEF Early
  <1>4. CASE ~conn[c].ended
    <2> DEFINE b == conn[c].serve = "aborting"
               r == [conn[c] EXCEPT !.ended = TRUE, !.ending = "untrack", !.by = "serve",
                                    !.reset = b, !.serve = "over"]
    <2>1. conn' = [conn EXCEPT ![c] = r]
      <3>1. conn' = [conn EXCEPT ![c] = [Winning(c, "serve") EXCEPT !.serve = "over", !.reset = b]]
        BY <1>4, Zenon DEF ServeEnds
      <3>2. [Winning(c, "serve") EXCEPT !.serve = "over", !.reset = b] = r
        BY <1>1, ZenonT(60) DEF Winning, Connection
      <3>3. QED
        BY <3>1, <3>2, Zenon
    <2>2. b \in BOOLEAN /\ "untrack" \in EndAt /\ "over" \in ServeAt
      BY DEF EndAt, ServeAt
    <2> HIDE DEF b
    <2>3. /\ r \in Connection /\ r.ended /\ r.ending = "untrack"
          /\ r.pcb = conn[c].pcb /\ r.misused = conn[c].misused /\ r.gone = conn[c].gone
          /\ r.tracked = conn[c].tracked /\ r.live = conn[c].live /\ r.hold = conn[c].hold /\ r.registered = conn[c].registered
          /\ r.serve = "over"
      BY <1>1, <2>2, ZenonT(60) DEF Connection
    <2> HIDE DEF r
    <2>4. QED
      BY <1>2, <1>4, <2>1, <2>3, Wins, OneMoves DEF Early
  <1>5. QED
    BY <1>3, <1>4

\* A step of the winning call keeps the record sound, and the pcb its own.
LEMMA GoesOn ==
  ASSUME IInv, NEW c \in Conns, NEW r, conn[c].ending \notin {"no", "done"},
         r.ending \notin {"no", "untrack"},
         r.pcb = conn[c].pcb, r.misused = conn[c].misused, r.gone = conn[c].gone,
         r.ended = conn[c].ended, r.tracked = conn[c].tracked, r.serve = conn[c].serve,
         r.live => conn[c].live,
         conn[c].ending = "untrack" /\ r.live => ~r.tracked,
         r.hold = "held" => /\ conn[c].hold = "held" /\ conn[c].ending # "release"
                            /\ r.registered = conn[c].registered \/ r.ending = "release"
  PROVE  Sound(r) /\ Follows(conn[c], r)
  <1>1. Sound(conn[c])
    BY DEF IInv, AllSound
  <1>2. conn[c].pcb # "none" /\ conn[c].pcb # "handedBack"
    BY <1>1 DEF Sound, Untouched
  <1>3. QED
    BY <1>1, <1>2 DEF Sound, Follows, Due

LEMMA UntracksStep ==
  ASSUME IInv, NEW c \in Conns, EndUntracks(c)
  PROVE  IInv'
  <1> DEFINE v == conn[c].live /\ ~conn[c].tracked
             r == [conn[c] EXCEPT !.ending = "unregister", !.live = v]
  <1>1. conn[c] \in Connection /\ conn[c].ending = "untrack" /\ alive \in BOOLEAN
    BY DEF IInv, TypeOK, EndUntracks
  <1>2. conn' = [conn EXCEPT ![c] = r] /\ UNCHANGED <<queue, phase, visited, holders, alive>>
    BY Zenon DEF EndUntracks
  <1>3. v \in BOOLEAN /\ "unregister" \in EndAt
    BY <1>1 DEF EndAt, Connection
  <1> HIDE DEF v
  <1>4. /\ r \in Connection /\ r.ending = "unregister" /\ r.live = v
        /\ r.pcb = conn[c].pcb /\ r.misused = conn[c].misused /\ r.gone = conn[c].gone
        /\ r.ended = conn[c].ended /\ r.tracked = conn[c].tracked /\ r.serve = conn[c].serve
        /\ r.hold = conn[c].hold /\ r.registered = conn[c].registered
    BY <1>1, <1>3, ZenonT(60) DEF Connection
  <1> HIDE DEF r
  <1>5. Sound(r) /\ Follows(conn[c], r)
    BY <1>1, <1>3, <1>4, GoesOn DEF IInv, TypeOK, Connection, v
  <1>6. QED
    BY <1>1, <1>2, <1>4, <1>5, OneMoves

LEMMA UnregistersStep ==
  ASSUME IInv, NEW c \in Conns, EndUnregisters(c)
  PROVE  IInv'
  <1> DEFINE r == [conn[c] EXCEPT !.ending = "release", !.registered = FALSE]
  <1>1. conn[c] \in Connection /\ conn[c].ending = "unregister" /\ alive \in BOOLEAN
    BY DEF IInv, TypeOK, EndUnregisters
  <1>2. conn' = [conn EXCEPT ![c] = r] /\ UNCHANGED <<queue, phase, visited, holders, alive>>
    BY Zenon DEF EndUnregisters
  <1>3. "release" \in EndAt
    BY <1>1 DEF EndAt, Connection
  <1>4. /\ r \in Connection /\ r.ending = "release" /\ r.live = conn[c].live
        /\ r.pcb = conn[c].pcb /\ r.misused = conn[c].misused /\ r.gone = conn[c].gone
        /\ r.ended = conn[c].ended /\ r.tracked = conn[c].tracked /\ r.serve = conn[c].serve
        /\ r.hold = conn[c].hold /\ r.registered = FALSE
    BY <1>1, <1>3, ZenonT(60) DEF Connection
  <1> HIDE DEF r
  <1>5. Sound(r) /\ Follows(conn[c], r)
    BY <1>1, <1>3, <1>4, GoesOn DEF IInv, TypeOK, Connection
  <1>6. QED
    BY <1>1, <1>2, <1>4, <1>5, OneMoves

LEMMA ClosesFlowStep ==
  ASSUME IInv, NEW c \in Conns, EndClosesFlow(c)
  PROVE  IInv'
  <1> DEFINE k == conn[c].assigned /\ ScopeActive
             r == [conn[c] EXCEPT !.ending = "check", !.outbound = FALSE, !.closer = k]
  <1>1. conn[c] \in Connection /\ conn[c].ending = "closeFlow" /\ alive \in BOOLEAN
    BY DEF IInv, TypeOK, EndClosesFlow
  <1>2. conn' = [conn EXCEPT ![c] = r] /\ UNCHANGED <<queue, phase, visited, holders, alive>>
    BY Zenon DEF EndClosesFlow
  <1>3. k \in BOOLEAN /\ "check" \in EndAt
    BY <1>1 DEF EndAt, Connection
  <1> HIDE DEF k
  <1>4. /\ r \in Connection /\ r.ending = "check" /\ r.live = conn[c].live
        /\ r.pcb = conn[c].pcb /\ r.misused = conn[c].misused /\ r.gone = conn[c].gone
        /\ r.ended = conn[c].ended /\ r.tracked = conn[c].tracked /\ r.serve = conn[c].serve
        /\ r.hold = conn[c].hold /\ r.registered = conn[c].registered
    BY <1>1, <1>3, ZenonT(60) DEF Connection
  <1> HIDE DEF r
  <1>5. Sound(r) /\ Follows(conn[c], r)
    BY <1>1, <1>3, <1>4, GoesOn DEF IInv, TypeOK, Connection
  <1>6. QED
    BY <1>1, <1>2, <1>4, <1>5, OneMoves

LEMMA ChecksStep ==
  ASSUME IInv, NEW c \in Conns, EndChecks(c)
  PROVE  IInv'
  <1> DEFINE x == IF Running THEN "post" ELSE "done"
             r == [conn[c] EXCEPT !.ending = x]
  <1>1. conn[c] \in Connection /\ conn[c].ending = "check" /\ alive \in BOOLEAN
    BY DEF IInv, TypeOK, EndChecks
  <1>2. conn' = [conn EXCEPT ![c] = r] /\ UNCHANGED <<queue, phase, visited, holders, alive>>
    BY Zenon DEF EndChecks
  <1>3. x \in EndAt /\ x \notin {"no", "untrack"}
    BY <1>1 DEF EndAt, Connection
  <1> HIDE DEF x
  <1>4. /\ r \in Connection /\ r.ending = x /\ r.live = conn[c].live
        /\ r.pcb = conn[c].pcb /\ r.misused = conn[c].misused /\ r.gone = conn[c].gone
        /\ r.ended = conn[c].ended /\ r.tracked = conn[c].tracked /\ r.serve = conn[c].serve
        /\ r.hold = conn[c].hold /\ r.registered = conn[c].registered
    BY <1>1, <1>3, ZenonT(60) DEF Connection
  <1> HIDE DEF r
  <1>5. Sound(r) /\ Follows(conn[c], r)
    BY <1>1, <1>3, <1>4, GoesOn DEF IInv, TypeOK, Connection
  <1>6. QED
    BY <1>1, <1>2, <1>4, <1>5, OneMoves

\* What releasing a connection's hold does to the count, once or again.
LEMMA Releases ==
  ASSUME IInv, NEW c \in Conns, phase' = phase, holders' = Released(c),
         Held' = Held \ {c}
  PROVE  Counted' /\ holders' \in Nat
  <1>1. CASE conn[c].hold = "held"
    BY <1>1, HoldReleased DEF IInv, Held, Released
  <1>2. CASE conn[c].hold # "held"
    <2>1. holders' = holders /\ Held' = Held
      BY <1>2 DEF Held, Released
    <2>2. QED
      BY <2>1, HoldsKept DEF IInv, TypeOK
  <1>3. QED
    BY <1>1, <1>2

LEMMA ReleasesStep ==
  ASSUME IInv, NEW c \in Conns, EndReleases(c)
  PROVE  IInv'
  <1> DEFINE h == LetGo(conn[c].hold)
             r == [conn[c] EXCEPT !.ending = "closeFlow", !.hold = h]
  <1>1. conn[c] \in Connection /\ conn[c].ending = "release" /\ alive \in BOOLEAN
    BY DEF IInv, TypeOK, EndReleases
  <1>2. conn' = [conn EXCEPT ![c] = r] /\ UNCHANGED <<queue, phase, visited, alive>>
    BY Zenon DEF EndReleases
  <1>3. h \in {"none", "held", "released"} /\ h # "held" /\ "closeFlow" \in EndAt
    BY <1>1 DEF LetGo, EndAt, Connection
  <1> HIDE DEF h
  <1>4. /\ r \in Connection /\ r.ending = "closeFlow" /\ r.live = conn[c].live
        /\ r.pcb = conn[c].pcb /\ r.misused = conn[c].misused /\ r.gone = conn[c].gone
        /\ r.ended = conn[c].ended /\ r.tracked = conn[c].tracked /\ r.serve = conn[c].serve
        /\ r.hold = h /\ r.registered = conn[c].registered
    BY <1>1, <1>3, ZenonT(60) DEF Connection
  <1> HIDE DEF r
  <1>5. Sound(r) /\ Follows(conn[c], r)
    BY <1>1, <1>3, <1>4, GoesOn
  <1>6. /\ conn' \in [Conns -> Connection] /\ AllSound'
        /\ conn'[c] = r /\ \A d \in Conns : d # c => conn'[d] = conn[d]
        /\ Held' = Held \ {c}
    BY <1>2, <1>3, <1>4, <1>5, Moved DEF IInv
  <1>7. queue' \in Seq(Task) /\ TasksFit' /\ GivenOnce'
    BY <1>2, <1>5, <1>6, QueueKept
  <1>8. Counted' /\ holders' \in Nat
    BY <1>2, <1>6, Releases DEF EndReleases
  <1>9. TypeOK'
    BY <1>2, <1>6, <1>7, <1>8 DEF IInv, TypeOK
  <1>10. HandedOver'
    BY <1>2, <1>3, <1>4, <1>5, <1>6, OverKept
  <1>11. QED
    BY <1>6, <1>7, <1>8, <1>9, <1>10 DEF IInv

-----------------------------------------------------------------------------
(* The queue. *)

\* The part of the invariant the queue has no part in.
LEMMA RestStays ==
  ASSUME IInv, UNCHANGED <<conn, holders>>, phase' \in PhaseNames,
         phase' # "cleared" => phase # "cleared",
         visited' \in SUBSET Conns, alive' \in BOOLEAN, queue' \in Seq(Task)
  PROVE  TypeOK' /\ Counted' /\ AllSound'
  <1>1. Held' = Held
    BY DEF Held
  <1>2. Counted'
    BY <1>1, HoldsKept DEF IInv
  <1>3. QED
    BY <1>2 DEF IInv, TypeOK, AllSound

\* A task queued for a connection that is open, and to hand its pcb back only
\* if none is queued to do so already.
LEMMA TaskQueued ==
  ASSUME IInv, NEW c \in Conns, NEW t \in Task, t.of = {c}, queue' = Append(queue, t),
         conn'[c].pcb # "none", Due(conn[c]) => Due(conn'[c]),
         Gives(t) => Due(conn'[c]) /\ ~Due(conn[c]),
         \A d \in Conns : d # c => conn'[d] = conn[d]
  PROVE  queue' \in Seq(Task) /\ TasksFit' /\ GivenOnce'
  <1>1. /\ queue \in Seq(Task) /\ Len(queue) \in Nat /\ DOMAIN queue = 1 .. Len(queue)
        /\ queue' \in Seq(Task) /\ DOMAIN queue' = 1 .. Len(queue) + 1
        /\ \A i \in 1 .. Len(queue) : queue'[i] = queue[i]
        /\ queue'[Len(queue) + 1] = t
    BY AppendProperties, LenProperties DEF IInv, TypeOK
  <1>2. \A d \in Conns : {c} = {d} => c = d
    OBVIOUS
  <1>3. TasksFit'
    <2> SUFFICES ASSUME NEW d \in Conns, NEW i \in DOMAIN queue', queue'[i].of = {d}
                 PROVE  conn'[d].pcb # "none" /\ (Gives(queue'[i]) => Due(conn'[d]))
      BY DEF TasksFit, Gives, Due
    <2>1. CASE i = Len(queue) + 1
      BY <1>1, <1>2, <2>1
    <2>2. CASE i # Len(queue) + 1
      <3>1. i \in DOMAIN queue /\ queue'[i] = queue[i]
        BY <1>1, <2>2
      <3>2. QED
        BY <3>1 DEF IInv, TasksFit
    <2>3. QED
      BY <2>1, <2>2
  <1>4. GivenOnce'
    <2> SUFFICES ASSUME NEW d \in Conns, NEW i \in DOMAIN queue', NEW j \in DOMAIN queue',
                        queue'[i].of = {d}, Gives(queue'[i]), queue'[j].of = {d}, Gives(queue'[j])
                 PROVE  i = j
      BY DEF GivenOnce, Gives
    <2>1. CASE i = Len(queue) + 1 /\ j # Len(queue) + 1
      BY <1>1, <1>2, <2>1 DEF IInv, TasksFit
    <2>2. CASE j = Len(queue) + 1 /\ i # Len(queue) + 1
      BY <1>1, <1>2, <2>2 DEF IInv, TasksFit
    <2>3. CASE i # Len(queue) + 1 /\ j # Len(queue) + 1
      BY <1>1, <2>3 DEF IInv, GivenOnce
    <2>4. QED
      BY <2>1, <2>2, <2>3
  <1>5. QED
    BY <1>1, <1>3, <1>4

\* A stack task that only uses the pcb: announced, then queued or refused.
LEMMA UseCheckStep ==
  ASSUME IInv, NEW c \in Conns, NEW who \in {"serve", "up", "down"}, UseChecks(c, who)
  PROVE  IInv'
  <1> DEFINE p == conn[c].posting \cup {who}
             r == [conn[c] EXCEPT !.posting = p]
  <1>1. conn[c] \in Connection /\ alive \in BOOLEAN
    BY DEF IInv, TypeOK
  <1>2. conn' = [conn EXCEPT ![c] = r] /\ UNCHANGED <<queue, phase, visited, holders, alive>>
    BY Zenon DEF UseChecks
  <1>3. p \in SUBSET {"serve", "up", "down"}
    BY <1>1 DEF Connection
  <1> HIDE DEF p
  <1>4. r \in Connection /\ Kept(conn[c], r) /\ r.live = conn[c].live /\ r.serve = conn[c].serve
    BY <1>1, <1>3, ZenonT(60) DEF Connection, Kept
  <1> HIDE DEF r
  <1>5. QED
    BY <1>1, <1>2, <1>4, Served

LEMMA UsePostStep ==
  ASSUME IInv, NEW c \in Conns, NEW who \in {"serve", "up", "down"}, UsePosts(c, who)
  PROVE  IInv'
  <1>1. /\ conn[c] \in Connection /\ Sound(conn[c]) /\ alive \in BOOLEAN
        /\ conn[c].serve \in {"assigned", "dns", "pumping"}
    BY DEF IInv, TypeOK, AllSound, UsePosts, AtWork
  <1>2. UNCHANGED <<phase, visited, holders>> /\ alive' \in BOOLEAN
    BY <1>1 DEF UsePosts
  <1> DEFINE p == conn[c].posting \ {who}
  <1>3. p \in SUBSET {"serve", "up", "down"}
    BY <1>1 DEF Connection
  <1>4. CASE Accepting
    <2> DEFINE v == IF who = "serve" /\ conn[c].serve = "assigned" THEN "credited" ELSE conn[c].serve
               r == [conn[c] EXCEPT !.posting = p, !.serve = v]
               t == [task |-> "use", of |-> {c}]
    <2>1. conn' = [conn EXCEPT ![c] = r] /\ queue' = Append(queue, t)
      BY <1>4, Zenon DEF UsePosts, Enqueue
    <2>2. v \in {"assigned", "credited", "pumping", "dns"}
      BY <1>1
    <2>3. v \in ServeAt
      BY <2>2 DEF ServeAt
    <2> HIDE DEF p, v
    <2>4. r \in Connection /\ Kept(conn[c], r) /\ r.live = conn[c].live /\ r.serve = v
      BY <1>1, <1>3, <2>3, ZenonT(60) DEF Connection, Kept
    <2>5. t \in Task /\ t.of = {c} /\ ~Gives(t)
      BY DEF Task, Gives
    <2> HIDE DEF r, t
    <2>6. Sound(r) /\ Follows(conn[c], r) /\ r.pcb # "none" /\ (Due(conn[c]) => Due(r))
      BY <1>1, <2>2, <2>4 DEF Sound, Untouched, Kept, Follows, Due
    <2>7. /\ conn' \in [Conns -> Connection] /\ AllSound'
          /\ conn'[c] = r /\ \A d \in Conns : d # c => conn'[d] = conn[d]
      BY <2>1, <2>4, <2>6, Moved DEF IInv
    <2>8. queue' \in Seq(Task) /\ TasksFit' /\ GivenOnce'
      BY <2>1, <2>5, <2>6, <2>7, TaskQueued
    <2>9. Held' = Held
      BY <2>4, <2>7 DEF Held, Kept
    <2>10. Counted'
      BY <1>2, <2>9, HoldsKept DEF IInv
    <2>11. TypeOK'
      BY <1>2, <2>7, <2>8 DEF IInv, TypeOK
    <2>12. HandedOver'
      <3>1. phase \notin {"cancelled", "cleared"}
        BY <1>4 DEF Accepting
      <3>2. QED
        BY <1>2, <2>4, <2>6, <2>7, <3>1, OverKept DEF Kept
    <2>13. QED
      BY <2>7, <2>8, <2>10, <2>11, <2>12 DEF IInv
  <1>5. CASE ~Accepting /\ who # "serve"
    <2> DEFINE u == conn[c].up /\ who # "up"
               d == conn[c].down /\ who # "down"
               r == [conn[c] EXCEPT !.posting = p, !.up = u, !.down = d]
    <2>1. conn' = [conn EXCEPT ![c] = r] /\ queue' = queue
      BY <1>5, Zenon DEF UsePosts
    <2>2. u \in BOOLEAN /\ d \in BOOLEAN
      OBVIOUS
    <2> HIDE DEF p, u, d
    <2>3. r \in Connection /\ Kept(conn[c], r) /\ r.live = conn[c].live /\ r.serve = conn[c].serve
      BY <1>1, <1>3, <2>2, ZenonT(60) DEF Connection, Kept
    <2> HIDE DEF r
    <2>4. QED
      BY <1>2, <2>1, <2>3, Served
  <1>6. CASE ~Accepting /\ who = "serve"
    <2> DEFINE v == IF conn[c].serve = "dns" THEN "finishing" ELSE "escaped"
               r == [conn[c] EXCEPT !.posting = p, !.serve = v]
    <2>1. conn' = [conn EXCEPT ![c] = r] /\ queue' = queue
      BY <1>6, Zenon DEF UsePosts
    <2>2. v \in ServeAt /\ v \notin Early /\ conn[c].serve \notin Early
      BY <1>1 DEF ServeAt, Early
    <2> HIDE DEF p, v
    <2>3. r \in Connection /\ Kept(conn[c], r) /\ r.live = conn[c].live /\ r.serve = v
      BY <1>1, <1>3, <2>2, ZenonT(60) DEF Connection, Kept
    <2> HIDE DEF r
    <2>4. QED
      BY <1>2, <2>1, <2>2, <2>3, Served
  <1>7. QED
    BY <1>4, <1>5, <1>6

LEMMA PostsStep ==
  ASSUME IInv, NEW c \in Conns, EndPosts(c)
  PROVE  IInv'
  <1> DEFINE r == [conn[c] EXCEPT !.ending = "done"]
             t == [task |-> IF conn[c].reset THEN "abort" ELSE "close", of |-> {c}]
  <1>1. conn[c] \in Connection /\ Sound(conn[c]) /\ conn[c].ending = "post" /\ alive \in BOOLEAN
    BY DEF IInv, TypeOK, AllSound, EndPosts
  <1>2. conn' = [conn EXCEPT ![c] = r] /\ UNCHANGED <<phase, visited, holders>>
    BY Zenon DEF EndPosts
  <1>9. alive' \in BOOLEAN
    BY <1>1 DEF EndPosts
  <1>3. "done" \in EndAt
    BY DEF EndAt
  <1>4. /\ r \in Connection /\ r.ending = "done" /\ r.live = conn[c].live
        /\ r.pcb = conn[c].pcb /\ r.misused = conn[c].misused /\ r.gone = conn[c].gone
        /\ r.ended = conn[c].ended /\ r.tracked = conn[c].tracked /\ r.serve = conn[c].serve
        /\ r.hold = conn[c].hold /\ r.registered = conn[c].registered
    BY <1>1, <1>3, ZenonT(60) DEF Connection
  <1> HIDE DEF r
  <1>5. Sound(r) /\ Follows(conn[c], r)
    BY <1>1, <1>4, GoesOn
  <1>6. CASE queue' = queue
    BY <1>1, <1>2, <1>4, <1>5, <1>6, <1>9, OneMoves
  <1>7. CASE queue' = Append(queue, t) /\ Accepting
    <2>1. t \in Task /\ t.of = {c}
      BY DEF Task
    <2> HIDE DEF t
    <2>2. r.pcb # "none" /\ Due(r) /\ ~Due(conn[c])
      BY <1>1, <1>4 DEF Sound, Untouched, Due
    <2>3. /\ conn' \in [Conns -> Connection] /\ AllSound'
          /\ conn'[c] = r /\ \A d \in Conns : d # c => conn'[d] = conn[d]
      BY <1>2, <1>4, <1>5, Moved DEF IInv
    <2>4. queue' \in Seq(Task) /\ TasksFit' /\ GivenOnce'
      BY <1>7, <2>1, <2>2, <2>3, TaskQueued
    <2>5. Held' = Held
      BY <1>4, <2>3 DEF Held
    <2>6. Counted'
      BY <1>2, <2>5, HoldsKept DEF IInv
    <2>7. TypeOK'
      BY <1>2, <1>9, <2>3, <2>4 DEF IInv, TypeOK
    <2>8. HandedOver'
      <3>1. phase \notin {"cancelled", "cleared"}
        BY <1>7 DEF Accepting
      <3>2. QED
        BY <1>2, <1>4, <1>5, <2>3, <3>1, OverKept
    <2>9. QED
      BY <2>3, <2>4, <2>6, <2>7, <2>8 DEF IInv
  <1>8. QED
    BY <1>6, <1>7 DEF EndPosts, Enqueue

\* A task leaves the queue; only a connection it was to hand back is no longer due.
LEMMA TaskTaken ==
  ASSUME IInv, queue # <<>>, queue' = Tail(queue),
         \A d \in Conns : /\ conn[d].pcb # "none" => conn'[d].pcb # "none"
                          /\ Due(conn[d]) => \/ Due(conn'[d])
                                             \/ Head(queue).of = {d} /\ Gives(Head(queue))
  PROVE  queue' \in Seq(Task) /\ TasksFit' /\ GivenOnce'
  <1>1. /\ queue \in Seq(Task) /\ Len(queue) \in Nat /\ Len(queue) # 0
        /\ DOMAIN queue = 1 .. Len(queue)
        /\ queue' \in Seq(Task) /\ DOMAIN queue' = 1 .. Len(queue) - 1
        /\ \A i \in 1 .. Len(queue) - 1 : queue'[i] = queue[i + 1]
        /\ Head(queue) = queue[1]
    BY HeadTailProperties, EmptySeq, LenProperties DEF IInv, TypeOK
  <1>2. \A i \in DOMAIN queue' : i + 1 \in DOMAIN queue /\ i + 1 # 1 /\ queue'[i] = queue[i + 1]
    BY <1>1
  <1>3. 1 \in DOMAIN queue
    BY <1>1
  <1>4. TasksFit'
    <2> SUFFICES ASSUME NEW d \in Conns, NEW i \in DOMAIN queue', queue'[i].of = {d}
                 PROVE  conn'[d].pcb # "none" /\ (Gives(queue'[i]) => Due(conn'[d]))
      BY DEF TasksFit, Gives, Due
    <2>1. conn'[d].pcb # "none"
      BY <1>2 DEF IInv, TasksFit
    <2>2. ASSUME Gives(queue'[i]) PROVE Due(conn'[d])
      <3>1. Due(conn[d])
        BY <1>2, <2>2 DEF IInv, TasksFit
      <3>2. ~(Head(queue).of = {d} /\ Gives(Head(queue)))
        BY <1>1, <1>2, <1>3, <2>2 DEF IInv, GivenOnce
      <3>3. QED
        BY <3>1, <3>2
    <2>3. QED
      BY <2>1, <2>2
  <1>5. GivenOnce'
    <2> SUFFICES ASSUME NEW d \in Conns, NEW i \in DOMAIN queue', NEW j \in DOMAIN queue',
                        queue'[i].of = {d}, Gives(queue'[i]), queue'[j].of = {d}, Gives(queue'[j])
                 PROVE  i = j
      BY DEF GivenOnce, Gives
    <2>1. i + 1 = j + 1
      BY <1>2 DEF IInv, GivenOnce
    <2>2. i \in Nat /\ j \in Nat
      BY <1>1
    <2>3. QED
      BY <2>1, <2>2
  <1>6. QED
    BY <1>1, <1>4, <1>5

LEMMA TaskStep ==
  ASSUME IInv, RunTask
  PROVE  IInv'
  <1>1. PICK c \in Conns :
          /\ Head(queue).of = {c}
          /\ \/ Head(queue).task = "use" /\ conn' = [conn EXCEPT ![c] = Uses(c)]
             \/ Gives(Head(queue)) /\ conn' = [conn EXCEPT ![c] = HandsBack(c)]
    BY Zenon DEF RunTask, Gives
  <1>2. /\ queue # <<>> /\ queue' = Tail(queue)
        /\ UNCHANGED <<phase, visited, holders, alive>>
    BY DEF RunTask
  <1>3. conn[c] \in Connection /\ Sound(conn[c])
    BY DEF IInv, TypeOK, AllSound
  <1>4. conn[c].pcb # "none" /\ (Gives(Head(queue)) => Due(conn[c]))
    <2>1. 1 \in DOMAIN queue /\ Head(queue) = queue[1]
      BY <1>2, HeadTailProperties, EmptySeq, LenProperties DEF IInv, TypeOK
    <2>2. QED
      BY <1>1, <2>1 DEF IInv, TasksFit
  <1> DEFINE m == IF ~conn[c].gone /\ conn[c].pcb # "live"
                  THEN IF conn[c].pcb = "freed" THEN "afterDevice" ELSE "afterUs"
                  ELSE conn[c].misused
             p == IF conn[c].pcb = "live" THEN "handedBack" ELSE conn[c].pcb
             used == [conn[c] EXCEPT !.misused = m]
             given == [conn[c] EXCEPT !.misused = m, !.gone = TRUE, !.pcb = p]
  <1>5. /\ m \in {"no", "afterDevice", "afterUs"} /\ m # "afterUs"
        /\ p \in {"none", "live", "freed", "handedBack"} /\ p # "none"
        /\ p = "handedBack" => conn[c].pcb \in {"live", "handedBack"}
    BY <1>3, <1>4 DEF Connection, Sound
  <1>6. PICK r : /\ r \in Connection /\ Sound(r) /\ r.hold = conn[c].hold /\ r.registered = conn[c].registered
                 /\ r.pcb # "none"
                 /\ conn' = [conn EXCEPT ![c] = r]
                 /\ Due(conn[c]) => Due(r) \/ Gives(Head(queue))
    <2>1. CASE conn' = [conn EXCEPT ![c] = Uses(c)]
      <3>1. Uses(c) = used
        BY Zenon DEF Uses
      <3> HIDE DEF m
      <3>2. /\ used \in Connection /\ used.misused = m
            /\ used.pcb = conn[c].pcb /\ used.gone = conn[c].gone /\ used.ending = conn[c].ending
            /\ used.ended = conn[c].ended /\ used.tracked = conn[c].tracked
            /\ used.serve = conn[c].serve /\ used.live = conn[c].live /\ used.hold = conn[c].hold
            /\ used.registered = conn[c].registered
        BY <1>3, <1>5, ZenonT(60) DEF Connection
      <3> HIDE DEF used
      <3>3. Sound(used) /\ (Due(conn[c]) => Due(used))
        BY <1>3, <1>4, <1>5, <3>2 DEF Sound, Due
      <3>4. QED
        BY <1>4, <2>1, <3>1, <3>2, <3>3
    <2>2. CASE Gives(Head(queue)) /\ conn' = [conn EXCEPT ![c] = HandsBack(c)]
      <3>1. CASE conn[c].gone
        <4>1. HandsBack(c) = conn[c]
          BY <3>1 DEF HandsBack
        <4>2. QED
          BY <1>3, <1>4, <2>2, <4>1
      <3>2. CASE ~conn[c].gone
        <4>1. HandsBack(c) = given
          <5>1. HandsBack(c) = [Uses(c) EXCEPT !.gone = TRUE, !.pcb = IF @ = "live" THEN "handedBack" ELSE @]
            BY <3>2, Zenon DEF HandsBack
          <5>2. Uses(c) = used
            BY Zenon DEF Uses
          <5> HIDE DEF m
          <5>3. used.pcb = conn[c].pcb
            BY <1>3, Zenon DEF Connection
          <5>4. HandsBack(c) = [used EXCEPT !.gone = TRUE, !.pcb = p]
            BY <5>1, <5>2, <5>3, Zenon
          <5> HIDE DEF p
          <5>5. [used EXCEPT !.gone = TRUE, !.pcb = p] = given
            BY <1>3, ZenonT(60) DEF Connection
          <5>6. QED
            BY <5>4, <5>5, Zenon
        <4> HIDE DEF m, p
        <4>2. /\ given \in Connection /\ given.misused = m /\ given.pcb = p /\ given.gone
              /\ given.ending = conn[c].ending
              /\ given.ended = conn[c].ended /\ given.tracked = conn[c].tracked
              /\ given.serve = conn[c].serve /\ given.live = conn[c].live /\ given.hold = conn[c].hold
              /\ given.registered = conn[c].registered
          BY <1>3, <1>5, ZenonT(60) DEF Connection
        <4> HIDE DEF given
        <4>3. Sound(given)
          BY <1>3, <1>4, <1>5, <2>2, <4>2 DEF Sound, Due
        <4>4. QED
          BY <1>5, <2>2, <4>1, <4>2, <4>3
      <3>3. QED
        BY <3>1, <3>2
    <2>3. QED
      BY <1>1, <2>1, <2>2
  <1>7. /\ conn' \in [Conns -> Connection] /\ AllSound'
        /\ conn'[c] = r /\ \A d \in Conns : d # c => conn'[d] = conn[d]
    BY <1>6, Moved DEF IInv
  <1>8. queue' \in Seq(Task) /\ TasksFit' /\ GivenOnce'
    BY <1>1, <1>2, <1>6, <1>7, TaskTaken
  <1>9. Held' = Held
    BY <1>6, <1>7 DEF Held
  <1>10. Counted'
    BY <1>2, <1>9, HoldsKept DEF IInv
  <1>11. TypeOK'
    BY <1>2, <1>7, <1>8 DEF IInv, TypeOK
  <1>12. HandedOver'
    <2>1. phase \notin {"cancelled", "cleared"} /\ visited \subseteq Conns
      BY <1>2 DEF IInv, HandedOver, TypeOK
    <2>2. QED
      BY <1>2, <1>6, <1>7, <2>1 DEF IInv, HandedOver
  <1>13. QED
    BY <1>7, <1>8, <1>10, <1>11, <1>12 DEF IInv

LEMMA ShutdownStep ==
  ASSUME IInv, ShutdownRuns
  PROVE  IInv'
  <1>1. /\ queue # <<>> /\ queue' = Tail(queue)
        /\ UNCHANGED <<conn, phase, visited, holders, alive>>
    BY DEF ShutdownRuns
  <1>2. queue' \in Seq(Task) /\ TasksFit' /\ GivenOnce'
    BY <1>1, TaskTaken
  <1>3. HandedOver'
    BY <1>1 DEF IInv, HandedOver
  <1>4. QED
    BY <1>1, <1>2, <1>3, RestStays DEF IInv, TypeOK

-----------------------------------------------------------------------------
(* serve, before it dials. *)

LEMMA StartsStep ==
  ASSUME IInv, NEW c \in Conns, ServeStarts(c)
  PROVE  IInv'
  <1>1. conn[c] \in Connection /\ Sound(conn[c]) /\ conn[c].serve = "launched" /\ alive \in BOOLEAN
    BY DEF IInv, TypeOK, AllSound, ServeStarts
  <1>2. UNCHANGED <<queue, phase, visited, holders, alive>>
    BY DEF ServeStarts
  <1>3. ~conn[c].live /\ ~conn[c].tracked /\ conn[c].pcb # "none"
    BY <1>1 DEF Sound, Untouched
  <1>4. ASSUME NEW x \in {"over", "dns", "aborting"},
               conn' = [conn EXCEPT ![c] = [conn[c] EXCEPT !.serve = x]]
        PROVE  IInv'
    <2> DEFINE r == [conn[c] EXCEPT !.serve = x]
    <2>1. x \in ServeAt
      BY DEF ServeAt
    <2>2. /\ r \in Connection /\ r.serve = x /\ r.live = conn[c].live
          /\ r.pcb = conn[c].pcb /\ r.misused = conn[c].misused /\ r.gone = conn[c].gone
          /\ r.ended = conn[c].ended /\ r.ending = conn[c].ending /\ r.tracked = conn[c].tracked
          /\ r.hold = conn[c].hold /\ r.registered = conn[c].registered
      BY <1>1, <2>1, ZenonT(60) DEF Connection
    <2>3. conn' = [conn EXCEPT ![c] = r]
      BY <1>4
    <2> HIDE DEF r
    <2>4. Sound(r) /\ Follows(conn[c], r)
      BY <1>1, <1>3, <2>2 DEF Sound, Follows, Due
    <2>5. QED
      BY <1>1, <1>2, <2>2, <2>3, <2>4, OneMoves
  <1>5. ASSUME NEW direct \in BOOLEAN,
               conn' = [conn EXCEPT ![c] = [conn[c] EXCEPT !.serve = "listed", !.live = TRUE,
                                                           !.direct = direct]]
        PROVE  IInv'
    <2> DEFINE r == [conn[c] EXCEPT !.serve = "listed", !.live = TRUE, !.direct = direct]
    <2>1. "listed" \in ServeAt
      BY DEF ServeAt
    <2>2. /\ r \in Connection /\ r.serve = "listed" /\ r.live
          /\ r.pcb = conn[c].pcb /\ r.misused = conn[c].misused /\ r.gone = conn[c].gone
          /\ r.ended = conn[c].ended /\ r.ending = conn[c].ending /\ r.tracked = conn[c].tracked
          /\ r.hold = conn[c].hold /\ r.registered = conn[c].registered
      BY <1>1, <2>1, ZenonT(60) DEF Connection
    <2>3. conn' = [conn EXCEPT ![c] = r]
      BY <1>5
    <2> HIDE DEF r
    <2>4. Sound(r) /\ Follows(conn[c], r)
      BY <1>1, <1>3, <2>2 DEF Sound, Follows, Due
    <2>5. QED
      BY <1>1, <1>2, <2>2, <2>3, <2>4, OneMoves
  <1>6. QED
    BY <1>4, <1>5, Zenon DEF ServeStarts

LEMMA TracksStep ==
  ASSUME IInv, NEW c \in Conns, ServeTracks(c)
  PROVE  IInv'
  <1> DEFINE r == [conn[c] EXCEPT !.serve = "tracked", !.tracked = TRUE]
  <1>1. conn[c] \in Connection /\ Sound(conn[c]) /\ conn[c].serve = "listed" /\ alive \in BOOLEAN
    BY DEF IInv, TypeOK, AllSound, ServeTracks
  <1>2. conn' = [conn EXCEPT ![c] = r] /\ UNCHANGED <<queue, phase, visited, holders, alive>>
    BY Zenon DEF ServeTracks
  <1>3. "tracked" \in ServeAt
    BY DEF ServeAt
  <1>4. /\ r \in Connection /\ r.serve = "tracked" /\ r.tracked /\ r.live = conn[c].live
        /\ r.pcb = conn[c].pcb /\ r.misused = conn[c].misused /\ r.gone = conn[c].gone
        /\ r.ended = conn[c].ended /\ r.ending = conn[c].ending /\ r.hold = conn[c].hold /\ r.registered = conn[c].registered
    BY <1>1, <1>3, ZenonT(60) DEF Connection
  <1> HIDE DEF r
  <1>5. Sound(r) /\ Follows(conn[c], r)
    BY <1>1, <1>4 DEF Sound, Untouched, Follows, Due
  <1>6. QED
    BY <1>1, <1>2, <1>4, <1>5, OneMoves

\* serve looks at ended once tracked is set: the entry goes, or end() will see it.
LEMMA LooksStep ==
  ASSUME IInv, NEW c \in Conns, ServeChecksEnded(c)
  PROVE  IInv'
  <1> DEFINE x == IF conn[c].ended THEN "over" ELSE "dialing"
             v == conn[c].live /\ ~conn[c].ended
             r == [conn[c] EXCEPT !.serve = x, !.live = v]
  <1>1. conn[c] \in Connection /\ Sound(conn[c]) /\ conn[c].serve = "tracked" /\ alive \in BOOLEAN
    BY DEF IInv, TypeOK, AllSound, ServeChecksEnded
  <1>2. UNCHANGED <<queue, phase, visited, holders, alive>>
    BY DEF ServeChecksEnded
  <1>3. conn' = [conn EXCEPT ![c] = r]
    <2>1. CASE conn[c].ended
      <3>1. conn' = [conn EXCEPT ![c] = [conn[c] EXCEPT !.serve = "over", !.live = FALSE]]
        BY <2>1, Zenon DEF ServeChecksEnded
      <3>2. x = "over" /\ v = FALSE
        BY <2>1
      <3>3. QED
        BY <3>1, <3>2, Zenon
    <2>2. CASE ~conn[c].ended
      <3>1. conn' = [conn EXCEPT ![c] = [conn[c] EXCEPT !.serve = "dialing"]]
        BY <2>2, Zenon DEF ServeChecksEnded
      <3>2. x = "dialing" /\ v = conn[c].live
        BY <1>1, <2>2 DEF Connection
      <3>3. [conn[c] EXCEPT !.serve = "dialing"] = [conn[c] EXCEPT !.serve = "dialing", !.live = conn[c].live]
        BY <1>1, ZenonT(60) DEF Connection
      <3>4. QED
        BY <3>1, <3>2, <3>3, Zenon
    <2>3. QED
      BY <2>1, <2>2
  <1>4. x \in ServeAt /\ v \in BOOLEAN /\ x \notin Early
    BY DEF ServeAt, Early
  <1>5. v => conn[c].live /\ ~conn[c].ended
    OBVIOUS
  <1> HIDE DEF x, v
  <1>6. /\ r \in Connection /\ r.serve = x /\ r.live = v /\ r.tracked = conn[c].tracked
        /\ r.pcb = conn[c].pcb /\ r.misused = conn[c].misused /\ r.gone = conn[c].gone
        /\ r.ended = conn[c].ended /\ r.ending = conn[c].ending /\ r.hold = conn[c].hold /\ r.registered = conn[c].registered
    BY <1>1, <1>4, ZenonT(60) DEF Connection
  <1> HIDE DEF r
  <1>7. Sound(r) /\ Follows(conn[c], r)
    BY <1>1, <1>4, <1>5, <1>6 DEF Sound, Untouched, Follows, Due, Early
  <1>8. QED
    BY <1>1, <1>2, <1>3, <1>6, <1>7, OneMoves

-----------------------------------------------------------------------------
(* Teardown. *)

LEMMA PumpStep ==
  ASSUME IInv, PumpStops \/ PumpCloses \/ PumpQueuesShutdown
  PROVE  IInv'
  <1>1. /\ UNCHANGED <<conn, holders, visited, alive>>
        /\ phase' \in PhaseNames \ {"cancelled", "cleared"} /\ phase # "cleared"
        /\ queue' = queue \/ queue' = Append(queue, Shutdown)
    BY DEF PumpStops, PumpCloses, PumpQueuesShutdown, PhaseNames
  <1>2. queue' \in Seq(Task) /\ TasksFit' /\ GivenOnce'
    <2>1. CASE queue' = queue
      BY <1>1, <2>1 DEF IInv, TypeOK, TasksFit, GivenOnce
    <2>2. CASE queue' = Append(queue, Shutdown)
      <3>1. Shutdown \in Task /\ \A c \in Conns : Shutdown.of # {c}
        BY DEF Task, Shutdown
      <3>2. /\ Len(queue) \in Nat /\ DOMAIN queue = 1 .. Len(queue)
            /\ queue' \in Seq(Task) /\ DOMAIN queue' = 1 .. Len(queue) + 1
            /\ \A i \in 1 .. Len(queue) : queue'[i] = queue[i]
            /\ queue'[Len(queue) + 1] = Shutdown
        BY <2>2, <3>1, AppendProperties, LenProperties DEF IInv, TypeOK
      <3>3. \A i \in DOMAIN queue' : \A c \in Conns :
              queue'[i].of = {c} => i \in DOMAIN queue /\ queue'[i] = queue[i]
        BY <3>1, <3>2
      <3>4. QED
        BY <1>1, <3>2, <3>3 DEF IInv, TasksFit, GivenOnce
    <2>3. QED
      BY <1>1, <2>1, <2>2
  <1>3. HandedOver'
    BY <1>1 DEF IInv, HandedOver
  <1>4. QED
    BY <1>1, <1>2, <1>3, RestStays DEF IInv, TypeOK

LEMMA VisitStep ==
  ASSUME IInv, NEW c \in Conns, HandlerVisits(c)
  PROVE  IInv'
  <1> DEFINE v == conn[c].live /\ ~conn[c].tracked
             h == LetGo(conn[c].hold)
             f == IF conn[c].assigned THEN "closed" ELSE conn[c].flow
             r == [conn[c] EXCEPT !.live = v, !.hold = h, !.flow = f]
  <1>1. conn[c] \in Connection /\ Sound(conn[c])
    BY DEF IInv, TypeOK, AllSound
  <1>2. conn' = [conn EXCEPT ![c] = r] /\ UNCHANGED <<queue, phase, alive>>
    BY Zenon DEF HandlerVisits
  <1>3. /\ v \in BOOLEAN /\ h \in {"none", "held", "released"} /\ f \in {"none", "open", "closed"}
        /\ h # "held" /\ (conn[c].hold = "none" => h = "none") /\ (v => conn[c].live)
    BY <1>1 DEF LetGo, Connection
  <1> HIDE DEF v, h, f
  <1>4. /\ r \in Connection /\ r.live = v /\ r.hold = h
        /\ r.pcb = conn[c].pcb /\ r.misused = conn[c].misused /\ r.gone = conn[c].gone
        /\ r.ended = conn[c].ended /\ r.ending = conn[c].ending /\ r.tracked = conn[c].tracked
        /\ r.serve = conn[c].serve /\ r.calling = conn[c].calling /\ r.registered = conn[c].registered
    BY <1>1, <1>3, ZenonT(60) DEF Connection
  <1> HIDE DEF r
  <1>5. Sound(r) /\ Follows(conn[c], r)
    BY <1>1, <1>3, <1>4 DEF Sound, Untouched, Follows, Due
  <1>6. /\ conn' \in [Conns -> Connection] /\ AllSound'
        /\ conn'[c] = r /\ \A d \in Conns : d # c => conn'[d] = conn[d]
        /\ Held' = Held \ {c}
    BY <1>2, <1>3, <1>4, <1>5, Moved DEF IInv
  <1>7. queue' \in Seq(Task) /\ TasksFit' /\ GivenOnce'
    BY <1>2, <1>5, <1>6, QueueKept
  <1>8. Counted' /\ holders' \in Nat
    BY <1>2, <1>6, Releases DEF HandlerVisits
  <1>9. TypeOK'
    BY <1>2, <1>6, <1>7, <1>8 DEF IInv, TypeOK, HandlerVisits
  <1>10. HandedOver'
    <2>1. /\ visited' = visited \cup {c} /\ phase = "closed" /\ phase' = phase /\ conn[c].registered
          /\ visited \subseteq Conns
      BY <1>2 DEF HandlerVisits, PumpStopped, IInv, TypeOK
    <2>2. conn[c].pcb # "none"
      BY <1>1, <2>1 DEF Sound, Untouched
    <2>3. QED
      BY <1>3, <1>4, <1>6, <2>1, <2>2 DEF IInv, HandedOver
  <1>11. QED
    BY <1>6, <1>7, <1>8, <1>9, <1>10 DEF IInv

\* The end of the teardown touches every connection, and none's pcb or end().
LEMMA AllMove ==
  ASSUME IInv, HandlerCancels \/ TunnelClears
  PROVE  IInv'
  <1>1. conn \in [Conns -> Connection] /\ UNCHANGED <<queue, visited, alive>>
    BY DEF IInv, TypeOK, HandlerCancels, TunnelClears
  <1>2. ASSUME NEW c \in Conns
        PROVE  /\ conn'[c] \in Connection
               /\ conn'[c].pcb = conn[c].pcb /\ conn'[c].misused = conn[c].misused
               /\ conn'[c].gone = conn[c].gone /\ conn'[c].ended = conn[c].ended
               /\ conn'[c].ending = conn[c].ending /\ conn'[c].tracked = conn[c].tracked
               /\ conn'[c].serve = conn[c].serve /\ conn'[c].calling = conn[c].calling
               /\ conn'[c].hold = conn[c].hold
               /\ ~conn'[c].registered
               /\ conn'[c].live => conn[c].live
    <2>1. CASE HandlerCancels
      <3> DEFINE r == [conn[c] EXCEPT !.registered = FALSE, !.cancelled = TRUE, !.closer = FALSE]
      <3>0. conn[c] \in Connection
        BY <1>1
      <3>1. conn'[c] = r
        BY <2>1 DEF HandlerCancels
      <3>2. /\ r \in Connection
            /\ r.pcb = conn[c].pcb /\ r.misused = conn[c].misused
            /\ r.gone = conn[c].gone /\ r.ended = conn[c].ended
            /\ r.ending = conn[c].ending /\ r.tracked = conn[c].tracked
            /\ r.serve = conn[c].serve /\ r.calling = conn[c].calling
            /\ r.hold = conn[c].hold
            /\ r.registered = FALSE /\ r.live = conn[c].live
        BY <3>0, ZenonT(60) DEF Connection
      <3> HIDE DEF r
      <3>3. QED
        BY <3>1, <3>2
    <2>2. CASE TunnelClears
      <3> DEFINE f == IF conn[c].flow = "open" /\ ~conn[c].direct THEN "closed" ELSE conn[c].flow
                 r == [conn[c] EXCEPT !.live = FALSE, !.flow = f]
      <3>0. conn[c] \in Connection
        BY <1>1
      <3>1. conn'[c] = r
        BY <2>2, Zenon DEF TunnelClears
      <3>2. f \in {"none", "open", "closed"}
        BY <1>1 DEF Connection
      <3> HIDE DEF f
      <3>3. /\ r \in Connection
            /\ r.pcb = conn[c].pcb /\ r.misused = conn[c].misused
            /\ r.gone = conn[c].gone /\ r.ended = conn[c].ended
            /\ r.ending = conn[c].ending /\ r.tracked = conn[c].tracked
            /\ r.serve = conn[c].serve /\ r.calling = conn[c].calling
            /\ r.hold = conn[c].hold
            /\ r.live = FALSE /\ r.registered = conn[c].registered
        BY <3>0, <3>2, ZenonT(60) DEF Connection
      <3> HIDE DEF r
      <3>4. ~conn[c].registered
        BY <2>2 DEF TunnelClears, IInv, HandedOver
      <3>5. QED
        BY <3>1, <3>3, <3>4
    <2>3. QED
      BY <2>1, <2>2
  <1>h. ASSUME NEW c \in Conns, conn[c].hold = "held" PROVE conn[c].ending = "release"
    <2>1. Sound(conn[c])
      BY DEF IInv, AllSound
    <2>2. ~conn[c].registered
      BY <1>h DEF HandlerCancels, TunnelClears, IInv, HandedOver
    <2>3. QED
      BY <1>h, <2>1, <2>2 DEF Sound
  <1>3. AllSound'
    <2> SUFFICES ASSUME NEW c \in Conns PROVE Sound(conn'[c])
      BY DEF AllSound
    <2>1. Sound(conn[c])
      BY DEF IInv, AllSound
    <2>2. QED
      BY <1>2, <1>h, <2>1 DEF Sound, Untouched
  <1>4. TasksFit' /\ GivenOnce'
    BY <1>1, <1>2 DEF IInv, TasksFit, GivenOnce, Due
  <1>5. Held' = Held
    BY <1>2 DEF Held
  <1>6. Counted' /\ holders' \in Nat /\ phase' \in PhaseNames
    <2>1. CASE HandlerCancels
      <3>1. holders' = holders /\ phase # "cleared" /\ phase' \in PhaseNames
        BY <2>1 DEF HandlerCancels, PumpStopped, PhaseNames
      <3>2. QED
        BY <1>5, <3>1, HoldsKept DEF IInv, TypeOK
    <2>2. CASE TunnelClears
      BY <2>2 DEF TunnelClears, Counted, PhaseNames
    <2>3. QED
      BY <2>1, <2>2
  <1>7. conn' \in [Conns -> Connection]
    <2>1. conn' = [c \in Conns |-> conn'[c]]
      BY Zenon DEF HandlerCancels, TunnelClears
    <2>2. QED
      BY <1>2, <2>1, Zenon
  <1>8. TypeOK'
    BY <1>1, <1>6, <1>7 DEF IInv, TypeOK
  <1>9. HandedOver'
    <2>1. visited \subseteq Conns
      BY DEF IInv, TypeOK
    <2>2. queue = <<>>
      BY DEF HandlerCancels, PumpStopped, TunnelClears, IInv, HandedOver
    <2>3. QED
      BY <1>1, <1>2, <2>1, <2>2 DEF IInv, HandedOver
  <1>10. QED
    BY <1>3, <1>4, <1>6, <1>8, <1>9 DEF IInv

-----------------------------------------------------------------------------
(* The specification. *)

THEOREM InitIInv == Init => IInv
  <1> SUFFICES ASSUME Init PROVE IInv
    OBVIOUS
  <1>1. conn = [c \in Conns |-> Fresh] /\ queue = <<>>
    BY DEF Init
  <1>2. "none" \in ServeAt /\ "no" \in EndAt
    BY DEF ServeAt, EndAt
  <1>3. Fresh \in Connection
    BY <1>2, ZenonT(60) DEF Fresh, Connection
  <1>4. Sound(Fresh) /\ Fresh.hold = "none"
    BY DEF Fresh, Sound, Untouched
  <1>5. conn \in [Conns -> Connection] /\ \A c \in Conns : conn[c] = Fresh
    BY <1>1, <1>3, Zenon
  <1>6. AllSound
    BY <1>4, <1>5 DEF AllSound
  <1>7. Held = {}
    BY <1>4, <1>5 DEF Held
  <1>8. Counted
    BY <1>7, FS_EmptySet, HoldsAssumption DEF Counted, Init
  <1>9. queue \in Seq(Task) /\ DOMAIN queue = {}
    BY <1>1, EmptySeq, LenProperties
  <1>10. TasksFit /\ GivenOnce
    BY <1>9 DEF TasksFit, GivenOnce
  <1>11. TypeOK
    BY <1>5, <1>9, HoldsAssumption DEF Init, TypeOK, PhaseNames
  <1>12. HandedOver
    BY DEF Init, HandedOver
  <1>13. QED
    BY <1>6, <1>8, <1>10, <1>11, <1>12 DEF IInv

THEOREM NextIInv == IInv /\ [Next]_vars => IInv'
  <1> SUFFICES ASSUME IInv, [Next]_vars PROVE IInv'
    OBVIOUS
  <1>1. CASE RunTask \/ ShutdownRuns
    BY <1>1, TaskStep, ShutdownStep
  <1>2. CASE Teardown
    BY <1>2, PumpStep, VisitStep, AllMove DEF Teardown
  <1>3. ASSUME NEW c \in Conns, Device(c) \/ UserCloses(c) \/ ShutdownAborts(c)
        PROVE  IInv'
    BY <1>3, OpensStep, HalfClosesStep, FreedStep, UserStep DEF Device
  <1>4. ASSUME NEW c \in Conns,
               (\E who \in {"lwip", "user"} : CallEnds(c, who)) \/ EndSteps(c) \/ CloserRuns(c)
        PROVE  IInv'
    BY <1>4, CallStep, UntracksStep, UnregistersStep, ReleasesStep, ClosesFlowStep, ChecksStep,
       PostsStep, CloserStep DEF EndSteps
  <1>5. ASSUME NEW c \in Conns, ServeSteps(c) \/ FirstWriteFails(c)
        PROVE  IInv'
    BY <1>5, StartsStep, TracksStep, LooksStep, DialStep, AdmitsStep, AssignsStep, PumpsStartStep,
       PumpsJoinStep, ServeEndsStep, FirstWriteStep DEF ServeSteps
  <1>6. ASSUME NEW c \in Conns,
               \/ \E who \in {"serve", "up", "down"} : UseChecks(c, who) \/ UsePosts(c, who)
               \/ UpstreamEnds(c) \/ DownstreamEnds(c) \/ DnsEnds(c)
        PROVE  IInv'
    BY <1>6, UseCheckStep, UsePostStep, UpstreamStep, DownstreamStep, DnsStep
  <1>7. CASE UNCHANGED vars
    <2>1. UNCHANGED <<conn, queue, phase, visited, holders, alive>>
      BY <1>7 DEF vars
    <2>2. TasksFit' /\ GivenOnce' /\ HandedOver'
      BY <2>1 DEF IInv, TasksFit, GivenOnce, HandedOver
    <2>3. QED
      BY <2>1, <2>2, RestStays DEF IInv, TypeOK
  <1>8. CASE ReaderRefused
    <2>1. UNCHANGED <<conn, queue, phase, visited, holders>> /\ alive' \in BOOLEAN
      BY <1>8 DEF ReaderRefused
    <2>2. TasksFit' /\ GivenOnce' /\ HandedOver'
      BY <2>1 DEF IInv, TasksFit, GivenOnce, HandedOver
    <2>3. QED
      BY <2>1, <2>2, RestStays DEF IInv, TypeOK
  <1>9. QED
    BY <1>1, <1>2, <1>3, <1>4, <1>5, <1>6, <1>7, <1>8 DEF Next

\* Every reachable state of the flow handler satisfies the inductive invariant.
THEOREM Invariance == Spec => []IInv
  <1>1. Init => IInv
    BY InitIInv
  <1>2. IInv /\ [Next]_vars => IInv'
    BY NextIInv
  <1>3. QED
    BY <1>1, <1>2, PTL DEF Spec

\* The flow handler's records, its queue and its counter keep their types.
THEOREM AlwaysTyped == Spec => []TypeOK
  <1>1. IInv => TypeOK
    BY DEF IInv
  <1>2. QED
    BY <1>1, Invariance, PTL

\* releaseFakeIp runs exactly once for each hold, from whichever of end() and
\* the teardown comes first, for any number of connections on one address; and
\* when the pool is cleared only an end() at its release still holds one.
THEOREM HoldsAlwaysCounted == Spec => []HoldsCounted
  <1>1. IInv => HoldsCounted
    BY DEF IInv, Counted, HandedOver, AllSound, Sound, HoldsCounted, Held
  <1>2. QED
    BY <1>1, Invariance, PTL

\* An ended connection does not stay in the tracker's live list, whichever of
\* serve and end() came first to tracked and ended.
THEOREM NeverGhostEntry == Spec => []NoGhostEntry
  <1>1. IInv => NoGhostEntry
    BY DEF IInv, AllSound, Sound, NoGhostEntry
  <1>2. QED
    BY <1>1, Invariance, PTL

\* No write, credit or close of ours touches a pcb that end() has given back.
THEOREM NeverUsedAfterHandBack == Spec => []NoUseAfterHandBack
  <1>1. IInv => NoUseAfterHandBack
    BY DEF IInv, AllSound, Sound, NoUseAfterHandBack
  <1>2. QED
    BY <1>1, Invariance, PTL

-----------------------------------------------------------------------------
(* Somebody always owes. *)

\* Where a pcb stands that nobody has given up: an end() that is over has left
\* it a task, or the shutdown of the stack will abort it.
Awaits(r) == r.pcb = "live" /\ r.ended /\ r.ending = "done"
GivesFor(c) == \E i \in DOMAIN queue : queue[i].of = {c} /\ Gives(queue[i])
ShutdownQueued == \E i \in DOMAIN queue : queue[i] = Shutdown
Promised == \A c \in Conns :
              /\ conn[c].gone => conn[c].pcb \notin {"none", "live"}
              /\ Awaits(conn[c]) /\ Running => GivesFor(c)
              /\ conn[c].pcb = "live" => phase \in {"running", "stopping"} \/ ShutdownQueued

\* What a step may do to a record: not bring a pcb to life, not end an end().
Quiet(r0, r) == /\ r.pcb = r0.pcb /\ r.gone = r0.gone
                /\ r.ended = r0.ended /\ r.ending = r0.ending
Wanes(r0, r) == /\ r.gone => r0.gone \/ r.pcb \notin {"none", "live"}
                /\ r.pcb \in {"none", "live"} => r.pcb = r0.pcb
                /\ Awaits(r) => Awaits(r0) \/ ~Running

LEMMA QueueGrows ==
  ASSUME queue \in Seq(Task), NEW t \in Task, queue' = Append(queue, t)
  PROVE  /\ \A i \in DOMAIN queue : i \in DOMAIN queue' /\ queue'[i] = queue[i]
         /\ \E i \in DOMAIN queue' : queue'[i] = t
  <1>1. /\ Len(queue') = Len(queue) + 1 /\ Len(queue) \in Nat
        /\ \A i \in 1 .. Len(queue) : queue'[i] = queue[i]
        /\ queue'[Len(queue) + 1] = t
    BY AppendProperties
  <1>2. DOMAIN queue = 1 .. Len(queue) /\ DOMAIN queue' = 1 .. Len(queue')
    BY LenProperties, <1>1
  <1>3. QED
    BY <1>1, <1>2

\* Nothing is forgotten as long as no task is lost.
LEMMA Remembers ==
  ASSUME TypeOK, Promised, \A d \in Conns : Wanes(conn[d], conn'[d]),
         \A i \in DOMAIN queue : i \in DOMAIN queue' /\ queue'[i] = queue[i],
         Running' => Running,
         phase' \in {"running", "stopping"} \/ phase \notin {"running", "stopping"} \/ ShutdownQueued'
  PROVE  Promised'
  <1>1. /\ \A d : GivesFor(d) => GivesFor(d)'
        /\ ShutdownQueued => ShutdownQueued'
    BY DEF GivesFor, ShutdownQueued
  <1>2. QED
    BY <1>1 DEF Promised, Wanes, Awaits, Running

LEMMA QuietStep ==
  ASSUME TypeOK, Promised, \A d \in Conns : Quiet(conn[d], conn'[d]), queue' = queue,
         \/ phase' = phase
         \/ phase' \notin {"running", "stopping"} /\ phase \notin {"running", "stopping"}
  PROVE  Promised'
  <1>1. \A d \in Conns : Wanes(conn[d], conn'[d])
    BY DEF Quiet, Wanes, Awaits
  <1>2. Running' => Running
    BY DEF Running
  <1>3. QED
    BY <1>1, <1>2, Remembers

LEMMA QuietSteps ==
  ASSUME TypeOK, Promised, NEW c \in Conns,
         \/ DeviceHalfCloses(c) \/ UserCloses(c) \/ CloserRuns(c)
         \/ ServeStarts(c) \/ ServeTracks(c) \/ ServeChecksEnded(c) \/ DialAnswers(c)
         \/ ServeAdmits(c) \/ ServeAssigns(c) \/ FirstWriteFails(c) \/ PumpsStart(c) \/ PumpsJoin(c)
         \/ UpstreamEnds(c) \/ DownstreamEnds(c) \/ DnsEnds(c)
         \/ HandlerVisits(c) \/ HandlerCancels \/ TunnelClears
  PROVE  Promised'
  <1>1. conn \in [Conns -> Connection]
    BY DEF TypeOK
  <1>2. CASE DeviceHalfCloses(c) \/ UserCloses(c) \/ CloserRuns(c)
    BY <1>1, <1>2, QuietStep DEF Connection, DeviceHalfCloses, UserCloses, CloserRuns, Quiet
  <1>3. CASE ServeStarts(c)
    <2>1. \A d \in Conns : Quiet(conn[d], conn'[d])
      <3>1. CASE conn' = [conn EXCEPT ![c].serve = "over"]
        BY <1>1, <3>1 DEF Connection, Quiet
      <3>2. CASE conn' = [conn EXCEPT ![c].serve = "dns"]
        BY <1>1, <3>2 DEF Connection, Quiet
      <3>3. CASE conn' = [conn EXCEPT ![c].serve = "aborting"]
        BY <1>1, <3>3 DEF Connection, Quiet
      <3>4. CASE \E direct \in BOOLEAN :
                   conn' = [conn EXCEPT ![c].serve = "listed", ![c].live = TRUE, ![c].direct = direct]
        BY <1>1, <3>4 DEF Connection, Quiet
      <3>5. QED
        BY <1>3, <3>1, <3>2, <3>3, <3>4 DEF ServeStarts
    <2>2. QED
      BY <1>3, <2>1, QuietStep DEF ServeStarts
  <1>4. CASE ServeTracks(c) \/ ServeChecksEnded(c) \/ DialAnswers(c)
    <2>1. \A d \in Conns : Quiet(conn[d], conn'[d])
      BY <1>1, <1>4 DEF Connection, ServeTracks, ServeChecksEnded, DialAnswers, Quiet
    <2>2. QED
      BY <1>4, <2>1, QuietStep DEF ServeTracks, ServeChecksEnded, DialAnswers
  <1>5. CASE ServeAdmits(c) \/ ServeAssigns(c) \/ FirstWriteFails(c)
    <2>1. \A d \in Conns : Quiet(conn[d], conn'[d])
      BY <1>1, <1>5 DEF Connection, ServeAdmits, ServeAssigns, FirstWriteFails, Quiet
    <2>2. QED
      BY <1>5, <2>1, QuietStep DEF ServeAdmits, ServeAssigns, FirstWriteFails
  <1>6. CASE PumpsStart(c) \/ PumpsJoin(c)
    <2>1. \A d \in Conns : Quiet(conn[d], conn'[d])
      BY <1>1, <1>6 DEF Connection, PumpsStart, PumpsJoin, Quiet
    <2>2. QED
      BY <1>6, <2>1, QuietStep DEF PumpsStart, PumpsJoin
  <1>7. CASE UpstreamEnds(c) \/ DownstreamEnds(c) \/ DnsEnds(c)
    <2>1. \A d \in Conns : Quiet(conn[d], conn'[d])
      BY <1>1, <1>7 DEF Connection, UpstreamEnds, DownstreamEnds, DnsEnds, Quiet
    <2>2. QED
      BY <1>7, <2>1, QuietStep DEF UpstreamEnds, DownstreamEnds, DnsEnds
  <1>8. CASE HandlerVisits(c)
    <2>1. \A d \in Conns : Quiet(conn[d], conn'[d])
      BY <1>1, <1>8 DEF Connection, HandlerVisits, Quiet
    <2>2. QED
      BY <1>8, <2>1, QuietStep DEF HandlerVisits
  <1>9. CASE HandlerCancels \/ TunnelClears
    <2>1. \A d \in Conns : Quiet(conn[d], conn'[d])
      <3>1. CASE HandlerCancels
        <4> TAKE d \in Conns
        <4>1. conn'[d] = [conn[d] EXCEPT !.registered = FALSE, !.cancelled = TRUE, !.closer = FALSE]
          BY <3>1, Zenon DEF HandlerCancels
        <4>2. conn[d] \in Connection
          BY <1>1
        <4>3. QED
          BY <4>1, <4>2 DEF Connection, Quiet
      <3>2. CASE TunnelClears
        <4> TAKE d \in Conns
        <4> DEFINE flow == IF conn[d].flow = "open" /\ ~conn[d].direct THEN "closed" ELSE conn[d].flow
        <4>1. conn'[d] = [conn[d] EXCEPT !.live = FALSE, !.flow = flow]
          BY <3>2, Zenon DEF TunnelClears
        <4> HIDE DEF flow
        <4>2. conn[d] \in Connection
          BY <1>1
        <4>3. QED
          BY <4>1, <4>2 DEF Connection, Quiet
      <3>3. QED
        BY <1>9, <3>1, <3>2
    <2>2. /\ queue' = queue
          /\ phase' \notin {"running", "stopping"} /\ phase \notin {"running", "stopping"}
      BY <1>9 DEF HandlerCancels, TunnelClears, PumpStopped
    <2>3. QED
      BY <2>1, <2>2, QuietStep
  <1>10. QED
    BY <1>2, <1>3, <1>4, <1>5, <1>6, <1>7, <1>8, <1>9

\* A new pcb, or one the device or the stack has freed.
LEMMA DeviceRemembers ==
  ASSUME TypeOK, AllSound, Promised, NEW c \in Conns,
         \/ \E holding \in BOOLEAN : DeviceOpens(c, holding)
         \/ DeviceResets(c) \/ ShutdownAborts(c)
  PROVE  Promised'
  <1>1. conn \in [Conns -> Connection] /\ queue' = queue /\ phase' = phase
    BY DEF TypeOK, DeviceOpens, DeviceResets, ShutdownAborts
  <1>2. CASE \E holding \in BOOLEAN : DeviceOpens(c, holding)
    <2>1. /\ conn[c].pcb = "none" /\ StackUp /\ ~conn[c].gone /\ ~conn[c].ended
      BY <1>2 DEF DeviceOpens, Promised, AllSound, Sound, Untouched
    <2>2. /\ conn'[c].gone = conn[c].gone /\ conn'[c].ended = conn[c].ended
          /\ \A d \in Conns : d # c => conn'[d] = conn[d]
      <3>1. PICK hold : conn' = [conn EXCEPT ![c].pcb = "live", ![c].registered = TRUE,
                                             ![c].hold = hold, ![c].serve = "launched"]
        BY <1>2 DEF DeviceOpens
      <3>2. QED
        BY <1>1, <3>1 DEF Connection
    <2>3. phase \in {"running", "stopping"} \/ ShutdownQueued
      BY <2>1 DEF StackUp, ShutdownQueued
    <2>4. QED
      BY <1>1, <2>1, <2>2, <2>3 DEF Promised, Awaits, Running, GivesFor, ShutdownQueued
  <1>3. CASE DeviceResets(c) \/ ShutdownAborts(c)
    <2>1. conn'[c].pcb = "freed" /\ \A d \in Conns : d # c => conn'[d] = conn[d]
      BY <1>1, <1>3 DEF DeviceResets, ShutdownAborts, Closed, Connection
    <2>2. QED
      BY <1>1, <2>1, Remembers DEF Wanes, Awaits, Running
  <1>4. QED
    BY <1>2, <1>3

\* A call of end(): it begins, goes on, or is over with a task queued.
LEMMA EndRemembers ==
  ASSUME TypeOK, Promised, NEW c \in Conns,
         \/ \E who \in {"lwip", "user"} : CallEnds(c, who)
         \/ ServeEnds(c)
         \/ EndUntracks(c) \/ EndUnregisters(c) \/ EndReleases(c) \/ EndClosesFlow(c) \/ EndChecks(c)
  PROVE  Promised'
  <1>1. conn \in [Conns -> Connection] /\ queue' = queue /\ phase' = phase
    BY DEF TypeOK, CallEnds, ServeEnds, EndUntracks, EndUnregisters, EndReleases, EndClosesFlow, EndChecks
  <1>2. \A d \in Conns : Wanes(conn[d], conn'[d])
    <2>1. CASE \E who \in {"lwip", "user"} : CallEnds(c, who)
      BY <1>1, <2>1 DEF CallEnds, Ends, Winning, Connection, Wanes, Awaits
    <2>2. CASE ServeEnds(c)
      BY <1>1, <2>2 DEF ServeEnds, Winning, Connection, Wanes, Awaits
    <2>3. CASE EndUntracks(c) \/ EndUnregisters(c) \/ EndReleases(c) \/ EndClosesFlow(c)
      BY <1>1, <2>3 DEF EndUntracks, EndUnregisters, EndReleases, EndClosesFlow, Connection, Wanes, Awaits
    <2>4. CASE EndChecks(c)
      BY <1>1, <2>4 DEF EndChecks, Connection, Wanes, Awaits
    <2>5. QED
      BY <2>1, <2>2, <2>3, <2>4
  <1>3. QED
    BY <1>1, <1>2, Remembers DEF Running

LEMMA PostRemembers ==
  ASSUME TypeOK, Promised, NEW c \in Conns, EndPosts(c)
  PROVE  Promised'
  <1>1. /\ conn \in [Conns -> Connection] /\ queue \in Seq(Task)
        /\ phase' = phase
        /\ conn' = [conn EXCEPT ![c].ending = "done"]
    BY DEF TypeOK, EndPosts
  <1>2. CASE ~Accepting
    <2>1. \A d \in Conns : Wanes(conn[d], conn'[d])
      BY <1>1, <1>2 DEF Accepting, Running, Connection, Wanes, Awaits
    <2>2. QED
      BY <1>1, <1>2, <2>1, Remembers DEF EndPosts, Running
  <1>3. CASE Accepting
    <2>1. PICK t \in Task : queue' = Append(queue, t) /\ t.of = {c} /\ Gives(t)
      BY <1>3 DEF EndPosts, Enqueue, Task, Gives
    <2>2. /\ \A i \in DOMAIN queue : i \in DOMAIN queue' /\ queue'[i] = queue[i]
          /\ \E i \in DOMAIN queue' : queue'[i] = t
      BY <1>1, <2>1, QueueGrows
    <2>3. /\ GivesFor(c)'
          /\ \A d : GivesFor(d) => GivesFor(d)'
          /\ ShutdownQueued => ShutdownQueued'
      BY <2>1, <2>2 DEF GivesFor, ShutdownQueued
    <2>4. /\ conn'[c].pcb = conn[c].pcb /\ conn'[c].gone = conn[c].gone
          /\ \A d \in Conns : d # c => conn'[d] = conn[d]
      BY <1>1 DEF Connection
    <2>5. QED
      BY <1>1, <2>3, <2>4 DEF Promised, Running
  <1>4. QED
    BY <1>2, <1>3

\* A task is taken: what gives a pcb back is followed by nobody who would.
LEMMA TaskRemembers ==
  ASSUME IInv, Promised, RunTask \/ ShutdownRuns
  PROVE  Promised'
  <1>1. /\ conn \in [Conns -> Connection] /\ queue \in Seq(Task) /\ queue # <<>>
        /\ queue' = Tail(queue) /\ phase' = phase
    BY DEF IInv, TypeOK, RunTask, ShutdownRuns
  <1>2. /\ Head(queue) = queue[1] /\ 1 \in DOMAIN queue
        /\ \A i \in DOMAIN queue : i # 1 => i - 1 \in DOMAIN queue' /\ queue'[i - 1] = queue[i]
    <2>1. /\ DOMAIN queue = 1 .. Len(queue) /\ Len(queue) \in Nat \ {0}
          /\ Len(queue') = Len(queue) - 1
          /\ DOMAIN queue' = 1 .. Len(queue')
          /\ \A i \in 1 .. Len(queue') : queue'[i] = queue[i + 1]
      BY <1>1, EmptySeq, LenProperties, HeadTailProperties
    <2>2. QED
      BY <1>1, <2>1
  <1>3. CASE ShutdownRuns
    <2>1. \A d \in Conns : conn'[d] = conn[d] /\ conn[d].pcb # "live"
      BY <1>3 DEF ShutdownRuns
    <2>2. QED
      BY <1>1, <2>1 DEF Promised, Awaits
  <1>4. CASE RunTask
    <2>1. PICK c \in Conns :
            /\ Head(queue).of = {c}
            /\ \/ Head(queue).task = "use" /\ conn' = [conn EXCEPT ![c] = Uses(c)]
               \/ Head(queue).task \in {"abort", "close"} /\ conn' = [conn EXCEPT ![c] = HandsBack(c)]
      BY <1>4 DEF RunTask
    <2>2. \A d \in Conns : d # c => conn'[d] = conn[d] /\ (GivesFor(d) => GivesFor(d)')
      BY <1>1, <1>2, <2>1 DEF GivesFor
    <2>3. ShutdownQueued => ShutdownQueued'
      BY <1>2, <2>1 DEF ShutdownQueued, Shutdown
    <2>4. CASE Head(queue).task = "use"
      <3>1. conn'[c] = Uses(c)
        BY <1>1, <2>1, <2>4
      <3>2. Quiet(conn[c], conn'[c])
        BY <1>1, <3>1 DEF Uses, Connection, Quiet
      <3>3. GivesFor(c) => GivesFor(c)'
        BY <1>2, <2>4 DEF GivesFor, Gives
      <3>4. QED
        BY <1>1, <2>2, <2>3, <3>2, <3>3 DEF Promised, Quiet, Awaits, Running
    <2>5. CASE Head(queue).task # "use"
      <3>1. conn'[c] = HandsBack(c)
        BY <1>1, <2>1, <2>5
      <3>2. conn[c].pcb # "none"
        BY <1>2, <2>1 DEF IInv, TasksFit
      <3>3. conn'[c].pcb \notin {"none", "live"}
        BY <1>1, <3>1, <3>2 DEF HandsBack, Uses, Connection, Promised
      <3>4. QED
        BY <1>1, <2>2, <2>3, <3>3 DEF Promised, Awaits, Running
    <2>6. QED
      BY <2>4, <2>5
  <1>5. QED
    BY <1>3, <1>4

\* A stack task that only uses the pcb.
LEMMA UseRemembers ==
  ASSUME TypeOK, Promised, NEW c \in Conns, NEW who \in {"serve", "up", "down"},
         UseChecks(c, who) \/ UsePosts(c, who)
  PROVE  Promised'
  <1>1. conn \in [Conns -> Connection] /\ queue \in Seq(Task) /\ phase' = phase
    BY DEF TypeOK, UseChecks, UsePosts
  <1>2. \A d \in Conns : Quiet(conn[d], conn'[d])
    <2>1. CASE UseChecks(c, who)
      BY <1>1, <2>1 DEF UseChecks, Connection, Quiet
    <2>2. CASE UsePosts(c, who) /\ Accepting
      BY <1>1, <2>2 DEF UsePosts, Connection, Quiet
    <2>3. CASE UsePosts(c, who) /\ ~Accepting /\ who # "serve"
      <3> DEFINE p == conn[c].posting \ {who}
                 u == conn[c].up /\ who # "up"
                 d == conn[c].down /\ who # "down"
      <3>1. conn' = [conn EXCEPT ![c] = [conn[c] EXCEPT !.posting = p, !.up = u, !.down = d]]
        BY <2>3, Zenon DEF UsePosts
      <3> HIDE DEF p, u, d
      <3>2. QED
        BY <1>1, <3>1 DEF Connection, Quiet
    <2>4. CASE UsePosts(c, who) /\ ~Accepting /\ who = "serve"
      <3> DEFINE p == conn[c].posting \ {who}
                 v == IF conn[c].serve = "dns" THEN "finishing" ELSE "escaped"
      <3>1. conn' = [conn EXCEPT ![c] = [conn[c] EXCEPT !.posting = p, !.serve = v]]
        BY <2>4, Zenon DEF UsePosts
      <3> HIDE DEF p, v
      <3>2. QED
        BY <1>1, <3>1 DEF Connection, Quiet
    <2>5. QED
      BY <2>1, <2>2, <2>3, <2>4
  <1>3. CASE queue' = queue
    BY <1>1, <1>2, <1>3, QuietStep
  <1>4. CASE queue' # queue
    <2>1. PICK t \in Task : queue' = Append(queue, t)
      BY <1>4 DEF UseChecks, UsePosts, Enqueue, Task
    <2>2. \A i \in DOMAIN queue : i \in DOMAIN queue' /\ queue'[i] = queue[i]
      BY <1>1, <2>1, QueueGrows
    <2>3. ShutdownQueued => ShutdownQueued'
      BY <2>2 DEF ShutdownQueued
    <2>4. \A d \in Conns : GivesFor(d) => GivesFor(d)'
      BY <2>2 DEF GivesFor
    <2>5. QED
      BY <1>1, <1>2, <2>3, <2>4 DEF Promised, Quiet, Awaits, Running
  <1>5. QED
    BY <1>3, <1>4

\* The way of the stack to its shutdown, and the end of the process.
LEMMA RestRemembers ==
  ASSUME TypeOK, Promised,
         PumpStops \/ PumpQueuesShutdown \/ PumpCloses \/ ReaderRefused \/ UNCHANGED vars
  PROVE  Promised'
  <1>1. \A d \in Conns : Wanes(conn[d], conn'[d])
    BY DEF PumpStops, PumpQueuesShutdown, PumpCloses, ReaderRefused, vars, Wanes
  <1>2. CASE PumpQueuesShutdown
    <2>1. queue' = Append(queue, Shutdown) /\ Shutdown \in Task /\ phase' = "flushing"
      BY <1>2 DEF PumpQueuesShutdown, Task
    <2>2. /\ \A i \in DOMAIN queue : i \in DOMAIN queue' /\ queue'[i] = queue[i]
          /\ ShutdownQueued'
      BY <2>1, QueueGrows DEF TypeOK, ShutdownQueued, Shutdown
    <2>3. QED
      BY <1>1, <2>1, <2>2, Remembers DEF Running
  <1>3. CASE PumpStops \/ PumpCloses \/ ReaderRefused \/ UNCHANGED vars
    <2>1. /\ queue' = queue /\ (Running' => Running)
          /\ phase' \in {"running", "stopping"} \/ phase \notin {"running", "stopping"}
      BY <1>3 DEF PumpStops, PumpCloses, ReaderRefused, vars, Running, TypeOK, PhaseNames
    <2>2. QED
      BY <1>1, <2>1, Remembers
  <1>4. QED
    BY <1>2, <1>3

LEMMA NextPromised == IInv /\ Promised /\ [Next]_vars => Promised'
  <1> SUFFICES ASSUME IInv, Promised, [Next]_vars PROVE Promised'
    OBVIOUS
  <1>1. TypeOK /\ AllSound
    BY DEF IInv
  <1>2. CASE RunTask \/ ShutdownRuns
    BY <1>2, TaskRemembers
  <1>3. CASE PumpStops \/ PumpQueuesShutdown \/ PumpCloses \/ ReaderRefused \/ UNCHANGED vars
    BY <1>1, <1>3, RestRemembers
  <1>4. CASE HandlerCancels \/ TunnelClears
    <2>1. CASE Conns = {}
      BY <2>1 DEF Promised
    <2>2. CASE Conns # {}
      BY <1>1, <1>4, <2>2, QuietSteps
    <2>3. QED
      BY <2>1, <2>2
  <1>5. ASSUME NEW c \in Conns,
               \/ HandlerVisits(c) \/ Device(c) \/ UserCloses(c) \/ ShutdownAborts(c)
               \/ CloserRuns(c) \/ ServeSteps(c) \/ FirstWriteFails(c)
               \/ \E who \in {"serve", "up", "down"} : UseChecks(c, who) \/ UsePosts(c, who)
               \/ UpstreamEnds(c) \/ DownstreamEnds(c) \/ DnsEnds(c)
        PROVE  Promised'
    BY <1>1, <1>5, QuietSteps, DeviceRemembers, EndRemembers, UseRemembers DEF Device, ServeSteps
  <1>6. ASSUME NEW c \in Conns, (\E who \in {"lwip", "user"} : CallEnds(c, who)) \/ EndSteps(c)
        PROVE  Promised'
    BY <1>1, <1>6, EndRemembers, PostRemembers DEF EndSteps
  <1>7. QED
    BY <1>2, <1>3, <1>4, <1>5, <1>6 DEF Next, Teardown

LEMMA InitPromised == Init => Promised
BY DEF Init, Fresh, Promised, Awaits

\* A pcb that is live after its connection's end has a task that will give it
\* back, or a shutdown of the stack that will abort it.
THEOREM PromisedInvariance == Spec => []Promised
BY InitPromised, NextPromised, Invariance, PTL DEF Spec

\* end() gives lwIP a pcb back at most once: in all, one call not yet over, one
\* task queued, or one pcb given.  And it gives it back: while the pcb is live,
\* the call, the task or the stack's shutdown is still to come.
THEOREM AlwaysHandedBackOnce == Spec => []HandedBackOnce
  <1>1. IInv /\ Promised => HandedBackOnce
    <2> SUFFICES ASSUME IInv, Promised, NEW c \in Conns
                 PROVE  /\ Owed(c) + (IF conn[c].pcb = "handedBack" THEN 1 ELSE 0) <= 1
                        /\ conn[c].ended /\ conn[c].pcb = "live" => Owed(c) = 1 \/ ShutdownToCome
      BY DEF HandedBackOnce
    <2> DEFINE Q == Queued(c, {"abort", "close"})
    <2>1. \A i \in Q : Due(conn[c]) /\ \A j \in Q : i = j
      BY DEF IInv, TasksFit, GivenOnce, Gives, Queued
    <2>2. Sound(conn[c]) /\ conn[c].ending \in EndAt
      BY DEF IInv, AllSound, TypeOK, Connection
    <2>3. Owed(c) = Cardinality(Q) + (IF conn[c].ending \in EndAt \ {"no", "done"} THEN 1 ELSE 0)
      BY DEF Owed
    <2>4. GivesFor(c) => Q # {}
      BY DEF GivesFor, Gives, Queued
    <2>5. Awaits(conn[c]) => GivesFor(c) \/ ShutdownToCome
      BY DEF Promised, Awaits, Running, ShutdownToCome, ShutdownQueued
    <2> HIDE DEF Q
    <2>6. CASE Q = {}
      <3>1. Cardinality(Q) = 0
        BY <2>6, FS_EmptySet
      <3>2. QED
        BY <2>2, <2>3, <2>4, <2>5, <2>6, <3>1 DEF Sound, Awaits
    <2>7. CASE Q # {}
      <3>1. PICK i : Q = {i}
        BY <2>1, <2>7
      <3>2. Cardinality(Q) = 1
        BY <3>1, FS_Singleton
      <3>3. QED
        BY <2>1, <2>3, <2>7, <3>2 DEF Due
    <2>8. QED
      BY <2>6, <2>7
  <1>2. QED
    BY <1>1, Invariance, PromisedInvariance, PTL
=============================================================================
