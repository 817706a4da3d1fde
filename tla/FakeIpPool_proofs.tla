-------------------------- MODULE FakeIpPool_proofs --------------------------
(***************************************************************************)
(* For every capacity and every finite set of flows: the pool is type      *)
(* correct, an address in use keeps its name, its count of holders is      *)
(* exact, its two maps agree, and it implements FakeIpPromise.             *)
(***************************************************************************)
EXTENDS FakeIpPool, FiniteSetTheorems, TLAPS

\* A flow the resolver has not decided about is holding what it retained.
ResolvingHeld == \A f \in resolving : hold[f] # NotHeld

\* The inductive invariant.  HeldNameStands alone is not inductive: that an
\* eviction cannot take an address in use needs the count of its holders to be
\* exact, and that a released count stays exact needs the types.
IInv == TypeOK /\ HeldNameStands /\ HoldersCounted /\ MapsAgree /\ ResolvingHeld

LEMMA NotHeldShape == NotHeld.offset = 0 /\ NotHeld.name = NoName
  BY DEF NotHeld

\* A flow holds something exactly when its offset is a real one.
LEMMA HoldsOffset ==
  ASSUME TypeOK, NEW f \in Flows
  PROVE  /\ hold[f] # NotHeld <=> hold[f].offset \in Offsets
         /\ hold[f] # NotHeld => hold[f].name \in Names
         /\ hold[f].offset \in 0 .. Capacity
  <1>1. 0 \notin Offsets
    BY CapacityAssumption DEF Offsets
  <1>2. CASE hold[f] = NotHeld
    BY <1>1, <1>2, NotHeldShape, CapacityAssumption
  <1>3. CASE hold[f] # NotHeld
    <2>1. hold[f] \in [offset : Offsets, name : Names]
      BY <1>3 DEF TypeOK
    <2>2. QED
      BY <2>1, <1>3, CapacityAssumption DEF Offsets
  <1>4. QED
    BY <1>2, <1>3

LEMMA HoldingFinite ==
  ASSUME NEW o
  PROVE  IsFiniteSet(Holding(o)) /\ Cardinality(Holding(o)) \in Nat
  <1>1. Holding(o) \subseteq Flows
    BY DEF Holding
  <1>2. IsFiniteSet(Holding(o))
    BY <1>1, FlowsAssumption, FS_Subset
  <1>3. QED
    BY <1>2, FS_CardinalityType

\* An entry nobody counts as a holder of is held by no flow.
LEMMA IdleMeansUnheld ==
  ASSUME TypeOK, HoldersCounted, NEW o \in Offsets, holders[o] = 0,
         NEW f \in Flows
  PROVE  hold[f].offset # o
  <1>1. Cardinality(Holding(o)) = 0
    BY DEF HoldersCounted
  <1>2. Holding(o) = {}
    BY <1>1, HoldingFinite, FS_EmptySet
  <1>3. QED
    BY <1>2 DEF Holding

-----------------------------------------------------------------------------

THEOREM InitIInv == Init => IInv
  <1> SUFFICES ASSUME Init PROVE IInv
    OBVIOUS
  <1>1. TypeOK
    BY CapacityAssumption, TickAssumption DEF Init, TypeOK, Offsets
  <1>2. HeldNameStands
    BY DEF Init, HeldNameStands
  <1>3. HoldersCounted
    <2> SUFFICES ASSUME NEW o \in Offsets
                 PROVE  holders[o] = Cardinality(Holding(o))
      BY DEF HoldersCounted
    <2>1. Holding(o) = {}
      BY NotHeldShape, CapacityAssumption DEF Init, Holding, Offsets
    <2>2. QED
      BY <2>1, FS_EmptySet DEF Init
  <1>4. MapsAgree
    BY CapacityAssumption DEF Init, MapsAgree, Mapped, Offsets
  <1>5. ResolvingHeld
    BY DEF Init, ResolvingHeld
  <1>6. QED
    BY <1>1, <1>2, <1>3, <1>4, <1>5 DEF IInv

(***************************************************************************)
(* One lemma per kind of step.  An action that changes neither hold nor    *)
(* holders disturbs only the maps; the flows' steps disturb only the       *)
(* counts.                                                                 *)
(***************************************************************************)

\* The name map, the clock and the entries an allocation leaves behind.
LEMMA TouchType ==
  ASSUME TypeOK, NEW o \in Offsets, Touch(o)
  PROVE  usedAt' \in [Offsets -> Nat] /\ tick' \in 0 .. MaxTick
  BY TickAssumption DEF TypeOK, Touch

LEMMA AllocateKnownStep ==
  ASSUME IInv, NEW n \in Names, AllocateKnown(n)
  PROVE  IInv'
  <1>1. byName[n] \in Offsets
    BY CapacityAssumption DEF IInv, TypeOK, AllocateKnown, Offsets
  <1>2. TypeOK'
    BY <1>1, TouchType DEF IInv, TypeOK, AllocateKnown
  <1>3. (HeldNameStands /\ HoldersCounted /\ MapsAgree /\ ResolvingHeld)'
    BY DEF IInv, AllocateKnown, HeldNameStands, HoldersCounted, Holding, MapsAgree, Mapped,
           ResolvingHeld
  <1>4. QED
    BY <1>2, <1>3 DEF IInv

LEMMA NameForStep ==
  ASSUME IInv, NEW o \in Offsets, NameFor(o)
  PROVE  IInv'
  <1>1. TypeOK'
    BY TouchType DEF IInv, TypeOK, NameFor
  <1>2. (HeldNameStands /\ HoldersCounted /\ MapsAgree /\ ResolvingHeld)'
    BY DEF IInv, NameFor, HeldNameStands, HoldersCounted, Holding, MapsAgree, Mapped,
           ResolvingHeld
  <1>3. QED
    BY <1>1, <1>2 DEF IInv

LEMMA AllocateFreshStep ==
  ASSUME IInv, NEW n \in Names, AllocateFresh(n)
  PROVE  IInv'
  <1> DEFINE o == nextOffset
  <1>1. o \in Offsets /\ o + 1 \in 1 .. Capacity + 1 /\ ~Mapped(o)
    BY CapacityAssumption DEF IInv, TypeOK, AllocateFresh, OffsetsLeft, Offsets, MapsAgree
  <1>2. n # NoName
    BY NoNameAssumption
  <1>3. holders[o] = 0
    <2>1. \A f \in Flows : hold[f].offset # o
      BY <1>1, HoldsOffset, NoNameAssumption DEF IInv, HeldNameStands, Mapped
    <2>2. Holding(o) = {}
      BY <2>1 DEF Holding
    <2>3. QED
      BY <1>1, <2>2, FS_EmptySet DEF IInv, HoldersCounted
  <1>4. TypeOK'
    <2>1. Touch(o)
      BY DEF AllocateFresh
    <2>2. usedAt' \in [Offsets -> Nat] /\ tick' \in 0 .. MaxTick
      BY <1>1, <2>1, TouchType DEF IInv
    <2>3. byName' \in [Names -> 0 .. Capacity]
      BY <1>1 DEF IInv, TypeOK, AllocateFresh, Offsets
    <2>4. nextOffset' \in 1 .. Capacity + 1
      BY <1>1 DEF AllocateFresh
    <2>5. QED
      BY <1>1, <2>2, <2>3, <2>4 DEF IInv, TypeOK, AllocateFresh
  <1>5. HeldNameStands'
    BY <1>1, HoldsOffset, NoNameAssumption
       DEF IInv, TypeOK, AllocateFresh, HeldNameStands, Mapped
  <1>6. HoldersCounted'
    BY <1>3 DEF IInv, TypeOK, AllocateFresh, HoldersCounted, Holding
  <1>7. MapsAgree'
    <2>1. \A m \in Names : byName'[m] # 0 => nameAt'[byName'[m]] = m
      <3> SUFFICES ASSUME NEW m \in Names, byName'[m] # 0
                   PROVE  nameAt'[byName'[m]] = m
        OBVIOUS
      <3>1. CASE m = n
        BY <3>1, <1>1 DEF IInv, TypeOK, AllocateFresh
      <3>2. CASE m # n
        <4>1. byName'[m] = byName[m] /\ byName[m] \in Offsets
          BY <3>2 DEF IInv, TypeOK, AllocateFresh, Offsets
        <4>2. nameAt[byName[m]] = m
          BY <4>1, CapacityAssumption DEF IInv, MapsAgree, Offsets
        <4>3. byName[m] # o
          BY <4>2, <1>1, NoNameAssumption DEF Mapped
        <4>4. QED
          BY <4>1, <4>2, <4>3, <1>1 DEF IInv, TypeOK, AllocateFresh
      <3>3. QED
        BY <3>1, <3>2
    <2>2. \A p \in Offsets : Mapped(p)' => byName'[nameAt'[p]] = p
      BY <1>1, <1>2 DEF IInv, TypeOK, AllocateFresh, MapsAgree, Mapped, Offsets
    <2>3. \A p \in Offsets : Mapped(p)' <=> p < nextOffset'
      BY <1>1, <1>2 DEF IInv, TypeOK, AllocateFresh, MapsAgree, Mapped, Offsets
    <2>4. QED
      BY <2>1, <2>2, <2>3 DEF MapsAgree
  <1>8. ResolvingHeld'
    BY DEF IInv, AllocateFresh, ResolvingHeld
  <1>9. QED
    BY <1>4, <1>5, <1>6, <1>7, <1>8 DEF IInv

LEMMA AllocateEvictingStep ==
  ASSUME IInv, NEW n \in Names, AllocateEvicting(n)
  PROVE  IInv'
  <1> PICK victim \in OldestIdle :
        /\ byName' = Renamed(n, victim)
        /\ nameAt' = [nameAt EXCEPT ![victim] = n]
        /\ holders' = [holders EXCEPT ![victim] = 0]
        /\ Touch(victim)
    BY DEF AllocateEvicting
  <1> DEFINE old == nameAt[victim]
  <1>1. victim \in Offsets /\ Mapped(victim) /\ holders[victim] = 0
    BY DEF OldestIdle, Evictable
  <1>2. n # NoName /\ old \in Names /\ old # n /\ byName[old] = victim
    BY <1>1, NoNameAssumption, CapacityAssumption
       DEF IInv, TypeOK, AllocateEvicting, MapsAgree, Mapped, Offsets
  <1>3. \A f \in Flows : hold[f].offset # victim
    BY <1>1, IdleMeansUnheld DEF IInv
  <1>4. TypeOK'
    BY <1>1, <1>2, TouchType, CapacityAssumption
       DEF IInv, TypeOK, AllocateEvicting, Renamed, Offsets
  <1>5. HeldNameStands'
    BY <1>1, <1>3, HoldsOffset DEF IInv, TypeOK, AllocateEvicting, HeldNameStands
  <1>6. HoldersCounted'
    BY <1>1 DEF IInv, TypeOK, AllocateEvicting, HoldersCounted, Holding
  <1>7. MapsAgree'
    <2>1. \A m \in Names : byName'[m] # 0 => nameAt'[byName'[m]] = m
      <3> SUFFICES ASSUME NEW m \in Names, byName'[m] # 0
                   PROVE  nameAt'[byName'[m]] = m
        OBVIOUS
      <3>1. CASE m = n
        BY <3>1, <1>1, <1>2 DEF IInv, TypeOK, Renamed
      <3>2. CASE m = old
        BY <3>2, <1>1, <1>2 DEF IInv, TypeOK, Renamed
      <3>3. CASE m # n /\ m # old
        <4>1. byName'[m] = byName[m] /\ byName[m] \in Offsets
          BY <3>3, <1>1, <1>2 DEF IInv, TypeOK, Renamed, Offsets
        <4>2. byName[m] # victim
          BY <3>3, <4>1, <1>1 DEF IInv, MapsAgree
        <4>3. QED
          BY <4>1, <4>2, <1>1 DEF IInv, TypeOK, MapsAgree
      <3>4. QED
        BY <3>1, <3>2, <3>3
    <2>2. \A p \in Offsets : Mapped(p)' => byName'[nameAt'[p]] = p
      <3> SUFFICES ASSUME NEW p \in Offsets, Mapped(p)'
                   PROVE  byName'[nameAt'[p]] = p
        OBVIOUS
      <3>1. CASE p = victim
        BY <3>1, <1>1, <1>2 DEF IInv, TypeOK, Renamed
      <3>2. CASE p # victim
        <4>1. nameAt'[p] = nameAt[p] /\ nameAt[p] \in Names /\ byName[nameAt[p]] = p
          BY <3>2, <1>1 DEF IInv, TypeOK, MapsAgree, Mapped
        <4>2. nameAt[p] # old /\ nameAt[p] # n
          BY <4>1, <3>2, <1>2, CapacityAssumption DEF AllocateEvicting, Offsets
        <4>3. QED
          BY <4>1, <4>2, <1>2 DEF IInv, TypeOK, Renamed
      <3>3. QED
        BY <3>1, <3>2
    <2>3. \A p \in Offsets : Mapped(p)' <=> p < nextOffset'
      BY <1>1, <1>2 DEF IInv, TypeOK, AllocateEvicting, MapsAgree, Mapped
    <2>4. QED
      BY <2>1, <2>2, <2>3 DEF MapsAgree
  <1>8. ResolvingHeld'
    BY DEF IInv, AllocateEvicting, ResolvingHeld
  <1>9. QED
    BY <1>4, <1>5, <1>6, <1>7, <1>8 DEF IInv

\* Holds given out and taken back, with the count that follows them.
LEMMA RetainStep ==
  ASSUME IInv, NEW f \in Flows, NEW o \in Offsets, Retain(f, o)
  PROVE  IInv'
  <1>1. nameAt[o] \in Names
    BY DEF IInv, TypeOK, Retain, Mapped
  <1>2. TypeOK'
    <2>1. usedAt' \in [Offsets -> Nat] /\ tick' \in 0 .. MaxTick
      BY TouchType DEF IInv, Retain
    <2>2. holders' \in [Offsets -> Nat]
      BY DEF IInv, TypeOK, Retain
    <2>3. hold' \in [Flows -> [offset : Offsets, name : Names] \cup {NotHeld}]
      BY <1>1 DEF IInv, TypeOK, Retain
    <2>4. QED
      BY <2>1, <2>2, <2>3 DEF IInv, TypeOK, Retain
  <1>3. HeldNameStands'
    BY DEF IInv, TypeOK, Retain, HeldNameStands
  <1>4. HoldersCounted'
    <2> SUFFICES ASSUME NEW p \in Offsets
                 PROVE  holders'[p] = Cardinality(Holding(p)')
      BY DEF HoldersCounted
    <2>1. CASE p = o
      <3>1. f \notin Holding(o)
        BY NotHeldShape, CapacityAssumption DEF Retain, Holding, Offsets
      <3>2. Holding(o)' = Holding(o) \cup {f}
        BY DEF IInv, TypeOK, Retain, Holding
      <3>3. Cardinality(Holding(o)') = Cardinality(Holding(o)) + 1
        BY <3>1, <3>2, HoldingFinite, FS_AddElement
      <3>4. QED
        BY <2>1, <3>3 DEF IInv, TypeOK, HoldersCounted, Retain
    <2>2. CASE p # o
      <3>1. Holding(p)' = Holding(p)
        BY <2>2, NotHeldShape, CapacityAssumption DEF IInv, TypeOK, Retain, Holding, Offsets
      <3>2. QED
        BY <2>2, <3>1 DEF IInv, TypeOK, HoldersCounted, Retain
    <2>3. QED
      BY <2>1, <2>2
  <1>5. MapsAgree'
    BY DEF IInv, Retain, MapsAgree, Mapped
  <1>6. ResolvingHeld'
    <2>1. hold'[f] # NotHeld /\ \A g \in Flows \ {f} : hold'[g] = hold[g]
      BY NotHeldShape, CapacityAssumption DEF IInv, TypeOK, Retain, Offsets
    <2>2. QED
      BY <2>1 DEF IInv, TypeOK, Retain, ResolvingHeld
  <1>7. QED
    BY <1>2, <1>3, <1>4, <1>5, <1>6 DEF IInv

\* The resolver's own release and the flow's are the same change of the pool.
LEMMA ReleaseStep ==
  ASSUME IInv, NEW f \in Flows, hold[f] # NotHeld,
         holders' = Released(hold[f].offset),
         hold' = [hold EXCEPT ![f] = NotHeld],
         resolving' = resolving \ {f},
         UNCHANGED <<byName, nameAt, usedAt, nextOffset, tick>>
  PROVE  IInv'
  <1>1. PICK o \in Offsets : o = hold[f].offset
    BY HoldsOffset DEF IInv
  <1>2. TypeOK'
    <2>1. holders' \in [Offsets -> Nat]
      BY <1>1 DEF IInv, TypeOK, Released
    <2>2. hold' \in [Flows -> [offset : Offsets, name : Names] \cup {NotHeld}]
      BY DEF IInv, TypeOK
    <2>3. QED
      BY <2>1, <2>2 DEF IInv, TypeOK
  <1>3. HeldNameStands'
    BY DEF IInv, TypeOK, HeldNameStands
  <1>4. HoldersCounted'
    <2> SUFFICES ASSUME NEW p \in Offsets
                 PROVE  holders'[p] = Cardinality(Holding(p)')
      BY DEF HoldersCounted
    <2>1. CASE p = o
      <3>1. Holding(o)' = Holding(o) \ {f}
        BY <1>1, NotHeldShape, CapacityAssumption DEF IInv, TypeOK, Holding, Offsets
      <3>2. f \in Holding(o)
        BY <1>1 DEF Holding
      <3>3. Cardinality(Holding(o)') = Cardinality(Holding(o)) - 1
        BY <3>1, <3>2, HoldingFinite, FS_RemoveElement
      <3>4. Cardinality(Holding(o)) # 0
        BY <3>2, HoldingFinite, FS_EmptySet
      <3>5. holders'[o] = holders[o] - 1
        BY <1>1, <3>4, HoldingFinite DEF IInv, TypeOK, HoldersCounted, Released
      <3>6. QED
        BY <2>1, <1>1, <3>3, <3>5 DEF IInv, HoldersCounted
    <2>2. CASE p # o
      <3>1. Holding(p)' = Holding(p)
        BY <1>1, <2>2, NotHeldShape, CapacityAssumption DEF IInv, TypeOK, Holding, Offsets
      <3>2. QED
        BY <1>1, <2>2, <3>1 DEF IInv, TypeOK, HoldersCounted, Released
    <2>3. QED
      BY <2>1, <2>2
  <1>5. MapsAgree'
    BY DEF IInv, MapsAgree, Mapped
  <1>6. ResolvingHeld'
    BY DEF IInv, TypeOK, ResolvingHeld
  <1>7. QED
    BY <1>2, <1>3, <1>4, <1>5, <1>6 DEF IInv

LEMMA ClearStep ==
  ASSUME IInv, Clear
  PROVE  IInv'
  <1>1. TypeOK'
    BY CapacityAssumption, TickAssumption DEF IInv, TypeOK, Clear, Offsets
  <1>2. HeldNameStands'
    BY DEF Clear, HeldNameStands
  <1>3. HoldersCounted'
    <2> SUFFICES ASSUME NEW o \in Offsets
                 PROVE  holders'[o] = Cardinality(Holding(o)')
      BY DEF HoldersCounted
    <2>1. Holding(o)' = {}
      BY NotHeldShape, CapacityAssumption DEF Clear, Holding, Offsets
    <2>2. QED
      BY <2>1, FS_EmptySet DEF Clear
  <1>4. MapsAgree'
    BY CapacityAssumption DEF Clear, MapsAgree, Mapped, Offsets
  <1>5. ResolvingHeld'
    BY DEF IInv, TypeOK, Clear, ResolvingHeld
  <1>6. QED
    BY <1>1, <1>2, <1>3, <1>4, <1>5 DEF IInv

LEMMA FlowStep ==
  ASSUME IInv, NEW f \in Flows, Encodes(f) \/ Refused(f) \/ Finish(f)
  PROVE  IInv'
  <1>1. CASE Encodes(f)
    BY <1>1 DEF IInv, Encodes, poolVars, TypeOK, HeldNameStands, HoldersCounted, Holding,
                MapsAgree, Mapped, ResolvingHeld
  <1>2. CASE Refused(f)
    <2>1. hold[f] # NotHeld
      BY <1>2 DEF IInv, Refused, ResolvingHeld
    <2>2. QED
      BY <1>2, <2>1, ReleaseStep DEF Refused
  <1>3. CASE Finish(f)
    <2>1. resolving' = resolving \ {f}
      BY <1>3 DEF Finish
    <2>2. QED
      BY <1>3, <2>1, ReleaseStep DEF Finish
  <1>4. QED
    BY <1>1, <1>2, <1>3

-----------------------------------------------------------------------------

\* IInv is inductive.
THEOREM NextIInv == IInv /\ [Next]_vars => IInv'
  <1> SUFFICES ASSUME IInv, [Next]_vars PROVE IInv'
    OBVIOUS
  <1>1. ASSUME NEW n \in Names, AllocateKnown(n) PROVE IInv'
    BY <1>1, AllocateKnownStep
  <1>2. ASSUME NEW n \in Names, AllocateFresh(n) PROVE IInv'
    BY <1>2, AllocateFreshStep
  <1>3. ASSUME NEW n \in Names, AllocateEvicting(n) PROVE IInv'
    BY <1>3, AllocateEvictingStep
  <1>4. ASSUME NEW o \in Offsets, NameFor(o) PROVE IInv'
    BY <1>4, NameForStep
  <1>5. ASSUME NEW f \in Flows, NEW o \in Offsets, Retain(f, o) PROVE IInv'
    BY <1>5, RetainStep
  <1>6. ASSUME NEW f \in Flows, Encodes(f) \/ Refused(f) \/ Finish(f) PROVE IInv'
    BY <1>6, FlowStep
  <1>7. CASE Clear
    BY <1>7, ClearStep
  <1>8. CASE UNCHANGED vars
    BY <1>8 DEF vars, poolVars, IInv, TypeOK, HeldNameStands, HoldersCounted, Holding,
                MapsAgree, Mapped, ResolvingHeld
  <1>9. QED
    BY <1>1, <1>2, <1>3, <1>4, <1>5, <1>6, <1>7, <1>8 DEF Next

\* The inductive invariant holds in every reachable state.
THEOREM Invariance == Spec => []IInv
  BY InitIInv, NextIInv, PTL DEF Spec

\* Every reachable state is well typed, whatever the capacity.
THEOREM AlwaysTyped == Spec => []TypeOK
  <1>1. IInv => TypeOK
    BY DEF IInv
  <1>2. QED
    BY Invariance, <1>1, PTL

\* The address a flow holds stands for the name it was told until it lets go:
\* no allocation, eviction, release or clear (FakeIpPool.kt) can take it over.
THEOREM HeldNameAlwaysStands == Spec => []HeldNameStands
  <1>1. IInv => HeldNameStands
    BY DEF IInv
  <1>2. QED
    BY Invariance, <1>1, PTL

\* Entry.holders is exact in every reachable state, so the clamp at zero in
\* release is never what keeps it so.
THEOREM HoldersAlwaysCounted == Spec => []HoldersCounted
  <1>1. IInv => HoldersCounted
    BY DEF IInv
  <1>2. QED
    BY Invariance, <1>1, PTL

\* byName and byOffset never disagree and no minted offset loses its entry.
THEOREM MapsAlwaysAgree == Spec => []MapsAgree
  <1>1. IInv => MapsAgree
    BY DEF IInv
  <1>2. QED
    BY Invariance, <1>1, PTL

-----------------------------------------------------------------------------
(***************************************************************************)
(* The refinement.  Only the eviction needs an argument: the address it    *)
(* hands to another name is one nobody uses (its count is exact and zero), *)
(* and the name it hands it to has no other address (the maps agree).      *)
(***************************************************************************)

\* A name the pool has no entry for is behind no address.
LEMMA UnmappedName ==
  ASSUME TypeOK, MapsAgree, NEW n \in Names, byName[n] = 0, NEW o \in Offsets
  PROVE  nameAt[o] # n
  BY NoNameAssumption, CapacityAssumption DEF MapsAgree, Mapped, Offsets

LEMMA GiveStep ==
  ASSUME IInv, NEW n \in Names, NEW o \in Offsets, byName[n] = 0,
         \A f \in Flows : hold[f].offset # o,
         nameAt' = [nameAt EXCEPT ![o] = n], UNCHANGED hold
  PROVE  Promise!Next
  <1>1. \A p \in Offsets : nameAt[p] # n
    BY UnmappedName DEF IInv
  <1>2. ~Promise!InUse(o)
    BY DEF Promise!InUse
  <1>3. Promise!Give(n, o)
    BY <1>1, <1>2 DEF Promise!Give
  <1>4. QED
    BY <1>3 DEF Promise!Next

LEMMA EndStep ==
  ASSUME NEW f \in Flows, hold[f] # NotHeld, hold' = [hold EXCEPT ![f] = NotHeld],
         UNCHANGED nameAt
  PROVE  Promise!Next
  BY DEF Promise!Next, Promise!End

LEMMA StepImplements ==
  ASSUME IInv, [Next]_vars
  PROVE  [Promise!Next]_(Promise!vars)
  <1>1. ASSUME NEW n \in Names, AllocateKnown(n) PROVE UNCHANGED Promise!vars
    BY <1>1 DEF AllocateKnown, Promise!vars
  <1>2. ASSUME NEW n \in Names, AllocateFresh(n) PROVE Promise!Next
    <2>1. nextOffset \in Offsets /\ ~Mapped(nextOffset)
      BY <1>2, CapacityAssumption DEF IInv, TypeOK, AllocateFresh, OffsetsLeft, Offsets, MapsAgree
    <2>2. \A f \in Flows : hold[f].offset # nextOffset
      BY <2>1, HoldsOffset, NoNameAssumption DEF IInv, HeldNameStands, Mapped
    <2>3. QED
      BY <1>2, <2>1, <2>2, GiveStep DEF AllocateFresh
  <1>3. ASSUME NEW n \in Names, AllocateEvicting(n) PROVE Promise!Next
    <2>1. PICK victim \in OldestIdle : nameAt' = [nameAt EXCEPT ![victim] = n]
      BY <1>3 DEF AllocateEvicting
    <2>2. victim \in Offsets /\ holders[victim] = 0
      BY DEF OldestIdle, Evictable
    <2>3. \A f \in Flows : hold[f].offset # victim
      BY <2>2, IdleMeansUnheld DEF IInv
    <2>4. QED
      BY <1>3, <2>1, <2>2, <2>3, GiveStep DEF AllocateEvicting
  <1>4. ASSUME NEW o \in Offsets, NameFor(o) PROVE UNCHANGED Promise!vars
    BY <1>4 DEF NameFor, Promise!vars
  <1>5. ASSUME NEW f \in Flows, NEW o \in Offsets, Retain(f, o) PROVE Promise!Next
    BY <1>5 DEF Retain, Mapped, Promise!Next, Promise!Begin
  <1>6. ASSUME NEW f \in Flows, Encodes(f) PROVE UNCHANGED Promise!vars
    BY <1>6 DEF Encodes, poolVars, Promise!vars
  <1>7. ASSUME NEW f \in Flows, Refused(f) PROVE Promise!Next
    BY <1>7, EndStep DEF IInv, ResolvingHeld, Refused
  <1>8. ASSUME NEW f \in Flows, Finish(f) PROVE Promise!Next
    BY <1>8, EndStep DEF Finish
  <1>9. CASE Clear
    BY <1>9 DEF Clear, Promise!Next, Promise!Forget
  <1>10. CASE UNCHANGED vars
    BY <1>10 DEF vars, poolVars, Promise!vars
  <1>11. QED
    BY <1>1, <1>2, <1>3, <1>4, <1>5, <1>6, <1>7, <1>8, <1>9, <1>10 DEF Next

\* FakeIpPool implements FakeIpPromise: seen only through which address stands
\* for which name and what each flow was opened with, the pool's maps, counts
\* and eviction order never show.
THEOREM PoolImplementsPromise == Spec => ImplementsPromise
  <1>1. Init => Promise!Init
    BY DEF Init, Promise!Init
  <1>2. IInv /\ [Next]_vars => [Promise!Next]_(Promise!vars)
    BY StepImplements
  <1>3. QED
    BY Invariance, <1>1, <1>2, PTL DEF Spec, ImplementsPromise, Promise!Spec
=============================================================================
