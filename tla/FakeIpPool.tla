----------------------------- MODULE FakeIpPool -----------------------------
(***************************************************************************)
(* The pool of synthetic addresses (dns/FakeIpPool.kt) and the flows that  *)
(* hold them through FakeIpResolver.  Every operation of the pool runs     *)
(* under its one lock, so each is one action; the resolver's retain and    *)
(* the release it owes when the name will not encode are two.              *)
(*                                                                         *)
(* An Entry object is spread over nameAt, holders and usedAt, indexed by   *)
(* its offset; byName is the other map that reaches the same object.       *)
(* Offset 0 is the network address, never minted: it stands for "none".    *)
(***************************************************************************)
EXTENDS Naturals, FiniteSets

CONSTANTS Names,     \* the names the device resolves, all encodable
          Flows,     \* the TCP connections and UDP relays that may hold one
          Capacity,  \* FakeIpPool.capacity
          MaxTick,   \* bound on the eviction counter between two clears
          NoName     \* an offset without an entry

ASSUME CapacityAssumption == Capacity \in Nat \ {0}
ASSUME TickAssumption == MaxTick \in Nat
ASSUME FlowsAssumption == IsFiniteSet(Flows)
ASSUME NoNameAssumption == NoName \notin Names

Offsets == 1 .. Capacity
NotHeld == [offset |-> 0, name |-> NoName]

VARIABLES
  byName,      \* name -> offset of its entry, 0 when it has none
  nameAt,      \* offset -> Entry.name, NoName when there is no entry
  holders,     \* offset -> Entry.holders
  usedAt,      \* offset -> Entry.usedAt
  nextOffset,  \* the next offset never minted
  tick,        \* the counter usedAt is taken from
  hold,        \* flow -> the address it holds and the name it was told
  resolving    \* flows between the resolver's retain and its verdict

poolVars == <<byName, nameAt, holders, usedAt, nextOffset, tick>>
vars == <<poolVars, hold, resolving>>

Init == /\ byName = [n \in Names |-> 0]
        /\ nameAt = [o \in Offsets |-> NoName]
        /\ holders = [o \in Offsets |-> 0]
        /\ usedAt = [o \in Offsets |-> 0]
        /\ nextOffset = 1
        /\ tick = 0
        /\ hold = [f \in Flows |-> NotHeld]
        /\ resolving = {}

-----------------------------------------------------------------------------
(* The pool's operations. *)

Mapped(o) == nameAt[o] # NoName

\* usedAt = ++tick, in place.
Touch(o) == /\ tick < MaxTick
            /\ tick' = tick + 1
            /\ usedAt' = [usedAt EXCEPT ![o] = tick + 1]

\* What evictOldestIdle would remove: the idle entry used longest ago.
EvictableHeld == {o \in Offsets : Mapped(o)}
Evictable == {o \in Offsets : Mapped(o) /\ holders[o] = 0}
OldestIdle == {o \in Evictable : \A p \in Evictable : usedAt[o] <= usedAt[p]}

\* allocate, for a name that already has an entry.
AllocateKnown(n) == /\ byName[n] # 0
                    /\ Touch(byName[n])
                    /\ UNCHANGED <<byName, nameAt, holders, nextOffset, hold, resolving>>

OffsetsLeft == nextOffset <= Capacity

\* allocate, while offsets remain that were never minted.
AllocateFresh(n) == /\ byName[n] = 0
                    /\ OffsetsLeft
                    /\ nextOffset' = nextOffset + 1
                    /\ byName' = [byName EXCEPT ![n] = nextOffset]
                    /\ nameAt' = [nameAt EXCEPT ![nextOffset] = n]
                    /\ holders' = [holders EXCEPT ![nextOffset] = 0]
                    /\ Touch(nextOffset)
                    /\ UNCHANGED <<hold, resolving>>

\* byName once the victim's name is removed and n takes its offset.
RenamedForgetfully(n, victim) == [byName EXCEPT ![n] = victim]
Renamed(n, victim) == [byName EXCEPT ![nameAt[victim]] = 0, ![n] = victim]

\* allocate, when the oldest idle entry has to make room.  With every entry
\* held there is no victim: allocate returns null and nothing changes.
AllocateEvicting(n) == /\ byName[n] = 0
                       /\ ~OffsetsLeft
                       /\ \E victim \in OldestIdle :
                            /\ byName' = Renamed(n, victim)
                            /\ nameAt' = [nameAt EXCEPT ![victim] = n]
                            /\ holders' = [holders EXCEPT ![victim] = 0]
                            /\ Touch(victim)
                       /\ UNCHANGED <<nextOffset, hold, resolving>>

\* nameFor: a lookup that claims nothing and still counts as a use.
NameFor(o) == /\ Mapped(o)
              /\ Touch(o)
              /\ UNCHANGED <<byName, nameAt, holders, nextOffset, hold, resolving>>

\* holders after one release: never below zero.
Released(o) == [holders EXCEPT ![o] = IF @ > 0 THEN @ - 1 ELSE 0]

\* clear, which teardown calls once every flow has given its hold back.
Clear == /\ \A f \in Flows : hold[f] = NotHeld
         /\ byName' = [n \in Names |-> 0]
         /\ nameAt' = [o \in Offsets |-> NoName]
         /\ holders' = [o \in Offsets |-> 0]
         /\ usedAt' = [o \in Offsets |-> 0]
         /\ nextOffset' = 1
         /\ tick' = 0
         /\ UNCHANGED <<hold, resolving>>

-----------------------------------------------------------------------------
(* FakeIpResolver.resolve and the flow that owes the release. *)

\* retain.  A null answer (an unmapped offset) sends the flow to the literal
\* address and holds nothing, so only mapped offsets matter here.
Retain(f, o) == /\ hold[f] = NotHeld
                /\ Mapped(o)
                /\ holders' = [holders EXCEPT ![o] = @ + 1]
                /\ Touch(o)
                /\ hold' = [hold EXCEPT ![f] = [offset |-> o, name |-> nameAt[o]]]
                /\ resolving' = resolving \cup {f}
                /\ UNCHANGED <<byName, nameAt, nextOffset>>

\* Target.ofDomain accepts name and port: the flow now owes the release.
Encodes(f) == /\ f \in resolving
              /\ resolving' = resolving \ {f}
              /\ UNCHANGED <<poolVars, hold>>

\* Target.ofDomain refuses (port 0): the resolver gives the hold back itself.
RefusedForgetful(f) == /\ f \in resolving
                       /\ resolving' = resolving \ {f}
                       /\ hold' = [hold EXCEPT ![f] = NotHeld]
                       /\ UNCHANGED poolVars
Refused(f) == /\ f \in resolving
              /\ resolving' = resolving \ {f}
              /\ holders' = Released(hold[f].offset)
              /\ hold' = [hold EXCEPT ![f] = NotHeld]
              /\ UNCHANGED <<byName, nameAt, usedAt, nextOffset, tick>>

\* releaseFakeIp: once per hold, guarded by the flow's own released flag.
Finish(f) == /\ hold[f] # NotHeld
             /\ f \notin resolving
             /\ holders' = Released(hold[f].offset)
             /\ hold' = [hold EXCEPT ![f] = NotHeld]
             /\ UNCHANGED <<byName, nameAt, usedAt, nextOffset, tick, resolving>>

Next == \/ \E n \in Names : \/ AllocateKnown(n)
                            \/ AllocateFresh(n)
                            \/ AllocateEvicting(n)
        \/ \E o \in Offsets : NameFor(o)
        \/ \E f \in Flows, o \in Offsets : Retain(f, o)
        \/ \E f \in Flows : Encodes(f) \/ Refused(f) \/ Finish(f)
        \/ Clear

Spec == Init /\ [][Next]_vars

-----------------------------------------------------------------------------
(* Properties. *)

Holding(o) == {f \in Flows : hold[f].offset = o}

TypeOK == /\ byName \in [Names -> 0 .. Capacity]
          /\ nameAt \in [Offsets -> Names \cup {NoName}]
          /\ holders \in [Offsets -> Nat]
          /\ usedAt \in [Offsets -> Nat]
          /\ nextOffset \in 1 .. Capacity + 1
          /\ tick \in 0 .. MaxTick
          /\ hold \in [Flows -> [offset : Offsets, name : Names] \cup {NotHeld}]
          /\ resolving \in SUBSET Flows

\* The rule that shapes the class (FakeIpPool.kt, "An address in use is never
\* handed to a different name"): whatever was allocated, evicted or released
\* since, the address a flow holds still stands for the name it was told.
HeldNameStands ==
  \A f \in Flows : hold[f] # NotHeld => nameAt[hold[f].offset] = hold[f].name

\* Entry.holders is the number of flows relying on the entry: neither an
\* under-count that frees an address in use, nor an over-count that pins it.
HoldersCounted == \A o \in Offsets : holders[o] = Cardinality(Holding(o))

\* The two maps reach the same entries, and every offset ever minted still
\* has one: an eviction loses neither an address nor a name's way back.
MapsAgree == /\ \A n \in Names : byName[n] # 0 => nameAt[byName[n]] = n
             /\ \A o \in Offsets : Mapped(o) => byName[nameAt[o]] = o
             /\ \A o \in Offsets : Mapped(o) <=> o < nextOffset

\* The pool implements FakeIpPromise: its maps, counters and eviction order
\* are invisible to whoever only sees which address stands for which name.
Promise == INSTANCE FakeIpPromise
             WITH Addresses <- Offsets, Unused <- NotHeld, stands <- nameAt, using <- hold
ImplementsPromise == Promise!Spec
=============================================================================
