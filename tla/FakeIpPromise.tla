---------------------------- MODULE FakeIpPromise ----------------------------
(***************************************************************************)
(* What the fake-IP layer promises, with none of the bookkeeping that      *)
(* keeps it: a synthetic address stands for at most one name, a name has   *)
(* at most one address, and an address some flow is using is never given   *)
(* to another name.  FakeIpPool (dns/FakeIpPool.kt) implements this.       *)
(***************************************************************************)
EXTENDS Naturals

CONSTANTS Names,      \* domain names the device asks for
          Flows,      \* flows that may use an address
          Addresses,  \* the synthetic addresses
          NoName,     \* "stands for nothing"
          Unused      \* what a flow that uses no address is using

VARIABLES stands,     \* the name behind each address
          using       \* the address and name each flow was opened with

vars == <<stands, using>>

Use == [offset : Addresses, name : Names]

TypeOK == /\ stands \in [Addresses -> Names \cup {NoName}]
          /\ using \in [Flows -> Use \cup {Unused}]

InUse(a) == \E f \in Flows : using[f] # Unused /\ using[f].offset = a

Init == /\ stands = [a \in Addresses |-> NoName]
        /\ using = [f \in Flows |-> Unused]

\* A name that has no address is given one nobody is using.
Give(n, a) == /\ ~InUse(a)
              /\ \A b \in Addresses : stands[b] # n
              /\ stands' = [stands EXCEPT ![a] = n]
              /\ UNCHANGED using

Begin(f, a) == /\ using[f] = Unused
               /\ stands[a] # NoName
               /\ using' = [using EXCEPT ![f] = [offset |-> a, name |-> stands[a]]]
               /\ UNCHANGED stands

End(f) == /\ using[f] # Unused
          /\ using' = [using EXCEPT ![f] = Unused]
          /\ UNCHANGED stands

Forget == /\ \A f \in Flows : using[f] = Unused
          /\ stands' = [a \in Addresses |-> NoName]
          /\ UNCHANGED using

Next == \/ \E n \in Names, a \in Addresses : Give(n, a)
        \/ \E f \in Flows, a \in Addresses : Begin(f, a)
        \/ \E f \in Flows : End(f)
        \/ Forget

Spec == Init /\ [][Next]_vars
=============================================================================
