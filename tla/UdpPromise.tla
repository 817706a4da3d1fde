----------------------------- MODULE UdpPromise -----------------------------
(***************************************************************************)
(* What a UDP relay promises the device, with none of the streams, flow    *)
(* ids, fragments and queues that keep it: what it hands over is a whole   *)
(* packet that the far end of this relay sent, perhaps late, out of order  *)
(* or not at all.  The promise is about one connection; it ends where the  *)
(* connection is replaced.  UdpRelays implements this.                     *)
(***************************************************************************)
CONSTANTS Relays, Packets, Origin

VARIABLES sent,   \* the packets that were sent
          got,    \* what each relay handed to the device: sets of packets
          intact  \* the first connection has not been replaced

vars == <<sent, got, intact>>

TypeOK == /\ sent \subseteq Packets
          /\ got \in [Relays -> SUBSET SUBSET Packets]
          /\ intact \in BOOLEAN

Init == /\ sent = {}
        /\ got = [r \in Relays |-> {}]
        /\ intact \in BOOLEAN

Send(p) == /\ sent' = sent \cup {p}
           /\ UNCHANGED <<got, intact>>

Deliver(r, item) == /\ intact => \E p \in sent : Origin[p] = r /\ item = {p}
                    /\ got' = [got EXCEPT ![r] = @ \cup {item}]
                    /\ UNCHANGED <<sent, intact>>

Replace == /\ intact' = FALSE
           /\ UNCHANGED <<sent, got>>

Next == \/ \E p \in Packets : Send(p)
        \/ \E r \in Relays, item \in SUBSET Packets : Deliver(r, item)
        \/ Replace

Spec == Init /\ [][Next]_vars
=============================================================================
