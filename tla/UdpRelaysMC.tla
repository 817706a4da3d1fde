---------------------------- MODULE UdpRelaysMC -----------------------------
(***************************************************************************)
(* Two relays, each of whose far ends has one packet to send.              *)
(*                                                                         *)
(* Relays that close each other's paths and packets that cross are each    *)
(* small; together they are not.  Bound is where the search stops: packets *)
(* are followed through a whole life of both relays and a rebuilt          *)
(* connection as long as nobody closes anything, and through the end of    *)
(* one relay beside an open one; everything else without packets.          *)
(***************************************************************************)
EXTENDS UdpRelays

CONSTANTS r1, r2, p1, p2

OneEach == [p \in {p1, p2} |-> IF p = p1 THEN r1 ELSE r2]
SameId == [p \in {p1, p2} |-> 1]

Undisturbed(r) == /\ relay[r].closers = {} /\ relay[r].at \notin {"ended", "lost"}
                  /\ relay[r].at = "open" => relay[r].up /\ relay[r].down

OneEnds == /\ conn.gen = 1 /\ Cardinality(sent) = 1
           /\ \A r \in Relays : relay[r].at \in {"open", "ended"}
           /\ \E r \in Relays : Undisturbed(r)

Bound == /\ sent # {} => stage = "up" /\ (OneEnds \/ \A r \in Relays : Undisturbed(r))
         /\ conn.gen # 1 => stage = "up" /\ \A r \in Relays : Cardinality(relay[r].closers) <= 1
         /\ relay[r2].closers \cap {"asked", "user"} = {}
=============================================================================
