--------------------------- MODULE TunnelServiceMC ---------------------------
(***************************************************************************)
(* The service and the lists are searched together where they meet: beside *)
(* a service, the lists hold a node of the user's and one of a feed's,     *)
(* which come and go, and a feed is under way during an attempt.           *)
(* Everything else the lists do is searched without a service.  A list     *)
(* with twins is where the search stops.                                   *)
(***************************************************************************)
EXTENDS TunnelService

CONSTANTS u1, u2, s1, s2

Plain == {[url |-> u1, origin |-> "manual", source |-> NoSub],
          [url |-> u2, origin |-> "sub", source |-> s1],
          [url |-> u2, origin |-> "removed", source |-> s1]}

Calm == /\ subs = {s1} /\ undo = NoUndo /\ entries \subseteq Plain
        /\ attempt = NoUrl => \A f \in Fetches : fetching[f] = NoSub

Asleep == life = "none" /\ running = NoStart /\ state = "disconnected" /\ health = [u \in Urls |-> Untried]

Bound == Twins(entries) = {} /\ (Calm \/ Asleep)
=============================================================================
