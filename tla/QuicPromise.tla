---------------------------- MODULE QuicPromise ----------------------------
(***************************************************************************)
(* What whoever calls ReconnectingQuic may count on: of the connections it *)
(* was ever given one at most carries anything; it carries until it dies;  *)
(* only then is there another, and what has died never carries again.      *)
(* UdpRelays is built on this (its conn, with Rebuild and what lets it     *)
(* die); ReconnectingQuic implements it.                                   *)
(***************************************************************************)
CONSTANT Connections

VARIABLES given, \* the connections callers were given
          alive  \* the last of them still carries

vars == <<given, alive>>

TypeOK == given \subseteq Connections /\ alive \in BOOLEAN

Init == given = {} /\ alive = FALSE

Dies == /\ alive
        /\ alive' = FALSE
        /\ UNCHANGED given

\* What is given has completed its handshake; it can have died since.
Replace(c) == /\ ~alive /\ c \notin given
              /\ given' = given \cup {c}
              /\ alive' \in BOOLEAN

Next == Dies \/ \E c \in Connections : Replace(c)

Spec == Init /\ [][Next]_vars
=============================================================================
