--------------------------- MODULE ConnectionLife ---------------------------
(***************************************************************************)
(* The life of a QUIC connection, as quic/QuicConnection.kt lives it and   *)
(* as whoever opens and closes connections may count on: it starts or      *)
(* fails to, loops until it fails or is told to stop, is over before its   *)
(* socket is closed, and never comes back.  Two modules say what goes on   *)
(* meanwhile, QuicConnection for the streams of one and ReconnectingQuic   *)
(* for the threads that replace many; both implement this, so that the     *)
(* connection is the same in both.                                         *)
(***************************************************************************)
CONSTANT Connections

VARIABLES at,      \* where each connection's thread is in its life
          socket,  \* the socket it opens
          running, \* nobody has told it to stop and it has not stopped
          fatal    \* it has failed

vars == <<at, socket, running, fatal>>

\* Those who look may come before a connection is opened or once it loops.
Init == /\ at \in [Connections -> {"none", "looping"}]
        /\ socket = [c \in Connections |-> IF at[c] = "none" THEN "none" ELSE "open"]
        /\ running = [c \in Connections |-> TRUE]
        /\ fatal = [c \in Connections |-> FALSE]

Goes(c, from, to) == at[c] = from /\ at' = [at EXCEPT ![c] = to]

Open(c) == Goes(c, "none", "starting") /\ UNCHANGED <<socket, running, fatal>>

Bind(c) == /\ at[c] = "starting" /\ socket[c] = "none"
           /\ socket' = [socket EXCEPT ![c] = "open"]
           /\ UNCHANGED <<at, running, fatal>>

Start(c) == Goes(c, "starting", "looping") /\ socket[c] = "open" /\ UNCHANGED <<socket, running, fatal>>

StartFails(c) == /\ Goes(c, "starting", "failed")
                 /\ socket' = [socket EXCEPT ![c] = IF @ = "open" THEN "closed" ELSE @]
                 /\ UNCHANGED <<running, fatal>>

\* The loop is left for one of two reasons.
Fail(c) == /\ Goes(c, "looping", "left")
           /\ fatal' = [fatal EXCEPT ![c] = TRUE]
           /\ UNCHANGED <<socket, running>>
Leave(c) == Goes(c, "looping", "left") /\ ~running[c] /\ UNCHANGED <<socket, running, fatal>>

\* The last tasks still run, up to the end of the native connection.
Stop(c) == /\ Goes(c, "left", "stopped")
           /\ running' = [running EXCEPT ![c] = FALSE]
           /\ UNCHANGED <<socket, fatal>>
End(c) == Goes(c, "stopped", "done") /\ UNCHANGED <<socket, running, fatal>>

\* Whoever closes a connection: one that has a loop is told once, and only
\* then is its socket closed, when nothing is at work above it.
Tell(c) == /\ at[c] \in {"looping", "left"} /\ running[c]
           /\ running' = [running EXCEPT ![c] = FALSE]
           /\ UNCHANGED <<at, socket, fatal>>
Release(c) == /\ at[c] = "done"
              /\ socket' = [socket EXCEPT ![c] = "closed"]
              /\ UNCHANGED <<at, running, fatal>>

Next == \E c \in Connections :
          \/ Open(c) \/ Bind(c) \/ Start(c) \/ StartFails(c)
          \/ Fail(c) \/ Leave(c) \/ Stop(c) \/ End(c)
          \/ Tell(c) \/ Release(c)

Spec == Init /\ [][Next]_vars
=============================================================================
