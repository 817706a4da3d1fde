-------------------------- MODULE ReconnectingQuic --------------------------
(***************************************************************************)
(* ReconnectingQuic in vpn/SomewhereVpnService.kt, over the life of each   *)
(* quic/QuicConnection.kt it opens: start-up and how it fails, the         *)
(* handshake, the check of the peer, the loop that ends and what is closed *)
(* then.  Threads ask for the connection whenever they need it; the        *)
(* control thread asks first, falls back to TLS, and closes at the end.    *)
(*                                                                         *)
(* Connections are numbered by the generation they are opened in; 0 is     *)
(* null.  What a connection carries is QuicConnection's and UdpRelays'.    *)
(***************************************************************************)
EXTENDS Naturals

CONSTANTS Threads,        \* pumps and dials of the session
          Control,        \* the service's control thread
          MaxGenerations, \* bound: connections opened
          NoThread

ASSUME ThreadsAssumption == Control \notin Threads /\ NoThread \notin Threads \cup {Control}
ASSUME GenerationsAssumption == MaxGenerations \in Nat

VARIABLES
  owner,   \* where each connection's own thread stands
  socket, running, fatal,
  handshakeDone,
  genuine, \* external: the peer it reaches holds the certificate
  pinned,  \* the node has a pin; without one the chain is checked
  connection, generation, \* ReconnectingQuic's fields
  lock,    \* the thread in its monitor
  at,      \* where each caller stands in current or close
  mine,    \* the connection a caller has opened
  stage,   \* the control thread: startTunnel, the tunnel, teardown
  handed   \* history: connections current has returned

ownerVars == <<owner, socket, running, fatal, handshakeDone>>
fixed == <<genuine, pinned>>
fields == <<connection, generation>>
vars == <<ownerVars, fixed, fields, lock, at, mine, stage, handed>>

Callers == Threads \cup {Control}
Ids == 1 .. MaxGenerations
OwnerAt == {"none", "starting", "failed", "looping", "failing", "stopping", "waking", "done"}
CallerAt == {"idle", "asking", "replacing", "joiningOld", "opening", "awaiting", "shaking", "reporting",
             "checking", "refusing", "untrusted", "accepted", "failed", "closing", "dropping", "joiningLast"}

Init == /\ owner = [c \in Ids |-> "none"]
        /\ socket = [c \in Ids |-> "none"]
        /\ running = [c \in Ids |-> TRUE]
        /\ fatal = [c \in Ids |-> FALSE]
        /\ handshakeDone = [c \in Ids |-> FALSE]
        /\ genuine \in [Ids -> BOOLEAN] /\ pinned \in BOOLEAN
        /\ connection = 0 /\ generation = 0
        /\ lock = NoThread
        /\ at = [t \in Callers |-> IF t = Control THEN "asking" ELSE "idle"]
        /\ mine = [t \in Callers |-> 0]
        /\ stage = "starting"
        /\ handed = {}

Alive(c) == c # 0 /\ running[c] /\ ~fatal[c]

-----------------------------------------------------------------------------
(* The thread that owns a connection. *)

callers == <<fixed, fields, lock, at, mine, stage, handed>>

Binds(c) == /\ owner[c] = "starting" /\ socket[c] = "none"
            /\ socket' = [socket EXCEPT ![c] = "open"]
            /\ UNCHANGED <<owner, running, fatal, handshakeDone, callers>>

\* protect, connect and nativeOpen have gone well.
Starts(c) == /\ owner[c] = "starting" /\ socket[c] = "open"
             /\ owner' = [owner EXCEPT ![c] = "looping"]
             /\ UNCHANGED <<socket, running, fatal, handshakeDone, callers>>

\* Whichever of the four fails.
StartFails(c) == /\ owner[c] = "starting"
                 /\ owner' = [owner EXCEPT ![c] = "failed"]
                 /\ socket' = [socket EXCEPT ![c] = IF @ = "open" THEN "closed" ELSE @]
                 /\ UNCHANGED <<running, fatal, handshakeDone, callers>>

\* A pin is compared inside the handshake.
Shakes(c) == /\ owner[c] = "looping" /\ ~handshakeDone[c]
             /\ pinned => genuine[c]
             /\ handshakeDone' = [handshakeDone EXCEPT ![c] = TRUE]
             /\ UNCHANGED <<owner, socket, running, fatal, callers>>

\* The path is gone, the peer closes, the pin does not match.
Fails(c) == /\ owner[c] = "looping"
            /\ owner' = [owner EXCEPT ![c] = "failing"]
            /\ fatal' = [fatal EXCEPT ![c] = TRUE]
            /\ UNCHANGED <<socket, running, handshakeDone, callers>>

Leaves(c) == /\ owner[c] = "looping" /\ ~running[c]
             /\ owner' = [owner EXCEPT ![c] = "stopping"]
             /\ UNCHANGED <<socket, running, fatal, handshakeDone, callers>>

Stops(c) == /\ owner[c] \in {"failing", "stopping"}
            /\ owner' = [owner EXCEPT ![c] = "waking"]
            /\ running' = [running EXCEPT ![c] = FALSE]
            /\ UNCHANGED <<socket, fatal, handshakeDone, callers>>

\* The last tasks, then nativeClose.  The socket is left to close().
Ends(c) == /\ owner[c] = "waking"
           /\ owner' = [owner EXCEPT ![c] = "done"]
           /\ UNCHANGED <<socket, running, fatal, handshakeDone, callers>>

Runs(c) == Binds(c) \/ Starts(c) \/ StartFails(c) \/ Leaves(c) \/ Stops(c) \/ Ends(c)

-----------------------------------------------------------------------------
(* current. *)

others == <<ownerVars, fixed>>

Goes(t, where) == at' = [at EXCEPT ![t] = where]

\* A pump that is in the lane asks also once the tunnel has stopped.
Asks(t) == /\ t \in Threads /\ at[t] = "idle"
           /\ stage \in {"up", "closing", "down"}
           /\ Goes(t, "asking")
           /\ UNCHANGED <<others, fields, lock, mine, stage, handed>>

\* The monitor lets one thread in.
Enters == lock = NoThread

ReturnsIt(t) == /\ at[t] = "asking" /\ Enters
                /\ Alive(connection)
                /\ Goes(t, "idle")
                /\ UNCHANGED <<others, fields, lock, mine, stage, handed>>

FindsItDead(t) == /\ at[t] = "asking" /\ Enters /\ generation < MaxGenerations
                  /\ ~Alive(connection)
                  /\ lock' = t
                  /\ Goes(t, "replacing")
                  /\ UNCHANGED <<others, fields, mine, stage, handed>>

\* QuicConnection.close on c: nothing, if the loop has stopped by itself;
\* else it is told to stop and waited for.  The two seconds of the join are
\* taken to be enough.
StopUntold(t, c, waits, goesOn) ==
  UNCHANGED running /\ Goes(t, IF c # 0 /\ running[c] THEN waits ELSE goesOn)
Stop(t, c, waits, goesOn) ==
  IF c # 0 /\ running[c]
  THEN running' = [running EXCEPT ![c] = FALSE] /\ Goes(t, waits)
  ELSE UNCHANGED running /\ Goes(t, goesOn)

Joined(c) == /\ c # 0 /\ owner[c] = "done"
             /\ socket' = [socket EXCEPT ![c] = "closed"]

ClosesOld(t) == /\ at[t] = "replacing"
                /\ Stop(t, connection, "joiningOld", "opening")
                /\ UNCHANGED <<owner, socket, fatal, handshakeDone, fixed, fields, lock, mine, stage, handed>>

JoinsOld(t) == /\ at[t] = "joiningOld"
               /\ Joined(connection)
               /\ Goes(t, "opening")
               /\ UNCHANGED <<owner, running, fatal, handshakeDone, fixed, fields, lock, mine, stage, handed>>

\* generation++, the constructor, and the thread it starts.
OpensOutside(t) == /\ at[t] = "opening" /\ generation < MaxGenerations
                   /\ generation' = generation + 1
                   /\ mine' = [mine EXCEPT ![t] = generation']
                   /\ owner' = [owner EXCEPT ![generation'] = "starting"]
                   /\ Goes(t, "awaiting") /\ lock' = NoThread
                   /\ UNCHANGED <<socket, running, fatal, handshakeDone, fixed, connection, stage, handed>>
Opens(t) == /\ at[t] = "opening" /\ generation < MaxGenerations
            /\ generation' = generation + 1
            /\ mine' = [mine EXCEPT ![t] = generation']
            /\ owner' = [owner EXCEPT ![generation'] = "starting"]
            /\ Goes(t, "awaiting")
            /\ UNCHANGED <<socket, running, fatal, handshakeDone, fixed, connection, lock, stage, handed>>

\* ready, and the failure of the start-up if there is one.
Awaits(t) == /\ at[t] = "awaiting" /\ owner[mine[t]] # "starting"
             /\ Goes(t, IF owner[mine[t]] = "failed" THEN "failed" ELSE "shaking")
             /\ UNCHANGED <<others, fields, lock, mine, stage, handed>>

\* completeHandshake.
SeesHandshake(t) == /\ at[t] = "shaking" /\ handshakeDone[mine[t]]
                    /\ Goes(t, IF pinned THEN "accepted" ELSE "checking")
                    /\ UNCHANGED <<others, fields, lock, mine, stage, handed>>

\* A failure, a stop, or the deadline; the handshake may have been completed
\* since it was looked for.  The message of a timeout is read from the native
\* side, with the handle as it is now, by the caller itself.
GivesUpOnFailure(t) == /\ at[t] = "shaking" /\ ~Alive(mine[t])
                       /\ Goes(t, "failed")
                       /\ UNCHANGED <<others, fields, lock, mine, stage, handed>>
GivesUp(t) == /\ at[t] = "shaking"
              /\ \/ ~Alive(mine[t]) /\ Goes(t, "failed")
                 \/ Goes(t, IF owner[mine[t]] = "done" THEN "failed" ELSE "reporting")
              /\ UNCHANGED <<others, fields, lock, mine, stage, handed>>

Reports(t) == /\ at[t] = "reporting"
              /\ Goes(t, "failed")
              /\ UNCHANGED <<others, fields, lock, mine, stage, handed>>

\* verifyPeer: the owner fetches the chain, in its loop or in its last tasks;
\* one that is refused closes the connection before anybody has it.
RefusesOnly(t) == /\ at[t] = "checking" /\ owner[mine[t]] \in {"looping", "waking"}
                  /\ Goes(t, IF genuine[mine[t]] THEN "accepted" ELSE "untrusted")
                  /\ UNCHANGED <<others, fields, lock, mine, stage, handed>>
Checks(t) == /\ at[t] = "checking" /\ owner[mine[t]] \in {"looping", "waking"}
             /\ IF genuine[mine[t]] THEN Goes(t, "accepted") /\ UNCHANGED running
                ELSE Stop(t, mine[t], "refusing", "untrusted")
             /\ UNCHANGED <<owner, socket, fatal, handshakeDone, fixed, fields, lock, mine, stage, handed>>

\* The connection has stopped, or does not answer.
CheckFails(t) == /\ at[t] = "checking"
                 /\ Goes(t, "failed")
                 /\ UNCHANGED <<others, fields, lock, mine, stage, handed>>

JoinsRefused(t) == /\ at[t] = "refusing"
                   /\ Joined(mine[t])
                   /\ Goes(t, "untrusted")
                   /\ UNCHANGED <<owner, running, fatal, handshakeDone, fixed, fields, lock, mine, stage, handed>>

\* Only now is it the connection.
Hand(t) == /\ connection' = mine[t]
           /\ handed' = handed \cup {mine[t]}
           /\ lock' = NoThread
           /\ Goes(t, "idle") /\ mine' = [mine EXCEPT ![t] = 0]
           /\ stage' = IF t = Control THEN "up" ELSE stage
           /\ UNCHANGED <<others, generation>>
HandsEarly(t) == at[t] \in {"shaking", "checking", "accepted"} /\ Hand(t)
Hands(t) == at[t] = "accepted" /\ Hand(t)

\* startTunnel tells a certificate refused from a Portal that is not there:
\* by the kind of failure, or by a message that speaks of the pin.
Throws(t) == /\ at[t] \in {"failed", "untrusted"}
             /\ lock' = NoThread
             /\ mine' = [mine EXCEPT ![t] = 0]
             /\ UNCHANGED <<others, fields, handed>>
             /\ \/ t # Control /\ Goes(t, "idle") /\ UNCHANGED stage
                \/ /\ t = Control
                   /\ at[t] = "untrusted" \/ (fatal[mine[t]] /\ pinned /\ ~genuine[mine[t]])
                   /\ Goes(t, "idle") /\ stage' = "refused"
                \/ /\ t = Control /\ at[t] = "failed"
                   /\ Goes(t, "closing") /\ UNCHANGED stage

-----------------------------------------------------------------------------
(* close, by the control thread: to fall back to TLS, and in teardown. *)

TearsDown == /\ stage = "up" /\ at[Control] = "idle"
             /\ stage' = "closing" /\ Goes(Control, "closing")
             /\ UNCHANGED <<others, fields, lock, mine, handed>>

EntersClose(t) == /\ at[t] = "closing" /\ Enters
                  /\ lock' = t
                  /\ Goes(t, "dropping")
                  /\ UNCHANGED <<others, fields, mine, stage, handed>>

Closed(t) == /\ connection' = 0
             /\ lock' = NoThread
             /\ stage' = IF stage = "starting" THEN "tls" ELSE "down"

Drops(t) == /\ at[t] = "dropping"
            /\ Stop(t, connection, "joiningLast", "idle")
            /\ IF at'[t] = "idle" THEN Closed(t) ELSE UNCHANGED <<connection, lock, stage>>
            /\ UNCHANGED <<owner, socket, fatal, handshakeDone, fixed, generation, mine, handed>>

JoinsLast(t) == /\ at[t] = "joiningLast"
                /\ Joined(connection) /\ Closed(t)
                /\ Goes(t, "idle")
                /\ UNCHANGED <<owner, running, fatal, handshakeDone, fixed, generation, mine, handed>>

\* What a thread in the monitor does next.
Inside(t) == \/ ClosesOld(t) \/ JoinsOld(t) \/ Opens(t) \/ Awaits(t)
             \/ SeesHandshake(t) \/ GivesUp(t) \/ Reports(t)
             \/ Checks(t) \/ CheckFails(t) \/ JoinsRefused(t)
             \/ Hands(t) \/ Throws(t)
             \/ Drops(t) \/ JoinsLast(t)

Next == \/ \E c \in Ids : Runs(c) \/ Shakes(c) \/ Fails(c)
        \/ \E t \in Callers : Asks(t) \/ ReturnsIt(t) \/ FindsItDead(t) \/ EntersClose(t) \/ Inside(t)
        \/ TearsDown

Spec == Init /\ [][Next]_vars

\* Threads run.  No handshake completes, no connection fails and nobody asks
\* unless it happens to.
FairSpec == /\ Spec
            /\ \A c \in Ids : WF_vars(Runs(c))
            /\ \A t \in Callers : WF_vars(Inside(t))

-----------------------------------------------------------------------------
(* Properties. *)

TypeOK == /\ owner \in [Ids -> OwnerAt]
          /\ socket \in [Ids -> {"none", "open", "closed"}]
          /\ running \in [Ids -> BOOLEAN] /\ fatal \in [Ids -> BOOLEAN]
          /\ handshakeDone \in [Ids -> BOOLEAN]
          /\ genuine \in [Ids -> BOOLEAN] /\ pinned \in BOOLEAN
          /\ generation \in 0 .. MaxGenerations
          /\ \A c \in Ids : owner[c] = "none" <=> generation < c
          /\ lock \in Callers \cup {NoThread}
          /\ at \in [Callers -> CallerAt]
          /\ mine \in [Callers -> 0 .. generation]
          /\ stage \in {"starting", "up", "tls", "refused", "closing", "down"}
          /\ handed \subseteq 1 .. generation
          /\ connection \in handed \cup {0}

\* verifyPeer: "the connection is not handed to anyone until this returns, so
\* the AuthFrame cannot have gone out to a Portal that has not been verified".
\* By either way of checking, whoever asked for it and however often the
\* connection was replaced.
HandedIsGenuine == \A c \in handed : handshakeDone[c] /\ genuine[c]

\* current: threads that all find the connection dead replace it once.  Two
\* connections at work would each hand out stream 0 and be authenticated twice.
OneAlive == \A c, d \in handed : Alive(c) /\ Alive(d) => c = d

\* verifyPeer: whoever is told that the certificate was refused is told once
\* the loop is over, even if the connection was failing by itself meanwhile:
\* nothing is sent to that peer any more.
RefusedIsDown == \A t \in Callers : at[t] = "untrusted" => owner[mine[t]] # "looping"

\* close: "running = false", then "thread.join".  Whoever joins a connection's
\* thread joins one that has a loop, and one that has been told to leave it;
\* and whoever waits for a handshake or a chain waits for a connection that
\* has started.  Both wait inside the monitor, for something others change.
Started == {"looping", "failing", "stopping", "waking", "done"}
WillEnd(c) == c # 0 /\ ~running[c] /\ owner[c] \in Started
WaitsAreAnswered ==
  \A t \in Callers : /\ at[t] \in {"joiningOld", "joiningLast"} => WillEnd(connection)
                     /\ at[t] = "refusing" => WillEnd(mine[t])
                     /\ at[t] \in {"shaking", "checking"} => owner[mine[t]] \in Started

\* current and close wait for a start-up, a handshake, a chain and a loop that
\* ends, all inside the monitor, with every dial, pump and the teardown behind
\* them.  Whoever is in comes out again, whatever fails and even if the peer
\* never answers.
LockIsGivenBack == \A t \in Callers : lock = t ~> lock # t

\* What UdpRelays builds on.
Promise == INSTANCE QuicPromise WITH Connections <- Ids, given <- handed, alive <- Alive(connection)

\* What this module and QuicConnection both say of a connection: it is told to
\* stop at most once and only when it loops, and loses its socket only when
\* its thread is over, whoever replaces, refuses or closes it.
LifeAt(stands) == CASE stands \in {"failing", "stopping"} -> "left"
                    [] stands = "waking" -> "stopped"
                    [] OTHER -> stands
Life == INSTANCE ConnectionLife
          WITH Connections <- Ids, at <- [c \in Ids |-> LifeAt(owner[c])]
ImplementsPromise == Promise!Spec /\ Life!Spec

\* What the code says and does not do (see README, Findings).

\* QuicHandshakeTest: "Opening and closing many connections leaves none
\* behind."  A connection that nobody has any more is at work no longer, and
\* its socket is not left for good.
LeftBehind(c) == owner[c] = "looping" \/ (owner[c] = "done" /\ socket[c] = "open")
NoneLeftBehind ==
  \A c \in 1 .. generation : c # connection /\ (\A t \in Callers : mine[t] # c) => ~LeftBehind(c)
=============================================================================
