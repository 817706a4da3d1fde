---------------------------- MODULE TunnelService ----------------------------
(***************************************************************************)
(* vpn/SomewhereVpnService.kt with TunnelController.kt, NodeHealth.kt and  *)
(* Failover.kt, over the node lists: the control thread and its queue, the *)
(* attempts it makes, failing over, the service stopping itself while a    *)
(* start is queued, and what is reported meanwhile.                        *)
(*                                                                         *)
(* startTunnel runs on the control thread alone.  Here it is two steps: it *)
(* reports Connecting and goes out to dial, and it learns how that ended.  *)
(* What a tunnel is made of, and how it is taken down, is in TcpFlows and  *)
(* UdpRelays; here it is the node it goes to.                              *)
(***************************************************************************)
EXTENDS NodeLists, Sequences

CONSTANTS MaxQueue,   \* bound: commands waiting
          MaxFailures \* bound: how far consecutiveFailures is counted

ASSUME BoundsAssumption == MaxQueue \in Nat /\ MaxFailures \in Nat \ {0}

VARIABLES
  life,        \* the service: created, or told of its destruction
  stopAsked,   \* stopSelf was called
  queue,       \* what control has yet to run
  attempt,     \* the node startTunnel is dialling
  tried, mayFailOver,
  pump,        \* the node of the tunnel that is up
  state,       \* TunnelController.state
  health,      \* NodeHealth.records
  running,     \* MainActivity.running
  dialled      \* history: the nodes dialled for the last start that was handled

serviceVars == <<life, stopAsked, queue, attempt, tried, mayFailOver, pump, state, dialled>>
vars == <<listVars, serviceVars, health, running>>

Start == [url : Urls, may : BOOLEAN]
NoStart == [url |-> NoUrl, may |-> FALSE]
Command == [op : {"start"}, start : Start] \cup [op : {"stop", "teardown"}]
Health == [failures : 0 .. MaxFailures, refused : BOOLEAN, known : BOOLEAN]
Dialled == [first : Urls \cup {NoUrl}, all : SUBSET Urls, again : BOOLEAN]
NotDialled == [first |-> NoUrl, all |-> {}, again |-> FALSE]
Untried == [failures |-> 0, refused |-> FALSE, known |-> FALSE]

Init == /\ ListInit
        /\ life = "none" /\ stopAsked = FALSE /\ queue = <<>>
        /\ attempt = NoUrl /\ tried = {} /\ mayFailOver = TRUE /\ pump = NoUrl
        /\ state = "disconnected" /\ dialled = NotDialled
        /\ health = [u \in Urls |-> Untried]
        /\ running = NoStart

Engaged == state \in {"connecting", "connected"}

-----------------------------------------------------------------------------
(* Health, and the choice of a node. *)

Recorded(h, outcome) ==
  CASE outcome = "succeeded" -> [failures |-> 0, refused |-> FALSE, known |-> TRUE]
    [] outcome = "unreachable" -> [failures |-> IF h.failures < MaxFailures THEN h.failures + 1 ELSE h.failures,
                                   refused |-> FALSE, known |-> TRUE]
    [] outcome = "refused" -> [failures |-> h.failures, refused |-> TRUE, known |-> TRUE]

Record(u, outcome) == health' = [health EXCEPT ![u] = Recorded(@, outcome)]

\* MEMORY_WINDOW_MILLIS have passed.
Fades(u) == /\ health[u].known
            /\ health' = [health EXCEPT ![u] = Untried]
            /\ UNCHANGED <<listVars, serviceVars, running>>

Usable(u) == ~health[u].refused
Rank(u) == IF ~health[u].known THEN 1 ELSE IF health[u].failures = 0 THEN 0 ELSE 2 + health[u].failures

\* ranked, and the first usable: among equals latency and place decide, which
\* are left out.
Best(us) == {u \in us : Usable(u) /\ \A v \in us : Usable(v) => Rank(u) <= Rank(v)}

\* NodeRepository.target: the choice, what ranks first, or any rather than none.
Target(c) == IF c \in Live THEN {c}
             ELSE IF Best(Live) # {} THEN Best(Live)
             ELSE IF Live # {} THEN Live ELSE Listed(entries)

\* MainActivity.resolveStart: with effectiveChoice().mayFailOver.
Starts(c) == {[url |-> u, may |-> c \notin Live] : u \in Target(c)}

-----------------------------------------------------------------------------
(* The main thread: commands, and the service's life. *)

Posts(c) == /\ life # "destroyed" /\ Len(queue) < MaxQueue
            /\ queue' = Append(queue, c) /\ life' = "alive"
            /\ UNCHANGED <<stopAsked, attempt, tried, mayFailOver, pump, state, dialled>>

\* MainActivity.toggleTunnel, for Home.
Connect == /\ ~Engaged
           /\ \E s \in Starts(choice) : Posts([op |-> "start", start |-> s]) /\ running' = s
           /\ UNCHANGED <<listVars, health>>

\* The tile, a shortcut, another app: MainActivity is not told.
ConnectElsewhere == /\ ~Engaged
                    /\ \E s \in Starts(choice) : Posts([op |-> "start", start |-> s])
                    /\ UNCHANGED <<listVars, health, running>>

\* MainActivity.choose, with a tunnel up.  The node it last started is left alone.
PickNode(c) == /\ Choose(c)
               /\ \/ /\ ~Engaged \/ Starts(c) = {} \/ running \in Starts(c)
                     /\ UNCHANGED <<serviceVars, running>>
                  \/ /\ Engaged
                     /\ \E s \in Starts(c) \ {running} : Posts([op |-> "start", start |-> s]) /\ running' = s
               /\ UNCHANGED health

\* A tap on disconnect, or another VPN that takes over.
Disconnect == /\ Engaged /\ life = "alive"
              /\ Posts([op |-> "stop"])
              /\ UNCHANGED <<listVars, health, running>>

\* No node to connect to.
NothingToStart == /\ ~Engaged /\ Starts(choice) = {} /\ state' = "failed"
                  /\ UNCHANGED <<listVars, life, stopAsked, queue, attempt, tried, mayFailOver, pump, dialled,
                                 health, running>>

\* onDestroy: stopSelf stops the service whatever else has been sent to it.  The
\* teardown goes behind what is queued, and nothing goes behind the teardown.
LastWordsNone == queue
LastWords == Append(queue, [op |-> "teardown"])

Destroyed == /\ life = "alive" /\ stopAsked
             /\ life' = "destroyed" /\ queue' = LastWords
             /\ UNCHANGED <<listVars, stopAsked, attempt, tried, mayFailOver, pump, state, dialled, health, running>>

\* The instance is over when its thread is: the next one has fields of its own.
Over == /\ life = "destroyed" /\ queue = <<>> /\ attempt = NoUrl
        /\ life' = "none" /\ stopAsked' = FALSE /\ tried' = {} /\ mayFailOver' = TRUE
        /\ UNCHANGED <<listVars, queue, attempt, pump, state, dialled, health, running>>

-----------------------------------------------------------------------------
(* The control thread. *)

Idle == attempt = NoUrl

\* teardown leaves a failure on the screen.
AfterTeardown == IF state = "failed" THEN "failed" ELSE "disconnected"

\* A second start takes the first one's tunnel down, before anything else.
TornDownNot == pump
TornDown == NoUrl

HandleStart == /\ Idle /\ queue # <<>> /\ Head(queue).op = "start"
               /\ queue' = Tail(queue)
               /\ tried' = {} /\ mayFailOver' = Head(queue).start.may
               /\ pump' = TornDown /\ state' = "connecting"
               /\ attempt' = Head(queue).start.url
               /\ dialled' = [first |-> attempt', all |-> {attempt'}, again |-> FALSE]
               /\ UNCHANGED <<listVars, life, stopAsked, health, running>>

HandleStop == /\ Idle /\ queue # <<>> /\ Head(queue).op \in {"stop", "teardown"}
              /\ queue' = Tail(queue)
              /\ pump' = NoUrl /\ state' = AfterTeardown
              /\ stopAsked' = (stopAsked \/ Head(queue).op = "stop") /\ dialled' = NotDialled
              /\ UNCHANGED <<listVars, life, attempt, tried, mayFailOver, health, running>>

GivesUp == /\ state' = "failed" /\ stopAsked' = TRUE /\ attempt' = NoUrl /\ dialled' = NotDialled
           /\ UNCHANGED <<life, queue, tried, mayFailOver, pump>>

\* Nothing of the Portal's: no routes, no application carried, no consent.
NotEstablished == /\ ~Idle /\ GivesUp
                  /\ UNCHANGED <<listVars, health, running>>

ComesUp == /\ ~Idle /\ Record(attempt, "succeeded")
           /\ pump' = attempt /\ state' = "connected" /\ attempt' = NoUrl
           /\ UNCHANGED <<listVars, life, stopAsked, queue, tried, mayFailOver, dialled, running>>

IsRefused == /\ ~Idle /\ Record(attempt, "refused") /\ GivesUp
             /\ UNCHANGED <<listVars, running>>

\* tried + url
AttemptedForgetful == {attempt}
Attempted == tried \cup {attempt}

MayMoveAlways == TRUE
MayMove == mayFailOver

\* The nodes are read when the attempt has failed.
Candidates(h) == {u \in Live \ Attempted : ~h[u].refused}
NextNodes(h) == {u \in Candidates(h) : \A v \in Candidates(h) : Rank(u) <= Rank(v)}

IsUnreachable == /\ ~Idle /\ Record(attempt, "unreachable")
                 /\ IF MayMove /\ NextNodes(health) # {}
                    THEN /\ attempt' \in NextNodes(health)
                         /\ tried' = Attempted /\ pump' = NoUrl /\ state' = "connecting"
                         /\ dialled' = [first |-> dialled.first, all |-> dialled.all \cup {attempt'},
                                        again |-> dialled.again \/ attempt' \in dialled.all]
                         /\ UNCHANGED <<life, stopAsked, queue, mayFailOver>>
                    ELSE GivesUp
                 /\ UNCHANGED <<listVars, running>>

Control == \/ HandleStart \/ HandleStop
           \/ NotEstablished \/ ComesUp \/ IsRefused \/ IsUnreachable

-----------------------------------------------------------------------------
\* The process dies and starts again; a sticky service comes back with nothing to do.
Dies == /\ Reload
        /\ life' = "none" /\ stopAsked' = FALSE /\ queue' = <<>>
        /\ attempt' = NoUrl /\ tried' = {} /\ mayFailOver' = TRUE /\ pump' = NoUrl
        /\ state' = "disconnected" /\ dialled' = NotDialled
        /\ health' = [u \in Urls |-> Untried]
        /\ running' = NoStart

Lists == /\ UserEdits \/ Refreshes
         /\ UNCHANGED <<serviceVars, health, running>>

Next == \/ Lists \/ Dies
        \/ \E u \in Urls : Fades(u)
        \/ Connect \/ ConnectElsewhere \/ Disconnect \/ NothingToStart
        \/ \E c \in Urls \cup {Automatic} : PickNode(c)
        \/ Destroyed \/ Over
        \/ Control

Spec == Init /\ [][Next]_vars

\* The control thread runs what is queued, every dial has a deadline, and the
\* system destroys a service that has stopped itself.
FairSpec == /\ Spec
            /\ WF_vars(Control) /\ WF_vars(Destroyed) /\ WF_vars(Over)

-----------------------------------------------------------------------------
TypeOK == /\ ListType
          /\ life \in {"none", "alive", "destroyed"} /\ stopAsked \in BOOLEAN
          /\ queue \in Seq(Command)
          /\ attempt \in Urls \cup {NoUrl} /\ tried \subseteq Urls /\ mayFailOver \in BOOLEAN
          /\ pump \in Urls \cup {NoUrl}
          /\ state \in {"disconnected", "connecting", "connected", "failed"}
          /\ health \in [Urls -> Health]
          /\ running \in Start \cup {NoStart}
          /\ dialled \in Dialled

\* Failover, "A node is tried once per attempt": "without that, two nodes that
\* each fail over to the other spin".
OncePerAttempt == ~dialled.again

\* unreachable, "The user picked this node": unless the start may fail over, no
\* node is dialled and no tunnel goes anywhere but to the node that was started,
\* however the lists, the choice and the health change meanwhile.
StaysPicked == ~mayFailOver => {attempt, pump} \subseteq {dialled.first, NoUrl}

\* TunnelController: what is reported is what there is.
ReportHonest == /\ state = "connected" <=> pump # NoUrl
                /\ state = "connecting" <=> attempt # NoUrl

\* onDestroy, "the teardown sees the tunnel that start built": a service that is
\* over leaves no tunnel and no attempt, though a start was queued behind the stop.
OverIsDown == life = "none" => pump = NoUrl /\ ~Engaged /\ queue = <<>>

\* Every attempt ends, though each failure moves it to another node and feeds
\* add nodes meanwhile.
AttemptsEnd == (attempt # NoUrl) ~> (attempt = NoUrl)
=============================================================================
