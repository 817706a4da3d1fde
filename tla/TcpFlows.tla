------------------------------ MODULE TcpFlows ------------------------------
(***************************************************************************)
(* The TCP connections of vpn/NowhereFlowHandler.kt over the lwIP thread   *)
(* of vpn/TunPump.kt.                                                      *)
(*                                                                         *)
(* Four kinds of thread meet on one Connection: the lwIP thread (device    *)
(* packets and queued stack tasks, one at a time), the coroutine serving   *)
(* it, the user's thread closing it from the connections list, and the     *)
(* control thread tearing the tunnel down.  Everything they do to shared   *)
(* state between two points where another can get in is one action; end()  *)
(* is one action per statement, whoever calls it.                          *)
(***************************************************************************)
EXTENDS Naturals, Sequences, FiniteSets

CONSTANTS Conns,   \* connections the device opens, each at most once
          OtherHolds,  \* holds that other flows keep on the same synthetic address
          MaxUses  \* bound: stack tasks of one connection queued at a time

ASSUME ConnsAssumption == IsFiniteSet(Conns)
ASSUME HoldsAssumption == OtherHolds \in Nat
ASSUME UsesAssumption == MaxUses \in Nat

VARIABLES
  conn,     \* the Connection objects, with what lwIP, the tracker and the dial hold for each
  queue,    \* TunPump.lwip: tasks waiting for the lwIP thread
  phase,    \* how far SomewhereVpnService.teardown has come
  visited,  \* the connections handler.shutdown has been over
  holders,  \* holders the fake-IP pool counts for the address these connections hold
  alive     \* FALSE once an uncaught exception has killed the process

vars == <<conn, queue, phase, visited, holders, alive>>

\* Where serve stands.
ServeAt == {"none", "launched", "listed", "tracked", "dialing", "dialed", "admitted",
            "assigned", "credited", "pumping", "dns", "aborting", "finishing", "escaped", "over"}
\* What is left of end(): "no" before the winning call, "done" after it.
EndAt == {"no", "untrack", "unregister", "release", "closeFlow", "check", "post", "done"}
PhaseNames == {"running", "stopping", "flushing", "closed", "cancelled", "cleared"}

Connection ==
  [pcb : {"none", "live", "freed", "handedBack"},
   misused : {"no", "afterDevice", "afterUs"},  \* history: a task touched a dead pcb
   registered : BOOLEAN,   \* in connections
   gone : BOOLEAN, ended : BOOLEAN,
   hold : {"none", "held", "released"},  \* heldAddress and released
   outbound : BOOLEAN,     \* the outbound channel is open
   serve : ServeAt, cancelled : BOOLEAN, direct : BOOLEAN,
   live : BOOLEAN,         \* in ConnectionTracker.open
   tracked : BOOLEAN,      \* Connection.tracked is set
   flow : {"none", "open", "closed"},
   assigned : BOOLEAN,     \* Connection.flow is set
   closer : BOOLEAN,       \* a coroutine launched to close the flow has not run
   up : BOOLEAN, down : BOOLEAN,  \* the pumps are running
   posting : SUBSET {"serve", "up", "down"},  \* coroutines that read running and go on to execute
   calling : SUBSET {"lwip", "user"},  \* threads about to call end()
   ending : EndAt, by : {"nobody", "lwip", "user", "serve"}, reset : BOOLEAN]

Fresh == [pcb |-> "none", misused |-> "no", registered |-> FALSE, gone |-> FALSE,
          ended |-> FALSE, hold |-> "none", outbound |-> TRUE,
          serve |-> "none", cancelled |-> FALSE, direct |-> FALSE, live |-> FALSE,
          tracked |-> FALSE, flow |-> "none", assigned |-> FALSE, closer |-> FALSE,
          up |-> FALSE, down |-> FALSE, posting |-> {}, calling |-> {}, ending |-> "no",
          by |-> "nobody", reset |-> FALSE]

Init == /\ conn = [c \in Conns |-> Fresh]
        /\ queue = <<>>
        /\ phase = "running"
        /\ visited = {}
        /\ holders = OtherHolds
        /\ alive = TRUE

-----------------------------------------------------------------------------
(* The stack's executor. *)

Running == phase = "running"

\* A task is taken until lwip.shutdown.  From then on execute throws: the
\* executor newSingleThreadScheduledExecutor returns is a wrapper and no
\* ThreadPoolExecutor, so the cast before it is given a DiscardPolicy yields null.
Accepting == phase \in {"running", "stopping", "flushing"}
ScopeActive == phase \notin {"cancelled", "cleared"}
Shutdown == [task |-> "shutdown", of |-> {}]
StackUp == phase \in {"running", "stopping"} \/ \E i \in DOMAIN queue : i > 1 /\ queue[i] = Shutdown

\* The lwIP thread is not inside onTcpClosed for any connection.
LwipFree == \A c \in Conns : /\ "lwip" \notin conn[c].calling
                             /\ conn[c].by = "lwip" => conn[c].ending = "done"

Queued(c, kinds) == {i \in DOMAIN queue : queue[i].of = {c} /\ queue[i].task \in kinds}
Enqueue(c, task) == queue' = Append(queue, [task |-> task, of |-> {c}])

\* lwIP frees a pcb and calls onTcpClosed, which only finds a connection that
\* is still registered.
Closed(c) ==
  conn' = [conn EXCEPT ![c].pcb = "freed",
                       ![c].gone = @ \/ conn[c].registered,
                       ![c].cancelled = @ \/ conn[c].registered,
                       ![c].calling = IF conn[c].registered THEN @ \cup {"lwip"} ELSE @]

\* A connection whose gone flag is set is left alone; any other pcb is used.
Uses(c) == [conn[c] EXCEPT !.misused = IF ~conn[c].gone /\ conn[c].pcb # "live"
                                       THEN IF conn[c].pcb = "freed" THEN "afterDevice" ELSE "afterUs"
                                       ELSE @]

\* The block end() queues: gone is set in the step that gives the pcb up.
HandsBackForgetfully(c) ==
  IF conn[c].gone THEN conn[c]
  ELSE [Uses(c) EXCEPT !.pcb = IF @ = "live" THEN "handedBack" ELSE @]
HandsBack(c) ==
  IF conn[c].gone THEN conn[c]
  ELSE [Uses(c) EXCEPT !.gone = TRUE,
                       !.pcb = IF @ = "live" THEN "handedBack" ELSE @]

RunTask == /\ LwipFree
           /\ queue # <<>>
           /\ \E c \in Conns :
                /\ Head(queue).of = {c}
                /\ \/ /\ Head(queue).task = "use"
                      /\ conn' = [conn EXCEPT ![c] = Uses(c)]
                   \/ /\ Head(queue).task \in {"abort", "close"}
                      /\ conn' = [conn EXCEPT ![c] = HandsBack(c)]
           /\ queue' = Tail(queue)
           /\ UNCHANGED <<phase, visited, holders, alive>>

\* nativeShutdown aborts every pcb lwIP still has, calling back for each.
ShutdownAborts(c) == /\ LwipFree
                     /\ queue # <<>> /\ Head(queue) = Shutdown
                     /\ conn[c].pcb = "live"
                     /\ Closed(c)
                     /\ UNCHANGED <<queue, phase, visited, holders, alive>>

ShutdownRuns == /\ LwipFree
                /\ queue # <<>> /\ Head(queue) = Shutdown
                /\ \A c \in Conns : conn[c].pcb # "live"
                /\ queue' = Tail(queue)
                /\ UNCHANGED <<conn, phase, visited, holders, alive>>

-----------------------------------------------------------------------------
(* The device. *)

\* onTcpOpen, for a destination that encodes; it may hold a synthetic address.
DeviceOpens(c, holding) ==
  /\ LwipFree /\ StackUp
  /\ conn[c].pcb = "none"
  /\ conn' = [conn EXCEPT ![c].pcb = "live", ![c].registered = TRUE,
                          ![c].hold = IF holding THEN "held" ELSE "none",
                          ![c].serve = "launched"]
  /\ holders' = IF holding THEN holders + 1 ELSE holders
  /\ UNCHANGED <<queue, phase, visited, alive>>

\* onTcpPayload with no data.
DeviceHalfCloses(c) == /\ LwipFree /\ StackUp
                       /\ conn[c].registered /\ conn[c].pcb = "live" /\ conn[c].outbound
                       /\ conn' = [conn EXCEPT ![c].outbound = FALSE]
                       /\ UNCHANGED <<queue, phase, visited, holders, alive>>

DeviceResets(c) == /\ LwipFree /\ StackUp
                   /\ conn[c].pcb = "live"
                   /\ Closed(c)
                   /\ UNCHANGED <<queue, phase, visited, holders, alive>>

\* close, from the connections list, as far as its call of end().
UserCloses(c) == /\ conn[c].live
                 /\ conn' = [conn EXCEPT ![c].cancelled = TRUE,
                                         ![c].calling = @ \cup {"user"}]
                 /\ UNCHANGED <<queue, phase, visited, holders, alive>>

-----------------------------------------------------------------------------
(* end(): the call that wins runs every step; any other returns at once. *)

\* A caller other than serve arrives at the compareAndSet; r says what the
\* winner will hand the pcb back with.
Winning(c, who) == [conn[c] EXCEPT !.ended = TRUE, !.ending = "untrack",
                                   !.by = who, !.reset = (who = "user")]
EndsTwice(c, who) == Winning(c, who)
Ends(c, who) == IF conn[c].ended THEN conn[c] ELSE Winning(c, who)

CallEnds(c, who) == /\ who \in conn[c].calling
                    /\ conn' = [conn EXCEPT ![c] = [Ends(c, who) EXCEPT !.calling = @ \ {who}]]
                    /\ UNCHANGED <<queue, phase, visited, holders, alive>>

\* abort or finish, the last thing serve does.
ServeEnds(c) ==
  /\ conn[c].serve \in {"aborting", "finishing"}
  /\ conn' = IF conn[c].ended
             THEN [conn EXCEPT ![c].serve = "over"]
             ELSE [conn EXCEPT ![c] = [Winning(c, "serve") EXCEPT !.serve = "over",
                                                                  !.reset = (conn[c].serve = "aborting")]]
  /\ UNCHANGED <<queue, phase, visited, holders, alive>>

EndUntracks(c) == /\ conn[c].ending = "untrack"
                  /\ conn' = [conn EXCEPT ![c].ending = "unregister",
                                          ![c].live = @ /\ ~conn[c].tracked]
                  /\ UNCHANGED <<queue, phase, visited, holders, alive>>

EndUnregisters(c) == /\ conn[c].ending = "unregister"
                     /\ conn' = [conn EXCEPT ![c].ending = "release",
                                             ![c].registered = FALSE]
                     /\ UNCHANGED <<queue, phase, visited, holders, alive>>

\* releaseFakeIp: the pool forgets one holder, unless it was cleared meanwhile.
OneLess == IF holders > 0 THEN holders - 1 ELSE 0
ReleasedAgain(c) == IF conn[c].hold # "none" THEN OneLess ELSE holders
Released(c) == IF conn[c].hold = "held" THEN OneLess ELSE holders
LetGo(hold) == IF hold = "held" THEN "released" ELSE hold

EndReleases(c) == /\ conn[c].ending = "release"
                  /\ holders' = Released(c)
                  /\ conn' = [conn EXCEPT ![c].ending = "closeFlow",
                                          ![c].hold = LetGo(@)]
                  /\ UNCHANGED <<queue, phase, visited, alive>>

\* Closes the outbound channel, and launches the close of a flow it can see.
EndKeepsFlow(c) == /\ conn[c].ending = "closeFlow"
                   /\ conn' = [conn EXCEPT ![c].ending = "check", ![c].outbound = FALSE]
                   /\ UNCHANGED <<queue, phase, visited, holders, alive>>
EndClosesFlow(c) == /\ conn[c].ending = "closeFlow"
                    /\ conn' = [conn EXCEPT ![c].ending = "check", ![c].outbound = FALSE,
                                            ![c].closer = conn[c].assigned /\ ScopeActive]
                    /\ UNCHANGED <<queue, phase, visited, holders, alive>>

\* writeToDevice: reads running, then hands the task to the executor.
EndChecks(c) == /\ conn[c].ending = "check"
                /\ conn' = [conn EXCEPT ![c].ending = IF Running THEN "post" ELSE "done"]
                /\ UNCHANGED <<queue, phase, visited, holders, alive>>

\* A refusal leaves end() as an exception.  Neither the main thread nor serve's
\* scope has a handler for it and the process ends; on the lwIP thread it stays
\* pending in native code, where what follows is undefined, or ends the task.
EndDropsPost(c) == /\ conn[c].ending = "post"
                   /\ conn' = [conn EXCEPT ![c].ending = "done"]
                   /\ UNCHANGED <<queue, phase, visited, holders, alive>>
EndPosts(c) ==
  /\ conn[c].ending = "post"
  /\ conn' = [conn EXCEPT ![c].ending = "done"]
  /\ \/ /\ Accepting
        /\ Enqueue(c, IF conn[c].reset THEN "abort" ELSE "close")
        /\ UNCHANGED alive
     \/ /\ ~Accepting
        /\ alive' \in IF conn[c].by = "lwip" THEN BOOLEAN ELSE {FALSE}
        /\ UNCHANGED queue
  /\ UNCHANGED <<phase, visited, holders>>

CloserRuns(c) == /\ conn[c].closer
                 /\ conn' = [conn EXCEPT ![c].closer = FALSE, ![c].flow = "closed"]
                 /\ UNCHANGED <<queue, phase, visited, holders, alive>>

-----------------------------------------------------------------------------
(* serve. *)

\* A coroutine cancelled before it is dispatched never starts.  Otherwise serve
\* runs to its first branch: a lookup over TCP, a refusal, or a live entry.
ServeStarts(c) ==
  /\ conn[c].serve = "launched"
  /\ \/ /\ conn[c].cancelled
        /\ conn' = [conn EXCEPT ![c].serve = "over"]
     \/ /\ ~conn[c].cancelled
        /\ \/ conn' = [conn EXCEPT ![c].serve = "dns"]
           \/ conn' = [conn EXCEPT ![c].serve = "aborting"]
           \/ \E direct \in BOOLEAN :
                conn' = [conn EXCEPT ![c].serve = "listed", ![c].live = TRUE,
                                     ![c].direct = direct]
  /\ UNCHANGED <<queue, phase, visited, holders, alive>>

ServeTracks(c) == /\ conn[c].serve = "listed"
                  /\ conn' = [conn EXCEPT ![c].serve = "tracked", ![c].tracked = TRUE]
                  /\ UNCHANGED <<queue, phase, visited, holders, alive>>

\* An end() that ran before tracked was set found nothing to finish.
ServeSkipsCheck(c) == /\ conn[c].serve = "tracked"
                      /\ conn' = [conn EXCEPT ![c].serve = IF conn[c].ended THEN "over" ELSE "dialing"]
                      /\ UNCHANGED <<queue, phase, visited, holders, alive>>
ServeChecksEnded(c) ==
  /\ conn[c].serve = "tracked"
  /\ conn' = IF conn[c].ended
             THEN [conn EXCEPT ![c].serve = "over", ![c].live = FALSE]
             ELSE [conn EXCEPT ![c].serve = "dialing"]
  /\ UNCHANGED <<queue, phase, visited, holders, alive>>

\* The dial is not cancellable: it opens a flow, or is refused or fails, which
\* aborts.  A session that has been closed opens no more flows.
DialAnswers(c) ==
  /\ conn[c].serve = "dialing"
  /\ \/ /\ conn[c].direct \/ phase # "cleared"
        /\ conn' = [conn EXCEPT ![c].serve = "dialed", ![c].flow = "open"]
     \/ conn' = [conn EXCEPT ![c].serve = "aborting"]
  /\ UNCHANGED <<queue, phase, visited, holders, alive>>

ServeAdmits(c) ==
  /\ conn[c].serve = "dialed"
  /\ conn' = IF conn[c].ended
             THEN [conn EXCEPT ![c].serve = "over", ![c].flow = "closed"]
             ELSE [conn EXCEPT ![c].serve = "admitted"]
  /\ UNCHANGED <<queue, phase, visited, holders, alive>>

ServeAssigns(c) == /\ conn[c].serve = "admitted"
                   /\ conn' = [conn EXCEPT ![c].serve = "assigned", ![c].assigned = TRUE]
                   /\ UNCHANGED <<queue, phase, visited, holders, alive>>

\* The first bytes of a direct flow are written outside any try: an exception
\* there leaves serve, and no handler stands between it and the process.
FirstWriteFails(c) == /\ conn[c].serve = "assigned" /\ conn[c].direct
                      /\ "serve" \notin conn[c].posting
                      /\ conn' = [conn EXCEPT ![c].serve = "escaped"]
                      /\ alive' = FALSE
                      /\ UNCHANGED <<queue, phase, visited, holders>>

\* A cancelled scope starts neither pump.
PumpsStart(c) ==
  /\ conn[c].serve \in {"assigned", "credited"} /\ "serve" \notin conn[c].posting
  /\ conn' = IF conn[c].cancelled
             THEN [conn EXCEPT ![c].serve = "over"]
             ELSE [conn EXCEPT ![c].serve = "pumping", ![c].up = TRUE, ![c].down = TRUE]
  /\ UNCHANGED <<queue, phase, visited, holders, alive>>

\* credit, or one step of deliver: a stack task that touches the pcb.  serve
\* credits the first bytes once; its DNS loop and the pumps go on doing so.
AtWork(c) == {who \in {"serve", "up", "down"} :
                \/ who = "serve" /\ conn[c].serve \in {"assigned", "dns"}
                \/ who = "up" /\ conn[c].serve = "pumping" /\ conn[c].up
                \/ who = "down" /\ conn[c].serve = "pumping" /\ conn[c].down}

\* writeToDevice and onStackThread read running ...
UseChecks(c, who) ==
  /\ who \in AtWork(c) \ conn[c].posting
  /\ Running
  /\ Cardinality(Queued(c, {"use"})) + Cardinality(conn[c].posting) < MaxUses
  /\ conn' = [conn EXCEPT ![c].posting = @ \cup {who}]
  /\ UNCHANGED <<queue, phase, visited, holders, alive>>

\* ... and hand the task over.  A pump and the DNS loop catch a refusal and
\* stop; the credit for the first bytes is outside any try.
UsePosts(c, who) ==
  /\ who \in AtWork(c) \cap conn[c].posting
  /\ \/ /\ Accepting
        /\ Enqueue(c, "use")
        /\ conn' = [conn EXCEPT ![c].posting = @ \ {who},
                                ![c].serve = IF who = "serve" /\ @ = "assigned" THEN "credited" ELSE @]
        /\ UNCHANGED alive
     \/ /\ ~Accepting /\ who \in {"up", "down"}
        /\ conn' = [conn EXCEPT ![c].posting = @ \ {who},
                                ![c].up = @ /\ who # "up", ![c].down = @ /\ who # "down"]
        /\ UNCHANGED <<queue, alive>>
     \/ /\ ~Accepting /\ who = "serve"
        /\ conn' = [conn EXCEPT ![c].posting = @ \ {who},
                                ![c].serve = IF @ = "dns" THEN "finishing" ELSE "escaped"]
        /\ alive' = (conn[c].serve = "dns")
        /\ UNCHANGED queue
  /\ UNCHANGED <<phase, visited, holders>>

\* The upstream pump drains a closed channel and stops; any failure stops it too.
UpstreamEnds(c) == /\ conn[c].up /\ "up" \notin conn[c].posting
                   /\ conn' = [conn EXCEPT ![c].up = FALSE]
                   /\ UNCHANGED <<queue, phase, visited, holders, alive>>

DownstreamEnds(c) == /\ conn[c].down /\ "down" \notin conn[c].posting
                     /\ conn' = [conn EXCEPT ![c].down = FALSE]
                     /\ UNCHANGED <<queue, phase, visited, holders, alive>>

\* Both pumps over: serve finishes the connection unless it was cancelled.
PumpsJoin(c) ==
  /\ conn[c].serve = "pumping" /\ ~conn[c].up /\ ~conn[c].down
  /\ conn' = [conn EXCEPT ![c].serve = IF conn[c].cancelled THEN "over" ELSE "finishing"]
  /\ UNCHANGED <<queue, phase, visited, holders, alive>>

\* Idle, half-closed or cancelled: every way out of the DNS loop is caught.
DnsEnds(c) == /\ conn[c].serve = "dns" /\ "serve" \notin conn[c].posting
              /\ conn' = [conn EXCEPT ![c].serve = "finishing"]
              /\ UNCHANGED <<queue, phase, visited, holders, alive>>

-----------------------------------------------------------------------------
(* Teardown: pump.stop, handler.shutdown, then session and pool. *)

PumpStops == /\ phase = "running"
             /\ phase' = "stopping"
             /\ UNCHANGED <<conn, queue, visited, holders, alive>>

PumpQueuesShutdown == /\ phase = "stopping"
                      /\ phase' = "flushing"
                      /\ queue' = Append(queue, Shutdown)
                      /\ UNCHANGED <<conn, visited, holders, alive>>

PumpCloses == /\ phase = "flushing"
              /\ phase' = "closed"
              /\ UNCHANGED <<conn, queue, visited, holders, alive>>

\* The reader, with a packet read before the descriptor was closed under it,
\* hands it to an executor that takes no more.
ReaderRefused == /\ ~Accepting
                 /\ alive' = FALSE
                 /\ UNCHANGED <<conn, queue, phase, visited, holders>>

\* awaitTermination has returned, and shutdown goes over what is registered.
PumpStopped == phase = "closed" /\ queue = <<>> /\ LwipFree

HandlerVisits(c) == /\ PumpStopped
                    /\ conn[c].registered /\ c \notin visited
                    /\ visited' = visited \cup {c}
                    /\ holders' = Released(c)
                    /\ conn' = [conn EXCEPT ![c].live = @ /\ ~conn[c].tracked,
                                            ![c].hold = LetGo(@),
                                            ![c].flow = IF conn[c].assigned THEN "closed" ELSE @]
                    /\ UNCHANGED <<queue, phase, alive>>

\* connections.clear and scope.cancel: coroutines not yet started never run.
HandlerCancels ==
  /\ PumpStopped
  /\ \A c \in Conns : conn[c].registered => c \in visited
  /\ phase' = "cancelled"
  /\ conn' = [c \in Conns |-> [conn[c] EXCEPT !.registered = FALSE, !.cancelled = TRUE,
                                              !.closer = FALSE]]
  /\ UNCHANGED <<queue, visited, holders, alive>>

\* session.close, fakeIp.clear and the report that clears the tracker.
TunnelClears ==
  /\ phase = "cancelled"
  /\ phase' = "cleared"
  /\ holders' = 0
  /\ conn' = [c \in Conns |-> [conn[c] EXCEPT !.live = FALSE,
                                              !.flow = IF @ = "open" /\ ~conn[c].direct
                                                       THEN "closed" ELSE @]]
  /\ UNCHANGED <<queue, visited, alive>>

-----------------------------------------------------------------------------

EndSteps(c) == \/ EndUntracks(c) \/ EndUnregisters(c) \/ EndReleases(c)
               \/ EndClosesFlow(c) \/ EndChecks(c) \/ EndPosts(c)
ServeSteps(c) == \/ ServeStarts(c) \/ ServeTracks(c) \/ ServeChecksEnded(c)
                 \/ DialAnswers(c) \/ ServeAdmits(c) \/ ServeAssigns(c)
                 \/ PumpsStart(c) \/ PumpsJoin(c) \/ ServeEnds(c)
Device(c) == \/ \E holding \in BOOLEAN : DeviceOpens(c, holding)
             \/ DeviceHalfCloses(c) \/ DeviceResets(c)
Teardown == \/ PumpStops \/ PumpQueuesShutdown \/ PumpCloses
            \/ \E c \in Conns : HandlerVisits(c)
            \/ HandlerCancels \/ TunnelClears

Next == /\ alive
        /\ \/ RunTask \/ ShutdownRuns \/ Teardown \/ ReaderRefused
           \/ \E c \in Conns :
                \/ Device(c) \/ UserCloses(c) \/ ShutdownAborts(c)
                \/ \E who \in {"lwip", "user"} : CallEnds(c, who)
                \/ EndSteps(c) \/ CloserRuns(c)
                \/ ServeSteps(c) \/ FirstWriteFails(c)
                \/ \E who \in {"serve", "up", "down"} : UseChecks(c, who) \/ UsePosts(c, who)
                \/ UpstreamEnds(c) \/ DownstreamEnds(c) \/ DnsEnds(c)

\* Threads that are runnable run.  A pump is only sure to end when what blocks
\* it is gone: a closed flow fails its next read or write, and a closed channel
\* runs out, so whatever it posts before, it comes to that (hence SF).  The
\* device, the user, the far end and the decision to tear down owe nothing.
Fairness == /\ WF_vars(alive /\ (RunTask \/ ShutdownRuns \/ \E c \in Conns : ShutdownAborts(c)))
            /\ WF_vars(alive /\ ~Running /\ Teardown)
            /\ \A c \in Conns :
                 /\ WF_vars(alive /\ EndSteps(c))
                 /\ WF_vars(alive /\ CloserRuns(c))
                 /\ WF_vars(alive /\ ServeSteps(c))
                 /\ WF_vars(alive /\ CallEnds(c, "lwip"))
                 /\ WF_vars(alive /\ CallEnds(c, "user"))
                 /\ WF_vars(alive /\ \E who \in {"serve", "up", "down"} : UsePosts(c, who))
                 /\ SF_vars(alive /\ conn[c].flow = "closed" /\ UpstreamEnds(c))
                 /\ SF_vars(alive /\ conn[c].flow = "closed" /\ DownstreamEnds(c))
                 /\ SF_vars(alive /\ ~conn[c].outbound /\ DnsEnds(c))

Spec == Init /\ [][Next]_vars
FairSpec == Spec /\ Fairness

-----------------------------------------------------------------------------
(* Properties. *)

Task == [task : {"use", "abort", "close"}, of : {{c} : c \in Conns}] \cup {Shutdown}

TypeOK == /\ conn \in [Conns -> Connection]
          /\ queue \in Seq(Task)
          /\ phase \in PhaseNames
          /\ visited \in SUBSET Conns
          /\ holders \in Nat
          /\ alive \in BOOLEAN

Held == {c \in Conns : conn[c].hold = "held"}

\* releaseFakeIp: "exactly once, from whichever of the three teardown paths gets
\* there first".  While the pool stands, it counts one holder for each
\* connection that holds an address and has not released it; and once the
\* handler is shut, only an end() that is at its release still holds one.
HoldsCounted ==
  /\ phase # "cleared" => holders = OtherHolds + Cardinality(Held)
  /\ phase \in {"cancelled", "cleared"} => \A c \in Held : conn[c].ending = "release"

\* The handshake of serve ("written then read here, and set then read in end"):
\* once the teardown has looked at tracked and serve has looked at ended, an
\* ended connection is no longer in the live list.
NoGhostEntry ==
  \A c \in Conns : /\ conn[c].ended /\ conn[c].ending # "untrack"
                   /\ conn[c].serve \notin {"listed", "tracked"}
                   => ~conn[c].live

\* end: "a close racing a finish cannot hand lwIP the same pcb twice", nor can
\* each leave it to the other.  Of an end() under way, a task that is queued and
\* a pcb handed back there is at most one; and while an ended connection still
\* has its pcb there is one, or the stack's shutdown is still to come.
Owed(c) == Cardinality(Queued(c, {"abort", "close"}))
             + (IF conn[c].ending \in EndAt \ {"no", "done"} THEN 1 ELSE 0)
ShutdownToCome == phase = "stopping" \/ \E i \in DOMAIN queue : queue[i] = Shutdown
HandedBackOnce ==
  \A c \in Conns : /\ Owed(c) + (IF conn[c].pcb = "handedBack" THEN 1 ELSE 0) <= 1
                   /\ conn[c].ended /\ conn[c].pcb = "live" => Owed(c) = 1 \/ ShutdownToCome

\* No write, credit or close reaches a pcb after this side has given it up:
\* gone, set in the same stack step, is seen by every later one.
NoUseAfterHandBack == \A c \in Conns : conn[c].misused # "afterUs"

\* What end cannot see is closed by serve, and what serve can no longer close
\* is closed by end, so a connection that has ended stops being served, while
\* the tunnel and the process live.
EndedIsQuiet ==
  \A c \in Conns : conn[c].ended ~> \/ conn[c].serve = "over" /\ ~conn[c].live /\ ~conn[c].registered
                                    \/ ~Running \/ ~alive

\* No pcb outlives its connection: ended, it is handed back, or freed by the
\* device, or by the stack's shutdown when end() comes too late to hand it
\* back; unless the process ends first, as it does when a task is refused.
EndedGivesPcbBack ==
  \A c \in Conns : conn[c].ended ~> conn[c].pcb # "live" \/ ~alive

\* What the code's comments say and it does not do (see README, Findings).

\* end: "The pcb is touched only on the stack thread and only if the device has
\* not already freed it."
NoUseAfterDeviceFrees == \A c \in Conns : conn[c].misused # "afterDevice"

\* serve: the dial "finishes, and a connection ended meanwhile closes what it
\* got below".
DialedFlowIsClosed ==
  \A c \in Conns : /\ conn[c].serve = "over" /\ conn[c].ending = "done"
                   /\ ~conn[c].closer /\ Running
                   => conn[c].flow # "open"
=============================================================================
