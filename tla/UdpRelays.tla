------------------------------ MODULE UdpRelays ------------------------------
(***************************************************************************)
(* vpn/UdpRelay.kt over protocol/session/NowhereSession.kt, QuicCarrier.kt *)
(* and DedicatedTlsLane.kt, over ReconnectingQuic and teardown in          *)
(* vpn/SomewhereVpnService.kt: relays opened, pumped, reaped and closed on *)
(* a session that closes and a QUIC connection that dies and is rebuilt.   *)
(*                                                                         *)
(* A relay is opened by the lwIP thread, served by a coroutine, and closed *)
(* by whoever comes first: the user, the reaper, serve itself, shutdown.   *)
(* A stream is its number; a flow id is what the number derives.  What the *)
(* TLS lane carries is bytes, modelled elsewhere; here it is a socket.     *)
(* The live count, which only the screen reads, is left out.               *)
(***************************************************************************)
EXTENDS DatagramLane

CONSTANTS Relays,
          MaxFlows,       \* MAX_FLOWS
          MaxGenerations, \* bound: connections opened
          Origin,         \* the relay whose far end has this packet to send
          IdOf,           \* the id it gives the packet, if it splits it
          NoRelay

ASSUME RelaysAssumption == IsFiniteSet(Relays) /\ NoRelay \notin Relays
ASSUME GenerationsAssumption == MaxGenerations \in Nat \ {0}
ASSUME OriginAssumption == Origin \in [Packets -> Relays]
ASSUME IdOfAssumption == /\ IdOf \in [Packets -> PacketIds]
                         /\ \A p, q \in Packets : Origin[p] = Origin[q] /\ IdOf[p] = IdOf[q] => p = q
ASSUME IdsAssumption == IsFiniteSet(FlowIds) /\ FlowIds = 1 .. Cardinality(FlowIds)

VARIABLES
  carrier, \* what the session runs over, fixed when it is built
  stage,   \* how far teardown is
  conn,    \* ReconnectingQuic.connection
  route,   \* external: the relay behind each flow id, as the far end has it
  relay,   \* UdpRelay.Relay, with where its coroutine and its closers stand
  sockets, \* live TLS connections, one per relay
  lanes,   \* NowhereSession.lanes
  sent,    \* history: packets the far ends sent
  got      \* history: what each relay handed to the device

sessionVars == <<carrier, stage, conn, route>>
tlsVars == <<sockets, lanes>>
history == <<sent, got>>
vars == <<laneVars, sessionVars, relay, tlsVars, history>>

ServeAt == {"new", "dialling", "asking", "opening", "answered", "assigned", "open", "ended", "lost"}
Closer == {"user", "reaper", "serve", "shutdown"}
Call == Closer \cup {"asked"}
StreamNumber == 0 .. Cardinality(FlowIds)
Relay == [at : ServeAt,
          id : FlowIds \cup {0}, gen : 0 .. MaxGenerations, \* of the stream it opened
          flow : BOOLEAN,      \* Relay.flow is set
          listed : BOOLEAN,    \* it is in UdpRelay.relays
          chan : BOOLEAN,      \* Relay.outbound is open
          releases : 0 .. 2,   \* how often it gave its synthetic address back
          up : BOOLEAN, down : BOOLEAN, \* its pumps run
          reaper : BOOLEAN,    \* its reaper waits for it to fall idle
          closers : SUBSET Call]        \* calls that have yet to close the flow

Fresh == [at |-> "new", id |-> 0, gen |-> 0, flow |-> FALSE, listed |-> FALSE, chan |-> FALSE,
          releases |-> 0, up |-> FALSE, down |-> FALSE, reaper |-> FALSE, closers |-> {}]

Connection == [gen : 1 .. MaxGenerations, alive : BOOLEAN, next : StreamNumber, authed : BOOLEAN]

Init == /\ LaneInit
        /\ carrier \in {"quic", "tls"} /\ stage = "up"
        /\ conn = [gen |-> 1, alive |-> TRUE, next |-> 0, authed |-> FALSE]
        /\ route = [f \in FlowIds |-> NoRelay]
        /\ relay = [r \in Relays |-> Fresh]
        /\ sockets = {} /\ lanes = {}
        /\ sent = {} /\ got = [r \in Relays |-> {}]

SessionClosed == stage = "down"
Listed == {r \in Relays : relay[r].listed}

Moves(r, rec) == relay' = [relay EXCEPT ![r] = rec]

-----------------------------------------------------------------------------
(* The device's side: one thread offers. *)

Offer(r) == /\ stage = "up" /\ relay[r].at = "new"
            /\ Cardinality(Listed) < MaxFlows
            /\ Moves(r, [Fresh EXCEPT !.at = "dialling", !.listed = TRUE, !.chan = TRUE])
            /\ UNCHANGED <<laneVars, sessionVars, tlsVars, history>>

-----------------------------------------------------------------------------
(* Closing: what close(relay) does before it closes the flow, and then that. *)

\* releaseFakeIp: one release per hold, however the relay ends.
ReleasesEachTime(rec) == rec.releases + 1
Releases(rec) == IF rec.releases = 0 THEN 1 ELSE rec.releases

BegunInTable(rec, who) == [rec EXCEPT !.chan = FALSE, !.releases = Releases(rec), !.closers = @ \cup {who}]
Begun(rec, who) == [rec EXCEPT !.listed = FALSE, !.chan = FALSE, !.releases = Releases(rec),
                               !.closers = @ \cup {who}]

Gone(rec) == [rec EXCEPT !.at = "ended"]

\* Closing the flow: over QUIC a CLOSE for its id on the connection there is
\* now, and the id forgotten; over TLS its socket and its lane.
ClosesFlow(r, who) ==
  LET rec == relay[r]
  IN /\ who \in rec.closers
     /\ Moves(r, [rec EXCEPT !.closers = @ \ {who}])
     /\ IF rec.flow /\ carrier = "quic"
        THEN /\ route' = IF conn.alive THEN [route EXCEPT ![rec.id] = NoRelay] ELSE route
             /\ Forget(rec.id)
        ELSE UNCHANGED <<route, laneVars>>
     /\ IF rec.flow THEN sockets' = sockets \ {r} /\ lanes' = lanes \ {r} ELSE UNCHANGED tlsVars
     /\ UNCHANGED <<carrier, stage, conn, history>>

\* The live list's closer cancels the coroutine, and if it had not begun it
\* never will; what closes the relay is launched.
UserAsks(r) == /\ relay[r].listed /\ "asked" \notin relay[r].closers
               /\ LET asked == [relay[r] EXCEPT !.closers = @ \cup {"asked"}]
                  IN Moves(r, IF relay[r].at = "dialling" THEN Gone(asked) ELSE asked)
               /\ UNCHANGED <<laneVars, sessionVars, tlsVars, history>>

UserCloses(r) == /\ "asked" \in relay[r].closers
                 /\ Moves(r, [Begun(relay[r], "user") EXCEPT !.closers = @ \ {"asked"}])
                 /\ UNCHANGED <<laneVars, sessionVars, tlsVars, history>>

\* An idle relay: the channel as well as the flow.  Only a serve that joined the
\* pumps stops the reaper; after one that was cancelled it closes once more.
Reaped(rec) == [rec EXCEPT !.chan = FALSE, !.reaper = FALSE, !.closers = @ \cup {"reaper"}]

Reap(r) == /\ relay[r].reaper
           /\ Moves(r, Reaped(relay[r]))
           /\ UNCHANGED <<laneVars, sessionVars, tlsVars, history>>

-----------------------------------------------------------------------------
(* serve: opening a flow. *)

CheckOpen(r) == /\ relay[r].at = "dialling"
                /\ Moves(r, IF SessionClosed THEN Gone(Begun(relay[r], "serve"))
                            ELSE [relay[r] EXCEPT !.at = "asking"])
                /\ UNCHANGED <<laneVars, sessionVars, tlsVars, history>>

\* ReconnectingQuic.current, for whoever finds the connection gone: a dial, a
\* pump in the lane, a CLOSE.  It never learns that the tunnel has stopped.
Asks(r) == \/ relay[r].at = "asking" \/ relay[r].up \/ relay[r].down
           \/ relay[r].flow /\ relay[r].closers # {}

Rebuild == /\ carrier = "quic" /\ ~conn.alive /\ conn.gen < MaxGenerations
           /\ \E r \in Relays : Asks(r)
           /\ conn' = [gen |-> conn.gen + 1, alive |-> TRUE, next |-> 0, authed |-> FALSE]
           /\ UNCHANGED <<laneVars, carrier, stage, route, relay, tlsVars, history>>

\* The AuthFrame leads Stream 0 and no other.
NeedsAuthOnce(stream) == stream = 0 /\ conn.gen = 1
NeedsAuth(stream) == stream = 0

\* QuicFlowId: client stream 4n derives n + 1.
DerivedHalved(stream) == stream \div 2 + 1
Derived(stream) == stream + 1

\* The opening write.  Before authentication one stream is credited.
TakesStream(r) ==
  /\ carrier = "quic" /\ relay[r].at = "asking"
  /\ conn.alive /\ Derived(conn.next) \in FlowIds
  /\ conn.next = 0 \/ conn.authed
  /\ conn' = [conn EXCEPT !.next = @ + 1, !.authed = @ \/ NeedsAuth(conn.next)]
  /\ route' = [route EXCEPT ![Derived(conn.next)] = IF conn'.authed THEN r ELSE @]
  /\ Moves(r, [relay[r] EXCEPT !.at = "opening", !.id = Derived(conn.next), !.gen = conn.gen])
  /\ UNCHANGED <<laneVars, carrier, stage, tlsVars, history>>

\* Over TLS a connection of its own, and a lane even if the session has closed.
Connects(r) == /\ carrier = "tls" /\ relay[r].at = "asking"
               /\ Moves(r, [relay[r] EXCEPT !.at = "opening"])
               /\ sockets' = sockets \cup {r} /\ lanes' = lanes \cup {r}
               /\ UNCHANGED <<laneVars, sessionVars, history>>

Current(r) == relay[r].gen = conn.gen /\ conn.alive

CanAnswer(r) == IF carrier = "quic" THEN Current(r) /\ route[relay[r].id] = r ELSE r \in sockets

Readied(r) == IF carrier = "quic" THEN MarkReady(relay[r].id) ELSE UNCHANGED laneVars

\* READY, the lane told, the first packet sent.
Answered(r) == /\ relay[r].at = "opening" /\ CanAnswer(r)
               /\ Readied(r)
               /\ Moves(r, [relay[r] EXCEPT !.at = "answered"])
               /\ UNCHANGED <<sessionVars, tlsVars, history>>

\* A flow, or what was to become one, lost with an exception: nobody closes it.
Lost(rec) == [Begun(rec, "serve") EXCEPT !.at = "lost"]

\* The same with a first packet that cannot be sent.
FirstSendFails(r) == /\ relay[r].at = "opening" /\ CanAnswer(r)
                     /\ Readied(r)
                     /\ Moves(r, Lost(relay[r]))
                     /\ UNCHANGED <<sessionVars, tlsVars, history>>

\* Over TLS, an opening write that throws passes by the close of the lane, which
\* stays in the session's list with its connection.
OpeningThrows(r) == /\ carrier = "tls" /\ relay[r].at = "opening"
                    /\ Moves(r, Lost(relay[r]))
                    /\ UNCHANGED <<laneVars, sessionVars, tlsVars, history>>

\* A refusal, silence, or a connection that cannot be had.
DialFails(r) == /\ relay[r].at \in {"asking", "opening"}
                /\ Moves(r, Gone(Begun(relay[r], "serve")))
                /\ sockets' = sockets \ {r} /\ lanes' = lanes \ {r}
                /\ UNCHANGED <<laneVars, sessionVars, history>>

Assigns(r) == /\ relay[r].at = "answered"
              /\ Moves(r, [relay[r] EXCEPT !.at = "assigned", !.flow = TRUE])
              /\ UNCHANGED <<laneVars, sessionVars, tlsVars, history>>

\* A relay closed meanwhile closes what it got.
Opened(rec) == [rec EXCEPT !.at = "open", !.up = TRUE, !.down = TRUE, !.reaper = TRUE]
CheckedNever(rec) == Opened(rec)
Checked(rec) == IF rec.chan THEN Opened(rec)
                ELSE Gone(Begun(rec, "serve"))

Checks(r) == /\ relay[r].at = "assigned"
             /\ Moves(r, Checked(relay[r]))
             /\ UNCHANGED <<laneVars, sessionVars, tlsVars, history>>

\* Both pumps joined and the reaper stopped; or, cancelled in the join, nothing.
ServeEnds(r) == /\ relay[r].at = "open"
                /\ \/ /\ ~relay[r].up /\ ~relay[r].down
                      /\ Moves(r, [Gone(Begun(relay[r], "serve")) EXCEPT !.reaper = FALSE])
                   \/ /\ ~relay[r].listed \/ "asked" \in relay[r].closers
                      /\ Moves(r, Gone(relay[r]))
                /\ UNCHANGED <<laneVars, sessionVars, tlsVars, history>>

-----------------------------------------------------------------------------
(* The pumps. *)

\* Sending changes nothing here: see UplinkIsOwn for where a packet goes.
UpEnds(r) == /\ relay[r].up
             /\ Moves(r, [relay[r] EXCEPT !.up = FALSE])
             /\ UNCHANGED <<laneVars, sessionVars, tlsVars, history>>

\* One of the readers waiting in the lane takes a datagram for all of them.
Demultiplexes == /\ carrier = "quic" /\ conn.alive
                 /\ \E r \in Relays : relay[r].down
                 /\ \E fr \in wire, old \in SUBSET Slots(held) : Demultiplex(fr, old)
                 /\ UNCHANGED <<sessionVars, relay, tlsVars, history>>

\* The far end's CLOSE is taken like a wait that brought nothing.
Takes(r) == /\ relay[r].down /\ carrier = "quic"
            /\ \E item \in Item :
                 /\ Poll(relay[r].id, item)
                 /\ got' = IF item = CLOSED THEN got ELSE [got EXCEPT ![r] = @ \cup {item}]
            /\ UNCHANGED <<sessionVars, relay, tlsVars, sent>>

DownEnds(r) == /\ relay[r].down
               /\ Moves(r, [relay[r] EXCEPT !.down = FALSE])
               /\ UNCHANGED <<laneVars, sessionVars, tlsVars, history>>

-----------------------------------------------------------------------------
(* The far end and the network. *)

FarEndSends(f, p) ==
  /\ conn.alive /\ route[f] = Origin[p] /\ p \notin sent
  /\ sent' = sent \cup {p}
  /\ \/ wire' = wire \cup Whole(f, p)
     \/ \E c \in Counts : wire' = wire \cup Pieces(f, IdOf[p], p, c)
  /\ UNCHANGED <<ready, held, queued, inbound, sessionVars, relay, tlsVars, got>>

FarEndCloses(f) == /\ conn.alive /\ route[f] # NoRelay
                   /\ route' = [route EXCEPT ![f] = NoRelay]
                   /\ wire' = wire \cup {[type |-> "close", flow |-> f]}
                   /\ UNCHANGED <<ready, held, queued, inbound, carrier, stage, conn, relay, tlsVars, history>>

\* With the connection go its flows, and what was under way.  The lane stays,
\* and does not know.
ConnectionGone == /\ conn' = [conn EXCEPT !.alive = FALSE]
                  /\ route' = [f \in FlowIds |-> NoRelay]
                  /\ WireLost

ConnectionDies == /\ carrier = "quic" /\ conn.alive
                  /\ ConnectionGone
                  /\ UNCHANGED <<carrier, stage, relay, tlsVars, history>>

SocketDies(r) == /\ r \in sockets
                 /\ sockets' = sockets \ {r}
                 /\ UNCHANGED <<laneVars, sessionVars, relay, lanes, history>>

-----------------------------------------------------------------------------
(* teardown: the lwIP thread, the relays, the session, the connection. *)

Stops == /\ stage = "up" /\ stage' = "handlers"
         /\ UNCHANGED <<laneVars, carrier, conn, route, relay, tlsVars, history>>

\* One relay after another.
ShutsDown(r) == /\ stage = "handlers" /\ relay[r].listed
                /\ \A q \in Relays : "shutdown" \notin relay[q].closers
                /\ Moves(r, Begun(relay[r], "shutdown"))
                /\ UNCHANGED <<laneVars, sessionVars, tlsVars, history>>

\* The scope goes with the handler, and with it what was launched and has not
\* begun or only waits: a dial, a closer, a reaper.
Scrapped(rec) == [rec EXCEPT !.at = IF @ = "dialling" THEN "ended" ELSE @,
                             !.reaper = FALSE,
                             !.closers = @ \ {"asked"}]

HandlersShut == /\ stage = "handlers"
                /\ \A r \in Relays : ~relay[r].listed /\ "shutdown" \notin relay[r].closers
                /\ stage' = "session"
                /\ relay' = [r \in Relays |-> Scrapped(relay[r])]
                /\ UNCHANGED <<laneVars, carrier, conn, route, tlsVars, history>>

\* Closing the carrier closes the TLS lanes there are, and the QUIC connection
\* goes right after.
SessionCloses == /\ stage = "session" /\ stage' = "down"
                 /\ sockets' = sockets \ lanes /\ lanes' = {}
                 /\ ConnectionGone
                 /\ UNCHANGED <<carrier, relay, history>>

-----------------------------------------------------------------------------
RelaySteps(r) == \/ Offer(r) \/ UserAsks(r) \/ UserCloses(r) \/ Reap(r) \/ CheckOpen(r)
                 \/ (\E who \in Closer : ClosesFlow(r, who))
                 \/ TakesStream(r) \/ Connects(r) \/ Answered(r) \/ FirstSendFails(r)
                 \/ OpeningThrows(r) \/ DialFails(r)
                 \/ Assigns(r) \/ Checks(r) \/ ServeEnds(r)
                 \/ UpEnds(r) \/ Takes(r) \/ DownEnds(r)
                 \/ SocketDies(r) \/ ShutsDown(r)

Next == \/ \E r \in Relays : RelaySteps(r)
        \/ Rebuild \/ Demultiplexes \/ ConnectionDies
        \/ \E f \in FlowIds : FarEndCloses(f) \/ \E p \in Packets : FarEndSends(f, p)
        \/ Stops \/ HandlersShut \/ SessionCloses

Spec == Init /\ [][Next]_vars

-----------------------------------------------------------------------------
TypeOK == /\ LaneType
          /\ carrier \in {"quic", "tls"}
          /\ stage \in {"up", "handlers", "session", "down"}
          /\ conn \in Connection
          /\ route \in [FlowIds -> Relays \cup {NoRelay}]
          /\ relay \in [Relays -> Relay]
          /\ sockets \subseteq Relays /\ lanes \subseteq Relays
          /\ sent \subseteq Packets
          /\ got \in [Relays -> SUBSET Item]

\* A relay that is over, with nobody left who is about to close its flow.
Settled(r) == relay[r].at = "ended" /\ relay[r].closers = {}

\* UdpRelay.releaseFakeIp: however many of user, reaper, serve and shutdown end
\* a relay, its synthetic address is given back once, and it is given back; and
\* teardown's "after the handlers", for the clearing of the pool: by the time the
\* handlers are shut, none is still owed, whatever else of a relay still runs.
ReleasedOnce == \A r \in Relays :
                  /\ relay[r].releases <= 1
                  /\ Settled(r) => relay[r].releases = 1
                  /\ stage \in {"session", "down"} /\ relay[r].at # "new" => relay[r].releases = 1

\* UdpRelay.serve: "a relay closed meanwhile closes what it got".  A relay that
\* is over leaves no socket and no route at the far end, whichever way the check
\* of its channel, the closers and the teardown fell between each other.
NoFlowOutlives == \A r \in Relays : Settled(r) =>
                    /\ r \notin sockets
                    /\ relay[r].flow /\ Current(r) => route[relay[r].id] # r

\* QuicCarrier.openFlow: every connection, the rebuilt ones too, is
\* authenticated before the far end is shown a flow, or the flow is not admitted.
NeverBare == \A r \in Relays : relay[r].id # 0 /\ Current(r) => conn.authed

\* DatagramReassembler.evictOldestIfFull: the table of part-assembled packets
\* stays within its bound whatever is lost, reordered, duplicated or mixed up.
SlotsBounded == Cardinality(Slots(held)) <= MaxSlots

\* The upward half of the promise, UdpRelay.pumpUp: until the connection is
\* rebuilt, the far end behind a relay's flow id is its own or none.
UplinkIsOwn == \A r \in Relays :
                 conn.gen = 1 /\ relay[r].up /\ carrier = "quic" => route[relay[r].id] \in {r, NoRelay}

\* The downward half: see UdpPromise.
Promise == INSTANCE UdpPromise WITH intact <- conn.gen = 1
ImplementsPromise == Promise!Spec

\* UdpRelay.reap: "leaving the relay in the table until 128 such zombies refused
\* every new datagram".  What is in the table has a coroutine that serves it, or
\* a closer on its way to take it out.
TableIsServed == \A r \in Relays : relay[r].listed =>
                   relay[r].at \notin {"new", "ended", "lost"} \/ "asked" \in relay[r].closers

\* QuicFlowId: "there is nothing to allocate, release or collide".  Whatever
\* becomes of the connection, a relay hands the device only its own packets.
OnlyOwnPackets == \A r \in Relays : \A item \in got[r] : \E p \in sent : Origin[p] = r /\ item = {p}
=============================================================================
