---------------------------- MODULE DatagramLane ----------------------------
(***************************************************************************)
(* protocol/session/DatagramLane.kt and protocol/quic/DatagramReassembler  *)
(* .kt: the datagrams of one QUIC carrier, which all flows share.          *)
(*                                                                         *)
(* A payload is the packet it carries, so a reassembled packet is the set  *)
(* of packets its fragments come from: one when it is a packet somebody    *)
(* sent, several when it is none.  A slot is the set of the fragments held *)
(* under one flow and packet id.  Queues are sets: no property tells their *)
(* order.  The wire hands out its datagrams in any order, and need not     *)
(* hand out all: a datagram is lost or late, never retransmitted.          *)
(***************************************************************************)
EXTENDS Naturals, FiniteSets

CONSTANTS FlowIds,   \* the ids that streams derive
          PacketIds, \* the ids the far end gives fragmented packets
          Packets,   \* the packets the far end may send
          Counts,    \* into how many fragments it may split one
          MaxSlots   \* DEFAULT_MAX_SLOTS

ASSUME CountsAssumption == Counts \subseteq Nat \ {0, 1}
ASSUME SlotsAssumption == MaxSlots \in Nat \ {0}

VARIABLES
  wire,     \* datagrams under way to us on the current connection
  ready,    \* DatagramReassembler.ready
  held,     \* the fragments in DatagramReassembler.slots
  queued,   \* the keys of DatagramLane.inbound
  inbound   \* what is in those queues

laneVars == <<wire, ready, held, queued, inbound>>

Index == UNION {0 .. c - 1 : c \in Counts}
Data == [type : {"data"}, flow : FlowIds, of : Packets]
Close == [type : {"close"}, flow : FlowIds]
Fragment == [type : {"fragment"}, flow : FlowIds, id : PacketIds, index : Index, count : Counts,
             of : Packets]
Frame == Data \cup Close \cup Fragment

\* What a queue holds: an assembled payload, or the marker DatagramLane.CLOSED.
CLOSED == {}
Item == SUBSET Packets

LaneType == /\ wire \subseteq Frame
            /\ ready \in BOOLEAN
            /\ held \subseteq Fragment
            /\ queued \subseteq FlowIds
            /\ inbound \in [FlowIds -> SUBSET Item]

LaneInit == /\ wire = {} /\ ready = FALSE /\ held = {} /\ queued = {}
            /\ inbound = [f \in FlowIds |-> {}]

\* The frames that carry packet p on flow f: one DATA when it fits, or c
\* fragments under one packet id.
Whole(f, p) == {[type |-> "data", flow |-> f, of |-> p]}
Pieces(f, i, p, c) == {[type |-> "fragment", flow |-> f, id |-> i, index |-> k, count |-> c, of |-> p] :
                         k \in 0 .. c - 1}

-----------------------------------------------------------------------------
(* Reassembly. *)

KeyByPacket(h) == <<0, h.id>>
Key(h) == <<h.flow, h.id>>
Slots(frags) == {Key(h) : h \in frags}
SlotOf(fr, frags) == {h \in frags : Key(h) = Key(fr)}

\* Two layouts, or two contents for one index, under one id.
Conflicts(fr, slot) == \E h \in slot : h.count # fr.count \/ (h.index = fr.index /\ h.of # fr.of)

IsComplete(slot, count) == {h.index : h \in slot} = 0 .. count - 1
Assembled(slot) == {h.of : h \in slot}

\* A new slot in a full table takes the place of an old one.
MakesNoRoom(fr, frags) == {frags}
MakesRoom(fr, frags) ==
  IF SlotOf(fr, frags) = {} /\ Cardinality(Slots(frags)) >= MaxSlots
  THEN {{h \in frags : Key(h) # k} : k \in Slots(frags)}
  ELSE {frags}

Discards(fr, live) == /\ Conflicts(fr, SlotOf(fr, live))
                      /\ held' = live \ SlotOf(fr, live)
                      /\ UNCHANGED inbound

Keeps(fr, live) == /\ ~Conflicts(fr, SlotOf(fr, live))
                   /\ ~IsComplete(SlotOf(fr, live) \cup {fr}, fr.count)
                   /\ \E room \in MakesRoom(fr, live) : held' = room \cup {fr}
                   /\ UNCHANGED inbound

\* A flow nobody here has, or no longer has, gets nothing.
Route(f, item) == inbound' = [inbound EXCEPT ![f] = IF f \in queued THEN @ \cup {item} ELSE @]

Completes(fr, live) == LET slot == SlotOf(fr, live) \cup {fr}
                       IN /\ ~Conflicts(fr, SlotOf(fr, live))
                          /\ IsComplete(slot, fr.count)
                          /\ held' = live \ slot
                          /\ Route(fr.flow, Assembled(slot))

\* Slots past their lifetime go first, whatever the datagram is.
Unexpired(old) == {h \in held : Key(h) \notin old}

\* pump: one datagram received and given to whoever it is for.
Demultiplex(fr, old) ==
  /\ fr \in wire /\ ready
  /\ wire' = wire \ {fr}
  /\ \/ /\ fr.type = "data"
        /\ held' = Unexpired(old) /\ Route(fr.flow, {fr.of})
     \/ /\ fr.type = "close"
        /\ held' = {h \in Unexpired(old) : h.flow # fr.flow} /\ Route(fr.flow, CLOSED)
     \/ /\ fr.type = "fragment"
        /\ \/ Discards(fr, Unexpired(old))
           \/ Keeps(fr, Unexpired(old))
           \/ Completes(fr, Unexpired(old))
  /\ UNCHANGED <<ready, queued>>

-----------------------------------------------------------------------------
(* What the flows ask of the lane. *)

MarkReady(f) == /\ ready' = TRUE
                /\ queued' = queued \cup {f}
                /\ UNCHANGED <<wire, held, inbound>>

\* One item leaves the queue; the marker makes receive answer null once.
Poll(f, item) == /\ f \in queued /\ item \in inbound[f]
                 /\ inbound' = [inbound EXCEPT ![f] = @ \ {item}]
                 /\ UNCHANGED <<wire, ready, held, queued>>

Forget(f) == /\ queued' = queued \ {f}
             /\ inbound' = [inbound EXCEPT ![f] = {}]
             /\ UNCHANGED <<wire, ready, held>>

\* The connection under the lane has gone.
WireLost == /\ wire' = {}
            /\ UNCHANGED <<ready, held, queued, inbound>>
=============================================================================
