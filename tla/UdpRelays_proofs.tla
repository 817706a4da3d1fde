-------------------------- MODULE UdpRelays_proofs --------------------------
(***************************************************************************)
(* For every number of relays, flows, packets and rebuilt connections:     *)
(* what a relay holds is given back once, nothing outlives a relay that is *)
(* over, the reassembly table keeps its bound, every connection is         *)
(* authenticated, and until the connection is replaced every relay carries *)
(* its own packets and whole ones.                                         *)
(***************************************************************************)
EXTENDS UdpRelays, FiniteSetTheorems, TLAPS

-----------------------------------------------------------------------------
(* Flow ids. *)

LEMMA IdsNatural ==
  /\ Cardinality(FlowIds) \in Nat
  /\ \A f \in FlowIds : f \in Nat /\ f # 0 /\ f <= Cardinality(FlowIds)
  <1> DEFINE n == Cardinality(FlowIds)
  <1>1. n \in Nat /\ FlowIds = 1 .. n
    BY IdsAssumption, FS_CardinalityType
  <1> HIDE DEF n
  <1>2. \A f \in FlowIds : f \in Nat /\ f # 0 /\ f <= n
    BY <1>1
  <1>3. QED
    BY <1>1, <1>2 DEF n

-----------------------------------------------------------------------------
(* What becomes of one relay's record. *)

LEMMA MovesIs ==
  ASSUME relay \in [Relays -> Relay], NEW r \in Relays, NEW rec \in Relay, Moves(r, rec)
  PROVE  /\ relay' \in [Relays -> Relay] /\ relay'[r] = rec
         /\ \A q \in Relays : q # r => relay'[q] = relay[q]
  BY DEF Moves

LEMMA AtIs ==
  ASSUME NEW rec \in Relay, NEW a \in ServeAt
  PROVE  /\ [rec EXCEPT !.at = a] \in Relay
         /\ [rec EXCEPT !.at = a].at = a
         /\ [rec EXCEPT !.at = a].id = rec.id
         /\ [rec EXCEPT !.at = a].gen = rec.gen
         /\ [rec EXCEPT !.at = a].flow = rec.flow
         /\ [rec EXCEPT !.at = a].listed = rec.listed
         /\ [rec EXCEPT !.at = a].chan = rec.chan
         /\ [rec EXCEPT !.at = a].releases = rec.releases
         /\ [rec EXCEPT !.at = a].up = rec.up
         /\ [rec EXCEPT !.at = a].down = rec.down
         /\ [rec EXCEPT !.at = a].reaper = rec.reaper
         /\ [rec EXCEPT !.at = a].closers = rec.closers
  BY DEF Relay

LEMMA BegunIs ==
  ASSUME NEW rec \in Relay, NEW who \in Call
  PROVE  /\ Begun(rec, who) \in Relay
         /\ Begun(rec, who).at = rec.at
         /\ Begun(rec, who).id = rec.id
         /\ Begun(rec, who).gen = rec.gen
         /\ Begun(rec, who).flow = rec.flow
         /\ Begun(rec, who).listed = FALSE
         /\ Begun(rec, who).chan = FALSE
         /\ Begun(rec, who).releases = Releases(rec)
         /\ Begun(rec, who).up = rec.up
         /\ Begun(rec, who).down = rec.down
         /\ Begun(rec, who).reaper = rec.reaper
         /\ Begun(rec, who).closers = rec.closers \cup {who}
  <1>1. Releases(rec) \in 0 .. 2
    BY DEF Releases, Relay
  <1>2. QED
    BY <1>1, Zenon DEF Begun, Relay

LEMMA CallsIs ==
  ASSUME NEW rec \in Relay, NEW calls \in SUBSET Call
  PROVE  /\ [rec EXCEPT !.closers = calls] \in Relay
         /\ [rec EXCEPT !.closers = calls].at = rec.at
         /\ [rec EXCEPT !.closers = calls].id = rec.id
         /\ [rec EXCEPT !.closers = calls].gen = rec.gen
         /\ [rec EXCEPT !.closers = calls].flow = rec.flow
         /\ [rec EXCEPT !.closers = calls].listed = rec.listed
         /\ [rec EXCEPT !.closers = calls].chan = rec.chan
         /\ [rec EXCEPT !.closers = calls].releases = rec.releases
         /\ [rec EXCEPT !.closers = calls].up = rec.up
         /\ [rec EXCEPT !.closers = calls].down = rec.down
         /\ [rec EXCEPT !.closers = calls].reaper = rec.reaper
         /\ [rec EXCEPT !.closers = calls].closers = calls
  BY Zenon DEF Relay

LEMMA ReapedIs ==
  ASSUME NEW rec \in Relay
  PROVE  /\ Reaped(rec) \in Relay
         /\ Reaped(rec).at = rec.at
         /\ Reaped(rec).id = rec.id
         /\ Reaped(rec).gen = rec.gen
         /\ Reaped(rec).flow = rec.flow
         /\ Reaped(rec).listed = rec.listed
         /\ Reaped(rec).chan = FALSE
         /\ Reaped(rec).releases = rec.releases
         /\ Reaped(rec).up = rec.up
         /\ Reaped(rec).down = rec.down
         /\ Reaped(rec).reaper = FALSE
         /\ Reaped(rec).closers = rec.closers \cup {"reaper"}
  BY Zenon DEF Reaped, Relay, Call, Closer

Streamed(rec, f, g) == [rec EXCEPT !.at = "opening", !.id = f, !.gen = g]

LEMMA StreamIs ==
  ASSUME NEW rec \in Relay, NEW f \in FlowIds, NEW g \in 0 .. MaxGenerations
  PROVE  /\ Streamed(rec, f, g) \in Relay
         /\ Streamed(rec, f, g).at = "opening"
         /\ Streamed(rec, f, g).id = f
         /\ Streamed(rec, f, g).gen = g
         /\ Streamed(rec, f, g).flow = rec.flow
         /\ Streamed(rec, f, g).listed = rec.listed
         /\ Streamed(rec, f, g).chan = rec.chan
         /\ Streamed(rec, f, g).releases = rec.releases
         /\ Streamed(rec, f, g).up = rec.up
         /\ Streamed(rec, f, g).down = rec.down
         /\ Streamed(rec, f, g).reaper = rec.reaper
         /\ Streamed(rec, f, g).closers = rec.closers
  BY Zenon DEF Streamed, Relay, ServeAt

LEMMA AssignedIs ==
  ASSUME NEW rec \in Relay
  PROVE  /\ [rec EXCEPT !.at = "assigned", !.flow = TRUE] \in Relay
         /\ [rec EXCEPT !.at = "assigned", !.flow = TRUE].at = "assigned"
         /\ [rec EXCEPT !.at = "assigned", !.flow = TRUE].id = rec.id
         /\ [rec EXCEPT !.at = "assigned", !.flow = TRUE].gen = rec.gen
         /\ [rec EXCEPT !.at = "assigned", !.flow = TRUE].flow = TRUE
         /\ [rec EXCEPT !.at = "assigned", !.flow = TRUE].listed = rec.listed
         /\ [rec EXCEPT !.at = "assigned", !.flow = TRUE].chan = rec.chan
         /\ [rec EXCEPT !.at = "assigned", !.flow = TRUE].releases = rec.releases
         /\ [rec EXCEPT !.at = "assigned", !.flow = TRUE].up = rec.up
         /\ [rec EXCEPT !.at = "assigned", !.flow = TRUE].down = rec.down
         /\ [rec EXCEPT !.at = "assigned", !.flow = TRUE].reaper = rec.reaper
         /\ [rec EXCEPT !.at = "assigned", !.flow = TRUE].closers = rec.closers
  BY Zenon DEF Relay, ServeAt

LEMMA OpenIs ==
  ASSUME NEW rec \in Relay
  PROVE  /\ Opened(rec) \in Relay
         /\ Opened(rec).at = "open"
         /\ Opened(rec).id = rec.id
         /\ Opened(rec).gen = rec.gen
         /\ Opened(rec).flow = rec.flow
         /\ Opened(rec).listed = rec.listed
         /\ Opened(rec).chan = rec.chan
         /\ Opened(rec).releases = rec.releases
         /\ Opened(rec).up = TRUE
         /\ Opened(rec).down = TRUE
         /\ Opened(rec).reaper = TRUE
         /\ Opened(rec).closers = rec.closers
  BY Zenon DEF Opened, Relay, ServeAt

LEMMA UpIs ==
  ASSUME NEW rec \in Relay
  PROVE  /\ [rec EXCEPT !.up = FALSE] \in Relay
         /\ [rec EXCEPT !.up = FALSE].at = rec.at
         /\ [rec EXCEPT !.up = FALSE].id = rec.id
         /\ [rec EXCEPT !.up = FALSE].gen = rec.gen
         /\ [rec EXCEPT !.up = FALSE].flow = rec.flow
         /\ [rec EXCEPT !.up = FALSE].listed = rec.listed
         /\ [rec EXCEPT !.up = FALSE].chan = rec.chan
         /\ [rec EXCEPT !.up = FALSE].releases = rec.releases
         /\ [rec EXCEPT !.up = FALSE].up = FALSE
         /\ [rec EXCEPT !.up = FALSE].down = rec.down
         /\ [rec EXCEPT !.up = FALSE].reaper = rec.reaper
         /\ [rec EXCEPT !.up = FALSE].closers = rec.closers
  BY Zenon DEF Relay

LEMMA DownIs ==
  ASSUME NEW rec \in Relay
  PROVE  /\ [rec EXCEPT !.down = FALSE] \in Relay
         /\ [rec EXCEPT !.down = FALSE].at = rec.at
         /\ [rec EXCEPT !.down = FALSE].id = rec.id
         /\ [rec EXCEPT !.down = FALSE].gen = rec.gen
         /\ [rec EXCEPT !.down = FALSE].flow = rec.flow
         /\ [rec EXCEPT !.down = FALSE].listed = rec.listed
         /\ [rec EXCEPT !.down = FALSE].chan = rec.chan
         /\ [rec EXCEPT !.down = FALSE].releases = rec.releases
         /\ [rec EXCEPT !.down = FALSE].up = rec.up
         /\ [rec EXCEPT !.down = FALSE].down = FALSE
         /\ [rec EXCEPT !.down = FALSE].reaper = rec.reaper
         /\ [rec EXCEPT !.down = FALSE].closers = rec.closers
  BY Zenon DEF Relay

LEMMA RestedIs ==
  ASSUME NEW rec \in Relay
  PROVE  /\ [rec EXCEPT !.reaper = FALSE] \in Relay
         /\ [rec EXCEPT !.reaper = FALSE].at = rec.at
         /\ [rec EXCEPT !.reaper = FALSE].id = rec.id
         /\ [rec EXCEPT !.reaper = FALSE].gen = rec.gen
         /\ [rec EXCEPT !.reaper = FALSE].flow = rec.flow
         /\ [rec EXCEPT !.reaper = FALSE].listed = rec.listed
         /\ [rec EXCEPT !.reaper = FALSE].chan = rec.chan
         /\ [rec EXCEPT !.reaper = FALSE].releases = rec.releases
         /\ [rec EXCEPT !.reaper = FALSE].up = rec.up
         /\ [rec EXCEPT !.reaper = FALSE].down = rec.down
         /\ [rec EXCEPT !.reaper = FALSE].closers = rec.closers
         /\ [rec EXCEPT !.reaper = FALSE].reaper = FALSE
  BY Zenon DEF Relay

LEMMA ScrappedIs ==
  ASSUME NEW rec \in Relay
  PROVE  /\ Scrapped(rec) \in Relay
         /\ Scrapped(rec).at = (IF rec.at = "dialling" THEN "ended" ELSE rec.at)
         /\ Scrapped(rec).id = rec.id
         /\ Scrapped(rec).gen = rec.gen
         /\ Scrapped(rec).flow = rec.flow
         /\ Scrapped(rec).listed = rec.listed
         /\ Scrapped(rec).chan = rec.chan
         /\ Scrapped(rec).releases = rec.releases
         /\ Scrapped(rec).up = rec.up
         /\ Scrapped(rec).down = rec.down
         /\ Scrapped(rec).reaper = FALSE
         /\ Scrapped(rec).closers = rec.closers \ {"asked"}
  <1>1. (IF rec.at = "dialling" THEN "ended" ELSE rec.at) \in ServeAt /\ rec.closers \ {"asked"} \in SUBSET Call
    BY DEF Relay, ServeAt
  <1>2. QED
    BY <1>1, Zenon DEF Scrapped, Relay

LEMMA ListedIs ==
  ASSUME NEW rec \in Relay
  PROVE  /\ [rec EXCEPT !.at = "dialling", !.listed = TRUE, !.chan = TRUE] \in Relay
         /\ [rec EXCEPT !.at = "dialling", !.listed = TRUE, !.chan = TRUE].at = "dialling"
         /\ [rec EXCEPT !.at = "dialling", !.listed = TRUE, !.chan = TRUE].id = rec.id
         /\ [rec EXCEPT !.at = "dialling", !.listed = TRUE, !.chan = TRUE].gen = rec.gen
         /\ [rec EXCEPT !.at = "dialling", !.listed = TRUE, !.chan = TRUE].flow = rec.flow
         /\ [rec EXCEPT !.at = "dialling", !.listed = TRUE, !.chan = TRUE].listed = TRUE
         /\ [rec EXCEPT !.at = "dialling", !.listed = TRUE, !.chan = TRUE].chan = TRUE
         /\ [rec EXCEPT !.at = "dialling", !.listed = TRUE, !.chan = TRUE].releases = rec.releases
         /\ [rec EXCEPT !.at = "dialling", !.listed = TRUE, !.chan = TRUE].up = rec.up
         /\ [rec EXCEPT !.at = "dialling", !.listed = TRUE, !.chan = TRUE].down = rec.down
         /\ [rec EXCEPT !.at = "dialling", !.listed = TRUE, !.chan = TRUE].reaper = rec.reaper
         /\ [rec EXCEPT !.at = "dialling", !.listed = TRUE, !.chan = TRUE].closers = rec.closers
  BY Zenon DEF Relay, ServeAt

OfferedRec == [Fresh EXCEPT !.at = "dialling", !.listed = TRUE, !.chan = TRUE]

LEMMA OfferedIs ==
  /\ OfferedRec \in Relay /\ OfferedRec.at = "dialling" /\ OfferedRec.listed /\ OfferedRec.chan
  /\ OfferedRec.id = 0 /\ OfferedRec.gen = 0 /\ OfferedRec.closers = {} /\ OfferedRec.releases = 0
  /\ ~OfferedRec.flow /\ ~OfferedRec.up /\ ~OfferedRec.down /\ ~OfferedRec.reaper
  /\ Fresh \in Relay
  <1>1. 0 \in 0 .. MaxGenerations /\ 0 \in 0 .. 2
    BY GenerationsAssumption
  <1>2. Fresh \in Relay
    BY <1>1 DEF Fresh, Relay, ServeAt
  <1>3. QED
    BY <1>2, ListedIs DEF OfferedRec, Fresh

-----------------------------------------------------------------------------
(* What holds of one relay's record by itself.  A relay that left the table  *)
(* has given its address back, and one that is in it has somebody to take it *)
(* out.                                                                      *)

Sound(x) ==
  /\ x.at = "new" => /\ ~x.listed /\ ~x.chan /\ ~x.flow /\ ~x.up /\ ~x.down /\ ~x.reaper
                     /\ x.releases = 0 /\ x.closers = {}
  /\ x.releases <= 1
  /\ x.at # "new" /\ ~x.listed => x.releases = 1 /\ ~x.chan
  /\ x.listed => x.at \notin {"new", "ended", "lost"} \/ "asked" \in x.closers
  /\ x.flow => x.at \in {"assigned", "open", "ended"}
  /\ x.at \in {"assigned", "open"} => x.flow
  /\ x.up \/ x.down => x.flow
  /\ x.at \in {"new", "dialling", "asking"} => x.id = 0 /\ x.gen = 0
  /\ carrier = "quic" /\ (x.at \in {"opening", "answered"} \/ x.flow) => x.id # 0

\* What a step of relay r leaves: its stream is given to it once.
Outcome(r) ==
  /\ relay' \in [Relays -> Relay]
  /\ \A q \in Relays : q # r => relay'[q] = relay[q]
  /\ Sound(relay'[r])
  /\ TakesStream(r) \/ (relay'[r].id = relay[r].id /\ relay'[r].gen = relay[r].gen)

LEMMA OutcomeOf ==
  ASSUME relay \in [Relays -> Relay], NEW r \in Relays, NEW x \in Relay, Moves(r, x), Sound(x),
         TakesStream(r) \/ (x.id = relay[r].id /\ x.gen = relay[r].gen)
  PROVE  Outcome(r)
  BY MovesIs DEF Outcome

LEMMA Unchanging ==
  ASSUME relay \in [Relays -> Relay], NEW r \in Relays, Sound(relay[r]), UNCHANGED relay
  PROVE  Outcome(r)
  BY DEF Outcome

LEMMA GoneSound ==
  ASSUME NEW x \in Relay, Sound(x), x.at # "new", x.listed => "asked" \in x.closers
  PROVE  Gone(x) \in Relay /\ Sound(Gone(x)) /\ Gone(x).id = x.id /\ Gone(x).gen = x.gen
  <1> DEFINE g == Gone(x)
  <1>1. /\ g \in Relay /\ g.at = "ended" /\ g.id = x.id /\ g.gen = x.gen /\ g.flow = x.flow
        /\ g.listed = x.listed /\ g.chan = x.chan /\ g.releases = x.releases
        /\ g.up = x.up /\ g.down = x.down /\ g.reaper = x.reaper /\ g.closers = x.closers
    BY AtIs DEF Gone, ServeAt
  <1> HIDE DEF g
  <1>2. Sound(g)
    BY <1>1 DEF Sound
  <1>3. QED
    BY <1>1, <1>2 DEF g

\* Begun keeps a record sound, wherever its relay stands but at the start.
LEMMA BegunSound ==
  ASSUME NEW x \in Relay, Sound(x), x.at # "new", NEW who \in Call
  PROVE  /\ Begun(x, who) \in Relay /\ Sound(Begun(x, who))
         /\ Begun(x, who).id = x.id /\ Begun(x, who).gen = x.gen
         /\ Gone(Begun(x, who)) \in Relay /\ Sound(Gone(Begun(x, who)))
         /\ Gone(Begun(x, who)).id = x.id /\ Gone(Begun(x, who)).gen = x.gen
  <1> DEFINE b == Begun(x, who)
  <1>1. /\ b \in Relay /\ b.at = x.at /\ b.id = x.id /\ b.gen = x.gen /\ b.flow = x.flow
        /\ b.listed = FALSE /\ b.chan = FALSE /\ b.releases = Releases(x)
        /\ b.up = x.up /\ b.down = x.down /\ b.reaper = x.reaper /\ b.closers = x.closers \cup {who}
    BY BegunIs
  <1>2. Releases(x) = 1
    BY DEF Releases, Sound, Relay
  <1> HIDE DEF b
  <1>3. Sound(b)
    BY <1>1, <1>2 DEF Sound
  <1>4. Gone(b) \in Relay /\ Sound(Gone(b)) /\ Gone(b).id = b.id /\ Gone(b).gen = b.gen
    BY <1>1, <1>3, GoneSound
  <1>5. QED
    BY <1>1, <1>3, <1>4 DEF b

\* Stopping the reaper disturbs nothing else.
LEMMA RestedSound ==
  ASSUME NEW x \in Relay, Sound(x)
  PROVE  Sound([x EXCEPT !.reaper = FALSE])
  <1> DEFINE y == [x EXCEPT !.reaper = FALSE]
  <1>1. /\ y.at = x.at /\ y.id = x.id /\ y.gen = x.gen /\ y.flow = x.flow
        /\ y.listed = x.listed /\ y.chan = x.chan /\ y.releases = x.releases
        /\ y.up = x.up /\ y.down = x.down /\ y.closers = x.closers /\ y.reaper = FALSE
    BY RestedIs
  <1> HIDE DEF y
  <1>2. Sound(y)
    BY <1>1 DEF Sound
  <1>3. QED
    BY <1>2 DEF y

LEMMA OfferOutcome ==
  ASSUME relay \in [Relays -> Relay], NEW r \in Relays, Sound(relay[r]), Offer(r)
  PROVE  Outcome(r)
  <1>1. Moves(r, OfferedRec) /\ Sound(OfferedRec) /\ OfferedRec \in Relay
    BY OfferedIs DEF Offer, OfferedRec, Sound
  <1>2. relay[r].id = OfferedRec.id /\ relay[r].gen = OfferedRec.gen
    BY OfferedIs DEF Offer, Sound
  <1>3. QED
    BY <1>1, <1>2, OutcomeOf

LEMMA ClosingOutcome ==
  ASSUME relay \in [Relays -> Relay], NEW r \in Relays, Sound(relay[r]),
         \/ (\E who \in Closer : ClosesFlow(r, who)) \/ UserAsks(r) \/ UserCloses(r) \/ Reap(r) \/ ShutsDown(r)
  PROVE  Outcome(r)
  <1> DEFINE x == relay[r]
  <1>0. x \in Relay /\ Sound(x)
    OBVIOUS
  <1> HIDE DEF x
  <1>1. ASSUME NEW who \in Closer, ClosesFlow(r, who) PROVE Outcome(r)
    <2> DEFINE calls == x.closers \ {who}
    <2>1. calls \in SUBSET Call /\ who # "asked" /\ x.at # "new"
      BY <1>0, <1>1 DEF Relay, Closer, ClosesFlow, Sound, x
    <2>2. Moves(r, [x EXCEPT !.closers = calls])
      BY <1>1 DEF ClosesFlow, x
    <2>3. "asked" \in x.closers => "asked" \in calls
      BY <2>1
    <2> HIDE DEF calls
    <2>4. Sound([x EXCEPT !.closers = calls])
      BY <1>0, <2>1, <2>3, CallsIs DEF Sound
    <2>5. QED
      BY <1>0, <2>1, <2>2, <2>4, CallsIs, OutcomeOf DEF x
  <1>2. ASSUME UserAsks(r) PROVE Outcome(r)
    <2> DEFINE calls == x.closers \cup {"asked"}
    <2> DEFINE y == [x EXCEPT !.closers = calls]
    <2>1. calls \in SUBSET Call /\ "asked" \in calls /\ x.at # "new" /\ x.listed
      BY <1>0, <1>2 DEF Relay, Call, UserAsks, Sound, x
    <2>2. Moves(r, IF x.at = "dialling" THEN Gone(y) ELSE y)
      BY <1>2 DEF UserAsks, x
    <2> HIDE DEF calls
    <2>3. /\ y \in Relay /\ y.at = x.at /\ y.id = x.id /\ y.gen = x.gen /\ y.flow = x.flow
          /\ y.listed = x.listed /\ y.chan = x.chan /\ y.releases = x.releases
          /\ y.up = x.up /\ y.down = x.down /\ y.reaper = x.reaper /\ y.closers = calls
      BY <1>0, <2>1, CallsIs
    <2> HIDE DEF y
    <2>4. Sound(y)
      BY <1>0, <2>1, <2>3 DEF Sound
    <2>5. Gone(y) \in Relay /\ Sound(Gone(y)) /\ Gone(y).id = x.id /\ Gone(y).gen = x.gen
      BY <2>1, <2>3, <2>4, GoneSound
    <2>6. QED
      BY <1>0, <2>2, <2>3, <2>4, <2>5, OutcomeOf DEF x
  <1>3. ASSUME UserCloses(r) PROVE Outcome(r)
    <2> DEFINE b == Begun(x, "user")
    <2> DEFINE calls == b.closers \ {"asked"}
    <2>1. x.at # "new" /\ "user" \in Call
      BY <1>0, <1>3 DEF UserCloses, Sound, Call, Closer, x
    <2>2. b \in Relay /\ Sound(b) /\ ~b.listed /\ b.id = x.id /\ b.gen = x.gen
      BY <1>0, <2>1, BegunSound, BegunIs
    <2>3. Moves(r, [b EXCEPT !.closers = calls])
      BY <1>3 DEF UserCloses, x
    <2> HIDE DEF b
    <2>4. calls \in SUBSET Call /\ b.at # "new"
      BY <1>0, <2>1, <2>2, BegunIs DEF Relay, b
    <2> HIDE DEF calls
    <2>5. Sound([b EXCEPT !.closers = calls])
      BY <2>2, <2>4, CallsIs DEF Sound
    <2>6. QED
      BY <1>0, <2>2, <2>3, <2>4, <2>5, CallsIs, OutcomeOf DEF x
  <1>4. ASSUME Reap(r) PROVE Outcome(r)
    <2>1. Moves(r, Reaped(x)) /\ x.at # "new"
      BY <1>0, <1>4 DEF Reap, Sound, x
    <2> DEFINE y == Reaped(x)
    <2>2. /\ y \in Relay /\ y.at = x.at /\ y.id = x.id /\ y.gen = x.gen /\ y.flow = x.flow
          /\ y.listed = x.listed /\ y.chan = FALSE /\ y.releases = x.releases
          /\ y.up = x.up /\ y.down = x.down /\ y.closers = x.closers \cup {"reaper"}
      BY <1>0, ReapedIs
    <2> HIDE DEF y
    <2>3. Sound(y)
      BY <1>0, <2>1, <2>2 DEF Sound
    <2>4. QED
      BY <1>0, <2>1, <2>2, <2>3, OutcomeOf DEF x, y
  <1>5. ASSUME ShutsDown(r) PROVE Outcome(r)
    <2>1. x.at # "new" /\ "shutdown" \in Call /\ Moves(r, Begun(x, "shutdown"))
      BY <1>0, <1>5 DEF ShutsDown, Sound, Call, Closer, x
    <2>2. QED
      BY <1>0, <2>1, BegunSound, BegunIs, OutcomeOf DEF x
  <1>6. QED
    BY <1>1, <1>2, <1>3, <1>4, <1>5

LEMMA AtSound ==
  ASSUME NEW x \in Relay, Sound(x), NEW a \in ServeAt,
         \/ x.at = "dialling" /\ a = "asking"
         \/ x.at = "asking" /\ a = "opening" /\ carrier = "tls"
         \/ x.at = "opening" /\ a = "answered"
         \/ x.at = "opening" /\ a = "lost" /\ ~x.listed
  PROVE  /\ [x EXCEPT !.at = a] \in Relay /\ Sound([x EXCEPT !.at = a])
         /\ [x EXCEPT !.at = a].id = x.id /\ [x EXCEPT !.at = a].gen = x.gen
  <1> DEFINE g == [x EXCEPT !.at = a]
  <1>1. /\ g \in Relay /\ g.at = a /\ g.id = x.id /\ g.gen = x.gen /\ g.flow = x.flow
        /\ g.listed = x.listed /\ g.chan = x.chan /\ g.releases = x.releases
        /\ g.up = x.up /\ g.down = x.down /\ g.reaper = x.reaper /\ g.closers = x.closers
    BY AtIs
  <1> HIDE DEF g
  <1>2. Sound(g)
    BY <1>1 DEF Sound
  <1>3. QED
    BY <1>1, <1>2 DEF g

LEMMA ServeOutcome ==
  ASSUME relay \in [Relays -> Relay], conn \in Connection, NEW r \in Relays, Sound(relay[r]),
         \/ CheckOpen(r) \/ TakesStream(r) \/ Connects(r) \/ Answered(r) \/ FirstSendFails(r)
         \/ OpeningThrows(r) \/ DialFails(r) \/ Assigns(r) \/ Checks(r) \/ ServeEnds(r)
  PROVE  Outcome(r)
  <1> DEFINE x == relay[r]
  <1>0. x \in Relay /\ Sound(x)
    OBVIOUS
  <1>x. x = relay[r]
    OBVIOUS
  <1> HIDE DEF x
  <1>c. "serve" \in Call /\ {"asking", "opening", "answered", "lost"} \subseteq ServeAt
    BY DEF Call, Closer, ServeAt
  <1>b. x.at # "new" => /\ Begun(x, "serve") \in Relay /\ Sound(Begun(x, "serve"))
                        /\ Begun(x, "serve").id = x.id /\ Begun(x, "serve").gen = x.gen
                        /\ Gone(Begun(x, "serve")) \in Relay /\ Sound(Gone(Begun(x, "serve")))
                        /\ Gone(Begun(x, "serve")).id = x.id /\ Gone(Begun(x, "serve")).gen = x.gen
    BY <1>0, <1>c, BegunSound
  <1>1. ASSUME CheckOpen(r) PROVE Outcome(r)
    <2>1. x.at = "dialling" /\ Moves(r, IF SessionClosed THEN Gone(Begun(x, "serve")) ELSE [x EXCEPT !.at = "asking"])
      BY <1>1, <1>x DEF CheckOpen
    <2>2. QED
      BY <1>0, <1>x, <1>c, <1>b, <2>1, AtSound, OutcomeOf
  <1>2. ASSUME TakesStream(r) PROVE Outcome(r)
    <2> DEFINE f == Derived(conn.next)
               g == conn.gen
               y == Streamed(x, f, g)
    <2>1. /\ x.at = "asking" /\ Moves(r, y)
          /\ f \in FlowIds /\ f # 0 /\ g \in 0 .. MaxGenerations
      BY <1>2, <1>x, IdsNatural DEF TakesStream, Connection, Streamed
    <2> HIDE DEF f, g
    <2>2. /\ y \in Relay /\ y.at = "opening" /\ y.flow = x.flow /\ y.id = f
          /\ y.listed = x.listed /\ y.chan = x.chan /\ y.releases = x.releases
          /\ y.up = x.up /\ y.down = x.down /\ y.reaper = x.reaper /\ y.closers = x.closers
      BY <1>0, <2>1, StreamIs
    <2> HIDE DEF y
    <2>3. Sound(y)
      BY <1>0, <2>1, <2>2 DEF Sound
    <2>4. QED
      BY <1>2, <2>1, <2>2, <2>3, OutcomeOf
  <1>3. ASSUME Connects(r) \/ Answered(r) PROVE Outcome(r)
    <2>1. \/ x.at = "asking" /\ carrier = "tls" /\ Moves(r, [x EXCEPT !.at = "opening"])
          \/ x.at = "opening" /\ Moves(r, [x EXCEPT !.at = "answered"])
      BY <1>3, <1>x DEF Connects, Answered
    <2>2. QED
      BY <1>0, <1>x, <1>c, <2>1, AtSound, OutcomeOf
  <1>4. ASSUME FirstSendFails(r) \/ OpeningThrows(r) PROVE Outcome(r)
    <2> DEFINE b == Begun(x, "serve")
    <2>1. x.at = "opening" /\ Moves(r, [b EXCEPT !.at = "lost"])
      BY <1>4, <1>x DEF FirstSendFails, OpeningThrows, Lost
    <2>2. b \in Relay /\ Sound(b) /\ b.at = x.at /\ ~b.listed /\ b.id = x.id /\ b.gen = x.gen
      BY <1>0, <1>c, <1>b, <2>1, BegunIs
    <2> HIDE DEF b
    <2>3. QED
      BY <1>x, <1>c, <2>1, <2>2, AtSound, OutcomeOf
  <1>5. ASSUME DialFails(r) PROVE Outcome(r)
    <2>1. x.at # "new" /\ Moves(r, Gone(Begun(x, "serve")))
      BY <1>5, <1>x DEF DialFails
    <2>2. QED
      BY <1>x, <1>b, <2>1, OutcomeOf
  <1>6. ASSUME Assigns(r) PROVE Outcome(r)
    <2> DEFINE y == [x EXCEPT !.at = "assigned", !.flow = TRUE]
    <2>1. x.at = "answered" /\ Moves(r, y)
      BY <1>6, <1>x DEF Assigns
    <2>2. /\ y \in Relay /\ y.at = "assigned" /\ y.flow = TRUE /\ y.id = x.id /\ y.gen = x.gen
          /\ y.listed = x.listed /\ y.chan = x.chan /\ y.releases = x.releases
          /\ y.up = x.up /\ y.down = x.down /\ y.reaper = x.reaper /\ y.closers = x.closers
      BY <1>0, AssignedIs
    <2> HIDE DEF y
    <2>3. Sound(y)
      BY <1>0, <2>1, <2>2 DEF Sound
    <2>4. QED
      BY <1>x, <2>1, <2>2, <2>3, OutcomeOf
  <1>7. ASSUME Checks(r) PROVE Outcome(r)
    <2> DEFINE y == Opened(x)
    <2>1. x.at = "assigned" /\ Moves(r, IF x.chan THEN y ELSE Gone(Begun(x, "serve")))
      BY <1>7, <1>x DEF Checks, Checked
    <2>2. /\ y \in Relay /\ y.at = "open" /\ y.flow = x.flow /\ y.id = x.id /\ y.gen = x.gen
          /\ y.listed = x.listed /\ y.chan = x.chan /\ y.releases = x.releases
          /\ y.closers = x.closers
      BY <1>0, OpenIs
    <2> HIDE DEF y
    <2>3. Sound(y)
      BY <1>0, <2>1, <2>2 DEF Sound
    <2>4. QED
      BY <1>x, <1>b, <2>1, <2>2, <2>3, OutcomeOf
  <1>8. ASSUME ServeEnds(r) PROVE Outcome(r)
    <2> DEFINE g == Gone(Begun(x, "serve"))
    <2>1. /\ x.at = "open"
          /\ \/ Moves(r, [g EXCEPT !.reaper = FALSE])
             \/ (~x.listed \/ "asked" \in x.closers) /\ Moves(r, Gone(x))
      BY <1>8, <1>x DEF ServeEnds
    <2>2. CASE Moves(r, [g EXCEPT !.reaper = FALSE])
      <3>1. g \in Relay /\ Sound(g) /\ g.id = x.id /\ g.gen = x.gen
        BY <1>b, <2>1
      <3> HIDE DEF g
      <3>2. QED
        BY <1>x, <2>2, <3>1, RestedIs, RestedSound, OutcomeOf
    <2>3. CASE (~x.listed \/ "asked" \in x.closers) /\ Moves(r, Gone(x))
      BY <1>0, <1>x, <2>1, <2>3, GoneSound, OutcomeOf
    <2>4. QED
      BY <2>1, <2>2, <2>3
  <1>9. QED
    BY <1>1, <1>2, <1>3, <1>4, <1>5, <1>6, <1>7, <1>8

LEMMA PumpOutcome ==
  ASSUME relay \in [Relays -> Relay], NEW r \in Relays, Sound(relay[r]),
         UpEnds(r) \/ Takes(r) \/ DownEnds(r) \/ SocketDies(r)
  PROVE  Outcome(r)
  <1> DEFINE x == relay[r]
  <1>0. x \in Relay /\ Sound(x) /\ x = relay[r]
    OBVIOUS
  <1> HIDE DEF x
  <1>1. ASSUME UpEnds(r) PROVE Outcome(r)
    <2> DEFINE y == [x EXCEPT !.up = FALSE]
    <2>1. Moves(r, y)
      BY <1>0, <1>1 DEF UpEnds
    <2>2. /\ y \in Relay /\ y.at = x.at /\ y.flow = x.flow /\ y.id = x.id /\ y.gen = x.gen
          /\ y.listed = x.listed /\ y.chan = x.chan /\ y.releases = x.releases
          /\ y.up = FALSE /\ y.down = x.down /\ y.reaper = x.reaper /\ y.closers = x.closers
      BY <1>0, UpIs
    <2> HIDE DEF y
    <2>3. Sound(y)
      BY <1>0, <2>2 DEF Sound
    <2>4. QED
      BY <1>0, <2>1, <2>2, <2>3, OutcomeOf
  <1>2. ASSUME DownEnds(r) PROVE Outcome(r)
    <2> DEFINE y == [x EXCEPT !.down = FALSE]
    <2>1. Moves(r, y)
      BY <1>0, <1>2 DEF DownEnds
    <2>2. /\ y \in Relay /\ y.at = x.at /\ y.flow = x.flow /\ y.id = x.id /\ y.gen = x.gen
          /\ y.listed = x.listed /\ y.chan = x.chan /\ y.releases = x.releases
          /\ y.up = x.up /\ y.down = FALSE /\ y.reaper = x.reaper /\ y.closers = x.closers
      BY <1>0, DownIs
    <2> HIDE DEF y
    <2>3. Sound(y)
      BY <1>0, <2>2 DEF Sound
    <2>4. QED
      BY <1>0, <2>1, <2>2, <2>3, OutcomeOf
  <1>3. ASSUME Takes(r) \/ SocketDies(r) PROVE Outcome(r)
    BY <1>3, Unchanging DEF Takes, SocketDies
  <1>4. QED
    BY <1>1, <1>2, <1>3

\* Every step of a relay keeps its record sound and leaves the others alone.
LEMMA RelayOutcome ==
  ASSUME relay \in [Relays -> Relay], conn \in Connection, NEW r \in Relays, Sound(relay[r]), RelaySteps(r)
  PROVE  Outcome(r)
  BY OfferOutcome, ClosingOutcome, ServeOutcome, PumpOutcome DEF RelaySteps

-----------------------------------------------------------------------------
(* The types. *)

LEMMA FrameKinds ==
  ASSUME NEW fr \in Frame
  PROVE  /\ fr.flow \in FlowIds
         /\ fr.type = "fragment" => fr \in Fragment /\ fr.of \in Packets
         /\ fr.type = "data" => fr.of \in Packets
  BY DEF Frame, Data, Close, Fragment

LEMMA RouteType ==
  ASSUME inbound \in [FlowIds -> SUBSET Item], NEW f \in FlowIds, NEW item \in Item, Route(f, item)
  PROVE  inbound' \in [FlowIds -> SUBSET Item]
  BY DEF Route

LEMMA DemultiplexType ==
  ASSUME LaneType, NEW fr, NEW old, Demultiplex(fr, old)
  PROVE  LaneType'
  <1> DEFINE live == Unexpired(old)
  <1>1. fr \in Frame /\ wire' \subseteq Frame /\ ready' = ready /\ queued' = queued
    BY DEF Demultiplex, LaneType
  <1>2. fr.flow \in FlowIds /\ live \subseteq Fragment
    BY <1>1, FrameKinds DEF LaneType, Unexpired
  <1>3. CASE fr.type = "data"
    <2>1. {fr.of} \in Item
      BY <1>1, <1>3, FrameKinds DEF Item
    <2>2. held' = live /\ Route(fr.flow, {fr.of})
      BY <1>3 DEF Demultiplex
    <2>3. QED
      BY <1>1, <1>2, <2>1, <2>2, RouteType DEF LaneType
  <1>4. CASE fr.type = "close"
    <2>1. CLOSED \in Item
      BY DEF Item, CLOSED
    <2>2. held' \subseteq live /\ Route(fr.flow, CLOSED)
      BY <1>4 DEF Demultiplex
    <2>3. QED
      BY <1>1, <1>2, <2>1, <2>2, RouteType DEF LaneType
  <1>5. CASE fr.type = "fragment"
    <2>1. fr \in Fragment
      BY <1>1, <1>5, FrameKinds
    <2>2. CASE Discards(fr, live)
      BY <1>1, <1>2, <2>2 DEF Discards, LaneType
    <2>3. CASE Keeps(fr, live)
      <3>1. PICK room \in MakesRoom(fr, live) : held' = room \cup {fr}
        BY <2>3 DEF Keeps
      <3>2. room \subseteq live
        BY <3>1 DEF MakesRoom
      <3>3. QED
        BY <1>1, <1>2, <2>1, <2>3, <3>1, <3>2 DEF Keeps, LaneType
    <2>4. CASE Completes(fr, live)
      <3> DEFINE slot == SlotOf(fr, live) \cup {fr}
      <3>1. slot \subseteq Fragment
        BY <1>2, <2>1 DEF SlotOf
      <3>2. Assembled(slot) \in Item
        BY <3>1, Zenon DEF Assembled, Fragment, Item
      <3>3. held' \subseteq live /\ Route(fr.flow, Assembled(slot))
        BY <2>4 DEF Completes
      <3>4. QED
        BY <1>1, <1>2, <3>2, <3>3, RouteType DEF LaneType
    <2>5. QED
      BY <1>5, <2>2, <2>3, <2>4 DEF Demultiplex
  <1>6. QED
    BY <1>3, <1>4, <1>5 DEF Demultiplex

SessionType == /\ carrier \in {"quic", "tls"} /\ stage \in {"up", "handlers", "session", "down"}
               /\ conn \in Connection
               /\ route \in [FlowIds -> Relays \cup {NoRelay}]
               /\ sockets \subseteq Relays /\ lanes \subseteq Relays
               /\ sent \subseteq Packets
               /\ got \in [Relays -> SUBSET Item]

LEMMA TypeParts == TypeOK <=> LaneType /\ SessionType /\ relay \in [Relays -> Relay]
  BY DEF TypeOK, SessionType

LEMMA ConnectionNext ==
  ASSUME SessionType, NEW r \in Relays, TakesStream(r)
  PROVE  /\ conn' \in Connection
         /\ conn'.gen = conn.gen /\ conn'.alive = conn.alive /\ conn'.next = conn.next + 1
         /\ conn'.authed = (conn.authed \/ conn.next = 0)
  <1> DEFINE n == conn.next + 1
             b == (conn.authed \/ conn.next = 0)
             c == conn
  <1>1. c \in Connection /\ conn' = [c EXCEPT !.next = n, !.authed = b]
    BY DEF TakesStream, NeedsAuth, SessionType
  <1>2. n \in StreamNumber /\ b \in BOOLEAN
    <2>1. n \in FlowIds /\ conn.next \in StreamNumber
      BY DEF TakesStream, Derived, SessionType, Connection
    <2>2. n <= Cardinality(FlowIds) /\ n \in Nat
      BY <2>1, IdsNatural
    <2>3. QED
      BY <2>2, IdsNatural DEF StreamNumber
  <1> HIDE DEF n, b, c
  <1>3. /\ [c EXCEPT !.next = n, !.authed = b] \in Connection
        /\ [c EXCEPT !.next = n, !.authed = b].gen = c.gen
        /\ [c EXCEPT !.next = n, !.authed = b].alive = c.alive
        /\ [c EXCEPT !.next = n, !.authed = b].next = n
        /\ [c EXCEPT !.next = n, !.authed = b].authed = b
    BY <1>1, <1>2, Zenon DEF Connection
  <1>4. QED
    BY <1>1, <1>3 DEF n, b, c

LEMMA ConnectionDown ==
  ASSUME SessionType, ConnectionGone
  PROVE  /\ conn' \in Connection
         /\ conn'.gen = conn.gen /\ conn'.alive = FALSE /\ conn'.next = conn.next
         /\ conn'.authed = conn.authed
  <1> DEFINE c == conn
  <1>1. c \in Connection /\ conn' = [c EXCEPT !.alive = FALSE]
    BY DEF ConnectionGone, SessionType
  <1> HIDE DEF c
  <1>2. /\ [c EXCEPT !.alive = FALSE] \in Connection
        /\ [c EXCEPT !.alive = FALSE].gen = c.gen
        /\ [c EXCEPT !.alive = FALSE].alive = FALSE
        /\ [c EXCEPT !.alive = FALSE].next = c.next
        /\ [c EXCEPT !.alive = FALSE].authed = c.authed
    BY <1>1, Zenon DEF Connection
  <1>3. QED
    BY <1>1, <1>2 DEF c

LEMMA Rebuilt ==
  ASSUME SessionType, Rebuild
  PROVE  conn' \in Connection /\ conn'.gen = conn.gen + 1 /\ conn'.next = 0 /\ ~conn.alive /\ ~conn'.authed
  <1>1. conn.gen + 1 \in 1 .. MaxGenerations /\ 0 \in StreamNumber
    BY GenerationsAssumption, IdsNatural DEF Rebuild, SessionType, Connection, StreamNumber
  <1>2. QED
    BY <1>1 DEF Rebuild, Connection

LEMMA LaneKept ==
  ASSUME LaneType, UNCHANGED laneVars
  PROVE  LaneType'
  BY DEF LaneType, laneVars

LEMMA ForgetType ==
  ASSUME LaneType, NEW f, Forget(f)
  PROVE  LaneType'
  BY DEF LaneType, Forget, Item

LEMMA RelayStepType ==
  ASSUME TypeOK, NEW r \in Relays, Sound(relay[r]), RelaySteps(r)
  PROVE  LaneType' /\ SessionType'
  <1>0. LaneType /\ SessionType /\ relay \in [Relays -> Relay] /\ relay[r] \in Relay /\ conn \in Connection
    BY TypeParts DEF SessionType
  <1>i. relay[r].id \in FlowIds \cup {0}
    BY <1>0 DEF Relay
  <1>1. ASSUME UNCHANGED <<laneVars, sessionVars, history>>, sockets' \subseteq Relays, lanes' \subseteq Relays
        PROVE  LaneType' /\ SessionType'
    BY <1>0, <1>1, LaneKept DEF SessionType, sessionVars, history
  <1>2. ASSUME \/ Offer(r) \/ UserAsks(r) \/ UserCloses(r) \/ Reap(r) \/ CheckOpen(r) \/ DialFails(r)
               \/ Assigns(r) \/ Checks(r) \/ ServeEnds(r) \/ UpEnds(r) \/ DownEnds(r) \/ ShutsDown(r)
               \/ Connects(r) \/ SocketDies(r) \/ OpeningThrows(r)
        PROVE  LaneType' /\ SessionType'
    <2>1. UNCHANGED <<laneVars, sessionVars, history>> /\ sockets' \subseteq Relays /\ lanes' \subseteq Relays
      BY <1>0, <1>2 DEF SessionType, tlsVars, Offer, UserAsks, UserCloses, Reap, CheckOpen, DialFails,
           Assigns, Checks, ServeEnds, UpEnds, DownEnds, ShutsDown, Connects, SocketDies, OpeningThrows
    <2>2. QED
      BY <1>1, <2>1
  <1>3. ASSUME NEW who \in Closer, ClosesFlow(r, who) PROVE LaneType' /\ SessionType'
    <2>1. LaneType'
      BY <1>0, <1>3, LaneKept, ForgetType DEF ClosesFlow
    <2>2. route' \in [FlowIds -> Relays \cup {NoRelay}]
      BY <1>0, <1>3 DEF ClosesFlow, SessionType
    <2>3. sockets' \subseteq Relays /\ lanes' \subseteq Relays /\ UNCHANGED <<carrier, stage, conn, history>>
      BY <1>0, <1>3 DEF ClosesFlow, SessionType, tlsVars
    <2>4. QED
      BY <1>0, <2>1, <2>2, <2>3 DEF SessionType, history
  <1>4. ASSUME TakesStream(r) PROVE LaneType' /\ SessionType'
    <2>1. conn' \in Connection
      BY <1>0, <1>4, ConnectionNext
    <2>2. route' \in [FlowIds -> Relays \cup {NoRelay}]
      BY <1>0, <1>4 DEF TakesStream, SessionType
    <2>3. QED
      BY <1>0, <1>4, <2>1, <2>2, LaneKept DEF TakesStream, SessionType, tlsVars, history
  <1>5. ASSUME Answered(r) \/ FirstSendFails(r) PROVE LaneType' /\ SessionType'
    <2>1. relay[r].at = "opening" /\ Readied(r)
      BY <1>5 DEF Answered, FirstSendFails
    <2>2. carrier = "quic" => relay[r].id \in FlowIds
      BY <1>i, <2>1 DEF Sound
    <2>3. LaneType'
      BY <1>0, <2>1, <2>2, LaneKept DEF Readied, MarkReady, LaneType
    <2>4. UNCHANGED <<carrier, stage, conn, route, lanes, sent, got>> /\ sockets' \subseteq Relays
      BY <1>0, <1>5 DEF Answered, FirstSendFails, sessionVars, tlsVars, history, SessionType
    <2>5. QED
      BY <1>0, <2>3, <2>4 DEF SessionType
  <1>6. ASSUME Takes(r) PROVE LaneType' /\ SessionType'
    <2>1. PICK item \in Item :
            /\ Poll(relay[r].id, item)
            /\ got' = IF item = CLOSED THEN got ELSE [got EXCEPT ![r] = @ \cup {item}]
      BY <1>6 DEF Takes
    <2>2. LaneType'
      BY <1>0, <2>1 DEF Poll, LaneType
    <2>3. got' \in [Relays -> SUBSET Item]
      BY <1>0, <2>1 DEF SessionType
    <2>4. QED
      BY <1>0, <1>6, <2>2, <2>3 DEF Takes, SessionType, sessionVars, tlsVars
  <1>7. QED
    BY <1>2, <1>3, <1>4, <1>5, <1>6 DEF RelaySteps

LEMMA OtherStepType ==
  ASSUME TypeOK,
         \/ Rebuild \/ Demultiplexes \/ ConnectionDies \/ Stops \/ HandlersShut \/ SessionCloses
         \/ (\E f \in FlowIds : FarEndCloses(f) \/ \E p \in Packets : FarEndSends(f, p))
  PROVE  LaneType' /\ SessionType'
  <1>0. LaneType /\ SessionType /\ conn \in Connection
    BY TypeParts DEF SessionType
  <1>1. ASSUME Rebuild PROVE LaneType' /\ SessionType'
    BY <1>0, <1>1, Rebuilt, LaneKept DEF Rebuild, SessionType, tlsVars, history
  <1>2. ASSUME Demultiplexes PROVE LaneType' /\ SessionType'
    BY <1>0, <1>2, DemultiplexType DEF Demultiplexes, SessionType, sessionVars, tlsVars, history
  <1>3. ASSUME ConnectionGone PROVE LaneType' /\ conn' \in Connection /\ route' \in [FlowIds -> Relays \cup {NoRelay}]
    BY <1>0, <1>3, ConnectionDown DEF ConnectionGone, WireLost, LaneType
  <1>4. ASSUME ConnectionDies \/ SessionCloses PROVE LaneType' /\ SessionType'
    BY <1>0, <1>3, <1>4 DEF ConnectionDies, SessionCloses, SessionType, tlsVars, history
  <1>5. ASSUME Stops \/ HandlersShut PROVE LaneType' /\ SessionType'
    BY <1>0, <1>5, LaneKept DEF Stops, HandlersShut, SessionType, tlsVars, history
  <1>6. ASSUME NEW f \in FlowIds, FarEndCloses(f) PROVE LaneType' /\ SessionType'
    <2>1. [type |-> "close", flow |-> f] \in Frame
      BY DEF Frame, Close
    <2>2. LaneType'
      BY <1>0, <1>6, <2>1 DEF FarEndCloses, LaneType
    <2>3. QED
      BY <1>0, <1>6, <2>2 DEF FarEndCloses, SessionType, tlsVars, history
  <1>7. ASSUME NEW f \in FlowIds, NEW p \in Packets, FarEndSends(f, p) PROVE LaneType' /\ SessionType'
    <2>1. Whole(f, p) \subseteq Frame
      BY DEF Whole, Frame, Data
    <2>2. ASSUME NEW c \in Counts PROVE Pieces(f, IdOf[p], p, c) \subseteq Frame
      <3>1. IdOf[p] \in PacketIds /\ (0 .. c - 1) \subseteq Index
        BY IdOfAssumption DEF Index
      <3>2. ASSUME NEW k \in 0 .. c - 1
            PROVE  [type |-> "fragment", flow |-> f, id |-> IdOf[p], index |-> k, count |-> c, of |-> p] \in Fragment
        BY <3>1, <3>2 DEF Fragment
      <3>3. QED
        BY <3>2 DEF Pieces, Frame
    <2>3. LaneType'
      BY <1>0, <1>7, <2>1, <2>2 DEF FarEndSends, LaneType
    <2>4. QED
      BY <1>0, <1>7, <2>3 DEF FarEndSends, SessionType, sessionVars, tlsVars
  <1>8. QED
    BY <1>1, <1>2, <1>4, <1>5, <1>6, <1>7

AllSound == TypeOK /\ \A r \in Relays : Sound(relay[r])

\* carrier is fixed when the session is built, so a record that is not touched
\* stays sound.
LEMMA CarrierStays ==
  ASSUME [Next]_vars
  PROVE  carrier' = carrier
  <1>1. ASSUME NEW r \in Relays, RelaySteps(r) PROVE carrier' = carrier
    BY <1>1 DEF RelaySteps, Offer, UserAsks, UserCloses, Reap, CheckOpen, ClosesFlow, TakesStream, Connects,
       Answered, FirstSendFails, Lost, OpeningThrows, DialFails, Assigns, Checks, ServeEnds, UpEnds, Takes, DownEnds, SocketDies,
       ShutsDown, sessionVars
  <1>2. QED
    BY <1>1 DEF Next, vars, sessionVars, Rebuild, Demultiplexes, ConnectionDies, FarEndCloses, FarEndSends,
       Stops, HandlersShut, SessionCloses

LEMMA ScrappedSound ==
  ASSUME NEW x \in Relay, Sound(x), ~x.listed
  PROVE  Scrapped(x) \in Relay /\ Sound(Scrapped(x)) /\ Scrapped(x).id = x.id /\ Scrapped(x).gen = x.gen
  <1> DEFINE g == Scrapped(x)
  <1>1. /\ g \in Relay /\ g.at = (IF x.at = "dialling" THEN "ended" ELSE x.at)
        /\ g.id = x.id /\ g.gen = x.gen /\ g.flow = x.flow
        /\ g.listed = x.listed /\ g.chan = x.chan /\ g.releases = x.releases
        /\ g.up = x.up /\ g.down = x.down /\ g.reaper = FALSE /\ g.closers = x.closers \ {"asked"}
    BY ScrappedIs
  <1> HIDE DEF g
  <1>2. Sound(g)
    BY <1>1 DEF Sound
  <1>3. QED
    BY <1>1, <1>2 DEF g

\* What HandlersShut leaves of every relay.
LEMMA ScrapOutcome ==
  ASSUME AllSound, HandlersShut
  PROVE  /\ relay' \in [Relays -> Relay]
         /\ \A r \in Relays : /\ relay'[r] = Scrapped(relay[r]) /\ Sound(relay'[r])
                              /\ relay'[r].id = relay[r].id /\ relay'[r].gen = relay[r].gen
  <1>1. relay \in [Relays -> Relay]
    BY TypeParts DEF AllSound
  <1>2. ASSUME NEW r \in Relays
        PROVE  /\ relay'[r] = Scrapped(relay[r]) /\ Scrapped(relay[r]) \in Relay
               /\ Sound(Scrapped(relay[r])) /\ Scrapped(relay[r]).id = relay[r].id
               /\ Scrapped(relay[r]).gen = relay[r].gen
    BY <1>1, ScrappedSound DEF AllSound, HandlersShut
  <1>3. relay' = [r \in Relays |-> Scrapped(relay[r])]
    BY DEF HandlersShut
  <1>4. QED
    BY <1>2, <1>3

LEMMA OthersLeaveRelays ==
  ASSUME \/ Rebuild \/ Demultiplexes \/ ConnectionDies \/ Stops \/ SessionCloses
         \/ (\E f \in FlowIds : FarEndCloses(f) \/ \E p \in Packets : FarEndSends(f, p))
  PROVE  UNCHANGED relay
  BY DEF Rebuild, Demultiplexes, ConnectionDies, Stops, SessionCloses, FarEndCloses, FarEndSends

LEMMA AllSoundStep ==
  ASSUME AllSound, [Next]_vars
  PROVE  AllSound'
  <1>0. TypeOK /\ conn \in Connection /\ relay \in [Relays -> Relay] /\ carrier' = carrier
    BY TypeParts, CarrierStays DEF AllSound, SessionType
  <1>1. ASSUME NEW r \in Relays, RelaySteps(r) PROVE AllSound'
    <2>1. Outcome(r)
      BY <1>0, <1>1, RelayOutcome DEF AllSound
    <2>2. LaneType' /\ SessionType'
      BY <1>0, <1>1, RelayStepType DEF AllSound
    <2>3. TypeOK'
      BY <2>1, <2>2 DEF Outcome, TypeOK, SessionType
    <2>4. \A q \in Relays : Sound(relay'[q])
      BY <2>1 DEF Outcome, AllSound
    <2>5. QED
      BY <1>0, <2>3, <2>4 DEF AllSound, Sound
  <1>2. CASE HandlersShut
    <2>1. LaneType' /\ SessionType'
      BY <1>0, <1>2, OtherStepType
    <2>2. TypeOK' /\ \A q \in Relays : Sound(relay'[q])
      BY <1>2, <2>1, ScrapOutcome DEF TypeOK, SessionType
    <2>3. QED
      BY <1>0, <2>2 DEF AllSound, Sound
  <1>3. CASE \/ Rebuild \/ Demultiplexes \/ ConnectionDies \/ Stops \/ SessionCloses
             \/ (\E f \in FlowIds : FarEndCloses(f) \/ \E p \in Packets : FarEndSends(f, p))
    <2>1. LaneType' /\ SessionType' /\ relay' = relay
      BY <1>0, <1>3, OtherStepType, OthersLeaveRelays
    <2>2. TypeOK'
      BY <1>0, <2>1 DEF TypeOK, SessionType
    <2>3. QED
      BY <1>0, <2>1, <2>2 DEF AllSound, Sound
  <1>4. CASE UNCHANGED vars
    BY <1>0, <1>4 DEF AllSound, Sound, TypeOK, vars, laneVars, LaneType, sessionVars, tlsVars, history
  <1>5. QED
    BY <1>1, <1>2, <1>3, <1>4 DEF Next

LEMMA InitSound ==
  ASSUME Init
  PROVE  AllSound
  <1>1. conn \in Connection
    BY GenerationsAssumption, IdsNatural DEF Init, Connection, StreamNumber
  <1>2. LaneType
    BY DEF Init, LaneInit, LaneType, Frame, Fragment
  <1>3. relay \in [Relays -> Relay] /\ \A r \in Relays : relay[r] = Fresh
    BY OfferedIs DEF Init
  <1>4. SessionType
    BY <1>1, RelaysAssumption DEF Init, SessionType, Item
  <1>5. Sound(Fresh)
    BY DEF Fresh, Sound
  <1>6. QED
    BY <1>2, <1>3, <1>4, <1>5 DEF AllSound, TypeOK, SessionType

\* Every relay's record is sound, for any number of relays and connections.
THEOREM Soundness == Spec => []AllSound
  <1>1. Init => AllSound
    BY InitSound
  <1>2. AllSound /\ [Next]_vars => AllSound'
    BY AllSoundStep
  <1>3. QED
    BY <1>1, <1>2, PTL DEF Spec

\* Everything keeps its type.
THEOREM TypeCorrect == Spec => []TypeOK
  <1>1. AllSound => TypeOK
    BY DEF AllSound
  <1>2. QED
    BY <1>1, Soundness, PTL

\* No relay stays in the table without a coroutine that serves it or a closer
\* that takes it out.
THEOREM NoZombieInTable == Spec => []TableIsServed
  <1>1. AllSound => TableIsServed
    BY DEF AllSound, Sound, TableIsServed
  <1>2. QED
    BY <1>1, Soundness, PTL

-----------------------------------------------------------------------------
(* The table is empty once the handlers are shut, and nothing puts a relay   *)
(* back into it.                                                             *)

Out(x) == x \in Relay /\ ~x.listed
Emptied == stage \in {"session", "down"} => \A r \in Relays : ~relay[r].listed

LEMMA StaysOut ==
  ASSUME relay \in [Relays -> Relay], conn \in Connection, NEW r \in Relays, RelaySteps(r), ~Offer(r),
         ~relay[r].listed
  PROVE  ~relay'[r].listed
  <1> DEFINE x == relay[r]
  <1>0. Out(x)
    BY DEF Out
  <1>x. x = relay[r]
    OBVIOUS
  <1> HIDE DEF x
  <1>c. /\ {"user", "reaper", "serve", "shutdown", "asked"} \subseteq Call /\ Closer \subseteq Call
        /\ {"asking", "opening", "answered", "lost", "ended"} \subseteq ServeAt
    BY DEF Call, Closer, ServeAt
  <1>1. ASSUME NEW rec, Out(rec), Moves(r, rec) PROVE ~relay'[r].listed
    BY <1>1, MovesIs DEF Out
  <1>2. ASSUME NEW rec \in Relay, NEW who \in Call PROVE Out(Begun(rec, who))
    BY <1>2, BegunIs DEF Out
  <1>3. ASSUME NEW rec, Out(rec), NEW a \in ServeAt PROVE Out([rec EXCEPT !.at = a])
    BY <1>3, AtIs DEF Out
  <1>4. ASSUME NEW rec, Out(rec) PROVE Out(Gone(rec))
    BY <1>c, <1>3, <1>4 DEF Gone
  <1>5. ASSUME NEW rec, Out(rec), NEW calls \in SUBSET Call PROVE Out([rec EXCEPT !.closers = calls])
    BY <1>5, CallsIs DEF Out
  <1>6. x.closers \subseteq Call /\ Begun(x, "user").closers \subseteq Call
    BY <1>0, <1>c, BegunIs DEF Out, Relay
  <1>b. Out(Begun(x, "serve")) /\ Out(Gone(Begun(x, "serve"))) /\ Out(Gone(x))
    BY <1>0, <1>c, <1>2, <1>4 DEF Out
  <1>7. CASE \E who \in Closer : ClosesFlow(r, who)
    <2>1. PICK who \in Closer : Moves(r, [x EXCEPT !.closers = x.closers \ {who}])
      BY <1>7, <1>x DEF ClosesFlow
    <2>2. x.closers \ {who} \in SUBSET Call
      BY <1>6
    <2>3. QED
      BY <1>0, <1>1, <1>5, <2>1, <2>2
  <1>8. CASE UserAsks(r) \/ ShutsDown(r)
    BY <1>8 DEF UserAsks, ShutsDown
  <1>9. CASE UserCloses(r)
    <2>1. Moves(r, [Begun(x, "user") EXCEPT !.closers = Begun(x, "user").closers \ {"asked"}])
      BY <1>9, <1>x DEF UserCloses
    <2>2. Begun(x, "user").closers \ {"asked"} \in SUBSET Call /\ Out(Begun(x, "user"))
      BY <1>0, <1>c, <1>2, <1>6 DEF Out
    <2>3. QED
      BY <1>1, <1>5, <2>1, <2>2
  <1>10. CASE Reap(r)
    <2>1. Moves(r, Reaped(x)) /\ Out(Reaped(x))
      BY <1>0, <1>10, <1>x, ReapedIs DEF Reap, Out
    <2>2. QED
      BY <1>1, <2>1
  <1>11. CASE CheckOpen(r) \/ Connects(r) \/ Answered(r)
    <2>1. \/ Moves(r, Gone(Begun(x, "serve"))) \/ Moves(r, [x EXCEPT !.at = "asking"])
          \/ Moves(r, [x EXCEPT !.at = "opening"]) \/ Moves(r, [x EXCEPT !.at = "answered"])
      BY <1>11, <1>x DEF CheckOpen, Connects, Answered
    <2>2. /\ Out([x EXCEPT !.at = "asking"]) /\ Out([x EXCEPT !.at = "opening"])
          /\ Out([x EXCEPT !.at = "answered"])
      BY <1>0, <1>c, <1>3
    <2>3. QED
      BY <1>1, <1>b, <2>1, <2>2
  <1>12. CASE FirstSendFails(r) \/ OpeningThrows(r)
    <2>1. Moves(r, [Begun(x, "serve") EXCEPT !.at = "lost"])
      BY <1>12, <1>x DEF FirstSendFails, OpeningThrows, Lost
    <2>2. QED
      BY <1>1, <1>3, <1>b, <1>c, <2>1
  <1>13. CASE DialFails(r) \/ ServeEnds(r)
    <2> DEFINE g == Gone(Begun(x, "serve"))
    <2>1. Moves(r, g) \/ Moves(r, [g EXCEPT !.reaper = FALSE]) \/ Moves(r, Gone(x))
      BY <1>13, <1>x DEF DialFails, ServeEnds
    <2>2. Out(g)
      BY <1>b
    <2> HIDE DEF g
    <2>3. Out([g EXCEPT !.reaper = FALSE])
      BY <2>2, RestedIs DEF Out
    <2>4. QED
      BY <1>1, <1>b, <2>1, <2>2, <2>3
  <1>14. CASE TakesStream(r)
    <2> DEFINE y == Streamed(x, Derived(conn.next), conn.gen)
    <2>1. /\ Moves(r, y) /\ Derived(conn.next) \in FlowIds /\ conn.gen \in 0 .. MaxGenerations
      BY <1>14, <1>x DEF TakesStream, Connection, Streamed
    <2>2. Out(y)
      BY <1>0, <2>1, StreamIs DEF Out
    <2>3. QED
      BY <1>1, <2>1, <2>2
  <1>15. CASE Assigns(r)
    <2> DEFINE y == [x EXCEPT !.at = "assigned", !.flow = TRUE]
    <2>1. Moves(r, y) /\ Out(y)
      BY <1>0, <1>15, <1>x, AssignedIs, Zenon DEF Assigns, Out
    <2>2. QED
      BY <1>1, <2>1
  <1>16. CASE Checks(r)
    <2> DEFINE y == Opened(x)
    <2>1. Moves(r, IF x.chan THEN y ELSE Gone(Begun(x, "serve")))
      BY <1>16, <1>x DEF Checks, Checked
    <2>2. Out(y)
      BY <1>0, OpenIs, Zenon DEF Out
    <2> HIDE DEF y
    <2>3. QED
      BY <1>1, <1>b, <2>1, <2>2
  <1>17. CASE UpEnds(r)
    <2> DEFINE y == [x EXCEPT !.up = FALSE]
    <2>1. Moves(r, y) /\ Out(y)
      BY <1>0, <1>17, <1>x, UpIs, Zenon DEF UpEnds, Out
    <2>2. QED
      BY <1>1, <2>1
  <1>18. CASE DownEnds(r)
    <2> DEFINE y == [x EXCEPT !.down = FALSE]
    <2>1. Moves(r, y) /\ Out(y)
      BY <1>0, <1>18, <1>x, DownIs, Zenon DEF DownEnds, Out
    <2>2. QED
      BY <1>1, <2>1
  <1>19. CASE Takes(r) \/ SocketDies(r)
    BY <1>19 DEF Takes, SocketDies
  <1>20. QED
    BY <1>7, <1>8, <1>9, <1>10, <1>11, <1>12, <1>13, <1>14, <1>15, <1>16, <1>17, <1>18, <1>19 DEF RelaySteps

LEMMA EmptiedStep ==
  ASSUME AllSound, Emptied, [Next]_vars
  PROVE  Emptied'
  <1>0. TypeOK /\ conn \in Connection /\ relay \in [Relays -> Relay] /\ stage \in {"up", "handlers", "session", "down"}
    BY TypeParts DEF AllSound, SessionType
  <1>1. ASSUME NEW r \in Relays, RelaySteps(r) PROVE Emptied'
    <2>1. stage' = stage
      BY <1>1 DEF RelaySteps, Offer, UserAsks, UserCloses, Reap, CheckOpen, ClosesFlow, TakesStream, Connects,
         Answered, FirstSendFails, Lost, OpeningThrows, DialFails, Assigns, Checks, ServeEnds, UpEnds, Takes, DownEnds, SocketDies,
         ShutsDown, sessionVars
    <2>2. Outcome(r)
      BY <1>0, <1>1, RelayOutcome DEF AllSound
    <2>3. ASSUME stage \in {"session", "down"} PROVE ~relay'[r].listed
      BY <1>0, <1>1, <2>3, StaysOut DEF Emptied, Offer
    <2>4. QED
      BY <2>1, <2>2, <2>3 DEF Emptied, Outcome
  <1>2. CASE HandlersShut
    <2>1. \A r \in Relays : relay'[r] = Scrapped(relay[r]) /\ relay[r] \in Relay /\ ~relay[r].listed
      BY <1>0, <1>2, ScrapOutcome DEF HandlersShut
    <2>2. QED
      BY <2>1, ScrappedIs DEF Emptied
  <1>3. CASE \/ Rebuild \/ Demultiplexes \/ ConnectionDies
             \/ (\E f \in FlowIds : FarEndCloses(f) \/ \E p \in Packets : FarEndSends(f, p))
    <2>1. relay' = relay /\ stage' = stage
      BY <1>3, OthersLeaveRelays DEF Rebuild, Demultiplexes, ConnectionDies, FarEndCloses, FarEndSends, sessionVars
    <2>2. QED
      BY <2>1 DEF Emptied
  <1>4. CASE Stops \/ SessionCloses
    BY <1>4, OthersLeaveRelays DEF Emptied, Stops, SessionCloses
  <1>5. CASE UNCHANGED vars
    BY <1>5 DEF Emptied, vars, sessionVars
  <1>6. QED
    BY <1>1, <1>2, <1>3, <1>4, <1>5 DEF Next

\* A relay's synthetic address is given back exactly once, whoever ends it and
\* however many do, and before the pool it goes back to is cleared.
THEOREM ReleasedExactlyOnce == Spec => []ReleasedOnce
  <1>1. Init => AllSound /\ Emptied
    BY InitSound DEF Init, Emptied
  <1>2. AllSound /\ Emptied /\ [Next]_vars => (AllSound /\ Emptied)'
    BY AllSoundStep, EmptiedStep
  <1>3. AllSound /\ Emptied => ReleasedOnce
    BY DEF AllSound, Sound, Emptied, ReleasedOnce, Settled
  <1>4. QED
    BY <1>1, <1>2, <1>3, PTL DEF Spec

-----------------------------------------------------------------------------
(* The table of part-assembled packets. *)

Room == IsFiniteSet(Slots(held)) /\ Cardinality(Slots(held)) <= MaxSlots

LEMMA FewerSlots ==
  ASSUME NEW A, NEW B \in SUBSET A, IsFiniteSet(Slots(A))
  PROVE  /\ Slots(B) \subseteq Slots(A)
         /\ IsFiniteSet(Slots(B)) /\ Cardinality(Slots(B)) <= Cardinality(Slots(A))
         /\ Cardinality(Slots(B)) \in Nat /\ Cardinality(Slots(A)) \in Nat
  <1>1. Slots(B) \subseteq Slots(A)
    BY DEF Slots
  <1>2. QED
    BY <1>1, FS_Subset, FS_CardinalityType

LEMMA OneMore ==
  ASSUME NEW S, IsFiniteSet(S), NEW k
  PROVE  /\ IsFiniteSet(S \cup {k}) /\ Cardinality(S \cup {k}) <= Cardinality(S) + 1
         /\ Cardinality(S \cup {k}) \in Nat /\ Cardinality(S) \in Nat
  BY FS_AddElement, FS_CardinalityType

\* A new slot fits where there was room or where one was given up.
LEMMA KeepsFits ==
  ASSUME NEW fr, NEW live, IsFiniteSet(Slots(live)), Cardinality(Slots(live)) <= MaxSlots,
         NEW room \in MakesRoom(fr, live)
  PROVE  IsFiniteSet(Slots(room \cup {fr})) /\ Cardinality(Slots(room \cup {fr})) <= MaxSlots
  <1> DEFINE n == Cardinality(Slots(live))
  <1>0. n \in Nat /\ MaxSlots \in Nat /\ n <= MaxSlots /\ MaxSlots # 0
    BY SlotsAssumption, FS_CardinalityType
  <1>1. Slots(room \cup {fr}) = Slots(room) \cup {Key(fr)}
    BY DEF Slots
  <1>2. CASE SlotOf(fr, live) # {}
    <2>1. room = live /\ Key(fr) \in Slots(live)
      BY <1>2 DEF MakesRoom, SlotOf, Slots
    <2>2. QED
      BY <1>1, <2>1
  <1>3. CASE SlotOf(fr, live) = {} /\ ~(n >= MaxSlots)
    <2>1. room = live
      BY <1>3 DEF MakesRoom
    <2>2. IsFiniteSet(Slots(live) \cup {Key(fr)}) /\ Cardinality(Slots(live) \cup {Key(fr)}) <= n + 1
      BY <1>0, FS_AddElement
    <2>3. Cardinality(Slots(live) \cup {Key(fr)}) \in Nat
      BY <2>2, FS_CardinalityType
    <2>4. QED
      BY <1>0, <1>1, <1>3, <2>1, <2>2, <2>3
  <1>4. CASE SlotOf(fr, live) = {} /\ n >= MaxSlots
    <2>1. PICK k \in Slots(live) : room = {h \in live : Key(h) # k}
      BY <1>4 DEF MakesRoom
    <2>2. IsFiniteSet(Slots(live) \ {k}) /\ Cardinality(Slots(live) \ {k}) = n - 1
      BY FS_RemoveElement
    <2>3. Slots(room) \subseteq Slots(live) \ {k}
      BY <2>1 DEF Slots
    <2>4. IsFiniteSet(Slots(room)) /\ Cardinality(Slots(room)) <= n - 1 /\ Cardinality(Slots(room)) \in Nat
      BY <2>2, <2>3, FS_Subset, FS_CardinalityType
    <2>5. /\ IsFiniteSet(Slots(room) \cup {Key(fr)})
          /\ Cardinality(Slots(room) \cup {Key(fr)}) <= Cardinality(Slots(room)) + 1
          /\ Cardinality(Slots(room) \cup {Key(fr)}) \in Nat
      BY <2>4, OneMore
    <2> DEFINE c == Cardinality(Slots(room))
               d == Cardinality(Slots(room) \cup {Key(fr)})
    <2>6. c <= n - 1 /\ d <= c + 1 /\ c \in Nat /\ d \in Nat /\ n \in Nat /\ n <= MaxSlots
      BY <1>0, <2>4, <2>5
    <2> HIDE DEF c, d, n
    <2>7. d <= MaxSlots
      BY <1>0, <2>6
    <2>8. QED
      BY <1>1, <2>5, <2>7 DEF d
  <1>5. QED
    BY <1>2, <1>3, <1>4

LEMMA DemultiplexRoom ==
  ASSUME Room, NEW fr, NEW old, Demultiplex(fr, old)
  PROVE  Room'
  <1> DEFINE live == Unexpired(old)
  <1>1. live \subseteq held /\ MaxSlots \in Nat
    BY SlotsAssumption DEF Unexpired
  <1>2. ASSUME NEW B \in SUBSET held, held' = B PROVE Room'
    BY <1>1, <1>2, FewerSlots DEF Room
  <1>3. CASE \E room \in MakesRoom(fr, live) : held' = room \cup {fr}
    <2>1. IsFiniteSet(Slots(live)) /\ Cardinality(Slots(live)) <= MaxSlots
      BY <1>1, FewerSlots DEF Room
    <2>2. QED
      BY <1>3, <2>1, KeepsFits DEF Room
  <1>4. \/ held' \subseteq held
        \/ \E room \in MakesRoom(fr, live) : held' = room \cup {fr}
    BY <1>1 DEF Demultiplex, Discards, Keeps, Completes
  <1>5. QED
    BY <1>2, <1>3, <1>4

LEMMA OnlyDemultiplexHolds ==
  ASSUME [Next]_vars, held' # held
  PROVE  Demultiplexes
  <1>1. ASSUME NEW r \in Relays, RelaySteps(r) PROVE held' = held
    BY <1>1 DEF RelaySteps, Offer, UserAsks, UserCloses, Reap, CheckOpen, ClosesFlow, TakesStream, Connects,
       Answered, FirstSendFails, Lost, OpeningThrows, DialFails, Assigns, Checks, ServeEnds, UpEnds, Takes, DownEnds, SocketDies,
       ShutsDown, laneVars, Readied, MarkReady, Forget, Poll
  <1>2. QED
    BY <1>1 DEF Next, vars, laneVars, Rebuild, ConnectionDies, ConnectionGone, WireLost, FarEndCloses,
       FarEndSends, Stops, HandlersShut, SessionCloses

\* The reassembly table keeps its bound, whatever the network does.
THEOREM TableBounded == Spec => []SlotsBounded
  <1>1. Init => Room
    <2>1. ASSUME Init PROVE Slots(held) = {}
      BY <2>1 DEF Init, LaneInit, Slots
    <2>2. QED
      BY <2>1, FS_EmptySet, SlotsAssumption DEF Room
  <1>2. Room /\ [Next]_vars => Room'
    BY DemultiplexRoom, OnlyDemultiplexHolds DEF Demultiplexes, Room, Slots
  <1>3. Room => SlotsBounded
    BY DEF Room, SlotsBounded
  <1>4. QED
    BY <1>1, <1>2, <1>3, PTL DEF Spec

-----------------------------------------------------------------------------
(* Streams, flow ids and routes.  Ids are derived from stream numbers, which  *)
(* one connection gives out once; a route is there only on the live           *)
(* connection, and is the relay's that opened the stream on it.               *)

Linked ==
  /\ \A r \in Relays : relay[r].gen <= conn.gen
  /\ \A r \in Relays : relay[r].id # 0 => relay[r].gen # 0
  /\ \A r \in Relays : relay[r].id # 0 /\ relay[r].gen = conn.gen => relay[r].id <= conn.next /\ conn.authed
  /\ \A r, q \in Relays :
       r # q /\ relay[r].id # 0 /\ relay[r].gen = relay[q].gen => relay[r].id # relay[q].id
  /\ \A f \in FlowIds : route[f] # NoRelay =>
       conn.alive /\ relay[route[f]].id = f /\ relay[route[f]].gen = conn.gen
  /\ conn.next # 0 => conn.authed

\* A step that opens no stream and no connection.
Settles ==
  /\ \A r \in Relays : relay'[r].id = relay[r].id /\ relay'[r].gen = relay[r].gen
  /\ conn'.gen = conn.gen /\ conn'.next = conn.next /\ conn'.authed = conn.authed
  /\ \A f \in FlowIds : route'[f] \in {route[f], NoRelay}
  /\ conn'.alive = conn.alive \/ \A f \in FlowIds : route'[f] = NoRelay
  /\ conn'.alive => conn.alive

LEMMA SettlesLinked ==
  ASSUME AllSound, Linked, Settles
  PROVE  Linked'
  <1>1. \A f \in FlowIds : route[f] \in Relays \cup {NoRelay}
    BY TypeParts DEF AllSound, SessionType
  <1>2. QED
    BY <1>1 DEF Linked, Settles

LEMMA RelayStepSettles ==
  ASSUME AllSound, Linked, NEW r \in Relays, RelaySteps(r), ~TakesStream(r)
  PROVE  Settles
  <1>0. SessionType /\ conn \in Connection /\ relay \in [Relays -> Relay]
    BY TypeParts DEF AllSound, SessionType
  <1>1. Outcome(r)
    BY <1>0, RelayOutcome DEF AllSound
  <1>2. \A q \in Relays : relay'[q].id = relay[q].id /\ relay'[q].gen = relay[q].gen
    BY <1>1 DEF Outcome
  <1>3. conn' = conn
    BY DEF RelaySteps, Offer, UserAsks, UserCloses, Reap, CheckOpen, ClosesFlow, Connects,
       Answered, FirstSendFails, Lost, OpeningThrows, DialFails, Assigns, Checks, ServeEnds, UpEnds, Takes, DownEnds, SocketDies,
       ShutsDown, sessionVars
  <1>4. ASSUME NEW who \in Closer, ClosesFlow(r, who) PROVE \A f \in FlowIds : route'[f] \in {route[f], NoRelay}
    BY <1>0, <1>4 DEF ClosesFlow, SessionType
  <1>5. \A f \in FlowIds : route'[f] \in {route[f], NoRelay}
    BY <1>4 DEF RelaySteps, Offer, UserAsks, UserCloses, Reap, CheckOpen, Connects,
       Answered, FirstSendFails, Lost, OpeningThrows, DialFails, Assigns, Checks, ServeEnds, UpEnds, Takes, DownEnds, SocketDies,
       ShutsDown, sessionVars
  <1>6. QED
    BY <1>2, <1>3, <1>5 DEF Settles

LEMMA OtherStepSettles ==
  ASSUME AllSound, Linked,
         \/ Demultiplexes \/ ConnectionDies \/ Stops \/ HandlersShut \/ SessionCloses
         \/ (\E f \in FlowIds : FarEndCloses(f) \/ \E p \in Packets : FarEndSends(f, p))
         \/ UNCHANGED vars
  PROVE  Settles
  <1>0. SessionType
    BY TypeParts DEF AllSound
  <1>1. \A q \in Relays : relay'[q].id = relay[q].id /\ relay'[q].gen = relay[q].gen
    BY ScrapOutcome, OthersLeaveRelays DEF vars
  <1>2. CASE ConnectionDies \/ SessionCloses
    <2>1. ConnectionGone
      BY <1>2 DEF ConnectionDies, SessionCloses
    <2>2. \A f \in FlowIds : route'[f] = NoRelay
      BY <2>1 DEF ConnectionGone
    <2>3. QED
      BY <1>0, <1>1, <2>1, <2>2, ConnectionDown DEF Settles
  <1>3. ASSUME NEW f \in FlowIds, FarEndCloses(f) PROVE Settles
    BY <1>0, <1>1, <1>3 DEF FarEndCloses, SessionType, Settles
  <1>4. ASSUME \/ Demultiplexes \/ Stops \/ HandlersShut \/ UNCHANGED vars
               \/ (\E f \in FlowIds, p \in Packets : FarEndSends(f, p))
        PROVE  Settles
    <2>1. conn' = conn /\ route' = route
      BY <1>4 DEF Demultiplexes, Stops, HandlersShut, FarEndSends, vars, sessionVars
    <2>2. QED
      BY <1>1, <2>1 DEF Settles
  <1>5. QED
    BY <1>2, <1>3, <1>4

LEMMA RebuildLinked ==
  ASSUME AllSound, Linked, Rebuild
  PROVE  Linked'
  <1>0. SessionType /\ conn \in Connection /\ relay \in [Relays -> Relay]
    BY TypeParts DEF AllSound, SessionType
  <1>1. /\ conn'.gen = conn.gen + 1 /\ conn'.next = 0 /\ ~conn.alive /\ conn.gen \in Nat
        /\ relay' = relay /\ route' = route
    BY <1>0, Rebuilt DEF Rebuild, Connection
  <1>2. \A f \in FlowIds : route[f] = NoRelay
    BY <1>1 DEF Linked
  <1>3. \A r \in Relays : relay[r].gen \in Nat /\ relay[r].gen <= conn.gen
    BY <1>0 DEF Linked, Relay
  <1>4. \A r \in Relays : relay[r].gen <= conn'.gen /\ relay[r].gen # conn'.gen
    BY <1>1, <1>3
  <1>5. QED
    BY <1>1, <1>2, <1>4 DEF Linked

\* The stream that is opened has a number, and so an id, that no relay on this
\* connection has.
LEMMA StreamTaken ==
  ASSUME AllSound, Linked, NEW r \in Relays, TakesStream(r)
  PROVE  /\ relay'[r].id = conn.next + 1 /\ relay'[r].gen = conn.gen /\ relay[r].id = 0
         /\ \A q \in Relays : q # r => relay'[q] = relay[q]
         /\ conn.next + 1 \in FlowIds
         /\ conn'.gen = conn.gen /\ conn'.alive /\ conn.alive /\ conn'.next = conn.next + 1 /\ conn'.authed
         /\ route' = [route EXCEPT ![conn.next + 1] = r]
  <1>0. SessionType /\ conn \in Connection /\ relay \in [Relays -> Relay]
    BY TypeParts DEF AllSound, SessionType
  <1>1. /\ conn'.gen = conn.gen /\ conn'.alive = conn.alive /\ conn'.next = conn.next + 1 /\ conn'.authed
        /\ conn.alive
    BY <1>0, ConnectionNext DEF TakesStream
  <1>2. conn.next + 1 \in FlowIds /\ relay[r].at = "asking"
    BY DEF TakesStream, Derived
  <1>3. route' = [route EXCEPT ![conn.next + 1] = r]
    BY <1>1 DEF TakesStream, Derived
  <1>4. Streamed(relay[r], conn.next + 1, conn.gen) \in Relay
    BY <1>0, <1>2, StreamIs DEF Connection
  <1>5. Moves(r, Streamed(relay[r], conn.next + 1, conn.gen))
    BY DEF TakesStream, Derived, Streamed
  <1>6. /\ relay'[r] = Streamed(relay[r], conn.next + 1, conn.gen)
        /\ \A q \in Relays : q # r => relay'[q] = relay[q]
    BY <1>0, <1>4, <1>5, MovesIs
  <1>7. relay'[r].id = conn.next + 1 /\ relay'[r].gen = conn.gen
    BY <1>0, <1>2, <1>6, StreamIs DEF Connection
  <1>8. relay[r].id = 0
    BY <1>2 DEF AllSound, Sound
  <1>9. QED
    BY <1>1, <1>2, <1>3, <1>6, <1>7, <1>8

LEMMA TakesStreamLinked ==
  ASSUME AllSound, Linked, NEW r \in Relays, TakesStream(r)
  PROVE  Linked'
  <1> DEFINE n == conn.next
  <1>0. SessionType /\ conn \in Connection /\ relay \in [Relays -> Relay]
    BY TypeParts DEF AllSound, SessionType
  <1>1. /\ relay'[r].id = n + 1 /\ relay'[r].gen = conn.gen /\ relay[r].id = 0
        /\ \A q \in Relays : q # r => relay'[q] = relay[q]
        /\ n + 1 \in FlowIds /\ n + 1 # 0 /\ n \in Nat
        /\ conn'.gen = conn.gen /\ conn'.alive /\ conn.alive /\ conn'.next = n + 1 /\ conn'.authed
        /\ route' = [route EXCEPT ![n + 1] = r]
    BY <1>0, StreamTaken, IdsNatural DEF Connection, StreamNumber
  <1>2. conn.gen \in Nat /\ conn.gen # 0
    BY <1>0 DEF Connection
  <1>3. \A q \in Relays : relay[q].id \in Nat /\ relay[q].gen \in Nat
    BY <1>0, IdsNatural DEF Relay
  <1>4. \A f \in FlowIds : route[f] # NoRelay => route[f] \in Relays \ {r} /\ f # n + 1
    <2>1. ASSUME NEW f \in FlowIds, route[f] # NoRelay PROVE route[f] \in Relays \ {r} /\ f # n + 1
      <3>1. /\ route[f] \in Relays /\ relay[route[f]].id = f /\ relay[route[f]].gen = conn.gen
            /\ f # 0 /\ f \in Nat
        BY <1>0, <2>1, IdsNatural DEF SessionType, Linked
      <3>2. f <= n
        BY <3>1 DEF Linked
      <3>3. QED
        BY <1>1, <3>1, <3>2
    <2>2. QED
      BY <2>1
  <1>5. \A q \in Relays : q # r /\ relay[q].id # 0 /\ relay[q].gen = conn.gen => relay[q].id <= n
    BY DEF Linked
  <1>6. \A q \in Relays : q # r /\ relay[q].id # 0 /\ relay[q].gen = conn.gen => relay[q].id # n + 1 /\ relay[q].id <= n + 1
    BY <1>1, <1>3, <1>5
  <1>7. \A f \in FlowIds : route'[f] = IF f = n + 1 THEN r ELSE route[f]
    BY <1>0, <1>1 DEF SessionType
  <1> HIDE DEF n
  <1>8. (\A q \in Relays : relay[q].gen <= conn.gen) /\ (\A q \in Relays : relay[q].id # 0 => relay[q].gen # 0)
    BY DEF Linked
  <1>9. \A q, p \in Relays : q # p /\ relay'[q].id # 0 /\ relay'[q].gen = relay'[p].gen => relay'[q].id # relay'[p].id
    BY <1>1, <1>3, <1>6 DEF Linked
  <1>10. \A f \in FlowIds : route'[f] # NoRelay =>
           conn'.alive /\ relay'[route'[f]].id = f /\ relay'[route'[f]].gen = conn'.gen
    BY <1>1, <1>4, <1>7 DEF Linked
  <1>11. \A q \in Relays : relay'[q].id # 0 /\ relay'[q].gen = conn'.gen => relay'[q].id <= conn'.next
    BY <1>1, <1>3, <1>6
  <1>12. (\A q \in Relays : relay'[q].gen <= conn'.gen) /\ (\A q \in Relays : relay'[q].id # 0 => relay'[q].gen # 0)
    BY <1>1, <1>2, <1>8
  <1>13. QED
    BY <1>1, <1>9, <1>10, <1>11, <1>12 DEF Linked

LEMMA LinkedStep ==
  ASSUME AllSound, Linked, [Next]_vars
  PROVE  Linked'
  BY RelayStepSettles, OtherStepSettles, SettlesLinked, RebuildLinked, TakesStreamLinked DEF Next

THEOREM RoutesLinked == Spec => [](AllSound /\ Linked)
  <1>1. Init => Linked
    BY DEF Init, Fresh, Linked
  <1>2. AllSound /\ Linked /\ [Next]_vars => Linked'
    BY LinkedStep
  <1>3. QED
    BY <1>1, <1>2, Soundness, PTL DEF Spec

\* Every connection is authenticated by its first flow, the rebuilt ones too.
THEOREM AlwaysAuthenticated == Spec => []NeverBare
  <1>1. AllSound /\ Linked => NeverBare
    BY DEF Linked, NeverBare, Current
  <1>2. QED
    BY <1>1, RoutesLinked, PTL

\* Until the connection is replaced, what a relay sends goes to its own far end.
THEOREM UplinkAlwaysOwn == Spec => []UplinkIsOwn
  <1>1. AllSound /\ Linked => UplinkIsOwn
    <2>1. SUFFICES ASSUME AllSound, Linked, NEW r \in Relays, conn.gen = 1, relay[r].up, carrier = "quic",
                          route[relay[r].id] # NoRelay
                   PROVE  route[relay[r].id] = r
      BY DEF UplinkIsOwn
    <2>2. relay[r].id # 0
      BY <2>1 DEF AllSound, Sound
    <2>3. relay[r].id \in FlowIds /\ relay[r].gen \in Nat
      BY <2>1, <2>2, TypeParts DEF AllSound, Relay
    <2>4. relay[r].gen = 1
      BY <2>1, <2>2, <2>3 DEF Linked
    <2>5. route[relay[r].id] \in Relays
      BY <2>1, <2>3, TypeParts DEF AllSound, SessionType
    <2>6. QED
      BY <2>1, <2>2, <2>3, <2>4, <2>5 DEF Linked
  <1>2. QED
    BY <1>1, RoutesLinked, PTL

-----------------------------------------------------------------------------
(* Whose packets are under way.  On the first connection every datagram, on   *)
(* the wire or held in a slot, and every packet in a queue is of the relay    *)
(* that its flow id stands for; so no slot mixes packets.                     *)

Mine(f, p) == p \in Packets /\ p \in sent /\ relay[Origin[p]].id = f

Owned ==
  conn.gen = 1 =>
    /\ \A fr \in wire \cup held : fr.type # "close" =>
         Mine(fr.flow, fr.of) /\ (fr.type = "fragment" => fr.id = IdOf[fr.of])
    /\ \A f \in FlowIds : \A item \in inbound[f] : item # CLOSED => \E p \in Packets : item = {p} /\ Mine(f, p)

LEMMA OneOwner ==
  ASSUME AllSound, Linked, conn.gen = 1, NEW f \in FlowIds,
         NEW r \in Relays, NEW q \in Relays, relay[r].id = f, relay[q].id = f
  PROVE  r = q
  <1>1. f # 0 /\ relay[r].gen \in Nat /\ relay[q].gen \in Nat
    BY IdsNatural, TypeParts DEF AllSound, Relay
  <1>2. relay[r].gen = 1 /\ relay[q].gen = 1
    BY <1>1 DEF Linked
  <1>3. QED
    BY <1>1, <1>2 DEF Linked

\* As long as the connection is the first, the owner of a flow id stays.
LEMMA MineStays ==
  ASSUME AllSound, Linked, [Next]_vars, conn'.gen = 1, NEW f \in FlowIds, NEW p, Mine(f, p), p \in sent'
  PROVE  Mine(f, p)'
  <1>0. Origin[p] \in Relays /\ conn.gen \in Nat /\ conn.gen # 0 /\ f # 0
    BY OriginAssumption, IdsNatural, TypeParts DEF Mine, AllSound, SessionType, Connection
  <1>1. ASSUME Settles PROVE relay'[Origin[p]].id = f
    BY <1>0, <1>1 DEF Settles, Mine
  <1>2. ASSUME NEW r \in Relays, TakesStream(r) PROVE relay'[Origin[p]].id = f
    BY <1>0, <1>2, StreamTaken DEF Mine
  <1>3. ~Rebuild
    BY <1>0, Rebuilt, TypeParts DEF AllSound
  <1>4. relay'[Origin[p]].id = f
    BY <1>1, <1>2, <1>3, RelayStepSettles, OtherStepSettles DEF Next
  <1>5. QED
    BY <1>4 DEF Mine

LEMMA SentGrows ==
  ASSUME [Next]_vars
  PROVE  sent \subseteq sent'
  <1>1. ASSUME NEW r \in Relays, RelaySteps(r) PROVE sent' = sent
    BY <1>1 DEF RelaySteps, Offer, UserAsks, UserCloses, Reap, CheckOpen, ClosesFlow, TakesStream, Connects,
       Answered, FirstSendFails, Lost, OpeningThrows, DialFails, Assigns, Checks, ServeEnds, UpEnds, Takes, DownEnds, SocketDies,
       ShutsDown, history
  <1>2. QED
    BY <1>1 DEF Next, vars, history, Rebuild, Demultiplexes, ConnectionDies, FarEndCloses, FarEndSends,
       Stops, HandlersShut, SessionCloses

LEMMA FirstStays ==
  ASSUME AllSound, Linked, [Next]_vars
  PROVE  conn'.gen = 1 => conn.gen = 1
  <1>1. SessionType /\ conn.gen \in Nat /\ conn.gen # 0
    BY TypeParts DEF AllSound, SessionType, Connection
  <1>2. ASSUME Rebuild PROVE conn'.gen # 1
    BY <1>1, <1>2, Rebuilt
  <1>3. QED
    BY <1>2, RelayStepSettles, OtherStepSettles, StreamTaken DEF Next, Settles

\* What is not new stays owned.
LEMMA OwnedKept ==
  ASSUME AllSound, Linked, Owned, [Next]_vars, conn'.gen = 1
  PROVE  /\ \A fr \in wire \cup held : fr.type # "close" =>
              Mine(fr.flow, fr.of)' /\ (fr.type = "fragment" => fr.id = IdOf[fr.of])
         /\ \A f \in FlowIds : \A item \in inbound[f] :
              item # CLOSED => \E p \in Packets : item = {p} /\ Mine(f, p)'
  <1>1. conn.gen = 1 /\ sent \subseteq sent'
    BY FirstStays, SentGrows
  <1>2. ASSUME NEW fr \in wire \cup held, fr.type # "close"
        PROVE  Mine(fr.flow, fr.of)' /\ (fr.type = "fragment" => fr.id = IdOf[fr.of])
    <2>1. fr \in Frame
      BY TypeParts DEF AllSound, LaneType, Frame
    <2>2. fr.flow \in FlowIds
      BY <2>1, FrameKinds
    <2>3. Mine(fr.flow, fr.of) /\ (fr.type = "fragment" => fr.id = IdOf[fr.of])
      BY <1>1, <1>2 DEF Owned
    <2>4. fr.of \in sent'
      BY <1>1, <2>3 DEF Mine
    <2>5. QED
      BY <2>2, <2>3, <2>4, MineStays
  <1>3. ASSUME NEW f \in FlowIds, NEW item \in inbound[f], item # CLOSED
        PROVE  \E p \in Packets : item = {p} /\ Mine(f, p)'
    <2>1. PICK p \in Packets : item = {p} /\ Mine(f, p)
      BY <1>1, <1>3 DEF Owned
    <2>2. p \in sent'
      BY <1>1, <2>1 DEF Mine
    <2>3. QED
      BY <2>1, <2>2, MineStays
  <1>4. QED
    BY <1>2, <1>3

\* A slot holds the fragments of one packet.
LEMMA SlotIsOnePacket ==
  ASSUME AllSound, Linked, Owned, conn.gen = 1, NEW fr \in wire, fr.type = "fragment",
         NEW live \in SUBSET held
  PROVE  Assembled(SlotOf(fr, live) \cup {fr}) = {fr.of}
  <1>1. fr \in Frame /\ held \subseteq Fragment
    BY TypeParts DEF AllSound, LaneType
  <1>2. Mine(fr.flow, fr.of) /\ fr.id = IdOf[fr.of] /\ fr.flow \in FlowIds
    BY <1>1, FrameKinds DEF Owned
  <1>3. ASSUME NEW h \in SlotOf(fr, live) PROVE h.of = fr.of
    <2>1. h \in held /\ h \in Fragment /\ h.flow = fr.flow /\ h.id = fr.id
      BY <1>1 DEF SlotOf, Key
    <2>2. h.type = "fragment"
      BY <2>1 DEF Fragment
    <2>3. Mine(h.flow, h.of) /\ h.id = IdOf[h.of]
      BY <2>1, <2>2 DEF Owned
    <2>4. /\ h.of \in Packets /\ fr.of \in Packets
          /\ Origin[h.of] \in Relays /\ Origin[fr.of] \in Relays
          /\ relay[Origin[h.of]].id = fr.flow /\ relay[Origin[fr.of]].id = fr.flow
      BY <1>2, <2>1, <2>3, OriginAssumption DEF Mine
    <2>5. Origin[h.of] = Origin[fr.of]
      BY <1>2, <2>4, OneOwner
    <2>6. QED
      BY <1>2, <2>1, <2>3, <2>4, <2>5, IdOfAssumption
  <1>4. QED
    BY <1>3 DEF Assembled

LEMMA DemultiplexOwned ==
  ASSUME AllSound, Linked, Owned, [Next]_vars, NEW fr, NEW old, Demultiplex(fr, old)
  PROVE  Owned'
  <1> DEFINE live == Unexpired(old)
  <1>0. SUFFICES ASSUME conn'.gen = 1 PROVE Owned'
    BY DEF Owned
  <1>1. /\ \A x \in wire \cup held : x.type # "close" =>
             Mine(x.flow, x.of)' /\ (x.type = "fragment" => x.id = IdOf[x.of])
        /\ \A f \in FlowIds : \A item \in inbound[f] :
             item # CLOSED => \E p \in Packets : item = {p} /\ Mine(f, p)'
    BY <1>0, OwnedKept
  <1>2. fr \in wire /\ wire' \subseteq wire /\ live \subseteq held /\ conn.gen = 1
    BY <1>0, FirstStays DEF Demultiplex, Unexpired
  <1>3. held' \subseteq held \cup {fr}
    BY <1>2 DEF Demultiplex, Discards, Keeps, Completes, MakesRoom
  <1>4. \/ UNCHANGED inbound
        \/ \E item : Route(fr.flow, item) /\ (item = CLOSED \/ (item = {fr.of} /\ fr.type # "close"))
    <2>1. CASE fr.type = "fragment"
      BY <1>2, <2>1, SlotIsOnePacket DEF Demultiplex, Discards, Keeps, Completes
    <2>2. CASE fr.type \in {"data", "close"}
      BY <2>2 DEF Demultiplex
    <2>3. QED
      BY <2>1, <2>2 DEF Demultiplex
  <1>5. fr.flow \in FlowIds /\ inbound \in [FlowIds -> SUBSET Item]
    BY <1>2, FrameKinds, TypeParts DEF AllSound, LaneType
  <1>6. \A f \in FlowIds : \A item \in inbound'[f] : item # CLOSED => \E p \in Packets : item = {p} /\ Mine(f, p)'
    <2>1. CASE UNCHANGED inbound
      BY <1>1, <2>1
    <2>2. ASSUME NEW item, Route(fr.flow, item), item = CLOSED \/ (item = {fr.of} /\ fr.type # "close")
          PROVE  \A f \in FlowIds : \A i \in inbound'[f] : i # CLOSED => \E p \in Packets : i = {p} /\ Mine(f, p)'
      <3>1. ASSUME NEW f \in FlowIds, NEW i \in inbound'[f], i # CLOSED, i \notin inbound[f]
            PROVE  f = fr.flow /\ i = item
        BY <1>5, <2>2, <3>1 DEF Route
      <3>2. item # CLOSED => Mine(fr.flow, fr.of)' /\ fr.of \in Packets
        BY <1>1, <1>2, <2>2 DEF Mine
      <3>3. QED
        BY <1>1, <2>2, <3>1, <3>2
    <2>3. QED
      BY <1>4, <2>1, <2>2
  <1>7. \A x \in wire' \cup held' : x.type # "close" =>
          Mine(x.flow, x.of)' /\ (x.type = "fragment" => x.id = IdOf[x.of])
    BY <1>1, <1>2, <1>3
  <1>8. QED
    BY <1>6, <1>7 DEF Owned

LEMMA FarEndSendsOwned ==
  ASSUME AllSound, Linked, Owned, [Next]_vars, NEW g \in FlowIds, NEW p \in Packets, FarEndSends(g, p)
  PROVE  Owned'
  <1>0. SUFFICES ASSUME conn'.gen = 1 PROVE Owned'
    BY DEF Owned
  <1>1. Origin[p] \in Relays /\ route[g] = Origin[p] /\ p \in sent' /\ relay' = relay
        /\ held' = held /\ inbound' = inbound
    BY OriginAssumption DEF FarEndSends
  <1>2. Mine(g, p)'
    <2>1. route[g] # NoRelay
      BY <1>1, RelaysAssumption
    <2>2. QED
      BY <1>1, <2>1 DEF Linked, Mine
  <1>3. ASSUME NEW x \in wire', x \notin wire
        PROVE  x.flow = g /\ x.of = p /\ (x.type = "fragment" => x.id = IdOf[p])
    BY <1>3 DEF FarEndSends, Whole, Pieces
  <1>4. \A x \in wire' \cup held' : x.type # "close" =>
          Mine(x.flow, x.of)' /\ (x.type = "fragment" => x.id = IdOf[x.of])
    BY <1>0, <1>1, <1>2, <1>3, OwnedKept
  <1>5. \A f \in FlowIds : \A item \in inbound'[f] : item # CLOSED => \E q \in Packets : item = {q} /\ Mine(f, q)'
    BY <1>0, <1>1, OwnedKept
  <1>6. QED
    BY <1>4, <1>5 DEF Owned

\* Every other step only takes away, or adds a CLOSE.
LEMMA OnlyTakenOwned ==
  ASSUME AllSound, Linked, Owned, [Next]_vars,
         \A x \in wire' : x \in wire \/ x.type = "close", held' \subseteq held,
         \A f \in FlowIds : inbound'[f] \subseteq inbound[f]
  PROVE  Owned'
  BY OwnedKept DEF Owned

LEMMA RelayStepOwned ==
  ASSUME AllSound, Linked, Owned, NEW r \in Relays, RelaySteps(r)
  PROVE  Owned'
  <1>0. inbound \in [FlowIds -> SUBSET Item] /\ [Next]_vars
    BY TypeParts DEF AllSound, LaneType, Next
  <1>1. wire' = wire /\ held' = held
    BY DEF RelaySteps, Offer, UserAsks, UserCloses, Reap, CheckOpen, ClosesFlow, TakesStream, Connects,
       Answered, FirstSendFails, Lost, OpeningThrows, DialFails, Assigns, Checks, ServeEnds, UpEnds, Takes, DownEnds, SocketDies,
       ShutsDown, laneVars, Readied, MarkReady, Forget, Poll
  <1>2. ASSUME NEW id, Forget(id) PROVE \A f \in FlowIds : inbound'[f] \subseteq inbound[f]
    BY <1>0, <1>2 DEF Forget
  <1>3. ASSUME NEW id, NEW item, Poll(id, item) PROVE \A f \in FlowIds : inbound'[f] \subseteq inbound[f]
    BY <1>0, <1>3 DEF Poll
  <1>4. \A f \in FlowIds : inbound'[f] \subseteq inbound[f]
    BY <1>2, <1>3 DEF RelaySteps, Offer, UserAsks, UserCloses, Reap, CheckOpen, ClosesFlow, TakesStream, Connects,
       Answered, FirstSendFails, Lost, OpeningThrows, DialFails, Assigns, Checks, ServeEnds, UpEnds, Takes, DownEnds, SocketDies,
       ShutsDown, laneVars, Readied, MarkReady
  <1>5. QED
    BY <1>0, <1>1, <1>4, OnlyTakenOwned

LEMMA OwnedStep ==
  ASSUME AllSound, Linked, Owned, [Next]_vars
  PROVE  Owned'
  <1>1. ASSUME NEW r \in Relays, RelaySteps(r) PROVE Owned'
    BY <1>1, RelayStepOwned
  <1>2. CASE Demultiplexes
    BY <1>2, DemultiplexOwned DEF Demultiplexes
  <1>3. ASSUME NEW f \in FlowIds, NEW p \in Packets, FarEndSends(f, p) PROVE Owned'
    BY <1>3, FarEndSendsOwned
  <1>4. ASSUME NEW f \in FlowIds, FarEndCloses(f) PROVE Owned'
    <2>1. \A x \in wire' : x \in wire \/ x.type = "close"
      BY <1>4 DEF FarEndCloses
    <2>2. QED
      BY <1>4, <2>1, OnlyTakenOwned DEF FarEndCloses
  <1>5. CASE Rebuild \/ ConnectionDies \/ Stops \/ HandlersShut \/ SessionCloses \/ UNCHANGED vars
    <2>1. wire' \subseteq wire /\ held' = held /\ inbound' = inbound
      BY <1>5 DEF Rebuild, ConnectionDies, Stops, HandlersShut, SessionCloses, ConnectionGone, WireLost,
         vars, laneVars
    <2>2. QED
      BY <2>1, OnlyTakenOwned
  <1>6. QED
    BY <1>1, <1>2, <1>3, <1>4, <1>5 DEF Next

Inv == AllSound /\ Linked /\ Owned

THEOREM Invariance == Spec => []Inv
  <1>1. Init => Owned
    BY DEF Init, LaneInit, Owned
  <1>2. AllSound /\ Linked /\ Owned /\ [Next]_vars => Owned'
    BY OwnedStep
  <1>3. QED
    BY <1>1, <1>2, RoutesLinked, PTL DEF Spec, Inv

-----------------------------------------------------------------------------
(* The promise. *)

\* What a relay takes from its queue is one packet, and its own.
LEMMA TakesDelivers ==
  ASSUME Inv, NEW r \in Relays, Takes(r)
  PROVE  \/ UNCHANGED <<sent, got, conn>>
         \/ \E item \in SUBSET Packets : Promise!Deliver(r, item)
  <1>0. AllSound /\ Linked /\ relay \in [Relays -> Relay]
    BY TypeParts DEF Inv, AllSound
  <1>1. PICK item \in Item :
          /\ Poll(relay[r].id, item)
          /\ got' = IF item = CLOSED THEN got ELSE [got EXCEPT ![r] = @ \cup {item}]
    BY DEF Takes
  <1>2. sent' = sent /\ conn' = conn /\ relay[r].down /\ carrier = "quic"
    BY DEF Takes, sessionVars
  <1>3. CASE item = CLOSED
    BY <1>1, <1>2, <1>3
  <1>4. CASE item # CLOSED
    <2>1. relay[r].id \in FlowIds
      BY <1>0, <1>2 DEF AllSound, Sound, Relay
    <2>2. conn.gen = 1 => \E p \in sent : Origin[p] = r /\ item = {p}
      <3>1. ASSUME conn.gen = 1 PROVE \E p \in sent : Origin[p] = r /\ item = {p}
        <4>1. PICK p \in Packets : item = {p} /\ Mine(relay[r].id, p)
          BY <1>1, <1>4, <2>1, <3>1 DEF Inv, Owned, Poll
        <4>2. Origin[p] \in Relays
          BY OriginAssumption
        <4>3. Origin[p] = r
          BY <1>0, <2>1, <3>1, <4>1, <4>2, OneOwner DEF Mine
        <4>4. QED
          BY <4>1, <4>3 DEF Mine
      <3>2. QED
        BY <3>1
    <2>3. Promise!Deliver(r, item)
      BY <1>1, <1>2, <1>4, <2>2 DEF Promise!Deliver
    <2>4. QED
      BY <2>3 DEF Item
  <1>5. QED
    BY <1>3, <1>4

\* Every relay keeps the promise: what it hands the device until the connection
\* is replaced is a whole packet its own far end sent.
THEOREM RelaysKeepPromise == Spec => ImplementsPromise
  <1>1. Init => Promise!Init
    BY DEF Init, Promise!Init
  <1>2. Inv /\ [Next]_vars => [Promise!Next]_(Promise!vars)
    <2>0. SUFFICES ASSUME Inv, [Next]_vars PROVE Promise!Next \/ UNCHANGED Promise!vars
      OBVIOUS
    <2>i. AllSound /\ Linked /\ SessionType /\ conn.gen \in Nat /\ conn.gen # 0
      BY <2>0, TypeParts DEF Inv, AllSound, SessionType, Connection
    <2>1. ASSUME NEW r \in Relays, Takes(r) PROVE Promise!Next \/ UNCHANGED Promise!vars
      BY <2>0, <2>1, TakesDelivers DEF Promise!Next, Promise!vars
    <2>2. ASSUME NEW f \in FlowIds, NEW p \in Packets, FarEndSends(f, p) PROVE Promise!Next
      <3>1. Promise!Send(p)
        BY <2>2 DEF FarEndSends, Promise!Send, sessionVars
      <3>2. QED
        BY <3>1 DEF Promise!Next
    <2>3. ASSUME Rebuild PROVE Promise!Next
      <3>1. conn'.gen # 1
        BY <2>i, <2>3, Rebuilt
      <3>2. Promise!Replace
        BY <2>3, <3>1 DEF Rebuild, history, Promise!Replace
      <3>3. QED
        BY <3>2 DEF Promise!Next
    <2>4. ASSUME NEW r \in Relays, RelaySteps(r), ~Takes(r) PROVE UNCHANGED Promise!vars
      <3>1. conn'.gen = conn.gen
        BY <2>i, <2>4, RelayStepSettles, StreamTaken DEF Settles
      <3>2. UNCHANGED <<sent, got>>
        BY <2>4 DEF RelaySteps, Offer, UserAsks, UserCloses, Reap, CheckOpen, ClosesFlow, TakesStream, Connects,
           Answered, FirstSendFails, Lost, OpeningThrows, DialFails, Assigns, Checks, ServeEnds, UpEnds, DownEnds, SocketDies,
           ShutsDown, history
      <3>3. QED
        BY <3>1, <3>2 DEF Promise!vars
    <2>5. ASSUME \/ Demultiplexes \/ ConnectionDies \/ Stops \/ HandlersShut \/ SessionCloses
                 \/ UNCHANGED vars \/ (\E f \in FlowIds : FarEndCloses(f))
          PROVE  UNCHANGED Promise!vars
      <3>1. conn'.gen = conn.gen
        BY <2>i, <2>5, OtherStepSettles DEF Settles
      <3>2. UNCHANGED <<sent, got>>
        BY <2>5 DEF Demultiplexes, ConnectionDies, Stops, HandlersShut, SessionCloses, FarEndCloses, vars, history
      <3>3. QED
        BY <3>1, <3>2 DEF Promise!vars
    <2>6. QED
      BY <2>0, <2>1, <2>2, <2>3, <2>4, <2>5 DEF Next
  <1>3. QED
    BY <1>1, <1>2, Invariance, PTL DEF Spec, ImplementsPromise, Promise!Spec

-----------------------------------------------------------------------------
(* A relay that is over.  Once its channel is closed or its coroutine has    *)
(* ended and it is out of the table, somebody is about to close its flow, or *)
(* the way is closed already; and a way that is closed is not opened again.  *)

PathClosed(r) == r \notin sockets /\ (Current(r) => route[relay[r].id] # r)

Ending(x) == \/ x.at = "open" /\ ~x.chan
             \/ x.at = "ended" /\ x.flow /\ ~x.listed

Closing(r) == relay[r].closers \cap Closer # {} \/ PathClosed(r)

\* Where the coroutine may stand of a relay that has a socket.
Connected(x) == /\ x.at \notin {"new", "dialling", "asking"}
                /\ x.at = "ended" => x.flow

Closes == /\ \A r \in Relays : Ending(relay[r]) => Closing(r)
          /\ \A r \in Relays : r \in sockets => Connected(relay[r])
          /\ carrier = "tls" => \A r \in Relays : relay[r].gen = 0

\* What a step may do to a record: it ends with a closer, or it was ending.
Ends(x, y) == Ending(y) => \/ Ending(x) /\ x.closers \cap Closer \subseteq y.closers
                           \/ y.closers \cap Closer # {}

\* A step that does not touch how the record ends.
Undisturbed(x, y) == /\ y.at = x.at /\ y.flow = x.flow /\ y.listed = x.listed /\ y.chan = x.chan
                     /\ x.closers \cap Closer \subseteq y.closers

LEMMA KeptEnds ==
  ASSUME NEW x, NEW y, Undisturbed(x, y)
  PROVE  Ends(x, y) /\ (Connected(x) => Connected(y))
  BY DEF Undisturbed, Ends, Ending, Connected

LEMMA BegunEnds ==
  ASSUME NEW x \in Relay, NEW who \in Closer
  PROVE  /\ Ends(x, Begun(x, who)) /\ (Connected(x) => Connected(Begun(x, who)))
         /\ Ends(x, Gone(Begun(x, who)))
         /\ Gone(Begun(x, who)).at = "ended" /\ Gone(Begun(x, who)).flow = x.flow
  <1>1. who \in Call /\ "ended" \in ServeAt
    BY DEF Call, ServeAt
  <1>2. /\ Begun(x, who) \in Relay /\ who \in Begun(x, who).closers
        /\ Begun(x, who).at = x.at /\ Begun(x, who).flow = x.flow
    BY <1>1, BegunIs
  <1>3. /\ Gone(Begun(x, who)).closers = Begun(x, who).closers
        /\ Gone(Begun(x, who)).at = "ended" /\ Gone(Begun(x, who)).flow = x.flow
    BY <1>1, <1>2, AtIs DEF Gone
  <1>4. QED
    BY <1>2, <1>3 DEF Ends, Connected

LEMMA MovesTo ==
  ASSUME relay \in [Relays -> Relay], NEW r \in Relays, NEW x \in Relay, NEW a \in ServeAt,
         Moves(r, [x EXCEPT !.at = a])
  PROVE  relay'[r].at = a /\ relay'[r].gen = x.gen
  <1> DEFINE y == [x EXCEPT !.at = a]
  <1>1. y \in Relay /\ y.at = a /\ y.gen = x.gen
    BY AtIs
  <1>2. Moves(r, y)
    OBVIOUS
  <1> HIDE DEF y
  <1>3. QED
    BY <1>1, <1>2, MovesIs

LEMMA TableStepEnds ==
  ASSUME relay \in [Relays -> Relay], NEW r \in Relays, Sound(relay[r]),
         Offer(r) \/ UserAsks(r) \/ UserCloses(r) \/ Reap(r) \/ ShutsDown(r)
  PROVE  Ends(relay[r], relay'[r]) /\ (Connected(relay[r]) => Connected(relay'[r]))
  <1> DEFINE x == relay[r]
  <1>0. x \in Relay /\ Sound(x) /\ x = relay[r]
    OBVIOUS
  <1> HIDE DEF x
  <1>c. Closer \subseteq Call /\ "asked" \notin Closer /\ {"user", "reaper", "shutdown"} \subseteq Closer
    BY DEF Call, Closer
  <1>1. ASSUME Offer(r) PROVE Ends(x, relay'[r]) /\ ~Connected(x)
    <2>1. Moves(r, OfferedRec) /\ x.at = "new"
      BY <1>0, <1>1 DEF Offer, OfferedRec
    <2>2. relay'[r] = OfferedRec
      BY <2>1, OfferedIs, MovesIs
    <2>3. QED
      BY <2>1, <2>2, OfferedIs DEF Ends, Ending, Connected
  <1>2. ASSUME UserAsks(r) PROVE Ends(x, relay'[r]) /\ (Connected(x) => Connected(relay'[r]))
    <2> DEFINE calls == x.closers \cup {"asked"}
               y == [x EXCEPT !.closers = calls]
    <2>1. Moves(r, IF x.at = "dialling" THEN Gone(y) ELSE y)
      BY <1>0, <1>2 DEF UserAsks
    <2>2. calls \in SUBSET Call /\ x.closers \subseteq calls
      BY <1>0 DEF Relay, Call
    <2> HIDE DEF calls
    <2>3. /\ y \in Relay /\ y.at = x.at /\ y.flow = x.flow /\ y.listed = x.listed /\ y.chan = x.chan
          /\ y.closers = calls
      BY <1>0, <2>2, CallsIs
    <2> HIDE DEF y
    <2>4. Gone(y) \in Relay /\ Gone(y).at = "ended" /\ Gone(y).flow = x.flow
      BY <2>3, AtIs DEF Gone, ServeAt
    <2>5. CASE x.at = "dialling"
      <3>1. relay'[r] = Gone(y) /\ ~x.flow
        BY <1>0, <2>1, <2>4, <2>5, MovesIs DEF Sound
      <3>2. QED
        BY <2>4, <2>5, <3>1 DEF Ends, Ending, Connected
    <2>6. CASE x.at # "dialling"
      <3>1. relay'[r] = y /\ Undisturbed(x, y)
        BY <2>1, <2>2, <2>3, <2>6, MovesIs DEF Undisturbed
      <3>2. QED
        BY <3>1, KeptEnds
    <2>7. QED
      BY <2>5, <2>6
  <1>3. ASSUME UserCloses(r) PROVE Ends(x, relay'[r]) /\ (Connected(x) => Connected(relay'[r]))
    <2> DEFINE b == Begun(x, "user")
               calls == b.closers \ {"asked"}
               y == [b EXCEPT !.closers = calls]
    <2>1. b \in Relay /\ b.at = x.at /\ b.flow = x.flow /\ b.closers = x.closers \cup {"user"}
      BY <1>0, <1>c, BegunIs
    <2>2. Moves(r, y)
      BY <1>0, <1>3 DEF UserCloses
    <2> HIDE DEF b
    <2>3. calls \in SUBSET Call /\ "user" \in calls
      BY <1>0, <1>c, <2>1 DEF Relay
    <2> HIDE DEF calls
    <2>4. y \in Relay /\ y.at = x.at /\ y.flow = x.flow /\ y.closers = calls
      BY <2>1, <2>3, CallsIs
    <2> HIDE DEF y
    <2>5. relay'[r] = y
      BY <2>2, <2>4, MovesIs
    <2>6. QED
      BY <1>c, <2>3, <2>4, <2>5 DEF Ends, Connected
  <1>4. ASSUME Reap(r) PROVE Ends(x, relay'[r]) /\ (Connected(x) => Connected(relay'[r]))
    <2>1. relay'[r] = Reaped(x)
      BY <1>0, <1>4, ReapedIs, MovesIs DEF Reap
    <2>2. QED
      BY <1>0, <1>c, <2>1, ReapedIs DEF Ends, Connected
  <1>5. ASSUME ShutsDown(r) PROVE Ends(x, relay'[r]) /\ (Connected(x) => Connected(relay'[r]))
    <2>1. relay'[r] = Begun(x, "shutdown")
      BY <1>0, <1>c, <1>5, BegunIs, MovesIs DEF ShutsDown
    <2>2. QED
      BY <1>0, <1>c, <2>1, BegunEnds
  <1>6. QED
    BY <1>0, <1>1, <1>2, <1>3, <1>4, <1>5

LEMMA ServeStepEnds ==
  ASSUME relay \in [Relays -> Relay], NEW r \in Relays, Sound(relay[r]),
         \/ CheckOpen(r) \/ Answered(r) \/ FirstSendFails(r) \/ OpeningThrows(r) \/ DialFails(r)
         \/ Assigns(r) \/ Checks(r) \/ ServeEnds(r)
  PROVE  Ends(relay[r], relay'[r]) /\ (Connected(relay[r]) => Connected(relay'[r]) \/ r \notin sockets')
  <1> DEFINE x == relay[r]
             b == Begun(x, "serve")
  <1>0. x \in Relay /\ Sound(x)
    OBVIOUS
  <1>x. x = relay[r]
    OBVIOUS
  <1> HIDE DEF x
  <1>c. "serve" \in Closer /\ "serve" \in Call /\ {"asking", "answered", "lost", "ended"} \subseteq ServeAt
    BY DEF Call, Closer, ServeAt
  <1>b. b \in Relay /\ Ends(x, Gone(b)) /\ Gone(b).at = "ended" /\ Gone(b).flow = x.flow
    BY <1>0, <1>c, BegunIs, BegunEnds
  <1> HIDE DEF b
  <1>g. Gone(b) \in Relay
    BY <1>b, <1>c, AtIs DEF Gone
  <1>1. ASSUME CheckOpen(r) PROVE Ends(x, relay'[r]) /\ ~Connected(x)
    <2>1. x.at = "dialling" /\ Moves(r, IF SessionClosed THEN Gone(b) ELSE [x EXCEPT !.at = "asking"])
      BY <1>x, <1>1 DEF CheckOpen, b
    <2>2. relay'[r] = Gone(b) \/ relay'[r].at = "asking"
      BY <1>0, <1>c, <1>g, <2>1, MovesIs, MovesTo
    <2>3. QED
      BY <1>b, <2>1, <2>2 DEF Ends, Ending, Connected
  <1>2. ASSUME Answered(r) PROVE Ends(x, relay'[r]) /\ Connected(relay'[r])
    <2>1. relay'[r].at = "answered"
      BY <1>0, <1>x, <1>2, <1>c, MovesTo DEF Answered
    <2>2. QED
      BY <2>1 DEF Ends, Ending, Connected
  <1>3. ASSUME FirstSendFails(r) \/ OpeningThrows(r) PROVE Ends(x, relay'[r]) /\ Connected(relay'[r])
    <2>1. relay'[r].at = "lost"
      BY <1>x, <1>3, <1>b, <1>c, MovesTo DEF FirstSendFails, OpeningThrows, Lost, b
    <2>2. QED
      BY <2>1 DEF Ends, Ending, Connected
  <1>4. ASSUME DialFails(r) PROVE Ends(x, relay'[r]) /\ r \notin sockets'
    <2>1. relay'[r] = Gone(b) /\ r \notin sockets'
      BY <1>x, <1>4, <1>g, MovesIs DEF DialFails, b
    <2>2. QED
      BY <1>b, <2>1
  <1>5. ASSUME Assigns(r) PROVE Ends(x, relay'[r]) /\ Connected(relay'[r])
    <2> DEFINE y == [x EXCEPT !.at = "assigned", !.flow = TRUE]
    <2>a. Moves(r, y)
      BY <1>x, <1>5 DEF Assigns
    <2>b. y \in Relay /\ y.at = "assigned"
      BY <1>0, AssignedIs, Zenon
    <2> HIDE DEF y
    <2>1. relay'[r].at = "assigned"
      BY <2>a, <2>b, MovesIs
    <2>2. QED
      BY <2>1 DEF Ends, Ending, Connected
  <1>6. ASSUME Checks(r) PROVE Ends(x, relay'[r]) /\ Connected(relay'[r])
    <2> DEFINE y == Opened(x)
    <2>0. x.at = "assigned" /\ Moves(r, IF x.chan THEN y ELSE Gone(b))
      BY <1>x, <1>6 DEF Checks, Checked, b
    <2>1. x.flow
      BY <1>0, <2>0 DEF Sound
    <2>2. y \in Relay /\ y.at = "open" /\ y.chan = x.chan
      BY <1>0, OpenIs, Zenon
    <2> HIDE DEF y
    <2>3. (relay'[r] = y /\ x.chan) \/ relay'[r] = Gone(b)
      BY <1>g, <2>0, <2>2, MovesIs
    <2>4. Connected(relay'[r])
      BY <1>b, <2>1, <2>2, <2>3 DEF Connected
    <2>5. QED
      BY <1>b, <2>2, <2>3, <2>4 DEF Ends, Ending
  <1>7. ASSUME ServeEnds(r) PROVE Ends(x, relay'[r]) /\ Connected(relay'[r])
    <2> DEFINE y == Gone(x)
               g == Gone(b)
               z == [g EXCEPT !.reaper = FALSE]
    <2>0. x.at = "open" /\ (Moves(r, z) \/ Moves(r, y))
      BY <1>x, <1>7 DEF ServeEnds, b
    <2>1. x.at = "open" /\ x.flow
      BY <1>0, <2>0 DEF Sound
    <2>2. y \in Relay /\ y.at = "ended" /\ y.flow = x.flow /\ y.listed = x.listed /\ y.closers = x.closers
      BY <1>0, <1>c, AtIs DEF Gone
    <2> HIDE DEF y
    <2>g. g \in Relay /\ Ends(x, g) /\ g.at = "ended" /\ g.flow = x.flow
      BY <1>b, <1>g
    <2> HIDE DEF g
    <2>z. /\ z \in Relay /\ z.at = "ended" /\ z.flow = x.flow /\ z.listed = g.listed
          /\ z.chan = g.chan /\ z.closers = g.closers
      BY <2>g, RestedIs
    <2> HIDE DEF z
    <2>e. Ends(x, z)
      BY <2>g, <2>z DEF Ends, Ending
    <2>3. relay'[r] = z \/ relay'[r] = y
      BY <2>z, <2>0, <2>2, MovesIs
    <2>4. ~x.listed => ~x.chan
      BY <1>0, <2>1 DEF Sound
    <2>5. QED
      BY <2>e, <2>z, <2>1, <2>2, <2>3, <2>4 DEF Ends, Ending, Connected
  <1>8. QED
    BY <1>x, <1>1, <1>2, <1>3, <1>4, <1>5, <1>6, <1>7

LEMMA PumpStepEnds ==
  ASSUME relay \in [Relays -> Relay], NEW r \in Relays, UpEnds(r) \/ DownEnds(r) \/ Takes(r) \/ SocketDies(r)
  PROVE  Ends(relay[r], relay'[r]) /\ (Connected(relay[r]) => Connected(relay'[r]))
  <1> DEFINE x == relay[r]
  <1>0. x \in Relay /\ x = relay[r]
    OBVIOUS
  <1> HIDE DEF x
  <1>1. Undisturbed(x, relay'[r])
    <2>1. CASE UpEnds(r)
      <3>1. relay'[r] = [x EXCEPT !.up = FALSE]
        BY <1>0, <2>1, UpIs, MovesIs DEF UpEnds
      <3>2. QED
        BY <1>0, <3>1, UpIs DEF Undisturbed
    <2>2. CASE DownEnds(r)
      <3>1. relay'[r] = [x EXCEPT !.down = FALSE]
        BY <1>0, <2>2, DownIs, MovesIs DEF DownEnds
      <3>2. QED
        BY <1>0, <3>1, DownIs DEF Undisturbed
    <2>3. CASE Takes(r) \/ SocketDies(r)
      BY <1>0, <2>3 DEF Takes, SocketDies, Undisturbed
    <2>4. QED
      BY <2>1, <2>2, <2>3
  <1>2. QED
    BY <1>0, <1>1, KeptEnds

\* A path stays closed through any step that opens no stream and no socket.
Steady(q) == /\ q \in sockets' => q \in sockets
             /\ \A f \in FlowIds : route'[f] = q => route[f] = q
             /\ Current(q)' => Current(q)
             /\ relay'[q].id = relay[q].id

LEMMA ClosedStays ==
  ASSUME AllSound, Closes, NEW q \in Relays, relay[q].flow, Steady(q), PathClosed(q)
  PROVE  PathClosed(q)'
  <1>1. SUFFICES ASSUME Current(q), Current(q)' PROVE route'[relay'[q].id] # q
    BY DEF PathClosed, Steady
  <1>2. conn.gen # 0 /\ carrier \in {"quic", "tls"} /\ relay[q].id \in FlowIds \cup {0}
    BY TypeParts DEF AllSound, SessionType, Connection, Relay
  <1>3. carrier = "quic"
    BY <1>1, <1>2 DEF Closes, Current
  <1>4. relay[q].id \in FlowIds
    BY <1>2, <1>3 DEF AllSound, Sound
  <1>5. QED
    BY <1>1, <1>4 DEF PathClosed, Steady

LEMMA SettledSteady ==
  ASSUME Settles, NEW q \in Relays, q \in sockets' => q \in sockets
  PROVE  Steady(q)
  BY RelaysAssumption DEF Settles, Steady, Current

\* Closing the flow closes the path, whichever carrier it is on.
LEMMA ClosesFlowEnds ==
  ASSUME AllSound, Linked, Closes, NEW r \in Relays, NEW who \in Closer, ClosesFlow(r, who)
  PROVE  /\ Ending(relay'[r]) => PathClosed(r)'
         /\ Connected(relay[r]) => Connected(relay'[r])
  <1> DEFINE x == relay[r]
             calls == x.closers \ {who}
             y == [x EXCEPT !.closers = calls]
  <1>0. /\ SessionType /\ relay \in [Relays -> Relay] /\ x \in Relay /\ Sound(x)
        /\ conn.gen # 0 /\ x.id \in FlowIds \cup {0}
    BY TypeParts DEF AllSound, SessionType, Connection, Relay
  <1>1. calls \in SUBSET Call
    BY <1>0 DEF Relay
  <1>2. Moves(r, y)
    BY DEF ClosesFlow
  <1>3. /\ y \in Relay /\ y.at = x.at /\ y.flow = x.flow /\ y.listed = x.listed /\ y.chan = x.chan
        /\ y.id = x.id /\ y.gen = x.gen
    BY <1>0, <1>1, CallsIs
  <1>4. relay'[r] = y
    BY <1>0, <1>2, <1>3, MovesIs
  <1>5. Connected(x) => Connected(relay'[r])
    BY <1>3, <1>4 DEF Connected
  <1>6. ASSUME Ending(relay'[r]) PROVE PathClosed(r)'
    <2>1. x.flow
      BY <1>0, <1>3, <1>4, <1>6 DEF Ending, Sound
    <2>2. r \notin sockets' /\ conn' = conn
      BY <2>1 DEF ClosesFlow
    <2>3. CASE carrier = "tls"
      <3>1. ~Current(r)'
        BY <1>0, <1>3, <1>4, <2>2, <2>3 DEF Closes, Current
      <3>2. QED
        BY <2>2, <3>1 DEF PathClosed
    <2>4. CASE carrier = "quic"
      <3>1. x.id \in FlowIds
        BY <1>0, <2>1, <2>4 DEF Sound
      <3>2. conn.alive => route'[x.id] = NoRelay
        BY <1>0, <2>1, <2>4, <3>1 DEF ClosesFlow, SessionType
      <3>3. Current(r)' => route'[relay'[r].id] # r
        BY <1>3, <1>4, <2>2, <3>2, RelaysAssumption DEF Current
      <3>4. QED
        BY <2>2, <3>3 DEF PathClosed
    <2>5. QED
      BY <1>0, <2>3, <2>4 DEF SessionType
  <1>7. QED
    BY <1>5, <1>6

LEMMA RelayStepSockets ==
  ASSUME NEW r \in Relays, RelaySteps(r), NEW q \in Relays, q \in sockets', q \notin sockets
  PROVE  q = r /\ Connects(r)
  <1>1. ASSUME ~Connects(r) PROVE sockets' \subseteq sockets
    BY <1>1 DEF RelaySteps, Offer, UserAsks, UserCloses, Reap, CheckOpen, ClosesFlow, TakesStream,
       Answered, FirstSendFails, Lost, OpeningThrows, DialFails, Assigns, Checks, ServeEnds, UpEnds, Takes, DownEnds, SocketDies,
       ShutsDown, tlsVars
  <1>2. Connects(r)
    BY <1>1
  <1>3. QED
    BY <1>2 DEF Connects

\* An opened stream or socket: its relay is far from its end.
LEMMA OpeningEnds ==
  ASSUME AllSound, NEW r \in Relays, TakesStream(r) \/ Connects(r)
  PROVE  /\ relay'[r].at = "opening"
         /\ carrier' = carrier
         /\ carrier = "tls" => relay'[r].gen = relay[r].gen
  <1>0. relay \in [Relays -> Relay] /\ conn.gen \in 0 .. MaxGenerations /\ "opening" \in ServeAt
    BY TypeParts DEF AllSound, SessionType, Connection, ServeAt
  <1>1. CASE TakesStream(r)
    <2>1. Derived(conn.next) \in FlowIds /\ Moves(r, Streamed(relay[r], Derived(conn.next), conn.gen)) /\ carrier = "quic"
      BY <1>1 DEF TakesStream, Streamed
    <2>2. QED
      BY <1>0, <1>1, <2>1, StreamIs, MovesIs DEF TakesStream
  <1>2. CASE Connects(r)
    <2>1. Moves(r, [relay[r] EXCEPT !.at = "opening"]) /\ carrier' = carrier
      BY <1>2 DEF Connects, sessionVars
    <2>2. relay[r] \in Relay
      BY <1>0
    <2>3. QED
      BY <1>0, <2>1, <2>2, MovesTo
  <1>3. QED
    BY <1>1, <1>2

LEMMA RelayStepCloses ==
  ASSUME AllSound, Linked, Closes, NEW r \in Relays, RelaySteps(r)
  PROVE  Closes'
  <1>0. /\ relay \in [Relays -> Relay] /\ conn \in Connection /\ Sound(relay[r])
        /\ Outcome(r) /\ carrier' = carrier
    BY TypeParts, RelayOutcome, CarrierStays DEF AllSound, SessionType, Next
  <1>1. ASSUME NEW q \in Relays, q # r PROVE Steady(q) /\ relay'[q] = relay[q]
    <2>1. q \in sockets' => q \in sockets
      BY <1>1, RelayStepSockets
    <2>2. CASE TakesStream(r)
      <3>1. /\ relay'[q] = relay[q] /\ conn'.gen = conn.gen /\ conn.alive
            /\ route' = [route EXCEPT ![conn.next + 1] = r]
        BY <1>1, <2>2, StreamTaken
      <3>2. route \in [FlowIds -> Relays \cup {NoRelay}]
        BY TypeParts DEF AllSound, SessionType
      <3>3. QED
        BY <1>1, <2>1, <3>1, <3>2 DEF Steady, Current
    <2>3. CASE ~TakesStream(r)
      BY <1>0, <1>1, <2>1, <2>3, RelayStepSettles, SettledSteady DEF Outcome
    <2>4. QED
      BY <2>2, <2>3
  <1>2. ASSUME TakesStream(r) \/ Connects(r)
        PROVE  (Ending(relay'[r]) => Closing(r)') /\ (r \in sockets' => Connected(relay'[r]))
    <2>1. relay'[r].at = "opening"
      BY <1>2, OpeningEnds
    <2>2. QED
      BY <2>1 DEF Ending, Connected
  <1>s. ~Connects(r) => (r \in sockets' => r \in sockets)
    BY RelayStepSockets
  <1>3. ASSUME NEW who \in Closer, ClosesFlow(r, who)
        PROVE  (Ending(relay'[r]) => Closing(r)') /\ (r \in sockets' => Connected(relay'[r]))
    <2>1. sockets' \subseteq sockets
      BY <1>3 DEF ClosesFlow, tlsVars
    <2>2. QED
      BY <1>3, <2>1, ClosesFlowEnds DEF Closing, Closes
  <1>4. ASSUME ~TakesStream(r), ~Connects(r), \A who \in Closer : ~ClosesFlow(r, who)
        PROVE  (Ending(relay'[r]) => Closing(r)') /\ (r \in sockets' => Connected(relay'[r]))
    <2>1. Ends(relay[r], relay'[r]) /\ (Connected(relay[r]) => Connected(relay'[r]) \/ r \notin sockets')
      BY <1>0, <1>4, TableStepEnds, ServeStepEnds, PumpStepEnds DEF RelaySteps
    <2>2. Steady(r)
      BY <1>4, <1>s, RelayStepSettles, SettledSteady
    <2>3. ASSUME Ending(relay'[r]), relay'[r].closers \cap Closer = {} PROVE PathClosed(r)'
      <3>1. Ending(relay[r]) /\ relay[r].closers \cap Closer = {}
        BY <2>1, <2>3 DEF Ends
      <3>2. PathClosed(r) /\ relay[r].flow
        BY <1>0, <3>1 DEF Closes, Closing, Ending, Sound
      <3>3. QED
        BY <2>2, <3>2, ClosedStays
    <2>4. QED
      BY <1>4, <1>s, <2>1, <2>3 DEF Closing, Closes
  <1>5. (Ending(relay'[r]) => Closing(r)') /\ (r \in sockets' => Connected(relay'[r]))
    BY <1>2, <1>3, <1>4
  <1>6. ASSUME NEW q \in Relays, q # r
        PROVE  (Ending(relay'[q]) => Closing(q)') /\ (q \in sockets' => Connected(relay'[q]))
    <2>1. Steady(q) /\ relay'[q] = relay[q]
      BY <1>1, <1>6
    <2>2. ASSUME Ending(relay'[q]), relay'[q].closers \cap Closer = {} PROVE PathClosed(q)'
      <3>1. PathClosed(q) /\ relay[q].flow
        BY <2>1, <2>2 DEF Closes, Closing, Ending, AllSound, Sound
      <3>2. QED
        BY <2>1, <3>1, ClosedStays
    <2>3. QED
      BY <2>1, <2>2 DEF Closing, Closes, Steady
  <1>7. carrier = "tls" => \A q \in Relays : relay'[q].gen = 0
    <2>1. carrier = "tls" => ~TakesStream(r)
      BY DEF TakesStream
    <2>2. QED
      BY <1>0, <2>1 DEF Closes, Outcome
  <1>8. QED
    BY <1>0, <1>5, <1>6, <1>7 DEF Closes

\* No other step opens anything, or ends a relay but one that had no flow.
LEMMA OtherStepCloses ==
  ASSUME AllSound, Linked, Closes, [Next]_vars, \A r \in Relays : ~RelaySteps(r)
  PROVE  Closes'
  <1>0. /\ relay \in [Relays -> Relay] /\ SessionType /\ carrier' = carrier
    BY TypeParts, CarrierStays DEF AllSound
  <1>1. sockets' \subseteq sockets
    BY DEF Next, vars, tlsVars, Rebuild, Demultiplexes, ConnectionDies, FarEndCloses, FarEndSends,
       Stops, HandlersShut, SessionCloses
  <1>2. ASSUME NEW q \in Relays PROVE Steady(q)
    <2>1. CASE Rebuild
      <3>1. /\ conn'.gen = conn.gen + 1 /\ conn.gen \in Nat /\ relay' = relay /\ route' = route
            /\ relay[q].gen \in Nat /\ relay[q].gen <= conn.gen
        BY <1>0, <2>1, Rebuilt DEF Rebuild, SessionType, Connection, Relay, Linked
      <3>2. relay'[q].gen # conn'.gen
        BY <3>1
      <3>3. QED
        BY <1>1, <3>1, <3>2 DEF Steady, Current
    <2>2. CASE ~Rebuild
      BY <1>1, <2>2, OtherStepSettles, SettledSteady DEF Next
    <2>3. QED
      BY <2>1, <2>2
  <1>3. ASSUME NEW q \in Relays
        PROVE  /\ Ends(relay[q], relay'[q]) /\ (Connected(relay[q]) => Connected(relay'[q]))
               /\ relay'[q].gen = relay[q].gen
    <2>1. CASE HandlersShut
      <3> DEFINE x == relay[q]
                 y == Scrapped(x)
      <3>1. x \in Relay /\ Sound(x) /\ relay'[q] = y /\ y.gen = x.gen
        BY <1>0, <2>1, ScrapOutcome, ScrappedIs DEF AllSound
      <3>2. /\ y.at = (IF x.at = "dialling" THEN "ended" ELSE x.at) /\ y.flow = x.flow /\ y.listed = x.listed
            /\ y.chan = x.chan /\ y.closers = x.closers \ {"asked"}
        BY <3>1, ScrappedIs
      <3> HIDE DEF x, y
      <3>3. x.at = "dialling" => ~x.flow
        BY <3>1 DEF Sound
      <3>4. "asked" \notin Closer
        BY DEF Closer
      <3>5. Ends(x, y) /\ (Connected(x) => Connected(y))
        BY <3>2, <3>3, <3>4 DEF Ends, Ending, Connected
      <3>6. QED
        BY <3>1, <3>5 DEF x
    <2>2. CASE ~HandlersShut
      <3>1. relay' = relay
        BY <2>2, OthersLeaveRelays DEF Next, vars
      <3>2. QED
        BY <3>1 DEF Ends
    <2>3. QED
      BY <2>1, <2>2
  <1>4. ASSUME NEW q \in Relays
        PROVE  (Ending(relay'[q]) => Closing(q)') /\ (q \in sockets' => Connected(relay'[q]))
    <2>1. ASSUME Ending(relay'[q]), relay'[q].closers \cap Closer = {} PROVE PathClosed(q)'
      <3>1. Ending(relay[q]) /\ relay[q].closers \cap Closer = {}
        BY <1>3, <2>1 DEF Ends
      <3>2. PathClosed(q) /\ relay[q].flow
        BY <3>1 DEF Closes, Closing, Ending, AllSound, Sound
      <3>3. QED
        BY <1>2, <3>2, ClosedStays
    <2>2. QED
      BY <1>1, <1>3, <2>1 DEF Closing, Closes
  <1>5. QED
    BY <1>0, <1>3, <1>4 DEF Closes

\* A relay that is over leaves no socket and no route at the far end, whichever
\* way the check of its channel, the closers, a rebuilt connection and the
\* teardown fell between each other.
THEOREM NothingOutlivesRelay == Spec => []NoFlowOutlives
  <1>1. Init => Closes
    BY DEF Init, Fresh, Closes, Ending
  <1>2. AllSound /\ Linked /\ Closes /\ [Next]_vars => Closes'
    BY RelayStepCloses, OtherStepCloses
  <1>3. AllSound /\ Closes => NoFlowOutlives
    <2>1. ASSUME AllSound, Closes, NEW r \in Relays, Settled(r)
          PROVE  r \notin sockets /\ (relay[r].flow /\ Current(r) => route[relay[r].id] # r)
      <3>1. Sound(relay[r]) /\ relay[r].at = "ended" /\ relay[r].closers = {}
        BY <2>1 DEF AllSound, Settled
      <3>2. ~relay[r].listed
        BY <3>1 DEF Sound
      <3>3. relay[r].flow => PathClosed(r)
        BY <2>1, <3>1, <3>2 DEF Closes, Closing, Ending
      <3>4. ~relay[r].flow => r \notin sockets
        BY <2>1, <3>1 DEF Closes, Connected
      <3>5. QED
        BY <3>3, <3>4 DEF PathClosed
    <2>2. QED
      BY <2>1 DEF NoFlowOutlives
  <1>4. QED
    BY <1>1, <1>2, <1>3, RoutesLinked, PTL DEF Spec

=============================================================================
