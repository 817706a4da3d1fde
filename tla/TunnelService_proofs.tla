------------------------ MODULE TunnelService_proofs ------------------------
(***************************************************************************)
(* For every set of nodes and subscriptions: an attempt dials no node      *)
(* twice and a picked node is not left, what is reported is what there is, *)
(* a service that is over leaves nothing behind, and no feed, however      *)
(* late, deletes a node or lists one for a subscription that has gone.     *)
(***************************************************************************)
EXTENDS TunnelService, SequenceTheorems, TLAPS

-----------------------------------------------------------------------------
(* Entries. *)

LEMMA OwnedIsManual ==
  ASSUME NEW e \in Entry
  PROVE  Owned(e) \in Manual /\ Owned(e).url = e.url
  BY DEF Entry, Manual, Owned

\* A feed touches nothing of a stored node but its origin and its source.
LEMMA AgainstEntry ==
  ASSUME NEW e \in Entry, NEW s \in Subs, NEW feed
  PROVE  \E x \in Entry :
           /\ Against(e, feed, s) = {x} /\ x.url = e.url
           /\ x = e \/ (x.source = s /\ x.origin \in {"sub", "removed"})
           /\ e \in Manual => x = e
  <1>1. CASE e.origin # "manual" /\ e.source = s
    <2>1. PICK o \in {"sub", "removed"} : Against(e, feed, s) = {[e EXCEPT !.origin = o]}
      BY <1>1 DEF Against
    <2>2. [e EXCEPT !.origin = o] \in Entry /\ [e EXCEPT !.origin = o].url = e.url
          /\ [e EXCEPT !.origin = o].source = s /\ [e EXCEPT !.origin = o].origin = o
      BY <1>1 DEF Entry, Manual
    <2>3. e \notin Manual
      BY <1>1 DEF Manual
    <2>4. QED
      BY <2>1, <2>2, <2>3
  <1>2. CASE ~(e.origin # "manual" /\ e.source = s) /\ e.origin = "removed" /\ e.url \in feed
    <2>1. Against(e, feed, s) = {[e EXCEPT !.origin = "sub", !.source = s]}
      BY <1>2 DEF Against
    <2>2. /\ [e EXCEPT !.origin = "sub", !.source = s] \in Entry
          /\ [e EXCEPT !.origin = "sub", !.source = s].url = e.url
          /\ [e EXCEPT !.origin = "sub", !.source = s].source = s
          /\ [e EXCEPT !.origin = "sub", !.source = s].origin = "sub"
      BY <1>2 DEF Entry, Manual
    <2>3. e \notin Manual
      BY <1>2 DEF Manual
    <2>4. QED
      BY <2>1, <2>2, <2>3
  <1>3. CASE ~(e.origin # "manual" /\ e.source = s) /\ ~(e.origin = "removed" /\ e.url \in feed)
    <2>1. Against(e, feed, s) = {e}
      BY <1>3 DEF Against
    <2>2. QED
      BY <2>1
  <1>4. QED
    BY <1>1, <1>2, <1>3

LEMMA ReconciledType ==
  ASSUME ListType, NEW s \in Subs, NEW feed \in SUBSET Urls
  PROVE  Reconciled(feed, s) \subseteq Entry
  <1>1. ASSUME NEW e \in entries PROVE Against(e, feed, s) \subseteq Entry
    <2>1. e \in Entry
      BY DEF ListType
    <2>2. QED
      BY <2>1, AgainstEntry
  <1>2. Marked(feed, s) \subseteq Entry
    BY <1>1 DEF Marked
  <1>3. Fresh(feed, s) \subseteq Entry
    BY DEF Fresh, Entry
  <1>4. QED
    BY <1>2, <1>3 DEF Reconciled

-----------------------------------------------------------------------------
(* The types of the lists. *)

LEMMA UserEditsType ==
  ASSUME ListType, UserEdits
  PROVE  ListType'
  <1>1. ASSUME NEW u \in Urls, AddNode(u) PROVE ListType'
    BY <1>1 DEF AddNode, Saves, ListType, Entry, Manual
  <1>2. ASSUME NEW e \in entries, RemoveNode(e) PROVE ListType'
    BY <1>2 DEF RemoveNode, Saves, ListType, Removed
  <1>3. ASSUME Restore PROVE ListType'
    <2>1. undo.entry \in Entry /\ undo.entry.url \in Urls
      BY <1>3 DEF Restore, ListType, Removed, Entry, Manual
    <2>2. QED
      BY <1>3, <2>1 DEF Restore, Saves, PutBack, ListType
  <1>4. ASSUME UndoExpires PROVE ListType'
    BY <1>4 DEF UndoExpires, ListType
  <1>5. ASSUME NEW old \in Urls, NEW new \in Urls, EditNode(old, new) PROVE ListType'
    <2>1. \A e \in Entry : [e EXCEPT !.url = new] \in Entry
      BY DEF Entry, Manual
    <2>2. QED
      BY <1>5, <2>1 DEF EditNode, Saves, ListType
  <1>6. ASSUME NEW s \in Subs, AddSubscription(s) PROVE ListType'
    BY <1>6 DEF AddSubscription, ListType
  <1>7. ASSUME NEW s \in Subs, RemoveSubscription(s) PROVE ListType'
    BY <1>7, OwnedIsManual DEF RemoveSubscription, Saves, Released, ListType, Entry
  <1>8. QED
    BY <1>1, <1>2, <1>3, <1>4, <1>5, <1>6, <1>7 DEF UserEdits

LEMMA RefreshesType ==
  ASSUME ListType, Refreshes
  PROVE  ListType'
  <1>1. ASSUME NEW f \in Fetches, NEW s \in Subs, StartFetch(f, s) PROVE ListType'
    BY <1>1 DEF StartFetch, ListType
  <1>2. ASSUME NEW f \in Fetches, NEW feed \in SUBSET Urls, Arrives(f, feed) PROVE ListType'
    <2>1. fetching[f] \in Subs
      BY <1>2 DEF Arrives, ListType
    <2>2. entries' \subseteq Entry
      BY <1>2, <2>1, ReconciledType DEF Arrives, Saves, ListType
    <2>3. QED
      BY <1>2, <2>2 DEF Arrives, ListType
  <1>3. ASSUME NEW f \in Fetches, FetchFails(f) PROVE ListType'
    BY <1>3 DEF FetchFails, ListType
  <1>4. QED
    BY <1>1, <1>2, <1>3 DEF Refreshes

LEMMA ReloadType ==
  ASSUME ListType, Reload
  PROVE  ListType'
  BY OwnedIsManual DEF Reload, Saves, Adopted, ListType, Entry

LEMMA ListsKeepType ==
  ASSUME ListType, [UserEdits \/ Refreshes \/ Reload]_listVars
  PROVE  ListType'
  BY UserEditsType, RefreshesType, ReloadType DEF ListType, listVars

-----------------------------------------------------------------------------
(* What feeds and users may do to the lists, whatever the rest does. *)

\* The steps of the service either are one of the lists' or leave them alone.
ListStep == UserEdits \/ Refreshes \/ Reload \/ (\E c \in Urls \cup {Automatic} : Choose(c))

LEMMA ServiceMovesLists ==
  ASSUME Next
  PROVE  ListStep \/ UNCHANGED listVars
  <1>1. ASSUME Control PROVE UNCHANGED listVars
    BY <1>1 DEF Control, HandleStart, HandleStop, NotEstablished, ComesUp, IsRefused, IsUnreachable
  <1>2. ASSUME Connect \/ ConnectElsewhere \/ Disconnect \/ NothingToStart \/ Destroyed \/ Over
        PROVE  UNCHANGED listVars
    BY <1>2 DEF Connect, ConnectElsewhere, Disconnect, NothingToStart, Destroyed, Over
  <1>3. ASSUME NEW u \in Urls, Fades(u) PROVE UNCHANGED listVars
    BY <1>3 DEF Fades
  <1>4. ASSUME NEW c \in Urls \cup {Automatic}, PickNode(c) PROVE ListStep
    BY <1>4 DEF PickNode, ListStep
  <1>5. ASSUME Lists PROVE ListStep
    BY <1>5 DEF Lists, ListStep
  <1>6. ASSUME Dies PROVE ListStep
    BY <1>6 DEF Dies, ListStep
  <1>7. QED
    BY <1>1, <1>2, <1>3, <1>4, <1>5, <1>6 DEF Next

LEMMA ListTypeStep ==
  ASSUME ListType, [Next]_vars
  PROVE  ListType'
  <1>1. CASE UNCHANGED vars
    BY <1>1 DEF ListType, vars, listVars
  <1>2. CASE UNCHANGED listVars
    BY <1>2 DEF ListType, listVars
  <1>3. CASE ListStep
    <2>1. ASSUME NEW c \in Urls \cup {Automatic}, Choose(c) PROVE ListType'
      BY <2>1 DEF Choose, ListType
    <2>2. QED
      BY <1>3, <2>1, ListsKeepType DEF ListStep
  <1>4. QED
    BY <1>1, <1>2, <1>3, ServiceMovesLists

\* The lists keep their types under everything the service and the user do.
THEOREM ListsTyped == Spec => []ListType
  <1>1. Init => ListType
    BY DEF Init, ListInit, ListType
  <1>2. ListType /\ [Next]_vars => ListType'
    BY ListTypeStep
  <1>3. QED
    BY <1>1, <1>2, PTL DEF Spec

LEMMA ArrivalKeeps ==
  ASSUME ListType, NEW f \in Fetches, NEW feed \in SUBSET Urls, Arrives(f, feed)
  PROVE  Listed(entries) \subseteq Listed(entries') /\ entries \cap Manual \subseteq entries'
  <1> DEFINE s == fetching[f]
  <1>1. s \in Subs
    BY DEF Arrives, ListType
  <1>2. CASE entries' = entries
    BY <1>2 DEF Listed
  <1>3. CASE entries' = Reconciled(feed, s)
    <2>1. ASSUME NEW e \in entries
          PROVE  e.url \in Listed(entries') /\ (e \in Manual => e \in entries')
      <3>1. e \in Entry
        BY DEF ListType
      <3>2. PICK x \in Entry : Against(e, feed, s) = {x} /\ x.url = e.url /\ (e \in Manual => x = e)
        BY <1>1, <3>1, AgainstEntry
      <3>3. x \in Reconciled(feed, s)
        BY <3>2 DEF Reconciled, Marked
      <3>4. QED
        BY <1>3, <3>2, <3>3 DEF Listed
    <2>2. QED
      BY <2>1 DEF Listed
  <1>4. QED
    BY <1>2, <1>3 DEF Arrives, Saves

\* No feed takes a node out of the list or touches the user's own: KeptAndMarked
\* for every list, every feed and every order of arrival.
THEOREM FeedsDeleteNothing == Spec => KeptAndMarked
  <1>1. ListType /\ [Next]_vars =>
          [(\E f \in Fetches, feed \in SUBSET Urls : Arrives(f, feed)) =>
              /\ Listed(entries) \subseteq Listed(entries')
              /\ entries \cap Manual \subseteq entries']_listVars
    BY ArrivalKeeps
  <1>2. QED
    BY <1>1, ListsTyped, PTL DEF Spec, KeptAndMarked

-----------------------------------------------------------------------------
(* Nodes of a subscription that has gone. *)

\* What a feed adds is its own subscription's.
LEMMA ArrivalSource ==
  ASSUME ListType, NEW f \in Fetches, NEW feed \in SUBSET Urls, Arrives(f, feed),
         NEW x \in entries', x \notin entries
  PROVE  x.source \in subs'
  <1> DEFINE s == fetching[f]
  <1>1. s \in Subs /\ s \in subs /\ subs' = subs /\ entries' = Reconciled(feed, s)
    BY DEF Arrives, ListType, StillThere, Saves
  <1>2. CASE x \in Fresh(feed, s)
    BY <1>1, <1>2 DEF Fresh
  <1>3. CASE x \in Marked(feed, s)
    <2>1. PICK e \in entries : x \in Against(e, feed, s)
      BY <1>3 DEF Marked
    <2>2. e \in Entry /\ x # e
      BY DEF ListType
    <2>3. x.source = s
      BY <1>1, <2>1, <2>2, AgainstEntry
    <2>4. QED
      BY <1>1, <2>3
  <1>4. QED
    BY <1>1, <1>2, <1>3 DEF Reconciled

\* An edit is told apart; everything else the user does makes nodes the user's
\* own, or puts a removed one back.
LEMMA EditsMakeNoOrphan ==
  ASSUME ListType, UserEdits, ~ \E old, new \in Urls : EditNode(old, new),
         NEW e \in entries', e \notin entries, e.origin = "sub"
  PROVE  undo # NoUndo /\ undo.entry = e
  <1>1. ASSUME NEW u \in Urls, AddNode(u) PROVE FALSE
    BY <1>1 DEF AddNode, Saves
  <1>2. ASSUME NEW x \in entries, RemoveNode(x) PROVE FALSE
    BY <1>2 DEF RemoveNode, Saves
  <1>3. ASSUME Restore PROVE undo # NoUndo /\ undo.entry = e
    BY <1>3 DEF Restore, Saves, PutBack
  <1>4. ASSUME UndoExpires PROVE FALSE
    BY <1>4 DEF UndoExpires
  <1>5. ASSUME NEW s \in Subs, AddSubscription(s) PROVE FALSE
    BY <1>5 DEF AddSubscription
  <1>6. ASSUME NEW s \in Subs, RemoveSubscription(s) PROVE FALSE
    <2>1. PICK x \in entries : e = Owned(x)
      BY <1>6 DEF RemoveSubscription, Saves, Released
    <2>2. e \in Manual
      BY <2>1, OwnedIsManual DEF ListType
    <2>3. QED
      BY <2>2 DEF Manual
  <1>7. QED
    BY <1>1, <1>2, <1>3, <1>4, <1>5, <1>6 DEF UserEdits

\* No subscription that is gone gets a node: NoNewOrphans, for every number of
\* refreshes that overlap.
THEOREM GoneStaysGone == Spec => NoNewOrphans
  <1> DEFINE Sound(e) == \/ e.source \in subs'
                         \/ undo # NoUndo /\ undo.entry = e
                         \/ \E old, new \in Urls : EditNode(old, new)
  <1>1. ASSUME ListType, ListStep, NEW e \in entries', e \notin entries, e.origin = "sub"
        PROVE  Sound(e)
    <2>1. ASSUME UserEdits PROVE Sound(e)
      BY <1>1, <2>1, EditsMakeNoOrphan
    <2>2. ASSUME Refreshes PROVE Sound(e)
      BY <1>1, <2>2, ArrivalSource DEF Refreshes, StartFetch, FetchFails
    <2>3. ASSUME Reload PROVE FALSE
      <3>1. PICK x \in entries : e = Owned(x)
        BY <1>1, <2>3 DEF Reload, Saves, Adopted
      <3>2. QED
        BY <1>1, <3>1, OwnedIsManual DEF ListType, Manual
    <2>4. ASSUME NEW c \in Urls \cup {Automatic}, Choose(c) PROVE FALSE
      BY <1>1, <2>4 DEF Choose
    <2>5. QED
      BY <1>1, <2>1, <2>2, <2>3, <2>4 DEF ListStep
  <1>2. ListType /\ [Next]_vars =>
          [\A e \in entries' \ entries : e.origin = "sub" => Sound(e)]_listVars
    <2>1. CASE UNCHANGED listVars
      BY <2>1
    <2>2. CASE ListStep
      BY <1>1, <2>2
    <2>3. QED
      BY <2>1, <2>2, ServiceMovesLists DEF vars
  <1>3. QED
    BY <1>2, ListsTyped, PTL DEF Spec, NoNewOrphans

-----------------------------------------------------------------------------
(* Twins. *)

\* Two nodes of one URL come from two nodes of that URL.
FromTwins(fs, es) == \A x, y \in fs : x # y /\ x.url = y.url =>
                       \E a, b \in es : a # b /\ a.url = b.url /\ a.url = x.url

LEMMA NoFurtherTwins ==
  ASSUME NEW fs, NEW es, FromTwins(fs, es)
  PROVE  Twins(fs) \subseteq Twins(es)
  BY DEF FromTwins, Twins

LEMMA ReleasedTwins ==
  ASSUME ListType, NEW s \in Subs
  PROVE  FromTwins(Released(s), entries)
  <1>1. ASSUME NEW x \in Released(s)
        PROVE  \E e \in entries : e.url = x.url /\ x = IF e.source = s THEN Owned(e) ELSE e
    BY OwnedIsManual DEF Released, ListType
  <1>2. QED
    BY <1>1 DEF FromTwins

LEMMA AdoptedTwins ==
  ASSUME ListType
  PROVE  FromTwins(Adopted, entries)
  <1>1. ASSUME NEW x \in Adopted
        PROVE  \E e \in entries : /\ e.url = x.url
                                  /\ x = IF e.origin = "sub" /\ e.source \notin subs THEN Owned(e) ELSE e
    BY OwnedIsManual DEF Adopted, ListType
  <1>2. QED
    BY <1>1 DEF FromTwins

LEMMA ReconciledTwins ==
  ASSUME ListType, NEW s \in Subs, NEW feed \in SUBSET Urls
  PROVE  FromTwins(Reconciled(feed, s), entries)
  <1>1. ASSUME NEW x \in Marked(feed, s)
        PROVE  \E e \in entries : e.url = x.url /\ Against(e, feed, s) = {x}
    <2>1. PICK e \in entries : x \in Against(e, feed, s)
      BY DEF Marked
    <2>2. e \in Entry
      BY DEF ListType
    <2>3. QED
      BY <2>1, <2>2, AgainstEntry
  <1>2. ASSUME NEW x \in Fresh(feed, s)
        PROVE  x.url \notin Listed(entries) /\ x = [url |-> x.url, origin |-> "sub", source |-> s]
    BY DEF Fresh
  <1>3. ASSUME NEW x \in Reconciled(feed, s), NEW y \in Reconciled(feed, s), x # y, x.url = y.url
        PROVE  \E a, b \in entries : a # b /\ a.url = b.url /\ a.url = x.url
    <2>1. CASE x \in Fresh(feed, s) /\ y \in Fresh(feed, s)
      BY <1>2, <1>3, <2>1
    <2>2. CASE x \in Marked(feed, s) /\ y \in Marked(feed, s)
      BY <1>1, <1>3, <2>2
    <2>3. CASE x \in Marked(feed, s) /\ y \in Fresh(feed, s)
      BY <1>1, <1>2, <1>3, <2>3 DEF Listed
    <2>4. CASE x \in Fresh(feed, s) /\ y \in Marked(feed, s)
      BY <1>1, <1>2, <1>3, <2>4 DEF Listed
    <2>5. QED
      BY <1>3, <2>1, <2>2, <2>3, <2>4 DEF Reconciled
  <1>4. QED
    BY <1>3 DEF FromTwins

LEMMA EditsMakeNoTwins ==
  ASSUME ListType, UserEdits, ~ \E old, new \in Urls : EditNode(old, new)
  PROVE  FromTwins(entries', entries)
  <1>0. FromTwins(entries, entries)
    BY DEF FromTwins
  <1>1. ASSUME NEW u \in Urls, AddNode(u) PROVE FromTwins(entries', entries)
    BY <1>1 DEF AddNode, Saves, FromTwins, Listed
  <1>2. ASSUME NEW x \in entries, RemoveNode(x) PROVE FromTwins(entries', entries)
    BY <1>2 DEF RemoveNode, Saves, FromTwins
  <1>3. ASSUME Restore PROVE FromTwins(entries', entries)
    BY <1>3 DEF Restore, Saves, PutBack, FromTwins, Listed
  <1>4. ASSUME UndoExpires PROVE FromTwins(entries', entries)
    BY <1>0, <1>4 DEF UndoExpires
  <1>5. ASSUME NEW s \in Subs, AddSubscription(s) PROVE FromTwins(entries', entries)
    BY <1>0, <1>5 DEF AddSubscription
  <1>6. ASSUME NEW s \in Subs, RemoveSubscription(s) PROVE FromTwins(entries', entries)
    BY <1>0, <1>6, ReleasedTwins DEF RemoveSubscription, Saves
  <1>7. QED
    BY <1>1, <1>2, <1>3, <1>4, <1>5, <1>6 DEF UserEdits

\* However imports, refreshes, removals and undos overlap, only an edit can list
\* a node twice: NoTwins.
THEOREM OneOfEach == Spec => NoTwins
  <1> DEFINE Edited == \E old, new \in Urls : EditNode(old, new)
  <1>0. FromTwins(entries, entries)
    BY DEF FromTwins
  <1>1. ASSUME ListType, ListStep, ~Edited PROVE FromTwins(entries', entries)
    <2>1. ASSUME UserEdits PROVE FromTwins(entries', entries)
      BY <1>1, <2>1, EditsMakeNoTwins
    <2>2. ASSUME NEW f \in Fetches, NEW feed \in SUBSET Urls, Arrives(f, feed)
          PROVE  FromTwins(entries', entries)
      <3>1. fetching[f] \in Subs
        BY <1>1, <2>2 DEF Arrives, ListType
      <3>2. QED
        BY <1>0, <1>1, <2>2, <3>1, ReconciledTwins DEF Arrives, Saves
    <2>3. ASSUME Refreshes PROVE FromTwins(entries', entries)
      BY <1>0, <2>2, <2>3 DEF Refreshes, StartFetch, FetchFails
    <2>4. ASSUME Reload PROVE FromTwins(entries', entries)
      BY <1>0, <1>1, <2>4, AdoptedTwins DEF Reload, Saves
    <2>5. ASSUME NEW c \in Urls \cup {Automatic}, Choose(c) PROVE FromTwins(entries', entries)
      BY <1>0, <2>5 DEF Choose
    <2>6. QED
      BY <1>1, <2>1, <2>3, <2>4, <2>5 DEF ListStep
  <1>2. ListType /\ [Next]_vars =>
          [Twins(entries') \subseteq Twins(entries) \/ Edited]_listVars
    <2>1. CASE UNCHANGED listVars
      BY <2>1
    <2>2. CASE ListStep
      BY <1>1, <2>2, NoFurtherTwins
    <2>3. QED
      BY <2>1, <2>2, ServiceMovesLists DEF vars
  <1>3. QED
    BY <1>2, ListsTyped, PTL DEF Spec, NoTwins

-----------------------------------------------------------------------------
(* The types of the service. *)

ServiceType == /\ life \in {"none", "alive", "destroyed"} /\ stopAsked \in BOOLEAN
               /\ queue \in Seq(Command)
               /\ attempt \in Urls \cup {NoUrl} /\ tried \subseteq Urls /\ mayFailOver \in BOOLEAN
               /\ pump \in Urls \cup {NoUrl}
               /\ state \in {"disconnected", "connecting", "connected", "failed"}
               /\ dialled \in Dialled

HealthType == health \in [Urls -> Health]

LEMMA TypeParts == TypeOK <=> ListType /\ ServiceType /\ HealthType /\ running \in Start \cup {NoStart}
  BY DEF TypeOK, ServiceType, HealthType

LEMMA ListedUrls ==
  ASSUME ListType, NEW es \in SUBSET entries
  PROVE  Listed(es) \subseteq Urls
  BY DEF ListType, Listed, Entry, Manual

LEMMA LiveUrls ==
  ASSUME ListType
  PROVE  Live \subseteq Urls
  BY ListedUrls DEF Live

LEMMA StartsType ==
  ASSUME ListType, NEW c
  PROVE  Starts(c) \subseteq Start
  <1>1. Target(c) \subseteq Urls
    BY LiveUrls, ListedUrls DEF Target, Best
  <1>2. ASSUME NEW u \in Urls PROVE [url |-> u, may |-> c \notin Live] \in Start
    BY Zenon DEF Start
  <1>3. QED
    BY <1>1, <1>2, Zenon DEF Starts

LEMMA NextNodesUrls ==
  ASSUME ListType, NEW u \in NextNodes(health)
  PROVE  u \in Urls \ Attempted
  BY LiveUrls DEF NextNodes, Candidates

LEMMA RecordType ==
  ASSUME HealthType, NEW u, NEW o \in {"succeeded", "unreachable", "refused"}, Record(u, o)
  PROVE  HealthType'
  <1>1. ASSUME NEW h \in Health PROVE Recorded(h, o) \in Health
    <2>1. CASE o = "succeeded"
      BY <2>1, BoundsAssumption DEF Recorded, Health
    <2>2. CASE o = "unreachable"
      BY <2>2, BoundsAssumption DEF Recorded, Health
    <2>3. CASE o = "refused"
      BY <2>3, BoundsAssumption DEF Recorded, Health
    <2>4. QED
      BY <2>1, <2>2, <2>3
  <1>2. ASSUME NEW v \in Urls PROVE health'[v] \in Health
    BY <1>1 DEF Record, HealthType
  <1>3. health' = [v \in Urls |-> health'[v]]
    BY DEF Record, HealthType
  <1>4. QED
    BY <1>2, <1>3 DEF HealthType

LEMMA PostsType ==
  ASSUME ServiceType, NEW c \in Command, Posts(c)
  PROVE  ServiceType'
  <1>1. queue' \in Seq(Command)
    BY AppendProperties DEF Posts, ServiceType
  <1>2. QED
    BY <1>1 DEF Posts, ServiceType

LEMMA StartCommands ==
  ASSUME ListType, NEW c, NEW s \in Starts(c)
  PROVE  [op |-> "start", start |-> s] \in Command
  BY StartsType DEF Command

LEMMA GivesUpType ==
  ASSUME ServiceType, GivesUp
  PROVE  ServiceType'
  BY DEF GivesUp, ServiceType, NotDialled, Dialled

LEMMA HeadStart ==
  ASSUME ServiceType, queue # <<>>, Head(queue).op = "start"
  PROVE  Head(queue).start \in Start
  <1>1. Head(queue) \in Command
    BY HeadTailProperties DEF ServiceType
  <1>2. QED
    BY <1>1 DEF Command

LEMMA ControlType ==
  ASSUME TypeOK, Control
  PROVE  TypeOK'
  <1>0. ListType /\ ServiceType /\ HealthType /\ running \in Start \cup {NoStart}
    BY TypeParts
  <1>1. ListType' /\ running' = running
    BY <1>0 DEF ListType, listVars, Control, HandleStart, HandleStop, NotEstablished, ComesUp,
                IsRefused, IsUnreachable
  <1>2. ASSUME HandleStart PROVE ServiceType' /\ HealthType'
    <2>1. queue' \in Seq(Command)
      BY <1>0, <1>2, HeadTailProperties DEF HandleStart, ServiceType
    <2>2. attempt' \in Urls /\ mayFailOver' \in BOOLEAN
      BY <1>0, <1>2, HeadStart DEF HandleStart, Start
    <2>3. dialled' \in Dialled
      BY <1>2, <2>2 DEF HandleStart, Dialled
    <2>4. QED
      BY <1>0, <1>2, <2>1, <2>2, <2>3 DEF HandleStart, ServiceType, HealthType, TornDown
  <1>3. ASSUME HandleStop PROVE ServiceType' /\ HealthType'
    <2>1. queue' \in Seq(Command)
      BY <1>0, <1>3, HeadTailProperties DEF HandleStop, ServiceType
    <2>2. dialled' \in Dialled
      BY <1>3 DEF HandleStop, NotDialled, Dialled
    <2>3. QED
      BY <1>0, <1>3, <2>1, <2>2 DEF HandleStop, ServiceType, HealthType, AfterTeardown
  <1>4. ASSUME NotEstablished PROVE ServiceType' /\ HealthType'
    BY <1>0, <1>4, GivesUpType DEF NotEstablished, HealthType
  <1>5. ASSUME ComesUp PROVE ServiceType' /\ HealthType'
    <2>1. HealthType'
      BY <1>0, <1>5, RecordType DEF ComesUp
    <2>2. QED
      BY <1>0, <1>5, <2>1 DEF ComesUp, ServiceType
  <1>6. ASSUME IsRefused PROVE ServiceType' /\ HealthType'
    BY <1>0, <1>6, RecordType, GivesUpType DEF IsRefused
  <1>7. ASSUME IsUnreachable PROVE ServiceType' /\ HealthType'
    <2>1. HealthType'
      BY <1>0, <1>7, RecordType DEF IsUnreachable
    <2>2. CASE GivesUp
      BY <1>0, <2>1, <2>2, GivesUpType
    <2>3. CASE ~GivesUp
      <3>1. attempt' \in Urls /\ attempt \in Urls
        BY <1>0, <1>7, <2>3, NextNodesUrls DEF IsUnreachable, Idle, ServiceType
      <3>2. dialled' \in Dialled
        <4>1. dialled' = [first |-> dialled.first, all |-> dialled.all \cup {attempt'},
                          again |-> dialled.again \/ attempt' \in dialled.all]
          BY <1>7, <2>3 DEF IsUnreachable
        <4>2. dialled.first \in Urls \cup {NoUrl} /\ dialled.all \cup {attempt'} \in SUBSET Urls
          BY <1>0, <3>1 DEF ServiceType, Dialled
        <4>3. (dialled.again \/ attempt' \in dialled.all) \in BOOLEAN
          OBVIOUS
        <4>4. QED
          BY <4>1, <4>2, <4>3, Zenon DEF Dialled
      <3>3. QED
        BY <1>0, <1>7, <2>1, <2>3, <3>1, <3>2 DEF IsUnreachable, ServiceType, Attempted
    <2>4. QED
      BY <2>2, <2>3
  <1>8. ServiceType' /\ HealthType'
    BY <1>2, <1>3, <1>4, <1>5, <1>6, <1>7 DEF Control
  <1>9. QED
    BY <1>0, <1>1, <1>8 DEF TypeOK, ServiceType, HealthType

LEMMA MainType ==
  ASSUME TypeOK,
         Connect \/ ConnectElsewhere \/ Disconnect \/ NothingToStart \/ Destroyed \/ Over
           \/ (\E c \in Urls \cup {Automatic} : PickNode(c))
  PROVE  ServiceType' /\ HealthType' /\ running' \in Start \cup {NoStart}
  <1>0. ListType /\ ServiceType /\ HealthType /\ running \in Start \cup {NoStart}
    BY TypeParts
  <1>1. ASSUME NEW c, NEW s \in Starts(c), Posts([op |-> "start", start |-> s])
        PROVE  ServiceType' /\ s \in Start
    BY <1>0, <1>1, StartCommands, PostsType, StartsType
  <1>2. ASSUME Connect PROVE ServiceType' /\ HealthType' /\ running' \in Start
    BY <1>0, <1>1, <1>2 DEF Connect, HealthType
  <1>3. ASSUME ConnectElsewhere PROVE ServiceType' /\ HealthType' /\ running' = running
    BY <1>0, <1>1, <1>3 DEF ConnectElsewhere, HealthType
  <1>4. ASSUME NEW c \in Urls \cup {Automatic}, PickNode(c)
        PROVE  ServiceType' /\ HealthType' /\ running' \in Start \cup {NoStart}
    <2>1. CASE UNCHANGED <<serviceVars, running>>
      BY <1>0, <1>4, <2>1 DEF PickNode, ServiceType, HealthType, serviceVars
    <2>2. CASE \E s \in Starts(c) \ {running} : Posts([op |-> "start", start |-> s]) /\ running' = s
      BY <1>0, <1>1, <1>4, <2>2 DEF PickNode, HealthType
    <2>3. QED
      BY <1>4, <2>1, <2>2 DEF PickNode
  <1>5. ASSUME Disconnect PROVE ServiceType' /\ HealthType' /\ running' = running
    <2>1. [op |-> "stop"] \in Command
      BY DEF Command
    <2>2. QED
      BY <1>0, <1>5, <2>1, PostsType DEF Disconnect, HealthType
  <1>6. ASSUME NothingToStart PROVE ServiceType' /\ HealthType' /\ running' = running
    BY <1>0, <1>6 DEF NothingToStart, ServiceType, HealthType
  <1>7. ASSUME Destroyed PROVE ServiceType' /\ HealthType' /\ running' = running
    <2>1. [op |-> "teardown"] \in Command
      BY DEF Command
    <2>2. queue' \in Seq(Command)
      BY <1>0, <1>7, <2>1, AppendProperties DEF Destroyed, LastWords, ServiceType
    <2>3. QED
      BY <1>0, <1>7, <2>2 DEF Destroyed, ServiceType, HealthType
  <1>8. ASSUME Over PROVE ServiceType' /\ HealthType' /\ running' = running
    BY <1>0, <1>8 DEF Over, ServiceType, HealthType
  <1>9. QED
    BY <1>0, <1>2, <1>3, <1>4, <1>5, <1>6, <1>7, <1>8

\* The service, the lists and the health keep their types.
THEOREM TypeCorrect == Spec => []TypeOK
  <1>1. Init => TypeOK
    <2>1. ASSUME Init PROVE dialled \in Dialled /\ queue \in Seq(Command) /\ HealthType
      <3>1. Untried \in Health
        BY BoundsAssumption DEF Untried, Health
      <3>2. QED
        BY <2>1, <3>1, EmptySeq DEF Init, NotDialled, Dialled, HealthType
    <2>2. QED
      BY <2>1 DEF Init, ListInit, ListType, TypeOK, HealthType
  <1>2. TypeOK /\ [Next]_vars => TypeOK'
    <2>0. SUFFICES ASSUME TypeOK, [Next]_vars PROVE TypeOK'
      OBVIOUS
    <2>1. ListType'
      BY <2>0, ListTypeStep, TypeParts
    <2>2. ListType /\ ServiceType /\ HealthType /\ running \in Start \cup {NoStart}
      BY <2>0, TypeParts
    <2>3. CASE UNCHANGED <<serviceVars, health, running>>
      BY <2>1, <2>2, <2>3 DEF serviceVars, TypeOK, ServiceType, HealthType
    <2>4. CASE Dies
      <3>1. Untried \in Health
        BY BoundsAssumption DEF Untried, Health
      <3>2. NotDialled \in Dialled
        BY DEF NotDialled, Dialled
      <3>3. HealthType' /\ running' = NoStart
        BY <2>4, <3>1 DEF Dies, HealthType
      <3>4. ServiceType'
        BY <2>4, <3>2, EmptySeq DEF Dies, ServiceType
      <3>5. QED
        BY <2>1, <3>3, <3>4 DEF TypeOK, ServiceType, HealthType
    <2>5. ASSUME NEW u \in Urls, Fades(u) PROVE TypeOK'
      <3>1. Untried \in Health
        BY BoundsAssumption DEF Untried, Health
      <3>2. HealthType'
        BY <2>2, <2>5, <3>1 DEF Fades, HealthType
      <3>3. QED
        BY <2>1, <2>2, <2>5, <3>2 DEF Fades, TypeOK, ServiceType, HealthType, serviceVars
    <2>6. CASE \/ Connect \/ ConnectElsewhere \/ Disconnect \/ NothingToStart \/ Destroyed \/ Over
               \/ (\E c \in Urls \cup {Automatic} : PickNode(c))
      BY <2>0, <2>1, <2>6, MainType DEF TypeOK, ServiceType, HealthType
    <2>7. CASE Control
      BY <2>0, <2>7, ControlType
    <2>8. CASE Lists \/ UNCHANGED vars
      BY <2>3, <2>8 DEF Lists, vars
    <2>9. QED
      BY <2>0, <2>4, <2>5, <2>6, <2>7, <2>8 DEF Next
  <1>3. QED
    BY <1>1, <1>2, PTL DEF Spec

-----------------------------------------------------------------------------
(* The inductive invariant.  OncePerAttempt needs to know that what was       *)
(* dialled is what was tried and what is being tried; OverIsDown needs to     *)
(* know that the teardown is the last thing a destroyed service has to do,    *)
(* and that nothing is up once it has been done.                              *)

Remembers == attempt # NoUrl => dialled.all = tried \cup {attempt}

NothingBeforeBirth == life = "none" => attempt = NoUrl /\ pump = NoUrl /\ queue = <<>>

TeardownLast ==
  life = "destroyed" =>
    \/ queue # <<>> /\ queue[Len(queue)].op = "teardown"
    \/ queue = <<>> /\ pump = NoUrl /\ attempt = NoUrl

Inv == /\ TypeOK
       /\ ReportHonest /\ StaysPicked /\ OncePerAttempt
       /\ Remembers /\ NothingBeforeBirth /\ TeardownLast

LEMMA AppendLast ==
  ASSUME NEW S, NEW q \in Seq(S), NEW c \in S
  PROVE  Append(q, c) # <<>> /\ Append(q, c)[Len(Append(q, c))] = c
  BY AppendProperties, LenProperties

\* What is first in a queue is not its last, or is all of it.
LEMMA TailLast ==
  ASSUME NEW S, NEW q \in Seq(S), q # <<>>
  PROVE  \/ Tail(q) = <<>> /\ Head(q) = q[Len(q)]
         \/ Tail(q) # <<>> /\ Tail(q)[Len(Tail(q))] = q[Len(q)]
  <1> DEFINE t == Tail(q)
  <1>1. Len(q) \in Nat /\ Len(q) # 0
    BY EmptySeq, LenProperties
  <1>2. /\ t \in Seq(S) /\ Len(t) = Len(q) - 1 /\ Head(q) = q[1]
        /\ \A i \in 1 .. Len(t) : t[i] = q[i + 1]
    BY HeadTailProperties
  <1>3. t = <<>> <=> Len(t) = 0
    BY <1>2, EmptySeq
  <1> HIDE DEF t
  <1>4. CASE Len(q) = 1
    <2>1. t = <<>> /\ Head(q) = q[Len(q)]
      BY <1>2, <1>3, <1>4
    <2>2. QED
      BY <2>1 DEF t
  <1>5. CASE Len(q) > 1
    <2>1. Len(t) \in 1 .. Len(t) /\ Len(t) + 1 = Len(q) /\ Len(t) # 0
      BY <1>1, <1>2, <1>5
    <2>2. t[Len(t)] = q[Len(t) + 1]
      BY <1>2, <2>1
    <2>3. QED
      BY <1>3, <2>1, <2>2 DEF t
  <1>6. QED
    BY <1>1, <1>4, <1>5 DEF t

LEMMA InvTypes ==
  ASSUME Inv
  PROVE  ListType /\ ServiceType /\ NoUrl \notin Urls
  BY TypeParts, NamesAssumption DEF Inv

LEMMA InvKeptAside ==
  ASSUME Inv, TypeOK',
         UNCHANGED <<life, queue, attempt, tried, mayFailOver, pump, state, dialled>>
  PROVE  Inv'
  BY DEF Inv, ReportHonest, StaysPicked, OncePerAttempt, Remembers, NothingBeforeBirth, TeardownLast

LEMMA PostsInv ==
  ASSUME Inv, TypeOK', NEW c, Posts(c)
  PROVE  Inv'
  BY DEF Posts, Inv, ReportHonest, StaysPicked, OncePerAttempt, Remembers, NothingBeforeBirth, TeardownLast

LEMMA GivesUpInv ==
  ASSUME Inv, TypeOK', attempt # NoUrl, GivesUp
  PROVE  Inv'
  <1>1. pump = NoUrl
    BY DEF Inv, ReportHonest
  <1>2. life # "none" /\ (life = "destroyed" => queue # <<>> /\ queue[Len(queue)].op = "teardown")
    BY DEF Inv, NothingBeforeBirth, TeardownLast
  <1>3. QED
    BY <1>1, <1>2 DEF GivesUp, Inv, ReportHonest, StaysPicked, OncePerAttempt, Remembers,
                      NothingBeforeBirth, TeardownLast, NotDialled

LEMMA HandleStartInv ==
  ASSUME Inv, TypeOK', HandleStart
  PROVE  Inv'
  <1>1. ListType /\ ServiceType /\ NoUrl \notin Urls
    BY InvTypes
  <1>2. attempt' \in Urls /\ attempt' # NoUrl
    BY <1>1, HeadStart DEF HandleStart, Start
  <1>3. ReportHonest' /\ StaysPicked' /\ OncePerAttempt' /\ Remembers'
    BY <1>2 DEF HandleStart, TornDown, ReportHonest, StaysPicked, OncePerAttempt, Remembers
  <1>4. life # "none"
    BY DEF HandleStart, Inv, NothingBeforeBirth
  <1>5. ASSUME life = "destroyed" PROVE queue' # <<>> /\ queue'[Len(queue')].op = "teardown"
    <2>1. queue # <<>> /\ queue[Len(queue)].op = "teardown" /\ Head(queue).op = "start"
      BY <1>5 DEF HandleStart, Inv, TeardownLast
    <2>2. QED
      BY <1>1, <2>1, TailLast DEF HandleStart, ServiceType
  <1>6. QED
    BY <1>3, <1>4, <1>5 DEF HandleStart, Inv, NothingBeforeBirth, TeardownLast

LEMMA HandleStopInv ==
  ASSUME Inv, TypeOK', HandleStop
  PROVE  Inv'
  <1>1. ListType /\ ServiceType /\ NoUrl \notin Urls
    BY InvTypes
  <1>2. ReportHonest' /\ StaysPicked' /\ OncePerAttempt' /\ Remembers'
    BY DEF HandleStop, Idle, AfterTeardown, NotDialled, ReportHonest, StaysPicked, OncePerAttempt, Remembers
  <1>3. life # "none"
    BY DEF HandleStop, Inv, NothingBeforeBirth
  <1>4. ASSUME life = "destroyed", queue' # <<>> PROVE queue'[Len(queue')].op = "teardown"
    <2>1. queue # <<>> /\ queue[Len(queue)].op = "teardown"
      BY <1>4 DEF HandleStop, Inv, TeardownLast
    <2>2. QED
      BY <1>1, <1>4, <2>1, TailLast DEF HandleStop, ServiceType
  <1>5. QED
    BY <1>2, <1>3, <1>4 DEF HandleStop, Idle, Inv, NothingBeforeBirth, TeardownLast

LEMMA ComesUpInv ==
  ASSUME Inv, TypeOK', ComesUp
  PROVE  Inv'
  <1>1. attempt # NoUrl
    BY DEF ComesUp, Idle
  <1>2. life # "none" /\ (life = "destroyed" => queue # <<>> /\ queue[Len(queue)].op = "teardown")
    BY <1>1 DEF Inv, NothingBeforeBirth, TeardownLast
  <1>3. QED
    BY <1>1, <1>2 DEF ComesUp, Inv, ReportHonest, StaysPicked, OncePerAttempt, Remembers,
                      NothingBeforeBirth, TeardownLast

LEMMA IsUnreachableInv ==
  ASSUME Inv, TypeOK', IsUnreachable
  PROVE  Inv'
  <1>1. ListType /\ ServiceType /\ NoUrl \notin Urls
    BY InvTypes
  <1>2. attempt # NoUrl
    BY DEF IsUnreachable, Idle
  <1>3. CASE GivesUp
    BY <1>2, <1>3, GivesUpInv
  <1>4. CASE ~GivesUp
    <2>1. attempt' \in NextNodes(health) /\ mayFailOver
      BY <1>4 DEF IsUnreachable, MayMove
    <2>2. attempt' \in Urls /\ attempt' # NoUrl /\ attempt' \notin tried \cup {attempt}
      BY <1>1, <2>1, NextNodesUrls DEF Attempted
    <2>3. dialled.all = tried \cup {attempt}
      BY <1>2 DEF Inv, Remembers
    <2>4. /\ dialled'.all = dialled.all \cup {attempt'}
          /\ dialled'.again = (dialled.again \/ attempt' \in dialled.all)
      BY <1>4 DEF IsUnreachable
    <2>5. OncePerAttempt'
      BY <2>2, <2>3, <2>4 DEF Inv, OncePerAttempt
    <2>6. Remembers'
      BY <1>4, <2>3, <2>4 DEF IsUnreachable, Attempted, Remembers
    <2>7. ReportHonest' /\ StaysPicked'
      BY <1>4, <2>1, <2>2 DEF IsUnreachable, ReportHonest, StaysPicked
    <2>8. life # "none" /\ (life = "destroyed" => queue # <<>> /\ queue[Len(queue)].op = "teardown")
      BY <1>2 DEF Inv, NothingBeforeBirth, TeardownLast
    <2>9. QED
      BY <1>4, <2>5, <2>6, <2>7, <2>8 DEF IsUnreachable, Inv, NothingBeforeBirth, TeardownLast
  <1>5. QED
    BY <1>3, <1>4

LEMMA ControlInv ==
  ASSUME Inv, TypeOK', Control
  PROVE  Inv'
  <1>1. ASSUME NotEstablished PROVE Inv'
    BY <1>1, GivesUpInv DEF NotEstablished, Idle
  <1>2. ASSUME IsRefused PROVE Inv'
    BY <1>2, GivesUpInv DEF IsRefused, Idle
  <1>3. QED
    BY <1>1, <1>2, HandleStartInv, HandleStopInv, ComesUpInv, IsUnreachableInv DEF Control

LEMMA LifeInv ==
  ASSUME Inv, TypeOK', Destroyed \/ Over \/ NothingToStart \/ Dies
  PROVE  Inv'
  <1>1. ListType /\ ServiceType /\ NoUrl \notin Urls
    BY InvTypes
  <1>2. ASSUME Destroyed PROVE Inv'
    <2>1. [op |-> "teardown"] \in Command
      BY DEF Command
    <2>2. queue' # <<>> /\ queue'[Len(queue')].op = "teardown"
      BY <1>1, <1>2, <2>1, AppendLast DEF Destroyed, LastWords, ServiceType
    <2>3. QED
      BY <1>2, <2>2 DEF Destroyed, Inv, ReportHonest, StaysPicked, OncePerAttempt, Remembers,
                        NothingBeforeBirth, TeardownLast
  <1>3. ASSUME Over PROVE Inv'
    <2>1. pump = NoUrl /\ attempt = NoUrl /\ queue = <<>>
      BY <1>3 DEF Over, Inv, TeardownLast
    <2>2. QED
      BY <1>3, <2>1 DEF Over, Inv, ReportHonest, StaysPicked, OncePerAttempt, Remembers,
                        NothingBeforeBirth, TeardownLast
  <1>4. ASSUME NothingToStart PROVE Inv'
    BY <1>4 DEF NothingToStart, Engaged, Inv, ReportHonest, StaysPicked, OncePerAttempt, Remembers,
                NothingBeforeBirth, TeardownLast
  <1>5. ASSUME Dies PROVE Inv'
    BY <1>5 DEF Dies, NotDialled, Inv, ReportHonest, StaysPicked, OncePerAttempt, Remembers,
                NothingBeforeBirth, TeardownLast
  <1>6. QED
    BY <1>2, <1>3, <1>4, <1>5

THEOREM ServiceInvariant == Spec => []Inv
  <1>1. Init /\ TypeOK => Inv
    BY DEF Init, NotDialled, Inv, ReportHonest, StaysPicked, OncePerAttempt, Remembers,
           NothingBeforeBirth, TeardownLast
  <1>2. Inv /\ TypeOK' /\ [Next]_vars => Inv'
    <2>0. SUFFICES ASSUME Inv, TypeOK', [Next]_vars PROVE Inv'
      OBVIOUS
    <2>1. CASE Lists \/ UNCHANGED vars
      BY <2>0, <2>1, InvKeptAside DEF Lists, vars, serviceVars
    <2>2. ASSUME NEW u \in Urls, Fades(u) PROVE Inv'
      BY <2>0, <2>2, InvKeptAside DEF Fades, serviceVars
    <2>3. ASSUME NEW c \in Urls \cup {Automatic}, PickNode(c) PROVE Inv'
      BY <2>0, <2>3, InvKeptAside, PostsInv DEF PickNode, serviceVars
    <2>4. CASE Connect \/ ConnectElsewhere \/ Disconnect
      BY <2>0, <2>4, PostsInv DEF Connect, ConnectElsewhere, Disconnect
    <2>5. CASE Destroyed \/ Over \/ NothingToStart \/ Dies
      BY <2>0, <2>5, LifeInv
    <2>6. CASE Control
      BY <2>0, <2>6, ControlInv
    <2>7. QED
      BY <2>0, <2>1, <2>2, <2>3, <2>4, <2>5, <2>6 DEF Next
  <1>3. QED
    BY <1>1, <1>2, TypeCorrect, PTL DEF Spec

-----------------------------------------------------------------------------
(* What it gives. *)

\* For every list of nodes, however it changes during the attempt, no attempt
\* dials a node twice.
THEOREM NoNodeTwice == Spec => []OncePerAttempt
  <1>1. Inv => OncePerAttempt
    BY DEF Inv
  <1>2. QED
    BY <1>1, ServiceInvariant, PTL

\* A node the user picked is the only one dialled.
THEOREM PickedIsKept == Spec => []StaysPicked
  <1>1. Inv => StaysPicked
    BY DEF Inv
  <1>2. QED
    BY <1>1, ServiceInvariant, PTL

\* What is reported is what there is.
THEOREM ReportsWhatIs == Spec => []ReportHonest
  <1>1. Inv => ReportHonest
    BY DEF Inv
  <1>2. QED
    BY <1>1, ServiceInvariant, PTL

\* A service that is over leaves no tunnel behind, whatever was queued when it
\* stopped itself.
THEOREM NothingOutlives == Spec => []OverIsDown
  <1>1. Inv => OverIsDown
    BY DEF Inv, NothingBeforeBirth, ReportHonest, OverIsDown, Engaged
  <1>2. QED
    BY <1>1, ServiceInvariant, PTL

=============================================================================
