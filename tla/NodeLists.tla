------------------------------ MODULE NodeLists ------------------------------
(***************************************************************************)
(* data/NodeRepository.kt over NodeStore.kt and SubscriptionStore.kt: the  *)
(* node file, the subscription file, the choice, and what is done to them  *)
(* by the user, by feeds that arrive while the user goes on, and by an     *)
(* undo.  Every change holds storeLock and writes its file, or fails to;   *)
(* the list in memory is what the file says.  A fetch holds no lock.       *)
(* A node is its rendered URL; the order of the list is left out.          *)
(***************************************************************************)
EXTENDS Naturals, FiniteSets

CONSTANTS Urls, Subs, Fetches, \* Fetches: calls of refreshSubscription
          NoSub, NoUrl, Automatic, NoUndo

ASSUME NamesAssumption == NoSub \notin Subs /\ {NoUrl, Automatic} \cap Urls = {}

VARIABLES
  entries,  \* the node file, and NodeRepository.nodes
  subs,     \* the subscription file: ids
  fetching, \* the subscription each call is fetching
  choice,   \* NodeRepository.choice
  undo      \* what the "undo" of a removal would put back

listVars == <<entries, subs, fetching, choice, undo>>

Manual == [url : Urls, origin : {"manual"}, source : {NoSub}]
Entry == Manual \cup [url : Urls, origin : {"sub", "removed"}, source : Subs]
Removed == [entry : Entry, wasChosen : BOOLEAN]

ListType == /\ entries \subseteq Entry
            /\ subs \subseteq Subs
            /\ fetching \in [Fetches -> Subs \cup {NoSub}]
            /\ choice \in Urls \cup {Automatic}
            /\ undo \in Removed \cup {NoUndo}

ListInit == /\ entries = {} /\ subs = {}
            /\ fetching = [f \in Fetches |-> NoSub]
            /\ choice = Automatic /\ undo = NoUndo

Listed(es) == {e.url : e \in es}

\* selectable: the nodes their subscription has not withdrawn.
Live == Listed({e \in entries : e.origin # "removed"})

\* saveEntries, and what the store then reads back.
Saves(es) == entries' \in {es, entries}

\* The same node, the user's own.
Owned(e) == [e EXCEPT !.origin = "manual", !.source = NoSub]

-----------------------------------------------------------------------------
(* What the user does to nodes. *)

AddNode(u) == /\ u \notin Listed(entries)
              /\ Saves(entries \cup {[url |-> u, origin |-> "manual", source |-> NoSub]})
              /\ UNCHANGED <<subs, fetching, choice, undo>>

\* A deletion takes the choice with it.
RemoveNode(e) == /\ e \in entries
                 /\ Saves({x \in entries : x.url # e.url})
                 /\ undo' = [entry |-> e, wasChosen |-> choice = e.url]
                 /\ choice' = IF choice = e.url THEN Automatic ELSE choice
                 /\ UNCHANGED <<subs, fetching>>

\* Nothing is put back where an identical node has been stored since.
PutBackBlindly(e) == entries \cup {e}
PutBack(e) == IF e.url \in Listed(entries) THEN entries ELSE entries \cup {e}

Restore == /\ undo # NoUndo
           /\ Saves(PutBack(undo.entry))
           /\ choice' = IF undo.wasChosen THEN undo.entry.url ELSE choice
           /\ undo' = NoUndo
           /\ UNCHANGED <<subs, fetching>>

UndoExpires == /\ undo # NoUndo /\ undo' = NoUndo
               /\ UNCHANGED <<entries, subs, fetching, choice>>

\* An edit keeps origin and subscription, and takes the choice along.  It does
\* not look whether the node it makes is in the list.
EditNode(old, new) ==
  /\ old # new /\ old \in Listed(entries)
  /\ Saves({IF e.url = old THEN [e EXCEPT !.url = new] ELSE e : e \in entries})
  /\ choice' = IF choice = old THEN new ELSE choice
  /\ UNCHANGED <<subs, fetching, undo>>

Choose(c) == /\ choice' = c
             /\ UNCHANGED <<entries, subs, fetching, undo>>

-----------------------------------------------------------------------------
(* Subscriptions. *)

AddSubscription(s) == /\ s \notin subs /\ subs' = subs \cup {s}
                      /\ UNCHANGED <<entries, fetching, choice, undo>>

\* Forgetting one makes the nodes it lists the user's and drops the ones it had
\* withdrawn.  Two files: either write can fail.
Released(s) == {IF e.source = s THEN Owned(e) ELSE e :
                  e \in {x \in entries : ~(x.source = s /\ x.origin = "removed")}}

RemoveSubscription(s) == /\ s \in subs
                         /\ subs' \in {subs \ {s}, subs}
                         /\ Saves(Released(s))
                         /\ UNCHANGED <<fetching, choice, undo>>

StartFetch(f, s) == /\ s \in subs /\ fetching[f] = NoSub
                    /\ fetching' = [fetching EXCEPT ![f] = s]
                    /\ UNCHANGED <<entries, subs, choice, undo>>

\* One stored node against a feed of subscription s.
AgainstForgetful(e, feed, s) == IF e.source = s /\ e.url \notin feed THEN {} ELSE {e}
Against(e, feed, s) ==
  {IF e.origin # "manual" /\ e.source = s
   THEN [e EXCEPT !.origin = IF e.url \in feed THEN "sub" ELSE "removed"]
   ELSE IF e.origin = "removed" /\ e.url \in feed
        THEN [e EXCEPT !.origin = "sub", !.source = s]
        ELSE e}

Marked(feed, s) == UNION {Against(e, feed, s) : e \in entries}
Fresh(feed, s) == {[url |-> u, origin |-> "sub", source |-> s] : u \in feed \ Listed(entries)}
Reconciled(feed, s) == Marked(feed, s) \cup Fresh(feed, s)

\* Looked up again under the lock: the fetch held none.  An empty feed counts.
StillThereAssumed(s) == TRUE
StillThere(s) == s \in subs

Arrives(f, feed) == /\ fetching[f] # NoSub
                    /\ IF StillThere(fetching[f]) THEN Saves(Reconciled(feed, fetching[f]))
                       ELSE UNCHANGED entries
                    /\ fetching' = [fetching EXCEPT ![f] = NoSub]
                    /\ UNCHANGED <<subs, choice, undo>>

FetchFails(f) == /\ fetching[f] # NoSub
                 /\ fetching' = [fetching EXCEPT ![f] = NoSub]
                 /\ UNCHANGED <<entries, subs, choice, undo>>

-----------------------------------------------------------------------------
\* The process starts again: what was in memory is gone, and feed nodes whose
\* subscription is gone become the user's.
Adopted == {IF e.origin = "sub" /\ e.source \notin subs THEN Owned(e) ELSE e : e \in entries}

Reload == /\ Saves(Adopted)
          /\ fetching' = [f \in Fetches |-> NoSub]
          /\ undo' = NoUndo
          /\ UNCHANGED <<subs, choice>>

UserEdits == \/ \E u \in Urls : AddNode(u)
             \/ \E e \in entries : RemoveNode(e)
             \/ Restore \/ UndoExpires
             \/ \E old, new \in Urls : EditNode(old, new)
             \/ \E s \in Subs : AddSubscription(s) \/ RemoveSubscription(s)

Refreshes == \E f \in Fetches : \/ \E s \in Subs : StartFetch(f, s)
                                \/ \E feed \in SUBSET Urls : Arrives(f, feed)
                                \/ FetchFails(f)

-----------------------------------------------------------------------------
\* NodeStore.reconcileWithFeed, "kept and marked, not deleted": whatever feeds
\* arrive, in whatever order and however late, no node leaves the list, and what
\* is the user's own stays as it is.
KeptAndMarked == [][(\E f \in Fetches, feed \in SUBSET Urls : Arrives(f, feed)) =>
                      /\ Listed(entries) \subseteq Listed(entries')
                      /\ entries \cap Manual \subseteq entries']_listVars

\* NodeRepository.refreshSubscription: a feed that arrives after its
\* subscription was removed is dropped.  No step lists a node for a subscription
\* that is not there, except an undo of the node's removal, or an edit of one
\* that a failed write had already left behind.
NoNewOrphans == [][\A e \in entries' \ entries :
                     e.origin = "sub" => \/ e.source \in subs'
                                         \/ undo # NoUndo /\ undo.entry = e
                                         \/ \E old, new \in Urls : EditNode(old, new)]_listVars

\* NodeStore.add, "does not produce a second copy": no import, refresh or undo,
\* however they overlap, lists a node twice; only an edit can.
Twins(es) == {e.url : e \in {x \in es : \E y \in es : y # x /\ y.url = x.url}}
NoTwins == [][Twins(entries') \subseteq Twins(entries) \/ \E old, new \in Urls : EditNode(old, new)]_listVars
=============================================================================
