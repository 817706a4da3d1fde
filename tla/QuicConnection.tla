--------------------------- MODULE QuicConnection ---------------------------
(***************************************************************************)
(* quic/QuicConnection.kt: the thread that owns a QUIC connection, the     *)
(* threads that open and read streams on it, and the thread that closes    *)
(* it, with the receiving half of jni/quic/quic_conn_jni.c below them.     *)
(*                                                                         *)
(* Only the owner makes native calls.  A caller hands it a task and waits; *)
(* a reader waits on a queue the owner fills.  What a caller or a reader   *)
(* reads (fatal, finished, running, its queue) is read in separate steps,  *)
(* because the owner moves between them.  openStream stands for everything *)
(* that goes through onOwner.  A byte is its place in the stream.          *)
(***************************************************************************)
EXTENDS Naturals, FiniteSets, SequencesExt

CONSTANTS Streams,   \* streams, each with the thread that opens and then reads it
          Window,    \* flow-control window granted per stream
          MaxBytes,  \* bound: bytes the peer sends on a stream
          Harvest    \* HARVEST_BYTES: what one nativeRead can copy

ASSUME StreamsAssumption == IsFiniteSet(Streams)
ASSUME SizesAssumption == Window \in Nat \ {0} /\ MaxBytes \in Nat /\ Harvest \in Nat \ {0}

VARIABLES
  owner,     \* where the owning thread stands
  left,      \* streams this pass's harvest has still to visit
  running, fatal, socketOpen,
  work,      \* tasks waiting for the owner
  streams,   \* the streams in the Kotlin map
  native,    \* quic_stream: unread bytes, recv_fin
  credit,    \* bytes the peer may still send
  total,     \* history: bytes received
  arrived,   \* StreamQueue.arrived: chunks, each from a byte up to another
  finished,  \* StreamQueue.finished
  leftover,  \* what is not copied out of StreamQueue.leftover yet
  delivered, \* history: bytes the reader was given
  user,      \* where each stream's thread stands
  closer     \* where the closing thread stands

ownerVars == <<owner, left, running, fatal>>
streamVars == <<native, credit, total>>
queueVars == <<arrived, finished>>
readerVars == <<leftover, delivered>>
vars == <<ownerVars, socketOpen, work, streams, streamVars, queueVars, readerVars, user, closer>>

OwnerAt == {"work", "burst", "harvest", "failing", "stopping", "waking", "draining", "closed"}
UserAt == {"idle", "checked", "queued", "reading", "empty", "noFatal", "unfinished", "waiting",
           "end", "error", "timeout"}
Answers == {"end", "error", "timeout"}

Chunk(first, next) == [first |-> first, next |-> next]
Chunks == [first : 0 .. MaxBytes, next : 0 .. MaxBytes]

Init == /\ owner = "work" /\ left = {} /\ running = TRUE /\ fatal = FALSE
        /\ socketOpen = TRUE
        /\ work = <<>>
        /\ streams = {}
        /\ native = [s \in Streams |-> [unread |-> 0, fin |-> FALSE]]
        /\ credit = [s \in Streams |-> Window]
        /\ total = [s \in Streams |-> 0]
        /\ arrived = [s \in Streams |-> <<>>]
        /\ finished = [s \in Streams |-> FALSE]
        /\ leftover = [s \in Streams |-> Chunk(0, 0)]
        /\ delivered = [s \in Streams |-> 0]
        /\ user = [s \in Streams |-> "idle"]
        /\ closer = "idle"

-----------------------------------------------------------------------------
(* The owning thread. *)

\* drainWork, inside the loop and once more in its finally.  The task puts the
\* stream in the map whether or not its caller still waits.
RunTask == /\ owner \in {"work", "draining"}
           /\ work # <<>>
           /\ work' = Tail(work)
           /\ streams' = streams \cup {Head(work)}
           /\ user' = [user EXCEPT ![Head(work)] = IF @ = "queued" THEN "reading" ELSE @]
           /\ UNCHANGED <<ownerVars, socketOpen, streamVars, queueVars, readerVars, closer>>

Drained == /\ owner = "work" /\ work = <<>>
           /\ owner' = "burst"
           /\ UNCHANGED <<left, running, fatal, socketOpen, work, streams, streamVars,
                          queueVars, readerVars, user, closer>>

\* recv_stream_data_cb, from a packet of the burst.
Receive(s, n, fin) ==
  /\ owner = "burst" /\ s \in streams /\ ~native[s].fin
  /\ n <= credit[s] /\ total[s] + n <= MaxBytes
  /\ n > 0 \/ fin
  /\ native' = [native EXCEPT ![s].unread = @ + n, ![s].fin = fin]
  /\ credit' = [credit EXCEPT ![s] = @ - n]
  /\ total' = [total EXCEPT ![s] = @ + n]
  /\ UNCHANGED <<ownerVars, socketOpen, work, streams, queueVars, readerVars, user, closer>>

\* stream_close_cb: a reset ends the stream as a FIN does, unread bytes kept.
StreamCloses(s) == /\ owner = "burst" /\ s \in streams /\ ~native[s].fin
                   /\ native' = [native EXCEPT ![s].fin = TRUE]
                   /\ UNCHANGED <<ownerVars, socketOpen, work, streams, credit, total,
                                  queueVars, readerVars, user, closer>>

BurstEnds == /\ owner = "burst"
             /\ owner' = "harvest" /\ left' = streams
             /\ UNCHANGED <<running, fatal, socketOpen, work, streams, streamVars,
                            queueVars, readerVars, user, closer>>

\* A native call fails, in flush or the burst, which skips the harvest, or in
\* what follows the harvest.
PassFails == /\ owner = "burst" \/ (owner = "harvest" /\ left = {})
             /\ owner' = "failing"
             /\ UNCHANGED <<left, running, fatal, socketOpen, work, streams, streamVars,
                            queueVars, readerVars, user, closer>>

\* nativeRead: the bytes copied out are credited back to the peer.
ReturnsNothing(s, n) == credit
Returned(s, n) == [credit EXCEPT ![s] = @ + n]

HarvestChunk(s) ==
  LET n     == IF native[s].unread < Harvest THEN native[s].unread ELSE Harvest
      first == total[s] - native[s].unread
  IN  /\ owner = "harvest" /\ s \in left /\ n > 0
      /\ native' = [native EXCEPT ![s].unread = @ - n]
      /\ credit' = Returned(s, n)
      /\ arrived' = [arrived EXCEPT ![s] = Append(@, Chunk(first, first + n))]
      /\ UNCHANGED <<ownerVars, socketOpen, work, streams, total, finished,
                     readerVars, user, closer>>

\* nativeRead answers 0, or -1 once the stream is over.
AnswersEndWhenEmpty(s) == TRUE
AnswersEnd(s) == native[s].fin

HarvestStops(s) == /\ owner = "harvest" /\ s \in left /\ native[s].unread = 0
                   /\ left' = left \ {s}
                   /\ finished' = [finished EXCEPT ![s] = @ \/ AnswersEnd(s)]
                   /\ UNCHANGED <<owner, running, fatal, socketOpen, work, streams, streamVars,
                                  arrived, readerVars, user, closer>>

PassEnds == /\ owner = "harvest" /\ left = {}
            /\ owner' = IF running THEN "work" ELSE "stopping"
            /\ UNCHANGED <<left, running, fatal, socketOpen, work, streams, streamVars,
                           queueVars, readerVars, user, closer>>

LoopCatches == /\ owner = "failing"
               /\ owner' = "stopping" /\ fatal' = TRUE
               /\ UNCHANGED <<left, running, socketOpen, work, streams, streamVars,
                              queueVars, readerVars, user, closer>>

LoopStops == /\ owner = "stopping"
             /\ owner' = "waking" /\ running' = FALSE
             /\ UNCHANGED <<left, fatal, socketOpen, work, streams, streamVars,
                            queueVars, readerVars, user, closer>>

\* The map as it stands: a stream that the last tasks open is not in it yet.
WakesReaders == /\ owner = "waking"
                /\ owner' = "draining"
                /\ finished' = [s \in Streams |-> finished[s] \/ s \in streams]
                /\ UNCHANGED <<left, running, fatal, socketOpen, work, streams, streamVars,
                               arrived, readerVars, user, closer>>

\* nativeClose follows the last drain: nothing queued before it is left behind.
NativeCloseUndrained == /\ owner = "draining"
                        /\ owner' = "closed"
                        /\ UNCHANGED <<left, running, fatal, socketOpen, work, streams, streamVars,
                                       queueVars, readerVars, user, closer>>
NativeClose == /\ owner = "draining" /\ work = <<>>
               /\ owner' = "closed"
               /\ UNCHANGED <<left, running, fatal, socketOpen, work, streams, streamVars,
                              queueVars, readerVars, user, closer>>

Owner == \/ RunTask \/ Drained \/ BurstEnds \/ PassEnds
         \/ LoopCatches \/ LoopStops \/ WakesReaders \/ NativeClose
         \/ \E s \in Streams : HarvestChunk(s) \/ HarvestStops(s)

-----------------------------------------------------------------------------
(* openStream, through onOwner. *)

Becomes(s, at) == user' = [user EXCEPT ![s] = at]

CallChecks(s) == /\ user[s] = "idle"
                 /\ Becomes(s, IF fatal \/ ~running THEN "error" ELSE "checked")
                 /\ UNCHANGED <<ownerVars, socketOpen, work, streams, streamVars,
                                queueVars, readerVars, closer>>

CallPuts(s) == /\ user[s] = "checked"
               /\ Becomes(s, "queued")
               /\ work' = Append(work, s)
               /\ UNCHANGED <<ownerVars, socketOpen, streams, streamVars,
                              queueVars, readerVars, closer>>

\* Ten seconds without an answer.  The task stays in the queue.
CallTimesOut(s) == /\ user[s] = "queued"
                   /\ Becomes(s, "timeout")
                   /\ UNCHANGED <<ownerVars, socketOpen, work, streams, streamVars,
                                  queueVars, readerVars, closer>>

-----------------------------------------------------------------------------
(* receive. *)

readerOnly == <<ownerVars, socketOpen, work, streams, streamVars, finished, closer>>

\* The caller's buffer takes n bytes of the leftover, which ends the call.
CopyOut(s, n) == /\ user[s] = "reading"
                 /\ n \in 1 .. (leftover[s].next - leftover[s].first)
                 /\ leftover' = [leftover EXCEPT ![s].first = @ + n]
                 /\ delivered' = [delivered EXCEPT ![s] = @ + n]
                 /\ UNCHANGED <<readerOnly, arrived, user>>

\* The chunk a poll of arrived answers becomes the leftover.
DropsRest(s) == /\ arrived' = [arrived EXCEPT ![s] = <<>>]
                /\ leftover' = [leftover EXCEPT ![s] = Head(arrived[s])]
Takes(s) == /\ arrived' = [arrived EXCEPT ![s] = Tail(@)]
            /\ leftover' = [leftover EXCEPT ![s] = Head(arrived[s])]

Poll(s) == /\ user[s] = "reading" /\ leftover[s].first = leftover[s].next
           /\ \/ arrived[s] # <<>> /\ Takes(s) /\ UNCHANGED user
              \/ arrived[s] = <<>> /\ Becomes(s, "empty") /\ UNCHANGED <<arrived, leftover>>
           /\ UNCHANGED <<readerOnly, delivered>>

ChecksFatal(s) == /\ user[s] = "empty"
                  /\ Becomes(s, IF fatal THEN "error" ELSE "noFatal")
                  /\ UNCHANGED <<readerOnly, arrived, readerVars>>

ChecksFinished(s) == /\ user[s] = "noFatal"
                     /\ Becomes(s, IF finished[s] THEN "end" ELSE "unfinished")
                     /\ UNCHANGED <<readerOnly, arrived, readerVars>>

\* A stopped connection ends even a stream nobody marked; then the deadline.
ChecksRunning(s) == /\ user[s] = "unfinished"
                    /\ IF running THEN Becomes(s, "waiting") \/ Becomes(s, "timeout")
                                  ELSE Becomes(s, "end")
                    /\ UNCHANGED <<readerOnly, arrived, readerVars>>

WaitPoll(s) == /\ user[s] = "waiting"
               /\ \/ arrived[s] # <<>> /\ Takes(s)
                  \/ UNCHANGED <<arrived, leftover>>  \* nothing within the 25 ms
               /\ Becomes(s, "reading")
               /\ UNCHANGED <<readerOnly, delivered>>

User(s) == \/ CallChecks(s) \/ CallPuts(s) \/ CallTimesOut(s)
           \/ Poll(s) \/ ChecksFatal(s) \/ ChecksFinished(s) \/ ChecksRunning(s)
           \/ WaitPoll(s)
           \/ \E n \in 1 .. Harvest : CopyOut(s, n)

-----------------------------------------------------------------------------
(* close. *)

\* A connection that has already stopped is left as it is, socket and all.
CloseBegins == /\ closer = "idle"
               /\ IF running THEN closer' = "joining" /\ running' = FALSE
                             ELSE closer' = "closed" /\ UNCHANGED running
               /\ UNCHANGED <<owner, left, fatal, socketOpen, work, streams, streamVars,
                              queueVars, readerVars, user>>

\* The two seconds join allows are taken to be enough for a pass.
CloseJoins == /\ closer = "joining" /\ owner = "closed"
              /\ closer' = "closed" /\ socketOpen' = FALSE
              /\ UNCHANGED <<ownerVars, work, streams, streamVars, queueVars, readerVars, user>>

Arrives(s) == \/ \E n \in 0 .. Window, fin \in BOOLEAN : Receive(s, n, fin)
              \/ StreamCloses(s)

Next == \/ Owner \/ PassFails \/ CloseBegins \/ CloseJoins
        \/ \E s \in Streams : Arrives(s) \/ User(s)

Spec == Init /\ [][Next]_vars

\* The owner and the readers run; the peer sends on while it has credit, and
\* what it sends gets through in some burst, sooner or later its end too.
\* Nothing has to fail, time out or be closed.
FairSpec ==
  /\ Spec
  /\ WF_vars(Owner)
  /\ \A s \in Streams :
       /\ WF_vars(CallPuts(s))
       /\ WF_vars(\E n \in 1 .. Harvest : CopyOut(s, n))
       /\ WF_vars(Poll(s)) /\ WF_vars(ChecksFatal(s)) /\ WF_vars(ChecksFinished(s))
       /\ WF_vars(ChecksRunning(s)) /\ WF_vars(WaitPoll(s))
       /\ SF_vars(\E n \in 0 .. Window : Receive(s, n, total[s] + n = MaxBytes))

-----------------------------------------------------------------------------
(* Properties. *)

TypeOK == /\ owner \in OwnerAt
          /\ left \in SUBSET Streams
          /\ running \in BOOLEAN /\ fatal \in BOOLEAN /\ socketOpen \in BOOLEAN
          /\ work \in Seq(Streams)
          /\ streams \in SUBSET Streams
          /\ native \in [Streams -> [unread : 0 .. Window, fin : BOOLEAN]]
          /\ credit \in [Streams -> 0 .. Window]
          /\ total \in [Streams -> 0 .. MaxBytes]
          /\ arrived \in [Streams -> Seq(Chunks)]
          /\ finished \in [Streams -> BOOLEAN]
          /\ leftover \in [Streams -> Chunks]
          /\ delivered \in [Streams -> 0 .. MaxBytes]
          /\ user \in [Streams -> UserAt]
          /\ closer \in {"idle", "joining", "closed"}

\* Where the first i chunks in the queue, behind the leftover, end.
UpTo(s, i) == IF i = 0 THEN leftover[s].next ELSE arrived[s][i].next

\* Every byte received is in exactly one place until the reader has it, and in
\* its turn: given, in the leftover, in the queue between the threads, or in
\* the native buffer.
NothingLost ==
  \A s \in Streams :
    /\ delivered[s] = leftover[s].first
    /\ \A i \in 1 .. Len(arrived[s]) : arrived[s][i].first = UpTo(s, i - 1)
    /\ UpTo(s, Len(arrived[s])) + native[s].unread = total[s]

\* What those who open and read streams see of it: see StreamPromise.  Where a
\* byte is between the peer and its reader is invisible, and so is the owner.
Promise == INSTANCE StreamPromise
             WITH opened <- streams, got <- total, given <- delivered,
                  ended <- {s \in Streams : native[s].fin},
                  over <- ~running, failed <- fatal,
                  told <- [s \in Streams |-> IF user[s] \in Answers THEN user[s] ELSE "nothing"]

\* What those who open and close connections see of it: see ConnectionLife.
\* This one has started.
LifeAt == CASE owner \in {"work", "burst", "harvest", "failing"} -> "looping"
            [] owner = "stopping" -> "left"
            [] owner \in {"waking", "draining"} -> "stopped"
            [] owner = "closed" -> "done"
This(value) == [c \in {"this"} |-> value]
Life == INSTANCE ConnectionLife
          WITH Connections <- {"this"}, at <- This(LifeAt), running <- This(running),
               fatal <- This(fatal), socket <- This(IF socketOpen THEN "open" ELSE "closed")

\* Both: a stream's reader and the connection's opener are promised what the
\* same threads do.
ImplementsPromise == Promise!Spec /\ Life!Spec

Reading(s) == user[s] \in {"reading", "empty", "noFatal", "unfinished", "waiting"}

\* harvestStreams: the defect it names is a transfer that "stalled short of the
\* end".  A reader that reads on gets to the end of a stream longer than the
\* window, to an error, or to its own deadline; stopping the connection, by
\* failure or by close, at any point, leaves no reader waiting.
TransferEnds == \A s \in Streams : Reading(s) ~> user[s] \in Answers

\* finally: "Wake anything waiting on a queue that will never fill again".  A
\* task queued before the loop has come to its end is still run.
QueuedIsRun ==
  \A s \in Streams : Contains(work, s) /\ owner # "closed" ~> ~Contains(work, s)

\* What the code says and does not do (see README, Findings).

\* receive: "-1 at a clean end of stream", with nothing left to read.  Nobody has
\* closed this connection and nothing has failed.
EndIsClean == \A s \in Streams : user[s] = "end" /\ running => delivered[s] = total[s]
=============================================================================
