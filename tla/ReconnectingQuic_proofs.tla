----------------------- MODULE ReconnectingQuic_proofs -----------------------
(***************************************************************************)
(* Theorems about ReconnectingQuic, for any set of threads and any number  *)
(* of connections.                                                         *)
(***************************************************************************)
EXTENDS ReconnectingQuic, TLAPS

\* Where a thread is in the monitor, has seen the old connection dead, and has
\* opened one of its own.
HasOne == {"awaiting", "shaking", "reporting", "checking", "refusing", "untrusted", "accepted", "failed"}
SawItDead == HasOne \cup {"replacing", "joiningOld", "opening"}
InMonitor == SawItDead \cup {"dropping", "joiningLast"}

Over == {"waking", "done"}

\* One thread at a time.
Monitor == \A t \in Callers : at[t] \in InMonitor => lock = t

\* What a thread has opened nobody has been given.
Own == \A t \in Callers : at[t] \in HasOne => mine[t] \in 1 .. generation /\ mine[t] \notin handed

\* Whatever was replaced is dead, and what is being replaced is.
Dead == /\ \A c \in handed : c # connection => ~Alive(c)
        /\ \A t \in Callers : at[t] \in SawItDead => ~Alive(connection)

\* What a check has established so far.
Vetted == /\ \A c \in Ids : handshakeDone[c] /\ pinned => genuine[c]
          /\ \A t \in Callers : at[t] \in {"checking", "accepted"} => handshakeDone[mine[t]]
          /\ \A t \in Callers : at[t] = "accepted" => genuine[mine[t]]
          /\ HandedIsGenuine

\* A connection nobody was given stops by itself, or because it was refused.
Refused(c) == \E t \in Callers : at[t] = "refusing" /\ mine[t] = c
Stopped == /\ \A c \in Ids : owner[c] \in Over => ~running[c]
           /\ \A c \in Ids \ handed : ~running[c] => owner[c] \in Over \/ Refused(c)
           /\ \A t \in Callers : at[t] = "untrusted" => owner[mine[t]] \in Over

IInv == TypeOK /\ Monitor /\ Own /\ Dead /\ Vetted /\ Stopped

USE DEF Callers, Ids

-----------------------------------------------------------------------------
(* The owning threads. *)

\* What a step of an owner does to a connection, its own or another.
Later(c) == /\ running'[c] => running[c]
            /\ fatal[c] => fatal'[c]
            /\ handshakeDone[c] => handshakeDone'[c]
            /\ handshakeDone'[c] /\ pinned => handshakeDone[c] \/ genuine[c]
            /\ owner[c] \in Over => owner'[c] \in Over
            /\ ~running'[c] => ~running[c] \/ owner'[c] \in Over
            /\ owner'[c] \in Over => owner[c] \in Over \/ ~running'[c]

LEMMA OwnerMoves ==
  ASSUME TypeOK, NEW c \in Ids, Runs(c) \/ Shakes(c) \/ Fails(c)
  PROVE  TypeOK' /\ UNCHANGED callers /\ \A d \in Ids : Later(d)
<1>1. CASE Binds(c)
  BY <1>1 DEF Binds, callers, fixed, fields, TypeOK, Later, OwnerAt
<1>2. CASE Starts(c)
  BY <1>2 DEF Starts, callers, fixed, fields, TypeOK, Later, OwnerAt, Over
<1>3. CASE StartFails(c)
  BY <1>3 DEF StartFails, callers, fixed, fields, TypeOK, Later, OwnerAt, Over
<1>4. CASE Shakes(c)
  BY <1>4 DEF Shakes, callers, fixed, fields, TypeOK, Later, OwnerAt
<1>5. CASE Fails(c)
  BY <1>5 DEF Fails, callers, fixed, fields, TypeOK, Later, OwnerAt, Over
<1>6. CASE Leaves(c)
  BY <1>6 DEF Leaves, callers, fixed, fields, TypeOK, Later, OwnerAt, Over
<1>7. CASE Stops(c)
  BY <1>7 DEF Stops, callers, fixed, fields, TypeOK, Later, OwnerAt, Over
<1>8. CASE Ends(c)
  BY <1>8 DEF Ends, callers, fixed, fields, TypeOK, Later, OwnerAt, Over
<1> QED BY <1>1, <1>2, <1>3, <1>4, <1>5, <1>6, <1>7, <1>8 DEF Runs

LEMMA OwnerKeeps ==
  ASSUME IInv, NEW c \in Ids, Runs(c) \/ Shakes(c) \/ Fails(c)
  PROVE  IInv'
<1>1. TypeOK' /\ UNCHANGED callers /\ \A d \in Ids : Later(d)
  BY OwnerMoves DEF IInv
<1>2. TypeOK /\ generation \in Nat /\ MaxGenerations \in Nat
  BY GenerationsAssumption DEF IInv, TypeOK
<1>3. Monitor' /\ Own'
  BY <1>1 DEF IInv, Monitor, Own, callers, fields
<1>4. handed \subseteq Ids /\ connection \in Ids \cup {0}
  BY <1>2 DEF TypeOK
<1>5. \A d \in Ids \cup {0} : Alive(d)' => Alive(d)
  BY <1>1 DEF Alive, Later
<1>6. Dead'
  BY <1>1, <1>4, <1>5 DEF IInv, Dead, Alive, callers, fields
<1>7. \A t \in Callers : at[t] \in HasOne => mine[t] \in Ids
  <2>1. \A n \in 1 .. generation : n \in Ids
    BY <1>2 DEF TypeOK
  <2> QED BY <2>1 DEF IInv, Own
<1>8. Vetted'
  BY <1>1, <1>4, <1>7 DEF IInv, Vetted, HandedIsGenuine, callers, fields, fixed, Later, HasOne
<1>9. Stopped'
  BY <1>1, <1>7 DEF IInv, Stopped, Refused, callers, fields, Later, HasOne
<1> QED BY <1>1, <1>3, <1>6, <1>8, <1>9 DEF IInv

-----------------------------------------------------------------------------
(* Callers. *)

\* A thread that only goes on.
LEMMA GoesOn ==
  ASSUME IInv, NEW t \in Callers,
         NEW where \in {"idle", "asking", "closing", "awaiting", "shaking", "reporting", "checking",
                    "accepted", "failed"},
         Goes(t, where),
         UNCHANGED <<others, fields, lock, mine, handed>>,
         stage' \in {"starting", "up", "tls", "refused", "closing", "down"},
         where \in HasOne => at[t] \in HasOne,
         where \in {"checking", "accepted"} => handshakeDone[mine[t]],
         where = "accepted" => genuine[mine[t]],
         at[t] # "refusing"
  PROVE  IInv'
<1>1. TypeOK'
  BY DEF IInv, TypeOK, CallerAt, Goes, others, ownerVars, fixed, fields
<1>2. \A s \in Callers : s # t => at'[s] = at[s]
  BY DEF IInv, TypeOK, Goes
<1>3. at'[t] = where
  BY DEF IInv, TypeOK, Goes
<1>4. Monitor' /\ Own'
  BY <1>2, <1>3 DEF IInv, Monitor, Own, InMonitor, SawItDead, HasOne, others, fields
<1>5. Dead'
  BY <1>2, <1>3 DEF IInv, Dead, Alive, SawItDead, HasOne, others, ownerVars, fields
<1>6. Vetted'
  BY <1>2, <1>3 DEF IInv, Vetted, HandedIsGenuine, others, ownerVars, fixed, fields
<1>7. Stopped'
  <2>1. \A d : Refused(d) => Refused(d)'
    BY <1>2 DEF Refused
  <2> QED BY <1>2, <1>3, <2>1 DEF IInv, Stopped, others, ownerVars, fields
<1> QED BY <1>1, <1>4, <1>5, <1>6, <1>7 DEF IInv

\* The thread in the monitor is the only one there.
LEMMA OnlyOne ==
  ASSUME IInv, NEW t \in Callers, at[t] \in InMonitor, NEW s \in Callers, at[s] \in InMonitor
  PROVE  s = t
BY DEF IInv, Monitor

LEMMA Enter ==
  ASSUME IInv, NEW t \in Callers, FindsItDead(t) \/ EntersClose(t)
  PROVE  IInv'
<1>1. PICK where \in {"replacing", "dropping"} :
        Goes(t, where) /\ (where = "replacing" => ~Alive(connection))
  BY DEF FindsItDead, EntersClose
<1>2. /\ lock = NoThread /\ lock' = t
      /\ UNCHANGED <<others, fields, mine, stage, handed>>
  BY DEF FindsItDead, EntersClose, Enters
<1>3. \A s \in Callers : s # t => at'[s] = at[s]
  BY <1>1 DEF IInv, TypeOK, Goes
<1>4. at'[t] = where
  BY <1>1 DEF IInv, TypeOK, Goes
<1>5. TypeOK'
  BY <1>1, <1>2 DEF IInv, TypeOK, Goes, CallerAt, others, ownerVars, fixed, fields
<1>6. \A s \in Callers : at[s] \notin InMonitor
  BY <1>2, ThreadsAssumption DEF IInv, Monitor
<1>7. Monitor' /\ Own'
  BY <1>1, <1>2, <1>3, <1>4, <1>6 DEF Monitor, Own, HasOne, SawItDead, InMonitor, fields
<1>8. Dead'
  <2>1. \A c : Alive(c)' = Alive(c)
    BY <1>2 DEF Alive, others, ownerVars
  <2>2. \A s \in Callers : at'[s] \in SawItDead => s = t /\ where = "replacing"
    BY <1>3, <1>4, <1>6 DEF InMonitor, SawItDead, HasOne
  <2> QED BY <1>1, <1>2, <2>1, <2>2 DEF IInv, Dead, fields, Alive, others, ownerVars
<1>9. Vetted' /\ Stopped'
  <2>1. at[t] # "refusing"
    BY <1>6 DEF InMonitor, SawItDead, HasOne
  <2>2. \A d : Refused(d) => Refused(d)'
    BY <1>2, <1>3, <2>1 DEF Refused
  <2> QED BY <1>1, <1>2, <1>3, <1>4, <2>2
          DEF IInv, Vetted, HandedIsGenuine, Stopped, others, ownerVars, fixed, fields
<1> QED BY <1>5, <1>7, <1>8, <1>9 DEF IInv

\* A step that stops a connection that was handed out, or closes its socket.
LEMMA StopsHanded ==
  ASSUME IInv, NEW t \in Callers, NEW where \in CallerAt,
         Goes(t, where),
         at[t] \in InMonitor \ HasOne, where \notin HasOne,
         where \in InMonitor => lock' = lock,
         where \in SawItDead => at[t] \in SawItDead,
         lock' \in {lock, NoThread},
         UNCHANGED <<owner, fatal, handshakeDone, fixed, generation, mine, handed>>,
         socket' \in [Ids -> {"none", "open", "closed"}],
         running' \in [Ids -> BOOLEAN],
         \A c \in Ids : running'[c] # running[c] => c = connection /\ ~running'[c],
         connection' \in {connection, 0},
         connection # 0 /\ connection' = 0 => ~running'[connection] \/ fatal[connection],
         stage' \in {"starting", "up", "tls", "refused", "closing", "down"}
  PROVE  IInv'
<1>1. \A s \in Callers : s # t => at'[s] = at[s] /\ at[s] \notin InMonitor
  BY OnlyOne DEF IInv, TypeOK, Goes
<1>2. at'[t] = where
  BY DEF IInv, TypeOK, Goes
<1>3. TypeOK'
  BY DEF IInv, TypeOK, Goes, fixed
<1>4. Monitor' /\ Own'
  BY <1>1, <1>2 DEF IInv, Monitor, Own, HasOne, SawItDead, InMonitor
<1>5. handed \subseteq Ids /\ connection \in handed \cup {0}
  BY GenerationsAssumption DEF IInv, TypeOK
<1>6. \A c \in Ids : running'[c] => running[c]
  BY DEF IInv, TypeOK
<1>7. Dead'
  <2>1. \A c \in handed : c # connection' => ~(running'[c] /\ ~fatal'[c])
    BY <1>5, <1>6 DEF IInv, Dead, Alive
  <2>2. \A s \in Callers : at'[s] \in SawItDead => s = t /\ ~Alive(connection)
    BY <1>1, <1>2 DEF IInv, Dead, SawItDead, InMonitor
  <2>3. ~Alive(connection) => ~(connection' # 0 /\ running'[connection'] /\ ~fatal'[connection'])
    BY <1>5, <1>6 DEF Alive
  <2> QED BY <2>1, <2>2, <2>3 DEF Dead, Alive
<1>8. Vetted'
  BY <1>1, <1>2 DEF IInv, Vetted, HandedIsGenuine, fixed, HasOne
<1>9. Stopped'
  <2>1. \A d : Refused(d) => Refused(d)'
    BY <1>1 DEF Refused, InMonitor, SawItDead, HasOne
  <2>2. \A c \in Ids \ handed' : ~running'[c] => ~running[c]
    BY <1>5 DEF IInv, TypeOK
  <2>3. \A s \in Callers : at'[s] # "untrusted"
    BY <1>1, <1>2 DEF InMonitor, SawItDead, HasOne
  <2> QED BY <2>1, <2>2, <2>3 DEF IInv, Stopped
<1> QED BY <1>3, <1>4, <1>7, <1>8, <1>9 DEF IInv

LEMMA Closing ==
  ASSUME IInv, NEW t \in Callers, ClosesOld(t) \/ JoinsOld(t) \/ Drops(t) \/ JoinsLast(t)
  PROVE  IInv'
<1>1. connection \in Ids \cup {0} /\ connection \in handed \cup {0}
  BY GenerationsAssumption DEF IInv, TypeOK
<1>2. /\ TypeOK
      /\ \A c \in Ids : owner[c] = "done" => ~running[c]
  BY DEF IInv, Stopped, Over
<1>3. PICK where \in {"joiningOld", "opening", "joiningLast", "idle"} : Goes(t, where)
  BY DEF ClosesOld, JoinsOld, Drops, JoinsLast, Stop
<1>4. /\ where \in CallerAt
      /\ at[t] \in InMonitor \ HasOne /\ where \notin HasOne
  BY DEF ClosesOld, JoinsOld, Drops, JoinsLast, CallerAt, InMonitor, SawItDead, HasOne
<1>5. at'[t] = where
  BY <1>2, <1>3 DEF TypeOK, Goes
<1>6. CASE ClosesOld(t)
  <2>1. where \in SawItDead /\ at[t] \in SawItDead /\ UNCHANGED <<lock, connection, socket, stage>>
    BY <1>2, <1>5, <1>6 DEF ClosesOld, Stop, Goes, SawItDead, HasOne, TypeOK, fields
  <2>2. /\ running' \in [Ids -> BOOLEAN]
        /\ \A c \in Ids : running'[c] # running[c] => c = connection /\ ~running'[c]
    BY <1>1, <1>2, <1>6 DEF ClosesOld, Stop, TypeOK
  <2>3. UNCHANGED <<owner, fatal, handshakeDone, fixed, generation, mine, handed>>
    BY <1>6 DEF ClosesOld, fields
  <2> QED BY <1>2, <1>3, <1>4, <2>1, <2>2, <2>3, StopsHanded DEF TypeOK
<1>7. CASE JoinsOld(t)
  <2>1. where \in SawItDead /\ at[t] \in SawItDead /\ UNCHANGED <<lock, connection, running, stage>>
    BY <1>2, <1>5, <1>7 DEF JoinsOld, Goes, SawItDead, HasOne, TypeOK, fields
  <2>2. socket' \in [Ids -> {"none", "open", "closed"}]
    BY <1>1, <1>2, <1>7 DEF JoinsOld, Joined, TypeOK
  <2>3. UNCHANGED <<owner, fatal, handshakeDone, fixed, generation, mine, handed>>
    BY <1>7 DEF JoinsOld, fields
  <2> QED BY <1>2, <1>3, <1>4, <2>1, <2>2, <2>3, StopsHanded DEF TypeOK
<1>8. CASE Drops(t)
  <2>1. /\ where \in {"joiningLast", "idle"} /\ UNCHANGED socket
        /\ where = "joiningLast" => UNCHANGED <<connection, lock, stage>>
        /\ where = "idle" => Closed(t)
    BY <1>2, <1>5, <1>8 DEF Drops, Stop, Goes, TypeOK
  <2>2. /\ running' \in [Ids -> BOOLEAN]
        /\ \A c \in Ids : running'[c] # running[c] => c = connection /\ ~running'[c]
        /\ connection # 0 => ~running'[connection]
    BY <1>1, <1>2, <1>8 DEF Drops, Stop, TypeOK
  <2>3. UNCHANGED <<owner, fatal, handshakeDone, fixed, generation, mine, handed>>
    BY <1>8 DEF Drops
  <2> QED BY <1>2, <1>3, <1>4, <2>1, <2>2, <2>3, StopsHanded
          DEF TypeOK, Closed, SawItDead, InMonitor, HasOne
<1>9. CASE JoinsLast(t)
  <2>1. /\ where = "idle" /\ UNCHANGED running /\ Closed(t)
        /\ connection # 0 => ~running[connection]
    BY <1>1, <1>2, <1>5, <1>9 DEF JoinsLast, Joined, Goes, TypeOK
  <2>2. socket' \in [Ids -> {"none", "open", "closed"}]
    BY <1>1, <1>2, <1>9 DEF JoinsLast, Joined, TypeOK
  <2>3. UNCHANGED <<owner, fatal, handshakeDone, fixed, generation, mine, handed>>
    BY <1>9 DEF JoinsLast
  <2> QED BY <1>2, <1>3, <1>4, <2>1, <2>2, <2>3, StopsHanded
          DEF TypeOK, Closed, SawItDead, InMonitor, HasOne
<1> QED BY <1>6, <1>7, <1>8, <1>9
LEMMA OpensNew ==
  ASSUME IInv, NEW t \in Callers, Opens(t)
  PROVE  IInv'
<1> DEFINE new == generation + 1
<1>1. /\ TypeOK /\ new \in Ids /\ generation \in Nat /\ MaxGenerations \in Nat
      /\ owner[new] = "none" /\ new \notin handed /\ new # connection
  BY GenerationsAssumption DEF IInv, TypeOK, Opens
<1>2. /\ at[t] = "opening" /\ generation' = new
      /\ mine' = [mine EXCEPT ![t] = new]
      /\ owner' = [owner EXCEPT ![new] = "starting"]
      /\ at' = [at EXCEPT ![t] = "awaiting"]
      /\ UNCHANGED <<socket, running, fatal, handshakeDone, genuine, pinned, connection, lock, stage, handed>>
  BY DEF Opens, Goes, fixed
<1>3. \A s \in Callers : s # t => at'[s] = at[s] /\ mine'[s] = mine[s] /\ at[s] \notin InMonitor
  BY <1>1, <1>2, OnlyOne DEF TypeOK, InMonitor, SawItDead
<1>4. at'[t] = "awaiting" /\ mine'[t] = new
  BY <1>1, <1>2 DEF TypeOK
<1>5. TypeOK'
  BY <1>1, <1>2 DEF TypeOK, OwnerAt, CallerAt
<1>6. Monitor' /\ Own'
  BY <1>1, <1>2, <1>3, <1>4 DEF IInv, Monitor, Own, InMonitor, SawItDead, HasOne
<1>7. Dead'
  BY <1>2, <1>3, <1>4 DEF IInv, Dead, Alive, InMonitor, SawItDead, HasOne
<1>8. Vetted'
  BY <1>2, <1>3, <1>4 DEF IInv, Vetted, HandedIsGenuine, InMonitor, SawItDead, HasOne
<1>9. Stopped'
  <2>1. \A d : ~Refused(d) /\ ~Refused(d)'
    BY <1>2, <1>3, <1>4 DEF Refused, InMonitor, SawItDead, HasOne
  <2>2. \A c \in Ids : owner'[c] \in Over => owner[c] \in Over
    BY <1>1, <1>2 DEF TypeOK, Over
  <2>3. \A c \in Ids \ handed : ~running[c] => c # new /\ owner'[c] = owner[c]
    BY <1>1, <1>2, <2>1 DEF IInv, Stopped, TypeOK, Over
  <2>4. \A s \in Callers : at'[s] # "untrusted"
    BY <1>3, <1>4 DEF InMonitor, SawItDead, HasOne
  <2> QED BY <1>2, <2>1, <2>2, <2>3, <2>4 DEF IInv, Stopped
<1> QED BY <1>5, <1>6, <1>7, <1>8, <1>9 DEF IInv

\* The refusal of a chain: the connection is its thread's own.
LEMMA Refusing ==
  ASSUME IInv, NEW t \in Callers,
         (Checks(t) /\ ~genuine[mine[t]]) \/ JoinsRefused(t)
  PROVE  IInv'
<1> DEFINE c == mine[t]
<1>1. /\ TypeOK /\ at[t] \in {"checking", "refusing"}
      /\ c \in Ids /\ c \notin handed /\ c # connection /\ c # 0
  BY GenerationsAssumption DEF IInv, Own, HasOne, TypeOK, Checks, JoinsRefused
<1>2. PICK where \in {"refusing", "untrusted"} : Goes(t, where)
  BY DEF Checks, JoinsRefused, Stop
<1>3. /\ UNCHANGED <<owner, fatal, handshakeDone, genuine, pinned, connection, generation, lock, mine, stage, handed>>
  BY DEF Checks, JoinsRefused, fixed, fields
<1>4. at'[t] = where
  BY <1>1, <1>2 DEF TypeOK, Goes
<1>5. \A s \in Callers : s # t => at'[s] = at[s] /\ at[s] \notin InMonitor
  BY <1>1, <1>2, OnlyOne DEF TypeOK, Goes, InMonitor, SawItDead, HasOne
<1>6. /\ socket' \in [Ids -> {"none", "open", "closed"}]
      /\ running' \in [Ids -> BOOLEAN]
      /\ \A d \in Ids : running'[d] # running[d] => d = c /\ ~running'[d] /\ where = "refusing"
      /\ where = "refusing" => Checks(t) /\ ~running'[c]
  BY <1>1, <1>2, <1>4 DEF Checks, JoinsRefused, Joined, Stop, Goes, TypeOK
<1>7. where = "untrusted" => owner[c] \in Over
  <2>1. CASE Checks(t) /\ ~genuine[c]
    <3>1. SUFFICES ASSUME where = "untrusted" PROVE owner[c] \in Over
      OBVIOUS
    <3>2. ~running[c]
      BY <1>1, <1>4, <2>1, <3>1 DEF Checks, Stop, Goes, TypeOK
    <3>3. ~Refused(c)
      BY <1>5, <2>1 DEF Refused, Checks, InMonitor, SawItDead, HasOne
    <3> QED BY <1>1, <3>2, <3>3 DEF IInv, Stopped
  <2>2. CASE JoinsRefused(t)
    BY <2>2 DEF JoinsRefused, Joined, Over
  <2> QED BY <2>1, <2>2
<1>8. TypeOK'
  BY <1>1, <1>2, <1>3, <1>6 DEF TypeOK, Goes, CallerAt
<1>9. Monitor' /\ Own'
  BY <1>1, <1>3, <1>4, <1>5 DEF IInv, Monitor, Own, InMonitor, SawItDead, HasOne
<1>10. Dead'
  <2>1. \A d : d \in handed \cup {connection} => Alive(d)' = Alive(d)
    <3>1. handed \subseteq Ids /\ connection \in Ids \cup {0}
      BY <1>1, GenerationsAssumption DEF TypeOK
    <3> QED BY <1>1, <1>3, <1>6, <3>1 DEF Alive, TypeOK
  <2> QED BY <1>1, <1>3, <1>4, <1>5, <2>1 DEF IInv, Dead, SawItDead, HasOne, Alive
<1>11. Vetted'
  BY <1>3, <1>4, <1>5 DEF IInv, Vetted, HandedIsGenuine, InMonitor, SawItDead, HasOne
<1>12. Stopped'
  <2>1. \A d \in Ids : d # c => ~Refused(d) /\ running'[d] = running[d]
    BY <1>5, <1>6 DEF Refused, InMonitor, SawItDead, HasOne
  <2>2. where = "refusing" => Refused(c)'
    BY <1>3, <1>4 DEF Refused
  <2>3. \A s \in Callers : at'[s] = "untrusted" => s = t /\ where = "untrusted"
    BY <1>4, <1>5 DEF InMonitor, SawItDead, HasOne
  <2>4. \A d \in Ids : owner'[d] \in Over => ~running'[d]
    BY <1>1, <1>3, <1>6 DEF IInv, Stopped, TypeOK
  <2> QED BY <1>2, <1>3, <1>7, <2>1, <2>2, <2>3, <2>4 DEF IInv, Stopped
<1> QED BY <1>8, <1>9, <1>10, <1>11, <1>12 DEF IInv

LEMMA HandsIt ==
  ASSUME IInv, NEW t \in Callers, Hands(t)
  PROVE  IInv'
<1> DEFINE c == mine[t]
<1>1. /\ TypeOK /\ at[t] = "accepted"
      /\ c \in Ids /\ c \in 1 .. generation /\ handshakeDone[c] /\ genuine[c]
  BY GenerationsAssumption DEF IInv, Own, HasOne, Vetted, TypeOK, Hands
<1>2. /\ connection' = c /\ handed' = handed \cup {c}
      /\ mine' = [mine EXCEPT ![t] = 0]
      /\ at' = [at EXCEPT ![t] = "idle"]
      /\ lock' = NoThread /\ stage' \in {stage, "up"}
      /\ UNCHANGED <<owner, socket, running, fatal, handshakeDone, genuine, pinned, generation>>
  BY DEF Hands, Hand, Goes, others, ownerVars, fixed
<1>3. \A s \in Callers : s # t => at'[s] = at[s] /\ at[s] \notin InMonitor
  BY <1>1, <1>2, OnlyOne DEF TypeOK, InMonitor, SawItDead, HasOne
<1>4. at'[t] = "idle"
  BY <1>1, <1>2 DEF TypeOK
<1>5. \A s \in Callers : at'[s] \notin InMonitor
  BY <1>3, <1>4 DEF InMonitor, SawItDead, HasOne
<1>6. TypeOK'
  <2>1. mine' \in [Callers -> 0 .. generation'] /\ at' \in [Callers -> CallerAt]
    BY <1>1, <1>2, GenerationsAssumption DEF TypeOK, CallerAt
  <2>2. handed' \subseteq 1 .. generation' /\ connection' \in handed' \cup {0}
    BY <1>1, <1>2 DEF TypeOK
  <2> QED BY <1>1, <1>2, <2>1, <2>2 DEF TypeOK
<1>7. Monitor' /\ Own'
  BY <1>5 DEF Monitor, Own, InMonitor, SawItDead
<1>8. Dead'
  <2>1. \A d : Alive(d)' = Alive(d)
    BY <1>2 DEF Alive
  <2>2. \A d \in handed : d # c => ~Alive(d)
    BY <1>1 DEF IInv, Dead, SawItDead, HasOne
  <2> QED BY <1>2, <1>5, <2>1, <2>2 DEF Dead, InMonitor, Alive
<1>9. Vetted'
  BY <1>1, <1>2, <1>5 DEF IInv, Vetted, HandedIsGenuine, InMonitor, SawItDead, HasOne
<1>10. Stopped'
  <2>1. \A d : ~Refused(d)
    BY <1>1, <1>3 DEF Refused, InMonitor, SawItDead, HasOne
  <2> QED BY <1>2, <1>5, <2>1 DEF IInv, Stopped, InMonitor, SawItDead, HasOne
<1> QED BY <1>6, <1>7, <1>8, <1>9, <1>10 DEF IInv

LEMMA ThrowsIt ==
  ASSUME IInv, NEW t \in Callers, Throws(t)
  PROVE  IInv'
<1>1. TypeOK /\ at[t] \in {"failed", "untrusted"}
  BY DEF IInv, Throws
<1>2. PICK where \in {"idle", "closing"} : at' = [at EXCEPT ![t] = where]
  BY DEF Throws, Goes
<1>3. /\ mine' = [mine EXCEPT ![t] = 0] /\ lock' = NoThread /\ stage' \in {stage, "refused"}
      /\ UNCHANGED <<owner, socket, running, fatal, handshakeDone, genuine, pinned, connection, generation, handed>>
  BY DEF Throws, others, ownerVars, fixed, fields
<1>4. \A s \in Callers : at'[s] \notin InMonitor
  BY <1>1, <1>2, OnlyOne DEF TypeOK, InMonitor, SawItDead, HasOne
<1>5. TypeOK'
  BY <1>1, <1>2, <1>3 DEF TypeOK, CallerAt
<1>6. Monitor' /\ Own' /\ Dead'
  BY <1>3, <1>4 DEF IInv, Monitor, Own, Dead, Alive, InMonitor, SawItDead
<1>7. Vetted'
  BY <1>3, <1>4 DEF IInv, Vetted, HandedIsGenuine, InMonitor, SawItDead, HasOne
<1>8. Stopped'
  <2>1. \A d : ~Refused(d)
    BY <1>1, OnlyOne DEF Refused, InMonitor, SawItDead, HasOne
  <2> QED BY <1>3, <1>4, <2>1 DEF IInv, Stopped, InMonitor, SawItDead, HasOne
<1> QED BY <1>5, <1>6, <1>7, <1>8 DEF IInv
-----------------------------------------------------------------------------
(* The invariant, and what follows from it. *)

LEMMA InitInv == Init => IInv
<1> SUFFICES ASSUME Init PROVE IInv
  OBVIOUS
<1>1. TypeOK
  BY GenerationsAssumption DEF Init, TypeOK, OwnerAt, CallerAt
<1>2. \A t \in Callers : at[t] \in {"idle", "asking"}
  BY DEF Init
<1> QED BY <1>1, <1>2 DEF Init, IInv, Monitor, Own, Dead, Alive, Vetted, HandedIsGenuine, Stopped, Refused,
                          InMonitor, SawItDead, HasOne, Over

LEMMA CallerKeeps ==
  ASSUME IInv, NEW t \in Callers,
         Asks(t) \/ ReturnsIt(t) \/ FindsItDead(t) \/ EntersClose(t) \/ Inside(t)
  PROVE  IInv'
<1>1. TypeOK /\ stage \in {"starting", "up", "tls", "refused", "closing", "down"}
  BY DEF IInv, TypeOK
<1>2. CASE Asks(t)
  BY <1>1, <1>2, GoesOn DEF Asks, HasOne
<1>3. CASE ReturnsIt(t)
  BY <1>1, <1>3, GoesOn DEF ReturnsIt, HasOne
<1>4. CASE Awaits(t)
  BY <1>1, <1>4, GoesOn DEF Awaits, HasOne
<1>5. CASE SeesHandshake(t)
  <2>1. mine[t] \in Ids /\ at[t] = "shaking" /\ handshakeDone[mine[t]]
    BY <1>1, <1>5, GenerationsAssumption DEF SeesHandshake, IInv, Own, HasOne, TypeOK
  <2>2. pinned => genuine[mine[t]]
    BY <2>1 DEF IInv, Vetted
  <2>3. CASE pinned
    BY <1>1, <1>5, <2>1, <2>2, <2>3, GoesOn DEF SeesHandshake, HasOne
  <2>4. CASE ~pinned
    BY <1>1, <1>5, <2>1, <2>4, GoesOn DEF SeesHandshake, HasOne
  <2> QED BY <2>3, <2>4
<1>6. CASE GivesUp(t)
  <2>1. PICK where \in {"failed", "reporting"} : Goes(t, where)
    BY <1>6 DEF GivesUp
  <2> QED BY <1>1, <1>6, <2>1, GoesOn DEF GivesUp, HasOne
<1>7. CASE Checks(t)
  <2>1. CASE genuine[mine[t]]
    <3>1. handshakeDone[mine[t]]
      BY <1>7 DEF Checks, IInv, Vetted
    <3>2. Goes(t, "accepted") /\ UNCHANGED <<others, fields, lock, mine, stage, handed>> /\ at[t] = "checking"
      BY <1>7, <2>1 DEF Checks, others, ownerVars
    <3> QED BY <1>1, <2>1, <3>1, <3>2, GoesOn DEF HasOne
  <2>2. CASE ~genuine[mine[t]]
    BY <1>7, <2>2, Refusing
  <2> QED BY <2>1, <2>2
<1>8. CASE CheckFails(t)
  BY <1>1, <1>8, GoesOn DEF CheckFails, HasOne
<1>9. CASE FindsItDead(t) \/ EntersClose(t)
  BY <1>9, Enter
<1>10. CASE ClosesOld(t) \/ JoinsOld(t) \/ Drops(t) \/ JoinsLast(t)
  BY <1>10, Closing
<1>11. CASE Reports(t)
  BY <1>1, <1>11, GoesOn DEF Reports, HasOne
<1> QED BY <1>2, <1>3, <1>4, <1>5, <1>6, <1>7, <1>8, <1>9, <1>10, <1>11, OpensNew, Refusing, HandsIt, ThrowsIt
        DEF Inside

LEMMA NextInv == IInv /\ [Next]_vars => IInv'
<1> SUFFICES ASSUME IInv, [Next]_vars PROVE IInv'
  OBVIOUS
<1>1. CASE TearsDown
  <2>1. Control \in Callers /\ at[Control] = "idle" /\ Goes(Control, "closing")
    BY <1>1 DEF TearsDown
  <2> QED BY <1>1, <2>1, GoesOn DEF TearsDown, HasOne
<1>2. CASE UNCHANGED vars
  BY <1>2 DEF vars, ownerVars, fixed, fields, IInv, TypeOK, Monitor, Own, Dead, Alive, Vetted, HandedIsGenuine,
              Stopped, Refused
<1> QED BY <1>1, <1>2, OwnerKeeps, CallerKeeps DEF Next

THEOREM Invariance == Spec => []IInv
BY InitInv, NextInv, PTL DEF Spec

\* Every variable stays in its type: the generation counts what is opened.
THEOREM AlwaysTyped == Spec => []TypeOK
BY Invariance, PTL DEF IInv

\* verifyPeer: current never returns a connection whose handshake is not over
\* or whose peer does not hold the certificate the node asks for.
THEOREM HandedAlwaysGenuine == Spec => []HandedIsGenuine
<1>1. IInv => HandedIsGenuine
  BY DEF IInv, Vetted
<1> QED BY <1>1, Invariance, PTL

\* current: of all the connections it returned one at most is alive.
THEOREM NeverTwoAlive == Spec => []OneAlive
<1>1. IInv => OneAlive
  BY DEF IInv, Dead, OneAlive
<1> QED BY <1>1, Invariance, PTL

\* verifyPeer: a certificate is reported refused when the loop is over.
THEOREM RefusedAlwaysDown == Spec => []RefusedIsDown
<1>1. IInv => RefusedIsDown
  BY DEF IInv, Stopped, Over, RefusedIsDown
<1> QED BY <1>1, Invariance, PTL

-----------------------------------------------------------------------------
(* Nobody waits for what cannot come. *)

\* Callers whose connection has a loop, and those that join one.
Shaken == {"shaking", "reporting", "checking", "refusing", "untrusted", "accepted"}
Joining == {"joiningOld", "joiningLast"}

\* What was handed out, and what is about to be, has come to its loop; whoever
\* joins a thread has told it to stop.
Answered == /\ \A c \in handed : owner[c] \in Started
            /\ \A t \in Callers : at[t] \in Shaken => owner[mine[t]] \in Started
            /\ \A t \in Callers : at[t] \in Joining => connection # 0 /\ ~running[connection]
            /\ \A t \in Callers : at[t] = "refusing" => ~running[mine[t]]

USE DEF Shaken, Joining

LEMMA OwnersAnswer ==
  ASSUME IInv, Answered, NEW c \in Ids, Runs(c) \/ Shakes(c) \/ Fails(c)
  PROVE  Answered'
<1>1. UNCHANGED callers /\ \A d \in Ids : running'[d] => running[d]
  BY OwnerMoves DEF IInv, Later
<1>2. \A d \in Ids : owner[d] \in Started => owner'[d] \in Started
  BY DEF IInv, TypeOK, Started, Runs, Binds, Starts, StartFails, Shakes, Fails, Leaves, Stops, Ends
<1>3. handed \subseteq Ids /\ connection \in Ids \cup {0}
  BY GenerationsAssumption DEF IInv, TypeOK
<1>4. \A t \in Callers : at[t] \in HasOne => mine[t] \in Ids
  BY GenerationsAssumption DEF IInv, TypeOK, Own
<1> QED BY <1>1, <1>2, <1>3, <1>4 DEF Answered, callers, fields, HasOne

\* A caller that goes on, neither joining nor into a connection not yet started.
LEMMA GoesOnAnswered ==
  ASSUME IInv, Answered, NEW t \in Callers, NEW where \in CallerAt, Goes(t, where),
         UNCHANGED <<owner, handed>>,
         \A s \in Callers \ {t} : mine'[s] = mine[s],
         where \in Shaken => owner[mine[t]] \in Started /\ mine'[t] = mine[t],
         where \in Joining => connection' # 0 /\ ~running'[connection'],
         where = "refusing" => ~running'[mine[t]],
         \A c \in Ids : running'[c] => running[c],
         \/ UNCHANGED connection
         \/ at[t] \in InMonitor
  PROVE  Answered'
<1>1. \A s \in Callers : s # t => at'[s] = at[s]
  BY DEF IInv, TypeOK, Goes
<1>2. at'[t] = where
  BY DEF IInv, TypeOK, Goes
<1>3. \A s \in Callers : at[s] \in HasOne => mine[s] \in Ids
  BY GenerationsAssumption DEF IInv, TypeOK, Own
<1>4. connection \in Ids \cup {0}
  BY GenerationsAssumption DEF IInv, TypeOK
<1>5. \A s \in Callers \ {t} : at[s] \in Joining => connection' # 0 /\ ~running'[connection']
  <2>1. CASE UNCHANGED connection
    BY <1>4, <2>1 DEF Answered
  <2>2. CASE at[t] \in InMonitor
    BY <2>2, OnlyOne DEF InMonitor, SawItDead
  <2> QED BY <2>1, <2>2
<1>6. \A s \in Callers \ {t} : at[s] = "refusing" => ~running'[mine[s]]
  BY <1>3 DEF Answered, HasOne
<1> QED BY <1>1, <1>2, <1>5, <1>6 DEF Answered

LEMMA CallersAnswer ==
  ASSUME IInv, Answered, NEW t \in Callers,
         Asks(t) \/ ReturnsIt(t) \/ FindsItDead(t) \/ EntersClose(t) \/ Inside(t)
  PROVE  Answered'
<1>1. /\ TypeOK /\ handed \subseteq Ids /\ connection \in handed \cup {0}
      /\ generation \in Nat /\ MaxGenerations \in Nat
  BY GenerationsAssumption DEF IInv, TypeOK
<1>2. at[t] \in HasOne => mine[t] \in Ids
  BY <1>1, GenerationsAssumption DEF IInv, TypeOK, Own
<1>3. CASE Asks(t) \/ ReturnsIt(t) \/ FindsItDead(t) \/ EntersClose(t)
  BY <1>3, GoesOnAnswered DEF Asks, ReturnsIt, FindsItDead, EntersClose, CallerAt, others, ownerVars, fields
<1>4. CASE Awaits(t)
  <2>1. owner[mine[t]] \notin {"none", "starting"}
    <3>1. at[t] = "awaiting" /\ mine[t] \in 1 .. generation
      BY <1>4 DEF Awaits, IInv, Own, HasOne
    <3>2. owner[mine[t]] # "none"
      BY <1>1, <3>1 DEF TypeOK
    <3> QED BY <1>4, <3>2 DEF Awaits
  <2>2. owner[mine[t]] # "failed" => owner[mine[t]] \in Started
    BY <1>1, <1>2, <1>4, <2>1 DEF Awaits, TypeOK, OwnerAt, Started, HasOne
  <2> QED BY <1>4, <2>2, GoesOnAnswered DEF Awaits, CallerAt, others, ownerVars, fields
<1>5. CASE SeesHandshake(t) \/ GivesUp(t) \/ Reports(t) \/ CheckFails(t)
  <2>1. owner[mine[t]] \in Started
    BY <1>5 DEF SeesHandshake, GivesUp, Reports, CheckFails, Answered
  <2> QED BY <1>5, <2>1, GoesOnAnswered
          DEF SeesHandshake, GivesUp, Reports, CheckFails, CallerAt, others, ownerVars, fields
<1>6. CASE Checks(t) \/ JoinsRefused(t)
  <2>1. /\ owner[mine[t]] \in Started /\ mine[t] \in Ids
        /\ UNCHANGED <<owner, handed, mine, connection>>
    BY <1>2, <1>6 DEF Checks, JoinsRefused, Answered, HasOne, fields
  <2>2. PICK where \in {"accepted", "refusing", "untrusted"} :
          Goes(t, where) /\ (where = "refusing" => running' = [running EXCEPT ![mine[t]] = FALSE])
    <3>1. CASE JoinsRefused(t)
      BY <3>1 DEF JoinsRefused
    <3>2. CASE Checks(t)
      <4>1. CASE genuine[mine[t]]
        BY <3>2, <4>1 DEF Checks
      <4>2. CASE ~genuine[mine[t]] /\ mine[t] # 0 /\ running[mine[t]]
        BY <3>2, <4>2 DEF Checks, Stop
      <4>3. CASE ~genuine[mine[t]] /\ ~(mine[t] # 0 /\ running[mine[t]])
        BY <3>2, <4>3 DEF Checks, Stop
      <4> QED BY <4>1, <4>2, <4>3
    <3> QED BY <1>6, <3>1, <3>2
  <2>3. \A c \in Ids : running'[c] => running[c]
    BY <1>1, <1>6, <2>1 DEF Checks, JoinsRefused, Stop, TypeOK
  <2>4. where = "refusing" => ~running'[mine[t]]
    BY <1>1, <2>1, <2>2 DEF TypeOK
  <2> QED BY <2>1, <2>2, <2>3, <2>4, GoesOnAnswered DEF CallerAt
<1>7. CASE ClosesOld(t) \/ JoinsOld(t) \/ Drops(t) \/ JoinsLast(t)
  <2>1. UNCHANGED <<owner, handed, mine>> /\ at[t] \in InMonitor
    BY <1>7 DEF ClosesOld, JoinsOld, Drops, JoinsLast, InMonitor, SawItDead
  <2>2. PICK where \in {"joiningOld", "opening", "joiningLast", "idle"} :
          /\ Goes(t, where)
          /\ where \in Joining => /\ connection # 0
                                  /\ running' = [running EXCEPT ![connection] = FALSE]
    <3>1. CASE JoinsOld(t) \/ JoinsLast(t)
      BY <3>1 DEF JoinsOld, JoinsLast
    <3>2. CASE ClosesOld(t) \/ Drops(t)
      <4>1. CASE connection # 0 /\ running[connection]
        BY <3>2, <4>1 DEF ClosesOld, Drops, Stop
      <4>2. CASE ~(connection # 0 /\ running[connection])
        BY <3>2, <4>2 DEF ClosesOld, Drops, Stop
      <4> QED BY <4>1, <4>2
    <3> QED BY <1>7, <3>1, <3>2
  <2>3. \A c \in Ids : running'[c] => running[c]
    BY <1>1, <1>7 DEF ClosesOld, JoinsOld, Drops, JoinsLast, Stop, TypeOK
  <2>4. at'[t] = where
    BY <1>1, <2>2 DEF TypeOK, Goes
  <2>5. where \in Joining => connection' = connection
    <3>1. CASE ClosesOld(t) \/ JoinsOld(t)
      BY <3>1 DEF ClosesOld, JoinsOld, fields
    <3>2. CASE Drops(t)
      BY <2>4, <3>2 DEF Drops
    <3>3. CASE JoinsLast(t)
      BY <1>1, <2>4, <3>3 DEF JoinsLast, Goes, TypeOK
    <3> QED BY <1>7, <3>1, <3>2, <3>3
  <2>6. where \in Joining => connection' # 0 /\ ~running'[connection']
    BY <1>1, <2>2, <2>5 DEF TypeOK
  <2> QED BY <2>1, <2>2, <2>3, <2>6, GoesOnAnswered DEF CallerAt
<1>8. CASE Opens(t)
  <2>1. /\ at[t] = "opening" /\ at' = [at EXCEPT ![t] = "awaiting"]
        /\ mine' = [mine EXCEPT ![t] = generation + 1]
        /\ owner' = [owner EXCEPT ![generation + 1] = "starting"]
        /\ UNCHANGED <<running, connection, handed>>
    BY <1>8 DEF Opens, Goes
  <2>2. \A s \in Callers : s # t => at'[s] = at[s] /\ at[s] \notin InMonitor
    BY <1>1, <2>1, OnlyOne DEF TypeOK, InMonitor, SawItDead
  <2>3. at'[t] = "awaiting"
    BY <1>1, <2>1 DEF TypeOK
  <2>4. \A s \in Callers : at'[s] \notin Shaken \cup Joining
    BY <2>2, <2>3 DEF InMonitor, SawItDead, HasOne
  <2>5. \A c \in handed : owner'[c] = owner[c]
    <3>1. \A c \in handed : c # generation + 1 /\ c \in Ids
      BY <1>1 DEF TypeOK
    <3> QED BY <1>1, <2>1, <3>1 DEF TypeOK
  <2> QED BY <2>1, <2>4, <2>5 DEF Answered
<1>9. CASE Hands(t) \/ Throws(t)
  <2>1. /\ at[t] \in HasOne /\ UNCHANGED <<owner, running>>
        /\ handed' \subseteq handed \cup {mine[t]}
        /\ handed' # handed => at[t] \in Shaken
    BY <1>9 DEF Hands, Hand, Throws, HasOne, others, ownerVars
  <2>2. PICK where \in {"idle", "closing"} : at' = [at EXCEPT ![t] = where]
    BY <1>9 DEF Hands, Hand, Throws, Goes
  <2>3. \A s \in Callers : at'[s] \notin Shaken \cup Joining
    BY <1>1, <2>1, <2>2, OnlyOne DEF TypeOK, InMonitor, SawItDead, HasOne
  <2>4. \A c \in handed' : owner[c] \in Started
    BY <2>1 DEF Answered
  <2> QED BY <2>1, <2>3, <2>4 DEF Answered
<1> QED BY <1>3, <1>4, <1>5, <1>6, <1>7, <1>8, <1>9 DEF Inside

LEMMA StepAnswered == IInv /\ Answered /\ [Next]_vars => Answered'
<1> SUFFICES ASSUME IInv, Answered, [Next]_vars PROVE Answered'
  OBVIOUS
<1>1. CASE TearsDown
  <2>1. Control \in Callers /\ "closing" \in CallerAt
    BY DEF CallerAt
  <2> QED BY <1>1, <2>1, GoesOnAnswered DEF TearsDown, others, ownerVars, fields
<1>2. CASE UNCHANGED vars
  BY <1>2 DEF vars, ownerVars, fields, Answered
<1> QED BY <1>1, <1>2, OwnersAnswer, CallersAnswer DEF Next

LEMMA InitAnswered == Init => Answered
<1> SUFFICES ASSUME Init PROVE Answered
  OBVIOUS
<1>1. handed = {} /\ \A t \in Callers : at[t] \in {"idle", "asking"}
  BY DEF Init
<1> QED BY <1>1 DEF Answered

\* What was handed out has come to its loop; whoever joins a thread told it to stop.
THEOREM AnsweredInvariance == Spec => []Answered
BY InitAnswered, StepAnswered, Invariance, PTL DEF Spec

\* close: a thread that is joined has been told to stop and has a loop to leave;
\* a handshake or a chain is waited for only on a connection that has started.
THEOREM WaitsAlwaysAnswered == Spec => []WaitsAreAnswered
<1>1. IInv /\ Answered => WaitsAreAnswered
  <2> SUFFICES ASSUME IInv, Answered, NEW t \in Callers
               PROVE  /\ at[t] \in Joining => WillEnd(connection)
                      /\ at[t] = "refusing" => WillEnd(mine[t])
                      /\ at[t] \in {"shaking", "checking"} => owner[mine[t]] \in Started
    BY DEF WaitsAreAnswered
  <2>1. connection # 0 => connection \in handed
    BY DEF IInv, TypeOK
  <2>2. at[t] = "refusing" => mine[t] # 0
    BY GenerationsAssumption DEF IInv, TypeOK, Own, HasOne
  <2> QED BY <2>1, <2>2 DEF Answered, WillEnd
<1> QED BY <1>1, Invariance, AnsweredInvariance, PTL

-----------------------------------------------------------------------------
(* The refinement. *)

LEMMA InitPromise == Init => Promise!Init
BY DEF Init, Promise!Init, Alive

LEMMA StepPromise == IInv /\ [Next]_vars => [Promise!Next]_(Promise!vars)
<1> SUFFICES ASSUME IInv, [Next]_vars PROVE [Promise!Next]_(Promise!vars)
  OBVIOUS
<1>1. /\ TypeOK /\ handed \subseteq Ids /\ connection \in Ids \cup {0}
      /\ Alive(connection) \in BOOLEAN
  BY GenerationsAssumption DEF IInv, TypeOK, Alive
\* Most steps: nothing given, and nothing but a death seen.
<1>2. ASSUME UNCHANGED handed, Alive(connection)' => Alive(connection)
      PROVE  [Promise!Next]_(Promise!vars)
  BY <1>1, <1>2 DEF Promise!Next, Promise!Dies, Promise!vars, Alive
<1>3. ASSUME NEW c \in Ids, Runs(c) \/ Shakes(c) \/ Fails(c)
      PROVE  [Promise!Next]_(Promise!vars)
  <2>1. UNCHANGED callers /\ \A d \in Ids : Later(d)
    BY <1>1, <1>3, OwnerMoves
  <2> QED BY <1>1, <1>2, <2>1 DEF callers, fields, Later, Alive
<1>4. ASSUME NEW t \in Callers, Hands(t)
      PROVE  [Promise!Next]_(Promise!vars)
  <2>1. mine[t] \in Ids /\ mine[t] \notin handed /\ ~Alive(connection)
    BY <1>1, <1>4, GenerationsAssumption DEF Hands, IInv, Own, Dead, SawItDead, HasOne, TypeOK
  <2>2. handed' = handed \cup {mine[t]} /\ Alive(connection)' \in BOOLEAN
    BY <1>1, <1>4, <2>1 DEF Hands, Hand, Alive, others, ownerVars, TypeOK
  <2> QED BY <2>1, <2>2 DEF Promise!Next, Promise!Replace
<1>5. ASSUME NEW t \in Callers,
             Asks(t) \/ ReturnsIt(t) \/ FindsItDead(t) \/ EntersClose(t) \/ Inside(t), ~Hands(t)
      PROVE  [Promise!Next]_(Promise!vars)
  <2>1. /\ UNCHANGED <<handed, fatal>>
        /\ connection' \in {connection, 0}
        /\ UNCHANGED running \/ \E d : running' = [running EXCEPT ![d] = FALSE]
    BY <1>5 DEF Inside, Asks, ReturnsIt, FindsItDead, EntersClose, ClosesOld, JoinsOld, Opens, Awaits,
                SeesHandshake, GivesUp, Reports, Checks, CheckFails, JoinsRefused, Throws, Drops, JoinsLast,
                Stop, Closed, others, ownerVars, fields
  <2>2. \A d \in Ids : running'[d] => running[d]
    BY <1>1, <2>1 DEF TypeOK
  <2> QED BY <1>1, <1>2, <2>1, <2>2 DEF Alive
<1>6. CASE TearsDown \/ UNCHANGED vars
  BY <1>2, <1>6 DEF TearsDown, vars, others, ownerVars, fields, Alive
<1> QED BY <1>3, <1>4, <1>5, <1>6 DEF Next

-----------------------------------------------------------------------------
(* The life of each connection. *)

\* What the mapping makes of a state.
Stands == [c \in Ids |-> LifeAt(owner[c])]

LEMMA LifeUnseen ==
  ASSUME UNCHANGED ownerVars
  PROVE  UNCHANGED Life!vars
BY DEF ownerVars, Life!vars

LEMMA LifeMoves ==
  ASSUME TypeOK, NEW c \in Ids, NEW to \in OwnerAt, owner' = [owner EXCEPT ![c] = to]
  PROVE  Stands' = [Stands EXCEPT ![c] = LifeAt(to)] /\ Stands[c] = LifeAt(owner[c])
BY DEF TypeOK, Stands

LEMMA OwnerLives ==
  ASSUME TypeOK, NEW c \in Ids, Runs(c) \/ Shakes(c) \/ Fails(c)
  PROVE  [Life!Next]_(Life!vars)
<1>1. CASE Binds(c)
  <2>1. Stands[c] = "starting"
    BY <1>1 DEF Binds, Stands, LifeAt
  <2>2. Life!Bind(c)
    BY <1>1, <2>1 DEF Binds, Life!Bind, Stands
  <2> QED BY <2>2 DEF Life!Next
<1>2. CASE Starts(c)
  <2>1. Stands' = [Stands EXCEPT ![c] = "looping"] /\ Stands[c] = "starting"
    BY <1>2, LifeMoves DEF Starts, OwnerAt, LifeAt
  <2>2. Life!Start(c)
    BY <1>2, <2>1 DEF Starts, Life!Start, Life!Goes, Stands
  <2> QED BY <2>2 DEF Life!Next
<1>3. CASE StartFails(c)
  <2>1. Stands' = [Stands EXCEPT ![c] = "failed"] /\ Stands[c] = "starting"
    BY <1>3, LifeMoves DEF StartFails, OwnerAt, LifeAt
  <2>2. Life!StartFails(c)
    BY <1>3, <2>1 DEF StartFails, Life!StartFails, Life!Goes, Stands
  <2> QED BY <2>2 DEF Life!Next
<1>4. CASE Shakes(c)
  BY <1>4 DEF Shakes, Life!vars
<1>5. CASE Fails(c)
  <2>1. Stands' = [Stands EXCEPT ![c] = "left"] /\ Stands[c] = "looping"
    BY <1>5, LifeMoves DEF Fails, OwnerAt, LifeAt
  <2>2. Life!Fail(c)
    BY <1>5, <2>1 DEF Fails, Life!Fail, Life!Goes, Stands
  <2> QED BY <2>2 DEF Life!Next
<1>6. CASE Leaves(c)
  <2>1. Stands' = [Stands EXCEPT ![c] = "left"] /\ Stands[c] = "looping"
    BY <1>6, LifeMoves DEF Leaves, OwnerAt, LifeAt
  <2>2. Life!Leave(c)
    BY <1>6, <2>1 DEF Leaves, Life!Leave, Life!Goes, Stands
  <2> QED BY <2>2 DEF Life!Next
<1>7. CASE Stops(c)
  <2>1. Stands' = [Stands EXCEPT ![c] = "stopped"] /\ Stands[c] = "left"
    BY <1>7, LifeMoves DEF Stops, OwnerAt, LifeAt
  <2>2. Life!Stop(c)
    BY <1>7, <2>1 DEF Stops, Life!Stop, Life!Goes, Stands
  <2> QED BY <2>2 DEF Life!Next
<1>8. CASE Ends(c)
  <2>1. Stands' = [Stands EXCEPT ![c] = "done"] /\ Stands[c] = "stopped"
    BY <1>8, LifeMoves DEF Ends, OwnerAt, LifeAt
  <2>2. Life!End(c)
    BY <1>8, <2>1 DEF Ends, Life!End, Life!Goes, Stands
  <2> QED BY <2>2 DEF Life!Next
<1> QED BY <1>1, <1>2, <1>3, <1>4, <1>5, <1>6, <1>7, <1>8 DEF Runs

\* Only one that has come to its loop and not left it for good is told to stop.
LEMMA StopTells ==
  ASSUME IInv, NEW t \in Callers, NEW c, NEW waits, NEW goesOn, Stop(t, c, waits, goesOn),
         c # 0 => c \in Ids /\ owner[c] \in Started,
         UNCHANGED <<owner, socket, fatal>>
  PROVE  [Life!Next]_(Life!vars)
<1>1. CASE c # 0 /\ running[c]
  <2>1. owner[c] \in {"looping", "failing", "stopping"}
    BY <1>1 DEF IInv, Stopped, Over, Started
  <2>2. Stands[c] \in {"looping", "left"}
    BY <1>1, <2>1 DEF Stands, LifeAt
  <2>3. Life!Tell(c)
    BY <1>1, <2>2 DEF Stop, Life!Tell, Stands
  <2> QED BY <1>1, <2>3 DEF Life!Next
<1>2. CASE ~(c # 0 /\ running[c])
  BY <1>2 DEF Stop, Life!vars
<1> QED BY <1>1, <1>2

LEMMA JoinReleases ==
  ASSUME NEW c, c # 0 => c \in Ids, Joined(c), UNCHANGED <<owner, running, fatal>>
  PROVE  [Life!Next]_(Life!vars)
<1>1. Stands[c] = "done" /\ c \in Ids
  BY DEF Joined, Stands, LifeAt
<1>2. Life!Release(c)
  BY <1>1 DEF Joined, Life!Release, Stands
<1> QED BY <1>1, <1>2 DEF Life!Next

LEMMA CallerLives ==
  ASSUME IInv, Answered, NEW t \in Callers,
         Asks(t) \/ ReturnsIt(t) \/ FindsItDead(t) \/ EntersClose(t) \/ Inside(t)
  PROVE  [Life!Next]_(Life!vars)
<1>1. /\ TypeOK /\ generation \in Nat /\ MaxGenerations \in Nat
      /\ connection # 0 => connection \in Ids /\ owner[connection] \in Started
  BY GenerationsAssumption DEF IInv, TypeOK, Answered
<1>2. at[t] \in HasOne => mine[t] \in Ids
  BY <1>1 DEF IInv, TypeOK, Own
<1>3. CASE \/ Asks(t) \/ ReturnsIt(t) \/ FindsItDead(t) \/ EntersClose(t)
           \/ Awaits(t) \/ SeesHandshake(t) \/ GivesUp(t) \/ Reports(t) \/ CheckFails(t)
           \/ Hands(t) \/ Throws(t)
  BY <1>3, LifeUnseen DEF Asks, ReturnsIt, FindsItDead, EntersClose, Awaits, SeesHandshake, GivesUp, Reports,
                          CheckFails, Hands, Hand, Throws, others
<1>4. CASE ClosesOld(t) \/ Drops(t)
  BY <1>1, <1>4, StopTells DEF ClosesOld, Drops
<1>5. CASE Checks(t)
  <2>1. CASE genuine[mine[t]]
    BY <1>5, <2>1 DEF Checks, Life!vars
  <2>2. CASE ~genuine[mine[t]]
    <3>1. mine[t] \in Ids /\ owner[mine[t]] \in Started
      BY <1>2, <1>5 DEF Checks, HasOne, Started
    <3> QED BY <1>5, <2>2, <3>1, StopTells DEF Checks
  <2> QED BY <2>1, <2>2
<1>6. CASE JoinsOld(t) \/ JoinsLast(t)
  BY <1>1, <1>6, JoinReleases DEF JoinsOld, JoinsLast
<1>7. CASE JoinsRefused(t)
  <2>1. mine[t] \in Ids
    BY <1>2, <1>7 DEF JoinsRefused, HasOne
  <2> QED BY <1>7, <2>1, JoinReleases DEF JoinsRefused
<1>8. CASE Opens(t)
  <2>1. /\ generation + 1 \in Ids /\ owner[generation + 1] = "none"
        /\ owner' = [owner EXCEPT ![generation + 1] = "starting"]
    BY <1>1, <1>8 DEF Opens, TypeOK
  <2>2. Stands' = [Stands EXCEPT ![generation + 1] = "starting"] /\ Stands[generation + 1] = "none"
    BY <1>1, <2>1, LifeMoves DEF OwnerAt, LifeAt
  <2>3. Life!Open(generation + 1)
    BY <1>8, <2>2 DEF Opens, Life!Open, Life!Goes, Stands
  <2> QED BY <2>1, <2>3 DEF Life!Next
<1> QED BY <1>3, <1>4, <1>5, <1>6, <1>7, <1>8 DEF Inside

LEMMA StepLives == IInv /\ Answered /\ [Next]_vars => [Life!Next]_(Life!vars)
<1>1. TearsDown \/ UNCHANGED vars => UNCHANGED Life!vars
  BY LifeUnseen DEF TearsDown, others, vars
<1> QED BY <1>1, OwnerLives, CallerLives DEF Next, IInv

LEMMA InitLives == Init => Life!Init
BY DEF Init, Life!Init, LifeAt

\* QuicConnection.close, whoever calls it: a connection is told to stop at most
\* once and while it loops, and its socket is closed when its thread is over.
THEOREM ConnectionsLive == Spec => Life!Spec
BY InitLives, StepLives, Invariance, AnsweredInvariance, PTL DEF Spec, Life!Spec

\* ReconnectingQuic: "A QUIC connection that comes back after the path under it
\* goes away", one at a time: what callers are given is what QuicPromise says,
\* and each connection lives as QuicConnection's does.
THEOREM QuicKeepsPromise == Spec => ImplementsPromise
<1>1. Spec => Promise!Spec
  BY InitPromise, StepPromise, Invariance, PTL DEF Spec, Promise!Spec
<1> QED BY <1>1, ConnectionsLive DEF ImplementsPromise
=============================================================================
