-------------------------- MODULE TTLSettingsProofs --------------------------
(***************************************************************************)
(* Requests for a channel's TTL implement one register per channel, for    *)
(* any number of requests, users and channels and any word size, and the   *)
(* compare-and-set loop gives up only under contention.                    *)
(***************************************************************************)
EXTENDS TTLSettings, FiniteSetTheorems, TLAPS

USE SettingsAssumption

\* A request that has passed the handler's checks has a valid value, and only
\* a get reads without writing.
Checked == \A r \in Requests : pc[r] \notin {"idle", "done"} =>
    Accepted(call[r]) /\ (pc[r] = "read" <=> call[r].op = "get")

Writes(r) == Len(commits[call[r].channel]) - began[r]
Conflict(r) == kv[call[r].channel] # current[r]

\* Each conflict of a request has a write of another one behind it, that came
\* after the request began: the ones it has counted, and the one that it is
\* going to run into because the value it has read is no longer there.
Contention(r) ==
    /\ pc[r] \in {"idle", "manage"} => tries[r] = 0
    /\ pc[r] = "manage" => Writes(r) >= 0
    /\ pc[r] \in {"get", "set"} => tries[r] < maxRetries /\ tries[r] <= Writes(r)
    /\ pc[r] = "set" /\ Conflict(r) => tries[r] + 1 <= Writes(r)
    /\ status[r] = "conflict" => pc[r] = "done" /\ maxRetries <= Writes(r)
    /\ pc[r] # "done" => status[r] = "none"
Contended == \A r \in Requests : Contention(r)

IInv == TypeOK /\ Checked /\ Contended

-----------------------------------------------------------------------------
(* Durations *)

\* Cutting a duration off to seconds keeps the order.
LEMMA DivMonotonic ==
    ASSUME NEW a \in Nat, NEW b \in Nat, a <= b, NEW s \in Nat \ {0}
    PROVE  /\ a \div s \in Nat /\ b \div s \in Nat
           /\ a \div s <= b \div s
           /\ a \div s <= a
OBVIOUS

\* The duration of a valid call is a number between the bounds.
LEMMA AcceptedDuration ==
    ASSUME NEW k \in Calls, Accepted(k), k.op = "set"
    PROVE  Duration(k) \in Nat /\ MinTTL <= Duration(k) /\ Duration(k) <= MaxTTL
BY DEF Accepted, ValidateTTL, Duration, ToInt64, CallType, Int64

\* A valid call stores a valid setting.
LEMMA StoredValid ==
    ASSUME NEW k \in Calls, Accepted(k)
    PROVE  Stored(k) \in Values
<1>1. k.user \in Users /\ k.at \in Nat
  BY DEF CallType
<1>2. CASE k.op # "set"
  BY <1>2 DEF Stored, Values
<1>3. CASE k.op = "set"
  <2> DEFINE d == Duration(k)
  <2>1. d \in Nat /\ MinTTL <= d /\ d <= MaxTTL
    BY <1>3, AcceptedDuration
  <2> HIDE DEF d
  <2>2. /\ MinTTL \div Second \in Nat /\ d \div Second \in Nat /\ MaxTTL \div Second \in Nat
        /\ MinTTL \div Second <= d \div Second /\ d \div Second <= MaxTTL \div Second
    BY <2>1, DivMonotonic
  <2>3. Seconds(d) \in Seconds(MinTTL) .. Seconds(MaxTTL)
    BY <2>2 DEF Seconds
  <2>4. Stored(k) = Setting(Seconds(d), k)
    BY <1>3 DEF Stored, d
  <2> QED
    BY <1>1, <2>3, <2>4 DEF Setting, Values, Settings
<1> QED
  BY <1>1, <1>2, <1>3

\* What is announced fits into the JSON of the event.
LEMMA AnnouncedTyped ==
    ASSUME NEW k \in Calls, Accepted(k), k.op # "get"
    PROVE  Announced(k) \in Announcements \cup {NoTTL}
<1>1. /\ k.user \in Users /\ k.op \in {"set", "clear"} /\ k.via \in {"http", "slash"}
      /\ k.amount \in Int64 /\ k.at \in Nat
  BY DEF CallType, Ops
<1>2. CASE k.op = "clear"
  BY <1>2 DEF Announced
<1>3. CASE k.op = "set" /\ k.via = "http"
  BY <1>1, <1>3 DEF Announced, handleSetAnnounced, Setting, Announcements
<1>4. CASE k.op = "set" /\ k.via = "slash"
  <2>1. k.amount \in Nat
    BY <1>4, AcceptedDuration DEF Duration
  <2>2. k.amount \div Second \in Nat /\ k.amount \div Second <= k.amount
    BY <2>1, DivMonotonic
  <2>3. Seconds(k.amount) \in Int64
    BY <1>1, <2>1, <2>2 DEF Seconds, Int64
  <2> QED
    BY <1>1, <1>4, <2>3 DEF Announced, cmdSetAnnounced, Setting, Announcements
<1> QED
  BY <1>1, <1>2, <1>3, <1>4

-----------------------------------------------------------------------------
(* The inductive invariant *)

\* The invariant holds before the first request.
LEMMA InitIInv == Init => IInv
<1> SUFFICES ASSUME Init PROVE IInv
  OBVIOUS
<1>1. TypeOK
  BY DEF Init, TypeOK, Values, Stages, Statuses
<1>2. Checked /\ Contended
  BY DEF Init, Checked, Contended, Contention
<1> QED
  BY <1>1, <1>2 DEF IInv

Written(r) == Commit(r) \/ CommitUntold(r)

\* A write of a checked request keeps the types and makes the history longer.
LEMMA CommitFacts ==
    ASSUME TypeOK, NEW r \in Requests, Accepted(call[r]), Written(r)
    PROVE  /\ doubtful' \in [Channels -> BOOLEAN]
           /\ kv' \in [Channels -> Values]
           /\ commits' \in [Channels -> Seq(Values)]
           /\ Len(commits'[call[r].channel]) = Len(commits[call[r].channel]) + 1
           /\ \A c \in Channels \ {call[r].channel} :
                 kv'[c] = kv[c] /\ commits'[c] = commits[c]
<1>1. call[r] \in Calls /\ call[r].channel \in Channels
  BY DEF TypeOK, CallType
<1>2. Stored(call[r]) \in Values
  BY <1>1, StoredValid
<1>3. commits[call[r].channel] \in Seq(Values)
  BY <1>1 DEF TypeOK
<1>4. doubtful' \in [Channels -> BOOLEAN]
  <2>1. doubtful \in [Channels -> BOOLEAN]
    BY DEF TypeOK
  <2>2. \/ doubtful' = [doubtful EXCEPT ![call[r].channel] =
                           Publishers(call[r].channel) # {}]
        \/ doubtful' = [doubtful EXCEPT ![call[r].channel] = TRUE]
    BY DEF Written, Commit, CommitUntold
  <2> QED
    BY <2>1, <2>2
<1>5. Store(r)
  BY DEF Written, Commit, CommitUntold
<1> QED
  BY <1>1, <1>2, <1>3, <1>4, <1>5 DEF TypeOK, Store

\* No step leaves the types.
LEMMA TypeStep == IInv /\ [Next]_vars => TypeOK'
<1> SUFFICES ASSUME IInv, [Next]_vars PROVE TypeOK'
  OBVIOUS
<1> USE DEF IInv, Stages, Statuses, Refusals
<1>1. ASSUME NEW r \in Requests, Receive(r) PROVE TypeOK'
  <2>1. call[r].channel \in Channels
    BY DEF TypeOK, CallType
  <2>2. Len(commits[call[r].channel]) \in Nat
    BY <2>1 DEF TypeOK
  <2> QED
    BY <1>1, <2>2 DEF TypeOK, Receive, FirstStage, Go, Answer
<1>2. ASSUME NEW r \in Requests, CheckManage(r) PROVE TypeOK'
  BY <1>2 DEF TypeOK, CheckManage, Go, Answer
<1>3. ASSUME NEW r \in Requests, KVRead(r) \/ KVGet(r) PROVE TypeOK'
  <2>1. kv[call[r].channel] \in Values
    BY DEF TypeOK, CallType
  <2> QED
    BY <1>3, <2>1 DEF TypeOK, KVRead, KVGet, Go, Answer
<1>4. ASSUME NEW r \in Requests, KVSet(r) PROVE TypeOK'
  <2>1. Accepted(call[r]) /\ tries[r] < maxRetries
    BY <1>4 DEF Checked, Contended, Contention, KVSet
  <2>2. /\ kv' \in [Channels -> Values] /\ commits' \in [Channels -> Seq(Values)]
        /\ doubtful' \in [Channels -> BOOLEAN]
    <3>1. Written(r) \/ NoCommit
      BY <1>4 DEF KVSet, Written
    <3> QED
      BY <2>1, <3>1, CommitFacts DEF NoCommit, TypeOK
  <2>3. tries' \in [Requests -> 0 .. maxRetries]
    BY <1>4, <2>1 DEF KVSet, TypeOK
  <2>4. pc' \in [Requests -> Stages] /\ status' \in [Requests -> Statuses]
    BY <1>4 DEF KVSet, TypeOK, Go, Answer
  <2> QED
    BY <1>4, <2>2, <2>3, <2>4 DEF KVSet, TypeOK
<1>5. ASSUME NEW r \in Requests, KVDelete(r) PROVE TypeOK'
  <2>1. Accepted(call[r])
    BY <1>5 DEF Checked, KVDelete
  <2>2. /\ kv' \in [Channels -> Values] /\ commits' \in [Channels -> Seq(Values)]
        /\ doubtful' \in [Channels -> BOOLEAN]
    <3>1. Written(r) \/ NoCommit
      BY <1>5 DEF KVDelete, Written
    <3> QED
      BY <2>1, <3>1, CommitFacts DEF NoCommit, TypeOK
  <2> QED
    BY <1>5, <2>2 DEF KVDelete, TypeOK, Go, Answer
<1>6. ASSUME NEW r \in Requests, Publish(r) PROVE TypeOK'
  <2>1. Accepted(call[r]) /\ call[r] \in Calls /\ call[r].op # "get"
    BY <1>6 DEF Checked, Publish, TypeOK
  <2>2. Announced(call[r]) \in Announcements \cup {NoTTL}
    BY <2>1, AnnouncedTyped
  <2>3. call[r].channel \in Channels
    BY <2>1 DEF CallType
  <2>4. events' \in [Channels -> Seq(Announcements \cup {NoTTL})]
    BY <1>6, <2>2, <2>3 DEF Publish, TypeOK
  <2> QED
    BY <1>6, <2>4 DEF Publish, TypeOK, Answer
<1>7. ASSUME NEW r \in Requests, Stop(r) PROVE TypeOK'
  BY <1>7 DEF TypeOK, Stop, Answer
<1>8. CASE UNCHANGED vars
  BY <1>8 DEF TypeOK, vars
<1> QED
  BY <1>1, <1>2, <1>3, <1>4, <1>5, <1>6, <1>7, <1>8 DEF Next

\* Past the checks there are only valid values.
LEMMA CheckedStep == IInv /\ [Next]_vars => Checked'
<1> SUFFICES ASSUME IInv, [Next]_vars PROVE Checked'
  OBVIOUS
<1>1. ASSUME NEW r \in Requests, Receive(r) PROVE Checked'
  BY <1>1 DEF IInv, TypeOK, Checked, Receive, FirstStage, Go, Answer
<1>2. ASSUME NEW r \in Requests, call' = call, pc[r] \notin {"idle", "done"},
             \/ pc' = [pc EXCEPT ![r] = "done"]
             \/ /\ pc[r] # "read"
                /\ \E where \in Stages \ {"read"} : pc' = [pc EXCEPT ![r] = where]
      PROVE  Checked'
  BY <1>2 DEF IInv, TypeOK, Checked
<1>3. CASE UNCHANGED vars
  BY <1>3 DEF IInv, Checked, vars
<1> QED
  BY <1>1, <1>2, <1>3 DEF Next, KVRead, CheckManage, KVGet, KVSet, KVDelete, Publish,
                          Stop, Go, Answer, Stages

\* What a request keeps while another one is at work: its own state, and the
\* setting of its channel unless a write is counted.
Kept(q) ==
    /\ pc'[q] = pc[q] /\ status'[q] = status[q] /\ tries'[q] = tries[q]
    /\ current'[q] = current[q] /\ began'[q] = began[q]
    /\ call' = call
    /\ LET c == call[q].channel IN
       \/ kv'[c] = kv[c] /\ Len(commits'[c]) = Len(commits[c])
       \/ Len(commits'[c]) = Len(commits[c]) + 1

\* Steps of others, and tries that keep pace with writes, leave the account paid.
LEMMA KeptContention ==
    ASSUME TypeOK, NEW q \in Requests, Contention(q), Kept(q)
    PROVE  Contention(q)'
<1>1. /\ Len(commits[call[q].channel]) \in Nat /\ began[q] \in Nat /\ tries[q] \in Nat
      /\ maxRetries \in Nat
  BY DEF TypeOK, CallType
<1>2. \/ Writes(q)' = Writes(q) /\ Conflict(q)' = Conflict(q)
      \/ Writes(q)' = Writes(q) + 1
  BY <1>1 DEF Kept, Writes, Conflict
<1>3. Writes(q) \in Int
  BY <1>1 DEF Writes
<1>4. /\ pc'[q] = pc[q] /\ status'[q] = status[q] /\ tries'[q] = tries[q]
  BY DEF Kept
<1> QED
  BY <1>1, <1>2, <1>3, <1>4 DEF Contention

\* Every conflict is paid for by a write.
LEMMA ContendedStep == IInv /\ [Next]_vars => Contended'
<1> SUFFICES ASSUME IInv, [Next]_vars PROVE Contended'
  OBVIOUS
<1> USE DEF IInv
<1>0. \A q \in Requests : /\ call[q].channel \in Channels
                          /\ Len(commits[call[q].channel]) \in Nat
                          /\ began[q] \in Nat /\ tries[q] \in Nat /\ Contention(q)
  BY DEF TypeOK, CallType, Contended
<1>1. ASSUME NEW r \in Requests, Receive(r) PROVE Contended'
  <2>1. \A q \in Requests \ {r} : Kept(q)
    BY <1>1 DEF TypeOK, Receive, Go, Answer, Kept
  <2>2. Contention(r)'
    BY <1>0, <1>1 DEF TypeOK, Receive, FirstStage, Go, Answer, Contention, Writes,
                      Conflict
  <2> QED
    BY <1>0, <2>1, <2>2, KeptContention DEF Contended
<1>2. ASSUME NEW r \in Requests, CheckManage(r) PROVE Contended'
  <2>1. \A q \in Requests \ {r} : Kept(q)
    BY <1>2 DEF TypeOK, CheckManage, Go, Answer, Kept
  <2>2. Contention(r)'
    BY <1>0, <1>2 DEF TypeOK, CheckManage, Go, Answer, Contention, Writes, Conflict
  <2> QED
    BY <1>0, <2>1, <2>2, KeptContention DEF Contended
<1>3. ASSUME NEW r \in Requests, KVRead(r) \/ KVGet(r) PROVE Contended'
  <2>1. \A q \in Requests \ {r} : Kept(q)
    BY <1>3 DEF TypeOK, KVRead, KVGet, Go, Answer, Kept
  <2>2. Contention(r)'
    BY <1>0, <1>3 DEF TypeOK, KVRead, KVGet, Go, Answer, Contention, Writes, Conflict
  <2> QED
    BY <1>0, <2>1, <2>2, KeptContention DEF Contended
<1>4. ASSUME NEW r \in Requests, KVSet(r) PROVE Contended'
  <2>1. Accepted(call[r])
    BY <1>4 DEF Checked, KVSet
  <2>2. \A q \in Requests \ {r} : Kept(q)
    <3>1. CASE NoCommit
      BY <1>4, <3>1 DEF TypeOK, KVSet, NoCommit, Go, Answer, Kept
    <3>2. CASE Written(r)
      <4>1. \A q \in Requests \ {r} :
               /\ pc'[q] = pc[q] /\ status'[q] = status[q] /\ tries'[q] = tries[q]
               /\ current'[q] = current[q] /\ began'[q] = began[q] /\ call' = call
        BY <1>4 DEF TypeOK, KVSet, Go, Answer
      <4>2. \A q \in Requests : call[q].channel \in Channels
        BY <1>0
      <4>3. \A c \in Channels :
               \/ kv'[c] = kv[c] /\ Len(commits'[c]) = Len(commits[c])
               \/ Len(commits'[c]) = Len(commits[c]) + 1
        BY <2>1, <3>2, CommitFacts
      <4> QED
        BY <4>1, <4>2, <4>3 DEF Kept
    <3> QED
      BY <1>4, <3>1, <3>2 DEF KVSet, Written
  <2>3. Contention(r)'
    <3>1. CASE /\ Conflict(r) /\ NoCommit
               /\ tries' = [tries EXCEPT ![r] = @ + 1]
               /\ IF tries'[r] < maxRetries THEN Go(r, "get") ELSE Answer(r, "conflict")
      <4>1. Writes(r)' = Writes(r) /\ Writes(r) \in Int
        BY <1>0, <1>4, <3>1 DEF KVSet, NoCommit, Writes
      <4>2. tries'[r] = tries[r] + 1 /\ tries'[r] <= Writes(r)
        BY <1>0, <1>4, <3>1 DEF TypeOK, KVSet, Contention
      <4>3. status[r] = "none" /\ tries[r] < maxRetries
        BY <1>0, <1>4 DEF KVSet, Contention
      <4>4. CASE tries'[r] < maxRetries
        BY <1>0, <3>1, <4>1, <4>2, <4>3, <4>4 DEF TypeOK, Go, Contention
      <4>5. CASE ~(tries'[r] < maxRetries)
        BY <1>0, <3>1, <4>1, <4>2, <4>3, <4>5 DEF TypeOK, Answer, Contention
      <4> QED
        BY <4>4, <4>5
    <3>2. CASE pc'[r] = "publish" /\ status'[r] = status[r]
      BY <1>0, <1>4, <3>2 DEF KVSet, Contention
    <3>3. CASE pc'[r] = "done" /\ status'[r] = "error"
      BY <1>0, <1>4, <3>3 DEF Contention
    <3> QED
      BY <1>4, <3>1, <3>2, <3>3 DEF TypeOK, KVSet, Go, Answer, Conflict
  <2> QED
    BY <1>0, <2>2, <2>3, KeptContention DEF Contended
<1>5. ASSUME NEW r \in Requests, KVDelete(r) PROVE Contended'
  <2>1. Accepted(call[r])
    BY <1>5 DEF Checked, KVDelete
  <2>2. \A q \in Requests \ {r} : Kept(q)
    <3>1. CASE NoCommit
      BY <1>5, <3>1 DEF TypeOK, KVDelete, NoCommit, Go, Answer, Kept
    <3>2. CASE Written(r)
      BY <1>0, <1>5, <2>1, <3>2, CommitFacts DEF TypeOK, KVDelete, Go, Answer, Kept
    <3> QED
      BY <1>5, <3>1, <3>2 DEF KVDelete, Written
  <2>3. Contention(r)'
    BY <1>0, <1>5 DEF TypeOK, KVDelete, Go, Answer, Contention
  <2> QED
    BY <1>0, <2>2, <2>3, KeptContention DEF Contended
<1>6. ASSUME NEW r \in Requests, Publish(r) \/ Stop(r) PROVE Contended'
  <2>1. \A q \in Requests \ {r} : Kept(q)
    BY <1>6 DEF TypeOK, Publish, Stop, Answer, Kept
  <2>2. Contention(r)'
    BY <1>0, <1>6 DEF TypeOK, Publish, Stop, Answer, Contention
  <2> QED
    BY <1>0, <2>1, <2>2, KeptContention DEF Contended
<1>7. CASE UNCHANGED vars
  BY <1>0, <1>7, KeptContention DEF Contended, Kept, vars
<1> QED
  BY <1>1, <1>2, <1>3, <1>4, <1>5, <1>6, <1>7 DEF Next

-----------------------------------------------------------------------------
\* The inductive invariant behind the theorems below.
THEOREM IInvCorrect == Spec => []IInv
<1>1. IInv /\ [Next]_vars => IInv'
  BY TypeStep, CheckedStep, ContendedStep DEF IInv
<1> QED
  BY <1>1, InitIInv, PTL DEF Spec

\* Every variable keeps its type: no setting outside of the bounds of
\* ValidateTTL is ever stored, although the product may wrap around.
THEOREM TypeCorrect == Spec => []TypeOK
<1>1. IInv => TypeOK
  BY DEF IInv
<1> QED
  BY <1>1, IInvCorrect, PTL

\* The retry loop of Set gives up only after maxRetries writes of others.
THEOREM ContentionNeeded == Spec => []GivesUpOnlyUnderContention
<1>1. IInv => GivesUpOnlyUnderContention
  <2> SUFFICES ASSUME IInv, NEW r \in Requests, status[r] = "conflict"
               PROVE  Writes(r) >= maxRetries
    BY DEF GivesUpOnlyUnderContention, Writes
  <2>1. Contention(r) /\ began[r] \in Nat /\ Len(commits[call[r].channel]) \in Nat
    BY DEF IInv, Contended, TypeOK, CallType
  <2> QED
    BY <2>1 DEF Contention, Writes
<1> QED
  BY <1>1, IInvCorrect, PTL

-----------------------------------------------------------------------------
(* Events *)

\* What the next event of the channel will make true, unless in doubt: nobody
\* has one to send and the last one is right, or whoever has is the last writer.
Telling(c) ==
    \/ Publishers(c) = {} /\ LastEvent(events[c]) = kv[c]
    \/ \E r \in Requests : Publishers(c) = {r} /\ Stored(call[r]) = kv[c]
Told == \A c \in Channels : ~doubtful[c] => Telling(c)

\* Amounts whose product in handleSet does not wrap around.
Fitting == \A k \in Calls :
    k.via = "http" /\ k.op = "set" => k.amount * Second < Word \div 2

\* Multiplying and dividing by a second cancel out.
LEMMA DivideProduct ==
    ASSUME NEW m \in Nat, NEW n \in Nat \ {0}
    PROVE  m * n \in Nat /\ (m * n) \div n = m
OBVIOUS

\* An int64 that fits is not changed by wrapping.
LEMMA ToInt64Identity ==
    ASSUME NEW n \in Nat, n < Word \div 2
    PROVE  ToInt64(n) = n
BY SettingsAssumption DEF ToInt64

\* A handler then announces what it stores.
LEMMA AnnouncedIsStored ==
    ASSUME Fitting, NEW k \in Calls, Accepted(k), k.op # "get"
    PROVE  Announced(k) = Stored(k)
<1>1. k \in CallType
  BY SettingsAssumption
<1>2. CASE k.op = "clear"
  BY <1>2 DEF Announced, Stored
<1>3. CASE k.op = "set" /\ k.via = "slash"
  BY <1>3 DEF Announced, Stored, cmdSetAnnounced, Duration
<1>4. CASE k.op = "set" /\ k.via = "http"
  <2>1. k.amount \in Nat
    BY <1>1, <1>4, SettingsAssumption DEF CallType, Accepted, WellFormed, Int64
  <2>2. k.amount * Second \in Nat /\ (k.amount * Second) \div Second = k.amount
    BY <2>1, DivideProduct, SettingsAssumption
  <2>3. Duration(k) = k.amount * Second
    BY <1>4, <2>2, ToInt64Identity DEF Duration, Fitting
  <2> QED
    BY <1>4, <2>2, <2>3 DEF Announced, Stored, handleSetAnnounced, Seconds
<1> QED
  BY <1>1, <1>2, <1>3, <1>4 DEF CallType, Ops

\* Who does not go to or from "publish" changes no set of publishers.
LEMMA PublishersStay ==
    ASSUME TypeOK, NEW r \in Requests, call' = call,
           NEW where \in Stages \ {"publish"}, pc' = [pc EXCEPT ![r] = where],
           pc[r] # "publish"
    PROVE  \A c \in Channels : Publishers(c)' = Publishers(c)
BY DEF TypeOK, Publishers

\* The steps that neither write nor publish.
LEMMA ToldStays ==
    ASSUME TypeOK, Told, call' = call, kv' = kv, events' = events,
           \A c \in Channels : Publishers(c)' = Publishers(c) /\ doubtful'[c] = doubtful[c]
    PROVE  Told'
BY DEF Told, Telling

\* A write is the last one to tell of, or leaves a doubt.
LEMMA CommitTold ==
    ASSUME TypeOK, Told, NEW r \in Requests, Commit(r), pc' = [pc EXCEPT ![r] = "publish"],
           pc[r] # "publish", call' = call, events' = events
    PROVE  Told'
<1> DEFINE d == call[r].channel
<1>1. d \in Channels /\ call[r] \in Calls
  BY DEF TypeOK, CallType
<1>2. /\ Publishers(d)' = Publishers(d) \cup {r}
      /\ \A c \in Channels \ {d} : Publishers(c)' = Publishers(c)
  BY <1>1 DEF TypeOK, Publishers
<1>3. /\ \A c \in Channels \ {d} : kv'[c] = kv[c] /\ doubtful'[c] = doubtful[c]
      /\ kv'[d] = Stored(call[r])
      /\ ~doubtful'[d] => Publishers(d) = {}
  BY <1>1 DEF TypeOK, Commit, Store
<1>4. ~doubtful'[d] => Telling(d)'
  BY <1>2, <1>3 DEF Telling
<1> QED
  BY <1>2, <1>3, <1>4 DEF Told, Telling

\* The channel of r is in doubt afterwards, whatever else happens to it.
LEMMA DoubtTold ==
    ASSUME TypeOK, Told, NEW r \in Requests, call' = call, events' = events,
           pc' = [pc EXCEPT ![r] = "done"], doubtful'[call[r].channel],
           \A c \in Channels \ {call[r].channel} :
              kv'[c] = kv[c] /\ doubtful'[c] = doubtful[c]
    PROVE  Told'
<1> SUFFICES ASSUME NEW c \in Channels, ~doubtful'[c] PROVE Telling(c)'
  BY DEF Told
<1>1. c # call[r].channel
  OBVIOUS
<1>2. kv'[c] = kv[c] /\ Telling(c)
  BY <1>1 DEF Told
<1>3. Publishers(c)' = Publishers(c)
  BY <1>1 DEF TypeOK, Publishers
<1> QED
  BY <1>2, <1>3 DEF Telling

\* The last one to publish tells of the setting in force.
LEMMA PublishTold ==
    ASSUME IInv, Told, NEW r \in Requests, Publish(r),
           Fitting
    PROVE  Told'
<1> DEFINE d == call[r].channel
<1>1. /\ d \in Channels /\ r \in Publishers(d)
      /\ Announced(call[r]) = Stored(call[r])
  <2>1. pc[r] = "publish"
    BY DEF Publish
  <2>2. d \in Channels /\ call[r] \in Calls
    BY DEF IInv, TypeOK, CallType
  <2>3. Accepted(call[r]) /\ call[r].op # "get" /\ r \in Publishers(d)
    BY <2>1 DEF IInv, Checked, Publishers
  <2> QED
    BY <2>2, <2>3, AnnouncedIsStored
<1>2. /\ Publishers(d)' = Publishers(d) \ {r}
      /\ \A c \in Channels \ {d} : Publishers(c)' = Publishers(c) /\ events'[c] = events[c]
  BY <1>1 DEF IInv, TypeOK, Publish, Answer, Publishers
<1>3. LastEvent(events'[d]) = Stored(call[r])
  <2>1. events'[d] = Append(events[d], Stored(call[r]))
    BY <1>1 DEF IInv, TypeOK, Publish
  <2>2. events[d] \in Seq(Announcements \cup {NoTTL})
    BY <1>1 DEF IInv, TypeOK
  <2> QED
    BY <2>1, <2>2 DEF LastEvent
<1>4. ~doubtful[d] => Telling(d)'
  BY <1>1, <1>2, <1>3 DEF Told, Telling, Publish
<1> QED
  BY <1>2, <1>4 DEF Told, Telling, Publish

\* Every step keeps the last event right, or leaves a doubt.
LEMMA ToldStep ==
    ASSUME IInv, Told, [Next]_vars,
           Fitting
    PROVE  Told'
<1> USE DEF IInv, Stages
<1>1. ASSUME NEW r \in Requests,
             Receive(r) \/ KVRead(r) \/ CheckManage(r) \/ KVGet(r)
      PROVE  Told'
  <2>1. /\ call' = call /\ kv' = kv /\ events' = events /\ doubtful' = doubtful
        /\ pc[r] # "publish"
        /\ \E where \in Stages \ {"publish"} : pc' = [pc EXCEPT ![r] = where]
    BY <1>1 DEF Receive, FirstStage, KVRead, CheckManage, KVGet, Go, Answer
  <2> QED
    BY <2>1, PublishersStay, ToldStays
<1>2. ASSUME NEW r \in Requests, KVSet(r) \/ KVDelete(r) PROVE Told'
  <2>1. call' = call /\ events' = events /\ pc[r] # "publish"
    BY <1>2 DEF KVSet, KVDelete
  <2>2. CASE Commit(r) /\ Go(r, "publish")
    BY <2>1, <2>2, CommitTold DEF Go
  <2>3. CASE CommitUntold(r) /\ Answer(r, "error")
    <3>1. call[r].channel \in Channels
      BY DEF TypeOK, CallType
    <3>2. /\ doubtful'[call[r].channel]
          /\ \A c \in Channels \ {call[r].channel} :
                kv'[c] = kv[c] /\ doubtful'[c] = doubtful[c]
      BY <2>3, <3>1 DEF TypeOK, CommitUntold, Store
    <3> QED
      BY <2>1, <2>3, <3>2, DoubtTold DEF Answer
  <2>4. CASE /\ NoCommit
             /\ \E where \in {"get", "done"} : pc' = [pc EXCEPT ![r] = where]
    BY <2>1, <2>4, PublishersStay, ToldStays DEF NoCommit
  <2> QED
    BY <1>2, <2>2, <2>3, <2>4 DEF KVSet, KVDelete, Go, Answer
<1>3. ASSUME NEW r \in Requests, Publish(r) PROVE Told'
  BY <1>3, PublishTold
<1>4. ASSUME NEW r \in Requests, Stop(r) PROVE Told'
  <2>1. call[r].channel \in Channels
    BY DEF TypeOK, CallType
  <2>2. CASE pc[r] = "publish"
    <3>1. /\ doubtful'[call[r].channel]
          /\ \A c \in Channels \ {call[r].channel} : doubtful'[c] = doubtful[c]
      BY <1>4, <2>1, <2>2 DEF TypeOK, Stop
    <3> QED
      BY <1>4, <3>1, DoubtTold DEF Stop, Answer
  <2>3. CASE pc[r] # "publish"
    <3>1. \A c \in Channels : doubtful'[c] = doubtful[c]
      BY <1>4, <2>1, <2>3 DEF TypeOK, Stop
    <3>2. \A c \in Channels : Publishers(c)' = Publishers(c)
      BY <1>4, <2>3, PublishersStay DEF Stop, Answer
    <3> QED
      BY <1>4, <3>1, <3>2, ToldStays DEF Stop
  <2> QED
    BY <2>2, <2>3
<1>5. CASE UNCHANGED vars
  BY <1>5, ToldStays DEF vars, Publishers
<1> QED
  BY <1>1, <1>2, <1>3, <1>4, <1>5 DEF Next

\* Unless writes overlapped or an event was lost, the last ttl_changed event
\* shows the setting in force; provided that the product of every ttl_seconds
\* with time.Second fits an int64.
THEOREM EventsCurrent ==
    ASSUME Fitting
    PROVE  Spec => []LastEventIsCurrent
<1>1. Init => Told
  BY DEF Init, Told, Telling, Publishers, LastEvent
<1>2. IInv /\ Told /\ [Next]_vars => Told'
  BY ToldStep
<1>3. Told => LastEventIsCurrent
  BY DEF Told, Telling, LastEventIsCurrent
<1> QED
  BY <1>1, <1>2, <1>3, IInvCorrect, PTL DEF Spec

-----------------------------------------------------------------------------
(* Every write and its event *)

\* Writes of v on channel c that nobody has been told about yet.
Owing(c, v) == {q \in Publishers(c) : Announced(call[q]) = v}

\* No request on c has failed, or stopped, halfway.
Whole(c) == \A r \in Requests : call[r].channel = c => status[r] \notin {"error", "lost"}

\* Events and owed events of a value never outnumber its writes, and match them
\* exactly while nothing on the channel has gone wrong.
Balanced(c, v) ==
    LET told == Count(events[c], v)
        owed == Cardinality(Owing(c, v))
        written == Count(commits[c], v)
    IN  told + owed <= written /\ (Whole(c) => told + owed = written)

Ledger == \A c \in Channels :
    /\ IsFiniteSet(Publishers(c))
    /\ \A v : Balanced(c, v)

\* A sequence that grows by v has one more v.
LEMMA CountAppend ==
    ASSUME NEW S, NEW s \in Seq(S), NEW v \in S, NEW w
    PROVE  /\ Count(s, w) \in Nat
           /\ Count(Append(s, v), w) = IF v = w THEN Count(s, w) + 1 ELSE Count(s, w)
<1> DEFINE n == Len(s)
           old == {i \in DOMAIN s : s[i] = w}
           new == {i \in DOMAIN Append(s, v) : Append(s, v)[i] = w}
<1>1. /\ n \in Nat /\ DOMAIN s = 1 .. n /\ DOMAIN Append(s, v) = 1 .. n + 1
      /\ \A i \in 1 .. n : Append(s, v)[i] = s[i]
      /\ Append(s, v)[n + 1] = v
  OBVIOUS
<1>2. IsFiniteSet(old) /\ n + 1 \notin old
  <2>1. IsFiniteSet(1 .. n) /\ old \in SUBSET (1 .. n)
    BY <1>1, FS_Interval
  <2>2. n + 1 \notin 1 .. n
    BY <1>1
  <2> QED
    BY <2>1, <2>2, FS_Subset
<1>3. new = IF v = w THEN old \cup {n + 1} ELSE old
  <2>1. 1 .. n + 1 = (1 .. n) \cup {n + 1} /\ n + 1 \notin 1 .. n
    BY <1>1
  <2> QED
    BY <1>1, <2>1
<1>4. Cardinality(old) \in Nat
  BY <1>2, FS_CardinalityType
<1> HIDE DEF old, new, n
<1>5. Cardinality(new) = IF v = w THEN Cardinality(old) + 1 ELSE Cardinality(old)
  BY <1>2, <1>3, FS_AddElement
<1> QED
  BY <1>4, <1>5 DEF Count, old, new

\* What is counted is a number.
LEMMA BalanceNumbers ==
    ASSUME TypeOK, Ledger, NEW c \in Channels, NEW v
    PROVE  /\ Count(events[c], v) \in Nat
           /\ Count(commits[c], v) \in Nat
           /\ IsFiniteSet(Owing(c, v)) /\ Cardinality(Owing(c, v)) \in Nat
<1>1. events[c] \in Seq(Announcements \cup {NoTTL}) /\ commits[c] \in Seq(Values)
  BY DEF TypeOK
<1>2. NoTTL \in Announcements \cup {NoTTL} /\ NoTTL \in Values
  BY DEF Values
<1>3. IsFiniteSet(Owing(c, v))
  BY FS_Subset DEF Ledger, Owing
<1> QED
  BY <1>1, <1>2, <1>3, CountAppend, FS_CardinalityType

\* A channel whose counts stay is balanced as before.
LEMMA LedgerStays ==
    ASSUME Ledger, NEW c \in Channels, NEW v, call' = call,
           events'[c] = events[c], commits'[c] = commits[c],
           Publishers(c)' = Publishers(c), Whole(c)' => Whole(c)
    PROVE  IsFiniteSet(Publishers(c)') /\ Balanced(c, v)'
<1>1. Owing(c, v)' = Owing(c, v)
  BY DEF Owing
<1> QED
  BY <1>1 DEF Ledger, Balanced, Count

\* What happens on channel d is all that counts when only d changes.
LEMMA OnlyHere ==
    ASSUME Ledger, NEW d \in Channels, call' = call,
           \A c \in Channels \ {d} :
               /\ events'[c] = events[c] /\ commits'[c] = commits[c]
               /\ Publishers(c)' = Publishers(c),
           \A c \in Channels : Whole(c)' => Whole(c),
           IsFiniteSet(Publishers(d)'), \A v : Balanced(d, v)'
    PROVE  Ledger'
<1>1. ASSUME NEW c \in Channels, c # d
      PROVE  IsFiniteSet(Publishers(c)') /\ \A v : Balanced(c, v)'
  <2>1. /\ events'[c] = events[c] /\ commits'[c] = commits[c]
        /\ Publishers(c)' = Publishers(c) /\ (Whole(c)' => Whole(c))
    BY <1>1
  <2>2. ASSUME NEW v PROVE IsFiniteSet(Publishers(c)') /\ Balanced(c, v)'
    BY <2>1, LedgerStays
  <2> QED
    BY <2>2
<1>2. \A c \in Channels : IsFiniteSet(Publishers(c)') /\ \A v : Balanced(c, v)'
  BY <1>1
<1> QED
  BY <1>2 DEF Ledger

\* Failing does not make a channel whole again: only a request that is still
\* running gets an answer.
LEMMA WholeBefore ==
    ASSUME IInv, NEW r \in Requests, pc[r] # "done", call' = call,
           status' = status \/ \E code \in Statuses : status' = [status EXCEPT ![r] = code]
    PROVE  \A c \in Channels : Whole(c)' => Whole(c)
<1>1. status[r] = "none"
  BY DEF IInv, Contended, Contention
<1>2. \A q \in Requests : q # r => status'[q] = status[q]
  BY DEF IInv, TypeOK
<1> QED
  BY <1>1, <1>2 DEF Whole

\* A request writes, and owes an event from then on.
LEMMA CommitLedger ==
    ASSUME IInv, Ledger, Fitting, NEW r \in Requests, Commit(r), Go(r, "publish"),
           pc[r] \in {"set", "delete"}, call' = call, events' = events
    PROVE  Ledger'
<1>0. PICK d \in Channels : d = call[r].channel
  BY DEF IInv, TypeOK, CallType
<1> DEFINE value == Stored(call[r])
<1>1. /\ value \in Values /\ Announced(call[r]) = value
      /\ commits[d] \in Seq(Values)
  <2>1. call[r] \in Calls /\ Accepted(call[r]) /\ call[r].op # "get"
    BY <1>0 DEF IInv, TypeOK, Checked
  <2> QED
    BY <1>0, <2>1, StoredValid, AnnouncedIsStored DEF IInv, TypeOK, CallType
<1>2. /\ Publishers(d)' = Publishers(d) \cup {r} /\ r \notin Publishers(d)
      /\ \A c \in Channels \ {d} : Publishers(c)' = Publishers(c)
  BY <1>0, <1>1 DEF IInv, TypeOK, Go, Publishers
<1>3. /\ commits'[d] = Append(commits[d], value)
      /\ \A c \in Channels \ {d} : commits'[c] = commits[c]
  BY <1>0, <1>1 DEF IInv, TypeOK, Commit, Store
<1>4. \A c \in Channels : Whole(c)' => Whole(c)
  BY <1>0 DEF Go, Whole
<1>5. IsFiniteSet(Publishers(d)')
  BY <1>0, <1>1, <1>2, FS_AddElement DEF Ledger
<1>6. ASSUME NEW v PROVE Balanced(d, v)'
  <2>1. /\ Count(events[d], v) \in Nat /\ Count(commits[d], v) \in Nat
        /\ IsFiniteSet(Owing(d, v)) /\ Cardinality(Owing(d, v)) \in Nat
    BY <1>1, BalanceNumbers DEF IInv
  <2>2. /\ Owing(d, v)' = IF value = v THEN Owing(d, v) \cup {r} ELSE Owing(d, v)
        /\ r \notin Owing(d, v)
    BY <1>1, <1>2 DEF Owing
  <2>3. Cardinality(Owing(d, v)') = IF value = v THEN Cardinality(Owing(d, v)) + 1
                                                 ELSE Cardinality(Owing(d, v))
    BY <2>1, <2>2, FS_AddElement
  <2>4. Count(commits'[d], v) = IF value = v THEN Count(commits[d], v) + 1
                                             ELSE Count(commits[d], v)
    BY <1>1, <1>3, CountAppend
  <2>5. Count(events[d], v)' = Count(events[d], v) /\ Count(commits[d], v)' = Count(commits'[d], v)
    BY DEF Count
  <2>6. Balanced(d, v)
    BY <1>1 DEF Ledger
  <2> QED
    BY <1>1, <1>4, <2>1, <2>3, <2>4, <2>5, <2>6 DEF Balanced
<1>7. \A v : Balanced(d, v)'
  BY <1>6
<1> HIDE DEF value
<1> QED
  BY <1>1, <1>2, <1>3, <1>4, <1>5, <1>7, OnlyHere

\* A write that is reported as an error owes no event.
LEMMA UntoldLedger ==
    ASSUME IInv, Ledger, NEW r \in Requests, CommitUntold(r), Answer(r, "error"),
           pc[r] \in {"set", "delete"}, call' = call, events' = events
    PROVE  Ledger'
<1>0. PICK d \in Channels : d = call[r].channel
  BY DEF IInv, TypeOK, CallType
<1> DEFINE value == Stored(call[r])
<1>1. value \in Values /\ commits[d] \in Seq(Values)
  <2>1. call[r] \in Calls /\ Accepted(call[r])
    BY <1>0 DEF IInv, TypeOK, Checked
  <2> QED
    BY <1>0, <2>1, StoredValid DEF IInv, TypeOK, CallType
<1>2. \A c \in Channels : Publishers(c)' = Publishers(c)
  BY <1>0, PublishersStay DEF IInv, Answer, Stages
<1>3. /\ commits'[d] = Append(commits[d], value)
      /\ \A c \in Channels \ {d} : commits'[c] = commits[c]
  BY <1>0, <1>1 DEF IInv, TypeOK, CommitUntold, Store
<1>4. \A c \in Channels : Whole(c)' => Whole(c)
  BY <1>0, WholeBefore DEF Answer, Statuses
<1>5. ~Whole(d)'
  BY <1>0 DEF IInv, TypeOK, Answer, Whole
<1>6. ASSUME NEW v PROVE Balanced(d, v)'
  <2>1. /\ Count(events[d], v) \in Nat /\ Count(commits[d], v) \in Nat
        /\ Cardinality(Owing(d, v)) \in Nat
    BY <1>1, BalanceNumbers DEF IInv
  <2>2. Owing(d, v)' = Owing(d, v)
    BY <1>1, <1>2 DEF Owing
  <2>3. /\ Count(commits[d], v)' \in Nat
        /\ Count(commits[d], v)' >= Count(commits[d], v)
    <3>1. Count(commits'[d], v) = IF value = v THEN Count(commits[d], v) + 1
                                               ELSE Count(commits[d], v)
      BY <1>1, <1>3, CountAppend
    <3>2. Count(commits[d], v)' = Count(commits'[d], v)
      BY DEF Count
    <3> QED
      BY <2>1, <3>1, <3>2
  <2>4. Count(events[d], v)' = Count(events[d], v)
    BY DEF Count
  <2>5. Balanced(d, v)
    BY <1>1 DEF Ledger
  <2> QED
    BY <1>5, <2>1, <2>2, <2>3, <2>4, <2>5 DEF Balanced
<1>7. \A v : Balanced(d, v)'
  BY <1>6
<1>8. IsFiniteSet(Publishers(d)')
  BY <1>1, <1>2 DEF Ledger
<1> HIDE DEF value
<1> QED
  BY <1>1, <1>2, <1>3, <1>4, <1>7, <1>8, OnlyHere

\* A request that had an event to publish has it published, or drops it.
LEMMA PublisherLeaves ==
    ASSUME IInv, Ledger, Fitting, NEW r \in Requests, Publish(r) \/ Stop(r),
           pc[r] = "publish"
    PROVE  Ledger'
<1>0. PICK d \in Channels : d = call[r].channel
  BY DEF IInv, TypeOK, CallType
<1> DEFINE value == Announced(call[r])
<1>1. /\ value \in Announcements \cup {NoTTL}
      /\ events[d] \in Seq(Announcements \cup {NoTTL})
  <2>1. call[r] \in Calls /\ Accepted(call[r]) /\ call[r].op # "get"
    BY <1>0 DEF IInv, TypeOK, Checked
  <2> QED
    BY <1>0, <2>1, AnnouncedTyped DEF IInv, TypeOK, CallType
<1>2. /\ Publishers(d)' = Publishers(d) \ {r} /\ r \in Publishers(d)
      /\ \A c \in Channels \ {d} : Publishers(c)' = Publishers(c)
  BY <1>0, <1>1 DEF IInv, TypeOK, Publish, Stop, Answer, Publishers
<1>3. /\ commits' = commits /\ call' = call
      /\ \/ events'[d] = Append(events[d], value)
         \/ events'[d] = events[d] /\ ~Whole(d)'
      /\ \A c \in Channels \ {d} : events'[c] = events[c]
  BY <1>0, <1>1 DEF IInv, TypeOK, Publish, Stop, Answer, Whole
<1>4. \A c \in Channels : Whole(c)' => Whole(c)
  BY <1>0, <1>3, WholeBefore DEF Publish, Stop, Answer, Statuses
<1>5. IsFiniteSet(Publishers(d)')
  BY <1>0, <1>1, <1>2, FS_RemoveElement DEF Ledger
<1>6. ASSUME NEW v PROVE Balanced(d, v)'
  <2>1. /\ Count(events[d], v) \in Nat /\ Count(commits[d], v) \in Nat
        /\ IsFiniteSet(Owing(d, v)) /\ Cardinality(Owing(d, v)) \in Nat
    BY <1>1, BalanceNumbers DEF IInv
  <2>2. Owing(d, v)' = Owing(d, v) \ {r} /\ (r \in Owing(d, v) <=> value = v)
    BY <1>1, <1>2, <1>3 DEF Owing
  <2>3. value = v => Cardinality(Owing(d, v)') = Cardinality(Owing(d, v)) - 1
    <3>1. r \in Owing(d, v) => Cardinality(Owing(d, v) \ {r}) = Cardinality(Owing(d, v)) - 1
      BY <2>1, FS_RemoveElement
    <3> QED
      BY <2>2, <3>1
  <2>4. value # v => Cardinality(Owing(d, v)') = Cardinality(Owing(d, v))
    <3>1. r \notin Owing(d, v) => Owing(d, v) \ {r} = Owing(d, v)
      OBVIOUS
    <3> QED
      BY <2>2, <3>1
  <2>5. Balanced(d, v) /\ Count(commits[d], v)' = Count(commits[d], v)
    BY <1>1, <1>3 DEF Ledger, Count
  <2>6. CASE events'[d] = Append(events[d], value)
    <3> HIDE DEF value
    <3>1. Count(events'[d], v) = IF value = v THEN Count(events[d], v) + 1
                                              ELSE Count(events[d], v)
      BY <1>1, <2>6, CountAppend
    <3>2. Count(events[d], v)' = Count(events'[d], v)
      BY DEF Count
    <3>3. Whole(d)' => Whole(d)
      BY <1>1, <1>4
    <3> QED
      BY <2>1, <2>3, <2>4, <2>5, <3>1, <3>2, <3>3 DEF Balanced
  <2>7. CASE events'[d] = events[d] /\ ~Whole(d)'
    <3>1. Count(events[d], v)' = Count(events[d], v)
      BY <2>7 DEF Count
    <3> HIDE DEF value
    <3> QED
      BY <2>1, <2>3, <2>4, <2>5, <2>7, <3>1 DEF Balanced
  <2> QED
    BY <1>3, <2>6, <2>7
<1>7. \A v : Balanced(d, v)'
  BY <1>6
<1> HIDE DEF value
<1> QED
  BY <1>1, <1>2, <1>3, <1>4, <1>5, <1>7, OnlyHere

\* Every step keeps writes, events and owed events in balance.
LEMMA LedgerStep ==
    ASSUME IInv, Ledger, Fitting, [Next]_vars
    PROVE  Ledger'
<1> USE DEF Statuses, Refusals
<1>1. ASSUME NEW r \in Requests, call' = call, events' = events, commits' = commits,
             pc[r] \notin {"publish", "done"},
             \E where \in Stages \ {"publish"} : pc' = [pc EXCEPT ![r] = where],
             status' = status \/ \E code \in Statuses : status' = [status EXCEPT ![r] = code]
      PROVE  Ledger'
  BY <1>1, PublishersStay, WholeBefore, LedgerStays DEF IInv, Ledger
<1>2. ASSUME NEW r \in Requests,
             Receive(r) \/ KVRead(r) \/ CheckManage(r) \/ KVGet(r)
      PROVE  Ledger'
  <2>1. /\ call' = call /\ events' = events /\ commits' = commits
        /\ pc[r] \notin {"publish", "done"}
        /\ \E where \in Stages \ {"publish"} : pc' = [pc EXCEPT ![r] = where]
        /\ status' = status \/ \E code \in Statuses : status' = [status EXCEPT ![r] = code]
    BY <1>2 DEF Receive, FirstStage, KVRead, CheckManage, KVGet, Go, Answer, Stages
  <2> QED
    BY <1>1, <2>1
<1>3. ASSUME NEW r \in Requests, KVSet(r) \/ KVDelete(r) PROVE Ledger'
  <2>1. call' = call /\ events' = events /\ pc[r] \in {"set", "delete"}
    BY <1>3 DEF KVSet, KVDelete
  <2>2. CASE Commit(r) /\ Go(r, "publish")
    BY <2>1, <2>2, CommitLedger
  <2>3. CASE CommitUntold(r) /\ Answer(r, "error")
    BY <2>1, <2>3, UntoldLedger
  <2>4. CASE NoCommit /\ (Go(r, "get") \/ \E code \in Statuses : Answer(r, code))
    BY <1>1, <2>1, <2>4 DEF NoCommit, Go, Answer, Stages
  <2> QED
    BY <1>3, <2>2, <2>3, <2>4 DEF KVSet, KVDelete
<1>4. ASSUME NEW r \in Requests, Publish(r) \/ Stop(r) PROVE Ledger'
  <2>1. CASE pc[r] = "publish"
    BY <1>4, <2>1, PublisherLeaves
  <2>2. CASE pc[r] # "publish"
    BY <1>1, <1>4, <2>2 DEF Publish, Stop, Answer, Stages
  <2> QED
    BY <2>1, <2>2
<1>5. CASE UNCHANGED vars
  BY <1>5, LedgerStays DEF vars, Publishers, Whole, Ledger
<1> QED
  BY <1>2, <1>3, <1>4, <1>5 DEF Next

\* The books are in balance in every reachable state.
LEMMA LedgerCorrect ==
    ASSUME Fitting
    PROVE  Spec => []Ledger
<1>1. Init => Ledger
  <2> SUFFICES ASSUME Init, NEW c \in Channels
               PROVE  IsFiniteSet(Publishers(c)) /\ \A v : Balanced(c, v)
    BY DEF Ledger
  <2>1. Publishers(c) = {} /\ events[c] = <<>> /\ commits[c] = <<>>
    BY DEF Init, Publishers
  <2>2. ASSUME NEW v PROVE Owing(c, v) = {} /\ Count(<<>>, v) = 0
    <3>1. {i \in DOMAIN <<>> : <<>>[i] = v} = {}
      OBVIOUS
    <3> QED
      BY <2>1, <3>1, FS_EmptySet DEF Owing, Count
  <2>3. IsFiniteSet({}) /\ Cardinality({}) = 0
    BY FS_EmptySet
  <2>4. ASSUME NEW v PROVE Balanced(c, v)
    <3>1. Count(events[c], v) = 0 /\ Count(commits[c], v) = 0
      BY <2>1, <2>2
    <3>2. Cardinality(Owing(c, v)) = 0
      BY <2>2, <2>3
    <3> QED
      BY <3>1, <3>2 DEF Balanced
  <2> QED
    BY <2>1, <2>3, <2>4
<1>2. IInv /\ Ledger /\ [Next]_vars => Ledger'
  BY LedgerStep
<1> QED
  BY <1>1, <1>2, IInvCorrect, PTL DEF Spec

\* No event is made up, and none is sent twice: a value is announced at most as
\* often as it was written.
THEOREM EventsWereStored ==
    ASSUME Fitting
    PROVE  Spec => []AnnouncedWasStored
<1>1. IInv /\ Ledger => AnnouncedWasStored
  <2> SUFFICES ASSUME IInv, Ledger, NEW c \in Channels, NEW v
               PROVE  Count(events[c], v) <= Count(commits[c], v)
    BY DEF AnnouncedWasStored
  <2>1. Balanced(c, v)
    BY DEF Ledger
  <2>2. /\ Count(events[c], v) \in Nat /\ Count(commits[c], v) \in Nat
        /\ Cardinality(Owing(c, v)) \in Nat
    BY BalanceNumbers DEF IInv
  <2> QED
    BY <2>1, <2>2 DEF Balanced
<1> QED
  BY <1>1, IInvCorrect, LedgerCorrect, PTL

\* Where every request has been answered, and none by an error or a stop, each
\* write has had its event.
THEOREM WritesWereAnnounced ==
    ASSUME Fitting
    PROVE  Spec => []EveryWriteAnnounced
<1>1. IInv /\ Ledger => EveryWriteAnnounced
  <2> SUFFICES ASSUME IInv, Ledger, NEW c \in Channels, Clean(c), NEW v
               PROVE  Count(events[c], v) = Count(commits[c], v)
    BY DEF EveryWriteAnnounced
  <2>1. \A q \in Requests : call[q].channel = c =>
            pc[q] # "publish" /\ status[q] \notin {"error", "lost"}
    BY DEF Clean, IInv, Contended, Contention, Refusals
  <2>2. Owing(c, v) = {} /\ Whole(c)
    BY <2>1 DEF Owing, Publishers, Whole
  <2>3. Count(events[c], v) \in Nat /\ Count(commits[c], v) \in Nat
    BY BalanceNumbers DEF IInv
  <2>4. Balanced(c, v)
    BY DEF Ledger
  <2> QED
    BY <2>2, <2>3, <2>4, FS_EmptySet DEF Balanced
<1> QED
  BY <1>1, IInvCorrect, LedgerCorrect, PTL

-----------------------------------------------------------------------------
(* The register *)

\* The requests start where those of the register start.
LEMMA RegisterInit == IInv /\ Init => Register!Init
<1> SUFFICES ASSUME IInv, Init PROVE Register!Init
  OBVIOUS
<1>1. \A r \in Requests : /\ call[r].channel \in Channels
                          /\ Accepted(call[r]) => Stored(call[r]) \in Settings \cup {NoTTL}
  BY StoredValid DEF IInv, TypeOK, CallType, Values
<1>2. target \in [Requests -> Register!Targets]
  <2>1. \A r \in Requests :
          [op |-> IF call[r].op = "get" THEN "read" ELSE "write",
           channel |-> call[r].channel,
           value |-> IF Accepted(call[r]) THEN Stored(call[r]) ELSE NoTTL]
             \in [op : {"read", "write"}, channel : Channels,
                  value : Settings \cup {NoTTL}]
    <3> TAKE r \in Requests
    <3> DEFINE value == IF Accepted(call[r]) THEN Stored(call[r]) ELSE NoTTL
               channel == call[r].channel
               op == IF call[r].op = "get" THEN "read" ELSE "write"
    <3>1. value \in Settings \cup {NoTTL} /\ channel \in Channels /\ op \in {"read", "write"}
      BY <1>1
    <3> HIDE DEF value, channel, op
    <3>2. [op |-> op, channel |-> channel, value |-> value]
             \in [op : {"read", "write"}, channel : Channels,
                  value : Settings \cup {NoTTL}]
      BY <3>1
    <3> QED
      BY <3>2 DEF value, channel, op
  <2> QED
    BY <2>1 DEF target, Register!Targets
<1>3. stage = [r \in Requests |-> "idle"]
  <2>1. \A r \in Requests : Stage(pc[r], status[r]) = "idle"
    BY DEF Init, Stage
  <2> QED
    BY <2>1 DEF stage
<1>4. result = [r \in Requests |-> NoTTL]
  BY DEF Init, result
<1> QED
  BY <1>2, <1>3, <1>4 DEF Init, Register!Init

\* What a user sees of a request that has no answer yet.
LEMMA StageNow ==
    ASSUME NEW r \in Requests
    PROVE  /\ pc[r] = "idle" => stage[r] = "idle"
           /\ pc[r] \in {"manage", "read", "get", "set", "delete"} => stage[r] = "open"
           /\ pc[r] = "publish" => stage[r] = "applied"
BY DEF stage, Stage

\* A step of r moves the stage of r and of nobody else.
LEMMA GoMoves ==
    ASSUME TypeOK, NEW r \in Requests,
           NEW where \in {"manage", "read", "get", "set", "delete", "publish"}, Go(r, where)
    PROVE  Register!Move(r, stage[r], IF where = "publish" THEN "applied" ELSE "open")
<1>1. \A q \in Requests : /\ pc'[q] = IF q = r THEN where ELSE pc[q]
                          /\ status'[q] = status[q]
  BY DEF TypeOK, Go
<1>2. Stage(where, status[r]) = IF where = "publish" THEN "applied" ELSE "open"
  BY DEF Stage
<1>3. stage' = [stage EXCEPT ![r] = Stage(where, status[r])]
  BY <1>1 DEF stage
<1> QED
  BY <1>2, <1>3 DEF Register!Move

\* An answer moves the stage of its request and of nobody else.
LEMMA AnswerMoves ==
    ASSUME TypeOK, NEW r \in Requests, NEW code \in Statuses, Answer(r, code)
    PROVE  Register!Move(r, stage[r], IF code = "ok" THEN "succeeded"
                                      ELSE IF code \in Refusals THEN "refused"
                                      ELSE "unknown")
<1>1. \A q \in Requests : /\ pc'[q] = IF q = r THEN "done" ELSE pc[q]
                          /\ status'[q] = IF q = r THEN code ELSE status[q]
  BY DEF TypeOK, Answer
<1>2. Stage("done", code) = IF code = "ok" THEN "succeeded"
                            ELSE IF code \in Refusals THEN "refused" ELSE "unknown"
  BY DEF Stage, Refusals
<1>3. stage' = [stage EXCEPT ![r] = Stage("done", code)]
  BY <1>1 DEF stage
<1> QED
  BY <1>2, <1>3 DEF Register!Move

\* Steps between two checks look the same to the user.
LEMMA OpenStays ==
    ASSUME NEW r \in Requests, Register!Move(r, "open", "open")
    PROVE  stage' = stage
BY DEF Register!Move, stage

\* A write of the store is a write of the register.
LEMMA WriteOfCommit ==
    ASSUME TypeOK, NEW r \in Requests, Accepted(call[r]), call[r].op # "get", Written(r)
    PROVE  Register!Write(r)
BY DEF TypeOK, Written, Commit, CommitUntold, Store, Register!Write, target

\* A get reads the register in one step, or fails and tells nothing.
LEMMA ReadStep ==
    ASSUME IInv, NEW r \in Requests, KVRead(r)
    PROVE  [Register!Next]_(Register!vars)
<1> USE DEF IInv, Statuses, Refusals
<1>1. target' = target /\ kv' = kv /\ stage[r] = "open" /\ call[r].op = "get"
  BY StageNow DEF KVRead, Checked, target
<1>2. CASE Answer(r, "ok") /\ current' = [current EXCEPT ![r] = kv[call[r].channel]]
  <2>1. result' = [result EXCEPT ![r] = kv[call[r].channel]]
    BY <1>1, <1>2 DEF KVRead, TypeOK, result
  <2>2. target[r].op = "read" /\ target[r].channel = call[r].channel
    BY <1>1 DEF target
  <2> QED
    BY <1>1, <1>2, <2>1, <2>2, AnswerMoves DEF Register!Read, Register!Next
<1>3. CASE Answer(r, "error") /\ UNCHANGED current
  <2>1. result' = result
    BY <1>3 DEF KVRead, result
  <2> QED
    BY <1>1, <1>3, <2>1, AnswerMoves DEF Register!Fail, Register!Next
<1> QED
  BY <1>2, <1>3 DEF KVRead

\* Every other step of a request is a step or a stutter of the register.
LEMMA RequestStep ==
    ASSUME IInv, NEW r \in Requests,
           \/ Receive(r) \/ CheckManage(r) \/ KVGet(r) \/ KVSet(r)
           \/ KVDelete(r) \/ Publish(r) \/ Stop(r)
    PROVE  [Register!Next]_(Register!vars)
<1> USE DEF IInv, Statuses, Refusals
<1>0. target' = target /\ result' = result
  <2>1. /\ call' = call
        /\ \/ current' = current
           \/ KVGet(r) /\ current' = [current EXCEPT ![r] = kv[call[r].channel]]
    BY DEF Receive, CheckManage, KVGet, KVSet, KVDelete, Publish, Stop
  <2>2. KVGet(r) => call[r].op # "get"
    BY DEF Checked, KVGet
  <2> QED
    BY <2>1, <2>2 DEF TypeOK, target, result
<1>1. CASE Receive(r)
  <2>1. CASE Go(r, FirstStage(call[r]))
    BY <1>0, <1>1, <2>1, GoMoves, StageNow DEF Receive, FirstStage, Register!Begin, Register!Next
  <2>2. CASE Answer(r, "badRequest")
    BY <1>0, <1>1, <2>2, AnswerMoves, StageNow DEF Receive, Register!Refuse, Register!Next
  <2> QED
    BY <1>1, <2>1, <2>2 DEF Receive
<1>2. CASE CheckManage(r)
  <2>1. CASE \E where \in {"get", "delete"} : Go(r, where)
    BY <1>0, <1>2, <2>1, GoMoves, StageNow, OpenStays DEF CheckManage, Register!vars
  <2>2. CASE \E code \in {"notFound", "forbidden"} : Answer(r, code)
    BY <1>0, <1>2, <2>2, AnswerMoves, StageNow DEF CheckManage, Register!Refuse, Register!Next
  <2> QED
    BY <1>2, <2>1, <2>2 DEF CheckManage
<1>3. CASE KVGet(r)
  <2>1. CASE Go(r, "set")
    BY <1>0, <1>3, <2>1, GoMoves, StageNow, OpenStays DEF KVGet, Register!vars
  <2>2. CASE Answer(r, "error")
    BY <1>0, <1>3, <2>2, AnswerMoves, StageNow DEF KVGet, Register!Fail, Register!Next
  <2> QED
    BY <1>3, <2>1, <2>2 DEF KVGet
<1>4. CASE KVSet(r) \/ KVDelete(r)
  <2>1. Accepted(call[r]) /\ call[r].op # "get" /\ stage[r] = "open"
    BY <1>4, StageNow DEF Checked, KVSet, KVDelete
  <2>2. CASE Commit(r) /\ Go(r, "publish")
    BY <1>0, <2>1, <2>2, GoMoves, WriteOfCommit DEF Written, Register!Apply, Register!Next
  <2>3. CASE CommitUntold(r) /\ Answer(r, "error")
    BY <1>0, <2>1, <2>3, AnswerMoves, WriteOfCommit DEF Written, Register!Fail, Register!Next
  <2>4. CASE NoCommit /\ Answer(r, "error")
    BY <1>0, <2>1, <2>4, AnswerMoves DEF NoCommit, Register!Fail, Register!Next
  <2>5. CASE NoCommit /\ Go(r, "get")
    BY <1>0, <2>1, <2>5, GoMoves, OpenStays DEF NoCommit, Register!vars
  <2>6. CASE NoCommit /\ Answer(r, "conflict")
    BY <1>0, <2>1, <2>6, AnswerMoves DEF NoCommit, Register!Refuse, Register!Next
  <2> QED
    BY <1>4, <2>2, <2>3, <2>4, <2>5, <2>6 DEF KVSet, KVDelete
<1>5. CASE Publish(r)
  BY <1>0, <1>5, AnswerMoves, StageNow DEF Publish, Register!Succeed, Register!Next
<1>6. CASE Stop(r)
  <2>1. stage[r] \in {"open", "applied"}
    BY <1>6, StageNow DEF Stop, TypeOK, Stages
  <2> QED
    BY <1>0, <1>6, <2>1, AnswerMoves DEF Stop, Register!Fail, Register!Next
<1> QED
  BY <1>1, <1>2, <1>3, <1>4, <1>5, <1>6

\* Every step of a request is a step of the register, or none.
LEMMA RegisterStep == IInv /\ [Next]_vars => [Register!Next]_(Register!vars)
<1>1. ASSUME UNCHANGED vars PROVE UNCHANGED Register!vars
  BY <1>1 DEF vars, Register!vars, stage, target, result
<1> QED
  BY <1>1, ReadStep, RequestStep DEF Next

\* The handlers, the permission check and the compare-and-set loop implement
\* one register per channel.
THEOREM RegisterCorrect == Spec => ImplementsRegister
<1>1. Spec => []IInv
  BY IInvCorrect
<1> QED
  BY <1>1, RegisterInit, RegisterStep, PTL
     DEF Spec, ImplementsRegister, Register!Spec
==============================================================================
