----------------------------- MODULE TTLSettings -----------------------------
(***************************************************************************)
(* Changing and reading a channel's TTL: the HTTP handlers and the slash   *)
(* command, the permission check of the TTL service, the compare-and-set   *)
(* loop of the store, and the ttl_changed event that follows.              *)
(*                                                                         *)
(* Requests run concurrently, on any node of the cluster.  A step of one   *)
(* ends where it waits for the Mattermost API: the permission check, each  *)
(* KV call, the publishing of the event.                                   *)
(***************************************************************************)
EXTENDS Integers, Sequences, FiniteSets

CONSTANTS
    Requests,
    Channels,
    Users,
    Calls,          \* the calls that users may make, see CallType
    Admins,         \* users with PermissionManageSystem
    Managers,       \* [Channels -> SUBSET Users]: who may edit its properties
    Kind,           \* [Channels -> Kinds]
    NoTTL,          \* the KV store has no entry for the channel
    maxRetries,     \* tries of the compare-and-set loop (20 in the code)
    Word,           \* number of values of an int64
    Second,         \* time.Second, in units of a time.Duration
    MinTTL, MaxTTL  \* the bounds of ValidateTTL, in units of a time.Duration

Kinds == {"public", "private", "direct", "missing"}

Int64 == -(Word \div 2) .. (Word \div 2) - 1

\* POST, GET and DELETE of /ttl, or set, status and off of /disappear.
Ops == {"set", "get", "clear"}

\* amount is the JSON field ttl_seconds of an HTTP request, and the duration
\* that parseTTLArg has made of a slash command's argument; at is the
\* millisecond in which the handler reads the clock.
CallType == [via : {"http", "slash"}, op : Ops, user : Users,
             channel : Channels, amount : Int64, at : Nat]

ASSUME SettingsAssumption ==
    /\ Word \in Nat \ {0}
    /\ Calls \subseteq CallType
    /\ Admins \subseteq Users
    /\ Managers \in [Channels -> SUBSET Users]
    /\ Kind \in [Channels -> Kinds]
    /\ maxRetries \in Nat \ {0}
    /\ Second \in Nat \ {0}
    /\ MinTTL \in Nat /\ MaxTTL \in Nat
    /\ MaxTTL < Word \div 2

VARIABLES
    kv,         \* per channel, the setting in the KV store
    call,       \* per request, the call it serves; it never changes
    pc,         \* per request, the API call it makes next
    current,    \* per request, what its last KVGet returned; the answer of a get
    tries,      \* per request, its conflicts so far
    status,     \* per request, its answer
    events,     \* per channel, the settings announced by ttl_changed so far
    commits,    \* history: per channel, the values written to the KV store
    began,      \* history: per request, the length of commits when it started
    doubtful    \* history: per channel, whether the last write may not be the
                \* last one announced

vars == <<kv, call, pc, current, tries, status, events, commits, began, doubtful>>

-----------------------------------------------------------------------------
(* Durations *)

\* The value of an int64 expression whose exact result is n.
ToInt64(n) == ((n + Word \div 2) % Word) - (Word \div 2)

\* time.Duration(req.TTLSeconds) * time.Second; a slash command's argument
\* is a duration already.
Duration(k) ==
    IF k.via = "http" THEN ToInt64(k.amount * Second) ELSE k.amount

\* int64(d.Seconds()) of a duration that is not negative
Seconds(d) == d \div Second

\* Mutant of ValidateTTL: no upper bound.
ValidateTTLLowerBound(d) == MinTTL <= d

ValidateTTL(d) == MinTTL <= d /\ d <= MaxTTL

Setting(secs, k) == [DurationSeconds |-> secs, SetBy |-> k.user, SetAt |-> k.at]

\* What SetTTL stores.
Stored(k) == IF k.op = "set" THEN Setting(Seconds(Duration(k)), k) ELSE NoTTL

\* Mutant of cmdSetAnnounced: the duration is rounded, not cut off.
cmdSetAnnouncedRounded(k) == Setting((k.amount + Second \div 2) \div Second, k)

\* What cmdSet and handleSet tell every member of the channel.
cmdSetAnnounced(k) == Setting(Seconds(k.amount), k)
handleSetAnnounced(k) == Setting(k.amount, k)

Announced(k) ==
    CASE k.op = "clear" -> NoTTL
      [] k.op = "set" /\ k.via = "http"  -> handleSetAnnounced(k)
      [] k.op = "set" /\ k.via = "slash" -> cmdSetAnnounced(k)

Settings == [DurationSeconds : Seconds(MinTTL) .. Seconds(MaxTTL),
             SetBy : Users, SetAt : Nat]
Announcements == [DurationSeconds : Int64, SetBy : Users, SetAt : Nat]

-----------------------------------------------------------------------------
(* Requests *)

Stages == {"idle", "manage", "read", "get", "set", "delete", "publish", "done"}
Refusals == {"badRequest", "forbidden", "notFound", "conflict"}
Statuses == {"none", "ok", "error", "lost"} \cup Refusals

Values == Settings \cup {NoTTL}

TypeOK ==
    /\ kv \in [Channels -> Values]
    /\ call \in [Requests -> Calls]
    /\ pc \in [Requests -> Stages]
    /\ current \in [Requests -> Values]
    /\ tries \in [Requests -> 0 .. maxRetries]
    /\ status \in [Requests -> Statuses]
    /\ events \in [Channels -> Seq(Announcements \cup {NoTTL})]
    /\ commits \in [Channels -> Seq(Values)]
    /\ began \in [Requests -> Nat]
    /\ doubtful \in [Channels -> BOOLEAN]

Init ==
    /\ kv = [c \in Channels |-> NoTTL]
    /\ call \in [Requests -> Calls]
    /\ pc = [r \in Requests |-> "idle"]
    /\ current = [r \in Requests |-> NoTTL]
    /\ tries = [r \in Requests |-> 0]
    /\ status = [r \in Requests |-> "none"]
    /\ events = [c \in Channels |-> <<>>]
    /\ commits = [c \in Channels |-> <<>>]
    /\ began = [r \in Requests |-> 0]
    /\ doubtful = [c \in Channels |-> FALSE]

Go(r, where) ==
    /\ pc' = [pc EXCEPT ![r] = where]
    /\ UNCHANGED status

Answer(r, code) ==
    /\ pc' = [pc EXCEPT ![r] = "done"]
    /\ status' = [status EXCEPT ![r] = code]

\* Requests whose write has happened and whose event is still to come.
Publishers(c) == {q \in Requests : pc[q] = "publish" /\ call[q].channel = c}

Store(r) ==
    LET c == call[r].channel IN
    /\ kv' = [kv EXCEPT ![c] = Stored(call[r])]
    /\ commits' = [commits EXCEPT ![c] = Append(@, Stored(call[r]))]

\* The KV store accepts a write of r; r is told so, or gets an error.
Commit(r) ==
    /\ Store(r)
    /\ doubtful' = [doubtful EXCEPT ![call[r].channel] =
                        Publishers(call[r].channel) # {}]
CommitUntold(r) ==
    /\ Store(r)
    /\ doubtful' = [doubtful EXCEPT ![call[r].channel] = TRUE]

NoCommit == UNCHANGED <<kv, commits, doubtful>>

\* What handleSet checks itself.
WellFormed(k) == k.via = "http" => k.amount >= 0

Accepted(k) == k.op = "set" => WellFormed(k) /\ ValidateTTL(Duration(k))

\* GetSetting asks the store at once, SetTTL and ClearTTL check the user first.
FirstStage(k) == IF k.op = "get" THEN "read" ELSE "manage"

Receive(r) ==
    /\ pc[r] = "idle"
    /\ began' = [began EXCEPT ![r] = Len(commits[call[r].channel])]
    /\ IF Accepted(call[r]) THEN Go(r, FirstStage(call[r])) ELSE Answer(r, "badRequest")
    /\ UNCHANGED <<kv, call, current, tries, events, commits, doubtful>>

\* Mutant of KVRead: a get that fails is answered as if no TTL were set.
KVReadErrorIsOff(r) ==
    /\ pc[r] = "read"
    /\ \/ current' = [current EXCEPT ![r] = kv[call[r].channel]]
       \/ UNCHANGED current
    /\ Answer(r, "ok")
    /\ UNCHANGED <<kv, call, tries, events, commits, began, doubtful>>

\* The store's Get; the handler answers with what it returns.
KVRead(r) ==
    /\ pc[r] = "read"
    /\ \/ /\ current' = [current EXCEPT ![r] = kv[call[r].channel]]
          /\ Answer(r, "ok")
       \/ Answer(r, "error") /\ UNCHANGED current
    /\ UNCHANGED <<kv, call, tries, events, commits, began, doubtful>>

\* checkCanManage: a system administrator always, else whoever takes part in
\* a direct or group channel, else who may edit the channel's properties.
CanManage(u, c) ==
    \/ u \in Admins
    \/ Kind[c] = "direct"
    \/ Kind[c] \in {"public", "private"} /\ u \in Managers[c]

\* GetChannel fails for a missing channel, and may fail for any other; an
\* administrator passes without it.
CheckManage(r) ==
    LET u == call[r].user
        c == call[r].channel
    IN
    /\ pc[r] = "manage"
    /\ \/ CanManage(u, c) /\ Go(r, IF call[r].op = "set" THEN "get" ELSE "delete")
       \/ u \notin Admins /\ Answer(r, "notFound")
       \/ ~CanManage(u, c) /\ Kind[c] # "missing" /\ Answer(r, "forbidden")
    /\ UNCHANGED <<kv, call, current, tries, events, commits, began, doubtful>>

KVGet(r) ==
    /\ pc[r] = "get"
    /\ \/ /\ current' = [current EXCEPT ![r] = kv[call[r].channel]]
          /\ Go(r, "set")
       \/ Answer(r, "error") /\ UNCHANGED current
    /\ UNCHANGED <<kv, call, tries, events, commits, began, doubtful>>

\* Mutant of KVSet: a conflict is taken for success.
KVSetConflictIgnored(r) ==
    LET matches == kv[call[r].channel] = current[r] IN
    /\ pc[r] = "set"
    /\ (matches /\ Commit(r)) \/ (~matches /\ NoCommit)
    /\ Go(r, "publish")
    /\ UNCHANGED <<call, current, tries, events, began>>

\* Mutant of KVSet: the loop tries again without reading again.
KVSetNoReread(r) ==
    LET matches == kv[call[r].channel] = current[r] IN
    /\ pc[r] = "set"
    /\ \/ matches /\ Commit(r) /\ Go(r, "publish") /\ UNCHANGED tries
       \/ /\ ~matches
          /\ tries' = [tries EXCEPT ![r] = @ + 1]
          /\ IF tries'[r] < maxRetries THEN Go(r, "set") ELSE Answer(r, "conflict")
          /\ NoCommit
    /\ UNCHANGED <<call, current, events, began>>

\* Mutant of KVSet: no event follows a write that took more than one try.
KVSetRetrySilent(r) ==
    LET matches == kv[call[r].channel] = current[r] IN
    /\ pc[r] = "set"
    /\ \/ /\ matches /\ Commit(r) /\ UNCHANGED tries
          /\ IF tries[r] = 0 THEN Go(r, "publish") ELSE Answer(r, "ok")
       \/ /\ ~matches
          /\ tries' = [tries EXCEPT ![r] = @ + 1]
          /\ IF tries'[r] < maxRetries THEN Go(r, "get") ELSE Answer(r, "conflict")
          /\ NoCommit
    /\ UNCHANGED <<call, current, events, began>>

\* KVSetWithOptions with Atomic and OldValue: it writes, reports a conflict,
\* or fails; a failure may hide that it has written.
KVSet(r) ==
    LET matches == kv[call[r].channel] = current[r] IN
    /\ pc[r] = "set"
    /\ \/ matches /\ Commit(r) /\ Go(r, "publish") /\ UNCHANGED tries
       \/ /\ ~matches
          /\ tries' = [tries EXCEPT ![r] = @ + 1]
          /\ IF tries'[r] < maxRetries THEN Go(r, "get") ELSE Answer(r, "conflict")
          /\ NoCommit
       \/ /\ (matches /\ CommitUntold(r)) \/ NoCommit
          /\ Answer(r, "error")
          /\ UNCHANGED tries
    /\ UNCHANGED <<call, current, events, began>>

\* Mutant of KVDelete: the handler answers without publishing an event.
KVDeleteSilent(r) ==
    /\ pc[r] = "delete"
    /\ \/ Commit(r) /\ Answer(r, "ok")
       \/ (CommitUntold(r) \/ NoCommit) /\ Answer(r, "error")
    /\ UNCHANGED <<call, current, tries, events, began>>

KVDelete(r) ==
    /\ pc[r] = "delete"
    /\ \/ Commit(r) /\ Go(r, "publish")
       \/ (CommitUntold(r) \/ NoCommit) /\ Answer(r, "error")
    /\ UNCHANGED <<call, current, tries, events, began>>

\* PublishWebSocketEvent, and then the answer.
Publish(r) ==
    LET c == call[r].channel IN
    /\ pc[r] = "publish"
    /\ events' = [events EXCEPT ![c] = Append(@, Announced(call[r]))]
    /\ Answer(r, "ok")
    /\ UNCHANGED <<kv, call, current, tries, commits, began, doubtful>>

\* The node that serves r stops before the next API call.
Stop(r) ==
    /\ pc[r] \notin {"idle", "done"}
    /\ Answer(r, "lost")
    /\ doubtful' = [doubtful EXCEPT ![call[r].channel] = @ \/ pc[r] = "publish"]
    /\ UNCHANGED <<kv, call, current, tries, events, commits, began>>

Next == \E r \in Requests :
    \/ Receive(r)
    \/ KVRead(r)
    \/ CheckManage(r)
    \/ KVGet(r)
    \/ KVSet(r)
    \/ KVDelete(r)
    \/ Publish(r)
    \/ Stop(r)

Spec == Init /\ [][Next]_vars

-----------------------------------------------------------------------------
(* Properties *)

\* A request is told to try again later only after other requests wrote the
\* setting at least maxRetries times since it began: the retry loop of Set
\* never gives up without contention.
GivesUpOnlyUnderContention ==
    \A r \in Requests : status[r] = "conflict" =>
        Len(commits[call[r].channel]) - began[r] >= maxRetries

Count(s, v) == Cardinality({i \in DOMAIN s : s[i] = v})

\* Whatever ttl_changed announces was written before, and is announced at most
\* as often as it was written: the handler's event reflects what SetTTL stored.
AnnouncedWasStored ==
    \A c \in Channels : \A i \in DOMAIN events[c] :
        Count(events[c], events[c][i]) <= Count(commits[c], events[c][i])

\* When every request on a channel has been answered, and none by an error or
\* a stop, every write has been announced exactly as often as it happened.
Clean(c) == \A r \in Requests : call[r].channel = c =>
                pc[r] = "idle" \/ status[r] \in Refusals \cup {"ok"}
EveryWriteAnnounced ==
    \A c \in Channels : Clean(c) =>
        \A i \in DOMAIN commits[c] :
            Count(events[c], commits[c][i]) = Count(commits[c], commits[c][i])

LastEvent(s) == IF s = <<>> THEN NoTTL ELSE s[Len(s)]

\* Once every write on a channel has its event, the last event shows the setting
\* in force, so that clients that follow ttl_changed stay honest; unless the last
\* write came before the event of another one, or its own event was lost to an
\* error or a stop.  Nothing orders the write and the event of one request
\* against those of another (SetTTL, then broadcast).
LastEventIsCurrent ==
    \A c \in Channels :
        Publishers(c) = {} /\ ~doubtful[c] => LastEvent(events[c]) = kv[c]

\* How a request looks to its user.
Stage(where, code) ==
    CASE where = "idle" -> "idle"
      [] where \in {"manage", "read", "get", "set", "delete"} -> "open"
      [] where = "publish" -> "applied"
      [] where = "done" /\ code = "ok" -> "succeeded"
      [] where = "done" /\ code \in Refusals -> "refused"
      [] OTHER -> "unknown"
stage == [r \in Requests |-> Stage(pc[r], status[r])]
target == [r \in Requests |->
    [op |-> IF call[r].op = "get" THEN "read" ELSE "write",
     channel |-> call[r].channel,
     value |-> IF Accepted(call[r]) THEN Stored(call[r]) ELSE NoTTL]]

\* What a get tells its user.
result == [r \in Requests |-> IF call[r].op = "get" THEN current[r] ELSE NoTTL]

Register == INSTANCE TTLRegister WITH Values <- Settings, register <- kv

\* The handlers, the permission check and the compare-and-set loop together
\* implement one register per channel with refusals and unknown outcomes: also
\* a get returns what the last write left there when it read.
ImplementsRegister == Register!Spec
==============================================================================
