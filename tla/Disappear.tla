------------------------------ MODULE Disappear ------------------------------
(***************************************************************************)
(* The server side of the plugin from the moment a post is sent until it   *)
(* is gone: the MessageHasBeenPosted hook that indexes a post's expiry,    *)
(* the sweeper that deletes expired posts and prunes their rows, the       *)
(* configuration switch between hard purge, soft delete and skip, and the  *)
(* plugin's activation, deactivation and crash.                            *)
(*                                                                         *)
(* A step ends where the Go code waits for the database, the KV store or   *)
(* the Mattermost API, so hooks, the sweeper and administrators interleave *)
(* between any two calls.  Each call may also fail.                        *)
(***************************************************************************)
EXTENDS ExpireIndex, PurgePolicy

CONSTANTS
    Channels,
    ChannelOf,      \* [Posts -> Channels]: the post's ChannelId
    NoTTL,          \* the setting of a channel without a TTL
    Durations,      \* the TTLs an administrator may choose, in clock ticks
    MinTTL,         \* the least TTL that ValidateTTL accepts
    BatchSize,      \* rows per sweep (500 in plugin.go)
    ServerVersion,  \* what GetServerVersion returns
    Configs,        \* configurations an administrator may save
    Licenses,       \* the values that GetLicense() != nil may take
    SerialHooks,    \* TRUE: Mattermost delivers post hooks one at a time, in
                    \* the order the posts were created; FALSE: concurrently
    MaxTime,        \* bound on the clock
    MaxStops        \* bound on crashes and deactivations together

ASSUME ServerAssumption ==
    /\ ChannelOf \in [Posts -> Channels]
    /\ \A p \in Posts : IsReply(p) => ChannelOf[p] = ChannelOf[RootOf[p]]
    /\ MinTTL \in Nat \ {0}
    /\ Durations \subseteq {d \in Nat : d >= MinTTL}
    /\ NoTTL \notin Durations
    /\ BatchSize \in Nat \ {0}
    /\ Licenses \subseteq BOOLEAN
    /\ SerialHooks \in BOOLEAN
    /\ MaxTime \in Nat
    /\ MaxStops \in Nat

ASSUME TextAssumption ==
    /\ ServerVersion \in Seq(STRING)
    /\ Configs \subseteq [EnablePurge : BOOLEAN, AllowlistRaw : Seq(STRING)]

VARIABLES
    clock,      \* time.Now in ticks, shared by the server and the sweeper
    ttl,        \* per channel, the TTL committed in the KV store
    highest,    \* history: per channel, the highest TTL that a hook has read
    cut,        \* history: per channel, the most by which a TTL that a hook read
                \* was below one that another hook had read before
    post,       \* per post, its state in the Mattermost database
    createAt,   \* per post, its CreateAt
    hook,       \* per post, how far MessageHasBeenPosted has got
    due,        \* per post, the expireAt that its running hook computed
    index,      \* the mpmd_expire table
    sweepPc,    \* what the running sweep does next
    batch,      \* the post ids the running sweep has read
    left,       \* of these, the ones DeletePost has not been called for yet
    snap,       \* the configuration that the running Purge call has read
    failed,     \* posts whose soft delete failed (each failure is logged)
    service,    \* which parts of the plugin OnActivate has wired
    sysConfig,  \* the configuration saved in the System Console
    cfg,        \* the plugin's live configuration (configHolder)
    license,    \* GetLicense() != nil
    stops,      \* crashes and deactivations so far
    drift       \* history: configuration or license changed since snap was read
                \* by the running sweep

vars == <<clock, ttl, highest, cut, post, createAt, hook, due, index, sweepPc, batch,
          left, snap, failed, service, sysConfig, cfg, license, stops, drift>>

postVars    == <<post, createAt>>
hookVars    == <<hook, due>>
sweepVars   == <<sweepPc, batch, left, snap, drift>>
pluginVars  == <<service, cfg, stops>>
ttlVars     == <<ttl, highest, cut>>
serverVars  == <<clock, ttlVars, sysConfig, license>>

-----------------------------------------------------------------------------
(* Domains *)

\* soft and purged are posts that the plugin deleted by their id, carried are
\* replies that went with their soft-deleted root, foreign is somebody else's work.
Deleted   == {"soft", "purged"}
ByPlugin  == Deleted \cup {"carried"}
PostState == {"unsent", "live", "foreign"} \cup ByPlugin

\* posted, upsert and bump are the points where a hook can be interrupted:
\* before GetTTL, before Upsert and before UpdateExpireByRoot.  The others are
\* final: skipped (channel without TTL), missed (the post never got a row),
\* unbumped (its row was written, its thread was not extended) and done.
Running   == {"posted", "upsert", "bump"}
WasIndexed == {"bump", "unbumped", "done"}
HookState == {"none", "skipped", "missed"} \cup Running \cup WasIndexed

\* The zero value of the Go struct, held until a configuration is loaded.
ZeroConfig == [EnablePurge |-> FALSE, AllowlistRaw |-> <<>>]
AllConfigs == Configs \cup {ZeroConfig}

\* bare: no database, only the TTL commands work; indexing: the expire index
\* is wired but the sweeper could not be scheduled; full: everything runs.
ServiceState == {"down", "bare", "indexing", "full"}

TypeOK ==
    /\ clock \in 0 .. MaxTime
    /\ ttl \in [Channels -> Durations \cup {NoTTL}]
    /\ highest \in [Channels -> Nat] /\ cut \in [Channels -> Nat]
    /\ post \in [Posts -> PostState]
    /\ createAt \in [Posts -> 0 .. MaxTime]
    /\ hook \in [Posts -> HookState]
    /\ due \in [Posts -> Nat]
    /\ IsIndex(index)
    /\ sweepPc \in {"idle", "config", "decide", "hard", "soft", "prune"}
    /\ batch \in SUBSET Posts
    /\ left \subseteq IF sweepPc = "soft" THEN batch ELSE {}
    /\ snap \in AllConfigs
    /\ failed \in SUBSET Posts
    /\ service \in ServiceState
    /\ sysConfig \in Configs
    /\ cfg \in AllConfigs
    /\ license \in Licenses
    /\ stops \in 0 .. MaxStops
    /\ drift \in BOOLEAN

Init ==
    /\ clock = 0
    /\ ttl = [c \in Channels |-> NoTTL]
    /\ highest = [c \in Channels |-> 0] /\ cut = [c \in Channels |-> 0]
    /\ post = [p \in Posts |-> "unsent"]
    /\ createAt = [p \in Posts |-> 0]
    /\ hook = [p \in Posts |-> "none"]
    /\ due = [p \in Posts |-> 0]
    /\ index = EmptyIndex
    /\ sweepPc = "idle"
    /\ batch = {}
    /\ left = {}
    /\ snap = ZeroConfig
    /\ failed = {}
    /\ service = "down"
    /\ sysConfig \in Configs
    /\ cfg = ZeroConfig
    /\ license \in Licenses
    /\ stops = 0
    /\ drift = FALSE

-----------------------------------------------------------------------------
(* The Mattermost server and its users *)

Tick ==
    /\ clock < MaxTime
    /\ clock' = clock + 1
    /\ UNCHANGED <<ttlVars, postVars, hookVars, index, sweepVars, failed, pluginVars,
                   sysConfig, license>>

\* ttl.Service.SetTTL and ClearTTL commit one value to the KV store.
ChangeTTL(c, d) ==
    /\ ttl' = [ttl EXCEPT ![c] = d]
    /\ UNCHANGED <<clock, highest, cut, postVars, hookVars, index, sweepVars, failed,
                   pluginVars, sysConfig, license>>

\* A user sends a post; a reply needs a live root.  The server then calls
\* MessageHasBeenPosted, which returns at once while no expire index is wired.
CreatePost(p) ==
    /\ post[p] = "unsent"
    /\ IsReply(p) => post[RootOf[p]] = "live"
    /\ post' = [post EXCEPT ![p] = "live"]
    /\ createAt' = [createAt EXCEPT ![p] = clock]
    /\ hook' = [hook EXCEPT ![p] =
                   IF service \in {"indexing", "full"} THEN "posted" ELSE "missed"]
    /\ UNCHANGED <<due, index, failed, sweepVars, pluginVars, serverVars>>

WithReplies(p) == {q \in Posts : q = p \/ RootOf[q] = p}

\* Native Data Retention deletes the post first, or a user does, and with a root
\* Mattermost deletes its replies.
ForeignDelete(p) ==
    /\ post[p] = "live"
    /\ \E gone \in {{p}, WithReplies(p)} :
          post' = [q \in Posts |-> IF q \in gone /\ post[q] = "live" THEN "foreign"
                                                                     ELSE post[q]]
    /\ UNCHANGED <<createAt, hookVars, index, failed, sweepVars, pluginVars,
                   serverVars>>

\* The running sweep has asked for the license, and acts on the answer.
Decided == sweepPc \in {"hard", "soft", "prune"}

\* A license is installed or removed.
SetLicense ==
    /\ (~license) \in Licenses
    /\ license' = ~license
    /\ drift' = (drift \/ Decided)
    /\ UNCHANGED <<clock, ttlVars, postVars, hookVars, index, sweepPc, batch, left, snap,
                   failed, pluginVars, sysConfig>>

-----------------------------------------------------------------------------
(* expiry.Service.OnPostCreated, one run per post *)

Earlier(q, p) == createAt[q] < createAt[p] \/ q = RootOf[p]

MayStart(p) ==
    SerialHooks => \A q \in Posts : /\ hook[q] \notin {"upsert", "bump"}
                                    /\ hook[q] = "posted" => ~Earlier(q, p)

\* What the TTL service finds in the KV store: NoTTL where it returns (0, false),
\* because a channel without a setting keeps its posts.
GetTTL(c) == ttl[c]

\* History: a hook has read TTL d of channel c.
NoteTTL(c, d) ==
    /\ highest' = [highest EXCEPT ![c] = IF d > @ THEN d ELSE @]
    /\ cut' = [cut EXCEPT ![c] = IF highest[c] > d + @ THEN highest[c] - d ELSE @]

\* Mutant of HookGetTTL: hasTTL is not looked at, so a channel without a TTL
\* gives its posts the duration zero.
HookGetTTLUnchecked(p) ==
    /\ hook[p] = "posted"
    /\ MayStart(p)
    /\ hook' = [hook EXCEPT ![p] = "upsert"]
    /\ due' = [due EXCEPT ![p] = createAt[p] + GetTTL(ChannelOf[p])]
    /\ NoteTTL(ChannelOf[p], GetTTL(ChannelOf[p]))
    /\ UNCHANGED <<postVars, index, failed, sweepVars, pluginVars, clock, ttl, sysConfig,
                   license>>

\* expireAt is CreateAt plus the TTL read.
HookGetTTL(p) ==
    /\ hook[p] = "posted"
    /\ MayStart(p)
    /\ LET d == GetTTL(ChannelOf[p])
       IN  \/ /\ d = NoTTL
              /\ hook' = [hook EXCEPT ![p] = "skipped"]
              /\ UNCHANGED <<due, highest, cut>>
           \/ /\ d # NoTTL
              /\ hook' = [hook EXCEPT ![p] = "upsert"]
              /\ due' = [due EXCEPT ![p] = createAt[p] + d]
              /\ NoteTTL(ChannelOf[p], d)
    /\ UNCHANGED <<postVars, index, failed, sweepVars, pluginVars, clock, ttl, sysConfig,
                   license>>

HookUpsert(p) ==
    /\ hook[p] = "upsert"
    /\ index' = Upsert(index, p, due[p])
    /\ IF IsReply(p)
       THEN /\ hook' = [hook EXCEPT ![p] = "bump"]
            /\ UNCHANGED due
       ELSE /\ hook' = [hook EXCEPT ![p] = "done"]
            /\ due' = [due EXCEPT ![p] = 0]
    /\ UNCHANGED <<postVars, failed, sweepVars, pluginVars, serverVars>>

\* Mutant of HookBump: the thread is moved to the reply's CreateAt, without TTL.
HookBumpToCreateAt(p) ==
    /\ hook[p] = "bump"
    /\ index' = UpdateExpireByRoot(index, threadRoot(p), createAt[p])
    /\ hook' = [hook EXCEPT ![p] = "done"]
    /\ due' = [due EXCEPT ![p] = 0]
    /\ UNCHANGED <<postVars, failed, sweepVars, pluginVars, serverVars>>

\* A reply moves every row of its thread to its own expiry.
HookBump(p) ==
    /\ hook[p] = "bump"
    /\ index' = UpdateExpireByRoot(index, threadRoot(p), due[p])
    /\ hook' = [hook EXCEPT ![p] = "done"]
    /\ due' = [due EXCEPT ![p] = 0]
    /\ UNCHANGED <<postVars, failed, sweepVars, pluginVars, serverVars>>

\* Where a hook that stops in state h ends up: nothing retries it.
Abandoned(h) ==
    CASE h \in {"posted", "upsert"} -> "missed"
      [] h = "bump"                 -> "unbumped"
      [] OTHER                      -> h

\* GetTTL, Upsert or UpdateExpireByRoot returns an error, which is logged.  (A
\* statement that commits although its answer is lost is HookUpsert followed
\* by this, or HookBump.)
HookError(p) ==
    /\ hook[p] \in Running
    /\ hook[p] = "posted" => MayStart(p)
    /\ hook' = [hook EXCEPT ![p] = Abandoned(hook[p])]
    /\ due' = [due EXCEPT ![p] = 0]
    /\ UNCHANGED <<postVars, index, failed, sweepVars, pluginVars, serverVars>>

-----------------------------------------------------------------------------
(* sweeper.Run, on one cluster node at a time (cluster.Schedule) *)

EndSweep ==
    /\ sweepPc' = "idle"
    /\ batch' = {}
    /\ left' = {}
    /\ snap' = ZeroConfig
    /\ drift' = FALSE

\* Mutant of SweepQuery: postIDs is allocated but not filled from the entries,
\* and holds empty ids.
SweepQueryUnfilled ==
    /\ service = "full"
    /\ sweepPc = "idle"
    /\ \E B \in GetExpired(index, clock, BatchSize) :
          /\ B # {}
          /\ batch' = {NoRoot}
    /\ sweepPc' = "config"
    /\ UNCHANGED <<left, snap, postVars, hookVars, index, failed, pluginVars, serverVars, drift>>

\* GetExpired: a query error and an empty result both end the tick.
SweepQuery ==
    /\ service = "full"
    /\ sweepPc = "idle"
    /\ \E B \in GetExpired(index, clock, BatchSize) :
          /\ B # {}
          /\ batch' = B
    /\ sweepPc' = "config"
    /\ UNCHANGED <<left, snap, postVars, hookVars, index, failed, pluginVars, serverVars, drift>>

\* configPurger.Purge reads its configuration once, then asks the server for
\* its license and version.
PurgeReadConfig ==
    /\ sweepPc = "config"
    /\ snap' = cfg
    /\ drift' = FALSE
    /\ sweepPc' = "decide"
    /\ UNCHANGED <<batch, left, postVars, hookVars, index, failed, pluginVars, serverVars>>

Decision(c) ==
    purgeDecision(c.EnablePurge, license, ServerVersion,
                  PurgeSchemaAllowlist(c.AllowlistRaw))

\* Mutant of PurgeDecide: a skip returns no error, so the rows are pruned.
PurgeDecideSkipSucceeds ==
    /\ sweepPc = "decide"
    /\ LET mode == Decision(snap)
       IN  /\ sweepPc' = IF mode = "skip" THEN "prune" ELSE mode
           /\ left' = IF mode = "soft" THEN batch ELSE {}
    /\ snap' = ZeroConfig
    /\ UNCHANGED <<batch, postVars, hookVars, index, failed, pluginVars,
                   serverVars, drift>>

\* A skip is an error to the sweeper, which keeps the rows and ends the tick.
PurgeDecide ==
    /\ sweepPc = "decide"
    /\ LET mode == Decision(snap)
       IN  \/ mode = "skip" /\ EndSweep
           \/ /\ mode # "skip"
              /\ sweepPc' = mode
              /\ left' = IF mode = "soft" THEN batch ELSE {}
              /\ snap' = ZeroConfig
              /\ UNCHANGED <<batch, drift>>
    /\ UNCHANGED <<postVars, hookVars, index, failed, pluginVars, serverVars>>

\* Mutant of PurgeRows: the posts of the whole thread go, indexed or not.
PurgeRowsOfThreads(B) ==
    [p \in Posts |-> IF \E q \in B : threadRoot(q) = threadRoot(p)
                     THEN "purged" ELSE post[p]]

PurgeRows(B) == [p \in Posts |-> IF p \in B THEN "purged" ELSE post[p]]

\* One transaction over all footprint tables: committed, or failed with nothing
\* deleted, or committed although Commit reported an error.
HardPurge ==
    /\ sweepPc = "hard"
    /\ \/ /\ post' = PurgeRows(batch)
          /\ sweepPc' = "prune"
          /\ UNCHANGED <<batch, left, snap, drift>>
       \/ /\ post' \in {post, PurgeRows(batch)}
          /\ EndSweep
    /\ UNCHANGED <<createAt, hookVars, index, failed, pluginVars, serverVars>>

\* Mattermost's DeletePost marks a post as deleted, and with a root its replies,
\* whether they have a row or not and whatever their own expiry is.
DeletePost(p) ==
    [q \in Posts |-> IF q = p THEN "soft"
                     ELSE IF q \in WithReplies(p) /\ post[q] = "live" THEN "carried"
                     ELSE post[q]]

\* DeletePost, one post after the other; a failure is logged and passed over.
\* Deleting a post that is already deleted is a failure.
SoftDelete(p) ==
    /\ sweepPc = "soft"
    /\ p \in left
    /\ \/ /\ post[p] = "live"
          /\ post' = DeletePost(p)
          /\ UNCHANGED failed
       \/ /\ failed' = failed \cup {p}
          /\ UNCHANGED post
    /\ left' = left \ {p}
    /\ sweepPc' = IF left' = {} THEN "prune" ELSE "soft"
    /\ UNCHANGED <<createAt, batch, snap, hookVars, index, pluginVars, serverVars, drift>>

\* Mutant of PruneRows: the rows of a purged batch are never deleted.
PruneRowsNever ==
    /\ sweepPc = "prune"
    /\ EndSweep
    /\ UNCHANGED <<index, postVars, hookVars, failed, pluginVars, serverVars>>

\* DeleteByPostIDs for the whole batch; an error is logged and the rows stay.
PruneRows ==
    /\ sweepPc = "prune"
    /\ index' \in {DeleteByPostIDs(index, batch), index}
    /\ EndSweep
    /\ UNCHANGED <<postVars, hookVars, failed, pluginVars, serverVars>>

-----------------------------------------------------------------------------
(* plugin.go: activation, configuration, deactivation, crash *)

\* Loading the configuration may fail, and so may wiring the expire index or
\* scheduling the sweeper: activation itself succeeds.
OnActivate ==
    /\ service = "down"
    /\ cfg' \in {sysConfig, ZeroConfig}
    /\ service' \in {"bare", "indexing", "full"}
    /\ UNCHANGED <<postVars, hookVars, index, sweepVars, failed, stops, serverVars>>

\* An administrator saves a configuration; an active plugin reloads it, and
\* keeps the one it has when loading fails.
OnConfigurationChange(c) ==
    /\ c # sysConfig
    /\ sysConfig' = c
    /\ cfg' \in IF service = "down" THEN {cfg} ELSE {c, cfg}
    /\ drift' = (drift \/ sweepPc = "decide" \/ Decided)
    /\ UNCHANGED <<clock, ttlVars, license, postVars, hookVars, index, sweepPc, batch, left,
                   snap, failed, service, stops>>

\* The process ends: hooks in flight are lost, memory is gone, the database
\* keeps what was committed.
ProcessEnds ==
    /\ service # "down"
    /\ stops < MaxStops
    /\ stops' = stops + 1
    /\ service' = "down"
    /\ cfg' = ZeroConfig
    /\ hook' = [p \in Posts |-> Abandoned(hook[p])]
    /\ due' = [p \in Posts |-> 0]
    /\ EndSweep
    /\ UNCHANGED <<postVars, index, failed, serverVars>>

Crash == ProcessEnds

\* Closing the sweeper job waits for the sweep that is running.
OnDeactivate == sweepPc = "idle" /\ ProcessEnds

-----------------------------------------------------------------------------
Sweep ==
    \/ SweepQuery \/ PurgeReadConfig \/ PurgeDecide \/ HardPurge
    \/ \E p \in Posts : SoftDelete(p)
    \/ PruneRows

Hook == \E p \in Posts :
    HookGetTTL(p) \/ HookUpsert(p) \/ HookBump(p) \/ HookError(p)

Environment ==
    \/ Tick
    \/ \E c \in Channels, d \in Durations \cup {NoTTL} : ChangeTTL(c, d)
    \/ \E p \in Posts : CreatePost(p) \/ ForeignDelete(p)
    \/ SetLicense
    \/ \E c \in Configs : OnConfigurationChange(c)

Next == Sweep \/ Hook \/ Environment \/ OnActivate \/ OnDeactivate \/ Crash

Spec == Init /\ [][Next]_vars

-----------------------------------------------------------------------------
(* Safety *)

\* No post is removed before its thread's root is at least the minimal TTL old,
\* however late, concurrent or reordered the hooks of the thread run and
\* whatever the channel's TTL is changed to meanwhile (OnPostCreated, Run).
ThreadMinimumLifetime ==
    \A p \in Posts : post[p] \in ByPlugin => clock >= createAt[threadRoot(p)] + MinTTL

\* When hooks arrive in order, the plugin deletes no post before it is itself at
\* least the minimal TTL old: no bump by another reply of the thread, and no change
\* of the TTL, can shorten its life below that (OnPostCreated, Run).  A reply that
\* goes with its soft-deleted root may be younger; ThreadMinimumLifetime bounds it.
MinimumLifetime ==
    SerialHooks => \A p \in Posts :
        post[p] \in Deleted => clock >= createAt[p] + MinTTL

\* The rows of a thread carry one expire_at, so that it disappears as a whole
\* (D5), unless a reply's bump is still to come or was lost.  It relies on the
\* root having its row before its replies do, as service.go:76 argues.
ThreadExpiresTogether ==
    SerialHooks => \A p, q \in DOMAIN index :
        threadRoot(p) = threadRoot(q) /\ index[p] # index[q]
          => \E r \in Posts : /\ threadRoot(r) = threadRoot(p)
                              /\ hook[r] \in {"bump", "unbumped"}

\* A post that was given an expiry is never forgotten: its row is there, or the
\* post is gone, or a failed soft delete was logged.  Every error path of the
\* sweep (skip, failed purge, failed prune, crash) has to keep the row.
NeverForgotten ==
    \A p \in Posts : hook[p] \in WasIndexed =>
        \/ p \in DOMAIN index
        \/ post[p] \in ByPlugin \cup {"foreign"}
        \/ p \in failed

\* The plugin deletes only posts that were given an expiry of their own: a post of
\* a channel without TTL, or one whose hook failed, survives the hard purge of
\* every other post of its thread.  Without an expiry a reply goes only with its
\* root, when the plugin soft-deleted that one (SQL purge by id, DeletePost).
OnlyIndexedRemoved ==
    \A p \in Posts :
        /\ post[p] \in Deleted => hook[p] \in WasIndexed
        /\ post[p] = "carried" => IsReply(p) /\ post[RootOf[p]] \in Deleted

\* A post is destroyed only on an unlicensed server whose version starts with
\* an entry of the allowlist, with the purge enabled; it is soft-deleted only
\* when the purge is off or a license is installed.  Only a change made during
\* the sweep itself may be missed (configPurger.Purge, D10, D11).
DeletionMatchesPolicy ==
    [][\A p \in Posts : post[p] # post'[p] /\ ~drift =>
          /\ post'[p] = "purged" =>
                /\ cfg.EnablePurge
                /\ ~license
                /\ \E e \in PurgeSchemaAllowlist(cfg.AllowlistRaw) :
                      e = SubSeq(ServerVersion, 1, Len(e))
          /\ post'[p] \in {"soft", "carried"} => ~cfg.EnablePurge \/ license]_vars

\* With hooks in order, a row's expiry moves back by no more than the TTL of its
\* channel was cut from one hook to a later one: with a TTL that is only raised, a
\* reply never takes time from the thread (UpdateExpireByRoot without a guard,
\* service.go:75-82).
RegressOnlyByTTLCut ==
    [][SerialHooks => \A p \in DOMAIN index \cap DOMAIN index' :
          index[p] <= index'[p] + cut[ChannelOf[p]]]_vars

\* A row's expiry is never moved back ("a forward bump can never regress an
\* earlier reply", service.go:78).
BumpNeverRegresses ==
    [][\A p \in DOMAIN index \cap DOMAIN index' : index'[p] >= index[p]]_vars

\* A post whose deletion failed keeps its row, so that the next tick tries
\* again ("keep all rows so the batch is retried next tick", sweeper.go:58).
FailedDeletionRetried ==
    \A p \in failed : post[p] = "live" => p \in DOMAIN index

\* A reply extends the whole thread (D5, service.go:24): a post whose row is
\* not due any more is not removed.
ExtendedThreadSurvives ==
    [][\A p \in DOMAIN index :
          post[p] = "live" /\ post'[p] \in Deleted => index[p] <= clock]_vars

-----------------------------------------------------------------------------
(* Liveness *)

\* cluster.Schedule calls Run again and again, and Run takes its steps; the
\* database does not fail forever.
FairSpec ==
    /\ Spec
    /\ WF_vars(SweepQuery)
    /\ WF_vars(PurgeReadConfig)
    /\ WF_vars(PurgeDecide)
    /\ WF_vars(HardPurge)
    /\ SF_vars(HardPurge /\ sweepPc' = "prune")
    /\ WF_vars(\E p \in Posts : SoftDelete(p))
    /\ WF_vars(PruneRows)
    /\ SF_vars(PruneRows /\ index' # index)

\* The sweeper stays scheduled under one configuration and license that let it
\* delete.
Settled ==
    \E c \in AllConfigs, l \in Licenses :
        <>[](service = "full" /\ cfg = c /\ license = l /\ Decision(c) # "skip")

\* An expired row does not stay: under the fairness above the sweeper removes
\* it, whatever failed before, however many rows share a batch and however often
\* the limit cut it off, or a reply extends it (Run, GetExpired).
ExpiredEventuallySwept ==
    Settled => \A p \in Posts :
        p \in Expired(index, clock) ~> p \notin Expired(index, clock)
=============================================================================
