--------------------------- MODULE DisappearProofs ---------------------------
(***************************************************************************)
(* Theorems about Disappear, for every population of posts, every TTL and  *)
(* every configuration: its types, the minimal lifetime of a thread, and   *)
(* that no indexed post is lost.  TypeOK and Safe together are the         *)
(* inductive invariant.                                                    *)
(***************************************************************************)
EXTENDS Disappear, PurgePolicyProofs, TLAPS

-----------------------------------------------------------------------------
(* The inductive invariant *)

\* The earliest time at which the thread of p may lose a post.
Floor(p) == createAt[threadRoot(p)] + MinTTL

\* A sent reply follows its root, and nothing was sent in the future.
Sent ==
    /\ \A p \in Posts : createAt[p] <= clock
    /\ \A p \in Posts : hook[p] # "none" => post[p] # "unsent"
    /\ \A p \in Posts : post[p] # "unsent" =>
          /\ post[threadRoot(p)] # "unsent"
          /\ createAt[threadRoot(p)] <= createAt[p]

\* Every expiry, running or stored, lies at or after the thread's floor.
Late ==
    /\ \A p \in Posts : hook[p] \in {"upsert", "bump"} => due[p] >= createAt[p] + MinTTL
    /\ \A p \in DOMAIN index : index[p] >= Floor(p)
    /\ \A p \in batch : clock >= Floor(p)

\* Only a post whose own hook wrote a row has a row, or is up for deletion.
Owned ==
    /\ \A p \in DOMAIN index : hook[p] \in WasIndexed
    /\ \A p \in batch : hook[p] \in WasIndexed

\* What the sweep has dealt with is not a live post without a failure logged.
Dealt(p) == post[p] # "live" \/ p \in failed

Swept ==
    /\ sweepPc = "soft" => \A p \in batch \ left : Dealt(p)
    /\ sweepPc = "prune" => \A p \in batch : Dealt(p)

Safe ==
    /\ Sent
    /\ Late
    /\ Owned
    /\ Swept
    /\ ThreadMinimumLifetime
    /\ NeverForgotten
    /\ OnlyIndexedRemoved

IInv == TypeOK /\ Safe

-----------------------------------------------------------------------------
(* The statements of the expire index, and the decision *)

\* Upsert adds or replaces exactly the row of its post.
LEMMA UpsertFacts ==
    ASSUME NEW idx, IsIndex(idx), NEW p \in Posts, NEW t \in Nat
    PROVE  /\ IsIndex(Upsert(idx, p, t))
           /\ DOMAIN Upsert(idx, p, t) = DOMAIN idx \cup {p}
           /\ Upsert(idx, p, t)[p] = t
           /\ \A q \in DOMAIN idx : q # p => Upsert(idx, p, t)[q] = idx[q]
BY DEF IsIndex, Upsert

\* UpdateExpireByRoot keeps the rows and sets those of one thread.
LEMMA BumpFacts ==
    ASSUME NEW idx, IsIndex(idx), NEW root, NEW t \in Nat
    PROVE  /\ IsIndex(UpdateExpireByRoot(idx, root, t))
           /\ DOMAIN UpdateExpireByRoot(idx, root, t) = DOMAIN idx
           /\ \A q \in DOMAIN idx :
                 UpdateExpireByRoot(idx, root, t)[q] =
                    IF threadRoot(q) = root THEN t ELSE idx[q]
BY DEF IsIndex, UpdateExpireByRoot

\* DeleteByPostIDs removes rows and changes none.
LEMMA DeleteFacts ==
    ASSUME NEW idx, IsIndex(idx), NEW ids
    PROVE  /\ IsIndex(DeleteByPostIDs(idx, ids))
           /\ DOMAIN DeleteByPostIDs(idx, ids) = DOMAIN idx \ ids
           /\ \A q \in DOMAIN idx \ ids : DeleteByPostIDs(idx, ids)[q] = idx[q]
BY DEF IsIndex, DeleteByPostIDs

\* GetExpired returns rows that are due.
LEMMA ExpiredFacts ==
    ASSUME NEW idx, IsIndex(idx), NEW now, NEW limit,
           NEW B \in GetExpired(idx, now, limit)
    PROVE  /\ B \subseteq Posts
           /\ B \subseteq DOMAIN idx
           /\ \A p \in B : idx[p] <= now
BY DEF IsIndex, GetExpired, Expired

\* A thread's root is a post, and is its own thread root.
LEMMA RootFacts ==
    ASSUME NEW p \in Posts
    PROVE  /\ threadRoot(p) \in Posts
           /\ threadRoot(threadRoot(p)) = threadRoot(p)
           /\ IsReply(p) => threadRoot(p) = RootOf[p]
           /\ ~IsReply(p) => threadRoot(p) = p
BY ThreadAssumption DEF threadRoot, IsReply

\* An expiry is a time, and at least MinTTL away.
LEMMA DueFacts ==
    ASSUME NEW t \in Nat, NEW d \in Durations
    PROVE  t + d \in Nat /\ t + d >= t + MinTTL
<1>1. d \in Nat /\ MinTTL \in Nat /\ d >= MinTTL
  BY ServerAssumption
<1> QED
  BY <1>1

\* There are three modes.
LEMMA DecisionMode ==
    ASSUME NEW c
    PROVE  Decision(c) \in {"soft", "skip", "hard"}
BY DEF Decision, purgeDecision

-----------------------------------------------------------------------------
(* Types *)

\* The types, at the start and after every step.
LEMMA InitTypeOK == Init => TypeOK
<1> SUFFICES ASSUME Init PROVE TypeOK
  OBVIOUS
<1>1. IsIndex(index)
  BY DEF Init, IsIndex, EmptyIndex
<1>2. 0 \in 0 .. MaxTime /\ 0 \in 0 .. MaxStops
  BY ServerAssumption
<1> QED
  BY <1>1, <1>2 DEF Init, TypeOK, PostState, HookState, ServiceState, AllConfigs

\* What the history notes of a TTL is a duration, or a difference of two.
LEMMA NoteTyped ==
    ASSUME highest \in [Channels -> Nat], cut \in [Channels -> Nat],
           NEW c \in Channels, NEW d \in Durations, NoteTTL(c, d)
    PROVE  highest' \in [Channels -> Nat] /\ cut' \in [Channels -> Nat]
<1>1. d \in Nat
  BY ServerAssumption
<1>2. highest[c] > d + cut[c] => highest[c] - d \in Nat
  BY <1>1
<1> QED
  BY <1>1, <1>2 DEF NoteTTL

\* No step leaves the types.
LEMMA NextTypeOK == TypeOK /\ [Next]_vars => TypeOK'
<1> SUFFICES ASSUME TypeOK, [Next]_vars PROVE TypeOK'
  OBVIOUS
<1> USE ServerAssumption
<1> USE DEF postVars, hookVars, sweepVars, pluginVars, ttlVars, serverVars
<1>1. CASE Tick
  BY <1>1 DEF Tick, TypeOK, IsIndex
<1>2. ASSUME NEW c \in Channels, NEW d \in Durations \cup {NoTTL}, ChangeTTL(c, d)
      PROVE  TypeOK'
  BY <1>2 DEF ChangeTTL, TypeOK, IsIndex
<1>3. ASSUME NEW p \in Posts, CreatePost(p)
      PROVE  TypeOK'
  BY <1>3 DEF CreatePost, TypeOK, IsIndex, PostState, HookState, Running
<1>4. ASSUME NEW p \in Posts, ForeignDelete(p)
      PROVE  TypeOK'
  BY <1>4 DEF ForeignDelete, TypeOK, IsIndex, PostState
<1>5. CASE SetLicense
  BY <1>5 DEF SetLicense, Decided, TypeOK, IsIndex
<1>6. ASSUME NEW c \in Configs, OnConfigurationChange(c)
      PROVE  TypeOK'
  BY <1>6 DEF OnConfigurationChange, Decided, TypeOK, IsIndex, AllConfigs
<1>7. ASSUME NEW p \in Posts, HookGetTTL(p)
      PROVE  TypeOK'
  <2>1. ttl[ChannelOf[p]] \in Durations \cup {NoTTL}
    BY DEF TypeOK
  <2>2. ttl[ChannelOf[p]] # NoTTL => createAt[p] + ttl[ChannelOf[p]] \in Nat
    <3>1. createAt[p] \in Nat
      BY DEF TypeOK
    <3> QED
      BY <2>1, <3>1, DueFacts
  <2>3. due' \in [Posts -> Nat]
    BY <1>7, <2>2 DEF HookGetTTL, GetTTL, TypeOK
  <2>4. hook' \in [Posts -> HookState]
    BY <1>7 DEF HookGetTTL, GetTTL, TypeOK, HookState, Running
  <2>5. highest' \in [Channels -> Nat] /\ cut' \in [Channels -> Nat]
    <3>1. CASE UNCHANGED <<highest, cut>>
      BY <3>1 DEF TypeOK
    <3>2. CASE NoteTTL(ChannelOf[p], ttl[ChannelOf[p]]) /\ ttl[ChannelOf[p]] \in Durations
      BY <3>2, NoteTyped DEF TypeOK
    <3> QED
      BY <1>7, <2>1, <3>1, <3>2 DEF HookGetTTL, GetTTL
  <2> QED
    BY <1>7, <2>3, <2>4, <2>5 DEF HookGetTTL, GetTTL, TypeOK, IsIndex
<1>8. ASSUME NEW p \in Posts, HookUpsert(p)
      PROVE  TypeOK'
  <2>1. due[p] \in Nat
    BY DEF TypeOK
  <2>2. IsIndex(index')
    BY <1>8, <2>1, UpsertFacts DEF HookUpsert, TypeOK
  <2>3. hook' \in [Posts -> HookState] /\ due' \in [Posts -> Nat]
    BY <1>8 DEF HookUpsert, TypeOK, HookState, Running, WasIndexed
  <2> QED
    BY <1>8, <2>2, <2>3 DEF HookUpsert, TypeOK
<1>9. ASSUME NEW p \in Posts, HookBump(p)
      PROVE  TypeOK'
  <2>1. due[p] \in Nat
    BY DEF TypeOK
  <2>2. IsIndex(index')
    BY <1>9, <2>1, BumpFacts DEF HookBump, TypeOK
  <2>3. hook' \in [Posts -> HookState] /\ due' \in [Posts -> Nat]
    BY <1>9 DEF HookBump, TypeOK, HookState, WasIndexed
  <2> QED
    BY <1>9, <2>2, <2>3 DEF HookBump, TypeOK
<1>10. ASSUME NEW p \in Posts, HookError(p)
       PROVE  TypeOK'
  <2>1. Abandoned(hook[p]) \in HookState
    BY <1>10 DEF HookError, Abandoned, HookState, Running, WasIndexed
  <2> QED
    BY <1>10, <2>1 DEF HookError, TypeOK, IsIndex
<1>11. CASE SweepQuery
  <2>1. batch' \subseteq Posts /\ sweepPc' = "config"
    BY <1>11, ExpiredFacts DEF SweepQuery, TypeOK
  <2> QED
    BY <1>11, <2>1 DEF SweepQuery, TypeOK
<1>12. CASE PurgeReadConfig
  BY <1>12 DEF PurgeReadConfig, TypeOK, IsIndex
<1>13. CASE PurgeDecide
  BY <1>13, DecisionMode DEF PurgeDecide, EndSweep, TypeOK, IsIndex, AllConfigs
<1>14. CASE HardPurge
  <2>1. PurgeRows(batch) \in [Posts -> PostState]
    BY DEF PurgeRows, TypeOK, PostState, ByPlugin, Deleted
  <2> QED
    BY <1>14, <2>1 DEF HardPurge, EndSweep, TypeOK, IsIndex, AllConfigs
<1>15. ASSUME NEW p \in Posts, SoftDelete(p)
       PROVE  TypeOK'
  <2>1. post' \in [Posts -> PostState]
    BY <1>15 DEF SoftDelete, DeletePost, TypeOK, PostState, ByPlugin, Deleted
  <2> QED
    BY <1>15, <2>1 DEF SoftDelete, TypeOK, IsIndex
<1>16. CASE PruneRows
  <2>1. IsIndex(DeleteByPostIDs(index, batch)) /\ IsIndex(index)
    BY DeleteFacts DEF TypeOK
  <2>2. IsIndex(index')
    BY <1>16, <2>1 DEF PruneRows
  <2> QED
    BY <1>16, <2>2 DEF PruneRows, EndSweep, TypeOK, AllConfigs
<1>17. CASE OnActivate
  BY <1>17 DEF OnActivate, TypeOK, IsIndex, AllConfigs, ServiceState
<1>18. CASE ProcessEnds
  <2>1. \A p \in Posts : Abandoned(hook[p]) \in HookState
    BY DEF Abandoned, TypeOK, HookState, Running, WasIndexed
  <2>2. hook' \in [Posts -> HookState] /\ due' \in [Posts -> Nat]
    BY <1>18, <2>1 DEF ProcessEnds
  <2>3. stops' \in 0 .. MaxStops
    BY <1>18 DEF ProcessEnds, TypeOK
  <2> QED
    BY <1>18, <2>2, <2>3 DEF ProcessEnds, EndSweep, TypeOK, IsIndex, AllConfigs, ServiceState
<1>19. CASE UNCHANGED vars
  BY <1>19 DEF vars, TypeOK, IsIndex
<1> QED
  BY <1>1, <1>2, <1>3, <1>4, <1>5, <1>6, <1>7, <1>8, <1>9, <1>10, <1>11, <1>12,
     <1>13, <1>14, <1>15, <1>16, <1>17, <1>18, <1>19
     DEF Next, Sweep, Hook, Environment, OnDeactivate, Crash

\* Every variable of every reachable state has its type: no hook, sweep, crash
\* or reload leaves the plugin or its table in an undefined state.
THEOREM TypeCorrect == Spec => []TypeOK
BY InitTypeOK, NextTypeOK, PTL DEF Spec

-----------------------------------------------------------------------------
(* Safety: steps that leave the posts and the table alone *)

\* A thread's floor is an instant.
LEMMA FloorNat ==
    ASSUME TypeOK, NEW p \in Posts
    PROVE  Floor(p) \in Nat
<1>1. createAt[threadRoot(p)] \in Nat
  BY RootFacts DEF TypeOK
<1>2. MinTTL \in Nat
  BY ServerAssumption
<1> QED
  BY <1>1, <1>2 DEF Floor

\* Before the first post, nothing can be too early.
LEMMA InitSafe == Init => Safe
<1> SUFFICES ASSUME Init PROVE Safe
  OBVIOUS
<1>1. Sent
  BY RootFacts DEF Init, Sent
<1>2. Late /\ Owned
  BY DEF Init, Late, Owned, EmptyIndex
<1>3. Swept
  BY DEF Init, Swept
<1>4. ThreadMinimumLifetime /\ NeverForgotten /\ OnlyIndexedRemoved
  BY DEF Init, ThreadMinimumLifetime, NeverForgotten, OnlyIndexedRemoved, ByPlugin,
         Deleted, WasIndexed
<1> QED
  BY <1>1, <1>2, <1>3, <1>4 DEF Safe

\* Time passes, or the sweep moves on without touching anything.
LEMMA QuietSafe ==
    ASSUME TypeOK, Safe,
           UNCHANGED <<post, createAt, hook, due, index, failed>>,
           clock' \in Nat, clock' >= clock,
           batch' \subseteq batch, Swept'
    PROVE  Safe'
<1>1. clock \in Nat /\ createAt \in [Posts -> Nat] /\ batch \subseteq Posts
  BY DEF TypeOK
<1>2. \A p \in Posts : Floor(p) \in Nat /\ Floor(p)' = Floor(p)
  BY FloorNat DEF Floor
<1>3. Sent'
  BY <1>1 DEF Safe, Sent
<1>4. Late'
  <2>1. \A p \in batch' : clock' >= Floor(p)'
    BY <1>1, <1>2 DEF Safe, Late
  <2>2. \A p \in DOMAIN index' : index'[p] >= Floor(p)'
    BY DEF Safe, Late, Floor
  <2>3. \A p \in Posts : hook'[p] \in {"upsert", "bump"} => due'[p] >= createAt'[p] + MinTTL
    BY DEF Safe, Late
  <2> QED
    BY <2>1, <2>2, <2>3 DEF Late
<1>5. Owned'
  BY DEF Safe, Owned
<1>6. ThreadMinimumLifetime'
  BY <1>1, <1>2 DEF Safe, ThreadMinimumLifetime, Floor
<1>7. NeverForgotten' /\ OnlyIndexedRemoved'
  BY DEF Safe, NeverForgotten, OnlyIndexedRemoved
<1> QED
  BY <1>3, <1>4, <1>5, <1>6, <1>7 DEF Safe

-----------------------------------------------------------------------------
(* Safety: posts *)

\* A row and a member of the batch belong to a post that was sent.
LEMMA RowsSent ==
    ASSUME TypeOK, Safe
    PROVE  /\ \A q \in DOMAIN index : q \in Posts /\ post[q] # "unsent"
           /\ \A q \in batch : q \in Posts /\ post[q] # "unsent"
BY DEF TypeOK, IsIndex, Safe, Owned, Sent, WasIndexed

\* A step that removes nobody, and takes nothing back.
LEMMA RemovedStays ==
    ASSUME Safe,
           \A q \in Posts : post'[q] # post[q] =>
               post[q] \notin ByPlugin /\ post'[q] \notin ByPlugin,
           \A q \in Posts : hook[q] \in WasIndexed => hook'[q] \in WasIndexed
    PROVE  OnlyIndexedRemoved'
<1> SUFFICES ASSUME NEW q \in Posts
             PROVE  /\ post'[q] \in Deleted => hook'[q] \in WasIndexed
                    /\ post'[q] = "carried" => IsReply(q) /\ post'[RootOf[q]] \in Deleted
  BY DEF OnlyIndexedRemoved
<1>1. ASSUME post'[q] \in ByPlugin PROVE post[q] = post'[q]
  BY <1>1
<1>2. ASSUME post'[q] = "carried"
      PROVE  IsReply(q) /\ RootOf[q] \in Posts /\ post[RootOf[q]] \in Deleted
  BY <1>1, <1>2, RootFacts DEF Safe, OnlyIndexedRemoved, ByPlugin
<1> QED
  BY <1>1, <1>2 DEF Safe, OnlyIndexedRemoved, ByPlugin

\* A new post is due no earlier than its floor.
LEMMA CreateSafe ==
    ASSUME TypeOK, Safe, NEW p \in Posts, CreatePost(p)
    PROVE  Safe'
<1> USE DEF hookVars, sweepVars, pluginVars, ttlVars, serverVars
<1>1. clock \in Nat /\ createAt \in [Posts -> Nat] /\ batch \subseteq Posts
  BY DEF TypeOK
<1>2. /\ post \in [Posts -> PostState] /\ hook \in [Posts -> HookState]
      /\ post[p] = "unsent" /\ hook[p] = "none"
  BY DEF TypeOK, CreatePost, Safe, Sent
<1>3. /\ createAt' = [createAt EXCEPT ![p] = clock]
      /\ post' = [post EXCEPT ![p] = "live"]
      /\ UNCHANGED <<due, index, failed, clock, batch, left, sweepPc>>
  BY DEF CreatePost
<1>4. /\ hook'[p] \in {"posted", "missed"}
      /\ \A q \in Posts : q # p => hook'[q] = hook[q]
  BY <1>2 DEF CreatePost
<1>5. ASSUME NEW q \in Posts, post[q] # "unsent"
      PROVE  /\ q # p /\ threadRoot(q) # p
             /\ post'[q] = post[q] /\ createAt'[q] = createAt[q]
             /\ Floor(q)' = Floor(q)
  <2>1. threadRoot(q) \in Posts /\ threadRoot(q) # p /\ q # p
    BY <1>2, <1>5, RootFacts DEF Safe, Sent
  <2> QED
    BY <1>1, <1>2, <1>3, <2>1 DEF Floor
<1>6. \A q \in DOMAIN index \cup batch :
          q # p /\ q \in Posts /\ Floor(q)' = Floor(q) /\ hook'[q] = hook[q]
  BY <1>4, <1>5, RowsSent
<1>7. Sent'
  <2>1. \A q \in Posts : createAt'[q] <= clock'
    BY <1>1, <1>3 DEF Safe, Sent
  <2>2. \A q \in Posts : hook'[q] # "none" => post'[q] # "unsent"
    BY <1>2, <1>3, <1>4 DEF Safe, Sent
  <2>3. ASSUME NEW q \in Posts, post'[q] # "unsent"
        PROVE  post'[threadRoot(q)] # "unsent" /\ createAt'[threadRoot(q)] <= createAt'[q]
    <3>1. CASE q # p
      <4>1. post[q] # "unsent"
        BY <1>2, <1>3, <2>3, <3>1
      <4>2. /\ post[threadRoot(q)] # "unsent" /\ createAt[threadRoot(q)] <= createAt[q]
            /\ threadRoot(q) \in Posts
        BY <4>1, RootFacts DEF Safe, Sent
      <4> QED
        BY <1>1, <1>2, <1>3, <1>5, <4>1, <4>2
    <3>2. CASE q = p /\ IsReply(p)
      <4>1. /\ threadRoot(p) \in Posts /\ threadRoot(p) = RootOf[p]
            /\ post[RootOf[p]] = "live"
        BY <3>2, RootFacts DEF CreatePost
      <4>2. createAt[threadRoot(p)] <= clock /\ threadRoot(p) # p
        BY <1>2, <4>1 DEF Safe, Sent
      <4> QED
        BY <1>1, <1>2, <1>3, <3>2, <4>1, <4>2
    <3>3. CASE q = p /\ ~IsReply(p)
      BY <1>1, <1>2, <1>3, <3>3, RootFacts
    <3> QED
      BY <3>1, <3>2, <3>3
  <2> QED
    BY <2>1, <2>2, <2>3 DEF Sent
<1>8. Late'
  <2>1. \A q \in Posts : hook'[q] \in {"upsert", "bump"} => due'[q] >= createAt'[q] + MinTTL
    BY <1>1, <1>3, <1>4 DEF Safe, Late
  <2> QED
    BY <1>3, <1>6, <2>1 DEF Safe, Late
<1>9. Owned'
  BY <1>3, <1>6 DEF Safe, Owned
<1>10. Swept'
  BY <1>2, <1>3, <1>6 DEF Safe, Swept, Dealt
<1>11. ThreadMinimumLifetime'
  <2>1. \A q \in Posts : post'[q] \in ByPlugin => post[q] \in ByPlugin /\ post[q] # "unsent"
    BY <1>2, <1>3 DEF ByPlugin, Deleted
  <2> QED
    BY <1>3, <1>5, <2>1 DEF Safe, ThreadMinimumLifetime, Floor
<1>12. NeverForgotten'
  BY <1>2, <1>3, <1>4 DEF Safe, NeverForgotten, ByPlugin, Deleted, WasIndexed
<1>13. OnlyIndexedRemoved'
  <2>1. \A q \in Posts : post'[q] # post[q] => post[q] = "unsent" /\ post'[q] = "live"
    BY <1>2, <1>3
  <2>2. \A q \in Posts : hook[q] \in WasIndexed => hook'[q] \in WasIndexed
    BY <1>2, <1>4 DEF WasIndexed
  <2> QED
    BY <2>1, <2>2, RemovedStays DEF ByPlugin, Deleted
<1> QED
  BY <1>7, <1>8, <1>9, <1>10, <1>11, <1>12, <1>13 DEF Safe

\* A post that somebody else deletes leaves its row behind.
LEMMA ForeignDeleteSafe ==
    ASSUME TypeOK, Safe, NEW p \in Posts, ForeignDelete(p)
    PROVE  Safe'
<1> USE DEF hookVars, sweepVars, pluginVars, ttlVars, serverVars
<1>1. post \in [Posts -> PostState]
  BY DEF TypeOK
<1>2. /\ \A q \in Posts : post'[q] # post[q] => post[q] = "live" /\ post'[q] = "foreign"
      /\ UNCHANGED <<createAt, hook, due, index, failed, clock, batch, left, sweepPc>>
  BY DEF ForeignDelete
<1>3. Sent'
  BY <1>1, <1>2, RootFacts DEF Safe, Sent
<1>4. Late' /\ Owned'
  BY <1>2 DEF Safe, Late, Owned, Floor
<1>5. Swept'
  BY <1>1, <1>2 DEF Safe, Swept, Dealt, TypeOK
<1>6. ThreadMinimumLifetime'
  BY <1>1, <1>2 DEF Safe, ThreadMinimumLifetime, ByPlugin, Deleted
<1>7. NeverForgotten'
  BY <1>1, <1>2 DEF Safe, NeverForgotten, ByPlugin, Deleted
<1>8. OnlyIndexedRemoved'
  BY <1>2, RemovedStays DEF ByPlugin, Deleted
<1> QED
  BY <1>3, <1>4, <1>5, <1>6, <1>7, <1>8 DEF Safe

-----------------------------------------------------------------------------
(* Safety: hooks *)

\* A hook that neither writes the table nor gains or loses a row.
LEMMA HookSafe ==
    ASSUME TypeOK, Safe,
           UNCHANGED <<post, createAt, index, failed, clock>>,
           batch' \subseteq batch, Swept',
           \A q \in Posts : hook'[q] \in WasIndexed <=> hook[q] \in WasIndexed,
           \A q \in Posts : hook'[q] # "none" => hook[q] # "none",
           \A q \in Posts : hook'[q] \in {"upsert", "bump"} =>
              due'[q] >= createAt[q] + MinTTL
    PROVE  Safe'
<1>1. batch \subseteq Posts /\ DOMAIN index \subseteq Posts
  BY DEF TypeOK, IsIndex
<1>2. Sent'
  BY DEF Safe, Sent
<1>3. Late'
  BY DEF Safe, Late, Floor
<1>4. Owned'
  BY <1>1 DEF Safe, Owned
<1>5. ThreadMinimumLifetime'
  BY DEF Safe, ThreadMinimumLifetime
<1>6. NeverForgotten' /\ OnlyIndexedRemoved'
  BY RemovedStays DEF Safe, NeverForgotten
<1> QED
  BY <1>2, <1>3, <1>4, <1>5, <1>6 DEF Safe

\* A hook that has read the TTL computes an expiry above the floor.
LEMMA GetTTLSafe ==
    ASSUME TypeOK, Safe, NEW p \in Posts, HookGetTTL(p)
    PROVE  Safe'
<1> USE DEF postVars, sweepVars, pluginVars, ttlVars, serverVars
<1>1. /\ hook \in [Posts -> HookState] /\ due \in [Posts -> Nat]
      /\ createAt[p] \in Nat /\ ttl[ChannelOf[p]] \in Durations \cup {NoTTL}
  BY ServerAssumption DEF TypeOK
<1>2. /\ hook[p] = "posted" /\ hook'[p] \in {"skipped", "upsert"}
      /\ \A q \in Posts : q # p => hook'[q] = hook[q] /\ due'[q] = due[q]
      /\ UNCHANGED <<post, createAt, index, failed, clock, batch, left, sweepPc>>
  BY <1>1 DEF HookGetTTL, GetTTL
<1>3. hook'[p] = "upsert" => due'[p] >= createAt[p] + MinTTL
  BY <1>1, DueFacts DEF HookGetTTL, GetTTL
<1>4. Swept'
  BY <1>2 DEF Safe, Swept, Dealt
<1>5. \A q \in Posts : /\ hook'[q] \in WasIndexed <=> hook[q] \in WasIndexed
                       /\ hook'[q] # "none" => hook[q] # "none"
  BY <1>2 DEF WasIndexed
<1>6. \A q \in Posts : hook'[q] \in {"upsert", "bump"} => due'[q] >= createAt[q] + MinTTL
  BY <1>2, <1>3 DEF Safe, Late
<1> QED
  BY <1>2, <1>4, <1>5, <1>6, HookSafe

\* A hook's row carries what it computed.
LEMMA UpsertSafe ==
    ASSUME TypeOK, Safe, NEW p \in Posts, HookUpsert(p)
    PROVE  Safe'
<1> USE DEF postVars, sweepVars, pluginVars, ttlVars, serverVars
<1>1. /\ hook \in [Posts -> HookState] /\ due \in [Posts -> Nat] /\ IsIndex(index)
      /\ createAt \in [Posts -> Nat] /\ MinTTL \in Nat /\ batch \subseteq Posts
  BY ServerAssumption DEF TypeOK
<1>2. /\ hook[p] = "upsert" /\ hook'[p] \in {"bump", "done"}
      /\ hook'[p] = "bump" => due'[p] = due[p]
      /\ \A q \in Posts : q # p => hook'[q] = hook[q] /\ due'[q] = due[q]
      /\ UNCHANGED <<post, createAt, failed, clock, batch, left, sweepPc>>
  BY <1>1 DEF HookUpsert
<1>3. /\ DOMAIN index' = DOMAIN index \cup {p} /\ DOMAIN index \subseteq Posts
      /\ index'[p] = due[p]
      /\ \A q \in DOMAIN index : q # p => index'[q] = index[q]
  <2>1. due[p] \in Nat /\ index' = Upsert(index, p, due[p])
    BY <1>1 DEF HookUpsert
  <2> QED
    BY <1>1, <2>1 DEF IsIndex, Upsert
<1>4. due[p] >= Floor(p)
  <2>1. due[p] >= createAt[p] + MinTTL
    BY <1>2 DEF Safe, Late
  <2>2. createAt[threadRoot(p)] <= createAt[p] /\ threadRoot(p) \in Posts
    BY <1>2, RootFacts DEF Safe, Sent
  <2> QED
    BY <1>1, <2>1, <2>2 DEF Floor
<1>5. Sent'
  BY <1>2 DEF Safe, Sent
<1>6. Late'
  <2>1. \A q \in DOMAIN index' : index'[q] >= Floor(q)'
    BY <1>2, <1>3, <1>4 DEF Safe, Late, Floor
  <2>2. \A q \in Posts : hook'[q] \in {"upsert", "bump"} => due'[q] >= createAt'[q] + MinTTL
    BY <1>2 DEF Safe, Late
  <2>3. \A q \in batch' : clock' >= Floor(q)'
    BY <1>2 DEF Safe, Late, Floor
  <2> QED
    BY <2>1, <2>2, <2>3 DEF Late
<1>7. \A q \in Posts : hook'[q] \in WasIndexed <=> (hook[q] \in WasIndexed \/ q = p)
  BY <1>2 DEF WasIndexed
<1>8. Owned'
  BY <1>1, <1>2, <1>3, <1>7 DEF Safe, Owned
<1>9. Swept' /\ ThreadMinimumLifetime'
  BY <1>2 DEF Safe, Swept, Dealt, ThreadMinimumLifetime
<1>10. NeverForgotten' /\ OnlyIndexedRemoved'
  BY <1>2, <1>3, <1>7, RemovedStays DEF Safe, NeverForgotten
<1> QED
  BY <1>5, <1>6, <1>8, <1>9, <1>10 DEF Safe

\* A bump moves rows of one thread to an expiry above its floor.
LEMMA BumpSafe ==
    ASSUME TypeOK, Safe, NEW p \in Posts, HookBump(p)
    PROVE  Safe'
<1> USE DEF postVars, sweepVars, pluginVars, ttlVars, serverVars
<1>1. /\ hook \in [Posts -> HookState] /\ due \in [Posts -> Nat] /\ IsIndex(index)
      /\ createAt \in [Posts -> Nat] /\ MinTTL \in Nat /\ batch \subseteq Posts
  BY ServerAssumption DEF TypeOK
<1>2. /\ hook[p] = "bump" /\ hook'[p] = "done"
      /\ \A q \in Posts : q # p => hook'[q] = hook[q] /\ due'[q] = due[q]
      /\ UNCHANGED <<post, createAt, failed, clock, batch, left, sweepPc>>
  BY <1>1 DEF HookBump
<1>3. /\ DOMAIN index' = DOMAIN index /\ DOMAIN index \subseteq Posts
      /\ \A q \in DOMAIN index :
            index'[q] = IF threadRoot(q) = threadRoot(p) THEN due[p] ELSE index[q]
  BY <1>1, BumpFacts DEF HookBump, IsIndex
<1>4. due[p] >= Floor(p)
  <2>1. due[p] >= createAt[p] + MinTTL
    BY <1>2 DEF Safe, Late
  <2>2. createAt[threadRoot(p)] <= createAt[p] /\ threadRoot(p) \in Posts
    BY <1>2, RootFacts DEF Safe, Sent
  <2> QED
    BY <1>1, <2>1, <2>2 DEF Floor
<1>5. Sent'
  BY <1>2 DEF Safe, Sent
<1>6. Late'
  <2>1. \A q \in DOMAIN index' : index'[q] >= Floor(q)'
    BY <1>2, <1>3, <1>4 DEF Safe, Late, Floor
  <2>2. \A q \in Posts : hook'[q] \in {"upsert", "bump"} => due'[q] >= createAt'[q] + MinTTL
    BY <1>2 DEF Safe, Late
  <2>3. \A q \in batch' : clock' >= Floor(q)'
    BY <1>2 DEF Safe, Late, Floor
  <2> QED
    BY <2>1, <2>2, <2>3 DEF Late
<1>7. \A q \in Posts : hook'[q] \in WasIndexed <=> hook[q] \in WasIndexed
  BY <1>2 DEF WasIndexed
<1>8. Owned'
  BY <1>1, <1>2, <1>3, <1>7 DEF Safe, Owned
<1>9. Swept' /\ ThreadMinimumLifetime'
  BY <1>2 DEF Safe, Swept, Dealt, ThreadMinimumLifetime
<1>10. NeverForgotten' /\ OnlyIndexedRemoved'
  BY <1>2, <1>3, <1>7, RemovedStays DEF Safe, NeverForgotten
<1> QED
  BY <1>5, <1>6, <1>8, <1>9, <1>10 DEF Safe

\* Giving up keeps apart the hooks that wrote a row and those that did not.
LEMMA AbandonedFacts ==
    ASSUME NEW h \in HookState
    PROVE  /\ Abandoned(h) \in WasIndexed <=> h \in WasIndexed
           /\ Abandoned(h) # "none" => h # "none"
           /\ Abandoned(h) \notin {"upsert", "bump"}
BY DEF Abandoned, WasIndexed, HookState, Running

\* A hook that gives up leaves the rows that it has written.
LEMMA ErrorSafe ==
    ASSUME TypeOK, Safe, NEW p \in Posts, HookError(p)
    PROVE  Safe'
<1> USE DEF postVars, sweepVars, pluginVars, ttlVars, serverVars
<1>1. hook \in [Posts -> HookState] /\ due \in [Posts -> Nat]
  BY DEF TypeOK
<1>2. /\ hook[p] # "none" /\ hook'[p] = Abandoned(hook[p])
      /\ \A q \in Posts : q # p => hook'[q] = hook[q] /\ due'[q] = due[q]
      /\ UNCHANGED <<post, createAt, index, failed, clock, batch, left, sweepPc>>
  BY <1>1 DEF HookError, Running
<1>3. \A q \in Posts : /\ hook'[q] \in WasIndexed <=> hook[q] \in WasIndexed
                       /\ hook'[q] # "none" => hook[q] # "none"
  BY <1>1, <1>2, AbandonedFacts
<1>4. \A q \in Posts : hook'[q] \in {"upsert", "bump"} => due'[q] >= createAt[q] + MinTTL
  BY <1>1, <1>2, AbandonedFacts DEF Safe, Late
<1>5. Swept'
  BY <1>2 DEF Safe, Swept, Dealt
<1> QED
  BY <1>2, <1>3, <1>4, <1>5, HookSafe

-----------------------------------------------------------------------------
(* Safety: the sweep, and the end of the process *)

\* What a query returns has expired, and has a row.
LEMMA QuerySafe ==
    ASSUME TypeOK, Safe, SweepQuery
    PROVE  Safe'
<1> USE DEF postVars, hookVars, pluginVars, ttlVars, serverVars
<1>1. /\ clock \in Nat /\ IsIndex(index)
      /\ UNCHANGED <<post, createAt, hook, due, index, failed, clock>>
  BY DEF SweepQuery, TypeOK
<1>2. PICK B \in GetExpired(index, clock, BatchSize) : batch' = B
  BY DEF SweepQuery
<1>3. /\ batch' \subseteq Posts /\ batch' \subseteq DOMAIN index
      /\ \A q \in batch' : index[q] <= clock
  BY <1>1, <1>2, ExpiredFacts
<1>4. Sent'
  BY <1>1 DEF Safe, Sent
<1>5. Late'
  <2>1. \A q \in batch' : Floor(q)' \in Nat /\ index[q] \in Nat /\ index[q] >= Floor(q)'
    BY <1>1, <1>3, FloorNat DEF Safe, Late, Floor, IsIndex
  <2>2. \A q \in batch' : clock' >= Floor(q)'
    BY <1>1, <1>3, <2>1
  <2> QED
    BY <1>1, <2>2 DEF Safe, Late, Floor
<1>6. Owned'
  BY <1>1, <1>3 DEF Safe, Owned
<1>7. Swept'
  BY DEF SweepQuery, Swept
<1>8. ThreadMinimumLifetime' /\ NeverForgotten' /\ OnlyIndexedRemoved'
  BY <1>1 DEF Safe, ThreadMinimumLifetime, NeverForgotten, OnlyIndexedRemoved
<1> QED
  BY <1>4, <1>5, <1>6, <1>7, <1>8 DEF Safe

\* Posts of the batch are removed, with replies carried along, or passed over.
LEMMA RemoveSafe ==
    ASSUME TypeOK, Safe, post' \in [Posts -> PostState],
           UNCHANGED <<createAt, hook, due, index, clock>>,
           failed \subseteq failed', batch' \subseteq batch, Swept',
           \A q \in Posts : post'[q] # post[q] =>
              \/ q \in batch /\ post'[q] \in Deleted
              \/ /\ IsReply(q) /\ post'[q] = "carried" /\ post[q] # "unsent"
                 /\ RootOf[q] \in batch /\ post'[RootOf[q]] \in Deleted
    PROVE  Safe'
<1>1. post \in [Posts -> PostState] /\ batch \subseteq Posts
  BY DEF TypeOK
<1>2. \A q \in Posts : /\ post'[q] = "unsent" <=> post[q] = "unsent"
                       /\ post'[q] # post[q] => post'[q] \in ByPlugin
  BY RowsSent DEF ByPlugin, Deleted
<1>3. Sent'
  BY <1>2, RootFacts DEF Safe, Sent
<1>4. Late' /\ Owned'
  BY DEF Safe, Late, Owned, Floor
<1>5. ThreadMinimumLifetime'
  <2> SUFFICES ASSUME NEW q \in Posts, post'[q] \in ByPlugin PROVE clock >= Floor(q)
    BY DEF ThreadMinimumLifetime, Floor
  <2>1. CASE post'[q] = post[q]
    BY <2>1 DEF Safe, ThreadMinimumLifetime, Floor
  <2>2. CASE q \in batch
    BY <2>2 DEF Safe, Late
  <2>3. CASE IsReply(q) /\ RootOf[q] \in batch
    <3>1. threadRoot(q) = RootOf[q] /\ threadRoot(RootOf[q]) = RootOf[q]
      BY <2>3, RootFacts
    <3>2. clock >= Floor(RootOf[q])
      BY <2>3 DEF Safe, Late
    <3> QED
      BY <3>1, <3>2 DEF Floor
  <2> QED
    BY <2>1, <2>2, <2>3
<1>6. NeverForgotten'
  BY <1>2 DEF Safe, NeverForgotten, ByPlugin, Deleted
<1>7. OnlyIndexedRemoved'
  <2> SUFFICES ASSUME NEW q \in Posts
               PROVE  /\ post'[q] \in Deleted => hook[q] \in WasIndexed
                      /\ post'[q] = "carried" => IsReply(q) /\ post'[RootOf[q]] \in Deleted
    BY DEF OnlyIndexedRemoved
  <2>1. post'[q] \in Deleted => hook[q] \in WasIndexed
    BY DEF Safe, Owned, OnlyIndexedRemoved, Deleted
  <2>2. ASSUME post'[q] = "carried", post[q] = "carried"
        PROVE  IsReply(q) /\ post'[RootOf[q]] \in Deleted
    <3>1. IsReply(q) /\ RootOf[q] \in Posts /\ post[RootOf[q]] \in Deleted
      BY <2>2, RootFacts DEF Safe, OnlyIndexedRemoved
    <3>2. threadRoot(RootOf[q]) = RootOf[q] /\ threadRoot(q) = RootOf[q]
      BY <3>1, RootFacts
    <3>3. ~IsReply(RootOf[q])
      BY <3>1, <3>2, ThreadAssumption DEF threadRoot, IsReply
    <3> QED
      BY <3>1, <3>3
  <2>3. ASSUME post'[q] = "carried", post[q] # "carried"
        PROVE  IsReply(q) /\ post'[RootOf[q]] \in Deleted
    BY <2>3 DEF Deleted
  <2> QED
    BY <2>1, <2>2, <2>3
<1> QED
  BY <1>3, <1>4, <1>5, <1>6, <1>7 DEF Safe

\* A hard purge removes posts of the batch only.
LEMMA HardPurgeSafe ==
    ASSUME TypeOK, Safe, HardPurge
    PROVE  Safe'
<1> USE DEF hookVars, pluginVars, ttlVars, serverVars
<1>1. post \in [Posts -> PostState] /\ batch \subseteq Posts
  BY DEF TypeOK
<1>2. /\ PurgeRows(batch) \in [Posts -> PostState]
      /\ \A q \in Posts : PurgeRows(batch)[q] = IF q \in batch THEN "purged" ELSE post[q]
  BY <1>1 DEF PurgeRows, PostState, ByPlugin, Deleted
<1>3. post' \in {post, PurgeRows(batch)} /\ batch' \subseteq batch
  BY DEF HardPurge, EndSweep
<1>4. Swept'
  BY <1>1, <1>2 DEF HardPurge, EndSweep, Swept, Dealt
<1>5. \A q \in Posts : post'[q] # post[q] => q \in batch /\ post'[q] \in Deleted
  BY <1>2, <1>3 DEF Deleted
<1>6. /\ UNCHANGED <<createAt, hook, due, index, clock, failed>>
      /\ post' \in [Posts -> PostState]
  BY <1>1, <1>2, <1>3 DEF HardPurge
<1> QED
  BY <1>3, <1>4, <1>5, <1>6, RemoveSafe

\* A soft delete removes a post of the batch with its replies, or logs a failure.
LEMMA SoftDeleteSafe ==
    ASSUME TypeOK, Safe, NEW p \in Posts, SoftDelete(p)
    PROVE  Safe'
<1> USE DEF hookVars, pluginVars, ttlVars, serverVars
<1>1. /\ post \in [Posts -> PostState] /\ sweepPc = "soft" /\ p \in left
      /\ left \subseteq batch
  BY DEF TypeOK, SoftDelete
<1>2. /\ UNCHANGED <<createAt, hook, due, index, clock, batch>>
      /\ failed \subseteq failed' /\ left' = left \ {p}
  BY DEF SoftDelete
<1>3. /\ post' \in [Posts -> PostState]
      /\ post'[p] # "live" \/ p \in failed'
  BY <1>1 DEF SoftDelete, DeletePost, PostState, ByPlugin, Deleted
<1>4. ASSUME NEW q \in Posts, post'[q] # post[q]
      PROVE  \/ q \in batch /\ post'[q] \in Deleted
             \/ /\ IsReply(q) /\ post'[q] = "carried" /\ post[q] # "unsent"
                /\ RootOf[q] \in batch /\ post'[RootOf[q]] \in Deleted
  <2>1. post' = DeletePost(p)
    BY <1>4 DEF SoftDelete
  <2>2. post'[p] = "soft" /\ p \in batch
    BY <1>1, <2>1 DEF DeletePost
  <2>3. CASE q = p
    BY <2>2, <2>3 DEF Deleted
  <2>4. CASE q # p
    <3>1. RootOf[q] = p /\ post[q] = "live" /\ post'[q] = "carried"
      BY <1>4, <2>1, <2>4 DEF DeletePost, WithReplies
    <3>2. IsReply(q)
      BY <3>1, ThreadAssumption DEF IsReply
    <3> QED
      BY <2>2, <3>1, <3>2 DEF Deleted
  <2> QED
    BY <2>3, <2>4
<1>5. \A q \in batch \ left' : Dealt(q)'
  BY <1>1, <1>2, <1>3, <1>4 DEF Safe, Swept, Dealt, TypeOK, Deleted
<1>6. Swept'
  BY <1>5 DEF SoftDelete, Swept
<1> QED
  BY <1>2, <1>3, <1>4, <1>6, RemoveSafe

\* A prune takes away rows of posts that the purge has dealt with.
LEMMA PruneSafe ==
    ASSUME TypeOK, Safe, PruneRows
    PROVE  Safe'
<1> USE DEF postVars, hookVars, pluginVars, ttlVars, serverVars
<1>1. /\ IsIndex(index) /\ sweepPc = "prune" /\ post \in [Posts -> PostState]
      /\ UNCHANGED <<post, createAt, hook, due, failed, clock>>
      /\ batch' = {} /\ sweepPc' = "idle"
  BY DEF PruneRows, EndSweep, TypeOK
<1>2. /\ DOMAIN index' \subseteq DOMAIN index
      /\ DOMAIN index \subseteq DOMAIN index' \cup batch
      /\ \A q \in DOMAIN index' : index'[q] = index[q]
  <2>1. index' = index \/ index' = DeleteByPostIDs(index, batch)
    BY DEF PruneRows
  <2>2. /\ DOMAIN DeleteByPostIDs(index, batch) = DOMAIN index \ batch
        /\ \A q \in DOMAIN index \ batch : DeleteByPostIDs(index, batch)[q] = index[q]
    BY <1>1, DeleteFacts
  <2> QED
    BY <2>1, <2>2
<1>3. Sent'
  BY <1>1 DEF Safe, Sent
<1>4. Late' /\ Owned'
  BY <1>1, <1>2 DEF Safe, Late, Owned, Floor
<1>5. Swept' /\ ThreadMinimumLifetime' /\ OnlyIndexedRemoved'
  BY <1>1 DEF Safe, Swept, ThreadMinimumLifetime, OnlyIndexedRemoved
<1>6. NeverForgotten'
  <2>1. \A q \in batch : q \in failed \/ post[q] \in ByPlugin \cup {"foreign"}
    BY <1>1, RowsSent DEF Safe, Swept, Dealt, PostState
  <2> QED
    BY <1>1, <1>2, <2>1 DEF Safe, NeverForgotten
<1> QED
  BY <1>3, <1>4, <1>5, <1>6 DEF Safe

\* A stop forgets hooks and batch, and nothing else.
LEMMA ProcessEndsSafe ==
    ASSUME TypeOK, Safe, ProcessEnds
    PROVE  Safe'
<1> USE DEF postVars, ttlVars, serverVars
<1>1. /\ hook \in [Posts -> HookState]
      /\ UNCHANGED <<post, createAt, index, failed, clock>>
      /\ batch' = {} /\ sweepPc' = "idle"
      /\ hook' = [q \in Posts |-> Abandoned(hook[q])]
  BY DEF ProcessEnds, EndSweep, TypeOK
<1>2. \A q \in Posts : /\ hook'[q] \in WasIndexed <=> hook[q] \in WasIndexed
                       /\ hook'[q] # "none" => hook[q] # "none"
                       /\ hook'[q] \notin {"upsert", "bump"}
  BY <1>1, AbandonedFacts
<1>3. Swept'
  BY <1>1 DEF Swept
<1> QED
  BY <1>1, <1>2, <1>3, HookSafe

-----------------------------------------------------------------------------
(* Safety: the theorems *)

\* No step of anybody breaks the invariant.
LEMMA NextSafe == TypeOK /\ TypeOK' /\ Safe /\ [Next]_vars => Safe'
<1> SUFFICES ASSUME TypeOK, TypeOK', Safe, [Next]_vars PROVE Safe'
  OBVIOUS
<1> USE DEF postVars, hookVars, sweepVars, pluginVars, ttlVars, serverVars
<1>1. clock \in Nat /\ clock' \in Nat
  BY DEF TypeOK
<1>2. CASE \/ Tick
           \/ \E c \in Channels, d \in Durations \cup {NoTTL} : ChangeTTL(c, d)
           \/ SetLicense
           \/ \E c \in Configs : OnConfigurationChange(c)
           \/ OnActivate
           \/ UNCHANGED vars
  <2>1. /\ UNCHANGED <<post, createAt, hook, due, index, failed>>
        /\ UNCHANGED <<batch, left, sweepPc>>
        /\ clock' \in {clock, clock + 1}
    BY <1>2 DEF Tick, ChangeTTL, SetLicense, OnConfigurationChange, OnActivate, vars
  <2>2. Swept'
    BY <2>1 DEF Safe, Swept, Dealt
  <2> QED
    BY <1>1, <2>1, <2>2, QuietSafe
<1>3. CASE PurgeReadConfig \/ PurgeDecide
  <2>1. /\ UNCHANGED <<post, createAt, hook, due, index, failed, clock>>
        /\ batch' \subseteq batch
    BY <1>3 DEF PurgeReadConfig, PurgeDecide, EndSweep
  <2>2. Swept'
    BY <1>3, DecisionMode DEF PurgeReadConfig, PurgeDecide, EndSweep, Swept
  <2> QED
    BY <1>1, <2>1, <2>2, QuietSafe
<1>4. ASSUME NEW p \in Posts, CreatePost(p) \/ ForeignDelete(p)
      PROVE  Safe'
  BY <1>4, CreateSafe, ForeignDeleteSafe
<1>5. ASSUME NEW p \in Posts,
             HookGetTTL(p) \/ HookUpsert(p) \/ HookBump(p) \/ HookError(p)
      PROVE  Safe'
  BY <1>5, GetTTLSafe, UpsertSafe, BumpSafe, ErrorSafe
<1>6. CASE SweepQuery \/ HardPurge \/ PruneRows \/ \E p \in Posts : SoftDelete(p)
  BY <1>6, QuerySafe, HardPurgeSafe, PruneSafe, SoftDeleteSafe
<1>7. CASE OnDeactivate \/ Crash
  BY <1>7, ProcessEndsSafe DEF OnDeactivate, Crash
<1> QED
  BY <1>2, <1>3, <1>4, <1>5, <1>6, <1>7 DEF Next, Sweep, Hook, Environment

\* TypeOK and Safe hold in every reachable state.
THEOREM IInvCorrect == Spec => []IInv
<1>1. Init => IInv
  BY InitTypeOK, InitSafe DEF IInv
<1>2. IInv /\ [Next]_vars => IInv'
  BY NextTypeOK, NextSafe DEF IInv
<1> QED
  BY <1>1, <1>2, PTL DEF Spec

\* Whatever the interleaving of hooks, sweeps and administrators, no thread
\* loses a post before its root is MinTTL old (Run, OnPostCreated).
THEOREM ThreadLifetime == Spec => []ThreadMinimumLifetime
<1>1. IInv => ThreadMinimumLifetime
  BY DEF IInv, Safe
<1> QED
  BY <1>1, IInvCorrect, PTL

\* No error path of the sweeper, no crash and no reload makes the plugin forget
\* a post that it gave an expiry (Run, configPurger.Purge).
THEOREM NothingForgotten == Spec => []NeverForgotten
<1>1. IInv => NeverForgotten
  BY DEF IInv, Safe
<1> QED
  BY <1>1, IInvCorrect, PTL

\* The plugin deletes no post that its own hook did not index; without an index a
\* reply goes only with its soft-deleted root.
THEOREM RemovalNeedsIndex == Spec => []OnlyIndexedRemoved
<1>1. IInv => OnlyIndexedRemoved
  BY DEF IInv, Safe
<1> QED
  BY <1>1, IInvCorrect, PTL

-----------------------------------------------------------------------------
(* Deletion and the policy *)

\* A sweep runs only where the plugin is wired, so that no activation loads a
\* configuration under it, and it does what the policy of its moment says.
Governed ==
    /\ sweepPc # "idle" => service = "full"
    /\ ~drift => /\ sweepPc = "decide" => snap = cfg
                 /\ sweepPc \in {"hard", "soft"} => Decision(cfg) = sweepPc

\* Purges and soft deletes follow the decision, in every reachable state.
LEMMA GovernedCorrect == Spec => []Governed
<1>1. Init => Governed
  BY DEF Init, Governed
<1>2. Governed /\ [Next]_vars => Governed'
  <2> SUFFICES ASSUME Governed, [Next]_vars PROVE Governed'
    OBVIOUS
  <2> USE DEF postVars, hookVars, sweepVars, pluginVars, ttlVars, serverVars, Governed, Decision
  <2>1. CASE \/ Tick
             \/ \E c \in Channels, d \in Durations \cup {NoTTL} : ChangeTTL(c, d)
             \/ \E p \in Posts : CreatePost(p) \/ ForeignDelete(p)
             \/ Hook
             \/ UNCHANGED vars
    <3>1. UNCHANGED <<sweepPc, service, drift, snap, cfg, license>>
      BY <2>1 DEF Tick, ChangeTTL, CreatePost, ForeignDelete, Hook, HookGetTTL,
             HookUpsert, HookBump, HookError, vars
    <3> QED
      BY <3>1
  <2>2. CASE SetLicense \/ \E c \in Configs : OnConfigurationChange(c)
    BY <2>2 DEF SetLicense, OnConfigurationChange, Decided
  <2>3. CASE SweepQuery \/ PurgeReadConfig \/ HardPurge \/ PruneRows
    BY <2>3 DEF SweepQuery, PurgeReadConfig, HardPurge, PruneRows, EndSweep
  <2>4. CASE PurgeDecide
    BY <2>4, DecisionMode DEF PurgeDecide, EndSweep
  <2>5. ASSUME NEW p \in Posts, SoftDelete(p) PROVE Governed'
    BY <2>5 DEF SoftDelete
  <2>6. CASE OnActivate
    BY <2>6 DEF OnActivate
  <2>7. CASE ProcessEnds
    BY <2>7 DEF ProcessEnds, EndSweep
  <2> QED
    BY <2>1, <2>2, <2>3, <2>4, <2>5, <2>6, <2>7
       DEF Next, Sweep, Environment, OnDeactivate, Crash
<1> QED
  BY <1>1, <1>2, PTL DEF Spec

\* What a decision says of the configuration, the license and the version.
LEMMA DecisionMeans ==
    ASSUME NEW c \in AllConfigs
    PROVE  /\ Decision(c) = "hard" =>
                 /\ c.EnablePurge
                 /\ ~license
                 /\ \E e \in PurgeSchemaAllowlist(c.AllowlistRaw) :
                       e = SubSeq(ServerVersion, 1, Len(e))
           /\ Decision(c) = "soft" => ~c.EnablePurge \/ license
<1>1. c.AllowlistRaw \in Seq(STRING) /\ ServerVersion \in Seq(STRING)
  <2>1. CASE c \in Configs
    <3>1. c \in [EnablePurge : BOOLEAN, AllowlistRaw : Seq(STRING)]
      BY <2>1, TextAssumption
    <3> QED
      BY <3>1, TextAssumption
  <2>2. CASE c = ZeroConfig
    <3>1. c.AllowlistRaw = <<>>
      BY <2>2 DEF ZeroConfig
    <3> QED
      BY <3>1, TextAssumption, EmptySeq
  <2> QED
    BY <2>1, <2>2 DEF AllConfigs
<1>2. ASSUME versionAllowed(ServerVersion, PurgeSchemaAllowlist(c.AllowlistRaw))
      PROVE  \E e \in PurgeSchemaAllowlist(c.AllowlistRaw) :
                e = SubSeq(ServerVersion, 1, Len(e))
  BY <1>1, <1>2, AllowedIsPrefix DEF versionAllowed
<1> QED
  BY <1>2 DEF Decision, purgeDecision

\* Unless the policy changes under a running sweep, every post is destroyed on
\* a server that the policy lets destroy it, and soft-deleted only where the
\* purge is off or a license forbids it.
THEOREM PolicyDecides == Spec => DeletionMatchesPolicy
<1>1. TypeOK /\ Governed /\ [Next]_vars =>
        [\A p \in Posts : post[p] # post'[p] /\ ~drift =>
            /\ post'[p] = "purged" =>
                  /\ cfg.EnablePurge
                  /\ ~license
                  /\ \E e \in PurgeSchemaAllowlist(cfg.AllowlistRaw) :
                        e = SubSeq(ServerVersion, 1, Len(e))
            /\ post'[p] \in {"soft", "carried"} => ~cfg.EnablePurge \/ license]_vars
  <2> SUFFICES ASSUME TypeOK, Governed, Next, NEW p \in Posts, post[p] # post'[p], ~drift
               PROVE  /\ post'[p] = "purged" => sweepPc = "hard"
                      /\ post'[p] \in {"soft", "carried"} => sweepPc = "soft"
    BY DecisionMeans DEF TypeOK, Governed
  <2> USE DEF postVars, hookVars, sweepVars, pluginVars, ttlVars, serverVars
  <2>1. post \in [Posts -> PostState]
    BY DEF TypeOK
  <2>2. ASSUME NEW q \in Posts, CreatePost(q) \/ ForeignDelete(q)
        PROVE  post'[p] \in {"live", "foreign"}
    BY <2>1, <2>2 DEF CreatePost, ForeignDelete
  <2>3. CASE HardPurge
    BY <2>1, <2>3 DEF HardPurge, PurgeRows
  <2>4. ASSUME NEW q \in Posts, SoftDelete(q)
        PROVE  post'[p] \in {"soft", "carried"} /\ sweepPc = "soft"
    BY <2>1, <2>4 DEF SoftDelete, DeletePost
  <2> QED
    BY <2>2, <2>3, <2>4
       DEF Next, Sweep, Hook, Environment, OnDeactivate, Crash, Tick, ChangeTTL,
           SetLicense, OnConfigurationChange, HookGetTTL, HookUpsert, HookBump,
           HookError, SweepQuery, PurgeReadConfig, PurgeDecide, PruneRows,
           OnActivate, ProcessEnds
<1> QED
  BY <1>1, TypeCorrect, GovernedCorrect, PTL DEF Spec, DeletionMatchesPolicy
=============================================================================
