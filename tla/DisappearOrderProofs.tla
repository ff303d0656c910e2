------------------------- MODULE DisappearOrderProofs -------------------------
(***************************************************************************)
(* Theorems about Disappear for a server that delivers post hooks one at a *)
(* time and in the order of the posts (SerialHooks): a post's own minimal  *)
(* lifetime, one expiry per thread, and how far a reply may move it back.  *)
(* InOrder, together with IInv, is the inductive invariant of the first    *)
(* two; the third needs Paced as well.                                     *)
(***************************************************************************)
EXTENDS DisappearProofs

-----------------------------------------------------------------------------
(* The inductive invariant *)

\* Hooks that have read a TTL and not given up before they wrote a row.
Started == {"upsert"} \cup WasIndexed

\* No hook has overtaken the hook of an earlier post.
Queued == \A p, q \in Posts :
    hook[p] \in Running /\ hook[q] \in Started => createAt[q] <= createAt[p]

\* A reply's hook starts only when its root's hook has written, or given up.
RootsFirst == \A q \in Posts :
    hook[q] \in Started /\ IsReply(q) => hook[RootOf[q]] \notin {"posted", "upsert"}

\* Every expiry lies at least MinTTL after the post that it is for.
OwnLate ==
    /\ \A p \in DOMAIN index : index[p] >= createAt[p] + MinTTL
    /\ \A p \in batch : clock >= createAt[p] + MinTTL

InOrder == SerialHooks =>
    /\ Queued
    /\ RootsFirst
    /\ OwnLate
    /\ MinimumLifetime
    /\ ThreadExpiresTogether

-----------------------------------------------------------------------------
(* Facts about the steps *)

\* The types that the steps below work with.
LEMMA OrderTypes ==
    ASSUME TypeOK
    PROVE  /\ hook \in [Posts -> HookState] /\ due \in [Posts -> Nat] /\ IsIndex(index)
           /\ createAt \in [Posts -> Nat] /\ MinTTL \in Nat /\ clock \in Nat
           /\ batch \subseteq Posts /\ DOMAIN index \subseteq Posts
           /\ \A d \in Durations : d \in Nat /\ d >= MinTTL
BY ServerAssumption DEF TypeOK, IsIndex

\* The sweep and its environment: rows go, or enter a batch when they are due,
\* and posts of the batch are removed.
LEMMA SweepInOrder ==
    ASSUME TypeOK, InOrder,
           UNCHANGED <<createAt, hook, due>>, clock' \in Nat, clock' >= clock,
           DOMAIN index' \subseteq DOMAIN index,
           \A q \in DOMAIN index' : index'[q] = index[q],
           \A q \in batch' : q \in batch \/ (q \in DOMAIN index /\ index[q] <= clock),
           \A q \in Posts : post'[q] \in Deleted => post[q] \in Deleted \/ q \in batch
    PROVE  InOrder'
<1> SUFFICES ASSUME SerialHooks
             PROVE  /\ Queued' /\ RootsFirst' /\ OwnLate'
                    /\ MinimumLifetime' /\ ThreadExpiresTogether'
  BY DEF InOrder
<1>1. /\ createAt \in [Posts -> Nat] /\ MinTTL \in Nat /\ clock \in Nat
      /\ batch \subseteq Posts /\ DOMAIN index \subseteq Posts
      /\ \A q \in DOMAIN index : index[q] \in Nat
  BY OrderTypes DEF IsIndex
<1>2. Queued' /\ RootsFirst'
  BY DEF InOrder, Queued, RootsFirst
<1>3. OwnLate'
  <2>1. ASSUME NEW q \in batch' PROVE clock' >= createAt'[q] + MinTTL
    <3>1. clock >= createAt[q] + MinTTL /\ createAt[q] \in Nat
      BY <1>1, <2>1 DEF InOrder, OwnLate
    <3> QED
      BY <1>1, <3>1
  <2> QED
    BY <2>1 DEF InOrder, OwnLate
<1>4. MinimumLifetime'
  <2>1. ASSUME NEW q \in Posts, post'[q] \in Deleted PROVE clock' >= createAt'[q] + MinTTL
    <3>1. clock >= createAt[q] + MinTTL /\ createAt[q] \in Nat
      BY <1>1, <2>1 DEF InOrder, OwnLate, MinimumLifetime
    <3> QED
      BY <1>1, <3>1
  <2> QED
    BY <2>1 DEF MinimumLifetime
<1>5. ThreadExpiresTogether'
  BY DEF InOrder, ThreadExpiresTogether
<1> QED
  BY <1>2, <1>3, <1>4, <1>5

\* A new post is younger than all others and has no row yet.
LEMMA CreateInOrder ==
    ASSUME TypeOK, Safe, InOrder, NEW p \in Posts, CreatePost(p)
    PROVE  InOrder'
<1> SUFFICES ASSUME SerialHooks
             PROVE  /\ Queued' /\ RootsFirst' /\ OwnLate'
                    /\ MinimumLifetime' /\ ThreadExpiresTogether'
  BY DEF InOrder
<1> USE DEF hookVars, sweepVars, pluginVars, ttlVars, serverVars
<1>1. /\ hook \in [Posts -> HookState] /\ post \in [Posts -> PostState]
      /\ createAt \in [Posts -> Nat] /\ clock \in Nat
      /\ batch \subseteq Posts /\ DOMAIN index \subseteq Posts
  BY OrderTypes DEF TypeOK
<1>2. /\ post[p] = "unsent" /\ hook[p] = "none" /\ post'[p] = "live"
      /\ hook'[p] \in {"posted", "missed"} /\ createAt'[p] = clock
      /\ \A q \in Posts : q # p =>
            hook'[q] = hook[q] /\ createAt'[q] = createAt[q] /\ post'[q] = post[q]
      /\ UNCHANGED <<due, index, clock, batch>>
  BY <1>1 DEF CreatePost, Safe, Sent
<1>3. \A q \in Posts : hook'[q] \in Started => q # p /\ hook[q] \in Started
  BY <1>2 DEF Started, WasIndexed
<1>4. \A q \in DOMAIN index \cup batch : q # p /\ q \in Posts
  BY <1>2, RowsSent
<1>5. Queued'
  <2> SUFFICES ASSUME NEW x \in Posts, NEW y \in Posts,
                      hook'[x] \in Running, hook'[y] \in Started
               PROVE  createAt'[y] <= createAt'[x]
    BY DEF Queued
  <2>1. y # p /\ hook[y] \in Started /\ createAt[y] <= clock
    BY <1>3 DEF Safe, Sent
  <2> QED
    BY <1>2, <2>1 DEF InOrder, Queued
<1>6. RootsFirst'
  <2> SUFFICES ASSUME NEW y \in Posts, hook'[y] \in Started, IsReply(y)
               PROVE  hook'[RootOf[y]] \notin {"posted", "upsert"}
    BY DEF RootsFirst
  <2>1. RootOf[y] \in Posts /\ threadRoot(y) = RootOf[y]
    BY RootFacts
  <2>2. hook[y] \in Started /\ hook[RootOf[y]] \notin {"posted", "upsert"}
    BY <1>3 DEF InOrder, RootsFirst
  <2>3. RootOf[y] # p
    BY <1>2, <2>1, <2>2 DEF Safe, Sent, Started, WasIndexed
  <2> QED
    BY <1>2, <2>1, <2>2, <2>3
<1>7. OwnLate'
  BY <1>2, <1>4 DEF InOrder, OwnLate
<1>8. MinimumLifetime'
  BY <1>2 DEF InOrder, MinimumLifetime, Deleted
<1>9. ThreadExpiresTogether'
  <2>1. \A r \in Posts : hook[r] \in {"bump", "unbumped"} => hook'[r] = hook[r]
    BY <1>2
  <2> QED
    BY <1>2, <2>1 DEF InOrder, ThreadExpiresTogether
<1> QED
  BY <1>5, <1>6, <1>7, <1>8, <1>9

\* A hook that goes on, ends or is lost overtakes nobody.
LEMMA HookKeepsQueue ==
    ASSUME Queued, RootsFirst, createAt' = createAt,
           \A q \in Posts : /\ hook'[q] \in Started => hook[q] \in Started
                            /\ hook'[q] \in Running => hook[q] \in Running
                            /\ hook'[q] \in {"posted", "upsert"} =>
                                  hook[q] \in {"posted", "upsert"}
    PROVE  Queued' /\ RootsFirst'
<1>1. Queued'
  BY DEF Queued
<1>2. RootsFirst'
  <2> SUFFICES ASSUME NEW y \in Posts, hook'[y] \in Started, IsReply(y)
               PROVE  hook'[RootOf[y]] \notin {"posted", "upsert"}
    BY DEF RootsFirst
  <2>1. RootOf[y] \in Posts /\ hook[RootOf[y]] \notin {"posted", "upsert"}
    BY RootFacts DEF RootsFirst
  <2> QED
    BY <2>1
<1> QED
  BY <1>1, <1>2

\* A hook starts when MayStart lets it: behind every earlier post's hook.
LEMMA GetTTLInOrder ==
    ASSUME TypeOK, Safe, InOrder, NEW p \in Posts, HookGetTTL(p)
    PROVE  InOrder'
<1> SUFFICES ASSUME SerialHooks
             PROVE  /\ Queued' /\ RootsFirst' /\ OwnLate'
                    /\ MinimumLifetime' /\ ThreadExpiresTogether'
  BY DEF InOrder
<1> USE DEF postVars, sweepVars, pluginVars, ttlVars, serverVars
<1>1. /\ hook \in [Posts -> HookState] /\ due \in [Posts -> Nat]
      /\ createAt \in [Posts -> Nat] /\ ttl[ChannelOf[p]] \in Durations \cup {NoTTL}
      /\ DOMAIN index \subseteq Posts
  BY OrderTypes, ServerAssumption DEF TypeOK
<1>2. /\ hook[p] = "posted" /\ hook'[p] \in {"skipped", "upsert"}
      /\ \A q \in Posts : q # p => hook'[q] = hook[q] /\ due'[q] = due[q]
      /\ UNCHANGED <<post, createAt, index, clock, batch>>
  BY <1>1 DEF HookGetTTL, GetTTL
<1>3. \A q \in Posts : /\ hook[q] \notin {"upsert", "bump"}
                       /\ hook[q] = "posted" => ~Earlier(q, p)
  BY DEF HookGetTTL, MayStart
<1>4. Queued'
  <2> SUFFICES ASSUME NEW x \in Posts, NEW y \in Posts,
                      hook'[x] \in Running, hook'[y] \in Started
               PROVE  createAt[y] <= createAt[x]
    BY <1>2 DEF Queued
  <2>1. hook[x] = "posted"
    BY <1>2, <1>3 DEF Running
  <2>2. CASE y = p
    BY <1>1, <1>3, <2>1, <2>2 DEF Earlier
  <2>3. CASE y # p
    BY <1>2, <2>1, <2>3 DEF InOrder, Queued, Running
  <2> QED
    BY <2>2, <2>3
<1>5. RootsFirst'
  <2> SUFFICES ASSUME NEW y \in Posts, hook'[y] \in Started, IsReply(y)
               PROVE  hook'[RootOf[y]] \notin {"posted", "upsert"}
    BY DEF RootsFirst
  <2>1. RootOf[y] \in Posts /\ threadRoot(y) = RootOf[y]
    BY RootFacts
  <2>2. CASE y = p
    <3>1. hook[RootOf[p]] \notin {"posted", "upsert"}
      BY <1>3, <2>1, <2>2 DEF Earlier
    <3> QED
      BY <1>2, <2>1, <2>2, <3>1
  <2>3. CASE y # p
    BY <1>2, <2>1, <2>3 DEF InOrder, RootsFirst
  <2> QED
    BY <2>2, <2>3
<1>6. OwnLate'
  BY <1>2 DEF InOrder, OwnLate
<1>7. MinimumLifetime'
  BY <1>2 DEF InOrder, MinimumLifetime
<1>8. ThreadExpiresTogether'
  <2>1. \A r \in Posts : hook[r] \in {"bump", "unbumped"} => hook'[r] = hook[r]
    BY <1>2
  <2> QED
    BY <1>2, <2>1 DEF InOrder, ThreadExpiresTogether
<1> QED
  BY <1>4, <1>5, <1>6, <1>7, <1>8

\* A row is added.  It is the first of its thread unless a reply adds it.
LEMMA UpsertInOrder ==
    ASSUME TypeOK, Safe, InOrder, NEW p \in Posts, HookUpsert(p)
    PROVE  InOrder'
<1> SUFFICES ASSUME SerialHooks
             PROVE  /\ Queued' /\ RootsFirst' /\ OwnLate'
                    /\ MinimumLifetime' /\ ThreadExpiresTogether'
  BY DEF InOrder
<1> USE DEF postVars, sweepVars, pluginVars, ttlVars, serverVars
<1>1. /\ hook \in [Posts -> HookState] /\ due \in [Posts -> Nat] /\ IsIndex(index)
      /\ DOMAIN index \subseteq Posts
  BY OrderTypes
<1>2. /\ hook[p] = "upsert" /\ hook'[p] = IF IsReply(p) THEN "bump" ELSE "done"
      /\ hook'[p] = "bump" => due'[p] = due[p]
      /\ \A q \in Posts : q # p => hook'[q] = hook[q] /\ due'[q] = due[q]
      /\ UNCHANGED <<post, createAt, clock, batch>>
  BY <1>1 DEF HookUpsert
<1>3. /\ DOMAIN index' = DOMAIN index \cup {p} /\ index'[p] = due[p]
      /\ \A q \in DOMAIN index : q # p => index'[q] = index[q]
  <2>1. due[p] \in Nat /\ index' = Upsert(index, p, due[p])
    BY <1>1 DEF HookUpsert
  <2> QED
    BY <2>1 DEF Upsert
<1>4. due[p] >= createAt[p] + MinTTL
  BY <1>2 DEF Safe, Late
<1>5. Queued' /\ RootsFirst'
  BY <1>2, HookKeepsQueue DEF InOrder, Started, WasIndexed, Running
<1>6. OwnLate'
  BY <1>2, <1>3, <1>4 DEF InOrder, OwnLate
<1>7. MinimumLifetime'
  BY <1>2 DEF InOrder, MinimumLifetime
<1>8. ThreadExpiresTogether'
  <2> SUFFICES ASSUME NEW x \in DOMAIN index', NEW y \in DOMAIN index',
                      threadRoot(x) = threadRoot(y), index'[x] # index'[y]
               PROVE  \E r \in Posts : /\ threadRoot(r) = threadRoot(x)
                                       /\ hook'[r] \in {"bump", "unbumped"}
    BY DEF ThreadExpiresTogether
  <2>1. x \in Posts /\ y \in Posts
    BY <1>1, <1>3
  <2>2. CASE IsReply(p) /\ p \in {x, y}
    BY <1>2, <2>1, <2>2
  <2>3. CASE ~IsReply(p) /\ p \in {x, y}
    <3>1. PICK z \in DOMAIN index : z # p /\ threadRoot(z) = p
      BY <1>3, <2>3, RootFacts
    <3>2. hook[z] \in Started /\ IsReply(z) /\ RootOf[z] = p /\ z \in Posts
      BY <1>1, <3>1 DEF Safe, Owned, Started, threadRoot, IsReply
    <3> QED
      BY <1>2, <3>2 DEF InOrder, RootsFirst
  <2>4. CASE p \notin {x, y}
    <3>1. PICK r \in Posts : /\ threadRoot(r) = threadRoot(x)
                             /\ hook[r] \in {"bump", "unbumped"}
      BY <1>3, <2>4 DEF InOrder, ThreadExpiresTogether
    <3> QED
      BY <1>2, <3>1
  <2> QED
    BY <2>2, <2>3, <2>4
<1> QED
  BY <1>5, <1>6, <1>7, <1>8

\* A reply moves its thread to an expiry that is late enough for every post
\* with a row, because the hooks of later posts have not started.
LEMMA BumpInOrder ==
    ASSUME TypeOK, Safe, InOrder, NEW p \in Posts, HookBump(p)
    PROVE  InOrder'
<1> SUFFICES ASSUME SerialHooks
             PROVE  /\ Queued' /\ RootsFirst' /\ OwnLate'
                    /\ MinimumLifetime' /\ ThreadExpiresTogether'
  BY DEF InOrder
<1> USE DEF postVars, sweepVars, pluginVars, ttlVars, serverVars
<1>1. /\ hook \in [Posts -> HookState] /\ due \in [Posts -> Nat] /\ IsIndex(index)
      /\ DOMAIN index \subseteq Posts
  BY OrderTypes
<1>2. /\ hook[p] = "bump" /\ hook'[p] = "done"
      /\ \A q \in Posts : q # p => hook'[q] = hook[q] /\ due'[q] = due[q]
      /\ UNCHANGED <<post, createAt, clock, batch>>
  BY <1>1 DEF HookBump
<1>3. /\ DOMAIN index' = DOMAIN index
      /\ \A q \in DOMAIN index :
            index'[q] = IF threadRoot(q) = threadRoot(p) THEN due[p] ELSE index[q]
  BY <1>1, BumpFacts DEF HookBump
<1>4. due[p] >= createAt[p] + MinTTL
  BY <1>2 DEF Safe, Late
<1>5. Queued' /\ RootsFirst'
  BY <1>2, HookKeepsQueue DEF InOrder, Started, WasIndexed, Running
<1>6. OwnLate'
  <2>1. ASSUME NEW q \in DOMAIN index PROVE due[p] >= createAt[q] + MinTTL
    <3>1. createAt[q] <= createAt[p]
      BY <1>1, <1>2 DEF InOrder, Queued, Safe, Owned, Started, Running
    <3>2. createAt[q] \in Nat /\ createAt[p] \in Nat /\ MinTTL \in Nat /\ due[p] \in Nat
      BY <1>1, OrderTypes
    <3> QED
      BY <1>4, <3>1, <3>2
  <2> QED
    BY <1>2, <1>3, <2>1 DEF InOrder, OwnLate
<1>7. MinimumLifetime'
  BY <1>2 DEF InOrder, MinimumLifetime
<1>8. ThreadExpiresTogether'
  <2> SUFFICES ASSUME NEW x \in DOMAIN index, NEW y \in DOMAIN index,
                      threadRoot(x) = threadRoot(y), index'[x] # index'[y]
               PROVE  \E r \in Posts : /\ threadRoot(r) = threadRoot(x)
                                       /\ hook'[r] \in {"bump", "unbumped"}
    BY <1>3 DEF ThreadExpiresTogether
  <2>1. threadRoot(x) # threadRoot(p) /\ index[x] # index[y]
    BY <1>3
  <2>2. PICK r \in Posts : /\ threadRoot(r) = threadRoot(x)
                           /\ hook[r] \in {"bump", "unbumped"}
    BY <2>1 DEF InOrder, ThreadExpiresTogether
  <2> QED
    BY <1>2, <2>1, <2>2
<1> QED
  BY <1>5, <1>6, <1>7, <1>8

\* A hook that gives up, alone or with the process, writes nothing.
LEMMA AbandonInOrder ==
    ASSUME TypeOK, InOrder, UNCHANGED <<post, createAt, index, clock>>,
           batch' \subseteq batch,
           \A q \in Posts : hook'[q] \in {hook[q], Abandoned(hook[q])},
           \A q \in Posts : hook'[q] = hook[q] /\ hook[q] \in {"upsert", "bump"} =>
               due'[q] = due[q]
    PROVE  InOrder'
<1> SUFFICES ASSUME SerialHooks
             PROVE  /\ Queued' /\ RootsFirst' /\ OwnLate'
                    /\ MinimumLifetime' /\ ThreadExpiresTogether'
  BY DEF InOrder
<1>1. \A q \in Posts : hook[q] \in HookState
  BY DEF TypeOK
<1>2. \A q \in Posts :
         \/ hook'[q] = hook[q]
         \/ hook[q] \in {"posted", "upsert"} /\ hook'[q] = "missed"
         \/ hook[q] = "bump" /\ hook'[q] = "unbumped"
  BY DEF Abandoned
<1>3. Queued' /\ RootsFirst'
  <2>1. \A q \in Posts : /\ hook'[q] \in Started => hook[q] \in Started
                         /\ hook'[q] \in Running => hook[q] \in Running
                         /\ hook'[q] \in {"posted", "upsert"} =>
                               hook[q] \in {"posted", "upsert"}
    BY <1>2 DEF Started, WasIndexed, Running
  <2> QED
    BY <2>1, HookKeepsQueue DEF InOrder
<1>4. OwnLate' /\ MinimumLifetime'
  BY DEF InOrder, OwnLate, MinimumLifetime
<1>5. ThreadExpiresTogether'
  <2>1. \A r \in Posts : hook[r] \in {"bump", "unbumped"} => hook'[r] \in {"bump", "unbumped"}
    BY <1>2
  <2> QED
    BY <2>1 DEF InOrder, ThreadExpiresTogether
<1> QED
  BY <1>3, <1>4, <1>5

-----------------------------------------------------------------------------
(* The invariant *)

\* Before the first post, every order holds.
LEMMA InitInOrder == Init => InOrder
<1> SUFFICES ASSUME Init PROVE InOrder
  OBVIOUS
<1>1. /\ \A q \in Posts : hook[q] = "none" /\ post[q] = "unsent"
      /\ DOMAIN index = {} /\ batch = {}
  BY DEF Init, EmptyIndex
<1>2. Queued /\ RootsFirst
  BY <1>1 DEF Queued, RootsFirst, Started, WasIndexed
<1>3. OwnLate
  BY <1>1 DEF OwnLate
<1>4. MinimumLifetime /\ ThreadExpiresTogether
  BY <1>1 DEF MinimumLifetime, ThreadExpiresTogether, Deleted
<1> QED
  BY <1>2, <1>3, <1>4 DEF InOrder

\* Every step of hooks, sweeper and administrators keeps the order.
LEMMA NextInOrder == IInv /\ TypeOK' /\ InOrder /\ [Next]_vars => InOrder'
<1> SUFFICES ASSUME TypeOK, Safe, TypeOK', InOrder, [Next]_vars PROVE InOrder'
  BY DEF IInv
<1> USE DEF postVars, hookVars, sweepVars, pluginVars, ttlVars, serverVars
<1>1. /\ clock \in Nat /\ clock' \in Nat /\ IsIndex(index)
      /\ hook \in [Posts -> HookState] /\ due \in [Posts -> Nat]
      /\ post \in [Posts -> PostState] /\ left \subseteq batch
  BY OrderTypes DEF TypeOK
<1>2. CASE \/ Tick
           \/ \E c \in Channels, d \in Durations \cup {NoTTL} : ChangeTTL(c, d)
           \/ SetLicense
           \/ \E c \in Configs : OnConfigurationChange(c)
           \/ OnActivate
           \/ UNCHANGED vars
  <2>1. /\ UNCHANGED <<post, createAt, hook, due, index, batch>>
        /\ clock' \in {clock, clock + 1}
    BY <1>2 DEF Tick, ChangeTTL, SetLicense, OnConfigurationChange, OnActivate, vars
  <2> QED
    BY <1>1, <2>1, SweepInOrder
<1>3. CASE PurgeReadConfig \/ PurgeDecide
  <2>1. /\ UNCHANGED <<post, createAt, hook, due, index, clock>>
        /\ batch' \subseteq batch
    BY <1>3 DEF PurgeReadConfig, PurgeDecide, EndSweep
  <2> QED
    BY <1>1, <2>1, SweepInOrder
<1>4. ASSUME NEW p \in Posts, ForeignDelete(p)
      PROVE  InOrder'
  <2>1. /\ UNCHANGED <<createAt, hook, due, index, clock, batch>>
        /\ \A q \in Posts : post'[q] \in Deleted => post[q] \in Deleted
    BY <1>1, <1>4 DEF ForeignDelete, Deleted
  <2> QED
    BY <1>1, <2>1, SweepInOrder
<1>5. CASE SweepQuery
  <2>1. PICK B \in GetExpired(index, clock, BatchSize) : batch' = B
    BY <1>5 DEF SweepQuery
  <2>2. /\ \A q \in batch' : q \in DOMAIN index /\ index[q] <= clock
        /\ UNCHANGED <<post, createAt, hook, due, index, clock>>
    BY <1>1, <1>5, <2>1, ExpiredFacts DEF SweepQuery
  <2> QED
    BY <1>1, <2>2, SweepInOrder
<1>6. CASE HardPurge
  <2>1. /\ UNCHANGED <<createAt, hook, due, index, clock>> /\ batch' \subseteq batch
        /\ post' \in {post, PurgeRows(batch)}
    BY <1>6 DEF HardPurge, EndSweep
  <2>2. \A q \in Posts : post'[q] \in Deleted => post[q] \in Deleted \/ q \in batch
    BY <2>1 DEF PurgeRows
  <2> QED
    BY <1>1, <2>1, <2>2, SweepInOrder
<1>7. ASSUME NEW p \in Posts, SoftDelete(p)
      PROVE  InOrder'
  <2>1. /\ UNCHANGED <<createAt, hook, due, index, clock, batch>> /\ p \in batch
        /\ \A q \in Posts : post'[q] \in Deleted => post[q] \in Deleted \/ q = p
    BY <1>1, <1>7 DEF SoftDelete, DeletePost, Deleted
  <2> QED
    BY <1>1, <2>1, SweepInOrder
<1>8. CASE PruneRows
  <2>1. /\ UNCHANGED <<post, createAt, hook, due, clock>> /\ batch' = {}
        /\ index' = index \/ index' = DeleteByPostIDs(index, batch)
    BY <1>8 DEF PruneRows, EndSweep
  <2>2. /\ DOMAIN DeleteByPostIDs(index, batch) = DOMAIN index \ batch
        /\ \A q \in DOMAIN index \ batch : DeleteByPostIDs(index, batch)[q] = index[q]
    BY <1>1, DeleteFacts
  <2>3. /\ DOMAIN index' \subseteq DOMAIN index
        /\ \A q \in DOMAIN index' : index'[q] = index[q]
    BY <2>1, <2>2
  <2> QED
    BY <1>1, <2>1, <2>3, SweepInOrder
<1>9. ASSUME NEW p \in Posts, CreatePost(p)
      PROVE  InOrder'
  BY <1>9, CreateInOrder
<1>10. ASSUME NEW p \in Posts, HookGetTTL(p) \/ HookUpsert(p) \/ HookBump(p)
       PROVE  InOrder'
  BY <1>10, GetTTLInOrder, UpsertInOrder, BumpInOrder
<1>11. ASSUME NEW p \in Posts, HookError(p)
       PROVE  InOrder'
  <2>1. /\ UNCHANGED <<post, createAt, index, clock, batch>>
        /\ hook[p] \in Running /\ hook'[p] = Abandoned(hook[p])
        /\ \A q \in Posts : q # p => hook'[q] = hook[q] /\ due'[q] = due[q]
    BY <1>1, <1>11 DEF HookError
  <2>2. hook'[p] # hook[p]
    BY <2>1 DEF Abandoned, Running
  <2> QED
    BY <2>1, <2>2, AbandonInOrder
<1>12. CASE ProcessEnds
  <2>1. /\ UNCHANGED <<post, createAt, index, clock>> /\ batch' = {}
        /\ hook' = [q \in Posts |-> Abandoned(hook[q])]
    BY <1>12 DEF ProcessEnds, EndSweep
  <2>2. \A q \in Posts : hook'[q] = Abandoned(hook[q]) /\ hook'[q] \notin {"upsert", "bump"}
    BY <1>1, <2>1, AbandonedFacts
  <2> QED
    BY <2>1, <2>2, AbandonInOrder
<1>13. CASE Sweep
  BY <1>3, <1>5, <1>6, <1>7, <1>8, <1>13 DEF Sweep
<1>14. CASE Hook
  BY <1>10, <1>11, <1>14 DEF Hook
<1>15. CASE Environment
  BY <1>2, <1>4, <1>9, <1>15 DEF Environment
<1> QED
  BY <1>2, <1>12, <1>13, <1>14, <1>15 DEF Next, OnDeactivate, Crash

\* With hooks in order, InOrder holds in every reachable state.
THEOREM InOrderCorrect == Spec => []InOrder
<1>1. IInv => TypeOK
  BY DEF IInv
<1> QED
  BY <1>1, InitInOrder, NextInOrder, IInvCorrect, PTL DEF Spec

-----------------------------------------------------------------------------
(* The theorems *)

\* With hooks in order no post is removed before it is itself MinTTL old, also
\* when other replies of its thread, or a shorter TTL, moved its expiry back.
THEOREM OwnLifetime == Spec => []MinimumLifetime
<1>1. InOrder => MinimumLifetime
  BY DEF InOrder, MinimumLifetime
<1> QED
  BY <1>1, InOrderCorrect, PTL

\* With hooks in order two rows of a thread differ only while a reply's bump is
\* to come, or after it was lost.
THEOREM ThreadTogether == Spec => []ThreadExpiresTogether
<1>1. InOrder => ThreadExpiresTogether
  BY DEF InOrder, ThreadExpiresTogether
<1> QED
  BY <1>1, InOrderCorrect, PTL

\* A step that is no reply's bump moves no row.
LEMMA OnlyBumpMoves ==
    ASSUME IInv, [Next]_vars, \A p \in Posts : ~HookBump(p),
           NEW q \in DOMAIN index \cap DOMAIN index'
    PROVE  index'[q] = index[q]
<1> USE DEF postVars, hookVars, sweepVars, pluginVars, ttlVars, serverVars
<1>1. /\ IsIndex(index) /\ hook \in [Posts -> HookState] /\ due \in [Posts -> Nat]
      /\ hook[q] \in WasIndexed
  BY OrderTypes DEF IInv, Safe, Owned
<1>2. CASE index' = index
  BY <1>2
<1>3. CASE PruneRows
  <2>1. index' = index \/ index' = DeleteByPostIDs(index, batch)
    BY <1>3 DEF PruneRows
  <2>2. /\ DOMAIN DeleteByPostIDs(index, batch) = DOMAIN index \ batch
        /\ \A x \in DOMAIN index \ batch : DeleteByPostIDs(index, batch)[x] = index[x]
    BY <1>1, DeleteFacts
  <2> QED
    BY <2>1, <2>2
<1>4. ASSUME NEW p \in Posts, HookUpsert(p)
      PROVE  index'[q] = index[q]
  <2>1. due[p] \in Nat /\ index' = Upsert(index, p, due[p]) /\ q # p
    BY <1>1, <1>4 DEF HookUpsert, WasIndexed
  <2> QED
    BY <2>1 DEF Upsert
<1> QED
  BY <1>2, <1>3, <1>4
     DEF Next, Sweep, Hook, Environment, OnDeactivate, Crash, vars, Tick, ChangeTTL,
         CreatePost, ForeignDelete, SetLicense, OnConfigurationChange, HookGetTTL,
         HookError, SweepQuery, PurgeReadConfig, PurgeDecide, HardPurge, SoftDelete,
         OnActivate, ProcessEnds

-----------------------------------------------------------------------------
(* How far a reply moves its thread back *)

\* Hooks that have read a TTL and are still to write what they computed.
Writing == {"upsert", "bump"}

\* Only one hook writes.
Alone == \A p, q \in Posts : hook[p] \in Writing /\ hook[q] \in Writing => p = q

\* Every row holds the CreateAt of a post of its channel, whose hook is past its
\* upsert, plus a TTL that was read there.
Sourced == \A q \in DOMAIN index : \E x \in Posts, d \in Durations :
    /\ hook[x] \in WasIndexed
    /\ d <= highest[ChannelOf[q]]
    /\ index[q] = createAt[x] + d

\* A hook that writes is behind a row of its channel by no more than the TTL was
\* cut.
Bounded == \A r \in Posts, q \in DOMAIN index :
    hook[r] \in Writing /\ ChannelOf[q] = ChannelOf[r] =>
        index[q] <= due[r] + cut[ChannelOf[r]]

\* What a hook computed is its post's CreateAt and a TTL that it has read.
Read == \A r \in Posts : hook[r] \in Writing =>
    \E d \in Durations : d <= highest[ChannelOf[r]] /\ due[r] = createAt[r] + d

Paced == SerialHooks => Alone /\ Sourced /\ Read /\ Bounded

\* The types that the steps below work with.
LEMMA PacedTypes ==
    ASSUME TypeOK
    PROVE  /\ \A q \in Posts : /\ ChannelOf[q] \in Channels /\ createAt[q] \in Nat
                               /\ due[q] \in Nat
                               /\ highest[ChannelOf[q]] \in Nat /\ cut[ChannelOf[q]] \in Nat
           /\ \A q \in DOMAIN index : q \in Posts /\ index[q] \in Nat
           /\ \A d \in Durations : d \in Nat
BY ServerAssumption DEF TypeOK, IsIndex

\* The posts of a thread are in one channel.
LEMMA ThreadChannel ==
    ASSUME NEW p \in Posts, NEW q \in Posts, threadRoot(p) = threadRoot(q)
    PROVE  ChannelOf[p] = ChannelOf[q]
<1>1. ASSUME NEW x \in Posts PROVE ChannelOf[x] = ChannelOf[threadRoot(x)]
  BY ServerAssumption DEF threadRoot, IsReply
<1> QED
  BY <1>1

\* Rows go, hooks give up, posts are sent: nothing is read and nothing written.
LEMMA PacedStays ==
    ASSUME Paced, UNCHANGED <<highest, cut>>,
           DOMAIN index' \subseteq DOMAIN index,
           \A q \in DOMAIN index' : index'[q] = index[q],
           \A x \in Posts : hook'[x] \in Writing =>
               hook[x] \in Writing /\ due'[x] = due[x] /\ createAt'[x] = createAt[x],
           \A x \in Posts : hook[x] \in WasIndexed =>
               hook'[x] \in WasIndexed /\ createAt'[x] = createAt[x]
    PROVE  Paced'
<1> SUFFICES ASSUME SerialHooks PROVE Alone' /\ Sourced' /\ Read' /\ Bounded'
  BY DEF Paced
<1>1. Alone'
  BY DEF Paced, Alone
<1>2. Sourced'
  <2> SUFFICES ASSUME NEW q \in DOMAIN index'
               PROVE  \E x \in Posts, d \in Durations :
                         /\ hook'[x] \in WasIndexed
                         /\ d <= highest[ChannelOf[q]]
                         /\ index'[q] = createAt'[x] + d
    BY DEF Sourced
  <2>1. PICK x \in Posts, d \in Durations :
           /\ hook[x] \in WasIndexed /\ d <= highest[ChannelOf[q]]
           /\ index[q] = createAt[x] + d
    BY DEF Paced, Sourced
  <2> QED
    BY <2>1
<1>3. Read'
  BY DEF Paced, Read
<1>4. Bounded'
  BY DEF Paced, Bounded
<1> QED
  BY <1>1, <1>2, <1>3, <1>4

\* A hook reads a TTL: every row of its channel stems from a post that is no later
\* and from a TTL that is no higher than the highest.
LEMMA GetTTLPaced ==
    ASSUME TypeOK, InOrder, Paced, NEW p \in Posts, HookGetTTL(p)
    PROVE  Paced'
<1> USE DEF postVars, sweepVars, pluginVars
<1> SUFFICES ASSUME SerialHooks PROVE Alone' /\ Sourced' /\ Read' /\ Bounded'
  BY DEF Paced
<1> DEFINE c == ChannelOf[p]
<1>1. /\ hook \in [Posts -> HookState] /\ due \in [Posts -> Nat]
      /\ highest \in [Channels -> Nat] /\ cut \in [Channels -> Nat]
      /\ c \in Channels /\ ttl[c] \in Durations \cup {NoTTL}
  BY ServerAssumption DEF TypeOK
<1>2. /\ hook[p] = "posted" /\ UNCHANGED <<createAt, index>>
      /\ \A q \in Posts : hook[q] \notin Writing
      /\ \A q \in Posts : q # p => hook'[q] = hook[q]
      /\ hook'[p] \in {"skipped", "upsert"}
  BY <1>1 DEF HookGetTTL, GetTTL, MayStart, Writing
<1>3. /\ \A q \in Posts : hook'[q] \in Writing => q = p
      /\ \A q \in Posts : hook[q] \in WasIndexed => hook'[q] \in WasIndexed
  BY <1>2 DEF Writing, WasIndexed
<1>4. CASE ttl[c] = NoTTL
  <2>1. UNCHANGED <<due, highest, cut>> /\ hook'[p] = "skipped"
    BY <1>1, <1>4 DEF HookGetTTL, GetTTL
  <2>2. \A q \in Posts : hook'[q] \notin Writing
    BY <1>3, <2>1 DEF Writing
  <2> QED
    BY <1>2, <1>3, <2>1, <2>2, PacedStays DEF Paced
<1>5. CASE ttl[c] # NoTTL
  <2> DEFINE e == ttl[c]
  <2>1. /\ e \in Durations /\ e \in Nat /\ createAt[p] \in Nat
        /\ due'[p] = createAt[p] + e /\ NoteTTL(c, e)
    BY <1>1, <1>5, PacedTypes DEF HookGetTTL, GetTTL
  <2>2. /\ \A d \in Channels : highest'[d] >= highest[d] /\ highest'[d] \in Nat
        /\ highest'[c] >= e
        /\ highest[c] <= e + cut'[c] /\ cut'[c] \in Nat
    BY <1>1, <2>1 DEF NoteTTL
  <2>3. Sourced'
    <3> SUFFICES ASSUME NEW q \in DOMAIN index
                 PROVE  \E x \in Posts, d \in Durations :
                           /\ hook'[x] \in WasIndexed
                           /\ d <= highest'[ChannelOf[q]]
                           /\ index[q] = createAt[x] + d
      BY <1>2 DEF Sourced
    <3>1. PICK x \in Posts, d \in Durations :
             /\ hook[x] \in WasIndexed /\ d <= highest[ChannelOf[q]]
             /\ index[q] = createAt[x] + d
      BY DEF Paced, Sourced
    <3>2. ChannelOf[q] \in Channels /\ d \in Nat /\ highest[ChannelOf[q]] \in Nat
      BY PacedTypes
    <3>3. d <= highest'[ChannelOf[q]]
      BY <2>2, <3>1, <3>2
    <3> QED
      BY <1>3, <3>1, <3>3
  <2>4. Read'
    BY <1>2, <1>3, <2>1, <2>2 DEF Read
  <2>5. Bounded'
    <3> SUFFICES ASSUME NEW q \in DOMAIN index, ChannelOf[q] = c
                 PROVE  index[q] <= due'[p] + cut'[c]
      BY <1>2, <1>3 DEF Bounded
    <3>1. PICK x \in Posts, d \in Durations :
             /\ hook[x] \in WasIndexed /\ d <= highest[c]
             /\ index[q] = createAt[x] + d
      BY DEF Paced, Sourced
    <3>2. createAt[x] <= createAt[p]
      BY <1>2, <3>1 DEF InOrder, Queued, Started, Running
    <3>3. createAt[x] \in Nat /\ d \in Nat /\ highest[c] \in Nat
      BY PacedTypes
    <3> HIDE DEF e, c
    <3> QED
      BY <2>1, <2>2, <3>1, <3>2, <3>3
  <2>6. Alone'
    BY <1>3 DEF Alone
  <2> QED
    BY <2>3, <2>4, <2>5, <2>6
<1> QED
  BY <1>4, <1>5

\* A new row holds what its hook, the only one that writes, has computed.
LEMMA UpsertPaced ==
    ASSUME TypeOK, Paced, NEW p \in Posts, HookUpsert(p)
    PROVE  Paced'
<1> USE DEF postVars, sweepVars, pluginVars, ttlVars, serverVars
<1> SUFFICES ASSUME SerialHooks PROVE Alone' /\ Sourced' /\ Read' /\ Bounded'
  BY DEF Paced
<1>1. /\ hook \in [Posts -> HookState] /\ due \in [Posts -> Nat] /\ IsIndex(index)
  BY DEF TypeOK
<1>2. /\ hook[p] = "upsert" /\ UNCHANGED <<createAt, highest, cut>>
      /\ \A q \in Posts : q # p => hook'[q] = hook[q]
      /\ hook'[p] \in WasIndexed
      /\ hook'[p] \in Writing => due'[p] = due[p]
  BY <1>1 DEF HookUpsert, Writing, WasIndexed
<1>3. /\ \A q \in Posts : hook'[q] \in Writing => q = p
      /\ \A q \in Posts : hook[q] \in WasIndexed => hook'[q] \in WasIndexed
  BY <1>2 DEF Paced, Alone, Writing, WasIndexed
<1>4. /\ DOMAIN index' = DOMAIN index \cup {p} /\ index'[p] = due[p]
      /\ \A q \in DOMAIN index : q # p => index'[q] = index[q]
  <2>1. due[p] \in Nat /\ index' = Upsert(index, p, due[p])
    BY <1>1 DEF HookUpsert
  <2> QED
    BY <1>1, <2>1 DEF Upsert
<1>5. PICK d \in Durations : d <= highest[ChannelOf[p]] /\ due[p] = createAt[p] + d
  BY <1>2 DEF Paced, Read, Writing
<1>6. Sourced'
  <2> SUFFICES ASSUME NEW q \in DOMAIN index'
               PROVE  \E x \in Posts, e \in Durations :
                         /\ hook'[x] \in WasIndexed
                         /\ e <= highest[ChannelOf[q]]
                         /\ index'[q] = createAt[x] + e
    BY <1>2 DEF Sourced
  <2>1. CASE q = p
    BY <1>2, <1>4, <1>5, <2>1
  <2>2. CASE q # p
    BY <1>3, <1>4, <2>2 DEF Paced, Sourced
  <2> QED
    BY <2>1, <2>2
<1>7. Read'
  BY <1>2, <1>3, <1>5 DEF Read
<1>8. Bounded'
  <2> SUFFICES ASSUME NEW q \in DOMAIN index', ChannelOf[q] = ChannelOf[p]
               PROVE  index'[q] <= due[p] + cut[ChannelOf[p]]
    BY <1>2, <1>3 DEF Bounded
  <2>1. CASE q = p
    BY <1>4, <2>1, PacedTypes
  <2>2. CASE q # p
    BY <1>2, <1>4, <2>2 DEF Paced, Bounded, Writing
  <2> QED
    BY <2>1, <2>2
<1>9. Alone'
  BY <1>3 DEF Alone
<1> QED
  BY <1>6, <1>7, <1>8, <1>9

\* A bump is the last that its hook writes.
LEMMA BumpPaced ==
    ASSUME TypeOK, Paced, NEW p \in Posts, HookBump(p)
    PROVE  Paced'
<1> USE DEF postVars, sweepVars, pluginVars, ttlVars, serverVars
<1> SUFFICES ASSUME SerialHooks PROVE Alone' /\ Sourced' /\ Read' /\ Bounded'
  BY DEF Paced
<1>1. /\ hook \in [Posts -> HookState] /\ due \in [Posts -> Nat] /\ IsIndex(index)
  BY DEF TypeOK
<1>2. /\ hook[p] = "bump" /\ UNCHANGED <<createAt, highest, cut>>
      /\ hook'[p] = "done" /\ \A q \in Posts : q # p => hook'[q] = hook[q]
  BY <1>1 DEF HookBump
<1>3. /\ \A q \in Posts : hook'[q] \notin Writing
      /\ \A q \in Posts : hook[q] \in WasIndexed => hook'[q] \in WasIndexed
  BY <1>2 DEF Paced, Alone, Writing, WasIndexed
<1>4. /\ DOMAIN index' = DOMAIN index
      /\ \A q \in DOMAIN index :
            index'[q] = IF threadRoot(q) = threadRoot(p) THEN due[p] ELSE index[q]
  BY <1>1, BumpFacts DEF HookBump
<1>5. PICK d \in Durations : d <= highest[ChannelOf[p]] /\ due[p] = createAt[p] + d
  BY <1>2 DEF Paced, Read, Writing
<1>6. Sourced'
  <2> SUFFICES ASSUME NEW q \in DOMAIN index
               PROVE  \E x \in Posts, e \in Durations :
                         /\ hook'[x] \in WasIndexed
                         /\ e <= highest[ChannelOf[q]]
                         /\ index'[q] = createAt[x] + e
    BY <1>2, <1>4 DEF Sourced
  <2>1. CASE threadRoot(q) = threadRoot(p)
    <3>1. ChannelOf[q] = ChannelOf[p] /\ hook'[p] \in WasIndexed
      BY <1>2, <2>1, PacedTypes, ThreadChannel DEF WasIndexed
    <3> QED
      BY <1>4, <1>5, <2>1, <3>1
  <2>2. CASE threadRoot(q) # threadRoot(p)
    BY <1>3, <1>4, <2>2 DEF Paced, Sourced
  <2> QED
    BY <2>1, <2>2
<1>7. Alone' /\ Read' /\ Bounded'
  BY <1>3 DEF Alone, Read, Bounded
<1> QED
  BY <1>6, <1>7

\* Every step keeps the pace.
LEMMA NextPaced == IInv /\ InOrder /\ Paced /\ [Next]_vars => Paced'
<1> SUFFICES ASSUME TypeOK, Safe, InOrder, Paced, [Next]_vars PROVE Paced'
  BY DEF IInv
<1> USE DEF postVars, hookVars, sweepVars, pluginVars, ttlVars, serverVars
<1>1. /\ IsIndex(index) /\ hook \in [Posts -> HookState] /\ due \in [Posts -> Nat]
      /\ createAt \in [Posts -> Nat]
  BY OrderTypes
<1>2. CASE UNCHANGED <<createAt, hook, due, index, highest, cut>>
  BY <1>2, PacedStays
<1>3. CASE PruneRows
  <2>1. /\ UNCHANGED <<createAt, hook, due, highest, cut>>
        /\ index' = index \/ index' = DeleteByPostIDs(index, batch)
    BY <1>3 DEF PruneRows
  <2>2. /\ DOMAIN DeleteByPostIDs(index, batch) = DOMAIN index \ batch
        /\ \A q \in DOMAIN index \ batch : DeleteByPostIDs(index, batch)[q] = index[q]
    BY <1>1, DeleteFacts
  <2>3. /\ DOMAIN index' \subseteq DOMAIN index
        /\ \A q \in DOMAIN index' : index'[q] = index[q]
    BY <2>1, <2>2
  <2> QED
    BY <2>1, <2>3, PacedStays
<1>4. ASSUME NEW p \in Posts, CreatePost(p) PROVE Paced'
  <2>1. /\ hook[p] = "none" /\ hook'[p] \in {"posted", "missed"}
        /\ \A q \in Posts : q # p => hook'[q] = hook[q] /\ createAt'[q] = createAt[q]
        /\ UNCHANGED <<due, index, highest, cut>>
    BY <1>1, <1>4 DEF CreatePost, Safe, Sent
  <2> QED
    BY <2>1, PacedStays DEF Writing, WasIndexed
<1>5. ASSUME NEW p \in Posts, HookGetTTL(p) \/ HookUpsert(p) \/ HookBump(p)
      PROVE  Paced'
  BY <1>5, GetTTLPaced, UpsertPaced, BumpPaced
<1>6. ASSUME NEW p \in Posts, HookError(p) PROVE Paced'
  <2>1. /\ UNCHANGED <<createAt, index, highest, cut>> /\ hook'[p] = Abandoned(hook[p])
        /\ \A q \in Posts : q # p => hook'[q] = hook[q] /\ due'[q] = due[q]
    BY <1>1, <1>6 DEF HookError
  <2>2. hook'[p] \notin Writing /\ (hook[p] \in WasIndexed => hook'[p] \in WasIndexed)
    BY <1>1, <2>1, AbandonedFacts DEF Writing
  <2> QED
    BY <2>1, <2>2, PacedStays
<1>7. CASE ProcessEnds
  <2>1. /\ UNCHANGED <<createAt, index, highest, cut>>
        /\ \A q \in Posts : hook'[q] = Abandoned(hook[q])
    BY <1>7 DEF ProcessEnds
  <2>2. \A q \in Posts : /\ hook'[q] \notin Writing
                         /\ hook[q] \in WasIndexed => hook'[q] \in WasIndexed
    BY <1>1, <2>1, AbandonedFacts DEF Writing
  <2> QED
    BY <2>1, <2>2, PacedStays
<1>8. CASE Sweep
  BY <1>2, <1>3, <1>8
     DEF Sweep, SweepQuery, PurgeReadConfig, PurgeDecide, HardPurge, SoftDelete
<1>9. CASE Environment
  BY <1>2, <1>4, <1>9
     DEF Environment, Tick, ChangeTTL, ForeignDelete, SetLicense, OnConfigurationChange
<1> QED
  BY <1>2, <1>5, <1>6, <1>7, <1>8, <1>9
     DEF Next, Hook, OnActivate, OnDeactivate, Crash, vars

\* In every reachable state a hook that writes is behind the rows of its channel by
\* no more than the cut.
LEMMA PacedCorrect == Spec => []Paced
<1>1. Init => Paced
  BY DEF Init, Paced, Alone, Sourced, Read, Bounded, Writing, EmptyIndex
<1> QED
  BY <1>1, NextPaced, IInvCorrect, InOrderCorrect, PTL DEF Spec

\* With hooks in order a row's expiry moves back by no more than the TTL of its
\* channel was cut from one hook to a later one, and not at all while it is only
\* raised.
THEOREM RegressBounded == Spec => RegressOnlyByTTLCut
<1>1. IInv /\ Paced /\ [Next]_vars =>
        [SerialHooks => \A p \in DOMAIN index \cap DOMAIN index' :
            index[p] <= index'[p] + cut[ChannelOf[p]]]_vars
  <2> SUFFICES ASSUME IInv, Paced, [Next]_vars, SerialHooks,
                      NEW q \in DOMAIN index \cap DOMAIN index'
               PROVE  index[q] <= index'[q] + cut[ChannelOf[q]]
    OBVIOUS
  <2>1. index[q] \in Nat /\ cut[ChannelOf[q]] \in Nat /\ q \in Posts
    BY PacedTypes DEF IInv
  <2>2. ASSUME NEW p \in Posts, HookBump(p)
        PROVE  index[q] <= index'[q] + cut[ChannelOf[q]]
    <3>1. /\ hook[p] \in Writing /\ IsIndex(index) /\ due[p] \in Nat
          /\ index' = UpdateExpireByRoot(index, threadRoot(p), due[p])
      BY <2>2, PacedTypes DEF HookBump, Writing, IInv, TypeOK
    <3>2. index'[q] = IF threadRoot(q) = threadRoot(p) THEN due[p] ELSE index[q]
      BY <3>1, BumpFacts
    <3>3. CASE threadRoot(q) = threadRoot(p)
      <4>1. ChannelOf[q] = ChannelOf[p]
        BY <2>1, <3>3, ThreadChannel
      <4> QED
        BY <3>1, <3>2, <3>3, <4>1 DEF Paced, Bounded
    <3>4. CASE threadRoot(q) # threadRoot(p)
      BY <2>1, <3>2, <3>4
    <3> QED
      BY <3>3, <3>4
  <2>3. CASE \A p \in Posts : ~HookBump(p)
    BY <2>1, <2>3, OnlyBumpMoves
  <2> QED
    BY <2>2, <2>3
<1> QED
  BY <1>1, IInvCorrect, PacedCorrect, PTL DEF Spec, RegressOnlyByTTLCut
=============================================================================
