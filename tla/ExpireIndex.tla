----------------------------- MODULE ExpireIndex -----------------------------
(***************************************************************************)
(* The mpmd_expire table (server/expiry/store.go) as a value: a function   *)
(* from the posts that have a row to the row's expire_at.  Every operator  *)
(* is one SQL statement; the database runs a statement atomically.  The    *)
(* column root_id is the threadRoot of the row's post, channel_id its      *)
(* channel, and created_at is never read back by the plugin, so expire_at  *)
(* is the only column that varies.                                         *)
(***************************************************************************)
EXTENDS Naturals, FiniteSets

CONSTANTS
    Posts,    \* every post that may ever be sent
    RootOf,   \* [Posts -> Posts \cup {NoRoot}]: the post's RootId
    NoRoot    \* the empty RootId of a thread root

\* MM threads are flat: a reply's RootId is a post that has no RootId itself.
ASSUME ThreadAssumption ==
    /\ NoRoot \notin Posts
    /\ RootOf \in [Posts -> Posts \cup {NoRoot}]
    /\ \A p \in Posts : RootOf[p] # NoRoot => RootOf[RootOf[p]] = NoRoot

IsReply(p) == RootOf[p] # NoRoot

\* The thread a post belongs to: its RootId, or itself for a root.
threadRoot(p) == IF RootOf[p] # NoRoot THEN RootOf[p] ELSE p

\* The tables the plugin can hold: rows for some posts, an expire_at each.
IsIndex(idx) == DOMAIN idx \subseteq Posts /\ idx \in [DOMAIN idx -> Nat]

EmptyIndex == [p \in {} |-> 0]

\* INSERT ... ON CONFLICT(post_id) DO UPDATE
Upsert(idx, p, expireAt) ==
    [q \in DOMAIN idx \cup {p} |-> IF q = p THEN expireAt ELSE idx[q]]

\* Mutant of UpdateExpireByRoot: the root's own row is not part of the thread.
UpdateRepliesByRoot(idx, root, expireAt) ==
    [q \in DOMAIN idx |-> IF RootOf[q] = root THEN expireAt ELSE idx[q]]

\* UPDATE mpmd_expire SET expire_at = ? WHERE root_id = ?
UpdateExpireByRoot(idx, root, expireAt) ==
    [q \in DOMAIN idx |-> IF threadRoot(q) = root THEN expireAt ELSE idx[q]]

\* Mutant of Expired: rows that expire in the next tick count as expired.
ExpiredEarly(idx, now) == {p \in DOMAIN idx : idx[p] <= now + 1}

\* The rows that are due at the time now.
Expired(idx, now) == {p \in DOMAIN idx : idx[p] <= now}

\* SELECT ... WHERE expire_at <= ? ORDER BY expire_at LIMIT ?: the results the
\* query may return, as sets of posts.  Rows with the same expire_at come in
\* any order, so the limit may cut through them anywhere.
GetExpired(idx, now, limit) ==
    LET due == Expired(idx, now)
    IN  {B \in SUBSET due :
            /\ Cardinality(B) = limit \/ (Cardinality(B) < limit /\ B = due)
            /\ \A p \in B, q \in due \ B : idx[p] <= idx[q]}

\* DELETE FROM mpmd_expire WHERE post_id IN (...)
DeleteByPostIDs(idx, ids) == [q \in DOMAIN idx \ ids |-> idx[q]]
=============================================================================
