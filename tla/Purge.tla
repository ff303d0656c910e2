-------------------------------- MODULE Purge --------------------------------
(***************************************************************************)
(* The hard purge: one transaction with a DELETE per table of a post's     *)
(* footprint, against Mattermost's own tables while users go on adding     *)
(* reactions, files and mentions.  Between two statements the database     *)
(* serves others: they see none of the deletions before the commit, and    *)
(* no foreign key stops a row of a post that is about to go.               *)
(***************************************************************************)
EXTENDS Integers, Sequences, FiniteSets

CONSTANTS
    Posts,
    Rows,           \* every row that there may ever be: its table and its post
    InitialRows,    \* the ones there are at first
    MaxCalls        \* bound on the calls of Purge

\* Mutant of Footprint: a table is forgotten.
FootprintWithoutMentions == <<"posts", "fileinfo", "reactions">>

Footprint == <<"posts", "fileinfo", "reactions", "mentions">>

\* Mattermost's tables that hold a post's data.
Schema == {"posts", "fileinfo", "reactions", "mentions"}

PostRows(S) == {x \in S : x.table = "posts"}

ASSUME PurgeAssumption ==
    /\ Rows \subseteq [table : Schema, post : Posts, id : Nat]
    /\ InitialRows \subseteq Rows
    /\ \A p \in Posts : \E x \in PostRows(InitialRows) : x.post = p
    /\ PostRows(Rows) \subseteq InitialRows
    /\ MaxCalls \in Nat

VARIABLES
    rows,       \* what everybody sees: the committed rows
    adding,     \* rows that a request is about to insert, its post looked up
    batch,      \* the ids that the running call was given
    pc,         \* idle, exec (in the transaction) or returned
    done,       \* statements of the transaction that have run
    deleted,    \* rows deleted by them, not committed yet
    result,     \* how the call ended; unknown: Commit failed, but did commit
    calls,      \* calls so far
    late        \* history: rows of a batch inserted after their table's DELETE

vars == <<rows, adding, batch, pc, done, deleted, result, calls, late>>

TypeOK ==
    /\ rows \subseteq Rows
    /\ adding \subseteq Rows
    /\ batch \subseteq Posts
    /\ pc \in {"idle", "exec", "returned"}
    /\ done \in 0 .. Len(Footprint)
    /\ deleted \subseteq IF pc = "exec" THEN rows ELSE {}
    /\ result \in {"none", "ok", "error", "unknown"}
    /\ calls \in 0 .. MaxCalls
    /\ late \subseteq Rows

Init ==
    /\ rows = InitialRows
    /\ adding = {}
    /\ batch = {}
    /\ pc = "idle"
    /\ done = 0
    /\ deleted = {}
    /\ result = "none"
    /\ calls = 0
    /\ late = {}

present == {x.post : x \in PostRows(rows)}

-----------------------------------------------------------------------------
(* Mattermost's users *)

\* A request for a reaction, an upload or a mention finds its post.
LookUp(x) ==
    /\ x \in Rows \ (rows \cup adding)
    /\ x.table # "posts"
    /\ x.post \in present
    /\ adding' = adding \cup {x}
    /\ UNCHANGED <<rows, batch, pc, done, deleted, result, calls, late>>

\* It inserts its row, no matter what has become of the post.
TooLate(x) ==
    \/ x.post \notin present
    \/ pc = "exec" /\ x.post \in batch /\ x.table \in {Footprint[i] : i \in 1 .. done}

Insert(x) ==
    /\ x \in adding
    /\ adding' = adding \ {x}
    /\ rows' = rows \cup {x}
    /\ late' = IF TooLate(x) THEN late \cup {x} ELSE late
    /\ UNCHANGED <<batch, pc, done, deleted, result, calls>>

-----------------------------------------------------------------------------
(* sqlPurger.Purge *)

Return(how) ==
    /\ pc' = "returned"
    /\ result' = how
    /\ deleted' = {}

\* An empty batch is answered without a transaction; BeginTx may fail.
Call(B) ==
    /\ pc = "idle"
    /\ calls < MaxCalls
    /\ calls' = calls + 1
    /\ batch' = B
    /\ pc' = "exec"
    /\ done' = 0
    /\ UNCHANGED <<rows, adding, deleted, result, late>>

EmptyBatch ==
    /\ pc = "exec"
    /\ batch = {}
    /\ Return("ok")
    /\ UNCHANGED <<rows, adding, batch, done, calls, late>>

\* Mutant of Exec: the statements run outside of the transaction.
ExecAutocommit ==
    /\ pc = "exec"
    /\ batch # {}
    /\ done < Len(Footprint)
    /\ done' = done + 1
    /\ rows' = {x \in rows : x.table # Footprint[done'] \/ x.post \notin batch}
    /\ UNCHANGED <<adding, batch, pc, deleted, result, calls, late>>

\* The next DELETE sees the rows that are committed when it starts.
Exec ==
    /\ pc = "exec"
    /\ batch # {}
    /\ done < Len(Footprint)
    /\ done' = done + 1
    /\ deleted' = deleted \cup
          {x \in rows : x.table = Footprint[done'] /\ x.post \in batch}
    /\ UNCHANGED <<rows, adding, batch, pc, result, calls, late>>

\* Mutant of GiveUp: a failed statement leaves the transaction open.
GiveUpWithoutRollback ==
    /\ pc = "exec"
    /\ batch # {}
    /\ pc' = "returned"
    /\ result' = "error"
    /\ UNCHANGED <<rows, adding, batch, done, deleted, calls, late>>

\* BeginTx or a statement fails and the transaction is rolled back, by the
\* code or, when the process stops or Commit fails, by the database.
GiveUp ==
    /\ pc = "exec"
    /\ batch # {}
    /\ Return("error")
    /\ UNCHANGED <<rows, adding, batch, done, calls, late>>

\* Commit, with its answer or without.
Commit ==
    /\ pc = "exec"
    /\ batch # {}
    /\ done = Len(Footprint)
    /\ rows' = rows \ deleted
    /\ Return("ok") \/ Return("unknown")
    /\ UNCHANGED <<adding, batch, done, calls, late>>

\* The sweeper takes the answer; it may call again with the same ids.
Answer ==
    /\ pc = "returned"
    /\ pc' = "idle"
    /\ UNCHANGED <<rows, adding, batch, done, deleted, result, calls, late>>

Next ==
    \/ \E x \in Rows : LookUp(x) \/ Insert(x)
    \/ \E B \in SUBSET Posts : Call(B)
    \/ EmptyBatch
    \/ Exec
    \/ GiveUp
    \/ Commit
    \/ Answer

Spec == Init /\ [][Next]_vars

-----------------------------------------------------------------------------
(* Properties *)

\* When a post is gone, the only rows left of it were inserted after the
\* transaction had passed their table: the purge removes a post with its full
\* footprint, also when an earlier call with the same ids failed half way.
OnlyLateRowsRemain ==
    \A x \in rows : x.post \notin present => x \in late

\* A call, as its caller sees it.
Atomic == INSTANCE AtomicPurge WITH
    call <- IF pc = "idle" THEN "none" ELSE IF pc = "exec" THEN "running" ELSE result

\* The transaction implements the all-or-nothing removal that the sweeper's
\* retry relies on, whatever users insert meanwhile and wherever it fails.
ImplementsAtomicPurge == Atomic!Spec
==============================================================================
