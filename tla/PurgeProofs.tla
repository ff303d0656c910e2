----------------------------- MODULE PurgeProofs -----------------------------
(***************************************************************************)
(* The transaction removes a post with its footprint, all or nothing, for  *)
(* any set of posts, any rows and any number of calls.                     *)
(***************************************************************************)
EXTENDS Purge, TLAPS

USE PurgeAssumption

\* A request only ever adds rows of the other tables, so that a post that is
\* gone stays gone and no row of the table posts is late.
OnlyPostsHavePosts == PostRows(adding) = {} /\ PostRows(late) = {}

Passed == {Footprint[i] : i \in 1 .. done}

\* The statements that have run have caught every row of the batch in their
\* tables, apart from those that were inserted behind them.
Caught ==
    pc = "exec" =>
        /\ \A x \in deleted : x.post \in batch
        /\ \A x \in rows : x.post \in batch /\ x.table \in Passed => x \in deleted \cup late

\* A call that has returned has an answer.
Answered == pc = "returned" => result \in {"ok", "error", "unknown"}

IInv == TypeOK /\ OnlyPostsHavePosts /\ Caught /\ Answered /\ OnlyLateRowsRemain

-----------------------------------------------------------------------------
\* The footprint names every table that holds a post's data, posts among them.
LEMMA FootprintFacts ==
    /\ Len(Footprint) = 4
    /\ Footprint[1] = "posts"
    /\ \A t \in Schema : \E i \in 1 .. 4 : Footprint[i] = t
    /\ \A i \in 1 .. 4 : Footprint[i] \in Schema
<1> DEFINE F == <<"posts", "fileinfo", "reactions", "mentions">>
<1>1. /\ Len(F) = 4 /\ F[1] = "posts" /\ F[2] = "fileinfo"
      /\ F[3] = "reactions" /\ F[4] = "mentions"
  OBVIOUS
<1>2. \A i \in 1 .. 4 : i = 1 \/ i = 2 \/ i = 3 \/ i = 4
  OBVIOUS
<1> QED
  BY <1>1, <1>2 DEF Footprint, Schema

\* Rows have the fields that the statements look at.
LEMMA RowFacts ==
    \A x \in Rows : x.table \in Schema /\ x.post \in Posts
OBVIOUS

\* The invariant holds before the first call.
LEMMA InitIInv == Init => IInv
<1> SUFFICES ASSUME Init PROVE IInv
  OBVIOUS
<1>1. TypeOK
  BY FootprintFacts DEF Init, TypeOK
<1>2. OnlyPostsHavePosts /\ Caught /\ Answered
  BY DEF Init, OnlyPostsHavePosts, Caught, Answered, PostRows
<1>3. OnlyLateRowsRemain
  <2> SUFFICES ASSUME NEW x \in rows PROVE x.post \in present
    BY DEF OnlyLateRowsRemain
  <2>1. rows = InitialRows /\ x.post \in Posts
    BY RowFacts DEF Init
  <2> QED
    BY <2>1 DEF present
<1> QED
  BY <1>1, <1>2, <1>3 DEF IInv

\* Inserting leaves the posts as they are.
LEMMA InsertKeepsPosts ==
    ASSUME IInv, NEW x \in Rows, Insert(x)
    PROVE  present' = present
<1>1. x.table # "posts"
  BY DEF IInv, OnlyPostsHavePosts, PostRows, Insert
<1>2. PostRows(rows') = PostRows(rows)
  BY <1>1 DEF PostRows, Insert
<1> QED
  BY <1>2 DEF present

\* A commit removes exactly the posts of the batch.
LEMMA CommitRemovesBatch ==
    ASSUME IInv, Commit
    PROVE  present' = present \ batch
<1>1. \A x \in PostRows(rows) : x \in deleted <=> x.post \in batch
  <2> SUFFICES ASSUME NEW x \in PostRows(rows) PROVE x \in deleted <=> x.post \in batch
    OBVIOUS
  <2>1. "posts" \in Passed
    BY FootprintFacts DEF Passed, Commit
  <2>2. x \notin late
    BY DEF IInv, OnlyPostsHavePosts, PostRows
  <2> QED
    BY <2>1, <2>2 DEF IInv, Caught, Commit, PostRows
<1>2. PostRows(rows') = {x \in PostRows(rows) : x.post \notin batch}
  BY <1>1 DEF PostRows, Commit
<1> QED
  BY <1>2 DEF present

-----------------------------------------------------------------------------
\* No step leaves the types.
LEMMA TypeStep == IInv /\ [Next]_vars => TypeOK'
<1> SUFFICES ASSUME IInv, [Next]_vars PROVE TypeOK'
  OBVIOUS
<1> USE FootprintFacts DEF IInv, TypeOK
<1>1. ASSUME NEW x \in Rows, LookUp(x) PROVE TypeOK'
  BY <1>1 DEF LookUp
<1>2. ASSUME NEW x \in Rows, Insert(x) PROVE TypeOK'
  BY <1>2 DEF Insert
<1>3. ASSUME NEW B \in SUBSET Posts, Call(B) PROVE TypeOK'
  BY <1>3 DEF Call
<1>4. CASE EmptyBatch
  BY <1>4 DEF EmptyBatch, Return
<1>5. CASE Exec
  BY <1>5 DEF Exec
<1>6. CASE GiveUp
  BY <1>6 DEF GiveUp, Return
<1>7. CASE Commit
  BY <1>7 DEF Commit, Return
<1>8. CASE Answer
  BY <1>8 DEF Answer
<1>9. CASE UNCHANGED vars
  BY <1>9 DEF vars
<1> QED
  BY <1>1, <1>2, <1>3, <1>4, <1>5, <1>6, <1>7, <1>8, <1>9 DEF Next

\* Rows of the table of posts are never late.
LEMMA PostsStep == IInv /\ [Next]_vars => OnlyPostsHavePosts'
<1> SUFFICES ASSUME IInv, [Next]_vars PROVE OnlyPostsHavePosts'
  OBVIOUS
<1> USE DEF IInv, OnlyPostsHavePosts, PostRows
<1>1. ASSUME NEW x \in Rows, LookUp(x) PROVE OnlyPostsHavePosts'
  BY <1>1 DEF LookUp
<1>2. ASSUME NEW x \in Rows, Insert(x) PROVE OnlyPostsHavePosts'
  BY <1>2 DEF Insert
<1>3. CASE UNCHANGED <<adding, late>>
  BY <1>3
<1> QED
  BY <1>1, <1>2, <1>3 DEF Next, Call, EmptyBatch, Exec, GiveUp, Commit, Answer, vars

\* Each statement catches the rows of its table.
LEMMA CaughtStep == IInv /\ [Next]_vars => Caught'
<1> SUFFICES ASSUME IInv, [Next]_vars PROVE Caught'
  OBVIOUS
<1> USE DEF IInv, TypeOK, Caught, Passed
<1>1. ASSUME NEW x \in Rows, LookUp(x) PROVE Caught'
  BY <1>1 DEF LookUp
<1>2. ASSUME NEW x \in Rows, Insert(x) PROVE Caught'
  BY <1>2 DEF Insert, TooLate
<1>3. ASSUME NEW B \in SUBSET Posts, Call(B) PROVE Caught'
  BY <1>3 DEF Call
<1>4. CASE Exec
  <2>1. \A x \in deleted' : x.post \in batch'
    BY <1>4 DEF Exec
  <2>2. ASSUME NEW x \in rows', x.post \in batch', x.table \in Passed'
        PROVE  x \in deleted' \cup late'
    <3>1. PICK i \in 1 .. done' : x.table = Footprint[i]
      BY <2>2
    <3>2. CASE i = done'
      BY <3>1, <3>2, <2>2, <1>4 DEF Exec
    <3>3. CASE i # done'
      <4>1. i \in 1 .. done
        BY <3>3, <1>4, FootprintFacts DEF Exec
      <4> QED
        BY <4>1, <3>1, <2>2, <1>4 DEF Exec
    <3> QED
      BY <3>2, <3>3
  <2> QED
    BY <2>1, <2>2
<1>5. CASE pc' = "returned" \/ pc' = "idle"
  BY <1>5
<1>6. CASE UNCHANGED vars
  BY <1>6 DEF vars
<1> QED
  BY <1>1, <1>2, <1>3, <1>4, <1>5, <1>6 DEF Next, EmptyBatch, GiveUp, Commit, Answer, Return

\* No step returns without an answer.
LEMMA AnsweredStep == IInv /\ [Next]_vars => Answered'
BY DEF IInv, Answered, Next, LookUp, Insert, Call, EmptyBatch, Exec, GiveUp,
       Commit, Answer, Return, vars

\* What is left of a purged post came late.
LEMMA RemainStep == IInv /\ [Next]_vars => OnlyLateRowsRemain'
<1> SUFFICES ASSUME IInv, [Next]_vars PROVE OnlyLateRowsRemain'
  OBVIOUS
<1>1. ASSUME NEW x \in Rows, Insert(x) PROVE OnlyLateRowsRemain'
  <2>1. present' = present
    BY <1>1, InsertKeepsPosts
  <2> QED
    BY <1>1, <2>1 DEF IInv, OnlyLateRowsRemain, Insert, TooLate
<1>2. CASE Commit
  <2> SUFFICES ASSUME NEW x \in rows', x.post \notin present' PROVE x \in late'
    BY DEF OnlyLateRowsRemain
  <2>1. x \in rows /\ x \notin deleted /\ late' = late
    BY <1>2 DEF Commit
  <2>2. x.post \notin present \/ x.post \in batch
    BY <1>2, CommitRemovesBatch
  <2>3. x.table \in Passed
    <3>1. x.table \in Schema
      BY <2>1, RowFacts DEF IInv, TypeOK
    <3> QED
      BY <3>1, <1>2, FootprintFacts DEF Passed, Commit
  <2> QED
    BY <1>2, <2>1, <2>2, <2>3 DEF IInv, Caught, Commit, OnlyLateRowsRemain
<1>3. CASE UNCHANGED <<rows, late>>
  BY <1>3 DEF IInv, OnlyLateRowsRemain, present
<1> QED
  BY <1>1, <1>2, <1>3 DEF Next, LookUp, Call, EmptyBatch, Exec, GiveUp, Answer, vars

-----------------------------------------------------------------------------
\* The inductive invariant behind the theorems below.
THEOREM IInvCorrect == Spec => []IInv
<1>1. IInv /\ [Next]_vars => IInv'
  BY TypeStep, PostsStep, CaughtStep, AnsweredStep, RemainStep DEF IInv
<1> QED
  BY <1>1, InitIInv, PTL DEF Spec

\* Every variable keeps its type; a call that has returned has no transaction
\* open.
THEOREM TypeCorrect == Spec => []TypeOK
<1>1. IInv => TypeOK
  BY DEF IInv
<1> QED
  BY <1>1, IInvCorrect, PTL

\* What is left of a purged post was inserted behind the transaction.
THEOREM FootprintRemoved == Spec => []OnlyLateRowsRemain
<1>1. IInv => OnlyLateRowsRemain
  BY DEF IInv
<1> QED
  BY <1>1, IInvCorrect, PTL

-----------------------------------------------------------------------------
\* The transaction starts where the abstract purge starts.
LEMMA AtomicInit == Init => Atomic!Init
<1> SUFFICES ASSUME Init PROVE present = Posts /\ batch = {} /\ pc = "idle"
  BY DEF Atomic!Init
<1>1. \A x \in PostRows(InitialRows) : x.post \in Posts
  BY RowFacts DEF PostRows
<1> QED
  BY <1>1 DEF Init, present

\* Every step of the transaction is a step or a stutter of the atomic removal.
LEMMA AtomicStep == IInv /\ [Next]_vars => [Atomic!Next]_(Atomic!vars)
<1> DEFINE call == IF pc = "idle" THEN "none" ELSE IF pc = "exec" THEN "running" ELSE result
<1> SUFFICES ASSUME IInv, [Next]_vars PROVE [Atomic!Next]_(Atomic!vars)
  OBVIOUS
<1> USE DEF Atomic!Next, Atomic!vars
<1>1. ASSUME NEW x \in Rows, LookUp(x) PROVE UNCHANGED Atomic!vars
  BY <1>1 DEF LookUp, present
<1>2. ASSUME NEW x \in Rows, Insert(x) PROVE UNCHANGED Atomic!vars
  BY <1>2, InsertKeepsPosts DEF Insert
<1>3. ASSUME NEW B \in SUBSET Posts, Call(B) PROVE Atomic!Begin(B)
  BY <1>3 DEF Call, Atomic!Begin, present
<1>4. CASE EmptyBatch
  BY <1>4 DEF EmptyBatch, Return, Atomic!RemoveBatch, present
<1>5. CASE Exec
  BY <1>5 DEF Exec, present
<1>6. CASE GiveUp
  BY <1>6 DEF GiveUp, Return, Atomic!Fail, present
<1>7. CASE Commit
  BY <1>7, CommitRemovesBatch DEF Commit, Return, Atomic!RemoveBatch
<1>8. CASE Answer
  <2>1. result \in {"ok", "error", "unknown"}
    BY <1>8 DEF Answer, IInv, Answered
  <2> QED
    BY <1>8, <2>1 DEF Answer, Atomic!Return, present
<1>9. CASE UNCHANGED vars
  BY <1>9 DEF vars, present
<1> QED
  BY <1>1, <1>2, <1>3, <1>4, <1>5, <1>6, <1>7, <1>8, <1>9 DEF Next

\* The transaction implements the all-or-nothing removal that the sweeper, and
\* HardPurge in Disappear, rely on.
THEOREM AtomicCorrect == Spec => ImplementsAtomicPurge
<1>1. Spec => []IInv
  BY IInvCorrect
<1> QED
  BY <1>1, AtomicInit, AtomicStep, PTL DEF Spec, ImplementsAtomicPurge, Atomic!Spec
==============================================================================
