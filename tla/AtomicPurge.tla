----------------------------- MODULE AtomicPurge -----------------------------
(***************************************************************************)
(* What the sweeper relies on when it calls the hard purge: the posts of a *)
(* batch go together or not at all, success means that they are gone, and  *)
(* an error leaves open whether they are.                                  *)
(***************************************************************************)
CONSTANT Posts

VARIABLES
    present,    \* the posts in the Mattermost database
    batch,      \* the posts of the running call
    call        \* whether a call is running, and how far

vars == <<present, batch, call>>

Init ==
    /\ present = Posts
    /\ batch = {}
    /\ call = "none"

Begin(B) ==
    /\ call = "none"
    /\ batch' = B
    /\ call' = "running"
    /\ UNCHANGED present

RemoveBatch ==
    /\ call = "running"
    /\ present' = present \ batch
    /\ call' \in {"ok", "unknown"}
    /\ UNCHANGED batch

Fail ==
    /\ call = "running"
    /\ call' \in {"error", "unknown"}
    /\ UNCHANGED <<present, batch>>

\* The caller learns how it ended; "unknown" looks like an error to it.
Return ==
    /\ call \in {"ok", "error", "unknown"}
    /\ call' = "none"
    /\ UNCHANGED <<present, batch>>

Next == (\E B \in SUBSET Posts : Begin(B)) \/ RemoveBatch \/ Fail \/ Return

Spec == Init /\ [][Next]_vars
==============================================================================
