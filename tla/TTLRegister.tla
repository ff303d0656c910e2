----------------------------- MODULE TTLRegister -----------------------------
(***************************************************************************)
(* What a user may rely on when changing or reading a channel's TTL,       *)
(* without saying how: every channel is a register.  A request that is     *)
(* answered with success took effect exactly once between its start and    *)
(* its answer, one that is refused never does, and of one that is answered *)
(* with an error, or not at all, nobody knows.                             *)
(***************************************************************************)
CONSTANTS Requests, Channels, Values, NoTTL

VARIABLES
    register,   \* per channel, its setting
    target,     \* per request, the channel and the value it wants to write, if
                \* it is no read; it never changes
    result,     \* per request, what it has read
    stage       \* per request, how far it is, as far as a user can tell

Stages == {"idle", "open", "applied", "succeeded", "refused", "unknown"}

Targets == [op : {"read", "write"}, channel : Channels, value : Values \cup {NoTTL}]

Init ==
    /\ register = [c \in Channels |-> NoTTL]
    /\ target \in [Requests -> Targets]
    /\ result = [r \in Requests |-> NoTTL]
    /\ stage = [r \in Requests |-> "idle"]

Move(r, from, to) ==
    /\ stage[r] = from
    /\ stage' = [stage EXCEPT ![r] = to]

Write(r) ==
    /\ target[r].op = "write"
    /\ register' = [register EXCEPT ![target[r].channel] = target[r].value]

Begin(r) ==
    /\ Move(r, "idle", "open")
    /\ UNCHANGED <<register, target, result>>

Refuse(r) ==
    /\ Move(r, "idle", "refused") \/ Move(r, "open", "refused")
    /\ UNCHANGED <<register, target, result>>

Apply(r) ==
    /\ Move(r, "open", "applied")
    /\ Write(r)
    /\ UNCHANGED <<target, result>>

Read(r) ==
    /\ target[r].op = "read"
    /\ Move(r, "open", "succeeded")
    /\ result' = [result EXCEPT ![r] = register[target[r].channel]]
    /\ UNCHANGED <<register, target>>

Succeed(r) ==
    /\ Move(r, "applied", "succeeded")
    /\ UNCHANGED <<register, target, result>>

\* An error, or no answer: the write may or may not have happened.
Fail(r) ==
    /\ \/ Move(r, "open", "unknown") /\ (Write(r) \/ UNCHANGED register)
       \/ Move(r, "applied", "unknown") /\ UNCHANGED register
    /\ UNCHANGED <<target, result>>

Next == \E r \in Requests :
    Begin(r) \/ Refuse(r) \/ Apply(r) \/ Read(r) \/ Succeed(r) \/ Fail(r)

vars == <<register, target, result, stage>>

Spec == Init /\ [][Next]_vars
==============================================================================
