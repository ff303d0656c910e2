---------------------------- MODULE MCTTLSettings ----------------------------
(***************************************************************************)
(* Instances of TTLSettings.  An int64 has Word = 64 values and a second   *)
(* three units of a duration, so that, as in Go, the product of ttl_seconds *)
(* and time.Second can wrap around into the accepted range.                *)
(***************************************************************************)
EXTENDS TTLSettings, TLC

CONSTANTS r1, r2, r3, ana, bob, chief, town, pair, gone

Req3 == {r1, r2, r3}
Req2 == {r1, r2}
Symmetric == Permutations(Requests)

Kinds3 == town :> "public" @@ pair :> "direct" @@ gone :> "missing"
AnaManages == town :> {ana} @@ pair :> {} @@ gone :> {}

CallAt(via, op, user, channel, amount, at) ==
    [via |-> via, op |-> op, user |-> user, channel |-> channel,
     amount |-> amount, at |-> at]
Call(via, op, user, channel, amount) == CallAt(via, op, user, channel, amount, 1)

\* Settings that differ in the duration or only in the instant, one of them by a
\* slash command with a fraction of a second, and a clear.
Contention == {
    CallAt("http", "set", ana, town, 1, 2),
    Call("http", "set", ana, town, 1),
    Call("slash", "set", ana, town, 8),
    Call("slash", "clear", ana, town, 0)}

\* Every check that can refuse a call, and a channel per kind.
Refusable == {
    Call("http", "set", ana, town, 1),
    Call("http", "set", ana, town, -1),
    Call("http", "set", bob, town, 2),
    Call("http", "set", ana, town, 4),
    Call("http", "set", bob, pair, 2),
    Call("http", "clear", bob, pair, 0),
    Call("slash", "set", ana, gone, 1),
    Call("slash", "set", bob, pair, 2),
    Call("http", "clear", chief, town, 0),
    Call("http", "clear", ana, town, 0)}

\* status by a user who may not change the channel.
Reads == {Call("slash", "get", bob, town, 0)}

\* An amount that wraps around: 23 * 3 = 69 = 5 modulo 64.
Wrapping == {Call("http", "set", ana, town, 23)}
AllCalls == Contention \cup Refusable \cup Reads
==============================================================================
