----------------------------- MODULE MCDisappear -----------------------------
(***************************************************************************)
(* A server of version "10" with one channel, a thread root r with the     *)
(* replies a and b, and a standalone post s.                               *)
(***************************************************************************)
EXTENDS Disappear, TLC

CONSTANTS r, a, b, s, chan

MCChannelOf == [p \in Posts |-> chan]
MCRootOf == [p \in Posts |-> IF p \in {a, b} THEN r ELSE NoRoot]
MCVersion == <<"1", "0", ".">>

\* The defaults of plugin.json, with a space that has to be trimmed.
HardConfig == [EnablePurge |-> TRUE, AllowlistRaw |-> <<"9", ",", " ", "1", "0", ".">>]
SoftConfig == [EnablePurge |-> FALSE, AllowlistRaw |-> <<"1", "0", ".">>]
\* No entry matches the server: the schema guard skips.
UntestedConfig == [EnablePurge |-> TRUE, AllowlistRaw |-> <<"1", "0", ".", "5", ",", ",">>]

HardOnly == {HardConfig}
SoftOnly == {SoftConfig}
\* A failed load leaves the zero value, which soft-deletes.
Purging == {HardConfig, UntestedConfig}

Replies == Permutations({a, b})
=============================================================================
