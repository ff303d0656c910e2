---------------------------- MODULE MCTexts ----------------------------------
(***************************************************************************)
(* Texts that people type and read.  An administrator types the allowlist  *)
(* one character at a time, on servers of several versions: every list up  *)
(* to MaxLen characters.  A TTL is written and read back: every one up to  *)
(* three hours, and whole hours of a year with their neighbours.           *)
(***************************************************************************)
EXTENDS PurgePolicyProofs, DurationLabels

CONSTANTS
    Versions,   \* what GetServerVersion may return
    Characters, \* what an administrator types besides blanks and commas
    MaxLen      \* bound on the length of the list

ASSUME TextsAssumption ==
    /\ \A v \in Versions : v \in Seq(Characters) /\ Reported(v)
    /\ MaxLen \in Nat

MCTTLs == (Minute .. 3 * Hour) \cup
          {h * Hour + o : h \in 3 .. 365 * 24, o \in {-Minute, 0, 1}}
MCVersions == {<<>>, <<"1", "0", ".">>, <<"1", "0", "0">>, <<"0">>}

VARIABLES raw, version

\* Either a TTL is looked at or a list is typed.
Init ==
    /\ raw = <<>>
    /\ \/ setting \in TTLs /\ version = <<>>
       \/ setting = Minute /\ version \in Versions

TypeText  == \E ch \in Characters : raw' = Append(raw, ch)
TypeBlank == \E ch \in {Comma, Blank} : raw' = Append(raw, ch)

Next ==
    /\ Len(raw) < MaxLen
    /\ setting = Minute
    /\ TypeText \/ TypeBlank
    /\ UNCHANGED <<version, setting>>

Spec == Init /\ [][Next]_<<raw, version, setting>>

Allowed == versionAllowed(version, PurgeSchemaAllowlist(raw))

\* The schema guard lets exactly the listed versions pass, for every list:
\* blank entries, stray commas and spaces never open or close it
\* (PurgeSchemaAllowlist, versionAllowed).
GuardMatchesList == Allowed <=> Listed(raw, version)

\* A comma or a space at the end of the list never changes what is allowed, so
\* that saving a half-typed list with a trailing separator is harmless.
SeparatorIsNeutral ==
    [][raw' \in {Append(raw, Comma), Append(raw, Blank)} => Allowed' = Allowed]_<<raw, version>>

-----------------------------------------------------------------------------
(* Proof *)

Typed == Characters \cup {Comma, Blank}

TextsTyped == raw \in Seq(Typed) /\ version \in Seq(Typed) /\ Reported(version)

\* The list starts empty.
LEMMA InitTyped == Init => TextsTyped
<1>1. \A v \in Versions \cup {<<>>} : v \in Seq(Typed) /\ Reported(v)
  <2>1. ASSUME NEW v \in Versions PROVE v \in Seq(Typed) /\ Reported(v)
    <3>1. v \in Seq(Characters) /\ Reported(v)
      BY TextsAssumption
    <3>2. Len(v) \in Nat /\ \A k \in 1 .. Len(v) : v[k] \in Typed
      BY <3>1 DEF Typed
    <3>3. v = [k \in 1 .. Len(v) |-> v[k]]
      BY <3>1
    <3> QED
      BY <3>1, <3>2, <3>3, IsASeq
  <2>2. <<>> \in Seq(Typed) /\ Reported(<<>>)
    BY DEF Reported
  <2> QED
    BY <2>1, <2>2
<1> QED
  BY <1>1 DEF Init, TextsTyped

\* Typing a character leaves a text.
LEMMA NextTyped == TextsTyped /\ [Next]_<<raw, version, setting>> => TextsTyped'
<1>1. TextsTyped /\ Next => TextsTyped'
  BY AppendProperties DEF TextsTyped, Next, TypeText, TypeBlank, Typed
<1>2. TextsTyped /\ UNCHANGED <<raw, version, setting>> => TextsTyped'
  BY DEF TextsTyped
<1> QED
  BY <1>1, <1>2

\* What is typed is always a text, and the version one of those reported.
LEMMA TextsTypedCorrect == Spec => []TextsTyped
BY InitTyped, NextTyped, PTL DEF Spec

\* Of every server version, and in every list an administrator can type, the
\* guard allows exactly what is listed.
THEOREM GuardCorrect == Spec => []GuardMatchesList
<1>1. TextsTyped => GuardMatchesList
  BY GuardIsList DEF TextsTyped, GuardMatchesList, Allowed
<1> QED
  BY <1>1, TextsTypedCorrect, PTL

\* No list changes its meaning by a separator at its end.
THEOREM SeparatorCorrect == Spec => SeparatorIsNeutral
<1>1. TextsTyped /\ TextsTyped' /\ [Next]_<<raw, version, setting>> =>
         [raw' \in {Append(raw, Comma), Append(raw, Blank)} => Allowed' = Allowed]_<<raw, version>>
  <2> SUFFICES ASSUME TextsTyped, TextsTyped', version' = version,
                      NEW ch \in {Comma, Blank}, raw' = Append(raw, ch)
               PROVE  Allowed' = Allowed
    BY DEF Next
  <2>1. Listed(raw', version) <=> Listed(raw, version)
    BY SeparatorAddsNothing, SeparatorTakesNothing DEF TextsTyped, Typed
  <2>2. /\ Allowed <=> Listed(raw, version)
        /\ Allowed' <=> Listed(raw', version)
    BY GuardIsList DEF TextsTyped, Allowed
  <2>3. Allowed \in BOOLEAN /\ Allowed' \in BOOLEAN
    BY DEF Allowed, versionAllowed
  <2> QED
    BY <2>1, <2>2, <2>3
<1> QED
  BY <1>1, TextsTypedCorrect, PTL DEF Spec, SeparatorIsNeutral
=============================================================================
