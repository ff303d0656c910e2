----------------------------- MODULE PurgePolicy -----------------------------
(***************************************************************************)
(* The sweeper's deletion decision (server/configuration.go).  A text is a *)
(* sequence of characters, so that splitting, trimming and prefix matching *)
(* of the allowlist do what the Go code does.                              *)
(***************************************************************************)
EXTENDS Naturals, Sequences

\* Blank stands for every character that Unicode counts as space.
Comma == ","
Blank == " "

\* Where an entry of the list starts or ends.
Edge(raw, i) == i \in {0, Len(raw) + 1} \/ raw[i] = Comma

\* strings.Split(raw, ","): the maximal runs without a comma.
Split(raw) ==
    {SubSeq(raw, b[1] + 1, b[2] - 1) :
        b \in {c \in (0 .. Len(raw)) \X (1 .. Len(raw) + 1) :
                  /\ c[1] < c[2] /\ Edge(raw, c[1]) /\ Edge(raw, c[2])
                  /\ \A i \in c[1] + 1 .. c[2] - 1 : ~Edge(raw, i)}}

\* Mutant of TrimSpace: only leading space is trimmed.
TrimLeft(s) ==
    LET ink == {i \in 1 .. Len(s) : s[i] # Blank}
    IN  IF ink = {} THEN <<>>
        ELSE SubSeq(s, CHOOSE i \in ink : \A j \in ink : i <= j, Len(s))

\* strings.TrimSpace
TrimSpace(s) ==
    LET ink == {i \in 1 .. Len(s) : s[i] # Blank}
    IN  IF ink = {} THEN <<>>
        ELSE SubSeq(s, CHOOSE i \in ink : \A j \in ink : i <= j,
                       CHOOSE i \in ink : \A j \in ink : i >= j)

\* Mutant of PurgeSchemaAllowlist: blank entries are kept, and match anything.
AllowlistWithBlanks(raw) == {TrimSpace(e) : e \in Split(raw)}

\* The parsed allowlist.  Only membership matters to versionAllowed, so the
\* slice is a set; entries that are blank after trimming are dropped.
PurgeSchemaAllowlist(raw) == {TrimSpace(e) : e \in Split(raw)} \ {<<>>}

\* strings.HasPrefix
HasPrefix(s, p) ==
    /\ Len(p) <= Len(s)
    /\ \A i \in 1 .. Len(p) : s[i] = p[i]

versionAllowed(serverVersion, allowlist) ==
    \E allowed \in allowlist : HasPrefix(serverVersion, allowed)

\* Mutant of purgeDecision: a licensed server is treated like any other.
purgeDecisionIgnoringLicense(enablePurge, isEnterprise, serverVersion, allowlist) ==
    IF ~enablePurge THEN "soft"
    ELSE IF ~versionAllowed(serverVersion, allowlist) THEN "skip"
    ELSE "hard"

\* The license is asked about before the schema guard.
purgeDecision(enablePurge, isEnterprise, serverVersion, allowlist) ==
    IF ~enablePurge \/ isEnterprise THEN "soft"
    ELSE IF ~versionAllowed(serverVersion, allowlist) THEN "skip"
    ELSE "hard"

-----------------------------------------------------------------------------
(* Reference *)

Gap(raw, i, j) == \A k \in i .. j : raw[k] = Blank

\* What an administrator reads in the list: somewhere in it stands a non-empty
\* prefix of the version, with nothing but spaces up to the nearest comma, or
\* the end of the list, on either side.
Listed(raw, version) ==
    \E i \in 1 .. Len(raw) : \E j \in i .. Len(raw) :
        /\ j - i + 1 <= Len(version)
        /\ \A k \in i .. j : raw[k] = version[k - i + 1]
        /\ \E l \in 0 .. i - 1 : Edge(raw, l) /\ Gap(raw, l + 1, i - 1)
        /\ \E u \in j + 1 .. Len(raw) + 1 : Edge(raw, u) /\ Gap(raw, j + 1, u - 1)
=============================================================================
