-------------------------- MODULE PurgePolicyProofs --------------------------
(***************************************************************************)
(* Lemmas about the schema guard: what trimming returns, and that the      *)
(* guard allows exactly the versions listed, for every list and version.   *)
(***************************************************************************)
EXTENDS PurgePolicy, WellFoundedInduction, SequenceTheorems, TLAPS

-----------------------------------------------------------------------------
(* The first and the last of a set of positions *)

\* A set of numbers that is not empty has a least one.
LEMMA LeastExists ==
    ASSUME NEW S \in SUBSET Nat, S # {}
    PROVE  \E i \in S : \A j \in S : i <= j
<1>1. PICK i \in S : \A j \in S : <<j, i>> \notin OpToRel(<, Nat)
  BY NatLessThanWellFounded, WFMin
<1>2. \A j \in S : ~(j < i)
  BY <1>1 DEF OpToRel
<1> QED
  BY <1>2

\* A bounded set of numbers that is not empty has a greatest one.
LEMMA GreatestExists ==
    ASSUME NEW n \in Nat, NEW S \in SUBSET (1 .. n), S # {}
    PROVE  \E i \in S : \A j \in S : i >= j
<1> DEFINE T == {n - i : i \in S}
<1>1. T \in SUBSET Nat /\ T # {}
  <2>1. \A i \in S : i \in Int /\ i <= n
    OBVIOUS
  <2>2. \A i \in S : n - i \in Nat
    BY <2>1
  <2> QED
    BY <2>2
<1>2. PICK k \in T : \A j \in T : k <= j
  <2> HIDE DEF T
  <2> QED
    BY <1>1, LeastExists
<1>3. PICK i \in S : k = n - i
  OBVIOUS
<1>4. ASSUME NEW j \in S PROVE i >= j
  <2>1. n - i <= n - j
    BY <1>2, <1>3
  <2>2. i \in Int /\ j \in Int
    OBVIOUS
  <2> QED
    BY <2>1, <2>2
<1> QED
  BY <1>4

-----------------------------------------------------------------------------
(* Trimming *)

\* The characters of s that are not blank.
Ink(s) == {i \in 1 .. Len(s) : s[i] # Blank}

\* A text with ink has a first and a last character that is no blank.
LEMMA InkFacts ==
    ASSUME NEW Chars, NEW s \in Seq(Chars)
    PROVE  /\ Len(s) \in Nat /\ Ink(s) \in SUBSET (1 .. Len(s)) /\ Ink(s) \in SUBSET Nat
           /\ \A k \in 1 .. Len(s) : s[k] \in Chars /\ (k \in Ink(s) <=> s[k] # Blank)
BY DEF Ink

\* From the first to the last character that is not blank.
LEMMA TrimFacts ==
    ASSUME NEW Chars, NEW s \in Seq(Chars), Ink(s) # {}
    PROVE  \E m, n \in Ink(s) :
              /\ \A k \in Ink(s) : m <= k /\ k <= n
              /\ TrimSpace(s) = SubSeq(s, m, n)
<1> DEFINE m == CHOOSE i \in Ink(s) : \A j \in Ink(s) : i <= j
           n == CHOOSE i \in Ink(s) : \A j \in Ink(s) : i >= j
<1>1. Ink(s) \in SUBSET Nat /\ Len(s) \in Nat /\ Ink(s) \in SUBSET (1 .. Len(s))
  BY InkFacts
<1>2. m \in Ink(s) /\ \A k \in Ink(s) : m <= k
  BY <1>1, LeastExists
<1>3. n \in Ink(s) /\ \A k \in Ink(s) : n >= k
  <2>1. \E i \in Ink(s) : \A j \in Ink(s) : i >= j
    BY <1>1, GreatestExists
  <2> QED
    BY <2>1
<1>4. \A k \in Ink(s) : k <= n
  <2> HIDE DEF n
  <2> QED
    BY <1>1, <1>3
<1>5. TrimSpace(s) = SubSeq(s, m, n)
  BY DEF TrimSpace, Ink
<1> HIDE DEF m, n
<1> QED
  BY <1>2, <1>3, <1>4, <1>5

\* The ends of the characters that are not blank are unique.
LEMMA TrimIs ==
    ASSUME NEW Chars, NEW s \in Seq(Chars), NEW m \in Ink(s), NEW n \in Ink(s),
           \A k \in Ink(s) : m <= k /\ k <= n
    PROVE  TrimSpace(s) = SubSeq(s, m, n)
<1>1. PICK i, j \in Ink(s) : /\ \A k \in Ink(s) : i <= k /\ k <= j
                             /\ TrimSpace(s) = SubSeq(s, i, j)
  BY TrimFacts
<1>2. /\ i \in Nat /\ j \in Nat /\ m \in Nat /\ n \in Nat
      /\ i <= m /\ m <= i /\ n <= j /\ j <= n
  BY <1>1, InkFacts
<1> QED
  BY <1>1, <1>2

\* A text without ink is trimmed to nothing.
LEMMA TrimBlank ==
    ASSUME NEW s, Ink(s) = {}
    PROVE  TrimSpace(s) = <<>>
BY DEF TrimSpace, Ink

-----------------------------------------------------------------------------
(* Splitting *)

\* The characters between two positions of the list.
LEMMA SpanFacts ==
    ASSUME NEW Chars, NEW raw \in Seq(Chars),
           NEW l \in 0 .. Len(raw), NEW u \in 1 .. Len(raw) + 1,
           l < u
    PROVE  /\ SubSeq(raw, l + 1, u - 1) \in Seq(Chars)
           /\ Len(SubSeq(raw, l + 1, u - 1)) = u - l - 1
           /\ \A k \in 1 .. u - l - 1 : SubSeq(raw, l + 1, u - 1)[k] = raw[l + k]
<1>1. l + 1 \in Int /\ u - 1 \in Int /\ \A k \in l + 1 .. u - 1 : raw[k] \in Chars
  OBVIOUS
<1>2. /\ SubSeq(raw, l + 1, u - 1) \in Seq(Chars)
      /\ Len(SubSeq(raw, l + 1, u - 1)) =
            IF l + 1 <= u - 1 THEN u - 1 - (l + 1) + 1 ELSE 0
      /\ \A k \in 1 .. u - 1 - (l + 1) + 1 :
            SubSeq(raw, l + 1, u - 1)[k] = raw[l + 1 + k - 1]
  BY <1>1, SubSeqProperties
<1> QED
  BY <1>2

\* The entries of the list.
IsEntry(raw, l, u) ==
    /\ l < u /\ Edge(raw, l) /\ Edge(raw, u)
    /\ \A k \in l + 1 .. u - 1 : ~Edge(raw, k)

\* The entries of a list are the spans between neighbouring edges.
LEMMA SplitFacts ==
    ASSUME NEW raw, NEW e
    PROVE  e \in Split(raw) <=>
              \E l \in 0 .. Len(raw), u \in 1 .. Len(raw) + 1 :
                 IsEntry(raw, l, u) /\ e = SubSeq(raw, l + 1, u - 1)
<1> DEFINE Ends == {c \in (0 .. Len(raw)) \X (1 .. Len(raw) + 1) :
                        IsEntry(raw, c[1], c[2])}
<1>1. e \in Split(raw) <=> \E b \in Ends : e = SubSeq(raw, b[1] + 1, b[2] - 1)
  <2>1. Split(raw) = {SubSeq(raw, b[1] + 1, b[2] - 1) : b \in Ends}
    BY DEF Split, IsEntry
  <2> HIDE DEF Ends
  <2> QED
    BY <2>1
<1>2. \A l \in 0 .. Len(raw), u \in 1 .. Len(raw) + 1 :
          IsEntry(raw, l, u) => <<l, u>> \in Ends /\ <<l, u>>[1] = l /\ <<l, u>>[2] = u
  <2> SUFFICES ASSUME NEW l \in 0 .. Len(raw), NEW u \in 1 .. Len(raw) + 1,
                      IsEntry(raw, l, u)
               PROVE  <<l, u>> \in Ends /\ <<l, u>>[1] = l /\ <<l, u>>[2] = u
    OBVIOUS
  <2>1. <<l, u>>[1] = l /\ <<l, u>>[2] = u
    OBVIOUS
  <2>2. IsEntry(raw, <<l, u>>[1], <<l, u>>[2])
    BY <2>1
  <2>3. <<l, u>> \in (0 .. Len(raw)) \X (1 .. Len(raw) + 1)
    OBVIOUS
  <2> QED
    BY <2>1, <2>2, <2>3
<1>3. \A b \in Ends : /\ b[1] \in 0 .. Len(raw) /\ b[2] \in 1 .. Len(raw) + 1
                      /\ IsEntry(raw, b[1], b[2])
  <2> SUFFICES ASSUME NEW b \in Ends
               PROVE  /\ b[1] \in 0 .. Len(raw) /\ b[2] \in 1 .. Len(raw) + 1
                      /\ IsEntry(raw, b[1], b[2])
    OBVIOUS
  <2>1. b \in (0 .. Len(raw)) \X (1 .. Len(raw) + 1) /\ IsEntry(raw, b[1], b[2])
    OBVIOUS
  <2> QED
    BY <2>1
<1> HIDE DEF Ends
<1>4. ASSUME e \in Split(raw)
      PROVE  \E l \in 0 .. Len(raw), u \in 1 .. Len(raw) + 1 :
                IsEntry(raw, l, u) /\ e = SubSeq(raw, l + 1, u - 1)
  <2>1. PICK b \in Ends : e = SubSeq(raw, b[1] + 1, b[2] - 1)
    BY <1>1, <1>4
  <2>2. /\ b[1] \in 0 .. Len(raw) /\ b[2] \in 1 .. Len(raw) + 1
        /\ IsEntry(raw, b[1], b[2])
    BY <1>3
  <2> QED
    BY <2>1, <2>2
<1>5. ASSUME NEW l \in 0 .. Len(raw), NEW u \in 1 .. Len(raw) + 1,
             IsEntry(raw, l, u), e = SubSeq(raw, l + 1, u - 1)
      PROVE  e \in Split(raw)
  <2> DEFINE b == <<l, u>>
  <2>1. b \in Ends /\ b[1] = l /\ b[2] = u
    BY <1>2, <1>5
  <2> HIDE DEF b
  <2> QED
    BY <1>1, <1>5, <2>1
<1> QED
  BY <1>4, <1>5

\* Where the guard finds an entry that the version starts with, it is listed.
LEMMA EntryListed ==
    ASSUME NEW Chars, NEW raw \in Seq(Chars), NEW version \in Seq(Chars),
           NEW e \in Split(raw),
           TrimSpace(e) # <<>>, HasPrefix(version, TrimSpace(e))
    PROVE  Listed(raw, version)
<1>1. PICK l \in 0 .. Len(raw), u \in 1 .. Len(raw) + 1 :
          IsEntry(raw, l, u) /\ e = SubSeq(raw, l + 1, u - 1)
  BY SplitFacts
<1>2. /\ l \in Nat /\ u \in Nat /\ l < u /\ Edge(raw, l) /\ Edge(raw, u)
      /\ Len(raw) \in Nat /\ Len(version) \in Nat
  BY <1>1 DEF IsEntry
<1>3. /\ e \in Seq(Chars) /\ Len(e) = u - l - 1
      /\ \A k \in 1 .. u - l - 1 : e[k] = raw[l + k]
  BY <1>1, <1>2, SpanFacts
<1>4. PICK m, n \in Ink(e) : /\ \A k \in Ink(e) : m <= k /\ k <= n
                             /\ TrimSpace(e) = SubSeq(e, m, n)
  BY <1>3, TrimFacts, TrimBlank
<1>5. /\ m \in 1 .. u - l - 1 /\ n \in 1 .. u - l - 1 /\ m <= n
      /\ \A k \in 1 .. u - l - 1 : k < m \/ n < k => e[k] = Blank
  <2>1. m \in 1 .. u - l - 1 /\ n \in 1 .. u - l - 1 /\ m <= n
    BY <1>3, <1>4, InkFacts
  <2>2. ASSUME NEW k \in 1 .. u - l - 1, k < m \/ n < k PROVE e[k] = Blank
    <3>1. k \notin Ink(e)
      BY <1>4, <2>1, <2>2
    <3> QED
      BY <1>3, <3>1, InkFacts
  <2> QED
    BY <2>1, <2>2
<1>6. /\ Len(TrimSpace(e)) = n - m + 1
      /\ \A k \in 1 .. n - m + 1 : TrimSpace(e)[k] = e[m + k - 1]
  <2>1. \A k \in m .. n : e[k] \in Chars
    BY <1>2, <1>3, <1>5
  <2> QED
    BY <1>2, <1>4, <1>5, <2>1, SubSeqProperties
<1> DEFINE i == l + m
           j == l + n
<1>7. i \in 1 .. Len(raw) /\ j \in i .. Len(raw) /\ j - i + 1 <= Len(version)
  BY <1>1, <1>2, <1>5, <1>6 DEF HasPrefix
<1>8. \A k \in i .. j : raw[k] = version[k - i + 1]
  <2> SUFFICES ASSUME NEW k \in i .. j PROVE raw[k] = version[k - i + 1]
    OBVIOUS
  <2>1. k - i + 1 \in 1 .. n - m + 1 /\ k - l \in 1 .. u - l - 1 /\ l + (k - l) = k
        /\ m + (k - i + 1) - 1 = k - l
    BY <1>2, <1>5
  <2>2. version[k - i + 1] = TrimSpace(e)[k - i + 1]
    BY <1>6, <2>1 DEF HasPrefix
  <2>3. TrimSpace(e)[k - i + 1] = e[k - l]
    BY <1>6, <2>1
  <2>4. e[k - l] = raw[k]
    BY <1>3, <2>1
  <2> QED
    BY <2>2, <2>3, <2>4
<1>9. l \in 0 .. i - 1 /\ Gap(raw, l + 1, i - 1)
  <2> SUFFICES ASSUME NEW k \in l + 1 .. i - 1 PROVE raw[k] = Blank
    BY <1>2, <1>5 DEF Gap
  <2>1. k - l \in 1 .. u - l - 1 /\ k - l < m /\ l + (k - l) = k
    BY <1>2, <1>5
  <2> QED
    BY <1>3, <1>5, <2>1
<1>10. u \in j + 1 .. Len(raw) + 1 /\ Gap(raw, j + 1, u - 1)
  <2> SUFFICES ASSUME NEW k \in j + 1 .. u - 1 PROVE raw[k] = Blank
    BY <1>1, <1>2, <1>5 DEF Gap
  <2>1. k - l \in 1 .. u - l - 1 /\ n < k - l /\ l + (k - l) = k
    BY <1>2, <1>5
  <2> QED
    BY <1>3, <1>5, <2>1
<1> HIDE DEF i, j
<1> QED
  BY <1>2, <1>7, <1>8, <1>9, <1>10 DEF Listed

\* A version as a server reports it: neither blanks nor commas.
Reported(version) == \A k \in 1 .. Len(version) : version[k] \notin {Blank, Comma}

\* What is listed is an entry of its own: there is no comma inside it.
LEMMA ListedEntry ==
    ASSUME NEW Chars, NEW raw \in Seq(Chars), NEW version \in Seq(Chars),
           Reported(version),
           Listed(raw, version)
    PROVE  \E e \in Split(raw) : TrimSpace(e) # <<>> /\ HasPrefix(version, TrimSpace(e))
<1>1. PICK i \in 1 .. Len(raw) : \E j \in i .. Len(raw) :
        /\ j - i + 1 <= Len(version)
        /\ \A k \in i .. j : raw[k] = version[k - i + 1]
        /\ \E l \in 0 .. i - 1 : Edge(raw, l) /\ Gap(raw, l + 1, i - 1)
        /\ \E u \in j + 1 .. Len(raw) + 1 : Edge(raw, u) /\ Gap(raw, j + 1, u - 1)
  BY DEF Listed
<1>2. PICK j \in i .. Len(raw) :
        /\ j - i + 1 <= Len(version)
        /\ \A k \in i .. j : raw[k] = version[k - i + 1]
        /\ \E l \in 0 .. i - 1 : Edge(raw, l) /\ Gap(raw, l + 1, i - 1)
        /\ \E u \in j + 1 .. Len(raw) + 1 : Edge(raw, u) /\ Gap(raw, j + 1, u - 1)
  BY <1>1
<1>3. PICK l \in 0 .. i - 1 : Edge(raw, l) /\ Gap(raw, l + 1, i - 1)
  BY <1>2
<1>4. PICK u \in j + 1 .. Len(raw) + 1 : Edge(raw, u) /\ Gap(raw, j + 1, u - 1)
  BY <1>2
<1>5. /\ i \in Nat /\ j \in Nat /\ l \in Nat /\ u \in Nat /\ Len(raw) \in Nat
      /\ Len(version) \in Nat /\ l < i /\ i <= j /\ j < u /\ u <= Len(raw) + 1
  OBVIOUS
<1>6. \A k \in i .. j : raw[k] \notin {Blank, Comma}
  <2> SUFFICES ASSUME NEW k \in i .. j PROVE raw[k] \notin {Blank, Comma}
    OBVIOUS
  <2>1. k - i + 1 \in 1 .. Len(version)
    BY <1>2, <1>5
  <2> QED
    BY <1>2, <2>1 DEF Reported
<1>7. Blank # Comma
  BY Zenon DEF Blank, Comma
<1>8. IsEntry(raw, l, u)
  <2>1. ASSUME NEW k \in l + 1 .. u - 1 PROVE raw[k] # Comma /\ k \in 1 .. Len(raw)
    <3>1. k \in l + 1 .. i - 1 \/ k \in i .. j \/ k \in j + 1 .. u - 1
      BY <1>5
    <3>2. raw[k] = Blank \/ raw[k] \notin {Blank, Comma}
      BY <1>3, <1>4, <1>6, <3>1 DEF Gap
    <3>3. k \in 1 .. Len(raw)
      BY <1>5
    <3> QED
      BY <1>7, <3>2, <3>3
  <2>2. \A k \in l + 1 .. u - 1 : ~Edge(raw, k)
    <3> SUFFICES ASSUME NEW k \in l + 1 .. u - 1 PROVE ~Edge(raw, k)
      OBVIOUS
    <3>1. raw[k] # Comma /\ k \in 1 .. Len(raw)
      BY <2>1
    <3>2. k # 0 /\ k # Len(raw) + 1
      BY <1>5, <3>1
    <3> QED
      BY <3>1, <3>2 DEF Edge
  <2> QED
    BY <1>3, <1>4, <1>5, <2>2 DEF IsEntry
<1> DEFINE e == SubSeq(raw, l + 1, u - 1)
           m == i - l
           n == j - l
<1>9. l \in 0 .. Len(raw) /\ u \in 1 .. Len(raw) + 1 /\ l < u
  BY <1>5
<1>10. /\ e \in Seq(Chars) /\ Len(e) = u - l - 1
       /\ \A k \in 1 .. u - l - 1 : e[k] = raw[l + k]
  BY <1>9, SpanFacts
<1>11. e \in Split(raw)
  BY <1>8, <1>9, SplitFacts
<1>12. /\ m \in 1 .. u - l - 1 /\ n \in 1 .. u - l - 1 /\ m <= n
       /\ l + m = i /\ l + n = j
  BY <1>5
<1> HIDE DEF e, m, n
<1>13. m \in Ink(e) /\ n \in Ink(e)
  <2>1. e[m] = raw[l + m] /\ e[n] = raw[l + n]
    BY <1>10, <1>12
  <2>2. e[m] = raw[i] /\ e[n] = raw[j]
    BY <1>12, <2>1
  <2>3. i \in i .. j /\ j \in i .. j
    BY <1>5
  <2> QED
    BY <1>6, <1>10, <1>12, <2>2, <2>3, InkFacts
<1>14. \A k \in Ink(e) : m <= k /\ k <= n
  <2> SUFFICES ASSUME NEW k \in 1 .. u - l - 1, ~(m <= k /\ k <= n)
               PROVE  e[k] = Blank
    BY <1>10, InkFacts
  <2>1. l + k \in l + 1 .. i - 1 \/ l + k \in j + 1 .. u - 1
    BY <1>5, <1>12
  <2> QED
    BY <1>3, <1>4, <1>10, <2>1 DEF Gap
<1>15. TrimSpace(e) = SubSeq(e, m, n)
  BY <1>10, <1>13, <1>14, TrimIs
<1>16. /\ Len(TrimSpace(e)) = n - m + 1
       /\ \A k \in 1 .. n - m + 1 : TrimSpace(e)[k] = e[m + k - 1]
  <2>1. \A k \in m .. n : e[k] \in Chars
    BY <1>5, <1>10, <1>12
  <2> QED
    BY <1>5, <1>12, <1>15, <2>1, SubSeqProperties
<1>17. TrimSpace(e) # <<>>
  BY <1>5, <1>12, <1>16
<1>18. HasPrefix(version, TrimSpace(e))
  <2>1. n - m + 1 = j - i + 1
    BY <1>5, <1>12
  <2>2. ASSUME NEW k \in 1 .. n - m + 1 PROVE version[k] = TrimSpace(e)[k]
    <3>1. /\ m + k - 1 \in 1 .. u - l - 1 /\ l + (m + k - 1) = i + k - 1
          /\ i + k - 1 \in i .. j /\ (i + k - 1) - i + 1 = k
      BY <1>5, <1>12
    <3>2. TrimSpace(e)[k] = raw[i + k - 1]
      BY <1>10, <1>16, <3>1
    <3>3. raw[i + k - 1] = version[k]
      BY <1>2, <3>1
    <3> QED
      BY <3>2, <3>3
  <2> QED
    BY <1>2, <1>16, <2>1, <2>2 DEF HasPrefix
<1> QED
  BY <1>11, <1>17, <1>18

\* The schema guard allows a version if and only if it is listed.
THEOREM GuardIsList ==
    ASSUME NEW Chars, NEW raw \in Seq(Chars), NEW version \in Seq(Chars),
           Reported(version)
    PROVE  versionAllowed(version, PurgeSchemaAllowlist(raw)) <=> Listed(raw, version)
<1>1. versionAllowed(version, PurgeSchemaAllowlist(raw)) <=>
        \E e \in Split(raw) : TrimSpace(e) # <<>> /\ HasPrefix(version, TrimSpace(e))
  BY DEF versionAllowed, PurgeSchemaAllowlist
<1> QED
  BY <1>1, EntryListed, ListedEntry
\* An entry that a version starts with is the beginning of that version.
LEMMA AllowedIsPrefix ==
    ASSUME NEW Chars, NEW raw \in Seq(Chars), NEW version \in Seq(Chars),
           NEW e \in PurgeSchemaAllowlist(raw), HasPrefix(version, e)
    PROVE  e = SubSeq(version, 1, Len(e))
<1>1. PICK f \in Split(raw) : e = TrimSpace(f) /\ e # <<>>
  BY DEF PurgeSchemaAllowlist
<1>2. f \in Seq(Chars)
  <2>1. PICK l \in 0 .. Len(raw), u \in 1 .. Len(raw) + 1 :
            IsEntry(raw, l, u) /\ f = SubSeq(raw, l + 1, u - 1)
    BY SplitFacts
  <2> QED
    BY <2>1, SpanFacts DEF IsEntry
<1>3. e \in Seq(Chars)
  <2>1. PICK m, n \in Ink(f) : e = SubSeq(f, m, n)
    BY <1>1, <1>2, TrimFacts, TrimBlank
  <2>2. m \in Int /\ n \in Int /\ \A k \in m .. n : f[k] \in Chars
    BY <1>2, InkFacts
  <2> QED
    BY <2>1, <2>2, SubSeqProperties
<1>4. Len(e) \in Nat /\ Len(e) <= Len(version) /\ \A k \in 1 .. Len(e) : version[k] = e[k]
  BY <1>3 DEF HasPrefix
<1>5. /\ SubSeq(version, 1, Len(e)) \in Seq(Chars)
      /\ Len(SubSeq(version, 1, Len(e))) = Len(e)
      /\ \A k \in 1 .. Len(e) : SubSeq(version, 1, Len(e))[k] = version[k]
  <2>1. \A k \in 1 .. Len(e) : version[k] \in Chars
    BY <1>4
  <2>2. /\ SubSeq(version, 1, Len(e)) \in Seq(Chars)
        /\ Len(SubSeq(version, 1, Len(e))) = IF 1 <= Len(e) THEN Len(e) - 1 + 1 ELSE 0
        /\ \A k \in 1 .. Len(e) - 1 + 1 : SubSeq(version, 1, Len(e))[k] = version[1 + k - 1]
    BY <1>4, <2>1, SubSeqProperties
  <2> QED
    BY <1>4, <2>2
<1> QED
  BY <1>3, <1>4, <1>5, SeqEqual

-----------------------------------------------------------------------------
(* A list that is still being typed *)

\* What a list has more once a character is typed at its end.
LEMMA AppendFacts ==
    ASSUME NEW Chars, NEW raw \in Seq(Chars), NEW ch \in {Comma, Blank} \cap Chars
    PROVE  /\ Append(raw, ch) \in Seq(Chars)
           /\ Len(raw) \in Nat /\ Len(Append(raw, ch)) = Len(raw) + 1
           /\ \A k \in 1 .. Len(raw) : Append(raw, ch)[k] = raw[k]
           /\ Append(raw, ch)[Len(raw) + 1] = ch
BY AppendProperties

\* A separator at the end adds nothing to the list ...
LEMMA SeparatorAddsNothing ==
    ASSUME NEW Chars, NEW raw \in Seq(Chars), NEW ch \in {Comma, Blank} \cap Chars,
           NEW version \in Seq(Chars), Reported(version),
           Listed(Append(raw, ch), version)
    PROVE  Listed(raw, version)
<1> DEFINE new == Append(raw, ch)
           N == Len(raw)
<1>1. /\ N \in Nat /\ Len(new) = N + 1 /\ new[N + 1] = ch
      /\ \A k \in 1 .. N : new[k] = raw[k]
  BY AppendFacts
<1> HIDE DEF new
<1>2. Listed(new, version)
  BY DEF new
<1>3. PICK i \in 1 .. Len(new) : \E j \in i .. Len(new) :
        /\ j - i + 1 <= Len(version)
        /\ \A k \in i .. j : new[k] = version[k - i + 1]
        /\ \E l \in 0 .. i - 1 : Edge(new, l) /\ Gap(new, l + 1, i - 1)
        /\ \E u \in j + 1 .. Len(new) + 1 : Edge(new, u) /\ Gap(new, j + 1, u - 1)
  BY <1>2 DEF Listed
<1>4. PICK j \in i .. Len(new) :
        /\ j - i + 1 <= Len(version)
        /\ \A k \in i .. j : new[k] = version[k - i + 1]
        /\ \E l \in 0 .. i - 1 : Edge(new, l) /\ Gap(new, l + 1, i - 1)
        /\ \E u \in j + 1 .. Len(new) + 1 : Edge(new, u) /\ Gap(new, j + 1, u - 1)
  BY <1>3
<1>5. i \in Nat /\ j \in Nat /\ 1 <= i /\ i <= j /\ j <= N + 1 /\ Len(version) \in Nat
  BY <1>1
<1>6. j <= N
  <2>1. j - i + 1 \in 1 .. Len(version) /\ j \in i .. j
    BY <1>4, <1>5
  <2>2. new[j] \notin {Comma, Blank}
    BY <1>4, <2>1 DEF Reported
  <2> QED
    BY <1>1, <1>5, <2>2
<1>7. \A k \in i .. j : raw[k] = version[k - i + 1]
  <2>1. \A k \in i .. j : k \in 1 .. N
    BY <1>1, <1>5, <1>6
  <2> QED
    BY <1>1, <1>4, <2>1
<1>8. \E l \in 0 .. i - 1 : Edge(raw, l) /\ Gap(raw, l + 1, i - 1)
  <2>1. PICK l \in 0 .. i - 1 : Edge(new, l) /\ Gap(new, l + 1, i - 1)
    BY <1>4
  <2>2. Edge(raw, l)
    BY <1>1, <1>5, <1>6, <2>1 DEF Edge
  <2>3. Gap(raw, l + 1, i - 1)
    BY <1>1, <1>5, <1>6, <2>1 DEF Gap
  <2> QED
    BY <2>2, <2>3
<1>9. \E u \in j + 1 .. N + 1 : Edge(raw, u) /\ Gap(raw, j + 1, u - 1)
  <2>1. PICK u \in j + 1 .. Len(new) + 1 : Edge(new, u) /\ Gap(new, j + 1, u - 1)
    BY <1>4
  <2>2. CASE u <= N
    <3>1. Edge(raw, u) /\ u \in j + 1 .. N + 1
      BY <1>1, <1>5, <2>1, <2>2 DEF Edge
    <3>2. Gap(raw, j + 1, u - 1)
      BY <1>1, <1>5, <2>1, <2>2 DEF Gap
    <3> QED
      BY <3>1, <3>2
  <2>3. CASE u > N
    <3>1. Edge(raw, N + 1) /\ N + 1 \in j + 1 .. N + 1
      BY <1>1, <1>5, <1>6 DEF Edge
    <3>2. Gap(raw, j + 1, (N + 1) - 1)
      BY <1>1, <1>5, <2>1, <2>3 DEF Gap
    <3> QED
      BY <3>1, <3>2
  <2> QED
    BY <1>1, <1>5, <2>2, <2>3
<1>10. i \in 1 .. N /\ j \in i .. N
  BY <1>1, <1>5, <1>6
<1> QED
  BY <1>4, <1>7, <1>8, <1>9, <1>10 DEF Listed

\* ... and takes nothing from it.
LEMMA SeparatorTakesNothing ==
    ASSUME NEW Chars, NEW raw \in Seq(Chars), NEW ch \in {Comma, Blank} \cap Chars,
           NEW version \in Seq(Chars), Reported(version),
           Listed(raw, version)
    PROVE  Listed(Append(raw, ch), version)
<1> DEFINE new == Append(raw, ch)
           N == Len(raw)
<1>1. /\ N \in Nat /\ Len(new) = N + 1 /\ new[N + 1] = ch
      /\ \A k \in 1 .. N : new[k] = raw[k]
  BY AppendFacts
<1> HIDE DEF new
<1>3. PICK i \in 1 .. N : \E j \in i .. N :
        /\ j - i + 1 <= Len(version)
        /\ \A k \in i .. j : raw[k] = version[k - i + 1]
        /\ \E l \in 0 .. i - 1 : Edge(raw, l) /\ Gap(raw, l + 1, i - 1)
        /\ \E u \in j + 1 .. N + 1 : Edge(raw, u) /\ Gap(raw, j + 1, u - 1)
  BY DEF Listed
<1>4. PICK j \in i .. N :
        /\ j - i + 1 <= Len(version)
        /\ \A k \in i .. j : raw[k] = version[k - i + 1]
        /\ \E l \in 0 .. i - 1 : Edge(raw, l) /\ Gap(raw, l + 1, i - 1)
        /\ \E u \in j + 1 .. N + 1 : Edge(raw, u) /\ Gap(raw, j + 1, u - 1)
  BY <1>3
<1>5. i \in Nat /\ j \in Nat /\ 1 <= i /\ i <= j /\ j <= N
  BY <1>1
<1>7. \A k \in i .. j : new[k] = version[k - i + 1]
  <2>1. \A k \in i .. j : k \in 1 .. N
    BY <1>1, <1>5
  <2> QED
    BY <1>1, <1>4, <2>1
<1>8. \E l \in 0 .. i - 1 : Edge(new, l) /\ Gap(new, l + 1, i - 1)
  <2>1. PICK l \in 0 .. i - 1 : Edge(raw, l) /\ Gap(raw, l + 1, i - 1)
    BY <1>4
  <2>2. Edge(new, l)
    BY <1>1, <1>5, <2>1 DEF Edge
  <2>3. \A k \in l + 1 .. i - 1 : k \in 1 .. N
    BY <1>1, <1>5
  <2>4. Gap(new, l + 1, i - 1)
    BY <1>1, <2>1, <2>3 DEF Gap
  <2> QED
    BY <2>2, <2>4
<1>9. \E u \in j + 1 .. Len(new) + 1 : Edge(new, u) /\ Gap(new, j + 1, u - 1)
  <2>1. PICK u \in j + 1 .. N + 1 : Edge(raw, u) /\ Gap(raw, j + 1, u - 1)
    BY <1>4
  <2>2. Gap(new, j + 1, u - 1)
    BY <1>1, <1>5, <2>1 DEF Gap
  <2>3. CASE u <= N
    <3>1. Edge(new, u) /\ u \in j + 1 .. Len(new) + 1
      BY <1>1, <1>5, <2>1, <2>3 DEF Edge
    <3> QED
      BY <2>2, <3>1
  <2>4. CASE u = N + 1 /\ ch = Comma
    <3>1. Edge(new, u) /\ u \in j + 1 .. Len(new) + 1
      BY <1>1, <1>5, <2>4 DEF Edge
    <3> QED
      BY <2>2, <3>1
  <2>5. CASE u = N + 1 /\ ch = Blank
    <3>1. Edge(new, N + 2) /\ N + 2 \in j + 1 .. Len(new) + 1
      BY <1>1, <1>5 DEF Edge
    <3>2. Gap(new, j + 1, (N + 2) - 1)
      BY <1>1, <1>5, <2>2, <2>5 DEF Gap
    <3> QED
      BY <3>1, <3>2
  <2>6. u <= N \/ u = N + 1
    BY <1>1, <1>5
  <2> QED
    BY <2>3, <2>4, <2>5, <2>6
<1>10. i \in 1 .. Len(new) /\ j \in i .. Len(new)
  BY <1>1, <1>5
<1>11. Listed(new, version)
  BY <1>4, <1>7, <1>8, <1>9, <1>10 DEF Listed
<1> QED
  BY <1>11 DEF new
=============================================================================
