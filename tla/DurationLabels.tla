--------------------------- MODULE DurationLabels ---------------------------
(***************************************************************************)
(* How a TTL is written: the short label in the channel header, the        *)
(* duration that /disappear status shows, and the argument of              *)
(* /disappear set.  A text is a sequence of terms such as 1h; TTLs are     *)
(* whole seconds, as they are in settings.                                 *)
(***************************************************************************)
EXTENDS Integers, Sequences, SequencesExt, TLAPS

CONSTANT TTLs       \* the TTLs that a setting may have

ASSUME TTLsAssumption == TTLs \subseteq Nat \ {0}

VARIABLE setting    \* the TTL of the channel that somebody looks at

Minute == 60
Hour == 60 * Minute
Day == 24 * Hour

Size == [s |-> 1, m |-> Minute, h |-> Hour, d |-> Day, w |-> 7 * Day]
Term(n, unit) == [number |-> n, unit |-> unit]
Worth(term) == term.number * Size[term.unit]

\* The presets of the webapp and of the server.
Preset(n, unit, seconds) == [label |-> Term(n, unit), seconds |-> seconds]
PRESETS == {Preset(5, "m", 300), Preset(1, "h", 3600), Preset(8, "h", 28800),
            Preset(1, "d", 86400), Preset(1, "w", 604800)}

\* Mutant of Presets: the server counts a week of five days.
PresetsShortWeek == {Preset(5, "m", 5 * Minute), Preset(1, "h", Hour),
                     Preset(8, "h", 8 * Hour), Preset(1, "d", Day),
                     Preset(1, "w", 5 * Day)}

Presets == {Preset(5, "m", 5 * Minute), Preset(1, "h", Hour), Preset(8, "h", 8 * Hour),
            Preset(1, "d", Day), Preset(1, "w", 7 * Day)}

\* Mutant of Fits: what is left of a unit is cut off.
FitsCutOff(s, unit) == s >= Size[unit]

Fits(s, unit) == s >= Size[unit] /\ s % Size[unit] = 0

\* The label of a preset, else the largest unit that fits.
shortDuration(s) ==
    IF \E p \in PRESETS : p.seconds = s
    THEN (CHOOSE p \in PRESETS : p.seconds = s).label
    ELSE LET unit == IF Fits(s, "d") THEN "d"
                     ELSE IF Fits(s, "h") THEN "h"
                     ELSE IF Fits(s, "m") THEN "m" ELSE "s"
         IN  Term(s \div Size[unit], unit)

\* time.Duration.String: every unit from the first one that is not zero.
String(s) ==
    LET terms == <<Term(s \div Hour, "h"), Term((s % Hour) \div Minute, "m"),
                   Term(s % Minute, "s")>>
    IN  SubSeq(terms, IF s >= Hour THEN 1 ELSE IF s >= Minute THEN 2 ELSE 3, 3)

Invalid == -1

Total(text) == FoldSeq(LAMBDA term, sum : sum + Worth(term), 0, text)

\* time.ParseDuration knows neither days nor weeks.
ParseDuration(text) ==
    IF \E i \in DOMAIN text : text[i].unit \notin {"h", "m", "s"} THEN Invalid
    ELSE Total(text)

\* Mutant of PresetForLabel: what follows the label is not looked at.
PresetForPrefix(text) == {p \in Presets : p.label = text[1]}

PresetForLabel(text) == {p \in Presets : <<p.label>> = text}

\* A preset's label is looked up before the argument is parsed.
parseTTLArg(text) ==
    LET found == PresetForLabel(text)
    IN  IF found = {} THEN ParseDuration(text) ELSE (CHOOSE p \in found : TRUE).seconds

-----------------------------------------------------------------------------
(* Properties *)

\* The label in the header says exactly what the setting is, so that no two
\* TTLs look the same there: shortDuration changes to a larger unit only when
\* nothing is cut off, and every preset's label is right.
ShortLabelExact == Worth(shortDuration(setting)) = setting

\* Who types what the header shows never gets another TTL: presets.ts mirrors
\* the server's presets, and days that are no preset are refused.
ShortLabelTypedBack ==
    parseTTLArg(<<shortDuration(setting)>>) \in {setting, Invalid}

\* Who types what status shows gets the same TTL again.
StatusTypedBack == parseTTLArg(String(setting)) = setting

-----------------------------------------------------------------------------
(* Proof *)

\* A number that a unit divides is that many units.
LEMMA DivisionExact ==
    ASSUME NEW s \in Nat
    PROVE  /\ s % 86400 = 0 => (s \div 86400) * 86400 = s
           /\ s % 3600 = 0 => (s \div 3600) * 3600 = s
           /\ s % 60 = 0 => (s \div 60) * 60 = s
           /\ s \div 1 = s
OBVIOUS

\* The presets are written as what they are.
LEMMA PresetsExact == \A p \in PRESETS : Worth(p.label) = p.seconds
BY DEF PRESETS, Preset, Term, Worth, Size, Day, Hour, Minute

\* Whatever the branch, the label is worth the setting.
LEMMA LabelExact ==
    ASSUME NEW s \in TTLs
    PROVE  Worth(shortDuration(s)) = s
<1>1. s \in Nat
  BY TTLsAssumption
<1>2. CASE \E p \in PRESETS : p.seconds = s
  <2> DEFINE p == CHOOSE q \in PRESETS : q.seconds = s
  <2>1. p \in PRESETS /\ p.seconds = s
    BY <1>2
  <2>2. shortDuration(s) = p.label
    BY <1>2 DEF shortDuration
  <2> QED
    BY <2>1, <2>2, PresetsExact
<1>3. CASE ~\E p \in PRESETS : p.seconds = s
  <2>1. \E unit \in {"d", "h", "m", "s"} :
           /\ shortDuration(s) = Term(s \div Size[unit], unit)
           /\ unit = "s" \/ Fits(s, unit)
    BY <1>3 DEF shortDuration
  <2>2. /\ Size["d"] = 86400 /\ Size["h"] = 3600 /\ Size["m"] = 60 /\ Size["s"] = 1
    BY DEF Size, Day, Hour, Minute
  <2>3. \A unit \in {"d", "h", "m", "s"} :
           unit = "s" \/ Fits(s, unit) => (s \div Size[unit]) * Size[unit] = s
    BY <1>1, <2>2, DivisionExact DEF Fits
  <2> QED
    BY <2>1, <2>3 DEF Term, Worth
<1> QED
  BY <1>2, <1>3

\* The header's label says exactly what any TTL is.
THEOREM LabelsExact == setting \in TTLs => ShortLabelExact
BY LabelExact DEF ShortLabelExact

-----------------------------------------------------------------------------
(* Reading back *)

\* What the fold over a text is: h says for every set of positions what the
\* terms there are worth.
IsTotal(h, text) ==
    h = [s \in SUBSET (DOMAIN text) |->
            IF s = {} THEN 0
            ELSE LET x == CHOOSE x \in s : TRUE IN h[s \ {x}] + Worth(text[x])]

\* FoldSeq goes through the positions in an order that nothing determines.
LEMMA TotalUnfolds ==
    ASSUME NEW text
    PROVE  Total(text) = (CHOOSE h : IsTotal(h, text))[DOMAIN text]
BY Zenon DEF Total, FoldSeq, FoldFunction, FoldFunctionOnSet, MapThenFoldSet, IsTotal

Part(text, s, i) == IF i \in s THEN Worth(text[i]) ELSE 0

\* A text of at most three terms is worth what they are worth together.
LEMMA TotalOfThree ==
    ASSUME NEW text, DOMAIN text \subseteq {1, 2, 3},
           \A i \in DOMAIN text : Worth(text[i]) \in Nat
    PROVE  Total(text) = Part(text, DOMAIN text, 1) + Part(text, DOMAIN text, 2)
                                                    + Part(text, DOMAIN text, 3)
<1> DEFINE D == DOMAIN text
           Sum(s) == Part(text, s, 1) + Part(text, s, 2) + Part(text, s, 3)
           g == [s \in SUBSET D |-> Sum(s)]
           h == CHOOSE f : IsTotal(f, text)
<1>1. ASSUME NEW s \in SUBSET D, NEW x \in s
      PROVE  Sum(s) = Sum(s \ {x}) + Worth(text[x])
  <2>1. x \in {1, 2, 3} /\ Worth(text[x]) \in Nat
    BY <1>1
  <2>2. \A i \in {1, 2, 3} : /\ Part(text, s, i) \in Nat /\ Part(text, s \ {x}, i) \in Nat
                             /\ i # x => Part(text, s, i) = Part(text, s \ {x}, i)
    BY DEF Part
  <2>3. Part(text, s, x) = Worth(text[x]) /\ Part(text, s \ {x}, x) = 0
    BY <1>1 DEF Part
  <2> HIDE DEF D
  <2>4. CASE x = 1
    BY <2>1, <2>2, <2>3, <2>4
  <2>5. CASE x = 2
    BY <2>1, <2>2, <2>3, <2>5
  <2>6. CASE x = 3
    BY <2>1, <2>2, <2>3, <2>6
  <2> QED
    BY <2>1, <2>4, <2>5, <2>6
<1>2. Sum({}) = 0
  BY DEF Part
<1> HIDE DEF Sum
<1>3. IsTotal(g, text)
  <2>1. ASSUME NEW s \in SUBSET D
        PROVE  Sum(s) = IF s = {} THEN 0
                        ELSE LET x == CHOOSE x \in s : TRUE IN g[s \ {x}] + Worth(text[x])
    <3>1. CASE s = {}
      BY <1>2, <3>1
    <3>2. CASE s # {}
      <4> DEFINE x == CHOOSE x \in s : TRUE
      <4>1. x \in s
        BY <3>2
      <4>2. g[s \ {x}] = Sum(s \ {x})
        OBVIOUS
      <4> QED
        BY <1>1, <3>2, <4>1, <4>2
    <3> QED
      BY <3>1, <3>2
  <2> QED
    BY <2>1 DEF IsTotal
<1> HIDE DEF g
<1>4. IsTotal(h, text)
  BY <1>3
<1> HIDE DEF h
<1>5. /\ h[{}] = 0
      /\ \A s \in SUBSET D : s # {} =>
            \E x \in s : h[s] = h[s \ {x}] + Worth(text[x])
  <2>1. \A s \in SUBSET D : h[s] = IF s = {} THEN 0
            ELSE LET x == CHOOSE x \in s : TRUE IN h[s \ {x}] + Worth(text[x])
    BY <1>4 DEF IsTotal
  <2>2. \A s \in SUBSET D : s # {} => (CHOOSE x \in s : TRUE) \in s
    OBVIOUS
  <2> QED
    BY <2>1, <2>2
<1>6. ASSUME NEW s \in SUBSET D, s # {}, \A x \in s : h[s \ {x}] = Sum(s \ {x})
      PROVE  h[s] = Sum(s)
  <2>1. PICK x \in s : h[s] = h[s \ {x}] + Worth(text[x])
    BY <1>5, <1>6
  <2>2. h[s \ {x}] = Sum(s \ {x}) /\ Sum(s) = Sum(s \ {x}) + Worth(text[x])
    BY <1>1, <1>6
  <2> QED
    BY <2>1, <2>2
<1>7. h[{}] = Sum({})
  BY <1>2, <1>5
<1>8. \A i \in D : h[{i}] = Sum({i})
  BY <1>6, <1>7
<1>9. \A i, j \in D : h[{i, j}] = Sum({i, j})
  <2> TAKE i, j \in D
  <2>1. \A x \in {i, j} : {i, j} \ {x} \in {{}, {i}, {j}}
    OBVIOUS
  <2> QED
    BY <1>6, <1>7, <1>8, <2>1
<1>10. \A i, j, k \in D : h[{i, j, k}] = Sum({i, j, k})
  <2> TAKE i, j, k \in D
  <2>1. \A x \in {i, j, k} : \E a, b \in D :
           {i, j, k} \ {x} = {} \/ {i, j, k} \ {x} = {a, b}
    OBVIOUS
  <2>2. \A x \in {i, j, k} : h[{i, j, k} \ {x}] = Sum({i, j, k} \ {x})
    <3> TAKE x \in {i, j, k}
    <3>1. CASE {i, j, k} \ {x} = {}
      BY <1>7, <3>1
    <3>2. ASSUME NEW a \in D, NEW b \in D, {i, j, k} \ {x} = {a, b}
          PROVE  h[{i, j, k} \ {x}] = Sum({i, j, k} \ {x})
      BY <1>9, <3>2
    <3> QED
      BY <2>1, <3>1, <3>2
  <2>3. {i, j, k} \in SUBSET D /\ {i, j, k} # {}
    OBVIOUS
  <2> QED
    BY <1>6, <2>2, <2>3
<1>11. h[D] = Sum(D)
  <2>1. CASE D = {}
    BY <1>7, <2>1
  <2>2. CASE D # {}
    <3>1. PICK n \in D : TRUE
      BY <2>2
    <3>2. PICK i, j, k \in D : /\ i = (IF 1 \in D THEN 1 ELSE n)
                               /\ j = (IF 2 \in D THEN 2 ELSE n)
                               /\ k = (IF 3 \in D THEN 3 ELSE n)
      OBVIOUS
    <3>3. D = {i, j, k}
      <4>1. \A d \in D : d \in {1, 2, 3}
        OBVIOUS
      <4>2. \A d \in D : d \in {i, j, k}
        BY <3>2, <4>1
      <4> HIDE DEF D
      <4> QED
        BY <4>2
    <3>4. h[{i, j, k}] = Sum({i, j, k})
      BY <1>10
    <3> HIDE DEF D
    <3> QED
      BY <3>3, <3>4
  <2> QED
    BY <2>1, <2>2
<1> QED
  BY <1>11, TotalUnfolds DEF h, Sum

\* The argument <<term>> of a set is worth its term, or is refused.
LEMMA ParseOne ==
    ASSUME NEW term, Worth(term) \in Nat
    PROVE  ParseDuration(<<term>>) \in {Worth(term), Invalid}
<1> DEFINE text == <<term>>
<1>1. DOMAIN text = {1} /\ text[1] = term
  OBVIOUS
<1> HIDE DEF text
<1>2. DOMAIN text \subseteq {1, 2, 3} /\ \A i \in DOMAIN text : Worth(text[i]) \in Nat
  BY <1>1
<1>3. /\ Part(text, DOMAIN text, 1) = Worth(term)
      /\ Part(text, DOMAIN text, 2) = 0 /\ Part(text, DOMAIN text, 3) = 0
  BY <1>1 DEF Part
<1>4. Total(text) = Worth(term)
  BY <1>2, <1>3, TotalOfThree
<1>5. ParseDuration(text) \in {Total(text), Invalid}
  BY DEF ParseDuration, Total
<1> QED
  BY <1>4, <1>5 DEF text

\* The server's presets are worth what the server counts for them.
LEMMA ServerPresetsExact == \A p \in Presets : Worth(p.label) = p.seconds
BY DEF Presets, Preset, Term, Worth, Size, Day, Hour, Minute

\* Whoever types the label in the header, of any TTL, gets that TTL or an error.
THEOREM LabelsReadBack == setting \in TTLs => ShortLabelTypedBack
<1> SUFFICES ASSUME setting \in TTLs PROVE ShortLabelTypedBack
  OBVIOUS
<1> DEFINE label == shortDuration(setting)
<1>1. Worth(label) = setting /\ setting \in Nat
  BY LabelExact, TTLsAssumption
<1> HIDE DEF label
<1>2. \A p \in PresetForLabel(<<label>>) : p.seconds = setting
  <2>1. \A p \in Presets : <<p.label>> = <<label>> => p.label = label
    OBVIOUS
  <2> QED
    BY <1>1, <2>1, ServerPresetsExact DEF PresetForLabel
<1>3. parseTTLArg(<<label>>) \in {setting, Invalid}
  <2>1. CASE PresetForLabel(<<label>>) = {}
    BY <1>1, <2>1, ParseOne DEF parseTTLArg
  <2>2. CASE PresetForLabel(<<label>>) # {}
    <3>1. (CHOOSE p \in PresetForLabel(<<label>>) : TRUE) \in PresetForLabel(<<label>>)
      BY <2>2
    <3> QED
      BY <1>2, <2>2, <3>1 DEF parseTTLArg
  <2> QED
    BY <2>1, <2>2
<1> QED
  BY <1>3 DEF ShortLabelTypedBack, label

\* Hours, minutes and seconds of a TTL together are the TTL.
LEMMA ClockExact ==
    ASSUME NEW s \in Nat
    PROVE  /\ s \div 3600 \in Nat /\ (s % 3600) \div 60 \in Nat /\ s % 60 \in Nat
           /\ (s \div 3600) * 3600 + ((s % 3600) \div 60) * 60 + (s % 60) = s
           /\ s < 3600 => s % 3600 = s
           /\ s < 60 => s % 60 = s
<1> DEFINE q == s \div 3600
           r == s % 3600
           m == r \div 60
           c == r % 60
<1>1. q \in Nat /\ r \in Nat /\ s = q * 3600 + r
  OBVIOUS
<1>2. s < 3600 => r = s
  OBVIOUS
<1>3. s % 60 \in Nat /\ (s < 60 => s % 60 = s)
  OBVIOUS
<1>4. s = (s \div 60) * 60 + (s % 60) /\ s \div 60 \in Nat /\ s % 60 \in 0 .. 59
  OBVIOUS
<1> HIDE DEF q, r
<1>5. m \in Nat /\ c \in 0 .. 59 /\ r = m * 60 + c
  BY <1>1
<1> HIDE DEF m, c
<1>6. (s \div 60) * 60 + (s % 60) = (q * 60 + m) * 60 + c
  BY <1>1, <1>4, <1>5
<1>7. s % 60 = c
  <2> DEFINE a == q * 60 + m
             b == s \div 60
             i == s % 60
  <2>1. a \in Nat /\ c \in 0 .. 59
    BY <1>1, <1>5
  <2>2. b \in Nat /\ i \in 0 .. 59
    BY <1>4
  <2>3. b * 60 + i = a * 60 + c
    BY <1>6
  <2> HIDE DEF a, b, i
  <2>4. i = c
    BY <2>1, <2>2, <2>3
  <2> QED
    BY <2>4 DEF i
<1> QED
  BY <1>1, <1>2, <1>3, <1>5, <1>7 DEF q, r, m

\* The text of a TTL: terms of h, m and s, from the first that is not zero.
LEMMA StringTerms ==
    ASSUME NEW s \in Nat
    PROVE  /\ DOMAIN String(s) \in {{1}, {1, 2}, {1, 2, 3}}
           /\ \A i \in DOMAIN String(s) : /\ String(s)[i].unit \in {"h", "m", "s"}
                                          /\ Worth(String(s)[i]) \in Nat
           /\ Total(String(s)) = s
<1> DEFINE h == Term(s \div Hour, "h")
           m == Term((s % Hour) \div Minute, "m")
           c == Term(s % Minute, "s")
<1>1. /\ h.unit = "h" /\ m.unit = "m" /\ c.unit = "s"
      /\ Worth(h) = (s \div 3600) * 3600
      /\ Worth(m) = ((s % 3600) \div 60) * 60
      /\ Worth(c) = s % 60
  BY ClockExact DEF Term, Worth, Size, Hour, Minute
<1>2. /\ Worth(h) \in Nat /\ Worth(m) \in Nat /\ Worth(c) \in Nat
      /\ Worth(h) + Worth(m) + Worth(c) = s
      /\ s < 3600 => Worth(h) = 0 /\ Worth(m) + Worth(c) = s
      /\ s < 60 => Worth(c) = s
  BY <1>1, ClockExact
<1>3. String(s) = SubSeq(<<h, m, c>>, IF s >= 3600 THEN 1 ELSE IF s >= 60 THEN 2 ELSE 3, 3)
  BY DEF String, Hour, Minute
<1> HIDE DEF h, m, c
<1>4. CASE s >= 3600
  <2>1. String(s) = SubSeq(<<h, m, c>>, 1, 3)
    BY <1>3, <1>4
  <2>2. /\ DOMAIN String(s) = {1, 2, 3}
        /\ String(s)[1] = h /\ String(s)[2] = m /\ String(s)[3] = c
    BY <2>1
  <2>3. Total(String(s)) = Worth(h) + Worth(m) + Worth(c)
    BY <1>2, <2>2, TotalOfThree DEF Part
  <2> QED
    BY <1>1, <1>2, <2>2, <2>3
<1>5. CASE s < 3600 /\ s >= 60
  <2>1. String(s) = SubSeq(<<h, m, c>>, 2, 3)
    BY <1>3, <1>5
  <2>2. DOMAIN String(s) = {1, 2} /\ String(s)[1] = m /\ String(s)[2] = c
    BY <2>1
  <2>3. Total(String(s)) = Worth(m) + Worth(c)
    BY <1>2, <2>2, TotalOfThree DEF Part
  <2> QED
    BY <1>1, <1>2, <1>5, <2>2, <2>3
<1>6. CASE s < 60
  <2>1. String(s) = SubSeq(<<h, m, c>>, 3, 3)
    BY <1>3, <1>6
  <2>2. DOMAIN String(s) = {1} /\ String(s)[1] = c
    BY <2>1
  <2>3. Total(String(s)) = Worth(c)
    BY <1>2, <2>2, TotalOfThree DEF Part
  <2> QED
    BY <1>1, <1>2, <1>6, <2>2, <2>3
<1> QED
  BY <1>4, <1>5, <1>6

\* Whoever types what status shows, of any TTL, gets that TTL.
THEOREM StatusReadsBack == setting \in TTLs => StatusTypedBack
<1> SUFFICES ASSUME setting \in TTLs PROVE StatusTypedBack
  OBVIOUS
<1>1. setting \in Nat
  BY TTLsAssumption
<1> DEFINE text == String(setting)
<1>2. /\ DOMAIN text \in {{1}, {1, 2}, {1, 2, 3}}
      /\ \A i \in DOMAIN text : text[i].unit \in {"h", "m", "s"}
      /\ Total(text) = setting
  BY <1>1, StringTerms
<1>3. ParseDuration(text) = setting
  BY <1>2 DEF ParseDuration, Total
<1>4. \A p \in PresetForLabel(text) : p.seconds = setting
  <2> SUFFICES ASSUME NEW p \in Presets, <<p.label>> = text PROVE p.seconds = setting
    BY DEF PresetForLabel
  <2> HIDE DEF text
  <2>1. DOMAIN text = {1} /\ text[1] = p.label
    OBVIOUS
  <2>2. Worth(p.label) \in Nat
    <3>1. Worth(p.label) = p.seconds
      BY ServerPresetsExact
    <3>2. p.seconds \in Nat
      BY DEF Presets, Preset, Day, Hour, Minute
    <3> QED
      BY <3>1, <3>2
  <2>3. /\ Part(text, DOMAIN text, 1) = Worth(p.label)
        /\ Part(text, DOMAIN text, 2) = 0 /\ Part(text, DOMAIN text, 3) = 0
    BY <2>1 DEF Part
  <2>4. Total(text) = Worth(p.label)
    BY <2>1, <2>2, <2>3, TotalOfThree
  <2> QED
    BY <1>2, <2>4, ServerPresetsExact
<1> HIDE DEF text
<1>5. parseTTLArg(text) = setting
  <2>1. CASE PresetForLabel(text) = {}
    BY <1>3, <2>1 DEF parseTTLArg
  <2>2. CASE PresetForLabel(text) # {}
    <3>1. (CHOOSE p \in PresetForLabel(text) : TRUE) \in PresetForLabel(text)
      BY <2>2
    <3> QED
      BY <1>4, <2>2, <3>1 DEF parseTTLArg
  <2> QED
    BY <2>1, <2>2
<1> QED
  BY <1>5 DEF StatusTypedBack, text
=============================================================================
