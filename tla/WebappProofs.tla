---------------------------- MODULE WebappProofs ----------------------------
(***************************************************************************)
(* Proofs about the browser page: the types of its state, one fetch per    *)
(* channel, a store that shows the server's setting once all is quiet, and *)
(* a modal that shows what was so when it was opened, or later.            *)
(***************************************************************************)
EXTENDS Webapp, SequenceTheorems, TLAPS

USE WebappAssumption

-----------------------------------------------------------------------------
(* Types *)

\* Whatever is counted is counted by acts: a write and an opening take one each.
Counted ==
    /\ opens <= acts
    /\ \A c \in Channels : setting[c] <= acts

IInv == TypeOK /\ Counted

\* A GET that is sent is a GET.
LEMMA RequestTyped ==
    ASSUME NEW owner \in Components \cup 1 .. MaxActs \cup {Saver}, NEW c \in Channels
    PROVE  Request(owner, c) \in Gets
BY DEF Request, Gets

\* A GET that is answered or cancelled stays one, of the same owner and channel.
LEMMA AnsweredTyped ==
    ASSUME NEW g \in Gets, NEW a \in Versions \cup {Pending, Error}
    PROVE  /\ [g EXCEPT !.answer = a] \in Gets
           /\ [g EXCEPT !.answer = a].owner = g.owner
           /\ [g EXCEPT !.answer = a].channel = g.channel
           /\ [g EXCEPT !.answer = a].cancelled = g.cancelled
           /\ [g EXCEPT !.answer = a].answer = a
BY DEF Gets

\* Its answer stays as well when it is cancelled.
LEMMA CancelledTyped ==
    ASSUME NEW g \in Gets, NEW x
    PROVE  LET h == [g EXCEPT !.cancelled = @ \/ g.owner = x] IN
           /\ h \in Gets /\ h.cancelled = (g.cancelled \/ g.owner = x)
           /\ h.owner = g.owner /\ h.channel = g.channel /\ h.answer = g.answer
<1> DEFINE gone == g.cancelled \/ g.owner = x
           h == [g EXCEPT !.cancelled = gone]
<1>1. gone \in BOOLEAN
  BY DEF Gets
<1> HIDE DEF gone
<1>2. /\ h \in Gets /\ h.cancelled = gone
      /\ h.owner = g.owner /\ h.channel = g.channel /\ h.answer = g.answer
  BY <1>1 DEF Gets
<1> QED
  BY <1>2 DEF gone

\* What a queue has left once its head is taken.
LEMMA TailFacts ==
    ASSUME NEW S, NEW s \in Seq(S), s # <<>>
    PROVE  /\ Head(s) \in S /\ Tail(s) \in Seq(S)
           /\ \E i \in DOMAIN s : s[i] = Head(s)
           /\ \A i \in DOMAIN Tail(s) : i + 1 \in DOMAIN s /\ Tail(s)[i] = s[i + 1]
           /\ \A i \in DOMAIN s : \/ s[i] = Head(s)
                                  \/ i - 1 \in DOMAIN Tail(s) /\ Tail(s)[i - 1] = s[i]
<1>1. Len(s) \in Nat \ {0} /\ DOMAIN s = 1 .. Len(s) /\ Head(s) = s[1]
  OBVIOUS
<1>2. /\ Head(s) \in S /\ Tail(s) \in Seq(S) /\ Len(Tail(s)) = Len(s) - 1
      /\ \A i \in 1 .. Len(Tail(s)) : Tail(s)[i] = s[i + 1]
  BY HeadTailProperties
<1>3. DOMAIN Tail(s) = 1 .. Len(s) - 1
  BY <1>2
<1>4. \A i \in DOMAIN Tail(s) : Tail(s)[i] = s[i + 1]
  BY <1>2, <1>3
<1>5. \A i \in DOMAIN s : i = 1 \/ i - 1 \in 1 .. Len(s) - 1
  BY <1>1
<1>6. \A i \in DOMAIN Tail(s) : i + 1 \in DOMAIN s
  BY <1>1, <1>3
<1>7. ASSUME NEW i \in DOMAIN s
      PROVE  \/ s[i] = Head(s)
             \/ i - 1 \in DOMAIN Tail(s) /\ Tail(s)[i - 1] = s[i]
  <2>1. CASE i = 1
    BY <1>1, <2>1
  <2>2. CASE i - 1 \in 1 .. Len(s) - 1
    <3>1. i - 1 \in DOMAIN Tail(s)
      BY <1>3, <2>2
    <3>2. Tail(s)[i - 1] = s[(i - 1) + 1]
      BY <1>4, <3>1
    <3>3. (i - 1) + 1 = i
      BY <1>1
    <3> QED
      BY <3>1, <3>2, <3>3
  <2> QED
    BY <1>5, <2>1, <2>2
<1>8. \E i \in DOMAIN s : s[i] = Head(s)
  <2>1. 1 \in DOMAIN s
    BY <1>1
  <2> QED
    BY <1>1, <2>1
<1> QED
  BY <1>2, <1>4, <1>6, <1>7, <1>8

\* What is in a queue, and what it has more once v has joined it.
LEMMA QueueFacts ==
    ASSUME NEW S, NEW s \in Seq(S), NEW v \in S
    PROVE  /\ \A i \in DOMAIN s : s[i] \in S
           /\ \A i \in DOMAIN s : i \in DOMAIN Append(s, v) /\ Append(s, v)[i] = s[i]
           /\ \E i \in DOMAIN Append(s, v) : Append(s, v)[i] = v
<1>1. Len(s) \in Nat /\ DOMAIN s = 1 .. Len(s)
  OBVIOUS
<1>2. \A i \in DOMAIN s : s[i] \in S
  BY <1>1, ElementOfSeq
<1> DEFINE t == Append(s, v)
<1>3. /\ t \in Seq(S) /\ Len(t) = Len(s) + 1 /\ t[Len(s) + 1] = v
      /\ \A i \in 1 .. Len(s) : t[i] = s[i]
  BY AppendProperties
<1> HIDE DEF t
<1>4. DOMAIN t = 1 .. Len(s) + 1
  BY <1>1, <1>3
<1>5. \A i \in DOMAIN s : i \in DOMAIN t /\ t[i] = s[i]
  BY <1>1, <1>3, <1>4
<1>6. \E i \in DOMAIN t : t[i] = v
  <2>1. Len(s) + 1 \in DOMAIN t
    BY <1>1, <1>4
  <2> QED
    BY <1>3, <2>1
<1> QED
  BY <1>2, <1>5, <1>6 DEF t

\* The page starts with nothing loaded.
LEMMA InitTyped == Init => IInv
BY DEF Init, IInv, TypeOK, Counted, EmptyStore, Versions

\* A write keeps the types of what it changes.
LEMMA WriteTyped ==
    ASSUME IInv, NEW c \in Channels, Write(c, setting[c] + 1)
    PROVE  /\ setting' \in [Channels -> Versions]
           /\ unpublished' \in [Channels -> SUBSET Versions]
           /\ acts' \in 0 .. MaxActs /\ acts' = acts + 1
           /\ setting[c] + 1 \in Versions
           /\ \A d \in Channels : setting'[d] <= acts'
<1>1. setting[c] \in Nat /\ setting[c] <= acts /\ acts < MaxActs /\ acts \in Nat
  BY DEF IInv, TypeOK, Counted, Versions, Write, Act
<1>2. setting[c] + 1 \in Versions
  BY <1>1 DEF Versions
<1>3. acts' \in 0 .. MaxActs /\ acts' = acts + 1
  BY <1>1 DEF Write, Act
<1>4. /\ setting' = [setting EXCEPT ![c] = setting[c] + 1]
      /\ unpublished' = [unpublished EXCEPT ![c] = @ \cup {setting[c] + 1}]
  BY DEF Write
<1>5. \A d \in Channels : setting'[d] <= acts'
  BY <1>1, <1>3, <1>4 DEF IInv, TypeOK, Counted, Versions
<1> QED
  BY <1>2, <1>3, <1>4, <1>5 DEF IInv, TypeOK

\* A dispatch keeps the types of what it changes.
LEMMA DispatchTyped ==
    ASSUME IInv, NEW c \in Channels, NEW v \in Versions, setChannelTTL(c, v)
    PROVE  /\ store' \in [Channels -> Versions \cup {NotLoaded}]
           /\ excuse' \in [Channels -> SUBSET Excuses]
BY DEF IInv, TypeOK, setChannelTTL, Excuses

\* An excuse that is noted is one of the four.
LEMMA ExcuseTyped ==
    ASSUME IInv, NEW c \in Channels, NEW why \in Excuses, Excuse(c, why)
    PROVE  excuse' \in [Channels -> SUBSET Excuses]
BY DEF IInv, TypeOK, Excuse

\* No step leaves the types or outruns the bound.
LEMMA TypedStep ==
    ASSUME IInv, [Next]_vars
    PROVE  IInv'
<1> USE DEF IInv, server, form, modal, fetched, page, vars
<1>1. ASSUME NEW c \in Channels, OthersWrite(c) PROVE IInv'
  <2>1. TypeOK'
    BY <1>1, WriteTyped DEF OthersWrite, TypeOK
  <2>2. opens' = opens /\ opens <= acts /\ opens \in Nat /\ acts \in Nat
    BY <1>1 DEF OthersWrite, TypeOK, Counted
  <2>3. Counted'
    BY <1>1, <2>2, WriteTyped DEF OthersWrite, Counted
  <2> QED
    BY <2>1, <2>3
<1>2. ASSUME NEW c \in Channels, NEW v \in Versions, Publish(c, v) PROVE IInv'
  BY <1>2 DEF Publish, TypeOK, Counted
<1>3. ASSUME NEW c \in Channels, NEW v \in Versions, Miss(c, v) PROVE IInv'
  BY <1>3, ExcuseTyped DEF Miss, TypeOK, Counted, Excuses
<1>4. ASSUME NEW g \in gets, AnswerGet(g) PROVE IInv'
  <2>1. g \in Gets /\ g.channel \in Channels
    BY DEF TypeOK, Gets
  <2>2. gets' \subseteq Gets
    <3>1. PICK a \in {setting[g.channel], Error} :
             gets' = (gets \ {g}) \cup {[g EXCEPT !.answer = a]}
      BY <1>4 DEF AnswerGet
    <3>2. a \in Versions \cup {Pending, Error} /\ gets \subseteq Gets
      BY <2>1 DEF TypeOK
    <3>3. [g EXCEPT !.answer = a] \in Gets
      BY <2>1, <3>2, AnsweredTyped
    <3> QED
      BY <3>1, <3>2, <3>3
  <2> QED
    BY <1>4, <2>2 DEF AnswerGet, TypeOK, Counted
<1>5. ASSUME NEW g \in gets, HookAnswered(g) PROVE IInv'
  <2>1. /\ g \in Gets /\ g.channel \in Channels
        /\ g.answer # Error => g.answer \in Versions
    BY <1>5 DEF HookAnswered, TypeOK, Gets
  <2>2. /\ store' \in [Channels -> Versions \cup {NotLoaded}]
        /\ excuse' \in [Channels -> SUBSET Excuses]
    BY <1>5, <2>1, DispatchTyped, ExcuseTyped DEF HookAnswered, TypeOK, Excuses
  <2> QED
    BY <1>5, <2>2 DEF HookAnswered, TypeOK, Counted
<1>6. ASSUME NEW g \in gets, LoadAnswered(g) PROVE IInv'
  <2>1. /\ g \in Gets /\ g.channel \in Channels
        /\ g.answer # Error => g.answer \in Versions
    BY <1>6 DEF LoadAnswered, TypeOK, Gets
  <2>2. opening' \in [floor : Versions, mixed : BOOLEAN]
    BY <1>6 DEF LoadAnswered, TypeOK
  <2> QED
    BY <1>6, <2>1, <2>2 DEF LoadAnswered, TypeOK, Counted
<1>7. ASSUME NEW g \in gets, SaveRead(g) PROVE IInv'
  <2>1. /\ g \in Gets /\ g.channel \in Channels
        /\ g.answer # Error => g.answer \in Versions
    BY <1>7 DEF SaveRead, TypeOK, Gets
  <2>2. /\ store' \in [Channels -> Versions \cup {NotLoaded}]
        /\ excuse' \in [Channels -> SUBSET Excuses]
    BY <1>7, <2>1, DispatchTyped DEF SaveRead, SaveDone, TypeOK
  <2> QED
    BY <1>7, <2>2 DEF SaveRead, SaveDone, TypeOK, Counted
<1>8. CASE ReceiveEvent
  <2>1. /\ Head(socket) \in [channel : Channels, version : Versions]
        /\ Tail(socket) \in Seq([channel : Channels, version : Versions])
    BY <1>8, TailFacts DEF ReceiveEvent, TypeOK
  <2>2. /\ store' \in [Channels -> Versions \cup {NotLoaded}]
        /\ excuse' \in [Channels -> SUBSET Excuses]
    BY <1>8, <2>1, DispatchTyped DEF ReceiveEvent
  <2> QED
    BY <1>8, <2>1, <2>2 DEF ReceiveEvent, TypeOK, Counted
<1>9. ASSUME NEW x \in Components, NEW c \in Channels, Mount(x, c) PROVE IInv'
  <2>1. Request(x, c) \in Gets
    BY RequestTyped
  <2>2. acts' \in 0 .. MaxActs /\ acts' = acts + 1
    BY <1>9 DEF Mount, Act, TypeOK
  <2>3. setting' = setting /\ opens' = opens /\ Counted'
    BY <1>9, <2>2 DEF Mount, TypeOK, Counted, Versions
  <2>4. mounted' \in [Components -> Channels \cup {Nothing}]
    BY <1>9 DEF Mount, TypeOK
  <2>5. /\ fetchedChannels' \subseteq Channels /\ gets' \subseteq Gets
        /\ fetches' \in [Channels -> Nat]
    <3>1. CASE UNCHANGED <<fetched, gets>>
      BY <3>1 DEF TypeOK
    <3>2. CASE Fetch(x, c)
      <4>1. fetches' \in [Channels -> Nat]
        BY <3>2 DEF Fetch, TypeOK
      <4>2. fetchedChannels' \subseteq Channels /\ gets' \subseteq Gets
        BY <2>1, <3>2 DEF Fetch, TypeOK
      <4> QED
        BY <4>1, <4>2
    <3> QED
      BY <1>9, <3>1, <3>2 DEF Mount
  <2>6. UNCHANGED <<server, socket, store, modal, saving, excuse>>
    BY <1>9 DEF Mount
  <2>7. TypeOK'
    BY <2>2, <2>3, <2>4, <2>5, <2>6 DEF TypeOK
  <2> QED
    BY <2>3, <2>7
<1>10. ASSUME NEW x \in Components, Unmount(x) PROVE IInv'
  <2>1. \A g \in gets : [g EXCEPT !.cancelled = @ \/ g.owner = x] \in Gets
    BY CancelledTyped DEF TypeOK
  <2>2. gets' \subseteq Gets
    BY <1>10, <2>1 DEF Unmount
  <2> QED
    BY <1>10, <2>2 DEF Unmount, TypeOK, Counted
<1>11. ASSUME NEW c \in Channels, OpenModal(c) PROVE IInv'
  <2>1. /\ acts' \in 0 .. MaxActs /\ acts' = acts + 1 /\ opens' = opens + 1
        /\ opens' \in 1 .. MaxActs /\ opens' <= acts'
    BY <1>11 DEF OpenModal, LoadForm, Act, TypeOK, Counted
  <2>2. Request(opens', c) \in Gets
    BY <2>1, RequestTyped
  <2>3. setting' = setting /\ Counted'
    BY <1>11, <2>1 DEF OpenModal, TypeOK, Counted, Versions
  <2>4. seconds' \in 0 .. opens' /\ opens' \in 0 .. MaxActs
    BY <1>11, <2>1 DEF OpenModal, LoadForm, TypeOK
  <2> QED
    BY <1>11, <2>1, <2>2, <2>3, <2>4 DEF OpenModal, LoadForm, TypeOK
<1>12. CASE ChooseSeconds
  BY <1>12 DEF ChooseSeconds, TypeOK, Counted
<1>13. CASE Cancel
  BY <1>13 DEF Cancel, TypeOK, Counted
<1>14. ASSUME NEW off \in BOOLEAN, Save(off) PROVE IInv'
  <2>1. modalChannel \in Channels /\ Write(modalChannel, setting[modalChannel] + 1)
    BY <1>14 DEF Save, TypeOK
  <2>2. /\ setting' \in [Channels -> Versions]
        /\ unpublished' \in [Channels -> SUBSET Versions]
        /\ acts' \in 0 .. MaxActs /\ acts' = acts + 1
        /\ setting[modalChannel] + 1 \in Versions
        /\ \A d \in Channels : setting'[d] <= acts'
    BY <2>1, WriteTyped
  <2>3. saving' \in Saves
    BY <1>14, <2>1, <2>2 DEF Save, Saves
  <2>4. opens' = opens /\ opens' <= acts'
    BY <1>14, <2>2 DEF Save, TypeOK, Counted
  <2> QED
    BY <1>14, <2>2, <2>3, <2>4 DEF Save, TypeOK, Counted
<1>15. CASE SaveAnswered
  <2>1. saving \in Saves /\ saving.channel \in Channels /\ saving.version \in Versions
    BY <1>15 DEF SaveAnswered, TypeOK, Saves
  <2>2. Request(Saver, saving.channel) \in Gets
    BY <2>1, RequestTyped
  <2>3. /\ store' \in [Channels -> Versions \cup {NotLoaded}]
        /\ excuse' \in [Channels -> SUBSET Excuses]
    BY <1>15, <2>1, DispatchTyped DEF SaveAnswered, SaveDone, TypeOK
  <2> QED
    BY <1>15, <2>2, <2>3 DEF SaveAnswered, SaveDone, TypeOK, Counted
<1>16. CASE SaveFails
  BY <1>16 DEF SaveFails, TypeOK, Counted
<1>17. CASE Reload
  BY <1>17 DEF Reload, EmptyStore, TypeOK, Counted, Versions
<1>18. CASE UNCHANGED vars
  BY <1>18 DEF TypeOK, Counted
<1> QED
  BY <1>1, <1>2, <1>3, <1>4, <1>5, <1>6, <1>7, <1>8, <1>9, <1>10, <1>11, <1>12,
     <1>13, <1>14, <1>15, <1>16, <1>17, <1>18 DEF Next

\* Types and bound hold in every reachable state.
LEMMA TypedCorrect == Spec => []IInv
BY InitTyped, TypedStep, PTL DEF Spec

\* All that the page keeps, and all that is under way to it, has its type.
THEOREM TypeCorrect == Spec => []TypeOK
<1>1. IInv => TypeOK
  BY DEF IInv
<1> QED
  BY <1>1, TypedCorrect, PTL

-----------------------------------------------------------------------------
(* GETs in flight *)

\* The answer of GET g, from the setting in force.
LEMMA AnswerIs ==
    ASSUME IInv, NEW g \in gets, AnswerGet(g)
    PROVE  \E h \in Gets :
              /\ gets' = (gets \ {g}) \cup {h}
              /\ h.owner = g.owner /\ h.channel = g.channel
              /\ h.cancelled = g.cancelled
              /\ h.answer \in {setting[g.channel], Error}
<1>1. /\ g \in Gets
      /\ setting[g.channel] \in Versions \cup {Pending, Error}
      /\ Error \in Versions \cup {Pending, Error}
  BY DEF IInv, TypeOK, Gets
<1>2. PICK a \in {setting[g.channel], Error} :
         gets' = (gets \ {g}) \cup {[g EXCEPT !.answer = a]}
  BY DEF AnswerGet
<1> DEFINE h == [g EXCEPT !.answer = a]
<1>3. /\ h \in Gets /\ h.owner = g.owner /\ h.channel = g.channel
      /\ h.cancelled = g.cancelled /\ h.answer = a
  BY <1>1, AnsweredTyped
<1> HIDE DEF h
<1>4. gets' = (gets \ {g}) \cup {h}
  BY <1>2 DEF h
<1> QED
  BY <1>3, <1>4

\* What a component that goes away makes of a GET.
Left(g, x) == [g EXCEPT !.cancelled = @ \/ g.owner = x]

\* The same GET, perhaps cancelled meanwhile.
SameGet(h, g) ==
    /\ h.owner = g.owner /\ h.channel = g.channel /\ h.answer = g.answer
    /\ g.cancelled => h.cancelled

\* A component that goes away takes no GET away and adds none.
LEMMA UnmountIs ==
    ASSUME IInv, NEW x \in Components, Unmount(x)
    PROVE  /\ \A h \in gets' : \E k \in gets : h = Left(k, x) /\ SameGet(h, k)
           /\ \A k \in gets : \E h \in gets' : SameGet(h, k)
<1>1. gets' = {Left(k, x) : k \in gets}
  BY DEF Unmount, Left
<1>2. \A k \in gets : SameGet(Left(k, x), k)
  BY CancelledTyped DEF IInv, TypeOK, Left, SameGet
<1> HIDE DEF Left
<1> QED
  BY <1>1, <1>2

-----------------------------------------------------------------------------
(* One fetch per channel *)

\* A channel was fetched as often as it is marked, and a component marks the
\* channel that it shows.
Single ==
    /\ \A c \in Channels : fetches[c] = IF c \in fetchedChannels THEN 1 ELSE 0
    /\ \A x \in Components : mounted[x] # Nothing => mounted[x] \in fetchedChannels

\* Only a component that appears, and a reload, concern the fetches.
LEMMA SingleStays ==
    ASSUME Single, UNCHANGED <<fetchedChannels, fetches>>,
           \A x \in Components : mounted'[x] \in {mounted[x], Nothing}
    PROVE  Single'
BY DEF Single

\* A component fetches the channel that it shows unless another one did.
LEMMA MountSingle ==
    ASSUME IInv, Single, NEW x \in Components, NEW c \in Channels, Mount(x, c)
    PROVE  Single'
<1>1. /\ fetches \in [Channels -> Nat] /\ fetchedChannels \subseteq Channels
      /\ mounted \in [Components -> Channels \cup {Nothing}]
      /\ mounted' = [mounted EXCEPT ![x] = c]
  BY DEF IInv, TypeOK, Mount
<1>2. CASE c \in fetchedChannels
  <2>1. UNCHANGED <<fetchedChannels, fetches>>
    BY <1>2 DEF Mount, fetched
  <2> QED
    BY <1>1, <1>2, <2>1 DEF Single
<1>3. CASE c \notin fetchedChannels
  <2>1. /\ fetchedChannels' = fetchedChannels \cup {c} /\ fetches[c] = 0
        /\ fetches' = [fetches EXCEPT ![c] = @ + 1]
    BY <1>3 DEF Mount, Fetch, Single
  <2>2. \A d \in Channels : fetches'[d] = IF d \in fetchedChannels' THEN 1 ELSE 0
    BY <1>1, <2>1 DEF Single
  <2>3. \A y \in Components : mounted'[y] # Nothing => mounted'[y] \in fetchedChannels'
    BY <1>1, <2>1 DEF Single
  <2> QED
    BY <2>2, <2>3 DEF Single
<1> QED
  BY <1>2, <1>3

\* No step fetches a channel that was fetched.
LEMMA SingleStep ==
    ASSUME IInv, Single, [Next]_vars
    PROVE  Single'
<1> USE DEF server, form, modal, fetched, page, vars
<1>1. ASSUME NEW x \in Components, NEW c \in Channels, Mount(x, c) PROVE Single'
  BY <1>1, MountSingle
<1>2. ASSUME NEW x \in Components, Unmount(x) PROVE Single'
  <2>1. /\ UNCHANGED <<fetchedChannels, fetches>>
        /\ \A y \in Components : mounted'[y] \in {mounted[y], Nothing}
    BY <1>2 DEF Unmount, IInv, TypeOK
  <2> QED
    BY <2>1, SingleStays
<1>3. CASE Reload
  BY <1>3 DEF Reload, Single
<1>4. CASE UNCHANGED <<fetchedChannels, fetches, mounted>>
  BY <1>4, SingleStays
<1>5. ASSUME NEW g \in gets,
             AnswerGet(g) \/ HookAnswered(g) \/ LoadAnswered(g) \/ SaveRead(g)
      PROVE  Single'
  BY <1>4, <1>5 DEF AnswerGet, HookAnswered, LoadAnswered, SaveRead
<1> QED
  BY <1>1, <1>2, <1>3, <1>4, <1>5
  DEF Next, OthersWrite, Publish, Miss, ReceiveEvent, OpenModal, ChooseSeconds, Cancel,
      Save, SaveAnswered, SaveFails

\* However many badges and header buttons come and go, and whatever became of the
\* answer, a page fetches each channel that it shows once.
THEOREM FetchesAreSingle == Spec => []OneFetchPerChannel
<1>1. Init => Single
  BY DEF Init, Single
<1>2. IInv /\ Single /\ [Next]_vars => Single'
  BY SingleStep
<1>3. Single => OneFetchPerChannel
  BY DEF Single, OneFetchPerChannel
<1> QED
  BY <1>1, <1>2, <1>3, TypedCorrect, PTL DEF Spec

-----------------------------------------------------------------------------
(* Nothing is ahead of the server *)

\* No event, answer or save carries a setting that the server has not had yet.
Known ==
    /\ \A c \in Channels : \A v \in unpublished[c] : v <= setting[c]
    /\ \A i \in DOMAIN socket : socket[i].version <= setting[socket[i].channel]
    /\ \A g \in gets : g.answer \in Versions => g.answer <= setting[g.channel]
    /\ saving # Nothing => saving.version <= setting[saving.channel]

\* The settings only grow, and what is carried stays or comes from them.
LEMMA WriteGrows ==
    ASSUME IInv, NEW c \in Channels, Write(c, setting[c] + 1)
    PROVE  /\ \A d \in Channels : setting[d] <= setting'[d]
           /\ setting'[c] = setting[c] + 1
           /\ unpublished'[c] = unpublished[c] \cup {setting[c] + 1}
           /\ \A d \in Channels \ {c} : /\ setting'[d] = setting[d]
                                        /\ unpublished'[d] = unpublished[d]
BY DEF IInv, TypeOK, Versions, Write

\* After a write, all that was known still is.
LEMMA WriteKnown ==
    ASSUME IInv, Known, NEW c \in Channels, Write(c, setting[c] + 1),
           socket' = socket, gets' = gets,
           \/ saving' = saving
           \/ saving'.channel = c /\ saving'.version = setting[c] + 1
    PROVE  Known'
<1>1. \A d \in Channels : setting[d] \in Nat /\ setting'[d] \in Nat /\ setting[d] <= setting'[d]
  <2>1. setting \in [Channels -> Nat] /\ setting' \in [Channels -> Nat]
    <3>1. setting \in [Channels -> Versions] /\ setting' \in [Channels -> Versions]
      BY WriteTyped DEF IInv, TypeOK
    <3> QED
      BY <3>1 DEF Versions
  <2>2. \A d \in Channels : setting[d] <= setting'[d]
    BY WriteGrows
  <2> QED
    BY <2>1, <2>2
<1>2. ASSUME NEW d \in Channels, NEW v \in unpublished'[d] PROVE v <= setting'[d]
  <2>1. unpublished[d] \subseteq Nat
    BY DEF IInv, TypeOK, Versions
  <2>2. CASE v \in unpublished[d]
    BY <1>1, <2>1, <2>2 DEF Known
  <2>3. CASE v \notin unpublished[d]
    <3>1. v = setting'[d]
      BY <1>2, <2>3, WriteGrows
    <3>2. setting'[d] \in Nat
      BY <1>1
    <3> QED
      BY <3>1, <3>2
  <2> QED
    BY <2>2, <2>3
<1>3. ASSUME NEW i \in DOMAIN socket'
      PROVE  socket'[i].version <= setting'[socket'[i].channel]
  <2>1. i \in DOMAIN socket /\ socket \in Seq([channel : Channels, version : Versions])
    BY <1>3 DEF IInv, TypeOK
  <2>2. i \in 1 .. Len(socket)
    BY <2>1
  <2>3. socket[i] \in [channel : Channels, version : Versions]
    BY <2>1, <2>2, ElementOfSeq, Zenon
  <2>4. socket[i].version <= setting[socket[i].channel] /\ socket'[i] = socket[i]
    BY <2>1 DEF Known
  <2>5. socket[i].channel \in Channels /\ socket[i].version \in Nat
    BY <2>3 DEF Versions
  <2> QED
    BY <1>1, <2>4, <2>5
<1>4. ASSUME NEW g \in gets', g.answer \in Versions
      PROVE  g.answer <= setting'[g.channel]
  BY <1>1, <1>4 DEF IInv, TypeOK, Gets, Known, Versions
<1>5. saving' # Nothing => saving'.version <= setting'[saving'.channel]
  BY <1>1, WriteGrows DEF IInv, TypeOK, Saves, Known, Versions
<1> QED
  BY <1>2, <1>3, <1>4, <1>5 DEF Known

\* What is carried on is known already, or asks the server.
LEMMA KnownStays ==
    ASSUME Known, setting' = setting,
           \A c \in Channels : unpublished'[c] \subseteq unpublished[c],
           \A i \in DOMAIN socket' :
               \/ \E j \in DOMAIN socket : socket'[i] = socket[j]
               \/ /\ socket'[i].channel \in Channels
                  /\ socket'[i].version \in unpublished[socket'[i].channel],
           \A h \in gets' :
               \/ \E g \in gets : h.channel = g.channel /\ h.answer = g.answer
               \/ h.answer \notin Versions
               \/ h.answer <= setting[h.channel],
           saving' \in {saving, Nothing}
    PROVE  Known'
BY DEF Known

\* Every step carries only what the server has had.
LEMMA KnownStep ==
    ASSUME IInv, Known, [Next]_vars
    PROVE  Known'
<1> USE DEF server, form, modal, fetched, page, vars
<1>1. ASSUME NEW c \in Channels, OthersWrite(c) PROVE Known'
  BY <1>1, WriteKnown DEF OthersWrite
<1>2. ASSUME NEW c \in Channels, NEW v \in Versions, Publish(c, v) PROVE Known'
  <2>1. socket \in Seq([channel : Channels, version : Versions])
    BY DEF IInv, TypeOK
  <2>2. \A i \in DOMAIN socket' :
           socket'[i] = [channel |-> c, version |-> v]
           \/ \E j \in DOMAIN socket : socket'[i] = socket[j]
    BY <1>2, <2>1 DEF Publish
  <2>3. /\ setting' = setting /\ gets' = gets /\ saving' = saving
        /\ v \in unpublished[c]
        /\ \A d \in Channels : unpublished'[d] \subseteq unpublished[d]
    BY <1>2 DEF Publish, IInv, TypeOK
  <2> QED
    BY <2>2, <2>3, KnownStays
<1>3. ASSUME NEW c \in Channels, NEW v \in Versions, Miss(c, v) PROVE Known'
  <2>1. \A d \in Channels : unpublished'[d] \subseteq unpublished[d]
    BY <1>3 DEF Miss, IInv, TypeOK
  <2> QED
    BY <1>3, <2>1, KnownStays DEF Miss
<1>4. ASSUME NEW g \in gets, AnswerGet(g) PROVE Known'
  <2>1. PICK h : /\ gets' = (gets \ {g}) \cup {h}
                 /\ h.channel = g.channel /\ h.answer \in {setting[g.channel], Error}
    BY <1>4, AnswerIs
  <2>2. setting[h.channel] <= setting[h.channel] /\ Error \notin Versions
    BY <2>1 DEF IInv, TypeOK, Gets, Versions
  <2> QED
    BY <1>4, <2>1, <2>2, KnownStays DEF AnswerGet
<1>5. ASSUME NEW g \in gets, HookAnswered(g) \/ LoadAnswered(g) \/ SaveRead(g)
      PROVE  Known'
  BY <1>5, KnownStays DEF HookAnswered, LoadAnswered, SaveRead, SaveDone
<1>6. CASE ReceiveEvent
  <2>1. \A i \in DOMAIN socket' : \E j \in DOMAIN socket : socket'[i] = socket[j]
    BY <1>6, TailFacts DEF ReceiveEvent, IInv, TypeOK
  <2> QED
    BY <1>6, <2>1, KnownStays DEF ReceiveEvent
<1>7. ASSUME NEW q, q.answer = Pending, gets' \in {gets, gets \cup {q}},
             server' = server, socket' = socket, saving' \in {saving, Nothing}
      PROVE  Known'
  <2>1. Pending \notin Versions
    BY DEF Versions
  <2> QED
    BY <1>7, <2>1, KnownStays
<1>8. ASSUME NEW x \in Components, NEW c \in Channels, Mount(x, c) PROVE Known'
  <2>1. Request(x, c).answer = Pending
    BY DEF Request
  <2> QED
    BY <1>7, <1>8, <2>1 DEF Mount, Fetch
<1>9. ASSUME NEW x \in Components, Unmount(x) PROVE Known'
  <2>1. \A h \in gets' : \E k \in gets : h.channel = k.channel /\ h.answer = k.answer
    BY <1>9, UnmountIs DEF SameGet
  <2> QED
    BY <1>9, <2>1, KnownStays DEF Unmount
<1>10. ASSUME NEW c \in Channels, OpenModal(c) PROVE Known'
  <2>1. Request(opens', c).answer = Pending
    BY DEF Request
  <2> QED
    BY <1>7, <1>10, <2>1 DEF OpenModal, LoadForm
<1>11. ASSUME NEW off \in BOOLEAN, Save(off) PROVE Known'
  BY <1>11, WriteKnown DEF Save, IInv, TypeOK
<1>12. CASE SaveAnswered
  <2>1. Request(Saver, saving.channel).answer = Pending
    BY DEF Request
  <2> QED
    BY <1>7, <1>12, <2>1 DEF SaveAnswered, SaveDone
<1>13. CASE ChooseSeconds \/ Cancel \/ SaveFails \/ Reload \/ UNCHANGED vars
  BY <1>13, KnownStays DEF ChooseSeconds, Cancel, SaveFails, Reload
<1> QED
  BY <1>1, <1>2, <1>3, <1>4, <1>5, <1>6, <1>8, <1>9, <1>10, <1>11, <1>12, <1>13
  DEF Next

\* Nothing is ahead of the server in any reachable state.
LEMMA KnownCorrect == Spec => []Known
<1>1. Init => Known
  BY DEF Init, Known
<1>2. IInv /\ Known /\ [Next]_vars => Known'
  BY KnownStep
<1> QED
  BY <1>1, <1>2, TypedCorrect, PTL DEF Spec

-----------------------------------------------------------------------------
(* The store *)

\* A GET of the hook that, once it settles, brings the setting in force or
\* leaves an excuse.
Brings(g, c) ==
    /\ g.owner \in Components /\ g.channel = c
    /\ g.cancelled \/ g.answer \in {Pending, Error, setting[c]}

\* The setting in force of a fetched channel is in the store or on its way there,
\* unless there is an excuse.
Carried(c) ==
    \/ c \notin fetchedChannels
    \/ excuse[c] # {}
    \/ store[c] = setting[c]
    \/ setting[c] \in unpublished[c]
    \/ \E i \in DOMAIN socket : socket[i].channel = c /\ socket[i].version = setting[c]
    \/ \E g \in gets : Brings(g, c)

AllCarried == \A c \in Channels : Carried(c)

\* What does not take anything away from a channel leaves its setting carried.
LEMMA CarriedStays ==
    ASSUME NEW c \in Channels, Carried(c), setting'[c] = setting[c],
           c \in fetchedChannels' => c \in fetchedChannels,
           excuse'[c] = excuse[c], store'[c] = store[c],
           unpublished'[c] = unpublished[c],
           \A i \in DOMAIN socket : socket[i].channel = c =>
               \E j \in DOMAIN socket' : socket'[j] = socket[i],
           \A g \in gets : g.owner \in Components /\ g.channel = c =>
               \E h \in gets' :
                  /\ h.owner = g.owner /\ h.channel = g.channel
                  /\ g.cancelled => h.cancelled
                  /\ h.answer = g.answer \/ h.answer \in {Error, setting[c]}
    PROVE  Carried(c)'
BY DEF Carried, Brings

\* A dispatch of an old setting over the one in force leaves an excuse.
LEMMA DispatchCarries ==
    ASSUME IInv, NEW c \in Channels, NEW v \in Versions, v <= setting[c],
           setChannelTTL(c, v), setting' = setting
    PROVE  /\ \A d \in Channels \ {c} : store'[d] = store[d] /\ excuse'[d] = excuse[d]
           /\ v = setting[c] => Carried(c)'
           /\ store[c] = setting[c] => Carried(c)'
           /\ store[c] # setting[c] /\ v # setting[c] /\ excuse[c] # {} => excuse'[c] # {}
<1>1. /\ store' = [store EXCEPT ![c] = v] /\ store'[c] = v
      /\ \A d \in Channels \ {c} : store'[d] = store[d] /\ excuse'[d] = excuse[d]
  BY DEF setChannelTTL, IInv, TypeOK
<1>2. v = setting[c] => Carried(c)'
  BY <1>1 DEF Carried
<1>3. store[c] = setting[c] /\ v # setting[c] => excuse'[c] # {}
  <2>1. setting[c] \in Nat /\ v \in Nat /\ NotLoaded \notin Nat
    BY DEF IInv, TypeOK, Versions
  <2>2. store[c] = setting[c] /\ v # setting[c] =>
           store[c] # NotLoaded /\ v < store[c]
    BY <2>1
  <2> QED
    BY <2>2 DEF setChannelTTL, IInv, TypeOK
<1>4. v # setting[c] /\ excuse[c] # {} => excuse'[c] # {}
  BY DEF setChannelTTL, IInv, TypeOK
<1> QED
  BY <1>1, <1>2, <1>3, <1>4 DEF Carried

\* Whatever a dispatch brings may be used up for it.
LEMMA DispatchKeeps ==
    ASSUME IInv, AllCarried, NEW c \in Channels, NEW v \in Versions,
           v <= setting[c], setChannelTTL(c, v),
           setting' = setting, unpublished' = unpublished,
           fetchedChannels' = fetchedChannels,
           \A i \in DOMAIN socket :
               \/ \E j \in DOMAIN socket' : socket'[j] = socket[i]
               \/ socket[i].channel = c /\ socket[i].version = v,
           \A g \in gets :
               \/ g \in gets'
               \/ g.owner \notin Components
               \/ g.channel = c /\ g.answer = v /\ ~g.cancelled
    PROVE  AllCarried'
<1>1. Pending \notin Versions /\ Error \notin Versions
  BY DEF Versions
<1>2. \A d \in Channels \ {c} : store'[d] = store[d] /\ excuse'[d] = excuse[d]
  BY DispatchCarries
<1>3. ASSUME NEW d \in Channels, d # c PROVE Carried(d)'
  <2>1. \A i \in DOMAIN socket : socket[i].channel = d =>
           \E j \in DOMAIN socket' : socket'[j] = socket[i]
    BY <1>3
  <2>2. \A g \in gets : g.owner \in Components /\ g.channel = d => g \in gets'
    BY <1>3
  <2>3. Carried(d)
    BY DEF AllCarried
  <2> QED
    BY <1>2, <1>3, <2>1, <2>2, <2>3, CarriedStays
<1>4. ASSUME v = setting[c] \/ store[c] = setting[c] PROVE Carried(c)'
  BY <1>4, DispatchCarries
<1>5. ASSUME v # setting[c], store[c] # setting[c] PROVE Carried(c)'
  <2>1. Carried(c)
    BY DEF AllCarried
  <2>2. CASE excuse[c] # {}
    BY <1>5, <2>2, DispatchCarries DEF Carried
  <2>3. CASE c \notin fetchedChannels \/ setting[c] \in unpublished[c]
    BY <2>3 DEF Carried
  <2>4. ASSUME NEW i \in DOMAIN socket, socket[i].channel = c,
               socket[i].version = setting[c]
        PROVE  Carried(c)'
    BY <1>5, <2>4 DEF Carried
  <2>5. ASSUME NEW g \in gets, Brings(g, c) PROVE Carried(c)'
    <3>1. g \in gets'
      BY <1>1, <1>5, <2>5 DEF Brings
    <3>2. Brings(g, c)'
      BY <2>5 DEF Brings
    <3> QED
      BY <3>1, <3>2 DEF Carried
  <2> QED
    BY <1>5, <2>1, <2>2, <2>3, <2>4, <2>5 DEF Carried
<1>6. Carried(c)'
  BY <1>4, <1>5
<1> QED
  BY <1>3, <1>6 DEF AllCarried

\* Whatever is thrown away leaves an excuse.
LEMMA ExcuseKeeps ==
    ASSUME IInv, AllCarried, NEW c \in Channels, NEW why \in Excuses, Excuse(c, why),
           setting' = setting, store' = store, fetchedChannels' = fetchedChannels,
           socket' = socket,
           \A d \in Channels \ {c} : unpublished'[d] = unpublished[d],
           \A g \in gets : g.channel # c => g \in gets'
    PROVE  AllCarried'
<1>1. /\ excuse'[c] # {}
      /\ \A d \in Channels \ {c} : excuse'[d] = excuse[d]
  BY DEF Excuse, IInv, TypeOK
<1>2. Carried(c)'
  BY <1>1 DEF Carried
<1>3. ASSUME NEW d \in Channels, d # c PROVE Carried(d)'
  <2>1. \A g \in gets : g.owner \in Components /\ g.channel = d => g \in gets'
    BY <1>3
  <2>2. Carried(d)
    BY DEF AllCarried
  <2> QED
    BY <1>1, <1>3, <2>1, <2>2, CarriedStays
<1> QED
  BY <1>2, <1>3 DEF AllCarried

\* A write is on its way to everybody.
LEMMA WriteCarries ==
    ASSUME IInv, AllCarried, NEW c \in Channels, Write(c, setting[c] + 1),
           socket' = socket, gets' = gets, store' = store, excuse' = excuse,
           fetchedChannels' = fetchedChannels
    PROVE  AllCarried'
<1>1. Carried(c)'
  BY WriteGrows DEF Carried
<1>2. ASSUME NEW d \in Channels, d # c PROVE Carried(d)'
  <2>1. setting'[d] = setting[d] /\ unpublished'[d] = unpublished[d] /\ Carried(d)
    BY <1>2, WriteGrows DEF AllCarried
  <2> QED
    BY <2>1, CarriedStays
<1> QED
  BY <1>1, <1>2 DEF AllCarried

\* Steps that keep the server, the socket, the store and every GET of the hook.
LEMMA AllCarriedStays ==
    ASSUME AllCarried, server' = server, socket' = socket, store' = store,
           excuse' = excuse, fetchedChannels' = fetchedChannels,
           \A g \in gets : g.owner \in Components => \E h \in gets' :
               /\ h.owner = g.owner /\ h.channel = g.channel
               /\ g.cancelled => h.cancelled
               /\ h.answer = g.answer
    PROVE  AllCarried'
<1> SUFFICES ASSUME NEW c \in Channels PROVE Carried(c)'
  BY DEF AllCarried
<1>1. Carried(c)
  BY DEF AllCarried
<1> QED
  BY <1>1, CarriedStays DEF server

\* No step loses the setting in force without an excuse.
LEMMA CarriedStep ==
    ASSUME IInv, Known, AllCarried, [Next]_vars
    PROVE  AllCarried'
<1> USE DEF server, form, modal, fetched, page, vars
<1>1. ASSUME NEW c \in Channels, OthersWrite(c) PROVE AllCarried'
  BY <1>1, WriteCarries DEF OthersWrite
<1>2. ASSUME NEW c \in Channels, NEW v \in Versions, Publish(c, v) PROVE AllCarried'
  <2>1. socket \in Seq([channel : Channels, version : Versions])
    BY DEF IInv, TypeOK
  <2>2. /\ \A i \in DOMAIN socket : i \in DOMAIN socket' /\ socket'[i] = socket[i]
        /\ \E i \in DOMAIN socket' : socket'[i] = [channel |-> c, version |-> v]
    <3>1. [channel |-> c, version |-> v] \in [channel : Channels, version : Versions]
      OBVIOUS
    <3>2. socket' = Append(socket, [channel |-> c, version |-> v])
      BY <1>2 DEF Publish
    <3> QED
      BY <2>1, <3>1, <3>2, QueueFacts
  <2>3. \A d \in Channels : unpublished'[d] = IF d = c THEN unpublished[d] \ {v}
                                                       ELSE unpublished[d]
    BY <1>2 DEF Publish, IInv, TypeOK
  <2>4. /\ setting' = setting /\ store' = store /\ fetchedChannels' = fetchedChannels
        /\ gets' = gets /\ excuse' = excuse
    BY <1>2 DEF Publish
  <2>5. ASSUME NEW d \in Channels PROVE Carried(d)'
    <3>1. Carried(d)
      BY DEF AllCarried
    <3>2. CASE d # c
      <4>1. unpublished'[d] = unpublished[d]
        BY <2>3, <3>2
      <4> QED
        BY <2>2, <2>4, <3>1, <4>1, CarriedStays
    <3>3. CASE d = c /\ v = setting[c]
      BY <2>2, <2>4, <3>3 DEF Carried
    <3>4. CASE d = c /\ v # setting[c]
      <4>1. setting[d] \in unpublished[d] => setting'[d] \in unpublished'[d]
        BY <2>3, <2>4, <3>4
      <4> QED
        BY <2>2, <2>4, <3>1, <4>1 DEF Carried, Brings
    <3> QED
      BY <3>2, <3>3, <3>4
  <2> QED
    BY <2>5 DEF AllCarried
<1>3. ASSUME NEW c \in Channels, NEW v \in Versions, Miss(c, v) PROVE AllCarried'
  <2>1. \A d \in Channels \ {c} : unpublished'[d] = unpublished[d]
    BY <1>3 DEF Miss, IInv, TypeOK
  <2> QED
    BY <1>3, <2>1, ExcuseKeeps DEF Miss, Excuses
<1>4. ASSUME NEW g \in gets, AnswerGet(g) PROVE AllCarried'
  <2>1. PICK h : /\ gets' = (gets \ {g}) \cup {h}
                 /\ h.owner = g.owner /\ h.channel = g.channel
                 /\ h.cancelled = g.cancelled
                 /\ h.answer \in {setting[g.channel], Error}
    BY <1>4, AnswerIs
  <2>2. /\ server' = server /\ socket' = socket /\ store' = store
        /\ excuse' = excuse /\ fetchedChannels' = fetchedChannels
    BY <1>4 DEF AnswerGet
  <2>3. ASSUME NEW c \in Channels PROVE Carried(c)'
    <3>1. \A k \in gets : k.owner \in Components /\ k.channel = c =>
             \E l \in gets' :
                /\ l.owner = k.owner /\ l.channel = k.channel
                /\ k.cancelled => l.cancelled
                /\ l.answer = k.answer \/ l.answer \in {Error, setting[c]}
      <4> SUFFICES ASSUME NEW k \in gets, k.owner \in Components, k.channel = c
                   PROVE  \E l \in gets' :
                             /\ l.owner = k.owner /\ l.channel = k.channel
                             /\ k.cancelled => l.cancelled
                             /\ l.answer = k.answer \/ l.answer \in {Error, setting[c]}
        OBVIOUS
      <4>1. CASE k = g
        BY <2>1, <4>1
      <4>2. CASE k # g
        BY <2>1, <4>2
      <4> QED
        BY <4>1, <4>2
    <3>2. Carried(c)
      BY DEF AllCarried
    <3> QED
      BY <2>2, <3>1, <3>2, CarriedStays
  <2> QED
    BY <2>3 DEF AllCarried
<1>5. ASSUME NEW g \in gets, HookAnswered(g) PROVE AllCarried'
  <2>1. /\ g.channel \in Channels
        /\ g.answer # Error => g.answer \in Versions /\ g.answer <= setting[g.channel]
    BY <1>5 DEF HookAnswered, IInv, TypeOK, Gets, Known
  <2>2. /\ server' = server /\ socket' = socket /\ fetchedChannels' = fetchedChannels
        /\ gets' = gets \ {g}
    BY <1>5 DEF HookAnswered
  <2>3. CASE g.answer # Error /\ ~g.cancelled /\ setChannelTTL(g.channel, g.answer)
    BY <2>1, <2>2, <2>3, DispatchKeeps
  <2>4. ASSUME NEW why \in Excuses, Excuse(g.channel, why), store' = store
        PROVE  AllCarried'
    BY <2>1, <2>2, <2>4, ExcuseKeeps
  <2> QED
    BY <1>5, <2>3, <2>4 DEF HookAnswered, Excuses
<1>6. ASSUME NEW g \in gets, LoadAnswered(g) PROVE AllCarried'
  <2>1. g.owner \notin Components
    BY <1>6 DEF LoadAnswered, IInv, TypeOK
  <2> QED
    BY <1>6, <2>1, AllCarriedStays DEF LoadAnswered
<1>7. ASSUME NEW g \in gets, SaveRead(g) PROVE AllCarried'
  <2>1. /\ g.channel \in Channels /\ g.owner \notin Components
        /\ g.answer # Error => g.answer \in Versions /\ g.answer <= setting[g.channel]
    BY <1>7 DEF SaveRead, IInv, TypeOK, Gets, Known
  <2>2. /\ server' = server /\ socket' = socket /\ fetchedChannels' = fetchedChannels
        /\ gets' = gets \ {g}
    BY <1>7 DEF SaveRead
  <2>3. CASE g.answer # Error /\ setChannelTTL(g.channel, g.answer)
    BY <2>1, <2>2, <2>3, DispatchKeeps
  <2>4. CASE store' = store /\ excuse' = excuse
    BY <2>1, <2>2, <2>4, AllCarriedStays
  <2> QED
    BY <1>7, <2>3, <2>4 DEF SaveRead, SaveDone
<1>8. CASE ReceiveEvent
  <2>1. /\ Head(socket) \in [channel : Channels, version : Versions]
        /\ \A i \in DOMAIN socket : \/ socket[i] = Head(socket)
                                    \/ \E j \in DOMAIN socket' : socket'[j] = socket[i]
        /\ \E i \in DOMAIN socket : socket[i] = Head(socket)
    <3>1. /\ socket \in Seq([channel : Channels, version : Versions]) /\ socket # <<>>
          /\ socket' = Tail(socket)
      BY <1>8 DEF ReceiveEvent, IInv, TypeOK
    <3>2. /\ Head(socket) \in [channel : Channels, version : Versions]
          /\ \E i \in DOMAIN socket : socket[i] = Head(socket)
          /\ \A i \in DOMAIN socket :
                \/ socket[i] = Head(socket)
                \/ i - 1 \in DOMAIN socket' /\ socket'[i - 1] = socket[i]
      BY <3>1, TailFacts
    <3> QED
      BY <3>2
  <2>2. PICK e \in [channel : Channels, version : Versions] : e = Head(socket)
    BY <2>1
  <2>3. /\ e.channel \in Channels /\ e.version \in Versions
        /\ e.version <= setting[e.channel]
        /\ \A i \in DOMAIN socket :
              \/ \E j \in DOMAIN socket' : socket'[j] = socket[i]
              \/ socket[i].channel = e.channel /\ socket[i].version = e.version
    BY <2>1, <2>2 DEF Known
  <2>4. setChannelTTL(e.channel, e.version)
    BY <1>8, <2>2 DEF ReceiveEvent
  <2> QED
    BY <1>8, <2>3, <2>4, DispatchKeeps DEF ReceiveEvent
<1>9. ASSUME NEW x \in Components, NEW c \in Channels, Mount(x, c) PROVE AllCarried'
  <2>1. CASE c \in fetchedChannels
    BY <1>9, <2>1, AllCarriedStays DEF Mount
  <2>2. CASE c \notin fetchedChannels
    <3>1. /\ gets' = gets \cup {Request(x, c)}
          /\ fetchedChannels' = fetchedChannels \cup {c}
          /\ UNCHANGED <<server, socket, store, excuse>>
      BY <1>9, <2>2 DEF Mount, Fetch
    <3>2. Request(x, c).owner = x /\ Request(x, c).channel = c
          /\ Request(x, c).answer = Pending
      BY DEF Request
    <3>3. Carried(c)'
      BY <3>1, <3>2 DEF Carried, Brings
    <3>4. ASSUME NEW d \in Channels, d # c PROVE Carried(d)'
      <4>1. Carried(d)
        BY DEF AllCarried
      <4> QED
        BY <3>1, <3>4, <4>1, CarriedStays
    <3> QED
      BY <3>3, <3>4 DEF AllCarried
  <2> QED
    BY <2>1, <2>2
<1>10. ASSUME NEW x \in Components, Unmount(x) PROVE AllCarried'
  <2>1. \A k \in gets : \E h \in gets' : SameGet(h, k)
    BY <1>10, UnmountIs
  <2> QED
    BY <1>10, <2>1, AllCarriedStays DEF Unmount, SameGet
<1>11. ASSUME NEW c \in Channels, OpenModal(c) PROVE AllCarried'
  BY <1>11, AllCarriedStays DEF OpenModal, LoadForm
<1>12. ASSUME NEW off \in BOOLEAN, Save(off) PROVE AllCarried'
  BY <1>12, WriteCarries DEF Save, IInv, TypeOK
<1>13. CASE SaveAnswered
  <2>1. /\ saving.channel \in Channels /\ saving.version \in Versions
        /\ saving.version <= setting[saving.channel]
    BY <1>13 DEF SaveAnswered, IInv, TypeOK, Saves, Known
  <2>2. /\ server' = server /\ socket' = socket /\ fetchedChannels' = fetchedChannels
        /\ gets \subseteq gets'
    BY <1>13 DEF SaveAnswered
  <2>3. CASE setChannelTTL(saving.channel, saving.version)
    BY <2>1, <2>2, <2>3, DispatchKeeps
  <2>4. CASE store' = store /\ excuse' = excuse
    BY <2>2, <2>4, AllCarriedStays
  <2> QED
    BY <1>13, <2>3, <2>4 DEF SaveAnswered, SaveDone
<1>14. CASE Reload
  BY <1>14 DEF Reload, AllCarried, Carried
<1>15. CASE ChooseSeconds \/ Cancel \/ SaveFails \/ UNCHANGED vars
  BY <1>15, AllCarriedStays DEF ChooseSeconds, Cancel, SaveFails
<1> QED
  BY <1>1, <1>2, <1>3, <1>4, <1>5, <1>6, <1>7, <1>8, <1>9, <1>10, <1>11, <1>12,
     <1>13, <1>14, <1>15 DEF Next

\* Once nothing is on its way to the page, its store shows the setting in force of
\* every channel it fetched, or there is a reason on record why not.
THEOREM StoreIsHonest == Spec => []StoreHonest
<1>1. Init => AllCarried
  BY DEF Init, AllCarried, Carried
<1>2. IInv /\ Known /\ AllCarried /\ [Next]_vars => AllCarried'
  BY CarriedStep
<1>3. AllCarried => StoreHonest
  BY DEF AllCarried, Carried, Brings, StoreHonest, Quiet
<1> QED
  BY <1>1, <1>2, <1>3, TypedCorrect, KnownCorrect, PTL DEF Spec

-----------------------------------------------------------------------------
(* The modal *)

\* The load of this opening, if it is in flight, has or will get an answer that
\* is no older than the opening.
Fresh(g) ==
    /\ g.owner \in Nat => g.owner <= opens
    /\ g.owner = opens =>
          /\ setting[g.channel] >= opening.floor
          /\ g.answer \in Versions => g.answer >= opening.floor

\* Whatever the form says of a channel is no older than the opening, unless the
\* load of another one was answered.
Formed ==
    current # NotLoaded /\ ~opening.mixed =>
        current >= opening.floor /\ seconds \in {0, opens}

AllFresh == Formed /\ \A g \in gets : Fresh(g)

\* Steps that leave the form alone and send no load; the settings only grow.
LEMMA FreshStays ==
    ASSUME IInv, AllFresh, opens' = opens, opening' = opening, current' = current,
           seconds' \in {0, seconds},
           \A c \in Channels : setting'[c] \in Nat /\ setting'[c] >= setting[c],
           \A h \in gets' :
               \/ h.owner \notin Nat
               \/ \E g \in gets :
                     /\ h.owner = g.owner /\ h.channel = g.channel
                     /\ h.answer = g.answer \/ h.answer \in {Error, setting[g.channel]}
    PROVE  AllFresh'
<1>1. opens \in Nat /\ opening.floor \in Nat /\ Error \notin Versions
  BY DEF IInv, TypeOK, Versions
<1>2. ASSUME NEW h \in gets' PROVE Fresh(h)'
  <2>1. CASE h.owner \notin Nat
    BY <1>1, <2>1 DEF Fresh
  <2>2. ASSUME NEW g \in gets, h.owner = g.owner, h.channel = g.channel,
               h.answer = g.answer \/ h.answer \in {Error, setting[g.channel]}
        PROVE  Fresh(h)'
    <3>1. /\ setting[g.channel] \in Nat /\ setting'[g.channel] \in Nat
          /\ setting'[g.channel] >= setting[g.channel] /\ Fresh(g)
      BY DEF IInv, TypeOK, Gets, Versions, AllFresh
    <3> QED
      BY <1>1, <2>2, <3>1 DEF Fresh
  <2> QED
    BY <2>1, <2>2
<1>3. Formed'
  BY DEF AllFresh, Formed
<1> QED
  BY <1>2, <1>3 DEF AllFresh

\* No step makes the form older than its opening.
LEMMA FreshStep ==
    ASSUME IInv, AllFresh, [Next]_vars
    PROVE  AllFresh'
<1> USE DEF server, form, modal, fetched, page, vars
<1>1. \A c \in Channels : setting[c] \in Nat
  BY DEF IInv, TypeOK, Versions
<1>2. ASSUME NEW c \in Channels, Write(c, setting[c] + 1), gets' = gets, modal' = modal
      PROVE  AllFresh'
  <2>1. \A d \in Channels : setting'[d] \in Nat /\ setting'[d] >= setting[d]
    BY <1>1, <1>2, WriteGrows, WriteTyped DEF Versions
  <2> QED
    BY <1>2, <2>1, FreshStays
<1>3. ASSUME setting' = setting, modal' = modal,
             \A h \in gets' :
                 \/ h.owner \notin Nat
                 \/ \E g \in gets :
                       /\ h.owner = g.owner /\ h.channel = g.channel
                       /\ h.answer = g.answer \/ h.answer \in {Error, setting[g.channel]}
      PROVE  AllFresh'
  BY <1>1, <1>3, FreshStays
<1>4. ASSUME setting' = setting, gets' \subseteq gets, opens' = opens, form' = form
      PROVE  AllFresh'
  BY <1>1, <1>4, FreshStays
<1>5. ASSUME NEW g \in gets, AnswerGet(g) PROVE AllFresh'
  <2>1. PICK h : /\ gets' = (gets \ {g}) \cup {h}
                 /\ h.owner = g.owner /\ h.channel = g.channel
                 /\ h.answer \in {setting[g.channel], Error}
    BY <1>5, AnswerIs
  <2> QED
    BY <1>3, <1>5, <2>1 DEF AnswerGet
<1>6. ASSUME NEW g \in gets, LoadAnswered(g) PROVE AllFresh'
  <2>1. CASE g.answer = Error
    BY <1>4, <1>6, <2>1 DEF LoadAnswered
  <2>2. CASE g.answer # Error
    <3>1. /\ current' = g.answer /\ seconds' = g.owner /\ opens' = opens
          /\ setting' = setting /\ gets' = gets \ {g}
          /\ opening'.floor = opening.floor
          /\ opening'.mixed = (opening.mixed \/ g.owner # opens)
          /\ g.answer \in Versions
      BY <1>6, <2>2 DEF LoadAnswered, IInv, TypeOK, Gets
    <3>2. Formed'
      BY <3>1 DEF Formed, AllFresh, Fresh
    <3>3. \A h \in gets' : Fresh(h)'
      BY <3>1 DEF AllFresh, Fresh
    <3> QED
      BY <3>2, <3>3 DEF AllFresh
  <2> QED
    BY <2>1, <2>2
<1>7. ASSUME NEW x \in Components, NEW c \in Channels, Mount(x, c) PROVE AllFresh'
  <2>1. Request(x, c).owner \notin Nat
    BY DEF Request
  <2> QED
    BY <1>3, <1>7, <2>1 DEF Mount, Fetch
<1>8. ASSUME NEW x \in Components, Unmount(x) PROVE AllFresh'
  <2>1. \A h \in gets' : \E k \in gets :
            h.owner = k.owner /\ h.channel = k.channel /\ h.answer = k.answer
    BY <1>8, UnmountIs DEF SameGet
  <2> QED
    BY <1>3, <1>8, <2>1 DEF Unmount
<1>9. ASSUME NEW c \in Channels, OpenModal(c) PROVE AllFresh'
  <2>0. PICK q : q = Request(opens', c)
    OBVIOUS
  <2>1. /\ opens \in Nat /\ opens' = opens + 1 /\ current' = NotLoaded
        /\ gets' = gets \cup {q} /\ setting' = setting
        /\ opening'.floor = setting[c]
    BY <1>9, <2>0 DEF OpenModal, LoadForm, IInv, TypeOK
  <2>2. q.owner = opens' /\ q.channel = c /\ q.answer = Pending
    BY <2>0 DEF Request
  <2>3. ASSUME NEW g \in gets PROVE Fresh(g)'
    <3>1. g.owner \in Nat => g.owner <= opens
      BY DEF AllFresh, Fresh
    <3> QED
      BY <2>1, <3>1 DEF Fresh
  <2>4. Fresh(q)'
    BY <1>1, <2>1, <2>2 DEF Fresh, Versions
  <2>5. Formed'
    BY <2>1 DEF Formed
  <2> QED
    BY <2>1, <2>3, <2>4, <2>5 DEF AllFresh
<1>10. CASE ChooseSeconds
  BY <1>1, <1>10, FreshStays DEF ChooseSeconds
<1>11. CASE SaveAnswered
  <2>1. Request(Saver, saving.channel).owner \notin Nat
    BY DEF Request
  <2>2. /\ setting' = setting /\ opens' = opens /\ form' = form
        /\ \A h \in gets' : h.owner \notin Nat \/ h \in gets
    BY <1>11, <2>1 DEF SaveAnswered
  <2> QED
    BY <1>1, <2>2, FreshStays
<1>12. CASE Reload
  BY <1>12 DEF Reload, AllFresh, Formed
<1>13. ASSUME NEW g \in gets, HookAnswered(g) \/ SaveRead(g) PROVE AllFresh'
  BY <1>4, <1>13 DEF HookAnswered, SaveRead
<1>14. ASSUME NEW c \in Channels, NEW v \in Versions, Publish(c, v) \/ Miss(c, v)
       PROVE  AllFresh'
  BY <1>4, <1>14 DEF Publish, Miss
<1>15. CASE ReceiveEvent \/ Cancel \/ SaveFails \/ UNCHANGED vars
  BY <1>4, <1>15 DEF ReceiveEvent, Cancel, SaveFails
<1>16. ASSUME NEW c \in Channels, OthersWrite(c) PROVE AllFresh'
  BY <1>2, <1>16 DEF OthersWrite
<1>17. ASSUME NEW off \in BOOLEAN, Save(off) PROVE AllFresh'
  BY <1>2, <1>17 DEF Save, IInv, TypeOK
<1> QED
  BY <1>5, <1>6, <1>7, <1>8, <1>9, <1>10, <1>11, <1>12, <1>13, <1>14, <1>15,
     <1>16, <1>17 DEF Next

\* Unless the load of an earlier opening came late, the modal speaks of a setting
\* of this opening or later, and saves a duration loaded for it or chosen.
THEOREM ModalIsHonest == Spec => []ModalHonest
<1>1. Init => AllFresh
  BY DEF Init, AllFresh, Formed
<1>2. IInv /\ AllFresh /\ [Next]_vars => AllFresh'
  BY FreshStep
<1>3. AllFresh => ModalHonest
  BY DEF AllFresh, Formed, ModalHonest
<1> QED
  BY <1>1, <1>2, <1>3, TypedCorrect, PTL DEF Spec

=============================================================================
