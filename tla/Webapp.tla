------------------------------- MODULE Webapp -------------------------------
(***************************************************************************)
(* One browser page that shows and changes channels' TTLs.  Three streams  *)
(* write its store: answers to the GET that useChannelTTL sends once per   *)
(* channel, ttl_changed events, and the selector modal after a save.  The  *)
(* modal keeps a form of its own, filled by a GET whenever it is opened.   *)
(* Nothing orders one of these answers against another.                    *)
(*                                                                         *)
(* A setting is the number of writes that its channel has seen, 0 before   *)
(* the first, so that one can tell older from newer.  TTLSettings says how *)
(* the server gets from a write to its event; here a write is published    *)
(* later, in any order, or never.                                          *)
(***************************************************************************)
EXTENDS Integers, Sequences

CONSTANTS
    Components,     \* the badges and header buttons that use the hook
    Channels,
    NotLoaded,      \* no entry in byChannel: the selector returns undefined
    Pending,        \* a GET the server has not answered yet
    Error,          \* the answer of a GET that failed
    Nothing,        \* no channel, no save
    Saver,          \* owner of the GET that follows a save
    MaxActs         \* bound on what users do: writes, mounts and openings of
                    \* the modal together

ASSUME WebappAssumption ==
    /\ MaxActs \in Nat
    /\ Nothing \notin Channels
    /\ ({NotLoaded, Pending, Error, Saver} \cup Components) \cap Nat = {}
    /\ Saver \notin Components

Versions == 0 .. MaxActs

VARIABLES
    setting,        \* per channel, the server's setting
    unpublished,    \* per channel, the writes whose event is still to come
    socket,         \* ttl_changed events on their way to the page
    store,          \* byChannel of the plugin's redux state
    fetchedChannels,
    fetches,        \* history: per channel, how often the hook fetched it on this page
    mounted,        \* per component, the channel it shows
    gets,           \* GETs of mounted hooks and of the modal in flight
    modalChannel,   \* modalChannelId of the store
    opens,          \* times the modal was opened; numbers the opening
    current,        \* the modal's current: what it says the channel has now
    seconds,        \* where the modal's seconds come from: the opening whose
                    \* load filled them in, 0 for the default or the user
    saving,         \* the modal's save, from its write until its last dispatch
    opening,        \* history: the setting when the modal was opened, and
                    \* whether the load of an earlier opening was answered since
    acts,           \* what users did so far
    excuse          \* history: per channel, why its entry may be stale

server == <<setting, unpublished>>
form == <<current, seconds, opening>>
modal == <<modalChannel, opens, form>>
fetched == <<fetchedChannels, fetches>>
page == <<store, fetched, mounted, gets, modal, saving>>
vars == <<server, socket, page, acts, excuse>>

\* overtaken: something newer was replaced; missed: an event never came;
\* failed: a GET of the hook failed; dropped: its answer was thrown away.
Excuses == {"overtaken", "missed", "failed", "dropped"}

\* owner is the component whose unmount cancels the answer, the opening of the
\* modal that asked for it, or the save.
Gets == [owner : Components \cup 1 .. MaxActs \cup {Saver}, channel : Channels,
         answer : Versions \cup {Pending, Error}, cancelled : BOOLEAN]
Saves == [channel : Channels, version : Versions, off : BOOLEAN]

TypeOK ==
    /\ setting \in [Channels -> Versions]
    /\ unpublished \in [Channels -> SUBSET Versions]
    /\ socket \in Seq([channel : Channels, version : Versions])
    /\ store \in [Channels -> Versions \cup {NotLoaded}]
    /\ fetchedChannels \subseteq Channels
    /\ fetches \in [Channels -> Nat]
    /\ mounted \in [Components -> Channels \cup {Nothing}]
    /\ gets \subseteq Gets
    /\ modalChannel \in Channels \cup {Nothing}
    /\ opens \in 0 .. MaxActs
    /\ current \in Versions \cup {NotLoaded}
    /\ seconds \in 0 .. opens
    /\ saving \in Saves \cup {Nothing}
    /\ opening \in [floor : Versions, mixed : BOOLEAN]
    /\ acts \in 0 .. MaxActs
    /\ excuse \in [Channels -> SUBSET Excuses]

EmptyStore == [c \in Channels |-> NotLoaded]

Init ==
    /\ setting = [c \in Channels |-> 0]
    /\ unpublished = [c \in Channels |-> {}]
    /\ socket = <<>>
    /\ store = EmptyStore
    /\ fetchedChannels = {}
    /\ fetches = [c \in Channels |-> 0]
    /\ mounted = [x \in Components |-> Nothing]
    /\ gets = {}
    /\ modalChannel = Nothing
    /\ opens = 0
    /\ current = NotLoaded
    /\ seconds = 0
    /\ saving = Nothing
    /\ opening = [floor |-> 0, mixed |-> FALSE]
    /\ acts = 0
    /\ excuse = [c \in Channels |-> {}]

Act ==
    /\ acts < MaxActs
    /\ acts' = acts + 1

Excuse(c, why) == excuse' = [excuse EXCEPT ![c] = @ \cup {why}]

-----------------------------------------------------------------------------
(* The server *)

\* A set or clear by any user commits; v is the new setting.
Write(c, v) ==
    /\ Act
    /\ v = setting[c] + 1
    /\ setting' = [setting EXCEPT ![c] = v]
    /\ unpublished' = [unpublished EXCEPT ![c] = @ \cup {v}]

OthersWrite(c) ==
    /\ Write(c, setting[c] + 1)
    /\ UNCHANGED <<socket, page, excuse>>

\* The event of a write is published, perhaps after the event of a later one.
Publish(c, v) ==
    /\ v \in unpublished[c]
    /\ unpublished' = [unpublished EXCEPT ![c] = @ \ {v}]
    /\ socket' = Append(socket, [channel |-> c, version |-> v])
    /\ UNCHANGED <<setting, page, acts, excuse>>

\* The node stops before it publishes, or the page was offline.
Miss(c, v) ==
    /\ v \in unpublished[c]
    /\ unpublished' = [unpublished EXCEPT ![c] = @ \ {v}]
    /\ Excuse(c, "missed")
    /\ UNCHANGED <<setting, socket, page, acts>>

AnswerGet(g) ==
    /\ g.answer = Pending
    /\ \E a \in {setting[g.channel], Error} :
           gets' = (gets \ {g}) \cup {[g EXCEPT !.answer = a]}
    /\ UNCHANGED <<server, socket, store, fetched, mounted, modal, saving,
                   acts, excuse>>

-----------------------------------------------------------------------------
(* The page *)

\* Dispatch of the action that puts v into the store.  The current setting
\* makes good for whatever was lost before.
setChannelTTL(c, v) ==
    /\ store' = [store EXCEPT ![c] = v]
    /\ excuse' = [excuse EXCEPT ![c] =
          IF v = setting[c] THEN {}
          ELSE IF store[c] # NotLoaded /\ v < store[c] THEN @ \cup {"overtaken"}
          ELSE @]

\* Mutant of ReceiveEvent: events of channels that were not fetched are ignored.
ReceiveEventIfLoaded ==
    LET e == Head(socket) IN
    /\ socket # <<>>
    /\ socket' = Tail(socket)
    /\ IF store[e.channel] = NotLoaded THEN UNCHANGED <<store, excuse>>
                                       ELSE setChannelTTL(e.channel, e.version)
    /\ UNCHANGED <<server, fetched, mounted, gets, modal, saving, acts>>

\* The handler of ttl_changed.
ReceiveEvent ==
    LET e == Head(socket) IN
    /\ socket # <<>>
    /\ socket' = Tail(socket)
    /\ setChannelTTL(e.channel, e.version)
    /\ UNCHANGED <<server, fetched, mounted, gets, modal, saving, acts>>

Request(owner, c) ==
    [owner |-> owner, channel |-> c, answer |-> Pending, cancelled |-> FALSE]

\* A hook sends its GET.
Fetch(x, c) ==
    /\ fetchedChannels' = fetchedChannels \cup {c}
    /\ fetches' = [fetches EXCEPT ![c] = @ + 1]
    /\ gets' = gets \cup {Request(x, c)}

\* Mutant of Mount: a channel is fetched again as long as it is not in the store.
MountUnlessLoaded(x, c) ==
    /\ mounted[x] = Nothing
    /\ Act
    /\ mounted' = [mounted EXCEPT ![x] = c]
    /\ IF store[c] # NotLoaded THEN UNCHANGED <<fetched, gets>> ELSE Fetch(x, c)
    /\ UNCHANGED <<server, socket, store, modal, saving, excuse>>

\* useChannelTTL's effect: the first component to show a channel fetches it.
Mount(x, c) ==
    /\ mounted[x] = Nothing
    /\ Act
    /\ mounted' = [mounted EXCEPT ![x] = c]
    /\ IF c \in fetchedChannels THEN UNCHANGED <<fetched, gets>> ELSE Fetch(x, c)
    /\ UNCHANGED <<server, socket, store, modal, saving, excuse>>

\* The effect's clean-up, when the component goes away or shows another channel.
Unmount(x) ==
    LET c == mounted[x] IN
    /\ c # Nothing
    /\ mounted' = [mounted EXCEPT ![x] = Nothing]
    /\ gets' = {[g EXCEPT !.cancelled = @ \/ g.owner = x] : g \in gets}
    /\ UNCHANGED <<server, socket, store, fetched, modal, saving, acts,
                   excuse>>

\* Mutant of HookAnswered: the answer's status is not looked at.
HookAnsweredUnchecked(g) ==
    /\ g.owner \in Components
    /\ g.answer # Pending
    /\ ~g.cancelled
    /\ gets' = gets \ {g}
    /\ store' = [store EXCEPT ![g.channel] = g.answer]
    /\ UNCHANGED <<server, socket, fetched, mounted, modal, saving, acts,
                   excuse>>

\* The promise of a hook's GET settles.
HookAnswered(g) ==
    /\ g.owner \in Components
    /\ g.answer # Pending
    /\ gets' = gets \ {g}
    /\ \/ /\ g.answer # Error /\ ~g.cancelled
          /\ setChannelTTL(g.channel, g.answer)
       \/ /\ g.answer = Error \/ g.cancelled
          /\ Excuse(g.channel, IF g.answer = Error THEN "failed" ELSE "dropped")
          /\ UNCHANGED store
    /\ UNCHANGED <<server, socket, fetched, mounted, modal, saving, acts>>

\* Mutant of LoadForm: the effect leaves what the form says as it is.
LoadFormKeepingCurrent(c) ==
    /\ opens' = opens + 1
    /\ gets' = gets \cup {Request(opens', c)}
    /\ opening' = [floor |-> setting[c], mixed |-> FALSE]
    /\ UNCHANGED <<current, seconds>>

\* The modal's effect forgets what the form said and loads it anew.  It does not
\* cancel an earlier load, and the duration in the form stays until it is answered.
LoadForm(c) ==
    /\ opens' = opens + 1
    /\ current' = NotLoaded
    /\ gets' = gets \cup {Request(opens', c)}
    /\ opening' = [floor |-> setting[c], mixed |-> FALSE]
    /\ UNCHANGED seconds

\* The channel header's action shows the modal, perhaps for another channel than
\* the one it shows already: the backdrop stops the mouse, but not the keyboard.
OpenModal(c) ==
    /\ Act
    /\ c # modalChannel
    /\ modalChannel' = c
    /\ LoadForm(c)
    /\ UNCHANGED <<server, socket, store, fetched, mounted, saving, excuse>>

\* A load of the form settles, whatever the modal shows by now.
LoadAnswered(g) ==
    /\ g.owner \in 1 .. opens
    /\ g.answer # Pending
    /\ gets' = gets \ {g}
    /\ \/ /\ g.answer # Error
          /\ current' = g.answer
          /\ seconds' = g.owner
          /\ opening' = [opening EXCEPT !.mixed = @ \/ g.owner # opens]
       \/ g.answer = Error /\ UNCHANGED form
    /\ UNCHANGED <<server, socket, store, fetched, mounted, modalChannel, opens,
                   saving, acts, excuse>>

\* The user picks a preset or types a number.
ChooseSeconds ==
    /\ modalChannel # Nothing
    /\ seconds' = 0
    /\ UNCHANGED <<server, socket, store, fetched, mounted, gets, modalChannel,
                   opens, current, opening, saving, acts, excuse>>

\* Cancel is disabled while a save is running.
Cancel ==
    /\ modalChannel # Nothing
    /\ saving = Nothing
    /\ modalChannel' = Nothing
    /\ UNCHANGED <<server, socket, store, fetched, mounted, gets, opens, form,
                   saving, acts, excuse>>

\* The modal's Save and Turn off send their write.  While busy, no other starts.
Save(off) ==
    LET c == modalChannel IN
    /\ c # Nothing
    /\ saving = Nothing
    /\ Write(c, setting[c] + 1)
    /\ saving' = [channel |-> c, version |-> setting[c] + 1, off |-> off]
    /\ UNCHANGED <<socket, store, fetched, mounted, gets, modal, excuse>>

\* The last dispatch of a save closes the modal, whatever it shows by now.
SaveDone(c, v) ==
    /\ setChannelTTL(c, v)
    /\ saving' = Nothing
    /\ modalChannel' = Nothing

\* The write is answered.  Save reads the setting back, Turn off does not.
SaveAnswered ==
    LET c == saving.channel
        v == saving.version
    IN
    /\ saving # Nothing
    /\ v \notin unpublished[c]
    /\ IF saving.off
       THEN SaveDone(c, v) /\ UNCHANGED gets
       ELSE /\ \A g \in gets : g.owner # Saver
            /\ gets' = gets \cup {Request(Saver, c)}
            /\ UNCHANGED <<store, saving, modalChannel, excuse>>
    /\ UNCHANGED <<server, socket, fetched, mounted, opens, form, acts>>

\* The page is told that the write failed, whether or not it happened.
SaveFails ==
    /\ saving # Nothing
    /\ \A g \in gets : g.owner # Saver
    /\ saving' = Nothing
    /\ UNCHANGED <<server, socket, store, fetched, mounted, gets, modal, acts,
                   excuse>>

\* The read after a save settles; a failed one leaves store and modal alone.
SaveRead(g) ==
    /\ g.owner = Saver
    /\ g.answer # Pending
    /\ gets' = gets \ {g}
    /\ \/ g.answer # Error /\ SaveDone(g.channel, g.answer)
       \/ /\ g.answer = Error
          /\ saving' = Nothing
          /\ UNCHANGED <<store, modalChannel, excuse>>
    /\ UNCHANGED <<server, socket, fetched, mounted, opens, form, acts>>

\* The user reloads the page; what the old page had on its way is lost.
Reload ==
    /\ store' = EmptyStore
    /\ fetchedChannels' = {}
    /\ fetches' = [c \in Channels |-> 0]
    /\ mounted' = [x \in Components |-> Nothing]
    /\ gets' = {}
    /\ modalChannel' = Nothing
    /\ current' = NotLoaded
    /\ seconds' = 0
    /\ saving' = Nothing
    /\ opening' = [floor |-> 0, mixed |-> FALSE]
    /\ socket' = <<>>
    /\ excuse' = [c \in Channels |-> {}]
    /\ UNCHANGED <<server, opens, acts>>

Next ==
    \/ \E c \in Channels : OthersWrite(c)
    \/ \E c \in Channels, v \in Versions : Publish(c, v) \/ Miss(c, v)
    \/ \E g \in gets :
          AnswerGet(g) \/ HookAnswered(g) \/ LoadAnswered(g) \/ SaveRead(g)
    \/ ReceiveEvent
    \/ \E x \in Components, c \in Channels : Mount(x, c)
    \/ \E x \in Components : Unmount(x)
    \/ \E c \in Channels : OpenModal(c)
    \/ ChooseSeconds
    \/ Cancel
    \/ \E off \in BOOLEAN : Save(off)
    \/ SaveAnswered
    \/ SaveFails
    \/ Reload

Spec == Init /\ [][Next]_vars

-----------------------------------------------------------------------------
(* Properties *)

HookGets(c) == {g \in gets : g.owner \in Components /\ g.channel = c}

\* Nothing about the channel is on its way to the page.
Quiet(c) ==
    /\ unpublished[c] = {}
    /\ \A i \in DOMAIN socket : socket[i].channel # c
    /\ \A g \in gets : g.channel # c
    /\ saving # Nothing => saving.channel # c

\* A channel is fetched once per page load, by whichever component shows it first,
\* and never again: not by a component that is mounted before or after the answer,
\* nor after a fetch that failed or was thrown away (use_channel_ttl.ts:7-9, 20-26).
OneFetchPerChannel ==
    \A c \in Channels :
        /\ fetches[c] <= 1
        /\ (\E x \in Components : mounted[x] = c) => fetches[c] = 1

\* When nothing is on its way any more, the store shows the server's setting
\* of every channel that was fetched, unless an older answer or event came
\* after a newer one, an event was missed, or the fetch failed or was
\* cancelled, and no event or read brought the current setting since.
StoreHonest ==
    \A c \in Channels :
        Quiet(c) /\ c \in fetchedChannels /\ excuse[c] = {} => store[c] = setting[c]

\* What the modal says about a channel was true when it was opened or later, and
\* the duration that Save would write there was loaded for it or chosen by the
\* user, unless the load of an earlier opening was answered after this one's
\* began: that one is not cancelled, and may belong to another channel.
ModalHonest ==
    modalChannel # Nothing /\ current # NotLoaded /\ ~opening.mixed =>
        current >= opening.floor /\ seconds \in {0, opens}

\* A component never shows an unknown TTL for good: once the channel's fetch is
\* over and did not fail, its entry is there.  useChannelTTL lazy-loads it once
\* per channel, and undefined means that it is not yet loaded.
LoadedOnceFetched ==
    \A x \in Components, c \in Channels :
        mounted[x] = c /\ HookGets(c) = {} /\ "failed" \notin excuse[c] =>
            store[c] # NotLoaded
==============================================================================
