# Verification of the Disappearing Messages plugin

TLA+ modules for the Mattermost plugin in `src/`, TLC configurations that check
them on small instances, and TLAPS proofs that hold for every instance.

An administrator gives a channel a TTL.  From then on every post of the channel
gets a row in the table `mpmd_expire` with the time at which it expires; a
reply moves its whole thread to its own expiry.  A sweeper that runs every
minute on one cluster node reads the expired rows, deletes the posts and prunes
the rows.

## Inventory

| Part | Source | State | Operations |
|---|---|---|---|
| TTL settings | `server/ttl` | one KV value per channel | SetTTL (compare-and-set, 20 tries), ClearTTL, GetTTL, GetSetting, checkCanManage, ValidateTTL |
| API | `server/api` | none | POST, GET, DELETE `/ttl`; `/disappear set, off, status`; broadcast of `ttl_changed` |
| Expire index | `server/expiry/store.go` | table `mpmd_expire` | Upsert, UpdateExpireByRoot, GetExpired, DeleteByPostIDs, Migrate |
| Expiry service | `server/expiry/service.go` | none | OnPostCreated (GetTTL, Upsert, bump of the thread) |
| Sweeper | `server/sweeper` | the ids it has read | Run: query, purge, prune |
| Purge switch | `server/purger_switch.go`, `server/configuration.go` | live configuration | Purge: hard, soft or skip; parsing of the allowlist |
| Hard purge | `server/purge` | Mattermost's tables | one transaction with a DELETE per table |
| Life cycle | `server/plugin.go` | which services are wired | OnActivate, OnDeactivate, OnConfigurationChange, MessageHasBeenPosted |
| Webapp | `webapp/src` | TTL per channel in the redux store; the modal and its form | fetch on mount, WebSocket event, menu, modal (load, Save, Turn off, Cancel) |
| Labels | `server/ttl/ttl.go`, `server/api/command.go`, `webapp/src/presets.ts` | none | presets on both sides, short label, text of `status`, argument of `set` |
| Tooling | `build/` | none | manifest generator, deployment commands |

How they interact: the API writes settings and publishes an event; the hook
reads the setting and writes rows; the sweeper reads rows, asks the switch to
delete, and removes rows; the switch reads the configuration that
OnConfigurationChange replaces; the webapp reads settings over HTTP and follows
the events.  Nothing locks across two of these calls.  The database, the KV
store and the Mattermost API are the only shared state, and the only state that
survives a crash.

What is hard here, and what each part has to guarantee:

- *Hook.*  Three calls, each may fail, the process may stop between any two, and
  the TTL may change meanwhile.  A thread has to expire together and never too
  early.
- *Sweeper.*  It acts on a list that is out of date as soon as it was read.  No
  error path may drop a row of a post that is still there, and no post may be
  deleted without a row.
- *Switch.*  Configuration, license and version are read one after the other.  A
  hard delete must never happen on a licensed or an untested server.
- *Life cycle.*  Activation succeeds even when the database or the scheduler is
  not available.
- *Settings, API and webapp.*  Concurrent writers, events in another order than
  the writes, answers that arrive late.  A client that follows the events has to
  end up with the setting in force, and a form must not show or save what was
  loaded for another channel.
- *Labels.*  A person who types what is shown gets what was shown, or an error.

`PROJECT.json` lists the single hazards, each at its line.

## Modules

| Module | Models |
|---|---|
| `ExpireIndex` | The table as a function from the posts with a row to `expire_at`; one operator per SQL statement |
| `PurgePolicy` | Allowlist parsing and `purgeDecision`, on texts as sequences of characters; the reference `Listed` |
| `Disappear` | The state machine: posts, hooks, sweeper, switch, configuration, life cycle |
| `MCDisappear` | The posts, the version and the configurations that TLC uses |
| `DurationLabels` | The texts that a TTL is written as and read from, with the proofs about them |
| `MCTexts` | An administrator who types an allowlist character by character, and the TTLs that people look at; theorems for every list and version |
| `DisappearProofs` | The inductive invariant and theorems of `Disappear`, hooks in order or not |
| `DisappearOrderProofs` | What holds in addition where hooks run in order |
| `PurgePolicyProofs` | Parsing and matching of the allowlist, for texts of any length |
| `AtomicPurge` | What the sweeper relies on in a hard purge: all or nothing |
| `Purge` | The transaction on Mattermost's tables, with users who add rows; implements `AtomicPurge` |
| `TTLRegister` | What a user relies on when changing a TTL: one register per channel |
| `TTLSettings` | Handlers, slash command, permission check, compare-and-set loop, reads, events; implements `TTLRegister` |
| `Webapp` | One browser page: store, hook, events, the modal with its form |
| `MCPurge`, `MCTTLSettings`, `MCWebapp` | Rows, calls and users that TLC uses; which channels and components are interchangeable |
| `PurgeProofs`, `TTLSettingsProofs` | Inductive invariants, theorems and the two refinements |
| `WebappProofs` | The invariants and theorems of `Webapp` |

`ExpireIndex` and `PurgePolicy` are operators that `Disappear` uses.  `HardPurge`
in `Disappear` is the atomic removal that `AtomicPurge` specifies, `ChangeTTL` is
a write of the register, and `Webapp` takes the server as a sequence of writes
per channel; the detailed modules justify each of these.

Each definition has its source lines in `PROJECT.json` under `map`.  A
definition whose comment starts with "Mutant of" is a broken variant of the one
it names.  No specification uses it; putting it in the place of the original
makes TLC find the violation of the property that `PROJECT.json` pairs with it.

### State and steps of `Disappear`

| Variable | In the code |
|---|---|
| `clock` | `time.Now`, in ticks |
| `ttl` | the committed setting of each channel |
| `highest`, `cut` | history: per channel, the highest TTL that a hook has read, and the most by which a hook read less than one before it |
| `post`, `createAt` | Mattermost's posts: unsent, live, soft-deleted by the plugin, purged by it, gone with a root that it soft-deleted (`carried`), or deleted by somebody else (`foreign`) |
| `hook`, `due` | each post's run of OnPostCreated, and its local `expireAt` |
| `index` | `mpmd_expire` |
| `sweepPc`, `batch`, `left`, `snap` | locals of Run and Purge: next call, ids, ids not soft-deleted yet, configuration read |
| `failed` | posts for which a failed soft delete was logged |
| `service` | `expiryService` and `sweeperJob`: none, index only, both |
| `sysConfig`, `cfg`, `license` | saved configuration, configHolder, license |
| `stops`, `drift` | bound on restarts; history for one property |

A step ends where the code waits for a call, so everything interleaves there.
Every call may also fail: `HookError` for the hook's three calls, the second
disjunct of `HardPurge`, of `SoftDelete` and the second value of `index'` in
`PruneRows`; a failed query is a step that changes nothing.  A hard purge may
commit although its answer was an error.  `SoftDelete` handles one post per
step, as the loop does; Mattermost's `DeletePost` takes the live replies of a root
with it (`WithReplies`), with a row or without.  A crash loses the running hooks and the sweep; a
deactivation waits for the sweep, because `cluster.Job.Close` does.

`drift` is set by a change that the running sweep can no longer see: of the
license once the decision was made, of the configuration once it was read.
`ZeroConfig` is what configHolder holds before a configuration was ever loaded.
`Abandoned` says where a hook that stops ends up: nothing retries it.

### State and steps of `TTLSettings`

| Variable | In the code |
|---|---|
| `kv` | the KV store, one setting or none per channel |
| `call` | the request a handler serves: HTTP or slash command, set, get or clear, user, channel, amount |
| `pc`, `current`, `tries` | which API call comes next; the value that `Set` read last, or the answer of a get; the conflicts of `Set` |
| `status` | the answer: ok, one of the refusals (400, 403, 404, 409), an error, or none at all |
| `events` | the `ttl_changed` events of each channel, in the order of publishing |
| `commits`, `began` | history: what was written, and how much of it when a request started |
| `doubtful` | history: the last write of a channel came while another event was still to be published, or its own event was lost |

`Receive` is the validation in the handler and in `SetTTL`, `CheckManage` the
permission check (a channel that `GetChannel` does not return, for whatever
reason, is answered as not found), `KVRead` a get (GET and `status`, which ask for no permission
of the service), `KVGet` and `KVSet` one round of the loop, `KVDelete` the
clear, `Publish` the event and the answer, and `Stop` the end of the process.
`Duration` multiplies modulo the word size, as Go does, and `Seconds` cuts off
fractions.

### State and steps of `Purge`

| Variable | In the code |
|---|---|
| `rows` | the committed rows of `posts`, `fileinfo`, `reactions`, `mentions` |
| `adding` | rows that a user's request is about to insert |
| `batch`, `pc`, `done`, `deleted` | argument and progress of `Purge`: statements run, rows they deleted |
| `result`, `calls` | how the call ended; bound on the calls |
| `late` | history: rows inserted behind the statement for their table |

`Exec` is one DELETE and sees the rows that are committed when it starts.
`GiveUp` is a failure anywhere before the commit, `Commit` has an answer or
loses it, and `Answer` lets the sweeper call again with any ids.

### State and steps of `Webapp`

| Variable | In the code |
|---|---|
| `setting`, `unpublished` | the server: how many writes a channel has seen, and whose event is still to come |
| `socket` | events on their way |
| `store`, `fetchedChannels` | `byChannel` of the reducer; the set in `use_channel_ttl.ts` |
| `fetches` | history: how often the hook fetched each channel since the page was loaded |
| `mounted`, `gets` | components; GETs of hooks and modal in flight, with the flag of a hook's clean-up |
| `modalChannel`, `saving` | `modalChannelId` of the reducer; the modal's save while it is busy |
| `current`, `seconds` | the form: the setting it says is in force, and which load filled in the duration (0: the default or the user) |
| `opens` | number of the modal's opening, which names the load it starts |
| `opening` | history: the setting when the modal was opened, and whether an earlier opening's load was answered since |
| `acts` | bound on writes, mounts and openings |
| `excuse` | history: why an entry of the store may be stale |

A setting is the number of its write, so that older and newer can be told apart.
`setChannelTTL` is the only operator that changes an entry; it also notes when it
replaced something newer, and forgives what was lost before when it brings the
current setting.

`OpenModal` contains `LoadForm`, the modal's effect.  The effect sends a GET and
returns no clean-up, so `LoadAnswered` takes the answer of every opening, also of
one for another channel that came before; then `ModalHonest` no longer holds and
`opening.mixed` records why.  `SaveDone` closes the modal that is open when the
save's last answer arrives.

### Abstractions

- `TTLSettings`: a call is chosen at the start and never changes.  Permissions
  and membership are constants.  That whoever calls for a direct or group
  channel takes part in it is what the comment in `service.go` says, so
  `CanManage` lets anybody pass there, as the code does.  The millisecond in
  which a handler reads the clock is part of its call, so that instants are
  independent of the order of writes.
- `Purge`: a row is known by its table, its post and a number.  An insert succeeds
  whatever has become of its post (nothing in the code relies on a foreign key),
  and new posts have ids that no batch holds.
- `Webapp`: one page.  A write happens on the server in the step of the click,
  and its answer comes later or never; a write that the server refuses changes
  nothing and is left out, as are a Save outside the modal's range (which returns
  early) and the texts of errors.  Writes and events reach the page in any order,
  which covers every order that `TTLSettings` produces.
- Which header there is depends on the server's version: an action that opens the
  modal, or a menu that writes and waits for nothing but the event.  The model has
  both at once; for the page, a write of the menu is `OthersWrite`.  While the
  modal is open its backdrop stops the mouse, so only the keyboard can open it for
  another channel.
- `DurationLabels`: a text is a sequence of terms, each a number and a unit.  TTLs
  are whole seconds; `Seconds` in `TTLSettings` is what cuts a fraction off.

- One clock serves the server and the sweeper; there is no clock skew.
- One plugin process stands for the cluster: `cluster.Schedule` runs the sweeper
  on one node, and hooks on several nodes interleave like concurrent hooks of
  one.  A handover to another node is a crash or deactivation followed by an
  activation.  Two sweeps that overlap are not modelled.
- What somebody else deletes goes alone or with its replies; both happen
  (retention removes rows, a user calls Mattermost's API).
- In an allowlist the blank stands for every character that `strings.TrimSpace`
  trims.
- A batch is a set.  `expire_at` orders it only through the limit, and the
  columns `channel_id` and `created_at` are never read back.
- The hard purge is one step: the rows of the four tables go together.
- A saved configuration reaches the plugin in the step that saves it, or never
  (the load failed).
- Placeholders of the SQL dialect, JSON, logging and wording are left out.

## Runs

| Run | Instance | Properties |
|---|---|---|
| `core_serial` | root and two replies, TTLs 1 and 2, hooks in order, batch 2, hard purge (soft delete after a failed load), two ticks, two interchangeable replies | `TypeOK`, `MinimumLifetime`, `ThreadExpiresTogether`, `RegressOnlyByTTLCut` |
| `core_concurrent` | root and reply, TTL 1, hooks in any order, batch 1, two configurations and the zero one, license, one restart | `ThreadMinimumLifetime`, `NeverForgotten`, `OnlyIndexedRemoved`, `DeletionMatchesPolicy` |
| `core_live` | root and reply, TTL 1, one restart, fairness | `ExpiredEventuallySwept` |
| `policy` | allowlists of up to five characters of `10.`, comma and blank, four versions; 36 000 TTLs | `GuardMatchesList`, `SeparatorIsNeutral`, `ShortLabelExact`, `ShortLabelTypedBack`, `StatusTypedBack` |
| `settings` | three requests out of 14 calls (two of them differ only in the instant, one is a get), three users, a public, a direct and a missing channel, two tries, an int64 of 64 values | `TypeOK`, `GivesUpOnlyUnderContention`, `AnnouncedWasStored`, `EveryWriteAnnounced`, `LastEventIsCurrent`, `ImplementsRegister` |
| `purge` | two posts, five rows and three that may be added, three calls | `TypeOK`, `OnlyLateRowsRemain`, `ImplementsAtomicPurge` |
| `webapp` | two components, two channels, the modal, any four writes, mounts and openings | `TypeOK`, `OneFetchPerChannel`, `StoreHonest`, `ModalHonest` |
| `ttl_cut` | root and reply, TTLs 1 and 2, hooks in order | `BumpNeverRegresses`, violated |
| `soft_failure` | one post, soft delete | `FailedDeletionRetried`, violated |
| `stale_batch` | root and reply, TTL 1 | `ExtendedThreadSurvives`, violated |
| `overflow` | two requests with an amount that wraps around | `AnnouncedWasStored`, violated |
| `never_loaded` | two components, one channel, three acts | `LoadedOnceFetched`, violated |

Why these bounds are enough: a thread needs a root and two replies to have one
reply extend what another one set; two TTLs are the least that allows a cut; two
ticks let a post be sent, expire and be extended at different times.  A batch of
two out of three rows, or of one out of two, makes the limit cut through a
thread.  One restart puts a stop between any two calls.  With two configurations
(purge on a tested and on an untested version), the zero configuration and the
license, all three modes occur and change during a sweep.

For the settings, two tries and three requests are the least for which the loop
gives up (two others write between its reads).  The word of 64 values, with a
second of 3, allows amounts below, inside and above the accepted range and, in
`overflow` only, one that wraps around into it: `settings` keeps
`AnnouncedWasStored` true by leaving that amount out, and so states what holds
as long as the product fits.  For the purge, three calls are a failed one, its
retry, and one with an empty or another batch; the three rows that may be added
belong to the second and the third statement, so that there are statements before
and after them.

For the page, four acts in any mix are enough for two writes that overtake each
other, with a mount before and one after them; or for two openings of the modal
with a write between.  Two components on one channel are what the shared set is
for, and two channels meet in the modal's form.

The TTLs of `policy` are every second up to three hours, and for every whole hour
of a year the hour itself, a minute less and a second more: all presets, and every
change of unit from both sides.

`MayStart` with `SerialHooks` starts a hook only when no other one runs and no
earlier post waits.  That is the order that `service.go:75-80` argues from.
Mattermost does not promise it, so `core_concurrent` drops it.  There
`MinimumLifetime` is false (a root's or an early reply's hook that runs late
moves a later reply's expiry back), and `ThreadMinimumLifetime` is what remains.

`MinimumLifetime` is about posts that the plugin deletes by their id.  A reply that
is carried along with its soft-deleted root can be younger, even without a row:
`ThreadMinimumLifetime` bounds its life by the age of the root, and
`OnlyIndexedRemoved` says that a root which the plugin soft-deleted is the only way
for a post without an expiry to go.

### What the violated runs show

- `ttl_cut`: the argument in `service.go:78` that a bump can never move an
  expiry back overlooks a TTL that was lowered between two posts.  The thread
  disappears earlier than announced, but by no more than the TTL of its channel
  was cut from one hook to a later one (`RegressOnlyByTTLCut`, which compares with
  the history `cut`; it is zero while the TTL is only raised), and never before a post's least lifetime
  (`MinimumLifetime`).
- `soft_failure`: `sweeper.go:58` promises a retry, `softDelete` reports success
  for posts that it could not delete, and their rows are pruned.
- `stale_batch`: a reply between the query and the purge extends its thread, and
  the thread's earlier posts are purged nevertheless.

- `overflow`: `ttl_seconds` 18446744134 times `time.Second` wraps around to 60.29
  seconds.  It is accepted and stored as 60, while answer and event tell
  everybody 18446744134.  Nothing invalid is ever stored (`TypeCorrect`).
- `never_loaded`: the answer to the only GET of a channel is dropped when the
  component that asked is gone, although another one still waits for it.

### Fairness

`FairSpec` assumes that `cluster.Schedule` runs the sweeper again and again and
that the sweeper's own steps are taken (weak fairness of its steps), and that
the database does not fail forever (strong fairness of a purge that commits and
of a prune that deletes).  It assumes nothing of hooks, users or administrators.
The premise `Settled` of the liveness property says that from some time on the
plugin stays up under one configuration and license that let it delete.  A skip
on an untested version holds the rows for as long as it lasts, by design.

## Proofs

`DisappearProofs` proves, for any set of posts and threads, any TTLs of at least
`MinTTL`, any batch size and configurations, with hooks in order or not:

| Theorem | Statement |
|---|---|
| `TypeCorrect` | `Spec => []TypeOK` |
| `IInvCorrect` | `Spec => []IInv` |
| `ThreadLifetime` | `Spec => []ThreadMinimumLifetime` |
| `NothingForgotten` | `Spec => []NeverForgotten` |
| `RemovalNeedsIndex` | `Spec => []OnlyIndexedRemoved` |
| `PolicyDecides` | `Spec => DeletionMatchesPolicy` |

Assumptions: `ThreadAssumption` (threads are flat), `ServerAssumption` (a
TTL is a number of ticks not below `MinTTL > 0`; the bounds are naturals) and,
for `PolicyDecides`, `TextAssumption` (allowlists and version are texts).

The invariant `IInv` is `TypeOK /\ Safe`.  The lifetime alone is not inductive:
a removal is justified by the batch, the batch by the table, the table by what
hooks computed.  `Late` carries that chain.  A reply's expiry bounds its root's
life only because a reply is never older than its root (`Sent`).  `Owned` ties
rows and batch to posts whose own hook wrote a row, and `Swept` records that a
batch is pruned only after every post of it is gone or logged.  The steps are
proved in groups: those that touch neither posts nor table (`QuietSafe`), those
that only move a hook (`HookSafe`), removals (`RemoveSafe`), and the rest by
themselves.  A removal takes posts of the batch, or a reply whose root is in the
batch: threads are flat, so such a reply has the floor of its root, and a root
that is gone stays gone, which is what `OnlyIndexedRemoved` needs of the carried
replies.

For `PolicyDecides`, `Governed` follows the configuration through the sweep: as
long as nobody changed the policy since the sweep read it (`drift`), what was
read is what is in force, and the next call is the one it decides on.  It needs
that a sweep runs only where the plugin is wired, since an activation loads a
configuration too.  `DecisionMeans` says what the decision is worth, by the
lemma about prefixes (`AllowedIsPrefix`) from `PurgePolicyProofs`.

`DisappearOrderProofs` proves what holds in addition if hooks run one at a time
and in the order of the posts (`SerialHooks`), for the same constants:

| Theorem | Statement |
|---|---|
| `InOrderCorrect` | `Spec => []InOrder` |
| `OwnLifetime` | `Spec => []MinimumLifetime` |
| `ThreadTogether` | `Spec => []ThreadExpiresTogether` |
| `RegressBounded` | `Spec => RegressOnlyByTTLCut` |

`InOrder` is inductive together with `IInv`.  A bump writes to rows of other
posts, so a post's own lifetime needs to know who bumps: `Queued` says that
whoever is still running was posted no earlier than anybody who has written, and
`RootsFirst` that a reply's hook finds its root's row written or given up.
`OwnLate` then puts the expiry of each row, and the time of each batch, `MinTTL`
after the post itself.

`RegressBounded` needs a second invariant, `Paced`.  `Sourced` keeps for every row
the post and the TTL that its expiry comes from: that post is no later than one
whose hook starts now (`Queued`), and that TTL is at most `highest`.  So a hook
that reads a TTL computes an expiry which is behind a row of its channel by no
more than `cut` (`Bounded`), and as no second hook writes before it is done
(`Alone`), that is still so when it bumps its thread.

`PurgePolicyProofs` proves about the operators, and `MCTexts` about the
administrator who types, for lists of any length over any characters:

| Theorem | Statement |
|---|---|
| `GuardIsList` | `versionAllowed(version, PurgeSchemaAllowlist(raw)) <=> Listed(raw, version)` |
| `GuardCorrect` | `Spec => []GuardMatchesList` |
| `SeparatorCorrect` | `Spec => SeparatorIsNeutral` |

Assumption: `TextsAssumption` (a version, as the server reports it, holds no
blank and no comma, the characters that stand around the entries of the list).
`Listed` reads the list without splitting or trimming it.  One direction finds
in the text the place that a trimmed entry came from (`EntryListed`); the other
one finds the nearest commas around a listed prefix, and shows that nothing but
blanks is trimmed (`ListedEntry`).  A separator at the end adds nothing to what is
listed and takes nothing away (`SeparatorAddsNothing`, `SeparatorTakesNothing`).

`TTLSettingsProofs` proves, for any requests, users, permissions and channels, any
word size and any bounds that fit into it:

| Theorem | Statement |
|---|---|
| `TypeCorrect` | `Spec => []TypeOK`: what is stored obeys the bounds, wrapped product or not |
| `IInvCorrect` | `Spec => []IInv` |
| `ContentionNeeded` | `Spec => []GivesUpOnlyUnderContention` |
| `RegisterCorrect` | `Spec => ImplementsRegister` |
| `EventsCurrent` | `Fitting` proves `Spec => []LastEventIsCurrent` |
| `EventsWereStored` | `Fitting` proves `Spec => []AnnouncedWasStored` |
| `WritesWereAnnounced` | `Fitting` proves `Spec => []EveryWriteAnnounced` |

Assumptions: `SettingsAssumption` (calls are well-typed, at least one try, the
upper bound fits into an int64), and for the three about events also `Fitting`: the
product of every `ttl_seconds` with `time.Second` fits into an int64, so that a
handler announces what it stores (`AnnouncedIsStored`).  The run `overflow` shows
that the assumption is needed.  `Checked` says that a
request that got past the handler has a valid value, and that gets and only gets
read without a permission check; types and refinement rest on it.  `Contention` pays
for every conflict with a write: the tries so far never exceed the writes since
the request began, and a value that is no longer the one read has one more write
behind it.  For the refinement, `Stage` maps the program counter and the answer
of a request to what its user sees; each step moves one request by one stage or
stutters (`RequestStep`).  `Told` carries `EventsCurrent`: unless a channel is in
doubt, either nobody has an event to send and the last one is right, or exactly
one request has, and it is the last writer.  The other two theorems count, so
`Ledger` keeps accounts per channel and value: events, and requests about to send
one (`Owing`), never outnumber the writes, and match them while no request of
the channel failed or stopped (`Balanced`).  A write adds a debtor, an event
settles one, and a failure only writes a debt off.

`PurgeProofs` proves, for any posts, rows and number of calls:

| Theorem | Statement |
|---|---|
| `TypeCorrect` | `Spec => []TypeOK` |
| `IInvCorrect` | `Spec => []IInv` |
| `FootprintRemoved` | `Spec => []OnlyLateRowsRemain` |
| `AtomicCorrect` | `Spec => ImplementsAtomicPurge` |

Assumption: `PurgeAssumption` (rows belong to the four tables, and nobody but
the initial state adds to `posts`).  `Caught` says that the statements that have
run deleted every row of the batch in their tables except the late ones, so a
commit after the last one leaves only late rows.  `OnlyPostsHavePosts` says that
no late row is a post; hence a commit removes exactly the batch
(`CommitRemovesBatch`), which is the step of `AtomicPurge`.

`WebappProofs` proves, for any channels, components and number of acts:

| Theorem | Statement |
|---|---|
| `TypeCorrect` | `Spec => []TypeOK` |
| `FetchesAreSingle` | `Spec => []OneFetchPerChannel` |
| `StoreIsHonest` | `Spec => []StoreHonest` |
| `ModalIsHonest` | `Spec => []ModalHonest` |

Assumption: `WebappAssumption` (the marks for a load that did not happen, is
pending or failed are no settings, and the owners of GETs and of the save are
distinct).  Each theorem has an invariant of its own, on top of the types.
`Single` ties the fetches to the set of fetched channels: a channel is marked when
its GET is sent, stays so until the page is reloaded, and no component shows a
channel that is not marked.
`Known` says that nothing on its way is ahead of the server.  `AllCarried` is the
argument for the store: the setting in force of a fetched channel is in the
store, or in an event still to come, or in a GET of the hook that was not
answered with something older, or an `excuse` says how it was lost
(`DispatchCarries`, `DispatchKeeps`: only a dispatch can replace it, and then
leaves that excuse).  `StoreHonest` is what remains when nothing is on its way.
For the modal, `Fresh` says that the load of the current opening has no answer
older than that opening, and `Formed` that the form shows nothing older unless
another load was answered.

`DurationLabels` proves for any set of positive TTLs (`TTLsAssumption`):

| Theorem | Statement |
|---|---|
| `LabelsExact` | `setting \in TTLs => ShortLabelExact` |
| `LabelsReadBack` | `setting \in TTLs => ShortLabelTypedBack` |
| `StatusReadsBack` | `setting \in TTLs => StatusTypedBack` |

Each unit is used only if it divides the TTL (`DivisionExact`), and the presets
are right one by one, on both sides (`PresetsExact`, `ServerPresetsExact`).
`ParseDuration` folds over a text of any length.  The texts that the system
writes have at most three terms, and for these `TotalOfThree` exhibits the
function that the fold stands for; `StringTerms` says which terms `status` writes,
and `ClockExact` that hours, minutes and seconds add up.

Every invariant and action property that a passing run checks is so proved for
every value of the constants.  Only model-checked: `ExpiredEventuallySwept`,
because liveness under fairness is out of the prover's reach.  Not proved
either is what `ParseDuration` makes of a text of more than three terms, which
would take induction over the text; no property is about such a text.

## Plan

Done: all modules of the table above, their specifications, runs and proofs.
Left:

1. The server part of `Webapp` as an abstraction of `TTLSettings`.  The number of
   a write in `Webapp` is its place in `commits[c]`; `unpublished` needs the place
   of each write that a request has still to announce, which `TTLSettings` does
   not keep.
2. A sweep in mode hard as an abstraction of `Purge`.  `AtomicPurge` specifies
   the call that `HardPurge` models in one step.  It is no step-for-step
   abstraction of the whole sweep: `HardPurge` ends the call and removes in the
   same step, `EndSweep` empties the batch, and at `prune` it no longer matters
   whether the posts were purged or soft-deleted.  So the two modules stay side
   by side, and what connects them is that both remove the batch or nothing.

## Not modelled

The tooling under `build/`, rendering in the webapp, texts of answers and errors,
the log, and the routing of HTTP requests keep no state of the system.
