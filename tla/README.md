# Verification of Beckon

Beckon binds Herdr agent panes to the logical keys `f1`..`f10`, keeps the
bindings in `bindings.json`, mirrors them as tokens in Herdr, lights a key per
pane and focuses the pane when its key is pressed. This directory holds TLA+
modules translated from `src/*.rs`, the TLC runs that check them and theorems
checked by TLAPS.

## The system: parts, state, operations

One daemon (`beckond`) owns everything that is shared. Its main thread runs an
event loop (a tick every 50 ms) that serves client requests, renders the lights,
syncs the presentation tokens and handles hotkeys, one after the other. Around
it run two threads per Herdr session (the pane cache), one thread per display
plugin, and separate processes (`beckon` commands) that share its state files.

| Part | State | Operations | Correct when |
|---|---|---|---|
| Binding service (`core.rs`, `state.rs`, `session.rs`) | `bindings.json`; the router's sessions | bind, release (pane, key, all), status, lookup; each reconciles first | keys and panes are never given twice; a binding comes and goes only for a cause; tokens follow the ledger |
| Pane cache (`pane_cache.rs`, `herdr.rs`) | the panes of one session, per-pane revisions | snapshot replace (two threads), event apply | catches up with Herdr; never goes back in time; a live pane is not missed |
| State files and commands (`state.rs`, `terminal.rs`, `main.rs`) | `bindings.json`, `surfaces.json`, temporary siblings | the daemon's saves; preview, adopt, forget in processes of their own | no load sees half a file; an acknowledged change is not lost |
| Repeat-press confirm (`action.rs`, `main.rs`) | the pending confirmation | press: confirm or focus and arm | Enter reaches only the pane the user focused, within the window |
| Presentation tokens (`main.rs`, `herdr.rs`) | what was published per pane | publish | every live pane shows its binding |
| Status lights (`hid.rs`, `display.rs`) | last report written, retry time, sequence | publish, write, backoff; `hid send` by hand | the keyboard shows the current plan; failures are reported once |
| Report encoding (`hid.rs`), rendering (`render.rs`) | none | render, slots and treatments of a plan, 3-bit packing | decodes to the states and the theme it was made from |
| Display plugin (`display/process.rs`) | queue of one, generation, child process | publish, deliver, supervise, restart | the plugin ends with the latest plan; failures are reported |
| Daemon start (`main.rs`) | the socket file, the sessions found | stale-socket check, bind, discover, attach, register | one daemon, which manages every session that stays |
| Adopted surfaces, focus (`terminal.rs`, `focus.rs`) | `surfaces.json` | adopt, forget, raise, command, focus | navigation raises what was adopted; order of a keypress |
| Input registration (`input.rs`) | registered hotkeys | register every chord of every profile, route a press | a key event reaches one logical key; two profiles cannot claim a chord (a failed registration ends the process, nothing is rolled back) |
| Session discovery (`herdr.rs`) | none | candidates, liveness | permitted sessions that answer, each once |
| Configuration (`config.rs`) | none | parse, upgrade of version 1, checks, themes | what load accepts the rest of the program can run with |

Interactions: requests come over a Unix socket and are answered in the loop; the
service reads a snapshot of the pane caches under a lock and writes tokens with
the `herdr` command line; caches are filled by their own threads; plugins get
messages over a pipe and answer with status lines collected at the next publish.

What is hard here: a handler stops half-way (a token write fails on a pane that
just closed, the process dies) after the ledger is saved; snapshots travel
slower than events; a snapshot is trusted to prove that a pane is gone; a second
process runs the same load-change-save without a lock; a session or a shortcut
goes between being found and being used; a device forgets its
state while the daemon remembers what it wrote; answers arrive after the state
they are about has changed.


## Modules

A module has the state and the operations of one part; an `MC` module extends it
for TLC; a `_proofs` module has its theorems. `PROJECT.json` maps every
definition to the lines it translates.

| Module | Models | State in the code | Actions |
|---|---|---|---|
| `BindingLedger` | `core.rs` `BindingService` over `state.rs`, `session.rs` | `hasFile`, `ledger`: `bindings.json`; `managed`, `cache`: the router and its snapshots; `herdr`: the fkey tokens | `Bind`, `ReleasePane`, `ReleaseKey`, `ReleaseAll`, `Reconcile`; cache events and refreshes; `Restart` with other sessions; panes open, close and lose tokens |
| `BindingContract` | what the ledger promises, without files or tokens | `owner` of each key | `Start` (import), `Serve` (free or grant), `Observe` |
| `PaneCache` | `pane_cache.rs`, the socket side of `herdr.rs` | Herdr's panes, the event stream, answers in flight, the cache | `Fetch`/`Replace` of both threads, `Subscribe`, `Disconnect`, `ApplyEvent`, `FetchFails` |
| `LiveBindings` | `PaneCache` composed with the part of reconciliation that trusts it | the bound panes | `Bind`, `Tick` |
| `RepeatPressConfirm` | the press loop of `main.rs`, `action.rs` | `queue`: the hotkey channel; `pending`: the armed confirmation | `PressKey`, `HandlePress` (`Confirm`, or `Navigate` with `Arm` or `FocusFails`), `Rebind`, `CacheLearns` |
| `StatusLights` | `RenderSink` in `hid.rs`, error reporting in `display.rs` | `last_snapshot`, `retry_after`, `next_sequence`, `last_error` | `Updated`, `Unavailable`, `Failed`, `Elapse`; `ManualSend`; plans and keyboard change |
| `Config` | `config.rs` from the parsed file on: versions, upgrade, checks; themes of `render.rs`; shortcuts of `input.rs` | none: operators | |
| `StatusReport` | `Config`, then `render`, `slots_for_plan`, `treatments_for_plan`, `for_manual_send`, `encode` | none: the state is the file and the agent states | `KeyChanges`, `Refused` |
| `ProcessDisplay` | `display/process.rs` | the watch channel, the worker, the status channel | `Publish`, `Drop`; `Begin`, `Start`, `Deliver`, `NextRender`, `Fail`, `Resume`, `ResumeEarly`, `Stop` |
| `Presentation` | `PresentationPublisher` in `main.rs` | `published` | `Sync`, cut short anywhere; the world changes |
| `StateFiles` | `save_private_json` and the read-load-change-save of the daemon and of `preview`, `adopt`, `forget` processes | `bindings.json`, `surfaces.json`, the temporary siblings; the panes, ledger and records in memory; the panes the daemon's cache shows | `Read` (the panes), then one action per file operation; `Crash` anywhere; panes open, close and are missed by the cache; surfaces close |
| `DaemonStart` | `daemon` up to its loop, with `discover_sessions`, `LivePaneDirectory` and `register_adapters` | the socket file, who listens on it, the sessions found and attached | `Look`, `Connect`, `Remove`, `Bind`, `Listen`, `Discover`, `Attach`, `Attached`, `Register`; `Launch`, `Exit` anywhere; sessions and other applications come and go |

What is one step and why:

- A request or a tick is one action of `BindingLedger`: the event loop serves
  them on one thread, and in between only cache threads and Herdr run. They do
  not write what the handler reads twice, except the cache: a handler that reads
  two different snapshots is not modelled. Inside the action every save and
  every token write may be the last thing that happens, so a failed `herdr`
  command and a death of the daemon are outcomes of the action. `StateFiles`
  splits the same operation into reading the panes, loading, saving the
  reconciled ledger and saving the change, because another process runs between
  them and because the panes are read before the ledger is loaded
  (`core.rs:331`, `core.rs:394`): what was bound in between is not among them.
- A request is given the pane it names. One given a pane id without a session
  names the only pane of the snapshot with that id, or is refused before
  anything is read.
- `Config` and `StatusReport` are pure: a behaviour takes one configuration file,
  and agent states change from there, so that each reachable state is one input
  of the chain from the file to the 32 bytes. `DaemonStart` uses what `Config`
  shows (no collision within one accepted file) and models the refusals that
  come from outside.
- Pane ids are not reused (Herdr's ids are unique); `BindingLedger` allows an id
  to come back all the same.
- Plans, messages, errors and treatments are model values or small records;
  JSON, TOML, log lines and the text of errors are left out.

`BindingLedger` is related to `PaneCache` by its snapshot: `BindingLedger` lets
`cache` lag behind Herdr but only forward (an entry is always a value Herdr had
when it was copied); `PaneCache` and `LiveBindings` model how a snapshot travels
and find where that is not so. `StateFiles` splits `BindingLedger`'s save and
leaves keys and tokens to it; its daemon sees an arbitrary subset of the panes
that have been open (`CacheShows`), which `PaneCache` narrows down; its `RaisedFor` is the surface that the `Navigate`
of `RepeatPressConfirm` raises, whose failure navigation ignores.

## Runs

Every run finishes; all but the last three pass. Each property has a mutant of
the code (an operator before the definition it replaces, marked `Mutant of`)
that violates it under the same configuration.

| Run | Instance | Shows |
|---|---|---|
| `ledger` | two sessions, three panes (two with the same id in different sessions), two keys, any tokens at first, one bad token | `LedgerWellFormed`; `LostOnlyForCause`, `KeyNeverStolen`, `GrowsOnlyByBind`, `KeysShownAreOwned` for every step; `ImplementsContract`; `MirrorConverges`, and `RepairsStick`, its steps |
| `panes` | two panes, one without revisions, three versions each, two events in flight, one disconnection | `LastEventCatchesUp`, `SettledStays`, `CacheConverges`, `ForgottenStays`, `ClosedIsForgotten` |
| `confirm` | two keys, two panes, four presses, a clock of three windows | `EveryEnterFollowsItsFocus` |
| `lights` | two plans and a manual report, two errors, five changes, sequence numbers 0..2 | `ReportedOnce`, `RememberedWasWritten`, `LightsFollowPlan`, `LastingFailureReported` |
| `report` | 2,500 starts: files of both versions that differ from the default in one section (accepted and refused ones), all uniform states with one slot and one treatment different, reports by hand; five lists of the configured keys; one sequence number (255) | `AcceptedConfigRuns`, `KeysDecode`, `TreatmentsDecode` |
| `plugin` | two plans, four updates, two failures | `SequencesGrow`, `StatusIsCurrent`, `SleepsOnlyWhenServed`, `PluginGetsLatest`, `DropReturns` |
| `presentation` | two panes, two bindings, four changes | `PanesShowBindings`, `MemoryIsBounded` |
| `ledger_file` | two panes, sessions and surfaces, two commands, two requests, two changes of panes, cache or surfaces, one death | `LoadsAreWhole`, `KeptUnlessRaced`, `RaisesWhatWasAdopted` |
| `start` | three daemons, one kept alive by launchd, two sessions, both permitted, two deaths, two changes outside | `RunningOwnsSocket`, `SteadySessionsManaged`, `ServesAgain` |
| `stale_snapshot` | one pane, three versions | violates `DroppedOnlyWhenClosed` |
| `reconnect` | as `lights` | violates `ReconnectingRestores` |
| `ledger_lost` | one command, one session and surface, three requests, one change | violates `AcknowledgedIsKept` |

Five properties say exactly when something may be lost or appear:

- `LostOnlyForCause` and `GrowsOnlyByBind` compare `ledger'` with the intended
  result for every step of `BindingLedger`, ticks and cut-short requests included.
  `Staying` is the ledger without the panes seen to go. A tick never leaves out
  any of it and adds nothing once there is a ledger; a request leaves out at most
  the one binding it releases or moves, or everything; what appears is one binding of a pane of the snapshot to a key that
  nobody had, with all of `Staying` but the pane's old binding beside it.
- `KeptUnlessRaced` excepts a bind only if, at its acknowledgment, some preview
  held panes or a ledger without it (`Outdated`); no later preview takes it back.
- `RaisesWhatWasAdopted` excepts only a session whose command was done while
  another still held what it had loaded; overlapping commands leave every other
  session right.
- `RunningOwnsSocket` lets starts overlap. It excepts a daemon that was `exposed`
  when it began to listen: another had found an older file stale and was about to
  remove the file by name, or had already done so.

Why the bounds are enough. `ledger` needs no bound on the length of a behaviour:
its state space is finite. Two keys are the least with a move and a refusal,
three panes the least with a key wanted by more panes than there are keys, two
sessions the least with one dormant. In `panes` a third version is needed for an
event that is older than the cache but not the first; two events in flight allow
an update followed by a close. In `confirm` four presses make focus, Enter,
focus, Enter, with any other key in between. In `lights` five changes fail, heal
and change the plan back. The sequence counter wraps at 2 instead of 255:
nothing compares two of its values. In `report` turning on the bits of a field
leaves the others alone, and one slot different from all others meets every
neighbour; the sections of a file
are checked independently of each other, so one section at a time is varied. In
`ledger_file` two commands are the least that overlap on `surfaces.json`, and
two changes are what opens a pane
and shows it to the daemon between a preview's reading of the panes and its load;
two requests bind it and then release it, bind it again or bind another. In `start` a second
session is needed for one to stop while the other stays, a third daemon for one
to start while two others overlap.

### Fairness

- `ledger`: `CompleteReconcile` and `CacheRefresh` are weakly fair. The loop
  ticks every 50 ms and each cache is read again every 5 s; that a tick's writes
  succeed, when they could, is assumed of Herdr. `MirrorConverges` is moreover
  conditional on the rest of the world falling silent.
- `panes`: the five-second thread never ends and `pane.list` answers; events in
  the stream arrive; `Tick` is the loop. The monitor need not ever get a
  subscription.
- `lights`, `presentation`: the loop ticks, the clock goes on, Herdr answers.
- `plugin`: the worker's own steps and timers; `Publish` and `Drop` are not
  fair, and failures are bounded.
- `start`: launchd starts its daemon again (`nix/home-manager.nix`, `KeepAlive`)
  and every start runs on; daemons started by hand need not be. `ServesAgain` is
  conditional on a permitted session that is up, shortcuts that are free and no
  exposed daemon, from some point on for good.
- `confirm`, `report`, `ledger_file`: safety only, no fairness.

## Theorems

Checked by TLAPS for every value of the constants under the named assumptions of
the modules (`NumKeysAssumption`, `SessionsAssumption`, `PaneRefsAssumption`;
`StartAssumption`; `StateFilesAssumption`, `TemporaryAssumption`;
`CacheAssumption`; `ConfirmAssumption`; `LightsAssumption`; `PluginAssumption`;
`ReportAssumption`), which every run evaluates for its instance. Every safety
property of the passing runs is a theorem; most liveness properties have a
theorem about the steps that get there.

`BindingLedger_proofs`, for any number of keys, sessions and panes:

- `TypeCorrect`, `LedgerAlwaysWellFormed`. Inductive invariant:
  `TypeOK /\ LedgerWellFormed /\ NothingWithoutFile`. `ServePreserves` is the
  core: any operation that leaves a valid ledger and writes proper tokens keeps
  the invariant wherever it stops; `KeptIsValid` (a part of a valid ledger is
  valid) and `GrantIsValid` (a free key to a pane stripped of its own) give its
  hypothesis for each operation. `NothingWithoutFile` is needed by the step
  theorems: without it a ledger without a file would lose its bindings to the
  import of tokens.
- `NeverStolen`, from the invariant, `KeptOfLedger` (what reconciliation drops
  is missing from a managed session's snapshot) and one case per operation.
- `LostForCauseOnly` and `NeverFedByTokens`: `KeptIsStaying` says that what a
  reconciliation keeps of an existing ledger is exactly `Staying`, whatever its
  tokens; `ReleaseResults` and `BindResults` list the ledgers each request can
  leave behind, cut short or not. A binding of `Staying` that is missing, or a new
  one, is then in one of the listed results and in no tick's.

- `OnlyOwnedKeysShown`: `RepairWrites` (reconciliation writes a pane the key of a
  binding it kept) and `ServeShowsOwned` (an operation that writes only keys it
  saved shows only such keys, wherever it stops), then one case per operation.
- `MirrorReachedAndKept`, the safety side of `MirrorConverges`. `Mirrored` is
  stronger than agreement: the ledger binds no pane that is gone, and the
  snapshot and Herdr agree on which panes exist, though not on their tokens. Then
  reconciliation keeps the whole ledger and can only write what is there
  (`BackgroundKeepsMirror`); `CompleteReconcileMirrors` gets there, also by way
  of an import.
- `LedgerImplementsContract`. The mapping gives each key the pane of its binding.
  A first save is `Start` because a ledger that passed `Valid` has exclusive
  owners (`OwnersExclusive`); a later one is `Serve`: `DroppedAreGone` says that
  the keys reconciliation drops belong to observed sessions, `RemovalIsFree` and
  `BindIsGrant` turn what is left into `Free` and `Grant`. It needs one more
  invariant: only panes of managed sessions are seen.

`StatusReport_proofs`, for every set of configuration files that serde lets
through (`ReportAssumption`), every sequence number and all agent states:

- `ReportTypeCorrect`, the whole invariant: which file, and an agent state or
  none per key. The rest is about the functions from there to the bytes.
- `KeysDecodeCorrect`, `TreatmentsDecodeCorrect`. A report is the set of its bits
  that are on. `BitsOfByte` has the bits of a number below 256, `PackedField`
  shows that `pack_three_bits` turns on the three bits of a value at its place
  also across a byte; `EncodedBits` tells for each bit of the report which field
  turns it on, because fields, assigned bytes and header do not meet.
  `StatusesRead`, `MotionsRead`, `TreatmentsRead`, `ReservedRead` read each
  region back. `PlanHasEachKey` (ten keys of which each occurs once) and
  `SlotsOfPlan` bring the slots into key order; `SelectedThemes` relates the
  theme to what the file means in either version.
- `AcceptedConfigRunsCorrect`: `ProfilesApart` (no two shortcuts of the two
  profiles are equal), `DistinctIds`, `LoadedSections` (what version 1 leaves at
  its defaults passes every check).

`DaemonStart_proofs`, for any number of daemons, starts and deaths:

- `StartTypeCorrect`, and `RunningDaemonOwnsSocket`, for starts that overlap in
  any way. `RunningOwnsSocket` is not inductive: it says nothing of who else may
  remove the file. `Settled` adds that a daemon that runs unexposed answers on the
  file, so that no other start can come to find it stale, and that none that had
  found it so is left.
- `ServingManagesSteadySessions`: until it is attached to, a session that stayed
  is among those found (`HoldsSteady`), and it can be attached to because it is up.

`StateFiles_proofs`, for any number of panes, sessions, commands, requests and
deaths:

- `StateFilesTypeCorrect` (proved only: no run lists this `TypeOK`).
- `StateFilesAreWhole`: only temporary files are ever half-written, and no load
  reads one.
- `AcknowledgedKeptUnlessRaced`: the ledger holding what was acknowledged is not
  inductive, since a copy in memory replaces it. `Preserved` says the same of
  everything a ledger will be saved from, from the moment the panes are read, and
  that what was acknowledged is live, in the daemon's cache and not being
  released, so that whoever reads the panes next sees it.
- `NavigationRaisesWhatWasAdopted`: `Recording` ties what each command is about to
  save to the file as it is: its own session's change, and the file's records of
  every session that is not `mixed`. A command that saves while others hold an
  older file makes its own session `mixed`, and no other.

`PaneCache_proofs`, for any panes, versions, events in flight, disconnections:

- `CacheTypeCorrect`.
- `NewsIsNeverDropped`. The check of revisions passes for a pane's last event
  because nothing the daemon holds is ahead of Herdr (`NeverAhead`: the cache
  and both answers in flight) and the last event in flight is Herdr's present
  version (`StreamEndsAtServer`). This needs that events flow only while the
  monitor streams (`FlowsWhileStreaming`), and that it re-reads only when it does
  not (`ReadsBetween`): an answer installed while streaming would send it back to
  subscribing with events under way.
- `NewsStays`, the safety side of `CacheConverges`: what cache and answers in
  flight show of a pane as Herdr has it is kept, whichever older events are still
  in flight. From `NeverAhead` and `StreamEndsAtServer` again (no event is ahead
  of Herdr, and only a closed pane is said to be closed), and the check of
  revisions: it is false of a pane without them (`Unrevised`), which an older
  event does roll back until its last one is applied.
- `ForgottenForGood`, the safety side of `ClosedIsForgotten`, about `LiveSpec`
  (`LiveCache`: bindings change nothing below them, so what is proved of
  `PaneCache` holds there). `Forgotten` is kept by every step, of a pane without
  revisions too: what is in flight of a closed pane then only says closed.

`RepeatPressConfirm_proofs`: `ConfirmTypeCorrect`, and `EntersFollowTheirFocus`.
Each step has one of three effects on the history (`StepsByEffect`: nothing, an
Enter, a focus). The inductive part is `PendingHasItsFocus`: what is armed was
armed by the last effect that armed or fired.

`StatusLights_proofs`: `LightsTypeCorrect`, and `FailuresReportedOnce` from
`RemembersLast` (`last_error` is the last failure reported). `MemoryWasWritten`:
inductive as it stands; with it, `Due` holds back no report the keyboard lacks,
which is what `LightsFollowPlan` rests on.

`ProcessDisplay_proofs`: `DisplayTypeCorrect`, `ChildSeesSequencesGrow`,
`KnownStatusIsCurrent`. The invariant orders the three places of a render: what
the child was given last, what the worker holds, what the mailbox has
(`LastBehind`, `HandBehind`); `Holds` keeps an empty mailbox from being written.
`NothingIsSleptThrough`, the safety side of `PluginGetsLatest`: what the mailbox
has is in the worker's hand or marked as unseen (`TakenOrFresh`), and a child
that is served was given the hand (`ServedIsHand`).

Only model-checked: every liveness property (`MirrorConverges`,
`CacheConverges`, `ClosedIsForgotten`, `LightsFollowPlan`,
`LastingFailureReported`, `PluginGetsLatest`, `DropReturns`, `ServesAgain`, and
both properties of `Presentation`, which therefore has no theorem): fairness and
`ENABLED` are out of the prover's reach.

## Where the code and its documents disagree

Shown by a run:

1. `stale_snapshot`: `PaneCache::replace` installs a `pane.list` answer that was
   read before an event already applied (`pane_cache.rs:67`). A pane that opened
   and was bound in between is missing from it, and the next tick drops the
   binding of a live pane (`core.rs:414`).
2. `reconnect`: `RenderSink` compares with the last report it wrote
   (`hid.rs:169`); a keyboard that was unplugged and plugged in again stays dark
   until the plan changes (`docs/adapter-architecture.md:236`: "reconnecting
   restores the display").
3. `ledger_lost`: `beckon preview` reconciles and saves `bindings.json` in a
   process of its own (`main.rs:418`, `core.rs:420`), from panes and a ledger it
   read before; a bind saved in between is taken back (`docs/terminal-backend-architecture.md:120`: "written only by the
   daemon").

Seen while modelling, and not stated as a property:

- Enter is permitted by the focus in the cache (`main.rs:773`), not Herdr's
  (`README.md:280-282`: "only when that exact pane is still focused").
- The confirmation window is measured between the moments two presses are
  handled (`main.rs:769`), not between the presses.
- `ProcessDisplay::publish` keeps the latest of the statuses it collects
  (`process.rs:121`): a failure that a delivery follows within a tick is
  reported by nobody (`docs/display-plugin-protocol.md:47`).
- An update that arrives during the restart delay ends it (`process.rs:166`;
  the document: "waits before restarting the child"). `ResumeEarly`.
- A start that found a stale file removes whatever file is there by then
  (`main.rs:674`), also one another daemon has bound in between: both can end up
  running, one of them reached by nobody. `RunningOwnsSocket` excepts that one
  (`exposed`), and `ServesAgain` waits until it is gone.
- Of two `adopt` or `forget` commands that overlap, the one that saves last takes
  the other's change back (`terminal.rs:157`); `RaisesWhatWasAdopted` excepts the
  session of the other.
- A session that is alive but whose one `pane.list` during the start fails for
  some other reason is skipped until the daemon starts again (`main.rs:1072`).
  `DaemonStart` counts a session as up while `pane.list` answers, so
  `SteadySessionsManaged` says nothing of it.
- A report sent by hand stays on the keyboard until the plan changes: the daemon
  still believes its own report is there (`hid.rs:169`). `LightsFollowPlan`
  excepts it.
- A color is cut into its components by byte offsets (`render.rs:43`) after a
  check of its length in bytes; a text with a multi-byte character stops the
  program instead of being refused.

## Not modelled

- What serde refuses of a configuration file (unknown fields, wrong types), the
  characters of a color, and the wording of errors. A file in `Config` is one
  that decodes.
- The command line, printing, `beckon init`, `hid list` and `hid probe`, and the
  key event log: formatting and I/O without state that anything reads again.
- The AppleScript of the Ghostty backend and the user's focus command: external
  processes that list, succeed or fail. With Ghostty the only backend, a
  surface record of another backend cannot arise.
- Where the sockets lie, the order in which sessions are found, and
  `BECKON_HERDR_SOCKET`, a seam for tests. Which server the `herdr` command
  reaches when `[herdr] socket` is set (`herdr.rs:351`) is its own configuration.
- Report encoding: the deliberately malformed diagnostic report, the example plan
  of `preview --all-states`, and the `f32` arithmetic of brightness (hundredths
  instead).
- The scheduling of the event loop itself: that a request ends is assumed. The
  read timeout (`main.rs:947`) bounds one read and not the request; a slow client
  delays every press and tick, which changes no state.
- A first run without `bindings.json` beside a preview: `BindingLedger` has the
  first run, `StateFiles` starts with an empty ledger.

## How the project grew, and what could follow

Written first, because everything depends on it: the binding service and its
contract; then the cache it trusts, the outputs it drives, the files below it,
the start above it and the configuration before it; then the proofs. Two
compositions are left: the event loop with presses, requests and ticks taking
turns, and `BindingLedger` over `PaneCache`'s snapshots, so that a binding dropped
by a stale snapshot is seen with its key and token. Both multiply state spaces
that are near what a run can finish; `LiveBindings` has the part of the second
that the finding needs.
