# Getman: a TLA+ verification project

Getman is a desktop and web HTTP client written in Flutter.  This directory
holds TLA+ models of the parts of it whose correctness depends on the order in
which things happen, the TLC configurations that check them on small instances,
and proofs, checked by TLAPS, of what holds for every instance.  Paths are
relative to the root of the repository; `lib/` stands for `src/lib/` where the
repository's files live under `src/`.

Contents

1. The system
2. What is modelled, and how it corresponds to the code
3. What the runs check
4. What the code does differently from what it says
5. What is proved
6. What is only model-checked, and what is not modelled
7. The plan

## 1. The system

Getman runs on one UI isolate and one storage worker.  The state of the program
lives in blocs: objects that receive events and run one handler per event.
Handlers are asynchronous and, with one exception (the review mutations), not
serialised: the handler of a later event starts as soon as an earlier one
reaches an `await`.  Dart has no preemption, so *between* two awaits a handler
is atomic and *at* each await anything can happen.  That, together with a
process that can be killed at any moment, is where this program is hard.

| Component | State it keeps | Operations | Interacts with | Hard behaviour | What makes it correct |
|---|---|---|---|---|---|
| Tabs and panels (`features/tabs/presentation/bloc/tabs_bloc.dart`, `request_manager.dart`) | panels and their order, active panel, reopen stack, dirty set, debounce timer, cancel handles of sends | some thirty events: open, close, reopen, duplicate, move, reorder, rename, edit, send, cancel, flush | tabs storage (awaited writes), send pipeline (awaited), UI (events) | handlers interleave between their writes; a kill between two writes; answers of stale sends | a tab is in one place; no edit is lost; the disk catches up with memory; panels are well formed after any restart |
| Tabs storage (`features/tabs/data`, `core/storage/background_repositories.dart`) | Hive boxes `tabs`, `panels`, `tabs_meta` | single-row puts and deletes, reading the panels back | storage worker | rows written one at a time; rows that refer to missing rows | what is read back is usable whatever was half written |
| Exit flush guard (`features/home/presentation/widgets/exit_flush_guard.dart`) | none | flush tabs, collections and mirror, wait for the worker, exit | tabs, collections, mirror, worker | exit while handlers are half-way | nothing the user did before quitting is lost |
| Storage worker and connection (`core/storage/storage_connection_io.dart`, `storage_backend.dart`) | pending futures by id, watch streams, closed flag | invoke, flush, close | every repository | the worker dies or is closed with calls pending | commands run in order; every call gets an answer |
| Send pipeline (`features/tabs/domain/usecases/execute_request_use_case.dart`, `send_request_use_case.dart`, `script_execution_registry.dart`, `features/scripting/domain/logic/script_cancellation.dart`) | runs in progress, script executions by tab | trust, pre-script, patch, resolve, send, record history, post-script, patch | tabs (caller), environments, history, network, script runtime | cancel or supersede between two stages | a cancelled or superseded run has no later effect |
| Realtime connections (`features/realtime/presentation/bloc/realtime_bloc.dart`) | session and epoch per tab | connect, disconnect, send, event received, tab closed | realtime service (sockets, SSE) | late connects and events | events of an old connection never reach a newer one |
| MCP sessions (`features/mcp/presentation/bloc/mcp_bloc.dart`) | session and epoch per tab | connect, list, call, cancel, tab closed | MCP service | late connects and results | as above |
| Collections (`features/collections/presentation/bloc/collections_bloc.dart`, `features/collections/data/repositories/collections_repository_impl.dart`) | the tree, pending save | tree edits, debounced save, flush, reload | storage, mirror | saves overlap edits, reloads and failures | the last edit is saved; a reload does not undo an edit |
| Workspace mirror and git (`features/collections/data/services/workspace_sync_service.dart`, `git_branch_service.dart`, `git_sync_bloc.dart`, `core/git`) | pending mirror, suspension, running mirror | schedule, flush, suspend, branch, pull, push | collections, files, git | a mirror races a git operation | files are never written while git owns the tree; the last version is mirrored |
| Merge conflicts (`git_conflict_service.dart`, `three_way_merge.dart`, `conflict_bloc.dart`) | conflicting files | three-way merge of a tree, choose, resolve | git | a pure algorithm with many cases | neither side's change is dropped silently |
| Reviews, pull requests | lists, selection | fetch, comment | git host | sequential mutations | answers apply to the review that asked |
| Environments (`features/environments/data/repositories/environments_repository_impl.dart`, `environments_bloc.dart`, `environment_editor.dart`) | the stored list, the bloc's copy, the editor's copy and the one it was built with | edit (three-way merge), patch from scripts, delete, undo | storage, send pipeline | a dialog edit races a script's patch, each with a stale copy | independent changes survive; a deleted environment stays deleted |
| History (`features/history`) | entries, limit | add, trim, restore, clear | storage, send pipeline | trim races add | newest entries within the limit |
| Network and cookies (`core/network`, `features/cookies`) | cookie store | requests, cookie storage | dio, sockets | I/O | answers belong to their request |
| Script runtime (`features/scripting/data/runtime/quickjs_runtime_io.dart`, `script_runtime_repository_impl.dart`, `packages/getman_quickjs/src/bridge.c`) | two slots, a queue of calls, a control block per call shared with the engine's thread | execute, cancel, close | send pipeline, vendored QuickJS | wake-ups meet cancellations; native memory outlives or not its users | no call waits beside a free slot; a control block is freed after its last user |
| QuickJS (`packages/getman_quickjs/src`, all but `bridge.c`) | - | evaluates JavaScript | the bridge | vendored, external | - |
| Updates (`features/updates`) | one download at a time | check, download, verify, install | network, file system | cancel during a download | - |
| Settings, chaining, suggestions, imports, exports, code generation (`features/settings`, `core/utils`) | a record, caches | conversions of text | - | none | unit tests reach them |
| UI and themes (`core/theme`, `core/ui`, widgets) | widget state | dispatch events | blocs | - | - |

The behaviours that are hard to test, with the line where each bites, are the
`hazards` of `PROJECT.json`; the properties below are aimed at them.

## 2. What is modelled, and how it corresponds to the code

| Module | Models |
|---|---|
| `TabStorage` | the rows of the boxes, the commands that write them one row at a time, and how panels are rebuilt from whatever rows are there (`tabs_local_data_source.dart`, `panel_model.dart`) |
| `TabsBloc` | every event handler of `tabs_bloc.dart`, `RequestManager`, `TabDirtyChecker`, the storage worker's queue, failing commands, kills, quitting and loading |
| `TabsHistory` | two history variables on top of `TabsBloc`, for properties about the past |
| `RealtimeBloc` | every event handler of `realtime_bloc.dart`, its buffer and timer, `close()`, connections as the bloc sees them (`realtime_service.dart`), and `tab_close_teardown_listener.dart` |
| `Runs` | the abstract specification of the send pipeline: who owns a tab, what a run does, once and in order, and until when |
| `SendPipeline` | a send from the button to its answer: `execute_request_use_case.dart`, `send_request_use_case.dart`, `script_execution_registry.dart`, `request_manager.dart`; shown to implement `Runs` |
| `ScriptRuntime` | `quickjs_runtime_io.dart`, the repository that loads it, and the C bridge `bridge.c` |
| `StorageConnection` | both ends of `storage_connection_io.dart` and the ports between them |
| `WorkspaceMirror` | the mirror of the collections, the git operations and the reloads that share one folder with it |
| `EnvironmentEditing` | an environment between the dialog, the bloc, the storage worker and scripts |
| `MCTabs`, `MCTabsHistory`, `MCRealtime` | small instances for TLC; the other modules need no more than a configuration |
| `TabsBloc_proofs` (with the lemmas about `TabStorage`), `TabsDisk_proofs`, `SendPipeline_proofs`, `StorageConnection_proofs`, `ScriptRuntime_proofs`, `WorkspaceMirror_proofs`, `EnvironmentEditing_proofs`, `RealtimeBloc_proofs` | theorems and their proofs |

The first four modules are about what the user sees of tabs; the others about what
those rest on.  `TabsBloc` takes the end of a send as free: `SendPipeline` is what
comes between.  `SendPipeline` takes the end of a script as free: `ScriptRuntime` shows
that it comes.  `TabsBloc` and `SendPipeline` take the storage worker as a queue
that executes commands in order and answers each: `StorageConnection` shows that
of the real one, or an error to everybody.

### Tabs: state

| Variable | In the code |
|---|---|
| `disk` | the boxes `tabs`, `panels` and `tabs_meta` (keys `panel_order`, `active_panel_id`) |
| `queue` | commands sent to the storage worker and not yet answered, each with the steps its handler has left |
| `phase` | of the process: off, loading, ready, failed to load, closing |
| `order`, `panels`, `active` | `TabsState.panels` and `activePanelId` |
| `closed` | `_closedTabs`, the reopen stack |
| `dirty`, `timer` | `_dirtyTabIds`, `_debounceTimer` |
| `handle`, `cancelled`, `running` | `RequestManager._handles`, the handles triggered, the sends whose handler has not returned |
| `nextTab`, `nextPanel`, `nextSend` | stand for the uuid generator: identifiers are numbers handed out in order, beginning after those an earlier session left on disk |
| `events`, `faults`, `crashes` | what the bounds have left |

### Tabs: handlers as actions and queue entries

A handler runs to its first `await` in one action: it changes the state and
sends its first command.  A queue entry is a record of that command and the
*steps* the handler still has to take; when the worker has executed the command,
the next step is turned into a command *from the state at that moment*.  The
difference between `_persistPanel(panel)`, which writes a snapshot, and
`_persistLivePanel(id)`, which looks the panel up after the await, is therefore
the difference between the steps `PutPanel` and `livePanel`.  The step `flush`
is what is left of the loop of `_flushDirtyTabs`, `saveAll` the loop of
`close()`, and `exit` the end of the process that waits behind the commands sent
before it (the worker executes commands in the order they are sent, so
`StorageConnection.flush` is itself a place in the queue).

Execution of a command and delivery of its answer are one step.  Nothing on the
UI isolate reads the disk except `LoadTabs` through commands of its own, so a
handler that runs between the two steps could as well run before both.

| Actions | Code |
|---|---|
| `ShowLinkedTab`, `AddTab`, `DuplicateTab`, `ReopenAsLinkedTab`, `ReopenClosedTab` | `_onAddTab`, `_onDuplicateTab`, `_onReopenClosedTab` |
| `RemoveTab`, `CloseOtherTabs`, `CloseTabsToTheRight`, `CloseTabsToTheLeft`, `CloseSavedTabs` | the closing handlers, with `_pushClosedTab` and `cancelAndFinish` |
| `SetActiveIndex`, `ReorderTabs`, `UpdateTab`, `RevertTab`, `ViewResponseHistoryEntry` | the handlers of the same names |
| `AddPanel`, `RemovePanel`, `RenamePanel`, `SetActivePanel`, `ReorderPanels`, `MoveTabToPanel`, `MoveTabToNewPanel` | the panel handlers |
| `SendRequest`, `CancelRequest`, `ReceiveResponse`, `StopSend`, `DropSend` | `_onSendRequest` before its await; `_onCancelRequest`; the three ways in which the awaited use case ends |
| `FlushTimer`, `FlushPendingSaves`, `RequestExit`, `CloseBloc` | the debounce, `flushPendingSaves` (window hidden), the exit guard, `close()` |
| `Start`, `ReadPanels`, `RestoreSession`, `SeedSession`, `FailLoad` | `_onLoadTabs`, whose two reads are commands too |
| `ExecuteWrite`, `ExecuteMeta`, `FailWrite`, `ExecuteExit` | the storage worker; `savePanelMeta` is two puts |
| `Crash` | the process is killed: memory and queue are gone, the boxes stay |

### Realtime connections

| Variable of `RealtimeBloc` | In the code |
|---|---|
| `open`, `lastAlive`, `told` | the tabs `TabsBloc` shows; `_lastAlive` of the listener; the tabs it has reported closed and that are not open again |
| `epochs`, `conns`, `pending` | `_epochs` (0 is no entry); `_connections` and `_subs`, which change together; `_pending` and `_flushTimers`: the timer runs exactly while something is pending |
| `batches` | `_FramesBatchReceived` events added and not yet handled |
| `sessions` | `RealtimeState.sessions` |
| `waiting` | for each socket that is being closed, what the handler that closes it does next: a connect or a disconnect with the epoch it captured, the rest of the loop of `_onTabsClosed`, the rest of the loop of `close()` |
| `opened`, `ended`, `released`, `got` | connections opened, ended by the server, closed; frames each has delivered |
| `phase`, `events` | whether the bloc is open, in `close()`, or closed; what the bound has left |

A tap, a timer, a frame and the completion of a socket's `close()` are *turns* of
the event loop, and one action each.  What a handler does without waiting for a
socket happens in microtasks of the turn that added its event, before the next
turn; so `Connect` on a tab without a connection tears down, connects and emits in
one action, while on a tab with one it leaves a task in `waiting`, which
`ResumeConnect`, `ResumeDisconnect`, `ResumeTabsClosed`, `ResumeQuit` or `GiveUp` (the
epoch has moved on) takes up.  By the same argument a batch is handled in the
turn of its timer; as the code guards against the contrary, `LateBatches = TRUE`
checks it with batches that are handled any number of turns later.

A user connects only a tab shown disconnected, and disconnects or sends only on
one shown connected, because the button and the composer offer nothing else.
A frame is its connection, its number there and its direction.  Sending over SSE does
nothing and is left out; a close and an error frame are both "end", and a
connector that throws is the second disjunct of `Connect` and `ResumeConnect`.
A connection whose place in the map is overwritten delivers no further frames in
the model; the run that gets there stops there.

### Send pipeline

| Variable of `SendPipeline` | In the code |
|---|---|
| `handle`, `cancelled` | `RequestManager._handles` (and `_scripts`, which changes with it), the handles that were triggered |
| `registry` | `ScriptExecutionRegistry._executions` |
| `sending` | the tabs shown as sending |
| `tabOf`, `scripts`, `stage`, `answer`, `outcome` | of one call of the use case: its tab, the enabled scripts, the `await` it is at, what came back, how it ended |
| `issued`, `usesPatch` | what it has set off, and what its request was resolved with |
| `queue`, `saved`, `rows`, `faults` | commands to the storage worker, patches and history rows it has executed, failures left |

A run is a call of `ExecuteRequestUseCase` and its `executionId`.  What lies between
two awaits is one action: `Start` (to the first await), `TrustRead`, `PreScriptEnds`,
`NetworkAnswers`, `SettingsRead`, `PostScriptEnds`; a run that waits for the worker goes on
in `Execute` or `Fail`.  Each has the outcomes the code has there: the run is not
current any more (`GiveUp`), the stage failed, or the next one begins.  `CancelRequest`
and `CloseTab` are the user's.  What scripts set and servers answer is free, but for
what matters to the stages.

`Runs` knows nothing of stages: a tab belongs to the run started last; a run does
each of six effects at most once, in their order, and only while it owns its tab
and was not stopped.  `R == INSTANCE Runs WITH owner <- registry, stopped <- cancelled, ...`
maps the pipeline to it.

### Script runtime

| Variable of `ScriptRuntime` | In the code |
|---|---|
| `engine`, `loader` | whether the native library can be opened; the `_runtime` future of the repository |
| `closed`, `drain`, `awaited` | `close()`: asked for, how far it is, the completers it waits for |
| `stage`, `cancelled`, `listener` | of a call: where it is, whether it was cancelled, what its `ScriptCancellation` would run |
| `queue`, `woken` | `_queue`; the calls whose completer has completed, in the order in which they go on |
| `active`, `running`, `stoppers` | `_active`, `_running`, `_cancelRunning` |
| `control`, `flagged` | the `Control` block of a call; those with `cancelled = 1` |
| `evaluation`, `status`, `refused` | where `gm_eval` is; `Control.status`; the quota's `memory_exceeded` |

A *turn* of the UI isolate (`Execute`, `Cancel`, `Close`, `Loaded`, `WorkerReturns`,
`CloseReturns`) begins when nothing is left of the turn before; a call that a turn
wakes goes on in a microtask, `Resume`.  `Enter` is the loop around the slots: a
woken call that finds them taken joins the queue again.  The engine's threads
(`Begin`, `Refuse`, `Interrupt`, `Throw`, `Fulfil`) take steps at any time.  A script is
what it does to the bridge: it ends, throws, is interrupted (by the flag or the
clock) or is refused memory, which it may catch.  The text of inputs and outputs
and the web worker are left out.

### Storage connection

| Variable of `StorageConnection` | In the code |
|---|---|
| `phase`, `closing`, `disposed` | how far `start()` is; `_closing`; `_disposed` |
| `answer`, `stream` | of each call and watch: not made, in `_pending` or `_streams`, and how it ended |
| `commands`, `responses` | the messages in the two ports |
| `worker`, `subscribed` | the isolate; its subscriptions |
| `sent`, `served`, `applied` | what was put into the port and taken out of it, in order, and what took effect |
| `deaths`, `events` | what the bounds have left |

The UI isolate's actions are `Invoke`, `Listen`, `CancelListening`, `Close` and, for each
message, `Receive`, `ReceiveClosed`, `ReceiveDied`; the worker's are `Ready`, one `Serve...` per
kind of command, `Emit`, `Exit`, and `Die`, at any moment and perhaps after the
command took effect.  A message sent to an isolate that is gone is lost; so is
one sent to the UI isolate after it has disposed of its port.  Not modelled: an
error or the end of a watched stream, and the connection of the web, which has
no worker.

### Workspace mirror

| Variable of `WorkspaceMirror` | In the code |
|---|---|
| `mem`, `disk` | the forest of `CollectionsBloc` and the files |
| `armed`, `chain`, `failed` | `_pendingForest` with its timer; the writes behind `_inFlight`; `_lastMirrorFailed` |
| `gates`, `blocked` | `_suspendCount`; whether the root is in `_reloadBlockedRoots` |
| `op`, `paused` | the operation of `GitSyncBloc` under way and its step; whether a conflict has stopped one |
| `waiting` | reloads of the settings tile that wait for their flush |
| `reads` | disk reads of reloads under way: the tree each began on, and whether the tile waits for it |
| `yields` | reloads that have replaced the forest and yield a turn before they reopen the gate |
| `kept`, `saved` | whether `_localOnlyStore` holds the examples of the request; ghost: whether the user has any |
| `edits`, `dropped`, `missed`, `void` | ghosts: edits made; the last whose mirror was dropped; the last dropped by a block or a reload, and not by git's suspension alone; the last that a newer tree replaced |
| `astray` | ghost: how the forest may have parted from its tree: a reload whose tile was gone (`skipped`), a tree that git rewrote under a read (`crossed`) |

A forest is the generation of the tree it was read from, the number of edits it
holds, and one request: absent, bare, or full, that is, with the saved examples
that files leave out.  `Edit` is a change of the forest with the listener that
schedules its mirror; `TimerFires` and `MirrorEnds` are the debounce and a write;
`StartOp`, `FlushFails`, `FlushSucceeds`, `StatusRead`, `GitEndsBeside`, `GitThrows`, `GitEnds`,
`GitConflicts`, `RefreshEnds` are the steps of an operation.  A reload begins with the new tree
that git hands over (`GitEnds`), or with the button RELOAD FROM DISK (`StartReload`, then
`ReloadFails` or `ReloadReads`), which looks at nothing: it may be pressed beside an
operation's flush, while git runs, and during another reload.  A read ends in one of three ways:
`ReadEnds` replaces the forest and, a turn later, `YieldEnds` opens the gate;
`ReadUnused` finds the settings tile gone (`workspace_settings_tile.dart:276`) and replaces
nothing, although the root is no longer blocked; `ReadFails` blocks the root.  A read during
which git rewrites the tree returns files of both.

`_flushOrThrow` and `flushPending` return in a microtask once the chain is drained: no
timer, I/O or input comes between the last write and what follows the flush
(`Microtask`, `Turn`).  Not modelled: choosing another folder, the conflict resolver and
what else the user does about a conflict, git commands of reviews, the layout of files,
and the saves of the collections to the storage worker.

### Environments

| Variable of `EnvironmentEditing` | In the code |
|---|---|
| `stored`, `commands` | the record in the box; commands to the worker |
| `passedOn`, `snapshots` | what `distinct` let through last; the lists on their way to the bloc |
| `shown`, `widget`, `draft` | the environment in the bloc's state, in the editor's widget as last built, and as the editor's rows show it |
| `undo` | what the snackbar's UNDO would restore |
| `ledger`, `edited`, `hasty` | history: the result of applying every request in the order it was made; the keys the user edited; whether an input came before a frame that was due |

`EditVariable`, `ToggleSecret`, `DeleteEnvironment`, `UndoDelete` are the user's, `PatchVariable`
is the pipeline's commit, `Execute` the worker's (it finishes one command, with its
read, merge and put, before the next), `Receive` the bloc's `EnvironmentsChanged`, and
`Frame` rebuilds the dialog with `didUpdateWidget`.  `Merged` is the three-way merge of
`updateEnvironment`, key by key; names and the order of variables are merged in the
same way and left out.  So are imports, failed writes (which the bloc only logs)
and `MergeEnvironmentVariables`, which nothing in `lib/` dispatches.

### Abstractions of the tabs' modules

- A request's configuration is a member of `Configs`; a response is the number
  of the send that produced it; the name `n` of a panel stands for "Panel n",
  and renaming to `0` is the blank name for which the code picks an automatic one.
- The order in which Hive returns rows that no stored order mentions is left
  open, and so is the order in which the flush visits the dirty set (a hash set
  in insertion order: every order is a possible one).
- Size caps on stored responses, the number of the history entry on display and
  the progress of scripts within a tab are left out: no property is about them.
- The exit waits for the collections and the mirror as well; that only delays it,
  and the queue can be executed before it in every way already.
- `saveTabs` and `saveTabOrder` of the old layout are not called by the bloc;
  the old layout itself is read (`ReadPanels`, second disjunct).

## 3. What the runs check

| Run | Specification | What it shows |
|---|---|---|
| `types` | `Spec` from a first run, a stored session and the old layout; one kill, one failing command, input during loading | `TypeOK`, `PanelsSound`: the display order names each panel once, there is one once loaded, the active one exists, whatever was half written |
| `session` | `SessionHistorySpec`, three events of any kind on two panels with three tabs, all interleavings with the worker | `ActiveTabShown`, `OpenOrClosedOnce`, `DiskMatchesWhenQuiet`, `SettledTabsSurvive` |
| `sends` | `SessionSpec`, a tab linked to a collection node, two sends, four events, one failing command | `HistoryNewestFirst`, `SendingHasOwner`, `AnswersOnlyWhileSending`; `ReopenRestores`: reopening brings back what was closed even when its node has another tab by now; `StaleTabIsTracked`: an edit that is not on disk is on the dirty set or in the queue |
| `exit` | `FairProcessSpec`, three events, quitting or teardown at any moment | `ExitSavesEdits`; `EditsReachDisk`: an edit gets onto the disk without any further event |
| `realtime` | `RealtimeBloc`'s `Spec`, two tabs that are not reopened, five events, three connections, batches handled late | `NoLeak`, `NothingLost`, `LiveIsShown`, `ReportedTabsForgotten`: the epochs do their work while no tab comes back after it was reported closed |
| `shown` | `FairSpec`, two tabs that may be reopened, three events | `GhostsVanish` |
| `pipeline` | `SendPipeline`'s `FairSpec`, two runs on one tab or two, one failing command | `Implements`: the pipeline implements `Runs`; `OnlyStoppedRunsGiveUp`; `RequestUsesSavedPatch`; `SendsEnd`: no tab stays on SENDING; `TypeOK` |
| `scripts` | `ScriptRuntime`'s `FairSpec`, four calls for two slots, cancelled in any groups, `close()` at any moment | `ControlsOutliveTheirUsers`, `NobodyWaitsForAFreeSlot`, `StatusTellsWhy`, `CloseDrains`, `EveryCallReturns` |
| `storage` | `StorageConnection`'s `FairSpec`, three calls, a watch, `close()` and one death of the worker | `FirstComeFirstServed`, `NobodyLeftBehind`, `DisposedMeansQuiet`, `EveryCallAnswered` |
| `workspace` | `WorkspaceMirror`'s `FairSpec`, two edits, the import at the start and two operations or reloads in any overlap, two faults | `GitOwnsTheTree`; `MirrorsItsOwnTree`: no failed read, failed command, edit or timer makes a forest be mirrored onto another tree than its own, but for the three ways of section 4; `GitSeesFlushedEdits`; `LocalOnlySurvives`; `MirroringComesBack`: every operation and reload ends and the gate opens again |
| `environments` | `EnvironmentEditing`'s `FairSpec`, two keys, two edits and two patches | `IndependentKeysSurvive`, `NeverRecreated`, `EditorCatchesUp` |

One more run, `failedop`, is *expected* to be violated; section 4 explains it.

### Bounds

Each property is violated in the same run by at least one plausible bug of the
code (the operators marked "Mutant" in the modules), so the case it is about is
within the bounds.  Beyond that:

- *Tabs.* Events are what costs: three events of any kind (`session`, `exit`) allow
  for a writer that is overtaken by a second and a third handler of the same
  panel, and for close, reopen and a third operation on the same tab.  Two
  sends and four events (`sends`) allow send, cancel and send again with both
  answers outstanding, or a send around a close and a reopening.  One failure or
  one kill suffices for properties about what is left behind, since each is
  checked at every point; two panels with three tabs have a first, a middle and
  a last position.
- *Realtime.* A handler that is overtaken while it waits, the handler that overtakes
  it, and one more that meets what the two left are three events, of which two
  may be connects that follow the end of an earlier connection; five events on
  two tabs leave room for that.  `Cap = 2` makes logs overflow with the third frame.
- *Pipeline.* Two runs are a run and the one that supersedes it, or its neighbour
  on another tab; that nothing new comes with a third is what the proof shows.
- *Scripts.* Four calls are two in the slots and two in the queue, so that a wake-up
  may go to one that is cancelled and has to go on to the other.
- *Storage.* Three calls are one answered, one being executed and one waiting when
  the worker dies or the connection closes; more is proved.
- *Workspace.* The import at the start and two operations are three reads of three
  trees: away, back, and one more that finds what the two left, or a reload beside
  either; with a fault in two of them, and an edit before and after the second.
  The safety properties are proved for any number (section 5).
- *Environments.* The key that is edited and the one that must survive; two edits
  are one on its way while the next is made, or a deletion and its undoing.

### Deadlock

All runs bound the number of events, so a session may end with
nothing left to do; `CHECK_DEADLOCK FALSE` is set for that reason alone.

### Fairness

No specification assumes fairness of users, servers, failures or kills.

- `FairProcessSpec` assumes that the worker executes the commands it is sent, the
  exit included, and that the debounce timer fires.  The worker is a loop over
  its receive port that answers every message it gets.  The debounce restarts its
  timer on every edit, so it fires only when edits stop for its duration: with
  boundedly many events they do.  (`WF_timer(timer /\ timer' = FALSE)` says so
  of the part of `FlushTimer` that is always enabled while the timer runs; it is
  cheaper to check.)
- `RealtimeBloc`: a timer that runs fires, an event added is handled, and the closing
  of a socket completes (closing a WebSocket waits for its peer for a bounded
  time only).
- `SendPipeline`: every run's stages go on, since scripts have a deadline and requests
  a time limit, and the worker executes its commands.
- `ScriptRuntime`: the bootstrap source is read or cannot be, a completed future is
  delivered, and a script ends by its deadline (`interrupted` looks at the clock).
- `StorageConnection`: the worker works while it is alive and the UI isolate reads its
  port; nothing is assumed of a dead worker but that its exit is reported.
- `WorkspaceMirror`: timers fire, and writes, reads and git commands end.
- `EnvironmentEditing`: the worker answers, events arrive, frames are built.

## 4. What the code does differently from what it says

The run `failedop` checks `GitSeesEveryEdit`, which `git_branch_service.dart:29-31`
says of every operation: "running git over a tree that is missing the user's
last edits would both mis-report the state and, on a checkout, silently lose
those edits".  TLC finds it violated: an edit made *while* git runs is dropped by
the suspension (`workspace_sync_service.dart:128`), on the ground that git's tree
will be read back afterwards.  If git then fails, nothing is read back, nothing
mirrors the edit again, and the next operation finds a tree without it.
`GitSeesFlushedEdits` of the run `workspace` is its counterpart: edits dropped in this
way are the only ones missing.  (Edits dropped while the root was blocked or a reload
was reading are excused in both; `missed` tells them apart.)

The modules state more properties that the code does not have.  A
configuration for each would crowd out the runs above; the instances below show
them, as the configuration of the run named with the constants changed as said.

| Property | Instance | What happens |
|---|---|---|
| `DiskMatchesWhenQuiet` | `sends` with `Nodes <- NoNodes`, `MaxTabs = 1`, `MaxSends = 0`, `Sessions <- FirstRun`, `MaxName = 2`, `MaxEvents = 1`, `MaxFaults = 0` | The first start awaits `putTab(seed)` and then persists the seed panel *as it was before* (`tabs_bloc.dart:315`), although the class comment at line 21 requires `_persistLivePanel` after any await.  A rename in between is overwritten on disk. |
| `DiskMatchesWhenQuiet` | `session` with `EarlyInput = TRUE`, `MaxEvents = 1` | A panel is added while the session is being loaded, after the stored panels were asked for.  The restored session replaces what is in memory, and the new panel with it, but its row and an order of it alone reach the disk afterwards: the next start shows a panel the user lost, before those it had. |
| `SettledTabsSurvive` | `session` with `Sessions <- FirstRun`, `MaxTabs = 2`, `MaxPanels = 1`, `MaxSends = 0`, `MaxName = 2`, `MaxEvents = 2` | The same overwriting takes a tab that was opened and listed meanwhile out of its panel's row.  (`MCTabsHistory` assumes that sessions were stored before; the assumption has to go.) |
| `ExitKeepsTabs` | `session` with `HistorySpec`, `Sessions <- SmallSession`, `MaxTabs = 3`, `MaxPanels = 2`, `MaxSends = 0`, `MaxEvents = 2` | The exit waits for the dirty set and for commands already sent, not for handlers that have more to send.  A tab opened just before quitting has its row saved and no panel that lists it, so it is gone at the next start. |
| `EditsReachDisk` | `exit` with `Sessions <- SmallSession`, `MaxTabs = 2`, `MaxPanels = 2`, `MaxSends = 0`, `MaxEvents = 1`, `MaxFaults = 1` | A failed save is put back on the dirty set so that "the next debounce retries" (`tabs_bloc.dart:153-156`), but no debounce is started; without a further edit there is none. |
| `SettledTabsSurvive` | `session` with `HistorySpec`, `MaxCrashes = 1` | A kill between the two writes of a move leaves the tab in two panels, which `tabs_bloc.dart:1104-1106` calls recoverable.  Both copies share one row: closing one deletes the other's content. |
| `ActiveTabShown` | `session` with `HistorySpec`, `MaxCrashes = 1` | `PanelEntity` promises that a non-empty active id names a tab of the panel.  A kill between the two writes of a close leaves a row that names a missing tab, and reading it back keeps the name. |
| `ClosedTabsTornDown` | `realtime` with `Tabs = {t1}`, `Cap = 1`, `MaxConns = 1`, `MaxEvents = 3`, `LateBatches = FALSE` | The listener's `_lastAlive` changes only when a tab disappears, and is seeded before the session is loaded.  A tab opened since the last closing is not in it when it closes, so nothing is dispatched and its socket stays open (`tab_close_teardown_listener.dart:15-17`, "with EVERY closed id"). |
| `AllAccountedFor` | `realtime` with `Tabs = {t1}`, `Cap = 1`, `MaxConns = 5`, `MaxEvents = 10`, `Reopening = TRUE`, `LateBatches = FALSE` | Removing the epoch is called safe because a captured value never equals 0 (`realtime_bloc.dart:187-189`); but epochs of a reopened tab count up to it again, and the old connect overwrites the live connection. |
| `LiveIsShown` without `\ reopened` | the instance of `AllAccountedFor` | `_onTabsClosed` drops the session after waiting for the socket, whoever owns the tab by then (`realtime_bloc.dart:187`, "The tab is gone for good"): a tab reopened and connected meanwhile is shown disconnected. |
| `DisconnectKeepsFrames` | that of `ClosedTabsTornDown`, `Cap = 3`, `MaxFrames = 1` | The frames kept for the log (lines 153-156) wait with the handler; the button still shows DISCONNECT, and a second tap makes that handler give up. |
| `EndedNotShown` | that of `ClosedTabsTornDown`, `Cap = 3` | Only the last frame of a batch decides about `connected`: a message sent between the close frame and the flush leaves the ended connection shown as connected (`realtime_service.dart:253-254`). |
| `QuitClosesSockets` | that of `ClosedTabsTornDown`, two tabs, `MaxConns = 3`, `MaxEvents = 4` | While `close()` waits for its snapshot of connections, a connect that waits for its previous socket goes on and stores a connection nobody closes (lines 41-42). |
| `EveryCallReturns` without `engine =>` | `scripts` | Without the native library `controlNew()` throws before the `try` that gives the slot back (`quickjs_runtime_io.dart:128`): each of two calls fails and keeps its slot, and the third waits for ever. |
| `BlockedUntilReloaded` | `workspace` with `MaxEdits = 1`, `MaxOps = 1`, `MaxFaults = 1` | While a root could not be read, "mirroring to it is blocked: the next debounced mirror would write the stale in-memory forest over the files git just changed" (`workspace_sync_service.dart:85-90`).  A later read takes the root off the list at once (line 100), but `_reload` installs what was read only if its tile is still there (`workspace_settings_tile.dart:276`).  Close the settings while the read goes on, and the old forest is free to be mirrored. |
| `OldBranchStaysOff` | `workspace` with `MaxEdits = 1`, `MaxFaults = 0` | Suspension is there lest an edit "write the old branch's tree onto the new branch" (`workspace_sync_service.dart:115-117`).  Nothing keeps git from rewriting the tree while a reload reads it: the bloc is ready before the listener's read ends, and RELOAD FROM DISK does not ask it.  The read that began on the old tree may be installed last, and the next edit mirrors it.  The same trace holds the gate twice, although lines 75-77 say that `_suspendCount` "never exceeds 1 in production"; it is the counter that keeps both reads behind a closed gate. |
| `NeverOntoAnotherTree` | `workspace` with `MaxEdits = 1`, `MaxOps = 1`, `MaxFaults = 0` | "Hive must not be mirrored back onto a tree that something else owns right now" (`workspace_sync_service.dart:112-113`).  A pull that stops at a conflict returns normally and sets no reload token, and the pop of a stash throws: either way mirroring resumes with the old forest, and the next edit writes it over the conflicting files. |
| `AdmissionOrderWins` | `environments` with `Spec` | `docs/architecture/environments-and-chaining.md:66`: "Admission order determines the winner for the same key".  What the worker applies is the difference to what the editor was last *built* with.  A key typed over and put back before the editor is rebuilt is sent as a change and then as none, so the first value, or a script's, stays. |
| `EditorCatchesUp` without `hasty \/` | `environments` | The same edit is shown by the bloc at once and changes nothing on the worker, whose list then equals the one the watch passed on last; `distinct` drops it, and the bloc goes on showing what is not stored. |

`MirrorsItsOwnTree` says that `BlockedUntilReloaded`, `OldBranchStaysOff` and
`NeverOntoAnotherTree` fail in these three ways only: a tile that was gone, a tree that
git rewrote under a read, a conflict; and that after the first two a reload that finds
the tree at rest puts things right.

## 5. What is proved

### The tabs

`TabsBloc_proofs` proves, for every value of the constants that satisfies
`StorageAssumption` and `TabsAssumption` (bounds are natural numbers, the
sessions found at the first start are well-formed disks), and so for any number
of tabs, panels, sends, events, failures and kills:

- `TypeCorrect == Spec => []TypeOK`
- `PanelsAreSound == Spec => []PanelsSound`

Neither is inductive, and they need each other.  The inductive invariant `IInv`
adds to them what the argument rests on:

- **The panels are sound** (`Sound`): `Owner(...)` looks a panel up through the
  display order and finds one only because the order names every panel.  Without
  it the type of what `RemoveTab` does cannot be established.
- **Steps have the right shape** (`PlainStep`, `Steps`): `GoOn` turns whatever steps
  a handler has left into a command, so typing the next queue means knowing that
  a `flush` or a `saveAll` occurs only at the head of the steps it may occur in.
- **Panel ids are fresh** (`KnownStep(n)`, `Entry(n)`, `DiskOK`): every panel id in
  memory, on disk, on its way to the disk and in a snapshot of a waiting handler
  is at most `nextPanel`.  Without it a new panel could have the id of one that is
  only still on disk, and after a restart the order would name it twice.

The proof goes: `Init => IInv`; one lemma per action (`IInv` and the action imply
`IInv'`), under each one step per conjunct it can disturb; `StepOK` collects them
over the disjuncts of `Next`; `IInvInvariant` applies the rule of invariance.  The
lemmas on operators come first: which ids `Selected` keeps, that inserting,
removing and moving in a strip keeps its type, that `StoredOrders` yields an
injective order that names exactly the rows there are *whatever order was stored*
(this is why the state survives a half-written `savePanelMeta`), and that `Issue`
sends a well-typed command.

### A session of the tabs

The second half of `TabsBloc_proofs` (the first six) and `TabsDisk_proofs` (the last three, which
are about memory and disk) prove, for any number of tabs, panels, sends, events and failing
storage commands and under the assumption `SessionsWellKept`:

- `TabsOpenOrClosedOnce`: `SessionSpec => []OpenOrClosedOnce`
- `ActiveTabsAreShown`: `SessionSpec => []ActiveTabShown`
- `SendingHasAnOwner`: `SessionSpec => []SendingHasOwner`
- `TimelinesNewestFirst`: `SessionSpec => []HistoryNewestFirst`
- `OnlyAwaitedAnswers`: `SessionSpec => AnswersOnlyWhileSending`
- `ReopeningRestores`: `SessionSpec => ReopenRestores`
- `StaleTabsAreTracked`: `SessionSpec => [](faults <= 1 => StaleTabIsTracked)`
- `SettledTabsDoSurvive` and `QuietDiskMatches`, about `SessionHistorySpec`, below

`SessionSpec` is `Spec` without kills, which is where these properties end: a kill between
the two writes of a move leaves a tab in two panels for good (section 4).  So the disks a
session starts from are limited too.  `SessionsWellKept` says that each is one an earlier
session left, with every stored tab in at most one panel, once, and with timelines in
order.  First runs, stored sessions and the old layout satisfy it: `MCTabs` assumes it of
all the instances' disks, so TLC evaluates it.

All of this hangs together, and `IInv /\ SInv` is inductive.  `SInv` says

- **every tab is in one place** (`Once`): the tabs of a strip are distinct, strips have
  none in common, and a panel with tabs shows one of its own;
- **an open tab is SENDING exactly as long as its send is waited for** (`OpenTabsOK`): its
  handle is there and was not triggered; and *the timeline of a tab, open or closed, is older
  than the send that owns it* (`Good`), so that an answer which is let through goes
  to the front of a timeline of older ones, in whichever order answers come.  The code orders
  by arrival and never compares;
- **a closed tab is nobody's** (`ClosedTabsOK`): it is open nowhere, once on the stack, at
  rest and without a handle.  This is why an answer of a send from before the closing
  finds no tab that waits when the tab is reopened;
- **a handle belongs to a send that runs** (`RunsOK`), and no two sends have the same number;
- **what is being loaded has not been touched** (`LoadingOK`).  Input during loading opens
  tabs while the worker reads the stored ones; that the stored tabs can be put beside them
  rests on their ids being older than every id handed out since (`DiskKept` while the read
  of the panels waits, `FoundKept` while that of the active panel does) and on there being
  only one of these reads.

The handlers have few forms, and one lemma per form shows that it preserves `SInv`.  In
memory, tabs change places (`Rearranged`), tabs are closed (`TabsGone`), or some are shown in
a new version or come up, new or from the stack (`MemoryStep`).  In the queue, an event adds
commands (`Grows`), or the worker takes the first and its handler goes on (`Shifts`).
A lemma per action brings the action into its forms.

`StaleTabIsTracked` is about memory and disk, and needs an invariant of its own, `TInv`, about
every command that waits in the queue.  Of each open tab it says (`Tracks`) that one of
three things holds:

- the tab is on the dirty set;
- no command is about it, and its row, if there is one, is the tab as it is shown (`Clean`);
- the *last* command about it writes it as it is shown (`OnItsWay`), and the failure of
  this command would do no harm: it comes from a flush, which puts the tab back on the
  dirty set, or there will be no row when it is due (`GoneBefore`), or a command has failed already.

The third is where the invariant comes from.  A tab that is opened is written outside
any flush, so the failure of that write is only logged.  It leaves no stale row because the tab
never had one, or because it is reopened and a deletion precedes the write in the queue.  So a
second conjunct says, while nothing has failed, that *no row of a closed tab will be left* when the
queue has been worked off (`Gone`), which is what ties the stack of closed tabs to the queue.
That is also why a second failure ends the theorem, and why TLC refutes the property for
`MaxFaults = 2`: a deletion that fails, then the write of the reopened tab, and the row shows what
was there before the closing.  The rest of `TInv` are facts about what handlers have left (`LateRests`: only the first
command of a handler, or a flush, is about rows of tabs), about ids (`Numbered`), and about a
session that is being loaded: no command is about the rows that are read (`ReadsClean`), so that the
tabs restored are those on disk.

Sequences of commands only change at their ends: lemmas say what a command that is
appended (`AppendFollowed`), executed (`HeadExecuted`) or lost (`HeadFailed`) does to all
of these at once, so that an action only has to be brought into one of four forms (`Moves`, `Opens`,
`Closes`, `Edits`) or be a step of the worker.

The next theorem is about kills, although no step of a session is one:

- `SettledTabsDoSurvive`: `SessionHistorySpec => [](faults = 0 => SettledTabsSurvive)`

*Every* disk of a session is one that a kill would leave.  A tab has settled once its place
has reached the disk (`TabsHistory`); from then on until it is closed, the theorem says, each
of these disks has the tab's row and a panel that lists it.  So a move writes the target
first, a removed panel's tabs are taken over before its row goes, and a reopening undoes
a deletion that may still be on the way.  The induction is over all that the worker will make
of the disk: `Safe` says of each tab

- that it has a row and some row of a panel lists it after *every* prefix of the queue
  (`ListedFrom`, `HasRow`), if it has settled, and from the k-th command on, if the k-th will
  settle it (`Promised`): that is, lists it in a panel that is shown, with no deletion after it;
- that the row of the panel that shows the tab is the one that lists it when the queue has
  been worked off, so that what a later command takes from another panel's row does no harm.

Prefixes are what makes this work: an event appends commands at the end, the worker takes one
from the front, and each case of `Safe` looks at one end only.  Besides `Safe`, `PlacesOK` says
that no handler has a row left that it worked out before it waited (`MildQueue`: all of them
work them out when they get there, which is what the class comment asks for), that no
command is about a panel being loaded (`ReadsAside`), and that the session was stored before
(`StoredBefore`).  The last is the assumption `SessionsStored`, which `MCTabsHistory`
has TLC evaluate: without it the first start breaks the property, as section 4 says.  `faults = 0`
is needed as well: a move whose first write fails and whose second succeeds leaves the tab listed
nowhere.

The last theorem is about everything there is on disk:

- `QuietDiskMatches`: `SessionHistorySpec => [](faults = 0 => DiskMatchesWhenQuiet)`

It is about the worker when it has nothing left to do, so the invariant, `QuietOK`, has to
say of every queue what the disk will be once it has been worked off.  That depends on commands
that wait *and on the steps their handlers have left*, whose commands are worked out only
when their turn comes.  What keeps the induction possible is that every register (the row of
one panel, the order, the active panel) is written last by something known:

- `RowDue`: either the last handler that has a step about panel `p` left will write its row as
  it is *by then* (`livePanel`, or `deletePanel` for a panel that is gone), or no handler has
  one and the last command that writes the row writes what is shown, or none writes it and the
  row is right as it is (`Lasts`);
- `MetaDue`: the same for the order and the active panel.  Any handler that has `_persistPanelMeta`
  left is enough, since it will write what both are by then; `savePanelMeta` is two
  writes, so the two registers are told apart;
- `TabsDue`: a tab that is not open will have no row.  That an open one has its row is
  `Safe`, and that the row is up to date or the tab dirty is `TInv`.

This is the class comment of `tabs_bloc.dart` ("persist the live panel after any await") made
precise.  Each event has to send, or leave to do, what it has made necessary (`Logs`, with a lemma
per event); a step of the worker turns a step left over into a command that
writes what is shown at that moment (`Serves`); and no handler has more than one step
about a panel left, its first (`Brief`).

Two assumptions delimit it.  `SessionsWhole` says that the disk was left by a session that had
nothing more to write: its order names every panel, its active panel exists, and its tabs are
those its panels list.  A first run is not among these, and breaks the property (section 4).
`EarlyInput = FALSE` says that the user waits for the session to be loaded: section 4 has the
instance that breaks the property otherwise.  `MCTabsHistory` has TLC evaluate the first, and
the run `session`, on which the theorem is also checked, satisfies both.

### The send pipeline

`SendPipeline_proofs` proves, for any sets of tabs and runs and any number of
failures that satisfy `PipelineAssumption` (runs are numbers, `NoRun` is none of
them, the bound is a number):

- `TypeCorrect == Spec => []TypeOK`
- `NobodyLosesItsTab == Spec => []OnlyStoppedRunsGiveUp`
- `RequestsCanBeRepeated == Spec => []RequestUsesSavedPatch`
- `PipelineImplementsRuns == Spec => Implements`

The inductive invariant `IInv` adds to these

- **who owns a tab** (`Owners`): a run that is under way and was not cancelled holds
  both the registry entry and the handle of its tab; an entry belongs to a run of
  that tab that is under way; an entry without a handle is that of a cancelled
  run.  The code never states the second and third, and the first depends on them:
  `finish()` frees a tab only for the run it finds there;
- **order** (`Ordered`): what a run has set off is not beyond its stage;
- **who waits** (`Waiting`): every queued command has a run that waits for it and for
  no other, so that the answer of the head of the queue goes to the right `await`;
- **what is saved** (`Patched`): nothing before the patch, and from the request on the
  request agrees with the disk.

`Stage`, `Execute` and `Fail` have some twenty outcomes between them, but only six
*forms*: a run ends, asks the worker, starts a script, sends its request with or
without a patch, or gets its answer.  `NextForms` says so, and each conjunct of
`IInv` is preserved form by form, not action by action.  For the refinement, each
form maps to `Act`, `End` or a stutter of `Runs`, and each act of the user to `Begin`, `Stop`
or a stutter.

### The storage connection

`StorageConnection_proofs` proves, for any sets of calls and watches, any number of
deaths of the worker and of events (`ConnectionAssumption`: calls and watches are
different things, `NoId` is neither, the bounds are numbers):

- `TypeCorrect == Spec => []TypeOK`
- `OrderIsKept == Spec => []FirstComeFirstServed`
- `EverybodyIsTold == Spec => []NobodyLeftBehind`
- `NothingIsWrittenLater == Spec => DisposedMeansQuiet`

`NobodyLeftBehind` speaks of a connection that was disposed of; whether a call waits
then is decided long before, by the order of the messages.  A connection closed by
the worker's answer settles no pending call: it is enough only because every such
call was answered earlier.  The inductive invariant says where the answer of each
waiting call *is*:

- **Awaited**: it is still asked for in the command port, or a reply for it is on its
  way *before* any message that ends the connection, or the worker is dying and the
  end itself will fail it;
- **nothing comes after a close** (`CloseComesLast`): the UI isolate sends nothing after
  `close()`, and the worker answers a close only when the port is empty;
- **a worker that is gone leaves no commands** and, unless the connection was disposed
  of, the notice of its death (`Gone`);
- **order** (`Ordered`): the calls served are a prefix of those sent, and the commands
  that wait are the rest, in order.  The correspondence is stated with a function that
  counts the calls ahead of each waiting command, because the filter of a sequence is
  recursive and the provers know nothing of it;
- **quiet** (`Quiet`): once disposed, both ports are empty.

The actions differ little in what they do to the ports: one sends, one takes, one
replies, one empties.  The lemmas follow those forms (`SendKeepsPorts`,
`TakeKeepsWaiting`, ...), and `UserKeeps`, `WorkerKeeps` and `UIKeeps` show which form each
action has.

### The script runtime

`ScriptRuntime_proofs` proves, for any finite number of calls (`ScriptAssumption`):

- `TypeCorrect == Spec => []TypeOK`
- `NoWakeUpIsLost == Spec => []NobodyWaitsForAFreeSlot`
- `ControlsAreFreedLast == Spec => []ControlsOutliveTheirUsers`
- `ReportsAreTrue == Spec => []StatusTellsWhy`
- `NothingRunsAfterClose == Spec => []CloseDrains`

The inductive invariant `IInv` says

- **what goes together** (`Kept`): a call is in its `try` block exactly as long as it has a
  live control block, a stopper and an engine; its cancellation would stop it only then,
  and would wake it only while it is in the queue;
- **who waits** (`Queued`): a call whose future waits in the queue hears of its
  cancellation, and one that was stopped is among those that are going on already;
- **whom a free slot is for** (`Handed`): if somebody waits, both slots are taken, or
  everybody is being told to go, or exactly one slot is free *and exactly one call is going
  on that was not stopped and will take it*.  This is the reason why one `complete` per
  freed slot suffices: a call that was woken and then cancelled could swallow the
  wake-up, but between the two no turn can begin;
- **the slots are those of the calls that took one** (`Counted`), those included that found
  no engine and never gave theirs back;
- **how far `close()` is** (`Draining`), and **what the engine reports** (`Told`).

What `Execute` and `Resume` do to a call has three forms: it returns, joins the queue or
takes a slot.  `ExecuteMoves` and `ResumeMoves` show that, and each conjunct is
preserved form by form (`MoveTyped`, `MoveHanded`, ...).

### The realtime connections

`RealtimeBloc_proofs` proves, for any finite set of tabs and any number of connections,
frames and events (`RealtimeAssumption`):

- `TypeCorrect == Spec => []TypeOK`
- `SocketsAreAccountedFor == Spec => []NoLeak`
- `LiveConnectionsAreShown == Spec => []LiveIsShown`
- `ClosedTabsAreForgotten == Spec => []ReportedTabsForgotten`
- `NothingIsLost == Spec => []NothingLost`

The first holds of every behaviour; the other four speak of tabs that were not reopened
after they were reported closed, and section 4 shows that this is what limits them, not the
proof.  The inductive invariant `IInv` says

- **connections are in one place** (`Wired`): no two tabs have the same, and one that a
  waiting handler is closing, or that `close()` has still to close, is no tab's;
- **the loop of `_onTabsClosed` comes to each of its tabs once** (`Looping`), and what is said
  of one tab is said of each that was never reopened:
- **a tab is reported once** (`Reported`): a reported tab is neither open nor in `_lastAlive`, and
  is in the hands of one loop, which has it before it or has removed its epoch;
- **epochs tell teardowns apart** (`Owned`): no two handlers that wait for a socket of one tab
  have the same epoch, and while one of them has the current epoch the tab has no connection.
  This is why a connect may store its connection without looking whether there is one.  An
  epoch that somebody has kept is at least 1 and at most the tab's, *unless the tab's was
  removed* (`Kept`): the removal is what makes epochs start again, and why a reopened tab can
  break it;
- **frames that wait are those of the connection there is** (`Buffered`): pending frames have a
  connection, and a batch is handed out under an epoch; if it is current the connection is
  still there, and if it ends with a close frame that connection has ended.  Without it a
  batch handled late could show a live connection as disconnected;
- **what is shown** (`Shown`), which is `LiveIsShown` and `ReportedTabsForgotten` for one tab.

The loop over closed tabs changes any number of tabs in one turn.  It is brought into two
forms, `Finishes` and `Stops`, which say of each tab what has become of it, and `LoopKeeps` shows
both preserve the invariant, wherever the loop started.  A tab that is not touched is dealt
with by `CalmTab`, one that is torn down by `BumpedTab`, one the loop has passed by `PassedTab`.

`NothingLost` needs more, and `LogsInv` is the invariant beside `IInv` that gives it.  For each
tab that was not reopened (`Logged`):

- *all that has arrived for its connection* (the log, the frames of the batches that will be
  taken, and the pending ones, in this order) *is an end of what the connection has delivered,
  and all of it unless the log is full* (`Chained`).  `NothingLost` says this of the capped
  frames only, which is not inductive: the cap acts on the log, not on the whole;
- no frame is pending without a connection, and every batch on its way has an epoch that a
  connection of the tab had (`Kept`, now also while the bloc is closing);
- *a handler whose epoch is current will find no batch that is* (`Stale`): so the log it
  starts stays empty until the new connection delivers.  This is what the bump in front of
  every await is for.

Each step does one of six things to a tab (`LogsKeep`, `LogsDrop`, `LogsStart`, `LogsFrame`,
`LogsFlush`, `LogsBatch`), and a lemma per handler says which.  The frames on their way are a
concatenation of sequences, which the community modules define recursively.  What it does
when a batch is appended or taken (`FlattenAppend`, `FlattenHead`) is proved from that
definition by induction over the places of the sequence, in the form the provers can use: a
set of numbers that holds 0 and with each its successor holds them all (`SetInduction`, from the
least number outside it).

### The workspace mirror

`WorkspaceMirror_proofs` proves, for any number of edits, operations, reloads and
faults (`WorkspaceAssumption`: the bounds are numbers and `NoForest` is no forest):

- `TypeCorrect == Spec => []TypeOK`
- `MirrorKeepsOut == Spec => []GitOwnsTheTree`
- `NoForestOnAnotherTree == Spec => []MirrorsItsOwnTree`
- `GitFindsTheEdits == Spec => []GitSeesFlushedEdits`
- `ExamplesSurvive == Spec => []LocalOnlySurvives`

The inductive invariant `IInv` says

- **who holds the gate** (`Gated`): `gates` is the number of reads and yields under way, and
  one more while git is on the tree.  `_suspendCount` is a counter that several parties
  raise and lower; nothing in the code says that they balance.  While it is raised
  nothing is pending and nothing is being written;
- **which tree a read is of** (`ReadsOfThisTree`): the one on the disk, unless git has
  rewritten it under a read, or stopped at a conflict;
- **which tree a forest is of** (`OfThisTree`): with the same exceptions, and that of a
  tile that was gone, what is on its way to the disk is of the tree there; and so is the
  forest in memory, *or* the root is blocked, *or* a read is under way that no closed tile
  can call off, the listener's.  That disjunction is what makes the property inductive: a
  listener's read ends by installing the new tree or by blocking the root, and each
  way out of a block installs a tree or sets `astray`.  `astray` is cleared by a read
  that finds all others to be of the tree on disk, from where the argument
  starts again;
- **where the edits are** (`Edited`): with the timer, or in the last write that waits, or on
  disk, unless the mirror has failed, dropped them or a newer tree has replaced them;
  and once the operation has flushed, in *every* write that waits;
- **where the examples are** (`Examples`): in the forest or in `_localOnlyStore`, never in
  both and never in neither;
- and, for the types, that generations, reads and yields stay within their bounds
  (`Budget`).

### The environments

`EnvironmentEditing_proofs` proves, for any variables and values and any number of
edits and patches (`EditingAssumption`: bounds are numbers, there is a value, `Unset` is
none and `NoEnv` is no environment):

- `TypeCorrect == Spec => []TypeOK`
- `ScriptsKeepTheirVariables == Spec => []IndependentKeysSurvive`
- `DeletedStaysDeleted == Spec => []NeverRecreated`

Both properties compare the ledger with what will be stored once the commands on
their way have been executed, which is a fold over a sequence of any length: it
changes at its far end when a command is sent and at its near end when one is
executed.  The invariant states the fold without induction over data: *there is a
function that plays the waiting commands one by one, and what any such function ends
with agrees with the ledger in every key that was not edited* (`Foretold`).  A command that
is sent extends the function by one place, and one that is executed shifts it; the
induction over the sequence becomes the induction over time that the rule of
invariance gives.  Two more conjuncts carry it: the editor differs from what it was
built with in edited keys only (`Screens`), and so does every update on its way from
the copy it was made against (`Updates`), so that the three-way merge leaves every
other key to what the worker has by then.

## 6. What is only model-checked, and what is not modelled

Only model-checked: liveness (`EditsReachDisk`, `GhostsVanish`, `SendsEnd`,
`EveryCallReturns`, `EveryCallAnswered`, `MirroringComesBack`, `EditorCatchesUp`), which is
outside what the prover handles; and `ExitSavesEdits`, which relates the disk at the end of the
process to what was shown when the exit was asked for, through a step, `exit` or the
loop of `close()`, that sessions without an end do not have.

Not modelled, with the reason:

- *MCP sessions*: epochs as those of the realtime connections, whose model shows
  what they are worth; a request-and-answer protocol on top.
- *Collections*: the tree operations are pure functions with unit tests.  The
  debounced save is a chain with a flag like the mirror's, which is modelled.
- *Merge conflicts*: the three-way merge is a pure function with unit tests; a
  conflict stops the operations of the workspace model, and `NeverOntoAnotherTree` says where
  that hurts.
- *History*: what the worker does is sequential; when a run adds a row, and that
  it adds one at most, is part of the pipeline.
- *Reviews, settings, updates*: one thing at a time, or single fields.
- *Chaining, suggestions, imports, exports, code generation*: conversions of text.
- *Network and cookies*: I/O behind the dio package; its outcome is the pipeline's
  `answer`.
- *QuickJS*: vendored.  It is nearly all of the repository's C, and not this
  program's own logic, which is Dart but for `bridge.c`; `ScriptRuntime` models that and takes the
  engine as what it may do to the bridge.
- *Widgets and themes*: they dispatch the events the models take as input.

What the modelled components leave out is said in section 2 and, per component,
in `PROJECT.json`.

## 7. The plan

| Order | Modules | About | Abstract specification | Theorems |
|---|---|---|---|---|
| 1 (done) | `TabStorage`, `TabsBloc`, `TabsHistory` | tabs, panels, storage, exit | - | typing, sound panels, one place per tab, sends and timelines, no edit forgotten, settled tabs survive, a quiet disk is what is shown (done); next `ExitSavesEdits` |
| 2 (done) | `Runs`, `SendPipeline` | the stages of a run, supersession, cancellation, patches, history rows | `Runs` | the pipeline implements `Runs` (done) |
| 3a (done) | `RealtimeBloc` | realtime connections, their epochs, the listener | - | no leak, live is shown, closed is forgotten, no frame lost (done) |
| 4 (done) | `WorkspaceMirror` | mirror, suspension, git operations and reload on one tree | - | one tree, no edit lost, examples (done) |
| 5 (done) | `EnvironmentEditing` | the dialog, scripts and the worker's merge | the ledger of what was asked for | independent keys, deletion (done) |
| 6 (done) | `StorageConnection` | pending calls, death of the worker, close | - | order, answers, quiet after disposal (done) |
| 7 (done) | `ScriptRuntime` | slots, cancellation, control blocks | - | controls, wake-ups, verdicts, draining (done) |
| 3b | `McpBloc` | epochs of MCP sessions | a tab has one session, and only its answers reach it | answers belong to the current epoch |
| 8 | `CollectionsSave` | the debounced save with failures | a register whose last write wins | - |
| 9 | `ThreeWayMerge`, `CookieStore`, `ReviewQueue` | pure algorithms against reference definitions; sequential review mutations | - | - |

The number of configurations is kept small on purpose, so that all of them are
run on every change: a new module takes one run for its safety and its liveness
together, and instances that show a property violated are kept in the table of
section 4.
