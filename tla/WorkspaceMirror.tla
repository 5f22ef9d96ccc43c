--------------------------- MODULE WorkspaceMirror ---------------------------
(***************************************************************************)
(* The collections and their workspace folder: the debounced mirror        *)
(* (workspace_sync_service.dart), the git operations that own the folder   *)
(* for a while (git_branch_service.dart, git_sync_bloc.dart) and the       *)
(* reloads (branch_sync_listener.dart, workspace_settings_tile.dart).      *)
(*                                                                         *)
(* A forest is the generation of the tree it was read from, the number of  *)
(* edits it holds, and one request of it: absent, bare, or full, that is,  *)
(* with the saved examples that the files leave out.                       *)
(***************************************************************************)
EXTENDS Naturals, Sequences

CONSTANTS
  NoForest,
  MaxEdits, MaxOps, MaxFaults   \* edits of the user; git operations and
                                \* reloads; writes, reads and git commands
                                \* that fail

ASSUME WorkspaceAssumption ==
  /\ MaxEdits \in Nat /\ MaxOps \in Nat /\ MaxFaults \in Nat
  /\ NoForest \notin [gen : Nat, edit : Nat, node : {"absent", "bare", "full"}]

VARIABLES
  mem,      \* state.collections of CollectionsBloc
  disk,     \* the files of the workspace
  armed,    \* _pendingForest, with its timer
  chain,    \* the forests behind _inFlight; the first is being written
  failed,   \* _lastMirrorFailed
  gates,    \* _suspendCount
  blocked,  \* the root is in _reloadBlockedRoots
  op,       \* the operation under way: its kind, its step and, a ghost, the
            \* number of edits it found
  waiting,  \* how many reloads of the settings tile wait for their flush
  reads,    \* disk reads under way: the tree each began on, and whether the
            \* settings tile waits for it
  yields,   \* reloads that have replaced the forest and yield a turn
  paused,   \* a pull or the pop of a stash stopped at a conflict
  kept,     \* _localOnlyStore holds the examples of the request
  saved,    \* ghost: the user has saved examples, and not deleted them
  edits,    \* ghost: edits made
  dropped,  \* ghost: the last edit whose mirror was dropped
  missed,   \* ghost: the last one dropped not by the suspension of git alone
  void,     \* ghost: the last edit that a newer tree replaced
  astray,   \* ghost: how the forest may have parted from the tree
  opsLeft, faultsLeft

syncVars == <<armed, chain, failed, gates>>
bounds   == <<opsLeft, faultsLeft>>
loads    == <<waiting, reads, yields>>
drops    == <<dropped, missed>>
ghosts   == <<edits, drops, void, astray>>
vars == <<mem, disk, syncVars, blocked, op, loads, paused, kept, saved, ghosts, bounds>>

Suspended == {"switch", "pull", "stash", "pop"}       \* _runOnTree
Mutating  == Suspended \cup {"create", "push"}
Idle      == [kind |-> "none", step |-> "idle", seen |-> 0]

Reads == [gen : 0..(MaxOps + 1), tile : BOOLEAN]
Forests == [gen : 0..(MaxOps + 1), edit : 0..MaxEdits, node : {"absent", "bare", "full"}]

TypeOK ==
  /\ mem \in Forests /\ disk \in Forests
  /\ armed \in Forests \cup {NoForest}
  /\ chain \in Seq(Forests) /\ reads \in Seq(Reads)
  /\ waiting \in 0..MaxOps /\ yields \in 0..(MaxOps + 1)
  /\ failed \in BOOLEAN /\ blocked \in BOOLEAN /\ paused \in BOOLEAN
  /\ kept \in BOOLEAN /\ saved \in BOOLEAN
  /\ gates \in 0..(MaxOps + 1)
  /\ op \in [kind : Mutating \cup {"none"}, seen : 0..MaxEdits,
             step : {"idle", "flush", "status", "flushAgain", "git", "refresh"}]
  /\ edits \in 0..MaxEdits /\ void \in 0..MaxEdits
  /\ dropped \in 0..MaxEdits /\ missed \in 0..MaxEdits
  /\ astray \subseteq {"skipped", "crossed"}
  /\ opsLeft \in 0..MaxOps /\ faultsLeft \in 0..MaxFaults
  \* what the files can hold, and what suspension leaves
  /\ disk.node # "full"
  /\ gates > 0 => armed = NoForest

\* The app starts with what Hive held and imports the files, mirroring
\* suspended (_runBootImport): git may have been at work meanwhile.
Init ==
  /\ mem \in [gen : {0}, edit : {0}, node : {"absent", "bare", "full"}]
  /\ disk \in [gen : {1}, edit : {0}, node : {"absent", "bare"}]
  /\ armed = NoForest /\ chain = <<>> /\ failed = FALSE
  /\ gates = 1 /\ blocked = FALSE
  /\ op = Idle
  /\ waiting = 0 /\ reads = <<[gen |-> disk.gen, tile |-> FALSE]>> /\ yields = 0
  /\ paused = FALSE
  /\ kept = FALSE
  /\ saved = (mem.node = "full")
  /\ edits = 0 /\ dropped = 0 /\ missed = 0 /\ void = 0 /\ astray = {}
  /\ opsLeft = MaxOps /\ faultsLeft = MaxFaults

Flushing == op.step \in {"flush", "flushAgain"}

\* A drained flush goes on in a microtask: before any timer or I/O or the user.
Turn == ~((Flushing \/ waiting > 0) /\ chain = <<>>)

GitOnTree == op.step = "git" /\ op.kind \in Suspended

Fault(happens) ==
  IF happens THEN faultsLeft > 0 /\ faultsLeft' = faultsLeft - 1 /\ UNCHANGED opsLeft
             ELSE UNCHANGED bounds

-----------------------------------------------------------------------------
(* The mirror. *)

\* The mirror of an edit is dropped, by git's suspension alone or not.
Drop(edit, git) ==
  /\ dropped' = edit
  /\ missed' = IF git THEN missed ELSE edit

\* scheduleMirror, which the listener calls for every change of the forest.
ScheduleMirror(forest) ==
  IF gates > 0 \/ blocked
  THEN /\ armed' = IF gates > 0 THEN NoForest ELSE armed
       /\ Drop(edits', GitOnTree /\ gates = 1)
  ELSE armed' = forest /\ UNCHANGED drops

\* The user edits the forest, saves an example or deletes the examples.
Edit ==
  /\ Turn /\ edits < MaxEdits
  /\ edits' = edits + 1
  /\ \E node \in IF mem.node = "absent" THEN {"absent"} ELSE {"bare", "full"} :
       /\ mem' = [mem EXCEPT !.edit = edits', !.node = node]
       /\ saved' = IF mem.node = "absent" THEN saved ELSE node = "full"
  /\ ScheduleMirror(mem')
  /\ UNCHANGED <<disk, chain, failed, gates, blocked, op, loads, paused, kept, void,
                 astray, bounds>>

\* The timer of the debounce: _startMirror.
TimerFires ==
  /\ armed # NoForest
  /\ chain' = Append(chain, armed)
  /\ armed' = NoForest
  /\ UNCHANGED <<mem, disk, failed, gates, blocked, op, loads, paused, kept, saved,
                 ghosts, bounds>>

\* The files leave the examples out.
Written(forest) == [forest EXCEPT !.node = IF @ = "full" THEN "bare" ELSE @]

\* _mirror of the forests whose turn comes while mirroring is suspended: dropped.
Remaining == IF gates > 0 THEN <<>> ELSE Tail(chain)

\* The flag is sticky until a write succeeds.
Record(ok) == failed' = ~ok

\* A write ends; one that fails may have written nothing.
MirrorEnds ==
  /\ chain # <<>>
  /\ chain' = Remaining
  /\ \E ok \in BOOLEAN :
       /\ Fault(~ok)
       /\ Record(ok)
       /\ disk' = IF ok THEN Written(Head(chain)) ELSE disk
  /\ UNCHANGED <<mem, armed, gates, blocked, op, loads, paused, kept, saved, ghosts>>

-----------------------------------------------------------------------------
(* The operations of GitSyncBloc, one at a time (_dropWhileBusy).          *)

\* Mutant: flushPending leaves the forest to its timer.
TakeNothing == UNCHANGED <<armed, chain>>

\* flushPending begins: the armed forest joins the chain.
TakePending ==
  /\ armed' = NoForest
  /\ chain' = IF armed = NoForest THEN chain ELSE Append(chain, armed)

StartOp ==
  /\ Turn /\ op = Idle /\ ~paused /\ opsLeft > 0
  /\ opsLeft' = opsLeft - 1 /\ UNCHANGED faultsLeft
  /\ \E kind \in Mutating : op' = [kind |-> kind, step |-> "flush", seen |-> edits]
  /\ TakePending
  /\ UNCHANGED <<mem, disk, failed, gates, blocked, loads, paused, kept, saved, ghosts>>

\* suspendMirroring, by git or by a reload
Suspend(git) ==
  /\ gates' = gates + 1
  /\ armed' = NoForest
  /\ IF armed = NoForest THEN UNCHANGED drops ELSE Drop(edits, git)

\* The drained flush failed: nothing is done. (_flushOrThrow)
FlushFails ==
  /\ Flushing /\ chain = <<>> /\ failed
  /\ op' = Idle
  /\ UNCHANGED <<mem, disk, syncVars, blocked, loads, paused, kept, saved, ghosts,
                 bounds>>

\* A switch looks at the status first, in isDirty; pull and stash suspend
\* mirroring and run git, create and push run it.
FlushSucceeds ==
  /\ Flushing /\ chain = <<>> /\ ~failed
  /\ LET looks == op.kind = "switch" /\ op.step = "flush"
     IN  /\ op' = [op EXCEPT !.step = IF looks THEN "status" ELSE "git"]
         /\ IF ~looks /\ op.kind \in Suspended
            THEN Suspend(TRUE) ELSE UNCHANGED <<armed, gates, drops>>
  /\ UNCHANGED <<mem, disk, chain, failed, blocked, loads, paused, kept, saved, edits,
                 void, astray, bounds>>

\* Mutant: one flush is thought to be enough.
GoOn == op' = [op EXCEPT !.step = "git"] /\ Suspend(TRUE) /\ UNCHANGED chain

\* switchTo flushes again.
FlushAgain ==
  /\ op' = [op EXCEPT !.step = "flushAgain"]
  /\ TakePending
  /\ UNCHANGED <<gates, drops>>

\* git status: uncommitted changes refuse the switch, as does a failure.
StatusRead ==
  /\ op.step = "status"
  /\ \/ /\ op' = Idle
        /\ UNCHANGED <<armed, chain, gates, drops>>
     \/ FlushAgain
  /\ UNCHANGED <<mem, disk, failed, blocked, loads, paused, kept, saved, edits, void,
                 astray, bounds>>

\* create and push leave the tree alone, whatever becomes of them.
GitEndsBeside ==
  /\ op.step = "git" /\ op.kind \in {"create", "push"}
  /\ op' \in {Idle, [op EXCEPT !.step = "refresh"]}
  /\ UNCHANGED <<mem, disk, syncVars, blocked, loads, paused, kept, saved, ghosts,
                 bounds>>

\* resumeMirroring
Resume == gates' = gates - 1

\* Mutant: the gate is not opened when git throws.
LeakGate == UNCHANGED gates

\* The finally block of withMirroringSuspended.
Unwind == Resume

\* Git throws before it has touched the tree.
GitThrows ==
  /\ GitOnTree
  /\ Fault(TRUE)
  /\ Unwind
  /\ op' = Idle
  /\ UNCHANGED <<mem, disk, armed, chain, failed, blocked, loads, paused, kept, saved,
                 ghosts>>

NewTree ==
  disk' \in [gen : {disk.gen + 1}, edit : {edits}, node : {"absent", "bare"}]

\* Git has rewritten the tree. The resumption, the new reloadToken and the
\* suspension by the listener that reads the tree happen in one turn.
HandOver ==
  /\ gates' = (gates - 1) + 1
  /\ reads' = Append(reads, [gen |-> disk'.gen, tile |-> FALSE])
  /\ UNCHANGED <<waiting, yields>>

GitEnds ==
  /\ GitOnTree
  /\ NewTree
  /\ HandOver
  /\ op' = [op EXCEPT !.step = "refresh"]
  /\ astray' = IF reads = <<>> THEN astray ELSE astray \cup {"crossed"}
  /\ UNCHANGED <<mem, armed, chain, failed, blocked, paused, kept, saved, edits, drops,
                 void, bounds>>

\* A conflict stops a pull, or the pop of a stash, which throws: mirroring
\* resumes and nothing is read. What the user does then, with the resolver or
\* with git, is not part of this module.
GitConflicts ==
  /\ op.step = "git" /\ op.kind \in {"pull", "pop"}
  /\ NewTree
  /\ paused' = TRUE
  /\ Resume
  /\ op' = IF op.kind = "pull" THEN [op EXCEPT !.step = "refresh"] ELSE Idle
  /\ UNCHANGED <<mem, armed, chain, failed, blocked, loads, kept, saved, ghosts, bounds>>

\* _refresh, and the fetches and loads that find the bloc idle.
RefreshEnds ==
  /\ op.step = "refresh"
  /\ op' = Idle
  /\ UNCHANGED <<mem, disk, syncVars, blocked, loads, paused, kept, saved, ghosts,
                 bounds>>

-----------------------------------------------------------------------------
(* The reload: sync.read, overlayLocalOnly, ReplaceCollections. *)

\* RELOAD FROM DISK: there at any moment, whatever git does, and flushes first.
StartReload ==
  /\ Turn /\ opsLeft > 0
  /\ opsLeft' = opsLeft - 1 /\ UNCHANGED faultsLeft
  /\ waiting' = waiting + 1
  /\ TakePending
  /\ UNCHANGED <<mem, disk, failed, gates, blocked, op, reads, yields, paused, kept,
                 saved, ghosts>>

\* The drained flush failed: nothing is reloaded.
ReloadFails ==
  /\ waiting > 0 /\ chain = <<>> /\ failed
  /\ waiting' = waiting - 1
  /\ UNCHANGED <<mem, disk, syncVars, blocked, op, reads, yields, paused, kept, saved,
                 ghosts, bounds>>

ReloadReads ==
  /\ waiting > 0 /\ chain = <<>> /\ ~failed
  /\ waiting' = waiting - 1
  /\ Suspend(FALSE)
  /\ reads' = Append(reads, [gen |-> disk.gen, tile |-> TRUE])
  /\ UNCHANGED <<mem, disk, chain, failed, blocked, op, yields, paused, kept, saved,
                 edits, void, astray, bounds>>

\* Mutant: the examples of a request that comes back stay in the store.
KeepAll(tree) == kept' = (kept \/ mem.node = "full")

\* _harvestLocalOnly and _pruneLocalOnlyStore: kept for an absent request only.
HarvestAndPrune(tree) == kept' = ((kept \/ mem.node = "full") /\ tree.node = "absent")

\* overlayLocalOnly fills in the examples of the live forest, and
\* reapplyLocalOnly those of the store.
Overlay(tree) ==
  IF tree.node = "bare" /\ (kept \/ mem.node = "full") THEN "full" ELSE tree.node

Replace(tree) ==
  /\ mem' = [gen |-> tree.gen, edit |-> edits, node |-> Overlay(tree)]
  /\ HarvestAndPrune(tree)
  /\ void' = edits

RemoveRead(i) ==
  /\ reads' = SubSeq(reads, 1, i - 1) \o SubSeq(reads, i + 1, Len(reads))
  /\ UNCHANGED waiting

\* The files as they were when the read began, or are now; of a tree that git
\* rewrites meanwhile, some files as they were and some as they are.
TreeRead(i) ==
  LET still == reads[i].gen = disk.gen /\ ~GitOnTree
  IN  [gen  : {reads[i].gen, disk.gen},
       node : IF still THEN {disk.node} ELSE {"absent", "bare"}]

\* The forest is replaced behind the closed gate, for one more turn. If the
\* tree is the one of every read, memory and disk have met again.
ReadEnds(i) ==
  /\ RemoveRead(i)
  /\ blocked' = FALSE
  /\ \E tree \in TreeRead(i) : Replace(tree)
  /\ yields' = yields + 1
  /\ astray' = IF \A j \in DOMAIN reads : reads[j].gen = disk.gen THEN {} ELSE astray
  /\ UNCHANGED <<disk, syncVars, op, paused, saved, edits, drops, bounds>>

\* The turn is over.
YieldEnds ==
  /\ yields > 0
  /\ yields' = yields - 1
  /\ Resume
  /\ UNCHANGED <<mem, disk, armed, chain, failed, blocked, op, waiting, reads, paused,
                 kept, saved, ghosts, bounds>>

\* The tile is gone when the files have been read: nothing is replaced, but the
\* root is no longer blocked.
ReadUnused(i) ==
  /\ reads[i].tile
  /\ RemoveRead(i)
  /\ blocked' = FALSE
  /\ Resume
  /\ astray' = IF blocked THEN astray \cup {"skipped"} ELSE astray
  /\ UNCHANGED <<mem, disk, armed, chain, failed, op, yields, paused, kept, saved, edits,
                 drops, void, bounds>>

\* Mutant: a failed read leaves the mirror as it was.
ReadFailsOpen == UNCHANGED blocked

\* Nothing may be written over files that could not be read.
Block == blocked' = TRUE

\* The forest is left as it is.
ReadFails(i) ==
  /\ Fault(TRUE)
  /\ RemoveRead(i)
  /\ Block
  /\ Resume
  /\ UNCHANGED <<mem, disk, armed, chain, failed, op, yields, paused, kept, saved,
                 ghosts>>

-----------------------------------------------------------------------------
Microtask == FlushFails \/ FlushSucceeds \/ ReloadFails \/ ReloadReads

System ==
  \/ Microtask
  \/ Turn /\ \/ TimerFires \/ MirrorEnds \/ StatusRead
             \/ GitEndsBeside \/ GitThrows \/ GitEnds \/ GitConflicts \/ RefreshEnds
             \/ \E i \in DOMAIN reads : ReadEnds(i) \/ ReadUnused(i) \/ ReadFails(i)
             \/ YieldEnds

Next == System \/ Edit \/ StartOp \/ StartReload

Spec == Init /\ [][Next]_vars

\* Timers fire; writes, reads and git commands end.
FairSpec == Spec /\ WF_vars(System)

-----------------------------------------------------------------------------
(* Properties. *)

\* While git rewrites the tree, and while a reload reads it, no mirror write
\* is under way or waiting, whatever timer fired during the flush.
GitOwnsTheTree == GitOnTree \/ reads # <<>> => chain = <<>>

MirroringIsOfThisTree ==
  /\ armed # NoForest => armed.gen = disk.gen
  /\ chain # <<>> => Head(chain).gen = disk.gen

\* A forest is mirrored onto another tree than the one it was read from only
\* after a conflict, a reload whose tile was gone, or a tree that git rewrote
\* under a reload; and no more once a later reload has found the tree at rest.
\* So no failed read, failed command, edit or timer ever does it alone.
MirrorsItsOwnTree == paused \/ astray # {} \/ MirroringIsOfThisTree

\* When git starts, the tree holds every edit that the operation found, but
\* those that were dropped when mirroring was suspended or blocked.
GitSeesFlushedEdits ==
  op.step = "git" =>
    \/ op.seen <= disk.edit
    \/ op.seen <= dropped
    \/ op.seen <= void

\* The examples, which no file holds, come back with their request however
\* often branches are switched, and deleted ones never do.
LocalOnlySurvives == mem.node # "absent" => (mem.node = "full") = saved

\* The gate always opens again and every operation and reload ends.
MirroringComesBack == []<>(gates = 0 /\ op = Idle /\ waiting = 0)

\* "running git over a tree that is missing the user's last edits would [...]
\* silently lose those edits": git finds every edit in the tree, but those made
\* while mirroring was blocked or a reload was under way.
GitSeesEveryEdit ==
  op.step = "git" /\ ~blocked =>
    op.seen <= disk.edit \/ op.seen <= void \/ op.seen <= missed

\* "the next debounced mirror would write the stale in-memory forest over the
\* files git just changed": not before a forest was read in its place.
BlockedUntilReloaded == paused \/ "crossed" \in astray \/ MirroringIsOfThisTree

\* "an edit made while the checkout runs would [...] write the old branch's
\* tree onto the new branch": nor does one made while the tree is read.
OldBranchStaysOff == paused \/ "skipped" \in astray \/ MirroringIsOfThisTree

\* "Hive must not be mirrored back onto a tree that something else owns right
\* now": nor onto one that a conflict has left to the user.
NeverOntoAnotherTree == astray # {} \/ MirroringIsOfThisTree
=============================================================================
