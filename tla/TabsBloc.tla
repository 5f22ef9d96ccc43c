------------------------------ MODULE TabsBloc ------------------------------
(***************************************************************************)
(* The bloc that owns the open tabs and the panels that group them.  Every *)
(* event handler runs on the UI isolate up to its first await; from there  *)
(* on its remaining storage writes go out one at a time, each when the     *)
(* storage worker has answered the one before, while the handlers of later *)
(* events run in between.  The queue holds, for every handler that waits,  *)
(* the command it waits for and the steps it has left.                     *)
(*                                                                         *)
(* The worker's execution of a command and the delivery of its answer are  *)
(* one step here: nothing the UI isolate does reads the disk, so a handler *)
(* that runs between the two could as well have run before both.           *)
(***************************************************************************)
EXTENDS TabStorage

CONSTANTS Sample,        \* the configuration of the first run's seed tab
          Sessions,      \* the disks a process may find when it first starts
          ClosedMax,     \* length of the reopen stack (10 in the code)
          HistoryLimit,  \* responses kept per tab (a user setting)
          MaxName,       \* bound: panel names the user types, as "Panel n"
          MaxEvents,     \* bound: events the user dispatches
          MaxFaults,     \* bound: storage commands that fail
          MaxCrashes,    \* bound: times the process is killed
          EarlyInput     \* may the user act before the session is loaded?

ASSUME TabsAssumption ==
  /\ Sample \in Configs
  /\ \A d \in Sessions : IsDisk(d)
  /\ ClosedMax \in Nat /\ HistoryLimit \in Nat /\ MaxName \in Nat
  /\ MaxEvents \in Nat /\ MaxFaults \in Nat /\ MaxCrashes \in Nat
  /\ EarlyInput \in BOOLEAN

VARIABLES disk,       \* the boxes (TabStorage)
          queue,      \* commands sent to the worker, with the steps to follow
          phase,      \* of the process: off, loading, ready, failed, closing
          order,      \* state.panels: the panel ids in display order ...
          panels,     \* ... and the panel of each
          active,     \* state.activePanelId
          closed,     \* _closedTabs, the reopen stack
          dirty,      \* _dirtyTabIds
          timer,      \* is _debounceTimer running?
          handle,     \* RequestManager._handles: the send that owns a tab
          cancelled,  \* sends whose cancel handle was triggered
          running,    \* sends whose handler has not returned
          nextTab, nextPanel, nextSend,  \* identifiers handed out so far
          events, faults, crashes        \* used up so far

memory  == <<order, panels, active>>
saving  == <<dirty, timer>>
sends   == <<handle, cancelled, running>>
idVars  == <<nextTab, nextPanel, nextSend>>
process == <<phase, faults, crashes>>
vars    == <<disk, queue, phase, order, panels, active, closed, dirty, timer,
             handle, cancelled, running, nextTab, nextPanel, nextSend,
             events, faults, crashes>>

Panel  == [name : Nat, strip : Seq(Tab), active : TabId \cup {NoTab}]
Closed == [tab : Tab, panel : PanelId, index : Nat \ {0}]

-----------------------------------------------------------------------------
(* Looking tabs and panels up. *)

Ids(strip) == {strip[i].id : i \in DOMAIN strip}

IsOpen(ps, t) == \E p \in DOMAIN ps : t \in Ids(ps[p].strip)

Position(strip, t) == SelectInSeq(strip, LAMBDA tab : tab.id = t)

\* The first panel, in display order, that shows tab t, and the tab itself.
Owner(ps, ord, t) ==
  ord[SelectInSeq(ord, LAMBDA p : t \in Ids(ps[p].strip))]

Found(ps, ord, t) ==
  LET strip == ps[Owner(ps, ord, t)].strip IN strip[Position(strip, t)]

Live(t) == Found(panels, order, t)

ActivePanel == IF active \in DOMAIN panels THEN active ELSE order[1]

\* _replaceTabAcrossPanels
Replaced(ps, tab) ==
  [p \in DOMAIN ps |->
     LET i == Position(ps[p].strip, tab.id)
     IN  IF i = 0 THEN ps[p]
         ELSE [ps[p] EXCEPT !.strip = ReplaceAt(@, i, tab)]]

\* The first free "Panel n", the name of panel p itself left out.
NextName(p) ==
  LET used == {panels[q].name : q \in DOMAIN panels \ {p}}
  IN  CHOOSE n \in 1..(MaxPanels + 1) :
        n \notin used /\ \A m \in 1..(n - 1) : m \in used

RowOf(panel) == [name   |-> panel.name,
                 ids    |-> [i \in DOMAIN panel.strip |-> panel.strip[i].id],
                 active |-> panel.active]

\* Mutant: the active panel is shown as it was stored.
EmitAsStored(ps, ord, act) ==
  panels' = ps /\ order' = ord /\ active' = act

\* Mutant: only a missing active panel falls back to the first one.
EmitUnlessMissing(ps, ord, act) ==
  /\ panels' = ps
  /\ order' = ord
  /\ active' = IF act \in PanelId THEN act
               ELSE IF ord = <<>> THEN NoPanel ELSE ord[1]

\* _derive: an unknown active panel falls back to the first one.
Emit(ps, ord, act) ==
  /\ panels' = ps
  /\ order' = ord
  /\ active' = IF act \in DOMAIN ps THEN act
               ELSE IF ord = <<>> THEN NoPanel ELSE ord[1]

-----------------------------------------------------------------------------
(* The steps of a handler that are only worked out when it gets there. *)

\* Mutant: the panel as it was before the await.
SnapshotPanel(p, row) == PutPanel(p, row)

\* _persistLivePanel: the row of the panel as it is at that moment, or the
\* snapshot when the panel has vanished.
LivePanel(p, row) == [kind |-> "livePanel", panel |-> p, row |-> row]

Meta       == [kind |-> "meta"]                     \* _persistPanelMeta
Flush(todo) == [kind |-> "flush", todo |-> todo]    \* rest of _flushDirtyTabs
SaveAll    == [kind |-> "saveAll"]                  \* the loop of close()
Exit       == [kind |-> "exit"]                     \* the process ends

\* getActivePanelId, sent by LoadTabs once getPanels has answered with the
\* panels found, a sequence of panels with their ids.
GetActive(found) == [kind |-> "getActive", found |-> found]

FoundOrder(found) == [i \in DOMAIN found |-> found[i].id]

FoundPanels(found) ==
  [p \in ToSet(FoundOrder(found)) |->
     found[SelectInSeq(found, LAMBDA f : f.id = p)].panel]

PutEvery(ord, ps) ==
  [i \in DOMAIN ord |-> PutPanel(ord[i], RowOf(ps[ord[i]]))]

Sent(step, ps, ord, act) ==
  CASE step.kind = "livePanel" ->
         PutPanel(step.panel, IF step.panel \in DOMAIN ps
                              THEN RowOf(ps[step.panel]) ELSE step.row)
    [] step.kind = "meta" -> PutMeta(ord, act)
    [] OTHER -> step

NextToFlush(todo, ps) == SelectInSeq(todo, LAMBDA t : IsOpen(ps, t))

\* The steps left once a flush loop with nothing more to write has ended and
\* close() has reached its loop over the panels.
Unfolded(steps, ps, ord) ==
  LET after == IF /\ steps # <<>>
                  /\ Head(steps).kind = "flush"
                  /\ NextToFlush(Head(steps).todo, ps) = 0
               THEN Tail(steps) ELSE steps
  IN  IF after # <<>> /\ Head(after).kind = "saveAll"
      THEN PutEvery(ord, ps) \o Tail(after) ELSE after

\* The command a handler sends next, as a sequence of at most one.
Issue(steps, ps, ord, act) ==
  LET next == Unfolded(steps, ps, ord)
  IN  IF next = <<>> THEN <<>>
      ELSE IF Head(next).kind = "flush"
      THEN LET todo == Head(next).todo
               i    == NextToFlush(todo, ps)
           IN  <<[op   |-> PutTab(Found(ps, ord, todo[i])),
                  rest |-> <<Flush(SubSeq(todo, i + 1, Len(todo)))>>
                           \o Tail(next)]>>
      ELSE <<[op |-> Sent(Head(next), ps, ord, act), rest |-> Tail(next)]>>

\* The ids the flush loop takes off the dirty set as it moves on: those of
\* tabs closed meanwhile, which it skips, and the one it writes.
Reached(steps, ps) ==
  IF steps = <<>> \/ Head(steps).kind # "flush" THEN {}
  ELSE LET todo == Head(steps).todo
           i    == NextToFlush(todo, ps)
       IN  ToSet(IF i = 0 THEN todo ELSE SubSeq(todo, 1, i))

\* A handler's writes, started by the event that is being handled.
Write(steps) == queue' = queue \o Issue(steps, panels', order', active')

UserEvent ==
  /\ phase \in {"loading", "ready", "failed"}
  /\ EarlyInput \/ phase # "loading"
  /\ events < MaxEvents
  /\ events' = events + 1
  /\ UNCHANGED <<disk, process>>

-----------------------------------------------------------------------------
(* RequestManager. *)

\* cancelAndFinish, for a set of tabs
CancelAndFinish(ts) ==
  /\ cancelled' = cancelled \cup ({handle[t] : t \in ts} \ {NoSend})
  /\ handle' = [t \in TabId |-> IF t \in ts THEN NoSend ELSE handle[t]]
  /\ UNCHANGED running

Owns(run) == handle[run.tab] = run.send

\* Mutant: a send that ends releases whichever send owns the tab.
FinishedForAll(run) ==
  /\ running' = running \ {run}
  /\ handle' = [handle EXCEPT ![run.tab] = NoSend]
  /\ cancelled' = cancelled \ {run.send}

Finished(run) ==
  /\ running' = running \ {run}
  /\ handle' = IF Owns(run) THEN [handle EXCEPT ![run.tab] = NoSend] ELSE handle
  /\ cancelled' = cancelled \ {run.send}

-----------------------------------------------------------------------------
(* Opening tabs. *)

Opened(ps, p, i, tab) ==
  [ps EXCEPT ![p].strip = InsertAt(@, i, tab), ![p].active = tab.id]

\* What AddTab, DuplicateTab and ReopenClosedTab do once they have a tab.
OpenTab(p, i, tab, act, more) ==
  /\ Emit(Opened(panels, p, i, tab), order, act)
  /\ Write(<<PutTab(tab), LivePanel(p, RowOf(panels'[p]))>> \o more)

\* What AddTab and ReopenClosedTab do when the tab is already there.
Activate(p, t) ==
  /\ Emit([panels EXCEPT ![p].active = t], order, p)
  /\ Write(<<PutPanel(p, RowOf(panels'[p])), Meta>>)

NewTab(node, config) ==
  [id |-> nextTab + 1, node |-> node, config |-> config, sending |-> FALSE,
   response |-> NoSend, history |-> <<>>]

LinkedPosition(p, node) ==
  SelectInSeq(panels[p].strip, LAMBDA tab : tab.node = node)

\* AddTab, for a node that is open in some panel.
ShowLinkedTab(node) ==
  LET k == SelectInSeq(order, LAMBDA p : LinkedPosition(p, node) # 0)
  IN  /\ UserEvent
      /\ node # NoNode /\ k # 0
      /\ Activate(order[k],
                  panels[order[k]].strip[LinkedPosition(order[k], node)].id)
      /\ UNCHANGED <<closed, saving, sends, idVars>>

\* AddTab, otherwise.
AddTab(node, config) ==
  /\ UserEvent
  /\ order # <<>>
  /\ node # NoNode => \A p \in DOMAIN panels : LinkedPosition(p, node) = 0
  /\ nextTab < MaxTabs
  /\ OpenTab(ActivePanel, Len(panels[ActivePanel].strip) + 1,
             NewTab(node, config), active, <<>>)
  /\ nextTab' = nextTab + 1
  /\ UNCHANGED <<closed, saving, sends, nextPanel, nextSend>>

DuplicateTab(t) ==
  LET strip == panels[ActivePanel].strip
      i     == Position(strip, t)
  IN  /\ UserEvent
      /\ order # <<>> /\ i # 0
      /\ nextTab < MaxTabs
      /\ OpenTab(ActivePanel, i + 1, NewTab(NoNode, strip[i].config), active,
                 <<>>)
      /\ nextTab' = nextTab + 1
      /\ UNCHANGED <<closed, saving, sends, nextPanel, nextSend>>

\* Mutant: the configurations are not compared.
SameNode(p, tab) == LinkedPosition(p, tab.node) # 0

\* ReopenClosedTab, when the popped tab's node is open with the same config.
SameAsClosed(p, tab) ==
  LET i == LinkedPosition(p, tab.node)
  IN  i # 0 /\ panels[p].strip[i].config = tab.config

ReopenAsLinkedTab ==
  LET tab == Last(closed).tab
      k   == SelectInSeq(order, LAMBDA p : SameAsClosed(p, tab))
  IN  /\ UserEvent
      /\ closed # <<>>
      /\ tab.node # NoNode /\ k # 0
      /\ closed' = Front(closed)
      /\ Activate(order[k],
                  panels[order[k]].strip[LinkedPosition(order[k], tab.node)].id)
      /\ UNCHANGED <<saving, sends, idVars>>

\* ReopenClosedTab, otherwise: back to its panel, or to the active one.
ReopenClosedTab ==
  LET was == Last(closed)
      p   == IF was.panel \in DOMAIN panels THEN was.panel ELSE ActivePanel
      end == Len(panels[p].strip) + 1
  IN  /\ UserEvent
      /\ closed # <<>> /\ order # <<>>
      /\ was.tab.node # NoNode =>
           \A q \in DOMAIN panels : ~SameAsClosed(q, was.tab)
      /\ closed' = Front(closed)
      /\ OpenTab(p, IF was.index < end THEN was.index ELSE end, was.tab, p,
                 <<Meta>>)
      /\ UNCHANGED <<saving, sends, idVars>>

-----------------------------------------------------------------------------
(* Closing tabs. *)

\* _pushClosedTab, for records in the order they are pushed.
PushClosed(recs) ==
  LET all == closed \o recs
  IN  closed' = SubSeq(all, 1 + (IF Len(all) > ClosedMax
                                 THEN Len(all) - ClosedMax ELSE 0), Len(all))

\* The positions K of panel p, as records of the reopen stack.
Closing(p, K) ==
  LET at == Selected([i \in DOMAIN panels[p].strip |-> i], K)
  IN  [k \in DOMAIN at |-> [tab   |-> Settled(panels[p].strip[at[k]]),
                            panel |-> p, index |-> at[k]]]

\* The order in which a handler that closes tabs sends its writes.
CloseWrites(p, ids, row) == <<DeleteTabs(ids), LivePanel(p, row)>>

\* Close the tabs at the positions K of panel p, which then shows act.
CloseTabs(p, K, act) ==
  LET strip == panels[p].strip
      kept  == Selected(strip, DOMAIN strip \ K)
      gone  == Ids(Selected(strip, K))
  IN  /\ PushClosed(Closing(p, K))
      /\ Emit([panels EXCEPT ![p].strip = kept, ![p].active = act], order, active)
      /\ dirty' = dirty \ gone
      /\ CancelAndFinish(gone)
      /\ Write(CloseWrites(p, gone, RowOf(panels'[p])))
      /\ UNCHANGED <<timer, idVars>>

\* Mutant: a closed tab stays the active one.
NeighbourUnset(panel, i) == panel.active

\* The tab a panel shows once the tab at position i has gone.
Neighbour(panel, i) ==
  LET kept == RemoveAt(panel.strip, i)
  IN  IF panel.active # panel.strip[i].id THEN panel.active
      ELSE IF kept = <<>> THEN NoTab
      ELSE kept[IF i > Len(kept) THEN Len(kept) ELSE i].id

\* The active tab when it is among the kept, and the given one otherwise.
KeptActive(p, K, other) ==
  IF \E i \in DOMAIN panels[p].strip \ K : panels[p].strip[i].id = panels[p].active
  THEN panels[p].active ELSE other

RemoveTab(t) ==
  LET p == Owner(panels, order, t)
      i == Position(panels[p].strip, t)
  IN  /\ UserEvent
      /\ IsOpen(panels, t)
      /\ CloseTabs(p, {i}, Neighbour(panels[p], i))

CloseOtherTabs(t) ==
  LET strip == panels[ActivePanel].strip
      i     == Position(strip, t)
  IN  /\ UserEvent
      /\ order # <<>> /\ i # 0 /\ Len(strip) > 1
      /\ CloseTabs(ActivePanel, DOMAIN strip \ {i}, t)

CloseTabsToTheRight(t) ==
  LET strip == panels[ActivePanel].strip
      i     == Position(strip, t)
      K     == (i + 1)..Len(strip)
  IN  /\ UserEvent
      /\ order # <<>> /\ i # 0 /\ i < Len(strip)
      /\ CloseTabs(ActivePanel, K, KeptActive(ActivePanel, K, t))

CloseTabsToTheLeft(t) ==
  LET i == Position(panels[ActivePanel].strip, t)
      K == 1..(i - 1)
  IN  /\ UserEvent
      /\ order # <<>> /\ i > 1
      /\ CloseTabs(ActivePanel, K, KeptActive(ActivePanel, K, t))

\* TabDirtyChecker: saved holds the configuration of the nodes that exist.
HasUnsavedChanges(tab, saved) ==
  IF tab.node = NoNode THEN tab.config # Pristine
  ELSE tab.node \in DOMAIN saved => tab.config # saved[tab.node]

CloseSavedTabs(p, saved) ==
  LET strip == panels[p].strip
      K     == {i \in DOMAIN strip : ~HasUnsavedChanges(strip[i], saved)}
      kept  == Selected(strip, DOMAIN strip \ K)
  IN  /\ UserEvent
      /\ p \in DOMAIN panels /\ K # {}
      /\ CloseTabs(p, K, IF kept = <<>> THEN NoTab
                         ELSE KeptActive(p, K, Head(kept).id))

-----------------------------------------------------------------------------
(* Choosing, reordering and editing tabs. *)

SetActiveIndex(i) ==
  LET p == ActivePanel
  IN  /\ UserEvent
      /\ order # <<>> /\ i \in DOMAIN panels[p].strip
      /\ Emit([panels EXCEPT ![p].active = panels[p].strip[i].id], order, active)
      /\ Write(<<PutPanel(p, RowOf(panels'[p]))>>)
      /\ UNCHANGED <<closed, saving, sends, idVars>>

\* removeAt(i) followed by insert(j)
Moved(s, i, j) == InsertAt(RemoveAt(s, i), j, s[i])

ReorderTabs(p, i, j) ==
  /\ UserEvent
  /\ p \in DOMAIN panels
  /\ {i, j} \subseteq DOMAIN panels[p].strip
  /\ Emit([panels EXCEPT ![p].strip = Moved(@, i, j)], order, active)
  /\ Write(<<PutPanel(p, RowOf(panels'[p]))>>)
  /\ UNCHANGED <<closed, saving, sends, idVars>>

\* Mutant: an edit does not start the timer.
EditUnscheduled(tab) ==
  /\ Emit(Replaced(panels, tab), order, active)
  /\ dirty' = dirty \cup {tab.id}
  /\ UNCHANGED <<timer, queue, closed, idVars>>

\* A tab's new version goes wherever the tab is shown, and awaits saving.
Edit(tab) ==
  /\ Emit(Replaced(panels, tab), order, active)
  /\ dirty' = dirty \cup {tab.id}
  /\ timer' = TRUE
  /\ UNCHANGED <<queue, closed, idVars>>

\* The widgets build the new version from the tab as it is in the state.
UpdateTab(t, node, config) ==
  /\ UserEvent
  /\ IsOpen(panels, t)
  /\ node \in {Live(t).node, NoNode}
     \/ \A q \in DOMAIN panels : LinkedPosition(q, node) = 0
  /\ Edit([Live(t) EXCEPT !.node = node, !.config = config])
  /\ UNCHANGED sends

RevertTab(t, config) ==
  /\ UserEvent
  /\ IsOpen(panels, t) /\ Live(t).node # NoNode
  /\ Edit([Live(t) EXCEPT !.config = config])
  /\ UNCHANGED sends

ViewResponseHistoryEntry(t, s) ==
  /\ UserEvent
  /\ IsOpen(panels, t) /\ s \in ToSet(Live(t).history)
  /\ Edit([Live(t) EXCEPT !.response = s])
  /\ UNCHANGED sends

-----------------------------------------------------------------------------
(* Sending.  What the send does between its start and its answer is the    *)
(* business of the use cases; the answer comes back at any later moment.   *)

SendRequest(t) ==
  /\ UserEvent
  /\ IsOpen(panels, t) /\ ~Live(t).sending
  /\ nextSend < MaxSends
  /\ nextSend' = nextSend + 1
  /\ cancelled' = cancelled \cup ({handle[t]} \ {NoSend})
  /\ handle' = [handle EXCEPT ![t] = nextSend']
  /\ running' = running \cup {[send |-> nextSend', tab |-> t]}
  /\ Emit(Replaced(panels, [Live(t) EXCEPT !.sending = TRUE]), order, active)
  /\ UNCHANGED <<queue, closed, saving, nextTab, nextPanel>>

\* Mutant: the timeline grows at its end.
RecordedLast(tab, s) ==
  [tab EXCEPT !.sending = FALSE, !.response = s,
              !.history = IF Len(@) < HistoryLimit THEN Append(@, s) ELSE @]

\* _recordResponse
Recorded(tab, s) ==
  LET all == <<s>> \o tab.history
  IN  [tab EXCEPT !.sending = FALSE, !.response = s,
                  !.history = SubSeq(all, 1, IF Len(all) < HistoryLimit
                                             THEN Len(all) ELSE HistoryLimit)]

\* Mutant: only a newer send makes an answer irrelevant.
RelevantUntilReplaced(run) == Owns(run)

Relevant(run) == Owns(run) /\ run.send \notin cancelled

Returns(run) ==
  /\ run \in running
  /\ phase \in {"loading", "ready", "failed", "closing"}
  /\ Finished(run)
  /\ UNCHANGED <<disk, queue, process, order, active, closed, idVars, events>>

\* A response, or a network error that is shown as one.
ReceiveResponse(run) ==
  /\ Returns(run) /\ Relevant(run)
  /\ IF IsOpen(panels, run.tab)
     THEN /\ panels' = Replaced(panels, Recorded(Live(run.tab), run.send))
          /\ dirty' = dirty \cup {run.tab}
          /\ timer' = TRUE
     ELSE UNCHANGED <<panels, saving>>

\* The run was cancelled by a script or failed in an unexpected way.
StopSend(run) ==
  /\ Returns(run) /\ Relevant(run)
  /\ panels' = IF IsOpen(panels, run.tab)
               THEN Replaced(panels, [Live(run.tab) EXCEPT !.sending = FALSE])
               ELSE panels
  /\ UNCHANGED saving

\* The user cancelled the run, or another run owns the tab by now.
DropSend(run) ==
  /\ Returns(run) /\ ~Relevant(run)
  /\ UNCHANGED <<panels, saving>>

CancelRequest(t) ==
  /\ UserEvent
  /\ IsOpen(panels, t)
  /\ cancelled' = cancelled \cup ({handle[t]} \ {NoSend})
  /\ Emit(Replaced(panels, [Live(t) EXCEPT !.sending = FALSE]), order, active)
  /\ UNCHANGED <<queue, closed, saving, handle, running, idVars>>

-----------------------------------------------------------------------------
(* Panels. *)

AddPanel ==
  LET p == nextPanel + 1
  IN  /\ UserEvent
      /\ nextPanel < MaxPanels
      /\ Emit(Put(panels, p, [name |-> NextName(NoPanel), strip |-> <<>>,
                              active |-> NoTab]), Append(order, p), p)
      /\ nextPanel' = p
      /\ Write(<<PutPanel(p, RowOf(panels'[p])), Meta>>)
      /\ UNCHANGED <<closed, saving, sends, nextTab, nextSend>>

Removable(p) == p \in DOMAIN panels /\ Len(order) > 1

RemovePanel(p) ==
  LET strip == panels[p].strip
      i     == SelectInSeq(order, LAMBDA q : q = p)
      left  == RemoveAt(order, i)
  IN  /\ UserEvent
      /\ Removable(p)
      /\ PushClosed(Closing(p, DOMAIN strip))
      /\ Emit(Delete(panels, {p}), left,
              IF active # p THEN active ELSE left[IF i = 1 THEN 1 ELSE i - 1])
      /\ dirty' = dirty \ Ids(strip)
      /\ CancelAndFinish(Ids(strip))
      /\ Write(<<DeleteTabs(Ids(strip)), DeletePanel(p), Meta>>)
      /\ UNCHANGED <<timer, idVars>>

\* The name 0 stands for a blank one, which asks for an automatic name.
RenamePanel(p, name) ==
  /\ UserEvent
  /\ p \in DOMAIN panels
  /\ Emit([panels EXCEPT ![p].name = IF name = 0 THEN NextName(p) ELSE name],
          order, active)
  /\ Write(<<PutPanel(p, RowOf(panels'[p]))>>)
  /\ UNCHANGED <<closed, saving, sends, idVars>>

SetActivePanel(p) ==
  /\ UserEvent
  /\ p \in DOMAIN panels /\ p # active
  /\ Emit(panels, order, p)
  /\ Write(<<Meta>>)
  /\ UNCHANGED <<closed, saving, sends, idVars>>

ReorderPanels(i, j) ==
  /\ UserEvent
  /\ {i, j} \subseteq DOMAIN order
  /\ Emit(panels, Moved(order, i, j), active)
  /\ Write(<<Meta>>)
  /\ UNCHANGED <<closed, saving, sends, idVars>>

\* Mutant: the moved tab stays in its panel.
NotDetached(ps, p, i) == ps

\* _detachTab: the tab's panel p without the tab at position i.
Detached(ps, p, i) ==
  [ps EXCEPT ![p].strip = RemoveAt(@, i), ![p].active = Neighbour(ps[p], i)]

\* Mutant: the source is written first.
SourceFirst(q, target, p, source) == <<LivePanel(p, source), PutPanel(q, target)>>

\* The order in which a move sends its writes, target first.
MoveWrites(q, target, p, source) == <<PutPanel(q, target), LivePanel(p, source)>>

MoveTabToPanel(t, q) ==
  LET p   == Owner(panels, order, t)
      i   == Position(panels[p].strip, t)
      tab == panels[p].strip[i]
  IN  /\ UserEvent
      /\ q \in DOMAIN panels /\ IsOpen(panels, t) /\ p # q
      /\ Emit([Detached(panels, p, i) EXCEPT
                 ![q].strip = Append(@, tab),
                 ![q].active = IF panels[q].strip = <<>> THEN t ELSE @],
              order, active)
      /\ Write(MoveWrites(q, RowOf(panels'[q]), p, RowOf(panels'[p])))
      /\ UNCHANGED <<closed, saving, sends, idVars>>

MoveTabToNewPanel(t) ==
  LET p == Owner(panels, order, t)
      i == Position(panels[p].strip, t)
      q == nextPanel + 1
  IN  /\ UserEvent
      /\ IsOpen(panels, t)
      /\ nextPanel < MaxPanels
      /\ Emit(Put(Detached(panels, p, i), q,
                  [name  |-> NextName(NoPanel),
                   strip |-> <<panels[p].strip[i]>>, active |-> t]),
              Append(order, q), active)
      /\ nextPanel' = q
      /\ Write(MoveWrites(q, RowOf(panels'[q]), p, RowOf(panels'[p]))
               \o <<Meta>>)
      /\ UNCHANGED <<closed, saving, sends, nextTab, nextSend>>

-----------------------------------------------------------------------------
(* Saving edits, and the end of the process. *)

\* Mutant: what comes after does not wait for the flush.
StartFlushUnawaited(after) ==
  \E todo \in SetToSeqs(dirty) :
    /\ dirty' = dirty \ Reached(<<Flush(todo)>>, panels)
    /\ queue' = queue \o Issue(after, panels, order, active)
                     \o Issue(<<Flush(todo)>>, panels, order, active)

\* The timer fires, or the app is hidden: _flushDirtyTabs, which writes a
\* snapshot of the dirty set in any order and then does what comes after.
StartFlush(after) ==
  \E todo \in SetToSeqs(dirty) :
    /\ dirty' = dirty \ Reached(<<Flush(todo)>>, panels)
    /\ queue' = queue \o Issue(<<Flush(todo)>> \o after, panels, order, active)

FlushTimer ==
  /\ phase \in {"loading", "ready", "failed"}
  /\ timer
  /\ timer' = FALSE
  /\ StartFlush(<<>>)
  /\ UNCHANGED <<disk, process, memory, closed, sends, idVars, events>>

FlushPendingSaves ==
  /\ UserEvent
  /\ StartFlush(<<>>)
  /\ UNCHANGED <<timer, memory, closed, sends, idVars>>

\* The user quits: flush, wait for the worker to have nothing left, exit.
RequestExit ==
  /\ UserEvent
  /\ StartFlush(<<Exit>>)
  /\ UNCHANGED <<timer, memory, closed, sends, idVars>>

\* close(), when the widget tree is torn down.
CloseBloc ==
  /\ phase \in {"ready", "failed"}
  /\ phase' = "closing"
  /\ timer' = FALSE
  /\ cancelled' = cancelled \cup ({handle[t] : t \in TabId} \ {NoSend})
  /\ handle' = [t \in TabId |-> NoSend]
  /\ StartFlush(<<SaveAll, Meta, Exit>>)
  /\ UNCHANGED <<disk, memory, closed, running, idVars, events, faults, crashes>>

\* The process ends, and its memory with it.
Halt ==
  /\ queue' = <<>> /\ phase' = "off"
  /\ order' = <<>> /\ panels' = <<>> /\ active' = NoPanel
  /\ closed' = <<>> /\ dirty' = {} /\ timer' = FALSE
  /\ handle' = [t \in TabId |-> NoSend] /\ cancelled' = {} /\ running' = {}

ExecuteExit ==
  /\ queue # <<>> /\ Head(queue).op = Exit
  /\ Halt
  /\ UNCHANGED <<disk, idVars, events, faults, crashes>>

Crash ==
  /\ phase # "off"
  /\ crashes < MaxCrashes
  /\ crashes' = crashes + 1
  /\ Halt
  /\ UNCHANGED <<disk, idVars, events, faults>>

-----------------------------------------------------------------------------
(* LoadTabs. *)

Start ==
  /\ phase = "off"
  /\ phase' = "loading"
  /\ queue' = <<[op |-> GetPanels, rest |-> <<>>]>>
  /\ UNCHANGED <<disk, memory, closed, saving, sends, idVars, events, faults,
                 crashes>>

\* getPanels: the stored panels, or one that holds every tab of the layout
\* that had no panels, or nothing.
Answered(found) ==
  queue' = Append(Tail(queue), [op |-> GetActive(found), rest |-> <<>>])

ReadPanels ==
  /\ queue # <<>> /\ Head(queue).op = GetPanels
  /\ \/ /\ DOMAIN disk.panels # {}
        /\ \E ord \in StoredOrders(disk) :
             Answered([i \in DOMAIN ord |->
                         [id |-> ord[i], panel |-> StoredPanel(disk, ord[i])]])
        /\ UNCHANGED nextPanel
     \/ /\ DOMAIN disk.panels = {} /\ DOMAIN disk.tabs # {}
        /\ nextPanel < MaxPanels
        /\ nextPanel' = nextPanel + 1
        /\ \E ids \in SetToSeqs(DOMAIN disk.tabs) :
             Answered(<<[id    |-> nextPanel',
                         panel |-> [name |-> 1, strip |-> StoredStrip(disk, ids),
                                    active |-> ids[1]]]>>)
     \/ /\ DOMAIN disk.panels = {} /\ DOMAIN disk.tabs = {}
        /\ Answered(<<>>)
        /\ UNCHANGED nextPanel
  /\ UNCHANGED <<disk, process, memory, closed, saving, sends, nextTab,
                 nextSend, events>>

Then(steps) == queue' = Tail(queue) \o Issue(steps, panels', order', active')

\* getActivePanelId, for a session that was stored.  One that never stored
\* its active panel is stored as it was read.
RestoreSession ==
  LET ord == FoundOrder(Head(queue).op.found)
      ps  == FoundPanels(Head(queue).op.found)
  IN  /\ queue # <<>> /\ Head(queue).op.kind = "getActive" /\ ord # <<>>
      /\ phase' = "ready"
      /\ Emit(ps, ord, disk.active)
      /\ Then(IF disk.active = Unsaved THEN Append(PutEvery(ord, ps), Meta)
              ELSE <<>>)
      /\ UNCHANGED <<disk, closed, saving, sends, idVars, events, faults, crashes>>

\* getActivePanelId on a first run: a panel with a sample request.
SeedSession ==
  LET p   == nextPanel + 1
      tab == NewTab(NoNode, Sample)
  IN  /\ queue # <<>> /\ Head(queue).op = GetActive(<<>>)
      /\ nextPanel < MaxPanels /\ nextTab < MaxTabs
      /\ nextPanel' = p /\ nextTab' = nextTab + 1
      /\ phase' = "ready"
      /\ Emit(Put(<<>>, p, [name |-> 1, strip |-> <<tab>>, active |-> tab.id]),
              <<p>>, p)
      /\ Then(<<PutTab(tab), PutPanel(p, RowOf(panels'[p])), Meta>>)
      /\ UNCHANGED <<disk, closed, saving, sends, nextSend, events, faults, crashes>>

-----------------------------------------------------------------------------
(* The worker executes the first command, and the handler that waited for  *)
(* it goes on.                                                             *)

BoxWrites == {"putTab", "deleteTabs", "putPanel", "deletePanel", "putActive"}

GoOn ==
  LET rest == Head(queue).rest
  IN  /\ queue' = Tail(queue) \o Issue(rest, panels, order, active)
      /\ dirty' = dirty \ Reached(rest, panels)

ExecuteWrite ==
  /\ queue # <<>> /\ Head(queue).op.kind \in BoxWrites
  /\ disk' = Applied(Head(queue).op, disk)
  /\ GoOn
  /\ UNCHANGED <<process, memory, closed, timer, sends, idVars, events>>

\* savePanelMeta is two writes: the order, then the active panel.
ExecuteMeta ==
  /\ queue # <<>> /\ Head(queue).op.kind = "putMeta"
  /\ disk' = Applied(Head(queue).op, disk)
  /\ queue' = <<[Head(queue) EXCEPT !.op = PutActive(@.active)]>> \o Tail(queue)
  /\ UNCHANGED <<process, memory, closed, saving, sends, idVars, events>>

\* Mutant: a failed save is forgotten.
Forgotten(op, rest) == {}

\* The tab a failed write of the flush loop puts back on the dirty set.
PutBack(op, rest) ==
  IF rest # <<>> /\ Head(rest).kind = "flush" THEN {op.tab.id} ELSE {}

\* A write fails.  It is only logged, except that the flush loop puts the
\* tab back on the dirty set before it goes on.
FailWrite ==
  LET op   == Head(queue).op
      rest == Head(queue).rest
  IN  /\ queue # <<>> /\ op.kind \in BoxWrites \cup {"putMeta"}
      /\ faults < MaxFaults /\ faults' = faults + 1
      /\ queue' = Tail(queue) \o Issue(rest, panels, order, active)
      /\ dirty' = (dirty \cup PutBack(op, rest)) \ Reached(rest, panels)
      /\ UNCHANGED <<disk, phase, crashes, memory, closed, timer, sends, idVars,
                     events>>

\* A read fails, and LoadTabs ends with no panels.
FailLoad ==
  /\ queue # <<>> /\ Head(queue).op.kind \in {"getPanels", "getActive"}
  /\ faults < MaxFaults /\ faults' = faults + 1
  /\ phase' = "failed"
  /\ queue' = Tail(queue)
  /\ UNCHANGED <<disk, crashes, memory, closed, saving, sends, idVars, events>>

-----------------------------------------------------------------------------
(* Specifications. *)

Init ==
  /\ disk \in Sessions
  /\ queue = <<>> /\ phase = "off"
  /\ order = <<>> /\ panels = <<>> /\ active = NoPanel
  /\ closed = <<>> /\ dirty = {} /\ timer = FALSE
  /\ handle = [t \in TabId |-> NoSend] /\ cancelled = {} /\ running = {}
  /\ nextTab = CHOOSE n \in 0..MaxTabs : DOMAIN disk.tabs \subseteq 1..n
  /\ nextPanel = CHOOSE n \in 0..MaxPanels : DOMAIN disk.panels \subseteq 1..n
  /\ nextSend = CHOOSE n \in 0..MaxSends : \A t \in DOMAIN disk.tabs :
                  ToSet(disk.tabs[t].history) \cup {disk.tabs[t].response} \subseteq 0..n
  /\ events = 0 /\ faults = 0 /\ crashes = 0

SavedConfigs == UNION {[D -> Configs] : D \in SUBSET Nodes}

TabEvent ==
  \/ \E node \in Nodes : ShowLinkedTab(node)
  \/ \E node \in Nodes \cup {NoNode}, c \in Configs : AddTab(node, c)
  \/ ReopenAsLinkedTab
  \/ ReopenClosedTab
  \/ \E t \in TabId :
       \/ DuplicateTab(t)
       \/ RemoveTab(t)
       \/ CloseOtherTabs(t)
       \/ CloseTabsToTheRight(t)
       \/ CloseTabsToTheLeft(t)
       \/ \E node \in Nodes \cup {NoNode}, c \in Configs : UpdateTab(t, node, c)
       \/ \E c \in Configs : RevertTab(t, c)
       \/ \E s \in SendId : ViewResponseHistoryEntry(t, s)
       \/ SendRequest(t)
       \/ CancelRequest(t)
  \/ \E i \in TabId : SetActiveIndex(i)
  \/ FlushPendingSaves

PanelEvent ==
  \/ AddPanel
  \/ \E p \in PanelId :
       \/ RemovePanel(p)
       \/ SetActivePanel(p)
       \/ \E n \in 0..MaxName : RenamePanel(p, n)
       \/ \E saved \in SavedConfigs : CloseSavedTabs(p, saved)
       \/ \E i, j \in TabId : ReorderTabs(p, i, j)
       \/ \E t \in TabId : MoveTabToPanel(t, p)
  \/ \E i, j \in PanelId : ReorderPanels(i, j)
  \/ \E t \in TabId : MoveTabToNewPanel(t)

Answer == \E run \in running :
            ReceiveResponse(run) \/ StopSend(run) \/ DropSend(run)

Load   == ReadPanels \/ RestoreSession \/ SeedSession
Worker == Load \/ ExecuteWrite \/ ExecuteMeta \/ FailWrite \/ FailLoad

\* One session: the process is started and runs on.
SessionNext ==
  Start \/ TabEvent \/ PanelEvent \/ Answer \/ FlushTimer \/ Worker

Next == SessionNext \/ RequestExit \/ CloseBloc \/ ExecuteExit \/ Crash

SessionSpec == Init /\ [][SessionNext]_vars
Spec        == Init /\ [][Next]_vars

-----------------------------------------------------------------------------
(* The disks that one session finds.                                       *)

\* A response timeline: newest first, within the limit, and of sends up to n.
Newest(history, n) ==
  /\ Len(history) <= HistoryLimit
  /\ \A i \in DOMAIN history : history[i] <= n
  /\ \A i, j \in DOMAIN history : i < j => history[i] > history[j]

\* The disk an earlier session left: the rows of the tabs are their own, and
\* those of the panels name every stored tab at most once.
LiveIds(d, p) == ToSet(d.panels[p].ids) \cap DOMAIN d.tabs

WellKept(d) ==
  /\ \A t \in DOMAIN d.tabs : d.tabs[t].id = t /\ Newest(d.tabs[t].history, MaxSends)
  /\ \A p \in DOMAIN d.panels :
       /\ \A i, j \in DOMAIN d.panels[p].ids :
            /\ d.panels[p].ids[i] \in DOMAIN d.tabs
            /\ d.panels[p].ids[i] = d.panels[p].ids[j]
            => i = j
       /\ IF LiveIds(d, p) = {} THEN d.panels[p].active = NoTab
          ELSE d.panels[p].active \in LiveIds(d, p)
  /\ \A p, q \in DOMAIN d.panels : p # q => LiveIds(d, p) \cap LiveIds(d, q) = {}

SessionsWellKept == \A d \in Sessions : WellKept(d)

-----------------------------------------------------------------------------
(* Properties. *)

\* Every variable holds a value of its type (the fields of TabsState and
\* TabsBloc, the storage worker's queue and the boxes).
Step ==
  [kind : {"putTab"}, tab : Tab]
  \cup [kind : {"deleteTabs"}, tabs : SUBSET TabId]
  \cup [kind : {"putPanel", "livePanel"}, panel : PanelId, row : Row]
  \cup [kind : {"deletePanel"}, panel : PanelId]
  \cup [kind : {"meta", "saveAll", "exit"}]
  \cup [kind : {"flush"}, todo : Seq(TabId)]

Command ==
  [kind : {"putTab"}, tab : Tab]
  \cup [kind : {"deleteTabs"}, tabs : SUBSET TabId]
  \cup [kind : {"putPanel"}, panel : PanelId, row : Row]
  \cup [kind : {"deletePanel"}, panel : PanelId]
  \cup [kind : {"putMeta"}, order : Seq(PanelId), active : PanelId \cup {NoPanel}]
  \cup [kind : {"putActive"}, active : PanelId \cup {NoPanel}]
  \cup [kind : {"exit", "getPanels"}]
  \cup [kind : {"getActive"}, found : Seq([id : PanelId, panel : Panel])]

TypeOK ==
  /\ IsDisk(disk)
  /\ queue \in Seq([op : Command, rest : Seq(Step)])
  /\ phase \in {"off", "loading", "ready", "failed", "closing"}
  /\ order \in Seq(PanelId)
  /\ IsBox(panels, PanelId, Panel)
  /\ active \in PanelId \cup {NoPanel}
  /\ closed \in Seq(Closed)
  /\ dirty \subseteq TabId
  /\ timer \in BOOLEAN
  /\ handle \in [TabId -> SendId \cup {NoSend}]
  /\ cancelled \subseteq SendId
  /\ running \subseteq [send : SendId, tab : TabId]
  /\ nextTab \in 0..MaxTabs /\ nextPanel \in 0..MaxPanels
  /\ nextSend \in 0..MaxSends
  /\ events \in Nat /\ faults \in Nat /\ crashes \in Nat

\* The panels of the state: the display order names each panel exactly once,
\* a loaded session has at least one panel, and the active panel is one of
\* them ("Panels: always >=1", and _derive's fallback), whatever was on disk
\* when a crash left it half written.
PanelsSound ==
  /\ IsInjective(order) /\ ToSet(order) = DOMAIN panels
  /\ phase = "ready" => order # <<>>
  /\ IF order = <<>> THEN active = NoPanel ELSE active \in DOMAIN panels

\* A panel that shows tabs names one of them as its active tab, and an empty
\* panel names none (PanelEntity): every handler that takes tabs out of a
\* panel, moves them in or brings them back must repair the name.
ActiveTabShown ==
  \A p \in DOMAIN panels :
    IF panels[p].strip = <<>> THEN panels[p].active = NoTab
    ELSE panels[p].active \in Ids(panels[p].strip)

\* A tab is open in one place, or waits on the reopen stack once, and never
\* both, however often it is closed, reopened and moved.
OpenOrClosedOnce ==
  /\ \A p, q \in DOMAIN panels :
       \A i \in DOMAIN panels[p].strip, j \in DOMAIN panels[q].strip :
         panels[p].strip[i].id = panels[q].strip[j].id => p = q /\ i = j
  /\ \A i, j \in DOMAIN closed :
       closed[i].tab.id = closed[j].tab.id => i = j
  /\ \A i \in DOMAIN closed : ~IsOpen(panels, closed[i].tab.id)

\* A tab shows SENDING only while the send that owns it runs and has not been
\* cancelled, so that its handler will reset the flag.
SendingHasOwner ==
  \A t \in TabId :
    IsOpen(panels, t) /\ Live(t).sending =>
      /\ [send |-> handle[t], tab |-> t] \in running
      /\ handle[t] \notin cancelled

\* Only an answer that the user still waits for changes a tab: one that comes
\* back after its send was cancelled, or after its tab was closed and
\* reopened, is dropped.
AnswersOnlyWhileSending ==
  [][\A run \in running \ running' :
       IsOpen(panels, run.tab) /\ IsOpen(panels', run.tab) =>
         Live(run.tab).sending \/ Live(run.tab)' = Live(run.tab)]_vars

\* The response timeline of a tab is newest first and within its limit,
\* although the answers of several sends of the same tab may come back in any
\* order.
HistoryNewestFirst ==
  \A p \in DOMAIN panels : \A k \in DOMAIN panels[p].strip :
    LET history == panels[p].strip[k].history
    IN  /\ Len(history) <= HistoryLimit
        /\ \A i, j \in DOMAIN history : i < j => history[i] > history[j]

\* Reopening brings back what was closed: after a record is popped, the active
\* tab of the active panel has its node and its configuration, so that an
\* edit discarded on closing is not lost to the tab its node has got since.
ReopenRestores ==
  [][closed' # closed /\ closed' = Front(closed) =>
       LET was   == Last(closed).tab
           panel == panels'[active']
           shown == panel.strip[Position(panel.strip, panel.active)]
       IN  shown.node = was.node /\ shown.config = was.config]_vars

\* What a stored tab keeps of a live one: everything but the sending flag.
SameContent(a, b) == Settled(a) = Settled(b)

Stored(t) == t \in DOMAIN disk.tabs /\ SameContent(disk.tabs[t], Live(t))

\* Once the worker has nothing left to do, the next start would rebuild what
\* the user sees: panels, order, active panel and tabs, without rows of
\* panels or tabs that are gone; only tabs on the dirty set may lag behind.
DiskMatchesWhenQuiet ==
  queue = <<>> /\ phase = "ready" =>
    /\ disk.order = order /\ disk.active = active
    /\ disk.panels = [p \in DOMAIN panels |-> RowOf(panels[p])]
    /\ \A t \in TabId :
         /\ t \in DOMAIN disk.tabs <=> IsOpen(panels, t)
         /\ IsOpen(panels, t) => Stored(t) \/ t \in dirty

\* An edit or a response is never forgotten: an open tab whose row is out of
\* date is on the dirty set, or a write of its live version is on its way.
\* Holds although one storage command fails.
StaleTabIsTracked ==
  \A t \in TabId :
    IsOpen(panels, t) /\ t \in DOMAIN disk.tabs /\ ~Stored(t) =>
      \/ t \in dirty
      \/ \E i \in DOMAIN queue :
           /\ queue[i].op.kind = "putTab"
           /\ queue[i].op.tab.id = t
           /\ SameContent(queue[i].op.tab, Live(t))

\* With a worker that answers and a timer that fires, every open tab is on disk
\* as it is shown at some later moment, unless it is closed or the process ends
\* before: no edit waits on the dirty set for ever (_scheduleSave).
EditsReachDisk ==
  \A t \in TabId :
    IsOpen(panels, t) ~> (~IsOpen(panels, t) \/ Stored(t))
=============================================================================
