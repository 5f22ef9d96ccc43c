---------------------------- MODULE TabsHistory ----------------------------
(***************************************************************************)
(* TabsBloc with two history variables that no action reads: the tabs      *)
(* whose place is known to have reached the disk, and what the user had    *)
(* open when asking to quit.                                               *)
(***************************************************************************)
EXTENDS TabsBloc

VARIABLES settled,  \* open tabs that a panel row has listed since they opened
          asked     \* the content of the tabs open when the exit was requested

hvars == <<vars, settled, asked>>

ListedOn(d, t) == \E p \in DOMAIN d.panels : t \in ToSet(d.panels[p].ids)

OpenTabs == {t \in TabId : IsOpen(panels, t)}

ExitPending ==
  \E i \in DOMAIN queue : queue[i].op = Exit \/ Exit \in ToSet(queue[i].rest)

\* A tab settles when the session is restored, or when the row of the panel
\* that shows it is written, unless it was closed and reopened so fast that
\* its deletion is still on the way.
Deleting(t) ==
  \E i \in DOMAIN queue : queue[i].op.kind = "deleteTabs" /\ t \in queue[i].op.tabs

Settles(t) ==
  IF phase = "loading" /\ phase' = "ready" THEN ListedOn(disk, t)
  ELSE /\ disk' # disk /\ Head(queue).op.kind = "putPanel" /\ ~Deleting(t)
       /\ Head(queue).op.panel \in DOMAIN panels
       /\ t \in Ids(panels[Head(queue).op.panel].strip)
       /\ t \in ToSet(Head(queue).op.row.ids)

Observe ==
  /\ settled' = {t \in OpenTabs' : t \in settled \/ Settles(t)}
  /\ asked' = IF ~ExitPending /\ ExitPending'
              THEN [t \in OpenTabs |-> Settled(Live(t))]
              ELSE [t \in {u \in DOMAIN asked \cap OpenTabs' :
                             asked[u] = Settled(Live(u)')} |-> asked[t]]

HistoryInit == Init /\ settled = {} /\ asked = <<>>

\* The disk a session finds holds its panels and the one that was active: an
\* earlier session got as far as that.
SessionsStored == \A d \in Sessions : d.active # Unsaved /\ DOMAIN d.panels # {}

\* The disk of a session that was left with nothing more to write: its order
\* names every panel, its active panel is one of them, and every tab has a panel
\* that lists it and is listed by none without having a row.
Whole(d) ==
  /\ d.active \in DOMAIN d.panels
  /\ IsInjective(d.order) /\ ToSet(d.order) = DOMAIN d.panels
  /\ DOMAIN d.tabs = UNION {ToSet(d.panels[p].ids) : p \in DOMAIN d.panels}

SessionsWhole == \A d \in Sessions : Whole(d)

SessionHistorySpec == HistoryInit /\ [][SessionNext /\ Observe]_hvars
HistorySpec        == HistoryInit /\ [][Next /\ Observe]_hvars

\* A process that is not started again once the user has done something.
OneProcessSpec ==
  HistoryInit /\ [][Next /\ (phase = "off" => events = 0) /\ Observe]_hvars

\* The worker executes every command it is sent, up to the exit, and a timer
\* that is not started again fires: FlushTimer is enabled as long as the timer
\* runs, so that it may be said without the rest of that action.
FairProcessSpec ==
  /\ OneProcessSpec
  /\ WF_vars(ExecuteWrite \/ ExecuteMeta \/ ExecuteExit)
  /\ WF_timer(timer /\ timer' = FALSE)

-----------------------------------------------------------------------------
(* Properties. *)

\* Wherever an open tab is moved, and whatever else is closed, renamed or
\* reordered meanwhile, every state of the disk holds the tab and a panel that
\* lists it, once it has been there: a process killed at any moment does not
\* lose it (_onMoveTabToPanel writes the target first for this reason).
SettledTabsSurvive ==
  \A t \in settled : t \in DOMAIN disk.tabs /\ ListedOn(disk, t)

Exiting == queue # <<>> /\ Head(queue).op = Exit

\* Quitting saves the edits and the responses: a tab that has not changed
\* since the exit was requested is on disk as it was then (ExitFlushGuard).
ExitSavesEdits ==
  Exiting => \A t \in DOMAIN asked :
               t \in DOMAIN disk.tabs /\ SameContent(disk.tabs[t], asked[t])

\* Quitting keeps the tabs: a tab that was open when the exit was requested,
\* and still is, belongs to a panel at the next start.
ExitKeepsTabs == Exiting => \A t \in DOMAIN asked : ListedOn(disk, t)
=============================================================================
