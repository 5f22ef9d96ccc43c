---------------------------- MODULE ScriptRuntime ----------------------------
(***************************************************************************)
(* Scripts in at most two isolates: ScriptRuntimeRepositoryImpl,           *)
(* QuickJsRuntime and the C bridge below it (bridge.c).  The UI isolate    *)
(* runs turns of its event loop; a call that a turn wakes goes on in a     *)
(* microtask, before the next turn.  The engine runs on threads of its own *)
(* and shares one control block per call with the UI isolate.              *)
(***************************************************************************)
EXTENDS Naturals, FiniteSets, SequencesExt

CONSTANTS Call

ASSUME ScriptAssumption == IsFiniteSet(Call)

VARIABLES
  engine,     \* whether the native library is there
  loader,     \* _runtime of the repository
  closed, drain, awaited,  \* close(): asked for; how far; the futures it waits for
  stage, cancelled,  \* of a call; the cancellations triggered
  listener,   \* what its ScriptCancellation would run
  queue,      \* _queue
  woken,      \* calls whose future has completed, which go on next
  active, running, stoppers,  \* _active, _running, _cancelRunning
  control, flagged,  \* the Control of a call; those with cancelled = 1
  evaluation, status, refused  \* of gm_eval; Control.status; memory_exceeded

closeVars  == <<closed, drain, awaited>>
callVars   == <<stage, cancelled, listener>>
slotVars   == <<queue, woken, active, running, stoppers>>
engineVars == <<evaluation, status, refused>>
vars       == <<engine, loader, closeVars, callVars, slotVars, control, flagged,
                engineVars>>

Slots == 2

Stages  == {"unused", "loading", "queued", "running", "returned"}

\* Control.status
Done      == 0
Exception == 1
Timeout   == 2
Cancelled == 3
Memory    == 4
Output    == 5

TypeOK ==
  /\ engine \in BOOLEAN
  /\ loader \in {"none", "loading", "ready", "broken"}
  /\ closed \in BOOLEAN
  /\ drain \in {"open", "loading", "waiting", "done"}
  /\ awaited \subseteq Call
  /\ stage \in [Call -> Stages]
  /\ cancelled \subseteq Call
  /\ listener \in [Call -> {"none", "wake", "stop"}]
  /\ queue \in Seq(Call) /\ IsInjective(queue)
  /\ woken \in Seq(Call) /\ IsInjective(woken)
  /\ active \in 0..Slots
  /\ running \subseteq Call /\ stoppers \subseteq Call
  /\ control \in [Call -> {"none", "live", "freed"}]
  /\ flagged \subseteq Call
  /\ evaluation \in [Call -> {"none", "starting", "script", "ended"}]
  /\ status \in [Call -> Done..Output]
  /\ refused \subseteq Call

Init ==
  /\ engine \in BOOLEAN
  /\ loader = "none"
  /\ closed = FALSE /\ drain = "open" /\ awaited = {}
  /\ stage = [c \in Call |-> "unused"]
  /\ cancelled = {}
  /\ listener = [c \in Call |-> "none"]
  /\ queue = <<>> /\ woken = <<>>
  /\ active = 0 /\ running = {} /\ stoppers = {}
  /\ control = [c \in Call |-> "none"]
  /\ flagged = {}
  /\ evaluation = [c \in Call |-> "none"]
  /\ status = [c \in Call |-> Done]
  /\ refused = {}

\* Why a call returns matters to its caller, who looks at it for himself.
Return(c) == stage' = [stage EXCEPT ![c] = "returned"]

Stopped(c) == closed \/ c \in cancelled

-----------------------------------------------------------------------------
(* QuickJsRuntime.execute *)

\* A call that joins the queue; cancelling it wakes it.
Wait(c) ==
  /\ stage' = [stage EXCEPT ![c] = "queued"]
  /\ queue' = Append(RemoveFirst(queue, c), c)
  /\ listener' = [listener EXCEPT ![c] = "wake"]
  /\ UNCHANGED <<active, running, stoppers, control, evaluation>>

\* A call that takes a slot.  Without the library controlNew() throws here,
\* before the try: the call fails and the slot is not given back.
TakeSlot(c) ==
  /\ active' = active + 1
  /\ running' = running \cup {c}
  /\ queue' = RemoveFirst(queue, c)
  /\ IF engine
     THEN /\ stage' = [stage EXCEPT ![c] = "running"]
          /\ stoppers' = stoppers \cup {c}
          /\ listener' = [listener EXCEPT ![c] = "stop"]
          /\ control' = [control EXCEPT ![c] = "live"]
          /\ evaluation' = [evaluation EXCEPT ![c] = "starting"]
     ELSE /\ Return(c)
          /\ listener' = [listener EXCEPT ![c] = "none"]
          /\ UNCHANGED <<stoppers, control, evaluation>>

Enter(c) == IF active >= Slots THEN Wait(c) ELSE TakeSlot(c)

GiveUp(c) ==
  /\ Return(c)
  /\ queue' = RemoveFirst(queue, c)
  /\ listener' = [listener EXCEPT ![c] = "none"]
  /\ UNCHANGED <<active, running, stoppers, control, evaluation>>

\* A call that was stopped returns, and so does one whose script is empty or
\* too large for the engine.
Admit(c) ==
  \/ GiveUp(c)
  \/ ~Stopped(c) /\ Enter(c)

-----------------------------------------------------------------------------
(* The user.  A turn begins when nothing is left of the one before. *)

Turn == woken = <<>>

\* The first call loads the runtime; once that has failed, so does every call.
Execute(c) ==
  /\ Turn /\ stage[c] = "unused"
  /\ \/ loader = "ready" /\ Admit(c) /\ UNCHANGED loader
     \/ (closed \/ loader = "broken") /\ GiveUp(c) /\ UNCHANGED loader
     \/ /\ ~closed /\ loader \in {"none", "loading"}
        /\ loader' = "loading"
        /\ stage' = [stage EXCEPT ![c] = "loading"]
        /\ UNCHANGED <<listener, queue, active, running, stoppers, control, evaluation>>
  /\ UNCHANGED <<engine, closeVars, cancelled, woken, flagged, status, refused>>

\* ScriptCancellation.cancel of each of these runs, in one turn and any order:
\* closing tabs cancels several.  A run may be cancelled long after its script has returned.
Cancel(S) ==
  /\ Turn /\ S # {} /\ S \cap cancelled = {}
  /\ \A c \in S : stage[c] # "unused"
  /\ cancelled' = cancelled \cup S
  /\ woken' \in SetToSeqs({c \in S : listener[c] = "wake"})
  /\ flagged' = flagged \cup {c \in S : listener[c] = "stop"}
  /\ listener' = [c \in Call |-> IF c \in S THEN "none" ELSE listener[c]]
  /\ UNCHANGED <<engine, loader, closeVars, stage, queue, active, running,
                 stoppers, control, engineVars>>

\* Mutant: those who run are told to stop, and not waited for.
StopAllHastily ==
  /\ flagged' = flagged \cup stoppers
  /\ woken' = queue
  /\ awaited' = {}
  /\ drain' = "waiting"

\* QuickJsRuntime.close up to its await.
StopAll ==
  /\ flagged' = flagged \cup stoppers
  /\ woken' = queue
  /\ awaited' = running
  /\ drain' = "waiting"

Close ==
  /\ Turn /\ ~closed
  /\ closed' = TRUE
  /\ \/ loader = "ready" /\ StopAll
     \/ /\ loader # "ready"
        /\ drain' = IF loader = "loading" THEN "loading" ELSE "done"
        /\ UNCHANGED <<flagged, woken, awaited>>
  /\ UNCHANGED <<engine, loader, callVars, queue, active, running, stoppers, control,
                 engineVars>>

-----------------------------------------------------------------------------
(* The UI isolate goes on. *)

\* The bootstrap source is read, or cannot be: the calls that wait for it go on,
\* in the order in which they came (any order, here), and close() after them.
Loaded(to) ==
  /\ Turn /\ loader = "loading"
  /\ loader' = to
  /\ woken' \in SetToSeqs({c \in Call : stage[c] = "loading"})
  /\ drain' = IF drain # "loading" THEN drain
              ELSE IF to = "ready" THEN "waiting" ELSE "done"
  /\ UNCHANGED <<engine, closed, awaited, callVars, queue, active, running, stoppers,
                 control, flagged, engineVars>>

\* The next woken call.
Resume ==
  /\ woken # <<>>
  /\ woken' = Tail(woken)
  /\ LET c == Head(woken)
     IN  \/ stage[c] = "loading" /\ loader = "broken" /\ GiveUp(c)
         \/ stage[c] = "loading" /\ loader = "ready" /\ Admit(c)
         \/ stage[c] = "queued" /\ Stopped(c) /\ GiveUp(c)
         \/ stage[c] = "queued" /\ ~Stopped(c) /\ Enter(c)
  /\ UNCHANGED <<engine, loader, closeVars, cancelled, flagged, status, refused>>

\* Where in the queue somebody waits whom nobody has woken.
Waiters == {i \in DOMAIN queue : ~Contains(woken, queue[i])}

\* Mutant: the next call is let in after a success only.
FreeSlotQuietly(c) ==
  /\ active' = active - 1
  /\ running' = running \ {c}
  /\ woken' = IF Waiters = {} \/ status[c] # Done THEN <<>> ELSE <<queue[Min(Waiters)]>>

\* Mutant: the slot is counted free after a success only.
FreeSlotIfFine(c) ==
  /\ active' = IF status[c] = Done THEN active - 1 ELSE active
  /\ running' = running \ {c}
  /\ woken' = IF Waiters = {} THEN <<>> ELSE <<queue[Min(Waiters)]>>

\* The slot of a call is free again, and the next call in the queue may go on.
FreeSlot(c) ==
  /\ active' = active - 1
  /\ running' = running \ {c}
  /\ woken' = IF Waiters = {} THEN <<>> ELSE <<queue[Min(Waiters)]>>

\* gm_control_free; what was in the control is gone.
FreeControl(c) ==
  /\ control' = [control EXCEPT ![c] = "freed"]
  /\ evaluation' = [evaluation EXCEPT ![c] = "none"]
  /\ status' = [status EXCEPT ![c] = Done]
  /\ refused' = refused \ {c}
  /\ flagged' = flagged \ {c}

\* Mutant: the cancellation keeps its listener.
GiveBackListening(c) ==
  /\ UNCHANGED listener
  /\ stoppers' = stoppers \ {c}
  /\ FreeControl(c) /\ FreeSlot(c)

\* The finally block of execute.
GiveBack(c) ==
  /\ listener' = [listener EXCEPT ![c] = "none"]
  /\ stoppers' = stoppers \ {c}
  /\ FreeControl(c) /\ FreeSlot(c)

\* Isolate.run returns what the engine left in the control, or throws because
\* there is no isolate.
WorkerReturns(c) ==
  /\ Turn /\ stage[c] = "running" /\ evaluation[c] \in {"starting", "ended"}
  /\ Return(c)
  /\ GiveBack(c)
  /\ UNCHANGED <<engine, loader, closeVars, cancelled, queue>>

CloseReturns ==
  /\ Turn /\ drain = "waiting" /\ awaited \cap running = {}
  /\ drain' = "done"
  /\ UNCHANGED <<engine, loader, closed, awaited, callVars, slotVars, control, flagged,
                 engineVars>>

-----------------------------------------------------------------------------
(* gm_eval, on the thread of the isolate. *)

\* Mutant: memory that was refused is forgotten when the script gets by.
LastVerdict(c, s) == s

\* What gm_eval reports: a script that ever was refused memory has run out of
\* it, whatever it made of that, unless it was stopped.
Verdict(c, s) == IF c \in refused /\ s \notin {Timeout, Cancelled} THEN Memory ELSE s

Ends(c, s) ==
  /\ evaluation' = [evaluation EXCEPT ![c] = "ended"]
  /\ status' = [status EXCEPT ![c] = s]

\* JS_NewRuntime2 and JS_NewContext may lack the memory.
Begin(c) ==
  /\ evaluation[c] = "starting"
  /\ \/ evaluation' = [evaluation EXCEPT ![c] = "script"] /\ UNCHANGED status
     \/ Ends(c, Memory)
  /\ UNCHANGED refused

\* quota_malloc returns NULL; the script may catch that and go on.
Refuse(c) ==
  /\ evaluation[c] = "script" /\ c \notin refused
  /\ refused' = refused \cup {c}
  /\ UNCHANGED <<evaluation, status>>

\* interrupted(): the flag is looked at before the clock, which is free here.
Interrupt(c) ==
  /\ evaluation[c] = "script"
  /\ Ends(c, Verdict(c, IF c \in flagged THEN Cancelled ELSE Timeout))
  /\ UNCHANGED refused

\* The script throws, or its promise is rejected; Memory when the text of the
\* error says so, Output when it is too long.
Throw(c) ==
  /\ evaluation[c] = "script"
  /\ \E s \in {Exception, Memory, Output} : Ends(c, Verdict(c, s))
  /\ UNCHANGED refused

\* The promise is fulfilled; its text may be too long, or not fit.
Fulfil(c) ==
  /\ evaluation[c] = "script"
  /\ \E s \in {Done, Output, Memory} : Ends(c, Verdict(c, s))
  /\ UNCHANGED refused

Evaluate(c) ==
  /\ Begin(c) \/ Refuse(c) \/ Interrupt(c) \/ Throw(c) \/ Fulfil(c)
  /\ UNCHANGED <<engine, loader, closeVars, callVars, slotVars, control, flagged>>

-----------------------------------------------------------------------------
Load == Loaded("ready") \/ Loaded("broken")

Next ==
  \/ \E c \in Call : Execute(c) \/ WorkerReturns(c) \/ Evaluate(c)
  \/ \E S \in SUBSET Call : Cancel(S)
  \/ Load \/ Resume \/ Close \/ CloseReturns

Spec == Init /\ [][Next]_vars

\* The loader answers, the UI isolate goes on, and a script ends by its deadline.
FairSpec ==
  /\ Spec
  /\ WF_vars(Load) /\ WF_vars(Resume) /\ WF_vars(CloseReturns)
  /\ \A c \in Call : WF_vars(WorkerReturns(c)) /\ WF_vars(Evaluate(c))

-----------------------------------------------------------------------------
(* Properties. *)

\* "The host owns the control until its worker has completed": while somebody
\* may still write or read a call's control block it has not been freed; neither
\* the engine, nor close(), nor a cancellation that comes after the script.
ControlsOutliveTheirUsers ==
  \A c \in Call :
    (evaluation[c] \in {"starting", "script"} \/ c \in stoppers \/ listener[c] = "stop")
      => control[c] = "live"

\* No wake-up is lost between a slot that becomes free and the calls in the
\* queue, however these are cancelled or woken meanwhile (the while loop of
\* execute, its finally block, close()).
NobodyWaitsForAFreeSlot == Turn /\ queue # <<>> => active = Slots

\* A script that was refused memory is never taken for one that succeeded or
\* failed by itself, even if it caught the error (memory_exceeded); and one that
\* is reported as cancelled was.
StatusTellsWhy ==
  \A c \in Call : evaluation[c] = "ended" =>
    /\ c \in refused => status[c] \in {Memory, Timeout, Cancelled}
    /\ status[c] = Cancelled => c \in cancelled \/ closed

\* "Close cancels active execution and drains completion before freeing native
\* controls": when it returns no engine runs, no control is left and every call
\* has its answer, those included that came while the runtime was loading.
CloseDrains ==
  drain = "done" /\ Turn =>
    \A c \in Call : /\ evaluation[c] \notin {"starting", "script"}
                    /\ control[c] # "live"
                    /\ stage[c] \in {"unused", "returned"}

\* Every call returns, cancelled or not, and so does close(): as a call is made
\* once, there comes a time from which on nobody waits.
EveryCallReturns ==
  engine => <>[](/\ \A c \in Call : stage[c] \in {"unused", "returned"}
                 /\ closed => drain = "done")
=============================================================================
