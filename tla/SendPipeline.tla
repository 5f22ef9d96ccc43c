---------------------------- MODULE SendPipeline ----------------------------
(***************************************************************************)
(* A send from the button to its answer: ExecuteRequestUseCase with        *)
(* SendRequestUseCase, ScriptExecutionRegistry and RequestManager.  What   *)
(* lies between two awaits is one action; the storage worker executes the  *)
(* patches and the history rows in the order in which they are sent.       *)
(***************************************************************************)
EXTENDS Naturals, Sequences

CONSTANTS Tab, NoTab, Run, NoRun, MaxFaults

ASSUME PipelineAssumption == Run \subseteq Nat /\ NoRun \notin Run /\ MaxFaults \in Nat

VARIABLES
  handle,     \* RequestManager._handles (and _scripts, which changes with it)
  cancelled,  \* the runs whose handles were triggered
  registry,   \* ScriptExecutionRegistry._executions
  sending,    \* the tabs shown as sending
  tabOf, scripts,  \* of a run: its tab and the scripts that are enabled
  stage,      \* what its use case waits for
  answer,     \* what came back from the network
  outcome,    \* how it ended
  issued,     \* what it has set off
  usesPatch,  \* whether its request was resolved with what its script set
  queue,      \* commands sent to the storage worker
  saved,      \* patches executed
  rows,       \* history rows written, oldest first
  faults      \* failing commands left

runVars   == <<tabOf, scripts, stage, answer, outcome, issued, usesPatch>>
ownerVars == <<handle, cancelled, registry, sending>>
diskVars  == <<queue, saved, rows, faults>>
vars      == <<runVars, ownerVars, diskVars>>

Scripts  == {"pre", "post"}
Stages   == {"unused", "trust", "pre", "prePatch", "network", "settings",
             "history", "post", "postPatch", "done"}
Answers  == {"none", "response", "error"}
Outcomes == {"none", "response", "error", "failed", "cancelled"}

R == INSTANCE Runs WITH owner <- registry, stopped <- cancelled,
                        begun <- {r \in Run : stage[r] # "unused"}

Command(r, kind) == [run |-> r, kind |-> kind]
Commands == [run : Run, kind : {"prePatch", "postPatch", "history"}]

TypeOK ==
  /\ handle \in [Tab -> Run \cup {NoRun}]
  /\ registry \in [Tab -> Run \cup {NoRun}]
  /\ cancelled \subseteq Run
  /\ sending \subseteq Tab
  /\ tabOf \in [Run -> Tab \cup {NoTab}]
  /\ scripts \in [Run -> SUBSET Scripts]
  /\ stage \in [Run -> Stages]
  /\ answer \in [Run -> Answers]
  /\ outcome \in [Run -> Outcomes]
  /\ issued \in [Run -> SUBSET R!Effects]
  /\ usesPatch \subseteq Run
  /\ queue \in Seq(Commands)
  /\ saved \subseteq Commands
  /\ rows \in Seq(Run)
  /\ faults \in 0..MaxFaults

Init ==
  /\ handle = [t \in Tab |-> NoRun]
  /\ registry = [t \in Tab |-> NoRun]
  /\ cancelled = {} /\ sending = {}
  /\ tabOf = [r \in Run |-> NoTab]
  /\ scripts = [r \in Run |-> {}]
  /\ stage = [r \in Run |-> "unused"]
  /\ answer = [r \in Run |-> "none"]
  /\ outcome = [r \in Run |-> "none"]
  /\ issued = [r \in Run |-> {}]
  /\ usesPatch = {}
  /\ queue = <<>> /\ saved = {} /\ rows = <<>>
  /\ faults = MaxFaults

Active(r) == stage[r] \notin {"unused", "done"}

\* Mutant: the registry is looked at, the cancellation is forgotten.
Registered(r) == registry[tabOf[r]] = r

\* current() of the use case, also SendRequestUseCase's admitted().
Current(r) == registry[tabOf[r]] = r /\ r \notin cancelled

\* Mutant: whoever finishes frees the tab.
FreedByAnyone(owners, r) == [owners EXCEPT ![tabOf[r]] = NoRun]

\* Mutant: the entry goes, and with it the tab.
FreedWithTab(owners, r) == [t \in Tab \ {tabOf[r]} |-> owners[t]]

\* finish(): only the run that owns the tab frees it.
Freed(owners, r) ==
  IF owners[tabOf[r]] = r THEN [owners EXCEPT ![tabOf[r]] = NoRun] ELSE owners

\* Mutant: the tab is released by its handle alone.
FinishForgetting(r, o) ==
  /\ stage' = [stage EXCEPT ![r] = "done"]
  /\ outcome' = [outcome EXCEPT ![r] = o]
  /\ registry' = Freed(registry, r)
  /\ handle' = Freed(handle, r)
  /\ UNCHANGED <<sending, cancelled, tabOf, scripts, answer, issued>>

\* The use case returns (or throws); the bloc shows the result if the run still
\* owns the tab and was not cancelled.
Finish(r, o) ==
  /\ stage' = [stage EXCEPT ![r] = "done"]
  /\ outcome' = [outcome EXCEPT ![r] = o]
  /\ registry' = Freed(registry, r)
  /\ handle' = Freed(handle, r)
  /\ sending' = IF handle[tabOf[r]] = r /\ r \notin cancelled
                THEN sending \ {tabOf[r]} ELSE sending
  /\ UNCHANGED <<cancelled, tabOf, scripts, answer, issued>>

GiveUp(r) == ~Current(r) /\ Finish(r, "cancelled") /\ UNCHANGED usesPatch

\* The next await of a run: what it waits for and what it has set off by then.
Await(r, next, effect) ==
  /\ stage' = [stage EXCEPT ![r] = next]
  /\ issued' = [issued EXCEPT ![r] = @ \cup {effect}]
  /\ UNCHANGED <<ownerVars, tabOf, scripts, outcome>>

\* The variables the request is resolved with.
Resolve(r, patched) == usesPatch' = IF patched THEN usesPatch \cup {r} ELSE usesPatch

SendHttp(r, patched) ==
  Await(r, "network", R!Request) /\ Resolve(r, patched) /\ UNCHANGED answer

RunScript(r, which, effect) ==
  Await(r, which, effect) /\ UNCHANGED <<answer, usesPatch>>

\* A command to the worker, whose answer the run waits for.
Ask(r, kind, effect) ==
  /\ Await(r, kind, effect)
  /\ queue' = Append(queue, Command(r, kind))
  /\ UNCHANGED <<answer, usesPatch, saved, rows, faults>>

-----------------------------------------------------------------------------
(* The user. *)

\* SendRequest, with the use case up to its first await.  Without scripts that
\* is the request itself.  A run has a fresh executionId: here, the next number.
Start(t, r, s) ==
  /\ stage[r] = "unused" /\ \A q \in Run : q < r => stage[q] # "unused"
  /\ t \notin sending
  /\ sending' = sending \cup {t}
  /\ cancelled' = cancelled \cup ({handle[t]} \ {NoRun})
  /\ handle' = [handle EXCEPT ![t] = r]
  /\ registry' = [registry EXCEPT ![t] = r]
  /\ tabOf' = [tabOf EXCEPT ![r] = t]
  /\ scripts' = [scripts EXCEPT ![r] = s]
  /\ stage' = [stage EXCEPT ![r] = IF s = {} THEN "network" ELSE "trust"]
  /\ issued' = [issued EXCEPT ![r] = IF s = {} THEN {R!Request} ELSE {}]
  /\ UNCHANGED <<answer, outcome, usesPatch, diskVars>>

CancelRequest(t) ==
  /\ t \in sending
  /\ sending' = sending \ {t}
  /\ cancelled' = cancelled \cup ({handle[t]} \ {NoRun})
  /\ UNCHANGED <<handle, registry, runVars, diskVars>>

\* Closing the tab; it may be opened again, and is not sending then.
CloseTab(t) ==
  /\ handle[t] # NoRun
  /\ sending' = sending \ {t}
  /\ cancelled' = cancelled \cup {handle[t]}
  /\ handle' = [handle EXCEPT ![t] = NoRun]
  /\ UNCHANGED <<registry, runVars, diskVars>>

-----------------------------------------------------------------------------
(* The stages. *)

\* The trust in the scripts is known.  Scripts of another API version are
\* refused like scripts that are not trusted.
TrustRead(r) ==
  /\ stage[r] = "trust"
  /\ \/ GiveUp(r)
     \/ Current(r) /\ Finish(r, "failed") /\ UNCHANGED usesPatch
     \/ /\ Current(r)
        /\ IF "pre" \in scripts[r] THEN RunScript(r, "pre", R!PreScript)
                                   ELSE SendHttp(r, FALSE)
  /\ UNCHANGED diskVars

\* The first script ended: it failed (or a test of it did), changed variables
\* without an environment to put them in, changed variables, or none.
PreScriptEnds(r) ==
  /\ stage[r] = "pre"
  /\ \/ GiveUp(r) /\ UNCHANGED diskVars
     \/ /\ Current(r) /\ Finish(r, "failed")
        /\ UNCHANGED <<usesPatch, diskVars>>
     \/ Current(r) /\ Ask(r, "prePatch", R!PrePatch)
     \/ Current(r) /\ SendHttp(r, FALSE) /\ UNCHANGED diskVars

\* An answer, or an error that is shown as a response ("response"), or one
\* that is not ("error").  A run that is not current any more records nothing.
NetworkAnswers(r, a) ==
  /\ stage[r] = "network"
  /\ \/ GiveUp(r) /\ UNCHANGED <<answer, diskVars>>
     \/ /\ Current(r)
        /\ stage' = [stage EXCEPT ![r] = "settings"]
        /\ answer' = [answer EXCEPT ![r] = a]
        /\ UNCHANGED <<ownerVars, tabOf, scripts, outcome, issued, usesPatch,
                       diskVars>>

\* _record is over, whether or not it wrote a row.
GoOn(r) ==
  \/ GiveUp(r)
  \/ /\ Current(r) /\ answer[r] = "error"
     /\ Finish(r, "error") /\ UNCHANGED usesPatch
  \/ /\ Current(r) /\ answer[r] = "response"
     /\ IF "post" \in scripts[r]
        THEN RunScript(r, "post", R!PostScript)
        ELSE Finish(r, "response") /\ UNCHANGED usesPatch

\* The settings are read, or cannot be, which only costs the row.
SettingsRead(r) ==
  /\ stage[r] = "settings"
  /\ \/ Current(r) /\ Ask(r, "history", R!History)
     \/ ~Current(r) /\ GoOn(r) /\ UNCHANGED diskVars
     \/ /\ faults > 0 /\ GoOn(r)
        /\ faults' = faults - 1 /\ UNCHANGED <<queue, saved, rows>>

PostScriptEnds(r) ==
  /\ stage[r] = "post"
  /\ \/ GiveUp(r) /\ UNCHANGED diskVars
     \/ /\ Current(r) /\ \E o \in {"failed", "response"} : Finish(r, o)
        /\ UNCHANGED <<usesPatch, diskVars>>
     \/ Current(r) /\ Ask(r, "postPatch", R!PostPatch)

-----------------------------------------------------------------------------
(* The storage worker. *)

\* Mutant: a patch that could not be saved is not noticed.
AnsweredInAnyCase(c, ok) ==
  LET r == c.run
  IN  CASE c.kind = "history" -> GoOn(r)
        [] c.kind = "prePatch" -> GiveUp(r) \/ (Current(r) /\ SendHttp(r, TRUE))
        [] c.kind = "postPatch" ->
             GiveUp(r) \/ (/\ Current(r) /\ Finish(r, "response")
                           /\ UNCHANGED usesPatch)

\* Where a run goes when its command has been answered.
Answered(c, ok) ==
  LET r == c.run
  IN  CASE c.kind = "history" -> GoOn(r)
        [] c.kind # "history" ->
             \/ GiveUp(r)
             \/ /\ Current(r) /\ ~ok
                /\ Finish(r, "failed") /\ UNCHANGED usesPatch
             \/ Current(r) /\ ok /\ c.kind = "prePatch" /\ SendHttp(r, TRUE)
             \/ /\ Current(r) /\ ok /\ c.kind = "postPatch"
                /\ Finish(r, "response") /\ UNCHANGED usesPatch

Execute ==
  /\ queue # <<>>
  /\ queue' = Tail(queue)
  /\ LET c == Head(queue)
     IN  IF c.kind = "history"
         THEN rows' = Append(rows, c.run) /\ UNCHANGED saved
         ELSE saved' = saved \cup {c} /\ UNCHANGED rows
  /\ UNCHANGED faults
  /\ Answered(Head(queue), TRUE)

Fail ==
  /\ queue # <<>> /\ faults > 0
  /\ queue' = Tail(queue)
  /\ faults' = faults - 1
  /\ UNCHANGED <<saved, rows>>
  /\ Answered(Head(queue), FALSE)

-----------------------------------------------------------------------------
Stage(r) ==
  \/ TrustRead(r) \/ PreScriptEnds(r) \/ SettingsRead(r) \/ PostScriptEnds(r)
  \/ \E a \in {"response", "error"} : NetworkAnswers(r, a)

User ==
  \E t \in Tab :
    \/ CancelRequest(t) \/ CloseTab(t)
    \/ \E r \in Run, s \in SUBSET Scripts : Start(t, r, s)

Next == User \/ (\E r \in Run : Stage(r)) \/ Execute \/ Fail

Spec == Init /\ [][Next]_vars

\* Scripts and requests end (each has a time limit), and the worker works.
FairSpec ==
  /\ Spec
  /\ \A r \in Run : WF_vars(Stage(r))
  /\ WF_vars(Execute)

-----------------------------------------------------------------------------
(* Properties. *)

\* The pipeline keeps the promise of Runs: from the moment in which a run is
\* cancelled, superseded or loses its tab it starts no script, sends no request
\* and asks for nothing to be stored, whatever it was waiting for; what a run
\* does, it does once and in order (current(), checked after every await).
Implements == R!Spec

\* A run is reported as cancelled only when it was: the end of an older run of
\* the same tab, or of another tab, never takes a live run's tab away.
OnlyStoppedRunsGiveUp == \A r \in Run : outcome[r] = "cancelled" => r \in cancelled

\* The request is resolved with what the first script set exactly when that is
\* on the disk, so that what was sent can be sent again (commit()).
RequestUsesSavedPatch ==
  \A r \in Run : R!Request \in issued[r] =>
                   (r \in usesPatch <=> Command(r, "prePatch") \in saved)

\* Every send ends: a tab does not stay on SENDING.
SendsEnd == \A t \in Tab : t \in sending ~> t \notin sending
=============================================================================
