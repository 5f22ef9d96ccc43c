------------------------- MODULE SendPipeline_proofs -------------------------
(***************************************************************************)
(* Proofs about SendPipeline, for any tabs and any runs: type correctness, *)
(* that only stopped runs give up, that a request is resolved with what is *)
(* saved, and that the pipeline implements Runs.                           *)
(***************************************************************************)
EXTENDS SendPipeline, SequenceTheorems, TLAPS

Pending == Stages \ {"unused", "done"}
Kinds   == {"prePatch", "postPatch", "history"}

\* The last effect that a run may have set off when it is at a stage.
Rank(s) ==
  CASE s \in {"unused", "trust"} -> 0
    [] s = "pre" -> 1
    [] s = "prePatch" -> 2
    [] s \in {"network", "settings"} -> 3
    [] s = "history" -> 4
    [] s = "post" -> 5
    [] s \in {"postPatch", "done"} -> 6

\* Handles and registry agree, but for tabs that were closed; an active run
\* that was not cancelled has both.
Owners ==
  /\ \A r \in Run : stage[r] # "unused" => tabOf[r] \in Tab
  /\ \A r \in Run : Active(r) /\ r \notin cancelled => registry[tabOf[r]] = r
  /\ \A r \in Run : Active(r) /\ r \notin cancelled => handle[tabOf[r]] = r
  /\ \A t \in Tab : registry[t] # NoRun => Active(registry[t]) /\ tabOf[registry[t]] = t
  /\ \A t \in Tab : handle[t] # NoRun => registry[t] = handle[t]
  /\ \A t \in Tab : registry[t] # NoRun /\ handle[t] = NoRun => registry[t] \in cancelled

\* Effects come in order.
Ordered == \A r \in Run : \A e \in issued[r] : e <= Rank(stage[r])

\* A run waits for its command, and for one at a time.
Waiting ==
  /\ \A i \in DOMAIN queue : stage[queue[i].run] = queue[i].kind
  /\ \A i, j \in DOMAIN queue : queue[i].run = queue[j].run => i = j

\* What the first script set is saved before the request uses it.
Patched ==
  \A r \in Run :
    /\ stage[r] \in {"unused", "trust", "pre", "prePatch"} =>
         r \notin usesPatch /\ Command(r, "prePatch") \notin saved
    /\ R!Request \in issued[r] => (r \in usesPatch <=> Command(r, "prePatch") \in saved)

IInv == TypeOK /\ Owners /\ Ordered /\ Waiting /\ Patched /\ OnlyStoppedRunsGiveUp

-----------------------------------------------------------------------------
(* The forms that the step of a run takes. *)

Ends(r) ==
  /\ \E o \in Outcomes \ {"none"} : (o = "cancelled" => ~Current(r)) /\ Finish(r, o)
  /\ UNCHANGED usesPatch

Advances(r, next) ==
  /\ Current(r)
  /\ Rank(stage[r]) < Rank(next)
  /\ Await(r, next, Rank(next)) /\ UNCHANGED answer

AnswerStep(r) ==
  /\ stage[r] = "network"
  /\ stage' = [stage EXCEPT ![r] = "settings"]
  /\ \E a \in {"response", "error"} : answer' = [answer EXCEPT ![r] = a]
  /\ UNCHANGED <<ownerVars, tabOf, scripts, outcome, issued, usesPatch, diskVars>>

\* What happens to the queue and the disk meanwhile.
Loses ==
  /\ faults > 0 /\ faults' = faults - 1
  /\ UNCHANGED <<queue, saved, rows>>

Asks(r, kind) ==
  /\ queue' = Append(queue, Command(r, kind))
  /\ UNCHANGED <<saved, rows, faults>>

Takes(r) ==
  /\ queue # <<>> /\ Head(queue).run = r
  /\ queue' = Tail(queue)
  /\ saved' \in {saved, saved \cup {Head(queue)}}
  /\ rows' \in {rows, Append(rows, r)}
  /\ \/ faults' = faults
     \/ faults > 0 /\ faults' = faults - 1

Idle(r) == stage[r] \notin Kinds /\ (UNCHANGED diskVars \/ Loses)

EndStep(r) == Ends(r) /\ (Idle(r) \/ Takes(r))

AskStep(r) ==
  \E next \in Kinds :
    /\ stage[r] \notin Kinds
    /\ Advances(r, next) /\ Asks(r, next) /\ UNCHANGED usesPatch

ScriptStep(r) ==
  \E next \in {"pre", "post"} :
    Advances(r, next) /\ UNCHANGED usesPatch /\ (Idle(r) \/ Takes(r))

PlainRequestStep(r) ==
  /\ stage[r] \in {"trust", "pre"}
  /\ Advances(r, "network") /\ UNCHANGED <<usesPatch, diskVars>>

PatchedRequestStep(r) ==
  /\ stage[r] = "prePatch"
  /\ Advances(r, "network") /\ usesPatch' = usesPatch \cup {r}
  /\ Takes(r) /\ saved' = saved \cup {Command(r, "prePatch")}

Step(r) ==
  /\ Active(r)
  /\ \/ EndStep(r) \/ AskStep(r) \/ ScriptStep(r) \/ PlainRequestStep(r)
     \/ PatchedRequestStep(r) \/ AnswerStep(r)

\* The head of the queue is what its run waits for.
LEMMA HeadWaits ==
  ASSUME TypeOK, Waiting, queue # <<>>
  PROVE  /\ Head(queue) \in Commands
         /\ Head(queue) = Command(Head(queue).run, stage[Head(queue).run])
         /\ Head(queue).run \in Run
         /\ stage[Head(queue).run] \in Kinds
PROOF
<1>1. queue \in Seq(Commands) BY DEF TypeOK
<1>2. Head(queue) \in Commands BY <1>1, HeadTailProperties
<1>3. 1 \in DOMAIN queue /\ Head(queue) = queue[1] BY <1>1, LenProperties, EmptySeq, SMT
<1>4. stage[Head(queue).run] = Head(queue).kind BY <1>3 DEF Waiting
<1>5. QED BY <1>2, <1>4 DEF Commands, Command, Kinds

\* The action of a stage is a step of its run.
LEMMA StageIsStep ==
  ASSUME TypeOK, NEW r \in Run, Stage(r)
  PROVE  Step(r)
PROOF
<1> USE DEF Idle, Kinds, Active, Rank
<1>1. CASE TrustRead(r)
  <2>1. stage[r] = "trust" /\ UNCHANGED diskVars BY <1>1 DEF TrustRead
  <2>2. CASE GiveUp(r)
    BY <2>1, <2>2 DEF GiveUp, Step, EndStep, Ends, Outcomes
  <2>3. CASE Current(r) /\ Finish(r, "failed") /\ UNCHANGED usesPatch
    BY <2>1, <2>3 DEF Step, EndStep, Ends, Outcomes
  <2>4. CASE Current(r) /\ RunScript(r, "pre", R!PreScript)
    BY <2>1, <2>4 DEF RunScript, Step, ScriptStep, Advances, R!PreScript
  <2>5. CASE Current(r) /\ SendHttp(r, FALSE)
    BY <2>1, <2>5 DEF SendHttp, Resolve, Step, PlainRequestStep, Advances, R!Request
  <2>6. QED BY <1>1, <2>2, <2>3, <2>4, <2>5 DEF TrustRead
<1>2. CASE PreScriptEnds(r)
  <2>1. stage[r] = "pre" BY <1>2 DEF PreScriptEnds
  <2>2. CASE GiveUp(r) /\ UNCHANGED diskVars
    BY <2>1, <2>2 DEF GiveUp, Step, EndStep, Ends, Outcomes
  <2>3. CASE Current(r) /\ Finish(r, "failed") /\ UNCHANGED <<usesPatch, diskVars>>
    BY <2>1, <2>3 DEF Step, EndStep, Ends, Outcomes
  <2>4. CASE Current(r) /\ Ask(r, "prePatch", R!PrePatch)
    BY <2>1, <2>4 DEF Ask, Asks, Step, AskStep, Advances, R!PrePatch
  <2>5. CASE Current(r) /\ SendHttp(r, FALSE) /\ UNCHANGED diskVars
    BY <2>1, <2>5 DEF SendHttp, Resolve, Step, PlainRequestStep, Advances, R!Request
  <2>6. QED BY <1>2, <2>2, <2>3, <2>4, <2>5 DEF PreScriptEnds
<1>3. CASE SettingsRead(r)
  <2>1. stage[r] = "settings" BY <1>3 DEF SettingsRead
  <2>2. CASE Current(r) /\ Ask(r, "history", R!History)
    BY <2>1, <2>2 DEF Ask, Asks, Step, AskStep, Advances, R!History
  <2>3. CASE GoOn(r) /\ (UNCHANGED diskVars \/ Loses)
    <3>1. CASE GiveUp(r)
      BY <2>1, <2>3, <3>1 DEF GiveUp, Step, EndStep, Ends, Outcomes
    <3>2. CASE Current(r) /\ Finish(r, "error") /\ UNCHANGED usesPatch
      BY <2>1, <2>3, <3>2 DEF Step, EndStep, Ends, Outcomes
    <3>3. CASE Current(r) /\ RunScript(r, "post", R!PostScript)
      BY <2>1, <2>3, <3>3 DEF RunScript, Step, ScriptStep, Advances, R!PostScript
    <3>4. CASE Current(r) /\ Finish(r, "response") /\ UNCHANGED usesPatch
      BY <2>1, <2>3, <3>4 DEF Step, EndStep, Ends, Outcomes
    <3>5. QED BY <2>3, <3>1, <3>2, <3>3, <3>4 DEF GoOn
  <2>4. QED BY <1>3, <2>2, <2>3 DEF SettingsRead, Loses
<1>4. CASE PostScriptEnds(r)
  <2>1. stage[r] = "post" BY <1>4 DEF PostScriptEnds
  <2>2. CASE GiveUp(r) /\ UNCHANGED diskVars
    BY <2>1, <2>2 DEF GiveUp, Step, EndStep, Ends, Outcomes
  <2>3. CASE /\ Current(r) /\ \E o \in {"failed", "response"} : Finish(r, o)
             /\ UNCHANGED <<usesPatch, diskVars>>
    BY <2>1, <2>3 DEF Step, EndStep, Ends, Outcomes
  <2>4. CASE Current(r) /\ Ask(r, "postPatch", R!PostPatch)
    BY <2>1, <2>4 DEF Ask, Asks, Step, AskStep, Advances, R!PostPatch
  <2>5. QED BY <1>4, <2>2, <2>3, <2>4 DEF PostScriptEnds
<1>5. ASSUME NEW a \in {"response", "error"}, NetworkAnswers(r, a)
      PROVE  Step(r)
  <2>1. stage[r] = "network" BY <1>5 DEF NetworkAnswers
  <2>2. CASE GiveUp(r) /\ UNCHANGED <<answer, diskVars>>
    BY <2>1, <2>2 DEF GiveUp, Step, EndStep, Ends, Outcomes
  <2>3. CASE AnswerStep(r)
    BY <2>1, <2>3 DEF Step
  <2>4. QED BY <1>5, <2>2, <2>3 DEF NetworkAnswers, AnswerStep
<1>6. QED BY <1>1, <1>2, <1>3, <1>4, <1>5 DEF Stage

\* So is an answer of the worker.
LEMMA AnswerIsStep ==
  ASSUME TypeOK, Waiting, queue # <<>>, NEW ok \in BOOLEAN,
         Answered(Head(queue), ok), Takes(Head(queue).run),
         ok /\ Head(queue).kind # "history" => saved' = saved \cup {Head(queue)}
  PROVE  Step(Head(queue).run)
PROOF
<1> DEFINE c == Head(queue)
           r == c.run
<1>1. /\ c \in Commands /\ r \in Run
      /\ c = Command(r, stage[r]) /\ stage[r] \in Kinds /\ c.kind = stage[r]
  BY HeadWaits DEF Command
<1>2. Active(r) BY <1>1 DEF Active, Kinds
<1>3. Takes(r) OBVIOUS
<1> HIDE DEF c, r
<1>4. Answered(c, ok) BY DEF c
<1> SUFFICES Step(r) BY DEF r, c
<1>5. CASE GiveUp(r)
  BY <1>2, <1>3, <1>5 DEF GiveUp, Step, EndStep, Ends, Outcomes
<1>6. CASE \E o \in {"failed", "error", "response"} : Finish(r, o) /\ UNCHANGED usesPatch
  BY <1>2, <1>3, <1>6 DEF Step, EndStep, Ends, Outcomes
<1>7. CASE /\ c.kind = "history"
           /\ Current(r) /\ RunScript(r, "post", R!PostScript)
  BY <1>1, <1>2, <1>3, <1>7 DEF RunScript, Step, ScriptStep, Advances, Rank, R!PostScript
<1>8. CASE Current(r) /\ ok /\ c.kind = "prePatch" /\ SendHttp(r, TRUE)
  <2>1. saved' = saved \cup {Command(r, "prePatch")} BY <1>1, <1>8 DEF c
  <2>2. QED
    BY <1>1, <1>2, <1>3, <1>8, <2>1
    DEF SendHttp, Resolve, Step, PatchedRequestStep, Advances, Rank, R!Request
<1>9. QED
  <2>1. CASE c.kind = "history"
    <3>1. GoOn(r) BY <1>4, <2>1 DEF Answered, r
    <3>2. QED BY <2>1, <3>1, <1>5, <1>6, <1>7 DEF GoOn
  <2>2. CASE c.kind # "history"
    BY <1>4, <1>5, <1>6, <1>8, <2>2 DEF Answered, r
  <2>3. QED BY <2>1, <2>2

\* Every step but the user's is the step of a run.
LEMMA NextForms ==
  ASSUME TypeOK, Waiting, Next
  PROVE  User \/ \E r \in Run : Step(r)
PROOF
<1>1. CASE User BY <1>1
<1>2. CASE \E r \in Run : Stage(r) BY <1>2, StageIsStep
<1>3. CASE Execute
  <2>1. queue # <<>> /\ Answered(Head(queue), TRUE) BY <1>3 DEF Execute
  <2>2. Head(queue).run \in Run /\ Head(queue) \in Commands BY <2>1, HeadWaits
  <2>3. Takes(Head(queue).run) BY <1>3 DEF Execute, Takes
  <2>4. Head(queue).kind # "history" => saved' = saved \cup {Head(queue)}
    BY <1>3 DEF Execute
  <2>5. QED BY <2>1, <2>2, <2>3, <2>4, AnswerIsStep
<1>4. CASE Fail
  <2>1. queue # <<>> /\ Answered(Head(queue), FALSE) BY <1>4 DEF Fail
  <2>2. Head(queue).run \in Run BY <2>1, HeadWaits
  <2>3. Takes(Head(queue).run) BY <1>4 DEF Fail, Takes
  <2>4. QED BY <2>1, <2>2, <2>3, AnswerIsStep
<1>5. QED BY <1>1, <1>2, <1>3, <1>4 DEF Next

-----------------------------------------------------------------------------
(* Type correctness. *)

\* A step of the user keeps the types.
LEMMA UserTyped ==
  ASSUME TypeOK, User
  PROVE  TypeOK'
PROOF
<1> USE DEF TypeOK, diskVars, runVars, ownerVars
<1>1. ASSUME NEW t \in Tab, CancelRequest(t) PROVE TypeOK'
  BY <1>1 DEF CancelRequest
<1>2. ASSUME NEW t \in Tab, CloseTab(t) PROVE TypeOK'
  BY <1>2 DEF CloseTab
<1>3. ASSUME NEW t \in Tab, NEW r \in Run, NEW s \in SUBSET Scripts, Start(t, r, s)
      PROVE  TypeOK'
  <2>1. R!Request \in R!Effects BY DEF R!Request, R!Effects
  <2>2. issued' \in [Run -> SUBSET R!Effects] BY <1>3, <2>1 DEF Start
  <2>3. /\ handle' \in [Tab -> Run \cup {NoRun}]
        /\ registry' \in [Tab -> Run \cup {NoRun}]
        /\ cancelled' \subseteq Run /\ sending' \subseteq Tab
    BY <1>3 DEF Start
  <2>4. /\ tabOf' \in [Run -> Tab \cup {NoTab}]
        /\ scripts' \in [Run -> SUBSET Scripts]
        /\ stage' \in [Run -> Stages]
    BY <1>3 DEF Start, Stages
  <2>5. UNCHANGED <<answer, outcome, usesPatch, diskVars>> BY <1>3 DEF Start
  <2>6. QED BY <2>2, <2>3, <2>4, <2>5
<1>4. QED BY <1>1, <1>2, <1>3 DEF User

\* So does a step of a run.
LEMMA StepTyped ==
  ASSUME TypeOK, Waiting, NEW r \in Run, Step(r)
  PROVE  TypeOK'
PROOF
<1> DEFINE Typed ==
             /\ handle' \in [Tab -> Run \cup {NoRun}]
             /\ registry' \in [Tab -> Run \cup {NoRun}]
             /\ cancelled' \subseteq Run /\ sending' \subseteq Tab
             /\ tabOf' \in [Run -> Tab \cup {NoTab}]
             /\ scripts' \in [Run -> SUBSET Scripts]
             /\ stage' \in [Run -> Stages]
             /\ answer' \in [Run -> Answers]
             /\ outcome' \in [Run -> Outcomes]
             /\ issued' \in [Run -> SUBSET R!Effects]
           DiskTyped ==
             /\ queue' \in Seq(Commands) /\ saved' \subseteq Commands
             /\ rows' \in Seq(Run) /\ faults' \in 0..MaxFaults
<1>1. ASSUME Ends(r) PROVE Typed
  <2>1. PICK o \in Outcomes \ {"none"} : Finish(r, o) BY <1>1 DEF Ends
  <2>2. QED BY <2>1 DEF TypeOK, Finish, Freed, Stages
<1>2. ASSUME NEW next \in Pending, Advances(r, next) PROVE Typed
  <2>1. Rank(next) \in R!Effects
    BY <1>2 DEF Advances, Rank, R!Effects, Pending, Stages, TypeOK
  <2>2. QED BY <1>2, <2>1 DEF TypeOK, Advances, Await, Pending, ownerVars
<1>3. ASSUME AnswerStep(r) PROVE Typed
  BY <1>3 DEF TypeOK, AnswerStep, ownerVars, Stages, Answers
<1>4. Typed
  BY <1>1, <1>2, <1>3
  DEF Step, EndStep, AskStep, ScriptStep, PlainRequestStep, PatchedRequestStep,
      Pending, Stages, Kinds
<1>5. usesPatch' \subseteq Run
  BY DEF TypeOK, Step, EndStep, AskStep, ScriptStep, PlainRequestStep,
         PatchedRequestStep, AnswerStep, Ends
<1>6. CASE UNCHANGED diskVars
  BY <1>4, <1>5, <1>6 DEF TypeOK, diskVars
<1>7. CASE Loses
  <2>1. faults' \in 0..MaxFaults BY <1>7, PipelineAssumption DEF TypeOK, Loses
  <2>2. QED BY <1>4, <1>5, <1>7, <2>1 DEF TypeOK, Loses
<1>8. CASE Takes(r)
  <2>1. Head(queue) \in Commands /\ queue' \in Seq(Commands)
    BY <1>8, HeadTailProperties DEF TypeOK, Takes
  <2>2. rows' \in Seq(Run)
    <3>1. rows \in Seq(Run) /\ Append(rows, r) \in Seq(Run)
      BY AppendProperties DEF TypeOK
    <3>2. QED BY <1>8, <3>1 DEF Takes
  <2>3. saved' \subseteq Commands BY <1>8, <2>1 DEF TypeOK, Takes
  <2>4. faults' \in 0..MaxFaults BY <1>8, PipelineAssumption DEF TypeOK, Takes
  <2>5. QED BY <1>4, <1>5, <2>1, <2>2, <2>3, <2>4 DEF TypeOK
<1>9. ASSUME NEW kind \in Kinds, Asks(r, kind) PROVE TypeOK'
  <2>1. Command(r, kind) \in Commands BY DEF Command, Commands, Kinds
  <2>2. queue' \in Seq(Commands) BY <1>9, <2>1, AppendProperties DEF TypeOK, Asks
  <2>3. QED BY <1>4, <1>5, <1>9, <2>2 DEF TypeOK, Asks
<1>10. QED
  BY <1>6, <1>7, <1>8, <1>9
  DEF Step, EndStep, AskStep, ScriptStep, PlainRequestStep, PatchedRequestStep,
      AnswerStep, Idle, diskVars

-----------------------------------------------------------------------------
(* Who owns a tab. *)

\* What the user does preserves who owns a tab,
LEMMA UserOwners ==
  ASSUME TypeOK, Owners, User
  PROVE  Owners'
PROOF
<1>1. ASSUME NEW t \in Tab, CancelRequest(t) PROVE Owners'
  BY <1>1 DEF TypeOK, Owners, CancelRequest, Active, runVars
<1>2. ASSUME NEW t \in Tab, CloseTab(t) PROVE Owners'
  BY <1>2 DEF TypeOK, Owners, CloseTab, Active, runVars
<1>3. ASSUME NEW t \in Tab, NEW r \in Run, NEW s \in SUBSET Scripts, Start(t, r, s)
      PROVE  Owners'
  <2> DEFINE next == IF s = {} THEN "network" ELSE "trust"
  <2>1. /\ stage[r] = "unused"
        /\ cancelled' = cancelled \cup ({handle[t]} \ {NoRun})
        /\ handle' = [handle EXCEPT ![t] = r]
        /\ registry' = [registry EXCEPT ![t] = r]
        /\ tabOf' = [tabOf EXCEPT ![r] = t]
        /\ stage' = [stage EXCEPT ![r] = next]
        /\ next \notin {"unused", "done"}
    BY <1>3 DEF Start
  <2>2. r # NoRun BY PipelineAssumption
  <2>3. \A q \in Run : q # r => stage'[q] = stage[q] /\ tabOf'[q] = tabOf[q]
    BY <2>1 DEF TypeOK
  <2>4. tabOf'[r] = t /\ registry'[t] = r /\ handle'[t] = r /\ Active(r)'
    BY <2>1 DEF TypeOK, Active
  <2>5. \A u \in Tab : u # t => registry'[u] = registry[u] /\ handle'[u] = handle[u]
    BY <2>1 DEF TypeOK
  <2>6. \A q \in Run : stage'[q] # "unused" => tabOf'[q] \in Tab
    BY <2>3, <2>4 DEF Owners
  <2>7. ASSUME NEW q \in Run, Active(q)', q \notin cancelled', q # r
        PROVE  tabOf'[q] # t /\ tabOf'[q] = tabOf[q] /\ tabOf[q] \in Tab
               /\ registry[tabOf[q]] = q /\ handle[tabOf[q]] = q
    <3>1. Active(q) /\ q \notin cancelled BY <2>1, <2>3, <2>7 DEF Active
    <3>2. tabOf[q] \in Tab /\ registry[tabOf[q]] = q /\ handle[tabOf[q]] = q
      BY <3>1 DEF Owners, Active
    <3>3. handle[t] # q BY <2>1, <2>7, PipelineAssumption
    <3>4. QED BY <2>3, <2>7, <3>2, <3>3
  <2>8. ASSUME NEW u \in Tab, registry'[u] # NoRun
        PROVE  stage'[registry'[u]] \notin {"unused", "done"} /\ tabOf'[registry'[u]] = u
    <3>1. CASE u = t BY <2>4, <3>1 DEF Active
    <3>2. CASE u # t
      <4>1. registry'[u] = registry[u] /\ registry[u] \in Run
        BY <2>5, <2>8, <3>2 DEF TypeOK
      <4>2. Active(registry[u]) /\ tabOf[registry[u]] = u BY <2>8, <4>1 DEF Owners
      <4>3. registry[u] # r BY <2>1, <4>2 DEF Active
      <4>4. QED BY <2>3, <4>1, <4>2, <4>3 DEF Active
    <3>3. QED BY <3>1, <3>2
  <2>9. \A u \in Tab : handle'[u] # NoRun => registry'[u] = handle'[u]
    BY <2>4, <2>5 DEF Owners
  <2>10. \A u \in Tab : registry'[u] # NoRun /\ handle'[u] = NoRun
                          => registry'[u] \in cancelled'
    BY <2>1, <2>2, <2>4, <2>5 DEF Owners
  <2>11. QED BY <2>4, <2>5, <2>6, <2>7, <2>8, <2>9, <2>10 DEF Owners, Active
<1>4. QED BY <1>1, <1>2, <1>3 DEF User

\* A run that ends frees what it owns.
LEMMA EndsOwners ==
  ASSUME TypeOK, Owners, NEW r \in Run, Active(r), Ends(r)
  PROVE  Owners'
PROOF
<1>1. PICK o \in Outcomes : Finish(r, o) BY DEF Ends
<1>2. /\ tabOf[r] \in Tab /\ stage' = [stage EXCEPT ![r] = "done"]
      /\ UNCHANGED <<cancelled, tabOf>>
  BY <1>1 DEF Finish, Owners, Active
<1>3. \A t \in Tab :
        /\ registry'[t] = IF t = tabOf[r] /\ registry[t] = r THEN NoRun ELSE registry[t]
        /\ handle'[t] = IF t = tabOf[r] /\ handle[t] = r THEN NoRun ELSE handle[t]
  BY <1>1, <1>2 DEF Finish, Freed, TypeOK
<1>4. \A q \in Run : q # r => (Active(q)' <=> Active(q)) /\ stage'[q] = stage[q]
  BY <1>2 DEF TypeOK, Active
<1>5. ~Active(r)' /\ r # NoRun BY <1>2, PipelineAssumption DEF TypeOK, Active
<1>6. \A q \in Run : stage'[q] # "unused" => tabOf'[q] \in Tab
  BY <1>2, <1>4 DEF Owners
<1>7. ASSUME NEW q \in Run, Active(q)', q \notin cancelled'
      PROVE  registry'[tabOf'[q]] = q /\ handle'[tabOf'[q]] = q
  <2>1. q # r /\ Active(q) /\ q \notin cancelled /\ stage[q] # "unused"
    BY <1>2, <1>4, <1>5, <1>7 DEF Active
  <2>2. tabOf[q] \in Tab /\ registry[tabOf[q]] = q /\ handle[tabOf[q]] = q
    BY <2>1 DEF Owners
  <2>3. QED BY <1>2, <1>3, <2>1, <2>2
<1>8. ASSUME NEW t \in Tab, registry'[t] # NoRun
      PROVE  stage'[registry'[t]] \notin {"unused", "done"} /\ tabOf'[registry'[t]] = t
  <2>1. registry'[t] = registry[t] /\ registry[t] \in Run
    BY <1>3, <1>8 DEF TypeOK
  <2>2. Active(registry[t]) /\ tabOf[registry[t]] = t BY <1>8, <2>1 DEF Owners
  <2>3. registry[t] # r BY <1>3, <1>5, <1>8, <2>1, <2>2
  <2>4. QED BY <1>2, <1>4, <2>1, <2>2, <2>3 DEF Active
<1>9. \A t \in Tab : handle'[t] # NoRun => registry'[t] = handle'[t]
  BY <1>3 DEF Owners
<1>10. \A t \in Tab : registry'[t] # NoRun /\ handle'[t] = NoRun
                        => registry'[t] \in cancelled'
  BY <1>2, <1>3, <1>5 DEF Owners
<1>11. QED BY <1>6, <1>7, <1>8, <1>9, <1>10 DEF Owners, Active

\* and so does every step of a run.
LEMMA StepOwners ==
  ASSUME TypeOK, Owners, NEW r \in Run, Step(r)
  PROVE  Owners'
PROOF
<1>1. Active(r) BY DEF Step
<1>2. CASE Ends(r) BY <1>1, <1>2, EndsOwners
<1>3. CASE ~Ends(r)
  <2>1. UNCHANGED <<ownerVars, tabOf>>
    BY <1>3 DEF Step, EndStep, AskStep, ScriptStep, PlainRequestStep,
                PatchedRequestStep, AnswerStep, Advances, Await
  <2>2. PICK next \in Pending : stage' = [stage EXCEPT ![r] = next]
    BY <1>3 DEF Step, EndStep, AskStep, ScriptStep, PlainRequestStep,
                PatchedRequestStep, AnswerStep, Advances, Await, Pending, Stages, Kinds
  <2>3. \A q \in Run : Active(q)' <=> Active(q)
    BY <1>1, <2>2 DEF TypeOK, Active, Pending
  <2>4. \A q \in Run : stage'[q] = "unused" <=> stage[q] = "unused"
    BY <1>1, <2>2 DEF TypeOK, Active, Pending
  <2>5. \A t \in Tab : registry[t] # NoRun => registry[t] \in Run BY DEF TypeOK
  <2>6. QED BY <2>1, <2>3, <2>4, <2>5 DEF Owners, ownerVars
<1>4. QED BY <1>2, <1>3

-----------------------------------------------------------------------------
(* The order of the effects. *)

\* What the user does sets nothing off,
LEMMA UserOrdered ==
  ASSUME TypeOK, Ordered, User
  PROVE  Ordered'
PROOF
<1>1. ASSUME NEW t \in Tab, CancelRequest(t) \/ CloseTab(t) PROVE Ordered'
  BY <1>1 DEF Ordered, CancelRequest, CloseTab, runVars
<1>2. ASSUME NEW t \in Tab, NEW r \in Run, NEW s \in SUBSET Scripts, Start(t, r, s)
      PROVE  Ordered'
  <2>1. /\ stage' = [stage EXCEPT ![r] = IF s = {} THEN "network" ELSE "trust"]
        /\ issued' = [issued EXCEPT ![r] = IF s = {} THEN {R!Request} ELSE {}]
    BY <1>2 DEF Start
  <2>2. ASSUME NEW e \in issued'[r] PROVE e <= Rank(stage'[r])
    BY <2>1, <2>2 DEF TypeOK, Rank, R!Request
  <2>3. ASSUME NEW q \in Run, q # r, NEW e \in issued'[q] PROVE e <= Rank(stage'[q])
    BY <2>1, <2>3 DEF TypeOK, Ordered
  <2>4. QED BY <2>2, <2>3 DEF Ordered
<1>3. QED BY <1>1, <1>2 DEF User

\* and a step of a run nothing beyond its stage.
LEMMA StepOrdered ==
  ASSUME TypeOK, Ordered, NEW r \in Run, Step(r)
  PROVE  Ordered'
PROOF
<1>1. CASE Ends(r)
  <2>1. PICK o \in Outcomes : Finish(r, o) BY <1>1 DEF Ends
  <2>2. stage' = [stage EXCEPT ![r] = "done"] /\ UNCHANGED issued
    BY <2>1 DEF Finish
  <2>3. \A e \in issued[r] : e <= 6 BY DEF TypeOK, R!Effects
  <2>4. QED BY <2>2, <2>3 DEF TypeOK, Ordered, Rank
<1>2. ASSUME NEW next \in Pending, Advances(r, next) PROVE Ordered'
  <2>1. /\ stage' = [stage EXCEPT ![r] = next]
        /\ issued' = [issued EXCEPT ![r] = @ \cup {Rank(next)}]
        /\ Rank(stage[r]) < Rank(next)
    BY <1>2 DEF Advances, Await
  <2>2. Rank(stage[r]) \in Nat /\ Rank(next) \in Nat
    BY DEF Rank, TypeOK, Stages, Pending
  <2>3. ASSUME NEW e \in issued'[r] PROVE e <= Rank(stage'[r])
    <3>1. e \in issued[r] \/ e = Rank(next) BY <2>1, <2>3 DEF TypeOK
    <3>2. e \in issued[r] => e <= Rank(stage[r]) /\ e \in Nat
      <4>1. issued[r] \in SUBSET R!Effects BY DEF TypeOK
      <4>2. R!Effects \subseteq Nat BY DEF R!Effects
      <4>3. QED BY <4>1, <4>2 DEF Ordered
    <3>3. stage'[r] = next BY <2>1 DEF TypeOK
    <3>4. QED BY <2>1, <2>2, <3>1, <3>2, <3>3
  <2>4. ASSUME NEW q \in Run, q # r, NEW e \in issued'[q] PROVE e <= Rank(stage'[q])
    BY <2>1, <2>4 DEF TypeOK, Ordered
  <2>5. QED BY <2>3, <2>4 DEF Ordered
<1>3. CASE AnswerStep(r)
  BY <1>3 DEF TypeOK, Ordered, AnswerStep, Rank
<1>4. QED
  BY <1>1, <1>2, <1>3
  DEF Step, EndStep, AskStep, ScriptStep, PlainRequestStep, PatchedRequestStep,
      Pending, Stages, Kinds

-----------------------------------------------------------------------------
(* The commands in the queue. *)

\* The commands on their way are commands of runs.
LEMMA QueueTyped ==
  ASSUME TypeOK
  PROVE  /\ queue \in Seq(Commands)
         /\ DOMAIN queue = 1..Len(queue) /\ Len(queue) \in Nat
         /\ \A i \in DOMAIN queue : queue[i] \in Commands /\ queue[i].run \in Run
PROOF
<1>1. queue \in Seq(Commands) BY DEF TypeOK
<1>2. /\ DOMAIN queue = 1..Len(queue) /\ Len(queue) \in Nat
      /\ queue \in [1..Len(queue) -> Commands]
  BY <1>1, LenProperties
<1>3. QED BY <1>1, <1>2 DEF Commands

\* What the user does leaves the commands with the runs that wait for them,
LEMMA UserWaiting ==
  ASSUME TypeOK, Waiting, User
  PROVE  Waiting'
PROOF
<1>1. ASSUME NEW t \in Tab, CancelRequest(t) \/ CloseTab(t) PROVE Waiting'
  BY <1>1 DEF Waiting, CancelRequest, CloseTab, runVars, diskVars
<1>2. ASSUME NEW t \in Tab, NEW r \in Run, NEW s \in SUBSET Scripts, Start(t, r, s)
      PROVE  Waiting'
  <2>1. /\ stage[r] = "unused" /\ UNCHANGED queue
        /\ stage' = [stage EXCEPT ![r] = IF s = {} THEN "network" ELSE "trust"]
    BY <1>2 DEF Start, diskVars
  <2>2. \A i \in DOMAIN queue : queue[i] \in Commands /\ queue[i].run # r
    BY <2>1, QueueTyped DEF Waiting, Commands
  <2>3. QED BY <2>1, <2>2, QueueTyped DEF Waiting, TypeOK
<1>3. QED BY <1>1, <1>2 DEF User

\* and so does every step of a run.
LEMMA StepWaiting ==
  ASSUME TypeOK, Waiting, NEW r \in Run, Step(r)
  PROVE  Waiting'
PROOF
<1>1. /\ queue \in Seq(Commands) /\ DOMAIN queue = 1..Len(queue) /\ Len(queue) \in Nat
      /\ \A i \in DOMAIN queue : queue[i] \in Commands /\ queue[i].run \in Run
  BY QueueTyped
<1>2. \A q \in Run : q # r => stage'[q] = stage[q]
  BY DEF TypeOK, Step, EndStep, AskStep, ScriptStep, PlainRequestStep,
         PatchedRequestStep, AnswerStep, Advances, Await, Ends, Finish
<1>3. ASSUME stage[r] \notin Kinds
      PROVE  \A i \in DOMAIN queue : queue[i].run # r
  BY <1>1, <1>3 DEF Waiting, Commands, Kinds
<1>4. CASE stage[r] \notin Kinds /\ UNCHANGED queue
  BY <1>1, <1>2, <1>3, <1>4 DEF Waiting
<1>5. CASE Takes(r)
  <2>1. queue # <<>> /\ queue' = Tail(queue) /\ Head(queue).run = r
    BY <1>5 DEF Takes
  <2>2. /\ Len(queue') = Len(queue) - 1 /\ DOMAIN queue' = 1..(Len(queue) - 1)
        /\ \A i \in DOMAIN queue' : queue'[i] = queue[i + 1]
    BY <1>1, <2>1, HeadTailProperties, LenProperties
  <2>3. queue[1].run = r /\ 1 \in DOMAIN queue BY <1>1, <2>1, EmptySeq
  <2>4. \A i \in DOMAIN queue' : i + 1 \in DOMAIN queue /\ i + 1 # 1
    BY <1>1, <2>2
  <2>5. \A i \in DOMAIN queue' : queue'[i].run # r
    BY <2>2, <2>3, <2>4 DEF Waiting
  <2>6. \A i \in DOMAIN queue' : stage'[queue'[i].run] = queue'[i].kind
    BY <1>1, <1>2, <2>2, <2>4, <2>5 DEF Waiting
  <2>7. ASSUME NEW i \in DOMAIN queue', NEW j \in DOMAIN queue',
               queue'[i].run = queue'[j].run
        PROVE  i = j
    <3>1. i + 1 = j + 1 BY <2>2, <2>4, <2>7 DEF Waiting
    <3>2. i \in Int /\ j \in Int BY <1>1, <2>2
    <3>3. QED BY <3>1, <3>2
  <2>8. QED BY <2>6, <2>7 DEF Waiting
<1>6. CASE AskStep(r)
  <2>1. PICK next \in Kinds :
          /\ stage[r] \notin Kinds
          /\ stage' = [stage EXCEPT ![r] = next]
          /\ queue' = Append(queue, Command(r, next))
    BY <1>6 DEF AskStep, Advances, Await, Asks
  <2> DEFINE n == Len(queue) + 1
  <2>2. /\ Command(r, next) \in Commands
        /\ Command(r, next).run = r /\ Command(r, next).kind = next
    BY DEF Command, Commands, Kinds
  <2>3. /\ DOMAIN queue' = 1..n
        /\ queue'[n] = Command(r, next)
        /\ \A i \in 1..Len(queue) : queue'[i] = queue[i]
    BY <1>1, <2>1, <2>2, AppendProperties, LenProperties
  <2>4. \A i \in 1..n : i = n \/ i \in DOMAIN queue BY <1>1
  <2>5. stage'[r] = next BY <2>1 DEF TypeOK
  <2>6. \A i \in DOMAIN queue' : stage'[queue'[i].run] = queue'[i].kind
    BY <1>1, <1>2, <1>3, <2>1, <2>2, <2>3, <2>4, <2>5 DEF Waiting
  <2>7. \A i, j \in DOMAIN queue' : queue'[i].run = queue'[j].run => i = j
    BY <1>1, <1>3, <2>1, <2>2, <2>3, <2>4 DEF Waiting
  <2>8. QED BY <2>6, <2>7 DEF Waiting
<1>7. QED
  BY <1>4, <1>5, <1>6
  DEF Step, EndStep, ScriptStep, PlainRequestStep, PatchedRequestStep, AnswerStep,
      Idle, Loses, diskVars, Kinds

-----------------------------------------------------------------------------
(* The variables of the request. *)

\* What the user does saves nothing,
LEMMA UserPatched ==
  ASSUME TypeOK, Patched, User
  PROVE  Patched'
PROOF
<1>1. ASSUME NEW t \in Tab, CancelRequest(t) \/ CloseTab(t) PROVE Patched'
  BY <1>1 DEF Patched, CancelRequest, CloseTab, runVars, diskVars
<1>2. ASSUME NEW t \in Tab, NEW r \in Run, NEW s \in SUBSET Scripts, Start(t, r, s)
      PROVE  Patched'
  <2>1. /\ stage[r] = "unused" /\ UNCHANGED <<usesPatch, saved>>
        /\ stage' = [stage EXCEPT ![r] = IF s = {} THEN "network" ELSE "trust"]
        /\ issued' = [issued EXCEPT ![r] = IF s = {} THEN {R!Request} ELSE {}]
    BY <1>2 DEF Start, diskVars
  <2>2. r \notin usesPatch /\ Command(r, "prePatch") \notin saved
    BY <2>1 DEF Patched
  <2>3. QED BY <2>1, <2>2 DEF Patched, TypeOK
<1>3. QED BY <1>1, <1>2 DEF User

\* and a step of a run keeps its request in agreement with the disk.
LEMMA StepPatched ==
  ASSUME TypeOK, Ordered, Waiting, Patched, NEW r \in Run, Step(r)
  PROVE  Patched'
PROOF
<1>1. \A q \in Run : q # r => stage'[q] = stage[q] /\ issued'[q] = issued[q]
  BY DEF TypeOK, Step, EndStep, AskStep, ScriptStep, PlainRequestStep,
         PatchedRequestStep, AnswerStep, Advances, Await, Ends, Finish
<1>2. \A q \in Run : q # r => (q \in usesPatch' <=> q \in usesPatch)
  BY DEF Step, EndStep, AskStep, ScriptStep, PlainRequestStep, PatchedRequestStep,
         AnswerStep, Ends
<1>3. Takes(r) => Head(queue) = Command(r, stage[r]) /\ stage[r] \in Kinds
  BY HeadWaits DEF Takes
<1>4. \/ saved' = saved
      \/ saved' = saved \cup {Command(r, stage[r])} /\ stage[r] \in Kinds /\ Takes(r)
  BY <1>3
  DEF Step, EndStep, AskStep, ScriptStep, PlainRequestStep, PatchedRequestStep,
      AnswerStep, Idle, Loses, Asks, Takes, diskVars
<1>5. \A q \in Run : q # r => (Command(q, "prePatch") \in saved'
                                 <=> Command(q, "prePatch") \in saved)
  BY <1>4 DEF Command
<1>6. stage[r] # "prePatch" => (Command(r, "prePatch") \in saved'
                                 <=> Command(r, "prePatch") \in saved)
  BY <1>4 DEF Command
<1>7. stage[r] \in {"unused", "trust", "pre", "prePatch"} => R!Request \notin issued[r]
  BY DEF Ordered, Rank, R!Request
<1> DEFINE Own == /\ stage'[r] \in {"unused", "trust", "pre", "prePatch"} =>
                       r \notin usesPatch' /\ Command(r, "prePatch") \notin saved'
                  /\ R!Request \in issued'[r] =>
                       (r \in usesPatch' <=> Command(r, "prePatch") \in saved')
<1>8. ASSUME EndStep(r) PROVE Own
  <2>1. stage'[r] = "done" /\ issued'[r] = issued[r] /\ UNCHANGED usesPatch
    BY <1>8 DEF EndStep, Ends, Finish, TypeOK
  <2>2. QED BY <2>1, <1>6, <1>7 DEF Patched
<1>9. ASSUME AskStep(r) \/ ScriptStep(r) PROVE Own
  <2>1. PICK next \in Kinds \cup {"pre", "post"} :
          Advances(r, next) /\ UNCHANGED usesPatch
    BY <1>9 DEF AskStep, ScriptStep
  <2>2. stage'[r] = next /\ issued'[r] = issued[r] \cup {Rank(next)}
        /\ Rank(stage[r]) < Rank(next)
    BY <2>1 DEF Advances, Await, TypeOK
  <2>3. Rank(next) # R!Request BY DEF Rank, Kinds, R!Request
  <2>4. stage[r] = "prePatch" => next \notin {"pre", "prePatch"}
    BY <2>2 DEF Rank
  <2>5. next \in {"pre", "prePatch"} => stage[r] \in {"unused", "trust", "pre", "prePatch"}
    BY <2>2 DEF Rank, TypeOK, Stages
  <2>6. QED BY <2>1, <2>2, <2>3, <2>4, <2>5, <1>6, <1>7 DEF Patched, Kinds
<1>10. ASSUME PlainRequestStep(r) PROVE Own
  BY <1>6, <1>10 DEF PlainRequestStep, Advances, Await, Patched, TypeOK
<1>11. ASSUME PatchedRequestStep(r) PROVE Own
  BY <1>11 DEF PatchedRequestStep, Advances, Await, Patched, TypeOK
<1>12. ASSUME AnswerStep(r) PROVE Own
  BY <1>6, <1>12 DEF AnswerStep, Patched, TypeOK
<1>13. Own BY <1>8, <1>9, <1>10, <1>11, <1>12 DEF Step
<1>14. QED BY <1>1, <1>2, <1>5, <1>13 DEF Patched

-----------------------------------------------------------------------------
(* The invariant. *)

\* A run that gives up is not current, and that a run which was not cancelled
\* always is.
LEMMA StepGivesUp ==
  ASSUME TypeOK, Owners, OnlyStoppedRunsGiveUp, NEW r \in Run, Step(r)
  PROVE  OnlyStoppedRunsGiveUp'
PROOF
<1>1. UNCHANGED cancelled
  BY DEF Step, EndStep, AskStep, ScriptStep, PlainRequestStep, PatchedRequestStep,
         AnswerStep, Advances, Await, Ends, Finish, ownerVars
<1>2. CASE Ends(r)
  <2>1. PICK o \in Outcomes : (o = "cancelled" => ~Current(r)) /\ Finish(r, o)
    BY <1>2 DEF Ends
  <2>2. ~Current(r) => r \in cancelled
    BY DEF Current, Owners, Step
  <2>3. outcome' = [outcome EXCEPT ![r] = o] BY <2>1 DEF Finish
  <2>4. QED BY <1>1, <2>1, <2>2, <2>3 DEF OnlyStoppedRunsGiveUp, TypeOK
<1>3. CASE ~Ends(r)
  BY <1>1, <1>3
  DEF OnlyStoppedRunsGiveUp, Step, EndStep, AskStep, ScriptStep, PlainRequestStep,
      PatchedRequestStep, AnswerStep, Advances, Await
<1>4. QED BY <1>2, <1>3

\* What the user does makes no run give up that was not stopped.
LEMMA UserGivesUp ==
  ASSUME TypeOK, OnlyStoppedRunsGiveUp, User
  PROVE  OnlyStoppedRunsGiveUp'
  BY DEF User, CancelRequest, CloseTab, Start, runVars, OnlyStoppedRunsGiveUp

\* The invariant holds at the start.
LEMMA IInvInit == Init => IInv
PROOF
<1> SUFFICES ASSUME Init PROVE IInv OBVIOUS
<1> USE DEF Init
<1>1. TypeOK
  <2>1. <<>> \in Seq(Commands) /\ <<>> \in Seq(Run) BY EmptySeq
  <2>2. QED
    BY <2>1, PipelineAssumption DEF TypeOK, Stages, Answers, Outcomes
<1>2. Owners BY DEF Owners, Active
<1>3. Ordered BY DEF Ordered
<1>4. Waiting
  <2>1. DOMAIN queue = {} BY QueueTyped, <1>1, EmptySeq
  <2>2. QED BY <2>1 DEF Waiting
<1>5. Patched BY DEF Patched
<1>6. OnlyStoppedRunsGiveUp BY DEF OnlyStoppedRunsGiveUp
<1>7. QED BY <1>1, <1>2, <1>3, <1>4, <1>5, <1>6 DEF IInv

\* Every step preserves the invariant.
LEMMA IInvNext == IInv /\ [Next]_vars => IInv'
PROOF
<1> SUFFICES ASSUME IInv, [Next]_vars PROVE IInv' OBVIOUS
<1> USE DEF IInv
<1>1. CASE UNCHANGED vars
  <2>1. UNCHANGED <<handle, cancelled, registry, sending, tabOf, scripts, stage, answer,
                    outcome, issued, usesPatch, queue, saved, rows, faults>>
    BY <1>1 DEF vars, runVars, ownerVars, diskVars
  <2>2. TypeOK' BY <2>1 DEF TypeOK
  <2>3. Owners' BY <2>1 DEF Owners, Active
  <2>4. Ordered' /\ Waiting' /\ Patched' BY <2>1 DEF Ordered, Waiting, Patched
  <2>5. OnlyStoppedRunsGiveUp' BY <2>1 DEF OnlyStoppedRunsGiveUp
  <2>6. QED BY <2>2, <2>3, <2>4, <2>5
<1>2. CASE User
  BY <1>2, UserTyped, UserOwners, UserOrdered, UserWaiting, UserPatched, UserGivesUp
<1>3. ASSUME NEW r \in Run, Step(r) PROVE IInv'
  BY <1>3, StepTyped, StepOwners, StepOrdered, StepWaiting, StepPatched, StepGivesUp
<1>4. QED BY <1>1, <1>2, <1>3, NextForms

\* Every variable has its type.
THEOREM TypeCorrect == Spec => []TypeOK
PROOF
<1>1. IInv => TypeOK BY DEF IInv
<1>2. QED BY <1>1, IInvInit, IInvNext, PTL DEF Spec

\* A run is shown as cancelled only if it was cancelled, superseded or lost its
\* tab: whatever the other runs do, nobody takes a live run's tab away.
THEOREM NobodyLosesItsTab == Spec => []OnlyStoppedRunsGiveUp
PROOF
<1>1. IInv => OnlyStoppedRunsGiveUp BY DEF IInv
<1>2. QED BY <1>1, IInvInit, IInvNext, PTL DEF Spec

\* A request is resolved with what its script set exactly if that is saved.
THEOREM RequestsCanBeRepeated == Spec => []RequestUsesSavedPatch
PROOF
<1>1. IInv => RequestUsesSavedPatch BY DEF IInv, Patched, RequestUsesSavedPatch
<1>2. QED BY <1>1, IInvInit, IInvNext, PTL DEF Spec

-----------------------------------------------------------------------------
(* The pipeline implements Runs. *)

\* The pipeline starts as Runs does.
LEMMA InitMaps == Init => R!Init
  BY DEF Init, R!Init

\* What the user does is a step of Runs, or none,
LEMMA UserMaps ==
  ASSUME TypeOK, Owners, Ordered, User
  PROVE  R!Next \/ UNCHANGED R!vars
PROOF
<1> DEFINE begun == {r \in Run : stage[r] # "unused"}
<1>1. ASSUME NEW t \in Tab, CancelRequest(t) \/ CloseTab(t)
      PROVE  R!Next \/ UNCHANGED R!vars
  <2>1. /\ cancelled' = cancelled \cup ({handle[t]} \ {NoRun})
        /\ UNCHANGED <<registry, issued, stage>>
    BY <1>1 DEF CancelRequest, CloseTab, runVars
  <2>2. begun' = begun BY <2>1
  <2>3. CASE handle[t] = NoRun BY <2>1, <2>2, <2>3 DEF R!vars
  <2>4. CASE handle[t] # NoRun
    <3>1. handle[t] \in Run BY <2>4 DEF TypeOK
    <3>2. R!Stop(handle[t]) BY <2>1, <2>2, <2>4 DEF R!Stop
    <3>3. QED BY <3>1, <3>2 DEF R!Next
  <2>5. QED BY <2>3, <2>4
<1>2. ASSUME NEW t \in Tab, NEW r \in Run, NEW s \in SUBSET Scripts, Start(t, r, s)
      PROVE  R!Next
  <2>1. /\ stage[r] = "unused"
        /\ stage' = [stage EXCEPT ![r] = IF s = {} THEN "network" ELSE "trust"]
        /\ cancelled' = cancelled \cup ({handle[t]} \ {NoRun})
        /\ registry' = [registry EXCEPT ![t] = r]
        /\ issued' = [issued EXCEPT ![r] = IF s = {} THEN {R!Request} ELSE {}]
    BY <1>2 DEF Start
  <2>2. r \notin begun /\ begun' = begun \cup {r} BY <2>1 DEF TypeOK
  <2>3. cancelled' = cancelled \cup ({registry[t]} \ {NoRun})
    BY <2>1 DEF Owners
  <2>4. issued[r] = {}
    <3>1. issued[r] \in SUBSET R!Effects BY DEF TypeOK
    <3>2. \A e \in issued[r] : e <= 0 BY <2>1 DEF Ordered, Rank
    <3>3. QED BY <3>1, <3>2 DEF R!Effects
  <2>5. issued' = issued \/ issued' = [issued EXCEPT ![r] = {R!Request}]
    BY <2>1, <2>4 DEF TypeOK
  <2>6. R!Begin(t, r) BY <2>1, <2>2, <2>3, <2>5 DEF R!Begin, R!Request
  <2>7. QED BY <2>6 DEF R!Next
<1>3. QED BY <1>1, <1>2 DEF User

\* and so is every step of a run.
LEMMA StepMaps ==
  ASSUME TypeOK, Owners, Ordered, NEW r \in Run, Step(r)
  PROVE  R!Next \/ UNCHANGED R!vars
PROOF
<1> DEFINE begun == {q \in Run : stage[q] # "unused"}
<1>1. stage[r] \notin {"unused", "done"} /\ tabOf[r] \in Tab
  BY DEF Step, Active, Owners
<1>2. CASE Ends(r)
  <2>1. PICK o \in Outcomes : Finish(r, o) BY <1>2 DEF Ends
  <2>2. /\ stage' = [stage EXCEPT ![r] = "done"]
        /\ registry' = Freed(registry, r)
        /\ UNCHANGED <<cancelled, issued>>
    BY <2>1 DEF Finish
  <2>3. begun' = begun BY <1>1, <2>2 DEF TypeOK
  <2>4. CASE registry[tabOf[r]] = r
    <3>1. R!End(tabOf[r], r) BY <2>2, <2>3, <2>4 DEF Freed, R!End
    <3>2. QED BY <1>1, <3>1 DEF R!Next
  <2>5. CASE registry[tabOf[r]] # r
    BY <2>2, <2>3, <2>5 DEF Freed, R!vars
  <2>6. QED BY <2>4, <2>5
<1>3. ASSUME NEW next \in Pending, Advances(r, next) PROVE R!Next
  <2>1. /\ stage' = [stage EXCEPT ![r] = next]
        /\ issued' = [issued EXCEPT ![r] = @ \cup {Rank(next)}]
        /\ UNCHANGED <<cancelled, registry>>
        /\ Rank(stage[r]) < Rank(next)
        /\ registry[tabOf[r]] = r /\ r \notin cancelled
    BY <1>3 DEF Advances, Await, Current, ownerVars
  <2>2. begun' = begun BY <1>1, <2>1 DEF TypeOK, Pending
  <2>3. /\ Rank(stage[r]) \in Nat /\ Rank(next) \in Nat /\ Rank(next) \in R!Effects
    BY <2>1 DEF Rank, TypeOK, Stages, Pending, R!Effects
  <2>4. ASSUME NEW f \in issued[r] PROVE f < Rank(next)
    <3>1. issued[r] \in SUBSET R!Effects BY DEF TypeOK
    <3>2. f \in Nat BY <3>1 DEF R!Effects
    <3>3. f <= Rank(stage[r]) BY DEF Ordered
    <3>4. QED BY <2>1, <2>3, <3>2, <3>3
  <2>5. R!Act(tabOf[r], r, Rank(next)) BY <2>1, <2>2, <2>4 DEF R!Act
  <2>6. QED BY <1>1, <2>3, <2>5 DEF R!Next
<1>4. CASE AnswerStep(r)
  <2>1. begun' = begun BY <1>4 DEF AnswerStep, TypeOK
  <2>2. QED BY <1>4, <2>1 DEF AnswerStep, ownerVars, R!vars
<1>5. QED
  BY <1>2, <1>3, <1>4
  DEF Step, EndStep, AskStep, ScriptStep, PlainRequestStep, PatchedRequestStep,
      Pending, Stages, Kinds

\* The pipeline implements Runs: the effects of a run come once, in order, and
\* only while it owns its tab and nobody has stopped it.
THEOREM PipelineImplementsRuns == Spec => Implements
PROOF
<1>1. IInv /\ [Next]_vars => [R!Next]_(R!vars)
  <2> SUFFICES ASSUME IInv, [Next]_vars PROVE R!Next \/ UNCHANGED R!vars OBVIOUS
  <2> USE DEF IInv
  <2>1. CASE UNCHANGED vars
    BY <2>1 DEF vars, runVars, ownerVars, R!vars
  <2>2. CASE User BY <2>2, UserMaps
  <2>3. ASSUME NEW r \in Run, Step(r) PROVE R!Next \/ UNCHANGED R!vars
    BY <2>3, StepMaps
  <2>4. QED BY <2>1, <2>2, <2>3, NextForms
<1>2. QED BY <1>1, InitMaps, IInvInit, IInvNext, PTL DEF Spec, Implements, R!Spec
=============================================================================
