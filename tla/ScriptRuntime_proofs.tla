------------------------ MODULE ScriptRuntime_proofs ------------------------
(***************************************************************************)
(* Proofs about ScriptRuntime, for any finite number of calls: controls    *)
(* outlive their users, no wake-up is lost, close() drains, and a status   *)
(* says why its script ended.                                              *)
(***************************************************************************)
EXTENDS ScriptRuntime, FiniteSetTheorems, SequenceTheorems, TLAPS

\* What the stage of a call says of everything else that is kept of it.
Kept(c) ==
  /\ stage[c] = "running" <=> control[c] = "live"
  /\ stage[c] = "running" <=> c \in stoppers
  /\ stage[c] = "running" <=> evaluation[c] # "none"
  /\ stage[c] = "running" => c \in running
  /\ c \in running => stage[c] \in {"running", "returned"}
  /\ listener[c] = "stop" => stage[c] = "running"
  /\ listener[c] = "wake" => stage[c] = "queued"
  /\ stage[c] \in {"queued", "running"} => loader = "ready"

\* A call waits in the queue, and hears of it when it is cancelled; one that was
\* stopped is on its way out.
Queued(c) ==
  /\ stage[c] = "queued" <=> c \in ToSet(queue)
  /\ stage[c] = "queued" /\ c \notin cancelled => listener[c] = "wake"
  /\ stage[c] = "queued" /\ Stopped(c) => c \in ToSet(woken)
  /\ c \in ToSet(woken) => stage[c] \in {"loading", "queued"}
  /\ stage[c] = "loading" => loader = "loading" \/ c \in ToSet(woken)
  /\ stage[c] = "loading" => loader # "none"

\* What the engine reports.
Told(c) ==
  /\ c \in flagged => c \in cancelled \/ closed
  /\ evaluation[c] = "ended" => /\ c \in refused => status[c] \in {Memory, Timeout, Cancelled}
                                /\ status[c] = Cancelled => c \in cancelled \/ closed

\* The slots are those of the calls that took one.
Counted == IsFiniteSet(running) /\ active = Cardinality(running)

\* A slot is free although somebody waits only while the one it is for goes on.
Handed ==
  queue # <<>> =>
    \/ active = Slots \/ closed
    \/ active = Slots - 1 /\ \E c \in ToSet(queue) : woken = <<c>> /\ ~Stopped(c)

\* How far close() is, and whom it waits for.
Draining ==
  /\ closed <=> drain # "open"
  /\ closed /\ loader = "loading" => drain = "loading"
  /\ drain = "loading" => loader = "loading"
  /\ drain = "waiting" => loader = "ready"
  /\ closed => \A c \in Call : stage[c] = "running" => c \in awaited
  /\ drain = "done" => \A c \in Call : stage[c] # "running"

IInv ==
  /\ TypeOK /\ Counted /\ Handed /\ Draining
  /\ \A c \in Call : Kept(c) /\ Queued(c) /\ Told(c)

-----------------------------------------------------------------------------
(* Sequences without repetitions. *)

\* The members of a sequence are its elements.
LEMMA Members ==
  ASSUME NEW S, NEW s \in Seq(S)
  PROVE  /\ ToSet(s) \subseteq S
         /\ s = <<>> <=> ToSet(s) = {}
         /\ \A x : Contains(s, x) <=> x \in ToSet(s)
         /\ s # <<>> => 1 \in DOMAIN s /\ Head(s) = s[1] /\ Head(s) \in ToSet(s)
<1>1. DOMAIN s = 1..Len(s) /\ Len(s) \in Nat OBVIOUS
<1>2. s # <<>> => Len(s) \in Nat \ {0} BY EmptySeq
<1>3. s # <<>> => 1 \in DOMAIN s /\ Head(s) = s[1] BY <1>1, <1>2
<1>4. ToSet(s) \subseteq S BY <1>1 DEF ToSet
<1>5. s = <<>> => ToSet(s) = {} BY DEF ToSet
<1>6. \A x : Contains(s, x) <=> x \in ToSet(s) BY <1>1 DEF Contains, ToSet
<1>7. s # <<>> => Head(s) \in ToSet(s) BY <1>3 DEF ToSet
<1> QED BY <1>3, <1>4, <1>5, <1>6, <1>7

\* Removing a place of a queue takes its element away and leaves the rest distinct,
LEMMA RemoveAtKeeps ==
  ASSUME NEW S, NEW s \in Seq(S), IsInjective(s), NEW i \in 1..Len(s)
  PROVE  /\ RemoveAt(s, i) \in Seq(S) /\ IsInjective(RemoveAt(s, i))
         /\ ToSet(RemoveAt(s, i)) = ToSet(s) \ {s[i]}
<1> DEFINE a == SubSeq(s, 1, i - 1)
           b == SubSeq(s, i + 1, Len(s))
           t == RemoveAt(s, i)
<1>1. /\ a \in Seq(S) /\ Len(a) = i - 1 /\ \A k \in 1..(i - 1) : a[k] = s[k]
      /\ b \in Seq(S) /\ Len(b) = Len(s) - i
      /\ \A k \in 1..(Len(s) - i) : b[k] = s[i + k]
  OBVIOUS
<1>2. Len(s) \in Nat \ {0} /\ i \in Nat /\ 1 <= i /\ i <= Len(s) /\ DOMAIN s = 1..Len(s)
  OBVIOUS
<1>3. t = a \o b BY DEF RemoveAt
<1> HIDE DEF a, b, t
<1>4. /\ t \in Seq(S) /\ Len(t) = Len(s) - 1
      /\ \A k \in 1..(Len(s) - 1) : t[k] = IF k < i THEN s[k] ELSE s[k + 1]
  <2>1. /\ t \in Seq(S) /\ Len(t) = Len(a) + Len(b)
        /\ \A k \in 1..(Len(a) + Len(b)) :
             t[k] = IF k <= Len(a) THEN a[k] ELSE b[k - Len(a)]
    BY <1>1, <1>3, ConcatProperties
  <2>2. Len(a) + Len(b) = Len(s) - 1 BY <1>1, <1>2
  <2>3. ASSUME NEW k \in 1..(Len(s) - 1)
        PROVE  t[k] = IF k < i THEN s[k] ELSE s[k + 1]
    <3>1. t[k] = IF k <= i - 1 THEN a[k] ELSE b[k - (i - 1)] BY <1>1, <2>1, <2>2
    <3>2. CASE k < i
      <4>1. k \in 1..(i - 1) BY <1>2, <3>2
      <4> QED BY <1>1, <3>1, <3>2, <4>1
    <3>3. CASE ~(k < i)
      <4>1. k - (i - 1) \in 1..(Len(s) - i) /\ i + (k - (i - 1)) = k + 1 BY <1>2, <3>3
      <4>2. ~(k <= i - 1) BY <1>2, <3>3
      <4> QED BY <1>1, <3>1, <3>3, <4>1, <4>2
    <3> QED BY <3>2, <3>3
  <2> QED BY <2>1, <2>2, <2>3
<1>5. DOMAIN t = 1..(Len(s) - 1) BY <1>2, <1>4
<1> DEFINE at(k) == IF k < i THEN k ELSE k + 1
<1>6. \A k \in DOMAIN t : at(k) \in DOMAIN s \ {i} /\ t[k] = s[at(k)]
  BY <1>2, <1>4, <1>5
<1>7. \A k, l \in DOMAIN t : at(k) = at(l) => k = l BY <1>2, <1>5
<1>8. \A j \in DOMAIN s \ {i} : \E k \in DOMAIN t : j = at(k)
  <2> SUFFICES ASSUME NEW j \in DOMAIN s \ {i} PROVE \E k \in DOMAIN t : j = at(k)
    OBVIOUS
  <2>1. CASE j < i
    <3>1. j \in DOMAIN t /\ j = at(j) BY <1>2, <1>5, <2>1
    <3> QED BY <3>1
  <2>2. CASE ~(j < i)
    <3>1. j - 1 \in DOMAIN t /\ j = at(j - 1) BY <1>2, <1>5, <2>2
    <3> QED BY <3>1
  <2> QED BY <2>1, <2>2
<1> HIDE DEF at
<1>9. IsInjective(t) BY <1>6, <1>7 DEF IsInjective
<1>10. ToSet(t) = ToSet(s) \ {s[i]}
  BY <1>2, <1>6, <1>8 DEF IsInjective, ToSet
<1> QED BY <1>4, <1>9, <1>10 DEF t

\* as does removing an element,
LEMMA RemoveFirstKeeps ==
  ASSUME NEW S, NEW s \in Seq(S), IsInjective(s), NEW e
  PROVE  /\ RemoveFirst(s, e) \in Seq(S) /\ IsInjective(RemoveFirst(s, e))
         /\ ToSet(RemoveFirst(s, e)) = ToSet(s) \ {e}
<1>0. DOMAIN s = 1..Len(s) OBVIOUS
<1>1. CASE ~ \E i \in 1..Len(s) : s[i] = e
  BY <1>0, <1>1 DEF RemoveFirst, ToSet
<1>2. CASE \E i \in 1..Len(s) : s[i] = e
  <2> PICK i \in 1..Len(s) : s[i] = e BY <1>2
  <2>1. {j \in 1..Len(s) : s[j] = e} = {i} BY <1>0 DEF IsInjective
  <2>2. Min({i}) = i BY DEF Min
  <2>3. SelectInSeq(s, LAMBDA v : v = e) = i BY <2>1, <2>2 DEF SelectInSeq
  <2>4. RemoveFirst(s, e) = RemoveAt(s, i) BY <1>2, <2>3 DEF RemoveFirst
  <2> QED BY <2>4, RemoveAtKeeps
<1> QED BY <1>1, <1>2

\* adding a new one,
LEMMA AppendKeeps ==
  ASSUME NEW S, NEW s \in Seq(S), IsInjective(s), NEW e \in S, e \notin ToSet(s)
  PROVE  /\ Append(s, e) \in Seq(S) /\ IsInjective(Append(s, e))
         /\ ToSet(Append(s, e)) = ToSet(s) \cup {e}
<1>1. /\ Append(s, e) \in Seq(S) /\ Len(s) \in Nat
      /\ DOMAIN Append(s, e) = 1..(Len(s) + 1) /\ DOMAIN s = 1..Len(s)
      /\ \A i \in 1..Len(s) : Append(s, e)[i] = s[i]
      /\ Append(s, e)[Len(s) + 1] = e
  OBVIOUS
<1>2. 1..(Len(s) + 1) = (1..Len(s)) \cup {Len(s) + 1} /\ Len(s) + 1 \notin 1..Len(s)
  BY <1>1
<1>3. \A i \in 1..Len(s) : s[i] # e BY <1>1 DEF ToSet
<1>4. IsInjective(Append(s, e)) BY <1>1, <1>2, <1>3 DEF IsInjective
<1>5. ToSet(Append(s, e)) = ToSet(s) \cup {e} BY <1>1, <1>2 DEF ToSet
<1> QED BY <1>1, <1>4, <1>5

\* and taking the first.
LEMMA TailKeeps ==
  ASSUME NEW S, NEW s \in Seq(S), IsInjective(s), s # <<>>
  PROVE  /\ Tail(s) \in Seq(S) /\ IsInjective(Tail(s))
         /\ ToSet(Tail(s)) = ToSet(s) \ {Head(s)}
<1>1. Len(s) \in Nat \ {0} /\ DOMAIN s = 1..Len(s) /\ 1 \in 1..Len(s)
  BY EmptySeq, LenProperties
<1>2. Head(s) = s[1] OBVIOUS
<1>3. RemoveAt(s, 1) = Tail(s)
  <2>1. SubSeq(s, 1, 0) = <<>> /\ SubSeq(s, 2, Len(s)) = Tail(s)
    BY SubSeqEmpty, TailIsSubSeq
  <2>2. Tail(s) \in Seq(S) BY HeadTailProperties
  <2>3. <<>> \o Tail(s) = Tail(s) BY <2>2, ConcatEmptySeq
  <2> QED BY <2>1, <2>3 DEF RemoveAt
<1>4. /\ RemoveAt(s, 1) \in Seq(S) /\ IsInjective(RemoveAt(s, 1))
      /\ ToSet(RemoveAt(s, 1)) = ToSet(s) \ {s[1]}
  BY <1>1, RemoveAtKeeps
<1> QED BY <1>2, <1>3, <1>4

\* A queue of one.
LEMMA Singleton ==
  ASSUME NEW S, NEW e \in S
  PROVE  /\ <<e>> \in Seq(S) /\ IsInjective(<<e>>) /\ ToSet(<<e>>) = {e}
         /\ <<e>> # <<>> /\ Head(<<e>>) = e
BY DEF IsInjective, ToSet

\* An empty queue.
LEMMA NoMembers == IsInjective(<<>>) /\ ToSet(<<>>) = {}
BY DEF IsInjective, ToSet

\* The sequences a set can be put into have its members, each once.
LEMMA SequencesOfSet ==
  ASSUME NEW S, IsFiniteSet(S), NEW s \in SetToSeqs(S)
  PROVE  s \in Seq(S) /\ IsInjective(s) /\ ToSet(s) = S
<1> DEFINE n == Cardinality(S)
<1>1. n \in Nat BY FS_CardinalityType
<1>2. s \in [1..n -> S] /\ IsInjective(s) BY DEF SetToSeqs, IsInjective
<1>3. s \in Seq(S) /\ DOMAIN s = 1..n BY <1>1, <1>2
<1>4. Cardinality(1..n) = n BY <1>1, FS_Interval
<1>5. s \in Injection(1..n, S) BY <1>2 DEF Injection
<1>6. s \in Surjection(1..n, S) BY <1>4, <1>5, FS_Injection
<1>7. ToSet(s) = S BY <1>2, <1>3, <1>6 DEF Surjection, ToSet
<1> QED BY <1>2, <1>3, <1>7

-----------------------------------------------------------------------------
(* A call that moves: it returns, joins the queue or takes a slot, either at *)
(* once or when it is woken.                                                 *)

Moved(c) ==
  /\ stage[c] \in {"unused", "loading", "queued"}
  /\ woken' \in Seq(Call) /\ IsInjective(woken') /\ ToSet(woken') = ToSet(woken) \ {c}
  /\ \A x : woken = <<x>> => x = c
  /\ UNCHANGED <<engine, loader, closeVars, cancelled, flagged, status, refused>>

Quits(c)  == Moved(c) /\ GiveUp(c) /\ (stage[c] = "queued" => Stopped(c))
Enters(c) == Moved(c) /\ loader = "ready" /\ ~Stopped(c) /\ Enter(c)
Moves(c)  == Quits(c) \/ Enters(c)

\* The first call, and those that come while the runtime is being loaded.
Loads(c) ==
  /\ Turn /\ stage[c] = "unused" /\ ~closed /\ loader \in {"none", "loading"}
  /\ loader' = "loading"
  /\ stage' = [stage EXCEPT ![c] = "loading"]
  /\ UNCHANGED <<engine, closeVars, cancelled, listener, slotVars, control, flagged, engineVars>>

\* A call that begins loads the source or moves.
LEMMA ExecuteMoves ==
  ASSUME IInv, NEW c \in Call, Execute(c)
  PROVE  Moves(c) \/ Loads(c)
<1>1. woken = <<>> /\ woken' = woken /\ stage[c] = "unused" BY DEF Execute, Turn
<1>2. woken' \in Seq(Call) /\ IsInjective(woken') /\ ToSet(woken') = ToSet(woken) \ {c}
  BY <1>1, NoMembers DEF IInv, TypeOK
<1>3. \A x : woken # <<x>> BY <1>1
<1>4. UNCHANGED <<engine, closeVars, cancelled, flagged, status, refused>> BY DEF Execute
<1>5. CASE UNCHANGED loader /\ GiveUp(c)
  BY <1>1, <1>2, <1>3, <1>4, <1>5 DEF Moves, Quits, Moved
<1>6. CASE UNCHANGED loader /\ loader = "ready" /\ ~Stopped(c) /\ Enter(c)
  BY <1>1, <1>2, <1>3, <1>4, <1>6 DEF Moves, Enters, Moved
<1>7. CASE /\ ~closed /\ loader \in {"none", "loading"}
           /\ loader' = "loading"
           /\ stage' = [stage EXCEPT ![c] = "loading"]
           /\ UNCHANGED <<listener, queue, active, running, stoppers, control, evaluation>>
  BY <1>1, <1>4, <1>7 DEF Loads, Turn, slotVars, engineVars
<1> QED BY <1>5, <1>6, <1>7 DEF Execute, Admit

\* A future that completes makes its call move.
LEMMA ResumeMoves ==
  ASSUME IInv, Resume
  PROVE  \E c \in Call : Moves(c)
<1> DEFINE c == Head(woken)
<1>1. woken \in Seq(Call) /\ IsInjective(woken) /\ woken # <<>> /\ woken' = Tail(woken)
  BY DEF IInv, TypeOK, Resume
<1>2. c \in Call /\ c \in ToSet(woken) BY <1>1, Members
<1>3. woken' \in Seq(Call) /\ IsInjective(woken') /\ ToSet(woken') = ToSet(woken) \ {c}
  BY <1>1, TailKeeps
<1>4. \A x : woken = <<x>> => x = c OBVIOUS
<1>5. stage[c] \in {"loading", "queued"} BY <1>2 DEF IInv, Queued
<1>6. UNCHANGED <<engine, loader, closeVars, cancelled, flagged, status, refused>> BY DEF Resume
<1>7. Moved(c) BY <1>3, <1>4, <1>5, <1>6 DEF Moved
<1>8. \/ GiveUp(c) /\ (stage[c] = "queued" => Stopped(c))
      \/ loader = "ready" /\ ~Stopped(c) /\ Enter(c)
  <2>1. stage[c] = "queued" => loader = "ready" BY <1>2 DEF IInv, Kept
  <2> QED BY <2>1 DEF Resume, Admit
<1>9. Moves(c) BY <1>7, <1>8 DEF Moves, Quits, Enters
<1> QED BY <1>2, <1>9

\* At most two slots are taken.
LEMMA SlotsLeft ==
  ASSUME IInv
  PROVE  \/ active = 0 \/ active = 1 \/ active = 2
BY DEF IInv, TypeOK, Slots

\* A move preserves the types,
LEMMA MoveTyped ==
  ASSUME IInv, NEW c \in Call, Moves(c)
  PROVE  TypeOK'
<1> DEFINE rest == RemoveFirst(queue, c)
<1>1. TypeOK /\ queue \in Seq(Call) /\ IsInjective(queue) BY DEF IInv, TypeOK
<1>2. /\ rest \in Seq(Call) /\ IsInjective(rest) /\ ToSet(rest) = ToSet(queue) \ {c}
      /\ Append(rest, c) \in Seq(Call) /\ IsInjective(Append(rest, c))
  BY <1>1, RemoveFirstKeeps, AppendKeeps
<1>3. Moved(c) BY DEF Moves, Quits, Enters
<1>4. /\ engine' \in BOOLEAN
      /\ loader' \in {"none", "loading", "ready", "broken"}
      /\ closed' \in BOOLEAN
      /\ drain' \in {"open", "loading", "waiting", "done"}
      /\ awaited' \subseteq Call /\ cancelled' \subseteq Call
      /\ flagged' \subseteq Call /\ refused' \subseteq Call
      /\ status' \in [Call -> Done..Output]
      /\ woken' \in Seq(Call) /\ IsInjective(woken')
  BY <1>1, <1>3 DEF Moved, TypeOK, closeVars
<1>5. CASE GiveUp(c)
  <2>1. /\ stage' \in [Call -> Stages] /\ listener' \in [Call -> {"none", "wake", "stop"}]
        /\ queue' = rest
        /\ UNCHANGED <<active, running, stoppers, control, evaluation>>
    BY <1>1, <1>5 DEF GiveUp, Return, TypeOK, Stages
  <2> QED BY <1>1, <1>2, <1>4, <2>1 DEF TypeOK
<1>6. CASE Wait(c)
  <2>1. /\ stage' \in [Call -> Stages] /\ listener' \in [Call -> {"none", "wake", "stop"}]
        /\ queue' = Append(rest, c)
        /\ UNCHANGED <<active, running, stoppers, control, evaluation>>
    BY <1>1, <1>6 DEF Wait, TypeOK, Stages
  <2> QED BY <1>1, <1>2, <1>4, <2>1 DEF TypeOK
<1>7. CASE active < Slots /\ TakeSlot(c)
  <2>1. /\ stage' \in [Call -> Stages] /\ listener' \in [Call -> {"none", "wake", "stop"}]
        /\ queue' = rest
        /\ running' \subseteq Call /\ stoppers' \subseteq Call
        /\ control' \in [Call -> {"none", "live", "freed"}]
        /\ evaluation' \in [Call -> {"none", "starting", "script", "ended"}]
    <3>1. /\ stage \in [Call -> Stages] /\ listener \in [Call -> {"none", "wake", "stop"}]
          /\ running \subseteq Call /\ stoppers \subseteq Call
          /\ control \in [Call -> {"none", "live", "freed"}]
          /\ evaluation \in [Call -> {"none", "starting", "script", "ended"}]
      BY <1>1 DEF TypeOK
    <3>2. CASE engine BY <1>7, <3>1, <3>2 DEF TakeSlot, Stages
    <3>3. CASE ~engine BY <1>7, <3>1, <3>3 DEF TakeSlot, Return, Stages
    <3> QED BY <3>2, <3>3
  <2>2. active' \in 0..Slots BY <1>1, <1>7 DEF TakeSlot, TypeOK, Slots
  <2> QED BY <1>1, <1>2, <1>4, <2>1, <2>2 DEF TypeOK
<1>8. active \in Nat BY <1>1 DEF TypeOK, Slots
<1> QED BY <1>5, <1>6, <1>7, <1>8 DEF Moves, Quits, Enters, Enter, Slots

\* the count of the slots,
LEMMA MoveCounted ==
  ASSUME IInv, NEW c \in Call, Moves(c)
  PROVE  Counted'
<1>1. c \notin running BY DEF IInv, Kept, Moves, Quits, Enters, Moved
<1>2. IsFiniteSet(running) /\ active = Cardinality(running) BY DEF IInv, Counted
<1>3. CASE UNCHANGED <<active, running>> BY <1>2, <1>3 DEF Counted
<1>4. CASE active' = active + 1 /\ running' = running \cup {c}
  BY <1>1, <1>2, <1>4, FS_AddElement DEF Counted
<1> QED BY <1>3, <1>4 DEF Moves, Quits, Enters, GiveUp, Enter, Wait, TakeSlot

\* what goes together,
LEMMA MoveKept ==
  ASSUME IInv, NEW c \in Call, Moves(c), NEW d \in Call
  PROVE  Kept(d)'
<1>1. TypeOK /\ Kept(c) /\ Kept(d) BY DEF IInv
<1>2. Moved(c) BY DEF Moves, Quits, Enters
<1>3. CASE GiveUp(c)
  BY <1>1, <1>2, <1>3 DEF Moved, GiveUp, Return, TypeOK, Kept
<1>4. CASE Wait(c) /\ loader = "ready"
  BY <1>1, <1>2, <1>4 DEF Moved, Wait, TypeOK, Kept
<1>5. CASE TakeSlot(c) /\ loader = "ready"
  BY <1>1, <1>2, <1>5 DEF Moved, TakeSlot, Return, TypeOK, Kept
<1> QED BY <1>3, <1>4, <1>5 DEF Moves, Quits, Enters, Enter

\* Who waits in the queue after a move.
LEMMA MoveQueue ==
  ASSUME IInv, NEW c \in Call, Moves(c)
  PROVE  /\ ~Wait(c) => ToSet(queue') = ToSet(queue) \ {c}
         /\ Wait(c) => ToSet(queue') = ToSet(queue) \cup {c}
         /\ \A d \in Call : Stopped(d)' = Stopped(d)
<1> DEFINE rest == RemoveFirst(queue, c)
<1>1. queue \in Seq(Call) /\ IsInjective(queue) BY DEF IInv, TypeOK
<1>2. /\ rest \in Seq(Call) /\ IsInjective(rest) /\ ToSet(rest) = ToSet(queue) \ {c}
  BY <1>1, RemoveFirstKeeps
<1>3. ToSet(Append(rest, c)) = ToSet(rest) \cup {c} BY <1>2, AppendKeeps
<1>4. \/ Wait(c) /\ queue' = Append(rest, c)
      \/ ~Wait(c) /\ queue' = rest
  BY DEF Moves, Quits, Enters, GiveUp, Enter, Wait, TakeSlot
<1>5. \A d \in Call : Stopped(d)' = Stopped(d)
  BY DEF Moves, Quits, Enters, Moved, Stopped, closeVars
<1> QED BY <1>2, <1>3, <1>4, <1>5

\* who waits,
LEMMA MoveQueued ==
  ASSUME IInv, NEW c \in Call, Moves(c), NEW d \in Call
  PROVE  Queued(d)'
<1>1. TypeOK /\ Kept(c) /\ Queued(c) /\ Queued(d) BY DEF IInv
<1>2. Moved(c) BY DEF Moves, Quits, Enters
<1>3. Stopped(d)' = Stopped(d) /\ Stopped(c)' = Stopped(c) BY MoveQueue
<1>4. CASE d # c
  <2>1. stage'[d] = stage[d] /\ listener'[d] = listener[d]
    BY <1>1, <1>4
    DEF Moves, Quits, Enters, GiveUp, Enter, Wait, TakeSlot, Return, TypeOK
  <2>2. d \in ToSet(queue') <=> d \in ToSet(queue) BY <1>4, MoveQueue
  <2>3. /\ d \in ToSet(woken') <=> d \in ToSet(woken)
        /\ loader' = loader /\ cancelled' = cancelled
    BY <1>2, <1>4 DEF Moved
  <2> QED BY <1>1, <1>3, <2>1, <2>2, <2>3 DEF Queued
<1>5. CASE d = c
  <2>1. c \notin ToSet(woken') BY <1>2 DEF Moved
  <2>2. CASE Wait(c) /\ ~Stopped(c)
    <3>1. stage'[c] = "queued" /\ listener'[c] = "wake" BY <1>1, <2>2 DEF Wait, TypeOK
    <3>2. c \in ToSet(queue') BY <2>2, MoveQueue
    <3> QED BY <1>3, <1>5, <2>1, <2>2, <3>1, <3>2 DEF Queued
  <2>3. CASE ~Wait(c)
    <3>1. stage'[c] \in {"returned", "running"}
      BY <1>1, <2>3
      DEF Moves, Quits, Enters, GiveUp, Enter, TakeSlot, Return, TypeOK
    <3>2. c \notin ToSet(queue') BY <2>3, MoveQueue
    <3> QED BY <1>5, <2>1, <3>1, <3>2 DEF Queued
  <2>4. Wait(c) => ~Stopped(c)
    <3>1. ASSUME GiveUp(c) PROVE ~Wait(c)
      BY <1>1, <3>1 DEF GiveUp, Return, Wait, TypeOK
    <3> QED BY <3>1 DEF Moves, Quits, Enters
  <2> QED BY <2>2, <2>3, <2>4
<1> QED BY <1>4, <1>5

\* what the engine reports,
LEMMA MoveTold ==
  ASSUME IInv, NEW c \in Call, Moves(c), NEW d \in Call
  PROVE  Told(d)'
<1>1. TypeOK /\ Told(d) BY DEF IInv
<1>2. UNCHANGED <<flagged, cancelled, closed, refused, status>>
  BY DEF Moves, Quits, Enters, Moved, closeVars
<1>3. evaluation'[d] = evaluation[d] \/ evaluation'[d] = "starting"
  BY <1>1 DEF Moves, Quits, Enters, GiveUp, Enter, Wait, TakeSlot, TypeOK
<1> QED BY <1>1, <1>2, <1>3 DEF Told

\* whom a free slot is for,
LEMMA MoveHanded ==
  ASSUME IInv, NEW c \in Call, Moves(c)
  PROVE  Handed'
<1>1. TypeOK /\ Handed /\ Queued(c) BY DEF IInv
<1>2. Moved(c) BY DEF Moves, Quits, Enters
<1>3. closed' = closed BY <1>2 DEF Moved, closeVars
<1>4. active \in Nat BY <1>1 DEF TypeOK, Slots
<1>5. ASSUME queue' # <<>>, ~Wait(c) PROVE queue # <<>>
  <2>1. queue \in Seq(Call) /\ queue' \in Seq(Call) BY <1>1, MoveTyped DEF TypeOK
  <2>2. ToSet(queue') # {} BY <1>5, <2>1, Members
  <2>3. ToSet(queue) # {} BY <1>5, <2>2, MoveQueue
  <2> QED BY <2>1, <2>3, Members
<1>6. ASSUME NEW x \in ToSet(queue), woken = <<x>>, ~Stopped(x), Quits(c) PROVE FALSE
  <2>1. x = c BY <1>2, <1>6 DEF Moved
  <2> QED BY <1>1, <1>6, <2>1 DEF Quits, Queued
<1>7. CASE Quits(c) /\ ~Wait(c)
  <2>1. active' = active BY <1>7 DEF Quits, GiveUp
  <2> QED BY <1>1, <1>3, <1>5, <1>6, <1>7, <2>1 DEF Handed
<1>8. CASE Wait(c) /\ active = Slots
  BY <1>8 DEF Wait, Handed
<1>9. CASE TakeSlot(c) /\ active < Slots /\ ~Stopped(c) /\ ~Wait(c)
  <2>1. active' = active + 1 BY <1>9 DEF TakeSlot
  <2>2. ~closed BY <1>9 DEF Stopped
  <2>3. queue' # <<>> => active = Slots - 1
    BY <1>1, <1>4, <1>5, <1>9, <2>2 DEF Handed, Slots
  <2> QED BY <2>1, <2>3 DEF Handed, Slots
<1>10. GiveUp(c) => ~Wait(c)
  BY <1>1 DEF GiveUp, Return, Wait, TypeOK
<1>11. TakeSlot(c) => ~Wait(c)
  BY <1>4 DEF TakeSlot, Wait
<1>12. active >= Slots => active = Slots BY <1>1 DEF TypeOK, Slots
<1> QED BY <1>4, <1>7, <1>8, <1>9, <1>10, <1>11, <1>12
  DEF Moves, Quits, Enters, Enter, Slots

\* and how far close() is:
LEMMA MoveDrains ==
  ASSUME IInv, NEW c \in Call, Moves(c)
  PROVE  Draining'
<1>1. TypeOK /\ Draining BY DEF IInv
<1>2. UNCHANGED <<closed, drain, awaited, loader>>
  BY DEF Moves, Quits, Enters, Moved, closeVars
<1>3. ASSUME NEW d \in Call, stage'[d] = "running", closed
      PROVE  stage[d] = "running"
  BY <1>1, <1>3
  DEF Moves, Quits, Enters, GiveUp, Enter, Wait, Stopped, Return, TypeOK
<1>4. drain = "done" => closed BY <1>1 DEF Draining
<1> QED BY <1>1, <1>2, <1>3, <1>4 DEF Draining

\* a move preserves the invariant.
LEMMA MoveKeeps ==
  ASSUME IInv, NEW c \in Call, Moves(c)
  PROVE  IInv'
BY MoveTyped, MoveCounted, MoveHanded, MoveDrains, MoveKept, MoveQueued, MoveTold DEF IInv

-----------------------------------------------------------------------------
(* The other actions. *)

\* Between two turns nobody who waits in the queue was stopped.
LEMMA BetweenTurns ==
  ASSUME IInv, Turn
  PROVE  /\ ToSet(woken) = {}
         /\ \A c \in Call : stage[c] = "queued" => ~Stopped(c)
         /\ \A c \in Call : stage[c] = "loading" => loader = "loading"
         /\ queue # <<>> => active = Slots
         /\ queue # <<>> => loader = "ready"
<1>1. woken = <<>> BY DEF Turn
<1>2. ToSet(woken) = {} BY <1>1, NoMembers
<1>3. \A c \in Call : stage[c] = "queued" => ~Stopped(c) BY <1>2 DEF IInv, Queued
<1>4. \A c \in Call : stage[c] = "loading" => loader = "loading" BY <1>2 DEF IInv, Queued
<1>5. \A x : woken # <<x>> BY <1>1
<1>6. ASSUME queue # <<>> PROVE active = Slots /\ loader = "ready"
  <2>1. queue \in Seq(Call) BY DEF IInv, TypeOK
  <2>2. PICK x \in ToSet(queue) : x \in Call BY <1>6, <2>1, Members
  <2>3. stage[x] = "queued" BY <2>2 DEF IInv, Queued
  <2>4. ~closed BY <1>3, <2>2, <2>3 DEF Stopped
  <2>5. loader = "ready" BY <2>2, <2>3 DEF IInv, Kept
  <2> QED BY <1>5, <1>6, <2>4, <2>5 DEF IInv, Handed
<1> QED BY <1>2, <1>3, <1>4, <1>6

\* Beginning to load the source preserves the invariant.
LEMMA LoadsKeeps ==
  ASSUME IInv, NEW c \in Call, Loads(c)
  PROVE  IInv'
<1>1. /\ UNCHANGED <<engine, closed, drain, awaited, cancelled, listener, queue, woken, active,
                     running, stoppers, control, flagged, evaluation, status, refused>>
      /\ Turn /\ stage[c] = "unused" /\ ~closed /\ loader \in {"none", "loading"}
      /\ loader' = "loading" /\ stage' = [stage EXCEPT ![c] = "loading"]
  BY DEF Loads, closeVars, slotVars, engineVars
<1>2. TypeOK BY DEF IInv
<1>3. TypeOK' BY <1>1, <1>2 DEF TypeOK, Stages
<1>4. Counted' /\ Handed'
  <2>1. queue = <<>> BY <1>1, BetweenTurns
  <2> QED BY <1>1, <2>1 DEF IInv, Counted, Handed
<1>5. Draining' BY <1>1, <1>2 DEF IInv, Draining, TypeOK
<1>6. ASSUME NEW d \in Call PROVE Kept(d)' /\ Queued(d)' /\ Told(d)'
  <2>1. Kept(d) /\ Queued(d) /\ Told(d) BY DEF IInv
  <2>2. stage'[d] = IF d = c THEN "loading" ELSE stage[d] BY <1>1, <1>2 DEF TypeOK
  <2>3. Stopped(d)' = Stopped(d) BY <1>1 DEF Stopped
  <2>4. d \notin ToSet(woken) BY <1>1, BetweenTurns
  <2>5. Kept(d)' BY <1>1, <2>1, <2>2 DEF Kept
  <2>6. Queued(d)' BY <1>1, <2>1, <2>2, <2>3, <2>4 DEF Queued
  <2> QED BY <1>1, <2>1, <2>5, <2>6 DEF Told
<1> QED BY <1>3, <1>4, <1>5, <1>6 DEF IInv

\* A cancellation preserves the invariant.
LEMMA CancelKeeps ==
  ASSUME IInv, NEW S \in SUBSET Call, Cancel(S)
  PROVE  IInv'
<1> DEFINE W == {c \in S : listener[c] = "wake"}
<1>1. /\ UNCHANGED <<engine, loader, closed, drain, awaited, stage, queue, active, running,
                     stoppers, control, evaluation, status, refused>>
      /\ Turn /\ S \cap cancelled = {} /\ cancelled' = cancelled \cup S
      /\ woken' \in SetToSeqs(W)
      /\ flagged' = flagged \cup {c \in S : listener[c] = "stop"}
      /\ listener' = [c \in Call |-> IF c \in S THEN "none" ELSE listener[c]]
  BY DEF Cancel, closeVars, engineVars
<1>2. TypeOK BY DEF IInv
<1>3. woken' \in Seq(Call) /\ IsInjective(woken') /\ ToSet(woken') = W
  <2>1. IsFiniteSet(W) BY ScriptAssumption, FS_Subset
  <2>2. woken' \in Seq(W) /\ IsInjective(woken') /\ ToSet(woken') = W
    BY <1>1, <2>1, SequencesOfSet
  <2> QED BY <2>2, SeqMonotonic
<1> HIDE DEF W
<1>4. TypeOK' BY <1>1, <1>2, <1>3 DEF TypeOK
<1>5. Counted' /\ Handed' /\ Draining'
  <2>1. Counted' /\ Draining' BY <1>1 DEF IInv, Counted, Draining
  <2>2. queue # <<>> => active = Slots BY <1>1, BetweenTurns
  <2> QED BY <1>1, <2>1, <2>2 DEF Handed
<1>6. ASSUME NEW d \in Call PROVE Kept(d)' /\ Queued(d)' /\ Told(d)'
  <2>1. Kept(d) /\ Queued(d) /\ Told(d) BY DEF IInv
  <2>2. listener'[d] = IF d \in S THEN "none" ELSE listener[d] BY <1>1
  <2>3. Kept(d)' BY <1>1, <2>1, <2>2 DEF Kept
  <2>4. d \in ToSet(woken') <=> d \in S /\ listener[d] = "wake" BY <1>3 DEF W
  <2>5. /\ stage[d] = "queued" => ~Stopped(d)
        /\ stage[d] = "loading" => loader = "loading"
    BY <1>1, BetweenTurns
  <2>6. Queued(d)' BY <1>1, <2>1, <2>2, <2>4, <2>5 DEF Queued, Stopped, Kept
  <2>7. d \in flagged' => d \in cancelled' \/ closed' BY <1>1, <2>1 DEF Told
  <2>8. Told(d)' BY <1>1, <2>1, <2>7 DEF Told
  <2> QED BY <2>3, <2>6, <2>8
<1> QED BY <1>4, <1>5, <1>6 DEF IInv

\* close() preserves the invariant.
LEMMA CloseKeeps ==
  ASSUME IInv, Close
  PROVE  IInv'
<1>1. /\ UNCHANGED <<engine, loader, stage, cancelled, listener, queue, active, running,
                     stoppers, control, evaluation, status, refused>>
      /\ Turn /\ ~closed /\ closed' = TRUE
  BY DEF Close, callVars, engineVars
<1>2. \/ /\ loader = "ready" /\ flagged' = flagged \cup stoppers
         /\ woken' = queue /\ awaited' = running /\ drain' = "waiting"
      \/ /\ loader # "ready"
         /\ drain' = IF loader = "loading" THEN "loading" ELSE "done"
         /\ UNCHANGED <<flagged, woken, awaited>>
  BY DEF Close, StopAll
<1>3. TypeOK BY DEF IInv
<1>4. TypeOK' BY <1>1, <1>2, <1>3 DEF TypeOK
<1>5. Counted' /\ Handed' BY <1>1 DEF IInv, Counted, Handed
<1>6. ToSet(woken) = {} BY <1>1, BetweenTurns
<1>7. Draining'
  <2>1. \A c \in Call : stage[c] = "running" => loader = "ready" /\ c \in running
    BY DEF IInv, Kept
  <2> QED BY <1>1, <1>2, <1>3, <2>1 DEF Draining
<1>8. ASSUME NEW d \in Call PROVE Kept(d)' /\ Queued(d)' /\ Told(d)'
  <2>1. Kept(d) /\ Queued(d) /\ Told(d) BY DEF IInv
  <2>2. Kept(d)' BY <1>1, <2>1 DEF Kept
  <2>3. stage[d] = "loading" => loader = "loading" BY <1>1, BetweenTurns
  <2>4. stage[d] = "queued" => d \in ToSet(woken')
    BY <1>2, <2>1 DEF Kept, Queued
  <2>5. d \in ToSet(woken') => stage[d] = "queued" BY <1>2, <1>6, <2>1 DEF Queued
  <2>6. Queued(d)' BY <1>1, <2>1, <2>3, <2>4, <2>5 DEF Queued
  <2> QED BY <1>1, <2>1, <2>2, <2>6 DEF Told
<1> QED BY <1>4, <1>5, <1>7, <1>8 DEF IInv

\* The source having been read, or not, preserves the invariant.
LEMMA LoadedKeeps ==
  ASSUME IInv, NEW to \in {"ready", "broken"}, Loaded(to)
  PROVE  IInv'
<1> DEFINE W == {c \in Call : stage[c] = "loading"}
<1>1. /\ UNCHANGED <<engine, closed, awaited, stage, cancelled, listener, queue, active, running,
                     stoppers, control, flagged, evaluation, status, refused>>
      /\ Turn /\ loader = "loading" /\ loader' = to
      /\ woken' \in SetToSeqs(W)
      /\ drain' = IF drain # "loading" THEN drain
                  ELSE IF to = "ready" THEN "waiting" ELSE "done"
  BY DEF Loaded, callVars, engineVars
<1>2. TypeOK BY DEF IInv
<1>3. woken' \in Seq(Call) /\ IsInjective(woken') /\ ToSet(woken') = W
  <2>1. IsFiniteSet(W) BY ScriptAssumption, FS_Subset
  <2>2. woken' \in Seq(W) /\ IsInjective(woken') /\ ToSet(woken') = W
    BY <1>1, <2>1, SequencesOfSet
  <2> QED BY <2>2, SeqMonotonic
<1> HIDE DEF W
<1>4. \/ drain # "loading" /\ drain' = drain
      \/ drain = "loading" /\ to = "ready" /\ drain' = "waiting"
      \/ drain = "loading" /\ to = "broken" /\ drain' = "done"
  BY <1>1
<1>5. TypeOK' BY <1>1, <1>2, <1>3, <1>4 DEF TypeOK
<1>6. Counted' /\ Handed'
  <2>1. queue = <<>> BY <1>1, BetweenTurns
  <2> QED BY <1>1, <2>1 DEF IInv, Counted, Handed
<1>7. \A c \in Call : stage[c] \notin {"queued", "running"} BY <1>1 DEF IInv, Kept
<1>8. Draining' BY <1>1, <1>4, <1>7 DEF IInv, Draining
<1>9. ASSUME NEW d \in Call PROVE Kept(d)' /\ Queued(d)' /\ Told(d)'
  <2>1. Kept(d) /\ Queued(d) /\ Told(d) BY DEF IInv
  <2>2. d \in ToSet(woken') <=> stage[d] = "loading" BY <1>3 DEF W
  <2>3. Kept(d)' BY <1>1, <1>7, <2>1 DEF Kept
  <2>4. Queued(d)' BY <1>1, <1>7, <2>1, <2>2 DEF Queued
  <2>5. Told(d)' BY <1>1, <2>1 DEF Told
  <2> QED BY <2>3, <2>4, <2>5
<1> QED BY <1>5, <1>6, <1>8, <1>9 DEF IInv

\* A worker isolate that returns preserves the invariant.
LEMMA WorkerReturnsKeeps ==
  ASSUME IInv, NEW c \in Call, WorkerReturns(c)
  PROVE  IInv'
<1>1. /\ UNCHANGED <<engine, loader, closed, drain, awaited, cancelled, queue>>
      /\ Turn /\ stage[c] = "running" /\ stage' = [stage EXCEPT ![c] = "returned"]
      /\ listener' = [listener EXCEPT ![c] = "none"]
      /\ stoppers' = stoppers \ {c}
      /\ control' = [control EXCEPT ![c] = "freed"]
      /\ evaluation' = [evaluation EXCEPT ![c] = "none"]
      /\ status' = [status EXCEPT ![c] = Done]
      /\ refused' = refused \ {c} /\ flagged' = flagged \ {c}
      /\ active' = active - 1 /\ running' = running \ {c}
      /\ woken' = IF Waiters = {} THEN <<>> ELSE <<queue[Min(Waiters)]>>
  BY DEF WorkerReturns, Return, GiveBack, FreeControl, FreeSlot, closeVars
<1>2. TypeOK BY DEF IInv
<1>3. queue \in Seq(Call) /\ DOMAIN queue = 1..Len(queue) /\ Len(queue) \in Nat
  BY <1>2 DEF TypeOK
<1>4. Waiters = DOMAIN queue
  <2>1. \A x : ~Contains(woken, x) BY <1>1, <1>2, BetweenTurns, Members DEF TypeOK
  <2> QED BY <2>1 DEF Waiters
<1>5. \/ queue = <<>> /\ woken' = <<>>
      \/ queue # <<>> /\ \E x \in ToSet(queue) : woken' = <<x>>
  <2>1. CASE queue = <<>>
    <3>1. DOMAIN queue = {} BY <2>1
    <3> QED BY <1>1, <1>4, <2>1, <3>1
  <2>2. CASE queue # <<>>
    <3>1. 1 \in DOMAIN queue BY <1>3, <2>2, Members
    <3>2. \A i \in DOMAIN queue : 1 =< i BY <1>3
    <3>3. Min(DOMAIN queue) \in DOMAIN queue BY <3>1, <3>2 DEF Min
    <3> QED BY <1>1, <1>4, <2>2, <3>1, <3>3 DEF ToSet
  <2> QED BY <2>1, <2>2
<1>6. c \in running /\ IsFiniteSet(running) /\ active = Cardinality(running)
  BY <1>1 DEF IInv, Kept, Counted
<1>7. Counted' BY <1>1, <1>6, FS_RemoveElement DEF Counted
<1>8. TypeOK'
  <2>1. active' \in 0..Slots
    <3>1. Cardinality(running) # 0 BY <1>6, FS_EmptySet
    <3> QED BY <1>1, <1>2, <1>6, <3>1 DEF TypeOK, Slots
  <2>2. woken' \in Seq(Call) /\ IsInjective(woken')
    <3>1. ToSet(queue) \subseteq Call BY <1>3, Members
    <3>2. \A x \in Call : <<x>> \in Seq(Call) /\ IsInjective(<<x>>) BY Singleton
    <3>3. <<>> \in Seq(Call) /\ IsInjective(<<>>) BY NoMembers
    <3>4. CASE woken' = <<>> BY <3>3, <3>4
    <3>5. ASSUME NEW x \in ToSet(queue), woken' = <<x>>
          PROVE  woken' \in Seq(Call) /\ IsInjective(woken')
      BY <3>1, <3>2, <3>5
    <3> QED BY <1>5, <3>4, <3>5
  <2>3. /\ stage' \in [Call -> Stages] /\ listener' \in [Call -> {"none", "wake", "stop"}]
        /\ control' \in [Call -> {"none", "live", "freed"}]
        /\ evaluation' \in [Call -> {"none", "starting", "script", "ended"}]
        /\ running' \subseteq Call /\ stoppers' \subseteq Call
        /\ flagged' \subseteq Call /\ refused' \subseteq Call
    BY <1>1, <1>2 DEF TypeOK, Stages
  <2>4. status' \in [Call -> Done..Output] BY <1>1, <1>2 DEF TypeOK, Done, Output
  <2> QED BY <1>1, <1>2, <2>1, <2>2, <2>3, <2>4 DEF TypeOK
<1>9. \A x \in ToSet(queue) : x \in Call /\ x # c /\ stage[x] = "queued" /\ ~Stopped(x)
  <2>1. ToSet(queue) \subseteq Call BY <1>3, Members
  <2> QED BY <1>1, <2>1, BetweenTurns DEF IInv, Queued
<1>10. Handed'
  <2>1. CASE queue # <<>>
    <3>1. active' = Slots - 1 BY <1>1, <2>1, BetweenTurns
    <3> QED BY <1>1, <1>5, <1>9, <2>1, <3>1 DEF Handed, Stopped
  <2>2. CASE queue = <<>> BY <1>1, <2>2 DEF Handed
  <2> QED BY <2>1, <2>2
<1>11. Draining' BY <1>1, <1>2 DEF IInv, Draining, TypeOK
<1>12. ASSUME NEW d \in Call PROVE Kept(d)' /\ Queued(d)' /\ Told(d)'
  <2>1. Kept(d) /\ Queued(d) /\ Told(d) BY DEF IInv
  <2>2. Kept(d)' BY <1>1, <1>2, <2>1 DEF Kept, TypeOK
  <2>3. Told(d)' BY <1>1, <1>2, <2>1 DEF Told, TypeOK
  <2>4. d \in ToSet(woken') => d \in ToSet(queue) BY <1>5, NoMembers, Singleton
  <2>5. /\ stage[d] = "queued" => ~Stopped(d)
        /\ stage[d] = "loading" => loader = "loading"
    BY <1>1, BetweenTurns
  <2>6. /\ stage'[d] = IF d = c THEN "returned" ELSE stage[d]
        /\ listener'[d] = IF d = c THEN "none" ELSE listener[d]
    BY <1>1, <1>2 DEF TypeOK
  <2>7. Queued(d)' BY <1>1, <1>9, <2>1, <2>4, <2>5, <2>6 DEF Queued, Stopped
  <2> QED BY <2>2, <2>3, <2>7
<1> QED BY <1>7, <1>8, <1>10, <1>11, <1>12 DEF IInv

\* close() returning preserves the invariant.
LEMMA CloseReturnsKeeps ==
  ASSUME IInv, CloseReturns
  PROVE  IInv'
<1>1. /\ UNCHANGED <<engine, loader, closed, awaited, stage, cancelled, listener, queue, woken,
                     active, running, stoppers, control, flagged, evaluation, status, refused>>
      /\ drain = "waiting" /\ awaited \cap running = {} /\ drain' = "done"
  BY DEF CloseReturns, callVars, slotVars, engineVars
<1>2. TypeOK' BY <1>1 DEF IInv, TypeOK
<1>3. Counted' /\ Handed'
  BY <1>1 DEF IInv, Counted, Handed, Stopped
<1>4. \A c \in Call : stage[c] # "running" BY <1>1 DEF IInv, Draining, Kept
<1>5. Draining' BY <1>1, <1>4 DEF IInv, Draining
<1>6. ASSUME NEW d \in Call PROVE Kept(d)' /\ Queued(d)' /\ Told(d)'
  <2>1. Kept(d) /\ Queued(d) /\ Told(d) BY DEF IInv
  <2> QED BY <1>1, <2>1 DEF Kept, Queued, Told, Stopped
<1> QED BY <1>2, <1>3, <1>5, <1>6 DEF IInv

\* The engine going on preserves the invariant.
LEMMA EvaluateKeeps ==
  ASSUME IInv, NEW c \in Call, Evaluate(c)
  PROVE  IInv'
<1>1. UNCHANGED <<engine, loader, closed, drain, awaited, stage, cancelled, listener, queue,
                  woken, active, running, stoppers, control, flagged>>
  BY DEF Evaluate, closeVars, callVars, slotVars
<1>2. TypeOK BY DEF IInv
<1>3. /\ evaluation[c] \in {"starting", "script"}
      /\ refused' \in {refused, refused \cup {c}}
      /\ \/ evaluation'[c] # "ended" /\ UNCHANGED status
            /\ evaluation' \in {evaluation, [evaluation EXCEPT ![c] = "script"]}
         \/ /\ evaluation' = [evaluation EXCEPT ![c] = "ended"] /\ UNCHANGED refused
            /\ \E s \in {Done, Exception, Timeout, Cancelled, Memory, Output} :
                 /\ status' = [status EXCEPT ![c] = s]
                 /\ c \in refused => s \in {Memory, Timeout, Cancelled}
                 /\ s = Cancelled => c \in flagged
  <2> DEFINE told(s) == /\ c \in refused => s \in {Memory, Timeout, Cancelled}
                        /\ s = Cancelled => c \in flagged
             all == {Done, Exception, Timeout, Cancelled, Memory, Output}
  <2>1. CASE Begin(c)
    <3>1. told(Memory) /\ Memory \in all BY DEF Memory, Cancelled
    <3>2. [evaluation EXCEPT ![c] = "script"][c] = "script" BY <1>2 DEF TypeOK
    <3> QED BY <2>1, <3>1, <3>2 DEF Begin, Ends
  <2>2. CASE Refuse(c) BY <2>2 DEF Refuse
  <2>3. CASE Interrupt(c)
    <3> DEFINE s == Verdict(c, IF c \in flagged THEN Cancelled ELSE Timeout)
    <3>1. told(s) /\ s \in all BY DEF Verdict, Cancelled, Timeout
    <3>2. Ends(c, s) /\ UNCHANGED refused /\ evaluation[c] = "script" BY <2>3 DEF Interrupt
    <3> HIDE DEF s
    <3> QED BY <3>1, <3>2 DEF Ends
  <2>4. CASE \/ Throw(c) \/ Fulfil(c)
    <3>1. PICK e \in {Done, Exception, Memory, Output} : Ends(c, Verdict(c, e))
      BY <2>4 DEF Throw, Fulfil
    <3> DEFINE s == Verdict(c, e)
    <3>2. told(s) /\ s \in all
      BY <3>1 DEF Verdict, Done, Exception, Timeout, Cancelled, Memory, Output
    <3>3. Ends(c, s) /\ UNCHANGED refused /\ evaluation[c] = "script"
      BY <2>4, <3>1 DEF Throw, Fulfil
    <3> HIDE DEF s
    <3> QED BY <3>2, <3>3 DEF Ends
  <2> QED BY <2>1, <2>2, <2>3, <2>4 DEF Evaluate
<1>4. TypeOK'
  <2>1. evaluation' \in [Call -> {"none", "starting", "script", "ended"}]
    BY <1>2, <1>3 DEF TypeOK
  <2>2. status' \in [Call -> Done..Output]
    <3>1. {Done, Exception, Timeout, Cancelled, Memory, Output} \subseteq Done..Output
      BY DEF Done, Exception, Timeout, Cancelled, Memory, Output
    <3>2. status \in [Call -> Done..Output] BY <1>2 DEF TypeOK
    <3> QED BY <1>3, <3>1, <3>2
  <2>3. refused' \subseteq Call BY <1>2, <1>3 DEF TypeOK
  <2> QED BY <1>1, <1>2, <2>1, <2>2, <2>3 DEF TypeOK
<1>5. Counted' /\ Handed' /\ Draining'
  BY <1>1 DEF IInv, Counted, Handed, Draining, Stopped
<1>6. ASSUME NEW d \in Call PROVE Kept(d)' /\ Queued(d)' /\ Told(d)'
  <2>1. Kept(d) /\ Queued(d) /\ Told(d) /\ Told(c) BY DEF IInv
  <2>2. evaluation'[d] # "none" <=> evaluation[d] # "none" BY <1>2, <1>3 DEF TypeOK
  <2>3. Kept(d)' /\ Queued(d)' BY <1>1, <2>1, <2>2 DEF Kept, Queued, Stopped
  <2>4. Told(d)'
    <3>1. CASE d # c
      <4>1. /\ evaluation'[d] = evaluation[d] /\ status'[d] = status[d]
            /\ d \in refused' <=> d \in refused
        BY <1>2, <1>3, <3>1 DEF TypeOK
      <4> QED BY <1>1, <2>1, <4>1 DEF Told
    <3>2. CASE d = c
      <4>1. evaluation'[c] = "ended" =>
              /\ c \in refused' => status'[c] \in {Memory, Timeout, Cancelled}
              /\ status'[c] = Cancelled => c \in flagged
        BY <1>2, <1>3 DEF TypeOK
      <4> QED BY <1>1, <2>1, <3>2, <4>1 DEF Told
    <3> QED BY <3>1, <3>2
  <2> QED BY <2>3, <2>4
<1> QED BY <1>4, <1>5, <1>6 DEF IInv

-----------------------------------------------------------------------------
(* The invariant. *)

\* The invariant holds at the start.
LEMMA IInvInit == Init => IInv
<1> SUFFICES ASSUME Init PROVE IInv
  OBVIOUS
<1>1. <<>> \in Seq(Call) /\ IsInjective(<<>>) /\ ToSet(<<>>) = {} BY NoMembers
<1>2. TypeOK
  <2>1. Done \in Done..Output /\ 0 \in 0..Slots BY DEF Done, Output, Slots
  <2>2. status \in [Call -> Done..Output] /\ active \in 0..Slots BY <2>1 DEF Init
  <2>3. stage \in [Call -> Stages] BY DEF Init, Stages
  <2> QED BY <1>1, <2>2, <2>3 DEF Init, TypeOK
<1>3. Counted BY FS_EmptySet DEF Init, Counted
<1>4. Handed /\ Draining BY DEF Init, Handed, Draining
<1>5. ASSUME NEW c \in Call PROVE Kept(c) /\ Queued(c) /\ Told(c)
  BY <1>1 DEF Init, Kept, Queued, Told, Stopped
<1> QED BY <1>2, <1>3, <1>4, <1>5 DEF IInv

\* Every step preserves the invariant.
LEMMA IInvNext == IInv /\ [Next]_vars => IInv'
<1> SUFFICES ASSUME IInv, [Next]_vars PROVE IInv'
  OBVIOUS
<1>1. ASSUME NEW c \in Call, Execute(c) PROVE IInv'
  BY <1>1, ExecuteMoves, MoveKeeps, LoadsKeeps
<1>2. ASSUME NEW c \in Call, WorkerReturns(c) PROVE IInv' BY <1>2, WorkerReturnsKeeps
<1>3. ASSUME NEW c \in Call, Evaluate(c) PROVE IInv' BY <1>3, EvaluateKeeps
<1>4. ASSUME NEW S \in SUBSET Call, Cancel(S) PROVE IInv' BY <1>4, CancelKeeps
<1>5. CASE Load BY <1>5, LoadedKeeps DEF Load
<1>6. CASE Resume BY <1>6, ResumeMoves, MoveKeeps
<1>7. CASE Close BY <1>7, CloseKeeps
<1>8. CASE CloseReturns BY <1>8, CloseReturnsKeeps
<1>9. CASE UNCHANGED vars
  <2>1. TypeOK' /\ Counted' /\ Handed' /\ Draining'
    BY <1>9 DEF vars, closeVars, callVars, slotVars, engineVars,
                IInv, TypeOK, Counted, Handed, Draining, Stopped
  <2>2. ASSUME NEW c \in Call PROVE Kept(c)' /\ Queued(c)' /\ Told(c)'
    BY <1>9 DEF vars, closeVars, callVars, slotVars, engineVars,
                IInv, Kept, Queued, Told, Stopped
  <2> QED BY <2>1, <2>2 DEF IInv
<1> QED BY <1>1, <1>2, <1>3, <1>4, <1>5, <1>6, <1>7, <1>8, <1>9 DEF Next

\* The inductive invariant holds of every behaviour.
LEMMA IInvInvariant == Spec => []IInv
BY IInvInit, IInvNext, PTL DEF Spec

-----------------------------------------------------------------------------
(* Theorems. *)

\* Every variable keeps its type; nobody takes a third slot or gives one back
\* twice.
THEOREM TypeCorrect == Spec => []TypeOK
<1>1. IInv => TypeOK BY DEF IInv
<1> QED BY <1>1, IInvInvariant, PTL

\* gm_control_free comes after the last use of a control block, by the engine,
\* by close() or by a cancellation, for any number of calls.
THEOREM ControlsAreFreedLast == Spec => []ControlsOutliveTheirUsers
<1>1. IInv => ControlsOutliveTheirUsers
  BY DEF IInv, Kept, ControlsOutliveTheirUsers
<1> QED BY <1>1, IInvInvariant, PTL

\* QuickJsRuntime.execute: however slots become free, calls are cancelled and
\* others take the slot first, no call is left beside a free slot.
THEOREM NoWakeUpIsLost == Spec => []NobodyWaitsForAFreeSlot
<1>1. IInv => NobodyWaitsForAFreeSlot
  BY BetweenTurns DEF NobodyWaitsForAFreeSlot
<1> QED BY <1>1, IInvInvariant, PTL

\* gm_eval: what is reported of a script is what ended it.
THEOREM ReportsAreTrue == Spec => []StatusTellsWhy
<1>1. IInv => StatusTellsWhy BY DEF IInv, Told, StatusTellsWhy
<1> QED BY <1>1, IInvInvariant, PTL

\* QuickJsRuntime.close and the repository's: when close() returns, no engine
\* runs and no call waits, whatever was under way when it was called.
THEOREM NothingRunsAfterClose == Spec => []CloseDrains
<1>1. ASSUME IInv, drain = "done", Turn, NEW c \in Call
      PROVE  /\ evaluation[c] \notin {"starting", "script"}
             /\ control[c] # "live"
             /\ stage[c] \in {"unused", "returned"}
  <2>1. closed /\ loader # "loading" BY <1>1 DEF IInv, Draining
  <2>2. stage[c] \notin {"queued", "loading"} BY <1>1, <2>1, BetweenTurns DEF Stopped
  <2>3. stage[c] # "running" BY <1>1 DEF IInv, Draining
  <2>4. stage[c] \in Stages BY <1>1 DEF IInv, TypeOK
  <2> QED BY <1>1, <2>2, <2>3, <2>4 DEF IInv, Kept, Stages
<1>2. IInv => CloseDrains BY <1>1 DEF CloseDrains
<1> QED BY <1>2, IInvInvariant, PTL
=============================================================================
