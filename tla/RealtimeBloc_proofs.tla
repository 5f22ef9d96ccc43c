------------------------ MODULE RealtimeBloc_proofs ------------------------
(***************************************************************************)
(* Proofs about RealtimeBloc, for any finite set of tabs and any number of *)
(* connections, frames and events: no connection leaks, a live one is      *)
(* shown, a tab that was reported closed leaves nothing behind, and no     *)
(* frame of a live connection is lost but to the cap.                      *)
(*                                                                         *)
(* What is said of a tab is said of one that was never reopened after it   *)
(* was reported closed: the epochs of a reopened tab start again from 0.   *)
(***************************************************************************)
EXTENDS RealtimeBloc, FiniteSetTheorems, SequenceTheorems, TLAPS

\* A handler that waits to connect or to disconnect.
Waits(c) == IsTask(c, "connect") \/ IsTask(c, "disconnect")

\* The tab is one that the loop over closed tabs has still to come to, or to
\* leave.
Ahead(c, t) == t = waiting[c].tab \/ t \in ToSet(waiting[c].rest)

\* The epoch of the tab has been removed, and nobody sets it again.
Gone(t) ==
  /\ t \in told /\ epochs[t] = 0
  /\ \A c \in DOMAIN waiting : IsTask(c, "tabs") => ~Ahead(c, t)

\* An epoch somebody has kept is none from before the last teardown.
Kept(t, e) == e >= 1 /\ (e <= epochs[t] \/ Gone(t))

\* A socket that is being closed was opened, and no tab has it.
Parked(c) == c \in 1..opened /\ \A t \in Tabs : conns[t] # c

\* Connections are in one place, and only one handler closes them all.
Wired ==
  /\ \A t \in Tabs : conns[t] \in 0..opened
  /\ \A t, u \in Tabs : conns[t] = conns[u] /\ conns[t] # NoConn => t = u
  /\ \A c \in DOMAIN waiting :
       /\ Parked(c)
       /\ IsTask(c, "quit") => \A d \in ToSet(waiting[c].rest) : Parked(d)
  /\ \A c, d \in DOMAIN waiting : IsTask(c, "quit") /\ IsTask(d, "quit") => c = d
  /\ phase = "open" => \A c \in DOMAIN waiting : ~IsTask(c, "quit")

\* A loop comes to each of its tabs once.
Looping ==
  \A c \in DOMAIN waiting : IsTask(c, "tabs") =>
    LET task == waiting[c]
    IN  /\ {task.tab} \cup ToSet(task.rest) \subseteq task.all
        /\ IsInjective(task.rest) /\ task.tab \notin ToSet(task.rest)

\* A tab is reported once, to one loop.
Reported(t) ==
  /\ t \in told => t \notin open /\ t \notin lastAlive
  /\ \A c \in DOMAIN waiting : IsTask(c, "tabs") /\ t \in waiting[c].all =>
       /\ t \in told
       /\ Ahead(c, t) \/ (epochs[t] = 0 /\ conns[t] = NoConn)
       /\ \A d \in DOMAIN waiting : IsTask(d, "tabs") /\ t \in waiting[d].all => c = d

\* Epochs tell teardowns apart: a handler whose epoch is current is the only
\* one, and the tab has no connection.
Owned(t) ==
  /\ conns[t] # NoConn => epochs[t] >= 1
  /\ \A c \in DOMAIN waiting : Waits(c) /\ waiting[c].tab = t =>
       /\ Kept(t, waiting[c].epoch)
       /\ Current(t, waiting[c].epoch) => conns[t] = NoConn
       /\ \A d \in DOMAIN waiting :
            Waits(d) /\ waiting[d].tab = t /\ waiting[d].epoch = waiting[c].epoch => c = d
  /\ \A c \in DOMAIN waiting : IsTask(c, "tabs") /\ waiting[c].tab = t =>
       /\ conns[t] = NoConn
       /\ \A d \in DOMAIN waiting :
            Waits(d) /\ waiting[d].tab = t => waiting[d].epoch # epochs[t]

\* The last of these frames says that the connection has ended.
Ends(frames) == frames # <<>> /\ Last(frames).dir = "end"

\* Frames that wait are those of the connection there is.
Buffered(t) ==
  /\ pending[t] # <<>> => conns[t] # NoConn
  /\ Ends(pending[t]) => conns[t] \in ended
  /\ \A i \in DOMAIN batches[t] :
       LET batch == batches[t][i]
       IN  /\ batch.frames # <<>>
           /\ Kept(t, batch.epoch)
           /\ Current(t, batch.epoch) => /\ conns[t] # NoConn
                                         /\ Ends(batch.frames) => conns[t] \in ended

\* The session of a tab that was reported goes with the loop, and that of any
\* other shows a live connection.
Shown(t) ==
  /\ t \in told =>
       \/ \E c \in DOMAIN waiting : IsTask(c, "tabs") /\ t \in waiting[c].all
       \/ epochs[t] = 0 /\ conns[t] = NoConn /\ t \notin DOMAIN sessions
  /\ t \notin told /\ conns[t] \in Conns \ ended => SessionFor(t).connected

\* What is said of one tab.
TabOK(t) ==
  /\ Reported(t) /\ Owned(t)
  /\ phase = "open" => Buffered(t) /\ Shown(t)

\* The invariant the earlier theorems rest on.
IInv ==
  /\ TypeOK /\ Wired /\ Looping
  /\ \A t \in Tabs \ reopened : TabOK(t)
  /\ reopened = {} => AllAccountedFor

-----------------------------------------------------------------------------
(* Data. *)

\* Others leaves a task out and keeps the rest.
LEMMA OthersKept ==
  ASSUME NEW c
  PROVE  /\ DOMAIN Others(c) = DOMAIN waiting \ {c}
         /\ \A d \in DOMAIN Others(c) : Others(c)[d] = waiting[d]
BY DEF Others

\* A non-empty set of numbers has a least one.
LEMMA LeastNumber ==
  ASSUME NEW S \in SUBSET Nat, S # {}
  PROVE  \E n \in S : \A m \in S : n <= m
<1>1. PICK t \in S : TRUE
  OBVIOUS
<1> DEFINE R == StrictSubsetOrdering(0..t)
           T == {0..k : k \in {m \in S : m <= t}}
<1>2. IsWellFoundedOn(R, FiniteSubsetsOf(0..t))
  BY FS_StrictSubsetOrderingWellFounded
<1>3. T \subseteq FiniteSubsetsOf(0..t)
  <2> SUFFICES ASSUME NEW k \in S, k <= t PROVE 0..k \in FiniteSubsetsOf(0..t)
    OBVIOUS
  <2>1. IsFiniteSet(0..k)
    BY FS_Interval
  <2> QED
    BY <2>1 DEF FiniteSubsetsOf
<1>4. T # {}
  BY <1>1
<1>5. PICK x \in T : \A y \in T : ~(<<y, x>> \in R)
  BY <1>2, <1>3, <1>4, WFMin
<1>6. PICK n \in S : n <= t /\ x = 0..n
  BY <1>5
<1>7. ASSUME NEW m \in S, m < n PROVE FALSE
  <2>1. /\ 0..m \in T /\ 0..m \subseteq 0..n
        /\ n \in 0..n /\ n \notin 0..m
    BY <1>1, <1>6, <1>7
  <2>2. 0..m \subseteq 0..t /\ 0..n \subseteq 0..t
    BY <1>1, <1>6, <1>7
  <2>3. <<0..m, 0..n>> \in R
    BY <2>1, <2>2 DEF StrictSubsetOrdering
  <2> QED
    BY <2>1, <2>3, <1>5, <1>6
<1> QED
  BY <1>7

\* Where the loop stops: at the first of the tabs that has a connection.
LEMMA FirstConnected ==
  ASSUME NEW rest \in Seq(Tabs), NEW stop, stop = SelectInSeq(rest, LAMBDA t : conns[t] # NoConn)
  PROVE  \/ stop = 0 /\ \A i \in 1..Len(rest) : conns[rest[i]] = NoConn
         \/ /\ stop \in 1..Len(rest) /\ conns[rest[stop]] # NoConn
            /\ \A i \in 1..(stop - 1) : conns[rest[i]] = NoConn
<1> DEFINE I == {i \in 1..Len(rest) : conns[rest[i]] # NoConn}
<1>1. stop = IF I # {} THEN Min(I) ELSE 0
  BY DEF SelectInSeq
<1>2. I \in SUBSET Nat
  OBVIOUS
<1>3. CASE I = {}
  BY <1>1, <1>3
<1>4. CASE I # {}
  <2>1. stop \in I /\ \A i \in I : stop <= i
    BY <1>1, <1>2, <1>4, LeastNumber DEF Min
  <2>2. \A i \in 1..(stop - 1) : i \in 1..Len(rest) /\ ~(stop <= i)
    BY <2>1
  <2> QED
    BY <2>1, <2>2
<1> QED
  BY <1>3, <1>4

\* SetToSeqs has nothing but orders of the set.
LEMMA SequencesOfSet ==
  ASSUME NEW S, IsFiniteSet(S), NEW s \in SetToSeqs(S)
  PROVE  s \in Seq(S) /\ IsInjective(s) /\ ToSet(s) = S
<1> DEFINE n == Cardinality(S)
<1>1. n \in Nat
  BY FS_CardinalityType
<1>2. s \in [1..n -> S] /\ IsInjective(s)
  BY DEF SetToSeqs, IsInjective
<1>3. s \in Seq(S) /\ DOMAIN s = 1..n
  BY <1>1, <1>2
<1>4. Cardinality(1..n) = n
  BY <1>1, FS_Interval
<1>5. s \in Injection(1..n, S)
  BY <1>2 DEF Injection
<1>6. s \in Surjection(1..n, S)
  BY <1>4, <1>5, FS_Injection
<1>7. ToSet(s) = S
  BY <1>2, <1>3, <1>6 DEF Surjection, ToSet
<1> QED
  BY <1>2, <1>3, <1>7

\* A log that is capped is a log, and no longer than the cap.
LEMMA CappedLog ==
  ASSUME NEW frames \in Seq(Frame)
  PROVE  Capped(frames) \in Seq(Frame) /\ Len(Capped(frames)) <= Cap
<1>1. Cap \in Nat \ {0} /\ Len(frames) \in Nat
  BY RealtimeAssumption, LenProperties
<1>2. CASE Len(frames) <= Cap
  BY <1>1, <1>2 DEF Capped
<1>3. CASE ~(Len(frames) <= Cap)
  <2> DEFINE m == Len(frames) - Cap + 1
  <2>1. /\ m \in 1..(Len(frames) + 1) /\ Len(frames) - m + 1 = Cap
        /\ m <= Len(frames) /\ Len(frames) \in m - 1..Len(frames)
    BY <1>1, <1>3
  <2>2. Capped(frames) = SubSeq(frames, m, Len(frames))
    BY <1>3 DEF Capped
  <2> HIDE DEF m
  <2>3. SubSeq(frames, m, Len(frames)) \in Seq(Frame) /\ Len(SubSeq(frames, m, Len(frames))) = Cap
    BY <1>1, <2>1, SubSeqProperties
  <2> QED
    BY <1>1, <2>2, <2>3
<1> QED
  BY <1>2, <1>3

-----------------------------------------------------------------------------
(* The loop over closed tabs: it finishes, or stops to close a socket. *)

\* No tab of the loop has a connection: their epochs and sessions go.
Finishes(all, tabs, es, others) ==
  /\ \A t \in tabs : conns[t] = NoConn
  /\ epochs' = [t \in Tabs |-> IF t \in tabs THEN 0 ELSE es[t]]
  /\ waiting' = others
  /\ Emit(Without(all))
  /\ UNCHANGED <<conns, pending>>

\* The loop has come to u, whose socket is closed while the tabs of more are
\* still ahead.
Stops(all, tabs, es, others, u, more) ==
  /\ u \in Tabs /\ more \in Seq(Tabs) /\ IsInjective(more)
  /\ {u} \cup ToSet(more) \subseteq tabs /\ u \notin ToSet(more)
  /\ conns[u] # NoConn
  /\ \A t \in tabs \ ({u} \cup ToSet(more)) : conns[t] = NoConn
  /\ epochs' = [t \in Tabs |-> IF t = u THEN es[u] + 1
                               ELSE IF t \in tabs \ ToSet(more) THEN 0 ELSE es[t]]
  /\ conns' = [conns EXCEPT ![u] = NoConn]
  /\ pending' = [pending EXCEPT ![u] = <<>>]
  /\ waiting' = Put(others, conns[u], Closing(all, u, more))
  /\ UNCHANGED sessions

\* The members of a sequence are its elements.
LEMMA Members ==
  ASSUME NEW S, NEW s \in Seq(S)
  PROVE  /\ ToSet(s) \subseteq S
         /\ \A x : x \in ToSet(s) <=> \E i \in 1..Len(s) : s[i] = x
<1>1. DOMAIN s = 1..Len(s) /\ \A i \in 1..Len(s) : s[i] \in S
  BY LenProperties, ElementOfSeq
<1> QED
  BY <1>1 DEF ToSet

\* A sequence without repetitions, cut at one of its elements.
LEMMA CutAt ==
  ASSUME NEW S, NEW s \in Seq(S), IsInjective(s), NEW n \in 1..Len(s)
  PROVE  LET before == SubSeq(s, 1, n - 1)
             more == SubSeq(s, n + 1, Len(s))
         IN  /\ more \in Seq(S) /\ IsInjective(more) /\ s[n] \notin ToSet(more)
             /\ {s[n]} \cup ToSet(more) \subseteq ToSet(s)
             /\ ToSet(before) = ToSet(s) \ ({s[n]} \cup ToSet(more))
             /\ ToSet(before) = {s[i] : i \in 1..(n - 1)}
<1> DEFINE before == SubSeq(s, 1, n - 1)
           more == SubSeq(s, n + 1, Len(s))
<1>1. /\ Len(s) \in Nat /\ n \in Nat /\ DOMAIN s = 1..Len(s)
      /\ \A i \in 1..Len(s) : s[i] \in S
  BY LenProperties, ElementOfSeq
<1>2. \A i, j \in 1..Len(s) : s[i] = s[j] => i = j
  BY <1>1 DEF IsInjective
<1>3. more \in Seq(S) /\ Len(more) = Len(s) - n
      /\ \A i \in 1..(Len(s) - n) : more[i] = s[n + i]
  <2>1. n + 1 \in Int /\ Len(s) \in Int /\ \A i \in (n + 1)..Len(s) : s[i] \in S
    BY <1>1
  <2>2. /\ more \in Seq(S)
        /\ Len(more) = IF n + 1 <= Len(s) THEN Len(s) - (n + 1) + 1 ELSE 0
        /\ \A i \in 1..(Len(s) - (n + 1) + 1) : more[i] = s[n + 1 + i - 1]
    BY <2>1, SubSeqProperties
  <2>3. \A i \in 1..(Len(s) - n) : n + 1 + i - 1 = n + i
    BY <1>1
  <2>4. \A a \in Nat : \A b \in 1..a :
          a - (b + 1) + 1 = a - b /\ (b + 1 <= a \/ a - b = 0)
    OBVIOUS
  <2> QED
    BY <2>2, <2>3, <2>4
<1>4. before \in Seq(S) /\ Len(before) = n - 1 /\ \A i \in 1..(n - 1) : before[i] = s[i]
  <2>1. 1 \in Int /\ n - 1 \in Int /\ \A i \in 1..(n - 1) : s[i] \in S
    BY <1>1
  <2>2. /\ before \in Seq(S)
        /\ Len(before) = IF 1 <= n - 1 THEN n - 1 - 1 + 1 ELSE 0
        /\ \A i \in 1..(n - 1 - 1 + 1) : before[i] = s[1 + i - 1]
    BY <2>1, SubSeqProperties
  <2>3. \A i \in 1..(n - 1) : 1 + i - 1 = i
    BY <1>1
  <2>4. /\ n - 1 - 1 + 1 = n - 1
        /\ (IF 1 <= n - 1 THEN n - 1 - 1 + 1 ELSE 0) = n - 1
    BY <1>1
  <2> QED
    BY <2>2, <2>3, <2>4
<1> HIDE DEF before, more
<1>5. \A x : x \in ToSet(s) <=> \E i \in 1..Len(s) : s[i] = x
  BY Members
<1>6. \A x : x \in ToSet(before) <=> \E i \in 1..(n - 1) : s[i] = x
  BY <1>4, Members
<1>7. \A x : x \in ToSet(more) <=> \E i \in (n + 1)..Len(s) : s[i] = x
  <2>1. \A x : x \in ToSet(more) <=> \E i \in 1..(Len(s) - n) : s[n + i] = x
    BY <1>3, Members
  <2>2. \A i \in 1..(Len(s) - n) : n + i \in (n + 1)..Len(s)
    BY <1>1
  <2>3. \A i \in (n + 1)..Len(s) : i - n \in 1..(Len(s) - n) /\ n + (i - n) = i
    BY <1>1
  <2> QED
    BY <2>1, <2>2, <2>3
<1>8. IsInjective(more)
  <2>1. DOMAIN more = 1..(Len(s) - n)
    BY <1>3, LenProperties
  <2> SUFFICES ASSUME NEW i \in 1..(Len(s) - n), NEW j \in 1..(Len(s) - n), more[i] = more[j]
               PROVE  i = j
    BY <2>1 DEF IsInjective
  <2>2. s[n + i] = s[n + j] /\ n + i \in 1..Len(s) /\ n + j \in 1..Len(s)
    BY <1>1, <1>3
  <2>3. n + i = n + j
    BY <2>2, <1>2
  <2> QED
    BY <2>3, <1>1
<1>9. \A i \in 1..Len(s) : i = n \/ i \in 1..(n - 1) \/ i \in (n + 1)..Len(s)
  BY <1>1
<1>10. /\ 1..(n - 1) \subseteq 1..Len(s) /\ (n + 1)..Len(s) \subseteq 1..Len(s)
       /\ n \notin 1..(n - 1) /\ n \notin (n + 1)..Len(s)
       /\ \A i \in 1..(n - 1) : i \notin (n + 1)..Len(s)
  BY <1>1
<1>11. s[n] \notin ToSet(more) /\ {s[n]} \cup ToSet(more) \subseteq ToSet(s)
  BY <1>2, <1>5, <1>7, <1>10
<1>12. ToSet(before) = ToSet(s) \ ({s[n]} \cup ToSet(more))
  <2>1. ASSUME NEW x \in ToSet(before) PROVE x \in ToSet(s) /\ x # s[n] /\ x \notin ToSet(more)
    BY <1>2, <1>5, <1>6, <1>7, <1>10
  <2>2. ASSUME NEW x \in ToSet(s), x # s[n], x \notin ToSet(more) PROVE x \in ToSet(before)
    BY <1>5, <1>6, <1>7, <1>9, <2>2
  <2> QED
    BY <2>1, <2>2
<1>13. ToSet(before) = {s[i] : i \in 1..(n - 1)}
  BY <1>6
<1> QED
  BY <1>3, <1>8, <1>11, <1>12, <1>13 DEF before, more

\* The loop over closed tabs runs to its end or stops at a connection.
LEMMA LoopForms ==
  ASSUME NEW all, NEW rest \in Seq(Tabs), IsInjective(rest), NEW es \in [Tabs -> Nat],
         NEW others, CloseRest(all, rest, es, others)
  PROVE  \/ Finishes(all, ToSet(rest), es, others)
         \/ \E u \in Tabs, more \in Seq(Tabs) : Stops(all, ToSet(rest), es, others, u, more)
<1> DEFINE stop == SelectInSeq(rest, LAMBDA t : conns[t] # NoConn)
           passed == ToSet(IF stop = 0 THEN rest ELSE SubSeq(rest, 1, stop - 1))
           left == [t \in Tabs |-> IF t \in passed THEN 0 ELSE es[t]]
           more == SubSeq(rest, stop + 1, Len(rest))
           u == rest[stop]
<1>1. \/ stop = 0 /\ \A i \in 1..Len(rest) : conns[rest[i]] = NoConn
      \/ /\ stop \in 1..Len(rest) /\ conns[rest[stop]] # NoConn
         /\ \A i \in 1..(stop - 1) : conns[rest[i]] = NoConn
  BY FirstConnected
<1>2. IF stop = 0
      THEN /\ epochs' = left
           /\ waiting' = others
           /\ Emit(Without(all))
           /\ UNCHANGED <<conns, pending>>
      ELSE /\ epochs' = [left EXCEPT ![u] = @ + 1]
           /\ conns' = [conns EXCEPT ![u] = NoConn]
           /\ pending' = [pending EXCEPT ![u] = <<>>]
           /\ waiting' = Put(others, conns[u], Closing(all, u, more))
           /\ UNCHANGED sessions
  BY Zenon DEF CloseRest
<1> HIDE DEF stop
<1>3. CASE stop = 0
  <2>1. \A t \in ToSet(rest) : conns[t] = NoConn
    BY <1>1, <1>3, LenProperties, Members
  <2> QED
    BY <1>2, <1>3, <2>1 DEF Finishes
<1>4. CASE stop # 0
  <2>1. /\ stop \in 1..Len(rest) /\ conns[u] # NoConn
        /\ \A i \in 1..(stop - 1) : conns[rest[i]] = NoConn
    BY <1>1, <1>4
  <2>2. /\ more \in Seq(Tabs) /\ IsInjective(more) /\ u \notin ToSet(more)
        /\ {u} \cup ToSet(more) \subseteq ToSet(rest)
        /\ passed = ToSet(rest) \ ({u} \cup ToSet(more))
        /\ passed = {rest[i] : i \in 1..(stop - 1)}
    <3>1. passed = ToSet(SubSeq(rest, 1, stop - 1))
      BY <1>4
    <3> HIDE DEF passed
    <3> QED
      BY <2>1, <3>1, CutAt
  <2>3. u \in Tabs
    BY <2>2, Members
  <2> HIDE DEF passed, u, more
  <2>4. \A t \in ToSet(rest) \ ({u} \cup ToSet(more)) : conns[t] = NoConn
    BY <2>1, <2>2
  <2>5. [left EXCEPT ![u] = @ + 1]
          = [t \in Tabs |-> IF t = u THEN es[u] + 1
                            ELSE IF t \in ToSet(rest) \ ToSet(more) THEN 0 ELSE es[t]]
    BY <2>2, <2>3
  <2>6. Stops(all, ToSet(rest), es, others, u, more)
    BY <1>2, <1>4, <2>1, <2>2, <2>3, <2>4, <2>5 DEF Stops
  <2> QED
    BY <2>6, <2>2, <2>3
<1> QED
  BY <1>3, <1>4

-----------------------------------------------------------------------------
(* Types. *)

\* What a tab is shown with.
Session == {s \in [connected : BOOLEAN, frames : Seq(Frame)] : Len(s.frames) <= Cap}

\* Sessions are of tabs, tasks of connections.
SessionsOK == DOMAIN sessions \subseteq Tabs /\ \A t \in DOMAIN sessions : sessions[t] \in Session
WaitingOK  == DOMAIN waiting \subseteq Conns /\ \A c \in DOMAIN waiting : waiting[c] \in Task

\* The type invariant, variable by variable.
LEMMA TypeParts ==
  TypeOK <=>
    /\ open \subseteq Tabs /\ lastAlive \subseteq Tabs
    /\ told \subseteq Tabs /\ reopened \subseteq Tabs
    /\ epochs \in [Tabs -> Nat]
    /\ conns \in [Tabs -> Conns \cup {NoConn}]
    /\ pending \in [Tabs -> Seq(Frame)]
    /\ batches \in [Tabs -> Seq([frames : Seq(Frame), epoch : Nat])]
    /\ SessionsOK /\ WaitingOK
    /\ opened \in 0..MaxConns
    /\ ended \subseteq Conns /\ released \subseteq Conns
    /\ got \in [Conns -> Nat]
    /\ phase \in {"open", "closing", "closed"} /\ events \in Nat
BY DEF TypeOK, SessionsOK, WaitingOK, Session

\* The type invariant after a step, variable by variable.
LEMMA TypedNext ==
  ASSUME (/\ open \subseteq Tabs /\ lastAlive \subseteq Tabs
          /\ told \subseteq Tabs /\ reopened \subseteq Tabs
          /\ epochs \in [Tabs -> Nat]
          /\ conns \in [Tabs -> Conns \cup {NoConn}]
          /\ pending \in [Tabs -> Seq(Frame)]
          /\ batches \in [Tabs -> Seq([frames : Seq(Frame), epoch : Nat])]
          /\ SessionsOK /\ WaitingOK
          /\ opened \in 0..MaxConns
          /\ ended \subseteq Conns /\ released \subseteq Conns
          /\ got \in [Conns -> Nat]
          /\ phase \in {"open", "closing", "closed"} /\ events \in Nat)'
  PROVE  TypeOK'
BY DEF TypeOK, SessionsOK, WaitingOK, Session

\* Connections are numbers, and none is NoConn.
LEMMA ConnNumbers ==
  /\ MaxConns \in Nat /\ Cap \in Nat /\ 1 <= Cap
  /\ Conns \subseteq Nat /\ NoConn \notin Conns
BY RealtimeAssumption DEF Conns, NoConn

\* The session of a tab is one, kept or not.
LEMMA SessionTyped ==
  ASSUME SessionsOK, NEW t \in Tabs
  PROVE  SessionFor(t) \in Session
<1>1. <<>> \in Seq(Frame) /\ Len(<<>>) = 0
  BY EmptySeq
<1>2. NoSession \in Session
  BY <1>1, ConnNumbers DEF NoSession, Session
<1> QED
  BY <1>2 DEF SessionFor, SessionsOK

\* What the handlers emit are sessions.
LEMMA LogTyped ==
  ASSUME NEW frames \in Seq(Frame), NEW b \in BOOLEAN
  PROVE  [connected |-> b, frames |-> Capped(frames)] \in Session
BY CappedLog DEF Session

\* Sessions keep their type when one of them is set,
LEMMA EmitTyped ==
  ASSUME SessionsOK, NEW t \in Tabs, NEW s \in Session, Emit(WithSession(t, s))
  PROVE  SessionsOK'
<1>1. sessions' = IF phase = "closed" THEN sessions ELSE Put(sessions, t, s)
  BY DEF Emit, WithSession
<1>2. CASE phase = "closed"
  BY <1>1, <1>2 DEF SessionsOK
<1>3. CASE phase # "closed"
  <2>1. sessions' = Put(sessions, t, s)
    BY <1>1, <1>3
  <2>2. /\ DOMAIN sessions' = DOMAIN sessions \cup {t} /\ sessions'[t] = s
        /\ \A d \in DOMAIN sessions : d # t => sessions'[d] = sessions[d]
    BY <2>1 DEF Put
  <2> QED
    BY <2>2 DEF SessionsOK
<1> QED
  BY <1>2, <1>3

\* and when some are forgotten,
LEMMA ForgetTyped ==
  ASSUME SessionsOK, NEW all, Emit(Without(all))
  PROVE  SessionsOK'
BY DEF Emit, Without, SessionsOK

\* and when a tab is shown disconnected with the frames that were kept.
LEMMA ResetTyped ==
  ASSUME SessionsOK, NEW t \in Tabs, NEW kept \in Seq(Frame), Reset(t, kept)
  PROVE  SessionsOK'
<1>1. SessionFor(t).frames \o kept \in Seq(Frame)
  BY SessionTyped, ConcatProperties DEF Session
<1> DEFINE s == [connected |-> FALSE, frames |-> Capped(SessionFor(t).frames \o kept)]
<1>2. s \in Session
  BY <1>1, LogTyped
<1>3. Emit(WithSession(t, s))
  BY DEF Reset
<1> QED
  BY <1>2, <1>3, EmitTyped

\* What a connection delivers are frames.
LEMMA FrameTyped ==
  ASSUME NEW c \in Conns, NEW n \in Nat, NEW dir \in {"open", "incoming", "outgoing", "end"}
  PROVE  [conn |-> c, n |-> n, dir |-> dir] \in Frame
BY DEF Frame

\* A connector that throws leaves every type in place.
LEMMA RefuseTyped ==
  ASSUME TypeOK, NEW t \in Tabs, NEW before \in Seq(Frame), Refuse(t, before)
  PROVE  /\ SessionsOK' /\ pending' \in [Tabs -> Seq(Frame)]
         /\ UNCHANGED <<conns, opened, got>>
<1>1. SessionsOK
  BY TypeParts
<1>2. ConnectError \in Frame
  BY DEF ConnectError, Frame
<1>3. Append(SessionFor(t).frames, ConnectError) \in Seq(Frame)
  BY <1>1, <1>2, SessionTyped, AppendProperties DEF Session
<1> DEFINE s == [connected |-> FALSE,
                 frames |-> Capped(Append(SessionFor(t).frames, ConnectError))]
<1>4. s \in Session
  BY <1>3, LogTyped
<1>5. Emit(WithSession(t, s))
  BY DEF Refuse
<1>6. SessionsOK'
  BY <1>1, <1>4, <1>5, EmitTyped
<1>7. pending \in [Tabs -> Seq(Frame)] /\ pending' = [pending EXCEPT ![t] = before]
  BY DEF TypeOK, Refuse
<1> QED
  BY <1>6, <1>7 DEF Refuse

\* A connect that succeeds takes the next connection.
LEMMA EstablishTyped ==
  ASSUME TypeOK, NEW t \in Tabs, NEW before \in Seq(Frame), Establish(t, before)
  PROVE  /\ SessionsOK' /\ pending' \in [Tabs -> Seq(Frame)]
         /\ opened' = opened + 1 /\ opened' \in Conns /\ opened' \in 0..MaxConns
         /\ conns' = [conns EXCEPT ![t] = opened']
         /\ conns' \in [Tabs -> Conns \cup {NoConn}] /\ got' \in [Conns -> Nat]
<1>1. opened' = opened + 1 /\ opened' \in Conns /\ opened' \in 0..MaxConns
  BY ConnNumbers DEF TypeOK, Establish, Conns
<1>2. [conn |-> opened + 1, n |-> 1, dir |-> "open"] \in Frame
  BY <1>1, FrameTyped
<1>3. Append(before, [conn |-> opened + 1, n |-> 1, dir |-> "open"]) \in Seq(Frame)
  BY <1>2, AppendProperties
<1>4. pending' \in [Tabs -> Seq(Frame)]
  BY <1>3 DEF TypeOK, Establish
<1>5. conns' = [conns EXCEPT ![t] = opened'] /\ conns' \in [Tabs -> Conns \cup {NoConn}]
  BY <1>1 DEF TypeOK, Establish
<1>6. got' \in [Conns -> Nat]
  BY DEF TypeOK, Establish
<1>7. [connected |-> TRUE, frames |-> <<>>] \in Session
  BY ConnNumbers, EmptySeq DEF Session
<1>8. SessionsOK'
  BY <1>7, TypeParts, EmitTyped DEF Establish
<1> QED
  BY <1>1, <1>4, <1>5, <1>6, <1>8

\* What each kind of waiting handler remembers.
LEMMA TaskFields ==
  ASSUME WaitingOK, NEW c \in DOMAIN waiting
  PROVE  /\ c \in Conns
         /\ Waits(c) => waiting[c].tab \in Tabs /\ waiting[c].epoch \in Nat
         /\ IsTask(c, "disconnect") => waiting[c].kept \in Seq(Frame)
         /\ IsTask(c, "tabs") => /\ waiting[c].all \in SUBSET Tabs /\ waiting[c].tab \in Tabs
                                 /\ waiting[c].rest \in Seq(Tabs)
         /\ IsTask(c, "quit") => waiting[c].rest \in Seq(Conns)
BY DEF WaitingOK, Task, IsTask, Waits

\* Waiting handlers keep their type when one begins to wait,
LEMMA PutTyped ==
  ASSUME NEW others, DOMAIN others \subseteq Conns, \A c \in DOMAIN others : others[c] \in Task,
         NEW k \in Conns, NEW task \in Task, waiting' = Put(others, k, task)
  PROVE  WaitingOK'
<1>1. /\ DOMAIN waiting' = DOMAIN others \cup {k} /\ waiting'[k] = task
      /\ \A d \in DOMAIN others : d # k => waiting'[d] = others[d]
  BY DEF Put
<1> QED
  BY <1>1 DEF WaitingOK

\* and when one goes on.
LEMMA OthersTyped ==
  ASSUME WaitingOK, NEW c
  PROVE  /\ DOMAIN Others(c) \subseteq Conns
         /\ \A d \in DOMAIN Others(c) : Others(c)[d] \in Task
BY OthersKept DEF WaitingOK

\* The loop over closed tabs leaves every type in place.
LEMMA LoopTyped ==
  ASSUME TypeOK, NEW all \in SUBSET Tabs, NEW tabs, NEW es \in [Tabs -> Nat],
         NEW others, DOMAIN others \subseteq Conns, \A c \in DOMAIN others : others[c] \in Task,
         \/ Finishes(all, tabs, es, others)
         \/ \E u \in Tabs, more \in Seq(Tabs) : Stops(all, tabs, es, others, u, more)
  PROVE  /\ epochs' \in [Tabs -> Nat] /\ conns' \in [Tabs -> Conns \cup {NoConn}]
         /\ pending' \in [Tabs -> Seq(Frame)] /\ SessionsOK' /\ WaitingOK'
<1>1. SessionsOK /\ conns \in [Tabs -> Conns \cup {NoConn}] /\ pending \in [Tabs -> Seq(Frame)]
  BY TypeParts
<1>2. CASE Finishes(all, tabs, es, others)
  BY <1>1, <1>2, ForgetTyped DEF Finishes, WaitingOK
<1>3. ASSUME NEW u \in Tabs, NEW more \in Seq(Tabs), Stops(all, tabs, es, others, u, more)
      PROVE  /\ epochs' \in [Tabs -> Nat] /\ conns' \in [Tabs -> Conns \cup {NoConn}]
             /\ pending' \in [Tabs -> Seq(Frame)] /\ SessionsOK' /\ WaitingOK'
  <2>1. epochs' \in [Tabs -> Nat]
    BY <1>3 DEF Stops
  <2>2. conns' \in [Tabs -> Conns \cup {NoConn}] /\ pending' \in [Tabs -> Seq(Frame)]
    BY <1>1, <1>3, EmptySeq DEF Stops
  <2>3. SessionsOK'
    BY <1>1, <1>3 DEF Stops, SessionsOK
  <2>4. conns[u] \in Conns /\ Closing(all, u, more) \in Task
    BY <1>1, <1>3 DEF Stops, Closing, Task
  <2>5. WaitingOK'
    BY <1>3, <2>4, PutTyped DEF Stops
  <2> QED
    BY <2>1, <2>2, <2>3, <2>5
<1> QED
  BY <1>2, <1>3

\* A frame is delivered by a connection of its tab.
LEMMA DeliverTyped ==
  ASSUME TypeOK, NEW t \in Tabs, NEW dir \in {"open", "incoming", "outgoing", "end"},
         Deliver(t, dir)
  PROVE  pending' \in [Tabs -> Seq(Frame)] /\ got' \in [Conns -> Nat] /\ conns[t] \in Conns
<1>1. conns[t] \in Conns /\ got[conns[t]] \in Nat
  BY DEF TypeOK, Deliver
<1>2. [conn |-> conns[t], n |-> got[conns[t]] + 1, dir |-> dir] \in Frame
  <2>1. got[conns[t]] + 1 \in Nat
    BY <1>1
  <2> QED
    BY <1>1, <2>1, FrameTyped
<1>3. Append(pending[t], [conn |-> conns[t], n |-> got[conns[t]] + 1, dir |-> dir]) \in Seq(Frame)
  BY <1>2, AppendProperties DEF TypeOK
<1>4. pending' \in [Tabs -> Seq(Frame)]
  BY <1>3 DEF TypeOK, Deliver
<1>5. got' \in [Conns -> Nat]
  BY DEF TypeOK, Deliver
<1> QED
  BY <1>1, <1>4, <1>5

\* A handler that waits for its socket leaves every type in place.
LEMMA ParkTyped ==
  ASSUME TypeOK, NEW t \in Tabs, NEW task \in Task, Park(t, task)
  PROVE  /\ epochs' \in [Tabs -> Nat] /\ conns' \in [Tabs -> Conns \cup {NoConn}]
         /\ pending' \in [Tabs -> Seq(Frame)] /\ WaitingOK'
<1>1. WaitingOK /\ conns[t] \in Conns
  BY TypeParts DEF TypeOK, Park
<1>2. WaitingOK'
  BY <1>1, PutTyped DEF Park, WaitingOK
<1>3. epochs' \in [Tabs -> Nat]
  BY DEF TypeOK, Park, Bumped
<1>4. conns' \in [Tabs -> Conns \cup {NoConn}] /\ pending' \in [Tabs -> Seq(Frame)]
  BY EmptySeq DEF TypeOK, Park
<1> QED
  BY <1>2, <1>3, <1>4

\* A connect and a disconnect preserve the types.
LEMMA UserTyped ==
  ASSUME TypeOK, NEW t \in Tabs, Connect(t) \/ Disconnect(t)
  PROVE  TypeOK'
<1>1. epochs[t] + 1 \in Nat /\ pending[t] \in Seq(Frame) /\ <<>> \in Seq(Frame)
  BY EmptySeq DEF TypeOK
<1>2. Connecting(t) \in Task /\ Disconnecting(t) \in Task
  BY <1>1 DEF Connecting, Disconnecting, Task
<1>3. Bumped(t) \in [Tabs -> Nat] /\ events + 1 \in Nat
  BY DEF TypeOK, Bumped
<1>4. TypeOK
  OBVIOUS
<1>5. CASE Park(t, Connecting(t)) /\ Connect(t) /\ UNCHANGED <<sessions, opened, got>>
  <2>1. /\ epochs' \in [Tabs -> Nat] /\ conns' \in [Tabs -> Conns \cup {NoConn}]
        /\ pending' \in [Tabs -> Seq(Frame)] /\ WaitingOK'
    BY <1>2, <1>5, ParkTyped
  <2>2. SessionsOK'
    BY <1>4, <1>5, TypeParts DEF SessionsOK
  <2> QED
    BY <1>3, <1>5, <2>1, <2>2, TypeParts, TypedNext DEF Connect, Acts, tabsVars
<1>6. CASE conns[t] = NoConn /\ Connect(t)
  <2>1. epochs' = Bumped(t) /\ (Establish(t, <<>>) \/ Refuse(t, <<>>)) /\ UNCHANGED waiting
    BY <1>6 DEF Connect, Park
  <2>2. /\ SessionsOK' /\ pending' \in [Tabs -> Seq(Frame)] /\ got' \in [Conns -> Nat]
        /\ conns' \in [Tabs -> Conns \cup {NoConn}] /\ opened' \in 0..MaxConns
    <3>1. CASE Establish(t, <<>>)
      BY <1>1, <3>1, EstablishTyped
    <3>2. CASE Refuse(t, <<>>)
      <4>1. SessionsOK' /\ pending' \in [Tabs -> Seq(Frame)] /\ UNCHANGED <<conns, opened, got>>
        BY <1>1, <3>2, RefuseTyped
      <4> QED
        BY <4>1, TypeParts
    <3> QED
      BY <2>1, <3>1, <3>2
  <2>3. WaitingOK'
    BY <2>1, TypeParts DEF WaitingOK
  <2> QED
    BY <1>3, <1>6, <2>1, <2>2, <2>3, TypeParts, TypedNext DEF Connect, Acts, tabsVars
<1>7. CASE Park(t, Disconnecting(t)) /\ Disconnect(t) /\ UNCHANGED sessions
  <2>1. /\ epochs' \in [Tabs -> Nat] /\ conns' \in [Tabs -> Conns \cup {NoConn}]
        /\ pending' \in [Tabs -> Seq(Frame)] /\ WaitingOK'
    BY <1>2, <1>7, ParkTyped
  <2>2. SessionsOK'
    BY <1>7, TypeParts DEF SessionsOK
  <2> QED
    BY <1>3, <1>7, <2>1, <2>2, TypeParts, TypedNext DEF Disconnect, Acts, tabsVars, wireVars
<1>8. CASE conns[t] = NoConn /\ Disconnect(t)
  <2>1. /\ epochs' = Bumped(t) /\ Reset(t, pending[t])
        /\ pending' = [pending EXCEPT ![t] = <<>>] /\ UNCHANGED <<conns, waiting>>
    BY <1>8 DEF Disconnect, Park
  <2>2. SessionsOK'
    BY <1>1, <2>1, TypeParts, ResetTyped
  <2>3. pending' \in [Tabs -> Seq(Frame)]
    BY <1>1, <2>1, TypeParts
  <2>4. WaitingOK'
    BY <2>1, TypeParts DEF WaitingOK
  <2> QED
    BY <1>3, <1>8, <2>1, <2>2, <2>3, <2>4, TypeParts, TypedNext DEF Disconnect, Acts, tabsVars, wireVars
<1> QED
  BY <1>5, <1>6, <1>7, <1>8 DEF Connect, Disconnect

\* Closing tabs preserves the types.
LEMMA CloseTabsTyped ==
  ASSUME TypeOK, NEW ts \in SUBSET Tabs, CloseTabs(ts)
  PROVE  TypeOK'
<1> DEFINE noticed == lastAlive \ open'
<1>1. noticed \in SUBSET Tabs /\ IsFiniteSet(noticed) /\ open' \subseteq Tabs /\ events' \in Nat
  BY RealtimeAssumption, FS_Subset DEF TypeOK, CloseTabs, Acts
<1>2. PICK rest \in SetToSeqs(noticed) :
        IF rest = <<>>
        THEN UNCHANGED <<epochs, conns, pending, sessions, waiting>>
        ELSE CloseRest(noticed, rest, epochs, waiting)
  BY DEF CloseTabs
<1>3. rest \in Seq(Tabs) /\ IsInjective(rest)
  <2>1. rest \in Seq(noticed) /\ IsInjective(rest)
    BY <1>1, SequencesOfSet
  <2> QED
    BY <1>1, <2>1, SeqMonotonic
<1>4. WaitingOK /\ SessionsOK /\ epochs \in [Tabs -> Nat]
  BY TypeParts
<1>5. /\ epochs' \in [Tabs -> Nat] /\ conns' \in [Tabs -> Conns \cup {NoConn}]
      /\ pending' \in [Tabs -> Seq(Frame)] /\ SessionsOK' /\ WaitingOK'
  <2>1. CASE rest = <<>>
    BY <1>2, <2>1, TypeParts DEF SessionsOK, WaitingOK
  <2>2. CASE rest # <<>>
    <3>1. CloseRest(noticed, rest, epochs, waiting)
      BY <1>2, <2>2
    <3>2. \/ Finishes(noticed, ToSet(rest), epochs, waiting)
          \/ \E u \in Tabs, more \in Seq(Tabs) :
               Stops(noticed, ToSet(rest), epochs, waiting, u, more)
      BY <1>3, <1>4, <3>1, LoopForms
    <3>3. DOMAIN waiting \subseteq Conns /\ \A c \in DOMAIN waiting : waiting[c] \in Task
      BY <1>4 DEF WaitingOK
    <3> QED
      BY <1>1, <1>4, <3>2, <3>3, LoopTyped
  <2> QED
    BY <2>1, <2>2
<1>6. lastAlive' \subseteq Tabs /\ told' \subseteq Tabs
  BY <1>1 DEF TypeOK, CloseTabs
<1> QED
  BY <1>1, <1>5, <1>6, TypeParts, TypedNext DEF CloseTabs, wireVars

\* Closing the remaining connections preserves the types,
LEMMA QuitTyped ==
  ASSUME NEW rest \in Seq(Conns), NEW others, DOMAIN others \subseteq Conns,
         \A c \in DOMAIN others : others[c] \in Task, QuitRest(rest, others)
  PROVE  WaitingOK' /\ phase' \in {"open", "closing", "closed"}
<1>1. CASE rest = <<>>
  BY <1>1 DEF QuitRest, WaitingOK
<1>2. CASE rest # <<>>
  <2>1. Head(rest) \in Conns /\ Tail(rest) \in Seq(Conns)
    BY <1>2, HeadTailProperties
  <2>2. Quitting(Tail(rest)) \in Task
    BY <2>1 DEF Quitting, Task
  <2>3. waiting' = Put(others, Head(rest), Quitting(Tail(rest))) /\ phase' = "closing"
    BY <1>2 DEF QuitRest
  <2> QED
    BY <2>1, <2>2, <2>3, PutTyped
<1> QED
  BY <1>1, <1>2

\* and so does close() itself.
LEMMA CloseBlocTyped ==
  ASSUME TypeOK, CloseBloc
  PROVE  TypeOK'
<1> DEFINE S == {conns[t] : t \in Tabs} \ {NoConn}
<1>1. S \subseteq Conns /\ IsFiniteSet(S)
  <2>1. S \subseteq Conns
    BY DEF TypeOK
  <2>2. IsFiniteSet(Conns)
    BY RealtimeAssumption, FS_Interval DEF Conns
  <2> QED
    BY <2>1, <2>2, FS_Subset
<1>2. PICK rest \in SetToSeqs(S) : QuitRest(rest, waiting)
  BY DEF CloseBloc
<1>3. rest \in Seq(Conns)
  <2>1. rest \in Seq(S)
    BY <1>1, SequencesOfSet
  <2> QED
    BY <1>1, <2>1, SeqMonotonic
<1>4. WaitingOK' /\ phase' \in {"open", "closing", "closed"}
  BY <1>2, <1>3, QuitTyped, TypeParts DEF WaitingOK
<1>5. SessionsOK'
  BY TypeParts DEF SessionsOK, CloseBloc
<1>6. pending' \in [Tabs -> Seq(Frame)] /\ conns' \in [Tabs -> Conns \cup {NoConn}]
  BY EmptySeq DEF CloseBloc
<1>7. events' \in Nat
  BY DEF TypeOK, CloseBloc, Acts
<1> QED
  BY <1>4, <1>5, <1>6, <1>7, TypeParts, TypedNext DEF CloseBloc, tabsVars, wireVars

\* Frames on their way, with the epoch they were flushed at.
Batch == [frames : Seq(Frame), epoch : Nat]

\* What happens within a turn of the event loop preserves the types.
LEMMA TurnTyped ==
  ASSUME TypeOK, NEW t \in Tabs,
         \/ SendRealtimeMessage(t) \/ OpenTab(t) \/ ReopenTab(t)
         \/ ServerFrame(t) \/ ServerEnds(t) \/ FlushTimer(t) \/ FramesBatchReceived(t)
  PROVE  TypeOK'
<1>1. WaitingOK /\ SessionsOK
  BY TypeParts
<1>2. CASE SendRealtimeMessage(t)
  <2>1. conns[t] \in Conns /\ got[conns[t]] + 1 \in Nat
    BY <1>2 DEF TypeOK, SendRealtimeMessage
  <2>2. [conn |-> conns[t], n |-> got[conns[t]] + 1, dir |-> "outgoing"] \in Frame
    BY <2>1, FrameTyped
  <2>3. Append(pending[t], [conn |-> conns[t], n |-> got[conns[t]] + 1, dir |-> "outgoing"])
          \in Seq(Frame)
    BY <2>2, AppendProperties DEF TypeOK
  <2>4. pending' \in [Tabs -> Seq(Frame)]
    BY <1>2, <2>3 DEF TypeOK, SendRealtimeMessage
  <2>5. got' \in [Conns -> Nat] /\ events' \in Nat
    BY <1>2, <2>1 DEF TypeOK, SendRealtimeMessage, Acts
  <2>6. WaitingOK' /\ SessionsOK'
    BY <1>1, <1>2 DEF WaitingOK, SessionsOK, SendRealtimeMessage
  <2> QED
    BY <1>2, <2>4, <2>5, <2>6, TypeParts, TypedNext DEF SendRealtimeMessage, tabsVars
<1>3. CASE OpenTab(t)
  BY <1>3 DEF TypeOK, OpenTab, wireVars
<1>4. CASE ReopenTab(t)
  <2>1. WaitingOK' /\ SessionsOK'
    BY <1>1, <1>4 DEF WaitingOK, SessionsOK, ReopenTab
  <2>2. open' \subseteq Tabs /\ told' \subseteq Tabs /\ reopened' \subseteq Tabs /\ events' \in Nat
    BY <1>4, TypeParts DEF ReopenTab, Acts
  <2> QED
    BY <1>4, <2>1, <2>2, TypeParts, TypedNext DEF ReopenTab, wireVars
<1>5. CASE ServerFrame(t) \/ ServerEnds(t)
  <2>1. PICK dir \in {"incoming", "end"} : Deliver(t, dir) /\ ended' \subseteq ended \cup {conns[t]}
    BY <1>5 DEF ServerFrame, ServerEnds
  <2>2. pending' \in [Tabs -> Seq(Frame)] /\ got' \in [Conns -> Nat] /\ conns[t] \in Conns
    BY <2>1, DeliverTyped
  <2>3. WaitingOK' /\ SessionsOK'
    BY <1>1, <2>1 DEF WaitingOK, SessionsOK, Deliver
  <2>4. ended' \subseteq Conns
    BY <2>1, <2>2 DEF TypeOK
  <2> QED
    BY <2>1, <2>2, <2>3, <2>4, TypeParts, TypedNext DEF Deliver, tabsVars
<1>6. CASE FlushTimer(t)
  <2>1. [frames |-> pending[t], epoch |-> epochs[t]] \in Batch
    BY DEF TypeOK, Batch
  <2>2. Append(batches[t], [frames |-> pending[t], epoch |-> epochs[t]]) \in Seq(Batch)
    BY <2>1, AppendProperties DEF TypeOK, Batch
  <2>3. batches' \in [Tabs -> Seq([frames : Seq(Frame), epoch : Nat])]
    BY <1>6, <2>2 DEF TypeOK, FlushTimer, Batch
  <2>4. pending' \in [Tabs -> Seq(Frame)]
    BY <1>6, EmptySeq DEF TypeOK, FlushTimer
  <2>5. WaitingOK' /\ SessionsOK'
    BY <1>1, <1>6 DEF WaitingOK, SessionsOK, FlushTimer
  <2> QED
    BY <1>6, <2>3, <2>4, <2>5, TypeParts, TypedNext DEF FlushTimer, tabsVars, wireVars
<1>7. CASE FramesBatchReceived(t)
  <2>1. batches[t] \in Seq(Batch) /\ batches[t] # <<>>
    BY <1>7 DEF TypeOK, FramesBatchReceived, Batch
  <2>2. Head(batches[t]) \in Batch /\ Tail(batches[t]) \in Seq(Batch)
    BY <2>1, HeadTailProperties
  <2>3. batches' \in [Tabs -> Seq([frames : Seq(Frame), epoch : Nat])]
    BY <1>7, <2>2 DEF TypeOK, FramesBatchReceived, Batch
  <2> DEFINE frames == Head(batches[t]).frames
             s == [connected |-> Last(frames).dir # "end",
                   frames |-> Capped(SessionFor(t).frames \o frames)]
  <2>4. s \in Session
    <3>1. SessionFor(t).frames \o frames \in Seq(Frame)
      BY <1>1, <2>2, SessionTyped, ConcatProperties DEF Session, Batch
    <3>2. (Last(frames).dir # "end") \in BOOLEAN
      OBVIOUS
    <3> QED
      BY <3>1, <3>2, LogTyped
  <2>5. Emit(WithSession(t, s)) \/ UNCHANGED sessions
    BY <1>7 DEF FramesBatchReceived
  <2>6. SessionsOK'
    <3> HIDE DEF s
    <3>1. CASE Emit(WithSession(t, s))
      BY <1>1, <2>4, <3>1, EmitTyped
    <3>2. CASE UNCHANGED sessions
      BY <1>1, <3>2 DEF SessionsOK
    <3> QED
      BY <2>5, <3>1, <3>2
  <2>7. WaitingOK'
    BY <1>1, <1>7 DEF WaitingOK, FramesBatchReceived
  <2> QED
    BY <1>7, <2>3, <2>6, <2>7, TypeParts, TypedNext DEF FramesBatchReceived, tabsVars, wireVars
<1> QED
  BY <1>2, <1>3, <1>4, <1>5, <1>6, <1>7

\* A handler that goes on preserves the types.
LEMMA SocketTyped ==
  ASSUME TypeOK, Looping, NEW c \in Conns, SocketClosed(c)
  PROVE  TypeOK'
<1>1. WaitingOK /\ SessionsOK
  BY TypeParts
<1>2. /\ DOMAIN Others(c) \subseteq Conns
      /\ \A d \in DOMAIN Others(c) : Others(c)[d] \in Task
  BY <1>1, OthersTyped
<1>3. waiting' = Others(c) => WaitingOK'
  BY <1>2 DEF WaitingOK
<1>4. ASSUME ResumeConnect(c)
      PROVE  /\ SessionsOK' /\ WaitingOK' /\ pending' \in [Tabs -> Seq(Frame)]
             /\ got' \in [Conns -> Nat]
             /\ conns' \in [Tabs -> Conns \cup {NoConn}] /\ opened' \in 0..MaxConns
  <2> DEFINE t == waiting[c].tab
  <2>1. c \in DOMAIN waiting /\ Waits(c)
    BY <1>4 DEF ResumeConnect, IsTask, Waits
  <2>2. t \in Tabs /\ pending[t] \in Seq(Frame)
    BY <1>1, <2>1, TaskFields, TypeParts
  <2> HIDE DEF t
  <2>3. Establish(t, pending[t]) \/ Refuse(t, pending[t])
    BY <1>4 DEF ResumeConnect, t
  <2>4. CASE Establish(t, pending[t])
    BY <1>3, <1>4, <2>2, <2>4, EstablishTyped DEF ResumeConnect
  <2>5. CASE Refuse(t, pending[t])
    <3>1. SessionsOK' /\ pending' \in [Tabs -> Seq(Frame)] /\ UNCHANGED <<conns, opened, got>>
      BY <2>2, <2>5, RefuseTyped
    <3> QED
      BY <1>3, <1>4, <3>1, TypeParts DEF ResumeConnect
  <2> QED
    BY <2>3, <2>4, <2>5
<1>5. ASSUME ResumeDisconnect(c) PROVE SessionsOK'
  <2>1. c \in DOMAIN waiting /\ Waits(c) /\ IsTask(c, "disconnect")
    BY <1>5 DEF ResumeDisconnect, IsTask, Waits
  <2>2. waiting[c].tab \in Tabs /\ waiting[c].kept \in Seq(Frame)
    BY <1>1, <2>1, TaskFields
  <2> QED
    BY <1>1, <1>5, <2>2, ResetTyped DEF ResumeDisconnect
<1>6. ASSUME ResumeQuit(c) PROVE WaitingOK' /\ phase' \in {"open", "closing", "closed"}
  <2>1. c \in DOMAIN waiting /\ IsTask(c, "quit")
    BY <1>6 DEF ResumeQuit, IsTask
  <2>2. waiting[c].rest \in Seq(Conns)
    BY <1>1, <2>1, TaskFields
  <2> QED
    BY <1>2, <1>6, <2>2, QuitTyped DEF ResumeQuit
<1>7. released \subseteq Conns /\ released \cup {c} \subseteq Conns
  BY TypeParts
<1>8. CASE ResumeConnect(c)
  BY <1>4, <1>7, <1>8, TypeParts, TypedNext DEF ResumeConnect, Closed, tabsVars
<1>9. CASE ResumeDisconnect(c)
  BY <1>3, <1>5, <1>7, <1>9, TypeParts, TypedNext DEF ResumeDisconnect, Closed, tabsVars
<1>10. CASE GiveUp(c)
  <2>1. SessionsOK'
    BY <1>1, <1>10 DEF GiveUp, SessionsOK
  <2> QED
    BY <1>3, <1>7, <1>10, <2>1, TypeParts, TypedNext DEF GiveUp, Closed, tabsVars
<1>11. CASE ResumeTabsClosed(c)
  <2> DEFINE task == waiting[c]
             es == [epochs EXCEPT ![task.tab] = 0]
  <2>1. c \in DOMAIN waiting /\ IsTask(c, "tabs")
    BY <1>11 DEF ResumeTabsClosed, IsTask
  <2>2. task.all \in SUBSET Tabs /\ task.tab \in Tabs /\ task.rest \in Seq(Tabs)
    BY <1>1, <2>1, TaskFields
  <2>3. es \in [Tabs -> Nat]
    BY TypeParts
  <2>4. CloseRest(task.all, task.rest, es, Others(c))
    BY <1>11 DEF ResumeTabsClosed
  <2>5. IsInjective(task.rest)
    BY <2>1 DEF Looping
  <2> HIDE DEF task, es
  <2>6. \/ Finishes(task.all, ToSet(task.rest), es, Others(c))
        \/ \E u \in Tabs, more \in Seq(Tabs) :
             Stops(task.all, ToSet(task.rest), es, Others(c), u, more)
    BY <2>2, <2>3, <2>4, <2>5, LoopForms
  <2>7. /\ epochs' \in [Tabs -> Nat] /\ conns' \in [Tabs -> Conns \cup {NoConn}]
        /\ pending' \in [Tabs -> Seq(Frame)] /\ SessionsOK' /\ WaitingOK'
    BY <1>2, <2>2, <2>3, <2>6, LoopTyped
  <2> QED
    BY <1>7, <1>11, <2>7, TypeParts, TypedNext DEF ResumeTabsClosed, Closed, tabsVars
<1>12. CASE ResumeQuit(c)
  <2>1. SessionsOK'
    BY <1>1, <1>12 DEF ResumeQuit, SessionsOK
  <2> QED
    BY <1>6, <1>7, <1>12, <2>1, TypeParts, TypedNext DEF ResumeQuit, Closed, tabsVars
<1> QED
  BY <1>8, <1>9, <1>10, <1>11, <1>12 DEF SocketClosed

-----------------------------------------------------------------------------
(* Connections are in one place. *)

\* Handlers that wait, or some of them.
Part(others) ==
  DOMAIN others \subseteq DOMAIN waiting /\ \A d \in DOMAIN others : others[d] = waiting[d]

\* The waiting handlers, and those without one of them, are part of them.
LEMMA Parts == Part(waiting) /\ \A c : Part(Others(c))
BY OthersKept DEF Part

\* What is set when a handler starts to wait.
LEMMA PutFacts ==
  ASSUME NEW others, Part(others), NEW k, NEW task, waiting' = Put(others, k, task)
  PROVE  /\ DOMAIN waiting' = DOMAIN others \cup {k} /\ waiting'[k] = task
         /\ \A d \in DOMAIN others \ {k} : d \in DOMAIN waiting /\ waiting'[d] = waiting[d]
BY DEF Put, Part

\* Handlers go, and nothing else changes.
LEMMA LeavesWired ==
  ASSUME Wired, Part(waiting'), UNCHANGED <<conns, opened>>, phase' = "open" => phase = "open"
  PROVE  Wired'
<1>1. \A c \in DOMAIN waiting' : c \in DOMAIN waiting /\ waiting'[c] = waiting[c]
  BY DEF Part
<1> QED
  BY <1>1 DEF Wired, Parked, IsTask

\* A socket goes from its tab to a handler.
LEMMA ParksWired ==
  ASSUME TypeOK, Wired, NEW others, Part(others), NEW u \in Tabs, conns[u] # NoConn,
         NEW task, task.kind # "quit", waiting' = Put(others, conns[u], task),
         conns' = [conns EXCEPT ![u] = NoConn],
         UNCHANGED opened, phase' = "open" => phase = "open"
  PROVE  Wired'
<1>1. /\ DOMAIN waiting' = DOMAIN others \cup {conns[u]} /\ waiting'[conns[u]] = task
      /\ \A d \in DOMAIN others \ {conns[u]} : d \in DOMAIN waiting /\ waiting'[d] = waiting[d]
  BY PutFacts
<1>2. /\ conns'[u] = NoConn /\ \A t \in Tabs \ {u} : conns'[t] = conns[t]
      /\ conns \in [Tabs -> Conns \cup {NoConn}] /\ opened \in Nat
  BY ConnNumbers DEF TypeOK
<1>3. conns[u] \in 1..opened /\ \A t \in Tabs \ {u} : conns[t] # conns[u]
  BY <1>2 DEF Wired, NoConn
<1>4. \A t \in Tabs : conns'[t] \in 0..opened'
  BY <1>2 DEF Wired, NoConn
<1>5. \A t, v \in Tabs : conns'[t] = conns'[v] /\ conns'[t] # NoConn => t = v
  BY <1>2 DEF Wired
<1>6. \A c : Parked(c) => Parked(c)'
  BY <1>2 DEF Parked, NoConn
<1>7. \A c : c = conns[u] => Parked(c)'
  BY <1>2, <1>3 DEF Parked, NoConn
<1>8. \A c \in DOMAIN waiting' :
        /\ IsTask(c, "quit")' => IsTask(c, "quit") /\ waiting'[c] = waiting[c]
        /\ c \in DOMAIN waiting \/ c = conns[u]
  BY <1>1 DEF IsTask
<1>9. \A c \in DOMAIN waiting' :
        /\ Parked(c)'
        /\ IsTask(c, "quit")' => \A d \in ToSet(waiting'[c].rest) : Parked(d)'
  BY <1>6, <1>7, <1>8 DEF Wired, IsTask
<1>10. /\ \A c, d \in DOMAIN waiting' : IsTask(c, "quit")' /\ IsTask(d, "quit")' => c = d
       /\ phase' = "open" => \A c \in DOMAIN waiting' : ~IsTask(c, "quit")'
  BY <1>8 DEF Wired, IsTask
<1> QED
  BY <1>4, <1>5, <1>9, <1>10 DEF Wired

\* A new connection.
LEMMA EstablishWired ==
  ASSUME TypeOK, Wired, Part(waiting'), NEW u \in Tabs, opened' = opened + 1,
         conns' = [conns EXCEPT ![u] = opened'], phase' = "open" => phase = "open"
  PROVE  Wired'
<1>1. /\ conns'[u] = opened + 1 /\ \A t \in Tabs \ {u} : conns'[t] = conns[t]
      /\ opened \in Nat /\ opened' = opened + 1
  BY ConnNumbers DEF TypeOK
<1>2. \A c \in DOMAIN waiting' : c \in DOMAIN waiting /\ waiting'[c] = waiting[c]
  BY DEF Part
<1>3. \A t \in Tabs : conns[t] \in 0..opened /\ conns[t] # opened + 1
  BY <1>1 DEF Wired
<1>4. \A t \in Tabs : conns'[t] \in 0..opened'
  BY <1>1, <1>3
<1>5. \A t, v \in Tabs : conns'[t] = conns'[v] /\ conns'[t] # NoConn => t = v
  BY <1>1, <1>3 DEF Wired
<1>6. \A c : Parked(c) => Parked(c)'
  BY <1>1 DEF Parked
<1> QED
  BY <1>2, <1>4, <1>5, <1>6 DEF Wired, IsTask

\* The loop that closes all sockets goes on.
LEMMA QuitsWired ==
  ASSUME TypeOK, Wired, NEW others, Part(others), NEW rest \in Seq(Conns),
         QuitRest(rest, others), UNCHANGED opened,
         conns' = conns \/ conns' = [t \in Tabs |-> NoConn],
         \A d \in ToSet(rest) : Parked(d)',
         \A c \in DOMAIN others : ~IsTask(c, "quit")
  PROVE  Wired'
<1>1. /\ conns \in [Tabs -> Conns \cup {NoConn}] /\ opened \in Nat
      /\ \A t \in Tabs : conns'[t] = conns[t] \/ conns'[t] = NoConn
  BY ConnNumbers DEF TypeOK
<1>2. /\ \A t \in Tabs : conns'[t] \in 0..opened'
      /\ \A t, v \in Tabs : conns'[t] = conns'[v] /\ conns'[t] # NoConn => t = v
  BY <1>1 DEF Wired, NoConn
<1>3. \A c : Parked(c) => Parked(c)'
  BY <1>1 DEF Parked, NoConn
<1>4. CASE rest = <<>>
  <2>1. phase' = "closed" /\ waiting' = others
    BY <1>4 DEF QuitRest
  <2>2. \A c \in DOMAIN waiting' : Parked(c)' /\ ~IsTask(c, "quit")'
    BY <2>1, <1>3 DEF Part, IsTask, Wired
  <2> QED
    BY <1>2, <2>1, <2>2 DEF Wired
<1>5. CASE rest # <<>>
  <2> DEFINE k == Head(rest)
             task == Quitting(Tail(rest))
  <2>1. phase' = "closing" /\ waiting' = Put(others, k, task)
    BY <1>5 DEF QuitRest
  <2>2. /\ DOMAIN waiting' = DOMAIN others \cup {k} /\ waiting'[k] = task
        /\ \A d \in DOMAIN others \ {k} : d \in DOMAIN waiting /\ waiting'[d] = waiting[d]
    BY <2>1, PutFacts
  <2>3. k \in ToSet(rest) /\ ToSet(task.rest) \subseteq ToSet(rest)
    <3>1. /\ Tail(rest) \in Seq(Conns) /\ Len(Tail(rest)) = Len(rest) - 1
          /\ \A i \in 1..Len(Tail(rest)) : Tail(rest)[i] = rest[i + 1]
      BY <1>5, HeadTailProperties
    <3>2. Len(rest) \in Nat /\ 1 <= Len(rest) /\ Head(rest) = rest[1]
      BY <1>5, EmptySeq, LenProperties
    <3>3. \A x : x \in ToSet(rest) <=> \E i \in 1..Len(rest) : rest[i] = x
      BY Members
    <3>4. \A x : x \in ToSet(Tail(rest)) <=> \E i \in 1..Len(Tail(rest)) : Tail(rest)[i] = x
      BY <3>1, Members
    <3>5. \A i \in 1..Len(Tail(rest)) : i + 1 \in 1..Len(rest)
      BY <3>1, <3>2
    <3>6. ToSet(Tail(rest)) \subseteq ToSet(rest)
      BY <3>1, <3>3, <3>4, <3>5
    <3>7. Head(rest) \in ToSet(rest)
      BY <3>2, <3>3
    <3> QED
      BY <3>6, <3>7 DEF Quitting
  <2> HIDE DEF k, task
  <2>4. \A c \in DOMAIN waiting' : c # k => c \in DOMAIN others /\ ~IsTask(c, "quit")' /\ Parked(c)'
    BY <1>3, <2>2 DEF IsTask, Wired, Part
  <2>5. \A c \in DOMAIN waiting' :
          /\ Parked(c)'
          /\ IsTask(c, "quit")' => \A d \in ToSet(waiting'[c].rest) : Parked(d)'
    BY <2>2, <2>3, <2>4
  <2>6. \A c, d \in DOMAIN waiting' : IsTask(c, "quit")' /\ IsTask(d, "quit")' => c = d
    BY <2>4
  <2> QED
    BY <1>2, <2>1, <2>5, <2>6 DEF Wired
<1> QED
  BY <1>4, <1>5

-----------------------------------------------------------------------------
(* Loops. *)

\* Fewer handlers loop as they did.
LEMMA LeavesLooping ==
  ASSUME Looping, Part(waiting')
  PROVE  Looping'
BY DEF Looping, Part, IsTask

\* One more handler that loops over distinct tabs does no harm.
LEMMA PutLooping ==
  ASSUME Looping, NEW others, Part(others), NEW k, NEW task, waiting' = Put(others, k, task),
         task.kind = "tabs" =>
           /\ {task.tab} \cup ToSet(task.rest) \subseteq task.all
           /\ IsInjective(task.rest) /\ task.tab \notin ToSet(task.rest)
  PROVE  Looping'
<1>1. /\ DOMAIN waiting' = DOMAIN others \cup {k} /\ waiting'[k] = task
      /\ \A d \in DOMAIN others \ {k} : d \in DOMAIN waiting /\ waiting'[d] = waiting[d]
  BY PutFacts
<1>2. ASSUME NEW c \in DOMAIN waiting', IsTask(c, "tabs")'
      PROVE  LET t == waiting'[c]
             IN  /\ {t.tab} \cup ToSet(t.rest) \subseteq t.all
                 /\ IsInjective(t.rest) /\ t.tab \notin ToSet(t.rest)
  <2>1. CASE c = k
    BY <1>1, <1>2, <2>1 DEF IsTask
  <2>2. CASE c # k
    <3>1. c \in DOMAIN waiting /\ waiting'[c] = waiting[c] /\ IsTask(c, "tabs")
      BY <1>1, <1>2, <2>2 DEF IsTask
    <3> QED
      BY <3>1 DEF Looping
  <2> QED
    BY <2>1, <2>2
<1> QED
  BY <1>2 DEF Looping

-----------------------------------------------------------------------------
(* No connection leaks. *)

\* Where connection d may be.
Accounted(d) ==
  \/ \E t \in Tabs : conns[t] = d
  \/ d \in DOMAIN waiting
  \/ \E c \in DOMAIN waiting : IsTask(c, "quit") /\ d \in ToSet(waiting[c].rest)
  \/ d \in released

\* No connection leaks if none of those opened does.
LEMMA AccountedForAll ==
  ASSUME opened \in Nat
  PROVE  AllAccountedFor <=> \A d \in 1..opened : Accounted(d)
<1>1. NoConn \notin 1..opened
  BY DEF NoConn
<1>2. \A d : d \in InClosing <=>
        \/ d \in DOMAIN waiting
        \/ \E c \in DOMAIN waiting : IsTask(c, "quit") /\ d \in ToSet(waiting[c].rest)
  BY DEF InClosing
<1>3. \A d \in 1..opened : d \in Stored <=> \E t \in Tabs : conns[t] = d
  BY <1>1 DEF Stored
<1> QED
  BY <1>2, <1>3 DEF AllAccountedFor, Accounted

\* What a step has to do: nothing that was accounted for is lost, and neither
\* is a new connection.
LEMMA StaysAccounted ==
  ASSUME TypeOK, TypeOK', AllAccountedFor,
         \A d \in 1..opened : Accounted(d) => Accounted(d)',
         \A d \in 1..opened' : d \in 1..opened \/ \E t \in Tabs : conns'[t] = d
  PROVE  AllAccountedFor'
<1>1. opened \in Nat /\ opened' \in Nat
  BY ConnNumbers DEF TypeOK
<1>2. \A d \in 1..opened : Accounted(d)
  BY <1>1, AccountedForAll
<1>3. \A d \in 1..opened' : Accounted(d)'
  BY <1>2 DEF Accounted
<1>4. AllAccountedFor' <=> \A d \in 1..opened' : Accounted(d)'
  <2>1. (opened \in Nat => (AllAccountedFor <=> \A d \in 1..opened : Accounted(d)))'
    BY AccountedForAll, PTL
  <2> QED
    BY <1>1, <2>1
<1> QED
  BY <1>3, <1>4

\* The handler that waited for this socket is done.
LEMMA DoneAccounted ==
  ASSUME NEW c, ~IsTask(c, "quit"), waiting' = Others(c), released' = released \cup {c},
         NEW d, Accounted(d), \A t \in Tabs : conns[t] = d => conns'[t] = d
  PROVE  Accounted(d)'
<1>1. /\ DOMAIN waiting' = DOMAIN waiting \ {c}
      /\ \A e \in DOMAIN waiting' : waiting'[e] = waiting[e]
  BY OthersKept
<1>2. CASE \E t \in Tabs : conns[t] = d
  BY <1>2 DEF Accounted
<1>3. CASE d \in DOMAIN waiting \cup released
  BY <1>1, <1>3 DEF Accounted
<1>4. ASSUME NEW e \in DOMAIN waiting, IsTask(e, "quit"), d \in ToSet(waiting[e].rest)
      PROVE  Accounted(d)'
  <2>1. e # c /\ e \in DOMAIN waiting' /\ waiting'[e] = waiting[e]
    BY <1>1, <1>4
  <2>2. IsTask(e, "quit")' /\ d \in ToSet(waiting'[e].rest)
    BY <1>4, <2>1 DEF IsTask
  <2> QED
    BY <2>1, <2>2 DEF Accounted
<1> QED
  BY <1>2, <1>3, <1>4 DEF Accounted

\* A socket goes to a handler, and another one may have closed.
LEMMA ParkedAccounted ==
  ASSUME TypeOK, Wired, NEW others, Part(others), NEW u \in Tabs, conns[u] # NoConn,
         NEW task, waiting' = Put(others, conns[u], task),
         conns' = [conns EXCEPT ![u] = NoConn], released \subseteq released',
         \A c \in DOMAIN waiting \ DOMAIN others : c \in released' /\ ~IsTask(c, "quit"),
         NEW d, d # NoConn, Accounted(d)
  PROVE  Accounted(d)'
<1>1. /\ DOMAIN waiting' = DOMAIN others \cup {conns[u]} /\ waiting'[conns[u]] = task
      /\ \A e \in DOMAIN others \ {conns[u]} : e \in DOMAIN waiting /\ waiting'[e] = waiting[e]
  BY PutFacts
<1>2. CASE \E t \in Tabs : conns[t] = d
  <2>1. PICK t \in Tabs : conns[t] = d
    BY <1>2
  <2>2. conns'[t] = d \/ d \in DOMAIN waiting'
    BY <1>1, <2>1 DEF TypeOK
  <2> QED
    BY <2>2 DEF Accounted
<1>3. CASE d \in DOMAIN waiting \cup released
  BY <1>1, <1>3 DEF Accounted
<1>4. ASSUME NEW e \in DOMAIN waiting, IsTask(e, "quit"), d \in ToSet(waiting[e].rest)
      PROVE  Accounted(d)'
  <2>1. e # conns[u]
    BY <1>4 DEF Wired, Parked
  <2>2. e \in DOMAIN waiting' /\ waiting'[e] = waiting[e]
    BY <1>1, <1>4, <2>1
  <2>3. IsTask(e, "quit")' /\ d \in ToSet(waiting'[e].rest)
    BY <1>4, <2>2 DEF IsTask
  <2> QED
    BY <2>2, <2>3 DEF Accounted
<1> QED
  BY <1>2, <1>3, <1>4 DEF Accounted

\* The sockets that the bloc closes one after the other.
LEMMA QuitAccounted ==
  ASSUME NEW others, Part(others), NEW rest \in Seq(Conns), QuitRest(rest, others),
         released \subseteq released',
         NEW d, Accounted(d),
         \A t \in Tabs : conns[t] = d => conns'[t] = d \/ d \in ToSet(rest),
         \A c \in DOMAIN waiting \ DOMAIN others : c \in released',
         \A c \in DOMAIN waiting :
           IsTask(c, "quit") => ToSet(waiting[c].rest) \subseteq ToSet(rest)
  PROVE  Accounted(d)'
<1>1. CASE rest = <<>>
  <2>1. waiting' = others /\ ToSet(rest) = {}
    BY <1>1 DEF QuitRest, ToSet
  <2>2. \A e \in DOMAIN waiting : e \in DOMAIN waiting' \/ e \in released'
    BY <2>1
  <2> QED
    BY <2>1, <2>2 DEF Accounted
<1>2. CASE rest # <<>>
  <2> DEFINE k == Head(rest)
             task == Quitting(Tail(rest))
  <2>1. waiting' = Put(others, k, task)
    BY <1>2 DEF QuitRest
  <2>2. DOMAIN waiting' = DOMAIN others \cup {k} /\ waiting'[k] = task
    BY <2>1 DEF Put
  <2>3. \A x \in ToSet(rest) : x = k \/ x \in ToSet(task.rest)
    <3>1. /\ Tail(rest) \in Seq(Conns) /\ Len(Tail(rest)) = Len(rest) - 1
          /\ \A i \in 1..Len(Tail(rest)) : Tail(rest)[i] = rest[i + 1]
      BY <1>2, HeadTailProperties
    <3>2. Len(rest) \in Nat /\ Head(rest) = rest[1]
      BY LenProperties
    <3>3. \A x : x \in ToSet(rest) <=> \E i \in 1..Len(rest) : rest[i] = x
      BY Members
    <3>4. \A x : x \in ToSet(Tail(rest)) <=> \E i \in 1..Len(Tail(rest)) : Tail(rest)[i] = x
      BY <3>1, Members
    <3>5. \A i \in 1..Len(rest) : i = 1 \/ (i - 1 \in 1..Len(Tail(rest)) /\ i - 1 + 1 = i)
      BY <3>1, <3>2
    <3>6. \A i \in 1..Len(rest) : i = 1 \/ Tail(rest)[i - 1] = rest[i]
      BY <3>1, <3>5
    <3>7. \A x \in ToSet(rest) : x = Head(rest) \/ x \in ToSet(Tail(rest))
      BY <3>2, <3>3, <3>4, <3>5, <3>6
    <3> QED
      BY <3>7 DEF Quitting
  <2>4. IsTask(k, "quit")'
    BY <2>2 DEF IsTask, Quitting
  <2> HIDE DEF k, task
  <2>5. \A x \in ToSet(rest) : Accounted(x)'
    BY <2>2, <2>3, <2>4 DEF Accounted
  <2>6. \A x \in DOMAIN waiting \cup released : Accounted(x)'
    BY <2>2 DEF Accounted
  <2> QED
    BY <2>5, <2>6 DEF Accounted
<1> QED
  BY <1>1, <1>2

-----------------------------------------------------------------------------
(* What a step may do to one tab. *)

\* Whoever waits to connect or disconnect the tab has done so before.
WaitsFrom(t) ==
  \A c \in DOMAIN waiting' : Waits(c)' /\ waiting'[c].tab = t =>
    c \in DOMAIN waiting /\ Waits(c) /\ waiting'[c] = waiting[c]

\* A loop over the tab has been one before.
LoopsFrom(t) ==
  \A c \in DOMAIN waiting' : IsTask(c, "tabs")' /\ t \in waiting'[c].all =>
    c \in DOMAIN waiting /\ IsTask(c, "tabs") /\ waiting'[c] = waiting[c]

\* A loop over the tab still is one.
LoopsStay(t) ==
  \A c \in DOMAIN waiting : IsTask(c, "tabs") /\ t \in waiting[c].all =>
    c \in DOMAIN waiting' /\ IsTask(c, "tabs")' /\ waiting'[c] = waiting[c]

\* Handlers that are left are those there were.
LEMMA PartTasks ==
  ASSUME Part(waiting')
  PROVE  \A t : WaitsFrom(t) /\ LoopsFrom(t)
BY DEF Part, WaitsFrom, LoopsFrom, Waits, IsTask

\* The last frame of a buffer that grows.
LEMMA LastAppended ==
  ASSUME NEW frames \in Seq(Frame), NEW f
  PROVE  Append(frames, f) # <<>> /\ Last(Append(frames, f)) = f
<1>1. /\ Len(frames) \in Nat /\ Len(Append(frames, f)) = Len(frames) + 1
      /\ Append(frames, f)[Len(frames) + 1] = f
  BY LenProperties
<1>2. Append(frames, f) # <<>>
  BY <1>1
<1> QED
  BY <1>1, <1>2 DEF Last

\* Nothing is done about the tab, but that handlers may be done and that its
\* connection may have gone.
LEMMA CalmOwned ==
  ASSUME NEW t \in Tabs, Looping, Looping', Reported(t), Owned(t),
         WaitsFrom(t), LoopsFrom(t),
         epochs'[t] = epochs[t], conns'[t] \in {conns[t], NoConn},
         t \in told' <=> t \in told,
         t \in told' => t \notin open' /\ t \notin lastAlive'
  PROVE  (Gone(t) => Gone(t)') /\ Reported(t)' /\ Owned(t)'
<1>1. \A c \in DOMAIN waiting' : IsTask(c, "tabs")' /\ Ahead(c, t)' =>
        c \in DOMAIN waiting /\ IsTask(c, "tabs") /\ waiting'[c] = waiting[c] /\ Ahead(c, t)
  BY DEF Looping, Ahead, LoopsFrom
<1>2. Gone(t) => Gone(t)'
  BY <1>1 DEF Gone
<1>4. Reported(t)'
  BY DEF Reported, LoopsFrom, Ahead, IsTask
<1>5. \A c \in DOMAIN waiting' : IsTask(c, "tabs")' /\ waiting'[c].tab = t =>
        c \in DOMAIN waiting /\ IsTask(c, "tabs") /\ waiting[c].tab = t
  BY <1>1 DEF Ahead
<1>6. ASSUME NEW c \in DOMAIN waiting', Waits(c)', waiting'[c].tab = t
      PROVE  /\ waiting'[c].epoch >= 1 /\ (waiting'[c].epoch <= epochs'[t] \/ Gone(t)')
             /\ waiting'[c].epoch = epochs'[t] => conns'[t] = NoConn
             /\ \A d \in DOMAIN waiting' :
                  Waits(d)' /\ waiting'[d].tab = t /\ waiting'[d].epoch = waiting'[c].epoch => c = d
  <2>1. c \in DOMAIN waiting /\ Waits(c) /\ waiting'[c] = waiting[c]
    BY <1>6 DEF WaitsFrom
  <2>2. /\ Kept(t, waiting[c].epoch)
        /\ Current(t, waiting[c].epoch) => conns[t] = NoConn
        /\ \A d \in DOMAIN waiting :
             Waits(d) /\ waiting[d].tab = t /\ waiting[d].epoch = waiting[c].epoch => c = d
    BY <1>6, <2>1 DEF Owned
  <2>3. waiting'[c].epoch >= 1 /\ (waiting'[c].epoch <= epochs'[t] \/ Gone(t)')
    BY <1>2, <2>1, <2>2 DEF Kept
  <2> QED
    BY <2>1, <2>2, <2>3 DEF WaitsFrom, Current
<1>7. ASSUME NEW c \in DOMAIN waiting', IsTask(c, "tabs")', waiting'[c].tab = t
      PROVE  /\ conns'[t] = NoConn
             /\ \A d \in DOMAIN waiting' :
                  Waits(d)' /\ waiting'[d].tab = t => waiting'[d].epoch # epochs'[t]
  BY <1>5, <1>7 DEF Owned, WaitsFrom
<1> QED
  BY <1>2, <1>4, <1>6, <1>7 DEF Owned, Kept, Current

\* A step that leaves the tab alone keeps what is said of its buffer,
LEMMA CalmBuffered ==
  ASSUME NEW t \in Tabs, Buffered(t), Gone(t) => Gone(t)',
         epochs'[t] = epochs[t], conns'[t] = conns[t], conns[t] \in ended => conns[t] \in ended',
         pending'[t] = pending[t], batches'[t] = batches[t]
  PROVE  Buffered(t)'
<1>1. ASSUME NEW i \in DOMAIN batches'[t]
      PROVE  LET batch == batches'[t][i]
             IN  /\ batch.frames # <<>>
                 /\ batch.epoch >= 1 /\ (batch.epoch <= epochs'[t] \/ Gone(t)')
                 /\ batch.epoch = epochs'[t] => conns'[t] # NoConn
                 /\ batch.epoch = epochs'[t] /\ Ends(batch.frames) => conns'[t] \in ended'
  BY DEF Buffered, Kept, Current
<1> QED
  BY <1>1 DEF Buffered, Kept, Current, Ends

\* of what is shown of it,
LEMMA CalmShown ==
  ASSUME NEW t \in Tabs, Shown(t), LoopsStay(t), epochs'[t] = epochs[t], conns'[t] = conns[t],
         t \in told' <=> t \in told, ended \subseteq ended',
         t \in DOMAIN sessions' <=> t \in DOMAIN sessions,
         t \in DOMAIN sessions => sessions'[t] = sessions[t]
  PROVE  Shown(t)'
<1>1. SessionFor(t)' = SessionFor(t)
  BY DEF SessionFor
<1>2. t \in told' =>
        \/ \E c \in DOMAIN waiting' : IsTask(c, "tabs")' /\ t \in waiting'[c].all
        \/ epochs'[t] = 0 /\ conns'[t] = NoConn /\ t \notin DOMAIN sessions'
  BY DEF Shown, LoopsStay
<1> QED
  BY <1>1, <1>2 DEF Shown

\* and all that is said of it; it may lose its connection after close().
LEMMA CalmTab ==
  ASSUME NEW t \in Tabs, Looping, Looping', TabOK(t), WaitsFrom(t), LoopsFrom(t),
         epochs'[t] = epochs[t], conns'[t] \in {conns[t], NoConn},
         t \in told' <=> t \in told,
         t \in told' => t \notin open' /\ t \notin lastAlive',
         phase' = "open" =>
           /\ phase = "open" /\ conns'[t] = conns[t] /\ LoopsStay(t) /\ ended \subseteq ended'
           /\ pending'[t] = pending[t] /\ batches'[t] = batches[t]
           /\ t \in DOMAIN sessions' <=> t \in DOMAIN sessions
           /\ t \in DOMAIN sessions => sessions'[t] = sessions[t]
  PROVE  TabOK(t)'
<1>1. (Gone(t) => Gone(t)') /\ Reported(t)' /\ Owned(t)'
  BY CalmOwned DEF TabOK
<1>2. ASSUME phase' = "open" PROVE Buffered(t)' /\ Shown(t)'
  <2>1. Buffered(t) /\ Shown(t)
    BY <1>2 DEF TabOK
  <2>2. Buffered(t)'
    BY <1>1, <1>2, <2>1, CalmBuffered
  <2>3. Shown(t)'
    BY <1>2, <2>1, CalmShown
  <2> QED
    BY <2>2, <2>3
<1> QED
  BY <1>1, <1>2 DEF TabOK

\* What the epochs kept for a tab are.
LEMMA KeptEpochs ==
  ASSUME TypeOK, NEW t \in Tabs, TabOK(t), ~Gone(t)
  PROVE  /\ epochs[t] \in Nat
         /\ \A c \in DOMAIN waiting : Waits(c) /\ waiting[c].tab = t =>
              waiting[c].epoch \in Nat /\ 1 <= waiting[c].epoch /\ waiting[c].epoch <= epochs[t]
         /\ phase = "open" => \A i \in DOMAIN batches[t] :
              /\ batches[t][i].epoch \in Nat /\ 1 <= batches[t][i].epoch
              /\ batches[t][i].epoch <= epochs[t]
<1>1. WaitingOK /\ epochs[t] \in Nat /\ batches[t] \in Seq(Batch)
  BY TypeParts DEF Batch
<1>2. \A i \in DOMAIN batches[t] : batches[t][i] \in Batch
  BY <1>1, LenProperties, ElementOfSeq
<1>3. ASSUME NEW c \in DOMAIN waiting, Waits(c), waiting[c].tab = t
      PROVE  waiting[c].epoch \in Nat /\ 1 <= waiting[c].epoch /\ waiting[c].epoch <= epochs[t]
  <2>1. waiting[c].epoch \in Nat
    BY <1>1, <1>3, TaskFields
  <2>2. waiting[c].epoch >= 1 /\ waiting[c].epoch <= epochs[t]
    BY <1>3 DEF TabOK, Owned, Kept
  <2> QED
    BY <2>1, <2>2
<1>4. ASSUME phase = "open", NEW i \in DOMAIN batches[t]
      PROVE  /\ batches[t][i].epoch \in Nat /\ 1 <= batches[t][i].epoch
             /\ batches[t][i].epoch <= epochs[t]
  <2>1. batches[t][i].epoch \in Nat
    BY <1>2, <1>4 DEF Batch
  <2>2. batches[t][i].epoch >= 1 /\ batches[t][i].epoch <= epochs[t]
    BY <1>4 DEF TabOK, Buffered, Kept
  <2> QED
    BY <2>1, <2>2
<1> QED
  BY <1>1, <1>3, <1>4

\* A tab whose epoch has moved on: everybody who waited gives up, everything
\* on its way is dropped.
LEMMA BumpedTab ==
  ASSUME TypeOK, Looping, Looping', NEW t \in Tabs, TabOK(t), phase = "open",
         t \notin told, t \notin told', LoopsFrom(t),
         epochs'[t] = epochs[t] + 1,
         NEW k,
         \A c \in DOMAIN waiting' : Waits(c)' /\ waiting'[c].tab = t =>
           \/ c \in DOMAIN waiting /\ Waits(c) /\ waiting'[c] = waiting[c]
           \/ c = k /\ waiting'[c].epoch = epochs'[t] /\ conns'[t] = NoConn,
         batches'[t] = batches[t],
         \/ pending'[t] = <<>>
         \/ conns'[t] # NoConn /\ pending'[t] # <<>> /\ Last(pending'[t]).dir = "open",
         conns'[t] \in Conns \ ended' => SessionFor(t)'.connected
  PROVE  TabOK(t)'
<1>1. ~Gone(t) /\ Reported(t) /\ Owned(t) /\ Buffered(t)
  BY DEF Gone, TabOK
<1>2. \A c \in DOMAIN waiting : IsTask(c, "tabs") => t \notin waiting[c].all
  BY <1>1 DEF Reported
<1>3. \A c \in DOMAIN waiting' : IsTask(c, "tabs")' => t \notin waiting'[c].all /\ waiting'[c].tab # t
  BY <1>2 DEF LoopsFrom, Looping
<1>4. Reported(t)'
  BY <1>3 DEF Reported
<1>5. /\ epochs[t] \in Nat
      /\ \A c \in DOMAIN waiting : Waits(c) /\ waiting[c].tab = t =>
           waiting[c].epoch \in Nat /\ 1 <= waiting[c].epoch /\ waiting[c].epoch <= epochs[t]
      /\ \A i \in DOMAIN batches[t] :
           /\ batches[t][i].epoch \in Nat /\ 1 <= batches[t][i].epoch
           /\ batches[t][i].epoch <= epochs[t]
  BY <1>1, KeptEpochs
<1>6. ASSUME NEW c \in DOMAIN waiting', Waits(c)', waiting'[c].tab = t
      PROVE  /\ waiting'[c].epoch >= 1 /\ waiting'[c].epoch <= epochs'[t]
             /\ waiting'[c].epoch = epochs'[t] => c = k /\ conns'[t] = NoConn
             /\ c # k => c \in DOMAIN waiting /\ Waits(c) /\ waiting'[c] = waiting[c]
             /\ c = k \/ waiting'[c].epoch < epochs'[t]
  BY <1>5, <1>6
<1>7. ASSUME NEW c \in DOMAIN waiting', Waits(c)', waiting'[c].tab = t,
             NEW d \in DOMAIN waiting', Waits(d)', waiting'[d].tab = t,
             waiting'[d].epoch = waiting'[c].epoch
      PROVE  c = d
  <2>1. CASE /\ c \in DOMAIN waiting /\ Waits(c) /\ waiting'[c] = waiting[c]
             /\ d \in DOMAIN waiting /\ Waits(d) /\ waiting'[d] = waiting[d]
    BY <1>1, <1>7, <2>1 DEF Owned
  <2>2. CASE c = k /\ waiting'[c].epoch = epochs'[t]
    BY <1>5, <1>7, <2>2
  <2>3. CASE d = k /\ waiting'[d].epoch = epochs'[t]
    BY <1>5, <1>7, <2>3
  <2> QED
    BY <1>7, <2>1, <2>2, <2>3
<1>8. conns'[t] # NoConn => epochs'[t] >= 1
  BY <1>5
<1>9. Owned(t)'
  BY <1>3, <1>6, <1>7, <1>8 DEF Owned, Kept, Current
<1>10. Buffered(t)'
  <2>1. ASSUME NEW i \in DOMAIN batches'[t]
        PROVE  /\ batches'[t][i].frames # <<>>
               /\ batches'[t][i].epoch >= 1 /\ batches'[t][i].epoch <= epochs'[t]
               /\ batches'[t][i].epoch # epochs'[t]
    BY <1>1, <1>5 DEF Buffered
  <2>2. (pending'[t] # <<>> => conns'[t] # NoConn) /\ ~Ends(pending'[t])
    BY DEF Ends
  <2> QED
    BY <2>1, <2>2 DEF Buffered, Kept, Current
<1>11. Shown(t)'
  BY DEF Shown
<1> QED
  BY <1>4, <1>9, <1>10, <1>11 DEF TabOK

-----------------------------------------------------------------------------
(* What the user does. *)

\* An emitted session, and the others.
LEMMA Emitted ==
  ASSUME NEW u, NEW s, Emit(WithSession(u, s))
  PROVE  /\ \A t : t # u =>
              /\ t \in DOMAIN sessions' <=> t \in DOMAIN sessions
              /\ t \in DOMAIN sessions => sessions'[t] = sessions[t]
         /\ phase # "closed" => u \in DOMAIN sessions' /\ SessionFor(u)' = s
<1>1. CASE phase = "closed"
  BY <1>1 DEF Emit
<1>2. CASE phase # "closed"
  <2>1. sessions' = Put(sessions, u, s)
    BY <1>2 DEF Emit, WithSession
  <2>2. /\ DOMAIN sessions' = DOMAIN sessions \cup {u} /\ sessions'[u] = s
        /\ \A t \in DOMAIN sessions \ {u} : sessions'[t] = sessions[t]
    BY <2>1 DEF Put
  <2> QED
    BY <2>2 DEF SessionFor
<1> QED
  BY <1>1, <1>2

\* A tab that is open has not been reported.
LEMMA OpenNotTold ==
  ASSUME NEW t, Reported(t), t \in open
  PROVE  t \notin told
BY DEF Reported

\* The connection of a tab goes to the handler that closes it.
LEMMA UserParks ==
  ASSUME IInv, TypeOK', NEW u \in Tabs, u \in open, phase = "open",
         NEW task, task.kind \in {"connect", "disconnect"}, task.tab = u,
         task.epoch = epochs[u] + 1, Park(u, task),
         UNCHANGED <<open, lastAlive, told, reopened, batches, sessions, opened,
                     ended, released, phase>>
  PROVE  IInv'
<1>1. /\ conns[u] # NoConn /\ waiting' = Put(waiting, conns[u], task)
      /\ conns' = [conns EXCEPT ![u] = NoConn] /\ pending' = [pending EXCEPT ![u] = <<>>]
      /\ epochs' = [epochs EXCEPT ![u] = @ + 1]
  BY DEF Park, Bumped
<1>2. TypeOK /\ Wired /\ Looping /\ Part(waiting)
  BY Parts DEF IInv
<1>3. Wired'
  BY <1>1, <1>2, ParksWired
<1>4. Looping'
  BY <1>1, <1>2, PutLooping
<1>5. /\ DOMAIN waiting' = DOMAIN waiting \cup {conns[u]} /\ waiting'[conns[u]] = task
      /\ \A d \in DOMAIN waiting \ {conns[u]} : waiting'[d] = waiting[d]
      /\ conns[u] \notin DOMAIN waiting
  <2>1. conns[u] \notin DOMAIN waiting
    BY <1>2 DEF Wired, Parked
  <2>2. /\ DOMAIN waiting' = DOMAIN waiting \cup {conns[u]} /\ waiting'[conns[u]] = task
        /\ \A d \in DOMAIN waiting \ {conns[u]} :
             d \in DOMAIN waiting /\ waiting'[d] = waiting[d]
    BY <1>1, <1>2, PutFacts
  <2> QED
    BY <2>1, <2>2
<1>6. \A t : LoopsFrom(t) /\ LoopsStay(t)
  BY <1>5 DEF LoopsFrom, LoopsStay, IsTask
<1>7. \A t \in Tabs \ {u} : WaitsFrom(t)
  BY <1>5 DEF WaitsFrom, Waits, IsTask
<1>8. \A t \in Tabs \ {u} :
        /\ epochs'[t] = epochs[t] /\ conns'[t] = conns[t] /\ pending'[t] = pending[t]
        /\ batches'[t] = batches[t]
  BY <1>1, <1>2 DEF TypeOK
<1>9. ASSUME NEW t \in Tabs \ reopened' PROVE TabOK(t)'
  <2>1. TabOK(t) /\ Reported(t)
    BY <1>9 DEF IInv, TabOK
  <2>2. CASE t # u
    <3>1. t \in told => t \notin open /\ t \notin lastAlive
      BY <2>1 DEF Reported
    <3> QED
      BY <1>2, <1>4, <1>6, <1>7, <1>8, <2>1, <2>2, <3>1, CalmTab
  <2>3. CASE t = u
    <3>1. t \notin told
      BY <2>1, <2>3, OpenNotTold
    <3>2. epochs'[t] = epochs[t] + 1 /\ conns'[t] = NoConn /\ pending'[t] = <<>>
      BY <1>1, <1>2, <2>3 DEF TypeOK
    <3> PICK k : k = conns[u]
      OBVIOUS
    <3>3. \A c \in DOMAIN waiting' : Waits(c)' /\ waiting'[c].tab = t =>
            \/ c \in DOMAIN waiting /\ Waits(c) /\ waiting'[c] = waiting[c]
            \/ c = k /\ waiting'[c].epoch = epochs'[t] /\ conns'[t] = NoConn
      BY <1>5, <2>3, <3>2 DEF Waits, IsTask
    <3>4. conns'[t] \in Conns \ ended' => SessionFor(t)'.connected
      BY <3>2, ConnNumbers
    <3>5. LoopsFrom(t) /\ t \notin told' /\ batches'[t] = batches[t]
      BY <1>6, <3>1
    <3> QED
      BY <1>2, <1>4, <2>1, <3>1, <3>2, <3>3, <3>4, <3>5, BumpedTab, SMTT(20)
  <2> QED
    BY <2>2, <2>3
<1>10. ASSUME reopened' = {} PROVE AllAccountedFor'
  <2>1. AllAccountedFor
    BY <1>10 DEF IInv
  <2>2. ASSUME NEW d \in 1..opened, Accounted(d) PROVE Accounted(d)'
    <3>1. d # NoConn
      BY DEF NoConn
    <3> QED
      BY <1>1, <1>2, <2>2, <3>1, ParkedAccounted
  <2> QED
    BY <1>2, <2>1, <2>2, StaysAccounted
<1> QED
  BY <1>3, <1>4, <1>9, <1>10 DEF IInv

\* A tab without a connection: the handler runs through in one turn.
LEMMA UserAtOnce ==
  ASSUME IInv, TypeOK', NEW u \in Tabs, u \in open, phase = "open", conns[u] = NoConn,
         epochs' = Bumped(u),
         \/ Establish(u, <<>>)
         \/ Refuse(u, <<>>)
         \/ /\ Reset(u, pending[u]) /\ pending' = [pending EXCEPT ![u] = <<>>]
            /\ UNCHANGED <<conns, opened>>,
         UNCHANGED <<open, lastAlive, told, reopened, batches, waiting, ended, released, phase>>
  PROVE  IInv'
<1>1. /\ TypeOK /\ Wired /\ Looping /\ Part(waiting')
      /\ epochs' = [epochs EXCEPT ![u] = @ + 1]
  BY Parts DEF IInv, Bumped
<1>2. \A t : LoopsFrom(t) /\ LoopsStay(t) /\ WaitsFrom(t)
  BY DEF LoopsFrom, LoopsStay, WaitsFrom, IsTask, Waits
<1>3. Looping'
  BY <1>1, LeavesLooping
<1>4. \/ /\ Establish(u, <<>>) /\ conns' = [conns EXCEPT ![u] = opened']
         /\ opened' = opened + 1 /\ opened' \in Conns
      \/ /\ UNCHANGED <<conns, opened>> /\ pending' = [pending EXCEPT ![u] = <<>>]
         /\ Refuse(u, <<>>) \/ Reset(u, pending[u])
  <2>1. <<>> \in Seq(Frame)
    BY EmptySeq
  <2> QED
    BY <1>1, <2>1, EstablishTyped DEF Refuse
<1>5. Wired'
  <2>1. CASE UNCHANGED <<conns, opened>>
    BY <1>1, <2>1, LeavesWired
  <2>2. CASE conns' = [conns EXCEPT ![u] = opened'] /\ opened' = opened + 1
    BY <1>1, <2>2, EstablishWired
  <2> QED
    BY <1>4, <2>1, <2>2
<1>6. PICK s : Emit(WithSession(u, s)) /\ (Establish(u, <<>>) => s.connected)
  <2>1. CASE Establish(u, <<>>)
    <3>1. Emit(WithSession(u, [connected |-> TRUE, frames |-> <<>>]))
      BY <2>1 DEF Establish
    <3> QED
      BY <3>1
  <2>2. CASE UNCHANGED opened /\ (Refuse(u, <<>>) \/ Reset(u, pending[u]))
    <3>1. ~Establish(u, <<>>)
      BY <1>1, <2>2, ConnNumbers DEF Establish, TypeOK
    <3> QED
      BY <2>2, <3>1 DEF Refuse, Reset
  <2> QED
    BY <1>4, <2>1, <2>2
<1>7. /\ \A t : t # u => /\ t \in DOMAIN sessions' <=> t \in DOMAIN sessions
                         /\ t \in DOMAIN sessions => sessions'[t] = sessions[t]
      /\ SessionFor(u)' = s
  BY <1>6, Emitted
<1>8. \A t \in Tabs \ {u} :
        /\ epochs'[t] = epochs[t] /\ conns'[t] = conns[t] /\ pending'[t] = pending[t]
        /\ batches'[t] = batches[t]
  BY <1>1, <1>4 DEF TypeOK, Establish
<1>9. ASSUME NEW t \in Tabs \ reopened' PROVE TabOK(t)'
  <2>1. TabOK(t) /\ Reported(t)
    BY <1>9 DEF IInv, TabOK
  <2>2. CASE t # u
    <3>1. t \in told => t \notin open /\ t \notin lastAlive
      BY <2>1 DEF Reported
    <3> QED
      BY <1>1, <1>2, <1>3, <1>7, <1>8, <2>1, <2>2, <3>1, CalmTab
  <2>3. CASE t = u
    <3>1. t \notin told /\ epochs'[t] = epochs[t] + 1
      BY <1>1, <2>1, <2>3, OpenNotTold DEF TypeOK
    <3>2. \A c \in DOMAIN waiting' : Waits(c)' /\ waiting'[c].tab = t =>
            \/ c \in DOMAIN waiting /\ Waits(c) /\ waiting'[c] = waiting[c]
            \/ c = NoConn /\ waiting'[c].epoch = epochs'[t] /\ conns'[t] = NoConn
      BY <1>2 DEF WaitsFrom
    <3>3. /\ \/ pending'[t] = <<>>
             \/ conns'[t] # NoConn /\ pending'[t] # <<>> /\ Last(pending'[t]).dir = "open"
          /\ conns'[t] \in Conns => SessionFor(t)'.connected
      <4>1. CASE Establish(u, <<>>)
        <5> DEFINE f == [conn |-> opened + 1, n |-> 1, dir |-> "open"]
        <5>1. pending'[t] = Append(<<>>, f) /\ conns'[t] = opened'
          BY <1>1, <2>3, <4>1 DEF Establish, TypeOK
        <5>2. Append(<<>>, f) # <<>> /\ Last(Append(<<>>, f)) = f
          BY EmptySeq, LastAppended
        <5>3. conns'[t] # NoConn
          BY <1>1, <4>1, <5>1, ConnNumbers DEF Establish, TypeOK, NoConn
        <5> QED
          BY <1>6, <1>7, <2>3, <4>1, <5>1, <5>2, <5>3
      <4>2. CASE UNCHANGED <<conns, opened>> /\ pending' = [pending EXCEPT ![u] = <<>>]
        <5>1. pending'[t] = <<>> /\ conns'[t] = NoConn
          BY <1>1, <2>3, <4>2 DEF TypeOK
        <5> QED
          BY <5>1, ConnNumbers
      <4> QED
        BY <1>4, <4>1, <4>2
    <3> QED
      BY <1>1, <1>2, <1>3, <2>1, <3>1, <3>2, <3>3, BumpedTab
  <2> QED
    BY <2>2, <2>3
<1>10. ASSUME reopened' = {} PROVE AllAccountedFor'
  <2>1. AllAccountedFor
    BY <1>10 DEF IInv
  <2>2. ASSUME NEW d \in 1..opened, Accounted(d) PROVE Accounted(d)'
    <3>1. \A t \in Tabs : conns[t] = d => conns'[t] = d
      <4>1. d # NoConn
        BY DEF NoConn
      <4> QED
        BY <1>1, <1>4, <4>1 DEF TypeOK
    <3> QED
      BY <2>2, <3>1 DEF Accounted, IsTask
  <2>3. \A d \in 1..opened' : d \in 1..opened \/ \E t \in Tabs : conns'[t] = d
    <3>1. CASE opened' = opened + 1 /\ conns' = [conns EXCEPT ![u] = opened']
      <4>1. conns'[u] = opened + 1 /\ opened \in Nat
        BY <1>1, <3>1, ConnNumbers DEF TypeOK
      <4> QED
        BY <3>1, <4>1
    <3>2. CASE UNCHANGED opened
      BY <3>2
    <3> QED
      BY <1>4, <3>1, <3>2
  <2> QED
    BY <1>1, <2>1, <2>2, <2>3, StaysAccounted
<1> QED
  BY <1>3, <1>5, <1>9, <1>10 DEF IInv

\* A connect and a disconnect preserve the invariant.
LEMMA UserKeeps ==
  ASSUME IInv, NEW t \in Tabs, Connect(t) \/ Disconnect(t)
  PROVE  IInv'
<1>1. TypeOK'
  BY UserTyped DEF IInv
<1>2. CASE Connect(t)
  <2>1. /\ t \in open /\ phase = "open"
        /\ UNCHANGED <<open, lastAlive, told, reopened, batches, ended, released, phase>>
    BY <1>2 DEF Connect, Acts, tabsVars
  <2>2. CASE Park(t, Connecting(t)) /\ UNCHANGED <<sessions, opened, got>>
    <3>1. /\ Connecting(t).kind \in {"connect", "disconnect"} /\ Connecting(t).tab = t
          /\ Connecting(t).epoch = epochs[t] + 1
      BY DEF Connecting
    <3> QED
      BY <1>1, <2>1, <2>2, <3>1, UserParks
  <2>3. CASE /\ conns[t] = NoConn /\ epochs' = Bumped(t)
             /\ Establish(t, <<>>) \/ Refuse(t, <<>>)
             /\ UNCHANGED waiting
    BY <1>1, <2>1, <2>3, UserAtOnce
  <2> QED
    BY <1>2, <2>2, <2>3 DEF Connect
<1>3. CASE Disconnect(t)
  <2>1. /\ t \in open /\ phase = "open"
        /\ UNCHANGED <<open, lastAlive, told, reopened, batches, opened, ended, released, phase>>
    BY <1>3 DEF Disconnect, Acts, tabsVars, wireVars
  <2>2. CASE Park(t, Disconnecting(t)) /\ UNCHANGED sessions
    <3>1. /\ Disconnecting(t).kind \in {"connect", "disconnect"} /\ Disconnecting(t).tab = t
          /\ Disconnecting(t).epoch = epochs[t] + 1
      BY DEF Disconnecting
    <3> QED
      BY <1>1, <2>1, <2>2, <3>1, UserParks
  <2>3. CASE /\ conns[t] = NoConn /\ epochs' = Bumped(t) /\ Reset(t, pending[t])
             /\ pending' = [pending EXCEPT ![t] = <<>>]
             /\ UNCHANGED <<conns, waiting>>
    BY <1>1, <2>1, <2>3, UserAtOnce
  <2> QED
    BY <1>3, <2>2, <2>3 DEF Disconnect
<1> QED
  BY <1>2, <1>3

-----------------------------------------------------------------------------
(* Turns that neither tear down nor connect. *)

\* A step that neither connects nor lets a handler go on needs only TabOK.
LEMMA TurnFrame ==
  ASSUME IInv, TypeOK', UNCHANGED <<waiting, conns, opened, released, phase>>,
         reopened \subseteq reopened', \A t \in Tabs \ reopened' : TabOK(t)'
  PROVE  IInv'
<1>1. TypeOK /\ Wired /\ Looping /\ Part(waiting')
  BY Parts DEF IInv
<1>2. Wired' /\ Looping'
  BY <1>1, LeavesWired, LeavesLooping
<1>3. ASSUME reopened' = {} PROVE AllAccountedFor'
  <2>1. AllAccountedFor
    BY <1>3 DEF IInv
  <2>2. \A d \in 1..opened : Accounted(d) => Accounted(d)'
    BY DEF Accounted, IsTask
  <2> QED
    BY <1>1, <2>1, <2>2, StaysAccounted
<1> QED
  BY <1>2, <1>3 DEF IInv

\* What such a turn leaves as it was, for the tabs it is not about.
LEMMA OtherTabs ==
  ASSUME IInv, UNCHANGED <<waiting, epochs, conns, phase>>,
         NEW t \in Tabs \ reopened,
         t \in told' <=> t \in told, t \in told' => t \notin open' /\ t \notin lastAlive',
         ended \subseteq ended',
         pending'[t] = pending[t] /\ batches'[t] = batches[t],
         t \in DOMAIN sessions' <=> t \in DOMAIN sessions,
         t \in DOMAIN sessions => sessions'[t] = sessions[t]
  PROVE  TabOK(t)'
<1>1. TabOK(t) /\ Looping /\ Looping'
  BY Parts, LeavesLooping DEF IInv
<1>2. WaitsFrom(t) /\ LoopsFrom(t) /\ LoopsStay(t)
  BY DEF WaitsFrom, LoopsFrom, LoopsStay, Waits, IsTask
<1> QED
  BY <1>1, <1>2, CalmTab

\* Of the tab it is about, what is left to show.
LEMMA SameOwner ==
  ASSUME IInv, UNCHANGED <<waiting, epochs, conns, phase, told, open, lastAlive>>,
         NEW t \in Tabs \ reopened
  PROVE  /\ TabOK(t) /\ Reported(t)' /\ Owned(t)' /\ (Gone(t) => Gone(t)')
         /\ LoopsStay(t)
<1>1. TabOK(t) /\ Looping /\ Looping' /\ Reported(t) /\ Owned(t)
  BY Parts, LeavesLooping DEF IInv, TabOK
<1>2. WaitsFrom(t) /\ LoopsFrom(t) /\ LoopsStay(t)
  BY DEF WaitsFrom, LoopsFrom, LoopsStay, Waits, IsTask
<1>3. t \in told' => t \notin open' /\ t \notin lastAlive'
  BY <1>1 DEF Reported
<1> QED
  BY <1>1, <1>2, <1>3, CalmOwned

\* A frame is added to the buffer of a tab that has a connection.
LEMMA FrameKeeps ==
  ASSUME IInv, TypeOK', NEW u \in Tabs, conns[u] # NoConn,
         NEW f, pending' = [pending EXCEPT ![u] = Append(@, f)],
         f.dir = "end" => conns[u] \in ended', ended \subseteq ended',
         UNCHANGED <<open, lastAlive, told, reopened, epochs, conns, batches, sessions,
                     waiting, opened, released, phase>>
  PROVE  IInv'
<1>1. pending \in [Tabs -> Seq(Frame)]
  BY DEF IInv, TypeOK
<1>2. ASSUME NEW t \in Tabs \ reopened PROVE TabOK(t)'
  <2>1. TabOK(t) /\ Reported(t) /\ Reported(t)' /\ Owned(t)' /\ (Gone(t) => Gone(t)') /\ LoopsStay(t)
    BY <1>2, SameOwner DEF TabOK
  <2>2. CASE t # u
    <3>1. pending'[t] = pending[t]
      BY <1>1, <2>2
    <3> QED
      BY <1>2, <2>1, <3>1, OtherTabs DEF Reported
  <2>3. CASE t = u
    <3>1. pending'[t] # <<>> /\ Last(pending'[t]) = f
      BY <1>1, <2>3, LastAppended
    <3>2. ASSUME phase' = "open" PROVE Buffered(t)' /\ Shown(t)'
      <4>1. Buffered(t) /\ Shown(t)
        BY <2>1, <3>2 DEF TabOK
      <4>2. Buffered(t)'
        <5>1. ASSUME NEW i \in DOMAIN batches'[t]
              PROVE  LET batch == batches'[t][i]
                     IN  /\ batch.frames # <<>>
                         /\ batch.epoch >= 1 /\ (batch.epoch <= epochs'[t] \/ Gone(t)')
                         /\ batch.epoch = epochs'[t] => conns'[t] # NoConn
                         /\ batch.epoch = epochs'[t] /\ Ends(batch.frames) => conns'[t] \in ended'
          BY <2>1, <4>1 DEF Buffered, Kept, Current
        <5>2. Ends(pending'[t]) => conns'[t] \in ended'
          BY <2>3, <3>1 DEF Ends
        <5> QED
          BY <2>3, <5>1, <5>2 DEF Buffered, Kept, Current
      <4>3. Shown(t)'
        BY <2>1, <4>1, CalmShown
      <4> QED
        BY <4>2, <4>3
    <3> QED
      BY <2>1, <3>2 DEF TabOK
  <2> QED
    BY <2>2, <2>3
<1> QED
  BY <1>2, TurnFrame

\* The flush of a buffer preserves the invariant.
LEMMA FlushKeeps ==
  ASSUME IInv, TypeOK', NEW u \in Tabs, FlushTimer(u)
  PROVE  IInv'
<1>1. /\ pending[u] # <<>>
      /\ batches' = [batches EXCEPT ![u] = Append(@, [frames |-> pending[u], epoch |-> epochs[u]])]
      /\ pending' = [pending EXCEPT ![u] = <<>>]
      /\ UNCHANGED <<open, lastAlive, told, reopened, epochs, conns, sessions, waiting,
                     opened, ended, released, phase>>
  BY DEF FlushTimer, tabsVars, wireVars
<1>2. /\ pending \in [Tabs -> Seq(Frame)] /\ epochs \in [Tabs -> Nat]
      /\ batches \in [Tabs -> Seq(Batch)]
  BY DEF IInv, TypeOK, Batch
<1>3. ASSUME NEW t \in Tabs \ reopened PROVE TabOK(t)'
  <2>1. TabOK(t) /\ Reported(t) /\ Reported(t)' /\ Owned(t) /\ Owned(t)'
        /\ (Gone(t) => Gone(t)') /\ LoopsStay(t)
    BY <1>1, <1>3, SameOwner DEF TabOK
  <2>2. CASE t # u
    <3>1. pending'[t] = pending[t] /\ batches'[t] = batches[t]
      BY <1>1, <1>2, <2>2
    <3> QED
      BY <1>1, <1>3, <2>1, <3>1, OtherTabs DEF Reported
  <2>3. CASE t = u
    <3> DEFINE new == [frames |-> pending[t], epoch |-> epochs[t]]
    <3>1. pending'[t] = <<>> /\ batches'[t] = Append(batches[t], new)
      BY <1>1, <1>2, <2>3
    <3>2. ASSUME phase' = "open" PROVE Buffered(t)' /\ Shown(t)'
      <4>1. Buffered(t) /\ Shown(t)
        BY <1>1, <2>1, <3>2 DEF TabOK
      <4>2. conns[t] # NoConn /\ epochs[t] >= 1
        BY <1>1, <2>1, <2>3, <4>1 DEF Buffered, Owned
      <4>3. /\ DOMAIN batches'[t] = 1..(Len(batches[t]) + 1) /\ Len(batches[t]) \in Nat
            /\ DOMAIN batches[t] = 1..Len(batches[t])
            /\ batches'[t][Len(batches[t]) + 1] = new
            /\ \A i \in 1..Len(batches[t]) : batches'[t][i] = batches[t][i]
        <5>1. new \in Batch
          BY <1>2 DEF Batch
        <5>2. batches[t] \in Seq(Batch)
          BY <1>2
        <5> HIDE DEF new
        <5>3. /\ Append(batches[t], new) \in Seq(Batch)
              /\ Len(Append(batches[t], new)) = Len(batches[t]) + 1
              /\ Append(batches[t], new)[Len(batches[t]) + 1] = new
              /\ \A i \in 1..Len(batches[t]) : Append(batches[t], new)[i] = batches[t][i]
          BY <5>1, <5>2, AppendProperties
        <5> QED
          BY <3>1, <5>2, <5>3, LenProperties
      <4>4. ASSUME NEW i \in DOMAIN batches'[t]
            PROVE  LET batch == batches'[t][i]
                   IN  /\ batch.frames # <<>>
                       /\ batch.epoch >= 1 /\ (batch.epoch <= epochs'[t] \/ Gone(t)')
                       /\ batch.epoch = epochs'[t] => conns'[t] # NoConn
                       /\ batch.epoch = epochs'[t] /\ Ends(batch.frames) => conns'[t] \in ended'
        <5>1. CASE i = Len(batches[t]) + 1
          <6>1. batches'[t][i] = new
            BY <4>3, <5>1
          <6>2. new.frames = pending[t] /\ new.epoch = epochs[t]
            OBVIOUS
          <6>3. epochs'[t] \in Nat /\ epochs'[t] = epochs[t] /\ conns'[t] = conns[t]
            BY <1>1, <1>2
          <6>4. Ends(pending[t]) => conns'[t] \in ended'
            BY <1>1, <4>1 DEF Buffered
          <6> HIDE DEF new
          <6> QED
            BY <1>1, <2>3, <4>2, <6>1, <6>2, <6>3, <6>4
        <5>2. CASE i \in 1..Len(batches[t])
          <6>1. i \in DOMAIN batches[t] /\ batches'[t][i] = batches[t][i]
            BY <4>3, <5>2
          <6> QED
            BY <1>1, <2>1, <4>1, <6>1 DEF Buffered, Kept, Current
        <5> QED
          BY <4>3, <5>1, <5>2
      <4>5. Buffered(t)'
        BY <3>1, <4>4 DEF Buffered, Kept, Current, Ends
      <4>6. Shown(t)'
        BY <1>1, <2>1, <4>1, CalmShown
      <4> QED
        BY <4>5, <4>6
    <3> QED
      BY <2>1, <3>2 DEF TabOK
  <2> QED
    BY <2>2, <2>3
<1> QED
  BY <1>1, <1>3, TurnFrame

\* The frames of a batch are added to the log of its tab.
LEMMA BatchKeeps ==
  ASSUME IInv, TypeOK', NEW u \in Tabs, FramesBatchReceived(u)
  PROVE  IInv'
<1> DEFINE batch == Head(batches[u])
           s == [connected |-> Last(batch.frames).dir # "end",
                 frames |-> Capped(SessionFor(u).frames \o batch.frames)]
<1>1. /\ batches[u] # <<>> /\ batches' = [batches EXCEPT ![u] = Tail(@)]
      /\ \/ Current(u, batch.epoch) /\ Emit(WithSession(u, s))
         \/ ~Current(u, batch.epoch) /\ UNCHANGED sessions
      /\ UNCHANGED <<open, lastAlive, told, reopened, epochs, conns, pending, waiting, opened,
                     ended, released, phase>>
  BY DEF FramesBatchReceived, tabsVars, wireVars
<1>2. batches \in [Tabs -> Seq(Batch)] /\ epochs \in [Tabs -> Nat]
  BY DEF IInv, TypeOK, Batch
<1>3. /\ 1 \in DOMAIN batches[u] /\ batches[u][1] = batch
      /\ DOMAIN Tail(batches[u]) = 1..(Len(batches[u]) - 1)
      /\ \A i \in 1..(Len(batches[u]) - 1) :
           i + 1 \in DOMAIN batches[u] /\ Tail(batches[u])[i] = batches[u][i + 1]
  <2>1. batches[u] \in Seq(Batch)
    BY <1>2
  <2>2. /\ Tail(batches[u]) \in Seq(Batch) /\ Len(Tail(batches[u])) = Len(batches[u]) - 1
        /\ \A i \in 1..Len(Tail(batches[u])) : Tail(batches[u])[i] = batches[u][i + 1]
    BY <1>1, <2>1, HeadTailProperties
  <2>3. /\ Len(batches[u]) \in Nat /\ Len(batches[u]) >= 1 /\ Head(batches[u]) = batches[u][1]
        /\ DOMAIN batches[u] = 1..Len(batches[u])
    BY <1>1, <2>1, EmptySeq, LenProperties
  <2>4. \A i \in 1..(Len(batches[u]) - 1) : i + 1 \in 1..Len(batches[u])
    BY <2>3
  <2>5. 1 \in DOMAIN batches[u]
    BY <2>3
  <2> QED
    BY <2>2, <2>3, <2>4, <2>5, LenProperties
<1> HIDE DEF batch
<1>4. \A t : t # u => /\ t \in DOMAIN sessions' <=> t \in DOMAIN sessions
                      /\ t \in DOMAIN sessions => sessions'[t] = sessions[t]
  <2>1. CASE Emit(WithSession(u, s))
    <3> HIDE DEF s
    <3> QED
      BY <2>1, Emitted
  <2>2. CASE UNCHANGED sessions
    BY <2>2
  <2> QED
    BY <1>1, <2>1, <2>2
<1>5. ASSUME NEW t \in Tabs \ reopened PROVE TabOK(t)'
  <2>1. TabOK(t) /\ Reported(t) /\ Reported(t)' /\ Owned(t)' /\ (Gone(t) => Gone(t)') /\ LoopsStay(t)
    BY <1>1, <1>5, SameOwner DEF TabOK
  <2>2. CASE t # u
    <3>1. pending'[t] = pending[t] /\ batches'[t] = batches[t]
      BY <1>1, <1>2, <2>2
    <3> QED
      BY <1>1, <1>4, <1>5, <2>1, <2>2, <3>1, OtherTabs DEF Reported
  <2>3. ASSUME t = u, phase' = "open" PROVE Buffered(t)' /\ Shown(t)'
    <3>1. Buffered(t) /\ Shown(t)
      BY <1>1, <2>1, <2>3 DEF TabOK
    <3>2. batches'[t] = Tail(batches[t])
      BY <1>1, <1>2, <2>3
    <3>3. Buffered(t)'
      <4>1. ASSUME NEW i \in DOMAIN batches'[t]
            PROVE  LET b == batches'[t][i]
                   IN  /\ b.frames # <<>>
                       /\ b.epoch >= 1 /\ (b.epoch <= epochs'[t] \/ Gone(t)')
                       /\ b.epoch = epochs'[t] => conns'[t] # NoConn
                       /\ b.epoch = epochs'[t] /\ Ends(b.frames) => conns'[t] \in ended'
        <5>1. i + 1 \in DOMAIN batches[t] /\ batches'[t][i] = batches[t][i + 1]
          BY <1>3, <2>3, <3>2
        <5> QED
          BY <1>1, <2>1, <3>1, <5>1 DEF Buffered, Kept, Current
      <4> QED
        BY <1>1, <3>1, <4>1 DEF Buffered, Kept, Current, Ends
    <3>4. Shown(t)'
      <4>1. CASE UNCHANGED sessions
        BY <1>1, <2>1, <3>1, <4>1, CalmShown
      <4>2. CASE Current(u, batch.epoch) /\ Emit(WithSession(u, s))
        <5>1. /\ batch.frames # <<>> /\ batch.epoch >= 1 /\ batch.epoch = epochs[t]
              /\ conns[t] # NoConn /\ (Ends(batch.frames) => conns[t] \in ended)
          BY <1>3, <2>3, <3>1, <4>2 DEF Buffered, Kept, Current
        <5>2. SessionFor(u)' = s
          <6>1. phase # "closed"
            BY <1>1, <2>3
          <6> HIDE DEF s
          <6> QED
            BY <4>2, <6>1, Emitted
        <5>3. conns[t] \notin ended => s.connected
          BY <5>1 DEF Ends
        <5>4. t \in told => \E c \in DOMAIN waiting : IsTask(c, "tabs") /\ t \in waiting[c].all
          BY <3>1, <5>1 DEF Shown
        <5>5. t \in told' =>
                \E c \in DOMAIN waiting' : IsTask(c, "tabs")' /\ t \in waiting'[c].all
          BY <1>1, <5>4 DEF IsTask
        <5> HIDE DEF s
        <5> QED
          BY <1>1, <2>3, <5>2, <5>3, <5>5 DEF Shown
      <4> QED
        BY <1>1, <4>1, <4>2
    <3> QED
      BY <3>3, <3>4
  <2> QED
    BY <2>1, <2>2, <2>3 DEF TabOK
<1> QED
  BY <1>1, <1>5, TurnFrame

\* What happens within a turn of the event loop preserves the invariant.
LEMMA TurnKeeps ==
  ASSUME IInv, NEW t \in Tabs,
         \/ SendRealtimeMessage(t) \/ OpenTab(t) \/ ReopenTab(t)
         \/ ServerFrame(t) \/ ServerEnds(t) \/ FlushTimer(t) \/ FramesBatchReceived(t)
  PROVE  IInv'
<1>1. TypeOK'
  BY TurnTyped DEF IInv
<1>2. CASE SendRealtimeMessage(t)
  <2> PICK f : f = [conn |-> conns[t], n |-> got[conns[t]] + 1, dir |-> "outgoing"]
    OBVIOUS
  <2>1. /\ pending' = [pending EXCEPT ![t] = Append(@, f)] /\ f.dir # "end" /\ conns[t] # NoConn
        /\ UNCHANGED <<open, lastAlive, told, reopened, epochs, conns, batches, sessions,
                       waiting, opened, ended, released, phase>>
    BY <1>2 DEF SendRealtimeMessage, tabsVars
  <2> QED
    BY <1>1, <2>1, FrameKeeps
<1>3. CASE OpenTab(t) \/ ReopenTab(t)
  <2>1. UNCHANGED <<lastAlive, epochs, conns, pending, batches, sessions, waiting, opened,
                    ended, released, phase>>
    BY <1>3 DEF OpenTab, ReopenTab, wireVars
  <2>2. reopened \subseteq reopened'
    BY <1>3 DEF OpenTab, ReopenTab
  <2>3. ASSUME NEW u \in Tabs \ reopened' PROVE TabOK(u)'
    <3>1. Reported(u) /\ u \in Tabs \ reopened
      BY <2>2, <2>3 DEF IInv, TabOK
    <3>2. (u \in told' <=> u \in told) /\ (u \in told' => u \notin open')
      BY <1>3, <2>3, <3>1 DEF Reported, OpenTab, ReopenTab
    <3> QED
      BY <2>1, <3>1, <3>2, OtherTabs DEF Reported
  <2> QED
    BY <1>1, <2>1, <2>2, <2>3, TurnFrame
<1>4. CASE ServerFrame(t) \/ ServerEnds(t)
  <2>1. PICK dir \in {"incoming", "end"} :
          /\ Deliver(t, dir) /\ ended \subseteq ended'
          /\ dir = "end" => conns[t] \in ended'
    BY <1>4 DEF ServerFrame, ServerEnds
  <2> PICK f : f = [conn |-> conns[t], n |-> got[conns[t]] + 1, dir |-> dir]
    OBVIOUS
  <2>2. /\ pending' = [pending EXCEPT ![t] = Append(@, f)] /\ f.dir = dir
        /\ UNCHANGED <<open, lastAlive, told, reopened, epochs, conns, batches, sessions,
                       waiting, opened, released, phase>>
    BY <2>1 DEF Deliver, tabsVars
  <2>3. conns[t] # NoConn
    BY <2>1, ConnNumbers DEF Deliver
  <2> QED
    BY <1>1, <2>1, <2>2, <2>3, FrameKeeps
<1>5. CASE FlushTimer(t)
  BY <1>1, <1>5, FlushKeeps
<1>6. CASE FramesBatchReceived(t)
  BY <1>1, <1>6, BatchKeeps
<1> QED
  BY <1>2, <1>3, <1>4, <1>5, <1>6

-----------------------------------------------------------------------------
(* Closing the bloc. *)

\* The loop that closes all sockets starts or goes on.
LEMMA QuitStepKeeps ==
  ASSUME IInv, TypeOK', NEW others, Part(others), NEW rest \in Seq(Conns),
         QuitRest(rest, others), released \subseteq released',
         conns' = conns \/ conns' = [t \in Tabs |-> NoConn],
         UNCHANGED <<open, lastAlive, told, reopened, epochs, opened>>,
         \A d \in ToSet(rest) : Parked(d)',
         \A c \in DOMAIN others : ~IsTask(c, "quit"),
         \A t \in Tabs : conns[t] # NoConn => conns'[t] = conns[t] \/ conns[t] \in ToSet(rest),
         \A c \in DOMAIN waiting \ DOMAIN others : c \in released',
         \A c \in DOMAIN waiting : IsTask(c, "quit") => ToSet(waiting[c].rest) \subseteq ToSet(rest)
  PROVE  IInv'
<1>1. TypeOK /\ Wired /\ Looping
  BY DEF IInv
<1>2. Wired'
  BY <1>1, QuitsWired
<1>3. phase' # "open"
  BY DEF QuitRest
<1>4. /\ \A t : WaitsFrom(t) /\ LoopsFrom(t)
      /\ Looping'
  <2>1. CASE rest = <<>>
    <3>1. Part(waiting')
      BY <2>1 DEF QuitRest
    <3> QED
      BY <1>1, <3>1, PartTasks, LeavesLooping
  <2>2. CASE rest # <<>>
    <3> PICK k, task : k = Head(rest) /\ task = Quitting(Tail(rest))
      OBVIOUS
    <3>1. waiting' = Put(others, k, task) /\ task.kind = "quit"
      BY <2>2 DEF QuitRest, Quitting
    <3>2. /\ DOMAIN waiting' = DOMAIN others \cup {k} /\ waiting'[k] = task
          /\ \A d \in DOMAIN others \ {k} : d \in DOMAIN waiting /\ waiting'[d] = waiting[d]
      BY <3>1 DEF Put, Part
    <3>3. \A t : WaitsFrom(t) /\ LoopsFrom(t)
      BY <3>1, <3>2 DEF WaitsFrom, LoopsFrom, Waits, IsTask
    <3>4. Looping'
      BY <1>1, <3>1, PutLooping
    <3> QED
      BY <3>3, <3>4
  <2> QED
    BY <2>1, <2>2
<1>5. ASSUME NEW t \in Tabs \ reopened' PROVE TabOK(t)'
  <2>1. TabOK(t) /\ Reported(t)
    BY <1>5 DEF IInv, TabOK
  <2>2. conns'[t] \in {conns[t], NoConn}
    OBVIOUS
  <2>3. t \in told' => t \notin open' /\ t \notin lastAlive'
    BY <2>1 DEF Reported
  <2> QED
    BY <1>1, <1>3, <1>4, <2>1, <2>2, <2>3, CalmTab
<1>6. ASSUME reopened' = {} PROVE AllAccountedFor'
  <2>1. AllAccountedFor
    BY <1>6 DEF IInv
  <2>2. ASSUME NEW d \in 1..opened, Accounted(d) PROVE Accounted(d)'
    <3>1. \A t \in Tabs : conns[t] = d => conns'[t] = d \/ d \in ToSet(rest)
      BY DEF NoConn
    <3> QED
      BY <2>2, <3>1, QuitAccounted
  <2> QED
    BY <1>1, <2>1, <2>2, StaysAccounted
<1> QED
  BY <1>2, <1>4, <1>5, <1>6 DEF IInv

\* close() preserves the invariant.
LEMMA CloseBlocKeeps ==
  ASSUME IInv, CloseBloc
  PROVE  IInv'
<1> DEFINE S == {conns[t] : t \in Tabs} \ {NoConn}
<1>1. TypeOK /\ Wired /\ TypeOK'
  BY CloseBlocTyped DEF IInv
<1>2. S \subseteq Conns /\ IsFiniteSet(S)
  <2>1. S \subseteq Conns
    BY <1>1 DEF TypeOK
  <2>2. IsFiniteSet(Conns)
    BY RealtimeAssumption, FS_Interval DEF Conns
  <2> QED
    BY <2>1, <2>2, FS_Subset
<1>3. PICK rest \in SetToSeqs(S) : QuitRest(rest, waiting)
  BY DEF CloseBloc
<1>4. rest \in Seq(Conns) /\ ToSet(rest) = S
  <2>1. rest \in Seq(S) /\ ToSet(rest) = S
    BY <1>2, SequencesOfSet
  <2> QED
    BY <1>2, <2>1, SeqMonotonic
<1>5. /\ phase = "open" /\ conns' = [t \in Tabs |-> NoConn]
      /\ UNCHANGED <<open, lastAlive, told, reopened, epochs, opened, released>>
  BY DEF CloseBloc, Acts, tabsVars
<1>6. \A d \in ToSet(rest) : Parked(d)'
  <2>1. ASSUME NEW t \in Tabs, conns[t] # NoConn PROVE conns[t] \in 1..opened
    BY <1>1, <2>1, ConnNumbers DEF Wired, TypeOK, NoConn
  <2>2. \A d \in S : d \in 1..opened /\ d # NoConn
    BY <2>1
  <2> QED
    BY <1>4, <1>5, <2>2 DEF Parked
<1>7. \A c \in DOMAIN waiting : ~IsTask(c, "quit")
  BY <1>1, <1>5 DEF Wired
<1>8. \A t \in Tabs : conns[t] # NoConn => conns[t] \in ToSet(rest)
  BY <1>4
<1>9. Part(waiting)
  BY Parts
<1> HIDE DEF S
<1> QED
  BY <1>1, <1>3, <1>4, <1>5, <1>6, <1>7, <1>8, <1>9, QuitStepKeeps

\* close() going on to the next connection preserves the invariant.
LEMMA ResumeQuitKeeps ==
  ASSUME IInv, NEW c \in Conns, ResumeQuit(c)
  PROVE  IInv'
<1>1. TypeOK /\ Wired /\ Looping /\ TypeOK'
  BY SocketTyped DEF IInv, SocketClosed
<1>2. /\ c \in DOMAIN waiting /\ IsTask(c, "quit") /\ QuitRest(waiting[c].rest, Others(c))
      /\ released' = released \cup {c}
      /\ UNCHANGED <<open, lastAlive, told, reopened, epochs, conns, opened>>
  BY DEF ResumeQuit, Closed, tabsVars, IsTask
<1> PICK rest : rest = waiting[c].rest
  OBVIOUS
<1>3. rest \in Seq(Conns)
  BY <1>1, <1>2, TypeParts, TaskFields
<1>4. \A d \in ToSet(rest) : Parked(d)'
  BY <1>1, <1>2 DEF Wired, Parked
<1> PICK others : others = Others(c)
  OBVIOUS
<1>5. Part(others) /\ DOMAIN others = DOMAIN waiting \ {c}
  BY Parts, OthersKept
<1>6. \A d \in DOMAIN waiting : IsTask(d, "quit") => d = c
  BY <1>1, <1>2 DEF Wired
<1>7. /\ \A d \in DOMAIN others : ~IsTask(d, "quit")
      /\ \A d \in DOMAIN waiting \ DOMAIN others : d \in released'
      /\ \A d \in DOMAIN waiting : IsTask(d, "quit") => ToSet(waiting[d].rest) \subseteq ToSet(rest)
  BY <1>2, <1>5, <1>6
<1>8. QuitRest(rest, others) /\ released \subseteq released' /\ conns' = conns
  BY <1>2
<1> QED
  BY <1>1, <1>2, <1>3, <1>4, <1>5, <1>7, <1>8, QuitStepKeeps

-----------------------------------------------------------------------------
(* A handler that waited for its socket goes on, or gives up. *)

\* The handler whose epoch is current is the only one, and no connection has
\* come in the way.
LEMMA OwnerAlone ==
  ASSUME IInv, NEW c \in DOMAIN waiting, Waits(c), GoesOn(c),
         NEW t \in Tabs \ reopened, t = waiting[c].tab
  PROVE  /\ conns[t] = NoConn /\ epochs[t] >= 1
         /\ \A d \in DOMAIN waiting \ {c} :
              Waits(d) /\ waiting[d].tab = t => waiting[d].epoch # epochs[t]
         /\ \A d \in DOMAIN waiting : IsTask(d, "tabs") => waiting[d].tab # t
         /\ phase = "open" /\ t \in told =>
              \E d \in DOMAIN waiting : IsTask(d, "tabs") /\ t \in waiting[d].all
<1>1. Owned(t) /\ (phase = "open" => Shown(t))
  BY DEF IInv, TabOK
<1>2. waiting[c].epoch = epochs[t] /\ waiting[c].epoch >= 1
  BY <1>1 DEF GoesOn, Current, Owned, Kept
<1>3. conns[t] = NoConn
  BY <1>1, <1>2 DEF Owned, Current
<1>4. \A d \in DOMAIN waiting \ {c} :
        Waits(d) /\ waiting[d].tab = t => waiting[d].epoch # epochs[t]
  BY <1>1, <1>2 DEF Owned
<1>5. \A d \in DOMAIN waiting : IsTask(d, "tabs") => waiting[d].tab # t
  BY <1>1, <1>2 DEF Owned
<1>6. phase = "open" /\ t \in told =>
        \E d \in DOMAIN waiting : IsTask(d, "tabs") /\ t \in waiting[d].all
  BY <1>1, <1>2 DEF Shown
<1> QED
  BY <1>2, <1>3, <1>4, <1>5, <1>6

\* What all of them have in common.
LEMMA HandlerDone ==
  ASSUME IInv, NEW c \in DOMAIN waiting, Waits(c), waiting' = Others(c)
  PROVE  /\ ~IsTask(c, "quit") /\ Part(waiting') /\ Looping'
         /\ \A t : WaitsFrom(t) /\ LoopsFrom(t) /\ LoopsStay(t)
         /\ \A d \in DOMAIN waiting' : d \in DOMAIN waiting \ {c} /\ waiting'[d] = waiting[d]
<1>1. /\ DOMAIN waiting' = DOMAIN waiting \ {c}
      /\ \A d \in DOMAIN waiting' : waiting'[d] = waiting[d]
  BY OthersKept
<1>2. Part(waiting') /\ Looping
  BY <1>1 DEF Part, IInv
<1>3. ~IsTask(c, "quit") /\ ~IsTask(c, "tabs")
  BY DEF Waits, IsTask
<1>4. \A t : LoopsStay(t)
  BY <1>1, <1>3 DEF LoopsStay, IsTask
<1> QED
  BY <1>1, <1>2, <1>3, <1>4, PartTasks, LeavesLooping

\* It says that the tab is disconnected, or nothing.
LEMMA AnswerKeeps ==
  ASSUME IInv, TypeOK', NEW c \in DOMAIN waiting, Waits(c), waiting' = Others(c),
         released' = released \cup {c},
         UNCHANGED <<open, lastAlive, told, reopened, epochs, conns, pending, batches, opened,
                     ended, phase>>,
         \/ UNCHANGED sessions
         \/ GoesOn(c) /\ \E s : Emit(WithSession(waiting[c].tab, s))
  PROVE  IInv'
<1>1. /\ ~IsTask(c, "quit") /\ Part(waiting') /\ Looping'
      /\ \A t : WaitsFrom(t) /\ LoopsFrom(t) /\ LoopsStay(t)
  BY HandlerDone
<1>2. TypeOK /\ Wired /\ Looping
  BY DEF IInv
<1>3. Wired'
  BY <1>1, <1>2, LeavesWired
<1>4. ASSUME NEW t \in Tabs \ reopened' PROVE TabOK(t)'
  <2>1. TabOK(t) /\ Reported(t) /\ Owned(t) /\ t \in Tabs \ reopened
    BY <1>4 DEF IInv, TabOK
  <2>2. t \in told' => t \notin open' /\ t \notin lastAlive'
    BY <2>1 DEF Reported
  <2>3. CASE \/ UNCHANGED sessions
             \/ t # waiting[c].tab /\ \E s : Emit(WithSession(waiting[c].tab, s))
    <3>1. /\ t \in DOMAIN sessions' <=> t \in DOMAIN sessions
          /\ t \in DOMAIN sessions => sessions'[t] = sessions[t]
      <4>1. CASE UNCHANGED sessions
        BY <4>1
      <4>2. CASE t # waiting[c].tab /\ \E s : Emit(WithSession(waiting[c].tab, s))
        <5> PICK u, s : u = waiting[c].tab /\ Emit(WithSession(u, s))
          BY <4>2
        <5>1. t # u
          BY <4>2
        <5> QED
          BY <5>1, Emitted
      <4> QED
        BY <2>3, <4>1, <4>2
    <3> QED
      BY <1>1, <1>2, <2>1, <2>2, <3>1, CalmTab
  <2>4. CASE t = waiting[c].tab /\ GoesOn(c)
    <3>1. /\ conns[t] = NoConn
          /\ phase = "open" /\ t \in told =>
               \E d \in DOMAIN waiting : IsTask(d, "tabs") /\ t \in waiting[d].all
      BY <2>1, <2>4, OwnerAlone
    <3>2. (Gone(t) => Gone(t)') /\ Reported(t)' /\ Owned(t)'
      BY <1>1, <1>2, <2>1, <2>2, CalmOwned
    <3>3. ASSUME phase' = "open" PROVE Buffered(t)' /\ Shown(t)'
      <4>1. Buffered(t)
        BY <2>1, <3>3 DEF TabOK
      <4>2. Buffered(t)'
        BY <3>2, <4>1, CalmBuffered
      <4>3. t \in told' => \E d \in DOMAIN waiting' : IsTask(d, "tabs")' /\ t \in waiting'[d].all
        BY <1>1, <3>1, <3>3 DEF LoopsStay
      <4>4. Shown(t)'
        BY <3>1, <4>3, ConnNumbers DEF Shown
      <4> QED
        BY <4>2, <4>4
    <3> QED
      BY <3>2, <3>3 DEF TabOK
  <2> QED
    BY <2>3, <2>4
<1>5. ASSUME reopened' = {} PROVE AllAccountedFor'
  <2>1. AllAccountedFor
    BY <1>5 DEF IInv
  <2>2. \A d \in 1..opened : Accounted(d) => Accounted(d)'
    BY <1>1, DoneAccounted
  <2> QED
    BY <1>2, <2>1, <2>2, StaysAccounted
<1> QED
  BY <1>1, <1>3, <1>4, <1>5 DEF IInv

\* It connects.
LEMMA EstablishKeeps ==
  ASSUME IInv, TypeOK', NEW c \in DOMAIN waiting, Waits(c), GoesOn(c), waiting' = Others(c),
         released' = released \cup {c},
         NEW u, u = waiting[c].tab, Establish(u, pending[u]),
         UNCHANGED <<open, lastAlive, told, reopened, epochs, batches, ended, phase>>
  PROVE  IInv'
<1>1. /\ ~IsTask(c, "quit") /\ Part(waiting') /\ Looping'
      /\ \A t : WaitsFrom(t) /\ LoopsFrom(t) /\ LoopsStay(t)
      /\ \A d \in DOMAIN waiting' : d \in DOMAIN waiting \ {c} /\ waiting'[d] = waiting[d]
  BY HandlerDone
<1>2. TypeOK /\ Wired /\ Looping /\ WaitingOK
  BY TypeParts DEF IInv
<1>3. u \in Tabs /\ pending[u] \in Seq(Frame)
  <2>1. u \in Tabs
    BY <1>2, TaskFields
  <2> QED
    BY <1>2, <2>1 DEF TypeOK
<1>4. /\ opened' = opened + 1 /\ opened' \in Conns /\ conns' = [conns EXCEPT ![u] = opened']
      /\ pending' = [pending EXCEPT ![u] =
           Append(pending[u], [conn |-> opened + 1, n |-> 1, dir |-> "open"])]
  BY <1>2, <1>3, EstablishTyped DEF Establish
<1>5. Wired'
  BY <1>1, <1>2, <1>3, <1>4, EstablishWired
<1>6. PICK s : Emit(WithSession(u, s)) /\ s.connected
  <2>1. Emit(WithSession(u, [connected |-> TRUE, frames |-> <<>>]))
    BY DEF Establish
  <2> QED
    BY <2>1
<1>7. ASSUME NEW t \in Tabs \ reopened' PROVE TabOK(t)'
  <2>1. TabOK(t) /\ Reported(t) /\ Owned(t) /\ t \in Tabs \ reopened
    BY <1>7 DEF IInv, TabOK
  <2>2. t \in told' => t \notin open' /\ t \notin lastAlive'
    BY <2>1 DEF Reported
  <2>3. CASE t # u
    <3>1. conns'[t] = conns[t] /\ pending'[t] = pending[t]
      BY <1>2, <1>3, <1>4, <2>3 DEF TypeOK
    <3>2. /\ t \in DOMAIN sessions' <=> t \in DOMAIN sessions
          /\ t \in DOMAIN sessions => sessions'[t] = sessions[t]
      BY <1>6, <2>3, Emitted
    <3> QED
      BY <1>1, <1>2, <2>1, <2>2, <3>1, <3>2, CalmTab
  <2>4. CASE t = u
    <3>1. /\ conns[t] = NoConn /\ epochs[t] >= 1
          /\ \A d \in DOMAIN waiting \ {c} :
               Waits(d) /\ waiting[d].tab = t => waiting[d].epoch # epochs[t]
          /\ \A d \in DOMAIN waiting : IsTask(d, "tabs") => waiting[d].tab # t
          /\ phase = "open" /\ t \in told =>
               \E d \in DOMAIN waiting : IsTask(d, "tabs") /\ t \in waiting[d].all
      BY <2>1, <2>4, OwnerAlone
    <3>2. conns'[t] = opened' /\ conns'[t] \in Conns /\ conns'[t] # NoConn
      BY <1>2, <1>4, <2>4, ConnNumbers DEF TypeOK
    <3>3. \A d \in DOMAIN waiting' : IsTask(d, "tabs")' /\ Ahead(d, t)' =>
            d \in DOMAIN waiting /\ IsTask(d, "tabs") /\ Ahead(d, t)
      BY <1>1 DEF Ahead, IsTask
    <3>4. Gone(t) => Gone(t)'
      BY <3>3 DEF Gone
    <3>5. Reported(t)'
      <4>1. ASSUME NEW d \in DOMAIN waiting', IsTask(d, "tabs")', t \in waiting'[d].all
            PROVE  /\ t \in told' /\ Ahead(d, t)'
                   /\ \A e \in DOMAIN waiting' :
                        IsTask(e, "tabs")' /\ t \in waiting'[e].all => d = e
        <5>1. /\ d \in DOMAIN waiting /\ IsTask(d, "tabs") /\ waiting'[d] = waiting[d]
              /\ t \in waiting[d].all
          BY <1>1, <4>1 DEF LoopsFrom
        <5>2. /\ t \in told
              /\ Ahead(d, t) \/ epochs[t] = 0
              /\ \A e \in DOMAIN waiting : IsTask(e, "tabs") /\ t \in waiting[e].all => d = e
          BY <2>1, <5>1 DEF Reported
        <5>3. Ahead(d, t)
          BY <3>1, <5>2
        <5>4. Ahead(d, t)'
          BY <5>1, <5>3 DEF Ahead
        <5> QED
          BY <1>1, <5>2, <5>4 DEF LoopsFrom
      <4> QED
        BY <2>2, <4>1 DEF Reported
    <3>6. Owned(t)'
      <4>1. ASSUME NEW d \in DOMAIN waiting', Waits(d)', waiting'[d].tab = t
            PROVE  /\ waiting'[d].epoch >= 1 /\ (waiting'[d].epoch <= epochs'[t] \/ Gone(t)')
                   /\ waiting'[d].epoch # epochs'[t]
                   /\ \A e \in DOMAIN waiting' :
                        Waits(e)' /\ waiting'[e].tab = t /\ waiting'[e].epoch = waiting'[d].epoch
                          => d = e
        <5>1. d \in DOMAIN waiting \ {c} /\ Waits(d) /\ waiting'[d] = waiting[d]
          BY <1>1, <4>1 DEF WaitsFrom
        <5>2. /\ waiting[d].epoch >= 1 /\ (waiting[d].epoch <= epochs[t] \/ Gone(t))
              /\ \A e \in DOMAIN waiting :
                   Waits(e) /\ waiting[e].tab = t /\ waiting[e].epoch = waiting[d].epoch => d = e
          BY <2>1, <4>1, <5>1 DEF Owned, Kept
        <5> QED
          BY <1>1, <3>1, <3>4, <4>1, <5>1, <5>2 DEF WaitsFrom
      <4>2. \A d \in DOMAIN waiting' : IsTask(d, "tabs")' => waiting'[d].tab # t
        BY <1>1, <3>1 DEF IsTask
      <4> QED
        BY <3>1, <4>1, <4>2 DEF Owned, Kept, Current
    <3>7. ASSUME phase' = "open" PROVE Buffered(t)' /\ Shown(t)'
      <4>1. Buffered(t)
        BY <2>1, <3>7 DEF TabOK
      <4>2. pending'[t] # <<>> /\ Last(pending'[t]).dir = "open"
        <5> DEFINE f == [conn |-> opened + 1, n |-> 1, dir |-> "open"]
        <5>1. pending'[t] = Append(pending[t], f)
          BY <1>2, <1>4, <2>4 DEF TypeOK
        <5>2. Append(pending[t], f) # <<>> /\ Last(Append(pending[t], f)) = f
          BY <1>3, <2>4, LastAppended
        <5> QED
          BY <5>1, <5>2
      <4>3. ASSUME NEW i \in DOMAIN batches'[t]
            PROVE  LET batch == batches'[t][i]
                   IN  /\ batch.frames # <<>>
                       /\ batch.epoch >= 1 /\ (batch.epoch <= epochs'[t] \/ Gone(t)')
                       /\ batch.epoch # epochs'[t]
        BY <3>1, <3>4, <4>1 DEF Buffered, Kept, Current
      <4>4. Buffered(t)'
        BY <3>2, <4>2, <4>3 DEF Buffered, Kept, Current, Ends
      <4>5. t \in told' => \E d \in DOMAIN waiting' : IsTask(d, "tabs")' /\ t \in waiting'[d].all
        BY <1>1, <3>1, <3>7 DEF LoopsStay
      <4>6. SessionFor(t)' = s
        <5>1. phase # "closed"
          BY <3>7
        <5> QED
          BY <1>6, <2>4, <5>1, Emitted
      <4>7. Shown(t)'
        BY <1>6, <4>5, <4>6 DEF Shown
      <4> QED
        BY <4>4, <4>7
    <3> QED
      BY <3>5, <3>6, <3>7 DEF TabOK
  <2> QED
    BY <2>3, <2>4
<1>8. ASSUME reopened' = {} PROVE AllAccountedFor'
  <2>1. AllAccountedFor
    BY <1>8 DEF IInv
  <2>2. conns[u] = NoConn
    BY <1>3, <1>8, OwnerAlone
  <2>3. \A d \in 1..opened : \A t \in Tabs : conns[t] = d => conns'[t] = d
    <3>1. \A d \in 1..opened : d # NoConn
      BY DEF NoConn
    <3> QED
      BY <1>2, <1>3, <1>4, <2>2, <3>1 DEF TypeOK
  <2>4. ASSUME NEW d \in 1..opened, Accounted(d) PROVE Accounted(d)'
    BY <1>1, <2>3, <2>4, DoneAccounted
  <2>5. \A d \in 1..opened' : d \in 1..opened \/ \E t \in Tabs : conns'[t] = d
    <3>1. conns'[u] = opened + 1 /\ opened \in Nat /\ opened' = opened + 1
      BY <1>2, <1>3, <1>4, ConnNumbers DEF TypeOK
    <3> QED
      BY <1>3, <3>1
  <2> QED
    BY <1>2, <2>1, <2>4, <2>5, StaysAccounted
<1> QED
  BY <1>1, <1>5, <1>7, <1>8 DEF IInv

\* A connect and a disconnect that go on preserve the invariant.
LEMMA ResumeKeeps ==
  ASSUME IInv, NEW c \in Conns, ResumeConnect(c) \/ ResumeDisconnect(c) \/ GiveUp(c)
  PROVE  IInv'
<1>1. TypeOK' /\ pending \in [Tabs -> Seq(Frame)]
  BY SocketTyped DEF IInv, SocketClosed, TypeOK
<1>2. /\ c \in DOMAIN waiting /\ Waits(c) /\ waiting' = Others(c) /\ released' = released \cup {c}
      /\ UNCHANGED <<open, lastAlive, told, reopened, epochs, batches, ended, phase>>
  BY DEF ResumeConnect, ResumeDisconnect, GiveUp, Closed, tabsVars, IsTask, Waits
<1> PICK u : u = waiting[c].tab
  OBVIOUS
<1>3. CASE GoesOn(c) /\ Establish(u, pending[u])
  BY <1>1, <1>2, <1>3, EstablishKeeps
<1>4. CASE GoesOn(c) /\ Refuse(u, pending[u])
  <2>1. /\ \E s : Emit(WithSession(u, s))
        /\ UNCHANGED <<conns, opened>> /\ pending' = [pending EXCEPT ![u] = pending[u]]
    BY <1>4 DEF Refuse
  <2>2. pending' = pending
    BY <1>1, <2>1
  <2> QED
    BY <1>1, <1>2, <1>4, <2>1, <2>2, AnswerKeeps
<1>5. CASE ResumeDisconnect(c)
  <2>1. /\ GoesOn(c) /\ \E s : Emit(WithSession(u, s))
        /\ UNCHANGED <<conns, opened, pending>>
    BY <1>5 DEF ResumeDisconnect, Reset
  <2> QED
    BY <1>1, <1>2, <2>1, AnswerKeeps
<1>6. CASE GiveUp(c)
  <2>1. UNCHANGED <<conns, opened, pending, sessions>>
    BY <1>6 DEF GiveUp
  <2> QED
    BY <1>1, <1>2, <2>1, AnswerKeeps
<1> QED
  BY <1>3, <1>4, <1>5, <1>6 DEF ResumeConnect

-----------------------------------------------------------------------------
(* The tabs of a loop. *)

\* A tab the loop has passed is gone.
LEMMA PassedTab ==
  ASSUME TypeOK, Looping', NEW t \in Tabs, TabOK(t), WaitsFrom(t),
         t \in told', t \notin open', t \notin lastAlive', epochs'[t] = 0, conns'[t] = NoConn,
         NEW k,
         \A d \in DOMAIN waiting' : IsTask(d, "tabs")' /\ t \in waiting'[d].all =>
           d = k /\ ~Ahead(d, t)',
         phase' = "open" =>
           /\ phase = "open" /\ conns[t] = NoConn
           /\ pending'[t] = pending[t] /\ batches'[t] = batches[t]
           /\ \/ t \notin DOMAIN sessions'
              \/ \E d \in DOMAIN waiting' : IsTask(d, "tabs")' /\ t \in waiting'[d].all
  PROVE  TabOK(t)'
<1>1. \A d \in DOMAIN waiting' : IsTask(d, "tabs")' => ~Ahead(d, t)' /\ waiting'[d].tab # t
  BY DEF Looping, Ahead
<1>2. Gone(t)'
  BY <1>1 DEF Gone
<1>3. Reported(t)'
  BY DEF Reported
<1>4. ASSUME NEW d \in DOMAIN waiting', Waits(d)', waiting'[d].tab = t
      PROVE  /\ waiting'[d].epoch >= 1
             /\ \A e \in DOMAIN waiting' :
                  Waits(e)' /\ waiting'[e].tab = t /\ waiting'[e].epoch = waiting'[d].epoch => d = e
  <2>1. d \in DOMAIN waiting /\ Waits(d) /\ waiting'[d] = waiting[d]
    BY <1>4 DEF WaitsFrom
  <2>2. /\ waiting[d].epoch >= 1
        /\ \A e \in DOMAIN waiting :
             Waits(e) /\ waiting[e].tab = t /\ waiting[e].epoch = waiting[d].epoch => d = e
    BY <1>4, <2>1 DEF TabOK, Owned, Kept
  <2> QED
    BY <2>1, <2>2 DEF WaitsFrom
<1>5. Owned(t)'
  BY <1>1, <1>2, <1>4 DEF Owned, Kept, Current
<1>6. ASSUME phase' = "open" PROVE Buffered(t)' /\ Shown(t)'
  <2>1. Buffered(t)
    BY <1>6 DEF TabOK
  <2>2. ASSUME NEW i \in DOMAIN batches'[t]
        PROVE  batches'[t][i].frames # <<>> /\ batches'[t][i].epoch >= 1 /\ batches'[t][i].epoch # 0
    BY <1>6, <2>1, <2>2 DEF Buffered, Kept
  <2>3. pending'[t] = <<>>
    BY <1>6, <2>1 DEF Buffered
  <2>4. Buffered(t)'
    BY <1>2, <2>2, <2>3 DEF Buffered, Kept, Current, Ends
  <2>5. Shown(t)'
    BY <1>6 DEF Shown
  <2> QED
    BY <2>4, <2>5
<1> QED
  BY <1>3, <1>5, <1>6 DEF TabOK

\* A tab whose socket the loop closes now.
LEMMA HaltedTab ==
  ASSUME TypeOK, Looping', NEW t \in Tabs, TabOK(t), WaitsFrom(t), ~Gone(t),
         t \in told', t \notin open', t \notin lastAlive',
         epochs'[t] = epochs[t] + 1, conns'[t] = NoConn, pending'[t] = <<>>,
         batches'[t] = batches[t], phase' = phase,
         NEW k \in DOMAIN waiting', IsTask(k, "tabs")', t \in waiting'[k].all, Ahead(k, t)',
         \A d \in DOMAIN waiting' : IsTask(d, "tabs")' /\ t \in waiting'[d].all => d = k
  PROVE  TabOK(t)'
<1>1. /\ epochs[t] \in Nat
      /\ \A c \in DOMAIN waiting : Waits(c) /\ waiting[c].tab = t =>
           waiting[c].epoch \in Nat /\ 1 <= waiting[c].epoch /\ waiting[c].epoch <= epochs[t]
      /\ phase = "open" => \A i \in DOMAIN batches[t] :
           /\ batches[t][i].epoch \in Nat /\ 1 <= batches[t][i].epoch
           /\ batches[t][i].epoch <= epochs[t]
  BY KeptEpochs
<1>2. Reported(t)'
  BY DEF Reported
<1>3. ASSUME NEW d \in DOMAIN waiting', Waits(d)', waiting'[d].tab = t
      PROVE  /\ waiting'[d].epoch >= 1 /\ waiting'[d].epoch <= epochs'[t]
             /\ waiting'[d].epoch # epochs'[t]
             /\ \A e \in DOMAIN waiting' :
                  Waits(e)' /\ waiting'[e].tab = t /\ waiting'[e].epoch = waiting'[d].epoch => d = e
  <2>1. d \in DOMAIN waiting /\ Waits(d) /\ waiting'[d] = waiting[d]
    BY <1>3 DEF WaitsFrom
  <2>2. \A e \in DOMAIN waiting :
          Waits(e) /\ waiting[e].tab = t /\ waiting[e].epoch = waiting[d].epoch => d = e
    BY <1>3, <2>1 DEF TabOK, Owned
  <2>3. waiting[d].epoch \in Nat /\ 1 <= waiting[d].epoch /\ waiting[d].epoch <= epochs[t]
    BY <1>1, <1>3, <2>1
  <2>4. /\ waiting'[d].epoch >= 1 /\ waiting'[d].epoch <= epochs'[t]
        /\ waiting'[d].epoch # epochs'[t]
    BY <1>1, <2>1, <2>3
  <2> QED
    BY <2>1, <2>2, <2>4 DEF WaitsFrom
<1>4. Owned(t)'
  BY <1>3 DEF Owned, Kept, Current
<1>5. ASSUME phase' = "open" PROVE Buffered(t)' /\ Shown(t)'
  <2>1. Buffered(t)
    BY <1>5 DEF TabOK
  <2>2. ASSUME NEW i \in DOMAIN batches'[t]
        PROVE  /\ batches'[t][i].frames # <<>> /\ batches'[t][i].epoch >= 1
               /\ batches'[t][i].epoch <= epochs'[t] /\ batches'[t][i].epoch # epochs'[t]
    <3>1. batches[t][i].epoch \in Nat /\ 1 <= batches[t][i].epoch /\ batches[t][i].epoch <= epochs[t]
      BY <1>1, <1>5, <2>2
    <3> QED
      BY <1>1, <2>1, <2>2, <3>1 DEF Buffered
  <2>3. Buffered(t)'
    BY <2>2 DEF Buffered, Kept, Current, Ends
  <2>4. Shown(t)'
    BY ConnNumbers DEF Shown
  <2> QED
    BY <2>3, <2>4
<1> QED
  BY <1>2, <1>4, <1>5 DEF TabOK

\* A tab the loop has still to come to.
LEMMA AheadTab ==
  ASSUME TypeOK, Looping', NEW t \in Tabs, TabOK(t), WaitsFrom(t), ~Gone(t),
         t \in told', t \notin open', t \notin lastAlive',
         epochs'[t] = epochs[t], conns'[t] = conns[t], pending'[t] = pending[t],
         batches'[t] = batches[t], phase' = phase, UNCHANGED ended,
         NEW k \in DOMAIN waiting', IsTask(k, "tabs")', t \in waiting'[k].all, Ahead(k, t)',
         waiting'[k].tab # t,
         \A d \in DOMAIN waiting' : IsTask(d, "tabs")' /\ t \in waiting'[d].all => d = k
  PROVE  TabOK(t)'
<1>1. Reported(t)'
  BY DEF Reported
<1>2. \A d \in DOMAIN waiting' : IsTask(d, "tabs")' => waiting'[d].tab # t
  BY DEF Looping
<1>3. ASSUME NEW d \in DOMAIN waiting', Waits(d)', waiting'[d].tab = t
      PROVE  /\ waiting'[d].epoch >= 1 /\ waiting'[d].epoch <= epochs'[t]
             /\ waiting'[d].epoch = epochs'[t] => conns'[t] = NoConn
             /\ \A e \in DOMAIN waiting' :
                  Waits(e)' /\ waiting'[e].tab = t /\ waiting'[e].epoch = waiting'[d].epoch => d = e
  <2>1. d \in DOMAIN waiting /\ Waits(d) /\ waiting'[d] = waiting[d]
    BY <1>3 DEF WaitsFrom
  <2>2. /\ waiting[d].epoch >= 1 /\ waiting[d].epoch <= epochs[t]
        /\ waiting[d].epoch = epochs[t] => conns[t] = NoConn
        /\ \A e \in DOMAIN waiting :
             Waits(e) /\ waiting[e].tab = t /\ waiting[e].epoch = waiting[d].epoch => d = e
    BY <1>3, <2>1 DEF TabOK, Owned, Kept, Current
  <2> QED
    BY <2>1, <2>2 DEF WaitsFrom
<1>4. Owned(t)'
  <2>1. conns'[t] # NoConn => epochs'[t] >= 1
    BY DEF TabOK, Owned
  <2> QED
    BY <1>2, <1>3, <2>1 DEF Owned, Kept, Current
<1>5. ASSUME phase' = "open" PROVE Buffered(t)' /\ Shown(t)'
  <2>1. Buffered(t)
    BY <1>5 DEF TabOK
  <2>2. Buffered(t)'
    BY <2>1, CalmBuffered
  <2>3. Shown(t)'
    BY DEF Shown
  <2> QED
    BY <2>2, <2>3
<1> QED
  BY <1>1, <1>4, <1>5 DEF TabOK

\* What is true around a turn of the loop of _onTabsClosed over the tabs of all,
\* of which those of tabs are still ahead, from the epochs es and beside the
\* handlers others.
LoopStep(all, tabs, es, others) ==
  /\ all \in SUBSET Tabs /\ tabs \in SUBSET all
  /\ es \in [Tabs -> Nat] /\ Part(others)
  /\ \/ Finishes(all, tabs, es, others)
     \/ \E u \in Tabs, more \in Seq(Tabs) : Stops(all, tabs, es, others, u, more)
  /\ \A t \in Tabs \ (all \ tabs) : es[t] = epochs[t]
  /\ \A t \in Tabs \ reopened : t \in told' <=> t \in told \cup all
  /\ UNCHANGED <<reopened, batches, opened, ended, phase>>
  /\ released \subseteq released'
  /\ \A c \in DOMAIN waiting \ DOMAIN others :
       c \in released' /\ IsTask(c, "tabs") /\ waiting[c].all = all
  /\ \A t \in Tabs \ reopened : t \in told' => t \notin open' /\ t \notin lastAlive'
  /\ \A t \in all \ reopened :
       /\ \A d \in DOMAIN others : IsTask(d, "tabs") => t \notin waiting[d].all
       /\ t \in tabs => ~Gone(t)
       /\ t \notin tabs => es[t] = 0 /\ conns[t] = NoConn

\* The loop starts or goes on, with the tabs it still has to come to.
LEMMA LoopKeeps ==
  ASSUME IInv, TypeOK', NEW all, NEW tabs, NEW es, NEW others,
         LoopStep(all, tabs, es, others)
  PROVE  IInv'
<1> SUFFICES ASSUME all \in SUBSET Tabs, tabs \in SUBSET all,
         es \in [Tabs -> Nat], Part(others),
         \/ Finishes(all, tabs, es, others)
         \/ \E u \in Tabs, more \in Seq(Tabs) : Stops(all, tabs, es, others, u, more),
         \A t \in Tabs \ (all \ tabs) : es[t] = epochs[t],
         \A t \in Tabs \ reopened : t \in told' <=> t \in told \cup all,
         UNCHANGED <<reopened, batches, opened, ended, phase>>, released \subseteq released',
         \A c \in DOMAIN waiting \ DOMAIN others :
           c \in released' /\ IsTask(c, "tabs") /\ waiting[c].all = all,
         \A t \in Tabs \ reopened : t \in told' => t \notin open' /\ t \notin lastAlive',
         \A t \in all \ reopened :
           /\ \A d \in DOMAIN others : IsTask(d, "tabs") => t \notin waiting[d].all
           /\ t \in tabs => ~Gone(t)
           /\ t \notin tabs => es[t] = 0 /\ conns[t] = NoConn
         PROVE IInv'
  BY DEF LoopStep
<1>1. TypeOK /\ Wired /\ Looping
  BY DEF IInv
<1>2. CASE Finishes(all, tabs, es, others)
  <2>1. /\ \A t \in tabs : conns[t] = NoConn
        /\ \A t \in Tabs : epochs'[t] = IF t \in tabs THEN 0 ELSE es[t]
        /\ waiting' = others /\ Emit(Without(all)) /\ UNCHANGED <<conns, pending>>
    BY <1>2 DEF Finishes
  <2>2. Part(waiting') /\ \A t : WaitsFrom(t) /\ LoopsFrom(t)
    BY <2>1, PartTasks
  <2>3. Looping' /\ Wired'
    BY <1>1, <2>1, <2>2, LeavesLooping, LeavesWired
  <2>4. ASSUME NEW t \in Tabs \ reopened' PROVE TabOK(t)'
    <3>1. TabOK(t) /\ t \in Tabs \ reopened
      BY <2>4 DEF IInv
    <3>2. CASE t \in all
      <4>1. epochs'[t] = 0 /\ conns'[t] = NoConn /\ conns[t] = NoConn /\ pending'[t] = pending[t]
        BY <2>1, <3>1, <3>2
      <4>2. \A d \in DOMAIN waiting' : IsTask(d, "tabs")' /\ t \in waiting'[d].all => FALSE
        BY <2>1, <3>1, <3>2 DEF Part, IsTask
      <4>3. phase' = "open" => t \notin DOMAIN sessions'
        BY <2>1, <3>2 DEF Emit, Without
      <4>4. t \in told' /\ t \notin open' /\ t \notin lastAlive'
        BY <3>1, <3>2
      <4> PICK k : k = NoConn
        OBVIOUS
      <4>5. \A d \in DOMAIN waiting' : IsTask(d, "tabs")' /\ t \in waiting'[d].all =>
              d = k /\ ~Ahead(d, t)'
        BY <4>2
      <4>6. phase' = "open" =>
              /\ phase = "open" /\ conns[t] = NoConn
              /\ pending'[t] = pending[t] /\ batches'[t] = batches[t]
              /\ \/ t \notin DOMAIN sessions'
                 \/ \E d \in DOMAIN waiting' : IsTask(d, "tabs")' /\ t \in waiting'[d].all
        BY <4>1, <4>3
      <4>7. TypeOK /\ Looping' /\ t \in Tabs /\ TabOK(t) /\ WaitsFrom(t)
        BY <1>1, <2>2, <2>3, <3>1
      <4> QED
        BY <4>1, <4>4, <4>5, <4>6, <4>7, PassedTab
    <3>3. CASE t \notin all
      <4>1. epochs'[t] = epochs[t] /\ conns'[t] = conns[t] /\ pending'[t] = pending[t]
            /\ (t \in told' <=> t \in told)
        BY <2>1, <3>1, <3>3
      <4>2. LoopsStay(t)
        BY <2>1, <3>3 DEF LoopsStay, Part, IsTask
      <4>3. /\ t \in DOMAIN sessions' <=> t \in DOMAIN sessions
            /\ t \in DOMAIN sessions => sessions'[t] = sessions[t]
        BY <2>1, <3>3 DEF Emit, Without
      <4>4. t \in told' => t \notin open' /\ t \notin lastAlive'
        BY <3>1
      <4> QED
        BY <1>1, <2>2, <2>3, <3>1, <4>1, <4>2, <4>3, <4>4, CalmTab
    <3> QED
      BY <3>2, <3>3
  <2>5. ASSUME reopened' = {} PROVE AllAccountedFor'
    <3>1. AllAccountedFor
      BY <2>5 DEF IInv
    <3>2. ASSUME NEW d \in 1..opened, Accounted(d) PROVE Accounted(d)'
      <4>1. CASE \E t \in Tabs : conns[t] = d
        BY <2>1, <4>1 DEF Accounted
      <4>2. CASE d \in DOMAIN waiting \cup released
        BY <2>1, <4>2 DEF Accounted
      <4>3. ASSUME NEW e \in DOMAIN waiting, IsTask(e, "quit"), d \in ToSet(waiting[e].rest)
            PROVE  Accounted(d)'
        <5>1. ~IsTask(e, "tabs")
          BY <4>3 DEF IsTask
        <5>2. e \in DOMAIN waiting' /\ waiting'[e] = waiting[e]
          BY <2>1, <4>3, <5>1 DEF Part
        <5>3. IsTask(e, "quit")' /\ d \in ToSet(waiting'[e].rest)
          BY <4>3, <5>2 DEF IsTask
        <5> QED
          BY <5>2, <5>3 DEF Accounted
      <4> QED
        BY <3>2, <4>1, <4>2, <4>3 DEF Accounted
    <3> QED
      BY <1>1, <3>1, <3>2, StaysAccounted
  <2> QED
    BY <2>3, <2>4, <2>5 DEF IInv
<1>3. ASSUME NEW u \in Tabs, NEW more \in Seq(Tabs), Stops(all, tabs, es, others, u, more)
      PROVE  IInv'
  <2> PICK k, task : k = conns[u] /\ task = Closing(all, u, more)
    OBVIOUS
  <2>1. /\ IsInjective(more) /\ {u} \cup ToSet(more) \subseteq tabs /\ u \notin ToSet(more)
        /\ conns[u] # NoConn
        /\ \A t \in tabs \ ({u} \cup ToSet(more)) : conns[t] = NoConn
        /\ \A t \in Tabs : epochs'[t] = IF t = u THEN es[u] + 1
                                        ELSE IF t \in tabs \ ToSet(more) THEN 0 ELSE es[t]
        /\ conns' = [conns EXCEPT ![u] = NoConn] /\ pending' = [pending EXCEPT ![u] = <<>>]
        /\ waiting' = Put(others, conns[u], task)
        /\ UNCHANGED sessions
    BY <1>3 DEF Stops
  <2>2. task.kind = "tabs" /\ task.all = all /\ task.tab = u /\ task.rest = more
    BY DEF Closing
  <2>3. k \notin DOMAIN waiting /\ waiting' = Put(others, k, task)
    BY <1>1, <2>1 DEF Wired, Parked
  <2>4. /\ DOMAIN waiting' = DOMAIN others \cup {k} /\ waiting'[k] = task
        /\ \A d \in DOMAIN others : d # k /\ d \in DOMAIN waiting /\ waiting'[d] = waiting[d]
    BY <2>3 DEF Put, Part
  <2>5. Wired'
    BY <1>1, <2>1, <2>2, ParksWired
  <2>6. Looping'
    <3>1. /\ {task.tab} \cup ToSet(task.rest) \subseteq task.all
          /\ IsInjective(task.rest) /\ task.tab \notin ToSet(task.rest)
      BY <2>1, <2>2
    <3> QED
      BY <1>1, <2>3, <3>1, PutLooping
  <2>7. \A t : WaitsFrom(t)
    BY <2>2, <2>4 DEF WaitsFrom, Waits, IsTask
  <2>8. IsTask(k, "tabs")' /\ k \in DOMAIN waiting'
    BY <2>2, <2>4 DEF IsTask
  <2>9. ASSUME NEW t \in Tabs \ reopened' PROVE TabOK(t)'
    <3>1. TabOK(t) /\ t \in Tabs \ reopened
      BY <2>9 DEF IInv
    <3>2. ASSUME t \in all
          PROVE  /\ t \in told' /\ t \notin open' /\ t \notin lastAlive'
                 /\ t \in waiting'[k].all
                 /\ \A d \in DOMAIN waiting' : IsTask(d, "tabs")' /\ t \in waiting'[d].all => d = k
                 /\ Ahead(k, t)' <=> t = u \/ t \in ToSet(more)
      <4>1. \A d \in DOMAIN waiting' : IsTask(d, "tabs")' /\ t \in waiting'[d].all => d = k
        BY <2>4, <3>1, <3>2 DEF IsTask
      <4>2. Ahead(k, t)' <=> t = u \/ t \in ToSet(more)
        BY <2>2, <2>4 DEF Ahead
      <4> QED
        BY <2>2, <2>4, <3>1, <3>2, <4>1, <4>2
    <3>3. CASE t = u
      <4>1. t \in all /\ t \in tabs /\ es[t] = epochs[t]
        BY <2>1, <3>3
      <4>2. epochs'[t] = epochs[t] + 1 /\ conns'[t] = NoConn /\ pending'[t] = <<>>
        BY <1>1, <2>1, <3>3, <4>1 DEF TypeOK
      <4>3. ~Gone(t) /\ Ahead(k, t)' /\ batches'[t] = batches[t] /\ phase' = phase
        BY <3>1, <3>2, <3>3, <4>1
      <4> QED
        BY <1>1, <2>6, <2>7, <2>8, <3>1, <3>2, <4>1, <4>2, <4>3, HaltedTab
    <3>4. CASE t \in ToSet(more)
      <4>1. t # u /\ t \in all /\ t \in tabs /\ es[t] = epochs[t]
        BY <2>1, <3>4
      <4>2. epochs'[t] = epochs[t] /\ conns'[t] = conns[t] /\ pending'[t] = pending[t]
        BY <1>1, <2>1, <3>4, <4>1 DEF TypeOK
      <4>3. /\ ~Gone(t) /\ Ahead(k, t)' /\ batches'[t] = batches[t] /\ phase' = phase
            /\ waiting'[k].tab # t
        BY <2>2, <2>4, <3>1, <3>2, <3>4, <4>1
      <4> QED
        BY <1>1, <2>6, <2>7, <2>8, <3>1, <3>2, <4>1, <4>2, <4>3, AheadTab
    <3>5. CASE t \in all \ ({u} \cup ToSet(more))
      <4>1. epochs'[t] = 0 /\ conns[t] = NoConn
        BY <2>1, <3>1, <3>5
      <4>2. conns'[t] = NoConn /\ pending'[t] = pending[t]
        BY <1>1, <2>1, <3>5, <4>1 DEF TypeOK
      <4>3. \A d \in DOMAIN waiting' : IsTask(d, "tabs")' /\ t \in waiting'[d].all =>
              d = k /\ ~Ahead(d, t)'
        BY <3>2, <3>5
      <4>4. \E d \in DOMAIN waiting' : IsTask(d, "tabs")' /\ t \in waiting'[d].all
        BY <2>8, <3>2, <3>5
      <4> QED
        BY <1>1, <2>6, <2>7, <3>1, <3>2, <3>5, <4>1, <4>2, <4>3, <4>4, PassedTab
    <3>6. CASE t \notin all
      <4>1. t # u /\ t \notin tabs /\ es[t] = epochs[t] /\ (t \in told' <=> t \in told)
        BY <2>1, <3>1, <3>6
      <4>2. epochs'[t] = epochs[t] /\ conns'[t] = conns[t] /\ pending'[t] = pending[t]
        BY <1>1, <2>1, <4>1 DEF TypeOK
      <4>3. LoopsFrom(t) /\ LoopsStay(t)
        BY <2>2, <2>4, <3>6 DEF LoopsFrom, LoopsStay, IsTask
      <4>4. t \in told' => t \notin open' /\ t \notin lastAlive'
        BY <3>1
      <4> QED
        BY <1>1, <2>1, <2>6, <2>7, <3>1, <4>1, <4>2, <4>3, <4>4, CalmTab
    <3> QED
      BY <3>3, <3>4, <3>5, <3>6
  <2>10. ASSUME reopened' = {} PROVE AllAccountedFor'
    <3>1. AllAccountedFor
      BY <2>10 DEF IInv
    <3>2. \A c \in DOMAIN waiting \ DOMAIN others : c \in released' /\ ~IsTask(c, "quit")
      BY DEF IsTask
    <3>3. ASSUME NEW d \in 1..opened, Accounted(d) PROVE Accounted(d)'
      <4>1. d # NoConn
        BY DEF NoConn
      <4> QED
        BY <1>1, <2>1, <3>2, <3>3, <4>1, ParkedAccounted
    <3> QED
      BY <1>1, <3>1, <3>3, StaysAccounted
  <2> QED
    BY <2>5, <2>6, <2>9, <2>10 DEF IInv
<1> QED
  BY <1>2, <1>3

\* Closing tabs starts the loop over those that are noticed, if there are any.
LEMMA CloseTabsLoops ==
  ASSUME IInv, NEW ts \in SUBSET Tabs, CloseTabs(ts)
  PROVE  \/ /\ UNCHANGED <<epochs, conns, pending, sessions, waiting, told>>
            /\ \A t \in Tabs \ reopened : t \in told' => t \notin open' /\ t \notin lastAlive'
         \/ \E all, tabs, es, others : LoopStep(all, tabs, es, others)
<1>1. TypeOK /\ TypeOK' /\ WaitingOK
  BY CloseTabsTyped, TypeParts DEF IInv
<1> PICK noticed : noticed = lastAlive \ open'
  OBVIOUS
<1>2. /\ open' \subseteq open /\ lastAlive' = open' /\ told' = told \cup noticed
      /\ UNCHANGED <<reopened, batches, opened, ended, released, phase>>
  BY DEF CloseTabs, wireVars
<1>3. PICK rest \in SetToSeqs(noticed) :
        IF rest = <<>>
        THEN UNCHANGED <<epochs, conns, pending, sessions, waiting>>
        ELSE CloseRest(noticed, rest, epochs, waiting)
  BY DEF CloseTabs
<1>4. noticed \in SUBSET Tabs /\ IsFiniteSet(noticed)
  BY <1>1, RealtimeAssumption, FS_Subset DEF TypeOK
<1>5. rest \in Seq(Tabs) /\ IsInjective(rest) /\ ToSet(rest) = noticed
  <2>1. rest \in Seq(noticed) /\ IsInjective(rest) /\ ToSet(rest) = noticed
    BY <1>4, SequencesOfSet
  <2> QED
    BY <1>4, <2>1, SeqMonotonic
<1>6. \A t \in Tabs \ reopened : Reported(t)
  BY DEF IInv, TabOK
<1>7. \A t \in Tabs \ reopened : t \in told' => t \notin open' /\ t \notin lastAlive'
  BY <1>2, <1>6 DEF Reported
<1>8. CASE rest = <<>>
  <2>1. noticed = {}
    BY <1>5, <1>8 DEF ToSet
  <2>2. told' = told /\ UNCHANGED <<epochs, conns, pending, sessions, waiting>>
    BY <1>2, <1>3, <1>8, <2>1
  <2> QED
    BY <1>7, <2>2
<1>9. CASE rest # <<>>
  <2>1. \/ Finishes(noticed, noticed, epochs, waiting)
        \/ \E u \in Tabs, more \in Seq(Tabs) : Stops(noticed, noticed, epochs, waiting, u, more)
    <3> PICK es, others : es = epochs /\ others = waiting
      OBVIOUS
    <3>1. CloseRest(noticed, rest, es, others) /\ es \in [Tabs -> Nat]
      BY <1>1, <1>3, <1>9, TypeParts
    <3>2. rest \in Seq(Tabs) /\ IsInjective(rest)
      BY <1>5
    <3>3. \/ Finishes(noticed, ToSet(rest), es, others)
          \/ \E u \in Tabs, more \in Seq(Tabs) : Stops(noticed, ToSet(rest), es, others, u, more)
      BY <3>1, <3>2, LoopForms
    <3> QED
      BY <1>5, <3>3
  <2>2. ASSUME NEW t \in noticed \ reopened
        PROVE  /\ \A d \in DOMAIN waiting : IsTask(d, "tabs") => t \notin waiting[d].all
               /\ ~Gone(t)
    <3>1. t \in lastAlive /\ Reported(t)
      BY <1>4, <1>6, <2>2
    <3>2. t \notin told
      BY <3>1 DEF Reported
    <3> QED
      BY <3>1, <3>2 DEF Reported, Gone
  <2>3. \A t \in Tabs \ reopened : t \in told' <=> t \in told \cup noticed
    BY <1>2
  <2>4. epochs \in [Tabs -> Nat] /\ Part(waiting) /\ noticed \in SUBSET noticed
    BY <1>1, TypeParts, Parts
  <2> PICK es : es = epochs
    OBVIOUS
  <2> PICK others : others = waiting
    OBVIOUS
  <2>5. /\ es \in [Tabs -> Nat] /\ Part(others)
        /\ \/ Finishes(noticed, noticed, es, others)
           \/ \E u \in Tabs, more \in Seq(Tabs) : Stops(noticed, noticed, es, others, u, more)
    BY <2>1, <2>4
  <2>6. /\ \A t \in Tabs \ (noticed \ noticed) : es[t] = epochs[t]
        /\ \A c \in DOMAIN waiting \ DOMAIN others :
             c \in released' /\ IsTask(c, "tabs") /\ waiting[c].all = noticed
        /\ \A t \in noticed \ reopened :
             /\ \A d \in DOMAIN others : IsTask(d, "tabs") => t \notin waiting[d].all
             /\ t \in noticed => ~Gone(t)
             /\ t \notin noticed => es[t] = 0 /\ conns[t] = NoConn
    BY <2>2
  <2>7. UNCHANGED <<reopened, batches, opened, ended, phase>> /\ released \subseteq released'
    BY <1>2
  <2>8. LoopStep(noticed, noticed, es, others)
    BY <1>4, <1>7, <2>3, <2>4, <2>5, <2>6, <2>7 DEF LoopStep
  <2> QED
    BY <2>8
<1> QED
  BY <1>8, <1>9

\* So it preserves the invariant.
LEMMA CloseTabsKeeps ==
  ASSUME IInv, NEW ts \in SUBSET Tabs, CloseTabs(ts)
  PROVE  IInv'
<1>1. TypeOK'
  BY CloseTabsTyped DEF IInv
<1>2. UNCHANGED <<reopened, batches, opened, ended, released, phase>>
  BY DEF CloseTabs, wireVars
<1>3. CASE /\ UNCHANGED <<epochs, conns, pending, sessions, waiting, told>>
           /\ \A t \in Tabs \ reopened : t \in told' => t \notin open' /\ t \notin lastAlive'
  <2>1. \A t \in Tabs \ reopened : TabOK(t)'
    BY <1>2, <1>3, OtherTabs
  <2> QED
    BY <1>1, <1>2, <1>3, <2>1, TurnFrame
<1>4. CASE \E all, tabs, es, others : LoopStep(all, tabs, es, others)
  BY <1>1, <1>4, LoopKeeps
<1> QED
  BY <1>3, <1>4, CloseTabsLoops

\* The loop goes on with the next closed tab,
LEMMA ResumeTabsClosedLoops ==
  ASSUME IInv, NEW c \in Conns, ResumeTabsClosed(c)
  PROVE  \E all, tabs, es, others : LoopStep(all, tabs, es, others)
<1>1. TypeOK /\ WaitingOK /\ Looping
  BY TypeParts DEF IInv
<1>2. /\ c \in DOMAIN waiting /\ IsTask(c, "tabs") /\ released' = released \cup {c}
      /\ UNCHANGED <<open, lastAlive, told, reopened, batches, opened, ended, phase>>
  BY DEF ResumeTabsClosed, Closed, tabsVars, IsTask
<1> PICK task : task = waiting[c]
  OBVIOUS
<1> PICK all, tab, rest : all = task.all /\ tab = task.tab /\ rest = task.rest
  OBVIOUS
<1>3. all \in SUBSET Tabs /\ tab \in Tabs /\ rest \in Seq(Tabs)
  BY <1>1, <1>2, TaskFields
<1> PICK tabs : tabs = ToSet(rest)
  OBVIOUS
<1>4. IsInjective(rest) /\ tab \notin tabs /\ {tab} \cup tabs \subseteq all
  BY <1>1, <1>2 DEF Looping
<1> PICK es : es = [epochs EXCEPT ![tab] = 0]
  OBVIOUS
<1> PICK others : others = Others(c)
  OBVIOUS
<1>5. /\ es \in [Tabs -> Nat] /\ es[tab] = 0
      /\ \A t \in Tabs \ {tab} : es[t] = epochs[t]
  BY <1>1, <1>3, TypeParts
<1>6. CloseRest(all, rest, es, others)
  BY DEF ResumeTabsClosed
<1>7. \/ Finishes(all, tabs, es, others)
      \/ \E u \in Tabs, more \in Seq(Tabs) : Stops(all, tabs, es, others, u, more)
  BY <1>3, <1>4, <1>5, <1>6, LoopForms
<1>8. Part(others) /\ DOMAIN others = DOMAIN waiting \ {c}
  BY Parts, OthersKept
<1>9. ASSUME NEW t \in all \ reopened
      PROVE  /\ t \in told
             /\ \A d \in DOMAIN others : IsTask(d, "tabs") => t \notin waiting[d].all
             /\ t \in tabs => ~Gone(t)
             /\ t \notin tabs => es[t] = 0 /\ conns[t] = NoConn
  <2>1. Reported(t) /\ Owned(t) /\ t \in Tabs
    BY <1>3, <1>9 DEF IInv, TabOK
  <2>2. /\ Ahead(c, t) \/ (epochs[t] = 0 /\ conns[t] = NoConn)
        /\ \A d \in DOMAIN waiting : IsTask(d, "tabs") /\ t \in waiting[d].all => d = c
    BY <1>2, <1>9, <2>1 DEF Reported
  <2>3. t \in told
    BY <1>2, <1>9, <2>1 DEF Reported
  <2>4. Ahead(c, t) <=> t = tab \/ t \in tabs
    BY DEF Ahead
  <2>5. t \in tabs => ~Gone(t)
    BY <1>2, <2>4 DEF Gone
  <2>6. t = tab => es[t] = 0 /\ conns[t] = NoConn
    BY <1>2, <1>5, <2>1 DEF Owned
  <2> QED
    BY <1>5, <1>8, <2>1, <2>2, <2>3, <2>4, <2>5, <2>6
<1>10. \A t \in Tabs \ (all \ tabs) : es[t] = epochs[t]
  BY <1>4, <1>5
<1>11. \A t \in Tabs \ reopened : t \in told' <=> t \in told \cup all
  BY <1>2, <1>9
<1>12. \A t \in Tabs \ reopened : t \in told' => t \notin open' /\ t \notin lastAlive'
  BY <1>2 DEF IInv, TabOK, Reported
<1>13. \A d \in DOMAIN waiting \ DOMAIN others :
         d \in released' /\ IsTask(d, "tabs") /\ waiting[d].all = all
  BY <1>2, <1>8
<1>14. tabs \in SUBSET all /\ released \subseteq released'
  BY <1>2, <1>4
<1>15. UNCHANGED <<reopened, batches, opened, ended, phase>>
  BY <1>2
<1>16. LoopStep(all, tabs, es, others)
  BY <1>3, <1>5, <1>7, <1>8, <1>9, <1>10, <1>11, <1>12, <1>13, <1>14, <1>15 DEF LoopStep
<1> QED
  BY <1>16

\* which preserves the invariant.
LEMMA ResumeTabsClosedKeeps ==
  ASSUME IInv, NEW c \in Conns, ResumeTabsClosed(c)
  PROVE  IInv'
<1>1. TypeOK'
  BY SocketTyped DEF IInv, SocketClosed
<1> QED
  BY <1>1, ResumeTabsClosedLoops, LoopKeeps

-----------------------------------------------------------------------------
(* Sequences: the pieces of a flattened sequence follow each other. *)

\* Induction over the numbers, for what a set comprehends.
LEMMA SetInduction ==
  ASSUME NEW S, 0 \in S, \A n \in Nat : n \in S => n + 1 \in S
  PROVE  Nat \subseteq S
<1> DEFINE T == Nat \ S
<1> SUFFICES ASSUME T # {} PROVE FALSE
  OBVIOUS
<1>1. PICK x \in T : \A y \in T : x <= y
  BY LeastNumber
<1>2. x # 0 /\ x - 1 \in Nat /\ ~(x <= x - 1) /\ (x - 1) + 1 = x
  OBVIOUS
<1>3. x - 1 \in S
  BY <1>1, <1>2
<1> QED
  BY <1>2, <1>3

\* F joins the first n of the sequences ss, one more at each place.
Joins(F, ss, n) ==
  F = [i \in 1..n |-> IF i = 1 THEN ss[i] ELSE F[i - 1] \o ss[i]]

\* There is such a function, and what it joins are sequences.
LEMMA JoinsExist ==
  ASSUME NEW X, NEW ss \in Seq(Seq(X)), NEW n \in 0..Len(ss)
  PROVE  \E F : F \in [1..n -> Seq(X)] /\ Joins(F, ss, n)
<1>1. Len(ss) \in Nat /\ \A i \in 1..Len(ss) : ss[i] \in Seq(X)
  BY LenProperties, ElementOfSeq
<1> DEFINE S == {m \in Nat : m <= Len(ss) => \E F : F \in [1..m -> Seq(X)] /\ Joins(F, ss, m)}
<1>2. 0 \in S
  <2>1. 1..0 = {}
    OBVIOUS
  <2>2. [i \in {} |-> <<>>] \in [1..0 -> Seq(X)]
    BY <2>1
  <2>3. Joins([i \in {} |-> <<>>], ss, 0)
    BY <2>1 DEF Joins
  <2> QED
    BY <2>2, <2>3
<1>3. ASSUME NEW m \in Nat, m \in S PROVE m + 1 \in S
  <2> SUFFICES ASSUME m + 1 <= Len(ss)
               PROVE  \E F : F \in [1..(m + 1) -> Seq(X)] /\ Joins(F, ss, m + 1)
    OBVIOUS
  <2>1. PICK F : F \in [1..m -> Seq(X)] /\ Joins(F, ss, m)
    BY <1>1, <1>3
  <2>2. ss[m + 1] \in Seq(X)
    BY <1>1
  <2> DEFINE last == IF m = 0 THEN ss[m + 1] ELSE F[m] \o ss[m + 1]
             G == [i \in 1..(m + 1) |-> IF i = m + 1 THEN last ELSE F[i]]
  <2>3. last \in Seq(X)
    <3>1. CASE m = 0
      BY <2>2, <3>1
    <3>2. CASE m # 0
      <4>1. F[m] \in Seq(X)
        BY <2>1, <3>2
      <4> QED
        BY <2>2, <3>2, <4>1, ConcatProperties
    <3> QED
      BY <3>1, <3>2
  <2> HIDE DEF last
  <2>4. G \in [1..(m + 1) -> Seq(X)]
    BY <2>1, <2>3
  <2>5. ASSUME NEW i \in 1..(m + 1)
        PROVE  G[i] = IF i = 1 THEN ss[i] ELSE G[i - 1] \o ss[i]
    <3>1. CASE i = m + 1
      BY <3>1 DEF last
    <3>2. CASE i # m + 1
      <4>1. i \in 1..m /\ G[i] = F[i]
        BY <3>2
      <4>2. F[i] = IF i = 1 THEN ss[i] ELSE F[i - 1] \o ss[i]
        BY <2>1, <4>1 DEF Joins
      <4>3. i # 1 => i - 1 \in 1..(m + 1) /\ i - 1 # m + 1
        BY <3>2
      <4> QED
        BY <4>1, <4>2, <4>3
    <3> QED
      BY <3>1, <3>2
  <2>6. Joins(G, ss, m + 1)
    BY <2>5 DEF Joins
  <2> QED
    BY <2>4, <2>6
<1> HIDE DEF S
<1>4. Nat \subseteq S
  BY <1>2, <1>3, SetInduction
<1>5. n \in Nat /\ n <= Len(ss)
  BY <1>1
<1> QED
  BY <1>4, <1>5 DEF S

\* What such a function holds at each place.
LEMMA JoinsAt ==
  ASSUME NEW F, NEW ss, NEW n \in Nat, Joins(F, ss, n)
  PROVE  \A i \in 1..n : F[i] = IF i = 1 THEN ss[i] ELSE F[i - 1] \o ss[i]
BY DEF Joins

\* The first k places of two sequences, or of two such functions, are alike.
Alike(F, G, k) == \A i \in 1..k : F[i] = G[i]

\* F joins the sequences of ss as far as place k.
Steps(F, ss, k) == \A i \in 1..k : F[i] = IF i = 1 THEN ss[i] ELSE F[i - 1] \o ss[i]

\* Two of them agree as far as what they join does.
LEMMA JoinsAgree ==
  ASSUME NEW F, NEW G, NEW ss, NEW tt, NEW k, k \in Nat,
         Steps(F, ss, k), Steps(G, tt, k), Alike(ss, tt, k)
  PROVE  Alike(F, G, k)
<1> DEFINE S == {i \in Nat : i \in 1..k => F[i] = G[i]}
<1>1. 0 \in S
  OBVIOUS
<1>2. ASSUME NEW i \in Nat, i \in S PROVE i + 1 \in S
  <2> SUFFICES ASSUME i + 1 \in 1..k PROVE F[i + 1] = G[i + 1]
    OBVIOUS
  <2>1. ss[i + 1] = tt[i + 1]
    BY DEF Alike
  <2>2. /\ F[i + 1] = IF i + 1 = 1 THEN ss[i + 1] ELSE F[i + 1 - 1] \o ss[i + 1]
        /\ G[i + 1] = IF i + 1 = 1 THEN tt[i + 1] ELSE G[i + 1 - 1] \o tt[i + 1]
    BY DEF Steps
  <2>3. i + 1 # 1 => F[i + 1 - 1] = G[i + 1 - 1]
    BY <1>2
  <2> QED
    BY <2>1, <2>2, <2>3
<1> HIDE DEF S
<1>3. Nat \subseteq S
  BY <1>1, <1>2, SetInduction
<1> QED
  BY <1>3 DEF S, Alike

\* What is joined from the second sequence on, and put behind the first.
Shifted(tt, ss, k) == \A i \in 1..k : tt[i] = ss[i + 1]

\* How the joins of the two are linked at place i.
Linked(F, G, ss, tt, i) ==
  /\ F[1] = ss[1] /\ G[1] = tt[1] /\ tt[i + 1] = ss[i + 2]
  /\ F[i + 2] = F[i + 1] \o ss[i + 2]
  /\ i # 0 => G[i + 1] = G[i] \o tt[i + 1]

\* They are linked so at every place.
LEMMA BehindAt ==
  ASSUME NEW F, NEW G, NEW ss, NEW tt, NEW k, NEW m, NEW i,
         k \in Nat, m = k + 1, i \in Nat, i < k,
         Steps(F, ss, m), Steps(G, tt, k), Shifted(tt, ss, k)
  PROVE  Linked(F, G, ss, tt, i)
<1>1. /\ 1 \in 1..k /\ i + 1 \in 1..k /\ 1 \in 1..m /\ i + 2 \in 1..m
      /\ i + 2 # 1 /\ (i + 2) - 1 = i + 1 /\ (i + 1) - 1 = i /\ (i + 1) + 1 = i + 2
      /\ (i # 0 => i + 1 # 1)
  OBVIOUS
<1>2. \A j \in 1..m : F[j] = IF j = 1 THEN ss[j] ELSE F[j - 1] \o ss[j]
  BY DEF Steps
<1>3. \A j \in 1..k : G[j] = IF j = 1 THEN tt[j] ELSE G[j - 1] \o tt[j]
  BY DEF Steps
<1>4. \A j \in 1..k : tt[j] = ss[j + 1]
  BY DEF Shifted
<1>5. F[1] = ss[1]
  BY <1>1, <1>2
<1>6. G[1] = tt[1]
  BY <1>1, <1>3
<1>7. tt[i + 1] = ss[i + 2]
  BY <1>1, <1>4
<1>8. F[i + 2] = F[i + 1] \o ss[i + 2]
  BY <1>1, <1>2
<1>9. ASSUME i # 0 PROVE G[i + 1] = G[i] \o tt[i + 1]
  BY <1>1, <1>3, <1>9
<1> QED
  BY <1>5, <1>6, <1>7, <1>8, <1>9 DEF Linked

\* The one is the other, behind the first piece.
After(F, ss, G, i) == F[i + 1] = ss[1] \o G[i]

\* What is joined there are sequences.
Pieces(X, ss, G, tt, i) == ss[1] \in Seq(X) /\ G[i] \in Seq(X) /\ tt[i + 1] \in Seq(X)

\* It is so at the first place,
LEMMA LinkedFirst ==
  ASSUME NEW F, NEW G, NEW ss, NEW tt, Linked(F, G, ss, tt, 0)
  PROVE  After(F, ss, G, 1)
<1>1. 0 + 2 = 2 /\ 0 + 1 = 1 /\ 1 + 1 = 2
  OBVIOUS
<1>2. F[1] = ss[1] /\ G[1] = tt[1] /\ tt[1] = ss[2] /\ F[2] = F[1] \o ss[2]
  BY <1>1 DEF Linked
<1>3. F[2] = ss[1] \o G[1]
  BY <1>2
<1> QED
  BY <1>1, <1>3 DEF After

\* goes on from each to the next,
LEMMA LinkedNext ==
  ASSUME NEW X, NEW F, NEW G, NEW ss, NEW tt, NEW i, i \in Nat, i # 0,
         Linked(F, G, ss, tt, i), After(F, ss, G, i), Pieces(X, ss, G, tt, i)
  PROVE  After(F, ss, G, i + 1)
<1>1. F[i + 2] = F[i + 1] \o ss[i + 2] /\ tt[i + 1] = ss[i + 2]
  BY DEF Linked
<1>2. G[i + 1] = G[i] \o tt[i + 1]
  BY DEF Linked
<1>3. PICK a : a = ss[1]
  OBVIOUS
<1>4. PICK b : b = G[i]
  OBVIOUS
<1>5. PICK c : c = tt[i + 1]
  OBVIOUS
<1>6. a \in Seq(X) /\ b \in Seq(X) /\ c \in Seq(X)
  BY <1>3, <1>4, <1>5 DEF Pieces
<1>7. (a \o b) \o c = a \o (b \o c)
  BY <1>6, ConcatAssociative
<1>8. F[i + 1] = a \o b
  BY <1>3, <1>4 DEF After
<1>9. F[i + 2] = F[i + 1] \o c
  BY <1>1, <1>5
<1>10. G[i + 1] = b \o c
  BY <1>2, <1>4, <1>5
<1>11. F[i + 2] = a \o G[i + 1]
  BY <1>7, <1>8, <1>9, <1>10, Zenon
<1>12. (i + 1) + 1 = i + 2
  OBVIOUS
<1> QED
  BY <1>3, <1>11, <1>12, Zenon DEF After

\* and so holds at all.
LEMMA JoinsBehind ==
  ASSUME NEW X, NEW F, NEW G, NEW ss, NEW tt, NEW k, NEW m,
         k \in Nat, m = k + 1, Steps(F, ss, m), Steps(G, tt, k), Shifted(tt, ss, k),
         ss[1] \in Seq(X), \A i \in 1..k : tt[i] \in Seq(X) /\ G[i] \in Seq(X)
  PROVE  \A i \in 1..k : After(F, ss, G, i)
<1>0. ASSUME NEW i, i \in Nat, i < k PROVE Linked(F, G, ss, tt, i)
  BY <1>0, BehindAt
<1> DEFINE S == {i \in Nat : i \in 1..k => After(F, ss, G, i)}
<1>1. 0 \in S
  OBVIOUS
<1>2. ASSUME NEW i, i \in Nat, i < k, i \in S PROVE After(F, ss, G, i + 1)
  <2>1. Linked(F, G, ss, tt, i)
    BY <1>0, <1>2
  <2>2. CASE i = 0
    <3>1. After(F, ss, G, 1)
      BY <2>1, <2>2, LinkedFirst
    <3> QED
      BY <2>2, <3>1
  <2>3. CASE i # 0
    <3>1. i \in 1..k /\ i + 1 \in 1..k
      BY <1>2, <2>3
    <3>2. Pieces(X, ss, G, tt, i) /\ After(F, ss, G, i)
      BY <1>2, <3>1 DEF Pieces
    <3> QED
      BY <1>2, <2>1, <2>3, <3>2, LinkedNext
  <2> QED
    BY <2>2, <2>3
<1>3. ASSUME NEW i \in Nat, i \in S PROVE i + 1 \in S
  <2>1. i + 1 \in 1..k => i < k
    OBVIOUS
  <2>2. i + 1 \in 1..k => After(F, ss, G, i + 1)
    <3> HIDE DEF S
    <3> QED
      BY <1>2, <1>3, <2>1
  <2>3. i + 1 \in Nat
    OBVIOUS
  <2> QED
    BY <2>2, <2>3, Zenon
<1> HIDE DEF S
<1>4. Nat \subseteq S
  BY <1>1, <1>3, SetInduction
<1>5. \A i \in 1..k : i \in S
  BY <1>4
<1> QED
  BY <1>5 DEF S

\* FlattenSeq joins all of them.
LEMMA Flattened ==
  ASSUME NEW X, NEW ss \in Seq(Seq(X)), ss # <<>>
  PROVE  /\ Len(ss) \in Nat \ {0}
         /\ \E F : F \in [1..Len(ss) -> Seq(X)] /\
              Joins(F, ss, Len(ss)) /\ FlattenSeq(ss) = F[Len(ss)]
<1>1. Len(ss) \in Nat \ {0}
  BY EmptySeq
<1> DEFINE F == CHOOSE f :
             f = [i \in 1..Len(ss) |-> IF i = 1 THEN ss[i] ELSE f[i - 1] \o ss[i]]
<1>2. FlattenSeq(ss) = F[Len(ss)]
  BY <1>1 DEF FlattenSeq
<1>3. \E G : G \in [1..Len(ss) -> Seq(X)] /\ Joins(G, ss, Len(ss))
  <2>1. Len(ss) \in 0..Len(ss)
    BY <1>1
  <2> QED
    BY <2>1, JoinsExist
<1>4. Joins(F, ss, Len(ss))
  BY <1>3 DEF Joins
<1> HIDE DEF F
<1>5. PICK G : G \in [1..Len(ss) -> Seq(X)] /\ Joins(G, ss, Len(ss))
  BY <1>3
<1>6. \A i \in 1..Len(ss) : F[i] = G[i]
  <2>1. Steps(F, ss, Len(ss)) /\ Steps(G, ss, Len(ss))
    BY <1>4, <1>5 DEF Steps, Joins
  <2>2. Alike(ss, ss, Len(ss)) /\ Len(ss) \in Nat
    BY <1>1 DEF Alike
  <2>3. Alike(F, G, Len(ss))
    BY <2>1, <2>2, JoinsAgree
  <2> QED
    BY <2>3 DEF Alike
<1>7. F \in [1..Len(ss) -> Seq(X)]
  <2>1. F = [i \in 1..Len(ss) |-> IF i = 1 THEN ss[i] ELSE F[i - 1] \o ss[i]]
    BY <1>4 DEF Joins
  <2>2. DOMAIN F = 1..Len(ss)
    BY <2>1
  <2>3. \A i \in 1..Len(ss) : F[i] \in Seq(X)
    BY <1>5, <1>6
  <2>4. F = [i \in 1..Len(ss) |-> F[i]]
    BY <2>1, <2>2
  <2> QED
    BY <2>3, <2>4
<1> QED
  BY <1>1, <1>2, <1>4, <1>7

\* Nothing is what nothing is joined to,
LEMMA FlattenNone == FlattenSeq(<<>>) = <<>>
BY DEF FlattenSeq

\* and what is joined are sequences.
LEMMA FlattenTyped ==
  ASSUME NEW X, NEW ss \in Seq(Seq(X))
  PROVE  FlattenSeq(ss) \in Seq(X)
<1>1. CASE ss = <<>>
  BY <1>1, FlattenNone, EmptySeq
<1>2. CASE ss # <<>>
  <2>1. PICK F : F \in [1..Len(ss) -> Seq(X)] /\ FlattenSeq(ss) = F[Len(ss)]
    BY <1>2, Flattened
  <2>2. Len(ss) \in 1..Len(ss)
    BY <1>2, Flattened
  <2> QED
    BY <2>1, <2>2
<1> QED
  BY <1>1, <1>2

\* One more sequence comes behind the others.
LEMMA FlattenAppend ==
  ASSUME NEW X, NEW ss \in Seq(Seq(X)), NEW s \in Seq(X)
  PROVE  FlattenSeq(Append(ss, s)) = FlattenSeq(ss) \o s
<1> DEFINE tt == Append(ss, s)
<1>1. /\ tt \in Seq(Seq(X)) /\ tt # <<>> /\ Len(tt) = Len(ss) + 1
      /\ \A i \in 1..Len(ss) : tt[i] = ss[i]
      /\ tt[Len(ss) + 1] = s
  BY AppendProperties
<1>2. Len(ss) \in Nat
  BY LenProperties
<1> HIDE DEF tt
<1>3. PICK G : G \in [1..Len(tt) -> Seq(X)] /\
        Joins(G, tt, Len(tt)) /\ FlattenSeq(tt) = G[Len(tt)]
  BY <1>1, Flattened
<1>4. G[Len(tt)] = IF Len(tt) = 1 THEN s ELSE G[Len(tt) - 1] \o s
  <2>1. Len(tt) \in 1..Len(tt) /\ Len(tt) \in Nat
    BY <1>1, <1>2
  <2>2. \A i \in 1..Len(tt) : G[i] = IF i = 1 THEN tt[i] ELSE G[i - 1] \o tt[i]
    BY <1>3, <2>1, JoinsAt
  <2> QED
    BY <1>1, <2>1, <2>2
<1>5. CASE ss = <<>>
  <2>1. Len(ss) = 0
    BY <1>5
  <2> QED
    BY <1>1, <1>3, <1>4, <1>5, <2>1, FlattenNone, ConcatEmptySeq DEF tt
<1>6. CASE ss # <<>>
  <2>1. PICK F : F \in [1..Len(ss) -> Seq(X)] /\
          Joins(F, ss, Len(ss)) /\ FlattenSeq(ss) = F[Len(ss)]
    BY <1>6, Flattened
  <2>2. Len(ss) \in Nat \ {0}
    BY <1>6, Flattened
  <2>3. Len(tt) \in Nat /\ Len(ss) <= Len(tt) /\ Len(ss) <= Len(ss)
    BY <1>1, <2>2
  <2>4. \A i \in 1..Len(ss) : F[i] = G[i]
    <3>1. Steps(F, ss, Len(ss)) /\ Alike(ss, tt, Len(ss))
      BY <1>1, <2>1 DEF Steps, Joins, Alike
    <3>2. Steps(G, tt, Len(ss))
      <4>1. Steps(G, tt, Len(tt))
        BY <1>3 DEF Steps, Joins
      <4> QED
        BY <1>1, <1>2, <4>1 DEF Steps
    <3>3. Alike(F, G, Len(ss))
      BY <1>2, <3>1, <3>2, JoinsAgree
    <3> QED
      BY <3>3 DEF Alike
  <2>5. Len(tt) # 1 /\ Len(tt) - 1 = Len(ss) /\ Len(ss) \in 1..Len(ss)
    BY <1>1, <2>2
  <2> QED
    BY <1>3, <1>4, <2>1, <2>4, <2>5 DEF tt
<1> QED
  BY <1>5, <1>6

\* The first sequence comes before the others.
LEMMA FlattenHead ==
  ASSUME NEW X, NEW ss \in Seq(Seq(X)), ss # <<>>
  PROVE  FlattenSeq(ss) = Head(ss) \o FlattenSeq(Tail(ss))
<1> DEFINE tt == Tail(ss)
<1>1. /\ tt \in Seq(Seq(X)) /\ Len(tt) = Len(ss) - 1
      /\ \A i \in 1..Len(tt) : tt[i] = ss[i + 1]
  BY HeadTailProperties
<1>2. Len(ss) \in Nat \ {0}
  BY Flattened
<1>3. Head(ss) = ss[1] /\ ss[1] \in Seq(X)
  <2>1. 1 \in 1..Len(ss)
    BY <1>2
  <2> QED
    BY <2>1, ElementOfSeq
<1> HIDE DEF tt
<1>4. PICK F : F \in [1..Len(ss) -> Seq(X)] /\
        Joins(F, ss, Len(ss)) /\ FlattenSeq(ss) = F[Len(ss)]
  BY Flattened
<1>5. CASE tt = <<>>
  <2>1. Len(ss) = 1
    BY <1>1, <1>2, <1>5
  <2>2. F[1] = ss[1]
    BY <1>4, <2>1, JoinsAt
  <2> QED
    BY <1>3, <1>4, <1>5, <2>1, <2>2, FlattenNone, ConcatEmptySeq DEF tt
<1>6. CASE tt # <<>>
  <2>1. PICK G : G \in [1..Len(tt) -> Seq(X)] /\
          Joins(G, tt, Len(tt)) /\ FlattenSeq(tt) = G[Len(tt)]
    BY <1>1, <1>6, Flattened
  <2>2. Len(tt) \in Nat \ {0}
    BY <1>1, <1>6, Flattened
  <2>3. Steps(F, ss, Len(ss)) /\ Steps(G, tt, Len(tt))
    BY <1>4, <2>1 DEF Steps, Joins
  <2>4. \A i \in 1..Len(tt) : tt[i] \in Seq(X) /\ G[i] \in Seq(X)
    BY <1>1, <2>1, ElementOfSeq
  <2>5. \A i \in 1..Len(tt) : F[i + 1] = ss[1] \o G[i]
    <3>1. Len(tt) \in Nat /\ Len(ss) = Len(tt) + 1 /\ Shifted(tt, ss, Len(tt))
      BY <1>1, <1>2, <2>2 DEF Shifted
    <3>2. \A i \in 1..Len(tt) : After(F, ss, G, i)
      BY <1>3, <2>3, <2>4, <3>1, JoinsBehind
    <3> QED
      BY <3>2 DEF After
  <2>6. Len(tt) \in 1..Len(tt) /\ Len(tt) + 1 = Len(ss)
    BY <1>1, <1>2, <2>2
  <2>7. F[Len(ss)] = ss[1] \o G[Len(tt)]
    BY <2>5, <2>6
  <2> QED
    BY <1>3, <1>4, <2>1, <2>7 DEF tt
<1> QED
  BY <1>5, <1>6

\* Nothing comes of sequences that are all empty.
LEMMA FlattenEmpty ==
  ASSUME NEW X, NEW ss \in Seq(Seq(X)), \A i \in 1..Len(ss) : ss[i] = <<>>
  PROVE  FlattenSeq(ss) = <<>>
<1>1. CASE ss = <<>>
  BY <1>1, FlattenNone
<1>2. CASE ss # <<>>
  <2>1. Len(ss) \in Nat \ {0}
    BY <1>2, Flattened
  <2>2. PICK F : F \in [1..Len(ss) -> Seq(X)] /\
          Joins(F, ss, Len(ss)) /\ FlattenSeq(ss) = F[Len(ss)]
    BY <1>2, Flattened
  <2> DEFINE S == {i \in Nat : i \in 1..Len(ss) => F[i] = <<>>}
  <2>0. \A i \in 1..Len(ss) : F[i] = IF i = 1 THEN ss[i] ELSE F[i - 1] \o ss[i]
    BY <2>1, <2>2, JoinsAt
  <2>3. 0 \in S
    OBVIOUS
  <2>4. ASSUME NEW i \in Nat, i \in S PROVE i + 1 \in S
    <3> SUFFICES ASSUME i + 1 \in 1..Len(ss) PROVE F[i + 1] = <<>>
      OBVIOUS
    <3>1. F[i + 1] = IF i + 1 = 1 THEN ss[i + 1] ELSE F[i + 1 - 1] \o ss[i + 1]
      BY <2>0
    <3>2. i # 0 => i \in 1..Len(ss) /\ i + 1 - 1 = i
      OBVIOUS
    <3>3. ss[i + 1] = <<>> /\ (i # 0 => F[i + 1 - 1] = <<>>)
      BY <2>4, <3>2
    <3>4. <<>> \o <<>> = <<>>
      BY EmptySeq, ConcatEmptySeq
    <3> QED
      BY <3>1, <3>3, <3>4
  <2> HIDE DEF S
  <2>5. Nat \subseteq S
    BY <2>3, <2>4, SetInduction
  <2>6. Len(ss) \in 1..Len(ss)
    BY <2>1
  <2> QED
    BY <2>1, <2>2, <2>5, <2>6 DEF S
<1> QED
  BY <1>1, <1>2

-----------------------------------------------------------------------------
(* The log of a tab. *)

\* None of the batches of the tab will be taken.
Stale(t) == \A i \in DOMAIN batches[t] : ~Current(t, batches[t][i].epoch)

\* The frames are the last of those a connection has delivered; that earlier ones
\* are missing is due to the cap.
Chained(frames, log, c, count) ==
  /\ Len(frames) <= count /\ (Len(frames) = count \/ Len(log) >= Cap)
  /\ \A i \in 1..Len(frames) :
       frames[i].conn = c /\ frames[i].n = (count - Len(frames)) + i

\* What keeps the log of a tab whole: batches on their way are none from
\* before the last teardown, frames wait for a connection only, a handler whose
\* epoch is current will find no batch that is, and all that has arrived for a
\* connection is what it delivered, but for what the cap cut off.
Logged(t) ==
  /\ \A i \in DOMAIN batches[t] : Kept(t, batches[t][i].epoch)
  /\ pending[t] # <<>> => conns[t] # NoConn
  /\ \A c \in DOMAIN waiting :
       Waits(c) /\ waiting[c].tab = t /\ Current(t, waiting[c].epoch) => Stale(t)
  /\ conns[t] # NoConn =>
       Chained(Arrived(t), SessionFor(t).frames, conns[t], got[conns[t]])

\* That, of every tab that was never reopened, as long as the bloc is open; and
\* once it is closed nobody is left to close it.
LogsInv ==
  /\ phase # "closed" => \A t \in Tabs \ reopened : Logged(t)
  /\ phase = "closed" => \A c \in DOMAIN waiting : ~IsTask(c, "quit")

-----------------------------------------------------------------------------
\* The cap keeps an end of the frames, and all of them if there is room.
LEMMA CappedEnd ==
  ASSUME NEW frames \in Seq(Frame)
  PROVE  /\ Capped(frames) \in Seq(Frame)
         /\ Len(Capped(frames)) = IF Len(frames) <= Cap THEN Len(frames) ELSE Cap
         /\ \A i \in 1..Len(Capped(frames)) :
              Capped(frames)[i] = frames[i + (Len(frames) - Len(Capped(frames)))]
<1>1. Len(frames) \in Nat /\ Cap \in Nat /\ 1 <= Cap
  BY ConnNumbers, LenProperties
<1>2. CASE Len(frames) <= Cap
  <2>1. Capped(frames) = frames
    BY <1>2 DEF Capped
  <2>2. \A i \in 1..Len(frames) : i + (Len(frames) - Len(frames)) = i
    BY <1>1
  <2> QED
    BY <1>2, <2>1, <2>2
<1>3. CASE ~(Len(frames) <= Cap)
  <2>1. Capped(frames) = SubSeq(frames, Len(frames) - Cap + 1, Len(frames))
    BY <1>3 DEF Capped
  <2>2. PICK m, n : m = Len(frames) - Cap + 1 /\ n = Len(frames)
    OBVIOUS
  <2>3. m \in 1..Len(frames) /\ n \in Nat /\ m \in Nat /\ n <= Len(frames) /\ m <= n
    BY <1>1, <1>3, <2>2
  <2>4. /\ SubSeq(frames, m, n) \in Seq(Frame)
        /\ Len(SubSeq(frames, m, n)) = n - m + 1
        /\ \A i \in 1..(n - m + 1) : SubSeq(frames, m, n)[i] = frames[m + i - 1]
    BY <2>3, SubSeqProperties
  <2>5. n - m + 1 = Cap
    BY <1>1, <2>2
  <2>6. \A i \in 1..Cap : m + i - 1 = i + (Len(frames) - Cap)
    BY <1>1, <2>2
  <2> PICK cut : cut = Capped(frames)
    OBVIOUS
  <2>7. cut = SubSeq(frames, m, n)
    BY <2>1, <2>2
  <2>8. cut \in Seq(Frame) /\ Len(cut) = Cap /\ \A i \in 1..Cap : cut[i] = frames[m + i - 1]
    BY <2>4, <2>5, <2>7
  <2>9. \A i \in 1..Cap : cut[i] = frames[i + (Len(frames) - Cap)]
    BY <2>6, <2>8
  <2> QED
    BY <1>3, <2>8, <2>9
<1> QED
  BY <1>2, <1>3

\* A chain with less of its front is one still.
LEMMA ChainCut ==
  ASSUME NEW A \in Seq(Frame), NEW B \in Seq(Frame), NEW s \in Seq(Frame), NEW r \in Seq(Frame),
         NEW c, NEW g \in Nat, Chained(A, s, c, g),
         Len(B) <= Len(A), \A i \in 1..Len(B) : B[i] = A[i + (Len(A) - Len(B))],
         Len(B) = Len(A) => Len(r) >= Len(s),
         Len(B) # Len(A) => Len(r) >= Cap
  PROVE  Chained(B, r, c, g)
<1>1. Len(A) \in Nat /\ Len(B) \in Nat /\ Len(s) \in Nat /\ Len(r) \in Nat /\ Cap \in Nat
  BY ConnNumbers, LenProperties
<1>2. Len(B) <= g /\ (Len(B) = g \/ Len(r) >= Cap)
  BY <1>1 DEF Chained
<1>3. ASSUME NEW i \in 1..Len(B)
      PROVE  B[i].conn = c /\ B[i].n = (g - Len(B)) + i
  <2>1. PICK j : j = i + (Len(A) - Len(B))
    OBVIOUS
  <2>2. j \in 1..Len(A) /\ B[i] = A[j] /\ (g - Len(A)) + j = (g - Len(B)) + i
    BY <1>1, <1>3, <2>1
  <2>3. A[j].conn = c /\ A[j].n = (g - Len(A)) + j
    BY <2>2 DEF Chained
  <2> QED
    BY <2>2, <2>3
<1> QED
  BY <1>2, <1>3 DEF Chained

\* One more frame is the next of the chain.
LEMMA ChainGrows ==
  ASSUME NEW A \in Seq(Frame), NEW s, NEW c, NEW g \in Nat, Chained(A, s, c, g),
         NEW f, f.conn = c, f.n = g + 1
  PROVE  Chained(Append(A, f), s, c, g + 1)
<1>1. Len(A) \in Nat
  BY LenProperties
<1> PICK B : B = Append(A, f)
  OBVIOUS
<1>2. Len(B) = Len(A) + 1 /\ B[Len(A) + 1] = f /\ \A i \in 1..Len(A) : B[i] = A[i]
  BY DEF Append
<1>3. Len(B) <= g + 1 /\ (Len(B) = g + 1 \/ Len(s) >= Cap)
  BY <1>1, <1>2 DEF Chained
<1>4. ASSUME NEW i \in 1..Len(B)
      PROVE  B[i].conn = c /\ B[i].n = (g + 1 - Len(B)) + i
  <2>1. g + 1 - Len(B) = g - Len(A)
    BY <1>1, <1>2
  <2>2. CASE i \in 1..Len(A)
    BY <1>2, <2>1, <2>2 DEF Chained
  <2>3. CASE i = Len(A) + 1
    <3>1. (g - Len(A)) + i = g + 1
      BY <1>1, <2>3
    <3> QED
      BY <1>2, <2>1, <2>3, <3>1
  <2> QED
    BY <1>1, <1>2, <2>2, <2>3
<1> QED
  BY <1>3, <1>4 DEF Chained

\* What a new connection announces itself with is a chain.
LEMMA ChainStarts ==
  ASSUME NEW f, f.n = 1, NEW s
  PROVE  Chained(<<f>>, s, f.conn, 1)
<1>1. Len(<<f>>) = 1 /\ <<f>>[1] = f
  OBVIOUS
<1>2. ASSUME NEW i \in 1..1 PROVE i = 1 /\ (1 - 1) + i = 1
  OBVIOUS
<1> QED
  BY <1>1, <1>2 DEF Chained

-----------------------------------------------------------------------------
\* The frames of these batches that are of this epoch.
Seen(bs, e) == [i \in DOMAIN bs |-> IF e = bs[i].epoch THEN bs[i].frames ELSE <<>>]

\* They are what waits for the tab, before and after a step.
LEMMA SeenWaits ==
  ASSUME NEW t
  PROVE  /\ Waited(t) = Seen(batches[t], epochs[t])
         /\ Waited(t)' = Seen(batches'[t], epochs'[t])
BY DEF Waited, Seen, Current

\* They are a sequence of frames for each batch.
PerBatch(ss, bs, e) ==
  /\ ss \in Seq(Seq(Frame)) /\ Len(ss) = Len(bs)
  /\ \A i \in 1..Len(bs) : ss[i] = IF e = bs[i].epoch THEN bs[i].frames ELSE <<>>

\* What is seen is one.
LEMMA SeenTyped ==
  ASSUME NEW bs \in Seq(Batch), NEW e
  PROVE  PerBatch(Seen(bs, e), bs, e)
<1>1. DOMAIN bs = 1..Len(bs) /\ Len(bs) \in Nat
  BY LenProperties
<1>2. \A i \in 1..Len(bs) : bs[i] \in Batch
  BY ElementOfSeq
<1>3. <<>> \in Seq(Frame)
  BY EmptySeq
<1>4. Seen(bs, e) = [i \in 1..Len(bs) |-> IF e = bs[i].epoch THEN bs[i].frames ELSE <<>>]
  BY <1>1 DEF Seen
<1>5. \A i \in 1..Len(bs) : Seen(bs, e)[i] \in Seq(Frame)
  BY <1>2, <1>3, <1>4 DEF Batch
<1>6. Seen(bs, e) \in [1..Len(bs) -> Seq(Frame)]
  BY <1>4, <1>5
<1>7. Seen(bs, e) \in Seq(Seq(Frame)) /\ Len(Seen(bs, e)) = Len(bs)
  BY <1>1, <1>6, SeqDef, LenProperties
<1> QED
  BY <1>1, <1>4, <1>7 DEF PerBatch

\* Of stale batches nothing is seen.
LEMMA SeenStale ==
  ASSUME NEW bs \in Seq(Batch), NEW e, \A i \in 1..Len(bs) : e # bs[i].epoch
  PROVE  FlattenSeq(Seen(bs, e)) = <<>>
<1> PICK V : V = Seen(bs, e)
  OBVIOUS
<1>0. /\ Len(V) = Len(bs)
      /\ \A i \in 1..Len(bs) : V[i] = IF e = bs[i].epoch THEN bs[i].frames ELSE <<>>
  BY SeenTyped DEF PerBatch
<1>1. \A i \in 1..Len(V) : V[i] = <<>>
  BY <1>0
<1>2. Seen(bs, e) \in Seq(Seq(Frame))
  BY SeenTyped DEF PerBatch
<1> QED
  BY <1>1, <1>2, FlattenEmpty

\* A current batch puts its frames behind the others.
LEMMA SeenGrows ==
  ASSUME NEW bs \in Seq(Batch), NEW e \in Nat, NEW frames \in Seq(Frame)
  PROVE  Seen(Append(bs, [frames |-> frames, epoch |-> e]), e) = Append(Seen(bs, e), frames)
<1> PICK n : n = Len(bs)
  OBVIOUS
<1> PICK batch : batch = [frames |-> frames, epoch |-> e]
  OBVIOUS
<1> PICK cs : cs = Append(bs, batch)
  OBVIOUS
<1>1. batch \in Batch /\ batch.epoch = e /\ batch.frames = frames
  BY DEF Batch
<1>2. /\ cs \in Seq(Batch) /\ Len(cs) = n + 1 /\ cs[n + 1] = batch /\ n \in Nat
      /\ \A i \in 1..n : cs[i] = bs[i]
  BY <1>1, AppendProperties, LenProperties
<1> PICK V : V = Seen(bs, e)
  OBVIOUS
<1> PICK W : W = Seen(cs, e)
  OBVIOUS
<1>3. /\ V \in Seq(Seq(Frame)) /\ Len(V) = n
      /\ \A i \in 1..n : V[i] = IF e = bs[i].epoch THEN bs[i].frames ELSE <<>>
  BY SeenTyped DEF PerBatch
<1>4. /\ W \in Seq(Seq(Frame)) /\ Len(W) = n + 1
      /\ \A i \in 1..(n + 1) : W[i] = IF e = cs[i].epoch THEN cs[i].frames ELSE <<>>
  <2>1. cs \in Seq(Batch) /\ Len(cs) = n + 1
    BY <1>2
  <2>2. /\ W \in Seq(Seq(Frame)) /\ Len(W) = Len(cs)
        /\ \A i \in 1..Len(cs) : W[i] = IF e = cs[i].epoch THEN cs[i].frames ELSE <<>>
    <3>1. PerBatch(W, cs, e)
      BY <2>1, SeenTyped
    <3> QED
      BY <3>1 DEF PerBatch
  <2> QED
    BY <2>1, <2>2
<1> PICK U : U = Append(V, frames)
  OBVIOUS
<1>5. /\ U \in Seq(Seq(Frame)) /\ Len(U) = n + 1 /\ U[n + 1] = frames
      /\ \A i \in 1..n : U[i] = V[i]
  BY <1>3, AppendProperties
<1>6. ASSUME NEW i \in 1..(n + 1) PROVE W[i] = U[i]
  <2>1. CASE i = n + 1
    BY <1>1, <1>2, <1>4, <1>5, <2>1
  <2>2. CASE i \in 1..n
    BY <1>2, <1>3, <1>4, <1>5, <2>2
  <2>3. i \in 1..n \/ i = n + 1
    <3>1. n \in Nat
      BY <1>2
    <3> QED
      BY <3>1
  <2> QED
    BY <2>1, <2>2, <2>3
<1>7. W = U
  BY <1>4, <1>5, <1>6, SeqEqual
<1> QED
  BY <1>7

\* A batch that is taken is the first that is seen.
LEMMA SeenShrinks ==
  ASSUME NEW bs \in Seq(Batch), NEW e, bs # <<>>
  PROVE  /\ Tail(bs) \in Seq(Batch) /\ Seen(Tail(bs), e) \in Seq(Seq(Frame))
         /\ FlattenSeq(Seen(bs, e)) =
              (IF e = Head(bs).epoch THEN Head(bs).frames ELSE <<>>)
                \o FlattenSeq(Seen(Tail(bs), e))
<1> PICK n : n = Len(bs)
  OBVIOUS
<1> PICK cs : cs = Tail(bs)
  OBVIOUS
<1>1. /\ n \in Nat /\ n # 0
  BY LenProperties, EmptySeq
<1>2. /\ cs \in Seq(Batch) /\ Len(cs) = n - 1 /\ Head(bs) = bs[1]
      /\ \A i \in 1..(n - 1) : cs[i] = bs[i + 1]
  BY HeadTailProperties
<1> PICK V : V = Seen(bs, e)
  OBVIOUS
<1> PICK W : W = Seen(cs, e)
  OBVIOUS
<1>3. /\ V \in Seq(Seq(Frame)) /\ Len(V) = n
      /\ \A i \in 1..n : V[i] = IF e = bs[i].epoch THEN bs[i].frames ELSE <<>>
  BY SeenTyped DEF PerBatch
<1>4. /\ W \in Seq(Seq(Frame)) /\ Len(W) = n - 1
      /\ \A i \in 1..(n - 1) : W[i] = IF e = cs[i].epoch THEN cs[i].frames ELSE <<>>
  <2>1. cs \in Seq(Batch) /\ Len(cs) = n - 1
    BY <1>2
  <2>2. /\ W \in Seq(Seq(Frame)) /\ Len(W) = Len(cs)
        /\ \A i \in 1..Len(cs) : W[i] = IF e = cs[i].epoch THEN cs[i].frames ELSE <<>>
    <3>1. PerBatch(W, cs, e)
      BY <2>1, SeenTyped
    <3> QED
      BY <3>1 DEF PerBatch
  <2> QED
    BY <2>1, <2>2
<1>5. V # <<>>
  BY <1>1, <1>3, EmptySeq
<1> PICK U : U = Tail(V)
  OBVIOUS
<1>6. /\ U \in Seq(Seq(Frame)) /\ Len(U) = n - 1 /\ Head(V) = V[1]
      /\ \A i \in 1..(n - 1) : U[i] = V[i + 1]
  BY <1>3, <1>5, HeadTailProperties
<1>7. ASSUME NEW i \in 1..(n - 1) PROVE W[i] = U[i]
  <2>1. i + 1 \in 1..n
    BY <1>1
  <2> QED
    BY <1>2, <1>3, <1>4, <1>6, <2>1
<1>8. W = U
  BY <1>4, <1>6, <1>7, SeqEqual
<1>9. FlattenSeq(V) = Head(V) \o FlattenSeq(W)
  BY <1>3, <1>5, <1>8, FlattenHead
<1>10. Head(V) = IF e = Head(bs).epoch THEN Head(bs).frames ELSE <<>>
  <2>1. 1 \in 1..n
    BY <1>1
  <2> QED
    BY <1>2, <1>3, <1>6, <2>1
<1> QED
  BY <1>2, <1>4, <1>9, <1>10

-----------------------------------------------------------------------------
\* What has arrived, from what the variables hold for the tab.
Arriving(log, bs, e, frames) == log \o FlattenSeq(Seen(bs, e)) \o frames

\* It is what Arrived says, before and after a step.
LEMMA ArrivingIs ==
  ASSUME NEW t
  PROVE  /\ Arrived(t) = Arriving(SessionFor(t).frames, batches[t], epochs[t], pending[t])
         /\ Arrived(t)' = Arriving(SessionFor(t)'.frames, batches'[t], epochs'[t], pending'[t])
BY SeenWaits DEF Arrived, Arriving

\* The types of what is kept for a tab.
LEMMA TabTypes ==
  ASSUME TypeOK, NEW t \in Tabs
  PROVE  /\ epochs[t] \in Nat /\ pending[t] \in Seq(Frame) /\ batches[t] \in Seq(Batch)
         /\ conns[t] \in Conns \cup {NoConn} /\ SessionFor(t).frames \in Seq(Frame)
         /\ \A i \in DOMAIN batches[t] : batches[t][i].epoch \in Nat
<1>1. /\ epochs[t] \in Nat /\ pending[t] \in Seq(Frame) /\ batches[t] \in Seq(Batch)
      /\ conns[t] \in Conns \cup {NoConn} /\ SessionsOK
  BY TypeParts DEF Batch
<1>2. SessionFor(t).frames \in Seq(Frame)
  BY <1>1, SessionTyped DEF Session
<1>3. \A i \in DOMAIN batches[t] : batches[t][i] \in Batch
  BY <1>1, LenProperties, ElementOfSeq
<1> QED
  BY <1>1, <1>2, <1>3 DEF Batch

\* All that has arrived is frames.
LEMMA ArrivedTyped ==
  ASSUME TypeOK, NEW t \in Tabs
  PROVE  /\ SessionFor(t).frames \in Seq(Frame) /\ FlattenSeq(Waited(t)) \in Seq(Frame)
         /\ pending[t] \in Seq(Frame) /\ Arrived(t) \in Seq(Frame)
<1>1. SessionFor(t).frames \in Seq(Frame) /\ pending[t] \in Seq(Frame)
  BY TabTypes
<1>2. Waited(t) \in Seq(Seq(Frame))
  BY TabTypes, SeenWaits, SeenTyped DEF PerBatch
<1>3. FlattenSeq(Waited(t)) \in Seq(Frame)
  BY <1>2, FlattenTyped
<1> QED
  BY <1>1, <1>3, ConcatProperties DEF Arrived

\* How a step may treat the epoch of a tab: leave it, move it on, or remove it
\* for good.
EpochStep(t) ==
  \/ epochs'[t] = epochs[t] /\ (Gone(t) => Gone(t)')
  \/ epochs'[t] = epochs[t] + 1 /\ ~Gone(t)
  \/ epochs'[t] = 0 /\ Gone(t)'

\* An epoch that was kept still is none from before the last teardown, and the
\* teardowns leave none that is current.
LEMMA KeptStill ==
  ASSUME TypeOK, NEW t \in Tabs, EpochStep(t), NEW e \in Nat, Kept(t, e)
  PROVE  Kept(t, e)' /\ (epochs'[t] # epochs[t] => ~Current(t, e)')
<1>1. epochs[t] \in Nat /\ e >= 1 /\ (e <= epochs[t] \/ Gone(t))
  BY TabTypes DEF Kept
<1>2. CASE epochs'[t] = epochs[t] /\ (Gone(t) => Gone(t)')
  BY <1>1, <1>2 DEF Kept
<1>3. CASE epochs'[t] = epochs[t] + 1 /\ ~Gone(t)
  <2>1. e <= epochs[t] + 1 /\ epochs[t] + 1 # e
    BY <1>1, <1>3
  <2> QED
    BY <1>1, <1>3, <2>1 DEF Kept, Current
<1>4. CASE epochs'[t] = 0 /\ Gone(t)'
  BY <1>1, <1>4 DEF Kept, Current
<1> QED
  BY <1>2, <1>3, <1>4 DEF EpochStep

\* What that says of the batches that are on their way.
LEMMA BatchesStill ==
  ASSUME TypeOK, NEW t \in Tabs, Logged(t), EpochStep(t), batches'[t] = batches[t]
  PROVE  /\ \A i \in DOMAIN batches'[t] : Kept(t, batches[t][i].epoch)'
         /\ epochs'[t] # epochs[t] => Stale(t)'
         /\ epochs'[t] = epochs[t] => (Stale(t) => Stale(t)')
<1>1. ASSUME NEW i \in DOMAIN batches[t]
      PROVE  /\ Kept(t, batches[t][i].epoch)'
             /\ epochs'[t] # epochs[t] => ~Current(t, batches[t][i].epoch)'
  <2> PICK e : e = batches[t][i].epoch
    OBVIOUS
  <2>1. e \in Nat /\ Kept(t, e)
    BY TabTypes DEF Logged
  <2>2. Kept(t, e)' /\ (epochs'[t] # epochs[t] => ~Current(t, e)')
    BY <2>1, KeptStill
  <2>3. e = batches'[t][i].epoch
    OBVIOUS
  <2> QED
    BY <2>2, <2>3 DEF Kept, Current
<1> QED
  BY <1>1 DEF Stale, Current

\* Whoever waited for the tab finds what was on its way then as stale as it was.
LEMMA WaitersStill ==
  ASSUME TypeOK, NEW t \in Tabs, Logged(t), EpochStep(t), batches'[t] = batches[t],
         epochs'[t] = epochs[t] => WaitsFrom(t)
  PROVE  \A c \in DOMAIN waiting' :
           Waits(c)' /\ waiting'[c].tab = t /\ Current(t, waiting[c].epoch)' => Stale(t)'
<1> SUFFICES ASSUME NEW c \in DOMAIN waiting', Waits(c)', waiting'[c].tab = t,
                    Current(t, waiting[c].epoch)'
             PROVE  Stale(t)'
  OBVIOUS
<1>1. CASE epochs'[t] # epochs[t]
  BY <1>1, BatchesStill
<1>2. CASE epochs'[t] = epochs[t]
  <2>1. c \in DOMAIN waiting /\ Waits(c) /\ waiting'[c] = waiting[c]
    BY <1>2 DEF WaitsFrom
  <2>2. Current(t, waiting[c].epoch)
    BY <1>2, <2>1 DEF Current
  <2>3. Stale(t)
    BY <2>1, <2>2 DEF Logged
  <2> QED
    BY <1>2, <2>3, BatchesStill
<1> QED
  BY <1>1, <1>2

\* The tab has no connection after the step, and nothing that is pending.
LEMMA LogsDrop ==
  ASSUME TypeOK, NEW t \in Tabs, Logged(t), EpochStep(t), batches'[t] = batches[t],
         conns'[t] = NoConn, pending'[t] = <<>>, epochs'[t] = epochs[t] => WaitsFrom(t)
  PROVE  Logged(t)'
<1>1. \A i \in DOMAIN batches'[t] : Kept(t, batches[t][i].epoch)'
  BY BatchesStill
<1>2. \A c \in DOMAIN waiting' :
        Waits(c)' /\ waiting'[c].tab = t /\ Current(t, waiting[c].epoch)' => Stale(t)'
  BY WaitersStill
<1> QED
  BY <1>1, <1>2 DEF Logged

\* Nothing is done about the connection, the frames and the log of the tab.
LEMMA LogsKeep ==
  ASSUME TypeOK, NEW t \in Tabs, Logged(t), Gone(t) => Gone(t)', WaitsFrom(t),
         epochs'[t] = epochs[t], batches'[t] = batches[t], conns'[t] = conns[t],
         pending'[t] = pending[t],
         conns[t] # NoConn => /\ SessionFor(t)'.frames = SessionFor(t).frames
                              /\ got'[conns[t]] = got[conns[t]]
  PROVE  Logged(t)'
<1>0. EpochStep(t)
  BY DEF EpochStep
<1>1. \A i \in DOMAIN batches'[t] : Kept(t, batches[t][i].epoch)'
  BY <1>0, BatchesStill
<1>2. \A c \in DOMAIN waiting' :
        Waits(c)' /\ waiting'[c].tab = t /\ Current(t, waiting[c].epoch)' => Stale(t)'
  BY <1>0, WaitersStill
<1>3. pending'[t] # <<>> => conns'[t] # NoConn
  BY DEF Logged
<1>4. conns'[t] # NoConn =>
        Chained(Arrived(t), SessionFor(t).frames, conns[t], got[conns[t]])'
  <2> SUFFICES ASSUME conns[t] # NoConn
               PROVE  Chained(Arrived(t)', SessionFor(t)'.frames, conns[t], got[conns[t]])
    BY DEF Chained
  <2>1. Arrived(t)' = Arrived(t)
    BY ArrivingIs
  <2> QED
    BY <2>1 DEF Logged
<1> QED
  BY <1>1, <1>2, <1>3, <1>4 DEF Logged

\* The tab gets a new connection, which announces itself.
LEMMA LogsStart ==
  ASSUME TypeOK, NEW t \in Tabs, Logged(t), EpochStep(t), batches'[t] = batches[t],
         Stale(t) \/ epochs'[t] # epochs[t],
         NEW f, f.n = 1, f.conn # NoConn,
         conns'[t] = f.conn, pending'[t] = <<f>>, SessionFor(t)'.frames = <<>>,
         got'[f.conn] = 1
  PROVE  Logged(t)'
<1>1. \A i \in DOMAIN batches'[t] : Kept(t, batches[t][i].epoch)'
  BY BatchesStill
<1>2. Stale(t)'
  BY BatchesStill
<1>3. conns'[t] # NoConn
  OBVIOUS
<1>4. Chained(Arrived(t), SessionFor(t).frames, conns[t], got[conns[t]])'
  <2> PICK bs, e : bs = batches[t] /\ e = epochs'[t]
    OBVIOUS
  <2>1. bs \in Seq(Batch) /\ \A i \in 1..Len(bs) : e # bs[i].epoch
    <3>1. bs \in Seq(Batch) /\ DOMAIN bs = 1..Len(bs)
      BY TabTypes, LenProperties
    <3> QED
      BY <1>2, <3>1 DEF Stale, Current
  <2>2. FlattenSeq(Seen(bs, e)) = <<>>
    BY <2>1, SeenStale
  <2>3. Arrived(t)' = (<<>> \o <<>>) \o <<f>>
    BY <2>2, ArrivingIs DEF Arriving
  <2>4. (<<>> \o <<>>) \o <<f>> = <<f>>
    OBVIOUS
  <2>5. Chained(<<f>>, <<>>, f.conn, 1)
    BY ChainStarts
  <2> QED
    BY <2>3, <2>4, <2>5 DEF Chained
<1> QED
  BY <1>1, <1>2, <1>3, <1>4 DEF Logged

\* Frames can be put together in either order.
LEMMA FramesTogether ==
  ASSUME NEW a \in Seq(Frame), NEW b \in Seq(Frame), NEW d \in Seq(Frame)
  PROVE  a \o (b \o d) = (a \o b) \o d
BY ConcatAssociative

\* Behind a sequence, one more element is one more behind the whole.
LEMMA AppendBehind ==
  ASSUME NEW a \in Seq(Frame), NEW b \in Seq(Frame), NEW x \in Frame
  PROVE  a \o Append(b, x) = Append(a \o b, x)
<1>1. <<x>> \in Seq(Frame) /\ a \o b \in Seq(Frame)
  BY ConcatProperties
<1>2. Append(b, x) = b \o <<x>> /\ Append(a \o b, x) = (a \o b) \o <<x>>
  BY <1>1, AppendIsConcat
<1>3. (a \o b) \o <<x>> = a \o (b \o <<x>>)
  BY <1>1, FramesTogether
<1> QED
  BY <1>2, <1>3

\* The connection of the tab delivers one more frame.
LEMMA LogsFrame ==
  ASSUME TypeOK, NEW t \in Tabs, Logged(t), Gone(t) => Gone(t)', WaitsFrom(t),
         epochs'[t] = epochs[t], batches'[t] = batches[t], conns'[t] = conns[t],
         conns[t] # NoConn, NEW f \in Frame, f.conn = conns[t], f.n = got[conns[t]] + 1,
         pending'[t] = Append(pending[t], f), got'[conns[t]] = got[conns[t]] + 1,
         SessionFor(t)'.frames = SessionFor(t).frames
  PROVE  Logged(t)'
<1>0. EpochStep(t)
  BY DEF EpochStep
<1>1. \A i \in DOMAIN batches'[t] : Kept(t, batches[t][i].epoch)'
  BY <1>0, BatchesStill
<1>2. \A c \in DOMAIN waiting' :
        Waits(c)' /\ waiting'[c].tab = t /\ Current(t, waiting[c].epoch)' => Stale(t)'
  BY <1>0, WaitersStill
<1>3. Chained(Arrived(t), SessionFor(t).frames, conns[t], got[conns[t]])'
  <2> PICK A, s, c, g : /\ A = Arrived(t) /\ s = SessionFor(t).frames /\ c = conns[t]
                        /\ g = got[conns[t]]
    OBVIOUS
  <2>1. A \in Seq(Frame) /\ g \in Nat /\ Chained(A, s, c, g)
    BY ArrivedTyped, TypeParts DEF Logged
  <2>2. Arrived(t)' = Append(A, f)
    <3> PICK a, b : a = s \o FlattenSeq(Waited(t)) /\ b = pending[t]
      OBVIOUS
    <3>1. a \in Seq(Frame) /\ b \in Seq(Frame)
      BY ArrivedTyped, ConcatProperties
    <3>2. Arrived(t)' = a \o Append(b, f)
      BY ArrivingIs, SeenWaits DEF Arriving
    <3>3. A = a \o b
      BY DEF Arrived
    <3>4. a \o Append(b, f) = Append(a \o b, f)
      BY <3>1, AppendBehind
    <3> QED
      BY <3>2, <3>3, <3>4
  <2>3. Chained(Append(A, f), s, c, g + 1)
    BY <2>1, ChainGrows
  <2> QED
    BY <2>2, <2>3 DEF Chained
<1> QED
  BY <1>1, <1>2, <1>3 DEF Logged

\* It does not matter to what arrives whether it is pending or in a batch that
\* is current.
LEMMA ArrivingFlushed ==
  ASSUME NEW log \in Seq(Frame), NEW bs \in Seq(Batch), NEW e \in Nat, NEW p \in Seq(Frame)
  PROVE  Arriving(log, Append(bs, [frames |-> p, epoch |-> e]), e, <<>>)
           = Arriving(log, bs, e, p)
<1> PICK ss : ss = Seen(bs, e)
  OBVIOUS
<1> PICK b : b = FlattenSeq(ss)
  OBVIOUS
<1>1. ss \in Seq(Seq(Frame))
  BY SeenTyped DEF PerBatch
<1>2. b \in Seq(Frame)
  BY <1>1, FlattenTyped
<1>3. Seen(Append(bs, [frames |-> p, epoch |-> e]), e) = Append(ss, p)
  BY SeenGrows
<1>4. FlattenSeq(Append(ss, p)) = b \o p
  BY <1>1, FlattenAppend
<1>5. Arriving(log, Append(bs, [frames |-> p, epoch |-> e]), e, <<>>) = log \o (b \o p) \o <<>>
  BY <1>3, <1>4 DEF Arriving
<1>6. Arriving(log, bs, e, p) = (log \o b) \o p
  BY DEF Arriving
<1>7. log \o (b \o p) = (log \o b) \o p
  BY <1>2, FramesTogether
<1>8. log \o (b \o p) \in Seq(Frame)
  BY <1>2, ConcatProperties
<1>9. log \o (b \o p) \o <<>> = log \o (b \o p)
  BY <1>8, ConcatEmptySeq
<1> QED
  BY <1>5, <1>6, <1>7, <1>9, Zenon

\* What is pending leaves as a batch.
LEMMA LogsFlush ==
  ASSUME TypeOK, NEW t \in Tabs, Logged(t), Owned(t), Gone(t) => Gone(t)', WaitsFrom(t),
         pending[t] # <<>>, epochs'[t] = epochs[t], conns'[t] = conns[t],
         batches'[t] = Append(batches[t], [frames |-> pending[t], epoch |-> epochs[t]]),
         pending'[t] = <<>>, got'[conns[t]] = got[conns[t]],
         SessionFor(t)'.frames = SessionFor(t).frames
  PROVE  Logged(t)'
<1>1. conns[t] # NoConn /\ epochs[t] >= 1 /\ epochs[t] \in Nat
  BY TabTypes DEF Logged, Owned
<1> PICK bs, e, p : bs = batches[t] /\ e = epochs[t] /\ p = pending[t]
  OBVIOUS
<1>2. bs \in Seq(Batch) /\ e \in Nat /\ p \in Seq(Frame)
  BY TabTypes
<1>3. \A i \in DOMAIN batches'[t] : Kept(t, batches[t][i].epoch)'
  <2>1. \A i \in DOMAIN batches'[t] :
          \/ i \in DOMAIN batches[t] /\ batches'[t][i] = batches[t][i]
          \/ batches'[t][i].epoch = epochs[t]
    <3> PICK batch : batch = [frames |-> p, epoch |-> e]
      OBVIOUS
    <3>1. batch \in Batch /\ batch.epoch = e
      BY <1>2 DEF Batch
    <3>2. /\ Append(bs, batch) \in Seq(Batch) /\ Len(Append(bs, batch)) = Len(bs) + 1
          /\ \A i \in 1..Len(bs) : Append(bs, batch)[i] = bs[i]
          /\ Append(bs, batch)[Len(bs) + 1] = batch
      BY <1>2, <3>1, AppendProperties
    <3>3. DOMAIN bs = 1..Len(bs) /\ Len(bs) \in Nat
      BY <1>2, LenProperties
    <3>4. DOMAIN Append(bs, batch) = 1..(Len(bs) + 1)
      BY <3>2, LenProperties
    <3> PICK cs : cs = Append(bs, batch)
      OBVIOUS
    <3>5. \A i \in DOMAIN cs : i \in 1..Len(bs) \/ i = Len(bs) + 1
      BY <3>3, <3>4
    <3>6. batches'[t] = cs
      OBVIOUS
    <3> QED
      BY <3>1, <3>2, <3>3, <3>5, <3>6
  <2>2. \A i \in DOMAIN batches'[t] : Kept(t, batches'[t][i].epoch)
    BY <1>1, <2>1 DEF Logged, Kept
  <2> QED
    BY <2>2 DEF Kept
<1>4. \A c \in DOMAIN waiting' :
        Waits(c)' /\ waiting'[c].tab = t => ~Current(t, waiting[c].epoch)'
  BY <1>1 DEF WaitsFrom, Owned, Current
<1>5. Chained(Arrived(t), SessionFor(t).frames, conns[t], got[conns[t]])'
  <2> PICK log : log = SessionFor(t).frames
    OBVIOUS
  <2>1. log \in Seq(Frame)
    BY TabTypes
  <2>2. Arriving(log, Append(bs, [frames |-> p, epoch |-> e]), e, <<>>) = Arriving(log, bs, e, p)
    BY <1>2, <2>1, ArrivingFlushed
  <2>7. Arrived(t)' = Arrived(t)
    BY <2>2, ArrivingIs
  <2>8. Chained(Arrived(t), SessionFor(t).frames, conns[t], got[conns[t]])
    BY <1>1 DEF Logged
  <2> QED
    BY <2>7, <2>8 DEF Chained
<1> QED
  BY <1>1, <1>3, <1>4, <1>5 DEF Logged

\* What is seen first can as well be in the log.
SeenFirst(front, bs, cs, e) == FlattenSeq(Seen(bs, e)) = front \o FlattenSeq(Seen(cs, e))

\* All that has arrived is the same then.
LEMMA ArrivingShifts ==
  ASSUME NEW log, log \in Seq(Frame), NEW front, front \in Seq(Frame), NEW p,
         NEW bs, NEW cs, NEW e,
         FlattenSeq(Seen(cs, e)) \in Seq(Frame), SeenFirst(front, bs, cs, e)
  PROVE  Arriving(log, bs, e, p) = Arriving(log \o front, cs, e, p)
<1> PICK w : w = FlattenSeq(Seen(cs, e))
  OBVIOUS
<1>1. log \o (front \o w) = (log \o front) \o w
  BY FramesTogether
<1> QED
  BY <1>1 DEF Arriving, SeenFirst

\* A batch that is current goes to the log, any other is dropped.
LEMMA ArrivingTaken ==
  ASSUME NEW log \in Seq(Frame), NEW bs \in Seq(Batch), bs # <<>>, NEW e, NEW p
  PROVE  Arriving(log, bs, e, p) =
           Arriving(IF e = Head(bs).epoch THEN log \o Head(bs).frames ELSE log, Tail(bs), e, p)
<1> PICK cs, head : cs = Tail(bs) /\ head = Head(bs)
  OBVIOUS
<1>1. head \in Batch /\ cs \in Seq(Batch)
  BY HeadTailProperties
<1>2. head.frames \in Seq(Frame)
  BY <1>1 DEF Batch
<1>3. FlattenSeq(Seen(cs, e)) \in Seq(Frame)
  <2>1. Seen(cs, e) \in Seq(Seq(Frame))
    BY SeenShrinks
  <2> QED
    BY <2>1, FlattenTyped
<1>4. CASE e = head.epoch
  <2>1. SeenFirst(head.frames, bs, cs, e)
    BY <1>4, SeenShrinks DEF SeenFirst
  <2>2. Arriving(log, bs, e, p) = Arriving(log \o head.frames, cs, e, p)
    BY <1>2, <1>3, <2>1, ArrivingShifts
  <2> QED
    BY <1>4, <2>2
<1>5. CASE e # head.epoch
  <2>1. FlattenSeq(Seen(bs, e)) = <<>> \o FlattenSeq(Seen(cs, e))
    BY <1>5, SeenShrinks
  <2>2. FlattenSeq(Seen(bs, e)) = FlattenSeq(Seen(cs, e))
    BY <1>3, <2>1, ConcatEmptySeq
  <2> QED
    BY <1>5, <2>2 DEF Arriving
<1> QED
  BY <1>4, <1>5

\* B is the end of A that is as much shorter as y is than x.
EndOf(B, A, y, x) ==
  /\ A \in Seq(Frame) /\ B \in Seq(Frame)
  /\ Len(A) - Len(B) = Len(x) - Len(y) /\ Len(B) <= Len(A)
  /\ \A i \in 1..Len(B) : B[i] = A[i + (Len(A) - Len(B))]

\* What the cap takes from the log it takes from the front of all that arrives.
LEMMA ArrivingCapped ==
  ASSUME NEW x \in Seq(Frame), NEW bs \in Seq(Batch), NEW e, NEW p \in Seq(Frame)
  PROVE  EndOf(Arriving(Capped(x), bs, e, p), Arriving(x, bs, e, p), Capped(x), x)
<1> PICK A : A = Arriving(x, bs, e, p)
  OBVIOUS
<1> PICK B : B = Arriving(Capped(x), bs, e, p)
  OBVIOUS
<1> PICK w : w = FlattenSeq(Seen(bs, e))
  OBVIOUS
<1> PICK y : y = Capped(x)
  OBVIOUS
<1> PICK z : z = w \o p
  OBVIOUS
<1>1. w \in Seq(Frame)
  <2>1. Seen(bs, e) \in Seq(Seq(Frame))
    BY SeenTyped DEF PerBatch
  <2> QED
    BY <2>1, FlattenTyped
<1>2. z \in Seq(Frame)
  BY <1>1, ConcatProperties
<1>3. /\ y \in Seq(Frame) /\ Len(y) = IF Len(x) <= Cap THEN Len(x) ELSE Cap
      /\ \A i \in 1..Len(y) : y[i] = x[i + (Len(x) - Len(y))]
  BY CappedEnd
<1>4. A = (x \o w) \o p /\ B = (y \o w) \o p
  BY DEF Arriving
<1>5. A = x \o z
  BY <1>1, <1>4, FramesTogether
<1>6. B = y \o z
  BY <1>1, <1>3, <1>4, FramesTogether
<1>7. /\ A \in Seq(Frame) /\ Len(A) = Len(x) + Len(z)
      /\ \A i \in 1..(Len(x) + Len(z)) :
           A[i] = IF i <= Len(x) THEN x[i] ELSE z[i - Len(x)]
  BY <1>2, <1>5, ConcatProperties
<1>8. /\ B \in Seq(Frame) /\ Len(B) = Len(y) + Len(z)
      /\ \A i \in 1..(Len(y) + Len(z)) :
           B[i] = IF i <= Len(y) THEN y[i] ELSE z[i - Len(y)]
  <2>1. y \in Seq(Frame)
    BY <1>3
  <2> QED
    BY <1>2, <1>6, <2>1, ConcatProperties
<1>9. /\ Len(x) \in Nat /\ Len(y) \in Nat /\ Len(z) \in Nat /\ Cap \in Nat
      /\ Len(y) <= Len(x)
  BY <1>2, <1>3, LenProperties, ConnNumbers
<1> PICK d : d = Len(x) - Len(y)
  OBVIOUS
<1>10. Len(A) - Len(B) = d /\ d \in Nat /\ Len(B) <= Len(A)
  BY <1>7, <1>8, <1>9
<1>11. ASSUME NEW i \in 1..Len(B) PROVE B[i] = A[i + d]
  <2>1. i + d \in 1..(Len(x) + Len(z)) /\ i \in 1..(Len(y) + Len(z))
    BY <1>8, <1>9, <1>10
  <2>2. CASE i <= Len(y)
    <3>1. i + d <= Len(x) /\ i \in 1..Len(y)
      BY <1>8, <1>9, <1>11, <2>2
    <3>2. B[i] = y[i] /\ y[i] = x[i + d]
      BY <1>3, <1>8, <2>1, <2>2, <3>1
    <3>3. A[i + d] = x[i + d]
      BY <1>7, <2>1, <3>1
    <3> QED
      BY <3>2, <3>3
  <2>3. CASE ~(i <= Len(y))
    <3>1. ~(i + d <= Len(x)) /\ (i + d) - Len(x) = i - Len(y)
      BY <1>8, <1>9, <1>11, <2>3
    <3>2. B[i] = z[i - Len(y)]
      BY <1>8, <2>1, <2>3
    <3>3. A[i + d] = z[(i + d) - Len(x)]
      BY <1>7, <2>1, <3>1
    <3> QED
      BY <3>1, <3>2, <3>3
  <2> QED
    BY <2>2, <2>3
<1>12. EndOf(B, A, y, x)
  BY <1>7, <1>8, <1>10, <1>11 DEF EndOf
<1> QED
  BY <1>12

\* A log with frames behind it has not got shorter.
LEMMA LongerLog ==
  ASSUME NEW log \in Seq(Frame), NEW more \in Seq(Frame)
  PROVE  log \o more \in Seq(Frame) /\ Len(log \o more) >= Len(log)
<1>1. log \o more \in Seq(Frame) /\ Len(log \o more) = Len(log) + Len(more)
  BY ConcatProperties
<1>2. Len(log) \in Nat /\ Len(more) \in Nat
  BY LenProperties
<1> QED
  BY <1>1, <1>2

\* A log that has got longer may be capped.
LEMMA ChainCapped ==
  ASSUME NEW log \in Seq(Frame), NEW x \in Seq(Frame), Len(x) >= Len(log),
         NEW bs \in Seq(Batch), NEW e, NEW p \in Seq(Frame), NEW c, NEW g \in Nat,
         Chained(Arriving(x, bs, e, p), log, c, g)
  PROVE  Chained(Arriving(Capped(x), bs, e, p), Capped(x), c, g)
<1> PICK y : y = Capped(x)
  OBVIOUS
<1> PICK A : A = Arriving(x, bs, e, p)
  OBVIOUS
<1> PICK B : B = Arriving(Capped(x), bs, e, p)
  OBVIOUS
<1>1. /\ A \in Seq(Frame) /\ B \in Seq(Frame)
      /\ Len(A) - Len(B) = Len(x) - Len(y) /\ Len(B) <= Len(A)
      /\ \A i \in 1..Len(B) : B[i] = A[i + (Len(A) - Len(B))]
  <2>1. EndOf(B, A, y, x)
    BY ArrivingCapped
  <2> QED
    BY <2>1 DEF EndOf
<1>2. y \in Seq(Frame) /\ Len(y) = IF Len(x) <= Cap THEN Len(x) ELSE Cap
  BY CappedEnd
<1>3. /\ Len(A) \in Nat /\ Len(B) \in Nat
  BY <1>1, LenProperties
<1>4. Len(x) \in Nat /\ Len(log) \in Nat /\ Cap \in Nat
  BY LenProperties, ConnNumbers
<1>5. /\ Len(B) = Len(A) => Len(y) >= Len(log)
      /\ Len(B) # Len(A) => Len(y) >= Cap
  BY <1>1, <1>2, <1>3, <1>4
<1>6. Chained(B, y, c, g)
  <2>1. A \in Seq(Frame) /\ B \in Seq(Frame) /\ y \in Seq(Frame) /\ Chained(A, log, c, g)
    BY <1>1, <1>2
  <2>2. Len(B) <= Len(A) /\ \A i \in 1..Len(B) : B[i] = A[i + (Len(A) - Len(B))]
    BY <1>1
  <2> QED
    BY <1>5, <2>1, <2>2, ChainCut
<1> QED
  BY <1>6

\* The first batch is taken.
LEMMA LogsBatch ==
  ASSUME TypeOK, NEW t \in Tabs, Logged(t), Gone(t) => Gone(t)', WaitsFrom(t),
         epochs'[t] = epochs[t], conns'[t] = conns[t], pending'[t] = pending[t],
         batches[t] # <<>>, batches'[t] = Tail(batches[t]),
         conns[t] # NoConn => got'[conns[t]] = got[conns[t]],
         SessionFor(t)'.frames =
           IF Current(t, Head(batches[t]).epoch)
           THEN Capped(SessionFor(t).frames \o Head(batches[t]).frames)
           ELSE SessionFor(t).frames
  PROVE  Logged(t)'
<1> PICK bs, cs, e, p : bs = batches[t] /\ cs = batches'[t] /\ e = epochs[t] /\ p = pending[t]
  OBVIOUS
<1> PICK log : log = SessionFor(t).frames
  OBVIOUS
<1>1. /\ bs \in Seq(Batch) /\ bs # <<>> /\ e \in Nat /\ p \in Seq(Frame)
      /\ log \in Seq(Frame)
  BY TabTypes
<1>2. /\ cs \in Seq(Batch) /\ cs = Tail(bs) /\ Head(bs) \in Batch
      /\ Len(cs) = Len(bs) - 1 /\ DOMAIN bs = 1..Len(bs) /\ DOMAIN cs = 1..Len(cs)
      /\ \A i \in 1..Len(cs) : cs[i] = bs[i + 1]
  <2>1. cs = Tail(bs)
    OBVIOUS
  <2>2. /\ cs \in Seq(Batch) /\ Head(bs) \in Batch /\ Len(cs) = Len(bs) - 1
        /\ \A i \in 1..Len(cs) : cs[i] = bs[i + 1]
    BY <1>1, <2>1, HeadTailProperties
  <2> QED
    BY <1>1, <2>1, <2>2, LenProperties
<1>3. \A i \in DOMAIN cs : i + 1 \in DOMAIN bs /\ cs[i] = bs[i + 1]
  BY <1>1, <1>2, LenProperties
<1>4. \A i \in DOMAIN batches'[t] : Kept(t, batches[t][i].epoch)'
  <2>1. \A i \in DOMAIN bs : Kept(t, bs[i].epoch)
    BY DEF Logged
  <2>2. \A i \in DOMAIN cs : Kept(t, cs[i].epoch)
    BY <1>3, <2>1
  <2> QED
    BY <2>2 DEF Kept
<1>5. Stale(t) => Stale(t)'
  <2>1. Stale(t) => \A i \in DOMAIN bs : e # bs[i].epoch
    BY DEF Stale, Current
  <2>2. Stale(t) => \A i \in DOMAIN cs : e # cs[i].epoch
    BY <1>3, <2>1
  <2> QED
    BY <2>2 DEF Stale, Current
<1>6. \A c \in DOMAIN waiting' :
        Waits(c)' /\ waiting'[c].tab = t /\ Current(t, waiting[c].epoch)' => Stale(t)'
  BY <1>5 DEF WaitsFrom, Logged, Current
<1>7. pending'[t] # <<>> => conns'[t] # NoConn
  BY DEF Logged
<1>8. ASSUME conns[t] # NoConn
      PROVE  Chained(Arrived(t)', SessionFor(t)'.frames, conns[t], got[conns[t]])
  <2> PICK c, g : c = conns[t] /\ g = got[conns[t]]
    OBVIOUS
  <2>1. g \in Nat /\ Chained(Arrived(t), log, c, g)
    BY <1>8, TabTypes, TypeParts DEF Logged
  <2>2. Arrived(t) = Arriving(log, bs, e, p)
    BY ArrivingIs
  <2>3. Arrived(t)' = Arriving(SessionFor(t)'.frames, cs, e, p)
    BY ArrivingIs
  <2>4. CASE ~Current(t, Head(batches[t]).epoch)
    <3>1. SessionFor(t)'.frames = log /\ e # Head(bs).epoch
      BY <2>4 DEF Current
    <3>2. Arriving(log, bs, e, p) = Arriving(log, cs, e, p)
      BY <1>1, <1>2, <3>1, ArrivingTaken
    <3> QED
      BY <2>1, <2>2, <2>3, <3>1, <3>2
  <2>5. CASE Current(t, Head(batches[t]).epoch)
    <3> PICK x : x = log \o Head(bs).frames
      OBVIOUS
    <3>1. SessionFor(t)'.frames = Capped(x) /\ e = Head(bs).epoch
      BY <2>5 DEF Current
    <3>2. Head(bs).frames \in Seq(Frame)
      BY <1>2 DEF Batch
    <3>3. x \in Seq(Frame) /\ Len(x) >= Len(log)
      BY <1>1, <3>2, LongerLog
    <3>4. Arriving(log, bs, e, p) = Arriving(x, cs, e, p)
      BY <1>1, <1>2, <3>1, ArrivingTaken
    <3>5. Chained(Arriving(x, cs, e, p), log, c, g)
      BY <2>1, <2>2, <3>4
    <3>6. cs \in Seq(Batch)
      BY <1>2
    <3>7. Chained(Arriving(Capped(x), cs, e, p), Capped(x), c, g)
      BY <1>1, <2>1, <3>3, <3>5, <3>6, ChainCapped
    <3> QED
      BY <2>3, <3>1, <3>7
  <2> QED
    BY <2>4, <2>5
<1>9. conns'[t] # NoConn =>
        Chained(Arrived(t), SessionFor(t).frames, conns[t], got[conns[t]])'
  BY <1>8 DEF Chained
<1> QED
  BY <1>4, <1>6, <1>7, <1>9 DEF Logged

-----------------------------------------------------------------------------
(* What the turns do to the logs. *)

\* A tab that is gone stays so while nobody touches it.
LEMMA GoneStill ==
  ASSUME NEW t, Looping', epochs'[t] = epochs[t], t \in told => t \in told', LoopsFrom(t)
  PROVE  Gone(t) => Gone(t)'
<1> SUFFICES ASSUME Gone(t), NEW c \in DOMAIN waiting', IsTask(c, "tabs")', Ahead(c, t)'
             PROVE  FALSE
  BY DEF Gone
<1>1. t \in waiting'[c].all
  BY DEF Looping, Ahead
<1>2. c \in DOMAIN waiting /\ IsTask(c, "tabs") /\ waiting'[c] = waiting[c]
  BY <1>1 DEF LoopsFrom
<1> QED
  BY <1>2 DEF Gone, Ahead

\* A step that leaves all tabs but one alone.
LEMMA OthersLogged ==
  ASSUME IInv, IInv', NEW t \in Tabs, Logged(t), WaitsFrom(t), LoopsFrom(t),
         epochs'[t] = epochs[t], conns'[t] = conns[t],
         pending'[t] = pending[t], batches'[t] = batches[t], t \in told => t \in told',
         conns[t] # NoConn => /\ t \in DOMAIN sessions' <=> t \in DOMAIN sessions
                              /\ t \in DOMAIN sessions => sessions'[t] = sessions[t]
                              /\ got'[conns[t]] = got[conns[t]]
  PROVE  Logged(t)'
<1>1. TypeOK /\ Looping'
  BY DEF IInv
<1>2. Gone(t) => Gone(t)'
  BY <1>1, GoneStill
<1>3. conns[t] # NoConn => SessionFor(t)'.frames = SessionFor(t).frames
  BY DEF SessionFor
<1> QED
  BY <1>1, <1>2, <1>3, LogsKeep

\* Connections have numbers, those of other tabs others.
LEMMA OtherConns ==
  ASSUME IInv, NEW t \in Tabs, NEW u \in Tabs, t # u, conns[t] # NoConn
  PROVE  /\ conns[t] \in 1..opened /\ conns[t] # opened + 1 /\ conns[t] \in Conns
         /\ conns[t] # conns[u] /\ got[conns[t]] \in Nat
<1>1. TypeOK /\ Wired
  BY DEF IInv
<1>2. conns[t] \in Conns /\ opened \in Nat /\ got \in [Conns -> Nat] /\ conns[t] \in 0..opened
  BY <1>1, TypeParts, ConnNumbers DEF Wired
<1>3. conns[t] # conns[u]
  BY <1>1 DEF Wired
<1> QED
  BY <1>2, <1>3 DEF NoConn

\* A new connection, its subscription and its empty log.
LEMMA Establishes ==
  ASSUME IInv, phase # "closed", NEW u \in Tabs, NEW before, Establish(u, before),
         epochs \in [Tabs -> Nat]
  PROVE  \E f : /\ f.n = 1 /\ f.conn = opened + 1 /\ f.conn # NoConn /\ f.conn \in Conns
                /\ conns'[u] = f.conn /\ pending'[u] = Append(before, f)
                /\ SessionFor(u)'.frames = <<>> /\ got'[f.conn] = 1
                /\ \A t \in Tabs \ {u} :
                     /\ conns'[t] = conns[t] /\ pending'[t] = pending[t]
                     /\ t \in DOMAIN sessions' <=> t \in DOMAIN sessions
                     /\ t \in DOMAIN sessions => sessions'[t] = sessions[t]
                     /\ conns[t] # NoConn => got'[conns[t]] = got[conns[t]]
<1>1. TypeOK /\ opened \in Nat
  BY ConnNumbers, TypeParts DEF IInv
<1> PICK f : f = [conn |-> opened + 1, n |-> 1, dir |-> "open"]
  OBVIOUS
<1> PICK s : s = [connected |-> TRUE, frames |-> <<>>]
  OBVIOUS
<1>2. /\ opened < MaxConns /\ conns' = [conns EXCEPT ![u] = opened + 1]
      /\ got' = [got EXCEPT ![opened + 1] = 1]
      /\ pending' = [pending EXCEPT ![u] = Append(before, f)]
      /\ Emit(WithSession(u, s))
  BY DEF Establish
<1>3. f.n = 1 /\ f.conn = opened + 1 /\ s.frames = <<>>
  OBVIOUS
<1>4. opened + 1 \in Conns /\ opened + 1 # NoConn
  BY <1>1, <1>2, ConnNumbers DEF Conns, NoConn
<1>5. /\ conns'[u] = opened + 1 /\ pending'[u] = Append(before, f) /\ got'[opened + 1] = 1
      /\ \A t \in Tabs \ {u} : conns'[t] = conns[t] /\ pending'[t] = pending[t]
  BY <1>1, <1>2, <1>4, TypeParts
<1>6. SessionFor(u)' = s /\ \A t : t # u =>
        /\ t \in DOMAIN sessions' <=> t \in DOMAIN sessions
        /\ t \in DOMAIN sessions => sessions'[t] = sessions[t]
  BY <1>2, Emitted
<1>7. \A t \in Tabs \ {u} : conns[t] # NoConn => got'[conns[t]] = got[conns[t]]
  BY <1>1, <1>2, OtherConns, TypeParts
<1> QED
  BY <1>3, <1>4, <1>5, <1>6, <1>7

\* The tab of a connect or a disconnect has not been reported.
LEMMA OpenNotGone ==
  ASSUME IInv, NEW t \in Tabs \ reopened, t \in open
  PROVE  ~Gone(t)
BY OpenNotTold DEF IInv, TabOK, Gone

-----------------------------------------------------------------------------
\* The connection of a tab goes to the handler that closes it.
LEMMA ParkLogs ==
  ASSUME IInv, IInv', NEW u \in Tabs, u \in open,
         NEW task, task.tab = u, task.kind \in {"connect", "disconnect"}, Park(u, task),
         UNCHANGED <<told, reopened, batches, sessions, got>>,
         NEW t \in Tabs \ reopened, Logged(t)
  PROVE  Logged(t)'
<1>1. /\ waiting' = Put(waiting, conns[u], task)
      /\ conns' = [conns EXCEPT ![u] = NoConn] /\ pending' = [pending EXCEPT ![u] = <<>>]
      /\ epochs' = [epochs EXCEPT ![u] = @ + 1] /\ TypeOK
  BY DEF Park, Bumped, IInv
<1>2. CASE t = u
  <2>1. epochs'[t] = epochs[t] + 1 /\ conns'[t] = NoConn /\ pending'[t] = <<>>
    BY <1>1, <1>2, TypeParts
  <2>2. ~Gone(t) /\ epochs[t] \in Nat
    BY <1>1, <1>2, OpenNotGone, TabTypes
  <2>3. EpochStep(t) /\ epochs'[t] # epochs[t]
    BY <2>1, <2>2 DEF EpochStep
  <2> QED
    BY <1>1, <2>1, <2>3, LogsDrop
<1>3. CASE t # u
  <2>0. Part(waiting)
    BY Parts
  <2>1. /\ DOMAIN waiting' = DOMAIN waiting \cup {conns[u]} /\ waiting'[conns[u]] = task
        /\ \A d \in DOMAIN waiting \ {conns[u]} :
             d \in DOMAIN waiting /\ waiting'[d] = waiting[d]
    BY <1>1, <2>0, PutFacts
  <2>2. WaitsFrom(t) /\ LoopsFrom(t)
    BY <1>3, <2>1 DEF WaitsFrom, LoopsFrom, Waits, IsTask
  <2>3. epochs'[t] = epochs[t] /\ conns'[t] = conns[t] /\ pending'[t] = pending[t]
    BY <1>1, <1>3, TypeParts
  <2> QED
    BY <2>2, <2>3, OthersLogged
<1> QED
  BY <1>2, <1>3

\* A tab without a connection: the handler runs through in one turn.
LEMMA AtOnceLogs ==
  ASSUME IInv, IInv', phase # "closed", NEW u \in Tabs, u \in open, conns[u] = NoConn,
         epochs' = Bumped(u),
         \/ Establish(u, <<>>)
         \/ /\ Refuse(u, <<>>) \/ (Reset(u, pending[u]) /\ UNCHANGED <<conns, got>>)
            /\ pending' = [pending EXCEPT ![u] = <<>>],
         UNCHANGED <<told, reopened, batches, waiting>>,
         NEW t \in Tabs \ reopened, Logged(t)
  PROVE  Logged(t)'
<1>1. TypeOK /\ epochs \in [Tabs -> Nat] /\ epochs[t] \in Nat
  BY TypeParts DEF IInv
<1>2. WaitsFrom(t) /\ LoopsFrom(t)
  BY DEF WaitsFrom, LoopsFrom, Waits, IsTask
<1>3. t # u => epochs'[t] = epochs[t]
  BY <1>1 DEF Bumped
<1>4. t = u => EpochStep(t) /\ epochs'[t] # epochs[t]
  <2> SUFFICES ASSUME t = u PROVE EpochStep(t) /\ epochs'[t] # epochs[t]
    OBVIOUS
  <2>1. epochs'[t] = epochs[t] + 1
    BY <1>1 DEF Bumped
  <2> QED
    BY <1>1, <2>1, OpenNotGone DEF EpochStep
<1>5. CASE Establish(u, <<>>)
  <2>1. PICK f : /\ f.n = 1 /\ f.conn # NoConn /\ conns'[u] = f.conn
                 /\ pending'[u] = Append(<<>>, f)
                 /\ SessionFor(u)'.frames = <<>> /\ got'[f.conn] = 1
                 /\ \A v \in Tabs \ {u} :
                      /\ conns'[v] = conns[v] /\ pending'[v] = pending[v]
                      /\ v \in DOMAIN sessions' <=> v \in DOMAIN sessions
                      /\ v \in DOMAIN sessions => sessions'[v] = sessions[v]
                      /\ conns[v] # NoConn => got'[conns[v]] = got[conns[v]]
    BY <1>1, <1>5, Establishes
  <2>2. Append(<<>>, f) = <<f>>
    OBVIOUS
  <2>3. CASE t = u
    BY <1>1, <1>4, <2>1, <2>2, <2>3, LogsStart
  <2>4. CASE t # u
    BY <1>2, <1>3, <2>1, <2>4, OthersLogged
  <2> QED
    BY <2>3, <2>4
<1>6. CASE /\ Refuse(u, <<>>) \/ (Reset(u, pending[u]) /\ UNCHANGED <<conns, got>>)
           /\ pending' = [pending EXCEPT ![u] = <<>>]
  <2>1. UNCHANGED <<conns, got>> /\ \E s : Emit(WithSession(u, s))
    BY <1>6 DEF Refuse, Reset
  <2>2. CASE t = u
    <3>1. conns'[t] = NoConn /\ pending'[t] = <<>>
      BY <1>1, <1>6, <2>1, <2>2, TypeParts
    <3> QED
      BY <1>1, <1>4, <2>2, <3>1, LogsDrop
  <2>3. CASE t # u
    <3>1. /\ t \in DOMAIN sessions' <=> t \in DOMAIN sessions
          /\ t \in DOMAIN sessions => sessions'[t] = sessions[t]
      BY <2>1, <2>3, Emitted
    <3>2. conns'[t] = conns[t] /\ pending'[t] = pending[t] /\ got' = got
      BY <1>1, <1>6, <2>1, <2>3, TypeParts
    <3> QED
      BY <1>2, <1>3, <2>3, <3>1, <3>2, OthersLogged
  <2> QED
    BY <2>2, <2>3
<1> QED
  BY <1>5, <1>6

\* A connect and a disconnect.
LEMMA UserLogs ==
  ASSUME IInv, IInv', NEW u \in Tabs, Connect(u) \/ Disconnect(u),
         NEW t \in Tabs \ reopened, Logged(t)
  PROVE  Logged(t)'
<1>1. /\ u \in open /\ phase # "closed" /\ UNCHANGED <<told, reopened, batches>>
  BY DEF Connect, Disconnect, Acts, tabsVars
<1>2. ASSUME NEW task \in {Connecting(u), Disconnecting(u)}, Park(u, task),
             UNCHANGED <<sessions, got>>
      PROVE  Logged(t)'
  <2>1. task.tab = u /\ task.kind \in {"connect", "disconnect"}
    BY <1>2 DEF Connecting, Disconnecting
  <2> QED
    BY <1>1, <1>2, <2>1, ParkLogs
<1>3. ASSUME conns[u] = NoConn, epochs' = Bumped(u), UNCHANGED waiting,
             \/ Establish(u, <<>>)
             \/ /\ Refuse(u, <<>>) \/ (Reset(u, pending[u]) /\ UNCHANGED <<conns, got>>)
                /\ pending' = [pending EXCEPT ![u] = <<>>]
      PROVE  Logged(t)'
  BY <1>1, <1>3, AtOnceLogs
<1>4. CASE Connect(u)
  <2>1. CASE Park(u, Connecting(u)) /\ UNCHANGED <<sessions, opened, got>>
    BY <1>2, <2>1
  <2>2. CASE /\ conns[u] = NoConn /\ epochs' = Bumped(u)
             /\ Establish(u, <<>>) \/ Refuse(u, <<>>)
             /\ UNCHANGED waiting
    BY <1>3, <2>2 DEF Refuse
  <2> QED
    BY <1>4, <2>1, <2>2 DEF Connect
<1>5. CASE Disconnect(u)
  <2>1. UNCHANGED got
    BY <1>5 DEF Disconnect, wireVars
  <2>2. CASE Park(u, Disconnecting(u)) /\ UNCHANGED sessions
    BY <1>2, <2>1, <2>2
  <2>3. CASE /\ conns[u] = NoConn /\ epochs' = Bumped(u) /\ Reset(u, pending[u])
             /\ pending' = [pending EXCEPT ![u] = <<>>]
             /\ UNCHANGED <<conns, waiting>>
    BY <1>3, <2>1, <2>3
  <2> QED
    BY <1>5, <2>2, <2>3 DEF Disconnect
<1> QED
  BY <1>4, <1>5

-----------------------------------------------------------------------------
\* Turns that neither tear down nor connect.
LEMMA TurnLogs ==
  ASSUME IInv, IInv', phase # "closed", NEW u \in Tabs,
         \/ SendRealtimeMessage(u) \/ OpenTab(u) \/ ReopenTab(u)
         \/ ServerFrame(u) \/ ServerEnds(u) \/ FlushTimer(u) \/ FramesBatchReceived(u),
         NEW t \in Tabs \ reopened', Logged(t)
  PROVE  Logged(t)'
<1>1. /\ UNCHANGED <<waiting, epochs, conns>>
      /\ t \in Tabs \ reopened
  BY DEF SendRealtimeMessage, OpenTab, ReopenTab, ServerFrame, ServerEnds, Deliver, FlushTimer,
         FramesBatchReceived, tabsVars
<1>2. WaitsFrom(t) /\ LoopsFrom(t)
  BY <1>1 DEF WaitsFrom, LoopsFrom, Waits, IsTask
<1>3. TypeOK /\ Looping' /\ Owned(t)
  BY <1>1 DEF IInv, TabOK
<1>4. CASE OpenTab(u) \/ ReopenTab(u)
  <2>1. UNCHANGED <<pending, batches, sessions, got>> /\ (t \in told => t \in told')
    BY <1>4 DEF OpenTab, ReopenTab, wireVars
  <2> QED
    BY <1>1, <1>2, <2>1, OthersLogged
<1>5. ASSUME conns[u] # NoConn, NEW f \in Frame, f.conn = conns[u], f.n = got[conns[u]] + 1,
             pending' = [pending EXCEPT ![u] = Append(@, f)],
             got' = [got EXCEPT ![conns[u]] = @ + 1],
             UNCHANGED <<told, batches, sessions>>
      PROVE  Logged(t)'
  <2>1. CASE t = u
    <3>1. pending'[t] = Append(pending[t], f) /\ got'[conns[t]] = got[conns[t]] + 1
      BY <1>3, <1>5, <2>1, TypeParts
    <3>2. Gone(t) => Gone(t)'
      BY <1>1, <1>2, <1>3, <1>5, GoneStill
    <3>3. SessionFor(t)'.frames = SessionFor(t).frames
      BY <1>5 DEF SessionFor
    <3> QED
      BY <1>1, <1>2, <1>3, <1>5, <2>1, <3>1, <3>2, <3>3, LogsFrame
  <2>2. CASE t # u
    <3>1. conns[t] # NoConn => got'[conns[t]] = got[conns[t]]
      BY <1>3, <1>5, <2>2, OtherConns, TypeParts
    <3>2. pending'[t] = pending[t]
      BY <1>3, <1>5, <2>2, TypeParts
    <3> QED
      BY <1>1, <1>2, <1>5, <3>1, <3>2, OthersLogged
  <2> QED
    BY <2>1, <2>2
<1>6. CASE SendRealtimeMessage(u) \/ ServerFrame(u) \/ ServerEnds(u)
  <2>1. conns[u] # NoConn /\ UNCHANGED <<told, batches, sessions>>
    BY <1>6, ConnNumbers DEF SendRealtimeMessage, ServerFrame, ServerEnds, Deliver, tabsVars
  <2>2. conns[u] \in Conns /\ got[conns[u]] + 1 \in Nat
    BY <1>3, <2>1, TypeParts
  <2>3. \E dir \in {"open", "incoming", "outgoing", "end"} :
          /\ pending' = [pending EXCEPT
               ![u] = Append(@, [conn |-> conns[u], n |-> got[conns[u]] + 1, dir |-> dir])]
          /\ got' = [got EXCEPT ![conns[u]] = @ + 1]
    BY <1>6 DEF SendRealtimeMessage, ServerFrame, ServerEnds, Deliver
  <2>4. PICK dir \in {"open", "incoming", "outgoing", "end"} :
          /\ pending' = [pending EXCEPT
               ![u] = Append(@, [conn |-> conns[u], n |-> got[conns[u]] + 1, dir |-> dir])]
          /\ got' = [got EXCEPT ![conns[u]] = @ + 1]
    BY <2>3
  <2> PICK f : f = [conn |-> conns[u], n |-> got[conns[u]] + 1, dir |-> dir]
    OBVIOUS
  <2>5. f \in Frame /\ f.conn = conns[u] /\ f.n = got[conns[u]] + 1
    BY <2>2, FrameTyped
  <2> QED
    BY <1>5, <2>1, <2>4, <2>5
<1>7. CASE FlushTimer(u)
  <2>1. /\ pending[u] # <<>> /\ UNCHANGED <<told, sessions, got>>
        /\ batches' = [batches EXCEPT
             ![u] = Append(@, [frames |-> pending[u], epoch |-> epochs[u]])]
        /\ pending' = [pending EXCEPT ![u] = <<>>]
    BY <1>7 DEF FlushTimer, tabsVars, wireVars
  <2>2. CASE t = u
    <3>1. /\ batches'[t] = Append(batches[t], [frames |-> pending[t], epoch |-> epochs[t]])
          /\ pending'[t] = <<>>
      BY <1>3, <2>1, <2>2, TypeParts
    <3>2. Gone(t) => Gone(t)'
      BY <1>1, <1>2, <1>3, <2>1, GoneStill
    <3>3. SessionFor(t)'.frames = SessionFor(t).frames
      BY <2>1 DEF SessionFor
    <3> QED
      BY <1>1, <1>2, <1>3, <2>1, <2>2, <3>1, <3>2, <3>3, LogsFlush
  <2>3. CASE t # u
    <3>1. batches'[t] = batches[t] /\ pending'[t] = pending[t]
      BY <1>3, <2>1, <2>3, TypeParts
    <3> QED
      BY <1>1, <1>2, <2>1, <3>1, OthersLogged
  <2> QED
    BY <2>2, <2>3
<1>8. CASE FramesBatchReceived(u)
  <2> PICK batch : batch = Head(batches[u])
    OBVIOUS
  <2>1. /\ batches[u] # <<>> /\ UNCHANGED <<told, pending, got>>
        /\ batches' = [batches EXCEPT ![u] = Tail(@)]
        /\ \/ /\ Current(u, batch.epoch)
              /\ \E b : Emit(WithSession(u, [connected |-> b,
                   frames |-> Capped(SessionFor(u).frames \o batch.frames)]))
           \/ ~Current(u, batch.epoch) /\ UNCHANGED sessions
    BY <1>8 DEF FramesBatchReceived, tabsVars, wireVars
  <2>2. CASE t = u
    <3>1. batches'[t] = Tail(batches[t])
      BY <1>3, <2>1, <2>2, TypeParts
    <3>2. Gone(t) => Gone(t)'
      BY <1>1, <1>2, <1>3, <2>1, GoneStill
    <3>3. SessionFor(t)'.frames =
            IF Current(t, Head(batches[t]).epoch)
            THEN Capped(SessionFor(t).frames \o Head(batches[t]).frames)
            ELSE SessionFor(t).frames
      <4>1. CASE Current(u, batch.epoch)
        <5>1. PICK s : /\ s.frames = Capped(SessionFor(u).frames \o batch.frames)
                       /\ Emit(WithSession(u, s))
          BY <2>1, <4>1
        <5>2. SessionFor(u)' = s
          BY <5>1, Emitted
        <5> QED
          BY <2>2, <4>1, <5>1, <5>2
      <4>2. CASE ~Current(u, batch.epoch)
        BY <2>1, <2>2, <4>2 DEF SessionFor
      <4> QED
        BY <4>1, <4>2
    <3> QED
      BY <1>1, <1>2, <1>3, <2>1, <2>2, <3>1, <3>2, <3>3, LogsBatch
  <2>3. CASE t # u
    <3>1. batches'[t] = batches[t]
      BY <1>3, <2>1, <2>3, TypeParts
    <3>2. /\ t \in DOMAIN sessions' <=> t \in DOMAIN sessions
          /\ t \in DOMAIN sessions => sessions'[t] = sessions[t]
      <4>1. CASE Current(u, batch.epoch)
        <5>1. PICK s : Emit(WithSession(u, s))
          BY <2>1, <4>1
        <5> QED
          BY <2>3, <5>1, Emitted
      <4>2. CASE ~Current(u, batch.epoch)
        BY <2>1, <4>2
      <4> QED
        BY <4>1, <4>2
    <3> QED
      BY <1>1, <1>2, <2>1, <3>1, <3>2, OthersLogged
  <2> QED
    BY <2>2, <2>3
<1> QED
  BY <1>4, <1>6, <1>7, <1>8

-----------------------------------------------------------------------------
(* What closing tabs, sockets and the bloc does to the logs. *)

\* A tab that the loop over closed tabs has passed has no log left to keep.
LEMMA PassedLogs ==
  ASSUME IInv, IInv', NEW t \in Tabs, Logged(t), WaitsFrom(t),
         t \in told', epochs'[t] = 0, conns[t] = NoConn, conns'[t] = NoConn,
         pending'[t] = pending[t], batches'[t] = batches[t],
         \A d \in DOMAIN waiting' : IsTask(d, "tabs")' /\ t \in waiting'[d].all => ~Ahead(d, t)'
  PROVE  Logged(t)'
<1>1. TypeOK /\ Looping'
  BY DEF IInv
<1>2. \A d \in DOMAIN waiting' : IsTask(d, "tabs")' => ~Ahead(d, t)'
  BY <1>1 DEF Looping, Ahead
<1>3. EpochStep(t)
  BY <1>2 DEF EpochStep, Gone
<1>4. pending'[t] = <<>>
  BY DEF Logged
<1> QED
  BY <1>1, <1>3, <1>4, LogsDrop

\* The loop over closed tabs goes on.
LEMMA LoopLogs ==
  ASSUME IInv, IInv', phase # "closed", NEW all, NEW tabs, NEW es, NEW others,
         LoopStep(all, tabs, es, others), UNCHANGED got,
         NEW t \in Tabs \ reopened, Logged(t)
  PROVE  Logged(t)'
<1> SUFFICES ASSUME all \in SUBSET Tabs, tabs \in SUBSET all,
         es \in [Tabs -> Nat], Part(others),
         \/ Finishes(all, tabs, es, others)
         \/ \E u \in Tabs, more \in Seq(Tabs) : Stops(all, tabs, es, others, u, more),
         \A v \in Tabs \ (all \ tabs) : es[v] = epochs[v],
         t \in told' <=> t \in told \cup all,
         UNCHANGED batches,
         t \in all =>
           /\ \A d \in DOMAIN others : IsTask(d, "tabs") => t \notin waiting[d].all
           /\ t \in tabs => ~Gone(t)
           /\ t \notin tabs => es[t] = 0 /\ conns[t] = NoConn
         PROVE Logged(t)'
  BY DEF LoopStep
<1>1. TypeOK /\ Wired /\ epochs[t] \in Nat
  BY TabTypes DEF IInv
<1>2. CASE Finishes(all, tabs, es, others)
  <2>1. /\ \A v \in tabs : conns[v] = NoConn
        /\ \A v \in Tabs : epochs'[v] = IF v \in tabs THEN 0 ELSE es[v]
        /\ waiting' = others /\ Emit(Without(all)) /\ UNCHANGED <<conns, pending>>
    BY <1>2 DEF Finishes
  <2>2. WaitsFrom(t) /\ LoopsFrom(t)
    BY <2>1, PartTasks
  <2>3. CASE t \in all
    <3>1. epochs'[t] = 0 /\ conns'[t] = NoConn /\ conns[t] = NoConn /\ pending'[t] = pending[t]
      BY <2>1, <2>3
    <3>2. \A d \in DOMAIN waiting' : IsTask(d, "tabs")' /\ t \in waiting'[d].all => ~Ahead(d, t)'
      BY <2>1, <2>3 DEF Part, IsTask
    <3> QED
      BY <2>2, <2>3, <3>1, <3>2, PassedLogs
  <2>4. CASE t \notin all
    <3>1. epochs'[t] = epochs[t] /\ conns'[t] = conns[t] /\ pending'[t] = pending[t]
      BY <2>1, <2>4
    <3>2. /\ t \in DOMAIN sessions' <=> t \in DOMAIN sessions
          /\ t \in DOMAIN sessions => sessions'[t] = sessions[t]
      BY <2>1, <2>4 DEF Emit, Without
    <3> QED
      BY <2>2, <2>4, <3>1, <3>2, OthersLogged
  <2> QED
    BY <2>3, <2>4
<1>3. ASSUME NEW u \in Tabs, NEW more \in Seq(Tabs), Stops(all, tabs, es, others, u, more)
      PROVE  Logged(t)'
  <2> PICK k, task : k = conns[u] /\ task = Closing(all, u, more)
    OBVIOUS
  <2>1. /\ {u} \cup ToSet(more) \subseteq tabs /\ u \notin ToSet(more) /\ conns[u] # NoConn
        /\ \A v \in tabs \ ({u} \cup ToSet(more)) : conns[v] = NoConn
        /\ \A v \in Tabs : epochs'[v] = IF v = u THEN es[u] + 1
                                        ELSE IF v \in tabs \ ToSet(more) THEN 0 ELSE es[v]
        /\ conns' = [conns EXCEPT ![u] = NoConn] /\ pending' = [pending EXCEPT ![u] = <<>>]
        /\ waiting' = Put(others, k, task)
        /\ UNCHANGED sessions
    BY <1>3 DEF Stops
  <2>2. task.kind = "tabs" /\ task.all = all /\ task.tab = u /\ task.rest = more
    BY DEF Closing
  <2>3. /\ DOMAIN waiting' = DOMAIN others \cup {k} /\ waiting'[k] = task
        /\ \A d \in DOMAIN others \ {k} : d \in DOMAIN waiting /\ waiting'[d] = waiting[d]
    BY <2>1 DEF Put, Part
  <2>4. WaitsFrom(t)
    BY <2>2, <2>3 DEF WaitsFrom, Waits, IsTask
  <2>5. CASE t = u
    <3>1. ~Gone(t) /\ es[t] = epochs[t]
      BY <2>1, <2>5
    <3>2. epochs'[t] = epochs[t] + 1 /\ conns'[t] = NoConn /\ pending'[t] = <<>>
      BY <1>1, <2>1, <2>5, <3>1, TypeParts
    <3>3. EpochStep(t)
      BY <3>1, <3>2 DEF EpochStep
    <3> QED
      BY <1>1, <2>4, <3>2, <3>3, LogsDrop
  <2>6. CASE t # u
    <3>1. conns'[t] = conns[t] /\ pending'[t] = pending[t]
      BY <1>1, <2>1, <2>6, TypeParts
    <3>2. CASE t \in ToSet(more)
      <4>1. ~Gone(t) /\ epochs'[t] = epochs[t]
        BY <2>1, <2>6, <3>2
      <4>2. SessionFor(t)'.frames = SessionFor(t).frames
        BY <2>1 DEF SessionFor
      <4> QED
        BY <1>1, <2>4, <3>1, <4>1, <4>2, LogsKeep
    <3>3. CASE t \in all \ ToSet(more)
      <4>1. epochs'[t] = 0 /\ conns[t] = NoConn
        BY <2>1, <2>6, <3>3
      <4>2. \A d \in DOMAIN waiting' : IsTask(d, "tabs")' /\ t \in waiting'[d].all => ~Ahead(d, t)'
        BY <2>2, <2>3, <2>6, <3>3 DEF Ahead, IsTask
      <4>3. t \in told'
        BY <3>3
      <4> QED
        BY <2>4, <3>1, <4>1, <4>2, <4>3, PassedLogs
    <3>4. CASE t \notin all
      <4>1. epochs'[t] = epochs[t]
        BY <2>1, <2>6, <3>4
      <4>2. LoopsFrom(t)
        BY <2>2, <2>3, <3>4 DEF LoopsFrom, IsTask
      <4> QED
        BY <2>1, <2>4, <3>1, <3>4, <4>1, <4>2, OthersLogged
    <3> QED
      BY <2>1, <3>2, <3>3, <3>4
  <2> QED
    BY <2>5, <2>6
<1> QED
  BY <1>2, <1>3

\* Closing tabs, and the loop going on after a socket has closed.
LEMMA ClosingLogs ==
  ASSUME IInv, IInv', phase # "closed",
         (\E ts \in SUBSET Tabs : CloseTabs(ts)) \/ (\E c \in Conns : ResumeTabsClosed(c)),
         NEW t \in Tabs \ reopened, Logged(t)
  PROVE  Logged(t)'
<1>1. UNCHANGED <<got, batches>>
  BY DEF CloseTabs, ResumeTabsClosed, Closed, wireVars
<1>2. ASSUME NEW all, NEW tabs, NEW es, NEW others, LoopStep(all, tabs, es, others)
      PROVE  Logged(t)'
  BY <1>1, <1>2, LoopLogs
<1>3. CASE UNCHANGED <<epochs, conns, pending, sessions, waiting, told>>
  <2>1. WaitsFrom(t) /\ LoopsFrom(t)
    BY <1>3 DEF WaitsFrom, LoopsFrom, Waits, IsTask
  <2> QED
    BY <1>1, <1>3, <2>1, OthersLogged
<1> QED
  BY <1>2, <1>3, CloseTabsLoops, ResumeTabsClosedLoops

-----------------------------------------------------------------------------
\* close() takes the connections and the frames from the tabs.
LEMMA CloseBlocLogs ==
  ASSUME IInv, IInv', CloseBloc, NEW t \in Tabs \ reopened, Logged(t)
  PROVE  Logged(t)'
<1>1. /\ conns'[t] = NoConn /\ pending'[t] = <<>>
      /\ UNCHANGED <<epochs, batches, told>> /\ TypeOK /\ Looping'
  BY DEF CloseBloc, tabsVars, IInv
<1>2. PICK rest : QuitRest(rest, waiting)
  BY DEF CloseBloc
<1> PICK k, task : k = Head(rest) /\ task = Quitting(Tail(rest))
  OBVIOUS
<1>3. UNCHANGED waiting \/ (waiting' = Put(waiting, k, task) /\ task.kind = "quit")
  BY <1>2 DEF QuitRest, Quitting
<1>4. WaitsFrom(t) /\ LoopsFrom(t)
  <2>1. CASE UNCHANGED waiting
    BY <2>1 DEF WaitsFrom, LoopsFrom, Waits, IsTask
  <2>2. CASE waiting' = Put(waiting, k, task) /\ task.kind = "quit"
    <3>1. Part(waiting)
      BY Parts
    <3>2. /\ DOMAIN waiting' = DOMAIN waiting \cup {k} /\ waiting'[k] = task
          /\ \A d \in DOMAIN waiting \ {k} : d \in DOMAIN waiting /\ waiting'[d] = waiting[d]
      BY <2>2, <3>1, PutFacts
    <3> QED
      BY <2>2, <3>2 DEF WaitsFrom, LoopsFrom, Waits, IsTask
  <2> QED
    BY <1>3, <2>1, <2>2
<1>5. EpochStep(t)
  BY <1>1, <1>4, GoneStill DEF EpochStep
<1> QED
  BY <1>1, <1>4, <1>5, LogsDrop

\* close() goes on to the next connection.
LEMMA QuitLogs ==
  ASSUME IInv, IInv', NEW c \in Conns, ResumeQuit(c), NEW t \in Tabs \ reopened, Logged(t)
  PROVE  Logged(t)'
<1>1. UNCHANGED <<epochs, conns, pending, sessions, opened, got, told, batches>>
  BY DEF ResumeQuit, Closed, tabsVars
<1> PICK others : others = Others(c)
  OBVIOUS
<1>2. PICK rest : QuitRest(rest, others)
  BY DEF ResumeQuit
<1> PICK k, task : k = Head(rest) /\ task = Quitting(Tail(rest))
  OBVIOUS
<1>3. waiting' = others \/ (waiting' = Put(others, k, task) /\ task.kind = "quit")
  BY <1>2 DEF QuitRest, Quitting
<1>4. Part(others)
  BY Parts
<1>5. WaitsFrom(t) /\ LoopsFrom(t)
  <2>1. CASE waiting' = others
    BY <1>4, <2>1, PartTasks
  <2>2. CASE waiting' = Put(others, k, task) /\ task.kind = "quit"
    <3>1. /\ DOMAIN waiting' = DOMAIN others \cup {k} /\ waiting'[k] = task
          /\ \A d \in DOMAIN others \ {k} : d \in DOMAIN waiting /\ waiting'[d] = waiting[d]
      BY <1>4, <2>2 DEF Put, Part
    <3> QED
      BY <2>2, <3>1 DEF WaitsFrom, LoopsFrom, Waits, IsTask
  <2> QED
    BY <1>3, <2>1, <2>2
<1> QED
  BY <1>1, <1>5, OthersLogged

\* A handler whose socket has closed connects, disconnects or gives up.
LEMMA HandlerLogs ==
  ASSUME IInv, IInv', phase # "closed", NEW c \in Conns,
         ResumeConnect(c) \/ ResumeDisconnect(c) \/ GiveUp(c),
         NEW t \in Tabs \ reopened, Logged(t)
  PROVE  Logged(t)'
<1>1. /\ c \in DOMAIN waiting /\ Waits(c) /\ waiting' = Others(c)
      /\ UNCHANGED <<epochs, batches, told>>
  BY DEF ResumeConnect, ResumeDisconnect, GiveUp, Closed, tabsVars, IsTask, Waits
<1>2. WaitsFrom(t) /\ LoopsFrom(t)
  BY <1>1, HandlerDone
<1>3. TypeOK /\ Looping' /\ WaitingOK /\ epochs \in [Tabs -> Nat]
  BY TypeParts DEF IInv
<1> PICK u : u = waiting[c].tab
  OBVIOUS
<1>4. u \in Tabs
  BY <1>1, <1>3, TaskFields
<1>5. t = u /\ GoesOn(c) => conns[t] = NoConn /\ Stale(t) /\ pending[t] = <<>>
  <2> SUFFICES ASSUME t = u, GoesOn(c)
               PROVE  conns[t] = NoConn /\ Stale(t) /\ pending[t] = <<>>
    OBVIOUS
  <2>1. conns[t] = NoConn
    BY <1>1, OwnerAlone
  <2> QED
    BY <1>1, <2>1 DEF Logged, GoesOn
<1>6. CASE GoesOn(c) /\ Establish(u, pending[u])
  <2> PICK before : before = pending[u]
    OBVIOUS
  <2>1. PICK f : /\ f.n = 1 /\ f.conn # NoConn /\ conns'[u] = f.conn
                 /\ pending'[u] = Append(before, f)
                 /\ SessionFor(u)'.frames = <<>> /\ got'[f.conn] = 1
                 /\ \A v \in Tabs \ {u} :
                      /\ conns'[v] = conns[v] /\ pending'[v] = pending[v]
                      /\ v \in DOMAIN sessions' <=> v \in DOMAIN sessions
                      /\ v \in DOMAIN sessions => sessions'[v] = sessions[v]
                      /\ conns[v] # NoConn => got'[conns[v]] = got[conns[v]]
    <3>1. Establish(u, before)
      BY <1>6
    <3> QED
      BY <1>3, <1>4, <3>1, Establishes
  <2>2. Append(<<>>, f) = <<f>>
    OBVIOUS
  <2>3. CASE t = u
    <3>1. pending'[t] = <<f>> /\ Stale(t)
      BY <1>5, <1>6, <2>1, <2>2, <2>3
    <3>2. EpochStep(t)
      BY <1>1, <1>2, <1>3, GoneStill DEF EpochStep
    <3> QED
      BY <1>1, <1>3, <2>1, <2>3, <3>1, <3>2, LogsStart
  <2>4. CASE t # u
    BY <1>1, <1>2, <2>1, <2>4, OthersLogged
  <2> QED
    BY <2>3, <2>4
<1>7. CASE UNCHANGED <<conns, pending, got>> /\
           (UNCHANGED sessions \/ (GoesOn(c) /\ \E s : Emit(WithSession(u, s))))
  <2>1. conns[t] # NoConn => /\ t \in DOMAIN sessions' <=> t \in DOMAIN sessions
                             /\ t \in DOMAIN sessions => sessions'[t] = sessions[t]
    <3>1. CASE UNCHANGED sessions
      BY <3>1
    <3>2. CASE GoesOn(c) /\ \E s : Emit(WithSession(u, s))
      <4> SUFFICES ASSUME conns[t] # NoConn
                   PROVE  /\ t \in DOMAIN sessions' <=> t \in DOMAIN sessions
                          /\ t \in DOMAIN sessions => sessions'[t] = sessions[t]
        OBVIOUS
      <4>1. PICK s : Emit(WithSession(u, s))
        BY <3>2
      <4>2. t # u
        BY <1>5, <3>2
      <4> QED
        BY <4>1, <4>2, Emitted
    <3> QED
      BY <1>7, <3>1, <3>2
  <2> QED
    BY <1>1, <1>2, <1>7, <2>1, OthersLogged
<1>8. CASE GoesOn(c) /\ Refuse(u, pending[u])
  <2>1. UNCHANGED <<conns, got>> /\ \E s : Emit(WithSession(u, s))
    BY <1>8 DEF Refuse
  <2>2. pending' = pending
    BY <1>3, <1>8, TypeParts DEF Refuse
  <2> QED
    BY <1>7, <1>8, <2>1, <2>2
<1>9. CASE ResumeDisconnect(c)
  <2>1. GoesOn(c) /\ (\E s : Emit(WithSession(u, s))) /\ UNCHANGED <<conns, got, pending>>
    BY <1>9 DEF ResumeDisconnect, Reset
  <2> QED
    BY <1>7, <2>1
<1>10. CASE GiveUp(c)
  BY <1>7, <1>10 DEF GiveUp
<1> QED
  BY <1>6, <1>8, <1>9, <1>10 DEF ResumeConnect

-----------------------------------------------------------------------------
\* No step of close() is left once the bloc is closed.
LEMMA QuitOver ==
  ASSUME IInv, LogsInv, [Next]_vars
  PROVE  /\ phase = "closed" => phase' = "closed"
         /\ phase' = "closed" => \A c \in DOMAIN waiting' : ~IsTask(c, "quit")'
<1> USE DEF IsTask
<1>1. Wired
  BY DEF IInv
<1>2. ASSUME NEW rest, NEW others, QuitRest(rest, others), Part(others),
             \A c \in DOMAIN others : ~IsTask(c, "quit")
      PROVE  phase' = "closed" => \A c \in DOMAIN waiting' : ~IsTask(c, "quit")'
  BY <1>2 DEF QuitRest, Part
<1>3. CASE CloseBloc
  <2>1. phase = "open" /\ \E rest : QuitRest(rest, waiting)
    BY <1>3 DEF CloseBloc, Acts
  <2> PICK others : others = waiting
    OBVIOUS
  <2>2. /\ Part(others) /\ \A c \in DOMAIN others : ~IsTask(c, "quit")
        /\ \E rest : QuitRest(rest, others)
    BY <1>1, <2>1, Parts DEF Wired
  <2> QED
    BY <1>2, <2>1, <2>2
<1>4. ASSUME NEW c \in Conns, ResumeQuit(c)
      PROVE  /\ phase = "closed" => phase' = "closed"
             /\ phase' = "closed" => \A d \in DOMAIN waiting' : ~IsTask(d, "quit")'
  <2>1. IsTask(c, "quit") /\ \E rest : QuitRest(rest, Others(c))
    BY <1>4 DEF ResumeQuit
  <2>2. phase # "closed"
    BY <2>1 DEF LogsInv
  <2> PICK others : others = Others(c)
    OBVIOUS
  <2>3. Part(others) /\ DOMAIN others = DOMAIN waiting \ {c}
    BY Parts, OthersKept
  <2>4. \A d \in DOMAIN others : ~IsTask(d, "quit")
    BY <1>1, <2>1, <2>3 DEF Wired, Part
  <2> QED
    BY <1>2, <2>1, <2>2, <2>3, <2>4
<1>5. ASSUME phase' = phase,
             \A c \in DOMAIN waiting' : IsTask(c, "quit")' =>
               c \in DOMAIN waiting /\ IsTask(c, "quit")
      PROVE  /\ phase = "closed" => phase' = "closed"
             /\ phase' = "closed" => \A c \in DOMAIN waiting' : ~IsTask(c, "quit")'
  BY <1>5 DEF LogsInv
<1>6. ASSUME phase' = phase, UNCHANGED waiting \/ phase # "closed" \/ Part(waiting')
      PROVE  /\ phase = "closed" => phase' = "closed"
             /\ phase' = "closed" => \A c \in DOMAIN waiting' : ~IsTask(c, "quit")'
  BY <1>5, <1>6 DEF LogsInv, Part
<1>7. ASSUME NEW all, NEW tabs, NEW es, NEW others, LoopStep(all, tabs, es, others)
      PROVE  \A c \in DOMAIN waiting' : IsTask(c, "quit")' =>
               c \in DOMAIN waiting /\ IsTask(c, "quit")
  <2>1. Part(others)
    BY <1>7 DEF LoopStep
  <2>2. CASE Finishes(all, tabs, es, others)
    BY <2>1, <2>2 DEF Finishes, Part
  <2>3. ASSUME NEW u, NEW more, Stops(all, tabs, es, others, u, more)
        PROVE  \A c \in DOMAIN waiting' : IsTask(c, "quit")' =>
                 c \in DOMAIN waiting /\ IsTask(c, "quit")
    <3> PICK k, task : k = conns[u] /\ task = Closing(all, u, more)
      OBVIOUS
    <3>1. waiting' = Put(others, k, task) /\ task.kind = "tabs"
      BY <2>3 DEF Stops, Closing
    <3>2. /\ DOMAIN waiting' = DOMAIN others \cup {k} /\ waiting'[k] = task
          /\ \A d \in DOMAIN others \ {k} : d \in DOMAIN waiting /\ waiting'[d] = waiting[d]
      BY <2>1, <3>1 DEF Put, Part
    <3> QED
      BY <3>1, <3>2
  <2> QED
    BY <1>7, <2>2, <2>3 DEF LoopStep
<1>8. CASE \E t \in Tabs : Connect(t) \/ Disconnect(t)
  BY <1>6, <1>8 DEF Connect, Disconnect, Acts
<1>9. CASE \E t \in Tabs :
             \/ SendRealtimeMessage(t) \/ OpenTab(t) \/ ReopenTab(t)
             \/ ServerFrame(t) \/ ServerEnds(t) \/ FlushTimer(t) \/ FramesBatchReceived(t)
  <2>1. UNCHANGED <<phase, waiting>>
    BY <1>9 DEF SendRealtimeMessage, OpenTab, ReopenTab, ServerFrame, ServerEnds, Deliver,
                FlushTimer, FramesBatchReceived
  <2> QED
    BY <1>6, <2>1
<1>10. CASE \E ts \in SUBSET Tabs : CloseTabs(ts)
  BY <1>6, <1>10 DEF CloseTabs, Acts
<1>11. ASSUME NEW c \in Conns, ResumeConnect(c) \/ ResumeDisconnect(c) \/ GiveUp(c)
       PROVE  phase' = phase /\ Part(waiting')
  BY <1>11, Parts DEF ResumeConnect, ResumeDisconnect, GiveUp, Closed
<1>12. ASSUME NEW c \in Conns, ResumeTabsClosed(c)
       PROVE  /\ phase' = phase
              /\ \A d \in DOMAIN waiting' : IsTask(d, "quit")' =>
                   d \in DOMAIN waiting /\ IsTask(d, "quit")
  <2>1. phase' = phase
    BY <1>12 DEF ResumeTabsClosed
  <2> QED
    BY <1>7, <1>12, <2>1, ResumeTabsClosedLoops
<1>13. CASE UNCHANGED vars
  BY <1>6, <1>13 DEF vars
<1>14. CASE Next
  BY <1>3, <1>4, <1>5, <1>6, <1>8, <1>9, <1>10, <1>11, <1>12, <1>14
     DEF Next, User, Wire, SocketClosed
<1> QED
  BY <1>13, <1>14

\* The logs are in order at the start,
LEMMA LogsInit == Init => LogsInv
<1> SUFFICES ASSUME Init PROVE LogsInv
  OBVIOUS
<1>1. phase = "open" /\ DOMAIN waiting = {}
  BY DEF Init
<1>2. ASSUME NEW t \in Tabs PROVE Logged(t)
  <2>1. conns[t] = NoConn /\ pending[t] = <<>> /\ batches[t] = <<>>
    BY DEF Init
  <2>2. DOMAIN batches[t] = {}
    BY <2>1
  <2> QED
    BY <1>1, <2>1, <2>2 DEF Logged
<1> QED
  BY <1>1, <1>2 DEF LogsInv

\* and stay so.
LEMMA LogsStep ==
  ASSUME IInv, IInv', LogsInv, [Next]_vars
  PROVE  LogsInv'
<1>1. /\ phase' # "closed" => phase # "closed"
      /\ phase' = "closed" => \A c \in DOMAIN waiting' : ~IsTask(c, "quit")'
  BY QuitOver
<1>2. ASSUME phase # "closed", NEW t \in Tabs \ reopened' PROVE Logged(t)'
  <2>1. CASE UNCHANGED vars
    <3>1. /\ UNCHANGED <<waiting, epochs, conns, pending, batches, sessions, got, told>>
          /\ t \in Tabs \ reopened
      BY <1>2, <2>1 DEF vars
    <3>2. WaitsFrom(t) /\ LoopsFrom(t)
      BY <3>1 DEF WaitsFrom, LoopsFrom, Waits, IsTask
    <3>3. Logged(t)
      BY <1>2, <3>1 DEF LogsInv
    <3> QED
      BY <3>1, <3>2, <3>3, OthersLogged
  <2>2. CASE \E u \in Tabs : ReopenTab(u)
    <3>1. PICK u \in Tabs : ReopenTab(u)
      BY <2>2
    <3>2. t \in Tabs \ reopened
      BY <1>2, <3>1 DEF ReopenTab
    <3>3. Logged(t)
      BY <1>2, <3>2 DEF LogsInv
    <3> QED
      BY <1>2, <3>1, <3>3, TurnLogs
  <2>3. CASE Next /\ ~\E u \in Tabs : ReopenTab(u)
    <3>1. UNCHANGED reopened
      BY <2>3 DEF Next, User, Wire, SocketClosed, Connect, Disconnect, SendRealtimeMessage, OpenTab,
                  CloseTabs, CloseBloc, ServerFrame, ServerEnds, Deliver, FlushTimer,
                  FramesBatchReceived, ResumeConnect, ResumeDisconnect, GiveUp, ResumeTabsClosed,
                  ResumeQuit, Closed, tabsVars
    <3>2. t \in Tabs \ reopened
      BY <1>2, <3>1
    <3>3. Logged(t)
      BY <1>2, <3>2 DEF LogsInv
    <3>4. ASSUME NEW u \in Tabs, Connect(u) \/ Disconnect(u) PROVE Logged(t)'
      BY <3>2, <3>3, <3>4, UserLogs
    <3>5. ASSUME NEW u \in Tabs,
                 \/ SendRealtimeMessage(u) \/ OpenTab(u) \/ ReopenTab(u)
                 \/ ServerFrame(u) \/ ServerEnds(u) \/ FlushTimer(u) \/ FramesBatchReceived(u)
          PROVE  Logged(t)'
      BY <1>2, <3>3, <3>5, TurnLogs
    <3>6. CASE (\E ts \in SUBSET Tabs : CloseTabs(ts)) \/ (\E c \in Conns : ResumeTabsClosed(c))
      BY <1>2, <3>2, <3>3, <3>6, ClosingLogs
    <3>7. CASE CloseBloc
      BY <3>2, <3>3, <3>7, CloseBlocLogs
    <3>8. ASSUME NEW c \in Conns, ResumeQuit(c) PROVE Logged(t)'
      BY <3>2, <3>3, <3>8, QuitLogs
    <3>9. ASSUME NEW c \in Conns, ResumeConnect(c) \/ ResumeDisconnect(c) \/ GiveUp(c)
          PROVE  Logged(t)'
      BY <1>2, <3>2, <3>3, <3>9, HandlerLogs
    <3> QED
      BY <2>3, <3>4, <3>5, <3>6, <3>7, <3>8, <3>9 DEF Next, User, Wire, SocketClosed
  <2> QED
    BY <2>1, <2>2, <2>3
<1> QED
  BY <1>1, <1>2 DEF LogsInv

\* The cap leaves of a chain that is too long its end.
LEMMA NothingLostThen == IInv /\ LogsInv => NothingLost
<1> SUFFICES ASSUME IInv, LogsInv, NEW t \in Tabs \ reopened,
                    conns[t] # NoConn, phase # "closed",
                    NEW frames, frames = Capped(Arrived(t)), NEW count, count = got[conns[t]]
             PROVE  /\ Len(frames) = IF count <= Cap THEN count ELSE Cap
                    /\ \A i \in DOMAIN frames :
                         /\ frames[i].conn = conns[t]
                         /\ frames[i].n = count - Len(frames) + i
  BY DEF NothingLost
<1> PICK A : A = Arrived(t)
  OBVIOUS
<1>1. TypeOK /\ Chained(A, SessionFor(t).frames, conns[t], count)
  BY DEF IInv, LogsInv, Logged
<1>2. PICK log, more : /\ log \in Seq(Frame) /\ more \in Seq(Frame)
                      /\ log = SessionFor(t).frames /\ A = log \o more
  <2>1. /\ SessionFor(t).frames \in Seq(Frame) /\ FlattenSeq(Waited(t)) \in Seq(Frame)
        /\ pending[t] \in Seq(Frame)
    BY <1>1, ArrivedTyped
  <2> PICK log, late, last : log = SessionFor(t).frames /\ late = FlattenSeq(Waited(t))
                             /\ last = pending[t]
    OBVIOUS
  <2>2. A = log \o late \o last
    BY DEF Arrived
  <2>3. log \in Seq(Frame) /\ late \in Seq(Frame) /\ last \in Seq(Frame)
    BY <2>1
  <2>4. log \o (late \o last) = log \o late \o last
    BY <2>3, FramesTogether
  <2>5. late \o last \in Seq(Frame)
    BY <2>3, ConcatProperties
  <2> QED
    BY <2>2, <2>3, <2>4, <2>5
<1>3. A \in Seq(Frame) /\ Len(A) \in Nat /\ Len(log) \in Nat /\ Len(log) <= Len(A)
  <2>1. Len(A) = Len(log) + Len(more) /\ Len(more) \in Nat /\ Len(log) \in Nat
    BY <1>2, ConcatProperties, LenProperties
  <2>2. A \in Seq(Frame)
    BY <1>2, ConcatProperties
  <2> QED
    BY <2>1, <2>2
<1>4. /\ Len(A) <= count /\ (Len(A) = count \/ Len(log) >= Cap)
      /\ \A i \in 1..Len(A) : A[i].conn = conns[t] /\ A[i].n = (count - Len(A)) + i
  BY <1>1, <1>2 DEF Chained
<1>5. /\ frames \in Seq(Frame) /\ Len(frames) = IF Len(A) <= Cap THEN Len(A) ELSE Cap
      /\ \A i \in 1..Len(frames) : frames[i] = A[i + (Len(A) - Len(frames))]
  BY <1>3, CappedEnd
<1>6. count \in Nat /\ Cap \in Nat
  BY <1>1, ConnNumbers, TabTypes, TypeParts
<1>7. Len(frames) = IF count <= Cap THEN count ELSE Cap
  BY <1>3, <1>4, <1>5, <1>6
<1>8. ASSUME NEW i \in DOMAIN frames
      PROVE  frames[i].conn = conns[t] /\ frames[i].n = count - Len(frames) + i
  <2>1. i \in 1..Len(frames) /\ Len(frames) \in Nat
    BY <1>5, <1>8, LenProperties
  <2> PICK j : j = i + (Len(A) - Len(frames))
    OBVIOUS
  <2>2. frames[i] = A[j]
    BY <1>5, <2>1
  <2>3. j \in 1..Len(A) /\ (count - Len(A)) + j = count - Len(frames) + i
    <3>1. Len(A) \in Nat /\ Len(frames) \in Nat /\ Len(frames) <= Len(A) /\ count \in Nat
      BY <1>3, <1>5, <1>6, <2>1
    <3> QED
      BY <2>1, <3>1
  <2> QED
    BY <1>4, <2>2, <2>3
<1> QED
  BY <1>7, <1>8

-----------------------------------------------------------------------------
(* The theorems. *)

\* The invariant holds at the start.
LEMMA InitEstablishes == Init => IInv
<1> SUFFICES ASSUME Init PROVE IInv
  OBVIOUS
<1>1. <<>> \in Seq(Frame) /\ <<>> \in Seq(Batch) /\ DOMAIN <<>> = {}
  BY EmptySeq
<1>2. /\ open \subseteq Tabs /\ lastAlive \subseteq Tabs /\ told = {} /\ reopened = {}
      /\ \A t \in Tabs : epochs[t] = 0 /\ conns[t] = NoConn /\ pending[t] = <<>> /\ batches[t] = <<>>
      /\ DOMAIN sessions = {} /\ DOMAIN waiting = {} /\ opened = 0 /\ ended = {} /\ released = {}
      /\ phase = "open" /\ events = 0
  BY <1>1 DEF Init
<1>3. TypeOK
  <2>1. /\ epochs \in [Tabs -> Nat] /\ conns \in [Tabs -> Conns \cup {NoConn}]
        /\ pending \in [Tabs -> Seq(Frame)] /\ got \in [Conns -> Nat]
    BY <1>1 DEF Init
  <2>2. batches \in [Tabs -> Seq([frames : Seq(Frame), epoch : Nat])]
    BY <1>1 DEF Init, Batch
  <2>3. SessionsOK /\ WaitingOK
    BY <1>2 DEF SessionsOK, WaitingOK
  <2> QED
    BY <1>2, <2>1, <2>2, <2>3, TypeParts, ConnNumbers
<1>4. Wired /\ Looping
  BY <1>2 DEF Wired, Looping, NoConn
<1>5. ASSUME NEW t \in Tabs PROVE TabOK(t)
  <2>1. Reported(t) /\ Owned(t)
    BY <1>2 DEF Reported, Owned
  <2>2. Buffered(t)
    BY <1>1, <1>2 DEF Buffered, Ends
  <2>3. Shown(t)
    BY <1>2, ConnNumbers DEF Shown
  <2> QED
    BY <2>1, <2>2, <2>3 DEF TabOK
<1>6. AllAccountedFor
  BY <1>2 DEF AllAccountedFor
<1> QED
  BY <1>3, <1>4, <1>5, <1>6 DEF IInv

\* Every step preserves the invariant.
LEMMA StepKeeps == IInv /\ [Next]_vars => IInv'
<1> SUFFICES ASSUME IInv, [Next]_vars PROVE IInv'
  OBVIOUS
<1>1. CASE UNCHANGED vars
  <2>1. UNCHANGED <<waiting, epochs, conns, phase, told, open, lastAlive, ended, pending, batches,
                    sessions, opened, released, reopened>>
    BY <1>1 DEF vars
  <2>2. TypeOK'
    BY <1>1 DEF IInv, TypeOK, vars
  <2>3. \A t \in Tabs \ reopened' : TabOK(t)'
    <3>1. \A t \in Tabs \ reopened : Reported(t)
      BY DEF IInv, TabOK
    <3> QED
      BY <2>1, <3>1, OtherTabs DEF Reported
  <2> QED
    BY <2>1, <2>2, <2>3, TurnFrame
<1>2. CASE Next
  <2>1. ASSUME NEW t \in Tabs, Connect(t) \/ Disconnect(t) PROVE IInv'
    BY <2>1, UserKeeps
  <2>2. ASSUME NEW t \in Tabs,
               \/ SendRealtimeMessage(t) \/ OpenTab(t) \/ ReopenTab(t)
               \/ ServerFrame(t) \/ ServerEnds(t) \/ FlushTimer(t) \/ FramesBatchReceived(t)
        PROVE  IInv'
    BY <2>2, TurnKeeps
  <2>3. ASSUME NEW ts \in SUBSET Tabs, CloseTabs(ts) PROVE IInv'
    BY <2>3, CloseTabsKeeps
  <2>4. CASE CloseBloc
    BY <2>4, CloseBlocKeeps
  <2>5. ASSUME NEW c \in Conns, SocketClosed(c) PROVE IInv'
    BY <2>5, ResumeKeeps, ResumeTabsClosedKeeps, ResumeQuitKeeps DEF SocketClosed
  <2> QED
    BY <1>2, <2>1, <2>2, <2>3, <2>4, <2>5 DEF Next, User, Wire
<1> QED
  BY <1>1, <1>2

\* The invariant holds in every behaviour.
THEOREM Invariance == Spec => []IInv
<1> QED
  BY InitEstablishes, StepKeeps, PTL DEF Spec

\* Every variable keeps its type, and no log outgrows its cap.
THEOREM TypeCorrect == Spec => []TypeOK
<1>1. IInv => TypeOK
  BY DEF IInv
<1> QED
  BY <1>1, Invariance, PTL

\* No socket leaks, however connects, disconnects and closings overtake each
\* other at the points where _onConnect, _onDisconnect and _onTabsClosed
\* await a socket.
THEOREM SocketsAreAccountedFor == Spec => []NoLeak
<1>1. IInv => NoLeak
  BY DEF IInv, NoLeak
<1> QED
  BY <1>1, Invariance, PTL

\* While a connection lives, its tab shows it, so that the user can disconnect.
THEOREM LiveConnectionsAreShown == Spec => []LiveIsShown
<1>1. ASSUME IInv PROVE LiveIsShown
  <2> SUFFICES ASSUME NEW t \in open \ reopened, phase = "open", conns[t] \in Conns \ ended
               PROVE  SessionFor(t).connected
    BY DEF LiveIsShown
  <2>1. t \in Tabs /\ Reported(t) /\ Shown(t)
    BY <1>1 DEF IInv, TabOK, TypeOK
  <2> QED
    BY <2>1 DEF Reported, Shown
<1> QED
  BY <1>1, Invariance, PTL

\* A tab that was reported closed leaves neither connection nor session nor
\* epoch behind once the loop of _onTabsClosed is through.
THEOREM ClosedTabsAreForgotten == Spec => []ReportedTabsForgotten
<1>1. ASSUME IInv PROVE ReportedTabsForgotten
  <2> SUFFICES ASSUME NEW t \in told \ reopened, phase = "open"
               PROVE  \/ \E c \in DOMAIN waiting : IsTask(c, "tabs") /\ t \in waiting[c].all
                      \/ conns[t] = NoConn /\ t \notin DOMAIN sessions /\ epochs[t] = 0
    BY DEF ReportedTabsForgotten
  <2>1. t \in Tabs /\ Shown(t)
    BY <1>1 DEF IInv, TabOK, TypeOK
  <2> QED
    BY <2>1 DEF Shown
<1> QED
  BY <1>1, Invariance, PTL

\* The log of a connected tab shows the newest frames of its connection, in
\* order and without a gap, once those buffered by _bufferFrame or on their way
\* to _onFramesBatch are added.
THEOREM NothingIsLost == Spec => []NothingLost
<1>1. IInv /\ LogsInv /\ [Next]_vars => IInv' /\ LogsInv'
  BY StepKeeps, LogsStep
<1>2. Init => IInv /\ LogsInv
  BY InitEstablishes, LogsInit
<1> QED
  BY <1>1, <1>2, NothingLostThen, PTL DEF Spec
==============================================================================
