--------------------------- MODULE TabsDisk_proofs ---------------------------
(***************************************************************************)
(* What a session of TabsBloc has on disk, or on its way there, for every  *)
(* number of tabs, panels, sends and events.  What waits in the queue and  *)
(* on the dirty set makes up for every difference between an open tab and  *)
(* its row, unless two commands fail; and a tab whose place has reached    *)
(* the disk keeps it on every disk that a killed process would leave, if   *)
(* none fails (TabsHistory).  Last, what every handler has left to do, and *)
(* that it makes the disk equal to what is shown once all of it is done.   *)
(***************************************************************************)
EXTENDS TabsBloc_proofs, TabsHistory

-----------------------------------------------------------------------------
(* The commands about a row, and what they will leave of it.               *)

Puts(op, t)    == op.kind = "putTab" /\ op.tab.id = t
Deletes(op, t) == op.kind = "deleteTabs" /\ t \in op.tabs
About(op, t)   == Puts(op, t) \/ Deletes(op, t)

\* When the n-th command of a queue is due, tab t has no row, if none fails.
GoneBefore(q, tabs, t, n) ==
  \E j \in 0..(n - 1) :
    /\ IF j = 0 THEN t \notin DOMAIN tabs ELSE Deletes(q[j].op, t)
    /\ \A k \in (j + 1)..(n - 1) : ~Puts(q[k].op, t)

Gone(q, tabs, t) == GoneBefore(q, tabs, t, Len(q) + 1)

\* The row of tab t, if there is one, has content c, and nothing will change it.
Clean(q, tabs, t, c) ==
  /\ \A k \in DOMAIN q : ~About(q[k].op, t)
  /\ t \in DOMAIN tabs => Settled(tabs[t]) = c

\* The last command about tab t writes content c; if it fails the tab is put
\* back on the dirty set, or has no row, unless a command has failed before.
OnItsWay(q, tabs, f, t, c) ==
  \E i \in DOMAIN q :
    /\ Puts(q[i].op, t) /\ Settled(q[i].op.tab) = c
    /\ \A k \in DOMAIN q : k > i => ~About(q[k].op, t)
    /\ Flushes(q[i].rest) \/ f > 0 \/ GoneBefore(q, tabs, t, i)

\* Only the commands before the n-th matter to what it finds.
LEMMA SamePrefix ==
  ASSUME NEW q, NEW u, NEW tabs, NEW t, NEW n \in Nat,
         \A k \in 1..(n - 1) : u[k] = q[k], GoneBefore(q, tabs, t, n)
  PROVE  GoneBefore(u, tabs, t, n)
<1>1. PICK j \in 0..(n - 1) :
        /\ IF j = 0 THEN t \notin DOMAIN tabs ELSE Deletes(q[j].op, t)
        /\ \A k \in (j + 1)..(n - 1) : ~Puts(q[k].op, t)
  BY DEF GoneBefore
<1>2. j # 0 => u[j] = q[j]
  BY <1>1
<1>3. \A k \in (j + 1)..(n - 1) : u[k] = q[k]
  BY <1>1
<1>4. \A k \in (j + 1)..(n - 1) : ~Puts(u[k].op, t)
  BY <1>1, <1>3
<1> QED
  BY <1>1, <1>2, <1>4 DEF GoneBefore

\* Commands that are not about a tab, sent after the others.
LEMMA AppendedCalm ==
  ASSUME NEW S, NEW q \in Seq(S), NEW more \in Seq(S), NEW tabs, NEW t,
         \A k \in DOMAIN more : ~Puts(more[k].op, t)
  PROVE  /\ Gone(q, tabs, t) => Gone(q \o more, tabs, t)
         /\ (\A k \in DOMAIN more : ~Deletes(more[k].op, t)) =>
              \A c : /\ Clean(q, tabs, t, c) => Clean(q \o more, tabs, t, c)
                     /\ \A f : OnItsWay(q, tabs, f, t, c) =>
                                 OnItsWay(q \o more, tabs, f, t, c)
<1>1. PICK u : u = q \o more
  OBVIOUS
<1>2. /\ Len(q) \in Nat /\ DOMAIN q = 1..Len(q)
      /\ Len(more) \in Nat /\ Len(u) = Len(q) + Len(more)
      /\ DOMAIN u = 1..(Len(q) + Len(more))
      /\ \A k \in DOMAIN q : u[k] = q[k]
      /\ \A k \in DOMAIN u : k \notin DOMAIN q =>
           k - Len(q) \in DOMAIN more /\ u[k] = more[k - Len(q)]
  BY <1>1, ConcatParts
<1>3. \A k \in DOMAIN u : k \notin DOMAIN q => ~Puts(u[k].op, t)
  BY <1>2
<1>4. ASSUME Gone(q, tabs, t) PROVE Gone(u, tabs, t)
  <2>1. PICK j \in 0..Len(q) :
          /\ IF j = 0 THEN t \notin DOMAIN tabs ELSE Deletes(q[j].op, t)
          /\ \A k \in (j + 1)..Len(q) : ~Puts(q[k].op, t)
    BY <1>2, <1>4 DEF Gone, GoneBefore
  <2>2. j \in 0..Len(u) /\ (j # 0 => u[j] = q[j])
    BY <1>2
  <2>3. \A k \in (j + 1)..Len(u) : ~Puts(u[k].op, t)
    <3> SUFFICES ASSUME NEW k \in (j + 1)..Len(u) PROVE ~Puts(u[k].op, t)
      OBVIOUS
    <3>1. CASE k <= Len(q)
      BY <1>2, <2>1, <3>1
    <3>2. CASE ~(k <= Len(q))
      BY <1>2, <1>3, <3>2
    <3> QED
      BY <3>1, <3>2
  <2>4. (Len(u) + 1) - 1 = Len(u)
    BY <1>2
  <2> QED
    BY <2>1, <2>2, <2>3, <2>4 DEF Gone, GoneBefore
<1>5. ASSUME \A k \in DOMAIN more : ~Deletes(more[k].op, t), NEW c
      PROVE  /\ Clean(q, tabs, t, c) => Clean(u, tabs, t, c)
             /\ \A f : OnItsWay(q, tabs, f, t, c) => OnItsWay(u, tabs, f, t, c)
  <2>1. \A k \in DOMAIN u : k \notin DOMAIN q => ~About(u[k].op, t)
    BY <1>2, <1>3, <1>5 DEF About
  <2>2. Clean(q, tabs, t, c) => Clean(u, tabs, t, c)
    BY <1>2, <2>1 DEF Clean
  <2>3. ASSUME NEW f, OnItsWay(q, tabs, f, t, c) PROVE OnItsWay(u, tabs, f, t, c)
    <3>1. PICK i \in DOMAIN q :
            /\ Puts(q[i].op, t) /\ Settled(q[i].op.tab) = c
            /\ \A k \in DOMAIN q : k > i => ~About(q[k].op, t)
            /\ Flushes(q[i].rest) \/ f > 0 \/ GoneBefore(q, tabs, t, i)
      BY <2>3 DEF OnItsWay
    <3>2. i \in DOMAIN u /\ u[i] = q[i]
      BY <1>2
    <3>3. GoneBefore(q, tabs, t, i) => GoneBefore(u, tabs, t, i)
      <4>1. i \in Nat /\ \A k \in 1..(i - 1) : u[k] = q[k]
        BY <1>2
      <4> QED
        BY <4>1, SamePrefix
    <3>4. \A k \in DOMAIN u : k > i => ~About(u[k].op, t)
      BY <1>2, <2>1, <3>1
    <3> QED
      BY <3>1, <3>2, <3>3, <3>4 DEF OnItsWay
  <2> QED
    BY <2>2, <2>3
<1> QED
  BY <1>1, <1>4, <1>5


\* A write of the tab, sent after the others.
LEMMA AppendedPut ==
  ASSUME NEW S, NEW q \in Seq(S), NEW e \in S, NEW tabs, NEW f, NEW t, NEW c,
         Puts(e.op, t), Settled(e.op.tab) = c,
         Flushes(e.rest) \/ f > 0 \/ Gone(q, tabs, t)
  PROVE  OnItsWay(q \o <<e>>, tabs, f, t, c)
<1>1. PICK u, n : u = q \o <<e>> /\ n = Len(q) + 1
  OBVIOUS
<1>2. /\ Len(q) \in Nat /\ n \in Nat \ {0} /\ DOMAIN u = 1..n /\ u[n] = e
      /\ \A k \in 1..(n - 1) : u[k] = q[k]
  BY <1>1
<1>3. Gone(q, tabs, t) => GoneBefore(u, tabs, t, n)
  BY <1>1, <1>2, SamePrefix DEF Gone
<1>4. n \in DOMAIN u /\ \A k \in DOMAIN u : ~(k > n)
  BY <1>2
<1> QED
  BY <1>1, <1>2, <1>3, <1>4 DEF OnItsWay

\* The deletion of the tab, sent after the others.
LEMMA AppendedDelete ==
  ASSUME NEW S, NEW q \in Seq(S), NEW e \in S, NEW tabs, NEW t, Deletes(e.op, t)
  PROVE  Gone(q \o <<e>>, tabs, t)
<1>1. PICK u, n : u = q \o <<e>> /\ n = Len(q) + 1
  OBVIOUS
<1>2. /\ n \in Nat \ {0} /\ Len(u) = n /\ u[n] = e
  BY <1>1
<1>3. n \in 0..((n + 1) - 1) /\ \A k \in (n + 1)..((n + 1) - 1) : FALSE
  BY <1>2
<1> QED
  BY <1>1, <1>2, <1>3 DEF Gone, GoneBefore

\* What a command leaves of the row of tab t.
Leaves(op, tabs, new, t) ==
  /\ Puts(op, t) => t \in DOMAIN new /\ new[t] = op.tab
  /\ Deletes(op, t) => t \notin DOMAIN new
  /\ ~About(op, t) => /\ t \in DOMAIN new <=> t \in DOMAIN tabs
                      /\ t \in DOMAIN new => new[t] = tabs[t]

\* The first command has been executed: the others find the same.
LEMMA GoneBeforeNext ==
  ASSUME NEW S, NEW q \in Seq(S), q # <<>>, NEW tabs, NEW new, NEW t,
         Leaves(Head(q).op, tabs, new, t),
         NEW n \in 2..(Len(q) + 1), GoneBefore(q, tabs, t, n)
  PROVE  GoneBefore(Tail(q), new, t, n - 1)
<1>1. PICK u : u = Tail(q)
  OBVIOUS
<1>2. /\ Len(q) \in Nat \ {0} /\ Head(q) = q[1] /\ n \in Nat
      /\ \A k \in 1..(Len(q) - 1) : u[k] = q[k + 1]
  BY <1>1, TailParts
<1>3. PICK j \in 0..(n - 1) :
        /\ IF j = 0 THEN t \notin DOMAIN tabs ELSE Deletes(q[j].op, t)
        /\ \A k \in (j + 1)..(n - 1) : ~Puts(q[k].op, t)
  BY DEF GoneBefore
<1>4. \A k \in 1..((n - 1) - 1) : u[k] = q[k + 1] /\ k + 1 \in 1..(n - 1)
  BY <1>2
<1>5. CASE j \in {0, 1}
  <2>1. t \notin DOMAIN new
    <3>1. CASE j = 0
      <4>1. ~Puts(q[1].op, t)
        BY <1>2, <1>3, <3>1
      <4> QED
        BY <1>2, <1>3, <3>1, <4>1 DEF Leaves, About
    <3>2. CASE j = 1
      BY <1>2, <1>3, <3>2 DEF Leaves
    <3> QED
      BY <1>5, <3>1, <3>2
  <2>2. ASSUME NEW k \in (0 + 1)..((n - 1) - 1) PROVE ~Puts(u[k].op, t)
    <3>1. k + 1 \in (j + 1)..(n - 1) /\ u[k] = q[k + 1]
      BY <1>2, <1>4, <1>5
    <3> QED
      BY <1>3, <3>1
  <2>3. 0 \in 0..((n - 1) - 1)
    BY <1>2
  <2> QED
    BY <1>1, <2>1, <2>2, <2>3 DEF GoneBefore
<1>6. CASE j \notin {0, 1}
  <2>1. PICK i : i = j - 1
    OBVIOUS
  <2>2. i \in 0..((n - 1) - 1) /\ i # 0 /\ u[i] = q[j]
    BY <1>2, <1>3, <1>4, <1>6, <2>1
  <2>3. ASSUME NEW k \in (i + 1)..((n - 1) - 1) PROVE ~Puts(u[k].op, t)
    <3>1. k + 1 \in (j + 1)..(n - 1) /\ u[k] = q[k + 1]
      BY <1>2, <1>3, <1>4, <1>6, <2>1, <2>2
    <3> QED
      BY <1>3, <3>1
  <2>4. Deletes(u[i].op, t)
    BY <1>3, <1>6, <2>2
  <2> QED
    BY <1>1, <2>2, <2>3, <2>4 DEF GoneBefore
<1> QED
  BY <1>5, <1>6

\* The first command has been executed.
LEMMA Executed ==
  ASSUME NEW S, NEW q \in Seq(S), q # <<>>, NEW tabs, NEW new, NEW t,
         Leaves(Head(q).op, tabs, new, t)
  PROVE  /\ Gone(q, tabs, t) => Gone(Tail(q), new, t)
         /\ \A c : Clean(q, tabs, t, c) => Clean(Tail(q), new, t, c)
         /\ \A c, f : OnItsWay(q, tabs, f, t, c) =>
              Clean(Tail(q), new, t, c) \/ OnItsWay(Tail(q), new, f, t, c)
<1>1. PICK u : u = Tail(q)
  OBVIOUS
<1>2. /\ Len(q) \in Nat \ {0} /\ DOMAIN q = 1..Len(q) /\ Head(q) = q[1]
      /\ Len(u) = Len(q) - 1 /\ DOMAIN u = 1..(Len(q) - 1)
      /\ \A k \in DOMAIN u : u[k] = q[k + 1] /\ k + 1 \in DOMAIN q
  BY <1>1, TailParts
<1>3. Gone(q, tabs, t) => Gone(u, new, t)
  <2>1. Len(q) + 1 \in 2..(Len(q) + 1) /\ (Len(q) + 1) - 1 = Len(u) + 1
    BY <1>2
  <2> QED
    BY <1>1, <2>1, GoneBeforeNext DEF Gone
<1>4. ASSUME NEW c, Clean(q, tabs, t, c) PROVE Clean(u, new, t, c)
  <2>1. ~About(q[1].op, t)
    BY <1>2, <1>4 DEF Clean
  <2> QED
    BY <1>2, <1>4, <2>1 DEF Clean, Leaves
<1>5. ASSUME NEW c, NEW f, OnItsWay(q, tabs, f, t, c)
      PROVE  Clean(u, new, t, c) \/ OnItsWay(u, new, f, t, c)
  <2>1. PICK i \in DOMAIN q :
          /\ Puts(q[i].op, t) /\ Settled(q[i].op.tab) = c
          /\ \A k \in DOMAIN q : k > i => ~About(q[k].op, t)
          /\ Flushes(q[i].rest) \/ f > 0 \/ GoneBefore(q, tabs, t, i)
    BY <1>5 DEF OnItsWay
  <2>2. CASE i = 1
    <3>1. \A k \in DOMAIN u : ~About(u[k].op, t)
      BY <1>2, <2>1, <2>2
    <3>2. t \in DOMAIN new /\ new[t] = q[1].op.tab
      BY <1>2, <2>1, <2>2 DEF Leaves
    <3> QED
      BY <2>1, <2>2, <3>1, <3>2 DEF Clean
  <2>3. CASE i # 1
    <3>1. PICK j : j = i - 1
      OBVIOUS
    <3>2. j \in DOMAIN u /\ u[j] = q[i] /\ i \in 2..(Len(q) + 1)
      BY <1>2, <2>3, <3>1
    <3>3. \A k \in DOMAIN u : k > j => ~About(u[k].op, t)
      BY <1>2, <2>1, <3>1
    <3>4. GoneBefore(q, tabs, t, i) => GoneBefore(u, new, t, j)
      BY <1>1, <3>1, <3>2, GoneBeforeNext
    <3> QED
      BY <2>1, <3>2, <3>3, <3>4 DEF OnItsWay
  <2> QED
    BY <2>2, <2>3
<1> QED
  BY <1>1, <1>3, <1>4, <1>5

\* The first command has failed, and is the first that has.
LEMMA Failed ==
  ASSUME NEW S, NEW q \in Seq(S), q # <<>>, NEW tabs, NEW t, NEW c, NEW f, f > 0
  PROVE  /\ Clean(q, tabs, t, c) => Clean(Tail(q), tabs, t, c)
         /\ OnItsWay(q, tabs, 0, t, c) =>
              \/ Puts(Head(q).op, t) /\ Flushes(Head(q).rest)
              \/ Clean(Tail(q), tabs, t, c)
              \/ OnItsWay(Tail(q), tabs, f, t, c)
<1>1. PICK u : u = Tail(q)
  OBVIOUS
<1>2. /\ Len(q) \in Nat \ {0} /\ DOMAIN q = 1..Len(q) /\ Head(q) = q[1]
      /\ DOMAIN u = 1..(Len(q) - 1)
      /\ \A k \in DOMAIN u : u[k] = q[k + 1] /\ k + 1 \in DOMAIN q
  BY <1>1, TailParts
<1>3. Clean(q, tabs, t, c) => Clean(u, tabs, t, c)
  BY <1>2 DEF Clean
<1>4. ASSUME OnItsWay(q, tabs, 0, t, c)
      PROVE  \/ Puts(q[1].op, t) /\ Flushes(q[1].rest)
             \/ Clean(u, tabs, t, c)
             \/ OnItsWay(u, tabs, f, t, c)
  <2>1. PICK i \in DOMAIN q :
          /\ Puts(q[i].op, t) /\ Settled(q[i].op.tab) = c
          /\ \A k \in DOMAIN q : k > i => ~About(q[k].op, t)
          /\ Flushes(q[i].rest) \/ GoneBefore(q, tabs, t, i)
    BY <1>4 DEF OnItsWay
  <2>2. CASE i = 1
    <3>1. \A k \in DOMAIN u : ~About(u[k].op, t)
      BY <1>2, <2>1, <2>2
    <3>2. GoneBefore(q, tabs, t, 1) => t \notin DOMAIN tabs
      BY DEF GoneBefore
    <3> QED
      BY <2>1, <2>2, <3>1, <3>2 DEF Clean
  <2>3. CASE i # 1
    <3>1. PICK j : j = i - 1
      OBVIOUS
    <3>2. j \in DOMAIN u /\ u[j] = q[i]
      BY <1>2, <2>3, <3>1
    <3>3. \A k \in DOMAIN u : k > j => ~About(u[k].op, t)
      BY <1>2, <2>1, <3>1
    <3> QED
      BY <2>1, <3>2, <3>3 DEF OnItsWay
  <2> QED
    BY <2>2, <2>3
<1> QED
  BY <1>1, <1>2, <1>3, <1>4

\* Two queues that say the same of tab t.
LEMMA SameAbout ==
  ASSUME NEW q, NEW u, NEW t, NEW tabs, DOMAIN q = DOMAIN u, Len(q) = Len(u),
         Len(q) \in Nat, DOMAIN q = 1..Len(q),
         \A k \in DOMAIN q :
           /\ u[k].rest = q[k].rest
           /\ u[k].op = q[k].op \/ (~About(q[k].op, t) /\ ~About(u[k].op, t))
  PROVE  /\ Gone(q, tabs, t) => Gone(u, tabs, t)
         /\ \A c : Clean(q, tabs, t, c) => Clean(u, tabs, t, c)
         /\ \A f, c : OnItsWay(q, tabs, f, t, c) => OnItsWay(u, tabs, f, t, c)
<1>1. \A k \in DOMAIN q : /\ Puts(u[k].op, t) <=> Puts(q[k].op, t)
                          /\ Deletes(u[k].op, t) <=> Deletes(q[k].op, t)
                          /\ Puts(q[k].op, t) => u[k].op = q[k].op
  BY DEF About
<1>2. ASSUME NEW n \in 1..(Len(q) + 1), GoneBefore(q, tabs, t, n)
      PROVE  GoneBefore(u, tabs, t, n)
  <2>1. PICK j \in 0..(n - 1) :
          /\ IF j = 0 THEN t \notin DOMAIN tabs ELSE Deletes(q[j].op, t)
          /\ \A k \in (j + 1)..(n - 1) : ~Puts(q[k].op, t)
    BY <1>2 DEF GoneBefore
  <2>2. j # 0 => Deletes(u[j].op, t)
    BY <1>1, <2>1
  <2>3. \A k \in (j + 1)..(n - 1) : k \in DOMAIN q
    BY <2>1
  <2>4. \A k \in (j + 1)..(n - 1) : ~Puts(u[k].op, t)
    BY <1>1, <2>1, <2>3
  <2> QED
    BY <2>1, <2>2, <2>4 DEF GoneBefore
<1>3. Gone(q, tabs, t) => Gone(u, tabs, t)
  <2>1. Len(q) + 1 \in 1..(Len(q) + 1)
    OBVIOUS
  <2> QED
    BY <1>2, <2>1 DEF Gone
<1>4. \A c : Clean(q, tabs, t, c) => Clean(u, tabs, t, c)
  BY <1>1 DEF Clean, About
<1>5. ASSUME NEW f, NEW c, OnItsWay(q, tabs, f, t, c) PROVE OnItsWay(u, tabs, f, t, c)
  <2>1. PICK i \in DOMAIN q :
          /\ Puts(q[i].op, t) /\ Settled(q[i].op.tab) = c
          /\ \A k \in DOMAIN q : k > i => ~About(q[k].op, t)
          /\ Flushes(q[i].rest) \/ f > 0 \/ GoneBefore(q, tabs, t, i)
    BY <1>5 DEF OnItsWay
  <2>2. GoneBefore(q, tabs, t, i) => GoneBefore(u, tabs, t, i)
    <3>1. i \in 1..(Len(q) + 1)
      OBVIOUS
    <3> QED
      BY <1>2, <3>1
  <2>3. \A k \in DOMAIN u : k > i => ~About(u[k].op, t)
    BY <1>1, <2>1 DEF About
  <2> QED
    BY <1>1, <2>1, <2>2, <2>3 DEF OnItsWay
<1> QED
  BY <1>3, <1>4, <1>5

-----------------------------------------------------------------------------
(* What a handler sends.                                                   *)

\* Steps that are taken one after the other, and the rest of them.
LEMMA LateParts ==
  ASSUME NEW S, NEW s \in Seq(S), NEW u \in Seq(S), Late(s), Late(u)
  PROVE  /\ s # <<>> => Late(Tail(s)) /\ Head(s).kind \notin {"putTab", "deleteTabs"}
         /\ Late(s \o u)
<1>1. s # <<>> => Late(Tail(s)) /\ Head(s).kind \notin {"putTab", "deleteTabs"}
  <2> SUFFICES ASSUME s # <<>>
               PROVE  Late(Tail(s)) /\ Head(s).kind \notin {"putTab", "deleteTabs"}
    OBVIOUS
  <2>1. /\ DOMAIN s = 1..Len(s) /\ Len(s) \in Nat \ {0} /\ Head(s) = s[1]
        /\ DOMAIN Tail(s) = 1..(Len(s) - 1)
        /\ \A k \in DOMAIN Tail(s) : Tail(s)[k] = s[k + 1]
    BY TailParts
  <2>2. 1 \in DOMAIN s /\ \A k \in DOMAIN Tail(s) : k + 1 \in DOMAIN s
    BY <2>1
  <2> QED
    BY <2>1, <2>2 DEF Late
<1>2. Late(s \o u)
  <2> SUFFICES ASSUME NEW k \in DOMAIN (s \o u)
               PROVE  (s \o u)[k].kind \notin {"putTab", "deleteTabs"}
    BY DEF Late
  <2>1. /\ k \in DOMAIN s => (s \o u)[k] = s[k]
        /\ k \notin DOMAIN s => k - Len(s) \in DOMAIN u /\ (s \o u)[k] = u[k - Len(s)]
    BY ConcatParts
  <2> QED
    BY <2>1 DEF Late
<1> QED
  BY <1>1, <1>2

\* A command that is about no row is not about the row of tab t.
LEMMA AboutRows ==
  ASSUME NEW op, ~RowKind(op), NEW t
  PROVE  ~About(op, t)
BY DEF RowKind, About, Puts, Deletes

\* A step that writes or deletes a row is sent as it is, and no other is.
LEMMA SentRows ==
  ASSUME NEW step, step.kind \in PlainKinds, NEW ps, NEW ord, NEW act
  PROVE  /\ RowKind(step) => Sent(step, ps, ord, act) = step
         /\ ~RowKind(step) => ~RowKind(Sent(step, ps, ord, act))
<1>1. CASE step.kind = "livePanel"
  BY <1>1 DEF Sent, PutPanel, RowKind
<1>2. CASE step.kind = "meta"
  BY <1>2 DEF Sent, PutMeta, RowKind
<1>3. CASE step.kind \notin {"livePanel", "meta"}
  <2>1. Sent(step, ps, ord, act) = step
    BY <1>3 DEF Sent
  <2> QED
    BY <2>1 DEF RowKind
<1> QED
  BY <1>1, <1>2, <1>3

\* The command of a handler that starts with a plain step.
FirstEntry(e, first, left) ==
  /\ e.rest = left /\ ~Reads(e)
  /\ RowKind(first) => e.op = first
  /\ ~RowKind(first) => ~RowKind(e.op)

LEMMA FirstSent ==
  ASSUME NEW steps, steps # <<>>, Head(steps).kind \in PlainKinds,
         NEW ps, NEW ord, NEW act
  PROVE  \E e : /\ Issue(steps, ps, ord, act) = <<e>>
                /\ FirstEntry(e, Head(steps), Tail(steps))
<1>1. Unfolded(steps, ps, ord) = steps
  BY DEF Unfolded, PlainKinds
<1>2. PICK op : op = Sent(Head(steps), ps, ord, act)
  OBVIOUS
<1>3. PICK e : e = [op |-> op, rest |-> Tail(steps)]
  OBVIOUS
<1>4. Issue(steps, ps, ord, act) = <<e>>
  BY <1>1, <1>2, <1>3 DEF Issue, PlainKinds
<1>5. e.op = op /\ e.rest = Tail(steps)
  BY <1>3
<1>6. FirstEntry(e, Head(steps), Tail(steps))
  BY <1>2, <1>5, SentRows, SentQuiet DEF FirstEntry, Reads
<1> QED
  BY <1>4, <1>6

\* At most one command, which is no read, with nothing late after it.
Orderly(more) == more = <<>> \/ \E e : more = <<e>> /\ ~Reads(e) /\ Late(e.rest)

\* The commands of a handler that goes on: none but a flush is about a row,
\* and a flush writes a tab as it is shown.
Saves(more, ps) ==
  \A k \in DOMAIN more : RowKind(more[k].op) =>
    /\ Flushes(more[k].rest) /\ more[k].op.kind = "putTab"
    /\ more[k].op.tab \in Copies(ps)

\* A flush stops at the first open tab of its list.
LEMMA FirstToFlush ==
  ASSUME NEW ps, NEW todo \in Seq(TabId), NEW j \in 1..Len(todo), IsOpen(ps, todo[j])
  PROVE  NextToFlush(todo, ps) \in 1..j
<1> DEFINE I == {i \in 1..Len(todo) : IsOpen(ps, todo[i])}
<1>1. NextToFlush(todo, ps) = IF I # {} THEN Min(I) ELSE 0
  BY DEF NextToFlush, SelectInSeq
<1>2. I \in SUBSET Nat /\ j \in I /\ Len(todo) \in Nat
  OBVIOUS
<1>3. Min(I) \in I /\ \A m \in I : Min(I) <= m
  BY <1>2, MinIsLeast
<1>4. NextToFlush(todo, ps) = Min(I)
  BY <1>1, <1>2
<1> QED
  BY <1>2, <1>3, <1>4

\* What a handler that goes on sends, and the open tab a flush takes off the
\* dirty set to write.
LEMMA IssueSaves ==
  ASSUME NEW ps, NEW ord, NEW n, Sound(ps, ord, n), Once(ps), NEW act,
         NEW steps \in Steps(n), WellShaped(steps), Late(steps),
         NEW more, more = Issue(steps, ps, ord, act)
  PROVE  /\ Orderly(more) /\ Saves(more, ps)
         /\ \A v \in Copies(ps) : v.id \in Reached(steps, ps) =>
              \E e : more = <<e>> /\ e.op = PutTab(v) /\ Flushes(e.rest)
<1>1. /\ Len(steps) \in Nat /\ DOMAIN steps = 1..Len(steps)
      /\ \A i \in 1..Len(steps) : steps[i] \in KnownStep(n)
      /\ steps # <<>> => 1 \in 1..Len(steps) /\ Head(steps) = steps[1]
      /\ steps \in Seq(KnownStep(n))
  BY DEF Steps
<1>2. Flushes(steps) => /\ Head(steps).todo \in Seq(TabId) /\ Head(steps).kind = "flush"
                        /\ steps # <<>>
  <2>1. Flushes(steps) => Head(steps) \in KnownStep(n) /\ Head(steps).kind = "flush"
    BY <1>1 DEF Flushes
  <2> QED
    BY <2>1 DEF KnownStep, Step, Flushes
<1>3. CASE Flushes(steps) /\ NextToFlush(Head(steps).todo, ps) # 0
  <2> PICK todo : todo = Head(steps).todo
    OBVIOUS
  <2> PICK i : i = NextToFlush(todo, ps)
    OBVIOUS
  <2> PICK w : w = Found(ps, ord, todo[i])
    OBVIOUS
  <2> PICK again : again = Flush(SubSeq(todo, i + 1, Len(todo)))
    OBVIOUS
  <2> PICK e : e = [op |-> PutTab(w), rest |-> <<again>> \o Tail(steps)]
    OBVIOUS
  <2>1. todo \in Seq(TabId) /\ i \in 1..Len(todo) /\ IsOpen(ps, todo[i])
    BY <1>2, <1>3, NextToFlushProperties
  <2>2. w \in Copies(ps) /\ w.id = todo[i] /\ \A v \in Copies(ps) : v.id = todo[i] => v = w
    BY <2>1, FoundCopy
  <2>3. more = <<e>>
    <3>1. Unfolded(steps, ps, ord) = steps
      BY <1>2, <1>3 DEF Unfolded
    <3> QED
      BY <1>2, <1>3, <3>1 DEF Issue
  <2>4. e.op = PutTab(w) /\ e.rest = <<again>> \o Tail(steps) /\ again.kind = "flush"
    BY DEF Flush
  <2>5. PICK S : S = KnownStep(n) \cup {again}
    OBVIOUS
  <2>6. <<again>> \in Seq(S) /\ Tail(steps) \in Seq(S) /\ steps \in Seq(S)
    <3>1. steps \in Seq(S)
      BY <1>1, <2>5, SequenceOf
    <3> QED
      BY <1>2, <1>3, <2>5, <3>1
  <2>7. Late(<<again>>)
    BY <2>4 DEF Late
  <2>8. Late(Tail(steps))
    BY <1>2, <1>3, <2>6, LateParts
  <2>9. Late(e.rest)
    BY <2>4, <2>6, <2>7, <2>8, LateParts
  <2>10. Flushes(e.rest)
    <3>1. <<again>> \o Tail(steps) # <<>> /\ Head(<<again>> \o Tail(steps)) = again
      BY <2>6
    <3> QED
      BY <2>4, <3>1 DEF Flushes
  <2>11. Orderly(more)
    BY <2>3, <2>4, <2>9 DEF Orderly, Reads, PutTab
  <2>12. Saves(more, ps)
    <3>1. DOMAIN more = {1} /\ more[1] = e
      BY <2>3
    <3>2. e.op.kind = "putTab" /\ e.op.tab = w
      BY <2>4 DEF PutTab
    <3> QED
      BY <2>2, <2>10, <3>1, <3>2 DEF Saves
  <2>13. ASSUME NEW v \in Copies(ps), v.id \in Reached(steps, ps)
         PROVE  e.op = PutTab(v)
    <3>1. Reached(steps, ps) = ToSet(SubSeq(todo, 1, i))
      BY <1>2, <1>3 DEF Reached
    <3>2. PICK j \in 1..i : v.id = todo[j]
      <4>1. PICK u : u = SubSeq(todo, 1, i)
        OBVIOUS
      <4>2. DOMAIN u = 1..i /\ \A k \in 1..i : u[k] = todo[k]
        BY <2>1, <4>1
      <4>3. v.id \in ToSet(u)
        BY <2>13, <3>1, <4>1
      <4>4. PICK k \in DOMAIN u : v.id = u[k]
        BY <4>3 DEF ToSet
      <4> QED
        BY <4>2, <4>4
    <3>3. IsOpen(ps, todo[j]) /\ j \in 1..Len(todo)
      BY <2>1, <3>2, OpenCopy
    <3>4. i \in 1..j
      BY <2>1, <3>3, FirstToFlush
    <3>5. i = j
      BY <2>1, <3>2, <3>4
    <3> QED
      BY <2>2, <2>4, <3>2, <3>5
  <2> QED
    BY <2>3, <2>10, <2>11, <2>12, <2>13
<1>4. CASE ~(Flushes(steps) /\ NextToFlush(Head(steps).todo, ps) # 0)
  <2>1. PICK next : next = Unfolded(steps, ps, ord)
    OBVIOUS
  <2>2. next \in Seq(PlainStep(n))
    BY <1>4, <2>1, UnfoldedPlain
  <2>3. Late(next)
    <3>1. PICK after : after = IF Flushes(steps) THEN Tail(steps) ELSE steps
      OBVIOUS
    <3>2. after \in Seq(KnownStep(n)) /\ Late(after)
      <4>1. Flushes(steps) => Tail(steps) \in Seq(KnownStep(n)) /\ Late(Tail(steps))
        BY <1>1, <1>2, LateParts
      <4> QED
        BY <1>1, <3>1, <4>1
    <3>3. next = IF after # <<>> /\ Head(after).kind = "saveAll"
                 THEN PutEvery(ord, ps) \o Tail(after) ELSE after
      BY <1>4, <2>1, <3>1 DEF Unfolded, Flushes
    <3>4. CASE after # <<>> /\ Head(after).kind = "saveAll"
      <4>1. Tail(after) \in Seq(KnownStep(n)) /\ Late(Tail(after))
        BY <3>2, <3>4, LateParts
      <4>2. PutEvery(ord, ps) \in Seq(PlainStep(n)) /\ Late(PutEvery(ord, ps))
        <5>1. \A k \in DOMAIN PutEvery(ord, ps) : PutEvery(ord, ps)[k].kind = "putPanel"
          BY DEF PutEvery, PutPanel
        <5> QED
          BY <5>1, PutEveryPlain DEF Late
      <4>3. PutEvery(ord, ps) \in Seq(KnownStep(n))
        <5>1. PlainStep(n) \subseteq KnownStep(n)
          BY DEF PlainStep
        <5> QED
          BY <4>2, <5>1, SeqMonotonic
      <4> QED
        BY <3>3, <3>4, <4>1, <4>2, <4>3, LateParts
    <3>5. CASE ~(after # <<>> /\ Head(after).kind = "saveAll")
      BY <3>2, <3>3, <3>5
    <3> QED
      BY <3>4, <3>5
  <2>4. ASSUME NEW v \in Copies(ps) PROVE v.id \notin Reached(steps, ps)
    <3> SUFFICES ASSUME v.id \in Reached(steps, ps) PROVE FALSE
      OBVIOUS
    <3>1. Flushes(steps) /\ NextToFlush(Head(steps).todo, ps) = 0
      BY <1>4 DEF Reached, Flushes
    <3>2. v.id \in ToSet(Head(steps).todo)
      BY <3>1 DEF Reached
    <3>3. PICK j \in DOMAIN Head(steps).todo : v.id = Head(steps).todo[j]
      BY <3>2 DEF ToSet
    <3>4. j \in 1..Len(Head(steps).todo) /\ IsOpen(ps, Head(steps).todo[j])
      BY <1>2, <3>1, <3>3, OpenCopy
    <3>5. NextToFlush(Head(steps).todo, ps) \in 1..j
      BY <1>2, <3>1, <3>4, FirstToFlush
    <3> QED
      BY <3>1, <3>5
  <2>5. CASE next = <<>>
    <3>1. more = <<>> /\ DOMAIN <<>> = {}
      BY <2>1, <2>5 DEF Issue
    <3> QED
      BY <2>4, <3>1 DEF Orderly, Saves
  <2>6. CASE next # <<>>
    <3>1. Head(next) \in PlainStep(n) /\ Late(Tail(next)) /\ ~RowKind(Head(next))
      BY <2>2, <2>3, <2>6, LateParts DEF RowKind
    <3>2. Head(next).kind \in PlainKinds /\ Head(next).kind # "flush"
      BY <3>1 DEF PlainStep, KnownStep, Step, PlainKinds
    <3>3. PICK op : op = Sent(Head(next), ps, ord, act)
      OBVIOUS
    <3>4. PICK e : e = [op |-> op, rest |-> Tail(next)]
      OBVIOUS
    <3>5. more = <<e>> /\ e.op = op /\ e.rest = Tail(next)
      BY <2>1, <2>6, <3>2, <3>3, <3>4 DEF Issue
    <3>6. ~RowKind(op) /\ ~Reads(e)
      BY <3>1, <3>2, <3>3, <3>5, SentRows, SentQuiet DEF Reads
    <3>7. DOMAIN more = {1} /\ more[1] = e
      BY <3>5
    <3>8. Saves(more, ps)
      BY <3>5, <3>6, <3>7 DEF Saves
    <3> QED
      BY <2>4, <3>1, <3>5, <3>6, <3>8 DEF Orderly
  <2> QED
    BY <2>5, <2>6
<1> QED
  BY <1>3, <1>4

-----------------------------------------------------------------------------
(* The invariant.                                                          *)

\* An open tab is on the dirty set, or on disk as it is shown, or on its way.
Tracks(q, tabs, f, d, v) ==
  \/ v.id \in d
  \/ Clean(q, tabs, v.id, Settled(v))
  \/ OnItsWay(q, tabs, f, v.id, Settled(v))

LateRests(q) == \A k \in DOMAIN q : Late(q[k].rest)

\* The rows there are, or will be, are of tabs that have a number.
Numbered(q, tabs, n) ==
  /\ \A t \in DOMAIN tabs : t \in 1..n
  /\ \A k \in DOMAIN q : q[k].op.kind = "putTab" => q[k].op.tab.id \in 1..n

\* Every open tab is tracked until a second command fails, and no row of a tab
\* of the reopen stack will be left until a first one does.
Followed(q, tabs, f, ps, cl, d, n) ==
  /\ LateRests(q)
  /\ Numbered(q, tabs, n)
  /\ f <= 1 => \A v \in Copies(ps) : Tracks(q, tabs, f, d, v)
  /\ f = 0 => \A i \in DOMAIN cl : Gone(q, tabs, cl[i].tab.id)

\* No command is about the rows a session is being loaded from.
ReadsClean(q, tabs) ==
  \A i \in DOMAIN q :
    /\ q[i].op.kind = "getPanels" =>
         \A t \in DOMAIN tabs, k \in DOMAIN q : ~About(q[k].op, t)
    /\ q[i].op.kind = "getActive" =>
         \A v \in Copies(FoundPanels(q[i].op.found)) :
           Clean(q, tabs, v.id, Settled(v))

TInv ==
  /\ Followed(queue, disk.tabs, faults, panels, closed, dirty, nextTab)
  /\ ReadsClean(queue, disk.tabs)

\* New commands leave an open tab tracked, or are what it needs.
Secures(q, tabs, f, d, more, v) ==
  \/ v.id \in d
  \/ Tracks(q, tabs, f, d, v) /\ \A k \in DOMAIN more : ~About(more[k].op, v.id)
  \/ \E e : /\ more = <<e>> /\ Puts(e.op, v.id) /\ Settled(e.op.tab) = Settled(v)
            /\ Flushes(e.rest) \/ f > 0 \/ Gone(q, tabs, v.id)

\* New commands leave no row of tab t.
StaysGone(q, tabs, more, t) ==
  \/ Gone(q, tabs, t) /\ \A k \in DOMAIN more : ~Puts(more[k].op, t)
  \/ \E e : more = <<e>> /\ Deletes(e.op, t)

\* Commands are sent.
LEMMA AppendFollowed ==
  ASSUME NEW S, NEW q \in Seq(S), NEW more \in Seq(S), NEW tabs, NEW f, NEW ps,
         NEW cl, NEW d, NEW n \in Nat, NEW m \in Nat, n <= m,
         LateRests(q), LateRests(more), Numbered(q, tabs, n), Numbered(more, tabs, m),
         f <= 1 => \A v \in Copies(ps) : Secures(q, tabs, f, d, more, v),
         f = 0 => \A i \in DOMAIN cl : StaysGone(q, tabs, more, cl[i].tab.id)
  PROVE  Followed(q \o more, tabs, f, ps, cl, d, m)
<1>1. PICK u : u = q \o more
  OBVIOUS
<1>2. /\ \A k \in DOMAIN q : u[k] = q[k]
      /\ \A k \in DOMAIN u : k \notin DOMAIN q =>
           k - Len(q) \in DOMAIN more /\ u[k] = more[k - Len(q)]
  BY <1>1, ConcatParts
<1>3. LateRests(u)
  BY <1>2 DEF LateRests
<1>4. Numbered(u, tabs, m)
  <2>1. ASSUME NEW k \in DOMAIN u, u[k].op.kind = "putTab"
        PROVE  u[k].op.tab.id \in 1..m
    BY <1>2, <2>1 DEF Numbered
  <2> QED
    BY <2>1 DEF Numbered
<1>5. ASSUME f <= 1, NEW v \in Copies(ps) PROVE Tracks(u, tabs, f, d, v)
  <2>1. Secures(q, tabs, f, d, more, v)
    BY <1>5
  <2>2. CASE v.id \in d
    BY <2>2 DEF Tracks
  <2>3. CASE /\ Tracks(q, tabs, f, d, v)
             /\ \A k \in DOMAIN more : ~About(more[k].op, v.id)
    <3>1. \A k \in DOMAIN more : ~Puts(more[k].op, v.id) /\ ~Deletes(more[k].op, v.id)
      BY <2>3 DEF About
    <3>2. /\ Clean(q, tabs, v.id, Settled(v)) => Clean(u, tabs, v.id, Settled(v))
          /\ OnItsWay(q, tabs, f, v.id, Settled(v)) =>
               OnItsWay(u, tabs, f, v.id, Settled(v))
      BY <1>1, <3>1, AppendedCalm
    <3> QED
      BY <2>3, <3>2 DEF Tracks
  <2>4. ASSUME NEW e, more = <<e>>, Puts(e.op, v.id), Settled(e.op.tab) = Settled(v),
               Flushes(e.rest) \/ f > 0 \/ Gone(q, tabs, v.id)
        PROVE  Tracks(u, tabs, f, d, v)
    <3>1. e \in S
      BY <2>4, ConcatParts
    <3>2. OnItsWay(q \o <<e>>, tabs, f, v.id, Settled(v))
      BY <2>4, <3>1, AppendedPut
    <3> QED
      BY <1>1, <2>4, <3>2 DEF Tracks
  <2> QED
    BY <2>1, <2>2, <2>3, <2>4 DEF Secures
<1>6. ASSUME f = 0, NEW i \in DOMAIN cl PROVE Gone(u, tabs, cl[i].tab.id)
  <2>1. PICK t : t = cl[i].tab.id
    OBVIOUS
  <2>2. StaysGone(q, tabs, more, t)
    BY <1>6, <2>1
  <2>3. CASE Gone(q, tabs, t) /\ \A k \in DOMAIN more : ~Puts(more[k].op, t)
    BY <1>1, <2>1, <2>3, AppendedCalm
  <2>4. ASSUME NEW e, more = <<e>>, Deletes(e.op, t) PROVE Gone(u, tabs, t)
    <3>1. e \in S
      BY <2>4, ConcatParts
    <3> QED
      BY <1>1, <2>4, <3>1, AppendedDelete
  <2> QED
    BY <2>1, <2>2, <2>3, <2>4 DEF StaysGone
<1> QED
  BY <1>1, <1>3, <1>4, <1>5, <1>6 DEF Followed

\* They are not about a tab that is being read, and are no reads themselves.
LEMMA AppendReads ==
  ASSUME NEW S, NEW q \in Seq(S), NEW more \in Seq(S), NEW tabs, ReadsClean(q, tabs),
         \A k \in DOMAIN more : ~Reads(more[k]),
         \A i \in DOMAIN q, k \in DOMAIN more :
           /\ q[i].op.kind = "getPanels" => \A t \in DOMAIN tabs : ~About(more[k].op, t)
           /\ q[i].op.kind = "getActive" =>
                \A v \in Copies(FoundPanels(q[i].op.found)) : ~About(more[k].op, v.id)
  PROVE  ReadsClean(q \o more, tabs)
<1>1. PICK u : u = q \o more
  OBVIOUS
<1>2. /\ \A k \in DOMAIN q : u[k] = q[k]
      /\ \A k \in DOMAIN u : k \notin DOMAIN q =>
           k - Len(q) \in DOMAIN more /\ u[k] = more[k - Len(q)]
  BY <1>1, ConcatParts
<1>3. \A i \in DOMAIN u : Reads(u[i]) => i \in DOMAIN q /\ u[i] = q[i]
  BY <1>2
<1>4. ASSUME NEW i \in DOMAIN u, u[i].op.kind = "getPanels",
             NEW t \in DOMAIN tabs, NEW k \in DOMAIN u
      PROVE  ~About(u[k].op, t)
  <2>1. i \in DOMAIN q /\ q[i].op.kind = "getPanels"
    BY <1>3, <1>4 DEF Reads
  <2> QED
    BY <1>2, <2>1 DEF ReadsClean
<1>5. ASSUME NEW i \in DOMAIN u, u[i].op.kind = "getActive",
             NEW v \in Copies(FoundPanels(u[i].op.found))
      PROVE  Clean(u, tabs, v.id, Settled(v))
  <2>1. i \in DOMAIN q /\ u[i] = q[i] /\ q[i].op.kind = "getActive"
    BY <1>3, <1>5 DEF Reads
  <2>2. Clean(q, tabs, v.id, Settled(v)) /\ \A k \in DOMAIN more : ~About(more[k].op, v.id)
    BY <1>5, <2>1 DEF ReadsClean
  <2>3. \A k \in DOMAIN more : ~Puts(more[k].op, v.id) /\ ~Deletes(more[k].op, v.id)
    BY <2>2 DEF About
  <2> QED
    BY <1>1, <2>2, <2>3, AppendedCalm
<1> QED
  BY <1>1, <1>4, <1>5 DEF ReadsClean

\* The first command is executed.
LEMMA HeadExecuted ==
  ASSUME NEW S, NEW q \in Seq(S), q # <<>>, NEW tabs, NEW new, NEW f, NEW ps, NEW cl,
         NEW d, NEW n \in Nat, \A t : Leaves(Head(q).op, tabs, new, t),
         Followed(q, tabs, f, ps, cl, d, n), ReadsClean(q, tabs),
         \A i \in DOMAIN q : q[i].op.kind = "getPanels" => i = 1
  PROVE  Followed(Tail(q), new, f, ps, cl, d, n) /\ ReadsClean(Tail(q), new)
<1>1. PICK u : u = Tail(q)
  OBVIOUS
<1>2. /\ Head(q) = q[1] /\ 1 \in DOMAIN q /\ u \in Seq(S)
      /\ \A k \in DOMAIN u : u[k] = q[k + 1] /\ k + 1 \in DOMAIN q /\ k \in Nat \ {0}
  <2>1. /\ Len(q) \in Nat \ {0} /\ DOMAIN q = 1..Len(q) /\ Head(q) = q[1]
        /\ DOMAIN u = 1..(Len(q) - 1) /\ u \in Seq(S)
        /\ \A k \in DOMAIN u : u[k] = q[k + 1]
    BY <1>1, TailParts
  <2> QED
    BY <2>1
<1>3. LateRests(u)
  BY <1>2 DEF Followed, LateRests
<1>4. Numbered(u, new, n)
  <2>1. ASSUME NEW t \in DOMAIN new PROVE t \in 1..n
    <3>1. t \in DOMAIN tabs \/ Puts(q[1].op, t)
      BY <1>2, <2>1 DEF Leaves, About
    <3> QED
      BY <1>2, <3>1 DEF Followed, Numbered, Puts
  <2> QED
    BY <1>2, <2>1 DEF Followed, Numbered
<1>5. ASSUME f <= 1, NEW v \in Copies(ps) PROVE Tracks(u, new, f, d, v)
  <2>1. Tracks(q, tabs, f, d, v)
    BY <1>5 DEF Followed
  <2>2. PICK t, c : t = v.id /\ c = Settled(v)
    OBVIOUS
  <2>3. Leaves(Head(q).op, tabs, new, t)
    OBVIOUS
  <2>4. /\ Clean(q, tabs, t, c) => Clean(u, new, t, c)
        /\ OnItsWay(q, tabs, f, t, c) => Clean(u, new, t, c) \/ OnItsWay(u, new, f, t, c)
    BY <1>1, <2>3, Executed
  <2> QED
    BY <2>1, <2>2, <2>4 DEF Tracks
<1>6. ASSUME f = 0, NEW i \in DOMAIN cl PROVE Gone(u, new, cl[i].tab.id)
  <2>1. PICK t : t = cl[i].tab.id
    OBVIOUS
  <2>2. Gone(q, tabs, t)
    BY <1>6, <2>1 DEF Followed
  <2>3. Leaves(Head(q).op, tabs, new, t)
    OBVIOUS
  <2> QED
    BY <1>1, <2>1, <2>2, <2>3, Executed
<1>7. ReadsClean(u, new)
  <2>1. ASSUME NEW i \in DOMAIN u PROVE u[i].op.kind # "getPanels"
    BY <1>2
  <2>2. ASSUME NEW i \in DOMAIN u, u[i].op.kind = "getActive",
               NEW v \in Copies(FoundPanels(u[i].op.found))
        PROVE  Clean(u, new, v.id, Settled(v))
    <3>1. PICK t, c : t = v.id /\ c = Settled(v)
      OBVIOUS
    <3>2. Clean(q, tabs, t, c)
      BY <1>2, <2>2, <3>1 DEF ReadsClean
    <3>3. Leaves(Head(q).op, tabs, new, t)
      OBVIOUS
    <3> QED
      BY <1>1, <3>1, <3>2, <3>3, Executed
  <2> QED
    BY <2>1, <2>2 DEF ReadsClean
<1> QED
  BY <1>1, <1>3, <1>4, <1>5, <1>6, <1>7 DEF Followed

\* The first command fails.
LEMMA HeadFailed ==
  ASSUME NEW S, NEW q \in Seq(S), q # <<>>, NEW tabs, NEW f \in Nat, NEW ps, NEW cl,
         NEW d, NEW back, NEW n \in Nat,
         \A t : Puts(Head(q).op, t) /\ Flushes(Head(q).rest) => t \in back,
         Followed(q, tabs, f, ps, cl, d, n), ReadsClean(q, tabs),
         \A i \in DOMAIN q : q[i].op.kind = "getPanels" => i = 1
  PROVE  Followed(Tail(q), tabs, f + 1, ps, cl, d \cup back, n) /\ ReadsClean(Tail(q), tabs)
<1>1. PICK u, g : u = Tail(q) /\ g = f + 1
  OBVIOUS
<1>2. /\ Head(q) = q[1] /\ 1 \in DOMAIN q /\ u \in Seq(S)
      /\ \A k \in DOMAIN u : u[k] = q[k + 1] /\ k + 1 \in DOMAIN q /\ k \in Nat \ {0}
  <2>1. /\ Len(q) \in Nat \ {0} /\ DOMAIN q = 1..Len(q) /\ Head(q) = q[1]
        /\ DOMAIN u = 1..(Len(q) - 1) /\ u \in Seq(S)
        /\ \A k \in DOMAIN u : u[k] = q[k + 1]
    BY <1>1, TailParts
  <2> QED
    BY <2>1
<1>3. LateRests(u)
  BY <1>2 DEF Followed, LateRests
<1>4. Numbered(u, tabs, n)
  BY <1>2 DEF Followed, Numbered
<1>5. g > 0 /\ g # 0 /\ (g <= 1 => f = 0 /\ f <= 1)
  BY <1>1
<1>6. ASSUME g <= 1, NEW v \in Copies(ps) PROVE Tracks(u, tabs, g, d \cup back, v)
  <2>1. Tracks(q, tabs, f, d, v)
    BY <1>5, <1>6 DEF Followed
  <2>2. PICK t, c : t = v.id /\ c = Settled(v)
    OBVIOUS
  <2>3. /\ Clean(q, tabs, t, c) => Clean(u, tabs, t, c)
        /\ OnItsWay(q, tabs, 0, t, c) =>
             \/ Puts(Head(q).op, t) /\ Flushes(Head(q).rest)
             \/ Clean(u, tabs, t, c)
             \/ OnItsWay(u, tabs, g, t, c)
    BY <1>1, <1>5, Failed
  <2>4. f = 0
    BY <1>5, <1>6
  <2> QED
    BY <2>1, <2>2, <2>3, <2>4 DEF Tracks
<1>7. ReadsClean(u, tabs)
  <2>1. ASSUME NEW i \in DOMAIN u PROVE u[i].op.kind # "getPanels"
    BY <1>2
  <2>2. ASSUME NEW i \in DOMAIN u, u[i].op.kind = "getActive",
               NEW v \in Copies(FoundPanels(u[i].op.found))
        PROVE  Clean(u, tabs, v.id, Settled(v))
    <3>1. Clean(q, tabs, v.id, Settled(v))
      BY <1>2, <2>2 DEF ReadsClean
    <3> QED
      BY <1>2, <3>1 DEF Clean
  <2> QED
    BY <2>1, <2>2 DEF ReadsClean
<1> QED
  BY <1>1, <1>3, <1>4, <1>5, <1>6, <1>7 DEF Followed

\* A handler that goes on, and takes tabs off the dirty set to write them,
\* loses none.
LEMMA FlushSettles ==
  ASSUME NEW ps, NEW ord, NEW n, Sound(ps, ord, n), Once(ps), NEW act,
         NEW steps \in Steps(n), WellShaped(steps), Late(steps),
         NEW more, more = Issue(steps, ps, ord, act),
         NEW q, NEW tabs, NEW f, NEW d, NEW v \in Copies(ps), Tracks(q, tabs, f, d, v)
  PROVE  Secures(q, tabs, f, d \ Reached(steps, ps), more, v)
<1>1. /\ Orderly(more) /\ Saves(more, ps)
      /\ v.id \in Reached(steps, ps) =>
           \E e : more = <<e>> /\ e.op = PutTab(v) /\ Flushes(e.rest)
  BY IssueSaves
<1>2. CASE v.id \in Reached(steps, ps)
  <2>1. PICK e : more = <<e>> /\ e.op = PutTab(v) /\ Flushes(e.rest)
    BY <1>1, <1>2
  <2>2. Puts(e.op, v.id) /\ e.op.tab = v
    BY <2>1 DEF Puts, PutTab
  <2> QED
    BY <2>1, <2>2 DEF Secures
<1>3. CASE v.id \notin Reached(steps, ps) /\ \E k \in DOMAIN more : About(more[k].op, v.id)
  <2>1. PICK k \in DOMAIN more : About(more[k].op, v.id)
    BY <1>3
  <2>2. PICK e : more = <<e>>
    BY <1>1, <2>1 DEF Orderly
  <2>3. more[k] = e
    BY <2>1, <2>2
  <2>4. RowKind(e.op)
    BY <2>1, <2>3, AboutRows
  <2>5. Flushes(e.rest) /\ e.op.kind = "putTab" /\ e.op.tab \in Copies(ps)
    BY <1>1, <2>1, <2>3, <2>4 DEF Saves
  <2>6. e.op.tab.id = v.id
    BY <2>1, <2>3, <2>5 DEF About, Puts, Deletes
  <2>7. e.op.tab = v
    BY <2>5, <2>6, CopyPlace, CopyUnique
  <2> QED
    BY <2>2, <2>5, <2>6, <2>7 DEF Secures, Puts
<1>4. CASE v.id \notin Reached(steps, ps) /\ \A k \in DOMAIN more : ~About(more[k].op, v.id)
  BY <1>4 DEF Secures, Tracks
<1> QED
  BY <1>2, <1>3, <1>4

-----------------------------------------------------------------------------
(* The steps that send commands.                                           *)

\* Commands are sent about tabs that are open, or on the reopen stack, or new.
Commands(more) ==
  /\ queue' = queue \o more /\ Orderly(more)
  /\ UNCHANGED <<disk, faults>> /\ nextTab <= nextTab'
  /\ \A k \in DOMAIN more :
       /\ more[k].op.kind = "putTab" => more[k].op.tab.id \in 1..nextTab'
       /\ \A t : About(more[k].op, t) =>
            \/ IsOpen(panels, t) \/ t \notin 1..nextTab
            \/ \E i \in DOMAIN closed : closed[i].tab.id = t

\* They are not about the tabs a session is loaded from.
LEMMA CommandsApart ==
  ASSUME SInv, NEW more, Commands(more), NEW k \in DOMAIN more, NEW i \in DOMAIN queue
  PROVE  /\ queue[i].op.kind = "getPanels" => \A t \in DOMAIN disk.tabs : ~About(more[k].op, t)
         /\ queue[i].op.kind = "getActive" =>
              \A v \in Copies(FoundPanels(queue[i].op.found)) : ~About(more[k].op, v.id)
<1>1. ASSUME NEW t \in 1..nextTab, Untouched(t) PROVE ~About(more[k].op, t)
  BY <1>1 DEF Commands, Untouched
<1>2. ASSUME queue[i].op.kind = "getPanels", NEW t \in DOMAIN disk.tabs
      PROVE  ~About(more[k].op, t)
  <2>1. DiskKept
    BY <1>2 DEF SInv, LoadingOK, Reads
  <2>2. Good(disk.tabs[t]) /\ Untouched(t) /\ disk.tabs[t].id = t
    BY <2>1 DEF DiskKept, WellKept
  <2> QED
    BY <1>1, <2>2 DEF Good
<1>3. ASSUME queue[i].op.kind = "getActive",
             NEW v \in Copies(FoundPanels(queue[i].op.found))
      PROVE  ~About(more[k].op, v.id)
  <2>1. FoundKept(queue[i].op.found)
    BY <1>3 DEF SInv, LoadingOK, Reads
  <2>2. Good(v) /\ Untouched(v.id)
    BY <2>1 DEF FoundKept
  <2> QED
    BY <1>1, <2>2 DEF Good
<1> QED
  BY <1>2, <1>3

\* The queue, and what an event adds to it.
LEMMA CommandParts ==
  ASSUME NEW E, NEW q \in Seq(E), NEW more, Orderly(more)
  PROVE  /\ \E S : q \in Seq(S) /\ more \in Seq(S)
         /\ LateRests(more) /\ \A k \in DOMAIN more : ~Reads(more[k])
<1>1. CASE more = <<>>
  <2>1. more \in Seq(E) /\ DOMAIN more = {}
    BY <1>1
  <2> QED
    BY <2>1 DEF LateRests
<1>2. ASSUME NEW e, more = <<e>>, ~Reads(e), Late(e.rest)
      PROVE  /\ \E S : q \in Seq(S) /\ more \in Seq(S)
             /\ LateRests(more) /\ \A k \in DOMAIN more : ~Reads(more[k])
  <2>1. PICK S : S = E \cup {e}
    OBVIOUS
  <2>2. q \in Seq(S)
    BY <2>1, SequenceOf
  <2>3. more \in Seq(S) /\ \A k \in DOMAIN more : more[k] = e
    BY <1>2, <2>1
  <2> QED
    BY <1>2, <2>2, <2>3 DEF LateRests
<1> QED
  BY <1>1, <1>2 DEF Orderly

\* An event that leaves every open tab tracked.
LEMMA EventTracked ==
  ASSUME IInv, IInv', SInv, TInv, NEW more, Commands(more),
         \A v \in Copies(panels') :
           faults <= 1 => Secures(queue, disk.tabs, faults, dirty', more, v),
         \A i \in DOMAIN closed' :
           faults = 0 => StaysGone(queue, disk.tabs, more, closed'[i].tab.id)
  PROVE  TInv'
<1>1. PICK q, tabs, f, d, ps, cl, n, m :
        /\ q = queue /\ tabs = disk.tabs /\ f = faults /\ d = dirty' /\ ps = panels'
        /\ cl = closed' /\ n = nextTab /\ m = nextTab'
  OBVIOUS
<1>2. PICK S : /\ q \in Seq(S) /\ more \in Seq(S)
               /\ LateRests(more) /\ \A k \in DOMAIN more : ~Reads(more[k])
  <2>1. q \in Seq(Entry(nextPanel)) /\ Orderly(more)
    BY <1>1 DEF IInv, Commands
  <2> QED
    BY <2>1, CommandParts
<1>3. LateRests(more) /\ \A k \in DOMAIN more : ~Reads(more[k])
  BY <1>2
<1>4. n \in Nat /\ m \in Nat /\ n <= m
  BY <1>1 DEF IInv, IdsOK, Commands
<1>5. LateRests(q) /\ Numbered(q, tabs, n)
  BY <1>1 DEF TInv, Followed
<1>6. Numbered(more, tabs, m)
  BY <1>1, <1>4, <1>5 DEF Numbered, Commands
<1>7. Followed(q \o more, tabs, f, ps, cl, d, m)
  <2>1. f <= 1 => \A v \in Copies(ps) : Secures(q, tabs, f, d, more, v)
    BY <1>1
  <2>2. f = 0 => \A i \in DOMAIN cl : StaysGone(q, tabs, more, cl[i].tab.id)
    BY <1>1
  <2> QED
    BY <1>2, <1>3, <1>4, <1>5, <1>6, <2>1, <2>2, AppendFollowed
<1>8. ReadsClean(q \o more, tabs)
  <2>1. ReadsClean(q, tabs)
    BY <1>1 DEF TInv
  <2>2. \A i \in DOMAIN q, k \in DOMAIN more :
           /\ q[i].op.kind = "getPanels" => \A t \in DOMAIN tabs : ~About(more[k].op, t)
           /\ q[i].op.kind = "getActive" =>
                \A v \in Copies(FoundPanels(q[i].op.found)) : ~About(more[k].op, v.id)
    BY <1>1, CommandsApart
  <2> QED
    BY <1>2, <1>3, <2>1, <2>2, AppendReads
<1>9. queue' = q \o more /\ disk'.tabs = tabs /\ faults' = f
  BY <1>1 DEF Commands
<1> QED
  BY <1>1, <1>7, <1>8, <1>9 DEF TInv

\* The same tab, with the same to store.
Kin(ps, v) == \E w \in Copies(ps) : w.id = v.id /\ Settled(w) = Settled(v)

\* Commands that are about no row.
Calm(more) == Orderly(more) /\ \A k \in DOMAIN more : ~RowKind(more[k].op)

\* A step that writes no row: the tabs are the same, or await saving.
CalmStep ==
  /\ \E more : Calm(more) /\ queue' = queue \o more
  /\ UNCHANGED <<disk, faults, nextTab>> /\ dirty \subseteq dirty'
  /\ \A v \in Copies(panels') : v.id \in dirty' \/ Kin(panels, v)
  /\ closed' = closed \/ (closed # <<>> /\ closed' = Front(closed))

LEMMA CalmTracked ==
  ASSUME IInv, IInv', SInv, TInv, CalmStep
  PROVE  TInv'
<1>1. PICK more : Calm(more) /\ queue' = queue \o more
  BY DEF CalmStep
<1>2. \A k \in DOMAIN more : \A t : ~About(more[k].op, t)
  BY <1>1, AboutRows DEF Calm
<1>3. Commands(more)
  <2>1. nextTab \in Nat
    BY SessionTypes
  <2> QED
    BY <1>1, <1>2, <2>1 DEF Commands, CalmStep, Calm, RowKind
<1>4. ASSUME NEW v \in Copies(panels'), faults <= 1
      PROVE  Secures(queue, disk.tabs, faults, dirty', more, v)
  <2>1. CASE v.id \in dirty'
    BY <2>1 DEF Secures
  <2>2. ASSUME NEW w \in Copies(panels), w.id = v.id, Settled(w) = Settled(v)
        PROVE  Secures(queue, disk.tabs, faults, dirty', more, v)
    <3>1. Tracks(queue, disk.tabs, faults, dirty, w)
      BY <1>4 DEF TInv, Followed
    <3>2. Tracks(queue, disk.tabs, faults, dirty', v)
      BY <2>2, <3>1 DEF Tracks, CalmStep
    <3> QED
      BY <1>2, <3>2 DEF Secures
  <2> QED
    BY <2>1, <2>2 DEF CalmStep, Kin
<1>5. ASSUME NEW i \in DOMAIN closed', faults = 0
      PROVE  StaysGone(queue, disk.tabs, more, closed'[i].tab.id)
  <2>1. i \in DOMAIN closed /\ closed'[i] = closed[i]
    BY Shortened DEF CalmStep
  <2>2. Gone(queue, disk.tabs, closed[i].tab.id)
    BY <1>5, <2>1 DEF TInv, Followed
  <2> QED
    BY <1>2, <2>1, <2>2 DEF StaysGone, About
<1> QED
  BY <1>3, <1>4, <1>5, EventTracked

-----------------------------------------------------------------------------
(* Each event of a session keeps the tabs tracked.                         *)

\* What a handler that starts with a plain step adds to the queue.
LEMMA WriteAdds ==
  ASSUME NEW steps, Write(steps), steps # <<>>, Head(steps).kind \in PlainKinds,
         Late(Tail(steps))
  PROVE  \E e : /\ queue' = queue \o <<e>> /\ Orderly(<<e>>)
                /\ FirstEntry(e, Head(steps), Tail(steps))
<1>1. PICK ps, ord, act : ps = panels' /\ ord = order' /\ act = active'
  OBVIOUS
<1>2. PICK e : /\ Issue(steps, ps, ord, act) = <<e>>
               /\ FirstEntry(e, Head(steps), Tail(steps))
  BY FirstSent
<1>3. Orderly(<<e>>)
  BY <1>2 DEF FirstEntry, Orderly
<1> QED
  BY <1>1, <1>2, <1>3 DEF Write

\* An event of the user only.
LEMMA UserEventKeeps ==
  ASSUME UserEvent
  PROVE  UNCHANGED <<disk, faults>>
BY DEF UserEvent, process

\* A single command, as a sequence.
LEMMA OneCommand ==
  ASSUME NEW e
  PROVE  DOMAIN <<e>> = {1} /\ <<e>>[1] = e
OBVIOUS

\* Tabs that move are the same tabs.
LEMMA MovesTracked ==
  ASSUME IInv, IInv', SInv, TInv, Moves
  PROVE  TInv'
<1>1. PICK steps : /\ Write(steps) /\ steps # <<>> /\ Head(steps).kind \in PlainKinds
                   /\ ~RowKind(Head(steps)) /\ Late(Tail(steps))
  BY DEF Moves, Shuffles
<1>2. PICK e : /\ queue' = queue \o <<e>> /\ Orderly(<<e>>)
               /\ FirstEntry(e, Head(steps), Tail(steps))
  BY <1>1, WriteAdds
<1>3. Calm(<<e>>)
  BY <1>1, <1>2, OneCommand DEF Calm, FirstEntry
<1>4. UNCHANGED <<disk, faults, nextTab, dirty>>
  BY UserEventKeeps DEF Moves, Shuffles, Rearranged
<1>5. \A v \in Copies(panels') : Kin(panels, v)
  BY DEF Moves, Rearranged, Kin
<1>6. closed' = closed \/ (closed # <<>> /\ closed' = Front(closed))
  BY DEF Moves, Rearranged
<1>7. CalmStep
  BY <1>2, <1>3, <1>4, <1>5, <1>6 DEF CalmStep
<1> QED
  BY <1>7, CalmTracked

\* An edit, a send or an answer: one tab has a new version, which awaits
\* saving unless it has the same to store.
Edits ==
  /\ UNCHANGED <<queue, disk, faults, closed, nextTab>> /\ dirty \subseteq dirty'
  /\ \/ panels' = panels
     \/ \E tab \in Tab : /\ IsOpen(panels, tab.id) /\ panels' = Replaced(panels, tab)
                         /\ tab.id \in dirty' \/ Kin(panels, tab)

LEMMA EditsTracked ==
  ASSUME IInv, IInv', SInv, TInv, Edits
  PROVE  TInv'
<1>1. \A v \in Copies(panels) : Kin(panels, v)
  BY DEF Kin
<1>2. ASSUME NEW tab \in Tab, IsOpen(panels, tab.id), panels' = Replaced(panels, tab),
             tab.id \in dirty' \/ Kin(panels, tab), NEW v \in Copies(panels')
      PROVE  v.id \in dirty' \/ Kin(panels, v)
  <2>1. PICK ps, qs : ps = panels /\ qs = panels'
    OBVIOUS
  <2>2. IsBox(ps, PanelId, Panel) /\ Once(ps)
    BY <2>1, SessionTypes DEF SInv
  <2>3. v = tab \/ v \in Copies(ps)
    BY <1>2, <2>1, <2>2, ReplacedOnce
  <2> QED
    BY <1>1, <1>2, <2>1, <2>3
<1>3. \A v \in Copies(panels') : v.id \in dirty' \/ Kin(panels, v)
  BY <1>1, <1>2 DEF Edits
<1>4. queue' = queue \o <<>>
  <2>1. queue \in Seq(Entry(nextPanel))
    BY DEF IInv
  <2>2. queue \o <<>> = queue
    BY <2>1
  <2> QED
    BY <2>2 DEF Edits
<1>5. Calm(<<>>)
  BY DEF Calm, Orderly
<1>6. CalmStep
  BY <1>3, <1>4, <1>5 DEF CalmStep, Edits
<1> QED
  BY <1>6, CalmTracked

\* The flag alone is not stored.
LEMMA FlagNotStored ==
  ASSUME NEW v \in Tab, NEW b \in BOOLEAN, NEW tab, tab = [v EXCEPT !.sending = b]
  PROVE  tab \in Tab /\ tab.id = v.id /\ Settled(tab) = Settled(v)
<1>1. tab \in Tab /\ tab.id = v.id
  BY DEF Tab
<1>2. Settled(tab) = Settled(v)
  BY DEF Tab, Settled
<1> QED
  BY <1>1, <1>2

\* The events that edit a tab put it on the dirty set.
LEMMA EditEventEdits ==
  ASSUME IInv, SInv, NEW t \in TabId,
         \/ \E node \in Nodes \cup {NoNode}, c \in Configs : UpdateTab(t, node, c)
         \/ \E c \in Configs : RevertTab(t, c)
         \/ \E s \in SendId : ViewResponseHistoryEntry(t, s)
  PROVE  Edits
<1>1. UserEvent /\ IsOpen(panels, t)
  BY DEF UpdateTab, RevertTab, ViewResponseHistoryEntry
<1>2. PICK v : v = Live(t)
  OBVIOUS
<1>3. v \in Tab /\ v.id = t
  BY <1>1, <1>2, LiveCopy
<1>4. PICK tab : tab \in Tab /\ tab.id = t /\ Edit(tab)
  <2>1. ASSUME NEW node \in Nodes \cup {NoNode}, NEW c \in Configs, UpdateTab(t, node, c)
        PROVE  \E tab \in Tab : tab.id = t /\ Edit(tab)
    <3>1. PICK tab : tab = [v EXCEPT !.node = node, !.config = c]
      OBVIOUS
    <3>2. tab \in Tab /\ tab.id = t
      BY <1>3, <3>1 DEF Tab
    <3>3. Edit(tab)
      BY <1>2, <2>1, <3>1 DEF UpdateTab
    <3> QED
      BY <3>2, <3>3
  <2>2. ASSUME NEW c \in Configs, RevertTab(t, c)
        PROVE  \E tab \in Tab : tab.id = t /\ Edit(tab)
    <3>1. PICK tab : tab = [v EXCEPT !.config = c]
      OBVIOUS
    <3>2. tab \in Tab /\ tab.id = t
      BY <1>3, <3>1 DEF Tab
    <3>3. Edit(tab)
      BY <1>2, <2>2, <3>1 DEF RevertTab
    <3> QED
      BY <3>2, <3>3
  <2>3. ASSUME NEW s \in SendId, ViewResponseHistoryEntry(t, s)
        PROVE  \E tab \in Tab : tab.id = t /\ Edit(tab)
    <3>1. PICK tab : tab = [v EXCEPT !.response = s]
      OBVIOUS
    <3>2. tab \in Tab /\ tab.id = t
      BY <1>3, <3>1 DEF Tab
    <3>3. Edit(tab)
      BY <1>2, <2>3, <3>1 DEF ViewResponseHistoryEntry
    <3> QED
      BY <3>2, <3>3
  <2> QED
    BY <2>1, <2>2, <2>3
<1>5. panels' = Replaced(panels, tab)
  BY <1>4, EmitPanels DEF Edit
<1> QED
  BY <1>1, <1>4, <1>5, UserEventKeeps DEF Edits, Edit, idVars

\* Starting a send or cancelling it changes what is shown, not what is stored.
LEMMA SendEventEdits ==
  ASSUME IInv, SInv, NEW t \in TabId, SendRequest(t) \/ CancelRequest(t)
  PROVE  Edits
<1>1. UserEvent /\ IsOpen(panels, t)
      /\ UNCHANGED <<queue, closed, dirty, nextTab>>
  BY DEF SendRequest, CancelRequest, saving, idVars
<1>2. PICK v : v = Live(t)
  OBVIOUS
<1>3. v \in Copies(panels) /\ v \in Tab /\ v.id = t
  BY <1>1, <1>2, LiveCopy
<1>4. PICK b \in BOOLEAN : Emit(Replaced(panels, [v EXCEPT !.sending = b]), order, active)
  BY <1>2 DEF SendRequest, CancelRequest
<1>5. PICK tab : tab = [v EXCEPT !.sending = b]
  OBVIOUS
<1>6. tab \in Tab /\ tab.id = t /\ Kin(panels, tab)
  BY <1>3, <1>5, FlagNotStored DEF Kin
<1>7. panels' = Replaced(panels, tab)
  BY <1>4, <1>5, EmitPanels
<1> QED
  BY <1>1, <1>6, <1>7, UserEventKeeps DEF Edits

\* So does the end of a send, unless it brings a response: then the tab is on
\* the dirty set.
LEMMA AnswerEdits ==
  ASSUME IInv, SInv, Answer
  PROVE  Edits
<1>1. PICK run \in running : ReceiveResponse(run) \/ StopSend(run) \/ DropSend(run)
  BY DEF Answer
<1>2. UNCHANGED <<queue, disk, faults, closed, nextTab>>
  BY <1>1 DEF ReceiveResponse, StopSend, DropSend, Returns, process, idVars
<1>3. CASE panels' = panels
  <2>1. dirty \subseteq dirty'
    BY <1>1 DEF ReceiveResponse, StopSend, DropSend, saving
  <2> QED
    BY <1>2, <1>3, <2>1 DEF Edits
<1>4. CASE panels' # panels
  <2>1. IsOpen(panels, run.tab) /\ (ReceiveResponse(run) \/ StopSend(run))
    BY <1>1, <1>4 DEF ReceiveResponse, StopSend, DropSend
  <2>2. PICK v : v = Live(run.tab)
    OBVIOUS
  <2>3. v \in Copies(panels) /\ v \in Tab /\ v.id = run.tab
    BY <2>1, <2>2, LiveCopy
  <2>4. CASE ReceiveResponse(run)
    <3>1. PICK tab : tab = Recorded(v, run.send)
      OBVIOUS
    <3>2. run.send \in SendId
      BY SessionTypes
    <3>3. tab \in Tab /\ tab.id = run.tab
      BY <2>3, <3>1, <3>2, RecordedType
    <3>4. /\ panels' = Replaced(panels, tab) /\ dirty' = dirty \cup {run.tab}
      BY <2>1, <2>2, <2>4, <3>1 DEF ReceiveResponse
    <3> QED
      BY <1>2, <2>1, <3>3, <3>4 DEF Edits
  <2>5. CASE StopSend(run)
    <3>1. PICK tab : tab = [v EXCEPT !.sending = FALSE]
      OBVIOUS
    <3>2. tab \in Tab /\ tab.id = run.tab /\ Kin(panels, tab)
      BY <2>3, <3>1, FlagNotStored DEF Kin
    <3>3. panels' = Replaced(panels, tab) /\ dirty' = dirty
      BY <2>1, <2>2, <2>5, <3>1 DEF StopSend, saving
    <3> QED
      BY <1>2, <2>1, <3>2, <3>3 DEF Edits
  <2> QED
    BY <2>1, <2>4, <2>5
<1> QED
  BY <1>3, <1>4

\* A tab that has no number yet has no row, and none is on its way.
LEMMA NewGone ==
  ASSUME NEW S, NEW q \in Seq(S), NEW tabs, NEW n, Numbered(q, tabs, n),
         NEW t, t \notin 1..n
  PROVE  Gone(q, tabs, t)
<1>1. Len(q) \in Nat /\ DOMAIN q = 1..Len(q)
  OBVIOUS
<1>2. \A k \in DOMAIN q : ~Puts(q[k].op, t)
  BY DEF Numbered, Puts
<1>3. t \notin DOMAIN tabs
  BY DEF Numbered
<1>4. \A k \in (0 + 1)..((Len(q) + 1) - 1) : k \in DOMAIN q
  BY <1>1
<1>5. 0 \in 0..((Len(q) + 1) - 1)
  BY <1>1
<1> QED
  BY <1>2, <1>3, <1>4, <1>5 DEF Gone, GoneBefore

\* The last of the reopen stack.
LEMMA LastClosed ==
  ASSUME IInv, closed # <<>>
  PROVE  /\ Len(closed) \in DOMAIN closed /\ Last(closed) = closed[Len(closed)]
         /\ \A i \in DOMAIN Front(closed) :
              i \in DOMAIN closed /\ i # Len(closed) /\ Front(closed)[i] = closed[i]
<1>1. closed \in Seq(Closed)
  BY SessionTypes
<1>2. /\ DOMAIN Front(closed) = 1..(Len(closed) - 1) /\ DOMAIN closed = 1..Len(closed)
      /\ Len(closed) \in Nat \ {0} /\ Last(closed) = closed[Len(closed)]
      /\ \A i \in DOMAIN Front(closed) : i \in DOMAIN closed /\ Front(closed)[i] = closed[i]
  BY <1>1, FrontParts
<1> QED
  BY <1>2

\* The row of a tab that is opened is written first: it had none, or only one
\* that will have been deleted by then.
LEMMA OpensTracked ==
  ASSUME IInv, IInv', SInv, TInv, Opens
  PROVE  TInv'
<1>1. PICK tab \in Tab :
        /\ Fresh(tab) /\ Starts(PutTab(tab)) /\ dirty' = dirty
        /\ \A v : v \in Copies(panels') <=> v = tab \/ v \in Copies(panels)
  BY DEF Opens
<1>2. PICK steps : /\ Write(steps) /\ steps # <<>> /\ Head(steps) = PutTab(tab)
                   /\ Late(Tail(steps))
  BY <1>1 DEF Starts
<1>3. PutTab(tab).kind \in PlainKinds /\ RowKind(PutTab(tab)) /\ Puts(PutTab(tab), tab.id)
      /\ PutTab(tab).tab = tab /\ PutTab(tab).kind # "deleteTabs"
  BY DEF PutTab, PlainKinds, RowKind, Puts
<1>4. PICK e : /\ queue' = queue \o <<e>> /\ Orderly(<<e>>) /\ e.op = PutTab(tab)
  BY <1>2, <1>3, WriteAdds DEF FirstEntry
<1>5. \A t : About(e.op, t) <=> t = tab.id
  BY <1>3, <1>4 DEF About, Puts, Deletes
<1>6. nextTab \in Nat /\ queue \in Seq(Entry(nextPanel)) /\ faults \in Nat
  BY SessionTypes DEF IInv, ProcessOK
<1>7. UNCHANGED <<disk, faults>>
  BY <1>1, UserEventKeeps DEF Starts
<1>8. \A v \in Copies(panels) : v.id \in 1..nextTab
  BY DEF SInv, OpenTabsOK, Sounds, Good
<1>9. \A i \in DOMAIN closed : closed[i].tab.id \in 1..nextTab /\ ~IsOpen(panels, closed[i].tab.id)
  BY DEF SInv, ClosedTabsOK, Good
<1>10. /\ nextTab <= nextTab' /\ tab.id \in 1..nextTab' /\ ~IsOpen(panels, tab.id)
       /\ tab.id \notin 1..nextTab \/ \E i \in DOMAIN closed : closed[i].tab.id = tab.id
       /\ faults = 0 => Gone(queue, disk.tabs, tab.id)
       /\ \A i \in DOMAIN closed' : /\ i \in DOMAIN closed /\ closed'[i] = closed[i]
                                    /\ closed[i].tab.id # tab.id
  <2>1. CASE tab.id = nextTab + 1 /\ nextTab' = tab.id /\ closed' = closed
    <3>1. tab.id \notin 1..nextTab /\ nextTab <= nextTab' /\ tab.id \in 1..nextTab'
      BY <1>6, <2>1
    <3>2. ~IsOpen(panels, tab.id)
      BY <1>8, <3>1, OpenCopy
    <3>3. Gone(queue, disk.tabs, tab.id)
      BY <1>6, <3>1, NewGone DEF TInv, Followed
    <3> QED
      BY <1>9, <2>1, <3>1, <3>2, <3>3
  <2>2. CASE /\ closed # <<>> /\ tab = Last(closed).tab /\ closed' = Front(closed)
             /\ nextTab' = nextTab
    <3>1. PICK m : m = Len(closed)
      OBVIOUS
    <3>2. /\ m \in DOMAIN closed /\ tab = closed[m].tab
          /\ \A i \in DOMAIN closed' : i \in DOMAIN closed /\ i # m /\ closed'[i] = closed[i]
      BY <2>2, <3>1, LastClosed
    <3>3. \A i \in DOMAIN closed : closed[i].tab.id = tab.id => i = m
      BY <3>2 DEF SInv, ClosedTabsOK
    <3>4. faults = 0 => Gone(queue, disk.tabs, tab.id)
      BY <3>2 DEF TInv, Followed
    <3>5. nextTab <= nextTab'
      BY <1>6, <2>2
    <3> QED
      BY <1>9, <2>2, <3>2, <3>3, <3>4, <3>5
  <2> QED
    BY <1>1, <2>1, <2>2 DEF Fresh
<1>11. Commands(<<e>>)
  <2>1. e.op.kind = "putTab" => e.op.tab.id \in 1..nextTab'
    BY <1>3, <1>4, <1>10
  <2>2. \A t : About(e.op, t) => \/ IsOpen(panels, t) \/ t \notin 1..nextTab
                                 \/ \E i \in DOMAIN closed : closed[i].tab.id = t
    BY <1>5, <1>10
  <2> QED
    BY <1>4, <1>7, <1>10, <2>1, <2>2, OneCommand DEF Commands
<1>12. ASSUME NEW v \in Copies(panels'), faults <= 1
       PROVE  Secures(queue, disk.tabs, faults, dirty', <<e>>, v)
  <2>1. CASE v = tab
    <3>1. faults > 0 \/ Gone(queue, disk.tabs, v.id)
      BY <1>6, <1>10, <2>1
    <3>2. Puts(e.op, v.id) /\ Settled(e.op.tab) = Settled(v)
      BY <1>3, <1>4, <2>1
    <3> QED
      BY <3>1, <3>2 DEF Secures
  <2>2. CASE v \in Copies(panels)
    <3>1. Tracks(queue, disk.tabs, faults, dirty', v)
      BY <1>1, <1>12, <2>2 DEF TInv, Followed
    <3>2. v.id # tab.id
      BY <1>10, <2>2, OpenCopy
    <3>3. \A k \in DOMAIN <<e>> : ~About(<<e>>[k].op, v.id)
      BY <1>5, <3>2, OneCommand
    <3> QED
      BY <3>1, <3>3 DEF Secures
  <2> QED
    BY <1>1, <1>12, <2>1, <2>2
<1>13. ASSUME NEW i \in DOMAIN closed', faults = 0
       PROVE  StaysGone(queue, disk.tabs, <<e>>, closed'[i].tab.id)
  <2>1. Gone(queue, disk.tabs, closed'[i].tab.id)
    BY <1>10, <1>13 DEF TInv, Followed
  <2>2. \A k \in DOMAIN <<e>> : ~Puts(<<e>>[k].op, closed'[i].tab.id)
    BY <1>5, <1>10, <1>13, OneCommand DEF About
  <2> QED
    BY <2>1, <2>2 DEF StaysGone
<1> QED
  BY <1>11, <1>12, <1>13, EventTracked

\* The rows of the tabs that are closed are deleted by one command, after all
\* that may still write them.
LEMMA ClosesTracked ==
  ASSUME IInv, IInv', SInv, TInv, Closes
  PROVE  TInv'
<1>1. PICK gone, recs :
        TabsGone(gone, recs) /\ dirty' = dirty \ gone /\ Starts(DeleteTabs(gone))
  BY DEF Closes
<1>2. PICK steps : /\ Write(steps) /\ steps # <<>> /\ Head(steps) = DeleteTabs(gone)
                   /\ Late(Tail(steps))
  BY <1>1 DEF Starts
<1>3. /\ DeleteTabs(gone).kind \in PlainKinds /\ RowKind(DeleteTabs(gone))
      /\ DeleteTabs(gone).kind # "putTab"
      /\ \A t : Deletes(DeleteTabs(gone), t) <=> t \in gone
  BY DEF DeleteTabs, PlainKinds, RowKind, Deletes
<1>4. PICK e : /\ queue' = queue \o <<e>> /\ Orderly(<<e>>) /\ e.op = DeleteTabs(gone)
  BY <1>2, <1>3, WriteAdds DEF FirstEntry
<1>5. \A t : /\ About(e.op, t) <=> t \in gone
             /\ Deletes(e.op, t) <=> t \in gone
             /\ ~Puts(e.op, t)
  BY <1>3, <1>4 DEF About, Puts
<1>6. UNCHANGED <<disk, faults>> /\ nextTab' = nextTab /\ nextTab \in Nat
  BY <1>1, UserEventKeeps, SessionTypes DEF Starts, TabsGone
<1>7. Commands(<<e>>)
  <2>1. \A t : About(e.op, t) => IsOpen(panels, t)
    BY <1>1, <1>5 DEF TabsGone
  <2> QED
    BY <1>3, <1>4, <1>6, <2>1, OneCommand DEF Commands
<1>8. ASSUME NEW v \in Copies(panels'), faults <= 1
      PROVE  Secures(queue, disk.tabs, faults, dirty', <<e>>, v)
  <2>1. v \in Copies(panels) /\ v.id \notin gone
    BY <1>1 DEF TabsGone
  <2>2. Tracks(queue, disk.tabs, faults, dirty, v)
    BY <1>8, <2>1 DEF TInv, Followed
  <2>3. Tracks(queue, disk.tabs, faults, dirty', v)
    BY <1>1, <2>1, <2>2 DEF Tracks
  <2>4. \A k \in DOMAIN <<e>> : ~About(<<e>>[k].op, v.id)
    BY <1>5, <2>1, OneCommand
  <2> QED
    BY <2>3, <2>4 DEF Secures
<1>9. PICK m \in Nat : \A i \in DOMAIN closed' :
        \/ i + m \in DOMAIN closed /\ closed'[i] = closed[i + m]
        \/ /\ i + m - Len(closed) \in DOMAIN recs
           /\ closed'[i] = recs[i + m - Len(closed)]
  BY <1>1, PushedParts DEF TabsGone, SInv, ClosedTabsOK
<1>10. ASSUME NEW i \in DOMAIN closed', faults = 0
       PROVE  StaysGone(queue, disk.tabs, <<e>>, closed'[i].tab.id)
  <2>1. ASSUME NEW j \in DOMAIN closed, closed'[i] = closed[j]
        PROVE  StaysGone(queue, disk.tabs, <<e>>, closed'[i].tab.id)
    <3>1. Gone(queue, disk.tabs, closed'[i].tab.id)
      BY <1>10, <2>1 DEF TInv, Followed
    <3>2. \A k \in DOMAIN <<e>> : ~Puts(<<e>>[k].op, closed'[i].tab.id)
      BY <1>5, OneCommand
    <3> QED
      BY <3>1, <3>2 DEF StaysGone
  <2>2. ASSUME NEW k \in DOMAIN recs, closed'[i] = recs[k]
        PROVE  StaysGone(queue, disk.tabs, <<e>>, closed'[i].tab.id)
    <3>1. PICK v \in Copies(panels) : v.id \in gone /\ recs[k].tab = Settled(v)
      BY <1>1 DEF TabsGone
    <3>2. v \in Tab
      BY <3>1, SessionTypes, CopyType
    <3>3. recs[k].tab.id = v.id
      BY <3>1, <3>2, SettledParts
    <3>4. Deletes(e.op, closed'[i].tab.id)
      BY <1>5, <2>2, <3>1, <3>3
    <3> QED
      BY <3>4 DEF StaysGone
  <2> QED
    BY <1>9, <1>10, <2>1, <2>2
<1> QED
  BY <1>7, <1>8, <1>10, EventTracked

\* The reads that may be in a queue are of tabs that are not in memory.
ReadsApart(q, tabs) ==
  \A i \in DOMAIN q :
    /\ q[i].op.kind = "getPanels" => DiskKept /\ tabs = disk.tabs
    /\ q[i].op.kind = "getActive" => FoundKept(q[i].op.found)

\* A handler that goes on, whatever it has left, loses no tab.
LEMMA SavesFollowed ==
  ASSUME IInv, SInv, NEW steps \in Steps(nextPanel), WellShaped(steps), Late(steps),
         NEW more, more = Issue(steps, panels, order, active),
         NEW q \in Seq(Entry(nextPanel)), NEW tabs, NEW f, NEW d,
         Followed(q, tabs, f, panels, closed, d, nextTab), ReadsClean(q, tabs),
         ReadsApart(q, tabs)
  PROVE  /\ Followed(q \o more, tabs, f, panels, closed,
                     d \ Reached(steps, panels), nextTab)
         /\ ReadsClean(q \o more, tabs)
<1>1. PICK ps, cl, ord, act, n, m :
        /\ ps = panels /\ cl = closed /\ ord = order /\ act = active
        /\ n = nextPanel /\ m = nextTab
  OBVIOUS
<1>2. Sound(ps, ord, n) /\ Once(ps) /\ m \in Nat
  BY <1>1, SessionTypes DEF IInv, MemoryOK, SInv
<1>3. Orderly(more) /\ Saves(more, ps)
  BY <1>1, <1>2, IssueSaves
<1>4. /\ \E S : q \in Seq(S) /\ more \in Seq(S)
      /\ LateRests(more) /\ \A k \in DOMAIN more : ~Reads(more[k])
  BY <1>3, CommandParts
<1>5. ASSUME NEW k \in DOMAIN more, NEW t, About(more[k].op, t)
      PROVE  IsOpen(panels, t) /\ t \in 1..m
  <2>1. RowKind(more[k].op)
    BY <1>5, AboutRows
  <2>2. more[k].op.kind = "putTab" /\ more[k].op.tab \in Copies(panels)
    BY <1>1, <1>3, <2>1 DEF Saves
  <2>3. t = more[k].op.tab.id
    BY <1>5, <2>2 DEF About, Puts, Deletes
  <2> QED
    BY <1>1, <2>2, <2>3, OpenCopy DEF SInv, OpenTabsOK, Sounds, Good
<1>6. Numbered(more, tabs, m)
  <2>1. \A k \in DOMAIN more : more[k].op.kind = "putTab" => more[k].op.tab.id \in 1..m
    BY <1>5 DEF About, Puts
  <2> QED
    BY <1>1, <2>1 DEF Followed, Numbered
<1>7. Followed(q, tabs, f, ps, cl, d, m)
  BY <1>1
<1>8. ASSUME f <= 1, NEW v \in Copies(ps)
      PROVE  Secures(q, tabs, f, d \ Reached(steps, ps), more, v)
  <2>1. Tracks(q, tabs, f, d, v)
    BY <1>7, <1>8 DEF Followed
  <2>2. steps \in Steps(n) /\ more = Issue(steps, ps, ord, act)
    BY <1>1
  <2> QED
    BY <1>2, <2>1, <2>2, FlushSettles
<1>9. ASSUME f = 0, NEW i \in DOMAIN cl
      PROVE  StaysGone(q, tabs, more, cl[i].tab.id)
  <2>1. Gone(q, tabs, cl[i].tab.id)
    BY <1>7, <1>9 DEF Followed
  <2>2. ~IsOpen(panels, cl[i].tab.id)
    BY <1>1 DEF SInv, ClosedTabsOK
  <2>3. \A k \in DOMAIN more : ~Puts(more[k].op, cl[i].tab.id)
    BY <1>5, <2>2 DEF About
  <2> QED
    BY <2>1, <2>3 DEF StaysGone
<1>10. Followed(q \o more, tabs, f, ps, cl, d \ Reached(steps, ps), m)
  <2>1. m <= m /\ LateRests(q) /\ Numbered(q, tabs, m)
    BY <1>2, <1>7 DEF Followed
  <2>2. PICK S : q \in Seq(S) /\ more \in Seq(S)
    BY <1>4
  <2> QED
    BY <1>2, <1>4, <1>6, <1>8, <1>9, <2>1, <2>2, AppendFollowed
<1>11. ReadsClean(q \o more, tabs)
  <2>1. ASSUME NEW i \in DOMAIN q, NEW k \in DOMAIN more
        PROVE  /\ q[i].op.kind = "getPanels" => \A t \in DOMAIN tabs : ~About(more[k].op, t)
               /\ q[i].op.kind = "getActive" =>
                    \A v \in Copies(FoundPanels(q[i].op.found)) : ~About(more[k].op, v.id)
    <3>1. \A t : Untouched(t) => ~About(more[k].op, t)
      BY <1>5 DEF Untouched
    <3>2. ASSUME q[i].op.kind = "getPanels", NEW t \in DOMAIN tabs PROVE Untouched(t)
      BY <3>2 DEF ReadsApart, DiskKept
    <3>3. ASSUME q[i].op.kind = "getActive",
                 NEW v \in Copies(FoundPanels(q[i].op.found))
          PROVE  Untouched(v.id)
      BY <3>3 DEF ReadsApart, FoundKept
    <3> QED
      BY <3>1, <3>2, <3>3
  <2>2. PICK S : q \in Seq(S) /\ more \in Seq(S)
    BY <1>4
  <2> QED
    BY <1>4, <2>1, <2>2, AppendReads
<1> QED
  BY <1>1, <1>10, <1>11

\* A flush of the dirty set.
LEMMA FlushTracked ==
  ASSUME IInv, SInv, TInv, FlushTimer \/ FlushPendingSaves
  PROVE  TInv'
<1>1. PICK todo \in SetToSeqs(dirty) :
        /\ dirty' = dirty \ Reached(<<Flush(todo)>>, panels)
        /\ queue' = queue \o Issue(<<Flush(todo)>> \o <<>>, panels, order, active)
  BY DEF FlushTimer, FlushPendingSaves, StartFlush
<1>2. UNCHANGED <<disk, faults, panels, closed, nextTab>>
  BY UserEventKeeps DEF FlushTimer, FlushPendingSaves, process, memory, idVars
<1>3. PICK steps : steps = <<Flush(todo)>> \o <<>>
  OBVIOUS
<1>4. steps = <<Flush(todo)>>
  BY <1>3
<1>5. todo \in Seq(TabId)
  <2>1. dirty \in SUBSET (0..MaxTabs) /\ MaxTabs \in Nat
    BY StorageAssumption DEF IInv, SavingOK, TabId
  <2>2. todo \in Seq(dirty)
    BY <2>1, ArrangementProperties
  <2> QED
    BY <2>2, SeqMonotonic DEF IInv, SavingOK
<1>6. steps \in Steps(nextPanel) /\ WellShaped(steps)
  <2>1. Flush(todo) \in KnownStep(nextPanel) /\ Flush(todo).kind = "flush"
    BY <1>5 DEF KnownStep, Step, Flush
  <2>2. PICK n, first, after : n = nextPanel /\ first = Flush(todo) /\ after = <<>>
    OBVIOUS
  <2>3. after \in Seq(KnownStep(n)) /\ \A i \in 1..Len(after) : FALSE
    BY <2>2
  <2>4. <<first>> \o after \in Steps(n) /\ WellShaped(<<first>> \o after)
    BY <2>1, <2>2, <2>3, FlushFirst
  <2> QED
    BY <1>3, <2>2, <2>4
<1>7. Late(steps)
  <2>1. DOMAIN steps = {1} /\ steps[1] = Flush(todo)
    BY <1>4
  <2> QED
    BY <2>1 DEF Late, Flush
<1>8. PICK more : more = Issue(steps, panels, order, active)
  OBVIOUS
<1>9. ReadsApart(queue, disk.tabs)
  BY DEF ReadsApart, SInv, LoadingOK, Reads
<1>10. /\ Followed(queue \o more, disk.tabs, faults, panels, closed,
                   dirty \ Reached(steps, panels), nextTab)
       /\ ReadsClean(queue \o more, disk.tabs)
  BY <1>6, <1>7, <1>8, <1>9, SavesFollowed DEF IInv, TInv
<1>11. queue' = queue \o more /\ dirty' = dirty \ Reached(steps, panels)
  BY <1>1, <1>3, <1>4, <1>8
<1> QED
  BY <1>2, <1>10, <1>11 DEF TInv

\* What a write does to the row of a tab.
LEMMA AppliedLeaves ==
  ASSUME NEW d, IsDisk(d), NEW op, op.kind \in BoxWrites, NEW t
  PROVE  Leaves(op, d.tabs, Applied(op, d).tabs, t)
<1>1. DOMAIN d = {"tabs", "panels", "order", "active"}
  BY DEF IsDisk
<1>2. CASE op.kind = "putTab"
  <2>1. Applied(op, d).tabs = Put(d.tabs, op.tab.id, op.tab)
    BY <1>1, <1>2 DEF Applied
  <2>2. PICK new : new = Put(d.tabs, op.tab.id, op.tab)
    OBVIOUS
  <2>3. /\ DOMAIN new = DOMAIN d.tabs \cup {op.tab.id} /\ new[op.tab.id] = op.tab
        /\ \A k \in DOMAIN d.tabs : k # op.tab.id => new[k] = d.tabs[k]
    BY <2>2 DEF Put
  <2> QED
    BY <1>2, <2>1, <2>2, <2>3 DEF Leaves, About, Puts, Deletes
<1>3. CASE op.kind = "deleteTabs"
  <2>1. Applied(op, d).tabs = Delete(d.tabs, op.tabs)
    BY <1>1, <1>3 DEF Applied
  <2>2. PICK new : new = Delete(d.tabs, op.tabs)
    OBVIOUS
  <2>3. /\ DOMAIN new = DOMAIN d.tabs \ op.tabs
        /\ \A k \in DOMAIN new : new[k] = d.tabs[k]
    BY <2>2 DEF Delete
  <2> QED
    BY <1>3, <2>1, <2>2, <2>3 DEF Leaves, About, Puts, Deletes
<1>4. CASE op.kind \in {"putPanel", "deletePanel", "putActive"}
  <2>1. Applied(op, d).tabs = d.tabs
    BY <1>1, <1>4 DEF Applied
  <2> QED
    BY <1>4, <2>1 DEF Leaves, About, Puts, Deletes
<1> QED
  BY <1>2, <1>3, <1>4 DEF BoxWrites

\* The queue without its first command, which was a write.
LEMMA TailWrites ==
  ASSUME IInv, SInv, TInv, queue # <<>>, ~Reads(Head(queue))
  PROVE  /\ Tail(queue) \in Seq(Entry(nextPanel))
         /\ Head(queue).rest \in Steps(nextPanel) /\ WellShaped(Head(queue).rest)
         /\ Late(Head(queue).rest)
         /\ \A i \in DOMAIN queue : queue[i].op.kind # "getPanels"
         /\ \A tabs : ReadsApart(Tail(queue), tabs)
<1>1. queue \in Seq(Entry(nextPanel))
  BY DEF IInv
<1>2. /\ Len(queue) \in Nat \ {0} /\ DOMAIN queue = 1..Len(queue) /\ Head(queue) = queue[1]
      /\ Tail(queue) \in Seq(Entry(nextPanel))
      /\ DOMAIN Tail(queue) = 1..(Len(queue) - 1)
      /\ \A k \in DOMAIN Tail(queue) : Tail(queue)[k] = queue[k + 1]
  BY <1>1, TailParts
<1>3. Late(Head(queue).rest)
  <2>1. 1 \in DOMAIN queue
    BY <1>2
  <2> QED
    BY <1>2, <2>1 DEF TInv, Followed, LateRests
<1>4. Head(queue).rest \in Steps(nextPanel) /\ WellShaped(Head(queue).rest)
  BY HeadProperties
<1>5. \A i \in DOMAIN queue : queue[i].op.kind # "getPanels"
  BY <1>2 DEF SInv, LoadingOK, Reads
<1>6. \A k \in DOMAIN Tail(queue) : k + 1 \in DOMAIN queue
  BY <1>2
<1>7. ASSUME NEW tabs PROVE ReadsApart(Tail(queue), tabs)
  BY <1>2, <1>5, <1>6 DEF ReadsApart, SInv, LoadingOK, Reads
<1> QED
  BY <1>2, <1>3, <1>4, <1>5, <1>7

\* The worker executes a write.
LEMMA ExecuteTracked ==
  ASSUME IInv, SInv, TInv, ExecuteWrite
  PROVE  TInv'
<1>1. PICK steps, new : steps = Head(queue).rest /\ new = Applied(Head(queue).op, disk).tabs
  OBVIOUS
<1>2. PICK more : more = Issue(steps, panels, order, active)
  OBVIOUS
<1>3. /\ queue # <<>> /\ Head(queue).op.kind \in BoxWrites /\ disk'.tabs = new
      /\ queue' = Tail(queue) \o more /\ dirty' = dirty \ Reached(steps, panels)
      /\ UNCHANGED <<faults, panels, closed, nextTab>>
  BY <1>1, <1>2 DEF ExecuteWrite, GoOn, process, memory, idVars
<1>4. ~Reads(Head(queue))
  BY <1>3 DEF Reads, BoxWrites
<1>5. /\ Tail(queue) \in Seq(Entry(nextPanel)) /\ steps \in Steps(nextPanel)
      /\ WellShaped(steps) /\ Late(steps)
      /\ \A i \in DOMAIN queue : queue[i].op.kind = "getPanels" => i = 1
      /\ ReadsApart(Tail(queue), new)
  BY <1>1, <1>3, <1>4, TailWrites
<1>6. Followed(Tail(queue), new, faults, panels, closed, dirty, nextTab)
      /\ ReadsClean(Tail(queue), new)
  <2>1. \A t : Leaves(Head(queue).op, disk.tabs, new, t)
    BY <1>1, <1>3, AppliedLeaves DEF IInv, DiskOK
  <2>2. queue \in Seq(Entry(nextPanel)) /\ nextTab \in Nat
    BY SessionTypes DEF IInv
  <2> QED
    BY <1>3, <1>5, <2>1, <2>2, HeadExecuted DEF TInv
<1>7. /\ Followed(Tail(queue) \o more, new, faults, panels, closed,
                  dirty \ Reached(steps, panels), nextTab)
      /\ ReadsClean(Tail(queue) \o more, new)
  BY <1>2, <1>5, <1>6, SavesFollowed
<1> QED
  BY <1>3, <1>7 DEF TInv

\* A write fails: the tab it was about is back on the dirty set, had no row, or
\* was in the way of a later write.
LEMMA FailTracked ==
  ASSUME IInv, SInv, TInv, FailWrite
  PROVE  TInv'
<1>1. PICK steps, back :
        steps = Head(queue).rest /\ back = PutBack(Head(queue).op, Head(queue).rest)
  OBVIOUS
<1>2. PICK more : more = Issue(steps, panels, order, active)
  OBVIOUS
<1>3. /\ queue # <<>> /\ Head(queue).op.kind \in BoxWrites \cup {"putMeta"}
      /\ queue' = Tail(queue) \o more
      /\ dirty' = (dirty \cup back) \ Reached(steps, panels) /\ faults' = faults + 1
      /\ UNCHANGED <<disk, panels, closed, nextTab>>
  BY <1>1, <1>2 DEF FailWrite, memory, idVars
<1>4. ~Reads(Head(queue))
  BY <1>3 DEF Reads, BoxWrites
<1>5. /\ Tail(queue) \in Seq(Entry(nextPanel)) /\ steps \in Steps(nextPanel)
      /\ WellShaped(steps) /\ Late(steps)
      /\ \A i \in DOMAIN queue : queue[i].op.kind = "getPanels" => i = 1
      /\ ReadsApart(Tail(queue), disk.tabs)
  BY <1>1, <1>3, <1>4, TailWrites
<1>6. /\ Followed(Tail(queue), disk.tabs, faults + 1, panels, closed, dirty \cup back, nextTab)
      /\ ReadsClean(Tail(queue), disk.tabs)
  <2>1. \A t : Puts(Head(queue).op, t) /\ Flushes(Head(queue).rest) => t \in back
    BY <1>1 DEF Puts, Flushes, PutBack
  <2>2. queue \in Seq(Entry(nextPanel)) /\ nextTab \in Nat /\ faults \in Nat
    BY SessionTypes DEF IInv, ProcessOK
  <2> QED
    BY <1>3, <1>5, <2>1, <2>2, HeadFailed DEF TInv
<1>7. /\ Followed(Tail(queue) \o more, disk.tabs, faults + 1, panels, closed,
                  (dirty \cup back) \ Reached(steps, panels), nextTab)
      /\ ReadsClean(Tail(queue) \o more, disk.tabs)
  BY <1>2, <1>5, <1>6, SavesFollowed
<1> QED
  BY <1>3, <1>7 DEF TInv

\* The worker writes the order of the panels, which is about no tab.
LEMMA ExecuteMetaTracked ==
  ASSUME IInv, SInv, TInv, ExecuteMeta
  PROVE  TInv'
<1>1. PICK q, u, e, tabs :
        /\ q = queue /\ u = queue' /\ tabs = disk.tabs
        /\ e = [Head(queue) EXCEPT !.op = PutActive(@.active)]
  OBVIOUS
<1>2. /\ q # <<>> /\ Head(q).op.kind = "putMeta" /\ u = <<e>> \o Tail(q)
      /\ UNCHANGED <<faults, panels, closed, dirty, nextTab>>
      /\ disk' = Applied(Head(q).op, disk)
  BY <1>1 DEF ExecuteMeta, process, memory, saving, idVars
<1>3. q \in Seq(Entry(nextPanel)) /\ Head(q) \in [op : Command, rest : Steps(nextPanel)]
  BY <1>1, <1>2, HeadProperties DEF IInv, Entry
<1>4. e.rest = Head(q).rest /\ e.op.kind = "putActive"
  BY <1>1, <1>3 DEF PutActive
<1>5. /\ Len(q) \in Nat \ {0} /\ DOMAIN q = 1..Len(q) /\ Head(q) = q[1]
      /\ Len(Tail(q)) = Len(q) - 1 /\ DOMAIN Tail(q) = 1..(Len(q) - 1)
      /\ \A k \in DOMAIN Tail(q) : Tail(q)[k] = q[k + 1]
  BY <1>2, <1>3, TailParts
<1>6. /\ Len(u) = Len(q) /\ DOMAIN u = DOMAIN q /\ u[1] = e
      /\ \A k \in DOMAIN q : k # 1 => u[k] = q[k]
  <2>1. PICK left, S : left = Tail(q) /\ S = Entry(nextPanel) \cup {e}
    OBVIOUS
  <2>2. left \in Seq(S) /\ <<e>> \in Seq(S)
    <3>1. left \in Seq(Entry(nextPanel)) /\ e \in S
      BY <1>2, <1>3, <2>1, TailParts
    <3> QED
      BY <2>1, <3>1, SequenceOf
  <2>3. /\ Len(u) = 1 + Len(left) /\ DOMAIN u = 1..(1 + Len(left)) /\ Len(left) \in Nat
        /\ \A k \in 1..(1 + Len(left)) : u[k] = IF k <= 1 THEN e ELSE left[k - 1]
    BY <1>2, <2>1, <2>2
  <2>4. ASSUME NEW k \in DOMAIN q, k # 1 PROVE u[k] = q[k]
    <3>1. k - 1 \in DOMAIN left /\ (k - 1) + 1 = k /\ u[k] = left[k - 1]
      BY <1>5, <2>1, <2>3, <2>4
    <3> QED
      BY <1>5, <2>1, <3>1
  <2> QED
    BY <1>5, <2>1, <2>3, <2>4
<1>7. \A k \in DOMAIN q :
        /\ u[k].rest = q[k].rest
        /\ u[k] = q[k] \/ (~RowKind(q[k].op) /\ ~RowKind(u[k].op) /\ ~Reads(u[k]))
  BY <1>2, <1>4, <1>5, <1>6 DEF RowKind, Reads
<1>8. \A t : \A k \in DOMAIN q :
        u[k].op = q[k].op \/ (~About(q[k].op, t) /\ ~About(u[k].op, t))
  BY <1>7, AboutRows
<1>9. ASSUME NEW t
      PROVE  /\ Gone(q, tabs, t) => Gone(u, tabs, t)
             /\ \A c : Clean(q, tabs, t, c) => Clean(u, tabs, t, c)
             /\ \A f, c : OnItsWay(q, tabs, f, t, c) => OnItsWay(u, tabs, f, t, c)
  <2>1. Len(q) \in Nat /\ DOMAIN q = 1..Len(q)
    BY <1>5
  <2>2. \A k \in DOMAIN q :
          /\ u[k].rest = q[k].rest
          /\ u[k].op = q[k].op \/ (~About(q[k].op, t) /\ ~About(u[k].op, t))
    BY <1>7, <1>8
  <2> QED
    BY <1>6, <2>1, <2>2, SameAbout
<1>10. Followed(u, tabs, faults, panels, closed, dirty, nextTab)
  <2>1. Followed(q, tabs, faults, panels, closed, dirty, nextTab)
    BY <1>1 DEF TInv
  <2>2. LateRests(u)
    BY <1>6, <1>7, <2>1 DEF Followed, LateRests
  <2>3. Numbered(u, tabs, nextTab)
    BY <1>6, <1>7, <2>1 DEF Followed, Numbered, RowKind
  <2>4. faults <= 1 => \A v \in Copies(panels) : Tracks(u, tabs, faults, dirty, v)
    BY <1>9, <2>1 DEF Followed, Tracks
  <2>5. faults = 0 => \A i \in DOMAIN closed : Gone(u, tabs, closed[i].tab.id)
    BY <1>9, <2>1 DEF Followed
  <2> QED
    BY <2>2, <2>3, <2>4, <2>5 DEF Followed
<1>11. ReadsClean(u, tabs)
  <2>1. ReadsClean(q, tabs)
    BY <1>1 DEF TInv
  <2>2. \A i \in DOMAIN u : Reads(u[i]) => u[i] = q[i]
    BY <1>6, <1>7
  <2>3. ASSUME NEW i \in DOMAIN u, u[i].op.kind = "getPanels",
               NEW t \in DOMAIN tabs, NEW k \in DOMAIN u
        PROVE  ~About(u[k].op, t)
    <3>1. q[i].op.kind = "getPanels"
      BY <2>2, <2>3 DEF Reads
    <3>2. ~About(q[k].op, t)
      BY <1>6, <2>1, <2>3, <3>1 DEF ReadsClean
    <3> QED
      BY <1>6, <1>8, <3>2
  <2>4. ASSUME NEW i \in DOMAIN u, u[i].op.kind = "getActive",
               NEW v \in Copies(FoundPanels(u[i].op.found))
        PROVE  Clean(u, tabs, v.id, Settled(v))
    <3>1. u[i] = q[i]
      BY <2>2, <2>4 DEF Reads
    <3>2. Clean(q, tabs, v.id, Settled(v))
      BY <1>6, <2>1, <2>4, <3>1 DEF ReadsClean
    <3> QED
      BY <1>9, <3>2
  <2> QED
    BY <2>3, <2>4 DEF ReadsClean
<1>12. disk'.tabs = tabs
  <2>1. DOMAIN disk = {"tabs", "panels", "order", "active"}
    BY DEF IInv, DiskOK, IsDisk
  <2> QED
    BY <1>1, <1>2, <2>1 DEF Applied
<1> QED
  BY <1>1, <1>2, <1>10, <1>11, <1>12 DEF TInv

\* The queue without the read that LoadTabs waited for.
LEMMA ReadAnswered ==
  ASSUME IInv, SInv, TInv, queue # <<>>, Reads(Head(queue))
  PROVE  /\ Tail(queue) \in Seq(Entry(nextPanel))
         /\ Followed(Tail(queue), disk.tabs, faults, panels, closed, dirty, nextTab)
         /\ \A k \in DOMAIN Tail(queue) : ~Reads(Tail(queue)[k])
         /\ Head(queue).op.kind = "getPanels" =>
              \A t \in DOMAIN disk.tabs, k \in DOMAIN Tail(queue) :
                ~About(Tail(queue)[k].op, t)
         /\ Head(queue).op.kind = "getActive" =>
              \A v \in Copies(FoundPanels(Head(queue).op.found)) :
                Clean(Tail(queue), disk.tabs, v.id, Settled(v))
<1>1. queue \in Seq(Entry(nextPanel)) /\ nextTab \in Nat
  BY SessionTypes DEF IInv
<1>2. PICK q, u : q = queue /\ u = Tail(queue)
  OBVIOUS
<1>3. /\ Len(q) \in Nat \ {0} /\ DOMAIN q = 1..Len(q) /\ Head(q) = q[1]
      /\ u \in Seq(Entry(nextPanel)) /\ DOMAIN u = 1..(Len(q) - 1)
      /\ \A k \in DOMAIN u : u[k] = q[k + 1]
  BY <1>1, <1>2, TailParts
<1>4. 1 \in DOMAIN q /\ \A k \in DOMAIN u : k + 1 \in DOMAIN q /\ k + 1 # 1
  BY <1>3
<1>5. \A k \in DOMAIN u : ~Reads(u[k])
  BY <1>2, <1>3, <1>4 DEF SInv, LoadingOK
<1>6. \A t : Leaves(Head(queue).op, disk.tabs, disk.tabs, t)
  BY DEF Leaves, Reads, About, Puts, Deletes
<1>7. \A i \in DOMAIN queue : queue[i].op.kind = "getPanels" => i = 1
  BY DEF SInv, LoadingOK, Reads
<1>8. Followed(u, disk.tabs, faults, panels, closed, dirty, nextTab)
  BY <1>1, <1>2, <1>6, <1>7, HeadExecuted DEF TInv
<1>9. ASSUME q[1].op.kind = "getPanels", NEW t \in DOMAIN disk.tabs, NEW k \in DOMAIN u
      PROVE  ~About(u[k].op, t)
  BY <1>2, <1>3, <1>4, <1>9 DEF TInv, ReadsClean
<1>10. ASSUME q[1].op.kind = "getActive", NEW v \in Copies(FoundPanels(q[1].op.found))
       PROVE  Clean(u, disk.tabs, v.id, Settled(v))
  <2>1. Clean(q, disk.tabs, v.id, Settled(v))
    BY <1>2, <1>4, <1>10 DEF TInv, ReadsClean
  <2> QED
    BY <1>3, <1>4, <2>1 DEF Clean
<1> QED
  BY <1>2, <1>3, <1>5, <1>8, <1>9, <1>10

\* A queue with no read in it.
LEMMA NoReadsClean ==
  ASSUME NEW q, NEW tabs, \A i \in DOMAIN q : ~Reads(q[i])
  PROVE  ReadsClean(q, tabs)
BY DEF ReadsClean, Reads

\* Commands that are about no row, sent after the others.
LEMMA CalmFollowed ==
  ASSUME NEW S, NEW q \in Seq(S), NEW more \in Seq(S), LateRests(more),
         \A k \in DOMAIN more : ~RowKind(more[k].op),
         NEW tabs, NEW f, NEW ps, NEW cl, NEW d, NEW n \in Nat,
         LateRests(q), Numbered(q, tabs, n),
         f <= 1 => \A v \in Copies(ps) : Tracks(q, tabs, f, d, v),
         f = 0 => \A i \in DOMAIN cl : Gone(q, tabs, cl[i].tab.id)
  PROVE  Followed(q \o more, tabs, f, ps, cl, d, n)
<1>1. \A k \in DOMAIN more : \A t : ~About(more[k].op, t) /\ ~Puts(more[k].op, t)
  BY AboutRows DEF About
<1>2. Numbered(more, tabs, n)
  BY DEF Numbered, RowKind
<1>3. f <= 1 => \A v \in Copies(ps) : Secures(q, tabs, f, d, more, v)
  BY <1>1 DEF Secures
<1>4. f = 0 => \A i \in DOMAIN cl : StaysGone(q, tabs, more, cl[i].tab.id)
  BY <1>1 DEF StaysGone
<1>5. n <= n
  OBVIOUS
<1> QED
  BY <1>2, <1>3, <1>4, <1>5, AppendFollowed

\* The command with which a session goes on being loaded.
LEMMA ReadEntry ==
  ASSUME NEW op, op.kind \in {"getPanels", "getActive"}, NEW E, NEW q \in Seq(E),
         NEW more, more = <<[op |-> op, rest |-> <<>>]>>
  PROVE  /\ \E S : q \in Seq(S) /\ more \in Seq(S)
         /\ LateRests(more)
         /\ DOMAIN more = {1} /\ more[1].op = op /\ ~RowKind(op)
<1>1. PICK e, S : e = [op |-> op, rest |-> <<>>] /\ S = E \cup {e}
  OBVIOUS
<1>2. more = <<e>> /\ e.op = op /\ e.rest = <<>> /\ e \in S
  BY <1>1
<1>3. q \in Seq(S) /\ more \in Seq(S)
  BY <1>1, <1>2, SequenceOf
<1>4. DOMAIN more = {1} /\ more[1] = e
  BY <1>2
<1>5. Late(e.rest)
  BY <1>2 DEF Late
<1> QED
  BY <1>2, <1>3, <1>4, <1>5 DEF LateRests, RowKind

\* The process is started.
LEMMA StartTracked ==
  ASSUME IInv, SInv, TInv, Start
  PROVE  TInv'
<1>1. /\ queue' = <<[op |-> GetPanels, rest |-> <<>>]>> /\ queue = <<>>
      /\ UNCHANGED <<disk, faults, panels, closed, dirty, nextTab>>
  BY DEF Start, SInv, LoadingOK, memory, saving, idVars
<1>2. PICK more, op : more = queue' /\ op = GetPanels
  OBVIOUS
<1>3. queue \in Seq(Entry(nextPanel)) /\ nextTab \in Nat
  BY SessionTypes DEF IInv
<1>4. /\ \E S : queue \in Seq(S) /\ more \in Seq(S)
      /\ LateRests(more)
      /\ DOMAIN more = {1} /\ more[1].op = op /\ ~RowKind(op) /\ op.kind = "getPanels"
  <2>1. op.kind = "getPanels"
    BY <1>2 DEF GetPanels
  <2>2. op.kind \in {"getPanels", "getActive"} /\ more = <<[op |-> op, rest |-> <<>>]>>
    BY <1>1, <1>2, <2>1
  <2>3. PICK q : q = queue
    OBVIOUS
  <2>4. /\ \E S : q \in Seq(S) /\ more \in Seq(S)
        /\ LateRests(more)
        /\ DOMAIN more = {1} /\ more[1].op = op /\ ~RowKind(op)
    BY <1>3, <2>2, <2>3, ReadEntry
  <2> QED
    BY <2>1, <2>3, <2>4
<1>5. Followed(queue, disk.tabs, faults, panels, closed, dirty, nextTab)
  BY DEF TInv
<1>6. Followed(queue \o more, disk.tabs, faults, panels, closed, dirty, nextTab)
  <2>1. PICK S : queue \in Seq(S) /\ more \in Seq(S)
    BY <1>4
  <2> QED
    BY <1>3, <1>4, <1>5, <2>1, CalmFollowed DEF Followed
<1>7. queue \o more = more
  <2>1. PICK S : more \in Seq(S)
    BY <1>4
  <2> QED
    BY <1>1, <2>1
<1>8. ReadsClean(more, disk.tabs)
  BY <1>4, AboutRows DEF ReadsClean
<1> QED
  BY <1>1, <1>2, <1>6, <1>7, <1>8 DEF TInv

\* What has been read is on disk as it was.
LEMMA StoredClean ==
  ASSUME IInv, DiskKept, NEW found, AsStored(found), NEW q,
         NEW v \in Copies(FoundPanels(found)), \A k \in DOMAIN q : ~About(q[k].op, v.id)
  PROVE  Clean(q, disk.tabs, v.id, Settled(v))
<1>1. PICK row : row = disk.tabs[v.id]
  OBVIOUS
<1>2. row \in Tab /\ v = Settled(row)
  BY <1>1 DEF AsStored, IInv, DiskOK, IsDisk, IsBox
<1>3. Settled(v) = Settled(row)
  BY <1>2 DEF Settled, Tab
<1> QED
  BY <1>1, <1>3 DEF Clean

\* getPanels answers: the rows of its panels are not the business of anybody.
LEMMA ReadPanelsTracked ==
  ASSUME IInv, IInv', SInv, TInv, ReadPanels
  PROVE  TInv'
<1>1. PICK found : AsStored(found) /\ Answered(found)
  BY ReadPanelsSession
<1>2. /\ queue # <<>> /\ Head(queue).op.kind = "getPanels"
      /\ UNCHANGED <<disk, faults, panels, closed, dirty, nextTab>>
  BY DEF ReadPanels, GetPanels, process, memory, saving
<1>3. PICK q, op, more :
        q = Tail(queue) /\ op = GetActive(found) /\ more = <<[op |-> op, rest |-> <<>>]>>
  OBVIOUS
<1>4. /\ q \in Seq(Entry(nextPanel))
      /\ Followed(q, disk.tabs, faults, panels, closed, dirty, nextTab)
      /\ \A k \in DOMAIN q : ~Reads(q[k])
      /\ \A t \in DOMAIN disk.tabs, k \in DOMAIN q : ~About(q[k].op, t)
  BY <1>2, <1>3, ReadAnswered DEF Reads
<1>5. op.kind = "getActive" /\ op.found = found
  BY <1>3 DEF GetActive
<1>6. /\ \E S : q \in Seq(S) /\ more \in Seq(S)
      /\ LateRests(more)
      /\ DOMAIN more = {1} /\ more[1].op = op /\ ~RowKind(op)
  BY <1>3, <1>4, <1>5, ReadEntry
<1>7. PICK S : q \in Seq(S) /\ more \in Seq(S)
  BY <1>6
<1>8. nextTab \in Nat
  BY SessionTypes
<1>9. Followed(q \o more, disk.tabs, faults, panels, closed, dirty, nextTab)
  BY <1>4, <1>6, <1>7, <1>8, CalmFollowed DEF Followed
<1>10. DiskKept
  <2>1. 1 \in DOMAIN queue /\ queue[1] = Head(queue)
    BY <1>2 DEF IInv
  <2> QED
    BY <1>2, <2>1 DEF SInv, LoadingOK, Reads
<1>11. PICK u : u = q \o more
  OBVIOUS
<1>12. \A k \in DOMAIN u : \/ k \in DOMAIN q /\ u[k] = q[k]
                           \/ u[k].op = op
  <2>1. /\ \A k \in DOMAIN q : u[k] = q[k]
        /\ \A k \in DOMAIN u : k \notin DOMAIN q =>
             k - Len(q) \in DOMAIN more /\ u[k] = more[k - Len(q)]
    BY <1>7, <1>11, ConcatParts
  <2> QED
    BY <1>6, <2>1
<1>13. ReadsClean(u, disk.tabs)
  <2>1. \A i \in DOMAIN u : Reads(u[i]) => u[i].op = op
    BY <1>4, <1>12
  <2>2. ASSUME NEW v \in Copies(FoundPanels(found))
        PROVE  Clean(u, disk.tabs, v.id, Settled(v))
    <3>1. v.id \in DOMAIN disk.tabs
      BY <1>1 DEF AsStored
    <3>2. \A k \in DOMAIN u : ~About(u[k].op, v.id)
      BY <1>4, <1>6, <1>12, <3>1, AboutRows
    <3> QED
      BY <1>1, <1>10, <3>2, StoredClean
  <2> QED
    BY <1>5, <2>1, <2>2 DEF ReadsClean, Reads
<1>14. queue' = u
  BY <1>1, <1>3, <1>4, <1>11 DEF Answered
<1> QED
  BY <1>2, <1>9, <1>11, <1>13, <1>14 DEF TInv

\* A read fails, which loses no tab that is open.
LEMMA FailLoadTracked ==
  ASSUME IInv, SInv, TInv, FailLoad
  PROVE  TInv'
<1>1. /\ queue # <<>> /\ Reads(Head(queue)) /\ queue' = Tail(queue) /\ faults' = faults + 1
      /\ UNCHANGED <<disk, panels, closed, dirty, nextTab>>
  BY DEF FailLoad, Reads, memory, saving, idVars
<1>2. queue \in Seq(Entry(nextPanel)) /\ nextTab \in Nat /\ faults \in Nat
  BY SessionTypes DEF IInv, ProcessOK
<1>3. \A t : ~Puts(Head(queue).op, t)
  BY <1>1 DEF Reads, Puts
<1>4. \A i \in DOMAIN queue : queue[i].op.kind = "getPanels" => i = 1
  BY DEF SInv, LoadingOK, Reads
<1>5. PICK d : d = dirty \cup {}
  OBVIOUS
<1>6. /\ Followed(Tail(queue), disk.tabs, faults + 1, panels, closed, d, nextTab)
      /\ ReadsClean(Tail(queue), disk.tabs)
  BY <1>1, <1>2, <1>3, <1>4, <1>5, HeadFailed DEF TInv
<1>7. d = dirty
  BY <1>5
<1> QED
  BY <1>1, <1>6, <1>7 DEF TInv

\* Plain steps that write or delete no row of a tab make for such a command.
LEMMA PlainSent ==
  ASSUME NEW n, NEW steps \in Seq(PlainStep(n)), Late(steps), NEW ps, NEW ord, NEW act,
         NEW more, more = Issue(steps, ps, ord, act)
  PROVE  Calm(more)
<1>1. CASE steps = <<>>
  <2>1. Unfolded(steps, ps, ord) = <<>>
    BY <1>1 DEF Unfolded
  <2>2. more = <<>>
    BY <2>1 DEF Issue
  <2> QED
    BY <2>2 DEF Calm, Orderly
<1>2. CASE steps # <<>>
  <2>1. Head(steps) \in PlainStep(n) /\ Late(Tail(steps)) /\ ~RowKind(Head(steps))
    BY <1>2, LateParts DEF RowKind
  <2>2. Head(steps).kind \in PlainKinds
    BY <2>1 DEF PlainStep, KnownStep, Step, PlainKinds
  <2>3. PICK e : more = <<e>> /\ FirstEntry(e, Head(steps), Tail(steps))
    BY <1>2, <2>2, FirstSent
  <2>4. DOMAIN more = {1} /\ more[1] = e
    BY <2>3
  <2> QED
    BY <2>1, <2>3, <2>4 DEF Calm, Orderly, FirstEntry
<1> QED
  BY <1>1, <1>2

\* The session is restored: its tabs are on disk as they are shown.
LEMMA RestoreTracked ==
  ASSUME IInv, IInv', SInv, TInv, RestoreSession
  PROVE  TInv'
<1>0. PICK found, ord, ps, act, steps, more, q :
      /\ found = Head(queue).op.found
      /\ ord = FoundOrder(found) /\ ps = FoundPanels(found) /\ act = active'
      /\ steps = IF disk.active = Unsaved THEN Append(PutEvery(ord, ps), Meta)
                 ELSE <<>>
      /\ more = Issue(steps, ps, ord, act) /\ q = Tail(queue)
  OBVIOUS
<1>1. /\ queue # <<>> /\ Head(queue).op.kind = "getActive"
      /\ panels' = ps /\ order' = ord /\ queue' = q \o more
      /\ UNCHANGED <<disk, faults, closed, dirty, nextTab, nextPanel>>
  BY <1>0 DEF RestoreSession, Emit, Then, saving, idVars
<1>2. /\ q \in Seq(Entry(nextPanel))
      /\ Followed(q, disk.tabs, faults, panels, closed, dirty, nextTab)
      /\ \A k \in DOMAIN q : ~Reads(q[k])
      /\ \A v \in Copies(ps) : Clean(q, disk.tabs, v.id, Settled(v))
  BY <1>0, <1>1, ReadAnswered DEF Reads
<1>3. Calm(more)
  <2>1. PICK w : w = PutEvery(ord, ps)
    OBVIOUS
  <2>2. Sound(ps, ord, nextPanel)
    BY <1>1, <1>0 DEF IInv, MemoryOK
  <2>3. /\ w \in Seq(PlainStep(nextPanel)) /\ Meta \in PlainStep(nextPanel)
        /\ \A k \in DOMAIN w : w[k].kind = "putPanel"
    BY <2>1, <2>2, PutEveryPlain, PlainSteps DEF PutEvery, PutPanel
  <2>4. PICK S : S = PlainStep(nextPanel)
    OBVIOUS
  <2>5. steps \in Seq(S) /\ \A k \in DOMAIN steps : steps[k] = Meta \/ \E j \in DOMAIN w : steps[k] = w[j]
    BY <1>0, <2>1, <2>3, <2>4
  <2>6. Late(steps)
    BY <2>3, <2>5 DEF Late, Meta
  <2> QED
    BY <1>0, <2>4, <2>5, <2>6, PlainSent
<1>4. /\ \E S : q \in Seq(S) /\ more \in Seq(S)
      /\ LateRests(more) /\ \A k \in DOMAIN more : ~Reads(more[k])
  BY <1>2, <1>3, CommandParts DEF Calm
<1>5. PICK S : q \in Seq(S) /\ more \in Seq(S)
  BY <1>4
<1>6. nextTab \in Nat
  BY SessionTypes
<1>7. Followed(q \o more, disk.tabs, faults, ps, closed, dirty, nextTab)
  <2>1. \A v \in Copies(ps) : Tracks(q, disk.tabs, faults, dirty, v)
    BY <1>2 DEF Tracks
  <2>2. \A k \in DOMAIN more : ~RowKind(more[k].op)
    BY <1>3 DEF Calm
  <2>3. /\ LateRests(q) /\ Numbered(q, disk.tabs, nextTab)
        /\ faults = 0 => \A i \in DOMAIN closed : Gone(q, disk.tabs, closed[i].tab.id)
    BY <1>2 DEF Followed
  <2> QED
    BY <1>4, <1>5, <1>6, <2>1, <2>2, <2>3, CalmFollowed
<1>8. ReadsClean(q \o more, disk.tabs)
  <2>1. ReadsClean(q, disk.tabs)
    BY <1>2, NoReadsClean
  <2>2. \A i \in DOMAIN q : q[i].op.kind \notin {"getPanels", "getActive"}
    BY <1>2 DEF Reads
  <2> QED
    BY <1>4, <1>5, <2>1, <2>2, AppendReads
<1> QED
  BY <1>1, <1>7, <1>8 DEF TInv

\* The sample tab of a first run is new, and its row is written first.
LEMMA SeedTracked ==
  ASSUME IInv, IInv', SInv, TInv, SeedSession
  PROVE  TInv'
<1>0. PICK p, tab, ps, ord, act, steps, q, n :
      /\ p = nextPanel + 1 /\ tab = NewTab(NoNode, Sample)
      /\ ps = panels' /\ ord = order' /\ act = active'
      /\ steps = <<PutTab(tab), PutPanel(p, RowOf(panels'[p])), Meta>>
      /\ q = Tail(queue) /\ n = nextTab + 1
  OBVIOUS
<1>1. /\ queue # <<>> /\ Reads(Head(queue)) /\ nextTab < MaxTabs /\ nextTab' = n
      /\ queue' = q \o Issue(steps, ps, ord, act)
      /\ ps = Put(<<>>, p, [name |-> 1, strip |-> <<tab>>, active |-> tab.id])
      /\ UNCHANGED <<disk, faults, closed, dirty>>
  BY <1>0 DEF SeedSession, Emit, Then, Reads, GetActive, saving
<1>2. /\ q \in Seq(Entry(nextPanel))
      /\ Followed(q, disk.tabs, faults, panels, closed, dirty, nextTab)
      /\ \A k \in DOMAIN q : ~Reads(q[k])
  BY <1>0, <1>1, ReadAnswered
<1>3. nextTab \in Nat /\ n \in Nat /\ nextTab <= n /\ n \notin 1..nextTab /\ n \in 1..n
  BY <1>0, SessionTypes
<1>4. tab.id = n /\ tab \in Tab
  BY <1>0, <1>1, NewTabType, TabsAssumption DEF NewTab
<1>5. \A v \in Copies(ps) : v = tab
  <2>1. PICK panel : panel = [name |-> 1, strip |-> <<tab>>, active |-> tab.id]
    OBVIOUS
  <2>2. DOMAIN ps = {p} /\ ps[p] = panel
    BY <1>1, <2>1 DEF Put
  <2>3. ToSet(panel.strip) = {tab}
    <3>1. panel.strip = <<tab>>
      BY <2>1
    <3> QED
      BY <3>1 DEF ToSet
  <2> QED
    BY <2>2, <2>3, CopyPlace
<1>6. steps # <<>> /\ Head(steps) = PutTab(tab) /\ Late(Tail(steps))
  <2>1. PICK one, two, three :
          one = PutTab(tab) /\ two = PutPanel(p, RowOf(panels'[p])) /\ three = Meta
    OBVIOUS
  <2>2. steps = <<one, two, three>>
    BY <1>0, <2>1
  <2>3. steps # <<>> /\ Head(steps) = one /\ Tail(steps) = <<two, three>>
    BY <2>2
  <2>4. two.kind = "putPanel" /\ three.kind = "meta"
    BY <2>1 DEF PutPanel, Meta
  <2>5. \A k \in DOMAIN <<two, three>> : <<two, three>>[k] \in {two, three}
    OBVIOUS
  <2> QED
    BY <2>1, <2>3, <2>4, <2>5 DEF Late
<1>7. /\ PutTab(tab).kind \in PlainKinds /\ RowKind(PutTab(tab)) /\ PutTab(tab).kind = "putTab"
      /\ PutTab(tab).tab = tab
  BY DEF PutTab, PlainKinds, RowKind
<1>8. PICK e : /\ Issue(steps, ps, ord, act) = <<e>>
               /\ FirstEntry(e, Head(steps), Tail(steps))
  <2>1. steps # <<>> /\ Head(steps).kind \in PlainKinds
    BY <1>6, <1>7
  <2> QED
    BY <2>1, FirstSent
<1>9. PICK more : more = <<e>>
  OBVIOUS
<1>10. /\ e.op = PutTab(tab) /\ Orderly(more) /\ DOMAIN more = {1} /\ more[1] = e
  BY <1>6, <1>7, <1>8, <1>9, OneCommand DEF FirstEntry, Orderly
<1>11. /\ \E S : q \in Seq(S) /\ more \in Seq(S)
       /\ LateRests(more) /\ \A k \in DOMAIN more : ~Reads(more[k])
  BY <1>2, <1>10, CommandParts
<1>12. PICK S : q \in Seq(S) /\ more \in Seq(S)
  BY <1>11
<1>13. Numbered(more, disk.tabs, n)
  BY <1>2, <1>3, <1>4, <1>7, <1>10 DEF Numbered, Followed
<1>14. ASSUME NEW v \in Copies(ps) PROVE Secures(q, disk.tabs, faults, dirty, more, v)
  <2>1. Gone(q, disk.tabs, v.id)
    BY <1>2, <1>3, <1>4, <1>5, NewGone DEF Followed
  <2>2. Puts(e.op, v.id) /\ e.op.tab = v
    BY <1>5, <1>7, <1>10 DEF Puts
  <2> QED
    BY <1>9, <2>1, <2>2 DEF Secures
<1>15. ASSUME faults = 0, NEW i \in DOMAIN closed
       PROVE  StaysGone(q, disk.tabs, more, closed[i].tab.id)
  <2>1. closed[i].tab.id \in 1..nextTab
    BY DEF SInv, ClosedTabsOK, Good
  <2>2. ~Puts(e.op, closed[i].tab.id)
    BY <1>3, <1>4, <1>7, <1>10, <2>1 DEF Puts
  <2>3. Gone(q, disk.tabs, closed[i].tab.id)
    BY <1>2, <1>15 DEF Followed
  <2> QED
    BY <1>10, <2>2, <2>3 DEF StaysGone
<1>16. Followed(q \o more, disk.tabs, faults, ps, closed, dirty, n)
  <2>1. LateRests(q) /\ Numbered(q, disk.tabs, nextTab)
    BY <1>2 DEF Followed
  <2> QED
    BY <1>3, <1>11, <1>12, <1>13, <1>14, <1>15, <2>1, AppendFollowed
<1>17. ReadsClean(q \o more, disk.tabs)
  <2>1. ReadsClean(q, disk.tabs)
    BY <1>2, NoReadsClean
  <2>2. \A i \in DOMAIN q : q[i].op.kind \notin {"getPanels", "getActive"}
    BY <1>2 DEF Reads
  <2> QED
    BY <1>11, <1>12, <2>1, <2>2, AppendReads
<1> QED
  BY <1>0, <1>1, <1>8, <1>9, <1>16, <1>17 DEF TInv

-----------------------------------------------------------------------------
(* Together.                                                               *)

\* At first nothing is shown and nothing is under way.
LEMMA InitTracked ==
  ASSUME Init
  PROVE  TInv
<1>1. IInv /\ queue = <<>> /\ panels = <<>> /\ closed = <<>>
  BY InitOK DEF Init
<1>2. DOMAIN queue = {} /\ DOMAIN panels = {} /\ DOMAIN closed = {}
  BY <1>1
<1>3. DOMAIN disk.tabs \subseteq 1..nextTab
  <2>1. \E n \in 0..MaxTabs : DOMAIN disk.tabs \subseteq 1..n
    BY <1>1, StorageAssumption DEF IInv, DiskOK, IsDisk, IsBox, TabId
  <2> QED
    BY <2>1 DEF Init
<1>4. LateRests(queue) /\ Numbered(queue, disk.tabs, nextTab)
  BY <1>2, <1>3 DEF LateRests, Numbered
<1>5. \A v : v \notin Copies(panels)
  BY <1>2, CopyPlace
<1> QED
  BY <1>2, <1>4, <1>5 DEF TInv, Followed, ReadsClean

\* Nothing happens.
LEMMA StutterTracked ==
  ASSUME TInv, UNCHANGED vars
  PROVE  TInv'
BY DEF TInv, vars

\* Every step of a session keeps the tabs tracked.
LEMMA StepTracked ==
  ASSUME IInv, IInv', SInv, TInv, [SessionNext]_vars
  PROVE  TInv'
<1>1. CASE TabEvent
  <2>1. ASSUME NEW t \in TabId,
               \/ RemoveTab(t) \/ CloseOtherTabs(t)
               \/ CloseTabsToTheRight(t) \/ CloseTabsToTheLeft(t)
        PROVE  Closes
    BY <2>1, RemoveTabSession, CloseOtherTabsSession, CloseSideSession
  <2>2. ASSUME NEW t \in TabId, DuplicateTab(t) PROVE Opens
    BY <2>2, DuplicateTabSession
  <2>3. ASSUME NEW t \in TabId,
               \/ \E node \in Nodes \cup {NoNode}, c \in Configs : UpdateTab(t, node, c)
               \/ \E c \in Configs : RevertTab(t, c)
               \/ \E s \in SendId : ViewResponseHistoryEntry(t, s)
        PROVE  Edits
    BY <2>3, EditEventEdits
  <2>4. ASSUME NEW t \in TabId, SendRequest(t) \/ CancelRequest(t) PROVE Edits
    BY <2>4, SendEventEdits
  <2>5. ASSUME NEW node \in Nodes, ShowLinkedTab(node) PROVE Moves
    BY <2>5, ShowLinkedTabSession
  <2>6. ASSUME NEW node \in Nodes \cup {NoNode}, NEW c \in Configs, AddTab(node, c)
        PROVE  Opens
    BY <2>6, AddTabSession
  <2>7. ASSUME ReopenAsLinkedTab PROVE Moves
    BY <2>7, ReopenAsLinkedTabSession
  <2>8. ASSUME ReopenClosedTab PROVE Opens
    BY <2>8, ReopenClosedTabSession
  <2>9. ASSUME NEW i \in TabId, SetActiveIndex(i) PROVE Moves
    BY <2>9, SetActiveIndexSession
  <2>10. Closes \/ Opens \/ Edits \/ Moves \/ FlushPendingSaves
    BY <1>1, <2>1, <2>2, <2>3, <2>4, <2>5, <2>6, <2>7, <2>8, <2>9 DEF TabEvent
  <2> QED
    BY <2>10, ClosesTracked, OpensTracked, EditsTracked, MovesTracked, FlushTracked
<1>2. CASE PanelEvent
  <2>1. ASSUME NEW p \in PanelId,
               RemovePanel(p) \/ \E saved \in SavedConfigs : CloseSavedTabs(p, saved)
        PROVE  Closes
    BY <2>1, RemovePanelSession, CloseSavedTabsSession
  <2>2. ASSUME NEW p \in PanelId,
               \/ SetActivePanel(p)
               \/ \E n \in 0..MaxName : RenamePanel(p, n)
               \/ \E i, j \in TabId : ReorderTabs(p, i, j)
        PROVE  Moves
    BY <2>2, PanelChoiceSession, RenamePanelSession, ReorderTabsSession
  <2>3. ASSUME NEW t \in TabId,
               (\E p \in PanelId : MoveTabToPanel(t, p)) \/ MoveTabToNewPanel(t)
        PROVE  Moves
    BY <2>3, MoveTabToPanelSession, MoveTabToNewPanelSession
  <2>4. ASSUME AddPanel \/ \E i, j \in PanelId : ReorderPanels(i, j)
        PROVE  Moves
    BY <2>4, AddPanelSession, PanelChoiceSession
  <2>5. Closes \/ Moves
    BY <1>2, <2>1, <2>2, <2>3, <2>4 DEF PanelEvent
  <2> QED
    BY <2>5, ClosesTracked, MovesTracked
<1>3. CASE Answer
  BY <1>3, AnswerEdits, EditsTracked
<1>4. CASE Worker
  BY <1>4, ReadPanelsTracked, RestoreTracked, SeedTracked, ExecuteTracked,
     ExecuteMetaTracked, FailTracked, FailLoadTracked DEF Worker, Load
<1>5. CASE Start \/ FlushTimer \/ UNCHANGED vars
  BY <1>5, StartTracked, FlushTracked, StutterTracked
<1> QED
  BY <1>1, <1>2, <1>3, <1>4, <1>5 DEF SessionNext

\* As long as no two commands have failed, a tab that is edited, answered or
\* reopened is saved or will be: it is on disk as it is shown, or a write of it
\* is under way, or it is on the dirty set.
THEOREM StaleTabsAreTracked ==
  ASSUME SessionsWellKept
  PROVE  SessionSpec => [](faults <= 1 => StaleTabIsTracked)
<1>1. Init => IInv /\ SInv /\ TInv
  BY InitOK, InitSession, InitTracked
<1>2. IInv /\ SInv /\ TInv /\ [SessionNext]_vars => IInv' /\ SInv' /\ TInv'
  <2>1. [SessionNext]_vars => [Next]_vars
    BY DEF Next
  <2> QED
    BY <2>1, StepOK, StepSession, StepTracked
<1>3. IInv /\ SInv /\ TInv => (faults <= 1 => StaleTabIsTracked)
  <2> SUFFICES ASSUME IInv, SInv, TInv, faults <= 1, NEW t \in TabId,
                      IsOpen(panels, t), t \in DOMAIN disk.tabs, ~Stored(t), t \notin dirty
               PROVE  \E i \in DOMAIN queue :
                        /\ queue[i].op.kind = "putTab"
                        /\ queue[i].op.tab.id = t
                        /\ SameContent(queue[i].op.tab, Live(t))
    BY DEF StaleTabIsTracked
  <2>1. Live(t) \in Copies(panels) /\ Live(t).id = t
    BY LiveCopy
  <2>2. Tracks(queue, disk.tabs, faults, dirty, Live(t))
    BY <2>1 DEF TInv, Followed
  <2>3. ~Clean(queue, disk.tabs, t, Settled(Live(t)))
    BY DEF Clean, Stored, SameContent
  <2>4. OnItsWay(queue, disk.tabs, faults, t, Settled(Live(t)))
    BY <2>1, <2>2, <2>3 DEF Tracks
  <2> QED
    BY <2>4 DEF OnItsWay, Puts, SameContent
<1> QED
  BY <1>1, <1>2, <1>3, PTL DEF SessionSpec

-----------------------------------------------------------------------------
(* The rows of the panels, and what the queue will make of them.           *)

\* What a command does to the row of panel p.
Lists(op, p, t)  == op.kind = "putPanel" /\ op.panel = p /\ t \in ToSet(op.row.ids)
WritesRow(op, p) == op.kind \in {"putPanel", "deletePanel"} /\ op.panel = p

\* The row of panel p lists tab t.
HasTab(rows, p, t) == p \in DOMAIN rows /\ t \in ToSet(rows[p].ids)

\* After the first n commands of a queue, the row of panel p lists tab t.
RowLists(q, rows, p, t, n) ==
  \E j \in 0..n :
    /\ IF j = 0 THEN HasTab(rows, p, t) ELSE Lists(q[j].op, p, t)
    /\ \A k \in (j + 1)..n : ~WritesRow(q[k].op, p)

\* From there to the end of the queue, some row always lists tab t.
ListedFrom(q, rows, t, m) ==
  \A n \in m..Len(q) : \E p : RowLists(q, rows, p, t, n)

\* After the first n commands of a queue, tab t has a row.
HasRow(q, tabs, t, n) ==
  \E j \in 0..n :
    /\ IF j = 0 THEN t \in DOMAIN tabs ELSE Puts(q[j].op, t)
    /\ \A k \in (j + 1)..n : ~Deletes(q[k].op, t)

\* The k-th command lists tab t in the row of a panel that is shown, and no
\* deletion of the tab comes after it.
Promised(q, ps, t, k) ==
  /\ \E r \in DOMAIN ps : Lists(q[k].op, r, t)
  /\ \A i \in (k + 1)..Len(q) : ~Deletes(q[i].op, t)

\* Panel p shows tab t.
Shown(ps, p, t) == p \in DOMAIN ps /\ t \in Ids(ps[p].strip)

\* A tab that has settled, or will when a command of the queue is executed, has
\* its row and is listed from then on; the row of its panel lists it last.
Safe(q, tabs, rows, ps, st, t) ==
  /\ t \in st => /\ IsOpen(ps, t) /\ t \in DOMAIN tabs
                 /\ \A k \in DOMAIN q : ~Deletes(q[k].op, t)
                 /\ ListedFrom(q, rows, t, 0)
  /\ \A k \in DOMAIN q : Promised(q, ps, t, k) =>
       IsOpen(ps, t) /\ ListedFrom(q, rows, t, k) /\ HasRow(q, tabs, t, k)
  /\ \A p : Shown(ps, p, t) /\ (t \in st \/ \E k \in DOMAIN q : Promised(q, ps, t, k)) =>
       RowLists(q, rows, p, t, Len(q))
  /\ IsOpen(ps, t) => HasRow(q, tabs, t, Len(q))

\* What a command leaves of the row of panel p.
LeavesRow(op, rows, new, p, t) ==
  /\ Lists(op, p, t) => HasTab(new, p, t)
  /\ ~WritesRow(op, p) /\ HasTab(rows, p, t) => HasTab(new, p, t)

\* Only the commands before the n-th and itself matter.
LEMMA RowListsPrefix ==
  ASSUME NEW q, NEW u, NEW rows, NEW p, NEW t, NEW n \in Nat,
         \A k \in 1..n : u[k].op = q[k].op, RowLists(q, rows, p, t, n)
  PROVE  RowLists(u, rows, p, t, n)
<1>1. PICK j \in 0..n :
        /\ IF j = 0 THEN HasTab(rows, p, t) ELSE Lists(q[j].op, p, t)
        /\ \A k \in (j + 1)..n : ~WritesRow(q[k].op, p)
  BY DEF RowLists
<1>2. j # 0 => u[j].op = q[j].op
  BY <1>1
<1>3. \A k \in (j + 1)..n : u[k].op = q[k].op
  BY <1>1
<1>4. \A k \in (j + 1)..n : ~WritesRow(u[k].op, p)
  BY <1>1, <1>3
<1> QED
  BY <1>1, <1>2, <1>4 DEF RowLists

\* So for the row of a tab.
LEMMA HasRowPrefix ==
  ASSUME NEW q, NEW u, NEW tabs, NEW t, NEW n \in Nat,
         \A k \in 1..n : u[k].op = q[k].op, HasRow(q, tabs, t, n)
  PROVE  HasRow(u, tabs, t, n)
<1>1. PICK j \in 0..n :
        /\ IF j = 0 THEN t \in DOMAIN tabs ELSE Puts(q[j].op, t)
        /\ \A k \in (j + 1)..n : ~Deletes(q[k].op, t)
  BY DEF HasRow
<1>2. j # 0 => u[j].op = q[j].op
  BY <1>1
<1>3. \A k \in (j + 1)..n : u[k].op = q[k].op
  BY <1>1
<1>4. \A k \in (j + 1)..n : ~Deletes(u[k].op, t)
  BY <1>1, <1>3
<1> QED
  BY <1>1, <1>2, <1>4 DEF HasRow

\* A command sent after the others that does not take the tab off the row.
LEMMA RowListsMore ==
  ASSUME NEW u, NEW rows, NEW p, NEW t, NEW n \in Nat,
         \/ Lists(u[n + 1].op, p, t)
         \/ RowLists(u, rows, p, t, n) /\ ~WritesRow(u[n + 1].op, p)
  PROVE  RowLists(u, rows, p, t, n + 1)
<1>1. CASE Lists(u[n + 1].op, p, t)
  <2>1. n + 1 \in 0..(n + 1) /\ n + 1 # 0 /\ \A k \in ((n + 1) + 1)..(n + 1) : FALSE
    OBVIOUS
  <2> QED
    BY <1>1, <2>1 DEF RowLists
<1>2. CASE RowLists(u, rows, p, t, n) /\ ~WritesRow(u[n + 1].op, p)
  <2>1. PICK j \in 0..n :
          /\ IF j = 0 THEN HasTab(rows, p, t) ELSE Lists(u[j].op, p, t)
          /\ \A k \in (j + 1)..n : ~WritesRow(u[k].op, p)
    BY <1>2 DEF RowLists
  <2>2. j \in 0..(n + 1) /\ \A k \in (j + 1)..(n + 1) : k = n + 1 \/ k \in (j + 1)..n
    OBVIOUS
  <2>3. \A k \in (j + 1)..(n + 1) : ~WritesRow(u[k].op, p)
    BY <1>2, <2>1, <2>2
  <2> QED
    BY <2>1, <2>2, <2>3 DEF RowLists
<1> QED
  BY <1>1, <1>2

\* So has a tab its row.
LEMMA HasRowMore ==
  ASSUME NEW u, NEW tabs, NEW t, NEW n \in Nat,
         \/ Puts(u[n + 1].op, t)
         \/ HasRow(u, tabs, t, n) /\ ~Deletes(u[n + 1].op, t)
  PROVE  HasRow(u, tabs, t, n + 1)
<1>1. CASE Puts(u[n + 1].op, t)
  <2>1. n + 1 \in 0..(n + 1) /\ n + 1 # 0 /\ \A k \in ((n + 1) + 1)..(n + 1) : FALSE
    OBVIOUS
  <2> QED
    BY <1>1, <2>1 DEF HasRow
<1>2. CASE HasRow(u, tabs, t, n) /\ ~Deletes(u[n + 1].op, t)
  <2>1. PICK j \in 0..n :
          /\ IF j = 0 THEN t \in DOMAIN tabs ELSE Puts(u[j].op, t)
          /\ \A k \in (j + 1)..n : ~Deletes(u[k].op, t)
    BY <1>2 DEF HasRow
  <2>2. j \in 0..(n + 1) /\ \A k \in (j + 1)..(n + 1) : k = n + 1 \/ k \in (j + 1)..n
    OBVIOUS
  <2>3. \A k \in (j + 1)..(n + 1) : ~Deletes(u[k].op, t)
    BY <1>2, <2>1, <2>2
  <2> QED
    BY <2>1, <2>2, <2>3 DEF HasRow
<1> QED
  BY <1>1, <1>2

\* The first command has been executed.
LEMMA RowListsNext ==
  ASSUME NEW q, NEW u, NEW len \in Nat, \A k \in 1..(len - 1) : u[k] = q[k + 1],
         NEW rows, NEW new, NEW p, NEW t, LeavesRow(q[1].op, rows, new, p, t),
         NEW n \in 1..len, RowLists(q, rows, p, t, n)
  PROVE  RowLists(u, new, p, t, n - 1)
<1>1. PICK j \in 0..n :
        /\ IF j = 0 THEN HasTab(rows, p, t) ELSE Lists(q[j].op, p, t)
        /\ \A k \in (j + 1)..n : ~WritesRow(q[k].op, p)
  BY DEF RowLists
<1>2. CASE j \in {0, 1}
  <2>1. HasTab(new, p, t)
    <3>1. CASE j = 0
      <4>1. ~WritesRow(q[1].op, p)
        BY <1>1, <3>1
      <4> QED
        BY <1>1, <3>1, <4>1 DEF LeavesRow
    <3>2. CASE j = 1
      BY <1>1, <3>2 DEF LeavesRow
    <3> QED
      BY <1>2, <3>1, <3>2
  <2>2. ASSUME NEW k \in (0 + 1)..(n - 1) PROVE ~WritesRow(u[k].op, p)
    <3>1. k + 1 \in (j + 1)..n /\ u[k] = q[k + 1]
      BY <1>2
    <3> QED
      BY <1>1, <3>1
  <2>3. 0 \in 0..(n - 1)
    OBVIOUS
  <2> QED
    BY <2>1, <2>2, <2>3 DEF RowLists
<1>3. CASE j \notin {0, 1}
  <2>1. PICK i : i = j - 1
    OBVIOUS
  <2>2. i \in 0..(n - 1) /\ i # 0 /\ u[i] = q[j]
    BY <1>3, <2>1
  <2>3. ASSUME NEW k \in (i + 1)..(n - 1) PROVE ~WritesRow(u[k].op, p)
    <3>1. k + 1 \in (j + 1)..n /\ u[k] = q[k + 1]
      BY <2>1, <2>2
    <3> QED
      BY <1>1, <3>1
  <2>4. Lists(u[i].op, p, t)
    BY <1>1, <1>3, <2>2
  <2> QED
    BY <2>2, <2>3, <2>4 DEF RowLists
<1> QED
  BY <1>2, <1>3

\* What is left of the rows of the tabs, when the first has been executed.
LEMMA HasRowNext ==
  ASSUME NEW q, NEW u, NEW len \in Nat, \A k \in 1..(len - 1) : u[k] = q[k + 1],
         NEW tabs, NEW new, NEW t, Leaves(q[1].op, tabs, new, t),
         NEW n \in 1..len, HasRow(q, tabs, t, n)
  PROVE  HasRow(u, new, t, n - 1)
<1>1. PICK j \in 0..n :
        /\ IF j = 0 THEN t \in DOMAIN tabs ELSE Puts(q[j].op, t)
        /\ \A k \in (j + 1)..n : ~Deletes(q[k].op, t)
  BY DEF HasRow
<1>2. CASE j \in {0, 1}
  <2>1. t \in DOMAIN new
    <3>1. CASE j = 0
      <4>1. ~Deletes(q[1].op, t)
        BY <1>1, <3>1
      <4> QED
        BY <1>1, <3>1, <4>1 DEF Leaves, About
    <3>2. CASE j = 1
      BY <1>1, <3>2 DEF Leaves
    <3> QED
      BY <1>2, <3>1, <3>2
  <2>2. ASSUME NEW k \in (0 + 1)..(n - 1) PROVE ~Deletes(u[k].op, t)
    <3>1. k + 1 \in (j + 1)..n /\ u[k] = q[k + 1]
      BY <1>2
    <3> QED
      BY <1>1, <3>1
  <2>3. 0 \in 0..(n - 1)
    OBVIOUS
  <2> QED
    BY <2>1, <2>2, <2>3 DEF HasRow
<1>3. CASE j \notin {0, 1}
  <2>1. PICK i : i = j - 1
    OBVIOUS
  <2>2. i \in 0..(n - 1) /\ i # 0 /\ u[i] = q[j]
    BY <1>3, <2>1
  <2>3. ASSUME NEW k \in (i + 1)..(n - 1) PROVE ~Deletes(u[k].op, t)
    <3>1. k + 1 \in (j + 1)..n /\ u[k] = q[k + 1]
      BY <2>1, <2>2
    <3> QED
      BY <1>1, <3>1
  <2>4. Puts(u[i].op, t)
    BY <1>1, <1>3, <2>2
  <2> QED
    BY <2>2, <2>3, <2>4 DEF HasRow
<1> QED
  BY <1>2, <1>3

-----------------------------------------------------------------------------
(* What a queue does to one tab.                                           *)

\* A tab is open if some panel shows it.
LEMMA OpenShown ==
  ASSUME NEW ps, NEW t
  PROVE  IsOpen(ps, t) <=> \E p : Shown(ps, p, t)
BY DEF IsOpen, Shown

\* The first command has been executed: a tab that settles now was promised.
LEMMA SafeNext ==
  ASSUME NEW S, NEW q \in Seq(S), q # <<>>, NEW tabs, NEW left, NEW rows, NEW new,
         NEW ps, NEW st, NEW now, NEW t, Leaves(Head(q).op, tabs, left, t),
         \A p : LeavesRow(Head(q).op, rows, new, p, t),
         t \in now => \/ t \in st
                      \/ Promised(q, ps, t, 1) /\ \A k \in DOMAIN q : ~Deletes(q[k].op, t),
         Safe(q, tabs, rows, ps, st, t)
  PROVE  Safe(Tail(q), left, new, ps, now, t)
<1>1. PICK u, len : u = Tail(q) /\ len = Len(q)
  OBVIOUS
<1>2. /\ len \in Nat \ {0} /\ DOMAIN q = 1..len /\ Head(q) = q[1]
      /\ Len(u) = len - 1 /\ DOMAIN u = 1..(len - 1)
      /\ \A k \in DOMAIN u : u[k] = q[k + 1]
      /\ \A k \in DOMAIN u : k + 1 \in DOMAIN q
  BY <1>1, TailParts
<1>3. ASSUME NEW p, NEW n \in 1..len, RowLists(q, rows, p, t, n)
      PROVE  RowLists(u, new, p, t, n - 1)
  BY <1>2, <1>3, RowListsNext
<1>4. ASSUME NEW m \in Nat, NEW k \in Nat, m <= k + 1, ListedFrom(q, rows, t, m)
      PROVE  ListedFrom(u, new, t, k)
  <2> SUFFICES ASSUME NEW n \in k..Len(u) PROVE \E p : RowLists(u, new, p, t, n)
    BY DEF ListedFrom
  <2>1. n + 1 \in m..len /\ n + 1 \in 1..len /\ (n + 1) - 1 = n
    BY <1>2, <1>4
  <2>2. PICK p : RowLists(q, rows, p, t, n + 1)
    BY <1>1, <1>4, <2>1 DEF ListedFrom
  <2> QED
    BY <1>3, <2>1, <2>2
<1>5. ASSUME NEW n \in 1..len, HasRow(q, tabs, t, n) PROVE HasRow(u, left, t, n - 1)
  BY <1>2, <1>5, HasRowNext
<1>6. ASSUME NEW k \in DOMAIN u, Promised(u, ps, t, k) PROVE Promised(q, ps, t, k + 1)
  <2>1. u[k] = q[k + 1]
    BY <1>2
  <2>2. ASSUME NEW i \in ((k + 1) + 1)..Len(q) PROVE ~Deletes(q[i].op, t)
    <3>1. i - 1 \in (k + 1)..Len(u) /\ i - 1 \in DOMAIN u /\ (i - 1) + 1 = i
      BY <1>1, <1>2
    <3> QED
      BY <1>2, <1>6, <3>1 DEF Promised
  <2> QED
    BY <1>6, <2>1, <2>2 DEF Promised
<1>7. 1 \in DOMAIN q
  BY <1>2
<1>8. ASSUME t \in now
      PROVE  /\ IsOpen(ps, t) /\ t \in DOMAIN left
             /\ \A k \in DOMAIN u : ~Deletes(u[k].op, t)
             /\ ListedFrom(u, new, t, 0)
  <2>1. CASE t \in st
    <3>1. IsOpen(ps, t) /\ t \in DOMAIN tabs /\ (\A k \in DOMAIN q : ~Deletes(q[k].op, t))
          /\ ListedFrom(q, rows, t, 0)
      BY <2>1 DEF Safe
    <3>2. t \in DOMAIN left
      BY <1>2, <1>7, <3>1 DEF Leaves, About
    <3>3. ListedFrom(u, new, t, 0)
      BY <1>4, <3>1
    <3> QED
      BY <1>2, <3>1, <3>2, <3>3
  <2>2. CASE Promised(q, ps, t, 1) /\ \A k \in DOMAIN q : ~Deletes(q[k].op, t)
    <3>1. IsOpen(ps, t) /\ ListedFrom(q, rows, t, 1) /\ HasRow(q, tabs, t, 1)
      BY <1>7, <2>2 DEF Safe
    <3>2. HasRow(u, left, t, 0)
      <4>1. 1 \in 1..len /\ 1 - 1 = 0
        BY <1>2
      <4> QED
        BY <1>5, <3>1, <4>1
    <3>3. t \in DOMAIN left
      BY <3>2 DEF HasRow
    <3>4. ListedFrom(u, new, t, 0)
      BY <1>4, <3>1
    <3> QED
      BY <1>2, <2>2, <3>1, <3>3, <3>4
  <2> QED
    BY <1>8, <2>1, <2>2
<1>9. ASSUME NEW k \in DOMAIN u, Promised(u, ps, t, k)
      PROVE  IsOpen(ps, t) /\ ListedFrom(u, new, t, k) /\ HasRow(u, left, t, k)
  <2>1. k + 1 \in DOMAIN q /\ Promised(q, ps, t, k + 1)
    BY <1>2, <1>6, <1>9
  <2>2. IsOpen(ps, t) /\ ListedFrom(q, rows, t, k + 1) /\ HasRow(q, tabs, t, k + 1)
    BY <2>1 DEF Safe
  <2>3. k \in Nat /\ k + 1 \in 1..len /\ (k + 1) - 1 = k
    BY <1>2
  <2> QED
    BY <1>4, <1>5, <2>2, <2>3
<1>10. ASSUME NEW p, Shown(ps, p, t),
              t \in now \/ \E k \in DOMAIN u : Promised(u, ps, t, k)
       PROVE  RowLists(u, new, p, t, Len(u))
  <2>1. t \in st \/ \E k \in DOMAIN q : Promised(q, ps, t, k)
    BY <1>2, <1>6, <1>7, <1>10
  <2>2. RowLists(q, rows, p, t, len)
    BY <1>1, <1>10, <2>1 DEF Safe
  <2>3. len \in 1..len /\ len - 1 = Len(u)
    BY <1>2
  <2> QED
    BY <1>3, <2>2, <2>3
<1>11. IsOpen(ps, t) => HasRow(u, left, t, Len(u))
  <2>1. len \in 1..len /\ len - 1 = Len(u)
    BY <1>2
  <2> QED
    BY <1>1, <1>5, <2>1 DEF Safe
<1> QED
  BY <1>1, <1>8, <1>9, <1>10, <1>11 DEF Safe

\* A command that suits what the panels show of tab t, after the event that
\* sends it: it writes the row of a panel as the panel is, or of one that is not
\* shown; a tab that has been moved or opened is written where it is, and a tab
\* that has been closed is deleted.
Suits(ps, qs, op, t) ==
  /\ \A r \in DOMAIN qs : WritesRow(op, r) =>
       op.kind = "putPanel" /\ ToSet(op.row.ids) = Ids(qs[r].strip)
  /\ \A p : Shown(qs, p, t) => \/ Shown(ps, p, t)
                               \/ IsOpen(ps, t) /\ WritesRow(op, p)
                               \/ ~IsOpen(ps, t) /\ Puts(op, t)
  /\ IsOpen(ps, t) /\ ~IsOpen(qs, t) => Deletes(op, t)
  /\ Deletes(op, t) => ~IsOpen(qs, t)

\* Such a command is sent.
LEMMA SafeMore ==
  ASSUME NEW S, NEW q \in Seq(S), NEW e \in S, NEW tabs, NEW rows, NEW ps, NEW qs,
         NEW st, NEW now, NEW t, Suits(ps, qs, e.op, t),
         \A p, r : Shown(qs, p, t) /\ Shown(qs, r, t) => p = r,
         \A r \in DOMAIN qs : r \in DOMAIN ps \/ \A k \in DOMAIN q : ~WritesRow(q[k].op, r),
         t \in now => t \in st /\ IsOpen(qs, t),
         Safe(q, tabs, rows, ps, st, t)
  PROVE  Safe(q \o <<e>>, tabs, rows, qs, now, t)
<1>1. PICK u, len : u = q \o <<e>> /\ len = Len(q)
  OBVIOUS
<1>2. /\ len \in Nat /\ DOMAIN q = 1..len /\ Len(u) = len + 1 /\ DOMAIN u = 1..(len + 1)
      /\ u[len + 1] = e
      /\ \A k \in 1..len : u[k] = q[k]
  BY <1>1
<1>3. ASSUME NEW n \in 0..len
      PROVE  /\ \A p : RowLists(q, rows, p, t, n) => RowLists(u, rows, p, t, n)
             /\ HasRow(q, tabs, t, n) => HasRow(u, tabs, t, n)
  <2>1. n \in Nat /\ \A k \in 1..n : u[k].op = q[k].op
    BY <1>2
  <2> QED
    BY <2>1, RowListsPrefix, HasRowPrefix
<1>4. ASSUME NEW p, Shown(qs, p, t), Lists(e.op, p, t) \/
               (RowLists(q, rows, p, t, len) /\ ~WritesRow(e.op, p))
      PROVE  RowLists(u, rows, p, t, Len(u))
  <2>1. len \in 0..len
    BY <1>2
  <2>2. Lists(u[len + 1].op, p, t) \/
          (RowLists(u, rows, p, t, len) /\ ~WritesRow(u[len + 1].op, p))
    BY <1>2, <1>3, <1>4, <2>1
  <2> QED
    BY <1>2, <2>2, RowListsMore
<1>5. ASSUME NEW p, Shown(qs, p, t), WritesRow(e.op, p) PROVE Lists(e.op, p, t)
  BY <1>5 DEF Suits, Shown, Lists, WritesRow
<1>6. ASSUME NEW r \in DOMAIN qs, Lists(e.op, r, t) PROVE Shown(qs, r, t)
  BY <1>6 DEF Suits, Shown, Lists, WritesRow
<1>7. ASSUME NEW k \in 1..len, Promised(u, qs, t, k)
      PROVE  Promised(q, ps, t, k) /\ ~Deletes(e.op, t)
  <2>1. PICK r \in DOMAIN qs : Lists(q[k].op, r, t)
    BY <1>2, <1>7 DEF Promised
  <2>2. r \in DOMAIN ps
    BY <1>2, <2>1 DEF Lists, WritesRow
  <2>3. \A i \in (k + 1)..Len(q) : i \in (k + 1)..Len(u) /\ u[i] = q[i]
    BY <1>1, <1>2
  <2>4. len + 1 \in (k + 1)..Len(u)
    BY <1>2
  <2> QED
    BY <1>2, <1>7, <2>1, <2>2, <2>3, <2>4 DEF Promised
<1>8. ASSUME NEW p, Shown(qs, p, t),
             t \in now \/ \E k \in DOMAIN u : Promised(u, qs, t, k)
      PROVE  RowLists(u, rows, p, t, Len(u))
  <2>1. CASE WritesRow(e.op, p)
    BY <1>4, <1>5, <1>8, <2>1
  <2>2. CASE Lists(e.op, p, t)
    BY <1>4, <1>8, <2>2
  <2>3. CASE ~WritesRow(e.op, p) /\ ~Lists(e.op, p, t)
    <3>1. ASSUME NEW k \in DOMAIN u, Promised(u, qs, t, k), ~(k \in 1..len) PROVE FALSE
      <4>1. k = len + 1
        BY <1>2, <3>1
      <4>2. PICK r \in DOMAIN qs : Lists(e.op, r, t)
        BY <1>2, <3>1, <4>1 DEF Promised
      <4>3. r = p
        BY <1>6, <1>8, <4>2
      <4> QED
        BY <2>3, <4>2, <4>3
    <3>2. t \in st \/ \E k \in DOMAIN q : Promised(q, ps, t, k)
      BY <1>2, <1>7, <1>8, <3>1
    <3>3. IsOpen(ps, t)
      BY <3>2 DEF Safe
    <3>4. Shown(ps, p, t)
      BY <1>8, <2>3, <3>3 DEF Suits
    <3>5. RowLists(q, rows, p, t, len)
      BY <1>1, <3>2, <3>4 DEF Safe
    <3> QED
      BY <1>4, <1>8, <2>3, <3>5
  <2> QED
    BY <2>1, <2>2, <2>3
<1>9. ASSUME NEW m \in 0..len, ListedFrom(q, rows, t, m), IsOpen(qs, t),
             t \in now \/ \E k \in DOMAIN u : Promised(u, qs, t, k)
      PROVE  ListedFrom(u, rows, t, m)
  <2> SUFFICES ASSUME NEW n \in m..Len(u) PROVE \E p : RowLists(u, rows, p, t, n)
    BY DEF ListedFrom
  <2>1. CASE n = Len(u)
    <3>1. PICK p : Shown(qs, p, t)
      BY <1>9, OpenShown
    <3> QED
      BY <1>8, <1>9, <2>1, <3>1
  <2>2. CASE n # Len(u)
    <3>1. n \in m..Len(q) /\ n \in 0..len
      BY <1>1, <1>2, <2>2
    <3> QED
      BY <1>3, <1>9, <3>1 DEF ListedFrom
  <2> QED
    BY <2>1, <2>2
<1>10. ASSUME IsOpen(qs, t) PROVE HasRow(u, tabs, t, Len(u))
  <2>1. ~Deletes(e.op, t)
    BY <1>10 DEF Suits
  <2>2. CASE IsOpen(ps, t)
    <3>1. len \in 0..len
      BY <1>2
    <3>2. HasRow(u, tabs, t, len)
      BY <1>1, <1>3, <2>2, <3>1 DEF Safe
    <3> QED
      BY <1>2, <2>1, <3>2, HasRowMore
  <2>3. CASE ~IsOpen(ps, t)
    <3>1. Puts(e.op, t)
      BY <1>10, <2>3, OpenShown DEF Suits
    <3> QED
      BY <1>2, <3>1, HasRowMore
  <2> QED
    BY <2>2, <2>3
<1>11. ASSUME t \in now
       PROVE  /\ IsOpen(qs, t) /\ t \in DOMAIN tabs
              /\ \A k \in DOMAIN u : ~Deletes(u[k].op, t)
              /\ ListedFrom(u, rows, t, 0)
  <2>1. t \in st /\ IsOpen(qs, t)
    BY <1>11
  <2>2. t \in DOMAIN tabs /\ (\A k \in DOMAIN q : ~Deletes(q[k].op, t))
        /\ ListedFrom(q, rows, t, 0)
    BY <2>1 DEF Safe
  <2>3. ~Deletes(e.op, t)
    BY <2>1 DEF Suits
  <2>4. \A k \in DOMAIN u : k = len + 1 \/ (k \in DOMAIN q /\ u[k] = q[k])
    BY <1>2
  <2>5. \A k \in DOMAIN u : ~Deletes(u[k].op, t)
    BY <1>2, <2>2, <2>3, <2>4
  <2>6. 0 \in 0..len
    BY <1>2
  <2> QED
    BY <1>9, <1>11, <2>1, <2>2, <2>5, <2>6
<1>12. ASSUME NEW k \in DOMAIN u, Promised(u, qs, t, k)
       PROVE  IsOpen(qs, t) /\ ListedFrom(u, rows, t, k) /\ HasRow(u, tabs, t, k)
  <2>1. CASE k = len + 1
    <3>1. PICK r \in DOMAIN qs : Lists(e.op, r, t)
      BY <1>2, <1>12, <2>1 DEF Promised
    <3>2. Shown(qs, r, t) /\ IsOpen(qs, t)
      BY <1>6, <3>1, OpenShown
    <3>3. RowLists(u, rows, r, t, Len(u))
      BY <1>8, <1>12, <3>2
    <3>4. \A n \in k..Len(u) : n = Len(u)
      BY <1>2, <2>1
    <3> QED
      BY <1>2, <1>10, <2>1, <3>2, <3>3, <3>4 DEF ListedFrom
  <2>2. CASE k # len + 1
    <3>1. k \in 1..len /\ k \in DOMAIN q /\ k \in 0..len
      BY <1>2, <2>2
    <3>2. Promised(q, ps, t, k) /\ ~Deletes(e.op, t)
      BY <1>7, <1>12, <3>1
    <3>3. IsOpen(ps, t) /\ ListedFrom(q, rows, t, k) /\ HasRow(q, tabs, t, k)
      BY <3>1, <3>2 DEF Safe
    <3>4. IsOpen(qs, t)
      BY <3>2, <3>3 DEF Suits
    <3> QED
      BY <1>3, <1>9, <1>12, <3>1, <3>3, <3>4
  <2> QED
    BY <2>1, <2>2
<1> QED
  BY <1>1, <1>8, <1>10, <1>11, <1>12 DEF Safe

\* Two queues that say the same, and panels that show the same.
LEMMA SafeSame ==
  ASSUME NEW q, NEW u, NEW tabs, NEW rows, NEW ps, NEW qs, NEW st, NEW now, NEW t,
         Len(q) \in Nat, DOMAIN q = 1..Len(q), DOMAIN u = DOMAIN q, Len(u) = Len(q),
         \A k \in DOMAIN q : \/ u[k].op = q[k].op
                             \/ /\ q[k].op.kind \in {"putMeta", "putActive"}
                                /\ u[k].op.kind \in {"putMeta", "putActive"},
         DOMAIN qs = DOMAIN ps, \A p : Shown(qs, p, t) <=> Shown(ps, p, t),
         t \in now => t \in st,
         Safe(q, tabs, rows, ps, st, t)
  PROVE  Safe(u, tabs, rows, qs, now, t)
<1>1. \A k \in DOMAIN q : /\ \A p : Lists(u[k].op, p, t) <=> Lists(q[k].op, p, t)
                          /\ \A p : WritesRow(u[k].op, p) <=> WritesRow(q[k].op, p)
                          /\ Puts(u[k].op, t) <=> Puts(q[k].op, t)
                          /\ Deletes(u[k].op, t) <=> Deletes(q[k].op, t)
  BY DEF Lists, WritesRow, Puts, Deletes
<1>2. IsOpen(qs, t) <=> IsOpen(ps, t)
  BY OpenShown
<1>3. ASSUME NEW n \in 0..Len(q)
      PROVE  /\ \A p : RowLists(q, rows, p, t, n) => RowLists(u, rows, p, t, n)
             /\ HasRow(q, tabs, t, n) => HasRow(u, tabs, t, n)
  <2>1. \A j \in 0..n : /\ j # 0 => j \in DOMAIN q
                        /\ \A k \in (j + 1)..n : k \in DOMAIN q
    OBVIOUS
  <2>2. ASSUME NEW p, RowLists(q, rows, p, t, n) PROVE RowLists(u, rows, p, t, n)
    <3>1. PICK j \in 0..n :
            /\ IF j = 0 THEN HasTab(rows, p, t) ELSE Lists(q[j].op, p, t)
            /\ \A k \in (j + 1)..n : ~WritesRow(q[k].op, p)
      BY <2>2 DEF RowLists
    <3>2. /\ IF j = 0 THEN HasTab(rows, p, t) ELSE Lists(u[j].op, p, t)
          /\ \A k \in (j + 1)..n : ~WritesRow(u[k].op, p)
      BY <1>1, <2>1, <3>1
    <3> QED
      BY <3>2 DEF RowLists
  <2>3. ASSUME HasRow(q, tabs, t, n) PROVE HasRow(u, tabs, t, n)
    <3>1. PICK j \in 0..n :
            /\ IF j = 0 THEN t \in DOMAIN tabs ELSE Puts(q[j].op, t)
            /\ \A k \in (j + 1)..n : ~Deletes(q[k].op, t)
      BY <2>3 DEF HasRow
    <3>2. /\ IF j = 0 THEN t \in DOMAIN tabs ELSE Puts(u[j].op, t)
          /\ \A k \in (j + 1)..n : ~Deletes(u[k].op, t)
      BY <1>1, <2>1, <3>1
    <3> QED
      BY <3>2 DEF HasRow
  <2> QED
    BY <2>2, <2>3
<1>4. ASSUME NEW m \in 0..Len(q), ListedFrom(q, rows, t, m) PROVE ListedFrom(u, rows, t, m)
  <2>1. \A n \in m..Len(q) : n \in 0..Len(q)
    OBVIOUS
  <2> QED
    BY <1>3, <1>4, <2>1 DEF ListedFrom
<1>5. ASSUME NEW k \in DOMAIN u, Promised(u, qs, t, k) PROVE Promised(q, ps, t, k)
  <2>1. \A i \in (k + 1)..Len(q) : i \in DOMAIN q
    OBVIOUS
  <2> QED
    BY <1>1, <1>5, <2>1 DEF Promised
<1>6. Len(q) \in 0..Len(q) /\ 0 \in 0..Len(q) /\ \A k \in DOMAIN q : k \in 0..Len(q)
  OBVIOUS
<1>7. t \in now => /\ IsOpen(qs, t) /\ t \in DOMAIN tabs
                   /\ \A k \in DOMAIN u : ~Deletes(u[k].op, t)
                   /\ ListedFrom(u, rows, t, 0)
  BY <1>1, <1>2, <1>4, <1>6 DEF Safe
<1>8. ASSUME NEW k \in DOMAIN u, Promised(u, qs, t, k)
      PROVE  IsOpen(qs, t) /\ ListedFrom(u, rows, t, k) /\ HasRow(u, tabs, t, k)
  <2>1. IsOpen(ps, t) /\ ListedFrom(q, rows, t, k) /\ HasRow(q, tabs, t, k)
    BY <1>5, <1>8 DEF Safe
  <2> QED
    BY <1>2, <1>3, <1>4, <1>6, <2>1
<1>9. ASSUME NEW p, Shown(qs, p, t), t \in now \/ \E k \in DOMAIN u : Promised(u, qs, t, k)
      PROVE  RowLists(u, rows, p, t, Len(u))
  <2>1. RowLists(q, rows, p, t, Len(q))
    BY <1>5, <1>9 DEF Safe
  <2> QED
    BY <1>3, <1>6, <2>1
<1>10. IsOpen(qs, t) => HasRow(u, tabs, t, Len(u))
  BY <1>2, <1>3, <1>6 DEF Safe
<1> QED
  BY <1>7, <1>8, <1>9, <1>10 DEF Safe

-----------------------------------------------------------------------------
(* The invariant about the places of the tabs.                             *)

\* A command or a step that is about panel p.
Names(s, p) == s.kind \in {"putPanel", "livePanel", "deletePanel"} /\ s.panel = p

\* A command, or what its handler has left to do, is about panel p.
InEntry(e, p) == Names(e.op, p) \/ \E i \in DOMAIN e.rest : Names(e.rest[i], p)

\* Some command that waits is.
InQueue(q, p) == \E k \in DOMAIN q : InEntry(q[k], p)

\* A step that writes no row as it was before: that of a panel as it is by
\* then, or none, and it deletes the row of a panel that was removed.
MildStep(s, ps, n) ==
  /\ s.kind \in {"livePanel", "meta", "flush", "deletePanel"}
  /\ s.kind = "deletePanel" => s.panel \in (1..n) \ DOMAIN ps

\* A command whose handler has such steps left.
MildEntry(e, ps, n) ==
  /\ e.op.kind = "deletePanel" => e.op.panel \in (1..n) \ DOMAIN ps
  /\ \A i \in DOMAIN e.rest : MildStep(e.rest[i], ps, n)

\* So have all that wait.
MildQueue(q, ps, n) == \A k \in DOMAIN q : MildEntry(q[k], ps, n)

\* A panel that is not shown, and that no command is about.
Aside(q, ps, p) == p \notin DOMAIN ps /\ ~InQueue(q, p)

\* The row of panel p lists the tabs of a strip, which have rows.
RowShows(d, p, strip) ==
  \A t \in Ids(strip) : HasTab(d.panels, p, t) /\ t \in DOMAIN d.tabs

\* The panels that are read were stored, and nothing is done to them.
ReadsAside(q, d, ps) ==
  \A k \in DOMAIN q :
    /\ q[k].op.kind = "getPanels" =>
         DOMAIN d.panels # {} /\ \A p \in DOMAIN d.panels : Aside(q, ps, p)
    /\ q[k].op.kind = "getActive" =>
         /\ q[k].op.found # <<>>
         /\ \A p \in ToSet(FoundOrder(q[k].op.found)) :
              Aside(q, ps, p) /\ RowShows(d, p, FoundPanels(q[k].op.found)[p].strip)

\* The session was stored before, with the panel that was active.
StoredBefore ==
  /\ disk.active # Unsaved
  /\ phase = "off" => DOMAIN disk.panels # {} /\ DOMAIN panels = {}

\* Every tab is safe with what waits for the worker.
AllSafe == \A t : Safe(queue, disk.tabs, disk.panels, panels, settled, t)

\* The invariant.
PlacesOK ==
  /\ MildQueue(queue, panels, nextPanel)
  /\ ReadsAside(queue, disk, panels)
  /\ StoredBefore
  /\ AllSafe

-----------------------------------------------------------------------------
(* What most steps have in common.                                         *)

\* The panels named in the queue have a number.
LEMMA NamedNumbers ==
  ASSUME NEW n, NEW q \in Seq(Entry(n)), NEW ps, MildQueue(q, ps, n), NEW p, InQueue(q, p)
  PROVE  p \in 1..n
<1>1. PICK k \in DOMAIN q : InEntry(q[k], p)
  BY DEF InQueue
<1>2. q[k] \in Entry(n)
  OBVIOUS
<1>3. CASE Names(q[k].op, p)
  <2>1. q[k].op \in Command /\ (q[k].op.kind = "putPanel" => q[k].op.panel \in 1..n)
    BY <1>2 DEF Entry
  <2>2. q[k].op.kind # "livePanel"
    BY <2>1 DEF Command
  <2> QED
    BY <1>3, <2>1, <2>2 DEF Names, MildQueue, MildEntry
<1>4. ASSUME NEW i \in DOMAIN q[k].rest, Names(q[k].rest[i], p) PROVE p \in 1..n
  <2>1. q[k].rest \in Seq(KnownStep(n))
    BY <1>2 DEF Entry, Steps
  <2>2. q[k].rest[i] \in KnownStep(n)
    BY <2>1
  <2> QED
    BY <1>4, <2>2 DEF Names, MildQueue, MildEntry, MildStep, KnownStep
<1> QED
  BY <1>1, <1>3, <1>4 DEF InEntry

\* No row is written but those of panels that are named.
LEMMA WritesNamed ==
  ASSUME NEW q, NEW k \in DOMAIN q, NEW p, WritesRow(q[k].op, p)
  PROVE  InQueue(q, p)
BY DEF WritesRow, InQueue, InEntry, Names

\* A queue that has grown by one command.
LEMMA GrownQueue ==
  ASSUME NEW S, NEW q \in Seq(S), NEW e
  PROVE  /\ DOMAIN (q \o <<e>>) = 1..(Len(q) + 1) /\ Len(q) \in Nat /\ DOMAIN q = 1..Len(q)
         /\ (q \o <<e>>)[Len(q) + 1] = e
         /\ \A k \in DOMAIN q : (q \o <<e>>)[k] = q[k]
         /\ \A k \in DOMAIN (q \o <<e>>) : k \in DOMAIN q \/ k = Len(q) + 1
<1>1. PICK T : T = S \cup {e}
  OBVIOUS
<1>2. q \in Seq(T) /\ e \in T
  BY <1>1, SequenceOf
<1> QED
  BY <1>2

\* An entry that joins the queue when the panels ps have become qs.
Fitting(ps, qs, n, e) ==
  /\ e.op.kind \notin {"getPanels", "getActive"}
  /\ \A t : Suits(ps, qs, e.op, t)
  /\ MildEntry(e, qs, n)

\* It is about panels that are shown, or named in the queue.
Nearby(q, ps, qs, e) ==
  \A p : InEntry(e, p) => p \in DOMAIN ps \cup DOMAIN qs \/ InQueue(q, p)

\* At most one panel is new, and it has a new number.
PanelsGrow(ps, qs, n, m) ==
  /\ n \in Nat /\ m \in Nat /\ n <= m
  /\ DOMAIN qs \subseteq DOMAIN ps \cup {n + 1}

\* A number that is not new is that of a panel that was there.
LEMMA NumbersGrow ==
  ASSUME NEW ps, NEW qs, NEW n, NEW m, PanelsGrow(ps, qs, n, m)
  PROVE  /\ n + 1 \notin 1..n /\ 1..n \subseteq 1..m
         /\ \A p \in 1..n : p \in DOMAIN qs => p \in DOMAIN ps
BY DEF PanelsGrow

\* The commands of a queue and others after them.
Joined(u, q, more) == u = q \o more

\* Every tab is safe with a queue.
Safely(q, tabs, rows, ps, st) == \A t : Safe(q, tabs, rows, ps, st, t)

\* What is settled is open, and nothing new is.
Fewer(now, st, ps) == \A t : t \in now => t \in st /\ IsOpen(ps, t)

\* Such an entry joins it.
LEMMA FittingJoins ==
  ASSUME NEW n, NEW m, NEW q \in Seq(Entry(n)), NEW ps, NEW qs, NEW e,
         NEW tabs, NEW rows, NEW st, NEW now,
         PanelsGrow(ps, qs, n, m), Fitting(ps, qs, m, e), Once(qs),
         MildQueue(q, ps, n), Fewer(now, st, qs), Safely(q, tabs, rows, ps, st),
         NEW u, Joined(u, q, <<e>>)
  PROVE  MildQueue(u, qs, m) /\ Safely(u, tabs, rows, qs, now)
<1>1. u = q \o <<e>>
  BY DEF Joined
<1>2. /\ DOMAIN u = 1..(Len(q) + 1) /\ Len(q) \in Nat /\ DOMAIN q = 1..Len(q)
      /\ u[Len(q) + 1] = e
      /\ \A k \in DOMAIN q : u[k] = q[k]
      /\ \A k \in DOMAIN u : k \in DOMAIN q \/ k = Len(q) + 1
  BY <1>1, GrownQueue
<1>3. PICK T : T = Entry(n) \cup {e}
  OBVIOUS
<1>4. q \in Seq(T) /\ e \in T
  BY <1>3, SequenceOf
<1>5. /\ n + 1 \notin 1..n /\ 1..n \subseteq 1..m
      /\ \A p \in 1..n : p \in DOMAIN qs => p \in DOMAIN ps
  BY NumbersGrow
<1>6. MildQueue(u, qs, m)
  <2> SUFFICES ASSUME NEW k \in DOMAIN u PROVE MildEntry(u[k], qs, m)
    BY DEF MildQueue
  <2>1. CASE k \in DOMAIN q
    <3>1. MildEntry(q[k], ps, n)
      BY <2>1 DEF MildQueue
    <3>2. MildEntry(q[k], qs, m)
      BY <1>5, <3>1 DEF MildEntry, MildStep
    <3> QED
      BY <1>2, <2>1, <3>2
  <2>2. CASE k = Len(q) + 1
    BY <1>2, <2>2 DEF Fitting
  <2> QED
    BY <1>2, <2>1, <2>2
<1>7. ASSUME NEW t PROVE Safe(u, tabs, rows, qs, now, t)
  <2>1. \A p, r : Shown(qs, p, t) /\ Shown(qs, r, t) => p = r
    <3> SUFFICES ASSUME NEW p, NEW r, Shown(qs, p, t), Shown(qs, r, t) PROVE p = r
      OBVIOUS
    <3>1. /\ p \in DOMAIN qs /\ \E v \in ToSet(qs[p].strip) : v.id = t
          /\ r \in DOMAIN qs /\ \E w \in ToSet(qs[r].strip) : w.id = t
      BY IdsOfSet DEF Shown
    <3> QED
      BY <3>1, CopyUnique
  <2>2. \A r \in DOMAIN qs : r \in DOMAIN ps \/ \A k \in DOMAIN q : ~WritesRow(q[k].op, r)
    BY <1>5, NamedNumbers, WritesNamed DEF PanelsGrow
  <2>3. Suits(ps, qs, e.op, t)
    BY DEF Fitting
  <2>4. Safe(q, tabs, rows, ps, st, t) /\ (t \in now => t \in st /\ IsOpen(qs, t))
    BY DEF Fewer, Safely
  <2>5. Safe(q \o <<e>>, tabs, rows, qs, now, t)
    BY <1>4, <2>1, <2>2, <2>3, <2>4, SafeMore
  <2> QED
    BY <1>1, <2>5
<1> QED
  BY <1>1, <1>6, <1>7 DEF Safely

\* A queue that reads and names nothing new, and a disk that keeps what is read.
LEMMA AsideKept ==
  ASSUME NEW q, NEW u, NEW ps, NEW qs, NEW d, NEW new, ReadsAside(q, d, ps),
         NEW P, \A k \in DOMAIN q : q[k].op.kind = "getActive" =>
                   ToSet(FoundOrder(q[k].op.found)) \subseteq P,
         DOMAIN d.panels \subseteq P,
         \A p \in P : p \in DOMAIN qs => p \in DOMAIN ps,
         \A p \in P : InQueue(u, p) => InQueue(q, p) \/ p \in DOMAIN ps,
         \A k \in DOMAIN u : u[k].op.kind \in {"getPanels", "getActive"} =>
           \E j \in DOMAIN q :
             /\ u[k].op = q[j].op
             /\ u[k].op.kind = "getPanels" => new = d
             /\ u[k].op.kind = "getActive" =>
                  \A p \in ToSet(FoundOrder(u[k].op.found)) :
                     Aside(q, ps, p) /\ RowShows(d, p, FoundPanels(u[k].op.found)[p].strip)
                     => RowShows(new, p, FoundPanels(u[k].op.found)[p].strip)
  PROVE  ReadsAside(u, new, qs)
<1>1. ASSUME NEW p \in P, Aside(q, ps, p) PROVE Aside(u, qs, p)
  BY <1>1 DEF Aside
<1> SUFFICES ASSUME NEW k \in DOMAIN u, u[k].op.kind \in {"getPanels", "getActive"}
             PROVE  /\ u[k].op.kind = "getPanels" =>
                        DOMAIN new.panels # {} /\ \A p \in DOMAIN new.panels : Aside(u, qs, p)
                    /\ u[k].op.kind = "getActive" =>
                        /\ u[k].op.found # <<>>
                        /\ \A p \in ToSet(FoundOrder(u[k].op.found)) :
                             /\ Aside(u, qs, p)
                             /\ RowShows(new, p, FoundPanels(u[k].op.found)[p].strip)
  BY DEF ReadsAside
<1>2. PICK j \in DOMAIN q :
             /\ u[k].op = q[j].op
             /\ u[k].op.kind = "getPanels" => new = d
             /\ u[k].op.kind = "getActive" =>
                  \A p \in ToSet(FoundOrder(u[k].op.found)) :
                     Aside(q, ps, p) /\ RowShows(d, p, FoundPanels(u[k].op.found)[p].strip)
                     => RowShows(new, p, FoundPanels(u[k].op.found)[p].strip)
  OBVIOUS
<1>3. CASE u[k].op.kind = "getPanels"
  <2>1. DOMAIN d.panels # {} /\ \A p \in DOMAIN d.panels : Aside(q, ps, p)
    BY <1>2, <1>3 DEF ReadsAside
  <2> QED
    BY <1>1, <1>2, <1>3, <2>1
<1>4. CASE u[k].op.kind = "getActive"
  <2>1. /\ q[j].op.found # <<>>
        /\ \A p \in ToSet(FoundOrder(q[j].op.found)) :
              Aside(q, ps, p) /\ RowShows(d, p, FoundPanels(q[j].op.found)[p].strip)
    BY <1>2, <1>4 DEF ReadsAside
  <2>2. ToSet(FoundOrder(q[j].op.found)) \subseteq P
    BY <1>2, <1>4
  <2> QED
    BY <1>1, <1>2, <1>4, <2>1, <2>2
<1> QED
  BY <1>3, <1>4

\* The reads of a queue that an entry joins.
LEMMA FittingReads ==
  ASSUME NEW n, NEW m, NEW q \in Seq(Entry(n)), NEW ps, NEW qs, NEW e, NEW d,
         PanelsGrow(ps, qs, n, m), Fitting(ps, qs, m, e), Nearby(q, ps, qs, e),
         ReadsAside(q, d, ps), DOMAIN d.panels \subseteq 1..n
  PROVE  ReadsAside(q \o <<e>>, d, qs)
<1>1. PICK u : u = q \o <<e>>
  OBVIOUS
<1>2. /\ \A k \in DOMAIN q : u[k] = q[k]
      /\ u[Len(q) + 1] = e
      /\ \A k \in DOMAIN u : k \in DOMAIN q \/ k = Len(q) + 1
  BY <1>1, GrownQueue
<1>3. PICK P : P = 1..n
  OBVIOUS
<1>4. \A p \in P : p \in DOMAIN qs => p \in DOMAIN ps
  BY <1>3, NumbersGrow
<1>5. \A p \in P : InQueue(u, p) => InQueue(q, p) \/ p \in DOMAIN ps
  BY <1>2, <1>4 DEF InQueue, Nearby
<1>6. \A k \in DOMAIN u : u[k].op.kind \in {"getPanels", "getActive"} =>
           \E j \in DOMAIN q :
             /\ u[k].op = q[j].op
             /\ u[k].op.kind = "getPanels" => d = d
             /\ u[k].op.kind = "getActive" =>
                  \A p \in ToSet(FoundOrder(u[k].op.found)) :
                     Aside(q, ps, p) /\ RowShows(d, p, FoundPanels(u[k].op.found)[p].strip)
                     => RowShows(d, p, FoundPanels(u[k].op.found)[p].strip)
  BY <1>2 DEF Fitting
<1>7. \A k \in DOMAIN q : q[k].op.kind = "getActive" =>
        ToSet(FoundOrder(q[k].op.found)) \subseteq P
  <2>1. \A k \in DOMAIN q : q[k] \in Entry(n)
    OBVIOUS
  <2> QED
    BY <1>3, <2>1 DEF Entry
<1>8. ReadsAside(u, d, qs)
  <2>1. DOMAIN d.panels \subseteq P
    BY <1>3
  <2> QED
    BY <2>1, <1>4, <1>5, <1>6, <1>7, AsideKept
<1> QED
  BY <1>1, <1>8

-----------------------------------------------------------------------------
(* What most steps send and what they leave.                               *)

\* The same commands, and the same tabs in each panel.
SameShown(ps, qs) ==
  DOMAIN qs = DOMAIN ps /\ \A p, t : Shown(qs, p, t) <=> Shown(ps, p, t)

\* When neither changes, every tab is safe as it was.
LEMMA IdleKeeps ==
  ASSUME NEW n, NEW m, NEW q \in Seq(Entry(n)), NEW ps, NEW qs, NEW d, NEW st, NEW now,
         n \in Nat, m \in Nat, n <= m, SameShown(ps, qs),
         MildQueue(q, ps, n), ReadsAside(q, d, ps),
         \A t : t \in now => t \in st /\ IsOpen(qs, t),
         \A t : Safe(q, d.tabs, d.panels, ps, st, t)
  PROVE  /\ MildQueue(q, qs, m) /\ ReadsAside(q, d, qs)
         /\ \A t : Safe(q, d.tabs, d.panels, qs, now, t)
<1>1. 1..n \subseteq 1..m
  OBVIOUS
<1>2. MildQueue(q, qs, m)
  BY <1>1 DEF MildQueue, MildEntry, MildStep, SameShown
<1>3. \A p : Aside(q, qs, p) <=> Aside(q, ps, p)
  BY DEF Aside, SameShown
<1>4. ReadsAside(q, d, qs)
  BY <1>3 DEF ReadsAside
<1>5. Len(q) \in Nat /\ DOMAIN q = 1..Len(q)
  OBVIOUS
<1>6. ASSUME NEW t PROVE Safe(q, d.tabs, d.panels, qs, now, t)
  BY <1>5, SafeSame DEF SameShown
<1> QED
  BY <1>2, <1>4, <1>6

\* Steps that wait, and what is sent of them.
MildSteps(steps, ps, n) == \A i \in DOMAIN steps : MildStep(steps[i], ps, n)

\* Some step is about panel p.
NamedIn(steps, p) == \E i \in DOMAIN steps : Names(steps[i], p)

\* The first step and the others.
LEMMA StepParts ==
  ASSUME NEW S, NEW s \in Seq(S), s # <<>>
  PROVE  /\ 1 \in DOMAIN s /\ Head(s) = s[1]
         /\ \A i \in DOMAIN Tail(s) : i + 1 \in DOMAIN s /\ Tail(s)[i] = s[i + 1]
BY TailParts

\* A handler that goes on sends a command that fits the panels as they are.
LEMMA IssueFits ==
  ASSUME NEW ps, NEW ord, NEW n, Sound(ps, ord, n), NEW act,
         NEW steps \in Steps(n), WellShaped(steps), MildSteps(steps, ps, n), NEW more,
         more = Issue(steps, ps, ord, act)
  PROVE  \/ more = <<>>
         \/ \E e : /\ more = <<e>> /\ Fitting(ps, ps, n, e)
                   /\ \A p : InEntry(e, p) => NamedIn(steps, p)
<1> DEFINE Fits(e) == /\ more = <<e>> /\ Fitting(ps, ps, n, e)
                      /\ \A p : InEntry(e, p) => NamedIn(steps, p)
<1>0. /\ steps \in Seq(KnownStep(n))
      /\ steps # <<>> => Head(steps) \in KnownStep(n)
  BY DEF Steps
<1>1. steps # <<>> =>
        /\ 1 \in DOMAIN steps /\ Head(steps) = steps[1]
        /\ \A i \in DOMAIN Tail(steps) : i + 1 \in DOMAIN steps /\ Tail(steps)[i] = steps[i + 1]
        /\ MildStep(Head(steps), ps, n) /\ MildSteps(Tail(steps), ps, n)
        /\ \A p : NamedIn(Tail(steps), p) \/ Names(Head(steps), p) => NamedIn(steps, p)
  BY <1>0, StepParts DEF MildSteps, NamedIn
<1>3. CASE Flushes(steps) /\ NextToFlush(Head(steps).todo, ps) # 0
  <2> PICK todo : todo = Head(steps).todo
    OBVIOUS
  <2> PICK i : i = NextToFlush(todo, ps)
    OBVIOUS
  <2> PICK w : w = Found(ps, ord, todo[i])
    OBVIOUS
  <2> PICK again : again = Flush(SubSeq(todo, i + 1, Len(todo)))
    OBVIOUS
  <2> PICK e : e = [op |-> PutTab(w), rest |-> <<again>> \o Tail(steps)]
    OBVIOUS
  <2>0. steps # <<>> /\ Head(steps).kind = "flush"
    BY <1>3 DEF Flushes
  <2>3. more = <<e>> /\ e.op = PutTab(w) /\ e.rest = <<again>> \o Tail(steps)
        /\ again.kind = "flush"
    <3>1. Unfolded(steps, ps, ord) = steps
      BY <1>3, <2>0 DEF Unfolded
    <3>2. again.kind = "flush"
      BY DEF Flush
    <3> QED
      BY <1>3, <2>0, <3>1, <3>2 DEF Issue
  <2>4. \A j \in DOMAIN e.rest : e.rest[j] = again \/ \E k \in DOMAIN Tail(steps) : e.rest[j] = Tail(steps)[k]
    <3>1. PICK S : S = KnownStep(n) \cup {again}
      OBVIOUS
    <3>2. Tail(steps) \in Seq(S) /\ <<again>> \in Seq(S)
      <4>1. steps \in Seq(S)
        BY <1>0, <3>1, SequenceOf
      <4> QED
        BY <2>0, <3>1, <4>1
    <3>3. PICK s, v : s = <<again>> /\ v = Tail(steps)
      OBVIOUS
    <3>4. s \in Seq(S) /\ v \in Seq(S) /\ e.rest = s \o v
      BY <2>3, <3>2, <3>3
    <3>5. \A j \in DOMAIN (s \o v) : (j \in DOMAIN s /\ (s \o v)[j] = s[j])
            \/ (j - Len(s) \in DOMAIN v /\ (s \o v)[j] = v[j - Len(s)])
      BY <3>4, ConcatParts
    <3>6. \A j \in DOMAIN s : s[j] = again
      BY <3>3
    <3> QED
      BY <3>3, <3>4, <3>5, <3>6
  <2>5. e.op.kind = "putTab"
    BY <2>3 DEF PutTab
  <2>6. MildEntry(e, ps, n)
    <3>1. MildStep(again, ps, n)
      BY <2>3 DEF MildStep
    <3> QED
      BY <1>1, <2>0, <2>4, <2>5, <3>1 DEF MildEntry, MildSteps
  <2>7. \A t : Suits(ps, ps, e.op, t)
    BY <2>5 DEF Suits, WritesRow, Deletes
  <2>8. \A p : InEntry(e, p) => NamedIn(steps, p)
    <3>1. \A p : ~Names(again, p) /\ ~Names(e.op, p)
      BY <2>3, <2>5 DEF Names
    <3>2. ASSUME NEW p, InEntry(e, p) PROVE NamedIn(Tail(steps), p)
      <4>1. PICK j \in DOMAIN e.rest : Names(e.rest[j], p)
        BY <3>1, <3>2 DEF InEntry
      <4>2. PICK k \in DOMAIN Tail(steps) : e.rest[j] = Tail(steps)[k]
        BY <2>4, <3>1, <4>1
      <4> QED
        BY <4>1, <4>2 DEF NamedIn
    <3> QED
      BY <1>1, <2>0, <3>2
  <2>9. Fits(e)
    BY <2>3, <2>5, <2>6, <2>7, <2>8 DEF Fitting
  <2> QED
    BY <2>9
<1>4. CASE ~(Flushes(steps) /\ NextToFlush(Head(steps).todo, ps) # 0)
  <2>1. PICK next : next = Unfolded(steps, ps, ord)
    OBVIOUS
  <2>2. next \in Seq(PlainStep(n))
    BY <1>4, <2>1, UnfoldedPlain
  <2>3. PICK after : after = IF Flushes(steps) THEN Tail(steps) ELSE steps
    OBVIOUS
  <2>4. /\ after \in Seq(KnownStep(n)) /\ MildSteps(after, ps, n)
        /\ \A p : NamedIn(after, p) => NamedIn(steps, p)
    <3>1. CASE Flushes(steps)
      <4>1. steps # <<>> /\ Tail(steps) \in Seq(KnownStep(n))
        BY <1>0, <3>1 DEF Flushes
      <4> QED
        BY <1>1, <2>3, <3>1, <4>1
    <3>2. CASE ~Flushes(steps)
      BY <1>0, <2>3, <3>2
    <3> QED
      BY <3>1, <3>2
  <2>5. after # <<>> =>
          /\ MildStep(Head(after), ps, n) /\ MildSteps(Tail(after), ps, n)
          /\ \A p : NamedIn(Tail(after), p) \/ Names(Head(after), p) => NamedIn(after, p)
    BY <2>4, StepParts DEF MildSteps, NamedIn
  <2>6. next = after
    <3>1. next = IF after # <<>> /\ Head(after).kind = "saveAll"
                 THEN PutEvery(ord, ps) \o Tail(after) ELSE after
      BY <1>4, <2>1, <2>3 DEF Unfolded, Flushes
    <3> QED
      BY <2>5, <3>1 DEF MildStep
  <2>7. CASE next = <<>>
    <3>1. more = <<>>
      BY <2>1, <2>7 DEF Issue
    <3> QED
      BY <3>1
  <2>8. CASE next # <<>>
    <3>1. Head(next) \in PlainStep(n)
      BY <2>2, <2>8
    <3>2. PICK s : s = Head(next)
      OBVIOUS
    <3>3. /\ s.kind \in {"livePanel", "meta", "deletePanel"}
          /\ s.kind = "deletePanel" => s.panel \in (1..n) \ DOMAIN ps
          /\ MildSteps(Tail(next), ps, n)
          /\ \A p : NamedIn(Tail(next), p) \/ Names(s, p) => NamedIn(steps, p)
      BY <2>4, <2>5, <2>6, <2>8, <3>1, <3>2 DEF PlainStep, MildStep
    <3>4. PICK op : op = Sent(s, ps, ord, act)
      OBVIOUS
    <3>5. PICK e : e = [op |-> op, rest |-> Tail(next)]
      OBVIOUS
    <3>6. more = <<e>> /\ e.op = op /\ e.rest = Tail(next)
      BY <2>1, <2>8, <3>2, <3>3, <3>4, <3>5 DEF Issue
    <3>7. /\ s.kind = "livePanel" =>
               op = PutPanel(s.panel, IF s.panel \in DOMAIN ps THEN RowOf(ps[s.panel]) ELSE s.row)
          /\ s.kind = "meta" => op = PutMeta(ord, act)
          /\ s.kind = "deletePanel" => op = s
      BY <3>4 DEF Sent
    <3>8. /\ op.kind \in {"putPanel", "putMeta", "deletePanel"}
          /\ op.kind = "putPanel" => /\ s.kind = "livePanel" /\ op.panel = s.panel
                                     /\ s.panel \in DOMAIN ps => op.row = RowOf(ps[s.panel])
          /\ op.kind = "deletePanel" => s.kind = "deletePanel" /\ op.panel = s.panel
      BY <3>3, <3>7 DEF PutPanel, PutMeta
    <3>9. \A r \in DOMAIN ps : WritesRow(op, r) =>
            op.kind = "putPanel" /\ ToSet(op.row.ids) = Ids(ps[r].strip)
      <4> SUFFICES ASSUME NEW r \in DOMAIN ps, WritesRow(op, r)
                   PROVE  op.kind = "putPanel" /\ ToSet(op.row.ids) = Ids(ps[r].strip)
        OBVIOUS
      <4>1. op.panel = r /\ op.kind \in {"putPanel", "deletePanel"}
        BY DEF WritesRow
      <4>2. op.kind = "putPanel" /\ op.row = RowOf(ps[r])
        BY <3>3, <3>8, <4>1
      <4> QED
        BY <4>2 DEF RowOf, Ids, ToSet
    <3>10. \A t : Suits(ps, ps, op, t)
      BY <3>8, <3>9 DEF Suits, Deletes
    <3>11. MildEntry(e, ps, n)
      BY <3>3, <3>6, <3>8 DEF MildEntry, MildSteps
    <3>12. \A p : InEntry(e, p) => NamedIn(steps, p)
      <4>1. \A p : Names(op, p) => Names(s, p)
        BY <3>3, <3>8 DEF Names
      <4> QED
        BY <3>3, <3>6, <4>1 DEF InEntry, NamedIn
    <3>13. Fits(e)
      BY <3>6, <3>8, <3>10, <3>11, <3>12 DEF Fitting
    <3> QED
      BY <3>13
  <2> QED
    BY <2>7, <2>8
<1> QED
  BY <1>3, <1>4

\* The row of a panel lists the tabs of its strip.
LEMMA RowIds ==
  ASSUME NEW panel
  PROVE  ToSet(RowOf(panel).ids) = Ids(panel.strip)
BY DEF RowOf, Ids, ToSet

\* What a write leaves of the row of a panel.
LEMMA AppliedRows ==
  ASSUME NEW d, IsDisk(d), NEW op, op.kind \in BoxWrites \cup {"putMeta"}, NEW p, NEW t
  PROVE  LeavesRow(op, d.panels, Applied(op, d).panels, p, t)
<1>1. DOMAIN d = {"tabs", "panels", "order", "active"}
  BY DEF IsDisk
<1>2. CASE op.kind = "putPanel"
  <2>1. PICK new : new = Put(d.panels, op.panel, op.row)
    OBVIOUS
  <2>2. Applied(op, d).panels = new
    BY <1>1, <1>2, <2>1 DEF Applied
  <2>3. /\ DOMAIN new = DOMAIN d.panels \cup {op.panel} /\ new[op.panel] = op.row
        /\ \A k \in DOMAIN d.panels : k # op.panel => new[k] = d.panels[k]
    BY <2>1 DEF Put
  <2> QED
    BY <1>2, <2>2, <2>3 DEF LeavesRow, Lists, WritesRow, HasTab
<1>3. CASE op.kind = "deletePanel"
  <2>1. PICK new : new = Delete(d.panels, {op.panel})
    OBVIOUS
  <2>2. Applied(op, d).panels = new
    BY <1>1, <1>3, <2>1 DEF Applied
  <2>3. /\ DOMAIN new = DOMAIN d.panels \ {op.panel}
        /\ \A k \in DOMAIN new : new[k] = d.panels[k]
    BY <2>1 DEF Delete
  <2> QED
    BY <1>3, <2>2, <2>3 DEF LeavesRow, Lists, WritesRow, HasTab
<1>4. CASE op.kind \in {"putTab", "deleteTabs", "putActive", "putMeta"}
  <2>1. Applied(op, d).panels = d.panels
    BY <1>1, <1>4 DEF Applied
  <2> QED
    BY <1>4, <2>1 DEF LeavesRow, Lists
<1> QED
  BY <1>2, <1>3, <1>4 DEF BoxWrites

\* And of the active panel.
LEMMA AppliedActive ==
  ASSUME NEW d, IsDisk(d), NEW op \in Command, op.kind \in BoxWrites \cup {"putMeta"},
         d.active # Unsaved
  PROVE  Applied(op, d).active # Unsaved
<1>1. DOMAIN d = {"tabs", "panels", "order", "active"}
  BY DEF IsDisk
<1>2. CASE op.kind = "putActive"
  <2>1. Applied(op, d).active = op.active
    BY <1>1, <1>2 DEF Applied
  <2>2. op.active \in PanelId \cup {NoPanel}
    BY <1>2 DEF Command
  <2>3. MaxPanels \in Nat /\ Unsaved = MaxPanels + 1 /\ NoPanel = 0 /\ PanelId = 1..MaxPanels
    BY StorageAssumption DEF Unsaved, NoPanel, PanelId
  <2> QED
    BY <2>1, <2>2, <2>3
<1>3. CASE op.kind # "putActive"
  <2>1. Applied(op, d).active = d.active
    BY <1>1, <1>3 DEF Applied, BoxWrites
  <2> QED
    BY <2>1
<1> QED
  BY <1>2, <1>3

\* The tabs of what was found are copies.
LEMMA FoundCopies ==
  ASSUME NEW found, NEW p \in ToSet(FoundOrder(found)),
         NEW t \in Ids(FoundPanels(found)[p].strip)
  PROVE  \E v \in Copies(FoundPanels(found)) : v.id = t
<1>1. p \in DOMAIN FoundPanels(found)
  BY DEF FoundPanels
<1> QED
  BY <1>1, IdsOfSet, CopyPlace

\* A tab that settles when the worker writes is listed by what it writes.
LEMMA SettledByWrite ==
  ASSUME Observe, phase' = phase, NEW t \in settled'
  PROVE  /\ IsOpen(panels', t)
         /\ \/ t \in settled
            \/ /\ disk' # disk
               /\ \E r \in DOMAIN panels : Lists(Head(queue).op, r, t)
               /\ \A k \in DOMAIN queue : ~Deletes(queue[k].op, t)
<1>1. IsOpen(panels', t) /\ (t \in settled \/ Settles(t))
  BY DEF Observe, OpenTabs
<1>2. ASSUME Settles(t)
      PROVE  /\ disk' # disk
             /\ \E r \in DOMAIN panels : Lists(Head(queue).op, r, t)
             /\ \A k \in DOMAIN queue : ~Deletes(queue[k].op, t)
  <2>1. ~(phase = "loading" /\ phase' = "ready")
    OBVIOUS
  <2> QED
    BY <1>2, <2>1 DEF Settles, Deleting, Lists, Deletes
<1> QED
  BY <1>1, <1>2

\* A queue names and reads what was there, or is named in some steps.
NamesOnly(u, q, steps) ==
  /\ \A p : InQueue(u, p) => InQueue(q, p) \/ NamedIn(steps, p)
  /\ \A k \in DOMAIN u : u[k].op.kind \in {"getPanels", "getActive"} =>
                            k \in DOMAIN q /\ u[k] = q[k]

\* What follows a queue that was kept, when a handler goes on.
LEMMA IssueJoins ==
  ASSUME NEW n \in Nat, NEW q \in Seq(Entry(n)), NEW ps, NEW ord, NEW act, Sound(ps, ord, n),
         Once(ps), NEW steps \in Steps(n), WellShaped(steps), MildSteps(steps, ps, n), NEW more,
         more = Issue(steps, ps, ord, act), NEW tabs, NEW rows, NEW st, MildQueue(q, ps, n),
         Fewer(st, st, ps), Safely(q, tabs, rows, ps, st),
         NEW u, Joined(u, q, more)
  PROVE  MildQueue(u, ps, n) /\ Safely(u, tabs, rows, ps, st) /\ NamesOnly(u, q, steps)
<1>1. CASE more = <<>>
  <2>1. u = q
    BY <1>1 DEF Joined
  <2> QED
    BY <2>1 DEF NamesOnly
<1>2. CASE more # <<>>
  <2>1. PICK e : /\ more = <<e>> /\ Fitting(ps, ps, n, e)
                 /\ \A p : InEntry(e, p) => NamedIn(steps, p)
    BY <1>2, IssueFits
  <2>2. u = q \o <<e>>
    BY <2>1 DEF Joined
  <2>3. MildQueue(u, ps, n) /\ Safely(u, tabs, rows, ps, st)
    <3>1. PanelsGrow(ps, ps, n, n)
      BY DEF PanelsGrow
    <3>2. Joined(u, q, <<e>>)
      BY <2>2 DEF Joined
    <3> QED
      BY <2>1, <3>1, <3>2, FittingJoins
  <2>4. /\ \A k \in DOMAIN q : u[k] = q[k]
        /\ u[Len(q) + 1] = e
        /\ \A k \in DOMAIN u : k \in DOMAIN q \/ k = Len(q) + 1
    BY <2>2, GrownQueue
  <2>5. \A p : InQueue(u, p) => InQueue(q, p) \/ NamedIn(steps, p)
    BY <2>1, <2>4 DEF InQueue
  <2>6. \A k \in DOMAIN u : u[k].op.kind \in {"getPanels", "getActive"} =>
           k \in DOMAIN q /\ u[k] = q[k]
    BY <2>1, <2>4 DEF Fitting
  <2> QED
    BY <2>3, <2>5, <2>6 DEF NamesOnly
<1> QED
  BY <1>1, <1>2

-----------------------------------------------------------------------------
(* The worker writes.                                                      *)

\* The queue without its first command, which was a write, and what its
\* handler has left to do.
LEMMA TailMild ==
  ASSUME IInv, PlacesOK, queue # <<>>
  PROVE  /\ MildQueue(Tail(queue), panels, nextPanel)
         /\ MildSteps(Head(queue).rest, panels, nextPanel)
         /\ \A p : InQueue(Tail(queue), p) \/ NamedIn(Head(queue).rest, p) => InQueue(queue, p)
         /\ 1 \in DOMAIN queue /\ queue[1] = Head(queue)
         /\ \A k \in DOMAIN Tail(queue) : k + 1 \in DOMAIN queue /\ Tail(queue)[k] = queue[k + 1]
<1>1. queue \in Seq(Entry(nextPanel))
  BY DEF IInv
<1>2. PICK u, h : u = Tail(queue) /\ h = Head(queue)
  OBVIOUS
<1>3. /\ 1 \in DOMAIN queue /\ h = queue[1]
      /\ \A k \in DOMAIN u : k + 1 \in DOMAIN queue /\ u[k] = queue[k + 1]
  BY <1>1, <1>2, StepParts
<1>4. \A k \in DOMAIN queue : MildEntry(queue[k], panels, nextPanel)
  BY DEF PlacesOK, MildQueue
<1>5. MildQueue(u, panels, nextPanel)
  BY <1>3, <1>4 DEF MildQueue
<1>6. MildSteps(h.rest, panels, nextPanel)
  BY <1>3, <1>4 DEF MildEntry, MildSteps
<1>7. \A p : InQueue(u, p) \/ NamedIn(h.rest, p) => InQueue(queue, p)
  BY <1>3 DEF InQueue, InEntry, NamedIn
<1> QED
  BY <1>2, <1>3, <1>5, <1>6, <1>7

\* The panels that are read keep their rows when a write is executed.
LEMMA FoundRowsKept ==
  ASSUME IInv, TInv, queue # <<>>, Head(queue).op.kind \in BoxWrites \cup {"putMeta"},
         NEW j \in DOMAIN queue, queue[j].op.kind = "getActive",
         NEW p \in ToSet(FoundOrder(queue[j].op.found)), Aside(queue, panels, p),
         NEW strip, strip = FoundPanels(queue[j].op.found)[p].strip,
         RowShows(disk, p, strip)
  PROVE  RowShows(Applied(Head(queue).op, disk), p, strip)
<1>1. PICK op, new : op = Head(queue).op /\ new = Applied(op, disk)
  OBVIOUS
<1>2. 1 \in DOMAIN queue /\ queue[1] = Head(queue)
  BY DEF IInv
<1>3. ~WritesRow(op, p)
  BY <1>1, <1>2, WritesNamed DEF Aside
<1>4. IsDisk(disk)
  BY DEF IInv, DiskOK
<1> SUFFICES ASSUME NEW t \in Ids(strip)
             PROVE  HasTab(new.panels, p, t) /\ t \in DOMAIN new.tabs
  BY <1>1 DEF RowShows
<1>5. HasTab(disk.panels, p, t) /\ t \in DOMAIN disk.tabs
  BY DEF RowShows
<1>6. HasTab(new.panels, p, t)
  BY <1>1, <1>3, <1>4, <1>5, AppliedRows DEF LeavesRow
<1>7. ~About(op, t)
  <2>1. PICK v \in Copies(FoundPanels(queue[j].op.found)) : v.id = t
    BY FoundCopies
  <2>2. Clean(queue, disk.tabs, v.id, Settled(v))
    BY DEF TInv, ReadsClean
  <2> QED
    BY <1>1, <1>2, <2>1, <2>2 DEF Clean
<1>8. t \in DOMAIN new.tabs
  <2>1. CASE op.kind \in BoxWrites
    BY <1>1, <1>4, <1>5, <1>7, <2>1, AppliedLeaves DEF Leaves
  <2>2. CASE op.kind = "putMeta"
    <3>1. new.tabs = disk.tabs
      BY <1>1, <1>4, <2>2 DEF Applied, IsDisk
    <3> QED
      BY <1>5, <3>1
  <2> QED
    BY <1>1, <2>1, <2>2
<1> QED
  BY <1>6, <1>8

\* A write is executed: the places are as good as before.
LEMMA ExecuteSurvives ==
  ASSUME IInv, SInv, TInv, PlacesOK, ExecuteWrite, Observe
  PROVE  PlacesOK'
<1>1. PICK op, steps, new, u, more, now, n :
        /\ op = Head(queue).op /\ steps = Head(queue).rest /\ new = Applied(op, disk)
        /\ u = Tail(queue) /\ more = Issue(steps, panels, order, active)
        /\ now = settled' /\ n = nextPanel
  OBVIOUS
<1>2. /\ queue # <<>> /\ op.kind \in BoxWrites /\ disk' = new /\ queue' = u \o more
      /\ UNCHANGED <<phase, panels, nextPanel>>
  BY <1>1 DEF ExecuteWrite, GoOn, process, memory, idVars
<1>3. IsDisk(disk) /\ op \in Command /\ queue \in Seq(Entry(n)) /\ u \in Seq(Entry(n))
      /\ n \in Nat
  BY <1>1, <1>2, HeadProperties DEF IInv, DiskOK, IdsOK
<1>4. /\ steps \in Steps(n) /\ WellShaped(steps) /\ Sound(panels, order, n) /\ Once(panels)
  BY <1>1, <1>2, HeadProperties DEF IInv, MemoryOK, SInv
<1>5. /\ MildQueue(u, panels, n) /\ MildSteps(steps, panels, n)
      /\ \A p : InQueue(u, p) \/ NamedIn(steps, p) => InQueue(queue, p)
      /\ 1 \in DOMAIN queue /\ queue[1] = Head(queue)
      /\ \A k \in DOMAIN u : k + 1 \in DOMAIN queue /\ u[k] = queue[k + 1]
  BY <1>1, <1>2, TailMild
<1>6. \A t \in now : /\ IsOpen(panels, t)
                     /\ t \in settled \/ (/\ \E r \in DOMAIN panels : Lists(op, r, t)
                                          /\ \A k \in DOMAIN queue : ~Deletes(queue[k].op, t))
  BY <1>1, <1>2, SettledByWrite
<1>7. ASSUME NEW t PROVE Safe(u, new.tabs, new.panels, panels, now, t)
  <2>1. Leaves(op, disk.tabs, new.tabs, t)
    BY <1>1, <1>2, <1>3, AppliedLeaves
  <2>2. \A p : LeavesRow(op, disk.panels, new.panels, p, t)
    BY <1>1, <1>2, <1>3, AppliedRows
  <2>3. t \in now => \/ t \in settled
                     \/ /\ Promised(queue, panels, t, 1)
                        /\ \A k \in DOMAIN queue : ~Deletes(queue[k].op, t)
    <3>1. \A i \in (1 + 1)..Len(queue) : i \in DOMAIN queue
      BY <1>3
    <3> QED
      BY <1>1, <1>5, <1>6, <3>1 DEF Promised
  <2>4. Safe(queue, disk.tabs, disk.panels, panels, settled, t)
    BY DEF PlacesOK, AllSafe
  <2> QED
    BY <1>1, <1>2, <1>3, <2>1, <2>2, <2>3, <2>4, SafeNext
<1>0. PICK w : Joined(w, u, more)
  BY DEF Joined
<1>8. /\ MildQueue(w, panels, n)
      /\ \A t : Safe(w, new.tabs, new.panels, panels, now, t)
      /\ \A p : InQueue(w, p) => InQueue(u, p) \/ NamedIn(steps, p)
      /\ \A k \in DOMAIN w :
           w[k].op.kind \in {"getPanels", "getActive"} =>
             k \in DOMAIN u /\ w[k] = u[k]
  <2>1. PICK ps, ord, act, tabs, rows :
          ps = panels /\ ord = order /\ act = active /\ tabs = new.tabs /\ rows = new.panels
    OBVIOUS
  <2>2. /\ more = Issue(steps, ps, ord, act) /\ Sound(ps, ord, n) /\ Once(ps)
        /\ MildQueue(u, ps, n) /\ MildSteps(steps, ps, n)
        /\ Fewer(now, now, ps) /\ Safely(u, tabs, rows, ps, now)
        /\ n \in Nat /\ u \in Seq(Entry(n)) /\ steps \in Steps(n) /\ WellShaped(steps)
    BY <1>1, <1>3, <1>4, <1>5, <1>6, <1>7, <2>1 DEF Fewer, Safely
  <2>3. MildQueue(w, ps, n) /\ Safely(w, tabs, rows, ps, now) /\ NamesOnly(w, u, steps)
    BY <1>0, <2>2, IssueJoins
  <2> QED
    BY <2>1, <2>3 DEF Safely, NamesOnly
<1>9. ReadsAside(queue', disk', panels')
  <2>1. PICK P : P = 1..n
    OBVIOUS
  <2>2. DOMAIN disk.panels \subseteq P
    BY <1>1, <2>1 DEF IInv, DiskOK
  <2>3. \A k \in DOMAIN queue : queue[k].op.kind = "getActive" =>
          ToSet(FoundOrder(queue[k].op.found)) \subseteq P
    <3>1. \A k \in DOMAIN queue : queue[k] \in Entry(n)
      BY <1>3
    <3> QED
      BY <2>1, <3>1 DEF Entry
  <2>4. \A i \in DOMAIN queue : queue[i].op.kind # "getPanels"
    BY <1>1, <1>2, TailWrites DEF Reads, BoxWrites
  <2>0. w = queue'
    BY <1>0, <1>2 DEF Joined
  <2>5. ASSUME NEW k \in DOMAIN w, w[k].op.kind \in {"getPanels", "getActive"}
        PROVE  \E j \in DOMAIN queue :
             /\ w[k].op = queue[j].op
             /\ w[k].op.kind = "getPanels" => new = disk
             /\ w[k].op.kind = "getActive" =>
                  \A p \in ToSet(FoundOrder(w[k].op.found)) :
                     Aside(queue, panels, p)
                       /\ RowShows(disk, p, FoundPanels(w[k].op.found)[p].strip)
                     => RowShows(new, p, FoundPanels(w[k].op.found)[p].strip)
    <3>1. k \in DOMAIN u /\ w[k] = u[k]
      BY <1>2, <1>8, <2>0, <2>5
    <3>2. k + 1 \in DOMAIN queue /\ w[k] = queue[k + 1]
      BY <1>5, <3>1
    <3>3. w[k].op.kind = "getActive"
      BY <2>4, <2>5, <3>2
    <3>4. \A p \in ToSet(FoundOrder(w[k].op.found)) :
             Aside(queue, panels, p)
               /\ RowShows(disk, p, FoundPanels(w[k].op.found)[p].strip)
             => RowShows(new, p, FoundPanels(w[k].op.found)[p].strip)
      BY <1>1, <1>2, <3>2, <3>3, FoundRowsKept
    <3> QED
      BY <3>2, <3>3, <3>4
  <2>6. \A p \in P : InQueue(w, p) => InQueue(queue, p) \/ p \in DOMAIN panels
    BY <1>2, <1>5, <1>8, <2>0
  <2>7. ReadsAside(queue, disk, panels) /\ \A p \in P : p \in DOMAIN panels => p \in DOMAIN panels
    BY DEF PlacesOK
  <2>9. PICK q, ps, d : q = queue /\ ps = panels /\ d = disk
    OBVIOUS
  <2>10. \A k \in DOMAIN w : w[k].op.kind \in {"getPanels", "getActive"} =>
           \E j \in DOMAIN q :
             /\ w[k].op = q[j].op
             /\ w[k].op.kind = "getPanels" => new = d
             /\ w[k].op.kind = "getActive" =>
                  \A p \in ToSet(FoundOrder(w[k].op.found)) :
                     Aside(q, ps, p) /\ RowShows(d, p, FoundPanels(w[k].op.found)[p].strip)
                     => RowShows(new, p, FoundPanels(w[k].op.found)[p].strip)
    BY <2>5, <2>9
  <2>11. /\ DOMAIN d.panels \subseteq P
         /\ \A k \in DOMAIN q : q[k].op.kind = "getActive" =>
              ToSet(FoundOrder(q[k].op.found)) \subseteq P
         /\ \A p \in P : InQueue(w, p) => InQueue(q, p) \/ p \in DOMAIN ps
         /\ ReadsAside(q, d, ps) /\ \A p \in P : p \in DOMAIN ps => p \in DOMAIN ps
    BY <2>2, <2>3, <2>6, <2>7, <2>9
  <2>8. ReadsAside(w, new, ps)
    BY <2>10, <2>11, AsideKept
  <2> QED
    BY <1>2, <2>0, <2>8, <2>9
<1>10. StoredBefore'
  <2>1. new.active # Unsaved
    BY <1>1, <1>2, <1>3, AppliedActive DEF PlacesOK, StoredBefore
  <2>2. phase # "off"
    BY <1>2 DEF SInv, LoadingOK
  <2> QED
    BY <1>2, <2>1, <2>2 DEF StoredBefore
<1> QED
  BY <1>0, <1>1, <1>2, <1>8, <1>9, <1>10 DEF PlacesOK, AllSafe, Joined

\* The queue once the order of the panels has been written.
LEMMA MetaQueue ==
  ASSUME IInv, ExecuteMeta
  PROVE  /\ DOMAIN queue' = DOMAIN queue /\ Len(queue') = Len(queue)
         /\ Len(queue) \in Nat /\ DOMAIN queue = 1..Len(queue)
         /\ 1 \in DOMAIN queue /\ queue[1] = Head(queue)
         /\ \A k \in DOMAIN queue :
              /\ queue'[k].rest = queue[k].rest
              /\ queue'[k] = queue[k] \/ (queue[k].op.kind = "putMeta"
                                           /\ queue'[k].op.kind = "putActive")
<1>1. PICK q, u, e : q = queue /\ u = queue' /\ e = [Head(queue) EXCEPT !.op = PutActive(@.active)]
  OBVIOUS
<1>2. q # <<>> /\ Head(q).op.kind = "putMeta" /\ u = <<e>> \o Tail(q)
  BY <1>1 DEF ExecuteMeta
<1>3. q \in Seq(Entry(nextPanel)) /\ Head(q) \in [op : Command, rest : Steps(nextPanel)]
  BY <1>1, <1>2, HeadProperties DEF IInv, Entry
<1>4. e.rest = Head(q).rest /\ e.op.kind = "putActive"
  BY <1>1, <1>3 DEF PutActive
<1>5. /\ Len(q) \in Nat \ {0} /\ DOMAIN q = 1..Len(q) /\ Head(q) = q[1]
      /\ Len(Tail(q)) = Len(q) - 1 /\ DOMAIN Tail(q) = 1..(Len(q) - 1)
      /\ \A k \in DOMAIN Tail(q) : Tail(q)[k] = q[k + 1]
  BY <1>2, <1>3, TailParts
<1>6. /\ Len(u) = Len(q) /\ DOMAIN u = DOMAIN q /\ u[1] = e
      /\ \A k \in DOMAIN q : k # 1 => u[k] = q[k]
  <2>1. PICK left, S : left = Tail(q) /\ S = Entry(nextPanel) \cup {e}
    OBVIOUS
  <2>2. left \in Seq(S) /\ <<e>> \in Seq(S)
    <3>1. left \in Seq(Entry(nextPanel)) /\ e \in S
      BY <1>2, <1>3, <2>1, TailParts
    <3> QED
      BY <2>1, <3>1, SequenceOf
  <2>3. /\ Len(u) = 1 + Len(left) /\ DOMAIN u = 1..(1 + Len(left)) /\ Len(left) \in Nat
        /\ \A k \in 1..(1 + Len(left)) : u[k] = IF k <= 1 THEN e ELSE left[k - 1]
    BY <1>2, <2>1, <2>2
  <2>4. ASSUME NEW k \in DOMAIN q, k # 1 PROVE u[k] = q[k]
    <3>1. k - 1 \in DOMAIN left /\ (k - 1) + 1 = k /\ u[k] = left[k - 1]
      BY <1>5, <2>1, <2>3, <2>4
    <3> QED
      BY <1>5, <2>1, <3>1
  <2> QED
    BY <1>5, <2>1, <2>3, <2>4
<1>7. 1 \in DOMAIN q
  BY <1>5
<1> QED
  BY <1>1, <1>2, <1>4, <1>5, <1>6, <1>7

\* The order of the panels is written.
LEMMA MetaSurvives ==
  ASSUME IInv, SInv, TInv, PlacesOK, ExecuteMeta, Observe
  PROVE  PlacesOK'
<1>1. PICK q, w, op, new, n, ps, now :
        /\ q = queue /\ w = queue' /\ op = Head(queue).op /\ new = Applied(op, disk)
        /\ n = nextPanel /\ ps = panels /\ now = settled'
  OBVIOUS
<1>2. /\ queue # <<>> /\ op.kind = "putMeta" /\ disk' = new
      /\ UNCHANGED <<phase, panels, nextPanel>>
  BY <1>1 DEF ExecuteMeta, process, memory, idVars
<1>3. IsDisk(disk) /\ op \in Command
  BY <1>1, <1>2, HeadProperties DEF IInv, DiskOK
<1>4. /\ DOMAIN w = DOMAIN q /\ Len(w) = Len(q) /\ Len(q) \in Nat /\ DOMAIN q = 1..Len(q)
      /\ 1 \in DOMAIN q /\ q[1].op = op
      /\ \A k \in DOMAIN q :
           /\ w[k].rest = q[k].rest
           /\ w[k] = q[k] \/ (q[k].op.kind = "putMeta" /\ w[k].op.kind = "putActive")
  BY <1>1, MetaQueue
<1>5. \A p : InQueue(w, p) => InQueue(q, p)
  BY <1>4 DEF InQueue, InEntry, Names
<1>6. new.tabs = disk.tabs /\ new.panels = disk.panels
  BY <1>1, <1>2, <1>3 DEF Applied, IsDisk
<1>7. \A t \in now : t \in settled
  BY <1>1, <1>2, SettledByWrite DEF Lists
<1>8. ASSUME NEW t PROVE Safe(w, new.tabs, new.panels, ps, now, t)
  <2>1. Safe(q, disk.tabs, disk.panels, ps, settled, t)
    BY <1>1 DEF PlacesOK, AllSafe
  <2>2. \A k \in DOMAIN q : \/ w[k].op = q[k].op
                            \/ /\ q[k].op.kind \in {"putMeta", "putActive"}
                               /\ w[k].op.kind \in {"putMeta", "putActive"}
    BY <1>4
  <2>3. Safe(w, disk.tabs, disk.panels, ps, now, t)
    BY <1>4, <1>7, <2>1, <2>2, SafeSame
  <2> QED
    BY <1>6, <2>3
<1>9. MildQueue(w, ps, n)
  <2>1. \A k \in DOMAIN q : MildEntry(q[k], ps, n)
    BY <1>1 DEF PlacesOK, MildQueue
  <2> QED
    BY <1>4, <2>1 DEF MildQueue, MildEntry
<1>10. ReadsAside(w, new, ps)
  <2>1. PICK P, d : P = 1..n /\ d = disk
    OBVIOUS
  <2>2. /\ DOMAIN d.panels \subseteq P /\ q \in Seq(Entry(n))
        /\ \A k \in DOMAIN q : q[k].op.kind = "getActive" =>
             ToSet(FoundOrder(q[k].op.found)) \subseteq P
    <3>1. q \in Seq(Entry(n))
      BY <1>1 DEF IInv
    <3>2. \A k \in DOMAIN q : q[k] \in Entry(n)
      BY <3>1
    <3> QED
      BY <1>1, <2>1, <3>1, <3>2 DEF Entry, IInv, DiskOK
  <2>3. ReadsAside(q, d, ps)
    BY <1>1, <2>1 DEF PlacesOK
  <2>4. \A i \in DOMAIN q : q[i].op.kind # "getPanels"
    BY <1>1, <1>2, TailWrites DEF Reads
  <2>5. ASSUME NEW k \in DOMAIN w, w[k].op.kind \in {"getPanels", "getActive"}
        PROVE  \E j \in DOMAIN q :
             /\ w[k].op = q[j].op
             /\ w[k].op.kind = "getPanels" => new = d
             /\ w[k].op.kind = "getActive" =>
                  \A p \in ToSet(FoundOrder(w[k].op.found)) :
                     Aside(q, ps, p) /\ RowShows(d, p, FoundPanels(w[k].op.found)[p].strip)
                     => RowShows(new, p, FoundPanels(w[k].op.found)[p].strip)
    <3>1. k \in DOMAIN q /\ w[k] = q[k]
      BY <1>4, <2>5
    <3> QED
      BY <1>6, <2>1, <2>4, <3>1 DEF RowShows
  <2>6. \A p \in P : InQueue(w, p) => InQueue(q, p) \/ p \in DOMAIN ps
    BY <1>5
  <2>7. \A p \in P : p \in DOMAIN ps => p \in DOMAIN ps
    OBVIOUS
  <2> QED
    BY <2>2, <2>3, <2>5, <2>6, <2>7, AsideKept
<1>11. StoredBefore'
  <2>1. new.active # Unsaved
    BY <1>1, <1>2, <1>3, AppliedActive DEF PlacesOK, StoredBefore
  <2>2. phase # "off"
    BY <1>2 DEF SInv, LoadingOK
  <2> QED
    BY <1>2, <2>1, <2>2 DEF StoredBefore
<1> QED
  BY <1>1, <1>2, <1>8, <1>9, <1>10, <1>11 DEF PlacesOK, AllSafe

-----------------------------------------------------------------------------
(* Steps that move no tab.                                                 *)

\* Nothing settles while the disk is as it was.
LEMMA SettledStays ==
  ASSUME Observe, disk' = disk, phase' = phase
  PROVE  Fewer(settled', settled, panels')
BY SettledByWrite DEF Fewer

\* A tab that has a new version is where it was.
LEMMA ReplacedShown ==
  ASSUME NEW ps, IsBox(ps, PanelId, Panel), NEW tab \in Tab
  PROVE  SameShown(ps, Replaced(ps, tab))
<1>1. PICK qs : qs = Replaced(ps, tab)
  OBVIOUS
<1>2. DOMAIN qs = DOMAIN ps
  BY <1>1 DEF Replaced
<1>3. ASSUME NEW p \in DOMAIN ps PROVE Ids(qs[p].strip) = Ids(ps[p].strip)
  <2>1. PICK s, i : s = ps[p].strip /\ i = Position(s, tab.id)
    OBVIOUS
  <2>2. s \in Seq(Tab) /\ DOMAIN s = 1..Len(s) /\ ps[p] \in Panel
    BY <2>1, PanelParts
  <2>3. i \in 0..Len(s) /\ (i # 0 => s[i].id = tab.id)
    BY <2>1, <2>2, PositionProperties
  <2>4. CASE i = 0
    BY <1>1, <2>1, <2>4 DEF Replaced
  <2>5. CASE i # 0
    <3>1. qs[p].strip = ReplaceAt(s, i, tab)
      BY <1>1, <2>1, <2>2, <2>5 DEF Replaced, Panel
    <3>2. PICK u : u = ReplaceAt(s, i, tab)
      OBVIOUS
    <3>3. DOMAIN u = DOMAIN s /\ \A j \in DOMAIN s : u[j].id = s[j].id
      BY <2>2, <2>3, <2>5, <3>2 DEF ReplaceAt
    <3> QED
      BY <2>1, <3>1, <3>2, <3>3 DEF Ids
  <2> QED
    BY <2>4, <2>5
<1> QED
  BY <1>1, <1>2, <1>3 DEF SameShown, Shown

\* Nothing is sent, and every tab is in its panel.
LEMMA IdleSurvives ==
  ASSUME IInv, IInv', SInv, PlacesOK, Observe,
         UNCHANGED <<queue, disk, phase, nextPanel>>, SameShown(panels, panels')
  PROVE  PlacesOK'
<1>1. PICK n, q, ps, qs, d, st, now :
        /\ n = nextPanel /\ q = queue /\ ps = panels /\ qs = panels' /\ d = disk
        /\ st = settled /\ now = settled'
  OBVIOUS
<1>2. n \in Nat /\ q \in Seq(Entry(n)) /\ n <= n
  BY <1>1 DEF IInv, IdsOK
<1>3. SameShown(ps, qs) /\ MildQueue(q, ps, n) /\ ReadsAside(q, d, ps)
  BY <1>1 DEF PlacesOK
<1>4. \A t : t \in now => t \in st /\ IsOpen(qs, t)
  BY <1>1, SettledStays DEF Fewer
<1>5. \A t : Safe(q, d.tabs, d.panels, ps, st, t)
  BY <1>1 DEF PlacesOK, AllSafe
<1>6. /\ MildQueue(q, qs, n) /\ ReadsAside(q, d, qs)
      /\ \A t : Safe(q, d.tabs, d.panels, qs, now, t)
  BY <1>2, <1>3, <1>4, <1>5, IdleKeeps
<1>7. StoredBefore'
  <2>1. DOMAIN qs = DOMAIN ps
    BY <1>3 DEF SameShown
  <2> QED
    BY <1>1, <2>1 DEF StoredBefore, PlacesOK
<1> QED
  BY <1>1, <1>6, <1>7 DEF PlacesOK, AllSafe

\* An edit, a send or an answer.
LEMMA EditsSurvive ==
  ASSUME IInv, IInv', SInv, PlacesOK, Observe, Edits, UNCHANGED <<phase, nextPanel>>
  PROVE  PlacesOK'
<1>1. SameShown(panels, panels')
  <2>1. CASE panels' = panels
    BY <2>1 DEF SameShown
  <2>2. ASSUME NEW tab \in Tab, panels' = Replaced(panels, tab)
        PROVE  SameShown(panels, panels')
    <3>1. PICK ps : ps = panels
      OBVIOUS
    <3>2. IsBox(ps, PanelId, Panel)
      BY <3>1, SessionTypes
    <3>3. SameShown(ps, Replaced(ps, tab))
      BY <3>2, ReplacedShown
    <3> QED
      BY <2>2, <3>1, <3>3
  <2> QED
    BY <2>1, <2>2 DEF Edits
<1> QED
  BY <1>1, IdleSurvives DEF Edits

\* The dirty set is flushed.
LEMMA FlushSurvives ==
  ASSUME IInv, IInv', SInv, PlacesOK, Observe, FlushTimer \/ FlushPendingSaves
  PROVE  PlacesOK'
<1>1. PICK todo \in SetToSeqs(dirty) :
        queue' = queue \o Issue(<<Flush(todo)>> \o <<>>, panels, order, active)
  BY DEF FlushTimer, FlushPendingSaves, StartFlush
<1>2. UNCHANGED <<disk, phase, panels, nextPanel>>
  BY UserEventRuns DEF FlushTimer, FlushPendingSaves, process, memory, idVars
<1>3. PICK steps : steps = <<Flush(todo)>> \o <<>>
  OBVIOUS
<1>4. steps = <<Flush(todo)>> /\ DOMAIN steps = {1} /\ steps[1] = Flush(todo)
  BY <1>3
<1>5. todo \in Seq(TabId)
  <2>1. dirty \in SUBSET (0..MaxTabs) /\ MaxTabs \in Nat
    BY StorageAssumption DEF IInv, SavingOK, TabId
  <2>2. todo \in Seq(dirty)
    BY <2>1, ArrangementProperties
  <2> QED
    BY <2>2, SeqMonotonic DEF IInv, SavingOK
<1>6. steps \in Steps(nextPanel) /\ WellShaped(steps)
  <2>1. Flush(todo) \in KnownStep(nextPanel) /\ Flush(todo).kind = "flush"
    BY <1>5 DEF KnownStep, Step, Flush
  <2>2. PICK n, first, after : n = nextPanel /\ first = Flush(todo) /\ after = <<>>
    OBVIOUS
  <2>3. after \in Seq(KnownStep(n)) /\ \A i \in 1..Len(after) : FALSE
    BY <2>2
  <2>4. <<first>> \o after \in Steps(n) /\ WellShaped(<<first>> \o after)
    BY <2>1, <2>2, <2>3, FlushFirst
  <2> QED
    BY <1>3, <2>2, <2>4
<1>7. PICK n, q, ps, ord, act, d, st, now, more, u :
        /\ n = nextPanel /\ q = queue /\ ps = panels /\ ord = order /\ act = active
        /\ d = disk /\ st = settled /\ now = settled'
        /\ more = Issue(steps, ps, ord, act) /\ u = queue'
  OBVIOUS
<1>8. /\ n \in Nat /\ q \in Seq(Entry(n)) /\ Sound(ps, ord, n) /\ Once(ps)
      /\ steps \in Steps(n) /\ MildQueue(q, ps, n) /\ ReadsAside(q, d, ps)
      /\ DOMAIN d.panels \subseteq 1..n
  BY <1>6, <1>7 DEF IInv, IdsOK, MemoryOK, SInv, PlacesOK, DiskOK
<1>9. MildSteps(steps, ps, n) /\ \A p : ~NamedIn(steps, p)
  BY <1>4 DEF MildSteps, MildStep, NamedIn, Names, Flush
<1>10. Joined(u, q, more)
  BY <1>1, <1>3, <1>7 DEF Joined
<1>11. Fewer(now, st, ps)
  BY <1>2, <1>7, SettledStays
<1>12. Fewer(now, now, ps)
  BY <1>11 DEF Fewer
<1>13. Safely(q, d.tabs, d.panels, ps, now)
  <2>1. \A t : Safe(q, d.tabs, d.panels, ps, st, t)
    BY <1>7 DEF PlacesOK, AllSafe
  <2>2. SameShown(ps, ps) /\ n <= n
    BY <1>8 DEF SameShown
  <2>3. \A t : t \in now => t \in st /\ IsOpen(ps, t)
    BY <1>11 DEF Fewer
  <2>4. \A t : Safe(q, d.tabs, d.panels, ps, now, t)
    BY <1>8, <2>1, <2>2, <2>3, IdleKeeps
  <2> QED
    BY <2>4 DEF Safely
<1>14. MildQueue(u, ps, n) /\ Safely(u, d.tabs, d.panels, ps, now) /\ NamesOnly(u, q, steps)
  BY <1>6, <1>7, <1>8, <1>9, <1>10, <1>12, <1>13, IssueJoins
<1>15. ReadsAside(u, d, ps)
  <2>1. PICK P : P = 1..n
    OBVIOUS
  <2>2. \A p \in P : InQueue(u, p) => InQueue(q, p) \/ p \in DOMAIN ps
    BY <1>9, <1>14 DEF NamesOnly
  <2>3. \A k \in DOMAIN q : q[k].op.kind = "getActive" =>
          ToSet(FoundOrder(q[k].op.found)) \subseteq P
    <3>1. \A k \in DOMAIN q : q[k] \in Entry(n)
      BY <1>8
    <3> QED
      BY <2>1, <3>1 DEF Entry
  <2>4. \A k \in DOMAIN u : u[k].op.kind \in {"getPanels", "getActive"} =>
           \E j \in DOMAIN q :
             /\ u[k].op = q[j].op
             /\ u[k].op.kind = "getPanels" => d = d
             /\ u[k].op.kind = "getActive" =>
                  \A p \in ToSet(FoundOrder(u[k].op.found)) :
                     Aside(q, ps, p) /\ RowShows(d, p, FoundPanels(u[k].op.found)[p].strip)
                     => RowShows(d, p, FoundPanels(u[k].op.found)[p].strip)
    BY <1>14 DEF NamesOnly
  <2>5. DOMAIN d.panels \subseteq P /\ \A p \in P : p \in DOMAIN ps => p \in DOMAIN ps
    BY <1>8, <2>1
  <2> QED
    BY <1>8, <2>2, <2>3, <2>4, <2>5, AsideKept
<1>16. StoredBefore'
  BY <1>2 DEF StoredBefore, PlacesOK
<1> QED
  BY <1>2, <1>7, <1>14, <1>15, <1>16 DEF PlacesOK, AllSafe, Safely

-----------------------------------------------------------------------------
(* Events that send one command.                                           *)

\* An event sends one command, which suits what it has done to the panels.
Placed ==
  /\ phase # "off" /\ UNCHANGED <<disk, phase>>
  /\ PanelsGrow(panels, panels', nextPanel, nextPanel')
  /\ \E e : /\ Joined(queue', queue, <<e>>)
            /\ Fitting(panels, panels', nextPanel', e)
            /\ Nearby(queue, panels, panels', e)

\* Such an event leaves every tab in its place.
LEMMA PlacedSurvives ==
  ASSUME IInv, IInv', SInv', PlacesOK, Observe, Placed
  PROVE  PlacesOK'
<1>1. PICK e : /\ Joined(queue', queue, <<e>>)
               /\ Fitting(panels, panels', nextPanel', e)
               /\ Nearby(queue, panels, panels', e)
  BY DEF Placed
<1>2. PICK n, m, q, ps, qs, d, st, now, u :
        /\ n = nextPanel /\ m = nextPanel' /\ q = queue /\ ps = panels /\ qs = panels'
        /\ d = disk /\ st = settled /\ now = settled' /\ u = queue'
  OBVIOUS
<1>3. /\ q \in Seq(Entry(n)) /\ PanelsGrow(ps, qs, n, m) /\ Fitting(ps, qs, m, e)
      /\ Nearby(q, ps, qs, e) /\ Once(qs) /\ MildQueue(q, ps, n) /\ ReadsAside(q, d, ps)
      /\ DOMAIN d.panels \subseteq 1..n /\ Joined(u, q, <<e>>)
  BY <1>1, <1>2 DEF IInv, DiskOK, SInv, PlacesOK, Placed
<1>4. Fewer(now, st, qs)
  BY <1>2, SettledStays DEF Placed
<1>5. Safely(q, d.tabs, d.panels, ps, st)
  BY <1>2 DEF PlacesOK, AllSafe, Safely
<1>6. MildQueue(u, qs, m) /\ Safely(u, d.tabs, d.panels, qs, now)
  BY <1>3, <1>4, <1>5, FittingJoins
<1>7. ReadsAside(u, d, qs)
  <2>1. ReadsAside(q \o <<e>>, d, qs)
    BY <1>3, FittingReads
  <2> QED
    BY <1>3, <2>1 DEF Joined
<1>8. StoredBefore'
  BY DEF StoredBefore, PlacesOK, Placed
<1> QED
  BY <1>2, <1>6, <1>7, <1>8 DEF PlacesOK, AllSafe, Safely, Placed

\* What is left for the handler of such an event to do.
Follows(rest, ps, qs, m) ==
  MildSteps(rest, qs, m) /\ \A p : NamedIn(rest, p) => p \in DOMAIN ps \cup DOMAIN qs

\* The command it sends.
LEMMA FirstCommand ==
  ASSUME NEW steps, Write(steps), steps # <<>>,
         Head(steps).kind \in {"putTab", "deleteTabs", "putPanel", "meta"}
  PROVE  \E e : /\ Joined(queue', queue, <<e>>) /\ e.rest = Tail(steps)
                /\ Head(steps).kind # "meta" => e.op = Head(steps)
                /\ Head(steps).kind = "meta" => e.op.kind = "putMeta"
<1>1. PICK ps, ord, act, first : ps = panels' /\ ord = order' /\ act = active' /\ first = Head(steps)
  OBVIOUS
<1>2. Unfolded(steps, ps, ord) = steps
  BY DEF Unfolded
<1>3. PICK op : op = Sent(first, ps, ord, act)
  OBVIOUS
<1>4. PICK e : e = [op |-> op, rest |-> Tail(steps)]
  OBVIOUS
<1>5. Issue(steps, ps, ord, act) = <<e>>
  BY <1>1, <1>2, <1>3, <1>4 DEF Issue
<1>6. (first.kind # "meta" => op = first) /\ (first.kind = "meta" => op.kind = "putMeta")
  BY <1>1, <1>3 DEF Sent, PutMeta
<1>7. Joined(queue', queue, <<e>>)
  BY <1>1, <1>5 DEF Write, Joined
<1>8. e.op = op /\ e.rest = Tail(steps)
  BY <1>4
<1> QED
  BY <1>1, <1>6, <1>7, <1>8

\* The rest of a handler is about panels that were or are shown.
LEMMA RestNearby ==
  ASSUME NEW q, NEW ps, NEW qs, NEW m, NEW e, Follows(e.rest, ps, qs, m),
         \A p : Names(e.op, p) => p \in DOMAIN qs, e.op.kind # "deletePanel"
  PROVE  Nearby(q, ps, qs, e) /\ MildEntry(e, qs, m)
BY DEF Follows, Nearby, InEntry, NamedIn, MildEntry, MildSteps

\* A tab is where it was unless the strip of its panel has changed.
ShownBefore(ps, qs, r) == r \in DOMAIN ps /\ Ids(qs[r].strip) \subseteq Ids(ps[r].strip)

\* The row of a panel is written, for tabs that were open.
LEMMA RowPlaced ==
  ASSUME UserEvent, NEW p \in DOMAIN panels', Copies(panels') = Copies(panels),
         PanelsGrow(panels, panels', nextPanel, nextPanel'),
         \A r \in DOMAIN panels' \ {p} : ShownBefore(panels, panels', r),
         NEW steps, Write(steps), steps # <<>>, Head(steps) = PutPanel(p, RowOf(panels'[p])),
         Follows(Tail(steps), panels, panels', nextPanel')
  PROVE  Placed
<1>1. PICK ps, qs, m : ps = panels /\ qs = panels' /\ m = nextPanel'
  OBVIOUS
<1>2. PICK op : op = PutPanel(p, RowOf(qs[p]))
  OBVIOUS
<1>3. op.kind = "putPanel" /\ op.panel = p /\ op.row = RowOf(qs[p])
  BY <1>2 DEF PutPanel
<1>4. PICK e : Joined(queue', queue, <<e>>) /\ e.rest = Tail(steps) /\ e.op = op
  BY <1>1, <1>2, <1>3, FirstCommand
<1>5. \A r : WritesRow(op, r) <=> r = p
  BY <1>3 DEF WritesRow
<1>6. ToSet(op.row.ids) = Ids(qs[p].strip)
  BY <1>3, RowIds
<1>7. \A t : IsOpen(qs, t) <=> IsOpen(ps, t)
  BY <1>1, OpenCopy
<1>8. ASSUME NEW t PROVE Suits(ps, qs, op, t)
  <2>1. ASSUME NEW r, Shown(qs, r, t)
        PROVE  Shown(ps, r, t) \/ (IsOpen(ps, t) /\ WritesRow(op, r))
    <3>1. IsOpen(ps, t)
      BY <1>7, <2>1, OpenShown
    <3>2. r \in DOMAIN qs /\ t \in Ids(qs[r].strip)
      BY <2>1 DEF Shown
    <3>3. r # p => r \in DOMAIN ps /\ t \in Ids(ps[r].strip)
      BY <1>1, <3>2 DEF ShownBefore
    <3> QED
      BY <1>5, <3>1, <3>3 DEF Shown
  <2>2. ~Deletes(op, t)
    BY <1>3 DEF Deletes
  <2> QED
    BY <1>3, <1>5, <1>6, <1>7, <2>1, <2>2 DEF Suits
<1>9. \A r : Names(op, r) => r \in DOMAIN qs
  BY <1>1, <1>3 DEF Names
<1>10. Nearby(queue, ps, qs, e) /\ MildEntry(e, qs, m)
  <2>1. Follows(e.rest, ps, qs, m)
    BY <1>1, <1>4
  <2> QED
    BY <1>3, <1>4, <1>9, <2>1, RestNearby
<1>11. Fitting(ps, qs, m, e)
  BY <1>3, <1>4, <1>8, <1>10 DEF Fitting
<1> QED
  BY <1>1, <1>4, <1>10, <1>11, UserEventRuns DEF Placed

\* The order of the panels is written.
LEMMA MetaPlaced ==
  ASSUME UserEvent, IInv, panels' = panels, nextPanel' = nextPanel, Write(<<Meta>>)
  PROVE  Placed
<1>1. PICK ps, n : ps = panels /\ n = nextPanel
  OBVIOUS
<1>2. PICK steps : steps = <<Meta>>
  OBVIOUS
<1>3. steps # <<>> /\ Head(steps).kind = "meta" /\ Tail(steps) = <<>>
  BY <1>2 DEF Meta
<1>4. PICK e : Joined(queue', queue, <<e>>) /\ e.rest = <<>> /\ e.op.kind = "putMeta"
  BY <1>2, <1>3, FirstCommand
<1>5. \A t : Suits(ps, ps, e.op, t)
  BY <1>4 DEF Suits, WritesRow, Deletes
<1>6. Follows(e.rest, ps, ps, n)
  BY <1>4 DEF Follows, MildSteps, NamedIn
<1>7. \A p : ~Names(e.op, p)
  BY <1>4 DEF Names
<1>8. Nearby(queue, ps, ps, e) /\ MildEntry(e, ps, n)
  BY <1>4, <1>6, <1>7, RestNearby
<1>9. PanelsGrow(ps, ps, n, n)
  BY <1>1 DEF PanelsGrow, IInv, IdsOK
<1>10. Fitting(ps, ps, n, e)
  BY <1>4, <1>5, <1>8 DEF Fitting
<1> QED
  BY <1>1, <1>4, <1>8, <1>9, <1>10, UserEventRuns DEF Placed

\* A tab is opened in panel p.
LEMMA TabPlaced ==
  ASSUME UserEvent, IInv, NEW tab, ~IsOpen(panels, tab.id),
         NEW p \in DOMAIN panels, DOMAIN panels' = DOMAIN panels, nextPanel' = nextPanel,
         \A r \in DOMAIN panels \ {p} : ShownBefore(panels, panels', r),
         Ids(panels'[p].strip) \subseteq Ids(panels[p].strip) \cup {tab.id},
         \A t : IsOpen(panels, t) => IsOpen(panels', t),
         NEW steps, Write(steps), steps # <<>>, Head(steps) = PutTab(tab),
         Follows(Tail(steps), panels, panels', nextPanel')
  PROVE  Placed
<1>1. PICK ps, qs, n : ps = panels /\ qs = panels' /\ n = nextPanel
  OBVIOUS
<1>2. PICK op : op = PutTab(tab)
  OBVIOUS
<1>3. op.kind = "putTab" /\ op.tab = tab
  BY <1>2 DEF PutTab
<1>4. PICK e : Joined(queue', queue, <<e>>) /\ e.rest = Tail(steps) /\ e.op = op
  BY <1>2, <1>3, FirstCommand
<1>5. ASSUME NEW t PROVE Suits(ps, qs, op, t)
  <2>1. ASSUME NEW r, Shown(qs, r, t)
        PROVE  Shown(ps, r, t) \/ (~IsOpen(ps, t) /\ Puts(op, t))
    <3>1. r \in DOMAIN ps /\ t \in Ids(qs[r].strip)
      BY <1>1, <2>1 DEF Shown
    <3>2. t \in Ids(ps[r].strip) \/ (r = p /\ t = tab.id)
      BY <1>1, <3>1 DEF ShownBefore
    <3> QED
      BY <1>1, <1>3, <3>1, <3>2 DEF Shown, Puts
  <2>2. ~Deletes(op, t) /\ \A r : ~WritesRow(op, r)
    BY <1>3 DEF Deletes, WritesRow
  <2> QED
    BY <1>1, <2>1, <2>2 DEF Suits
<1>6. \A r : ~Names(op, r)
  BY <1>3 DEF Names
<1>7. Nearby(queue, ps, qs, e) /\ MildEntry(e, qs, n)
  <2>1. Follows(e.rest, ps, qs, n)
    BY <1>1, <1>4
  <2> QED
    BY <1>3, <1>4, <1>6, <2>1, RestNearby
<1>8. PanelsGrow(ps, qs, n, n)
  BY <1>1 DEF PanelsGrow, IInv, IdsOK
<1>9. Fitting(ps, qs, n, e)
  BY <1>3, <1>4, <1>5, <1>7 DEF Fitting
<1> QED
  BY <1>1, <1>4, <1>7, <1>8, <1>9, UserEventRuns DEF Placed

\* Tabs are closed.
LEMMA GonePlaced ==
  ASSUME UserEvent, IInv, NEW gone, DOMAIN panels' \subseteq DOMAIN panels,
         nextPanel' = nextPanel,
         \A r \in DOMAIN panels' : ShownBefore(panels, panels', r),
         \A t : IsOpen(panels', t) <=> IsOpen(panels, t) /\ t \notin gone,
         NEW steps, Write(steps), steps # <<>>, Head(steps) = DeleteTabs(gone),
         Follows(Tail(steps), panels, panels', nextPanel')
  PROVE  Placed
<1>1. PICK ps, qs, n : ps = panels /\ qs = panels' /\ n = nextPanel
  OBVIOUS
<1>2. PICK op : op = DeleteTabs(gone)
  OBVIOUS
<1>3. op.kind = "deleteTabs" /\ op.tabs = gone
  BY <1>2 DEF DeleteTabs
<1>4. PICK e : Joined(queue', queue, <<e>>) /\ e.rest = Tail(steps) /\ e.op = op
  BY <1>2, <1>3, FirstCommand
<1>5. ASSUME NEW t PROVE Suits(ps, qs, op, t)
  <2>1. \A r : Shown(qs, r, t) => Shown(ps, r, t)
    BY <1>1 DEF Shown, ShownBefore
  <2>2. (Deletes(op, t) <=> t \in gone) /\ \A r : ~WritesRow(op, r)
    BY <1>3 DEF Deletes, WritesRow
  <2> QED
    BY <1>1, <2>1, <2>2 DEF Suits
<1>6. \A r : ~Names(op, r)
  BY <1>3 DEF Names
<1>7. Nearby(queue, ps, qs, e) /\ MildEntry(e, qs, n)
  <2>1. Follows(e.rest, ps, qs, n)
    BY <1>1, <1>4
  <2> QED
    BY <1>3, <1>4, <1>6, <2>1, RestNearby
<1>8. PanelsGrow(ps, qs, n, n)
  BY <1>1 DEF PanelsGrow, IInv, IdsOK
<1>9. Fitting(ps, qs, n, e)
  BY <1>3, <1>4, <1>5, <1>7 DEF Fitting
<1> QED
  BY <1>1, <1>4, <1>7, <1>8, <1>9, UserEventRuns DEF Placed

-----------------------------------------------------------------------------
(* Tabs and panels that are chosen, sorted and renamed.                    *)

\* What the handlers have left after their first command.
Remaining(step, ps, qs, m) ==
  \/ step = Meta
  \/ \E p \in DOMAIN ps : \E row : step = LivePanel(p, row)
  \/ \E p \in DOMAIN ps : p \in (1..m) \ DOMAIN qs /\ step = DeletePanel(p)

\* They follow on whatever command came first.
LEMMA RestForms ==
  ASSUME NEW ps, NEW qs, NEW m, NEW rest,
         \A k \in DOMAIN rest : Remaining(rest[k], ps, qs, m)
  PROVE  Follows(rest, ps, qs, m)
<1>1. \A step : Remaining(step, ps, qs, m) =>
        /\ MildStep(step, qs, m)
        /\ \A p : Names(step, p) => p \in DOMAIN ps
  BY DEF Remaining, MildStep, Names, Meta, LivePanel, DeletePanel
<1> QED
  BY <1>1 DEF Follows, MildSteps, NamedIn

\* The steps of the handlers.
LEMMA StepForms ==
  ASSUME NEW a, NEW b, NEW c, NEW s,
         \/ s = <<a>> \/ s = <<a, b>> \/ s = <<a, b, c>>
         \/ s = <<a, b>> \o <<>> \/ s = <<a, b>> \o <<c>>
  PROVE  s # <<>> /\ Head(s) = a /\ \A k \in DOMAIN Tail(s) : Tail(s)[k] \in {b, c}
<1>1. CASE s = <<a>>
  BY <1>1
<1>2. CASE s = <<a, b>>
  BY <1>2
<1>3. CASE s = <<a, b, c>>
  <2>1. /\ Len(s) = 3 /\ s[1] = a /\ s[2] = b /\ s[3] = c
        /\ DOMAIN s = 1..3 /\ Head(s) = s[1] /\ s # <<>>
    BY <1>3
  <2>2. DOMAIN Tail(s) = 1..2 /\ Tail(s)[1] = s[2] /\ Tail(s)[2] = s[3]
    BY <1>3
  <2> QED
    BY <2>1, <2>2
<1>4. CASE s = <<a, b>> \o <<>>
  <2>1. PICK S : S = {a, b}
    OBVIOUS
  <2>2. <<a, b>> \in Seq(S)
    BY <2>1
  <2>3. s = <<a, b>>
    BY <1>4, <2>2
  <2> QED
    BY <1>2, <2>3
<1>5. CASE s = <<a, b>> \o <<c>>
  <2>1. /\ Len(s) = 3 /\ s[1] = a /\ s[2] = b /\ s[3] = c
        /\ DOMAIN s = 1..3 /\ Head(s) = s[1] /\ s # <<>>
    BY <1>5
  <2>2. DOMAIN Tail(s) = 1..2 /\ Tail(s)[1] = s[2] /\ Tail(s)[2] = s[3]
    BY <1>5
  <2> QED
    BY <2>1, <2>2
<1> QED
  BY <1>1, <1>2, <1>3, <1>4, <1>5

\* Panels that are all there.
LEMMA SamePanels ==
  ASSUME IInv, DOMAIN panels' = DOMAIN panels, nextPanel' = nextPanel
  PROVE  PanelsGrow(panels, panels', nextPanel, nextPanel')
BY DEF PanelsGrow, IInv, IdsOK

\* One panel is saved: the others are as they were.
LEMMA SavedPlaced ==
  ASSUME IInv, UserEvent, Copies(panels') = Copies(panels), NEW p \in DOMAIN panels,
         DOMAIN panels' = DOMAIN panels, nextPanel' = nextPanel,
         \A r \in DOMAIN panels \ {p} : panels'[r] = panels[r],
         \/ Write(<<PutPanel(p, RowOf(panels'[p]))>>)
         \/ Write(<<PutPanel(p, RowOf(panels'[p])), Meta>>)
  PROVE  Placed
<1>1. PICK op : op = PutPanel(p, RowOf(panels'[p]))
  OBVIOUS
<1>2. PICK steps : Write(steps) /\ (steps = <<op>> \/ steps = <<op, Meta>>)
  <2>1. Write(<<op>>) \/ Write(<<op, Meta>>)
    BY <1>1
  <2> QED
    BY <2>1
<1>3. steps # <<>> /\ Head(steps) = op /\ \A k \in DOMAIN Tail(steps) : Tail(steps)[k] \in {Meta}
  <2>1. PICK a, b : a = op /\ b = Meta
    OBVIOUS
  <2>2. steps = <<a>> \/ steps = <<a, b>>
    BY <1>2, <2>1
  <2>3. /\ steps # <<>> /\ Head(steps) = a
        /\ \A k \in DOMAIN Tail(steps) : Tail(steps)[k] \in {b, b}
    BY <2>2, StepForms
  <2> QED
    BY <2>1, <2>3
<1>4. Follows(Tail(steps), panels, panels', nextPanel')
  <2>1. PICK ps, qs, m : ps = panels /\ qs = panels' /\ m = nextPanel'
    OBVIOUS
  <2>2. \A k \in DOMAIN Tail(steps) : Remaining(Tail(steps)[k], ps, qs, m)
    BY <1>3 DEF Remaining
  <2> QED
    BY <2>1, <2>2, RestForms
<1>5. \A r \in DOMAIN panels' \ {p} : ShownBefore(panels, panels', r)
  BY DEF ShownBefore
<1>6. PanelsGrow(panels, panels', nextPanel, nextPanel')
  BY SamePanels
<1> QED
  BY <1>1, <1>2, <1>3, <1>4, <1>5, <1>6, RowPlaced

\* A tab that is open is shown.
LEMMA ActivatePlaced ==
  ASSUME IInv, UserEvent, Moves, NEW p \in DOMAIN panels, NEW t, Activate(p, t),
         nextPanel' = nextPanel
  PROVE  Placed
<1>1. panels' = [panels EXCEPT ![p].active = t]
      /\ Write(<<PutPanel(p, RowOf(panels'[p])), Meta>>)
  BY EmitPanels DEF Activate
<1>2. DOMAIN panels' = DOMAIN panels /\ \A r \in DOMAIN panels \ {p} : panels'[r] = panels[r]
  BY <1>1
<1> QED
  BY <1>1, <1>2, SavedPlaced DEF Moves, Rearranged

\* ShowLinkedTab activates a tab, and its panel.
LEMMA ShowLinkedTabPlaced ==
  ASSUME IInv, Moves, NEW node, ShowLinkedTab(node)
  PROVE  Placed
<1> DEFINE I == {i \in 1..Len(order) : LinkedPosition(order[i], node) # 0}
           k == SelectInSeq(order, LAMBDA p : LinkedPosition(p, node) # 0)
<1>1. PICK t : /\ UserEvent /\ k # 0 /\ Activate(order[k], t) /\ nextPanel' = nextPanel
  BY DEF ShowLinkedTab, idVars
<1>2. k = IF I # {} THEN Min(I) ELSE 0
  BY DEF SelectInSeq
<1>3. I \in SUBSET Nat /\ DOMAIN order = 1..Len(order)
  BY OrderFacts
<1>4. k \in I
  BY <1>1, <1>2, <1>3, MinIsLeast
<1> HIDE DEF k
<1>5. order[k] \in DOMAIN panels
  BY <1>3, <1>4, OrderFacts
<1> QED
  BY <1>1, <1>5, ActivatePlaced

\* So does ReopenAsLinkedTab.
LEMMA ReopenAsLinkedTabPlaced ==
  ASSUME IInv, Moves, ReopenAsLinkedTab
  PROVE  Placed
<1> DEFINE I == {i \in 1..Len(order) : SameAsClosed(order[i], Last(closed).tab)}
           k == SelectInSeq(order, LAMBDA p : SameAsClosed(p, Last(closed).tab))
<1>1. PICK t : /\ UserEvent /\ k # 0 /\ Activate(order[k], t) /\ nextPanel' = nextPanel
  BY DEF ReopenAsLinkedTab, idVars
<1>2. k = IF I # {} THEN Min(I) ELSE 0
  BY DEF SelectInSeq
<1>3. I \in SUBSET Nat /\ DOMAIN order = 1..Len(order)
  BY OrderFacts
<1>4. k \in I
  BY <1>1, <1>2, <1>3, MinIsLeast
<1> HIDE DEF k
<1>5. order[k] \in DOMAIN panels
  BY <1>3, <1>4, OrderFacts
<1> QED
  BY <1>1, <1>5, ActivatePlaced

\* Choosing and dragging a tab, and a new name.
LEMMA PanelSavedPlaced ==
  ASSUME IInv, Moves,
         \/ \E i : SetActiveIndex(i)
         \/ \E p, i, j : ReorderTabs(p, i, j)
         \/ \E p, name : RenamePanel(p, name)
  PROVE  Placed
<1> DEFINE Saved(p) == /\ p \in DOMAIN panels /\ UserEvent /\ DOMAIN panels' = DOMAIN panels
                       /\ nextPanel' = nextPanel
                       /\ \A r \in DOMAIN panels \ {p} : panels'[r] = panels[r]
                       /\ Write(<<PutPanel(p, RowOf(panels'[p]))>>)
<1>1. \E p : Saved(p)
  <2>1. ASSUME NEW i, SetActiveIndex(i) PROVE \E q : Saved(q)
    <3>1. PICK p : p = ActivePanel
      OBVIOUS
    <3>2. PICK t : panels' = [panels EXCEPT ![p].active = t]
      BY <2>1, <3>1, EmitPanels DEF SetActiveIndex
    <3>3. p \in DOMAIN panels
      BY <2>1, <3>1, OrderFacts DEF SetActiveIndex
    <3>4. UserEvent /\ nextPanel' = nextPanel /\ Write(<<PutPanel(p, RowOf(panels'[p]))>>)
      BY <2>1, <3>1 DEF SetActiveIndex, idVars
    <3> QED
      BY <3>2, <3>3, <3>4
  <2>2. ASSUME NEW p, NEW i, NEW j, ReorderTabs(p, i, j) PROVE \E q : Saved(q)
    <3>1. PICK s : panels' = [panels EXCEPT ![p].strip = s]
      BY <2>2, EmitPanels DEF ReorderTabs
    <3>2. /\ UserEvent /\ nextPanel' = nextPanel /\ Write(<<PutPanel(p, RowOf(panels'[p]))>>)
          /\ p \in DOMAIN panels
      BY <2>2 DEF ReorderTabs, idVars
    <3> QED
      BY <3>1, <3>2
  <2>3. ASSUME NEW p, NEW name, RenamePanel(p, name) PROVE \E q : Saved(q)
    <3>1. PICK s : panels' = [panels EXCEPT ![p].name = s]
      BY <2>3, EmitPanels DEF RenamePanel
    <3>2. /\ UserEvent /\ nextPanel' = nextPanel /\ Write(<<PutPanel(p, RowOf(panels'[p]))>>)
          /\ p \in DOMAIN panels
      BY <2>3 DEF RenamePanel, idVars
    <3> QED
      BY <3>1, <3>2
  <2> QED
    BY <2>1, <2>2, <2>3
<1> QED
  BY <1>1, SavedPlaced DEF Moves, Rearranged

\* Choosing a panel, or sorting them, writes their order.
LEMMA PanelChoicePlaced ==
  ASSUME IInv, (\E p : SetActivePanel(p)) \/ (\E i, j : ReorderPanels(i, j))
  PROVE  Placed
<1>1. UserEvent /\ panels' = panels /\ nextPanel' = nextPanel /\ Write(<<Meta>>)
  BY DEF SetActivePanel, ReorderPanels, Emit, idVars
<1> QED
  BY <1>1, MetaPlaced

-----------------------------------------------------------------------------
(* Tabs that move.                                                         *)

\* A new panel has a new number.
LEMMA NewPanel ==
  ASSUME IInv, NEW ps, DOMAIN ps = DOMAIN panels, NEW panel, NEW q, q = nextPanel + 1,
         panels' = Put(ps, q, panel), nextPanel' = q
  PROVE  /\ q \in DOMAIN panels' /\ q \notin DOMAIN panels /\ panels'[q] = panel
         /\ \A r \in DOMAIN panels' \ {q} : r \in DOMAIN panels /\ panels'[r] = ps[r]
         /\ PanelsGrow(panels, panels', nextPanel, nextPanel')
<1>1. /\ DOMAIN panels' = DOMAIN ps \cup {q} /\ panels'[q] = panel
      /\ \A r \in DOMAIN ps : r # q => panels'[r] = ps[r]
  BY DEF Put
<1>2. nextPanel \in Nat /\ DOMAIN panels \subseteq 1..nextPanel
  BY DEF IInv, IdsOK, MemoryOK, Sound
<1>3. q \notin DOMAIN panels
  BY <1>2
<1>4. PanelsGrow(panels, panels', nextPanel, nextPanel')
  BY <1>1, <1>2 DEF PanelsGrow
<1> QED
  BY <1>1, <1>3, <1>4

\* A new panel is shown.
LEMMA AddPanelPlaced ==
  ASSUME IInv, Moves, AddPanel
  PROVE  Placed
<1>1. PICK q : q = nextPanel + 1
  OBVIOUS
<1>2. PICK panel : panels' = Put(panels, q, panel)
  BY <1>1, EmitPanels DEF AddPanel
<1>3. UserEvent /\ nextPanel' = q /\ Write(<<PutPanel(q, RowOf(panels'[q])), Meta>>)
  BY <1>1 DEF AddPanel
<1>4. /\ q \in DOMAIN panels'
      /\ \A r \in DOMAIN panels' \ {q} : r \in DOMAIN panels /\ panels'[r] = panels[r]
      /\ PanelsGrow(panels, panels', nextPanel, nextPanel')
  BY <1>1, <1>2, <1>3, NewPanel
<1>5. \A r \in DOMAIN panels' \ {q} : ShownBefore(panels, panels', r)
  BY <1>4 DEF ShownBefore
<1>6. PICK steps, a : a = PutPanel(q, RowOf(panels'[q])) /\ steps = <<a, Meta>> /\ Write(steps)
  BY <1>3
<1>7. /\ steps # <<>> /\ Head(steps) = a
      /\ \A k \in DOMAIN Tail(steps) : Tail(steps)[k] \in {Meta, Meta}
  <2>1. PICK b : b = Meta
    OBVIOUS
  <2> QED
    BY <1>6, <2>1, StepForms
<1>8. Follows(Tail(steps), panels, panels', nextPanel')
  <2>1. PICK ps, qs, m : ps = panels /\ qs = panels' /\ m = nextPanel'
    OBVIOUS
  <2>2. \A k \in DOMAIN Tail(steps) : Remaining(Tail(steps)[k], ps, qs, m)
    BY <1>7 DEF Remaining
  <2> QED
    BY <2>1, <2>2, RestForms
<1> QED
  BY <1>3, <1>4, <1>5, <1>6, <1>7, <1>8, RowPlaced DEF Moves, Rearranged

\* A panel that loses a tab shows nothing new.
LEMMA DetachedShown ==
  ASSUME NEW ps, IsBox(ps, PanelId, Panel), Once(ps), NEW p \in DOMAIN ps,
         NEW i \in 1..Len(ps[p].strip), NEW qs, qs = Detached(ps, p, i)
  PROVE  DOMAIN qs = DOMAIN ps /\ \A r \in DOMAIN ps : Ids(qs[r].strip) \subseteq Ids(ps[r].strip)
<1>1. PICK s, u : s = ps[p].strip /\ u = RemoveAt(s, i)
  OBVIOUS
<1>2. ps[p] \in Panel /\ s \in Seq(Tab) /\ OneEach(s)
  BY <1>1, PanelParts DEF Once
<1>3. /\ DOMAIN qs = DOMAIN ps /\ qs[p].strip = u
      /\ \A r \in DOMAIN ps : r # p => qs[r] = ps[r]
  BY <1>1, <1>2 DEF Detached, Panel
<1>4. ToSet(u) = ToSet(s) \ {s[i]}
  BY <1>1, <1>2, RemovedOneEach
<1>5. Ids(u) \subseteq Ids(s)
  BY <1>4, IdsOfSet
<1> QED
  BY <1>1, <1>3, <1>5

\* The steps of a move.
MoveSteps(steps, q, target, p, source) ==
  \/ steps = MoveWrites(q, target, p, source)
  \/ steps = MoveWrites(q, target, p, source) \o <<Meta>>

\* The two writes of a move: the panel the tab has moved to, then the other.
LEMMA MoveForms ==
  ASSUME NEW ps, NEW qs, NEW m, NEW q, NEW p \in DOMAIN ps, NEW target, NEW source, NEW steps,
         MoveSteps(steps, q, target, p, source)
  PROVE  /\ steps # <<>> /\ Head(steps) = PutPanel(q, target)
         /\ Follows(Tail(steps), ps, qs, m)
<1>1. PICK a, b, c : a = PutPanel(q, target) /\ b = LivePanel(p, source) /\ c = Meta
  OBVIOUS
<1>2. steps = <<a, b>> \/ steps = <<a, b>> \o <<c>>
  BY <1>1 DEF MoveWrites, MoveSteps
<1>3. /\ steps # <<>> /\ Head(steps) = a
      /\ \A k \in DOMAIN Tail(steps) : Tail(steps)[k] \in {b, c}
  BY <1>2, StepForms
<1>4. \A k \in DOMAIN Tail(steps) : Remaining(Tail(steps)[k], ps, qs, m)
  BY <1>1, <1>3 DEF Remaining
<1> QED
  BY <1>1, <1>3, <1>4, RestForms

\* A tab moves to another panel, which is saved first.
LEMMA MoveTabToPanelPlaced ==
  ASSUME IInv, SInv, Moves, NEW t, NEW q, MoveTabToPanel(t, q)
  PROVE  Placed
<1>1. PICK p, i : p = Owner(panels, order, t) /\ i = Position(panels[p].strip, t)
  OBVIOUS
<1>2. PICK ps, tab : ps = Detached(panels, p, i) /\ tab = panels[p].strip[i]
  OBVIOUS
<1>3. /\ UserEvent /\ q \in DOMAIN panels /\ IsOpen(panels, t) /\ p # q
      /\ Emit([ps EXCEPT ![q].strip = Append(@, tab),
                         ![q].active = IF panels[q].strip = <<>> THEN t ELSE @],
              order, active)
      /\ Write(MoveWrites(q, RowOf(panels'[q]), p, RowOf(panels'[p])))
      /\ nextPanel' = nextPanel
  BY <1>1, <1>2 DEF MoveTabToPanel, idVars
<1>4. Sound(panels, order, nextPanel) /\ Once(panels) /\ IsBox(panels, PanelId, Panel)
  BY SessionTypes DEF IInv, MemoryOK, SInv
<1>5. p \in DOMAIN panels /\ i \in 1..Len(panels[p].strip)
  BY <1>1, <1>3, <1>4, OwnerProperties
<1>6. /\ DOMAIN ps = DOMAIN panels
      /\ \A r \in DOMAIN panels : Ids(ps[r].strip) \subseteq Ids(panels[r].strip)
  <2>1. PICK old : old = panels
    OBVIOUS
  <2>2. /\ IsBox(old, PanelId, Panel) /\ Once(old) /\ p \in DOMAIN old
        /\ i \in 1..Len(old[p].strip) /\ ps = Detached(old, p, i)
    BY <1>2, <1>4, <1>5, <2>1
  <2>3. /\ DOMAIN ps = DOMAIN old
        /\ \A r \in DOMAIN old : Ids(ps[r].strip) \subseteq Ids(old[r].strip)
    BY <2>2, DetachedShown
  <2> QED
    BY <2>1, <2>3
<1>7. DOMAIN panels' = DOMAIN panels /\ \A r \in DOMAIN panels \ {q} : panels'[r] = ps[r]
  <2>1. panels' = [ps EXCEPT ![q].strip = Append(@, tab),
                             ![q].active = IF panels[q].strip = <<>> THEN t ELSE @]
    BY <1>3, EmitPanels
  <2> QED
    BY <1>6, <2>1
<1>8. \A r \in DOMAIN panels' \ {q} : ShownBefore(panels, panels', r)
  BY <1>6, <1>7 DEF ShownBefore
<1>9. PICK steps, target, source :
        /\ target = RowOf(panels'[q]) /\ source = RowOf(panels'[p])
        /\ steps = MoveWrites(q, target, p, source) /\ Write(steps)
  BY <1>3
<1>10. /\ steps # <<>> /\ Head(steps) = PutPanel(q, target)
       /\ Follows(Tail(steps), panels, panels', nextPanel')
  <2>1. PICK old, new, m : old = panels /\ new = panels' /\ m = nextPanel'
    OBVIOUS
  <2>2. /\ steps # <<>> /\ Head(steps) = PutPanel(q, target)
        /\ Follows(Tail(steps), old, new, m)
    <3>1. p \in DOMAIN old
      BY <1>5, <2>1
    <3>2. MoveSteps(steps, q, target, p, source)
      BY <1>9 DEF MoveSteps
    <3> QED
      BY <3>1, <3>2, MoveForms
  <2> QED
    BY <2>1, <2>2
<1>11. PanelsGrow(panels, panels', nextPanel, nextPanel')
  BY <1>3, <1>7, SamePanels
<1> QED
  BY <1>3, <1>7, <1>8, <1>9, <1>10, <1>11, RowPlaced DEF Moves, Rearranged

\* A tab gets a panel of its own, which is saved first.
LEMMA MoveTabToNewPanelPlaced ==
  ASSUME IInv, SInv, Moves, NEW t, MoveTabToNewPanel(t)
  PROVE  Placed
<1>1. PICK p, i, q : /\ p = Owner(panels, order, t) /\ i = Position(panels[p].strip, t)
                     /\ q = nextPanel + 1
  OBVIOUS
<1>2. PICK ps, panel : /\ ps = Detached(panels, p, i)
                       /\ panel = [name |-> NextName(NoPanel),
                                   strip |-> <<panels[p].strip[i]>>, active |-> t]
  OBVIOUS
<1>3. /\ UserEvent /\ IsOpen(panels, t) /\ nextPanel' = q
      /\ Emit(Put(ps, q, panel), Append(order, q), active)
      /\ Write(MoveWrites(q, RowOf(panels'[q]), p, RowOf(panels'[p])) \o <<Meta>>)
  BY <1>1, <1>2 DEF MoveTabToNewPanel
<1>4. Sound(panels, order, nextPanel) /\ Once(panels) /\ IsBox(panels, PanelId, Panel)
  BY SessionTypes DEF IInv, MemoryOK, SInv
<1>5. p \in DOMAIN panels /\ i \in 1..Len(panels[p].strip)
  BY <1>1, <1>3, <1>4, OwnerProperties
<1>6. /\ DOMAIN ps = DOMAIN panels
      /\ \A r \in DOMAIN panels : Ids(ps[r].strip) \subseteq Ids(panels[r].strip)
  <2>1. PICK old : old = panels
    OBVIOUS
  <2>2. /\ IsBox(old, PanelId, Panel) /\ Once(old) /\ p \in DOMAIN old
        /\ i \in 1..Len(old[p].strip) /\ ps = Detached(old, p, i)
    BY <1>2, <1>4, <1>5, <2>1
  <2>3. /\ DOMAIN ps = DOMAIN old
        /\ \A r \in DOMAIN old : Ids(ps[r].strip) \subseteq Ids(old[r].strip)
    BY <2>2, DetachedShown
  <2> QED
    BY <2>1, <2>3
<1>7. /\ q \in DOMAIN panels'
      /\ \A r \in DOMAIN panels' \ {q} : r \in DOMAIN panels /\ panels'[r] = ps[r]
      /\ PanelsGrow(panels, panels', nextPanel, nextPanel')
  <2>1. panels' = Put(ps, q, panel)
    BY <1>3, EmitPanels
  <2> QED
    BY <1>1, <1>3, <1>6, <2>1, NewPanel
<1>8. \A r \in DOMAIN panels' \ {q} : ShownBefore(panels, panels', r)
  BY <1>6, <1>7 DEF ShownBefore
<1>9. PICK steps, target, source :
        /\ target = RowOf(panels'[q]) /\ source = RowOf(panels'[p])
        /\ steps = MoveWrites(q, target, p, source) \o <<Meta>> /\ Write(steps)
  BY <1>3
<1>10. /\ steps # <<>> /\ Head(steps) = PutPanel(q, target)
       /\ Follows(Tail(steps), panels, panels', nextPanel')
  <2>1. PICK old, new, m : old = panels /\ new = panels' /\ m = nextPanel'
    OBVIOUS
  <2>2. /\ steps # <<>> /\ Head(steps) = PutPanel(q, target)
        /\ Follows(Tail(steps), old, new, m)
    <3>1. p \in DOMAIN old
      BY <1>5, <2>1
    <3>2. MoveSteps(steps, q, target, p, source)
      BY <1>9 DEF MoveSteps
    <3> QED
      BY <3>1, <3>2, MoveForms
  <2> QED
    BY <2>1, <2>2
<1> QED
  BY <1>3, <1>7, <1>8, <1>9, <1>10, RowPlaced DEF Moves, Rearranged

-----------------------------------------------------------------------------
(* Tabs that are opened and closed.                                        *)

\* A tab that is opened was open nowhere.
LEMMA FreshNotOpen ==
  ASSUME IInv, SInv, NEW tab, Fresh(tab)
  PROVE  ~IsOpen(panels, tab.id)
<1>1. CASE tab.id = nextTab + 1
  <2>1. nextTab \in Nat
    BY SessionTypes
  <2>2. \A v \in Copies(panels) : v.id \in 1..nextTab
    BY DEF SInv, OpenTabsOK, Sounds, Good
  <2> QED
    BY <1>1, <2>1, <2>2, OpenCopy
<1>2. CASE closed # <<>> /\ tab = Last(closed).tab
  <2>1. PICK m : m \in DOMAIN closed /\ tab = closed[m].tab
    BY <1>2, LastClosed
  <2> QED
    BY <2>1 DEF SInv, ClosedTabsOK
<1> QED
  BY <1>1, <1>2 DEF Fresh

\* A strip with one tab more.
Gains(ps, qs, p, id) ==
  /\ DOMAIN qs = DOMAIN ps /\ \A r \in DOMAIN ps \ {p} : qs[r] = ps[r]
  /\ \A t : t \in Ids(qs[p].strip) <=> t \in Ids(ps[p].strip) \/ t = id

\* Where it is shown once it has been put into a strip.
LEMMA OpenedShown ==
  ASSUME NEW ps, IsBox(ps, PanelId, Panel), Once(ps), NEW p \in DOMAIN ps,
         NEW i \in 1..(Len(ps[p].strip) + 1), NEW tab \in Tab, ~IsOpen(ps, tab.id)
  PROVE  Gains(ps, Opened(ps, p, i, tab), p, tab.id)
<1> DEFINE qs == Opened(ps, p, i, tab)
<1>1. PICK s, u : s = ps[p].strip /\ u = InsertAt(s, i, tab)
  OBVIOUS
<1>2. ps[p] \in Panel /\ s \in Seq(Tab) /\ OneEach(s)
  BY <1>1, PanelParts DEF Once
<1>3. /\ DOMAIN qs = DOMAIN ps /\ qs[p].strip = u
      /\ \A r \in DOMAIN ps : r # p => qs[r] = ps[r]
  BY <1>1, <1>2 DEF Opened, Panel
<1>4. tab.id \notin Ids(s)
  BY <1>1 DEF IsOpen
<1>5. ToSet(u) = ToSet(s) \cup {tab}
  BY <1>1, <1>2, <1>4, InsertedOneEach
<1>6. \A t : t \in Ids(u) <=> t \in Ids(s) \/ t = tab.id
  BY <1>5, IdsOfSet
<1> HIDE DEF qs
<1>7. Gains(ps, qs, p, tab.id)
  BY <1>1, <1>3, <1>6 DEF Gains
<1> QED
  BY <1>7 DEF qs

\* A tab is opened: its row is written first.
LEMMA OpenTabPlaced ==
  ASSUME IInv, SInv, UserEvent, nextPanel' = nextPanel,
         NEW p \in DOMAIN panels, NEW i \in 1..(Len(panels[p].strip) + 1),
         NEW tab \in Tab, NEW act, NEW more \in {<<>>, <<Meta>>},
         OpenTab(p, i, tab, act, more), Fresh(tab)
  PROVE  Placed
<1>1. ~IsOpen(panels, tab.id)
  BY FreshNotOpen
<1>2. IsBox(panels, PanelId, Panel) /\ Once(panels)
  BY SessionTypes DEF SInv
<1>3. /\ DOMAIN panels' = DOMAIN panels
      /\ \A r \in DOMAIN panels \ {p} : panels'[r] = panels[r]
      /\ \A t : t \in Ids(panels'[p].strip) <=> t \in Ids(panels[p].strip) \/ t = tab.id
  <2>1. panels' = Opened(panels, p, i, tab)
    BY EmitPanels DEF OpenTab
  <2>2. Gains(panels, Opened(panels, p, i, tab), p, tab.id)
    BY <1>1, <1>2, OpenedShown
  <2> QED
    BY <2>1, <2>2 DEF Gains
<1>4. \A r \in DOMAIN panels \ {p} : ShownBefore(panels, panels', r)
  BY <1>3 DEF ShownBefore
<1>5. \A t : IsOpen(panels, t) => IsOpen(panels', t)
  BY <1>3 DEF IsOpen
<1>6. PICK row, a, b, steps :
        /\ a = PutTab(tab) /\ b = LivePanel(p, row)
        /\ steps = <<a, b>> \o more /\ Write(steps)
  <2>1. PICK row : row = RowOf(panels'[p])
    OBVIOUS
  <2>2. Write(<<PutTab(tab), LivePanel(p, row)>> \o more)
    BY <2>1 DEF OpenTab
  <2> QED
    BY <2>2
<1>7. PICK c : c = Meta
  OBVIOUS
<1>8. /\ steps # <<>> /\ Head(steps) = a
      /\ \A k \in DOMAIN Tail(steps) : Tail(steps)[k] \in {b, c}
  <2>1. steps = <<a, b>> \o <<>> \/ steps = <<a, b>> \o <<c>>
    BY <1>6, <1>7
  <2> QED
    BY <2>1, StepForms
<1>9. Follows(Tail(steps), panels, panels', nextPanel')
  <2>1. PICK ps, qs, m : ps = panels /\ qs = panels' /\ m = nextPanel'
    OBVIOUS
  <2>2. \A k \in DOMAIN Tail(steps) : Remaining(Tail(steps)[k], ps, qs, m)
    BY <1>6, <1>7, <1>8, <2>1 DEF Remaining
  <2> QED
    BY <2>1, <2>2, RestForms
<1>10. Ids(panels'[p].strip) \subseteq Ids(panels[p].strip) \cup {tab.id}
  BY <1>3
<1> QED
  BY <1>1, <1>3, <1>4, <1>5, <1>6, <1>8, <1>9, <1>10, TabPlaced

\* AddTab opens a new tab.
LEMMA AddTabPlaced ==
  ASSUME IInv, SInv, NEW node \in Nodes \cup {NoNode}, NEW config \in Configs,
         AddTab(node, config)
  PROVE  Placed
<1> DEFINE p == ActivePanel
           i == Len(panels[p].strip) + 1
           new == NewTab(node, config)
<1>1. /\ UserEvent /\ order # <<>> /\ nextTab < MaxTabs
      /\ OpenTab(p, i, new, active, <<>>)
      /\ nextTab' = nextTab + 1 /\ closed' = closed /\ nextPanel' = nextPanel
  BY DEF AddTab
<1>2. p \in DOMAIN panels
  BY <1>1, OrderFacts
<1> HIDE DEF p
<1>3. i \in 1..(Len(panels[p].strip) + 1)
  BY <1>2, PanelFacts
<1>4. new \in Tab /\ new.id = nextTab + 1
  BY <1>1, NewTabType DEF NewTab
<1> HIDE DEF i, new
<1>5. Fresh(new)
  BY <1>1, <1>4 DEF Fresh
<1> QED
  BY <1>1, <1>2, <1>3, <1>4, <1>5, OpenTabPlaced

\* DuplicateTab does, with the content of another.
LEMMA DuplicateTabPlaced ==
  ASSUME IInv, SInv, NEW t \in TabId, DuplicateTab(t)
  PROVE  Placed
<1> DEFINE p     == ActivePanel
           strip == panels[p].strip
           i     == Position(strip, t)
           new   == NewTab(NoNode, strip[i].config)
<1>1. /\ UserEvent /\ order # <<>> /\ i # 0 /\ nextTab < MaxTabs
      /\ OpenTab(p, i + 1, new, active, <<>>)
      /\ nextTab' = nextTab + 1 /\ closed' = closed /\ nextPanel' = nextPanel
  BY DEF DuplicateTab
<1>2. p \in DOMAIN panels
  BY <1>1, OrderFacts
<1> HIDE DEF p
<1>3. strip \in Seq(Tab) /\ Len(strip) \in Nat
  BY <1>2, PanelFacts
<1>4. i \in 1..Len(strip)
  BY <1>1, <1>3, PositionProperties
<1>5. strip[i].config \in Configs
  BY <1>3, <1>4, TabParts
<1>6. new \in Tab /\ new.id = nextTab + 1
  BY <1>1, <1>5, NewTabType DEF NewTab
<1>7. i + 1 \in 1..(Len(strip) + 1)
  BY <1>3, <1>4
<1> HIDE DEF i, new
<1>8. Fresh(new)
  BY <1>1, <1>6 DEF Fresh
<1> QED
  BY <1>1, <1>2, <1>6, <1>7, <1>8, OpenTabPlaced

\* ReopenClosedTab opens the tab that was closed last.
LEMMA ReopenClosedTabPlaced ==
  ASSUME IInv, SInv, ReopenClosedTab
  PROVE  Placed
<1> DEFINE was == Last(closed)
           p   == IF was.panel \in DOMAIN panels THEN was.panel ELSE ActivePanel
           end == Len(panels[p].strip) + 1
           i   == IF was.index < end THEN was.index ELSE end
<1>1. /\ UserEvent /\ closed # <<>> /\ order # <<>>
      /\ closed' = Front(closed)
      /\ OpenTab(p, i, was.tab, p, <<Meta>>)
      /\ nextTab' = nextTab /\ nextPanel' = nextPanel
  BY DEF ReopenClosedTab, idVars
<1>2. was.tab \in Tab /\ was.index \in Nat \ {0}
  BY <1>1, PopClosed
<1>3. p \in DOMAIN panels
  BY <1>1, OrderFacts
<1> HIDE DEF p
<1>4. Len(panels[p].strip) \in Nat
  BY <1>3, PanelFacts
<1>5. i \in 1..(Len(panels[p].strip) + 1)
  BY <1>2, <1>4
<1>6. Fresh(was.tab)
  BY <1>1 DEF Fresh
<1> HIDE DEF i, was
<1> QED
  BY <1>1, <1>2, <1>3, <1>5, <1>6, OpenTabPlaced

\* A strip with some tabs less.
Loses(ps, qs, gone) ==
  /\ DOMAIN qs = DOMAIN ps
  /\ \A r \in DOMAIN qs : ShownBefore(ps, qs, r)
  /\ \A t : IsOpen(qs, t) <=> IsOpen(ps, t) /\ t \notin gone

\* What is shown once some tabs have been taken from a strip.
LEMMA ClosedShown ==
  ASSUME NEW ps, IsBox(ps, PanelId, Panel), Once(ps), NEW p \in DOMAIN ps,
         NEW K \in SUBSET DOMAIN ps[p].strip, NEW act,
         NEW kept, kept = Selected(ps[p].strip, DOMAIN ps[p].strip \ K),
         NEW gone, gone = Ids(Selected(ps[p].strip, K))
  PROVE  Loses(ps, [ps EXCEPT ![p].strip = kept, ![p].active = act], gone)
<1> DEFINE qs == [ps EXCEPT ![p].strip = kept, ![p].active = act]
<1>1. ps[p] \in Panel /\ ps[p].strip \in Seq(Tab)
  BY PanelParts
<1>2. /\ DOMAIN qs = DOMAIN ps /\ qs[p].strip = kept
      /\ \A r \in DOMAIN ps : r # p => qs[r] = ps[r]
  BY <1>1 DEF Panel
<1> HIDE DEF qs
<1>3. PICK other : IF kept = <<>> THEN other = NoTab ELSE other \in Ids(kept)
  <2>1. CASE kept # <<>>
    <3>1. kept \in Seq(Tab)
      BY <1>1, SelectedProperties
    <3>2. 1 \in DOMAIN kept
      BY <2>1, <3>1, EmptySeq
    <3>3. kept[1].id \in Ids(kept)
      BY <3>2 DEF Ids
    <3> QED
      BY <2>1, <3>3
  <2>2. CASE kept = <<>>
    BY <2>2
  <2> QED
    BY <2>1, <2>2
<1>4. PICK us : us = [ps EXCEPT ![p].strip = kept, ![p].active = other]
  OBVIOUS
<1>5. \A v : v \in Copies(us) <=> v \in Copies(ps) /\ v.id \notin gone
  <2>1. /\ IsBox(ps, PanelId, Panel) /\ Once(ps) /\ p \in DOMAIN ps
        /\ K \in SUBSET DOMAIN ps[p].strip
        /\ kept = Selected(ps[p].strip, DOMAIN ps[p].strip \ K)
        /\ gone = Ids(Selected(ps[p].strip, K))
    OBVIOUS
  <2>2. /\ Once([ps EXCEPT ![p].strip = kept, ![p].active = other])
        /\ \A v : v \in Copies([ps EXCEPT ![p].strip = kept, ![p].active = other]) <=>
                    v \in Copies(ps) /\ v.id \notin gone
        /\ gone = {ps[p].strip[k].id : k \in K}
    BY <1>3, <2>1, SelectedOnce, ZenonT(30)
  <2> QED
    BY <1>4, <2>2
<1>6. /\ DOMAIN us = DOMAIN ps /\ us[p].strip = kept
      /\ \A r \in DOMAIN ps : r # p => us[r] = ps[r]
  BY <1>1, <1>4 DEF Panel
<1>7. \A t : IsOpen(qs, t) <=> IsOpen(us, t)
  BY <1>2, <1>6 DEF IsOpen
<1>8. \A t : IsOpen(us, t) <=> IsOpen(ps, t) /\ t \notin gone
  BY <1>5, OpenCopy
<1>9. \A t : t \in Ids(kept) => t \in Ids(ps[p].strip)
  <2>1. PICK s : s = ps[p].strip
    OBVIOUS
  <2>2. s \in Seq(Tab) /\ kept = Selected(s, DOMAIN s \ K)
    BY <1>1, <2>1
  <2>3. ASSUME NEW t, t \in Ids(kept) PROVE t \in Ids(s)
    <3>1. \E i \in DOMAIN s \ K : s[i].id = t
      BY <2>2, <2>3, KeptIds
    <3> QED
      BY <3>1 DEF Ids
  <2> QED
    BY <2>1, <2>3
<1> QED
  <2>1. Loses(ps, qs, gone)
    BY <1>2, <1>7, <1>8, <1>9 DEF ShownBefore, Loses
  <2> QED
    BY <2>1 DEF qs

\* Tabs of a panel are closed: their rows are deleted first.
LEMMA CloseTabsPlaced ==
  ASSUME IInv, SInv, UserEvent, NEW p \in DOMAIN panels,
         NEW K \in SUBSET DOMAIN panels[p].strip, NEW act, CloseTabs(p, K, act)
  PROVE  Placed
<1>1. PICK kept, gone :
        /\ kept = Selected(panels[p].strip, DOMAIN panels[p].strip \ K)
        /\ gone = Ids(Selected(panels[p].strip, K))
  OBVIOUS
<1>2. /\ Emit([panels EXCEPT ![p].strip = kept, ![p].active = act], order, active)
      /\ Write(CloseWrites(p, gone, RowOf(panels'[p]))) /\ nextPanel' = nextPanel
  BY <1>1 DEF CloseTabs, idVars
<1>3. IsBox(panels, PanelId, Panel) /\ Once(panels)
  BY SessionTypes DEF SInv
<1>4. /\ DOMAIN panels' = DOMAIN panels
      /\ \A r \in DOMAIN panels' : ShownBefore(panels, panels', r)
      /\ \A t : IsOpen(panels', t) <=> IsOpen(panels, t) /\ t \notin gone
  <2>1. PICK ps, qs : ps = panels /\ qs = panels'
    OBVIOUS
  <2>2. /\ IsBox(ps, PanelId, Panel) /\ Once(ps) /\ p \in DOMAIN ps
        /\ K \in SUBSET DOMAIN ps[p].strip
        /\ kept = Selected(ps[p].strip, DOMAIN ps[p].strip \ K)
        /\ gone = Ids(Selected(ps[p].strip, K))
    BY <1>1, <1>3, <2>1
  <2>3. Loses(ps, [ps EXCEPT ![p].strip = kept, ![p].active = act], gone)
    BY <2>2, ClosedShown, ZenonT(30)
  <2>4. qs = [ps EXCEPT ![p].strip = kept, ![p].active = act]
    BY <1>2, <2>1, EmitPanels
  <2>5. Loses(ps, qs, gone)
    BY <2>3, <2>4
  <2> QED
    BY <2>1, <2>5 DEF Loses
<1>5. PICK row, a, b, steps :
        /\ a = DeleteTabs(gone) /\ b = LivePanel(p, row)
        /\ steps = <<a, b>> /\ Write(steps)
  <2>1. PICK row : row = RowOf(panels'[p])
    OBVIOUS
  <2>2. Write(<<DeleteTabs(gone), LivePanel(p, row)>>)
    BY <1>2, <2>1 DEF CloseWrites
  <2> QED
    BY <2>2
<1>6. /\ steps # <<>> /\ Head(steps) = a
      /\ \A k \in DOMAIN Tail(steps) : Tail(steps)[k] \in {b, b}
  BY <1>5, StepForms
<1>7. Follows(Tail(steps), panels, panels', nextPanel')
  <2>1. PICK ps, qs, m : ps = panels /\ qs = panels' /\ m = nextPanel'
    OBVIOUS
  <2>2. \A k \in DOMAIN Tail(steps) : Remaining(Tail(steps)[k], ps, qs, m)
    BY <1>5, <1>6, <2>1 DEF Remaining
  <2> QED
    BY <2>1, <2>2, RestForms
<1> QED
  BY <1>2, <1>4, <1>5, <1>6, <1>7, GonePlaced

\* The events that close tabs of one panel.
LEMMA CloseEventPlaced ==
  ASSUME IInv, SInv,
         \/ \E t \in TabId : \/ RemoveTab(t) \/ CloseOtherTabs(t)
                             \/ CloseTabsToTheRight(t) \/ CloseTabsToTheLeft(t)
         \/ \E p, saved : CloseSavedTabs(p, saved)
  PROVE  Placed
<1> DEFINE Strip(p) == panels[p].strip
<1>1. \E p \in DOMAIN panels : \E act : \E K \in SUBSET DOMAIN Strip(p) :
        UserEvent /\ CloseTabs(p, K, act)
  <2>1. ASSUME NEW t \in TabId, RemoveTab(t)
        PROVE  \E p \in DOMAIN panels : \E act : \E K \in SUBSET DOMAIN Strip(p) :
                 UserEvent /\ CloseTabs(p, K, act)
    <3>1. PICK p, i : p = Owner(panels, order, t) /\ i = Position(panels[p].strip, t)
      OBVIOUS
    <3>2. PICK act : UserEvent /\ IsOpen(panels, t) /\ CloseTabs(p, {i}, act)
      BY <2>1, <3>1 DEF RemoveTab
    <3>3. p \in DOMAIN panels /\ i \in 1..Len(panels[p].strip)
      BY <3>1, <3>2, OwnerProperties DEF IInv, MemoryOK
    <3>4. {i} \in SUBSET DOMAIN Strip(p)
      BY <3>3, PanelFacts
    <3> QED
      BY <3>2, <3>3, <3>4
  <2>2. ASSUME NEW t \in TabId,
               CloseOtherTabs(t) \/ CloseTabsToTheRight(t) \/ CloseTabsToTheLeft(t)
        PROVE  \E p \in DOMAIN panels : \E act : \E K \in SUBSET DOMAIN Strip(p) :
                 UserEvent /\ CloseTabs(p, K, act)
    <3>1. PICK p, s, i : p = ActivePanel /\ s = panels[p].strip /\ i = Position(s, t)
      OBVIOUS
    <3>2. PICK K, act :
            /\ K \in {DOMAIN s \ {i}, (i + 1)..Len(s), 1..(i - 1)}
            /\ UserEvent /\ order # <<>> /\ i # 0 /\ CloseTabs(p, K, act)
      <4>1. CASE CloseOtherTabs(t)
        BY <3>1, <4>1 DEF CloseOtherTabs
      <4>2. CASE CloseTabsToTheRight(t)
        BY <3>1, <4>2 DEF CloseTabsToTheRight
      <4>3. CASE CloseTabsToTheLeft(t)
        BY <3>1, <4>3 DEF CloseTabsToTheLeft
      <4> QED
        BY <2>2, <4>1, <4>2, <4>3
    <3>3. p \in DOMAIN panels
      BY <3>1, <3>2, OrderFacts
    <3>4. s \in Seq(Tab) /\ DOMAIN s = 1..Len(s) /\ Len(s) \in Nat
      BY <3>1, <3>3, PanelFacts
    <3>5. i \in DOMAIN s
      BY <3>1, <3>2, <3>4, PositionProperties
    <3>6. K \in SUBSET DOMAIN Strip(p)
      BY <3>1, <3>2, <3>4, <3>5
    <3> QED
      BY <3>2, <3>3, <3>6
  <2>3. ASSUME NEW p, NEW saved, CloseSavedTabs(p, saved)
        PROVE  \E q \in DOMAIN panels : \E act : \E K \in SUBSET DOMAIN Strip(q) :
                 UserEvent /\ CloseTabs(q, K, act)
    <3>1. PICK K : K = {i \in DOMAIN Strip(p) : ~HasUnsavedChanges(panels[p].strip[i], saved)}
      OBVIOUS
    <3>2. PICK act : UserEvent /\ p \in DOMAIN panels /\ CloseTabs(p, K, act)
      BY <2>3, <3>1 DEF CloseSavedTabs
    <3>3. K \in SUBSET DOMAIN Strip(p)
      BY <3>1
    <3> QED
      BY <3>2, <3>3
  <2> QED
    BY <2>1, <2>2, <2>3
<1> QED
  BY <1>1, CloseTabsPlaced

\* RemovePanel closes a panel and its tabs.
LEMMA RemovePanelPlaced ==
  ASSUME IInv, SInv, NEW p, RemovePanel(p)
  PROVE  Placed
<1>1. PICK gone : gone = Ids(panels[p].strip)
  OBVIOUS
<1>2. /\ UserEvent /\ p \in DOMAIN panels /\ nextPanel' = nextPanel
      /\ panels' = Delete(panels, {p})
      /\ Write(<<DeleteTabs(gone), DeletePanel(p), Meta>>)
  BY <1>1, EmitPanels DEF RemovePanel, Removable, idVars
<1>3. Once(panels)
  BY DEF SInv
<1>4. DOMAIN panels' = DOMAIN panels \ {p} /\ \A r \in DOMAIN panels' : panels'[r] = panels[r]
  BY <1>2 DEF Delete, Restrict
<1>5. \A t : IsOpen(panels', t) <=> IsOpen(panels, t) /\ t \notin gone
  <2>1. ASSUME NEW t, IsOpen(panels', t) PROVE IsOpen(panels, t) /\ t \notin gone
    <3>1. PICK r \in DOMAIN panels' : t \in Ids(panels'[r].strip)
      BY <2>1 DEF IsOpen
    <3>2. r \in DOMAIN panels /\ r # p /\ t \in Ids(panels[r].strip)
      BY <1>4, <3>1
    <3>3. t \notin Ids(panels[p].strip)
      BY <1>2, <1>3, <3>2, IdsOfSet, CopyUnique
    <3> QED
      BY <1>1, <3>2, <3>3 DEF IsOpen
  <2>2. ASSUME NEW t, IsOpen(panels, t), t \notin gone PROVE IsOpen(panels', t)
    BY <1>1, <1>4, <2>2 DEF IsOpen
  <2> QED
    BY <2>1, <2>2
<1>6. \A r \in DOMAIN panels' : ShownBefore(panels, panels', r)
  BY <1>4 DEF ShownBefore
<1>7. PICK a, b, c, steps :
        /\ a = DeleteTabs(gone) /\ b = DeletePanel(p) /\ c = Meta
        /\ steps = <<a, b, c>> /\ Write(steps)
  BY <1>2
<1>8. /\ steps # <<>> /\ Head(steps) = a
      /\ \A k \in DOMAIN Tail(steps) : Tail(steps)[k] \in {b, c}
  BY <1>7, StepForms
<1>9. Follows(Tail(steps), panels, panels', nextPanel')
  <2>1. PICK ps, qs, m : ps = panels /\ qs = panels' /\ m = nextPanel'
    OBVIOUS
  <2>2. p \in DOMAIN ps /\ p \in (1..m) \ DOMAIN qs
    BY <1>2, <1>4, <2>1, PanelFacts
  <2>3. \A k \in DOMAIN Tail(steps) : Remaining(Tail(steps)[k], ps, qs, m)
    BY <1>7, <1>8, <2>2 DEF Remaining
  <2> QED
    BY <2>1, <2>3, RestForms
<1>10. DOMAIN panels' \subseteq DOMAIN panels
  BY <1>4
<1> QED
  BY <1>2, <1>5, <1>6, <1>7, <1>8, <1>9, <1>10, GonePlaced

-----------------------------------------------------------------------------
(* What is read is on disk.                                                *)

\* What has been read is on disk, and no command is about it.
LEMMA ReadSafe ==
  ASSUME NEW S, NEW u \in Seq(S), NEW ps, NEW tabs, NEW rows, NEW now,
         \A p \in DOMAIN ps, k \in DOMAIN u : ~WritesRow(u[k].op, p),
         \A t : \A k \in DOMAIN u : IsOpen(ps, t) => ~Deletes(u[k].op, t),
         \A p, t : Shown(ps, p, t) => HasTab(rows, p, t) /\ t \in DOMAIN tabs,
         \A t \in now : IsOpen(ps, t)
  PROVE  Safely(u, tabs, rows, ps, now)
<1>1. PICK len \in Nat : len = Len(u) /\ DOMAIN u = 1..len
  OBVIOUS
<1> SUFFICES ASSUME NEW t PROVE Safe(u, tabs, rows, ps, now, t)
  BY DEF Safely
<1>2. ASSUME NEW p, Shown(ps, p, t), NEW n \in 0..len
      PROVE  RowLists(u, rows, p, t, n)
  <2>1. HasTab(rows, p, t) /\ p \in DOMAIN ps
    BY <1>2 DEF Shown
  <2>2. \A k \in 1..n : ~WritesRow(u[k].op, p)
    BY <1>1, <2>1
  <2>3. 0 \in 0..n /\ (0 + 1)..n = 1..n
    OBVIOUS
  <2> QED
    BY <2>1, <2>2, <2>3 DEF RowLists
<1>3. ASSUME IsOpen(ps, t)
      PROVE  /\ t \in DOMAIN tabs
             /\ \A k \in DOMAIN u : ~Deletes(u[k].op, t)
             /\ ListedFrom(u, rows, t, 0)
             /\ HasRow(u, tabs, t, len)
  <2>1. PICK p : Shown(ps, p, t)
    BY <1>3, OpenShown
  <2>2. t \in DOMAIN tabs /\ \A k \in DOMAIN u : ~Deletes(u[k].op, t)
    BY <1>3, <2>1
  <2>3. \A n \in 0..Len(u) : RowLists(u, rows, p, t, n)
    BY <1>1, <1>2, <2>1
  <2>4. ListedFrom(u, rows, t, 0)
    BY <2>3 DEF ListedFrom
  <2>5. 0 \in 0..len /\ \A k \in (0 + 1)..len : ~Deletes(u[k].op, t)
    BY <1>1, <2>2
  <2>6. HasRow(u, tabs, t, len)
    BY <2>2, <2>5 DEF HasRow
  <2> QED
    BY <2>2, <2>4, <2>6
<1>4. \A k \in DOMAIN u : ~Promised(u, ps, t, k)
  BY DEF Promised, Lists, WritesRow
<1>5. t \in now => IsOpen(ps, t)
  OBVIOUS
<1>6. \A p : Shown(ps, p, t) => RowLists(u, rows, p, t, Len(u))
  BY <1>1, <1>2
<1> QED
  BY <1>1, <1>3, <1>4, <1>5, <1>6 DEF Safe

\* Reading stored panels finds one.
LEMMA StoredOrdersFind ==
  ASSUME NEW d, IsDisk(d), NEW ord \in StoredOrders(d), DOMAIN d.panels # {}
  PROVE  ord # <<>>
<1> DEFINE known == {i \in DOMAIN d.order :
                       /\ d.order[i] \in DOMAIN d.panels
                       /\ \A j \in 1..(i - 1) : d.order[j] # d.order[i]}
           rest  == DOMAIN d.panels \ ToSet(d.order)
           first == Selected(d.order, known)
<1>1. d.order \in Seq(PanelId) /\ DOMAIN d.panels \subseteq PanelId
  BY DEF IsDisk, IsBox
<1>2. PICK r \in SetToSeqs(rest) : ord = first \o r
  BY DEF StoredOrders
<1>3. rest \in SUBSET (0..MaxPanels) /\ MaxPanels \in Nat
  BY <1>1, StorageAssumption DEF PanelId
<1>4. r \in Seq(rest) /\ (rest # {} => r # <<>>)
  BY <1>3, ArrangementProperties
<1>5. first \in Seq(PanelId) /\ (known # {} => first # <<>>)
  <2>1. known \in SUBSET DOMAIN d.order
    OBVIOUS
  <2> HIDE DEF known
  <2>2. /\ first \in Seq(PanelId)
        /\ \A k \in known : \E i \in DOMAIN first : first[i] = d.order[k]
    BY <1>1, <2>1, SelectedProperties
  <2> QED
    BY <2>2
<1>6. r \in Seq(PanelId)
  <2>1. rest \subseteq PanelId
    BY <1>1
  <2> HIDE DEF rest
  <2> QED
    BY <1>4, <2>1
<1>7. ASSUME rest = {} PROVE known # {}
  <2>1. PICK p : p \in DOMAIN d.panels
    OBVIOUS
  <2> DEFINE I == {i \in DOMAIN d.order : d.order[i] = p}
  <2>2. I # {} /\ I \in SUBSET Nat
    <3>1. p \in ToSet(d.order)
      BY <1>7, <2>1
    <3> QED
      BY <1>1, <3>1 DEF ToSet
  <2>3. PICK m : m = Min(I)
    OBVIOUS
  <2>4. m \in I /\ \A k \in I : m <= k
    BY <2>2, <2>3, MinIsLeast
  <2>5. \A j \in 1..(m - 1) : d.order[j] # d.order[m]
    BY <1>1, <2>4
  <2>6. m \in known
    BY <2>1, <2>4, <2>5
  <2> QED
    BY <2>6
<1>8. first # <<>> \/ r # <<>>
  BY <1>4, <1>5, <1>7
<1> HIDE DEF known, rest, first
<1> QED
  BY <1>2, <1>5, <1>6, <1>8

\* The rows of the panels that were found.
LEMMA FoundRowsShow ==
  ASSUME IInv, DiskKept, NEW ord \in StoredOrders(disk), NEW found,
         found = [i \in DOMAIN ord |-> [id |-> ord[i], panel |-> StoredPanel(disk, ord[i])]]
  PROVE  /\ ToSet(FoundOrder(found)) \subseteq DOMAIN disk.panels
         /\ \A p \in ToSet(FoundOrder(found)) : RowShows(disk, p, FoundPanels(found)[p].strip)
<1> DEFINE ps == FoundPanels(found)
<1>1. IsDisk(disk) /\ WellKept(disk) /\ disk.tabs \in [DOMAIN disk.tabs -> Tab]
      /\ disk.panels \in [DOMAIN disk.panels -> Row]
  BY DEF IInv, DiskOK, DiskKept, IsDisk, IsBox
<1>2. /\ ord \in Seq(PanelId) /\ ToSet(ord) \subseteq DOMAIN disk.panels
      /\ \A i, j \in DOMAIN ord : i # j => ord[i] # ord[j]
      /\ Len(ord) \in Nat /\ DOMAIN ord = 1..Len(ord)
  BY <1>1, StoredOrdersSound
<1>3. \A i \in DOMAIN ord : ord[i] \in PanelId /\ ord[i] \in DOMAIN disk.panels
  BY <1>2 DEF ToSet
<1>4. /\ DOMAIN found = DOMAIN ord
      /\ \A i \in DOMAIN ord :
           found[i] = [id |-> ord[i], panel |-> StoredPanel(disk, ord[i])]
  OBVIOUS
<1>5. \A i \in DOMAIN ord : [id |-> ord[i], panel |-> StoredPanel(disk, ord[i])]
                               \in [id : PanelId, panel : Panel]
  BY <1>1, <1>3, StoredPanelType
<1>6. found \in Seq([id : PanelId, panel : Panel])
  BY <1>2, <1>5
<1>7. IsInjective(FoundOrder(found))
  BY <1>2, <1>4 DEF FoundOrder, IsInjective
<1>8. /\ DOMAIN ps = {found[i].id : i \in DOMAIN found}
      /\ \A i \in DOMAIN found : ps[found[i].id] = found[i].panel
  BY <1>6, <1>7, FoundAt
<1>9. DOMAIN ps = ToSet(FoundOrder(found))
  BY DEF FoundPanels
<1> HIDE DEF ps
<1>10. ASSUME NEW p \in DOMAIN ps
       PROVE  p \in DOMAIN disk.panels /\ RowShows(disk, p, ps[p].strip)
  <2>1. PICK i \in DOMAIN ord : p = ord[i]
    BY <1>4, <1>8
  <2>2. ps[p] = StoredPanel(disk, p) /\ p \in DOMAIN disk.panels
    BY <1>3, <1>4, <1>8, <2>1
  <2>3. PICK ids : ids = disk.panels[p].ids
    OBVIOUS
  <2>4. ps[p].strip = StoredStrip(disk, ids)
    BY <2>2, <2>3 DEF StoredPanel
  <2>5. ids \in Seq(TabId)
    BY <1>1, <2>2, <2>3 DEF Row
  <2>6. \A i1, j \in DOMAIN ids : ids[i1] \in DOMAIN disk.tabs /\ ids[i1] = ids[j] => i1 = j
    BY <1>1, <2>2, <2>3 DEF WellKept
  <2>7. \A t \in DOMAIN disk.tabs : disk.tabs[t].id = t
    BY <1>1 DEF WellKept
  <2>8. Ids(StoredStrip(disk, ids)) = ToSet(ids) \cap DOMAIN disk.tabs
    BY <1>1, <2>5, <2>6, <2>7, StoredStripParts
  <2> QED
    BY <2>2, <2>3, <2>4, <2>8 DEF RowShows, HasTab
<1> QED
  BY <1>9, <1>10 DEF ps

\* The session is restored: the panels that were found are shown.
LEMMA RestoreSurvives ==
  ASSUME IInv, IInv', SInv, TInv, PlacesOK, RestoreSession, Observe
  PROVE  PlacesOK'
<1>1. PICK found, ps, u, n, d, now :
        /\ found = Head(queue).op.found /\ ps = FoundPanels(found) /\ u = Tail(queue)
        /\ n = nextPanel /\ d = disk /\ now = settled'
  OBVIOUS
<1>2. /\ queue # <<>> /\ Head(queue).op.kind = "getActive" /\ phase' = "ready"
      /\ panels' = ps /\ disk' = d /\ nextPanel' = n
      /\ Then(<<>>)
  BY <1>1 DEF RestoreSession, Emit, idVars, PlacesOK, StoredBefore
<1>3. Issue(<<>>, panels', order', active') = <<>>
  <2>1. Unfolded(<<>>, panels', order') = <<>>
    BY DEF Unfolded
  <2> QED
    BY <2>1 DEF Issue
<1>4. u \in Seq(Entry(n)) /\ queue' = u
  <2>1. u \in Seq(Entry(n))
    BY <1>1, <1>2, ReadAnswered DEF Reads
  <2>2. queue' = u \o <<>>
    BY <1>1, <1>2, <1>3 DEF Then
  <2> QED
    BY <2>1, <2>2
<1>5. /\ MildQueue(u, panels, n)
      /\ \A p : InQueue(u, p) => InQueue(queue, p)
      /\ 1 \in DOMAIN queue /\ queue[1] = Head(queue)
  BY <1>1, <1>2, TailMild
<1>6. \A k \in DOMAIN u : u[k].op.kind \notin {"getPanels", "getActive"}
  BY <1>1, <1>2, ReadAnswered DEF Reads
<1>7. DOMAIN ps = ToSet(FoundOrder(found))
  BY <1>1 DEF FoundPanels
<1>8. ASSUME NEW p \in DOMAIN ps
      PROVE  ~InQueue(u, p) /\ RowShows(d, p, ps[p].strip)
  <2>1. Aside(queue, panels, p) /\ RowShows(d, p, ps[p].strip)
    BY <1>1, <1>2, <1>5, <1>7 DEF PlacesOK, ReadsAside
  <2> QED
    BY <1>5, <2>1 DEF Aside
<1>9. MildQueue(u, ps, n)
  <2> SUFFICES ASSUME NEW k \in DOMAIN u PROVE MildEntry(u[k], ps, n)
    BY DEF MildQueue
  <2>1. MildEntry(u[k], panels, n)
    BY <1>5 DEF MildQueue
  <2>2. \A p \in DOMAIN ps : ~InEntry(u[k], p)
    BY <1>8 DEF InQueue
  <2>3. u[k].op.kind = "deletePanel" => u[k].op.panel \in (1..n) \ DOMAIN ps
    BY <2>1, <2>2 DEF MildEntry, InEntry, Names
  <2>4. ASSUME NEW i \in DOMAIN u[k].rest PROVE MildStep(u[k].rest[i], ps, n)
    <3>1. PICK s : s = u[k].rest[i]
      OBVIOUS
    <3>2. MildStep(s, panels, n) /\ \A p \in DOMAIN ps : ~Names(s, p)
      BY <2>1, <2>2, <3>1 DEF MildEntry, InEntry
    <3>3. MildStep(s, ps, n)
      BY <3>2 DEF MildStep, Names
    <3> QED
      BY <3>1, <3>3
  <2> QED
    BY <2>3, <2>4 DEF MildEntry
<1>10. ReadsAside(u, d, ps)
  BY <1>6 DEF ReadsAside
<1>11. Safely(u, d.tabs, d.panels, ps, now)
  <2>1. \A p \in DOMAIN ps, k \in DOMAIN u : ~WritesRow(u[k].op, p)
    BY <1>8, WritesNamed
  <2>2. ASSUME NEW t, IsOpen(ps, t), NEW k \in DOMAIN u PROVE ~Deletes(u[k].op, t)
    <3>1. PICK v \in Copies(ps) : v.id = t
      BY <2>2, OpenCopy
    <3>2. Clean(u, disk.tabs, v.id, Settled(v))
      BY <1>1, <1>2, <3>1, ReadAnswered DEF Reads
    <3> QED
      BY <3>1, <3>2 DEF Clean, About
  <2>3. \A p, t : Shown(ps, p, t) => HasTab(d.panels, p, t) /\ t \in DOMAIN d.tabs
    BY <1>8 DEF Shown, RowShows
  <2>4. \A t \in now : IsOpen(ps, t)
    BY <1>1, <1>2 DEF Observe, OpenTabs
  <2>5. PICK S, tabs, rows : S = Entry(n) /\ tabs = d.tabs /\ rows = d.panels
    OBVIOUS
  <2>6. u \in Seq(S)
    BY <1>4, <2>5
  <2>7. Safely(u, tabs, rows, ps, now)
    BY <2>1, <2>2, <2>3, <2>4, <2>5, <2>6, ReadSafe
  <2> QED
    BY <2>5, <2>7
<1>12. StoredBefore'
  BY <1>1, <1>2 DEF StoredBefore, PlacesOK
<1> QED
  BY <1>1, <1>2, <1>4, <1>9, <1>10, <1>11, <1>12 DEF PlacesOK, AllSafe, Safely

\* The process is started.
LEMMA StartSurvives ==
  ASSUME IInv, IInv', SInv, PlacesOK, Start, Observe
  PROVE  PlacesOK'
<1>1. PICK u, e, ps, n, d, now :
        /\ e = [op |-> GetPanels, rest |-> <<>>] /\ u = <<e>>
        /\ ps = panels /\ n = nextPanel /\ d = disk /\ now = settled'
  OBVIOUS
<1>2. /\ phase = "off" /\ phase' = "loading" /\ queue' = u
      /\ panels' = ps /\ disk' = d /\ nextPanel' = n
  BY <1>1 DEF Start, memory, idVars
<1>3. DOMAIN ps = {} /\ DOMAIN d.panels # {} /\ d.active # Unsaved
  BY <1>1, <1>2 DEF PlacesOK, StoredBefore
<1>4. /\ DOMAIN u = {1} /\ u[1] = e /\ u \in Seq({e})
      /\ e.op.kind = "getPanels" /\ DOMAIN e.rest = {}
  BY <1>1 DEF GetPanels
<1>5. \A p : ~InQueue(u, p)
  BY <1>4 DEF InQueue, InEntry, Names
<1>6. MildQueue(u, ps, n)
  BY <1>4 DEF MildQueue, MildEntry
<1>7. ReadsAside(u, d, ps)
  BY <1>3, <1>4, <1>5 DEF ReadsAside, Aside
<1>8. \A t : ~IsOpen(ps, t)
  BY <1>3 DEF IsOpen
<1>9. Safely(u, d.tabs, d.panels, ps, now)
  <2>1. \A t \in now : IsOpen(ps, t)
    BY <1>1, <1>2 DEF Observe, OpenTabs
  <2>2. \A p, t : ~Shown(ps, p, t)
    BY <1>3 DEF Shown
  <2>3. PICK S, tabs, rows : S = {e} /\ tabs = d.tabs /\ rows = d.panels
    OBVIOUS
  <2>4. Safely(u, tabs, rows, ps, now)
    BY <1>3, <1>4, <1>8, <2>1, <2>2, <2>3, ReadSafe
  <2> QED
    BY <2>3, <2>4
<1>10. StoredBefore'
  BY <1>1, <1>2, <1>3 DEF StoredBefore
<1> QED
  BY <1>1, <1>2, <1>6, <1>7, <1>9, <1>10 DEF PlacesOK, AllSafe, Safely

\* getPanels answers: the panels that are stored are to be shown.
LEMMA ReadPanelsSurvives ==
  ASSUME IInv, IInv', SInv, TInv, PlacesOK, ReadPanels, Observe
  PROVE  PlacesOK'
<1>1. /\ queue # <<>> /\ Head(queue).op.kind = "getPanels"
      /\ UNCHANGED <<disk, phase, panels>>
  BY DEF ReadPanels, GetPanels, process, memory
<1>2. /\ MildQueue(Tail(queue), panels, nextPanel)
      /\ \A p : InQueue(Tail(queue), p) => InQueue(queue, p)
      /\ 1 \in DOMAIN queue /\ queue[1] = Head(queue)
  BY <1>1, TailMild
<1>3. DOMAIN disk.panels # {} /\ \A p \in DOMAIN disk.panels : Aside(queue, panels, p)
  BY <1>1, <1>2 DEF PlacesOK, ReadsAside
<1>4. DiskKept
  BY <1>1, <1>2 DEF SInv, LoadingOK, Reads
<1>5. PICK ord \in StoredOrders(disk) :
        /\ Answered([i \in DOMAIN ord |-> [id |-> ord[i], panel |-> StoredPanel(disk, ord[i])]])
        /\ UNCHANGED nextPanel
  BY <1>3 DEF ReadPanels
<1>6. PICK found, op, e, q, u, w, ps, n, d, st, now :
        /\ found = [i \in DOMAIN ord |-> [id |-> ord[i], panel |-> StoredPanel(disk, ord[i])]]
        /\ op = GetActive(found) /\ e = [op |-> op, rest |-> <<>>]
        /\ q = queue /\ u = Tail(queue) /\ w = queue'
        /\ ps = panels /\ n = nextPanel /\ d = disk /\ st = settled /\ now = settled'
  OBVIOUS
<1>7. op.kind = "getActive" /\ op.found = found /\ e.op = op /\ DOMAIN e.rest = {}
  BY <1>6 DEF GetActive
<1>8. /\ q \in Seq(Entry(n)) /\ u \in Seq(Entry(n)) /\ w = Append(u, e)
      /\ \A k \in DOMAIN u : u[k].op.kind \notin {"getPanels", "getActive"}
  BY <1>1, <1>5, <1>6, ReadAnswered DEF Answered, IInv, Reads
<1>9. /\ \A k \in DOMAIN u : w[k] = u[k]
      /\ w[Len(u) + 1] = e
      /\ \A k \in DOMAIN w : k \in DOMAIN u \/ k = Len(u) + 1
      /\ w = u \o <<e>>
  <2>1. PICK S : S = Entry(n) \cup {e}
    OBVIOUS
  <2>2. u \in Seq(S) /\ e \in S
    BY <1>8, <2>1
  <2> QED
    BY <1>8, <2>2
<1>10. /\ found # <<>> /\ ToSet(FoundOrder(found)) \subseteq DOMAIN d.panels
       /\ \A p \in ToSet(FoundOrder(found)) : RowShows(d, p, FoundPanels(found)[p].strip)
  <2>1. IsDisk(disk)
    BY DEF IInv, DiskOK
  <2>2. ord # <<>> /\ ord \in Seq(PanelId)
    BY <1>3, <2>1, StoredOrdersFind, StoredOrdersSound
  <2>3. found # <<>>
    <3>1. DOMAIN found = DOMAIN ord /\ 1 \in DOMAIN ord
      BY <1>6, <2>2
    <3>2. DOMAIN <<>> = {}
      OBVIOUS
    <3> QED
      BY <3>1, <3>2
  <2> QED
    BY <1>4, <1>6, <2>3, FoundRowsShow
<1>11. \A p : InQueue(w, p) => InQueue(q, p)
  <2>1. \A p : InQueue(w, p) => InQueue(u, p)
    BY <1>7, <1>9 DEF InQueue, InEntry, Names
  <2> QED
    BY <1>2, <1>6, <2>1
<1>12. MildQueue(w, ps, n)
  <2>1. MildQueue(u, ps, n)
    BY <1>2, <1>6
  <2>2. MildEntry(e, ps, n)
    BY <1>7 DEF MildEntry
  <2> QED
    BY <1>9, <2>1, <2>2 DEF MildQueue
<1>13. ReadsAside(w, d, ps)
  <2>1. \A p \in DOMAIN d.panels : Aside(w, ps, p)
    BY <1>3, <1>6, <1>11 DEF Aside
  <2>2. \A k \in DOMAIN w : w[k].op.kind \in {"getPanels", "getActive"} => w[k].op = op
    BY <1>7, <1>8, <1>9
  <2> QED
    BY <1>7, <1>10, <2>1, <2>2 DEF ReadsAside
<1>14. Fewer(now, st, ps)
  BY <1>1, <1>6, SettledStays
<1>15. PICK tabs, rows, first : tabs = d.tabs /\ rows = d.panels /\ first = Head(q).op
  OBVIOUS
<1>16. first.kind = "getPanels" /\ q # <<>> /\ u = Tail(q)
  BY <1>1, <1>6, <1>15
<1>17. ASSUME NEW t PROVE Safe(w, tabs, rows, ps, now, t)
  <2>1. Safe(q, tabs, rows, ps, st, t)
    BY <1>6, <1>15 DEF PlacesOK, AllSafe
  <2>2. Leaves(first, tabs, tabs, t)
    BY <1>16 DEF Leaves, About, Puts, Deletes
  <2>3. \A p : LeavesRow(first, rows, rows, p, t)
    BY <1>16 DEF LeavesRow, Lists
  <2>4. t \in now => t \in st
    BY <1>14 DEF Fewer
  <2>5. Safe(u, tabs, rows, ps, now, t)
    <3>1. PICK S : S = Entry(n)
      OBVIOUS
    <3>2. q \in Seq(S)
      BY <1>8, <3>1
    <3>3. Safe(Tail(q), tabs, rows, ps, now, t)
      BY <1>15, <1>16, <2>1, <2>2, <2>3, <2>4, <3>2, SafeNext
    <3> QED
      BY <1>16, <3>3
  <2>6. Suits(ps, ps, e.op, t)
    BY <1>7 DEF Suits, WritesRow, Deletes
  <2>7. \A p, r : Shown(ps, p, t) /\ Shown(ps, r, t) => p = r
    <3> SUFFICES ASSUME NEW p, NEW r, Shown(ps, p, t), Shown(ps, r, t) PROVE p = r
      OBVIOUS
    <3>1. /\ p \in DOMAIN ps /\ \E v \in ToSet(ps[p].strip) : v.id = t
          /\ r \in DOMAIN ps /\ \E v \in ToSet(ps[r].strip) : v.id = t
      BY IdsOfSet DEF Shown
    <3>2. Once(ps)
      BY <1>6 DEF SInv
    <3> QED
      BY <3>1, <3>2 DEF Once, Apart
  <2>8. t \in now => IsOpen(ps, t)
    BY <1>14 DEF Fewer
  <2>9. PICK S : S = Entry(n) \cup {e}
    OBVIOUS
  <2>10. u \in Seq(S) /\ e \in S
    BY <1>8, <2>9
  <2>11. Safe(u \o <<e>>, tabs, rows, ps, now, t)
    BY <2>5, <2>6, <2>7, <2>8, <2>10, SafeMore
  <2> QED
    BY <1>9, <2>11
<1>18. StoredBefore'
  BY <1>1, <1>3 DEF StoredBefore, PlacesOK, SInv, LoadingOK
<1> QED
  <2>1. panels' = ps /\ nextPanel' = n /\ disk' = d
    BY <1>1, <1>5, <1>6
  <2> QED
    BY <1>6, <1>12, <1>13, <1>15, <1>17, <1>18, <2>1 DEF PlacesOK, AllSafe

-----------------------------------------------------------------------------
(* Together.                                                               *)

\* At first the places of the tabs are those that are stored.
LEMMA InitPlaces ==
  ASSUME SessionsStored, HistoryInit
  PROVE  PlacesOK
<1>1. /\ queue = <<>> /\ panels = <<>> /\ settled = {} /\ disk \in Sessions
  BY DEF HistoryInit, Init
<1>2. DOMAIN queue = {} /\ DOMAIN panels = {} /\ Len(queue) = 0 /\ queue \in Seq({})
  BY <1>1
<1>3. MildQueue(queue, panels, nextPanel) /\ ReadsAside(queue, disk, panels)
  BY <1>2 DEF MildQueue, ReadsAside
<1>4. StoredBefore
  BY <1>1, <1>2 DEF StoredBefore, SessionsStored
<1>5. PICK q, ps, tabs, rows, now, S : /\ q = queue /\ ps = panels /\ now = settled /\ S = {}
                                       /\ tabs = disk.tabs /\ rows = disk.panels
  OBVIOUS
<1>6. Safely(q, tabs, rows, ps, now)
  <2>1. q \in Seq(S) /\ DOMAIN q = {} /\ DOMAIN ps = {} /\ now = {}
    BY <1>1, <1>2, <1>5
  <2>2. \A p, t : ~Shown(ps, p, t) /\ ~IsOpen(ps, t)
    BY <2>1 DEF Shown, IsOpen
  <2> QED
    BY <2>1, <2>2, ReadSafe
<1> QED
  BY <1>3, <1>4, <1>5, <1>6 DEF PlacesOK, AllSafe, Safely

\* Nothing happens.
LEMMA StutterSurvives ==
  ASSUME PlacesOK, UNCHANGED hvars
  PROVE  PlacesOK'
<1>1. UNCHANGED <<disk, queue, phase, panels, nextPanel, settled>>
  BY DEF hvars, vars, process, memory, idVars
<1> QED
  BY <1>1 DEF PlacesOK, AllSafe, StoredBefore

\* An event of the user that moves, opens or closes tabs or panels.
LEMMA UserEventPlaced ==
  ASSUME IInv, IInv', SInv, TabEvent \/ PanelEvent
  PROVE  Placed \/ FlushPendingSaves \/ (Edits /\ UNCHANGED <<phase, nextPanel>>)
<1>1. CASE TabEvent
  <2>1. ASSUME NEW t \in TabId,
               \/ RemoveTab(t) \/ CloseOtherTabs(t)
               \/ CloseTabsToTheRight(t) \/ CloseTabsToTheLeft(t)
        PROVE  Placed
    BY <2>1, CloseEventPlaced
  <2>2. ASSUME NEW t \in TabId, DuplicateTab(t) PROVE Placed
    BY <2>2, DuplicateTabPlaced
  <2>3. ASSUME NEW t \in TabId,
               \/ \E node \in Nodes \cup {NoNode}, c \in Configs : UpdateTab(t, node, c)
               \/ \E c \in Configs : RevertTab(t, c)
               \/ \E s \in SendId : ViewResponseHistoryEntry(t, s)
        PROVE  Edits /\ UNCHANGED <<phase, nextPanel>>
    <3>1. Edits
      BY <2>3, EditEventEdits
    <3>2. UNCHANGED <<phase, nextPanel>>
      BY <2>3 DEF UpdateTab, RevertTab, ViewResponseHistoryEntry, Edit, UserEvent, process, idVars
    <3> QED
      BY <3>1, <3>2
  <2>4. ASSUME NEW t \in TabId, SendRequest(t) \/ CancelRequest(t)
        PROVE  Edits /\ UNCHANGED <<phase, nextPanel>>
    <3>1. Edits
      BY <2>4, SendEventEdits
    <3>2. UNCHANGED <<phase, nextPanel>>
      BY <2>4 DEF SendRequest, CancelRequest, UserEvent, process, idVars
    <3> QED
      BY <3>1, <3>2
  <2>5. ASSUME NEW node \in Nodes, ShowLinkedTab(node) PROVE Placed
    BY <2>5, ShowLinkedTabSession, ShowLinkedTabPlaced
  <2>6. ASSUME NEW node \in Nodes \cup {NoNode}, NEW c \in Configs, AddTab(node, c)
        PROVE  Placed
    BY <2>6, AddTabPlaced
  <2>7. ASSUME ReopenAsLinkedTab PROVE Placed
    BY <2>7, ReopenAsLinkedTabSession, ReopenAsLinkedTabPlaced
  <2>8. ASSUME ReopenClosedTab PROVE Placed
    BY <2>8, ReopenClosedTabPlaced
  <2>9. ASSUME NEW i \in TabId, SetActiveIndex(i) PROVE Placed
    BY <2>9, SetActiveIndexSession, PanelSavedPlaced
  <2> QED
    BY <1>1, <2>1, <2>2, <2>3, <2>4, <2>5, <2>6, <2>7, <2>8, <2>9 DEF TabEvent
<1>2. CASE PanelEvent
  <2>1. ASSUME NEW p \in PanelId, RemovePanel(p) PROVE Placed
    BY <2>1, RemovePanelPlaced
  <2>2. ASSUME NEW p \in PanelId, NEW saved, CloseSavedTabs(p, saved) PROVE Placed
    BY <2>2, CloseEventPlaced
  <2>3. ASSUME NEW p \in PanelId, SetActivePanel(p) PROVE Placed
    BY <2>3, PanelChoicePlaced
  <2>4. ASSUME NEW p \in PanelId, NEW n \in 0..MaxName, RenamePanel(p, n) PROVE Placed
    BY <2>4, RenamePanelSession, PanelSavedPlaced
  <2>5. ASSUME NEW p \in PanelId, NEW i \in TabId, NEW j \in TabId, ReorderTabs(p, i, j)
        PROVE  Placed
    BY <2>5, ReorderTabsSession, PanelSavedPlaced
  <2>6. ASSUME NEW t \in TabId, NEW p \in PanelId, MoveTabToPanel(t, p) PROVE Placed
    BY <2>6, MoveTabToPanelSession, MoveTabToPanelPlaced
  <2>7. ASSUME NEW t \in TabId, MoveTabToNewPanel(t) PROVE Placed
    BY <2>7, MoveTabToNewPanelSession, MoveTabToNewPanelPlaced
  <2>8. ASSUME AddPanel PROVE Placed
    BY <2>8, AddPanelSession, AddPanelPlaced
  <2>9. ASSUME NEW i \in PanelId, NEW j \in PanelId, ReorderPanels(i, j) PROVE Placed
    BY <2>9, PanelChoicePlaced
  <2> QED
    BY <1>2, <2>1, <2>2, <2>3, <2>4, <2>5, <2>6, <2>7, <2>8, <2>9 DEF PanelEvent
<1> QED
  BY <1>1, <1>2

\* What the user does with tabs and panels are events.
LEMMA UserActs ==
  ASSUME TabEvent \/ PanelEvent
  PROVE  UserEvent
<1>1. CASE TabEvent
  <2>1. ASSUME NEW t, NEW node, NEW c, NEW s,
               \/ RemoveTab(t) \/ CloseOtherTabs(t)
               \/ CloseTabsToTheRight(t) \/ CloseTabsToTheLeft(t)
               \/ SendRequest(t) \/ CancelRequest(t)
               \/ UpdateTab(t, node, c) \/ RevertTab(t, c)
               \/ ViewResponseHistoryEntry(t, s) \/ DuplicateTab(t)
               \/ ShowLinkedTab(node) \/ AddTab(node, c) \/ SetActiveIndex(t)
               \/ ReopenAsLinkedTab \/ ReopenClosedTab \/ FlushPendingSaves
        PROVE  UserEvent
    BY <2>1 DEF RemoveTab, CloseOtherTabs, CloseTabsToTheRight, CloseTabsToTheLeft,
                SendRequest, CancelRequest, UpdateTab, RevertTab, ViewResponseHistoryEntry,
                DuplicateTab, ShowLinkedTab, AddTab, SetActiveIndex, ReopenAsLinkedTab,
                ReopenClosedTab, FlushPendingSaves
  <2> QED
    BY <1>1, <2>1 DEF TabEvent
<1>2. CASE PanelEvent
  <2>1. ASSUME NEW p, NEW n, NEW t, NEW i, NEW j, NEW saved,
               \/ RemovePanel(p) \/ CloseSavedTabs(p, saved)
               \/ AddPanel \/ SetActivePanel(p) \/ RenamePanel(p, n)
               \/ ReorderTabs(p, i, j) \/ MoveTabToPanel(t, p)
               \/ ReorderPanels(i, j) \/ MoveTabToNewPanel(t)
        PROVE  UserEvent
    BY <2>1 DEF RemovePanel, CloseSavedTabs, AddPanel, SetActivePanel, RenamePanel,
                ReorderTabs, MoveTabToPanel, ReorderPanels, MoveTabToNewPanel
  <2> QED
    BY <1>2, <2>1 DEF PanelEvent
<1> QED
  BY <1>1, <1>2

\* A command that has failed is not forgotten.
LEMMA FaultsGrow ==
  ASSUME faults \in Nat, [SessionNext]_vars
  PROVE  faults <= faults'
<1>1. UserEvent => faults' = faults
  BY UserEventKeeps
<1>2. CASE TabEvent \/ PanelEvent
  BY <1>1, <1>2, UserActs
<1>3. CASE Answer \/ FlushTimer \/ Start \/ UNCHANGED vars
  <2>1. ASSUME NEW run, ReceiveResponse(run) \/ StopSend(run) \/ DropSend(run)
        PROVE  faults' = faults
    BY <2>1 DEF ReceiveResponse, StopSend, DropSend, Returns, process
  <2>2. FlushTimer \/ Start \/ UNCHANGED vars => faults' = faults
    BY DEF FlushTimer, Start, vars, process
  <2>3. faults' = faults
    BY <1>3, <2>1, <2>2 DEF Answer
  <2> QED
    BY <2>3
<1>4. CASE Worker
  <2>1. ReadPanels \/ RestoreSession \/ SeedSession \/ ExecuteWrite \/ ExecuteMeta
          => faults' = faults
    BY DEF ReadPanels, RestoreSession, SeedSession, ExecuteWrite, ExecuteMeta, process
  <2>2. FailWrite \/ FailLoad => faults' = faults + 1
    BY DEF FailWrite, FailLoad
  <2>3. faults' = faults \/ faults' = faults + 1
    BY <1>4, <2>1, <2>2 DEF Worker, Load
  <2> QED
    BY <2>3
<1> QED
  BY <1>2, <1>3, <1>4 DEF SessionNext

\* The worker goes on, and no command fails.
LEMMA WorkerSurvives ==
  ASSUME IInv, IInv', SInv, TInv, PlacesOK, Worker, Observe, faults' = 0
  PROVE  PlacesOK'
<1>1. faults \in Nat
  BY DEF IInv, ProcessOK
<1>2. ~FailWrite /\ ~FailLoad
  <2>1. FailWrite \/ FailLoad => faults' = faults + 1
    BY DEF FailWrite, FailLoad
  <2>2. faults' # faults + 1
    BY <1>1
  <2> QED
    BY <2>1, <2>2
<1>3. ~SeedSession
  <2> SUFFICES ASSUME SeedSession PROVE FALSE
    OBVIOUS
  <2>1. queue # <<>> /\ Head(queue).op.kind = "getActive" /\ Head(queue).op.found = <<>>
    BY DEF SeedSession, GetActive
  <2>2. 1 \in DOMAIN queue /\ queue[1] = Head(queue)
    BY <2>1, TailMild
  <2> QED
    BY <2>1, <2>2 DEF PlacesOK, ReadsAside
<1> QED
  BY <1>2, <1>3, ReadPanelsSurvives, RestoreSurvives, ExecuteSurvives, MetaSurvives
     DEF Worker, Load

\* Every step of a session in which no command fails keeps the tabs in their
\* places.
LEMMA StepSurvives ==
  ASSUME IInv, IInv', SInv, SInv', TInv, PlacesOK, SessionNext, Observe, faults' = 0
  PROVE  PlacesOK'
<1>1. CASE TabEvent \/ PanelEvent
  BY <1>1, UserEventPlaced, PlacedSurvives, EditsSurvive, FlushSurvives
<1>2. CASE Answer
  <2>1. Edits
    BY <1>2, AnswerEdits
  <2>2. UNCHANGED <<phase, nextPanel>>
    BY <1>2 DEF Answer, ReceiveResponse, StopSend, DropSend, Returns, process, idVars
  <2> QED
    BY <2>1, <2>2, EditsSurvive
<1>3. CASE Worker
  BY <1>3, WorkerSurvives
<1>4. CASE Start \/ FlushTimer
  BY <1>4, StartSurvives, FlushSurvives
<1> QED
  BY <1>1, <1>2, <1>3, <1>4 DEF SessionNext

\* As long as no command has failed, a tab whose place has reached the disk has
\* its row and is listed in that of a panel, on every disk a killed process
\* would leave, until it is closed.
THEOREM SettledTabsDoSurvive ==
  ASSUME SessionsWellKept, SessionsStored
  PROVE  SessionHistorySpec => [](faults = 0 => SettledTabsSurvive)
<1> DEFINE Kept == IInv /\ SInv /\ TInv /\ (faults = 0 => PlacesOK)
<1>1. HistoryInit => Kept
  BY InitOK, InitSession, InitTracked, InitPlaces DEF HistoryInit
<1>2. Kept /\ [SessionNext /\ Observe]_hvars => Kept'
  <2> SUFFICES ASSUME Kept, [SessionNext /\ Observe]_hvars PROVE Kept'
    OBVIOUS
  <2>1. [SessionNext]_vars
    BY DEF hvars
  <2>2. [Next]_vars
    BY <2>1 DEF Next
  <2>3. IInv' /\ SInv' /\ TInv'
    BY <2>1, <2>2, StepOK, StepSession, StepTracked
  <2>4. ASSUME faults' = 0 PROVE PlacesOK'
    <3>1. faults = 0
      BY <2>1, <2>4, FaultsGrow DEF IInv, ProcessOK
    <3>2. PlacesOK
      BY <3>1
    <3>3. CASE SessionNext /\ Observe
      BY <2>3, <2>4, <3>2, <3>3, StepSurvives
    <3>4. CASE UNCHANGED hvars
      BY <3>2, <3>4, StutterSurvives
    <3> QED
      BY <3>3, <3>4
  <2> QED
    BY <2>3, <2>4
<1>3. Kept => (faults = 0 => SettledTabsSurvive)
  <2> SUFFICES ASSUME Kept, faults = 0, NEW t \in settled
               PROVE  t \in DOMAIN disk.tabs /\ ListedOn(disk, t)
    BY DEF SettledTabsSurvive
  <2>1. Safe(queue, disk.tabs, disk.panels, panels, settled, t)
    BY DEF PlacesOK, AllSafe
  <2>2. t \in DOMAIN disk.tabs /\ ListedFrom(queue, disk.panels, t, 0)
    BY <2>1 DEF Safe
  <2>3. Len(queue) \in Nat
    BY DEF IInv
  <2>4. PICK p : RowLists(queue, disk.panels, p, t, 0)
    BY <2>2, <2>3 DEF ListedFrom
  <2>5. HasTab(disk.panels, p, t)
    BY <2>4 DEF RowLists
  <2> QED
    BY <2>2, <2>5 DEF HasTab, ListedOn
<1> QED
  BY <1>1, <1>2, <1>3, PTL DEF SessionHistorySpec

-----------------------------------------------------------------------------
(* What a queue will make of the registers it writes.                      *)

\* A register, and the commands of a queue from 1 to n: those in W write it, and
\* those in R leave it as it should be.  It is so as it stands if 0 is in R; it
\* will be so at the end if the last to write it, or 0 if none does, is in R.
Lasts(n, W, R) == \E j \in 0..n : j \in R /\ \A k \in (j + 1)..n : k \notin W

\* The next step of a handler is about panel p.
Resumes(rest, p) == rest # <<>> /\ Names(Head(rest), p)

\* The row of panel p is that of the panel as it is shown, if it is.
RightRow(rows, ps, p) ==
  IF p \in DOMAIN ps THEN p \in DOMAIN rows /\ rows[p] = RowOf(ps[p])
  ELSE p \notin DOMAIN rows

\* A command makes it so ...
Rewrites(op, ps, p) ==
  IF p \in DOMAIN ps THEN op.kind = "putPanel" /\ op.panel = p /\ op.row = RowOf(ps[p])
  ELSE op.kind = "deletePanel" /\ op.panel = p

\* ... or the next step of a handler will, whenever its turn comes.
Refreshes(rest, ps, p) ==
  /\ Resumes(rest, p)
  /\ Head(rest).kind = IF p \in DOMAIN ps THEN "livePanel" ELSE "deletePanel"

RowWrites(q, p) == {k \in DOMAIN q : WritesRow(q[k].op, p)}

RowRights(q, rows, ps, p) ==
  {j \in 0..Len(q) : IF j = 0 THEN RightRow(rows, ps, p) ELSE Rewrites(q[j].op, ps, p)}

\* The row of panel p will be right once the queue has been worked off.
RowDue(q, rows, ps, p) ==
  \/ \E k \in DOMAIN q : /\ Refreshes(q[k].rest, ps, p)
                         /\ \A i \in DOMAIN q : i > k => ~Resumes(q[i].rest, p)
  \/ /\ \A k \in DOMAIN q : ~Resumes(q[k].rest, p)
     /\ Lasts(Len(q), RowWrites(q, p), RowRights(q, rows, ps, p))

\* A handler is going to write the order of the panels, as it is by then.
HasMeta(rest) == \E i \in DOMAIN rest : rest[i].kind = "meta"

MetaKinds == {"putMeta", "putActive"}

OrderWrites(q) == {k \in DOMAIN q : q[k].op.kind = "putMeta"}
OrderRights(q, now, ord) ==
  {j \in 0..Len(q) : IF j = 0 THEN now = ord
                     ELSE q[j].op.kind = "putMeta" /\ q[j].op.order = ord}

ActiveWrites(q) == {k \in DOMAIN q : q[k].op.kind \in MetaKinds}
ActiveRights(q, now, act) ==
  {j \in 0..Len(q) : IF j = 0 THEN now = act
                     ELSE q[j].op.kind \in MetaKinds /\ q[j].op.active = act}

\* The order of the panels and the active one will be right.
MetaDue(q, ordNow, actNow, ord, act) ==
  \/ \E k \in DOMAIN q : HasMeta(q[k].rest)
  \/ /\ Lasts(Len(q), OrderWrites(q), OrderRights(q, ordNow, ord))
     /\ Lasts(Len(q), ActiveWrites(q), ActiveRights(q, actNow, act))

\* Of what a handler has left only the first step may be about a panel, and
\* nothing follows on a flush.
Brief(rest) ==
  /\ \A i \in DOMAIN rest : i # 1 => rest[i].kind = "meta"
  /\ Flushes(rest) => Len(rest) = 1

BriefQueue(q) == \A k \in DOMAIN q : Brief(q[k].rest)

\* A tab that is not open will have no row.
TabsDue(q, tabs, ps) == \A t : IsOpen(ps, t) \/ Gone(q, tabs, t)

\* A queue that has one command more, one less, or another first one.
Longer(u, q, e) ==
  /\ Len(q) \in Nat /\ DOMAIN q = 1..Len(q)
  /\ Len(u) = Len(q) + 1 /\ DOMAIN u = 1..(Len(q) + 1)
  /\ u[Len(q) + 1] = e /\ \A k \in 1..Len(q) : u[k] = q[k]

Shorter(u, q) ==
  /\ Len(q) \in Nat \ {0} /\ DOMAIN q = 1..Len(q)
  /\ Len(u) = Len(q) - 1 /\ DOMAIN u = 1..(Len(q) - 1)
  /\ \A k \in 1..(Len(q) - 1) : u[k] = q[k + 1]

\* Appending a command makes a longer queue.
LEMMA LongerQueue ==
  ASSUME NEW S, NEW q \in Seq(S), NEW e
  PROVE  Longer(q \o <<e>>, q, e)
<1>1. PICK T : T = S \cup {e}
  OBVIOUS
<1>2. q \in Seq(T) /\ e \in T
  BY <1>1, SequenceOf
<1>3. PICK u : u = q \o <<e>>
  OBVIOUS
<1>4. /\ Len(q) \in Nat /\ DOMAIN q = 1..Len(q)
      /\ Len(u) = Len(q) + 1 /\ DOMAIN u = 1..(Len(q) + 1)
      /\ u[Len(q) + 1] = e /\ \A k \in 1..Len(q) : u[k] = q[k]
  BY <1>2, <1>3
<1> QED
  BY <1>3, <1>4 DEF Longer

\* Taking the first command makes a shorter one.
LEMMA ShorterQueue ==
  ASSUME NEW S, NEW q \in Seq(S), q # <<>>
  PROVE  Shorter(Tail(q), q) /\ Head(q) = q[1] /\ Tail(q) \in Seq(S)
<1>1. PICK u : u = Tail(q)
  OBVIOUS
<1>2. /\ Len(q) \in Nat \ {0} /\ DOMAIN q = 1..Len(q) /\ Head(q) = q[1]
      /\ u \in Seq(S) /\ Len(u) = Len(q) - 1 /\ DOMAIN u = 1..(Len(q) - 1)
      /\ \A k \in DOMAIN u : u[k] = q[k + 1]
  BY <1>1, TailParts
<1>3. Shorter(u, q)
  BY <1>2 DEF Shorter
<1> QED
  BY <1>1, <1>2, <1>3

\* One command more.
LEMMA LastsMore ==
  ASSUME NEW n \in Nat, NEW W, NEW R, NEW V, NEW S,
         \/ n + 1 \in S
         \/ /\ Lasts(n, W, R) /\ n + 1 \notin V
            /\ \A k \in 1..n : k \in V => k \in W
            /\ \A k \in 0..n : k \in R => k \in S
  PROVE  Lasts(n + 1, V, S)
<1>1. CASE n + 1 \in S
  <2>1. n + 1 \in 0..(n + 1) /\ \A k \in ((n + 1) + 1)..(n + 1) : FALSE
    OBVIOUS
  <2> QED
    BY <1>1, <2>1 DEF Lasts
<1>2. CASE /\ Lasts(n, W, R) /\ n + 1 \notin V
           /\ \A k \in 1..n : k \in V => k \in W
           /\ \A k \in 0..n : k \in R => k \in S
  <2>1. PICK j \in 0..n : j \in R /\ \A k \in (j + 1)..n : k \notin W
    BY <1>2 DEF Lasts
  <2>2. j \in 0..(n + 1) /\ j \in S
    BY <1>2, <2>1
  <2>3. ASSUME NEW k \in (j + 1)..(n + 1) PROVE k \notin V
    <3>1. k = n + 1 \/ (k \in (j + 1)..n /\ k \in 1..n)
      OBVIOUS
    <3> QED
      BY <1>2, <2>1, <3>1
  <2> QED
    BY <2>2, <2>3 DEF Lasts
<1> QED
  BY <1>1, <1>2

\* The first command has been executed.
LEMMA LastsNext ==
  ASSUME NEW n \in Nat \ {0}, NEW W, NEW R, NEW V, NEW S, Lasts(n, W, R),
         \A k \in 1..(n - 1) : k \in V => k + 1 \in W,
         \A k \in 1..(n - 1) : k + 1 \in R => k \in S,
         1 \in R => 0 \in S,
         0 \in R /\ 1 \notin W => 0 \in S
  PROVE  Lasts(n - 1, V, S)
<1>1. PICK j \in 0..n : j \in R /\ \A k \in (j + 1)..n : k \notin W
  BY DEF Lasts
<1>2. CASE j = 0
  <2>1. 1 \in (j + 1)..n
    BY <1>2
  <2>2. 0 \in S
    BY <1>1, <1>2, <2>1
  <2>3. ASSUME NEW k \in (0 + 1)..(n - 1) PROVE k \notin V
    <3>1. k \in 1..(n - 1) /\ k + 1 \in (j + 1)..n
      BY <1>2
    <3> QED
      BY <1>1, <3>1
  <2>4. 0 \in 0..(n - 1)
    OBVIOUS
  <2> QED
    BY <2>2, <2>3, <2>4 DEF Lasts
<1>3. CASE j # 0
  <2>1. PICK i : i = j - 1
    OBVIOUS
  <2>2. i \in 0..(n - 1) /\ (i # 0 => i \in 1..(n - 1)) /\ i + 1 = j
    BY <1>3, <2>1
  <2>3. i \in S
    <3>1. i + 1 \in R
      BY <1>1, <2>2
    <3> QED
      BY <2>2, <3>1
  <2>4. ASSUME NEW k \in (i + 1)..(n - 1) PROVE k \notin V
    <3>1. k \in 1..(n - 1) /\ k + 1 \in (j + 1)..n
      BY <2>2
    <3> QED
      BY <1>1, <3>1
  <2> QED
    BY <2>2, <2>3, <2>4 DEF Lasts
<1> QED
  BY <1>2, <1>3

\* The first command, which wrote the register, writes it no more.
LEMMA LastsWritten ==
  ASSUME NEW n \in Nat \ {0}, NEW W, NEW R, NEW V, NEW S, Lasts(n, W, R),
         1 \in W, 1 \notin V, 1 \in R => 0 \in S,
         \A k \in 2..n : (k \in V => k \in W) /\ (k \in R => k \in S)
  PROVE  Lasts(n, V, S)
<1>1. PICK j \in 0..n : j \in R /\ \A k \in (j + 1)..n : k \notin W
  BY DEF Lasts
<1>2. j # 0
  <2>1. 1 \in (0 + 1)..n
    OBVIOUS
  <2> QED
    BY <1>1, <2>1
<1>3. CASE j = 1
  <2>1. 0 \in S /\ 0 \in 0..n
    BY <1>1, <1>3
  <2>2. ASSUME NEW k \in (0 + 1)..n PROVE k \notin V
    <3>1. k = 1 \/ (k \in 2..n /\ k \in (j + 1)..n)
      BY <1>3
    <3> QED
      BY <1>1, <3>1
  <2> QED
    BY <2>1, <2>2 DEF Lasts
<1>4. CASE j # 1
  <2>1. j \in 2..n
    BY <1>2, <1>4
  <2>2. \A k \in (j + 1)..n : k \in 2..n
    BY <2>1
  <2> QED
    BY <1>1, <2>1, <2>2 DEF Lasts
<1> QED
  BY <1>2, <1>3, <1>4

\* The first command is another one, which writes the same.
LEMMA LastsSame ==
  ASSUME NEW n \in Nat, NEW W, NEW R, NEW V, NEW S, Lasts(n, W, R),
         \A k \in 1..n : k \in V => k \in W,
         \A k \in 0..n : k \in R => k \in S
  PROVE  Lasts(n, V, S)
<1>1. PICK j \in 0..n : j \in R /\ \A k \in (j + 1)..n : k \notin W
  BY DEF Lasts
<1>2. \A k \in (j + 1)..n : k \in 1..n
  OBVIOUS
<1> QED
  BY <1>1, <1>2 DEF Lasts


-----------------------------------------------------------------------------
(* The row of a panel, when the queue changes.                             *)

SameRow(ps, qs, p) ==
  /\ p \in DOMAIN ps <=> p \in DOMAIN qs
  /\ p \in DOMAIN ps => RowOf(qs[p]) = RowOf(ps[p])

\* A command and what its handler has left bring the row up to date, or leave
\* alone what need not be.
RowLogged(ps, qs, op, rest, p) ==
  \/ Refreshes(rest, qs, p)
  \/ ~Resumes(rest, p) /\ Rewrites(op, qs, p) /\ (p \in DOMAIN ps => p \in DOMAIN qs)
  \/ ~Resumes(rest, p) /\ ~WritesRow(op, p) /\ SameRow(ps, qs, p)

\* Such a command is sent.
LEMMA RowMore ==
  ASSUME NEW u, NEW q, NEW e, Longer(u, q, e), NEW rows, NEW ps, NEW qs, NEW p,
         RowDue(q, rows, ps, p), RowLogged(ps, qs, e.op, e.rest, p),
         p \in DOMAIN qs \ DOMAIN ps => \A k \in DOMAIN q : ~Resumes(q[k].rest, p)
  PROVE  RowDue(u, rows, qs, p)
<1> DEFINE n == Len(q)
           W == RowWrites(q, p)
           R == RowRights(q, rows, ps, p)
           V == RowWrites(u, p)
           S == RowRights(u, rows, qs, p)
<1>1. /\ n \in Nat /\ DOMAIN q = 1..n /\ Len(u) = n + 1 /\ DOMAIN u = 1..(n + 1)
      /\ u[n + 1] = e /\ \A k \in 1..n : u[k] = q[k]
  BY DEF Longer
<1>2. \A k \in DOMAIN u : (k \in 1..n /\ u[k] = q[k]) \/ (k = n + 1 /\ u[k] = e)
  BY <1>1
<1>3. n + 1 \in DOMAIN u /\ \A k \in 1..n : k \in DOMAIN u
  BY <1>1
<1>4. CASE Refreshes(e.rest, qs, p)
  <2>1. \A i \in DOMAIN u : ~(i > n + 1)
    BY <1>1
  <2> QED
    BY <1>1, <1>3, <1>4, <2>1 DEF RowDue
<1>5. ASSUME ~Resumes(e.rest, p), p \in DOMAIN ps => p \in DOMAIN qs,
             NEW k \in DOMAIN q, Refreshes(q[k].rest, ps, p),
             \A i \in DOMAIN q : i > k => ~Resumes(q[i].rest, p)
      PROVE  RowDue(u, rows, qs, p)
  <2>1. Refreshes(q[k].rest, qs, p)
    BY <1>5 DEF Refreshes
  <2>2. k \in DOMAIN u /\ u[k] = q[k]
    BY <1>1, <1>3
  <2>3. \A i \in DOMAIN u : i > k => ~Resumes(u[i].rest, p)
    BY <1>1, <1>2, <1>5
  <2> QED
    BY <2>1, <2>2, <2>3 DEF RowDue
<1>6. ASSUME ~Resumes(e.rest, p), \A k \in DOMAIN q : ~Resumes(q[k].rest, p),
             Lasts(n, W, R),
             \/ Rewrites(e.op, qs, p)
             \/ ~WritesRow(e.op, p) /\ SameRow(ps, qs, p)
      PROVE  RowDue(u, rows, qs, p)
  <2>1. \A k \in DOMAIN u : ~Resumes(u[k].rest, p)
    BY <1>1, <1>2, <1>6
  <2>2. Rewrites(e.op, qs, p) => n + 1 \in S
    <3>1. n + 1 \in 0..Len(u) /\ n + 1 # 0
      BY <1>1
    <3> QED
      BY <1>1, <3>1 DEF RowRights
  <2>3. ~WritesRow(e.op, p) => n + 1 \notin V
    BY <1>1 DEF RowWrites
  <2>4. \A k \in 1..n : k \in V => k \in W
    BY <1>1 DEF RowWrites
  <2>5. ASSUME SameRow(ps, qs, p), NEW k \in 0..n, k \in R PROVE k \in S
    <3>1. k \in 0..Len(u) /\ (k # 0 => u[k] = q[k])
      BY <1>1
    <3>2. IF k = 0 THEN RightRow(rows, ps, p) ELSE Rewrites(q[k].op, ps, p)
      BY <2>5 DEF RowRights
    <3>3. IF k = 0 THEN RightRow(rows, qs, p) ELSE Rewrites(u[k].op, qs, p)
      BY <2>5, <3>1, <3>2 DEF SameRow, RightRow, Rewrites
    <3> QED
      BY <3>1, <3>3 DEF RowRights
  <2> HIDE DEF W, R, V, S
  <2>6. Lasts(n + 1, V, S)
    BY <1>1, <1>6, <2>2, <2>3, <2>4, <2>5, LastsMore
  <2> QED
    BY <1>1, <2>1, <2>6 DEF RowDue, V, S
<1> HIDE DEF W, R
<1>7. \/ \E k \in DOMAIN q : /\ Refreshes(q[k].rest, ps, p)
                             /\ \A i \in DOMAIN q : i > k => ~Resumes(q[i].rest, p)
      \/ (\A k \in DOMAIN q : ~Resumes(q[k].rest, p)) /\ Lasts(n, W, R)
  BY DEF RowDue, W, R
<1>8. CASE ~Refreshes(e.rest, qs, p)
  <2>1. /\ ~Resumes(e.rest, p) /\ (p \in DOMAIN ps => p \in DOMAIN qs)
        /\ \/ Rewrites(e.op, qs, p)
           \/ ~WritesRow(e.op, p) /\ SameRow(ps, qs, p)
    BY <1>8 DEF RowLogged, SameRow
  <2> QED
    BY <1>5, <1>6, <1>7, <2>1
<1> QED
  BY <1>4, <1>8

\* The first command, whose handler does not go on with the panel, is executed.
LEMMA RowNext ==
  ASSUME NEW u, NEW q, Shorter(u, q), NEW rows, NEW now, NEW ps, NEW p,
         RowDue(q, rows, ps, p), ~Resumes(q[1].rest, p),
         Rewrites(q[1].op, ps, p) => RightRow(now, ps, p),
         ~WritesRow(q[1].op, p) /\ RightRow(rows, ps, p) => RightRow(now, ps, p)
  PROVE  RowDue(u, now, ps, p)
<1> DEFINE n == Len(q)
           W == RowWrites(q, p)
           R == RowRights(q, rows, ps, p)
           V == RowWrites(u, p)
           S == RowRights(u, now, ps, p)
<1>1. /\ n \in Nat \ {0} /\ DOMAIN q = 1..n /\ Len(u) = n - 1 /\ DOMAIN u = 1..(n - 1)
      /\ \A k \in 1..(n - 1) : u[k] = q[k + 1]
  BY DEF Shorter
<1>2. \A k \in 1..(n - 1) : k + 1 \in DOMAIN q
  BY <1>1
<1>3. ASSUME NEW k \in DOMAIN q, Refreshes(q[k].rest, ps, p),
             \A i \in DOMAIN q : i > k => ~Resumes(q[i].rest, p)
      PROVE  RowDue(u, now, ps, p)
  <2>1. k # 1
    BY <1>3 DEF Refreshes
  <2>2. PICK j : j = k - 1
    OBVIOUS
  <2>3. j \in DOMAIN u /\ j + 1 = k
    BY <1>1, <2>1, <2>2
  <2>4. u[j] = q[k]
    BY <1>1, <2>3
  <2>5. \A i \in DOMAIN u : i > j => u[i] = q[i + 1] /\ i + 1 \in DOMAIN q /\ i + 1 > k
    BY <1>1, <2>3
  <2> QED
    BY <1>3, <2>3, <2>4, <2>5 DEF RowDue
<1>4. ASSUME \A k \in DOMAIN q : ~Resumes(q[k].rest, p), Lasts(n, W, R)
      PROVE  RowDue(u, now, ps, p)
  <2>1. \A k \in DOMAIN u : ~Resumes(u[k].rest, p)
    BY <1>1, <1>2, <1>4
  <2>2. \A k \in 1..(n - 1) : k \in V => k + 1 \in W
    BY <1>1, <1>2 DEF RowWrites
  <2>3. ASSUME NEW k \in 1..(n - 1), k + 1 \in R PROVE k \in S
    <3>1. k + 1 # 0 /\ k # 0 /\ k \in 0..Len(u) /\ u[k] = q[k + 1]
      BY <1>1
    <3>2. Rewrites(q[k + 1].op, ps, p)
      BY <2>3, <3>1 DEF RowRights
    <3> QED
      BY <3>1, <3>2 DEF RowRights
  <2>4. RightRow(now, ps, p) => 0 \in S
    <3>1. 0 \in 0..Len(u)
      BY <1>1
    <3> QED
      BY <3>1 DEF RowRights
  <2>5. 1 \in R => Rewrites(q[1].op, ps, p)
    BY DEF RowRights
  <2>6. 0 \in R => RightRow(rows, ps, p)
    BY DEF RowRights
  <2>7. 1 \notin W => ~WritesRow(q[1].op, p)
    <3>1. 1 \in DOMAIN q
      BY <1>1
    <3> QED
      BY <3>1 DEF RowWrites
  <2> HIDE DEF W, R, V, S
  <2>8. Lasts(n - 1, V, S)
    BY <1>1, <1>4, <2>2, <2>3, <2>4, <2>5, <2>6, <2>7, LastsNext
  <2> QED
    BY <1>1, <2>1, <2>8 DEF RowDue, V, S
<1> HIDE DEF W, R
<1>5. \/ \E k \in DOMAIN q : /\ Refreshes(q[k].rest, ps, p)
                             /\ \A i \in DOMAIN q : i > k => ~Resumes(q[i].rest, p)
      \/ (\A k \in DOMAIN q : ~Resumes(q[k].rest, p)) /\ Lasts(n, W, R)
  BY DEF RowDue, W, R
<1> QED
  BY <1>3, <1>4, <1>5

\* Its handler goes on with the panel.
LEMMA RowResumed ==
  ASSUME NEW v, NEW q, Shorter(v, q), NEW u, NEW e, Longer(u, v, e), NEW rows, NEW now,
         NEW ps, NEW p, RowDue(q, rows, ps, p), Resumes(q[1].rest, p), ~Resumes(e.rest, p),
         Refreshes(q[1].rest, ps, p) => Rewrites(e.op, ps, p)
  PROVE  RowDue(u, now, ps, p)
<1> DEFINE n == Len(q)
           V == RowWrites(u, p)
           S == RowRights(u, now, ps, p)
<1>1. /\ n \in Nat \ {0} /\ DOMAIN q = 1..n /\ 1 \in DOMAIN q
      /\ Len(u) = n /\ DOMAIN u = 1..n /\ u[n] = e
      /\ \A k \in 1..(n - 1) : u[k] = q[k + 1]
  BY DEF Shorter, Longer
<1>2. \A k \in DOMAIN u : \/ k = n /\ u[k] = e
                          \/ k \in 1..(n - 1) /\ u[k] = q[k + 1] /\ k + 1 \in DOMAIN q
  BY <1>1
<1>3. PICK k \in DOMAIN q : /\ Refreshes(q[k].rest, ps, p)
                            /\ \A i \in DOMAIN q : i > k => ~Resumes(q[i].rest, p)
  BY <1>1 DEF RowDue
<1>4. CASE k = 1
  <2>1. \A i \in DOMAIN u : ~Resumes(u[i].rest, p)
    <3>1. \A i \in 1..(n - 1) : i + 1 > k
      BY <1>4
    <3> QED
      BY <1>2, <1>3, <3>1
  <2>2. n \in S
    <3>1. n \in 0..Len(u) /\ n # 0 /\ Rewrites(u[n].op, ps, p)
      BY <1>1, <1>3, <1>4
    <3> QED
      BY <3>1 DEF RowRights
  <2> HIDE DEF V, S
  <2>3. Lasts(n, V, S)
    <3>1. n \in 0..n /\ \A i \in (n + 1)..n : FALSE
      BY <1>1
    <3> QED
      BY <2>2, <3>1 DEF Lasts
  <2> QED
    BY <1>1, <2>1, <2>3 DEF RowDue, V, S
<1>5. CASE k # 1
  <2>1. PICK j : j = k - 1
    OBVIOUS
  <2>2. j \in 1..(n - 1) /\ j \in DOMAIN u /\ j + 1 = k
    BY <1>1, <1>5, <2>1
  <2>3. u[j] = q[k]
    BY <1>1, <2>2
  <2>4. \A i \in DOMAIN u : i > j => ~Resumes(u[i].rest, p)
    <3>1. \A i \in 1..(n - 1) : i > j => i + 1 > k
      BY <2>2
    <3> QED
      BY <1>2, <1>3, <3>1
  <2> QED
    BY <1>3, <2>2, <2>3, <2>4 DEF RowDue
<1> QED
  BY <1>4, <1>5

\* A queue with the same commands about the rows of panels, and the same to follow.
SameRows(u, q) ==
  /\ Len(q) \in Nat /\ DOMAIN q = 1..Len(q) /\ Len(u) = Len(q) /\ DOMAIN u = DOMAIN q
  /\ \A k \in DOMAIN q :
       /\ u[k].rest = q[k].rest
       /\ u[k].op = q[k].op \/ {u[k].op.kind, q[k].op.kind} \subseteq MetaKinds

\* Writes of the order and of the active panel are all one to the rows.
LEMMA RowSame ==
  ASSUME NEW u, NEW q, SameRows(u, q), NEW rows, NEW ps, NEW p, RowDue(q, rows, ps, p)
  PROVE  RowDue(u, rows, ps, p)
<1>1. /\ Len(q) \in Nat /\ DOMAIN q = 1..Len(q) /\ Len(u) = Len(q) /\ DOMAIN u = DOMAIN q
      /\ \A k \in DOMAIN q : u[k].rest = q[k].rest
  BY DEF SameRows
<1>2. \A k \in DOMAIN q : /\ WritesRow(u[k].op, p) <=> WritesRow(q[k].op, p)
                          /\ Rewrites(u[k].op, ps, p) <=> Rewrites(q[k].op, ps, p)
  BY DEF SameRows, MetaKinds, WritesRow, Rewrites
<1>3. RowWrites(u, p) = RowWrites(q, p)
  BY <1>1, <1>2 DEF RowWrites
<1>4. RowRights(u, rows, ps, p) = RowRights(q, rows, ps, p)
  <2>1. \A j \in 0..Len(q) : j = 0 \/ j \in DOMAIN q
    BY <1>1
  <2> QED
    BY <1>1, <1>2, <2>1 DEF RowRights
<1> QED
  BY <1>1, <1>3, <1>4 DEF RowDue


-----------------------------------------------------------------------------
(* The order of the panels and the active one, when the queue changes.     *)

\* A command and what its handler has left bring both up to date, or leave alone
\* what need not be.
MetaLogged(op, rest, ord, act, newOrd, newAct) ==
  \/ HasMeta(rest)
  \/ op = PutMeta(newOrd, newAct)
  \/ op.kind \notin MetaKinds /\ newOrd = ord /\ newAct = act

\* Such a command is sent.
LEMMA MetaMore ==
  ASSUME NEW u, NEW q, NEW e, Longer(u, q, e), NEW ordNow, NEW actNow,
         NEW ord, NEW act, NEW newOrd, NEW newAct,
         MetaDue(q, ordNow, actNow, ord, act),
         MetaLogged(e.op, e.rest, ord, act, newOrd, newAct)
  PROVE  MetaDue(u, ordNow, actNow, newOrd, newAct)
<1> DEFINE n == Len(q)
           OW == OrderWrites(q)    OR == OrderRights(q, ordNow, ord)
           AW == ActiveWrites(q)   AR == ActiveRights(q, actNow, act)
           OV == OrderWrites(u)    OS == OrderRights(u, ordNow, newOrd)
           AV == ActiveWrites(u)   AS == ActiveRights(u, actNow, newAct)
<1>1. /\ n \in Nat /\ DOMAIN q = 1..n /\ Len(u) = n + 1 /\ DOMAIN u = 1..(n + 1)
      /\ u[n + 1] = e /\ \A k \in 1..n : u[k] = q[k] /\ k \in DOMAIN u
      /\ n + 1 \in DOMAIN u /\ n + 1 \in 0..Len(u) /\ n + 1 # 0
  BY DEF Longer
<1>2. CASE HasMeta(e.rest)
  BY <1>1, <1>2 DEF MetaDue
<1>3. CASE e.op = PutMeta(newOrd, newAct)
  <2>1. e.op.kind = "putMeta" /\ e.op.order = newOrd /\ e.op.active = newAct
    BY <1>3 DEF PutMeta
  <2>2. n + 1 \in OS /\ n + 1 \in AS
    BY <1>1, <2>1 DEF OrderRights, ActiveRights, MetaKinds
  <2> HIDE DEF OV, OS, AV, AS
  <2>3. Lasts(n + 1, OV, OS) /\ Lasts(n + 1, AV, AS)
    BY <1>1, <2>2, LastsMore
  <2> QED
    BY <1>1, <2>3 DEF MetaDue, OV, OS, AV, AS
<1>4. CASE e.op.kind \notin MetaKinds /\ newOrd = ord /\ newAct = act
  <2>1. CASE \E k \in DOMAIN q : HasMeta(q[k].rest)
    BY <1>1, <2>1 DEF MetaDue
  <2>2. CASE Lasts(n, OW, OR) /\ Lasts(n, AW, AR)
    <3>1. n + 1 \notin OV /\ n + 1 \notin AV
      BY <1>1, <1>4 DEF OrderWrites, ActiveWrites, MetaKinds
    <3>2. \A k \in 1..n : (k \in OV => k \in OW) /\ (k \in AV => k \in AW)
      BY <1>1 DEF OrderWrites, ActiveWrites
    <3>3. \A k \in 0..n : (k \in OR => k \in OS) /\ (k \in AR => k \in AS)
      <4>1. \A k \in 0..n : k \in 0..Len(u) /\ (k # 0 => u[k] = q[k])
        BY <1>1
      <4> QED
        BY <1>4, <4>1 DEF OrderRights, ActiveRights
    <3> HIDE DEF OW, OR, AW, AR, OV, OS, AV, AS
    <3>4. Lasts(n + 1, OV, OS) /\ Lasts(n + 1, AV, AS)
      BY <1>1, <2>2, <3>1, <3>2, <3>3, LastsMore
    <3> QED
      BY <1>1, <3>4 DEF MetaDue, OV, OS, AV, AS
  <2> QED
    BY <2>1, <2>2 DEF MetaDue
<1> QED
  BY <1>2, <1>3, <1>4 DEF MetaLogged

\* The first command, whose handler does not go on to write them, is executed.
LEMMA MetaNext ==
  ASSUME NEW u, NEW q, Shorter(u, q), NEW ordNow, NEW actNow, NEW newAct,
         NEW ord, NEW act, MetaDue(q, ordNow, actNow, ord, act), ~HasMeta(q[1].rest),
         q[1].op.kind # "putMeta",
         newAct = IF q[1].op.kind = "putActive" THEN q[1].op.active ELSE actNow
  PROVE  MetaDue(u, ordNow, newAct, ord, act)
<1> DEFINE n == Len(q)
           OW == OrderWrites(q)    OR == OrderRights(q, ordNow, ord)
           AW == ActiveWrites(q)   AR == ActiveRights(q, actNow, act)
           OV == OrderWrites(u)    OS == OrderRights(u, ordNow, ord)
           AV == ActiveWrites(u)   AS == ActiveRights(u, newAct, act)
<1>1. /\ n \in Nat \ {0} /\ DOMAIN q = 1..n /\ Len(u) = n - 1 /\ DOMAIN u = 1..(n - 1)
      /\ \A k \in 1..(n - 1) : u[k] = q[k + 1]
  BY DEF Shorter
<1>2. 1 \in DOMAIN q /\ 0 \in 0..Len(u)
      /\ \A k \in 1..(n - 1) : k + 1 \in DOMAIN q /\ k + 1 # 0 /\ k # 0 /\ k \in 0..Len(u)
  BY <1>1
<1>3. CASE \E k \in DOMAIN q : HasMeta(q[k].rest)
  <2>1. PICK k \in DOMAIN q : HasMeta(q[k].rest)
    BY <1>3
  <2>2. PICK j : j = k - 1
    OBVIOUS
  <2>3. j \in DOMAIN u /\ j + 1 = k
    BY <1>1, <2>1, <2>2
  <2>4. u[j] = q[k]
    BY <1>1, <2>3
  <2> QED
    BY <2>1, <2>3, <2>4 DEF MetaDue
<1>4. CASE Lasts(n, OW, OR) /\ Lasts(n, AW, AR)
  <2>1. \A k \in 1..(n - 1) : (k \in OV => k + 1 \in OW) /\ (k \in AV => k + 1 \in AW)
    BY <1>1, <1>2 DEF OrderWrites, ActiveWrites
  <2>2. \A k \in 1..(n - 1) : (k + 1 \in OR => k \in OS) /\ (k + 1 \in AR => k \in AS)
    BY <1>1, <1>2 DEF OrderRights, ActiveRights
  <2>3. (1 \in OR => 0 \in OS) /\ (0 \in OR => 0 \in OS)
    BY <1>2 DEF OrderRights
  <2>4. 1 \in AR => 0 \in AS
    BY <1>2 DEF ActiveRights, MetaKinds
  <2>5. 0 \in AR /\ 1 \notin AW => 0 \in AS
    BY <1>2 DEF ActiveRights, ActiveWrites, MetaKinds
  <2> HIDE DEF OW, OR, AW, AR, OV, OS, AV, AS
  <2>6. Lasts(n - 1, OV, OS)
    BY <1>1, <1>4, <2>1, <2>2, <2>3, LastsNext
  <2>7. Lasts(n - 1, AV, AS)
    BY <1>1, <1>4, <2>1, <2>2, <2>4, <2>5, LastsNext
  <2> QED
    BY <1>1, <2>6, <2>7 DEF MetaDue, OV, OS, AV, AS
<1> QED
  BY <1>3, <1>4 DEF MetaDue

\* A handler writes them, or goes on to.
LEMMA MetaResumed ==
  ASSUME NEW u, NEW q, NEW e, Longer(u, q, e), NEW ordNow, NEW actNow, NEW ord, NEW act,
         HasMeta(e.rest) \/ e.op = PutMeta(ord, act)
  PROVE  MetaDue(u, ordNow, actNow, ord, act)
<1> DEFINE n == Len(q)
           OV == OrderWrites(u)    OS == OrderRights(u, ordNow, ord)
           AV == ActiveWrites(u)   AS == ActiveRights(u, actNow, act)
<1>1. /\ n \in Nat /\ Len(u) = n + 1 /\ u[n + 1] = e
      /\ n + 1 \in DOMAIN u /\ n + 1 \in 0..Len(u) /\ n + 1 # 0
  BY DEF Longer
<1>2. CASE HasMeta(e.rest)
  BY <1>1, <1>2 DEF MetaDue
<1>3. CASE e.op = PutMeta(ord, act)
  <2>1. e.op.kind = "putMeta" /\ e.op.order = ord /\ e.op.active = act
    BY <1>3 DEF PutMeta
  <2>2. n + 1 \in OS /\ n + 1 \in AS
    BY <1>1, <2>1 DEF OrderRights, ActiveRights, MetaKinds
  <2> HIDE DEF OV, OS, AV, AS
  <2>3. Lasts(n + 1, OV, OS) /\ Lasts(n + 1, AV, AS)
    BY <1>1, <2>2, LastsMore
  <2> QED
    BY <1>1, <2>3 DEF MetaDue, OV, OS, AV, AS
<1> QED
  BY <1>2, <1>3

\* The order is written: the active panel is still to be.
LEMMA MetaWritten ==
  ASSUME NEW u, NEW q, SameRows(u, q), q # <<>>, 1 \in DOMAIN q, q[1].op.kind = "putMeta",
         u[1].op = PutActive(q[1].op.active), \A k \in 2..Len(q) : u[k] = q[k],
         NEW ordNow, NEW actNow, NEW ord, NEW act, MetaDue(q, ordNow, actNow, ord, act)
  PROVE  MetaDue(u, q[1].op.order, actNow, ord, act)
<1> DEFINE n == Len(q)
           OW == OrderWrites(q)    OR == OrderRights(q, ordNow, ord)
           AW == ActiveWrites(q)   AR == ActiveRights(q, actNow, act)
           OV == OrderWrites(u)    OS == OrderRights(u, q[1].op.order, ord)
           AV == ActiveWrites(u)   AS == ActiveRights(u, actNow, act)
<1>1. /\ n \in Nat \ {0} /\ DOMAIN q = 1..n /\ Len(u) = n /\ DOMAIN u = 1..n
      /\ \A k \in 1..n : u[k].rest = q[k].rest
  BY DEF SameRows
<1>2. u[1].op.kind = "putActive" /\ u[1].op.active = q[1].op.active
  BY DEF PutActive
<1>3. CASE \E k \in DOMAIN q : HasMeta(q[k].rest)
  BY <1>1, <1>3 DEF MetaDue
<1>4. CASE Lasts(n, OW, OR) /\ Lasts(n, AW, AR)
  <2>1. 1 \in OW /\ 1 \notin OV
    BY <1>1, <1>2 DEF OrderWrites
  <2>2. 1 \in OR => 0 \in OS
    BY <1>1 DEF OrderRights
  <2>3. \A k \in 2..n : (k \in OV => k \in OW) /\ (k \in OR => k \in OS)
    BY <1>1 DEF OrderWrites, OrderRights
  <2>4. \A k \in 1..n : k = 1 \/ k \in 2..n
    BY <1>1
  <2>5. \A k \in 1..n : k \in AV => k \in AW
    <3>1. 1 \in AW
      BY <1>1 DEF ActiveWrites, MetaKinds
    <3>2. \A k \in 2..n : k \in AV => k \in AW
      BY <1>1 DEF ActiveWrites
    <3> QED
      BY <2>4, <3>1, <3>2
  <2>6. \A k \in 0..n : k \in AR => k \in AS
    <3>1. 1 \in AR => 1 \in AS
      BY <1>1, <1>2 DEF ActiveRights, MetaKinds
    <3>2. \A k \in 2..n : k \in AR => k \in AS
      BY <1>1 DEF ActiveRights
    <3>3. 0 \in AR => 0 \in AS
      BY <1>1 DEF ActiveRights
    <3>4. \A k \in 0..n : k = 0 \/ k \in 1..n
      BY <1>1
    <3> QED
      BY <2>4, <3>1, <3>2, <3>3, <3>4
  <2> HIDE DEF OW, OR, AW, AR, OV, OS, AV, AS
  <2>7. Lasts(n, OV, OS)
    BY <1>1, <1>4, <2>1, <2>2, <2>3, LastsWritten
  <2>8. Lasts(n, AV, AS)
    BY <1>1, <1>4, <2>5, <2>6, LastsSame
  <2> QED
    BY <1>1, <2>7, <2>8 DEF MetaDue, OV, OS, AV, AS
<1> QED
  BY <1>3, <1>4 DEF MetaDue


-----------------------------------------------------------------------------
(* The invariant about what the disk will be.                              *)

\* Once the queue has been worked off, the disk has the panels that are shown,
\* their order and the active one, and rows of open tabs only.
Due(q, d, ps, ord, act) ==
  /\ BriefQueue(q)
  /\ \A p : RowDue(q, d.panels, ps, p)
  /\ MetaDue(q, d.order, d.active, ord, act)
  /\ TabsDue(q, d.tabs, ps)

DueNow == Due(queue, disk, panels, order, active)

\* The panels that have been read are those that are stored.
ReadsAll(e, d) ==
  e.op.kind = "getActive" =>
    /\ FoundOrder(e.op.found) = d.order
    /\ FoundPanels(e.op.found) = [p \in DOMAIN d.panels |-> StoredPanel(d, p)]

\* A session that is not loaded yet has done nothing but read.
Unloaded ==
  /\ DOMAIN panels = {} /\ order = <<>> /\ ~timer /\ running = {}
  /\ IF phase = "off" THEN queue = <<>> ELSE Len(queue) = 1
  /\ \A k \in DOMAIN queue : Reads(queue[k]) /\ ReadsAll(queue[k], disk)
  /\ Whole(disk) /\ WellKept(disk)

QuietOK ==
  IF phase \in {"off", "loading"} THEN Unloaded
  ELSE phase = "ready" /\ DueNow

-----------------------------------------------------------------------------
(* Events that send one command, or none.                                  *)

\* A command and what its handler has left are what the event needs, which has
\* turned the panels ps into qs.
Logs(e, ps, qs, ord, act, newOrd, newAct) ==
  /\ Brief(e.rest)
  /\ \A p : RowLogged(ps, qs, e.op, e.rest, p)
  /\ MetaLogged(e.op, e.rest, ord, act, newOrd, newAct)
  /\ \A t : Puts(e.op, t) => IsOpen(qs, t)

\* The next step of a handler in the queue is about a panel that has a number.
LEMMA ResumesNumber ==
  ASSUME NEW n, NEW q \in Seq(Entry(n)), NEW ps, MildQueue(q, ps, n), NEW k \in DOMAIN q,
         NEW p, Resumes(q[k].rest, p)
  PROVE  p \in 1..n
<1>1. q[k] \in Entry(n)
  OBVIOUS
<1>2. q[k].rest \in Seq(KnownStep(n)) /\ q[k].rest # <<>>
  BY <1>1 DEF Entry, Steps, Resumes
<1>3. 1 \in DOMAIN q[k].rest /\ Head(q[k].rest) = q[k].rest[1]
  BY <1>2, StepParts
<1>4. InQueue(q, p)
  BY <1>3 DEF Resumes, InQueue, InEntry
<1> QED
  BY <1>4, NamedNumbers

\* Such a command is sent.
LEMMA LogsJoin ==
  ASSUME NEW n, NEW m, NEW q \in Seq(Entry(n)), NEW ps, NEW qs, PanelsGrow(ps, qs, n, m),
         MildQueue(q, ps, n), NEW d, NEW ord, NEW act, NEW newOrd, NEW newAct,
         Due(q, d, ps, ord, act), NEW e, Logs(e, ps, qs, ord, act, newOrd, newAct),
         \A t : Suits(ps, qs, e.op, t), NEW u, Joined(u, q, <<e>>)
  PROVE  Due(u, d, qs, newOrd, newAct)
<1>1. u = q \o <<e>>
  BY DEF Joined
<1>2. Longer(u, q, e)
  BY <1>1, LongerQueue
<1>3. BriefQueue(u)
  <2>1. \A k \in DOMAIN u : (k \in DOMAIN q /\ u[k] = q[k]) \/ u[k] = e
    BY <1>2 DEF Longer
  <2> QED
    BY <2>1 DEF BriefQueue, Due, Logs
<1>4. ASSUME NEW p PROVE RowDue(u, d.panels, qs, p)
  <2>1. p \in DOMAIN qs \ DOMAIN ps => \A k \in DOMAIN q : ~Resumes(q[k].rest, p)
    <3>1. p \in DOMAIN qs \ DOMAIN ps => p \notin 1..n
      BY NumbersGrow DEF PanelsGrow
    <3> QED
      BY <3>1, ResumesNumber
  <2>2. RowDue(q, d.panels, ps, p) /\ RowLogged(ps, qs, e.op, e.rest, p)
    BY DEF Due, Logs
  <2> QED
    BY <1>2, <2>1, <2>2, RowMore
<1>5. MetaDue(u, d.order, d.active, newOrd, newAct)
  BY <1>2, MetaMore DEF Due, Logs
<1>6. ASSUME NEW t, ~IsOpen(qs, t) PROVE Gone(u, d.tabs, t)
  <2>1. PICK T, more : T = Entry(n) \cup {e} /\ more = <<e>>
    OBVIOUS
  <2>2. q \in Seq(T) /\ e \in T /\ more \in Seq(T)
    BY <2>1, SequenceOf
  <2>3. CASE IsOpen(ps, t)
    <3>1. Deletes(e.op, t)
      BY <1>6, <2>3 DEF Suits
    <3> QED
      BY <1>1, <2>2, <3>1, AppendedDelete
  <2>4. CASE ~IsOpen(ps, t)
    <3>1. Gone(q, d.tabs, t)
      BY <2>4 DEF Due, TabsDue
    <3>2. \A k \in DOMAIN more : ~Puts(more[k].op, t)
      BY <1>6, <2>1, OneCommand DEF Logs
    <3> QED
      BY <1>1, <2>1, <2>2, <3>1, <3>2, AppendedCalm
  <2> QED
    BY <2>3, <2>4
<1>7. TabsDue(u, d.tabs, qs)
  BY <1>6 DEF TabsDue
<1> QED
  BY <1>3, <1>4, <1>5, <1>7 DEF Due

\* An event sends one command, which is what it needs.
Logged ==
  /\ UNCHANGED <<disk, phase>>
  /\ PanelsGrow(panels, panels', nextPanel, nextPanel')
  /\ \E e : /\ Joined(queue', queue, <<e>>)
            /\ \A t : Suits(panels, panels', e.op, t)
            /\ Logs(e, panels, panels', order, active, order', active')

\* Such an event leaves the disk due to be what is shown then.
LEMMA LoggedDue ==
  ASSUME IInv, PlacesOK, DueNow, Logged
  PROVE  DueNow'
<1>1. PICK e : /\ Joined(queue', queue, <<e>>)
               /\ \A t : Suits(panels, panels', e.op, t)
               /\ Logs(e, panels, panels', order, active, order', active')
  BY DEF Logged
<1>2. PICK n, m, q, u, ps, qs, d, ord, act, newOrd, newAct :
        /\ n = nextPanel /\ m = nextPanel' /\ q = queue /\ u = queue' /\ ps = panels
        /\ qs = panels' /\ d = disk /\ ord = order /\ act = active
        /\ newOrd = order' /\ newAct = active'
  OBVIOUS
<1>3. /\ q \in Seq(Entry(n)) /\ PanelsGrow(ps, qs, n, m) /\ MildQueue(q, ps, n)
      /\ Due(q, d, ps, ord, act) /\ Logs(e, ps, qs, ord, act, newOrd, newAct)
      /\ \A t : Suits(ps, qs, e.op, t)
      /\ Joined(u, q, <<e>>)
  BY <1>1, <1>2 DEF IInv, PlacesOK, DueNow, Logged
<1>4. Due(u, d, qs, newOrd, newAct)
  BY <1>3, LogsJoin
<1> QED
  BY <1>2, <1>4 DEF DueNow, Logged

\* The panels have changed in nothing that is stored.
SameRowsShown(ps, qs) == DOMAIN qs = DOMAIN ps /\ \A p \in DOMAIN ps : RowOf(qs[p]) = RowOf(ps[p])

\* Nothing is sent, and nothing is to be.
LEMMA IdleDue ==
  ASSUME NEW q, NEW d, NEW ps, NEW qs, NEW ord, NEW act, Due(q, d, ps, ord, act),
         SameRowsShown(ps, qs), \A t : IsOpen(ps, t) => IsOpen(qs, t)
  PROVE  Due(q, d, qs, ord, act)
<1>1. ASSUME NEW p PROVE RowDue(q, d.panels, qs, p)
  <2>1. /\ RightRow(d.panels, qs, p) <=> RightRow(d.panels, ps, p)
        /\ \A op : Rewrites(op, qs, p) <=> Rewrites(op, ps, p)
        /\ \A rest : Refreshes(rest, qs, p) <=> Refreshes(rest, ps, p)
    BY DEF RightRow, Rewrites, Refreshes, SameRowsShown
  <2>2. RowRights(q, d.panels, qs, p) = RowRights(q, d.panels, ps, p)
    BY <2>1 DEF RowRights
  <2>3. RowDue(q, d.panels, ps, p)
    BY DEF Due
  <2> QED
    BY <2>1, <2>2, <2>3 DEF RowDue
<1>2. TabsDue(q, d.tabs, qs)
  BY DEF Due, TabsDue
<1> QED
  BY <1>1, <1>2 DEF Due

\* The command it sends is what it needs.
Logging ==
  \E e : /\ Joined(queue', queue, <<e>>)
         /\ Logs(e, panels, panels', order, active, order', active')

\* An event that leaves every tab in its place.
LEMMA PlacedLogged ==
  ASSUME IInv, Placed, Logging
  PROVE  Logged
<1>1. PICK e : /\ Joined(queue', queue, <<e>>)
               /\ Logs(e, panels, panels', order, active, order', active')
  BY DEF Logging
<1>2. PICK w : /\ Joined(queue', queue, <<w>>)
               /\ \A t : Suits(panels, panels', w.op, t)
  BY DEF Placed, Fitting
<1>3. w = e
  <2>1. PICK S, q : q = queue /\ S = Entry(nextPanel)
    OBVIOUS
  <2>2. q \in Seq(S) /\ q \o <<e>> = q \o <<w>>
    BY <1>1, <1>2, <2>1 DEF Joined, IInv
  <2>3. (q \o <<e>>)[Len(q) + 1] = e /\ (q \o <<w>>)[Len(q) + 1] = w
    BY <2>2, GrownQueue
  <2> QED
    BY <2>2, <2>3
<1> QED
  BY <1>1, <1>2, <1>3 DEF Placed, Logged

\* What an event sends first, and what its handler has left.
LEMMA EventLogs ==
  ASSUME NEW steps, Write(steps), steps # <<>>,
         Head(steps).kind \in {"putTab", "deleteTabs", "putPanel", "meta"},
         NEW op, op = IF Head(steps).kind = "meta" THEN PutMeta(order', active')
                      ELSE Head(steps),
         Brief(Tail(steps)),
         \A p : RowLogged(panels, panels', op, Tail(steps), p),
         MetaLogged(op, Tail(steps), order, active, order', active'),
         \A t : Puts(op, t) => IsOpen(panels', t)
  PROVE  Logging
<1>1. PICK ps, ord, act, first : ps = panels' /\ ord = order' /\ act = active' /\ first = Head(steps)
  OBVIOUS
<1>2. Unfolded(steps, ps, ord) = steps
  BY DEF Unfolded
<1>3. op = Sent(first, ps, ord, act)
  BY <1>1 DEF Sent
<1>4. PICK e : e = [op |-> op, rest |-> Tail(steps)]
  OBVIOUS
<1>5. Issue(steps, ps, ord, act) = <<e>>
  BY <1>1, <1>2, <1>3, <1>4 DEF Issue
<1>6. Joined(queue', queue, <<e>>)
  BY <1>1, <1>5 DEF Write, Joined
<1>7. e.op = op /\ e.rest = Tail(steps)
  BY <1>4
<1>8. Logs(e, panels, panels', order, active, order', active')
  BY <1>7 DEF Logs
<1> QED
  BY <1>6, <1>8 DEF Logging

\* One step, or one and the order of the panels.
LEMMA OneForm ==
  ASSUME NEW a, NEW s, s = <<a>> \/ s = <<a, Meta>>
  PROVE  /\ s # <<>> /\ Head(s) = a /\ Brief(Tail(s))
         /\ \A p : ~Resumes(Tail(s), p)
         /\ s = <<a, Meta>> => HasMeta(Tail(s))
<1>1. PICK b : b = Meta
  OBVIOUS
<1>2. b.kind = "meta"
  BY <1>1 DEF Meta
<1>3. CASE s = <<a>>
  <2>1. s # <<>> /\ Head(s) = a /\ Tail(s) = <<>>
    BY <1>3
  <2>2. s # <<a, b>>
    BY <1>3
  <2>3. PICK r : r = Tail(s)
    OBVIOUS
  <2>4. r = <<>> /\ DOMAIN r = {}
    BY <2>1, <2>3
  <2>5. Brief(r) /\ \A p : ~Resumes(r, p)
    BY <2>4 DEF Brief, Resumes, Flushes
  <2> QED
    BY <1>1, <2>1, <2>2, <2>3, <2>5
<1>4. CASE s = <<a, b>>
  <2>1. s # <<>> /\ Head(s) = a /\ Tail(s) = <<b>>
    BY <1>4
  <2>2. PICK r : r = Tail(s)
    OBVIOUS
  <2>3. r = <<b>> /\ DOMAIN r = {1} /\ r[1] = b /\ Head(r) = b /\ 1 \in DOMAIN r
    <3>1. r = <<b>>
      BY <2>1, <2>2
    <3>2. DOMAIN r = {1} /\ r[1] = b
      BY <3>1, OneCommand
    <3>3. Head(r) = b
      BY <3>1
    <3> QED
      BY <3>1, <3>2, <3>3
  <2>4. Brief(r) /\ \A p : ~Resumes(r, p)
    BY <1>2, <2>3 DEF Brief, Resumes, Flushes, Names
  <2>5. HasMeta(r)
    BY <1>2, <2>3 DEF HasMeta
  <2> QED
    BY <2>1, <2>2, <2>4, <2>5
<1> QED
  BY <1>1, <1>3, <1>4

\* Two steps ...
LEMMA TwoForm ==
  ASSUME NEW a, NEW b, b.kind # "flush", NEW s, s = <<a, b>> \/ s = <<a, b>> \o <<>>
  PROVE  /\ s # <<>> /\ Head(s) = a /\ Tail(s) # <<>> /\ Head(Tail(s)) = b
         /\ Brief(Tail(s))
<1>1. s = <<a, b>>
  <2>1. PICK S : S = {a, b}
    OBVIOUS
  <2>2. <<a, b>> \in Seq(S)
    BY <2>1
  <2> QED
    BY <2>2
<1>2. s # <<>> /\ Head(s) = a /\ Tail(s) = <<b>>
  BY <1>1
<1>3. PICK r : r = Tail(s)
  OBVIOUS
<1>4. r = <<b>> /\ DOMAIN r = {1} /\ r # <<>> /\ Head(r) = b
  BY <1>2, <1>3
<1>5. Brief(r)
  BY <1>4 DEF Brief, Flushes
<1> QED
  BY <1>2, <1>3, <1>4, <1>5

\* ... or three, with the order of the panels.
LEMMA ThreeForm ==
  ASSUME NEW a, NEW b, b.kind # "flush", NEW s, s = <<a, b, Meta>> \/ s = <<a, b>> \o <<Meta>>
  PROVE  /\ s # <<>> /\ Head(s) = a /\ Tail(s) # <<>> /\ Head(Tail(s)) = b
         /\ Brief(Tail(s)) /\ HasMeta(Tail(s))
<1>1. PICK c : c = Meta
  OBVIOUS
<1>2. c.kind = "meta"
  BY <1>1 DEF Meta
<1>3. PICK S : S = {a, b, c}
  OBVIOUS
<1>4. /\ s \in Seq(S) /\ Len(s) = 3 /\ s[1] = a /\ s[2] = b /\ s[3] = c
  <2>1. CASE s = <<a, b, c>>
    BY <1>3, <2>1
  <2>2. CASE s = <<a, b>> \o <<c>>
    <3>1. <<a, b>> \in Seq(S) /\ <<c>> \in Seq(S)
      BY <1>3
    <3> QED
      BY <2>2, <3>1
  <2> QED
    BY <1>1, <2>1, <2>2
<1>5. s # <<>> /\ Head(s) = a
  BY <1>4
<1>6. PICK r : r = Tail(s)
  OBVIOUS
<1>7. r \in Seq(S) /\ Len(r) = 2 /\ r[1] = b /\ r[2] = c
  <2>1. /\ r \in Seq(S) /\ Len(r) = Len(s) - 1 /\ DOMAIN r = 1..(Len(s) - 1)
        /\ \A k \in DOMAIN r : r[k] = s[k + 1]
    BY <1>4, <1>5, <1>6, TailParts
  <2> QED
    BY <1>4, <2>1
<1>8. DOMAIN r = 1..2 /\ r # <<>> /\ Head(r) = b
  BY <1>7
<1>9. Brief(r) /\ HasMeta(r)
  BY <1>2, <1>7, <1>8 DEF Brief, Flushes, HasMeta
<1> QED
  BY <1>5, <1>6, <1>7, <1>8, <1>9

\* A panel is saved: the others are as they were.
LEMMA SavedLogs ==
  ASSUME NEW p \in DOMAIN panels', DOMAIN panels \subseteq DOMAIN panels',
         \A r \in DOMAIN panels' \ {p} : r \in DOMAIN panels /\ panels'[r] = panels[r],
         \/ Write(<<PutPanel(p, RowOf(panels'[p]))>>) /\ UNCHANGED <<order, active>>
         \/ Write(<<PutPanel(p, RowOf(panels'[p])), Meta>>)
  PROVE  Logging
<1>1. PICK qs, op : qs = panels' /\ op = PutPanel(p, RowOf(qs[p]))
  OBVIOUS
<1>2. PICK steps : /\ Write(steps) /\ (steps = <<op>> \/ steps = <<op, Meta>>)
                   /\ steps # <<op, Meta>> => UNCHANGED <<order, active>>
  BY <1>1
<1>3. op.kind = "putPanel" /\ op.panel = p /\ op.row = RowOf(qs[p])
  BY <1>1 DEF PutPanel
<1>4. /\ steps # <<>> /\ Head(steps) = op /\ Brief(Tail(steps))
      /\ \A r : ~Resumes(Tail(steps), r)
      /\ steps = <<op, Meta>> => HasMeta(Tail(steps))
  BY <1>2, OneForm
<1>5. ASSUME NEW r PROVE RowLogged(panels, panels', op, Tail(steps), r)
  <2>1. CASE r = p
    BY <1>1, <1>3, <1>4, <2>1 DEF RowLogged, Rewrites
  <2>2. CASE r # p
    <3>1. ~WritesRow(op, r)
      BY <1>3, <2>2 DEF WritesRow
    <3>2. SameRow(panels, panels', r)
      BY <2>2 DEF SameRow
    <3> QED
      BY <1>4, <3>1, <3>2 DEF RowLogged
  <2> QED
    BY <2>1, <2>2
<1>6. MetaLogged(op, Tail(steps), order, active, order', active')
  BY <1>2, <1>3, <1>4 DEF MetaLogged, MetaKinds
<1>7. \A t : ~Puts(op, t)
  BY <1>3 DEF Puts
<1> QED
  BY <1>2, <1>3, <1>4, <1>5, <1>6, <1>7, EventLogs

\* The order of the panels is written.
LEMMA ChoiceLogs ==
  ASSUME panels' = panels, Write(<<Meta>>)
  PROVE  Logging
<1>1. PICK steps, op : steps = <<Meta>> /\ op = PutMeta(order', active')
  OBVIOUS
<1>2. steps # <<>> /\ Head(steps).kind = "meta" /\ Tail(steps) = <<>>
  BY <1>1 DEF Meta
<1>3. /\ Brief(Tail(steps)) /\ \A r : ~Resumes(Tail(steps), r)
  BY <1>1, OneForm
<1>4. op.kind = "putMeta"
  BY <1>1 DEF PutMeta
<1>5. \A r : RowLogged(panels, panels', op, Tail(steps), r)
  BY <1>3, <1>4 DEF RowLogged, WritesRow, SameRow
<1>6. MetaLogged(op, Tail(steps), order, active, order', active')
  BY <1>1 DEF MetaLogged
<1>7. \A t : ~Puts(op, t)
  BY <1>4 DEF Puts
<1> QED
  BY <1>1, <1>2, <1>3, <1>5, <1>6, <1>7, EventLogs

\* Two steps, or three with the order of the panels, which only then may change.
PairForm(steps, a, b) ==
  \/ (steps = <<a, b>> \/ steps = <<a, b>> \o <<>>) /\ UNCHANGED <<order, active>>
  \/ steps = <<a, b, Meta>> \/ steps = <<a, b>> \o <<Meta>>

\* The row of a panel follows, as the panel is by then, or its deletion.
LEMMA PairLogs ==
  ASSUME NEW a, a.kind \in {"putTab", "deleteTabs", "putPanel"}, NEW b, NEW p, NEW row,
         IF p \in DOMAIN panels' THEN b = LivePanel(p, row) ELSE b = DeletePanel(p),
         \A r : r # p => \/ Rewrites(a, panels', r) /\ r \in DOMAIN panels'
                         \/ ~WritesRow(a, r) /\ SameRow(panels, panels', r),
         \A t : Puts(a, t) => IsOpen(panels', t),
         NEW steps, Write(steps),
         PairForm(steps, a, b)
  PROVE  Logging
<1>1. /\ b.panel = p /\ b.kind \in {"livePanel", "deletePanel"}
      /\ b.kind = IF p \in DOMAIN panels' THEN "livePanel" ELSE "deletePanel"
  BY DEF LivePanel, DeletePanel
<1>2. /\ steps # <<>> /\ Head(steps) = a /\ Tail(steps) # <<>> /\ Head(Tail(steps)) = b
      /\ Brief(Tail(steps))
      /\ HasMeta(Tail(steps)) \/ UNCHANGED <<order, active>>
  <2>1. b.kind # "flush"
    BY <1>1
  <2>2. CASE (steps = <<a, b>> \/ steps = <<a, b>> \o <<>>) /\ UNCHANGED <<order, active>>
    BY <2>1, <2>2, TwoForm
  <2>3. CASE steps = <<a, b, Meta>> \/ steps = <<a, b>> \o <<Meta>>
    BY <2>1, <2>3, ThreeForm
  <2> QED
    BY <2>2, <2>3 DEF PairForm
<1>3. ASSUME NEW r PROVE RowLogged(panels, panels', a, Tail(steps), r)
  <2>1. CASE r = p
    BY <1>1, <1>2, <2>1 DEF RowLogged, Refreshes, Resumes, Names
  <2>2. CASE r # p
    <3>1. ~Resumes(Tail(steps), r)
      BY <1>1, <1>2, <2>2 DEF Resumes, Names
    <3> QED
      BY <2>2, <3>1 DEF RowLogged
  <2> QED
    BY <2>1, <2>2
<1>4. MetaLogged(a, Tail(steps), order, active, order', active')
  BY <1>2 DEF MetaLogged, MetaKinds
<1> QED
  BY <1>2, <1>3, <1>4, EventLogs

-----------------------------------------------------------------------------
(* What each event sends is what it needs.                                 *)

\* The order of the panels and the active one stay, if every panel does.
LEMMA EmitKeeps ==
  ASSUME IInv, NEW ps, Emit(ps, order, active), DOMAIN panels \subseteq DOMAIN ps
  PROVE  UNCHANGED <<order, active>>
<1>1. IF order = <<>> THEN active = NoPanel ELSE active \in DOMAIN panels
  BY DEF IInv, MemoryOK
<1> QED
  BY <1>1 DEF Emit

\* A panel with something new in it.
LEMMA ActivateLogs ==
  ASSUME NEW p \in DOMAIN panels, NEW t, Activate(p, t)
  PROVE  Logging
<1>1. panels' = [panels EXCEPT ![p].active = t]
      /\ Write(<<PutPanel(p, RowOf(panels'[p])), Meta>>)
  BY EmitPanels DEF Activate
<1>2. DOMAIN panels' = DOMAIN panels /\ \A r \in DOMAIN panels \ {p} : panels'[r] = panels[r]
  BY <1>1
<1> QED
  BY <1>1, <1>2, SavedLogs

\* A linked tab is shown.
LEMMA ShowLinkedTabLogs ==
  ASSUME IInv, NEW node, ShowLinkedTab(node)
  PROVE  Logging
<1> DEFINE I == {i \in 1..Len(order) : LinkedPosition(order[i], node) # 0}
           k == SelectInSeq(order, LAMBDA p : LinkedPosition(p, node) # 0)
<1>1. PICK t : k # 0 /\ Activate(order[k], t)
  BY DEF ShowLinkedTab
<1>2. k = IF I # {} THEN Min(I) ELSE 0
  BY DEF SelectInSeq
<1>3. I \in SUBSET Nat /\ DOMAIN order = 1..Len(order)
  BY OrderFacts
<1>4. k \in I
  BY <1>1, <1>2, <1>3, MinIsLeast
<1> HIDE DEF k
<1>5. order[k] \in DOMAIN panels
  BY <1>3, <1>4, OrderFacts
<1> QED
  BY <1>1, <1>5, ActivateLogs

\* So does reopening a tab whose node another tab shows.
LEMMA ReopenAsLinkedTabLogs ==
  ASSUME IInv, ReopenAsLinkedTab
  PROVE  Logging
<1> DEFINE I == {i \in 1..Len(order) : SameAsClosed(order[i], Last(closed).tab)}
           k == SelectInSeq(order, LAMBDA p : SameAsClosed(p, Last(closed).tab))
<1>1. PICK t : k # 0 /\ Activate(order[k], t)
  BY DEF ReopenAsLinkedTab
<1>2. k = IF I # {} THEN Min(I) ELSE 0
  BY DEF SelectInSeq
<1>3. I \in SUBSET Nat /\ DOMAIN order = 1..Len(order)
  BY OrderFacts
<1>4. k \in I
  BY <1>1, <1>2, <1>3, MinIsLeast
<1> HIDE DEF k
<1>5. order[k] \in DOMAIN panels
  BY <1>3, <1>4, OrderFacts
<1> QED
  BY <1>1, <1>5, ActivateLogs

\* A tab is chosen or dragged, or a panel gets a name.
LEMMA PanelSavedLogs ==
  ASSUME IInv,
         \/ \E i : SetActiveIndex(i)
         \/ \E p, i, j : ReorderTabs(p, i, j)
         \/ \E p, name : RenamePanel(p, name)
  PROVE  Logging
<1> DEFINE Saved(p) == /\ p \in DOMAIN panels /\ DOMAIN panels' = DOMAIN panels
                       /\ UNCHANGED <<order, active>>
                       /\ \A r \in DOMAIN panels \ {p} : panels'[r] = panels[r]
                       /\ Write(<<PutPanel(p, RowOf(panels'[p]))>>)
<1>1. \E p : Saved(p)
  <2>1. ASSUME NEW i, SetActiveIndex(i) PROVE \E q : Saved(q)
    <3>1. PICK p, ps, t : /\ p = ActivePanel /\ t = panels[p].strip[i].id
                          /\ ps = [panels EXCEPT ![p].active = t]
      OBVIOUS
    <3>2. Emit(ps, order, active) /\ Write(<<PutPanel(p, RowOf(panels'[p]))>>)
      BY <2>1, <3>1 DEF SetActiveIndex
    <3>3. p \in DOMAIN panels
      BY <2>1, <3>1, OrderFacts DEF SetActiveIndex
    <3>4. /\ DOMAIN ps = DOMAIN panels
          /\ \A r \in DOMAIN panels \ {p} : ps[r] = panels[r]
      BY <3>1
    <3>5. panels' = ps /\ UNCHANGED <<order, active>>
      BY <3>2, <3>4, EmitKeeps, EmitPanels
    <3> QED
      BY <3>2, <3>3, <3>4, <3>5
  <2>2. ASSUME NEW p, NEW i, NEW j, ReorderTabs(p, i, j) PROVE \E q : Saved(q)
    <3>1. PICK ps : ps = [panels EXCEPT ![p].strip = Moved(@, i, j)]
      OBVIOUS
    <3>2. /\ Emit(ps, order, active) /\ Write(<<PutPanel(p, RowOf(panels'[p]))>>)
          /\ p \in DOMAIN panels
      BY <2>2, <3>1 DEF ReorderTabs
    <3>3. /\ DOMAIN ps = DOMAIN panels
          /\ \A r \in DOMAIN panels \ {p} : ps[r] = panels[r]
      BY <3>1
    <3>4. panels' = ps /\ UNCHANGED <<order, active>>
      BY <3>2, <3>3, EmitKeeps, EmitPanels
    <3> QED
      BY <3>2, <3>3, <3>4
  <2>3. ASSUME NEW p, NEW name, RenamePanel(p, name) PROVE \E q : Saved(q)
    <3>1. PICK ps, n : /\ n = IF name = 0 THEN NextName(p) ELSE name
                       /\ ps = [panels EXCEPT ![p].name = n]
      OBVIOUS
    <3>2. /\ Emit(ps, order, active) /\ Write(<<PutPanel(p, RowOf(panels'[p]))>>)
          /\ p \in DOMAIN panels
      BY <2>3, <3>1 DEF RenamePanel
    <3>3. /\ DOMAIN ps = DOMAIN panels
          /\ \A r \in DOMAIN panels \ {p} : ps[r] = panels[r]
      BY <3>1
    <3>4. panels' = ps /\ UNCHANGED <<order, active>>
      BY <3>2, <3>3, EmitKeeps, EmitPanels
    <3> QED
      BY <3>2, <3>3, <3>4
  <2> QED
    BY <2>1, <2>2, <2>3
<1> QED
  BY <1>1, SavedLogs

\* Panels are chosen or sorted.
LEMMA PanelChoiceLogs ==
  ASSUME (\E p : SetActivePanel(p)) \/ (\E i, j : ReorderPanels(i, j))
  PROVE  Logging
<1>1. panels' = panels /\ Write(<<Meta>>)
  BY DEF SetActivePanel, ReorderPanels, Emit
<1> QED
  BY <1>1, ChoiceLogs

\* A panel is added.
LEMMA AddPanelLogs ==
  ASSUME IInv, AddPanel
  PROVE  Logging
<1>1. PICK q, panel : q = nextPanel + 1 /\ panels' = Put(panels, q, panel)
  BY EmitPanels DEF AddPanel
<1>2. nextPanel' = q /\ Write(<<PutPanel(q, RowOf(panels'[q])), Meta>>)
  BY <1>1 DEF AddPanel
<1>3. /\ q \in DOMAIN panels'
      /\ \A r \in DOMAIN panels' \ {q} : r \in DOMAIN panels /\ panels'[r] = panels[r]
  BY <1>1, <1>2, NewPanel
<1>4. DOMAIN panels \subseteq DOMAIN panels'
  BY <1>1 DEF Put
<1> QED
  BY <1>2, <1>3, <1>4, SavedLogs

\* A panel that loses a tab is the only one that changes.
LEMMA DetachedElse ==
  ASSUME NEW ps, NEW p, NEW i, NEW qs, qs = Detached(ps, p, i)
  PROVE  DOMAIN qs = DOMAIN ps /\ \A r \in DOMAIN ps \ {p} : qs[r] = ps[r]
BY DEF Detached

\* A tab moves to another panel.
LEMMA MoveTabToPanelLogs ==
  ASSUME IInv, NEW t, NEW q, MoveTabToPanel(t, q)
  PROVE  Logging
<1>1. PICK p, i : p = Owner(panels, order, t) /\ i = Position(panels[p].strip, t)
  OBVIOUS
<1>2. PICK ps, tab : ps = Detached(panels, p, i) /\ tab = panels[p].strip[i]
  OBVIOUS
<1>3. PICK qs : qs = [ps EXCEPT ![q].strip = Append(@, tab),
                                ![q].active = IF panels[q].strip = <<>> THEN t ELSE @]
  OBVIOUS
<1>4. /\ q \in DOMAIN panels /\ IsOpen(panels, t) /\ p # q /\ Emit(qs, order, active)
      /\ Write(MoveWrites(q, RowOf(panels'[q]), p, RowOf(panels'[p])))
  BY <1>1, <1>2, <1>3 DEF MoveTabToPanel
<1>5. p \in DOMAIN panels
  BY <1>1, <1>4, OwnerProperties DEF IInv, MemoryOK
<1>6. DOMAIN ps = DOMAIN panels /\ \A r \in DOMAIN panels \ {p} : ps[r] = panels[r]
  BY <1>2, DetachedElse
<1>7. DOMAIN qs = DOMAIN panels /\ \A r \in DOMAIN panels \ {p, q} : qs[r] = panels[r]
  BY <1>3, <1>6
<1>8. panels' = qs /\ UNCHANGED <<order, active>>
  BY <1>4, <1>7, EmitKeeps, EmitPanels
<1>9. PICK a, b, row, steps :
        /\ a = PutPanel(q, RowOf(panels'[q])) /\ row = RowOf(panels'[p])
        /\ b = LivePanel(p, row) /\ steps = <<a, b>> /\ Write(steps)
  BY <1>4 DEF MoveWrites
<1>10. a.kind = "putPanel" /\ a.panel = q /\ a.row = RowOf(panels'[q])
  BY <1>9 DEF PutPanel
<1>11. ASSUME NEW r, r # p
       PROVE  \/ Rewrites(a, panels', r) /\ r \in DOMAIN panels'
              \/ ~WritesRow(a, r) /\ SameRow(panels, panels', r)
  <2>1. CASE r = q
    BY <1>4, <1>7, <1>8, <1>10, <2>1 DEF Rewrites
  <2>2. CASE r # q
    BY <1>7, <1>8, <1>10, <1>11, <2>2 DEF WritesRow, SameRow
  <2> QED
    BY <2>1, <2>2
<1>12. IF p \in DOMAIN panels' THEN b = LivePanel(p, row) ELSE b = DeletePanel(p)
  BY <1>5, <1>7, <1>8, <1>9
<1>13. \A u : ~Puts(a, u)
  BY <1>10 DEF Puts
<1>14. PairForm(steps, a, b)
  BY <1>8, <1>9 DEF PairForm
<1> QED
  BY <1>9, <1>10, <1>11, <1>12, <1>13, <1>14, PairLogs

\* A tab gets a panel of its own.
LEMMA MoveTabToNewPanelLogs ==
  ASSUME IInv, NEW t, MoveTabToNewPanel(t)
  PROVE  Logging
<1>1. PICK p, i, q : /\ p = Owner(panels, order, t) /\ i = Position(panels[p].strip, t)
                     /\ q = nextPanel + 1
  OBVIOUS
<1>2. PICK ps, panel : /\ ps = Detached(panels, p, i)
                       /\ panel = [name |-> NextName(NoPanel),
                                   strip |-> <<panels[p].strip[i]>>, active |-> t]
  OBVIOUS
<1>3. /\ IsOpen(panels, t) /\ nextPanel' = q
      /\ Emit(Put(ps, q, panel), Append(order, q), active)
      /\ Write(MoveWrites(q, RowOf(panels'[q]), p, RowOf(panels'[p])) \o <<Meta>>)
  BY <1>1, <1>2 DEF MoveTabToNewPanel
<1>4. p \in DOMAIN panels
  BY <1>1, <1>3, OwnerProperties DEF IInv, MemoryOK
<1>5. DOMAIN ps = DOMAIN panels /\ \A r \in DOMAIN panels \ {p} : ps[r] = panels[r]
  BY <1>2, DetachedElse
<1>6. panels' = Put(ps, q, panel)
  BY <1>3, EmitPanels
<1>7. /\ q \in DOMAIN panels' /\ q \notin DOMAIN panels
      /\ \A r \in DOMAIN panels' \ {q} : r \in DOMAIN panels /\ panels'[r] = ps[r]
  BY <1>1, <1>3, <1>5, <1>6, NewPanel
<1>8. DOMAIN panels' = DOMAIN panels \cup {q}
  BY <1>5, <1>6 DEF Put
<1>9. PICK a, b, row, steps :
        /\ a = PutPanel(q, RowOf(panels'[q])) /\ row = RowOf(panels'[p])
        /\ b = LivePanel(p, row) /\ steps = <<a, b>> \o <<Meta>> /\ Write(steps)
  BY <1>3 DEF MoveWrites
<1>10. a.kind = "putPanel" /\ a.panel = q /\ a.row = RowOf(panels'[q])
  BY <1>9 DEF PutPanel
<1>11. ASSUME NEW r, r # p
       PROVE  \/ Rewrites(a, panels', r) /\ r \in DOMAIN panels'
              \/ ~WritesRow(a, r) /\ SameRow(panels, panels', r)
  <2>1. CASE r = q
    BY <1>7, <1>10, <2>1 DEF Rewrites
  <2>2. CASE r # q
    <3>1. ~WritesRow(a, r)
      BY <1>10, <2>2 DEF WritesRow
    <3>2. r \in DOMAIN panels' <=> r \in DOMAIN panels
      BY <1>8, <2>2
    <3>3. r \in DOMAIN panels => panels'[r] = panels[r]
      BY <1>5, <1>7, <1>11, <2>2, <3>2
    <3> QED
      BY <3>1, <3>2, <3>3 DEF SameRow
  <2> QED
    BY <2>1, <2>2
<1>12. IF p \in DOMAIN panels' THEN b = LivePanel(p, row) ELSE b = DeletePanel(p)
  BY <1>4, <1>8, <1>9
<1>13. \A u : ~Puts(a, u)
  BY <1>10 DEF Puts
<1>14. PairForm(steps, a, b)
  BY <1>9, Zenon DEF PairForm
<1> QED
  BY <1>9, <1>10, <1>11, <1>12, <1>13, <1>14, PairLogs

\* A tab is opened.
LEMMA OpenTabLogs ==
  ASSUME IInv, SInv, NEW p \in DOMAIN panels, NEW i \in 1..(Len(panels[p].strip) + 1),
         NEW tab \in Tab, NEW act, NEW more, OpenTab(p, i, tab, act, more), Fresh(tab),
         (more = <<>> /\ act = active) \/ more = <<Meta>>
  PROVE  Logging
<1>1. ~IsOpen(panels, tab.id)
  BY FreshNotOpen
<1>2. IsBox(panels, PanelId, Panel) /\ Once(panels)
  BY SessionTypes DEF SInv
<1>3. PICK qs : qs = Opened(panels, p, i, tab)
  OBVIOUS
<1>4. /\ DOMAIN qs = DOMAIN panels
      /\ \A r \in DOMAIN panels \ {p} : qs[r] = panels[r]
      /\ tab.id \in Ids(qs[p].strip)
  <2>1. Gains(panels, qs, p, tab.id)
    BY <1>1, <1>2, <1>3, OpenedShown
  <2> QED
    BY <2>1 DEF Gains
<1>5. Emit(qs, order, act) /\ Write(<<PutTab(tab), LivePanel(p, RowOf(panels'[p]))>> \o more)
  BY <1>3 DEF OpenTab
<1>6. panels' = qs
  BY <1>5, EmitPanels
<1>7. more = <<>> => UNCHANGED <<order, active>>
  <2>1. CASE act = active
    BY <1>4, <1>5, <2>1, EmitKeeps
  <2>2. CASE more = <<Meta>>
    <3>1. PICK c : c = Meta
      OBVIOUS
    <3>2. <<c>> # <<>>
      OBVIOUS
    <3> QED
      BY <2>2, <3>1, <3>2
  <2> QED
    BY <2>1, <2>2
<1>8. PICK a, b, row, steps :
        /\ a = PutTab(tab) /\ row = RowOf(panels'[p]) /\ b = LivePanel(p, row)
        /\ steps = <<a, b>> \o more /\ Write(steps)
  BY <1>5
<1>9. a.kind = "putTab" /\ a.tab = tab
  BY <1>8 DEF PutTab
<1>10. \A r : r # p => ~WritesRow(a, r) /\ SameRow(panels, panels', r)
  BY <1>4, <1>6, <1>9 DEF WritesRow, SameRow
<1>11. \A t : Puts(a, t) => IsOpen(panels', t)
  BY <1>4, <1>6, <1>9 DEF Puts, IsOpen
<1>12. IF p \in DOMAIN panels' THEN b = LivePanel(p, row) ELSE b = DeletePanel(p)
  BY <1>4, <1>6, <1>8
<1>13. PairForm(steps, a, b)
  BY <1>7, <1>8, Zenon DEF PairForm
<1> QED
  BY <1>8, <1>9, <1>10, <1>11, <1>12, <1>13, PairLogs

\* AddTab opens a new tab ...
LEMMA AddTabLogs ==
  ASSUME IInv, SInv, NEW node \in Nodes \cup {NoNode}, NEW config \in Configs,
         AddTab(node, config)
  PROVE  Logging
<1> DEFINE p == ActivePanel
           i == Len(panels[p].strip) + 1
           new == NewTab(node, config)
<1>1. /\ UserEvent /\ order # <<>> /\ nextTab < MaxTabs
      /\ OpenTab(p, i, new, active, <<>>)
      /\ nextTab' = nextTab + 1 /\ closed' = closed /\ nextPanel' = nextPanel
  BY DEF AddTab
<1>2. p \in DOMAIN panels
  BY <1>1, OrderFacts
<1> HIDE DEF p
<1>3. i \in 1..(Len(panels[p].strip) + 1)
  BY <1>2, PanelFacts
<1>4. new \in Tab /\ new.id = nextTab + 1
  BY <1>1, NewTabType DEF NewTab
<1> HIDE DEF i, new
<1>5. Fresh(new)
  BY <1>1, <1>4 DEF Fresh
<1> QED
  BY <1>1, <1>2, <1>3, <1>4, <1>5, OpenTabLogs
\* ... DuplicateTab one with the content of another ...
LEMMA DuplicateTabLogs ==
  ASSUME IInv, SInv, NEW t \in TabId, DuplicateTab(t)
  PROVE  Logging
<1> DEFINE p     == ActivePanel
           strip == panels[p].strip
           i     == Position(strip, t)
           new   == NewTab(NoNode, strip[i].config)
<1>1. /\ UserEvent /\ order # <<>> /\ i # 0 /\ nextTab < MaxTabs
      /\ OpenTab(p, i + 1, new, active, <<>>)
      /\ nextTab' = nextTab + 1 /\ closed' = closed /\ nextPanel' = nextPanel
  BY DEF DuplicateTab
<1>2. p \in DOMAIN panels
  BY <1>1, OrderFacts
<1> HIDE DEF p
<1>3. strip \in Seq(Tab) /\ Len(strip) \in Nat
  BY <1>2, PanelFacts
<1>4. i \in 1..Len(strip)
  BY <1>1, <1>3, PositionProperties
<1>5. strip[i].config \in Configs
  BY <1>3, <1>4, TabParts
<1>6. new \in Tab /\ new.id = nextTab + 1
  BY <1>1, <1>5, NewTabType DEF NewTab
<1>7. i + 1 \in 1..(Len(strip) + 1)
  BY <1>3, <1>4
<1> HIDE DEF i, new
<1>8. Fresh(new)
  BY <1>1, <1>6 DEF Fresh
<1> QED
  BY <1>1, <1>2, <1>6, <1>7, <1>8, OpenTabLogs
\* ... and ReopenClosedTab the one that was closed last.
LEMMA ReopenClosedTabLogs ==
  ASSUME IInv, SInv, ReopenClosedTab
  PROVE  Logging
<1> DEFINE was == Last(closed)
           p   == IF was.panel \in DOMAIN panels THEN was.panel ELSE ActivePanel
           end == Len(panels[p].strip) + 1
           i   == IF was.index < end THEN was.index ELSE end
<1>1. /\ UserEvent /\ closed # <<>> /\ order # <<>>
      /\ closed' = Front(closed)
      /\ OpenTab(p, i, was.tab, p, <<Meta>>)
      /\ nextTab' = nextTab /\ nextPanel' = nextPanel
  BY DEF ReopenClosedTab, idVars
<1>2. was.tab \in Tab /\ was.index \in Nat \ {0}
  BY <1>1, PopClosed
<1>3. p \in DOMAIN panels
  BY <1>1, OrderFacts
<1> HIDE DEF p
<1>4. Len(panels[p].strip) \in Nat
  BY <1>3, PanelFacts
<1>5. i \in 1..(Len(panels[p].strip) + 1)
  BY <1>2, <1>4
<1>6. Fresh(was.tab)
  BY <1>1 DEF Fresh
<1> HIDE DEF i, was
<1> QED
  BY <1>1, <1>2, <1>3, <1>5, <1>6, OpenTabLogs
\* Tabs of a panel are closed.
LEMMA CloseTabsLogs ==
  ASSUME IInv, NEW p \in DOMAIN panels, NEW K, NEW act, CloseTabs(p, K, act)
  PROVE  Logging
<1>1. PICK kept, gone :
        /\ kept = Selected(panels[p].strip, DOMAIN panels[p].strip \ K)
        /\ gone = Ids(Selected(panels[p].strip, K))
  OBVIOUS
<1>2. PICK qs : qs = [panels EXCEPT ![p].strip = kept, ![p].active = act]
  OBVIOUS
<1>3. /\ Emit(qs, order, active)
      /\ Write(CloseWrites(p, gone, RowOf(panels'[p])))
  BY <1>1, <1>2 DEF CloseTabs
<1>4. DOMAIN qs = DOMAIN panels /\ \A r \in DOMAIN panels \ {p} : qs[r] = panels[r]
  BY <1>2
<1>5. panels' = qs /\ UNCHANGED <<order, active>>
  BY <1>3, <1>4, EmitKeeps, EmitPanels
<1>6. PICK a, b, row, steps :
        /\ a = DeleteTabs(gone) /\ row = RowOf(panels'[p])
        /\ b = LivePanel(p, row) /\ steps = <<a, b>> /\ Write(steps)
  BY <1>3 DEF CloseWrites
<1>7. a.kind = "deleteTabs"
  BY <1>6 DEF DeleteTabs
<1>8. \A r : r # p => ~WritesRow(a, r) /\ SameRow(panels, panels', r)
  BY <1>4, <1>5, <1>7 DEF WritesRow, SameRow
<1>9. \A u : ~Puts(a, u)
  BY <1>7 DEF Puts
<1>10. IF p \in DOMAIN panels' THEN b = LivePanel(p, row) ELSE b = DeletePanel(p)
  BY <1>4, <1>5, <1>6
<1>11. PairForm(steps, a, b)
  BY <1>5, <1>6 DEF PairForm
<1> QED
  BY <1>6, <1>7, <1>8, <1>9, <1>10, <1>11, PairLogs

\* The events that close tabs of one panel.
LEMMA CloseEventLogs ==
  ASSUME IInv, SInv,
         \/ \E t \in TabId : \/ RemoveTab(t) \/ CloseOtherTabs(t)
                             \/ CloseTabsToTheRight(t) \/ CloseTabsToTheLeft(t)
         \/ \E p, saved : CloseSavedTabs(p, saved)
  PROVE  Logging
<1> DEFINE Strip(p) == panels[p].strip
<1>1. \E p \in DOMAIN panels : \E act : \E K \in SUBSET DOMAIN Strip(p) :
        UserEvent /\ CloseTabs(p, K, act)
  <2>1. ASSUME NEW t \in TabId, RemoveTab(t)
        PROVE  \E p \in DOMAIN panels : \E act : \E K \in SUBSET DOMAIN Strip(p) :
                 UserEvent /\ CloseTabs(p, K, act)
    <3>1. PICK p, i : p = Owner(panels, order, t) /\ i = Position(panels[p].strip, t)
      OBVIOUS
    <3>2. PICK act : UserEvent /\ IsOpen(panels, t) /\ CloseTabs(p, {i}, act)
      BY <2>1, <3>1 DEF RemoveTab
    <3>3. p \in DOMAIN panels /\ i \in 1..Len(panels[p].strip)
      BY <3>1, <3>2, OwnerProperties DEF IInv, MemoryOK
    <3>4. {i} \in SUBSET DOMAIN Strip(p)
      BY <3>3, PanelFacts
    <3> QED
      BY <3>2, <3>3, <3>4
  <2>2. ASSUME NEW t \in TabId,
               CloseOtherTabs(t) \/ CloseTabsToTheRight(t) \/ CloseTabsToTheLeft(t)
        PROVE  \E p \in DOMAIN panels : \E act : \E K \in SUBSET DOMAIN Strip(p) :
                 UserEvent /\ CloseTabs(p, K, act)
    <3>1. PICK p, s, i : p = ActivePanel /\ s = panels[p].strip /\ i = Position(s, t)
      OBVIOUS
    <3>2. PICK K, act :
            /\ K \in {DOMAIN s \ {i}, (i + 1)..Len(s), 1..(i - 1)}
            /\ UserEvent /\ order # <<>> /\ i # 0 /\ CloseTabs(p, K, act)
      <4>1. CASE CloseOtherTabs(t)
        BY <3>1, <4>1 DEF CloseOtherTabs
      <4>2. CASE CloseTabsToTheRight(t)
        BY <3>1, <4>2 DEF CloseTabsToTheRight
      <4>3. CASE CloseTabsToTheLeft(t)
        BY <3>1, <4>3 DEF CloseTabsToTheLeft
      <4> QED
        BY <2>2, <4>1, <4>2, <4>3
    <3>3. p \in DOMAIN panels
      BY <3>1, <3>2, OrderFacts
    <3>4. s \in Seq(Tab) /\ DOMAIN s = 1..Len(s) /\ Len(s) \in Nat
      BY <3>1, <3>3, PanelFacts
    <3>5. i \in DOMAIN s
      BY <3>1, <3>2, <3>4, PositionProperties
    <3>6. K \in SUBSET DOMAIN Strip(p)
      BY <3>1, <3>2, <3>4, <3>5
    <3> QED
      BY <3>2, <3>3, <3>6
  <2>3. ASSUME NEW p, NEW saved, CloseSavedTabs(p, saved)
        PROVE  \E q \in DOMAIN panels : \E act : \E K \in SUBSET DOMAIN Strip(q) :
                 UserEvent /\ CloseTabs(q, K, act)
    <3>1. PICK K : K = {i \in DOMAIN Strip(p) : ~HasUnsavedChanges(panels[p].strip[i], saved)}
      OBVIOUS
    <3>2. PICK act : UserEvent /\ p \in DOMAIN panels /\ CloseTabs(p, K, act)
      BY <2>3, <3>1 DEF CloseSavedTabs
    <3>3. K \in SUBSET DOMAIN Strip(p)
      BY <3>1
    <3> QED
      BY <3>2, <3>3
  <2> QED
    BY <2>1, <2>2, <2>3
<1> QED
  BY <1>1, CloseTabsLogs
\* A panel is closed, with its tabs.
LEMMA RemovePanelLogs ==
  ASSUME NEW p, RemovePanel(p)
  PROVE  Logging
<1>1. PICK gone : gone = Ids(panels[p].strip)
  OBVIOUS
<1>2. /\ panels' = Delete(panels, {p})
      /\ Write(<<DeleteTabs(gone), DeletePanel(p), Meta>>)
  BY <1>1, EmitPanels DEF RemovePanel
<1>3. DOMAIN panels' = DOMAIN panels \ {p} /\ \A r \in DOMAIN panels' : panels'[r] = panels[r]
  BY <1>2 DEF Delete, Restrict
<1>4. PICK a, b, row, steps :
        /\ a = DeleteTabs(gone) /\ row = NoPanel
        /\ b = DeletePanel(p) /\ steps = <<a, b, Meta>> /\ Write(steps)
  BY <1>2
<1>5. a.kind = "deleteTabs"
  BY <1>4 DEF DeleteTabs
<1>6. \A r : r # p => ~WritesRow(a, r) /\ SameRow(panels, panels', r)
  BY <1>3, <1>5 DEF WritesRow, SameRow
<1>7. \A u : ~Puts(a, u)
  BY <1>5 DEF Puts
<1>8. IF p \in DOMAIN panels' THEN b = LivePanel(p, row) ELSE b = DeletePanel(p)
  BY <1>3, <1>4
<1>9. PairForm(steps, a, b)
  BY <1>4, Zenon DEF PairForm
<1> QED
  BY <1>4, <1>5, <1>6, <1>7, <1>8, <1>9, PairLogs

-----------------------------------------------------------------------------
(* Events of the user, and answers.                                        *)

\* Nothing is sent, and nothing that is stored with a panel changes.
Quietly == Edits /\ UNCHANGED <<phase, order, active>>

\* Where a tab that has a new version is shown, and what is stored of it there.
LEMMA ReplacedRows ==
  ASSUME NEW ps, IsBox(ps, PanelId, Panel), NEW tab \in Tab
  PROVE  /\ SameRowsShown(ps, Replaced(ps, tab))
         /\ \A t : IsOpen(ps, t) => IsOpen(Replaced(ps, tab), t)
<1>1. PICK qs : qs = Replaced(ps, tab)
  OBVIOUS
<1>2. DOMAIN qs = DOMAIN ps
  BY <1>1 DEF Replaced
<1>3. ASSUME NEW p \in DOMAIN ps
      PROVE  RowOf(qs[p]) = RowOf(ps[p]) /\ Ids(qs[p].strip) = Ids(ps[p].strip)
  <2>1. PICK s, i : s = ps[p].strip /\ i = Position(s, tab.id)
    OBVIOUS
  <2>2. s \in Seq(Tab) /\ DOMAIN s = 1..Len(s) /\ ps[p] \in Panel
    BY <2>1, PanelParts
  <2>3. i \in 0..Len(s) /\ (i # 0 => s[i].id = tab.id)
    BY <2>1, <2>2, PositionProperties
  <2>4. CASE i = 0
    BY <1>1, <2>1, <2>4 DEF Replaced
  <2>5. CASE i # 0
    <3>1. /\ qs[p].strip = ReplaceAt(s, i, tab)
          /\ qs[p].name = ps[p].name /\ qs[p].active = ps[p].active
      BY <1>1, <2>1, <2>2, <2>5 DEF Replaced, Panel
    <3>2. PICK u : u = ReplaceAt(s, i, tab)
      OBVIOUS
    <3>3. DOMAIN u = DOMAIN s /\ \A j \in DOMAIN s : u[j].id = s[j].id
      BY <2>2, <2>3, <2>5, <3>2 DEF ReplaceAt
    <3>4. [j \in DOMAIN u |-> u[j].id] = [j \in DOMAIN s |-> s[j].id]
      BY <3>3
    <3>5. Ids(u) = Ids(s)
      BY <3>3 DEF Ids
    <3> QED
      BY <2>1, <3>1, <3>2, <3>4, <3>5 DEF RowOf
  <2> QED
    BY <2>4, <2>5
<1>4. \A t : IsOpen(ps, t) => IsOpen(qs, t)
  BY <1>2, <1>3 DEF IsOpen
<1> QED
  BY <1>1, <1>2, <1>3, <1>4 DEF SameRowsShown

\* Steps that write nothing leave due what was.
LEMMA QuietlyDue ==
  ASSUME IInv, DueNow, Quietly
  PROVE  DueNow'
<1>1. /\ SameRowsShown(panels, panels')
      /\ \A t : IsOpen(panels, t) => IsOpen(panels', t)
  <2>1. CASE panels' = panels
    BY <2>1 DEF SameRowsShown
  <2>2. ASSUME NEW tab \in Tab, panels' = Replaced(panels, tab)
        PROVE  /\ SameRowsShown(panels, panels')
               /\ \A t : IsOpen(panels, t) => IsOpen(panels', t)
    <3>1. PICK ps : ps = panels
      OBVIOUS
    <3>2. IsBox(ps, PanelId, Panel)
      BY <3>1, SessionTypes
    <3>3. /\ SameRowsShown(ps, Replaced(ps, tab))
          /\ \A t : IsOpen(ps, t) => IsOpen(Replaced(ps, tab), t)
      BY <3>2, ReplacedRows
    <3> QED
      BY <2>2, <3>1, <3>3
  <2> QED
    BY <2>1, <2>2 DEF Quietly, Edits
<1>2. PICK ps, qs, q, d, ord, act :
        /\ ps = panels /\ qs = panels' /\ q = queue /\ d = disk
        /\ ord = order /\ act = active
  OBVIOUS
<1>3. Due(q, d, qs, ord, act)
  BY <1>1, <1>2, IdleDue DEF DueNow
<1> QED
  BY <1>2, <1>3 DEF DueNow, Quietly, Edits

\* The panels keep their places when a tab has a new version.
LEMMA EditKeepsOrder ==
  ASSUME IInv, NEW tab, Emit(Replaced(panels, tab), order, active)
  PROVE  UNCHANGED <<order, active>>
<1>1. PICK ps : ps = Replaced(panels, tab)
  OBVIOUS
<1>2. DOMAIN ps = DOMAIN panels
  BY <1>1 DEF Replaced
<1> QED
  BY <1>1, <1>2, EmitKeeps

\* Every event of the user sends what it needs, or nothing.
LEMMA UserEventLogs ==
  ASSUME IInv, SInv, TabEvent \/ PanelEvent
  PROVE  Logging \/ FlushPendingSaves \/ Quietly
<1>1. CASE TabEvent
  <2>1. ASSUME NEW t \in TabId,
               \/ RemoveTab(t) \/ CloseOtherTabs(t)
               \/ CloseTabsToTheRight(t) \/ CloseTabsToTheLeft(t)
        PROVE  Logging
    BY <2>1, CloseEventLogs
  <2>2. ASSUME NEW t \in TabId, DuplicateTab(t) PROVE Logging
    BY <2>2, DuplicateTabLogs
  <2>3. ASSUME NEW t \in TabId,
               \/ \E node \in Nodes \cup {NoNode}, c \in Configs : UpdateTab(t, node, c)
               \/ \E c \in Configs : RevertTab(t, c)
               \/ \E s \in SendId : ViewResponseHistoryEntry(t, s)
        PROVE  Quietly
    <3>1. Edits
      BY <2>3, EditEventEdits
    <3>2. PICK tab : phase' = phase /\ Emit(Replaced(panels, tab), order, active)
      BY <2>3 DEF UpdateTab, RevertTab, ViewResponseHistoryEntry, Edit, UserEvent, process
    <3>3. UNCHANGED <<order, active>>
      BY <3>2, EditKeepsOrder
    <3> QED
      BY <3>1, <3>2, <3>3 DEF Quietly
  <2>4. ASSUME NEW t \in TabId, SendRequest(t) \/ CancelRequest(t)
        PROVE  Quietly
    <3>1. Edits
      BY <2>4, SendEventEdits
    <3>2. PICK tab : phase' = phase /\ Emit(Replaced(panels, tab), order, active)
      BY <2>4 DEF SendRequest, CancelRequest, UserEvent, process
    <3>3. UNCHANGED <<order, active>>
      BY <3>2, EditKeepsOrder
    <3> QED
      BY <3>1, <3>2, <3>3 DEF Quietly
  <2>5. ASSUME NEW node \in Nodes, ShowLinkedTab(node) PROVE Logging
    BY <2>5, ShowLinkedTabLogs
  <2>6. ASSUME NEW node \in Nodes \cup {NoNode}, NEW c \in Configs, AddTab(node, c)
        PROVE  Logging
    BY <2>6, AddTabLogs
  <2>7. ASSUME ReopenAsLinkedTab PROVE Logging
    BY <2>7, ReopenAsLinkedTabLogs
  <2>8. ASSUME ReopenClosedTab PROVE Logging
    BY <2>8, ReopenClosedTabLogs
  <2>9. ASSUME NEW i \in TabId, SetActiveIndex(i) PROVE Logging
    BY <2>9, PanelSavedLogs
  <2> QED
    BY <1>1, <2>1, <2>2, <2>3, <2>4, <2>5, <2>6, <2>7, <2>8, <2>9 DEF TabEvent
<1>2. CASE PanelEvent
  <2>1. ASSUME NEW p \in PanelId, RemovePanel(p) PROVE Logging
    BY <2>1, RemovePanelLogs
  <2>2. ASSUME NEW p \in PanelId, NEW saved, CloseSavedTabs(p, saved) PROVE Logging
    BY <2>2, CloseEventLogs
  <2>3. ASSUME NEW p \in PanelId, SetActivePanel(p) PROVE Logging
    BY <2>3, PanelChoiceLogs
  <2>4. ASSUME NEW p \in PanelId, NEW n \in 0..MaxName, RenamePanel(p, n) PROVE Logging
    BY <2>4, PanelSavedLogs
  <2>5. ASSUME NEW p \in PanelId, NEW i \in TabId, NEW j \in TabId, ReorderTabs(p, i, j)
        PROVE  Logging
    BY <2>5, PanelSavedLogs
  <2>6. ASSUME NEW t \in TabId, NEW p \in PanelId, MoveTabToPanel(t, p) PROVE Logging
    BY <2>6, MoveTabToPanelLogs
  <2>7. ASSUME NEW t \in TabId, MoveTabToNewPanel(t) PROVE Logging
    BY <2>7, MoveTabToNewPanelLogs
  <2>8. ASSUME AddPanel PROVE Logging
    BY <2>8, AddPanelLogs
  <2>9. ASSUME NEW i \in PanelId, NEW j \in PanelId, ReorderPanels(i, j) PROVE Logging
    BY <2>9, PanelChoiceLogs
  <2> QED
    BY <1>2, <2>1, <2>2, <2>3, <2>4, <2>5, <2>6, <2>7, <2>8, <2>9 DEF PanelEvent
<1> QED
  BY <1>1, <1>2

\* Such an event leaves the disk due.
LEMMA UserEventDue ==
  ASSUME IInv, IInv', SInv, PlacesOK, DueNow, TabEvent \/ PanelEvent, ~FlushPendingSaves
  PROVE  DueNow'
<1>1. CASE Quietly
  BY <1>1, QuietlyDue
<1>2. CASE Logging
  <2>1. ~Edits
    <3> SUFFICES ASSUME Edits PROVE FALSE
      OBVIOUS
    <3>1. PICK e : Joined(queue', queue, <<e>>)
      BY <1>2 DEF Logging
    <3>2. PICK S, q : q = queue /\ S = Entry(nextPanel)
      OBVIOUS
    <3>3. q \in Seq(S) /\ q = q \o <<e>>
      BY <3>1, <3>2 DEF IInv, Joined, Edits
    <3>4. Len(q \o <<e>>) = Len(q) + 1 /\ Len(q) \in Nat
      BY <3>3, LongerQueue DEF Longer
    <3> QED
      BY <3>3, <3>4
  <2>2. Placed
    BY <2>1, UserEventPlaced
  <2> QED
    BY <1>2, <2>2, PlacedLogged, LoggedDue
<1> QED
  BY <1>1, <1>2, UserEventLogs

\* An answer leaves it due, too.
LEMMA AnswerLeavesDue ==
  ASSUME IInv, SInv, DueNow, Answer
  PROVE  DueNow'
<1>1. Edits
  BY AnswerEdits
<1>2. UNCHANGED <<phase, order, active>>
  BY DEF Answer, ReceiveResponse, StopSend, DropSend, Returns, process
<1>3. Quietly
  BY <1>1, <1>2 DEF Quietly
<1> QED
  BY <1>3, QuietlyDue

-----------------------------------------------------------------------------
(* A handler that goes on.                                                 *)

\* What it sends next is what the first of its steps is about, as it is by then.
Serves(e, steps, ps, ord, act) ==
  /\ Brief(e.rest)
  /\ \A p : ~Resumes(e.rest, p)
  /\ \A p : WritesRow(e.op, p) => Resumes(steps, p)
  /\ \A p : Refreshes(steps, ps, p) => Rewrites(e.op, ps, p)
  /\ IF HasMeta(steps) THEN HasMeta(e.rest) \/ e.op = PutMeta(ord, act)
     ELSE e.op.kind \notin MetaKinds
  /\ \A t : Puts(e.op, t) => IsOpen(ps, t)

\* There is nothing to do.
Idle(steps) == ~HasMeta(steps) /\ \A p : ~Resumes(steps, p)

\* A flush goes on with the next tab, until none is left.
LEMMA FlushServes ==
  ASSUME NEW ps, NEW ord, NEW n, Sound(ps, ord, n), Once(ps), NEW act,
         NEW steps \in Steps(n), Brief(steps), Flushes(steps), NEW more,
         more = Issue(steps, ps, ord, act)
  PROVE  /\ Idle(steps)
         /\ more = <<>> \/ \E e : more = <<e>> /\ Serves(e, steps, ps, ord, act)
<1>1. PICK S : S = KnownStep(n) /\ steps \in Seq(S)
  BY DEF Steps
<1>2. /\ steps # <<>> /\ Len(steps) = 1 /\ Head(steps).kind = "flush"
      /\ DOMAIN steps = 1..1 /\ steps[1] = Head(steps)
  BY <1>1 DEF Flushes, Brief
<1>3. Idle(steps)
  BY <1>2 DEF Idle, HasMeta, Resumes, Names
<1>4. Tail(steps) = <<>>
  <2>1. PICK r : r = Tail(steps)
    OBVIOUS
  <2>2. r \in Seq(S) /\ Len(r) = Len(steps) - 1
    BY <1>1, <1>2, <2>1, TailParts
  <2>3. Len(r) = 0
    BY <1>2, <2>2
  <2> QED
    BY <2>1, <2>2, <2>3, EmptySeq
<1>5. PICK todo, i : todo = Head(steps).todo /\ i = NextToFlush(todo, ps)
  OBVIOUS
<1>6. todo \in Seq(TabId)
  <2>1. Head(steps) \in KnownStep(n)
    BY <1>1, <1>2
  <2> QED
    BY <1>2, <1>5, <2>1 DEF KnownStep, Step
<1>7. CASE i = 0
  <2>1. Unfolded(steps, ps, ord) = <<>>
    BY <1>2, <1>4, <1>5, <1>7 DEF Unfolded
  <2>2. more = <<>>
    BY <2>1 DEF Issue
  <2> QED
    BY <1>3, <2>2
<1>8. CASE i # 0
  <2>1. PICK w, again, e : /\ w = Found(ps, ord, todo[i])
                           /\ again = Flush(SubSeq(todo, i + 1, Len(todo)))
                           /\ e = [op |-> PutTab(w), rest |-> <<again>> \o Tail(steps)]
    OBVIOUS
  <2>2. Unfolded(steps, ps, ord) = steps
    BY <1>2, <1>5, <1>8 DEF Unfolded
  <2>3. more = <<e>>
    BY <1>2, <1>5, <2>1, <2>2 DEF Issue
  <2>4. again.kind = "flush"
    BY <2>1 DEF Flush
  <2>5. PICK rest : rest = e.rest
    OBVIOUS
  <2>6. rest = <<again>>
    <3>1. PICK A : A = {again}
      OBVIOUS
    <3>2. <<again>> \in Seq(A)
      BY <3>1
    <3>3. rest = <<again>> \o <<>>
      BY <1>4, <2>1, <2>5
    <3> QED
      BY <3>2, <3>3
  <2>7. DOMAIN rest = {1} /\ rest[1] = again /\ Head(rest) = again /\ Len(rest) = 1
    BY <2>6, OneCommand
  <2>8. Brief(rest) /\ \A p : ~Resumes(rest, p)
    BY <2>4, <2>7 DEF Brief, Resumes, Names
  <2>9. e.op.kind = "putTab" /\ e.op.tab = w
    BY <2>1 DEF PutTab
  <2>10. \A p : ~WritesRow(e.op, p)
    BY <2>9 DEF WritesRow
  <2>11. \A t : Puts(e.op, t) => IsOpen(ps, t)
    <3>1. IsOpen(ps, todo[i])
      BY <1>5, <1>6, <1>8, NextToFlushProperties
    <3>2. w.id = todo[i]
      BY <2>1, <3>1, FoundCopy
    <3> QED
      BY <2>9, <3>1, <3>2 DEF Puts
  <2>12. e.op.kind \notin MetaKinds
    BY <2>9 DEF MetaKinds
  <2>13. \A p : ~Refreshes(steps, ps, p)
    BY <1>3 DEF Idle, Refreshes
  <2>14. Serves(e, steps, ps, ord, act)
    BY <1>3, <2>5, <2>8, <2>10, <2>11, <2>12, <2>13 DEF Serves, Idle
  <2> QED
    BY <1>3, <2>3, <2>14
<1> QED
  BY <1>7, <1>8

\* Other steps follow one after the other.
LEMMA IssueServes ==
  ASSUME NEW ps, NEW ord, NEW n, Sound(ps, ord, n), Once(ps), NEW act,
         NEW steps \in Steps(n), MildSteps(steps, ps, n), Brief(steps), NEW more,
         more = Issue(steps, ps, ord, act)
  PROVE  \/ more = <<>> /\ Idle(steps)
         \/ \E e : more = <<e>> /\ Serves(e, steps, ps, ord, act)
<1>1. PICK S : S = KnownStep(n) /\ steps \in Seq(S)
  BY DEF Steps
<1>2. CASE Flushes(steps)
  BY <1>2, FlushServes
<1>3. CASE steps = <<>>
  <2>1. DOMAIN steps = {}
    BY <1>3
  <2>2. Unfolded(steps, ps, ord) = <<>>
    BY <1>3 DEF Unfolded
  <2>3. more = <<>>
    BY <2>2 DEF Issue
  <2> QED
    BY <1>3, <2>1, <2>3 DEF Idle, HasMeta, Resumes
<1>4. CASE steps # <<>> /\ ~Flushes(steps)
  <2>1. /\ 1 \in DOMAIN steps /\ Head(steps) = steps[1] /\ Tail(steps) \in Seq(S)
        /\ \A i \in DOMAIN Tail(steps) : i + 1 \in DOMAIN steps /\ Tail(steps)[i] = steps[i + 1]
        /\ Len(steps) \in Nat /\ DOMAIN steps = 1..Len(steps)
        /\ DOMAIN Tail(steps) = 1..(Len(steps) - 1)
    BY <1>1, <1>4, TailParts, StepParts
  <2>2. PICK s, rest, op, e : /\ s = Head(steps) /\ rest = Tail(steps)
                              /\ op = Sent(s, ps, ord, act) /\ e = [op |-> op, rest |-> rest]
    OBVIOUS
  <2>3. s.kind \in {"livePanel", "meta", "deletePanel"}
    BY <1>4, <2>1, <2>2 DEF MildSteps, MildStep, Flushes
  <2>4. more = <<e>>
    <3>1. Unfolded(steps, ps, ord) = steps
      BY <1>4, <2>2, <2>3 DEF Unfolded
    <3> QED
      BY <1>4, <2>2, <2>3, <3>1 DEF Issue
  <2>5. e.op = op /\ e.rest = rest
    BY <2>2
  <2>6. \A i \in DOMAIN rest : rest[i].kind = "meta"
    <3> SUFFICES ASSUME NEW i \in DOMAIN rest PROVE rest[i].kind = "meta"
      OBVIOUS
    <3>1. i + 1 \in DOMAIN steps /\ rest[i] = steps[i + 1] /\ i + 1 # 1
      BY <2>1, <2>2
    <3> QED
      BY <3>1 DEF Brief
  <2>7. rest # <<>> => 1 \in DOMAIN rest /\ Head(rest) = rest[1]
    BY <2>1, <2>2, StepParts
  <2>8. Brief(rest) /\ \A p : ~Resumes(rest, p)
    BY <2>6, <2>7 DEF Brief, Flushes, Resumes, Names
  <2>9. /\ s.kind = "livePanel" =>
             op = PutPanel(s.panel, IF s.panel \in DOMAIN ps THEN RowOf(ps[s.panel]) ELSE s.row)
        /\ s.kind = "meta" => op = PutMeta(ord, act)
        /\ s.kind = "deletePanel" => op = s
    BY <2>2 DEF Sent
  <2>10. /\ op.kind \in {"putPanel", "putMeta", "deletePanel"}
         /\ op.kind = "putMeta" => s.kind = "meta"
         /\ op.kind = "putPanel" => /\ s.kind = "livePanel" /\ op.panel = s.panel
                                    /\ s.panel \in DOMAIN ps => op.row = RowOf(ps[s.panel])
         /\ op.kind = "deletePanel" => s.kind = "deletePanel" /\ op.panel = s.panel
    BY <2>3, <2>9 DEF PutPanel, PutMeta
  <2>11. \A p : WritesRow(op, p) => Resumes(steps, p)
    BY <1>4, <2>2, <2>10 DEF WritesRow, Resumes, Names
  <2>12. ASSUME NEW p, Refreshes(steps, ps, p) PROVE Rewrites(op, ps, p)
    <3>1. s.panel = p /\ s.kind = IF p \in DOMAIN ps THEN "livePanel" ELSE "deletePanel"
      BY <2>2, <2>12 DEF Refreshes, Resumes, Names
    <3> QED
      BY <2>9, <3>1 DEF Rewrites, PutPanel
  <2>13. ASSUME HasMeta(steps) PROVE HasMeta(rest) \/ op = PutMeta(ord, act)
    <3>1. PICK i \in DOMAIN steps : steps[i].kind = "meta"
      BY <2>13 DEF HasMeta
    <3>2. CASE i = 1
      BY <2>1, <2>2, <2>9, <3>1, <3>2
    <3>3. CASE i # 1
      <4>1. PICK j : j = i - 1
        OBVIOUS
      <4>2. j \in DOMAIN rest /\ i = j + 1
        BY <2>1, <2>2, <3>3, <4>1
      <4>3. rest[j].kind = "meta"
        BY <2>6, <4>2
      <4> QED
        BY <4>2, <4>3 DEF HasMeta
    <3> QED
      BY <3>2, <3>3
  <2>14. ~HasMeta(steps) => op.kind \notin MetaKinds
    BY <2>1, <2>2, <2>10 DEF HasMeta, MetaKinds
  <2>15. \A t : ~Puts(op, t)
    BY <2>10 DEF Puts
  <2>16. Serves(e, steps, ps, ord, act)
    BY <2>5, <2>8, <2>11, <2>12, <2>13, <2>14, <2>15 DEF Serves
  <2> QED
    BY <2>4, <2>16
<1> QED
  BY <1>2, <1>3, <1>4

\* A flush starts.
LEMMA FlushDue ==
  ASSUME IInv, SInv, PlacesOK, DueNow, FlushTimer \/ FlushPendingSaves
  PROVE  DueNow'
<1>1. PICK todo \in SetToSeqs(dirty) :
        queue' = queue \o Issue(<<Flush(todo)>> \o <<>>, panels, order, active)
  BY DEF FlushTimer, FlushPendingSaves, StartFlush
<1>2. UNCHANGED <<disk, panels, order, active>>
  BY UserEventRuns DEF FlushTimer, FlushPendingSaves, memory
<1>3. PICK first, steps : first = Flush(todo) /\ steps = <<first>> \o <<>>
  OBVIOUS
<1>4. first.kind = "flush"
  BY <1>3 DEF Flush
<1>5. steps = <<first>>
  <2>1. PICK A : A = {first}
    OBVIOUS
  <2>2. <<first>> \in Seq(A)
    BY <2>1
  <2> QED
    BY <1>3, <2>2
<1>6. /\ steps # <<>> /\ Head(steps) = first /\ DOMAIN steps = {1} /\ steps[1] = first
      /\ Len(steps) = 1
  BY <1>5, OneCommand
<1>7. Brief(steps) /\ Flushes(steps)
  BY <1>4, <1>6 DEF Brief, Flushes
<1>8. steps \in Steps(nextPanel) /\ MildSteps(steps, panels, nextPanel)
  <2>1. todo \in Seq(TabId)
    <3>1. dirty \in SUBSET (0..MaxTabs) /\ MaxTabs \in Nat
      BY StorageAssumption DEF IInv, SavingOK, TabId
    <3>2. todo \in Seq(dirty)
      BY <3>1, ArrangementProperties
    <3> QED
      BY <3>2, SeqMonotonic DEF IInv, SavingOK
  <2>2. first \in KnownStep(nextPanel)
    BY <1>3, <2>1 DEF KnownStep, Step, Flush
  <2> QED
    BY <1>4, <1>5, <1>6, <2>2 DEF Steps, MildSteps, MildStep
<1>9. PICK n, q, u, ps, d, ord, act, more :
        /\ n = nextPanel /\ q = queue /\ u = queue' /\ ps = panels /\ d = disk
        /\ ord = order /\ act = active /\ more = Issue(steps, ps, ord, act)
  OBVIOUS
<1>10. /\ n \in Nat /\ q \in Seq(Entry(n)) /\ Sound(ps, ord, n) /\ Once(ps)
       /\ steps \in Steps(n) /\ MildSteps(steps, ps, n) /\ WellShaped(steps)
       /\ MildQueue(q, ps, n) /\ Due(q, d, ps, ord, act) /\ Joined(u, q, more)
  <2>1. WellShaped(steps)
    BY <1>4, <1>6 DEF WellShaped
  <2> QED
    BY <1>1, <1>3, <1>8, <1>9, <2>1 DEF IInv, IdsOK, MemoryOK, SInv, PlacesOK, DueNow, Joined
<1>11. CASE more = <<>>
  <2>1. u = q
    BY <1>10, <1>11 DEF Joined
  <2> QED
    BY <1>2, <1>9, <1>10, <2>1 DEF DueNow
<1>12. ASSUME NEW e, more = <<e>>, Serves(e, steps, ps, ord, act) PROVE DueNow'
  <2>1. Idle(steps)
    BY <1>7, <1>9, <1>10, FlushServes
  <2>2. \A p : RowLogged(ps, ps, e.op, e.rest, p)
    BY <1>12, <2>1 DEF Serves, Idle, RowLogged, SameRow
  <2>3. MetaLogged(e.op, e.rest, ord, act, ord, act)
    BY <1>12, <2>1 DEF Serves, Idle, MetaLogged
  <2>4. Logs(e, ps, ps, ord, act, ord, act)
    BY <1>12, <2>2, <2>3 DEF Serves, Logs
  <2>5. \A t : Suits(ps, ps, e.op, t)
    <3>1. \/ more = <<>>
          \/ \E w : /\ more = <<w>> /\ Fitting(ps, ps, n, w)
                    /\ \A p : InEntry(w, p) => NamedIn(steps, p)
      BY <1>9, <1>10, IssueFits
    <3>2. more # <<>> /\ \A w : more = <<w>> => w = e
      BY <1>12
    <3> QED
      BY <3>1, <3>2 DEF Fitting
  <2>6. PanelsGrow(ps, ps, n, n)
    BY <1>10 DEF PanelsGrow
  <2>7. Joined(u, q, <<e>>)
    BY <1>10, <1>12
  <2>8. Due(u, d, ps, ord, act)
    BY <1>10, <2>4, <2>5, <2>6, <2>7, LogsJoin
  <2> QED
    BY <1>2, <1>9, <2>8 DEF DueNow
<1> QED
  BY <1>7, <1>9, <1>10, <1>11, <1>12, FlushServes

-----------------------------------------------------------------------------
(* The worker executes a command.                                          *)

\* What a write makes of the row of a panel, and of the order and the active one.
LEMMA AppliedRight ==
  ASSUME NEW d, IsDisk(d), NEW op, op.kind \in BoxWrites, NEW new, new = Applied(op, d)
  PROVE  /\ \A ps, p : Rewrites(op, ps, p) => RightRow(new.panels, ps, p)
         /\ \A ps, p : ~WritesRow(op, p) /\ RightRow(d.panels, ps, p)
                         => RightRow(new.panels, ps, p)
         /\ new.order = d.order
         /\ new.active = IF op.kind = "putActive" THEN op.active ELSE d.active
<1>1. DOMAIN d = {"tabs", "panels", "order", "active"}
  BY DEF IsDisk
<1>2. CASE op.kind = "putPanel"
  <2>1. PICK rows : rows = Put(d.panels, op.panel, op.row)
    OBVIOUS
  <2>2. new.panels = rows /\ new.order = d.order /\ new.active = d.active
    BY <1>1, <1>2, <2>1 DEF Applied
  <2>3. /\ DOMAIN rows = DOMAIN d.panels \cup {op.panel} /\ rows[op.panel] = op.row
        /\ \A k \in DOMAIN d.panels : k # op.panel => rows[k] = d.panels[k]
    BY <2>1 DEF Put
  <2>4. \A ps, p : Rewrites(op, ps, p) => RightRow(rows, ps, p)
    BY <1>2, <2>3 DEF Rewrites, RightRow
  <2>5. ASSUME NEW ps, NEW p, ~WritesRow(op, p), RightRow(d.panels, ps, p)
        PROVE  RightRow(rows, ps, p)
    <3>1. p # op.panel
      BY <1>2, <2>5 DEF WritesRow
    <3> QED
      BY <2>3, <2>5, <3>1 DEF RightRow
  <2> QED
    BY <1>2, <2>2, <2>4, <2>5
<1>3. CASE op.kind = "deletePanel"
  <2>1. PICK rows : rows = Delete(d.panels, {op.panel})
    OBVIOUS
  <2>2. new.panels = rows /\ new.order = d.order /\ new.active = d.active
    BY <1>1, <1>3, <2>1 DEF Applied
  <2>3. /\ DOMAIN rows = DOMAIN d.panels \ {op.panel}
        /\ \A k \in DOMAIN rows : rows[k] = d.panels[k]
    BY <2>1 DEF Delete
  <2>4. \A ps, p : Rewrites(op, ps, p) => RightRow(rows, ps, p)
    BY <1>3, <2>3 DEF Rewrites, RightRow
  <2>5. ASSUME NEW ps, NEW p, ~WritesRow(op, p), RightRow(d.panels, ps, p)
        PROVE  RightRow(rows, ps, p)
    <3>1. p # op.panel
      BY <1>3, <2>5 DEF WritesRow
    <3> QED
      BY <2>3, <2>5, <3>1 DEF RightRow
  <2> QED
    BY <1>3, <2>2, <2>4, <2>5
<1>4. CASE op.kind \in {"putTab", "deleteTabs", "putActive"}
  <2>1. /\ new.panels = d.panels /\ new.order = d.order
        /\ new.active = IF op.kind = "putActive" THEN op.active ELSE d.active
    BY <1>1, <1>4 DEF Applied
  <2>2. \A ps, p : ~Rewrites(op, ps, p)
    BY <1>4 DEF Rewrites
  <2> QED
    BY <2>1, <2>2
<1> QED
  BY <1>2, <1>3, <1>4 DEF BoxWrites

\* The first command is executed, and its handler goes on.
LEMMA GoOnDue ==
  ASSUME NEW S, NEW q \in Seq(S), q # <<>>, NEW d, IsDisk(d), NEW ps, NEW ord, NEW act,
         Due(q, d, ps, ord, act), Head(q).op.kind \in BoxWrites,
         NEW new, new = Applied(Head(q).op, d), NEW more,
         \/ more = <<>> /\ Idle(Head(q).rest)
         \/ \E e : more = <<e>> /\ Serves(e, Head(q).rest, ps, ord, act),
         NEW u, Joined(u, Tail(q), more)
  PROVE  Due(u, new, ps, ord, act)
<1>1. PICK v, op, steps : v = Tail(q) /\ op = Head(q).op /\ steps = Head(q).rest
  OBVIOUS
<1>2. Shorter(v, q) /\ q[1] = Head(q) /\ v \in Seq(S)
  BY <1>1, ShorterQueue
<1>3. op = q[1].op /\ steps = q[1].rest /\ op.kind \in BoxWrites /\ new = Applied(op, d)
      /\ 1 \in DOMAIN q
  BY <1>1, <1>2 DEF Shorter
<1>4. /\ \A p : Rewrites(op, ps, p) => RightRow(new.panels, ps, p)
      /\ \A p : ~WritesRow(op, p) /\ RightRow(d.panels, ps, p) => RightRow(new.panels, ps, p)
      /\ new.order = d.order
      /\ new.active = IF op.kind = "putActive" THEN op.active ELSE d.active
  BY <1>3, AppliedRight
<1>5. BriefQueue(v)
  BY <1>2 DEF Due, BriefQueue, Shorter
<1>6. ASSUME NEW p, ~Resumes(steps, p) PROVE RowDue(v, new.panels, ps, p)
  <2>1. RowDue(q, d.panels, ps, p)
    BY DEF Due
  <2> QED
    BY <1>2, <1>3, <1>4, <1>6, <2>1, RowNext
<1>7. ~HasMeta(steps) => MetaDue(v, new.order, new.active, ord, act)
  <2>1. op.kind # "putMeta"
    BY <1>3 DEF BoxWrites
  <2>2. MetaDue(q, d.order, d.active, ord, act)
    BY DEF Due
  <2> QED
    BY <1>2, <1>3, <1>4, <2>1, <2>2, MetaNext
<1>8. ASSUME NEW t, ~IsOpen(ps, t) PROVE Gone(v, new.tabs, t)
  <2>1. Gone(q, d.tabs, t)
    BY <1>8 DEF Due, TabsDue
  <2>2. Leaves(op, d.tabs, new.tabs, t)
    BY <1>3, AppliedLeaves
  <2> QED
    BY <1>1, <2>1, <2>2, Executed
<1>9. CASE more = <<>> /\ Idle(steps)
  <2>1. u = v
    BY <1>1, <1>2, <1>9 DEF Joined
  <2> QED
    BY <1>5, <1>6, <1>7, <1>8, <1>9, <2>1 DEF Due, Idle, TabsDue
<1>10. ASSUME NEW e, more = <<e>>, Serves(e, steps, ps, ord, act)
       PROVE  Due(u, new, ps, ord, act)
  <2>1. u = v \o <<e>>
    BY <1>1, <1>10 DEF Joined
  <2>2. Longer(u, v, e)
    BY <1>2, <2>1, LongerQueue
  <2>3. BriefQueue(u)
    <3>1. \A k \in DOMAIN u : (k \in DOMAIN v /\ u[k] = v[k]) \/ u[k] = e
      BY <2>2 DEF Longer
    <3> QED
      BY <1>5, <1>10, <3>1 DEF BriefQueue, Serves
  <2>4. ASSUME NEW p PROVE RowDue(u, new.panels, ps, p)
    <3>1. CASE Resumes(steps, p)
      <4>1. RowDue(q, d.panels, ps, p)
        BY DEF Due
      <4>2. ~Resumes(e.rest, p) /\ (Refreshes(steps, ps, p) => Rewrites(e.op, ps, p))
        BY <1>10 DEF Serves
      <4> QED
        BY <1>2, <1>3, <2>2, <3>1, <4>1, <4>2, RowResumed
    <3>2. CASE ~Resumes(steps, p)
      <4>1. RowLogged(ps, ps, e.op, e.rest, p)
        BY <1>10, <3>2 DEF Serves, RowLogged, SameRow
      <4> QED
        BY <1>6, <2>2, <3>2, <4>1, RowMore
    <3> QED
      BY <3>1, <3>2
  <2>5. MetaDue(u, new.order, new.active, ord, act)
    <3>1. CASE HasMeta(steps)
      BY <1>10, <2>2, <3>1, MetaResumed DEF Serves
    <3>2. CASE ~HasMeta(steps)
      <4>1. MetaLogged(e.op, e.rest, ord, act, ord, act)
        BY <1>10, <3>2 DEF Serves, MetaLogged
      <4> QED
        BY <1>7, <2>2, <3>2, <4>1, MetaMore
    <3> QED
      BY <3>1, <3>2
  <2>6. ASSUME NEW t, ~IsOpen(ps, t) PROVE Gone(u, new.tabs, t)
    <3>1. ~Puts(e.op, t)
      BY <1>10, <2>6 DEF Serves
    <3>2. PICK T : T = S \cup {e}
      OBVIOUS
    <3>3. v \in Seq(T) /\ <<e>> \in Seq(T)
      <4>1. v \in Seq(T)
        BY <1>2, <3>2, SequenceOf
      <4> QED
        BY <3>2, <4>1
    <3>4. \A k \in DOMAIN <<e>> : ~Puts(<<e>>[k].op, t)
      BY <3>1, OneCommand
    <3>5. Gone(v, new.tabs, t)
      BY <1>8, <2>6
    <3>6. PICK w : w = <<e>>
      OBVIOUS
    <3>7. Gone(v \o w, new.tabs, t)
      BY <3>3, <3>4, <3>5, <3>6, AppendedCalm
    <3> QED
      BY <2>1, <3>6, <3>7
  <2> QED
    BY <2>3, <2>4, <2>5, <2>6 DEF Due, TabsDue
<1> QED
  BY <1>1, <1>9, <1>10

\* A write is executed, and its handler goes on.
LEMMA ExecuteDue ==
  ASSUME IInv, SInv, PlacesOK, DueNow, ExecuteWrite
  PROVE  DueNow'
<1>1. PICK n, S, q, u, d, new, ps, ord, act, steps, more :
        /\ n = nextPanel /\ S = Entry(n) /\ q = queue /\ u = queue' /\ d = disk
        /\ new = disk' /\ ps = panels /\ ord = order /\ act = active
        /\ steps = Head(q).rest /\ more = Issue(steps, ps, ord, act)
  OBVIOUS
<1>2. /\ q # <<>> /\ Head(q).op.kind \in BoxWrites /\ new = Applied(Head(q).op, d)
      /\ Joined(u, Tail(q), more) /\ UNCHANGED <<panels, order, active>>
  BY <1>1 DEF ExecuteWrite, GoOn, Joined, memory
<1>3. /\ q \in Seq(S) /\ IsDisk(d) /\ Sound(ps, ord, n) /\ Once(ps)
      /\ MildQueue(q, ps, n) /\ Due(q, d, ps, ord, act)
  BY <1>1 DEF IInv, DiskOK, MemoryOK, SInv, PlacesOK, DueNow
<1>4. 1 \in DOMAIN q /\ q[1] = Head(q) /\ Head(q) \in S
  BY <1>2, <1>3, StepParts
<1>5. steps \in Steps(n) /\ MildSteps(steps, ps, n) /\ Brief(steps)
  BY <1>1, <1>3, <1>4 DEF Entry, MildQueue, MildEntry, MildSteps, Due, BriefQueue
<1>6. \/ more = <<>> /\ Idle(steps)
      \/ \E e : more = <<e>> /\ Serves(e, steps, ps, ord, act)
  BY <1>1, <1>3, <1>5, IssueServes
<1>7. Due(u, new, ps, ord, act)
  BY <1>1, <1>2, <1>3, <1>6, GoOnDue
<1> QED
  BY <1>1, <1>2, <1>7 DEF DueNow

\* The order of the panels is written, and the active one is next.
LEMMA ExecuteMetaDue ==
  ASSUME IInv, SInv, DueNow, ExecuteMeta
  PROVE  DueNow'
<1>1. PICK n, S, q, u, d, new, ps, ord, act :
        /\ n = nextPanel /\ S = Entry(n) /\ q = queue /\ u = queue' /\ d = disk
        /\ new = disk' /\ ps = panels /\ ord = order /\ act = active
  OBVIOUS
<1>2. PICK e : e = [Head(q) EXCEPT !.op = PutActive(@.active)]
  OBVIOUS
<1>3. /\ q # <<>> /\ Head(q).op.kind = "putMeta" /\ new = Applied(Head(q).op, d)
      /\ u = <<e>> \o Tail(q) /\ UNCHANGED <<panels, order, active>>
  BY <1>1, <1>2 DEF ExecuteMeta, memory
<1>4. /\ q \in Seq(S) /\ IsDisk(d) /\ Due(q, d, ps, ord, act)
  BY <1>1 DEF IInv, DiskOK, DueNow
<1>5. /\ DOMAIN u = DOMAIN q /\ Len(u) = Len(q) /\ Len(q) \in Nat /\ DOMAIN q = 1..Len(q)
      /\ 1 \in DOMAIN q /\ q[1] = Head(q) /\ \A k \in DOMAIN q : u[k].rest = q[k].rest
      /\ \A k \in DOMAIN q : u[k] = q[k] \/ (q[k].op.kind = "putMeta"
                                             /\ u[k].op.kind = "putActive")
  BY <1>1, MetaQueue
<1>6. u[1].op = PutActive(q[1].op.active) /\ \A k \in 2..Len(q) : u[k] = q[k]
  <2>1. PICK left, T : left = Tail(q) /\ T = S \cup {e}
    OBVIOUS
  <2>2. /\ left \in Seq(S) /\ Len(left) = Len(q) - 1 /\ DOMAIN left = 1..(Len(q) - 1)
        /\ \A k \in DOMAIN left : left[k] = q[k + 1]
    BY <1>3, <1>4, <2>1, TailParts
  <2>3. left \in Seq(T) /\ <<e>> \in Seq(T)
    <3>1. left \in Seq(T)
      BY <2>1, <2>2, SequenceOf
    <3> QED
      BY <2>1, <3>1
  <2>4. u[1] = e /\ \A k \in 2..(1 + Len(left)) : u[k] = left[k - 1]
    BY <1>3, <2>1, <2>3
  <2>5. ASSUME NEW k \in 2..Len(q) PROVE u[k] = q[k]
    <3>1. k - 1 \in DOMAIN left /\ (k - 1) + 1 = k /\ u[k] = left[k - 1]
      BY <1>5, <2>2, <2>4
    <3> QED
      BY <2>2, <3>1
  <2>6. Head(q) \in [op : Command, rest : Steps(n)]
    BY <1>1, <1>4, <1>5 DEF Entry
  <2>7. e.op = PutActive(Head(q).op.active)
    BY <1>2, <2>6
  <2> QED
    BY <1>5, <2>4, <2>5, <2>7
<1>7. /\ new.tabs = d.tabs /\ new.panels = d.panels /\ new.active = d.active
      /\ new.order = q[1].op.order
  BY <1>3, <1>4, <1>5 DEF Applied, IsDisk
<1>8. SameRows(u, q)
  BY <1>5 DEF SameRows, MetaKinds
<1>9. \A p : RowDue(u, new.panels, ps, p)
  BY <1>4, <1>7, <1>8, RowSame DEF Due
<1>10. MetaDue(u, new.order, new.active, ord, act)
  <2>1. MetaDue(q, d.order, d.active, ord, act)
    BY <1>4 DEF Due
  <2>2. q[1].op.kind = "putMeta"
    BY <1>3, <1>5
  <2>3. MetaDue(u, q[1].op.order, d.active, ord, act)
    BY <1>3, <1>5, <1>6, <1>8, <2>1, <2>2, MetaWritten
  <2> QED
    BY <1>7, <2>3
<1>11. BriefQueue(u)
  BY <1>4, <1>5 DEF Due, BriefQueue
<1>12. ASSUME NEW t, ~IsOpen(ps, t) PROVE Gone(u, new.tabs, t)
  <2>1. Gone(q, d.tabs, t)
    BY <1>4, <1>12 DEF Due, TabsDue
  <2>2. \A k \in DOMAIN q :
          /\ u[k].rest = q[k].rest
          /\ u[k].op = q[k].op \/ (~About(q[k].op, t) /\ ~About(u[k].op, t))
    BY <1>5 DEF About, Puts, Deletes
  <2>3. Gone(u, d.tabs, t)
    BY <1>5, <2>1, <2>2, SameAbout
  <2> QED
    BY <1>7, <2>3
<1> QED
  <2>1. Due(u, new, ps, ord, act)
    BY <1>9, <1>10, <1>11, <1>12 DEF Due, TabsDue
  <2> QED
    BY <1>1, <1>3, <2>1 DEF DueNow

-----------------------------------------------------------------------------
(* The session is loaded.                                                  *)

\* Selecting every element of a sequence gives the sequence.
LEMMA SelectedAll ==
  ASSUME NEW S, NEW s \in Seq(S)
  PROVE  Selected(s, DOMAIN s) = s
<1>1. PICK n \in Nat : n = Len(s) /\ DOMAIN s = 1..n /\ s = [i \in 1..n |-> s[i]]
  OBVIOUS
<1>2. PICK K, e : K = 1..n /\ e = Enumeration(K)
  OBVIOUS
<1>3. K \in SUBSET (0..n)
  BY <1>2
<1>4. Cardinality(K) = n
  <2>1. 1 \in Int /\ n \in Int /\ (IF 1 > n THEN 0 ELSE n - 1 + 1) = n
    BY <1>1
  <2> QED
    BY <1>2, <2>1, FS_Interval
<1>5. /\ e \in [1..n -> K]
      /\ \A i, j \in 1..n : i < j => e[i] < e[j]
      /\ \A k \in K : \E i \in 1..n : e[i] = k
  BY <1>2, <1>3, <1>4, EnumerationProperties DEF IsEnumeration
<1>6. \A i \in 1..n : e[i] = i
  <2> DEFINE Bad == {i \in 1..n : e[i] # i}
  <2> SUFFICES ASSUME Bad # {} PROVE FALSE
    OBVIOUS
  <2>1. Bad \in SUBSET Nat
    OBVIOUS
  <2>2. PICK m \in Bad : \A i \in Bad : m <= i
    BY <2>1, LeastNumber
  <2>3. m \in 1..n /\ e[m] \in 1..n /\ e[m] # m
    BY <1>2, <1>5, <2>2
  <2>4. CASE e[m] < m
    <3>1. e[e[m]] < e[m]
      BY <1>5, <2>3, <2>4
    <3>2. e[m] \in Bad
      BY <2>3, <3>1
    <3> QED
      BY <2>2, <2>3, <2>4, <3>2
  <2>5. CASE e[m] > m
    <3>1. PICK i \in 1..n : e[i] = m
      BY <1>2, <1>5, <2>3
    <3>2. i # m
      BY <2>3, <3>1
    <3>3. i < m => e[i] = i
      BY <2>2, <2>3
    <3>4. i > m => e[i] > e[m]
      BY <1>5, <2>3
    <3> QED
      BY <2>3, <2>5, <3>1, <3>2, <3>3, <3>4
  <2> QED
    BY <2>3, <2>4, <2>5
<1>7. Selected(s, K) = [i \in 1..n |-> s[e[i]]]
  BY <1>2, <1>4 DEF Selected
<1>8. \A i \in 1..n : s[e[i]] = s[i]
  BY <1>6
<1> QED
  BY <1>1, <1>2, <1>7, <1>8

\* The order of such a disk is the one that is read.
LEMMA WholeOrder ==
  ASSUME NEW d, IsDisk(d), Whole(d), NEW ord \in StoredOrders(d)
  PROVE  ord = d.order
<1> DEFINE known == {i \in DOMAIN d.order :
                       /\ d.order[i] \in DOMAIN d.panels
                       /\ \A j \in 1..(i - 1) : d.order[j] # d.order[i]}
           rest  == DOMAIN d.panels \ ToSet(d.order)
<1>1. PICK o, n : o = d.order /\ o \in Seq(PanelId) /\ n = Len(o) /\ n \in Nat /\ DOMAIN o = 1..n
  BY DEF IsDisk
<1>2. \A i \in 1..n : o[i] \in DOMAIN d.panels
  BY <1>1 DEF Whole, ToSet
<1>3. \A i, j \in 1..n : o[i] = o[j] => i = j
  BY <1>1 DEF Whole, IsInjective
<1>4. ASSUME NEW i \in 1..n, NEW j \in 1..(i - 1) PROVE o[j] # o[i]
  <2>1. j \in 1..n /\ j # i
    BY <1>1
  <2> QED
    BY <1>3, <2>1
<1>5. known = DOMAIN o
  BY <1>1, <1>2, <1>4
<1>6. rest = {}
  BY DEF Whole
<1>7. PICK r \in SetToSeqs(rest) : ord = Selected(o, known) \o r
  BY <1>1 DEF StoredOrders
<1>8. r = <<>>
  <2>1. 0 \in Nat /\ rest \in SUBSET (0..0)
    BY <1>6
  <2>2. r \in Seq(rest)
    BY <2>1, ArrangementProperties
  <2> QED
    BY <1>6, <2>2
<1>9. Selected(o, known) = o
  BY <1>1, <1>5, SelectedAll
<1> HIDE DEF known, rest
<1> QED
  BY <1>1, <1>7, <1>8, <1>9

\* The row of a panel that was read is the row it was read from.
LEMMA WholeRow ==
  ASSUME NEW d, IsDisk(d), Whole(d), WellKept(d), NEW p \in DOMAIN d.panels
  PROVE  /\ RowOf(StoredPanel(d, p)) = d.panels[p]
         /\ Ids(StoredPanel(d, p).strip) = ToSet(d.panels[p].ids)
<1>1. PICK row, ids, tabs : row = d.panels[p] /\ ids = row.ids /\ tabs = d.tabs
  OBVIOUS
<1>2. /\ row \in Row /\ ids \in Seq(TabId)
      /\ row = [name |-> row.name, ids |-> ids, active |-> row.active]
  BY <1>1 DEF IsDisk, IsBox, Row
<1>3. \A i \in DOMAIN ids : ids[i] \in DOMAIN tabs
  <2> SUFFICES ASSUME NEW i \in DOMAIN ids PROVE ids[i] \in DOMAIN tabs
    OBVIOUS
  <2>1. ids[i] \in ToSet(d.panels[p].ids)
    BY <1>1 DEF ToSet
  <2> QED
    BY <1>1, <2>1 DEF Whole
<1>4. PICK K : K = {i \in DOMAIN ids : ids[i] \in DOMAIN tabs}
  OBVIOUS
<1>5. K = DOMAIN ids
  BY <1>3, <1>4
<1>6. Selected(ids, K) = ids
  BY <1>2, <1>5, SelectedAll
<1>7. PICK strip : strip = StoredStrip(d, ids)
  OBVIOUS
<1>8. strip = [i \in DOMAIN ids |-> Settled(tabs[ids[i]])]
  BY <1>1, <1>4, <1>6, <1>7 DEF StoredStrip
<1>9. \A i \in DOMAIN ids : strip[i].id = ids[i]
  <2> SUFFICES ASSUME NEW i \in DOMAIN ids PROVE strip[i].id = ids[i]
    OBVIOUS
  <2>1. tabs[ids[i]] \in Tab /\ tabs[ids[i]].id = ids[i]
    BY <1>1, <1>3 DEF IsDisk, IsBox, WellKept
  <2>2. strip[i] = Settled(tabs[ids[i]])
    BY <1>8
  <2> QED
    BY <2>1, <2>2, SettledParts
<1>10. PICK panel : panel = [name |-> row.name, strip |-> strip, active |-> row.active]
  OBVIOUS
<1>11. StoredPanel(d, p) = panel
  BY <1>1, <1>7, <1>10 DEF StoredPanel
<1>12. panel.name = row.name /\ panel.strip = strip /\ panel.active = row.active
  BY <1>10
<1>13. DOMAIN strip = DOMAIN ids /\ ids = [i \in DOMAIN ids |-> ids[i]]
  BY <1>2, <1>8
<1>14. [i \in DOMAIN strip |-> strip[i].id] = ids
  BY <1>9, <1>13
<1>15. RowOf(panel) = row
  BY <1>2, <1>12, <1>14 DEF RowOf
<1>16. Ids(strip) = ToSet(ids)
  <2>1. Ids(strip) = {strip[i].id : i \in DOMAIN ids}
    BY <1>13 DEF Ids
  <2>2. ToSet(ids) = {ids[i] : i \in DOMAIN ids}
    BY DEF ToSet
  <2> QED
    BY <1>9, <2>1, <2>2
<1> QED
  BY <1>1, <1>11, <1>12, <1>15, <1>16

\* The process is started.
LEMMA StartUnloaded ==
  ASSUME Unloaded, Start
  PROVE  phase' = "loading" /\ Unloaded'
<1>1. PICK e, u : e = [op |-> GetPanels, rest |-> <<>>] /\ u = <<e>>
  OBVIOUS
<1>2. /\ phase' = "loading" /\ queue' = u
      /\ UNCHANGED <<disk, panels, order, timer, running>>
  BY <1>1 DEF Start, memory, saving, sends
<1>3. e.op.kind = "getPanels" /\ Len(u) = 1 /\ DOMAIN u = {1} /\ u[1] = e
  BY <1>1 DEF GetPanels
<1>4. \A d : Reads(e) /\ ReadsAll(e, d)
  BY <1>3 DEF Reads, ReadsAll
<1> QED
  BY <1>2, <1>3, <1>4 DEF Unloaded

\* The only command of a session that is being loaded.
LEMMA OnlyRead ==
  ASSUME IInv, Unloaded, phase # "off"
  PROVE  /\ Head(queue) = queue[1] /\ 1 \in DOMAIN queue /\ Tail(queue) = <<>>
         /\ Reads(Head(queue)) /\ ReadsAll(Head(queue), disk)
<1>1. PICK S, q : S = Entry(nextPanel) /\ q = queue /\ q \in Seq(S) /\ Len(q) = 1
  BY DEF IInv, Unloaded
<1>2. q # <<>>
  BY <1>1
<1>3. PICK u : u = Tail(q)
  OBVIOUS
<1>4. /\ Head(q) = q[1] /\ DOMAIN q = 1..Len(q)
      /\ u \in Seq(S) /\ Len(u) = Len(q) - 1
  BY <1>1, <1>2, <1>3, TailParts
<1>5. 1 \in DOMAIN q /\ u = <<>>
  BY <1>1, <1>4
<1> QED
  BY <1>1, <1>3, <1>4, <1>5 DEF Unloaded

\* getPanels answers: every panel has been read.
LEMMA ReadPanelsUnloaded ==
  ASSUME IInv, Unloaded, phase # "off", ReadPanels
  PROVE  phase' = phase /\ Unloaded'
<1>1. /\ Tail(queue) = <<>> /\ UNCHANGED <<disk, phase, panels, order, timer, running>>
  BY OnlyRead DEF ReadPanels, process, memory, saving, sends
<1>2. IsDisk(disk) /\ Whole(disk) /\ DOMAIN disk.panels # {}
  BY DEF IInv, DiskOK, Unloaded, Whole
<1>3. PICK ord \in StoredOrders(disk) :
        Answered([i \in DOMAIN ord |-> [id |-> ord[i], panel |-> StoredPanel(disk, ord[i])]])
  BY <1>2 DEF ReadPanels
<1>4. PICK found, op, e, d :
        /\ found = [i \in DOMAIN ord |-> [id |-> ord[i], panel |-> StoredPanel(disk, ord[i])]]
        /\ op = GetActive(found) /\ e = [op |-> op, rest |-> <<>>] /\ d = disk
  OBVIOUS
<1>5. op.kind = "getActive" /\ op.found = found /\ e.op = op
  BY <1>4 DEF GetActive
<1>6. queue' = <<e>>
  <2>1. queue' = Append(Tail(queue), e)
    BY <1>3, <1>4 DEF Answered
  <2>2. Append(<<>>, e) = <<e>>
    OBVIOUS
  <2> QED
    BY <1>1, <2>1, <2>2
<1>7. /\ ord = d.order /\ ord \in Seq(PanelId) /\ ToSet(ord) = DOMAIN d.panels
      /\ \A i, j \in DOMAIN ord : i # j => ord[i] # ord[j]
  BY <1>2, <1>4, WholeOrder, StoredOrdersSound DEF Whole
<1>8. PICK n \in Nat : n = Len(ord) /\ DOMAIN ord = 1..n /\ ord = [i \in 1..n |-> ord[i]]
  BY <1>7
<1>9. /\ DOMAIN found = 1..n
      /\ \A i \in 1..n : found[i] = [id |-> ord[i], panel |-> StoredPanel(d, ord[i])]
  BY <1>4, <1>8
<1>10. \A i \in 1..n : /\ found[i].id = ord[i] /\ found[i].panel = StoredPanel(d, ord[i])
                       /\ ord[i] \in PanelId /\ ord[i] \in DOMAIN d.panels
  <2> SUFFICES ASSUME NEW i \in 1..n
               PROVE  /\ found[i].id = ord[i] /\ found[i].panel = StoredPanel(d, ord[i])
                      /\ ord[i] \in PanelId /\ ord[i] \in DOMAIN d.panels
    OBVIOUS
  <2>1. PICK p, panel : p = ord[i] /\ panel = StoredPanel(d, ord[i])
    OBVIOUS
  <2>2. found[i] = [id |-> p, panel |-> panel]
    BY <1>9, <2>1
  <2>3. ord[i] \in PanelId /\ ord[i] \in ToSet(ord)
    BY <1>7, <1>8 DEF ToSet
  <2> QED
    BY <1>7, <2>1, <2>2, <2>3
<1>11. FoundOrder(found) = ord
  <2>1. FoundOrder(found) = [i \in 1..n |-> found[i].id]
    BY <1>9 DEF FoundOrder
  <2> QED
    BY <1>8, <1>10, <2>1
<1>12. found \in Seq([id : PanelId, panel : Panel])
  <2>1. \A i \in 1..n : [id |-> ord[i], panel |-> StoredPanel(d, ord[i])]
                           \in [id : PanelId, panel : Panel]
    BY <1>2, <1>4, <1>10, StoredPanelType
  <2>2. PICK T : T = [id : PanelId, panel : Panel]
    OBVIOUS
  <2>3. \A i \in 1..n : found[i] \in T
    BY <1>9, <2>1, <2>2
  <2>4. found = [i \in 1..n |-> found[i]]
    BY <1>4, <1>8
  <2>5. found \in [1..n -> T]
    BY <2>3, <2>4
  <2>6. found \in Seq(T)
    BY <2>5
  <2> QED
    BY <2>2, <2>6
<1>13. PICK ps : ps = FoundPanels(found)
  OBVIOUS
<1>14. /\ DOMAIN ps = ToSet(ord)
       /\ \A i \in 1..n : ps[ord[i]] = StoredPanel(d, ord[i])
  <2>1. IsInjective(FoundOrder(found))
    BY <1>7, <1>11 DEF IsInjective
  <2>2. /\ DOMAIN ps = {found[i].id : i \in 1..n}
        /\ \A i \in 1..n : ps[found[i].id] = found[i].panel
    BY <1>9, <1>12, <1>13, <2>1, FoundAt
  <2>3. ToSet(ord) = {ord[i] : i \in 1..n}
    BY <1>8 DEF ToSet
  <2> QED
    BY <1>10, <2>2, <2>3
<1>15. \A p \in DOMAIN d.panels : ps[p] = StoredPanel(d, p)
  <2> SUFFICES ASSUME NEW p \in DOMAIN d.panels PROVE ps[p] = StoredPanel(d, p)
    OBVIOUS
  <2>1. PICK i \in 1..n : p = ord[i]
    BY <1>7, <1>8 DEF ToSet
  <2> QED
    BY <1>14, <2>1
<1>16. ps = [p \in DOMAIN d.panels |-> StoredPanel(d, p)]
  <2>1. ps = [p \in DOMAIN ps |-> ps[p]]
    BY <1>13 DEF FoundPanels
  <2> QED
    BY <1>7, <1>14, <1>15, <2>1
<1>17. Reads(e) /\ ReadsAll(e, d)
  BY <1>5, <1>7, <1>11, <1>13, <1>16 DEF Reads, ReadsAll
<1>18. Len(queue') = 1 /\ DOMAIN queue' = {1} /\ queue'[1] = e
  BY <1>6
<1> QED
  BY <1>1, <1>4, <1>17, <1>18 DEF Unloaded

\* Panels that are shown as they are stored, while there is nothing to do.
LEMMA StoredDue ==
  ASSUME NEW d, IsDisk(d), Whole(d), WellKept(d),
         NEW ps, ps = [p \in DOMAIN d.panels |-> StoredPanel(d, p)]
  PROVE  Due(<<>>, d, ps, d.order, d.active)
<1>1. PICK q, rows, tabs, ord, act : /\ q = <<>> /\ rows = d.panels /\ tabs = d.tabs
                                     /\ ord = d.order /\ act = d.active
  OBVIOUS
<1>2. DOMAIN q = {} /\ Len(q) = 0
  BY <1>1
<1>3. /\ DOMAIN ps = DOMAIN rows
      /\ \A p \in DOMAIN ps : RowOf(ps[p]) = rows[p] /\ Ids(ps[p].strip) = ToSet(rows[p].ids)
  BY <1>1, WholeRow
<1>4. BriefQueue(q)
  BY <1>2 DEF BriefQueue
<1>5. ASSUME NEW W, NEW R, 0 \in R PROVE Lasts(0, W, R)
  <2>1. 0 \in 0..0 /\ \A k \in (0 + 1)..0 : FALSE
    OBVIOUS
  <2> QED
    BY <1>5, <2>1 DEF Lasts
<1>6. 0 \in 0..Len(q)
  BY <1>2
<1>7. ASSUME NEW p PROVE RowDue(q, rows, ps, p)
  <2>1. RightRow(rows, ps, p)
    BY <1>3 DEF RightRow
  <2>2. 0 \in RowRights(q, rows, ps, p)
    BY <1>6, <2>1 DEF RowRights
  <2>3. Lasts(Len(q), RowWrites(q, p), RowRights(q, rows, ps, p))
    BY <1>2, <1>5, <2>2
  <2> QED
    BY <1>2, <2>3 DEF RowDue
<1>8. MetaDue(q, ord, act, ord, act)
  <2>1. 0 \in OrderRights(q, ord, ord) /\ 0 \in ActiveRights(q, act, act)
    BY <1>6 DEF OrderRights, ActiveRights
  <2>2. /\ Lasts(Len(q), OrderWrites(q), OrderRights(q, ord, ord))
        /\ Lasts(Len(q), ActiveWrites(q), ActiveRights(q, act, act))
    BY <1>2, <1>5, <2>1
  <2> QED
    BY <2>2 DEF MetaDue
<1>9. TabsDue(q, tabs, ps)
  <2> SUFFICES ASSUME NEW t, ~IsOpen(ps, t) PROVE Gone(q, tabs, t)
    BY DEF TabsDue
  <2>1. t \notin DOMAIN tabs
    <3> SUFFICES ASSUME t \in DOMAIN tabs PROVE FALSE
      OBVIOUS
    <3>1. PICK p \in DOMAIN rows : t \in ToSet(rows[p].ids)
      BY <1>1 DEF Whole
    <3>2. p \in DOMAIN ps /\ t \in Ids(ps[p].strip)
      BY <1>3, <3>1
    <3> QED
      BY <3>2 DEF IsOpen
  <2>2. 0 \in 0..((0 + 1) - 1) /\ \A k \in (0 + 1)..((0 + 1) - 1) : FALSE
    OBVIOUS
  <2>3. GoneBefore(q, tabs, t, 0 + 1)
    BY <2>1, <2>2 DEF GoneBefore
  <2> QED
    BY <1>2, <2>3 DEF Gone
<1> QED
  BY <1>1, <1>4, <1>7, <1>8, <1>9 DEF Due

\* The session is restored.
LEMMA RestoreLoads ==
  ASSUME IInv, Unloaded, phase # "off", RestoreSession
  PROVE  phase' = "ready" /\ DueNow'
<1>1. PICK e, found, d, ps : /\ e = Head(queue) /\ found = e.op.found /\ d = disk
                             /\ ps = FoundPanels(found)
  OBVIOUS
<1>2. /\ IsDisk(d) /\ Whole(d) /\ WellKept(d)
      /\ Tail(queue) = <<>> /\ ReadsAll(e, d)
  BY <1>1, OnlyRead DEF IInv, DiskOK, Unloaded
<1>3. /\ e.op.kind = "getActive" /\ phase' = "ready" /\ disk' = d
      /\ Emit(ps, FoundOrder(found), d.active)
      /\ Then(IF d.active = Unsaved
              THEN Append(PutEvery(FoundOrder(found), ps), Meta) ELSE <<>>)
  BY <1>1 DEF RestoreSession
<1>4. FoundOrder(found) = d.order /\ ps = [p \in DOMAIN d.panels |-> StoredPanel(d, p)]
  BY <1>1, <1>2, <1>3 DEF ReadsAll
<1>5. d.active \in DOMAIN ps /\ d.active # Unsaved
  <2>1. d.active \in DOMAIN d.panels /\ DOMAIN d.panels \subseteq PanelId
    BY <1>2 DEF Whole, IsDisk, IsBox
  <2> QED
    BY <1>4, <2>1, StorageAssumption DEF PanelId, Unsaved
<1>6. panels' = ps /\ order' = d.order /\ active' = d.active
  BY <1>3, <1>4, <1>5 DEF Emit
<1>7. queue' = <<>>
  <2>1. Issue(<<>>, panels', order', active') = <<>>
    <3>1. Unfolded(<<>>, panels', order') = <<>>
      BY DEF Unfolded
    <3> QED
      BY <3>1 DEF Issue
  <2>2. queue' = Tail(queue) \o <<>>
    BY <1>3, <1>5, <2>1 DEF Then
  <2> QED
    BY <1>2, <2>2
<1>8. Due(<<>>, d, ps, d.order, d.active)
  BY <1>2, <1>4, StoredDue
<1> QED
  BY <1>3, <1>6, <1>7, <1>8 DEF DueNow

\* A step of a session that is not loaded yet.
LEMMA UnloadedStep ==
  ASSUME IInv, PlacesOK, phase \in {"off", "loading"}, Unloaded, EarlyInput = FALSE,
         SessionNext, faults' = 0
  PROVE  QuietOK'
<1>1. ~TabEvent /\ ~PanelEvent /\ ~Answer /\ ~FlushTimer
  BY UserActs DEF UserEvent, Unloaded, Answer, FlushTimer
<1>2. CASE Start
  BY <1>2, StartUnloaded DEF QuietOK
<1>3. CASE Worker
  <2>1. queue # <<>>
    BY <1>3 DEF Worker, Load, ReadPanels, RestoreSession, SeedSession, ExecuteWrite,
                ExecuteMeta, FailWrite, FailLoad
  <2>2. phase # "off" /\ Reads(Head(queue)) /\ 1 \in DOMAIN queue /\ queue[1] = Head(queue)
    BY <2>1, OnlyRead DEF Unloaded
  <2>3. ~ExecuteWrite /\ ~ExecuteMeta
    BY <2>2 DEF Reads, ExecuteWrite, ExecuteMeta, BoxWrites
  <2>4. ~FailWrite /\ ~FailLoad
    <3>1. FailWrite \/ FailLoad => faults' = faults + 1
      BY DEF FailWrite, FailLoad
    <3>2. faults \in Nat
      BY DEF IInv, ProcessOK
    <3>3. faults' # faults + 1
      BY <3>2
    <3> QED
      BY <3>1, <3>3
  <2>5. ~SeedSession
    <3> SUFFICES ASSUME SeedSession PROVE FALSE
      OBVIOUS
    <3>1. Head(queue).op.kind = "getActive" /\ Head(queue).op.found = <<>>
      BY DEF SeedSession, GetActive
    <3> QED
      BY <2>2, <3>1 DEF PlacesOK, ReadsAside
  <2>6. CASE ReadPanels
    BY <2>2, <2>6, ReadPanelsUnloaded DEF QuietOK
  <2>7. CASE RestoreSession
    BY <2>2, <2>7, RestoreLoads DEF QuietOK, DueNow
  <2> QED
    BY <1>3, <2>3, <2>4, <2>5, <2>6, <2>7 DEF Worker, Load
<1> QED
  BY <1>1, <1>2, <1>3 DEF SessionNext

\* A step of a session that is loaded.
LEMMA LoadedStep ==
  ASSUME IInv, IInv', SInv, PlacesOK, phase = "ready", DueNow, SessionNext, faults' = 0
  PROVE  phase' = "ready" /\ DueNow'
<1>1. CASE TabEvent \/ PanelEvent
  <2>1. phase' = phase
    BY <1>1, UserActs DEF UserEvent, process
  <2>2. DueNow'
    BY <1>1, UserEventDue, FlushDue
  <2> QED
    BY <2>1, <2>2
<1>2. CASE Answer
  <2>1. phase' = phase
    BY <1>2 DEF Answer, ReceiveResponse, StopSend, DropSend, Returns, process
  <2> QED
    BY <1>2, <2>1, AnswerLeavesDue
<1>3. CASE FlushTimer
  <2>1. phase' = phase
    BY <1>3 DEF FlushTimer, process
  <2> QED
    BY <1>3, <2>1, FlushDue
<1>4. ~Start
  BY DEF Start
<1>5. ASSUME queue # <<>> PROVE ~Reads(Head(queue))
  <2>1. 1 \in DOMAIN queue /\ queue[1] = Head(queue)
    BY <1>5, TailMild
  <2> QED
    BY <2>1 DEF SInv, LoadingOK
<1>6. CASE Worker
  <2>1. ~ReadPanels /\ ~RestoreSession /\ ~SeedSession
    BY <1>5 DEF ReadPanels, RestoreSession, SeedSession, Reads, GetPanels, GetActive
  <2>2. ~FailWrite /\ ~FailLoad
    <3>1. FailWrite \/ FailLoad => faults' = faults + 1
      BY DEF FailWrite, FailLoad
    <3>2. faults \in Nat
      BY DEF IInv, ProcessOK
    <3>3. faults' # faults + 1
      BY <3>2
    <3> QED
      BY <3>1, <3>3
  <2>3. CASE ExecuteWrite
    <3>1. phase' = phase
      BY <2>3 DEF ExecuteWrite, process
    <3> QED
      BY <2>3, <3>1, ExecuteDue
  <2>4. CASE ExecuteMeta
    <3>1. phase' = phase
      BY <2>4 DEF ExecuteMeta, process
    <3> QED
      BY <2>4, <3>1, ExecuteMetaDue
  <2> QED
    BY <1>6, <2>1, <2>2, <2>3, <2>4 DEF Worker, Load
<1> QED
  BY <1>1, <1>2, <1>3, <1>4, <1>6 DEF SessionNext

\* At first nothing has been read.
LEMMA InitQuiet ==
  ASSUME SessionsWellKept, SessionsWhole, Init
  PROVE  QuietOK
<1>1. /\ phase = "off" /\ queue = <<>> /\ panels = <<>> /\ order = <<>>
      /\ ~timer /\ running = {} /\ Whole(disk) /\ WellKept(disk)
  BY DEF Init, SessionsWellKept, SessionsWhole
<1>2. DOMAIN queue = {} /\ DOMAIN panels = {}
  BY <1>1
<1> QED
  BY <1>1, <1>2 DEF QuietOK, Unloaded

\* Such disks hold panels and the one that was active.
LEMMA WholeStored ==
  ASSUME SessionsWhole
  PROVE  SessionsStored
<1> SUFFICES ASSUME NEW d \in Sessions
             PROVE  d.active # Unsaved /\ DOMAIN d.panels # {}
  BY DEF SessionsStored
<1>1. d.active \in DOMAIN d.panels /\ DOMAIN d.panels \subseteq PanelId
  BY TabsAssumption DEF SessionsWhole, Whole, IsDisk, IsBox
<1>2. Unsaved \notin PanelId
  BY StorageAssumption DEF PanelId, Unsaved
<1> QED
  BY <1>1, <1>2

\* A queue with nothing in it.
LEMMA NothingDue ==
  ASSUME NEW d, IsDisk(d), NEW ps, NEW ord, NEW act, Due(<<>>, d, ps, ord, act)
  PROVE  /\ d.order = ord /\ d.active = act
         /\ d.panels = [p \in DOMAIN ps |-> RowOf(ps[p])]
         /\ \A t : t \in DOMAIN d.tabs => IsOpen(ps, t)
<1>1. PICK q, rows, tabs : q = <<>> /\ rows = d.panels /\ tabs = d.tabs
  OBVIOUS
<1>2. DOMAIN q = {} /\ Len(q) = 0
  BY <1>1
<1>3. /\ \A p : RowDue(q, rows, ps, p)
      /\ MetaDue(q, d.order, d.active, ord, act)
      /\ TabsDue(q, tabs, ps)
  BY <1>1 DEF Due
<1>4. ASSUME NEW W, NEW R, Lasts(0, W, R) PROVE 0 \in R
  <2>1. \A j \in 0..0 : j = 0
    OBVIOUS
  <2> QED
    BY <1>4, <2>1 DEF Lasts
<1>5. \A p : RightRow(rows, ps, p)
  <2> SUFFICES ASSUME NEW p PROVE RightRow(rows, ps, p)
    OBVIOUS
  <2>1. Lasts(0, RowWrites(q, p), RowRights(q, rows, ps, p))
    BY <1>2, <1>3 DEF RowDue
  <2>2. 0 \in RowRights(q, rows, ps, p)
    BY <1>4, <2>1
  <2> QED
    BY <2>2 DEF RowRights
<1>6. d.order = ord /\ d.active = act
  <2>1. /\ Lasts(0, OrderWrites(q), OrderRights(q, d.order, ord))
        /\ Lasts(0, ActiveWrites(q), ActiveRights(q, d.active, act))
    BY <1>2, <1>3 DEF MetaDue
  <2>2. 0 \in OrderRights(q, d.order, ord) /\ 0 \in ActiveRights(q, d.active, act)
    BY <1>4, <2>1
  <2> QED
    BY <2>2 DEF OrderRights, ActiveRights
<1>7. rows = [p \in DOMAIN ps |-> RowOf(ps[p])]
  <2>1. rows = [p \in DOMAIN rows |-> rows[p]]
    BY <1>1 DEF IsDisk, IsBox
  <2>2. DOMAIN rows = DOMAIN ps /\ \A p \in DOMAIN ps : rows[p] = RowOf(ps[p])
    BY <1>5 DEF RightRow
  <2> QED
    BY <2>1, <2>2
<1>8. ASSUME NEW t, t \in DOMAIN tabs PROVE IsOpen(ps, t)
  <2> SUFFICES ASSUME Gone(q, tabs, t) PROVE FALSE
    BY <1>3 DEF TabsDue
  <2>1. GoneBefore(q, tabs, t, 0 + 1)
    BY <1>2 DEF Gone
  <2>2. \A j \in 0..((0 + 1) - 1) : j = 0
    OBVIOUS
  <2> QED
    BY <1>8, <2>1, <2>2 DEF GoneBefore
<1> QED
  BY <1>1, <1>6, <1>7, <1>8

\* As long as no command has failed, and the user has waited for the session to
\* be loaded, a worker with nothing left to do has made the disk what the next
\* start would rebuild the session from: panels, their order, the active one
\* and the tabs, of which only those on the dirty set may lag behind.
THEOREM QuietDiskMatches ==
  ASSUME SessionsWellKept, SessionsWhole, EarlyInput = FALSE
  PROVE  SessionHistorySpec => [](faults = 0 => DiskMatchesWhenQuiet)
<1> DEFINE Kept == IInv /\ SInv /\ TInv /\ (faults = 0 => PlacesOK /\ QuietOK)
<1>1. HistoryInit => Kept
  BY InitOK, InitSession, InitTracked, InitPlaces, InitQuiet, WholeStored DEF HistoryInit
<1>2. Kept /\ [SessionNext /\ Observe]_hvars => Kept'
  <2> SUFFICES ASSUME Kept, [SessionNext /\ Observe]_hvars PROVE Kept'
    OBVIOUS
  <2>1. [SessionNext]_vars
    BY DEF hvars
  <2>2. [Next]_vars
    BY <2>1 DEF Next
  <2>3. IInv' /\ SInv' /\ TInv'
    BY <2>1, <2>2, StepOK, StepSession, StepTracked
  <2>4. ASSUME faults' = 0 PROVE PlacesOK' /\ QuietOK'
    <3>1. faults = 0
      BY <2>1, <2>4, FaultsGrow DEF IInv, ProcessOK
    <3>2. PlacesOK /\ QuietOK
      BY <3>1
    <3>3. CASE SessionNext /\ Observe
      <4>1. PlacesOK'
        BY <2>3, <2>4, <3>2, <3>3, StepSurvives
      <4>2. CASE phase \in {"off", "loading"}
        BY <2>4, <3>2, <3>3, <4>1, <4>2, UnloadedStep DEF QuietOK
      <4>3. CASE phase \notin {"off", "loading"}
        <5>1. phase = "ready" /\ DueNow
          BY <3>2, <4>3 DEF QuietOK, DueNow
        <5>2. phase' = "ready" /\ DueNow'
          BY <2>3, <2>4, <3>2, <3>3, <5>1, LoadedStep
        <5> QED
          BY <4>1, <5>2 DEF QuietOK, DueNow
      <4> QED
        BY <4>1, <4>2, <4>3
    <3>4. CASE UNCHANGED hvars
      <4>1. UNCHANGED <<disk, queue, phase, panels, order, active, timer, running>>
        BY <3>4 DEF hvars, vars
      <4> QED
        BY <3>2, <3>4, <4>1, StutterSurvives DEF QuietOK, Unloaded, DueNow
    <3> QED
      BY <3>3, <3>4
  <2> QED
    BY <2>3, <2>4
<1>3. Kept => (faults = 0 => DiskMatchesWhenQuiet)
  <2> SUFFICES ASSUME Kept, faults = 0, queue = <<>>, phase = "ready"
               PROVE  /\ disk.order = order /\ disk.active = active
                      /\ disk.panels = [p \in DOMAIN panels |-> RowOf(panels[p])]
                      /\ \A t \in TabId :
                           /\ t \in DOMAIN disk.tabs <=> IsOpen(panels, t)
                           /\ IsOpen(panels, t) => Stored(t) \/ t \in dirty
    BY DEF DiskMatchesWhenQuiet
  <2>1. Due(<<>>, disk, panels, order, active) /\ PlacesOK
    BY DEF QuietOK, DueNow
  <2>2. /\ disk.order = order /\ disk.active = active
        /\ disk.panels = [p \in DOMAIN panels |-> RowOf(panels[p])]
        /\ \A t : t \in DOMAIN disk.tabs => IsOpen(panels, t)
    <3>1. IsDisk(disk)
      BY DEF IInv, DiskOK
    <3>2. PICK d, ps, ord, act : d = disk /\ ps = panels /\ ord = order /\ act = active
      OBVIOUS
    <3>3. /\ d.order = ord /\ d.active = act
          /\ d.panels = [p \in DOMAIN ps |-> RowOf(ps[p])]
          /\ \A t : t \in DOMAIN d.tabs => IsOpen(ps, t)
      BY <2>1, <3>1, <3>2, NothingDue
    <3> QED
      BY <3>2, <3>3
  <2>3. ASSUME NEW t, IsOpen(panels, t)
        PROVE  t \in DOMAIN disk.tabs /\ (Stored(t) \/ t \in dirty)
    <3>1. t \in DOMAIN disk.tabs
      <4>1. HasRow(queue, disk.tabs, t, Len(queue))
        BY <2>1, <2>3 DEF PlacesOK, AllSafe, Safe
      <4>2. Len(queue) = 0 /\ \A j \in 0..0 : j = 0
        OBVIOUS
      <4> QED
        BY <4>1, <4>2 DEF HasRow
    <3>2. Live(t) \in Copies(panels) /\ Live(t).id = t
      BY <2>3, LiveCopy
    <3>3. Tracks(queue, disk.tabs, faults, dirty, Live(t))
      BY <3>2 DEF TInv, Followed
    <3>4. ~OnItsWay(queue, disk.tabs, faults, t, Settled(Live(t)))
      <4>1. DOMAIN queue = {}
        OBVIOUS
      <4> QED
        BY <4>1 DEF OnItsWay
    <3>5. t \in dirty \/ Clean(queue, disk.tabs, t, Settled(Live(t)))
      BY <3>2, <3>3, <3>4 DEF Tracks
    <3> QED
      BY <3>1, <3>5 DEF Clean, Stored, SameContent
  <2> QED
    BY <2>2, <2>3
<1> QED
  BY <1>1, <1>2, <1>3, PTL DEF SessionHistorySpec
=============================================================================
