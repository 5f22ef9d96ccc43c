--------------------------- MODULE TabsBloc_proofs ---------------------------
(***************************************************************************)
(* Type correctness of TabsBloc and the soundness of its panels, for every *)
(* number of tabs, panels, sends, events, failures and kills.              *)
(*                                                                         *)
(* The two are proved together: a handler looks its panel up through the   *)
(* display order, which finds one only because the order names exactly the *)
(* panels there are; and what a handler has left to write is of its type   *)
(* only because of the shape of the steps in the queue; and a new panel is *)
(* new because every panel id in memory, on disk and in the queue is one   *)
(* that was handed out before.                                             *)
(*                                                                         *)
(* First come lemmas about the operators TabStorage is built from, and the *)
(* fact that every box write keeps the disk well formed.                   *)
(*                                                                         *)
(* The second half is about sessions without kills that start from a disk  *)
(* an earlier session left (SessionsWellKept): every tab is in one place,  *)
(* every panel shows one of its tabs, SENDING is shown by the tabs whose   *)
(* send is waited for, and the timelines are newest first.  A kill breaks  *)
(* the first of these for good, between the two writes of a move.          *)
(***************************************************************************)
EXTENDS TabsBloc, TLAPS, FiniteSetTheorems, SequenceTheorems

-----------------------------------------------------------------------------
(* Numbers. *)

\* A non-empty set of numbers has a least one.
LEMMA LeastNumber ==
  ASSUME NEW S \in SUBSET Nat, S # {}
  PROVE  \E n \in S : \A m \in S : n <= m
<1>1. PICK t \in S : TRUE
  OBVIOUS
<1> DEFINE R == StrictSubsetOrdering(0..t)
           T == {0..k : k \in {m \in S : m <= t}}
<1>2. IsWellFoundedOn(R, FiniteSubsetsOf(0..t))
  BY FS_StrictSubsetOrderingWellFounded
<1>3. T \subseteq FiniteSubsetsOf(0..t)
  <2> SUFFICES ASSUME NEW k \in S, k <= t PROVE 0..k \in FiniteSubsetsOf(0..t)
    OBVIOUS
  <2>1. IsFiniteSet(0..k)
    BY FS_Interval
  <2> QED
    BY <2>1 DEF FiniteSubsetsOf
<1>4. T # {}
  BY <1>1
<1>5. PICK x \in T : \A y \in T : ~(<<y, x>> \in R)
  BY <1>2, <1>3, <1>4, WFMin
<1>6. PICK n \in S : n <= t /\ x = 0..n
  BY <1>5
<1>7. \A m \in S : n <= m
  <2> SUFFICES ASSUME NEW m \in S, m < n PROVE FALSE
    OBVIOUS
  <2>1. 0..m \in T
    BY <1>6, <1>1
  <2>2. /\ 0..m \subseteq 0..n
        /\ n \in 0..n /\ n \notin 0..m
    OBVIOUS
  <2>3. <<0..m, 0..n>> \in R
    BY <2>2, <1>6, <1>1 DEF StrictSubsetOrdering
  <2> QED
    BY <2>1, <2>3, <1>5, <1>6
<1> QED
  BY <1>7

\* What Min returns.
LEMMA MinIsLeast ==
  ASSUME NEW S \in SUBSET Nat, S # {}
  PROVE  Min(S) \in S /\ \A m \in S : Min(S) <= m
BY LeastNumber DEF Min

\* A bounded, non-empty set of numbers has a greatest one.
LEMMA GreatestNumber ==
  ASSUME NEW S \in SUBSET Nat, S # {}, NEW b \in Nat, S \subseteq 0..b
  PROVE  \E n \in S : \A m \in S : m <= n
<1> DEFINE U == {u \in Nat : \A m \in S : m <= u}
<1>1. b \in U
  OBVIOUS
<1>2. PICK u \in U : \A v \in U : u <= v
  BY <1>1, LeastNumber
<1>3. u \in S
  <2> SUFFICES ASSUME u \notin S PROVE FALSE
    OBVIOUS
  <2>1. PICK s \in S : TRUE
    OBVIOUS
  <2>2. s < u
    BY <1>2, <2>1
  <2>3. u - 1 \in U
    BY <1>2, <2>2
  <2> QED
    BY <1>2, <2>3
<1> QED
  BY <1>2, <1>3
-----------------------------------------------------------------------------
(* Enumerating positions. *)

IsEnumeration(f, K) ==
  /\ f \in [1..Cardinality(K) -> K]
  /\ \A i, j \in DOMAIN f : i < j => f[i] < f[j]
  /\ \A k \in K : \E i \in DOMAIN f : f[i] = k

\* A finite set of numbers can be enumerated in increasing order: take away
\* the greatest, enumerate the others, and put it at the end.
LEMMA EnumerationExists ==
  ASSUME NEW b \in Nat, NEW K \in SUBSET (0..b)
  PROVE  \E f : IsEnumeration(f, K)
<1> DEFINE Bad == {n \in Nat : \E L \in SUBSET (0..b) :
                     Cardinality(L) = n /\ ~\E f : IsEnumeration(f, L)}
<1>0. \A L \in SUBSET (0..b) : IsFiniteSet(L) /\ Cardinality(L) \in Nat
  <2> TAKE L \in SUBSET (0..b)
  <2>1. IsFiniteSet(0..b)
    BY FS_Interval
  <2> QED
    BY <2>1, FS_Subset, FS_CardinalityType
<1> SUFFICES ASSUME Bad # {} PROVE FALSE
  BY <1>0
<1>1. PICK n \in Bad : \A m \in Bad : n <= m
  BY LeastNumber
<1>2. PICK L \in SUBSET (0..b) : Cardinality(L) = n /\ ~\E f : IsEnumeration(f, L)
  BY <1>1
<1>3. CASE L = {}
  <2>1. Cardinality(L) = 0
    BY <1>3, FS_EmptySet
  <2>2. IsEnumeration([i \in 1..0 |-> 0], L)
    BY <2>1, <1>3 DEF IsEnumeration
  <2> QED
    BY <2>2, <1>2
<1>4. CASE L # {}
  <2>0. L \in SUBSET Nat
    OBVIOUS
  <2>1. PICK k \in L : \A m \in L : m <= k
    BY <1>4, <2>0, GreatestNumber
  <2>2. Cardinality(L \ {k}) = n - 1 /\ n - 1 \in Nat
    BY <1>0, <1>2, FS_RemoveElement
  <2>3. PICK g : IsEnumeration(g, L \ {k})
    BY <2>2, <1>1, <1>2, <1>0
  <2> DEFINE f == [i \in 1..n |-> IF i = n THEN k ELSE g[i]]
  <2>4. n \in Nat /\ 1..(n - 1) = DOMAIN g /\ g \in [1..(n - 1) -> L \ {k}]
    BY <2>3, <2>2 DEF IsEnumeration
  <2>5. f \in [1..n -> L]
    BY <2>4
  <2>6. \A i, j \in 1..n : i < j => f[i] < f[j]
    <3> TAKE i, j \in 1..n
    <3> HAVE i < j
    <3>0. i \in DOMAIN g /\ f[i] = g[i] /\ g[i] \in L \ {k}
      BY <2>4
    <3>1. CASE j = n
      <4>1. g[i] <= k /\ g[i] # k /\ k \in Nat /\ g[i] \in Nat
        BY <3>0, <2>0, <2>1
      <4>2. f[j] = k
        BY <3>1
      <4> QED
        BY <4>1, <4>2, <3>0
    <3>2. CASE j # n
      <4>1. j \in DOMAIN g /\ f[j] = g[j]
        BY <2>4, <3>2
      <4>2. g[i] < g[j]
        BY <2>3, <3>0, <4>1 DEF IsEnumeration
      <4> QED
        BY <3>0, <4>1, <4>2
    <3> QED
      BY <3>1, <3>2
  <2>7. \A m \in L : \E i \in 1..n : f[i] = m
    <3> TAKE m \in L
    <3>1. CASE m = k
      BY <3>1, <2>4, <2>2
    <3>2. CASE m # k
      <4>1. PICK i \in DOMAIN g : g[i] = m
        BY <2>3, <3>2 DEF IsEnumeration
      <4> QED
        BY <4>1, <2>4
    <3> QED
      BY <3>1, <3>2
  <2>8. IsEnumeration(f, L)
    BY <2>5, <2>6, <2>7, <1>2 DEF IsEnumeration
  <2> QED
    BY <2>8, <1>2
<1> QED
  BY <1>3, <1>4

\* Enumeration returns one.
LEMMA EnumerationProperties ==
  ASSUME NEW b \in Nat, NEW K \in SUBSET (0..b)
  PROVE  /\ Cardinality(K) \in Nat
         /\ IsEnumeration(Enumeration(K), K)
<1>1. IsFiniteSet(K)
  <2>1. IsFiniteSet(0..b)
    BY FS_Interval
  <2> QED
    BY <2>1, FS_Subset
<1>2. Cardinality(K) \in Nat
  BY <1>1, FS_CardinalityType
<1>3. \E f \in [1..Cardinality(K) -> K] :
        /\ \A i, j \in DOMAIN f : i < j => f[i] < f[j]
        /\ \A k \in K : \E i \in DOMAIN f : f[i] = k
  <2>1. PICK f : IsEnumeration(f, K)
    BY EnumerationExists
  <2> QED
    BY <2>1 DEF IsEnumeration
<1> QED
  BY <1>2, <1>3 DEF Enumeration, IsEnumeration

\* The subsequence at the positions K: each of its elements stands at one of
\* them, each of them is there, and different elements stand at different ones.
LEMMA SelectedProperties ==
  ASSUME NEW S, NEW s \in Seq(S), NEW K \in SUBSET (DOMAIN s)
  PROVE  /\ Selected(s, K) \in Seq(S)
         /\ DOMAIN Selected(s, K) = 1..Cardinality(K)
         /\ \A i \in DOMAIN Selected(s, K) :
              /\ Enumeration(K)[i] \in K
              /\ Selected(s, K)[i] = s[Enumeration(K)[i]]
         /\ \A i, j \in DOMAIN Selected(s, K) :
              i # j => Enumeration(K)[i] # Enumeration(K)[j]
         /\ \A k \in K : \E i \in DOMAIN Selected(s, K) : Selected(s, K)[i] = s[k]
<1>1. /\ Len(s) \in Nat
      /\ DOMAIN s = 1..Len(s)
      /\ K \in SUBSET (0..Len(s))
      /\ \A i \in DOMAIN s : s[i] \in S
  OBVIOUS
<1>2. Cardinality(K) \in Nat /\ IsEnumeration(Enumeration(K), K)
  BY <1>1, EnumerationProperties
<1>3. /\ Enumeration(K) \in [1..Cardinality(K) -> K]
      /\ \A i, j \in 1..Cardinality(K) : i < j => Enumeration(K)[i] < Enumeration(K)[j]
      /\ \A k \in K : \E i \in 1..Cardinality(K) : Enumeration(K)[i] = k
  BY <1>2 DEF IsEnumeration
<1>4. DOMAIN Selected(s, K) = 1..Cardinality(K)
  BY DEF Selected
<1>5. \A i \in 1..Cardinality(K) :
        Enumeration(K)[i] \in K /\ Selected(s, K)[i] = s[Enumeration(K)[i]]
  BY <1>3 DEF Selected
<1>6. Selected(s, K) \in [1..Cardinality(K) -> S]
  BY <1>1, <1>3 DEF Selected
<1>7. Selected(s, K) \in Seq(S)
  BY <1>6, <1>2
<1>8. \A i, j \in 1..Cardinality(K) : i # j => Enumeration(K)[i] # Enumeration(K)[j]
  BY <1>1, <1>2, <1>3
<1> QED
  BY <1>3, <1>4, <1>5, <1>7, <1>8
-----------------------------------------------------------------------------
(* Boxes. *)

\* Writing a row keeps a box a box.
LEMMA PutBox ==
  ASSUME NEW Keys, NEW Rows, NEW box, IsBox(box, Keys, Rows),
         NEW k \in Keys, NEW row \in Rows
  PROVE  /\ IsBox(Put(box, k, row), Keys, Rows)
         /\ DOMAIN Put(box, k, row) = DOMAIN box \cup {k}
         /\ Put(box, k, row)[k] = row
BY DEF IsBox, Put

\* So does deleting rows.
LEMMA DeleteBox ==
  ASSUME NEW Keys, NEW Rows, NEW box, IsBox(box, Keys, Rows), NEW ks
  PROVE  /\ IsBox(Delete(box, ks), Keys, Rows)
         /\ DOMAIN Delete(box, ks) = DOMAIN box \ ks
BY DEF IsBox, Delete

\* The box writes of the commands keep the disk well formed.
BoxWrite ==
  [kind : {"putTab"}, tab : Tab]
  \cup [kind : {"deleteTabs"}, tabs : SUBSET TabId]
  \cup [kind : {"putPanel"}, panel : PanelId, row : Row]
  \cup [kind : {"deletePanel"}, panel : PanelId]
  \cup [kind : {"putMeta"}, order : Seq(PanelId), active : PanelId \cup {NoPanel}]
  \cup [kind : {"putActive"}, active : PanelId \cup {NoPanel}]

\* Whatever a command writes, the rows stay those of tabs and panels.
LEMMA AppliedDisk ==
  ASSUME NEW d, IsDisk(d), NEW op \in BoxWrite
  PROVE  IsDisk(Applied(op, d))
<1>0. /\ d = [tabs |-> d.tabs, panels |-> d.panels, order |-> d.order,
               active |-> d.active]
      /\ IsBox(d.tabs, TabId, Tab)
      /\ IsBox(d.panels, PanelId, Row)
      /\ d.order \in Seq(PanelId)
      /\ d.active \in PanelId \cup {NoPanel, Unsaved}
  BY DEF IsDisk
<1>1. CASE op \in [kind : {"putTab"}, tab : Tab]
  <2>1. op.tab \in Tab /\ op.tab.id \in TabId
    BY <1>1 DEF Tab
  <2>2. IsBox(Put(d.tabs, op.tab.id, op.tab), TabId, Tab)
    BY <1>0, <2>1, PutBox
  <2>3. Applied(op, d) = [d EXCEPT !.tabs = Put(d.tabs, op.tab.id, op.tab)]
    BY <1>1 DEF Applied
  <2> QED
    BY <1>0, <2>2, <2>3 DEF IsDisk
<1>2. CASE op \in [kind : {"deleteTabs"}, tabs : SUBSET TabId]
  <2>1. IsBox(Delete(d.tabs, op.tabs), TabId, Tab)
    BY <1>0, DeleteBox
  <2>2. Applied(op, d) = [d EXCEPT !.tabs = Delete(d.tabs, op.tabs)]
    BY <1>2 DEF Applied
  <2> QED
    BY <1>0, <2>1, <2>2 DEF IsDisk
<1>3. CASE op \in [kind : {"putPanel"}, panel : PanelId, row : Row]
  <2>1. IsBox(Put(d.panels, op.panel, op.row), PanelId, Row)
    BY <1>0, <1>3, PutBox
  <2>2. Applied(op, d) = [d EXCEPT !.panels = Put(d.panels, op.panel, op.row)]
    BY <1>3 DEF Applied
  <2> QED
    BY <1>0, <2>1, <2>2 DEF IsDisk
<1>4. CASE op \in [kind : {"deletePanel"}, panel : PanelId]
  <2>1. IsBox(Delete(d.panels, {op.panel}), PanelId, Row)
    BY <1>0, DeleteBox
  <2>2. Applied(op, d) = [d EXCEPT !.panels = Delete(d.panels, {op.panel})]
    BY <1>4 DEF Applied
  <2> QED
    BY <1>0, <2>1, <2>2 DEF IsDisk
<1>5. CASE op \in [kind : {"putMeta"}, order : Seq(PanelId),
                   active : PanelId \cup {NoPanel}]
  <2>1. Applied(op, d) = [d EXCEPT !.order = op.order]
    BY <1>5 DEF Applied
  <2> QED
    BY <1>0, <1>5, <2>1 DEF IsDisk
<1>6. CASE op \in [kind : {"putActive"}, active : PanelId \cup {NoPanel}]
  <2>1. Applied(op, d) = [d EXCEPT !.active = op.active]
    BY <1>6 DEF Applied
  <2> QED
    BY <1>0, <1>6, <2>1 DEF IsDisk
<1> QED
  BY <1>1, <1>2, <1>3, <1>4, <1>5, <1>6 DEF BoxWrite

-----------------------------------------------------------------------------
(* Reading the panels back. *)

\* The arrangements of a finite set of numbers are sequences without repetition.
LEMMA ArrangementProperties ==
  ASSUME NEW b \in Nat, NEW K \in SUBSET (0..b), NEW r \in SetToSeqs(K)
  PROVE  /\ r \in Seq(K)
         /\ \A i, j \in DOMAIN r : i # j => r[i] # r[j]
         /\ K # {} => r # <<>>
<1>1. IsFiniteSet(K)
  <2>1. IsFiniteSet(0..b)
    BY FS_Interval
  <2> QED
    BY <2>1, FS_Subset
<1>2. Cardinality(K) \in Nat /\ (K # {} => Cardinality(K) # 0)
  BY <1>1, FS_CardinalityType, FS_EmptySet
<1>3. /\ r \in [1..Cardinality(K) -> K]
      /\ \A i, j \in 1..Cardinality(K) : i # j => r[i] # r[j]
  BY DEF SetToSeqs
<1>4. r \in Seq(K) /\ Len(r) = Cardinality(K)
  BY <1>2, <1>3
<1> QED
  BY <1>2, <1>3, <1>4

\* getPanels names each panel once, whatever a half written session left in
\* the stored order.
LEMMA StoredOrdersSound ==
  ASSUME NEW d, IsDisk(d), NEW ord \in StoredOrders(d)
  PROVE  /\ ord \in Seq(PanelId)
         /\ ToSet(ord) \subseteq DOMAIN d.panels
         /\ \A i, j \in DOMAIN ord : i # j => ord[i] # ord[j]
<1> DEFINE known == {i \in DOMAIN d.order :
                       /\ d.order[i] \in DOMAIN d.panels
                       /\ \A j \in 1..(i - 1) : d.order[j] # d.order[i]}
           rest  == DOMAIN d.panels \ ToSet(d.order)
           first == Selected(d.order, known)
<1>1. d.order \in Seq(PanelId) /\ DOMAIN d.panels \subseteq PanelId
  BY DEF IsDisk, IsBox
<1>2. PICK r \in SetToSeqs(rest) : ord = first \o r
  BY DEF StoredOrders
<1>3. rest \in SUBSET (0..MaxPanels) /\ MaxPanels \in Nat
  BY <1>1, StorageAssumption DEF PanelId
<1>4. r \in Seq(rest) /\ \A i, j \in DOMAIN r : i # j => r[i] # r[j]
  BY <1>3, ArrangementProperties
<1>5. /\ first \in Seq(PanelId)
      /\ \A i \in DOMAIN first :
           Enumeration(known)[i] \in known /\ first[i] = d.order[Enumeration(known)[i]]
      /\ \A i, j \in DOMAIN first :
           i # j => Enumeration(known)[i] # Enumeration(known)[j]
  <2>1. known \in SUBSET DOMAIN d.order
    OBVIOUS
  <2> HIDE DEF known
  <2> QED
    BY <1>1, <2>1, SelectedProperties
<1>6. \A k, l \in known : k # l => d.order[k] # d.order[l]
  <2>1. DOMAIN d.order = 1..Len(d.order) /\ Len(d.order) \in Nat
    BY <1>1
  <2> SUFFICES ASSUME NEW k \in known, NEW l \in known, k < l
               PROVE  d.order[k] # d.order[l]
    BY <2>1
  <2>2. k \in 1..(l - 1)
    BY <2>1
  <2> QED
    BY <2>2
<1>7. ASSUME NEW i \in DOMAIN first, NEW j \in DOMAIN first, i # j
      PROVE  first[i] # first[j]
  <2> HIDE DEF known, first
  <2>1. /\ Enumeration(known)[i] \in known /\ first[i] = d.order[Enumeration(known)[i]]
        /\ Enumeration(known)[j] \in known /\ first[j] = d.order[Enumeration(known)[j]]
        /\ Enumeration(known)[i] # Enumeration(known)[j]
    BY <1>5, <1>7
  <2> QED
    BY <1>6, <2>1
<1>8. \A i \in DOMAIN first : first[i] \in DOMAIN d.panels /\ first[i] \in ToSet(d.order)
  BY <1>5 DEF ToSet
<1>9. \A i \in DOMAIN r : r[i] \in DOMAIN d.panels /\ r[i] \notin ToSet(d.order)
  BY <1>4
<1> HIDE DEF known, rest, first
<1>10. r \in Seq(PanelId)
  BY <1>1, <1>4 DEF rest
<1>11. /\ Len(first) \in Nat /\ DOMAIN first = 1..Len(first)
       /\ Len(r) \in Nat /\ DOMAIN r = 1..Len(r)
       /\ ord \in Seq(PanelId)
       /\ DOMAIN ord = 1..(Len(first) + Len(r))
       /\ \A i \in DOMAIN ord :
            ord[i] = IF i <= Len(first) THEN first[i] ELSE r[i - Len(first)]
  BY <1>2, <1>5, <1>10
<1>12. \A i \in DOMAIN ord :
         \/ i \in DOMAIN first /\ ord[i] = first[i]
         \/ i - Len(first) \in DOMAIN r /\ ord[i] = r[i - Len(first)]
  BY <1>11
<1>13. ToSet(ord) \subseteq DOMAIN d.panels
  BY <1>8, <1>9, <1>12 DEF ToSet
<1>14. \A i, j \in DOMAIN ord : i # j => ord[i] # ord[j]
  <2> TAKE i, j \in DOMAIN ord
  <2> HAVE i # j
  <2>1. CASE i \in DOMAIN first /\ j \in DOMAIN first
    BY <1>7, <1>11, <2>1
  <2>2. CASE i \in DOMAIN first /\ j \notin DOMAIN first
    BY <1>8, <1>9, <1>11, <2>2
  <2>3. CASE i \notin DOMAIN first /\ j \in DOMAIN first
    <3>1. ord[i] \notin ToSet(d.order)
      BY <1>9, <1>11, <2>3
    <3>2. ord[j] \in ToSet(d.order)
      BY <1>8, <1>11, <2>3
    <3> QED
      BY <3>1, <3>2
  <2>4. CASE i \notin DOMAIN first /\ j \notin DOMAIN first
    <3>1. /\ i - Len(first) \in DOMAIN r /\ j - Len(first) \in DOMAIN r
          /\ i - Len(first) # j - Len(first)
      BY <1>11, <2>4
    <3>2. r[i - Len(first)] # r[j - Len(first)]
      BY <3>1, <1>4
    <3> QED
      BY <3>2, <1>11, <2>4
  <2> QED
    BY <2>1, <2>2, <2>3, <2>4
<1> QED
  BY <1>11, <1>13, <1>14

\* The strip a stored row rebuilds to is made of tabs.
LEMMA StoredStripType ==
  ASSUME NEW d, IsDisk(d), NEW ids \in Seq(TabId)
  PROVE  StoredStrip(d, ids) \in Seq(Tab)
<1> DEFINE K    == {i \in DOMAIN ids : ids[i] \in DOMAIN d.tabs}
           live == Selected(ids, K)
<1>1. d.tabs \in [DOMAIN d.tabs -> Tab]
  BY DEF IsDisk, IsBox
<1>2. K \in SUBSET DOMAIN ids
  OBVIOUS
<1>3. /\ live \in Seq(TabId)
      /\ \A i \in DOMAIN live : Enumeration(K)[i] \in K /\ live[i] = ids[Enumeration(K)[i]]
  BY <1>2, SelectedProperties
<1>4. \A i \in DOMAIN live : live[i] \in DOMAIN d.tabs
  BY <1>3
<1>5. \A tab \in Tab : Settled(tab) \in Tab
  BY DEF Settled, Tab
<1> HIDE DEF K, live
<1>6. \A i \in DOMAIN live : Settled(d.tabs[live[i]]) \in Tab
  BY <1>1, <1>4, <1>5
<1>7. DOMAIN live = 1..Len(live) /\ Len(live) \in Nat
  BY <1>3
<1>8. [i \in DOMAIN live |-> Settled(d.tabs[live[i]])] \in Seq(Tab)
  BY <1>6, <1>7
<1> QED
  BY <1>8 DEF StoredStrip, live, K

-----------------------------------------------------------------------------
(* Sequences. *)

\* A sequence is typed by its elements.
LEMMA SequenceOf ==
  ASSUME NEW S, NEW s \in Seq(S), NEW T, \A i \in DOMAIN s : s[i] \in T
  PROVE  s \in Seq(T)
<1>1. /\ Len(s) \in Nat /\ DOMAIN s = 1..Len(s)
      /\ s \in [1..Len(s) -> S]
  BY LenProperties
<1>2. s \in [1..Len(s) -> T]
  BY <1>1
<1> QED
  BY <1>1, <1>2, SeqDef

\* An element put in a sequence: the ones from its place on move up.
LEMMA InsertAtType ==
  ASSUME NEW S, NEW s \in Seq(S), NEW i \in 1..(Len(s) + 1), NEW e \in S
  PROVE  /\ InsertAt(s, i, e) \in Seq(S)
         /\ Len(InsertAt(s, i, e)) = Len(s) + 1
         /\ \A k \in 1..(Len(s) + 1) :
              InsertAt(s, i, e)[k] = IF k < i THEN s[k]
                                     ELSE IF k = i THEN e ELSE s[k - 1]
<1> DEFINE A == SubSeq(s, 1, i - 1)
           B == SubSeq(s, i, Len(s))
<1>1. /\ A \in Seq(S) /\ Len(A) = i - 1 /\ \A k \in 1..(i - 1) : A[k] = s[k]
      /\ B \in Seq(S) /\ Len(B) = Len(s) - i + 1
      /\ \A k \in 1..(Len(s) - i + 1) : B[k] = s[i + k - 1]
  OBVIOUS
<1>2. /\ <<e>> \in Seq(S) /\ Len(<<e>>) = 1 /\ <<e>>[1] = e
      /\ Len(s) \in Nat /\ i \in Nat
  OBVIOUS
<1> DEFINE C == A \o <<e>>
<1>3. InsertAt(s, i, e) = C \o B
  BY DEF InsertAt
<1> HIDE DEF A, B
<1>4. /\ C \in Seq(S) /\ Len(C) = i
      /\ \A k \in 1..i : C[k] = IF k < i THEN s[k] ELSE e
  BY <1>1, <1>2
<1> HIDE DEF C
<1>5. /\ C \o B \in Seq(S) /\ Len(C \o B) = Len(s) + 1
      /\ \A k \in 1..(Len(s) + 1) : (C \o B)[k] =
           IF k <= i THEN C[k] ELSE B[k - i]
  <2>1. Len(C) + Len(B) = Len(s) + 1
    BY <1>1, <1>2, <1>4
  <2>2. C \in Seq(S) /\ B \in Seq(S)
    BY <1>1, <1>4
  <2>3. /\ C \o B \in Seq(S)
        /\ Len(C \o B) = Len(C) + Len(B)
        /\ \A k \in 1..Len(C) + Len(B) : (C \o B)[k] =
             IF k <= Len(C) THEN C[k] ELSE B[k - Len(C)]
    BY <2>2, ConcatProperties
  <2> QED
    BY <1>4, <2>1, <2>3
<1>6. \A k \in 1..(Len(s) + 1) : k > i => B[k - i] = s[k - 1]
  BY <1>1, <1>2
<1> QED
  BY <1>2, <1>3, <1>4, <1>5, <1>6

\* An element taken out of a sequence: the ones behind it move down.
LEMMA RemoveAtType ==
  ASSUME NEW S, NEW s \in Seq(S), NEW i \in 1..Len(s)
  PROVE  /\ RemoveAt(s, i) \in Seq(S)
         /\ Len(RemoveAt(s, i)) = Len(s) - 1
         /\ \A k \in 1..(Len(s) - 1) :
              RemoveAt(s, i)[k] = IF k < i THEN s[k] ELSE s[k + 1]
<1> DEFINE A == SubSeq(s, 1, i - 1)
           B == SubSeq(s, i + 1, Len(s))
<1>1. /\ A \in Seq(S) /\ Len(A) = i - 1 /\ \A k \in 1..(i - 1) : A[k] = s[k]
      /\ B \in Seq(S) /\ Len(B) = Len(s) - i
      /\ \A k \in 1..(Len(s) - i) : B[k] = s[i + k]
  OBVIOUS
<1>2. Len(s) \in Nat /\ i \in Nat /\ i <= Len(s) /\ RemoveAt(s, i) = A \o B
  BY DEF RemoveAt
<1> DEFINE C == A \o B
<1> HIDE DEF A, B
<1>3. /\ C \in Seq(S) /\ Len(C) = Len(A) + Len(B)
      /\ \A k \in 1..(Len(A) + Len(B)) :
           C[k] = IF k <= Len(A) THEN A[k] ELSE B[k - Len(A)]
  <2>1. A \in Seq(S) /\ B \in Seq(S)
    BY <1>1
  <2> QED
    BY <2>1, ConcatProperties
<1>4. RemoveAt(s, i) = C
  BY <1>2
<1> HIDE DEF C
<1>5. Len(A) + Len(B) = Len(s) - 1
  BY <1>1, <1>2
<1>6. ASSUME NEW k \in 1..(Len(s) - 1)
      PROVE  C[k] = IF k < i THEN s[k] ELSE s[k + 1]
  <2>1. C[k] = IF k <= i - 1 THEN A[k] ELSE B[k - (i - 1)]
    BY <1>1, <1>3, <1>5
  <2>2. CASE k < i
    <3>1. k \in 1..(i - 1)
      BY <1>2, <2>2
    <3> QED
      BY <1>1, <1>2, <2>1, <2>2, <3>1
  <2>3. CASE ~(k < i)
    <3>1. k - (i - 1) \in 1..(Len(s) - i) /\ i + (k - (i - 1)) = k + 1
      BY <1>2, <2>3
    <3>2. B[k - (i - 1)] = s[k + 1]
      BY <1>1, <3>1
    <3> QED
      BY <1>2, <2>1, <2>3, <3>2
  <2> QED
    BY <2>2, <2>3
<1> QED
  BY <1>3, <1>4, <1>5, <1>6

\* An order without repetition stays one when an element is taken out ...
LEMMA RemoveAtInjective ==
  ASSUME NEW S, NEW s \in Seq(S), IsInjective(s), NEW i \in 1..Len(s)
  PROVE  /\ IsInjective(RemoveAt(s, i))
         /\ ToSet(RemoveAt(s, i)) = ToSet(s) \ {s[i]}
<1>1. /\ RemoveAt(s, i) \in Seq(S)
      /\ Len(RemoveAt(s, i)) = Len(s) - 1
      /\ \A k \in 1..(Len(s) - 1) :
           RemoveAt(s, i)[k] = IF k < i THEN s[k] ELSE s[k + 1]
  BY RemoveAtType
<1>2. /\ Len(s) \in Nat /\ DOMAIN s = 1..Len(s)
      /\ DOMAIN RemoveAt(s, i) = 1..(Len(s) - 1)
      /\ \A k, l \in 1..Len(s) : s[k] = s[l] => k = l
  <2>1. Len(s) \in Nat /\ DOMAIN s = 1..Len(s)
    OBVIOUS
  <2>2. DOMAIN RemoveAt(s, i) = 1..(Len(s) - 1)
    BY <1>1
  <2>3. \A k, l \in 1..Len(s) : s[k] = s[l] => k = l
    BY <2>1 DEF IsInjective
  <2> QED
    BY <2>1, <2>2, <2>3
<1>3. IsInjective(RemoveAt(s, i))
  <2> DEFINE from(k) == IF k < i THEN k ELSE k + 1
  <2>1. \A k \in 1..(Len(s) - 1) :
          from(k) \in 1..Len(s) /\ RemoveAt(s, i)[k] = s[from(k)]
    BY <1>1, <1>2
  <2>2. \A k, l \in 1..(Len(s) - 1) : from(k) = from(l) => k = l
    BY <1>2
  <2> HIDE DEF from
  <2>3. \A k, l \in 1..(Len(s) - 1) :
          RemoveAt(s, i)[k] = RemoveAt(s, i)[l] => k = l
    BY <1>2, <2>1, <2>2
  <2> QED
    BY <1>2, <2>3 DEF IsInjective
<1>4. ToSet(RemoveAt(s, i)) \subseteq ToSet(s) \ {s[i]}
  <2> SUFFICES ASSUME NEW k \in 1..(Len(s) - 1)
               PROVE  /\ RemoveAt(s, i)[k] \in ToSet(s)
                      /\ RemoveAt(s, i)[k] # s[i]
    BY <1>2 DEF ToSet
  <2>1. CASE k < i
    <3>1. /\ k \in 1..Len(s) /\ i \in 1..Len(s) /\ k # i
          /\ RemoveAt(s, i)[k] = s[k]
      BY <1>1, <1>2, <2>1
    <3> QED
      BY <1>2, <3>1 DEF ToSet
  <2>2. CASE k >= i
    <3>1. /\ k + 1 \in 1..Len(s) /\ i \in 1..Len(s) /\ k + 1 # i
          /\ RemoveAt(s, i)[k] = s[k + 1]
      BY <1>1, <1>2, <2>2
    <3> QED
      BY <1>2, <3>1 DEF ToSet
  <2> QED
    BY <1>2, <2>1, <2>2
<1>5. ToSet(s) \ {s[i]} \subseteq ToSet(RemoveAt(s, i))
  <2> SUFFICES ASSUME NEW k \in 1..Len(s), k # i
               PROVE  s[k] \in ToSet(RemoveAt(s, i))
    BY <1>2 DEF ToSet
  <2>1. CASE k < i
    <3>1. k \in 1..(Len(s) - 1) /\ RemoveAt(s, i)[k] = s[k]
      BY <1>1, <1>2, <2>1
    <3> QED
      BY <1>2, <3>1 DEF ToSet
  <2>2. CASE k > i
    <3>1. k - 1 \in 1..(Len(s) - 1) /\ RemoveAt(s, i)[k - 1] = s[k]
      BY <1>1, <1>2, <2>2
    <3> QED
      BY <1>2, <3>1 DEF ToSet
  <2> QED
    BY <1>2, <2>1, <2>2
<1> QED
  BY <1>3, <1>4, <1>5

\* ... and when a new one is put in.
LEMMA InsertAtInjective ==
  ASSUME NEW S, NEW s \in Seq(S), IsInjective(s), NEW i \in 1..(Len(s) + 1),
         NEW e \in S, e \notin ToSet(s)
  PROVE  /\ IsInjective(InsertAt(s, i, e))
         /\ ToSet(InsertAt(s, i, e)) = ToSet(s) \cup {e}
<1>1. /\ InsertAt(s, i, e) \in Seq(S)
      /\ Len(InsertAt(s, i, e)) = Len(s) + 1
      /\ \A k \in 1..(Len(s) + 1) :
           InsertAt(s, i, e)[k] = IF k < i THEN s[k]
                                  ELSE IF k = i THEN e ELSE s[k - 1]
  BY InsertAtType
<1>2. /\ Len(s) \in Nat /\ DOMAIN s = 1..Len(s)
      /\ DOMAIN InsertAt(s, i, e) = 1..(Len(s) + 1)
      /\ \A k, l \in 1..Len(s) : s[k] = s[l] => k = l
      /\ \A k \in 1..Len(s) : s[k] # e
  BY <1>1 DEF IsInjective, ToSet
<1>3. IsInjective(InsertAt(s, i, e))
  BY <1>1, <1>2 DEF IsInjective
<1>4. ToSet(InsertAt(s, i, e)) \subseteq ToSet(s) \cup {e}
  <2> SUFFICES ASSUME NEW k \in 1..(Len(s) + 1)
               PROVE  InsertAt(s, i, e)[k] \in ToSet(s) \cup {e}
    BY <1>2 DEF ToSet
  <2>1. CASE k < i
    <3>1. k \in 1..Len(s) /\ InsertAt(s, i, e)[k] = s[k]
      BY <1>1, <1>2, <2>1
    <3> QED
      BY <1>2, <3>1 DEF ToSet
  <2>2. CASE k = i
    BY <1>1, <2>2
  <2>3. CASE k > i
    <3>1. k - 1 \in 1..Len(s) /\ InsertAt(s, i, e)[k] = s[k - 1]
      BY <1>1, <1>2, <2>3
    <3> QED
      BY <1>2, <3>1 DEF ToSet
  <2> QED
    BY <2>1, <2>2, <2>3
<1>5. e \in ToSet(InsertAt(s, i, e))
  <2>1. i \in DOMAIN InsertAt(s, i, e) /\ InsertAt(s, i, e)[i] = e
    BY <1>1, <1>2
  <2> QED
    BY <2>1 DEF ToSet
<1>6. ToSet(s) \subseteq ToSet(InsertAt(s, i, e))
  <2> SUFFICES ASSUME NEW k \in 1..Len(s)
               PROVE  s[k] \in ToSet(InsertAt(s, i, e))
    BY <1>2 DEF ToSet
  <2>1. CASE k < i
    <3>1. k \in 1..(Len(s) + 1) /\ InsertAt(s, i, e)[k] = s[k]
      BY <1>1, <1>2, <2>1
    <3> QED
      BY <1>2, <3>1 DEF ToSet
  <2>2. CASE k >= i
    <3>1. k + 1 \in 1..(Len(s) + 1) /\ InsertAt(s, i, e)[k + 1] = s[k]
      BY <1>1, <1>2, <2>2
    <3> QED
      BY <1>2, <3>1 DEF ToSet
  <2> QED
    BY <1>2, <2>1, <2>2
<1> QED
  BY <1>3, <1>4, <1>5, <1>6

\* The same for one put at the end.
LEMMA AppendInjectiveOrder ==
  ASSUME NEW S, NEW s \in Seq(S), IsInjective(s), NEW e \in S, e \notin ToSet(s)
  PROVE  /\ Append(s, e) \in Seq(S)
         /\ Append(s, e) # <<>>
         /\ IsInjective(Append(s, e))
         /\ ToSet(Append(s, e)) = ToSet(s) \cup {e}
<1>1. /\ Append(s, e) \in Seq(S) /\ Len(Append(s, e)) = Len(s) + 1
      /\ Len(s) \in Nat /\ DOMAIN s = 1..Len(s)
      /\ DOMAIN Append(s, e) = 1..(Len(s) + 1)
      /\ \A k \in 1..Len(s) : Append(s, e)[k] = s[k]
      /\ Append(s, e)[Len(s) + 1] = e
      /\ Append(s, e) # <<>>
  OBVIOUS
<1>2. /\ \A k, l \in 1..Len(s) : s[k] = s[l] => k = l
      /\ \A k \in 1..Len(s) : s[k] # e
  BY <1>1 DEF IsInjective, ToSet
<1>3. IsInjective(Append(s, e))
  BY <1>1, <1>2 DEF IsInjective
<1>4. ToSet(s) \subseteq ToSet(Append(s, e)) /\ e \in ToSet(Append(s, e))
  <2>1. Len(s) + 1 \in DOMAIN Append(s, e)
    BY <1>1
  <2>2. \A k \in DOMAIN s : k \in DOMAIN Append(s, e) /\ Append(s, e)[k] = s[k]
    BY <1>1
  <2> QED
    BY <1>1, <2>1, <2>2 DEF ToSet
<1>5. ToSet(Append(s, e)) \subseteq ToSet(s) \cup {e}
  BY <1>1 DEF ToSet
<1> QED
  BY <1>1, <1>3, <1>4, <1>5

\* Taking an element out and putting it back elsewhere loses nothing.
LEMMA MovedInjective ==
  ASSUME NEW S, NEW s \in Seq(S), IsInjective(s),
         NEW i \in 1..Len(s), NEW j \in 1..Len(s)
  PROVE  IsInjective(Moved(s, i, j)) /\ ToSet(Moved(s, i, j)) = ToSet(s)
<1>1. RemoveAt(s, i) \in Seq(S) /\ Len(RemoveAt(s, i)) = Len(s) - 1
  BY RemoveAtType
<1>2. /\ IsInjective(RemoveAt(s, i))
      /\ ToSet(RemoveAt(s, i)) = ToSet(s) \ {s[i]}
  BY RemoveAtInjective
<1>3. s[i] \in S /\ j \in 1..(Len(RemoveAt(s, i)) + 1) /\ s[i] \in ToSet(s)
  BY <1>1 DEF ToSet
<1>4. /\ IsInjective(InsertAt(RemoveAt(s, i), j, s[i]))
      /\ ToSet(InsertAt(RemoveAt(s, i), j, s[i])) = ToSet(RemoveAt(s, i)) \cup {s[i]}
  BY <1>1, <1>2, <1>3, InsertAtInjective
<1> QED
  BY <1>2, <1>3, <1>4 DEF Moved

\* The strip of a panel keeps its type when a tab is dragged.
LEMMA MovedType ==
  ASSUME NEW S, NEW s \in Seq(S), NEW i \in 1..Len(s), NEW j \in 1..Len(s)
  PROVE  Moved(s, i, j) \in Seq(S)
<1>1. RemoveAt(s, i) \in Seq(S) /\ Len(RemoveAt(s, i)) = Len(s) - 1
  BY RemoveAtType
<1>2. s[i] \in S /\ j \in 1..(Len(RemoveAt(s, i)) + 1)
  BY <1>1
<1> QED
  BY <1>1, <1>2, InsertAtType DEF Moved

\* The positions a search returns.
LEMMA PositionProperties ==
  ASSUME NEW strip \in Seq(Tab), NEW t
  PROVE  /\ Position(strip, t) \in 0..Len(strip)
         /\ Position(strip, t) # 0 => strip[Position(strip, t)].id = t
         /\ t \in Ids(strip) => Position(strip, t) # 0
<1> DEFINE I == {i \in 1..Len(strip) : strip[i].id = t}
<1>1. Position(strip, t) = IF I # {} THEN Min(I) ELSE 0
  BY DEF Position, SelectInSeq
<1>2. I \in SUBSET Nat /\ Len(strip) \in Nat
  OBVIOUS
<1>3. I # {} => Min(I) \in I
  BY <1>2, MinIsLeast
<1> QED
  BY <1>1, <1>2, <1>3 DEF Ids
-----------------------------------------------------------------------------
(* Panels and the order that displays them. *)

Sound(ps, ord, n) ==
  /\ IsBox(ps, PanelId, Panel)
  /\ DOMAIN ps \subseteq 1..n
  /\ ord \in Seq(PanelId)
  /\ IsInjective(ord)
  /\ ToSet(ord) = DOMAIN ps

\* The parts of a tab and of a panel.
LEMMA TabParts ==
  \A tab \in Tab : /\ tab.id \in TabId
                    /\ tab.node \in Nodes \cup {NoNode}
                    /\ tab.config \in Configs
                    /\ tab.history \in Seq(SendId)
BY DEF Tab

\* The parts of a panel, and of the tabs it shows.
LEMMA PanelParts ==
  ASSUME NEW ps, IsBox(ps, PanelId, Panel), NEW p \in DOMAIN ps
  PROVE  /\ p \in PanelId /\ ps[p] \in Panel
         /\ ps[p].strip \in Seq(Tab)
         /\ ps[p].name \in Nat
         /\ ps[p].active \in TabId \cup {NoTab}
         /\ \A i \in 1..Len(ps[p].strip) :
              ps[p].strip[i] \in Tab /\ ps[p].strip[i].id \in TabId
<1>1. /\ p \in PanelId /\ ps[p] \in Panel
      /\ ps[p].strip \in Seq(Tab)
      /\ ps[p].name \in Nat
      /\ ps[p].active \in TabId \cup {NoTab}
  BY DEF IsBox, Panel
<1>2. \A i \in 1..Len(ps[p].strip) : ps[p].strip[i] \in Tab
  BY <1>1
<1> QED
  BY <1>1, <1>2, TabParts

\* Changing the strip and the active tab of one panel.
LEMMA PanelEdit ==
  ASSUME NEW ps, IsBox(ps, PanelId, Panel), NEW p \in DOMAIN ps,
         NEW panel \in Panel
  PROVE  /\ IsBox([ps EXCEPT ![p] = panel], PanelId, Panel)
         /\ DOMAIN [ps EXCEPT ![p] = panel] = DOMAIN ps
BY DEF IsBox

\* The row of a panel.
LEMMA RowOfType ==
  ASSUME NEW panel \in Panel
  PROVE  RowOf(panel) \in Row
<1>1. panel.strip \in Seq(Tab) /\ Len(panel.strip) \in Nat
  BY DEF Panel
<1>2. /\ DOMAIN panel.strip = 1..Len(panel.strip)
      /\ \A i \in 1..Len(panel.strip) : panel.strip[i] \in Tab
  BY <1>1
<1>3. [i \in DOMAIN panel.strip |-> panel.strip[i].id] \in Seq(TabId)
  BY <1>1, <1>2, TabParts
<1> QED
  BY <1>3 DEF RowOf, Row, Panel

\* A sound order finds every open tab: the panel that owns it, its place in
\* that panel, and the tab itself.
LEMMA OwnerProperties ==
  ASSUME NEW ps, NEW ord, NEW n, Sound(ps, ord, n), NEW t, IsOpen(ps, t)
  PROVE  /\ Owner(ps, ord, t) \in DOMAIN ps
         /\ t \in Ids(ps[Owner(ps, ord, t)].strip)
         /\ Position(ps[Owner(ps, ord, t)].strip, t)
              \in 1..Len(ps[Owner(ps, ord, t)].strip)
         /\ Found(ps, ord, t) \in Tab
         /\ Found(ps, ord, t).id = t
<1> DEFINE I == {i \in 1..Len(ord) : t \in Ids(ps[ord[i]].strip)}
           o == Owner(ps, ord, t)
<1>1. o = ord[IF I # {} THEN Min(I) ELSE 0]
  BY DEF Owner, SelectInSeq
<1>2. ord \in Seq(PanelId) /\ DOMAIN ord = 1..Len(ord) /\ ToSet(ord) = DOMAIN ps
  BY DEF Sound
<1>3. PICK p \in DOMAIN ps : t \in Ids(ps[p].strip)
  BY DEF IsOpen
<1>4. PICK i \in 1..Len(ord) : ord[i] = p
  BY <1>2, <1>3 DEF ToSet
<1>5. I # {} /\ I \in SUBSET Nat
  BY <1>3, <1>4
<1>6. Min(I) \in I
  BY <1>5, MinIsLeast
<1>7. o \in DOMAIN ps /\ t \in Ids(ps[o].strip)
  BY <1>1, <1>2, <1>5, <1>6 DEF ToSet
<1> HIDE DEF o
<1>8. IsBox(ps, PanelId, Panel)
  BY DEF Sound
<1>9. /\ ps[o].strip \in Seq(Tab) /\ Len(ps[o].strip) \in Nat
      /\ \A k \in 1..Len(ps[o].strip) : ps[o].strip[k] \in Tab
  BY <1>7, <1>8, PanelParts
<1>10. /\ Position(ps[o].strip, t) \in 1..Len(ps[o].strip)
       /\ ps[o].strip[Position(ps[o].strip, t)].id = t
  BY <1>7, <1>9, PositionProperties
<1> QED
  BY <1>7, <1>9, <1>10 DEF Found, o

\* Putting a new version of a tab in the place of the old.
LEMMA ReplacedBox ==
  ASSUME NEW ps, IsBox(ps, PanelId, Panel), NEW tab \in Tab
  PROVE  /\ IsBox(Replaced(ps, tab), PanelId, Panel)
         /\ DOMAIN Replaced(ps, tab) = DOMAIN ps
<1>1. DOMAIN Replaced(ps, tab) = DOMAIN ps
  BY DEF Replaced
<1>2. ASSUME NEW p \in DOMAIN ps PROVE Replaced(ps, tab)[p] \in Panel
  <2> DEFINE i == Position(ps[p].strip, tab.id)
  <2>1. ps[p] \in Panel /\ ps[p].strip \in Seq(Tab)
    BY PanelParts
  <2>2. i \in 0..Len(ps[p].strip)
    BY <2>1, PositionProperties
  <2>3. i # 0 => ReplaceAt(ps[p].strip, i, tab) \in Seq(Tab)
    BY <2>1, <2>2, ExceptSeq DEF ReplaceAt
  <2>4. i # 0 => [ps[p] EXCEPT !.strip = ReplaceAt(@, i, tab)] \in Panel
    BY <2>1, <2>3 DEF Panel
  <2>5. Replaced(ps, tab)[p] = IF i = 0 THEN ps[p]
                               ELSE [ps[p] EXCEPT !.strip = ReplaceAt(@, i, tab)]
    BY DEF Replaced
  <2> QED
    BY <2>1, <2>4, <2>5
<1>3. Replaced(ps, tab) = [p \in DOMAIN ps |-> Replaced(ps, tab)[p]]
  BY DEF Replaced
<1>4. DOMAIN ps \subseteq PanelId
  BY DEF IsBox
<1> QED
  BY <1>1, <1>2, <1>3, <1>4 DEF IsBox

\* What _derive leaves: a state whose active panel is shown.
MemoryOK ==
  /\ Sound(panels, order, nextPanel)
  /\ active \in PanelId \cup {NoPanel}
  /\ IF order = <<>> THEN active = NoPanel ELSE active \in DOMAIN panels

\* _derive's fallback makes any active panel good: sound panels are enough.
LEMMA EmitSound ==
  ASSUME NEW ps, NEW ord, NEW act, Sound(ps, ord, nextPanel'), Emit(ps, ord, act)
  PROVE  MemoryOK' /\ order' = ord /\ panels' = ps
<1>1. order' = ord /\ panels' = ps
  BY DEF Emit
<1>2. /\ ord \in Seq(PanelId) /\ DOMAIN ps \subseteq PanelId
      /\ ToSet(ord) = DOMAIN ps
  BY DEF Sound, IsBox
<1>3. ord # <<>> => 1 \in DOMAIN ord /\ ord[1] \in DOMAIN ps
  <2>1. ord # <<>> => 1 \in DOMAIN ord
    BY <1>2
  <2> QED
    BY <1>2, <2>1 DEF ToSet
<1>4. ord = <<>> => DOMAIN ps = {}
  BY <1>2 DEF ToSet
<1>5. active' = IF act \in DOMAIN ps THEN act
                ELSE IF ord = <<>> THEN NoPanel ELSE ord[1]
  BY DEF Emit
<1>6. /\ active' \in PanelId \cup {NoPanel}
      /\ IF ord = <<>> THEN active' = NoPanel ELSE active' \in DOMAIN ps
  BY <1>2, <1>3, <1>4, <1>5
<1> QED
  BY <1>1, <1>6 DEF MemoryOK

\* A loaded state has an active panel.
LEMMA ActivePanelProperties ==
  ASSUME MemoryOK, order # <<>>
  PROVE  ActivePanel \in DOMAIN panels
BY DEF MemoryOK, ActivePanel
-----------------------------------------------------------------------------
(* The queue.  A flush comes first among the steps of a handler, and the    *)
(* loop of close() first or right after it; a handler that flushes waits    *)
(* for the tab it has just sent; and the panels LoadTabs has read are       *)
(* different ones.                                                          *)

KnownStep(n) ==
  {step \in Step : step.kind \in {"putPanel", "livePanel"} => step.panel \in 1..n}

Steps(n) == Seq(KnownStep(n))

PlainStep(n) == {step \in KnownStep(n) : step.kind \notin {"flush", "saveAll"}}

Flushes(steps) == steps # <<>> /\ Head(steps).kind = "flush"

WellShaped(steps) ==
  \A i \in DOMAIN steps :
    /\ steps[i].kind = "flush" => i = 1
    /\ steps[i].kind = "saveAll" => i = 1 \/ (i = 2 /\ Flushes(steps))

Entry(n) ==
  {e \in [op : Command, rest : Steps(n)] :
     /\ WellShaped(e.rest)
     /\ Flushes(e.rest) => e.op.kind = "putTab"
     /\ e.op.kind = "putPanel" => e.op.panel \in 1..n
     /\ e.op.kind = "getActive" =>
          /\ IsInjective(FoundOrder(e.op.found))
          /\ ToSet(FoundOrder(e.op.found)) \subseteq 1..n}

\* Steps without a flush and without the loop of close() are well shaped.
LEMMA PlainShaped ==
  ASSUME NEW n, NEW steps \in Seq(PlainStep(n))
  PROVE  steps \in Steps(n) /\ WellShaped(steps) /\ ~Flushes(steps)
<1>1. steps \in Steps(n)
  BY DEF Steps, PlainStep
<1>2. \A i \in DOMAIN steps : steps[i].kind \notin {"flush", "saveAll"}
  BY DEF PlainStep
<1>3. steps # <<>> => 1 \in DOMAIN steps /\ Head(steps) = steps[1]
  OBVIOUS
<1> QED
  BY <1>1, <1>2, <1>3 DEF WellShaped, Flushes

\* The saves of every panel.
LEMMA PutEveryPlain ==
  ASSUME NEW ps, NEW ord, NEW n, Sound(ps, ord, n)
  PROVE  PutEvery(ord, ps) \in Seq(PlainStep(n))
<1>1. /\ ord \in Seq(PanelId) /\ Len(ord) \in Nat /\ DOMAIN ord = 1..Len(ord)
      /\ ToSet(ord) = DOMAIN ps /\ IsBox(ps, PanelId, Panel)
  BY DEF Sound
<1>2. ASSUME NEW i \in 1..Len(ord)
      PROVE  PutPanel(ord[i], RowOf(ps[ord[i]])) \in PlainStep(n)
  <2>1. ord[i] \in DOMAIN ps
    BY <1>1 DEF ToSet
  <2>2. ord[i] \in PanelId /\ RowOf(ps[ord[i]]) \in Row
    BY <1>1, <2>1, PanelParts, RowOfType
  <2> QED
    BY <1>1, <2>1, <2>2 DEF PutPanel, PlainStep, KnownStep, Step, Sound
<1> QED
  BY <1>1, <1>2 DEF PutEvery

\* What a handler is left with once a flush that has nothing more to write is
\* out of the way.
LEMMA UnfoldedPlain ==
  ASSUME NEW ps, NEW ord, NEW n, Sound(ps, ord, n), NEW steps \in Steps(n), WellShaped(steps),
         Flushes(steps) => NextToFlush(Head(steps).todo, ps) = 0
  PROVE  Unfolded(steps, ps, ord) \in Seq(PlainStep(n))
<1> DEFINE after == IF Flushes(steps) THEN Tail(steps) ELSE steps
<1>1. /\ Len(steps) \in Nat /\ DOMAIN steps = 1..Len(steps)
      /\ \A i \in 1..Len(steps) : steps[i] \in KnownStep(n)
      /\ steps # <<>> => 1 \in 1..Len(steps) /\ Head(steps) = steps[1]
  BY DEF Steps
<1>2. /\ after \in Seq(KnownStep(n))
      /\ \A i \in DOMAIN after : /\ after[i].kind # "flush"
                                 /\ after[i].kind = "saveAll" => i = 1
  <2>1. CASE Flushes(steps)
    <3>1. /\ steps # <<>> /\ Tail(steps) \in Seq(KnownStep(n))
          /\ DOMAIN Tail(steps) = 1..(Len(steps) - 1)
          /\ \A i \in 1..(Len(steps) - 1) : Tail(steps)[i] = steps[i + 1]
      BY <2>1 DEF Flushes, Steps
    <3>2. \A i \in 1..(Len(steps) - 1) :
            /\ steps[i + 1].kind # "flush"
            /\ steps[i + 1].kind = "saveAll" => i = 1
      BY <1>1 DEF WellShaped
    <3> QED
      BY <2>1, <3>1, <3>2
  <2>2. CASE ~Flushes(steps)
    BY <1>1, <2>2 DEF WellShaped, Flushes, Steps
  <2> QED
    BY <2>1, <2>2
<1>3. Unfolded(steps, ps, ord) =
        IF after # <<>> /\ Head(after).kind = "saveAll"
        THEN PutEvery(ord, ps) \o Tail(after) ELSE after
  BY DEF Unfolded, Flushes
<1> HIDE DEF after
<1>4. CASE after # <<>> /\ Head(after).kind = "saveAll"
  <2>1. /\ Tail(after) \in Seq(KnownStep(n))
        /\ DOMAIN Tail(after) = 1..(Len(after) - 1)
        /\ Len(after) \in Nat /\ DOMAIN after = 1..Len(after)
        /\ \A i \in 1..(Len(after) - 1) : Tail(after)[i] = after[i + 1]
    BY <1>2, <1>4
  <2>2. \A i \in DOMAIN Tail(after) : Tail(after)[i] \in PlainStep(n)
    BY <1>2, <2>1 DEF PlainStep
  <2>3. Tail(after) \in Seq(PlainStep(n))
    BY <2>1, <2>2, SequenceOf
  <2> QED
    BY <1>3, <1>4, <2>3, PutEveryPlain
<1>5. CASE ~(after # <<>> /\ Head(after).kind = "saveAll")
  <2>1. DOMAIN after = 1..Len(after) /\ Len(after) \in Nat
        /\ (after # <<>> => Head(after) = after[1])
    BY <1>2
  <2>2. \A i \in DOMAIN after : after[i] \in PlainStep(n)
    BY <1>2, <1>5, <2>1 DEF PlainStep
  <2>3. after \in Seq(PlainStep(n))
    BY <1>2, <2>2, SequenceOf
  <2> QED
    BY <1>3, <1>5, <2>3
<1> QED
  BY <1>4, <1>5

\* A step that is sent is a command.
LEMMA SentType ==
  ASSUME NEW ps, NEW ord, NEW n, Sound(ps, ord, n), NEW act \in PanelId \cup {NoPanel},
         NEW step \in PlainStep(n)
  PROVE  /\ Sent(step, ps, ord, act) \in Command
         /\ Sent(step, ps, ord, act).kind # "getActive"
         /\ Sent(step, ps, ord, act).kind = "putPanel" =>
              Sent(step, ps, ord, act).panel \in 1..n
<1>1. CASE step.kind = "livePanel"
  <2>1. step.panel \in PanelId /\ step.panel \in 1..n /\ step.row \in Row
    BY <1>1 DEF PlainStep, KnownStep, Step
  <2>2. IF step.panel \in DOMAIN ps THEN RowOf(ps[step.panel]) \in Row
        ELSE step.row \in Row
    <3>1. IsBox(ps, PanelId, Panel)
      BY DEF Sound
    <3> QED
      BY <2>1, <3>1, PanelParts, RowOfType
  <2> QED
    BY <1>1, <2>1, <2>2 DEF Sent, PutPanel, Command
<1>2. CASE step.kind = "meta"
  <2>1. ord \in Seq(PanelId)
    BY DEF Sound
  <2> QED
    BY <1>2, <2>1 DEF Sent, PutMeta, Command
<1>3. CASE step.kind \notin {"livePanel", "meta"}
  <2>1. Sent(step, ps, ord, act) = step
    BY <1>3 DEF Sent
  <2>2. /\ step \in Command /\ step.kind # "getActive"
        /\ step.kind = "putPanel" => step.panel \in 1..n
    BY <1>3 DEF PlainStep, KnownStep, Step, Command
  <2> QED
    BY <2>1, <2>2
<1> QED
  BY <1>1, <1>2, <1>3

\* The ids a flush loop searches are those of the tabs it may write.
LEMMA NextToFlushProperties ==
  ASSUME NEW ps, NEW todo \in Seq(TabId)
  PROVE  /\ NextToFlush(todo, ps) \in 0..Len(todo)
         /\ NextToFlush(todo, ps) # 0 => IsOpen(ps, todo[NextToFlush(todo, ps)])
<1> DEFINE I == {i \in 1..Len(todo) : IsOpen(ps, todo[i])}
<1>1. NextToFlush(todo, ps) = IF I # {} THEN Min(I) ELSE 0
  BY DEF NextToFlush, SelectInSeq
<1>2. I \in SUBSET Nat /\ Len(todo) \in Nat
  OBVIOUS
<1>3. I # {} => Min(I) \in I
  BY <1>2, MinIsLeast
<1> QED
  BY <1>1, <1>2, <1>3

\* A handler's next command, with the steps it is left with, may join the queue.
LEMMA IssueType ==
  ASSUME NEW ps, NEW ord, NEW n, Sound(ps, ord, n), NEW act \in PanelId \cup {NoPanel},
         NEW steps \in Steps(n), WellShaped(steps)
  PROVE  Issue(steps, ps, ord, act) \in Seq(Entry(n))
<1>0. /\ Len(steps) \in Nat /\ DOMAIN steps = 1..Len(steps)
      /\ \A i \in 1..Len(steps) : steps[i] \in KnownStep(n)
      /\ steps # <<>> => 1 \in 1..Len(steps) /\ Head(steps) = steps[1]
  BY DEF Steps
<1>1. CASE Flushes(steps) /\ NextToFlush(Head(steps).todo, ps) # 0
  <2> DEFINE todo == Head(steps).todo
             i    == NextToFlush(todo, ps)
             left == SubSeq(todo, i + 1, Len(todo))
             rest == <<Flush(left)>> \o Tail(steps)
             op   == PutTab(Found(ps, ord, todo[i]))
  <2>1. steps # <<>> /\ Head(steps) \in KnownStep(n) /\ Head(steps).kind = "flush"
    BY <1>0, <1>1 DEF Flushes
  <2>2. todo \in Seq(TabId)
    BY <2>1 DEF KnownStep, Step
  <2>3. i \in 1..Len(todo) /\ IsOpen(ps, todo[i])
    BY <1>1, <2>2, NextToFlushProperties
  <2>4. op \in Command /\ op.kind = "putTab"
    <3>1. Found(ps, ord, todo[i]) \in Tab
      BY <2>3, OwnerProperties
    <3> QED
      BY <3>1 DEF PutTab, Command
  <2>5. left \in Seq(TabId)
    BY <2>2, <2>3
  <2>6. Flush(left) \in KnownStep(n) /\ Flush(left).kind = "flush"
    BY <2>5 DEF Flush, KnownStep, Step
  <2>7. Issue(steps, ps, ord, act) = <<[op |-> op, rest |-> rest]>>
    <3>1. Unfolded(steps, ps, ord) = steps
      BY <1>1, <2>1 DEF Unfolded
    <3> QED
      BY <2>1, <3>1 DEF Issue
  <2> HIDE DEF left, op, todo, i
  <2>8. /\ Tail(steps) \in Seq(KnownStep(n))
        /\ DOMAIN Tail(steps) = 1..(Len(steps) - 1)
        /\ Len(Tail(steps)) = Len(steps) - 1
        /\ \A k \in 1..(Len(steps) - 1) : Tail(steps)[k] = steps[k + 1]
    BY <2>1 DEF Steps
  <2>9. /\ rest \in Seq(KnownStep(n)) /\ rest # <<>> /\ Head(rest) = Flush(left)
        /\ DOMAIN rest = 1..Len(steps)
        /\ rest[1] = Flush(left)
        /\ \A k \in 2..Len(steps) : rest[k] = steps[k]
    BY <1>0, <2>1, <2>6, <2>8
  <2>10. \A k \in 2..Len(steps) : /\ steps[k].kind # "flush"
                                  /\ steps[k].kind = "saveAll" => k = 2
    BY <1>0 DEF WellShaped
  <2>11. WellShaped(rest) /\ Flushes(rest)
    BY <1>0, <2>6, <2>9, <2>10 DEF WellShaped, Flushes
  <2>12. [op |-> op, rest |-> rest] \in Entry(n)
    BY <2>4, <2>9, <2>11 DEF Entry, Steps
  <2> QED
    BY <2>7, <2>12
<1>2. CASE ~(Flushes(steps) /\ NextToFlush(Head(steps).todo, ps) # 0)
  <2> DEFINE next == Unfolded(steps, ps, ord)
             op   == Sent(Head(next), ps, ord, act)
  <2>1. next \in Seq(PlainStep(n))
    BY <1>2, UnfoldedPlain
  <2> HIDE DEF next
  <2>2. CASE next = <<>>
    <3>1. Issue(steps, ps, ord, act) = <<>>
      BY <2>2 DEF Issue, next
    <3> QED
      BY <3>1
  <2>3. CASE next # <<>>
    <3>1. Head(next) \in PlainStep(n) /\ Tail(next) \in Seq(PlainStep(n))
      BY <2>1, <2>3
    <3>2. Head(next).kind # "flush"
      BY <3>1 DEF PlainStep
    <3>3. Issue(steps, ps, ord, act) = <<[op |-> op, rest |-> Tail(next)]>>
      BY <2>3, <3>2 DEF Issue, next
    <3>4. /\ op \in Command /\ op.kind # "getActive"
          /\ op.kind = "putPanel" => op.panel \in 1..n
      BY <3>1, SentType
    <3>5. Tail(next) \in Steps(n) /\ WellShaped(Tail(next)) /\ ~Flushes(Tail(next))
      BY <3>1, PlainShaped
    <3> HIDE DEF op
    <3>6. [op |-> op, rest |-> Tail(next)] \in Entry(n)
      BY <3>4, <3>5 DEF Entry
    <3> QED
      BY <3>3, <3>6
  <2> QED
    BY <2>2, <2>3
<1> QED
  BY <1>1, <1>2

\* A handler that starts with plain steps.
LEMMA IssuePlain ==
  ASSUME NEW ps, NEW ord, NEW n, Sound(ps, ord, n), NEW act \in PanelId \cup {NoPanel},
         NEW steps \in Seq(PlainStep(n))
  PROVE  Issue(steps, ps, ord, act) \in Seq(Entry(n))
BY PlainShaped, IssueType
-----------------------------------------------------------------------------
(* The inductive invariant. *)

DiskOK == IsDisk(disk) /\ DOMAIN disk.panels \subseteq 1..nextPanel

ClosedOK == closed \in Seq(Closed)

SavingOK == dirty \subseteq TabId /\ timer \in BOOLEAN

SendsOK ==
  /\ handle \in [TabId -> SendId \cup {NoSend}]
  /\ cancelled \subseteq SendId
  /\ running \subseteq [send : SendId, tab : TabId]

IdsOK ==
  nextTab \in 0..MaxTabs /\ nextPanel \in 0..MaxPanels /\ nextSend \in 0..MaxSends

ProcessOK ==
  /\ phase \in {"off", "loading", "ready", "failed", "closing"}
  /\ faults \in Nat /\ crashes \in Nat

LoadedOK == phase = "ready" => order # <<>>

IInv ==
  /\ DiskOK /\ queue \in Seq(Entry(nextPanel))
  /\ MemoryOK /\ LoadedOK
  /\ ClosedOK /\ SavingOK /\ SendsOK /\ IdsOK /\ ProcessOK /\ events \in Nat

\* It is at least as strong as the two invariants.
LEMMA IInvImplies ==
  ASSUME IInv
  PROVE  TypeOK /\ PanelsSound
<1>1. queue \in Seq([op : Command, rest : Seq(Step)])
  <2>1. Steps(nextPanel) \subseteq Seq(Step)
    <3>1. KnownStep(nextPanel) \subseteq Step
      BY DEF KnownStep
    <3> QED
      BY <3>1, SeqMonotonic DEF Steps
  <2>2. Entry(nextPanel) \subseteq [op : Command, rest : Seq(Step)]
    BY <2>1 DEF Entry
  <2> QED
    BY <2>2, SeqMonotonic DEF IInv
<1>2. TypeOK
  BY <1>1 DEF IInv, TypeOK, DiskOK, MemoryOK, Sound, ClosedOK, SavingOK, SendsOK, IdsOK,
              ProcessOK
<1>3. PanelsSound
  BY DEF IInv, PanelsSound, MemoryOK, Sound, LoadedOK
<1> QED
  BY <1>2, <1>3

-----------------------------------------------------------------------------
(* What the actions have in common. *)

\* What no event of the user changes.
LEMMA UserEventOK ==
  ASSUME IInv, UserEvent
  PROVE  disk' = disk /\ ProcessOK' /\ phase' = phase /\ (events \in Nat)'
BY DEF IInv, UserEvent, ProcessOK, process

\* The parts of the state an action leaves alone.
LEMMA Unchanged ==
  ASSUME IInv
  PROVE  /\ UNCHANGED <<disk, nextPanel>> => DiskOK'
         /\ UNCHANGED <<memory, nextPanel>> => MemoryOK'
         /\ UNCHANGED closed => ClosedOK'
         /\ UNCHANGED saving => SavingOK'
         /\ UNCHANGED sends => SendsOK'
         /\ UNCHANGED idVars => IdsOK'
         /\ UNCHANGED process => ProcessOK'
         /\ UNCHANGED events => (events \in Nat)'
BY DEF IInv, DiskOK, memory, saving, sends, idVars, process, MemoryOK, Sound, ClosedOK,
       SavingOK, SendsOK, IdsOK, ProcessOK

\* The steps a handler can have.
LEMMA PlainSteps ==
  ASSUME NEW n
  PROVE  /\ \A tab \in Tab : PutTab(tab) \in PlainStep(n)
         /\ \A ids \in SUBSET TabId : DeleteTabs(ids) \in PlainStep(n)
         /\ \A p \in PanelId \cap 1..n, row \in Row :
              PutPanel(p, row) \in PlainStep(n) /\ LivePanel(p, row) \in PlainStep(n)
         /\ \A p \in PanelId : DeletePanel(p) \in PlainStep(n)
         /\ Meta \in PlainStep(n) /\ Exit \in PlainStep(n)
BY DEF PlainStep, KnownStep, Step, PutTab, DeleteTabs, PutPanel, LivePanel,
       DeletePanel, Meta, Exit

\* A queue stays well formed when a panel id is handed out.
LEMMA EntryGrows ==
  ASSUME NEW m \in Nat, NEW n \in Nat, m <= n
  PROVE  Entry(m) \subseteq Entry(n)
<1>1. 1..m \subseteq 1..n
  OBVIOUS
<1>2. Steps(m) \subseteq Steps(n)
  <2>1. KnownStep(m) \subseteq KnownStep(n)
    BY <1>1 DEF KnownStep
  <2> QED
    BY <2>1, SeqMonotonic DEF Steps
<1> QED
  BY <1>1, <1>2 DEF Entry

\* At most one panel id is handed out at a time.
PanelIdsGrow == nextPanel' \in {nextPanel, nextPanel + 1}

\* The writes of a handler join the queue.
LEMMA WriteQueue ==
  ASSUME IInv, MemoryOK', PanelIdsGrow, NEW steps \in Seq(PlainStep(nextPanel')),
         queue' = queue \o Issue(steps, panels', order', active')
  PROVE  queue' \in Seq(Entry(nextPanel'))
<1>1. Sound(panels', order', nextPanel') /\ active' \in PanelId \cup {NoPanel}
  BY DEF MemoryOK
<1>2. Issue(steps, panels', order', active') \in Seq(Entry(nextPanel'))
  BY <1>1, IssuePlain
<1>3. Entry(nextPanel) \subseteq Entry(nextPanel')
  <2>1. nextPanel \in Nat /\ nextPanel' \in Nat /\ nextPanel <= nextPanel'
    BY DEF IInv, IdsOK, PanelIdsGrow
  <2> QED
    BY <2>1, EntryGrows
<1>4. queue \in Seq(Entry(nextPanel'))
  BY <1>3, SeqMonotonic DEF IInv
<1> QED
  BY <1>2, <1>4, ConcatProperties

\* The row of a panel that was just changed.
LEMMA RowAfter ==
  ASSUME MemoryOK', NEW p, p \in DOMAIN panels'
  PROVE  p \in PanelId \cap 1..nextPanel' /\ RowOf(panels'[p]) \in Row
<1>1. IsBox(panels', PanelId, Panel) /\ DOMAIN panels' \subseteq 1..nextPanel'
  BY DEF MemoryOK, Sound
<1> QED
  BY <1>1, PanelParts, RowOfType

\* Changing panels without opening or closing one.
LEMMA SameOrder ==
  ASSUME IInv, NEW ps, IsBox(ps, PanelId, Panel), DOMAIN ps = DOMAIN panels
  PROVE  Sound(ps, order, nextPanel)
BY DEF IInv, MemoryOK, Sound

\* One panel gets another strip and another active tab.
LEMMA PanelChange ==
  ASSUME IInv, UNCHANGED nextPanel,
         NEW p \in DOMAIN panels, NEW strip \in Seq(Tab),
         NEW act \in TabId \cup {NoTab}, NEW other,
         Emit([panels EXCEPT ![p].strip = strip, ![p].active = act], order, other)
  PROVE  MemoryOK' /\ order' = order /\ DOMAIN panels' = DOMAIN panels
<1> DEFINE panel == [panels[p] EXCEPT !.strip = strip, !.active = act]
           ps    == [panels EXCEPT ![p].strip = strip, ![p].active = act]
<1>1. IsBox(panels, PanelId, Panel)
  BY DEF IInv, MemoryOK, Sound
<1>2. panel \in Panel
  BY <1>1, PanelParts DEF Panel
<1>3. ps = [panels EXCEPT ![p] = panel]
  BY <1>1 DEF IsBox
<1>4. IsBox(ps, PanelId, Panel) /\ DOMAIN ps = DOMAIN panels
  BY <1>1, <1>2, <1>3, PanelEdit
<1>5. Sound(ps, order, nextPanel)
  BY <1>4, SameOrder
<1> QED
  BY <1>4, <1>5, EmitSound

\* What the panels give, all at once.
LEMMA PanelFacts ==
  ASSUME IInv, NEW p \in DOMAIN panels
  PROVE  /\ p \in PanelId \cap 1..nextPanel /\ panels[p] \in Panel
         /\ panels[p].strip \in Seq(Tab) /\ Len(panels[p].strip) \in Nat
         /\ DOMAIN panels[p].strip = 1..Len(panels[p].strip)
         /\ panels[p].active \in TabId \cup {NoTab}
         /\ \A i \in DOMAIN panels[p].strip :
              panels[p].strip[i] \in Tab /\ panels[p].strip[i].id \in TabId
<1>1. IsBox(panels, PanelId, Panel) /\ DOMAIN panels \subseteq 1..nextPanel
  BY DEF IInv, MemoryOK, Sound
<1>2. panels[p].strip \in Seq(Tab)
  BY <1>1, PanelParts
<1>3. Len(panels[p].strip) \in Nat /\ DOMAIN panels[p].strip = 1..Len(panels[p].strip)
  BY <1>2
<1> QED
  BY <1>1, <1>3, PanelParts

\* The order has a position for each panel.
LEMMA OrderFacts ==
  ASSUME IInv
  PROVE  /\ order \in Seq(PanelId) /\ Len(order) \in Nat
         /\ DOMAIN order = 1..Len(order)
         /\ \A i \in DOMAIN order : order[i] \in DOMAIN panels
         /\ \A p \in DOMAIN panels : \E i \in DOMAIN order : order[i] = p
         /\ order # <<>> => ActivePanel \in DOMAIN panels
<1>1. order \in Seq(PanelId) /\ ToSet(order) = DOMAIN panels /\ MemoryOK
  BY DEF IInv, MemoryOK, Sound
<1>2. Len(order) \in Nat /\ DOMAIN order = 1..Len(order)
  BY <1>1
<1> QED
  BY <1>1, <1>2, ActivePanelProperties DEF ToSet

\* A tab is put in a panel, whichever event asked for it.
LEMMA OpenTabOK ==
  ASSUME IInv, UNCHANGED nextPanel,
         NEW p \in DOMAIN panels, NEW i \in 1..(Len(panels[p].strip) + 1),
         NEW tab \in Tab, NEW act, NEW more \in Seq(PlainStep(nextPanel)),
         OpenTab(p, i, tab, act, more)
  PROVE  MemoryOK' /\ queue' \in Seq(Entry(nextPanel')) /\ order' = order
<1> DEFINE strip == InsertAt(panels[p].strip, i, tab)
<1>1. panels[p].strip \in Seq(Tab) /\ p \in PanelId
  BY PanelFacts
<1>2. strip \in Seq(Tab) /\ tab.id \in TabId \cup {NoTab}
  BY <1>1, InsertAtType, TabParts
<1>3. Emit([panels EXCEPT ![p].strip = strip, ![p].active = tab.id], order, act)
  BY DEF OpenTab, Opened
<1> HIDE DEF strip
<1>4. MemoryOK' /\ order' = order /\ DOMAIN panels' = DOMAIN panels
  BY <1>2, <1>3, PanelChange
<1>5. p \in PanelId \cap 1..nextPanel /\ RowOf(panels'[p]) \in Row
  BY <1>4, RowAfter
<1> DEFINE steps == <<PutTab(tab), LivePanel(p, RowOf(panels'[p]))>> \o more
<1>6. steps \in Seq(PlainStep(nextPanel))
  <2>1. /\ PutTab(tab) \in PlainStep(nextPanel)
        /\ LivePanel(p, RowOf(panels'[p])) \in PlainStep(nextPanel)
    BY <1>5, PlainSteps
  <2>2. <<PutTab(tab), LivePanel(p, RowOf(panels'[p]))>> \in Seq(PlainStep(nextPanel))
    BY <2>1
  <2> QED
    BY <2>2, ConcatProperties
<1>7. queue' = queue \o Issue(steps, panels', order', active')
  BY DEF OpenTab, Write
<1> HIDE DEF steps
<1> QED
  BY <1>4, <1>6, <1>7, WriteQueue DEF PanelIdsGrow

\* A tab that is there already is shown.
LEMMA ActivateOK ==
  ASSUME IInv, UNCHANGED nextPanel, NEW p \in DOMAIN panels, NEW t \in TabId,
         Activate(p, t)
  PROVE  MemoryOK' /\ queue' \in Seq(Entry(nextPanel')) /\ order' = order
<1> DEFINE panel == [panels[p] EXCEPT !.active = t]
<1>1. p \in PanelId /\ panels[p] \in Panel /\ IsBox(panels, PanelId, Panel)
  BY PanelFacts DEF IInv, MemoryOK, Sound
<1>2. panel \in Panel
  BY <1>1 DEF Panel
<1>3. Emit([panels EXCEPT ![p] = panel], order, p)
  BY DEF Activate
<1> HIDE DEF panel
<1>4. /\ IsBox([panels EXCEPT ![p] = panel], PanelId, Panel)
      /\ DOMAIN [panels EXCEPT ![p] = panel] = DOMAIN panels
  BY <1>1, <1>2, PanelEdit
<1>5. Sound([panels EXCEPT ![p] = panel], order, nextPanel)
  BY <1>4, SameOrder
<1>6. MemoryOK' /\ order' = order /\ DOMAIN panels' = DOMAIN panels
  BY <1>3, <1>4, <1>5, EmitSound
<1>7. p \in PanelId \cap 1..nextPanel /\ RowOf(panels'[p]) \in Row
  BY <1>6, RowAfter
<1> DEFINE steps == <<PutPanel(p, RowOf(panels'[p])), Meta>>
<1>8. steps \in Seq(PlainStep(nextPanel))
  BY <1>7, PlainSteps
<1>9. queue' = queue \o Issue(steps, panels', order', active')
  BY DEF Activate, Write
<1> HIDE DEF steps
<1> QED
  BY <1>6, <1>8, <1>9, WriteQueue DEF PanelIdsGrow

\* The reopen stack takes any number of records.
LEMMA PushClosedOK ==
  ASSUME IInv, NEW recs \in Seq(Closed), PushClosed(recs)
  PROVE  ClosedOK'
<1> DEFINE all == closed \o recs
           m   == 1 + (IF Len(all) > ClosedMax THEN Len(all) - ClosedMax ELSE 0)
<1>1. all \in Seq(Closed)
  BY DEF IInv, ClosedOK
<1>2. Len(all) \in Nat /\ ClosedMax \in Nat /\ \A i \in 1..Len(all) : all[i] \in Closed
  BY <1>1, TabsAssumption
<1>3. closed' = SubSeq(all, m, Len(all))
  BY DEF PushClosed
<1> HIDE DEF all
<1>4. m \in Nat /\ \A i \in m..Len(all) : all[i] \in Closed
  BY <1>2
<1> HIDE DEF m
<1>5. SubSeq(all, m, Len(all)) \in Seq(Closed)
  BY <1>2, <1>4, SubSeqProperties
<1> QED
  BY <1>3, <1>5 DEF ClosedOK

\* The records of closed tabs.
LEMMA ClosingType ==
  ASSUME IInv, NEW p \in DOMAIN panels, NEW K \in SUBSET DOMAIN panels[p].strip
  PROVE  Closing(p, K) \in Seq(Closed)
<1> DEFINE strip == panels[p].strip
           all   == [i \in DOMAIN strip |-> i]
           at    == Selected(all, K)
<1>1. /\ p \in PanelId /\ Len(strip) \in Nat /\ DOMAIN strip = 1..Len(strip)
      /\ \A i \in DOMAIN strip : strip[i] \in Tab
  BY PanelFacts
<1>2. all \in Seq(1..Len(strip)) /\ DOMAIN all = DOMAIN strip
  BY <1>1
<1>3. at \in Seq(1..Len(strip))
  BY <1>2, SelectedProperties
<1> HIDE DEF at
<1>4. /\ Len(at) \in Nat /\ DOMAIN at = 1..Len(at)
      /\ \A k \in DOMAIN at : at[k] \in 1..Len(strip)
  BY <1>3
<1>5. \A tab \in Tab : Settled(tab) \in Tab
  BY DEF Settled, Tab
<1>6. \A k \in 1..Len(at) :
        [tab |-> Settled(strip[at[k]]), panel |-> p, index |-> at[k]] \in Closed
  BY <1>1, <1>4, <1>5 DEF Closed
<1>7. Closing(p, K) = [k \in 1..Len(at) |->
        [tab |-> Settled(strip[at[k]]), panel |-> p, index |-> at[k]]]
  BY <1>4 DEF Closing, at
<1> QED
  BY <1>4, <1>6, <1>7

\* The sends of closed tabs are cancelled and released.
LEMMA CancelAndFinishOK ==
  ASSUME IInv, NEW ts \in SUBSET TabId, CancelAndFinish(ts)
  PROVE  SendsOK'
BY DEF IInv, SendsOK, CancelAndFinish

\* Tabs are closed, whichever event asked for it.
LEMMA CloseTabsOK ==
  ASSUME IInv, NEW p \in DOMAIN panels, NEW K \in SUBSET DOMAIN panels[p].strip,
         NEW act \in TabId \cup {NoTab}, CloseTabs(p, K, act)
  PROVE  /\ MemoryOK' /\ queue' \in Seq(Entry(nextPanel')) /\ order' = order
         /\ ClosedOK' /\ SavingOK' /\ SendsOK' /\ IdsOK' /\ PanelIdsGrow
<1> DEFINE strip == panels[p].strip
           kept  == Selected(strip, DOMAIN strip \ K)
           gone  == Ids(Selected(strip, K))
<1>1. strip \in Seq(Tab) /\ p \in PanelId
  BY PanelFacts
<1>2. kept \in Seq(Tab) /\ Selected(strip, K) \in Seq(Tab)
  BY <1>1, SelectedProperties
<1>3. gone \in SUBSET TabId
  BY <1>2, TabParts DEF Ids
<1>4. /\ PushClosed(Closing(p, K))
      /\ Emit([panels EXCEPT ![p].strip = kept, ![p].active = act], order, active)
      /\ dirty' = dirty \ gone
      /\ CancelAndFinish(gone)
      /\ Write(CloseWrites(p, gone, RowOf(panels'[p])))
      /\ UNCHANGED <<timer, idVars>>
  BY DEF CloseTabs
<1> HIDE DEF kept, gone, strip
<1>5. /\ MemoryOK' /\ order' = order /\ DOMAIN panels' = DOMAIN panels
      /\ nextPanel' = nextPanel
  <2>1. nextPanel' = nextPanel
    BY <1>4 DEF idVars
  <2> QED
    BY <1>2, <1>4, <2>1, PanelChange
<1>6. ClosedOK'
  BY <1>4, ClosingType, PushClosedOK
<1>7. SavingOK' /\ SendsOK' /\ IdsOK'
  BY <1>3, <1>4, CancelAndFinishOK, Unchanged DEF IInv, SavingOK
<1>8. queue' \in Seq(Entry(nextPanel'))
  <2> DEFINE steps == <<DeleteTabs(gone), LivePanel(p, RowOf(panels'[p]))>>
  <2>1. p \in PanelId \cap 1..nextPanel /\ RowOf(panels'[p]) \in Row
    BY <1>5, RowAfter
  <2>2. steps \in Seq(PlainStep(nextPanel))
    BY <1>3, <2>1, PlainSteps
  <2>3. queue' = queue \o Issue(steps, panels', order', active')
    BY <1>4 DEF Write, CloseWrites
  <2> HIDE DEF steps
  <2> QED
    BY <1>5, <2>2, <2>3, WriteQueue DEF PanelIdsGrow
<1> QED
  BY <1>5, <1>6, <1>7, <1>8 DEF PanelIdsGrow

\* The tab a panel shows after one has gone.
LEMMA NeighbourType ==
  ASSUME NEW panel \in Panel, NEW i \in 1..Len(panel.strip)
  PROVE  Neighbour(panel, i) \in TabId \cup {NoTab}
<1> DEFINE kept == RemoveAt(panel.strip, i)
           k    == IF i > Len(kept) THEN Len(kept) ELSE i
<1>1. panel.strip \in Seq(Tab) /\ panel.active \in TabId \cup {NoTab}
  BY DEF Panel
<1>2. kept \in Seq(Tab)
  BY <1>1, RemoveAtType
<1> HIDE DEF kept
<1>3. kept # <<>> => k \in 1..Len(kept)
  BY <1>2
<1>4. kept # <<>> => kept[k] \in Tab
  BY <1>2, <1>3
<1>5. kept # <<>> => kept[k].id \in TabId
  BY <1>4, TabParts
<1> QED
  BY <1>1, <1>5 DEF Neighbour, kept

-----------------------------------------------------------------------------
(* The events of the user, one by one. *)

\* What an event's handler owes the invariant.
LEMMA EventOK ==
  ASSUME IInv, UserEvent, MemoryOK', queue' \in Seq(Entry(nextPanel')),
         order' # <<>> \/ order' = order,
         ClosedOK', SavingOK', SendsOK', IdsOK', PanelIdsGrow
  PROVE  IInv'
<1>1. DiskOK'
  <2>1. nextPanel \in Nat /\ 1..nextPanel \subseteq 1..nextPanel'
    BY DEF IInv, IdsOK, PanelIdsGrow
  <2> QED
    BY <2>1, UserEventOK DEF IInv, DiskOK
<1> QED
  BY <1>1, UserEventOK DEF IInv, LoadedOK

\* Where a panel shows a node.
LEMMA LinkedPositionProperties ==
  ASSUME IInv, NEW p \in DOMAIN panels, NEW node
  PROVE  /\ LinkedPosition(p, node) \in 0..Len(panels[p].strip)
         /\ LinkedPosition(p, node) # 0 =>
              panels[p].strip[LinkedPosition(p, node)].node = node
<1> DEFINE I == {i \in 1..Len(panels[p].strip) : panels[p].strip[i].node = node}
<1>1. LinkedPosition(p, node) = IF I # {} THEN Min(I) ELSE 0
  BY DEF LinkedPosition, SelectInSeq
<1>2. I \in SUBSET Nat /\ Len(panels[p].strip) \in Nat
  BY PanelFacts
<1>3. I # {} => Min(I) \in I
  BY <1>2, MinIsLeast
<1> QED
  BY <1>1, <1>2, <1>3

\* The tab a handler creates.
LEMMA NewTabType ==
  ASSUME IInv, nextTab < MaxTabs, NEW node \in Nodes \cup {NoNode},
         NEW config \in Configs
  PROVE  NewTab(node, config) \in Tab /\ nextTab + 1 \in 0..MaxTabs
<1>1. nextTab + 1 \in TabId /\ nextTab + 1 \in 0..MaxTabs
  BY StorageAssumption DEF IInv, IdsOK, TabId
<1>2. <<>> \in Seq(SendId)
  OBVIOUS
<1> QED
  BY <1>1, <1>2 DEF NewTab, Tab, NoSend

\* A node that is open is shown.
LEMMA ShowLinkedTabOK ==
  ASSUME IInv, NEW node, ShowLinkedTab(node)
  PROVE  IInv'
<1> DEFINE I == {i \in 1..Len(order) : LinkedPosition(order[i], node) # 0}
           k == SelectInSeq(order, LAMBDA p : LinkedPosition(p, node) # 0)
<1>1. /\ UserEvent /\ k # 0
      /\ Activate(order[k],
                  panels[order[k]].strip[LinkedPosition(order[k], node)].id)
      /\ UNCHANGED <<closed, saving, sends, idVars, nextPanel>>
  BY DEF ShowLinkedTab, idVars
<1>2. k = IF I # {} THEN Min(I) ELSE 0
  BY DEF SelectInSeq
<1>3. I \in SUBSET Nat /\ DOMAIN order = 1..Len(order)
  BY OrderFacts
<1>4. k \in I
  BY <1>1, <1>2, <1>3, MinIsLeast
<1> HIDE DEF k
<1>5. order[k] \in DOMAIN panels
  BY <1>3, <1>4, OrderFacts
<1>6. LinkedPosition(order[k], node) \in DOMAIN panels[order[k]].strip
  BY <1>4, <1>5, LinkedPositionProperties, PanelFacts
<1>7. panels[order[k]].strip[LinkedPosition(order[k], node)].id \in TabId
  BY <1>5, <1>6, PanelFacts
<1>8. MemoryOK' /\ queue' \in Seq(Entry(nextPanel')) /\ order' = order
  BY <1>1, <1>5, <1>7, ActivateOK
<1> QED
  BY <1>1, <1>8, Unchanged, EventOK DEF PanelIdsGrow

\* A tab is opened in the active panel ...
LEMMA AddTabOK ==
  ASSUME IInv, NEW node \in Nodes \cup {NoNode}, NEW config \in Configs,
         AddTab(node, config)
  PROVE  IInv'
<1> DEFINE p == ActivePanel
           i == Len(panels[p].strip) + 1
<1>1. /\ UserEvent /\ order # <<>> /\ nextTab < MaxTabs
      /\ OpenTab(p, i, NewTab(node, config), active, <<>>)
      /\ nextTab' = nextTab + 1
      /\ UNCHANGED <<closed, saving, sends, nextPanel, nextSend>>
  BY DEF AddTab
<1>2. p \in DOMAIN panels
  BY <1>1, OrderFacts
<1> HIDE DEF p
<1>3. i \in 1..(Len(panels[p].strip) + 1)
  BY <1>2, PanelFacts
<1>4. NewTab(node, config) \in Tab /\ nextTab + 1 \in 0..MaxTabs
  BY <1>1, NewTabType
<1>5. <<>> \in Seq(PlainStep(nextPanel))
  OBVIOUS
<1> HIDE DEF i
<1>6. MemoryOK' /\ queue' \in Seq(Entry(nextPanel')) /\ order' = order
  BY <1>1, <1>2, <1>3, <1>4, <1>5, OpenTabOK
<1>7. IdsOK'
  BY <1>1, <1>4 DEF IInv, IdsOK
<1> QED
  BY <1>1, <1>6, <1>7, Unchanged, EventOK DEF PanelIdsGrow

\* ... or copied there.
LEMMA DuplicateTabOK ==
  ASSUME IInv, NEW t \in TabId, DuplicateTab(t)
  PROVE  IInv'
<1> DEFINE p     == ActivePanel
           strip == panels[p].strip
           i     == Position(strip, t)
           new   == NewTab(NoNode, strip[i].config)
<1>1. /\ UserEvent /\ order # <<>> /\ i # 0 /\ nextTab < MaxTabs
      /\ OpenTab(p, i + 1, new, active, <<>>)
      /\ nextTab' = nextTab + 1
      /\ UNCHANGED <<closed, saving, sends, nextPanel, nextSend>>
  BY DEF DuplicateTab
<1>2. p \in DOMAIN panels
  BY <1>1, OrderFacts
<1> HIDE DEF p
<1>3. strip \in Seq(Tab) /\ Len(strip) \in Nat
  BY <1>2, PanelFacts
<1>4. i \in 1..Len(strip)
  BY <1>1, <1>3, PositionProperties
<1>5. strip[i].config \in Configs
  BY <1>3, <1>4, TabParts
<1>6. new \in Tab /\ nextTab + 1 \in 0..MaxTabs
  BY <1>1, <1>5, NewTabType
<1>7. <<>> \in Seq(PlainStep(nextPanel)) /\ i + 1 \in 1..(Len(strip) + 1)
  BY <1>3, <1>4
<1> HIDE DEF i, new
<1>8. MemoryOK' /\ queue' \in Seq(Entry(nextPanel')) /\ order' = order
  BY <1>1, <1>2, <1>6, <1>7, OpenTabOK
<1>9. IdsOK'
  BY <1>1, <1>6 DEF IInv, IdsOK
<1> QED
  BY <1>1, <1>8, <1>9, Unchanged, EventOK DEF PanelIdsGrow

\* The reopen stack without its last record.
LEMMA PopClosed ==
  ASSUME IInv, closed # <<>>
  PROVE  /\ Last(closed).tab \in Tab /\ Last(closed).panel \in PanelId
         /\ Last(closed).index \in Nat \ {0}
         /\ Front(closed) \in Seq(Closed)
<1>1. closed \in Seq(Closed) /\ Len(closed) \in Nat /\ Len(closed) # 0
  BY DEF IInv, ClosedOK
<1>2. closed[Len(closed)] \in Closed
  BY <1>1
<1>3. SubSeq(closed, 1, Len(closed) - 1) \in Seq(Closed)
  BY <1>1
<1> QED
  BY <1>2, <1>3 DEF Last, Front, Closed

\* A closed tab whose node is open again is shown there ...
LEMMA ReopenAsLinkedTabOK ==
  ASSUME IInv, ReopenAsLinkedTab
  PROVE  IInv'
<1> DEFINE tab == Last(closed).tab
           I   == {i \in 1..Len(order) : SameAsClosed(order[i], tab)}
           k   == SelectInSeq(order, LAMBDA p : SameAsClosed(p, tab))
<1>1. /\ UserEvent /\ closed # <<>> /\ k # 0
      /\ closed' = Front(closed)
      /\ Activate(order[k],
                  panels[order[k]].strip[LinkedPosition(order[k], tab.node)].id)
      /\ UNCHANGED <<saving, sends, idVars, nextPanel>>
  BY DEF ReopenAsLinkedTab, idVars
<1>2. k = IF I # {} THEN Min(I) ELSE 0
  BY DEF SelectInSeq
<1>3. I \in SUBSET Nat /\ DOMAIN order = 1..Len(order)
  BY OrderFacts
<1>4. k \in I
  BY <1>1, <1>2, <1>3, MinIsLeast
<1> HIDE DEF k, tab
<1>5. order[k] \in DOMAIN panels
  BY <1>3, <1>4, OrderFacts
<1>6. LinkedPosition(order[k], tab.node) # 0
  BY <1>4 DEF SameAsClosed
<1>7. LinkedPosition(order[k], tab.node) \in DOMAIN panels[order[k]].strip
  BY <1>5, <1>6, LinkedPositionProperties, PanelFacts
<1>8. panels[order[k]].strip[LinkedPosition(order[k], tab.node)].id \in TabId
  BY <1>5, <1>7, PanelFacts
<1>9. MemoryOK' /\ queue' \in Seq(Entry(nextPanel')) /\ order' = order
  BY <1>1, <1>5, <1>8, ActivateOK
<1>10. ClosedOK'
  BY <1>1, PopClosed DEF ClosedOK
<1> QED
  BY <1>1, <1>9, <1>10, Unchanged, EventOK DEF PanelIdsGrow

\* ... and any other comes back at the place it had, or at the end.
LEMMA ReopenClosedTabOK ==
  ASSUME IInv, ReopenClosedTab
  PROVE  IInv'
<1> DEFINE was == Last(closed)
           p   == IF was.panel \in DOMAIN panels THEN was.panel ELSE ActivePanel
           end == Len(panels[p].strip) + 1
           i   == IF was.index < end THEN was.index ELSE end
<1>1. /\ UserEvent /\ closed # <<>> /\ order # <<>>
      /\ closed' = Front(closed)
      /\ OpenTab(p, i, was.tab, p, <<Meta>>)
      /\ UNCHANGED <<saving, sends, idVars, nextPanel>>
  BY DEF ReopenClosedTab, idVars
<1>2. was.tab \in Tab /\ was.index \in Nat \ {0} /\ ClosedOK'
  BY <1>1, PopClosed DEF ClosedOK
<1>3. p \in DOMAIN panels
  BY <1>1, OrderFacts
<1> HIDE DEF p
<1>4. Len(panels[p].strip) \in Nat
  BY <1>3, PanelFacts
<1>6. i \in 1..(Len(panels[p].strip) + 1)
  BY <1>2, <1>4
<1>7. <<Meta>> \in Seq(PlainStep(nextPanel))
  BY PlainSteps
<1> HIDE DEF i, was
<1>8. MemoryOK' /\ queue' \in Seq(Entry(nextPanel')) /\ order' = order
  BY <1>1, <1>2, <1>3, <1>6, <1>7, OpenTabOK
<1> QED
  BY <1>1, <1>2, <1>8, Unchanged, EventOK DEF PanelIdsGrow

\* Closing a tab of some panel.
LEMMA RemoveTabOK ==
  ASSUME IInv, NEW t \in TabId, RemoveTab(t)
  PROVE  IInv'
<1> DEFINE p == Owner(panels, order, t)
           i == Position(panels[p].strip, t)
<1>1. UserEvent /\ IsOpen(panels, t) /\ CloseTabs(p, {i}, Neighbour(panels[p], i))
  BY DEF RemoveTab
<1>2. Sound(panels, order, nextPanel)
  BY DEF IInv, MemoryOK
<1>3. p \in DOMAIN panels /\ i \in 1..Len(panels[p].strip)
  BY <1>1, <1>2, OwnerProperties
<1> HIDE DEF p, i
<1>4. /\ {i} \in SUBSET DOMAIN panels[p].strip
      /\ Neighbour(panels[p], i) \in TabId \cup {NoTab}
  BY <1>3, PanelFacts, NeighbourType
<1> QED
  BY <1>1, <1>3, <1>4, CloseTabsOK, EventOK

\* Closing all tabs of the active panel but one ...
LEMMA CloseOtherTabsOK ==
  ASSUME IInv, NEW t \in TabId, CloseOtherTabs(t)
  PROVE  IInv'
<1> DEFINE K == DOMAIN panels[ActivePanel].strip
                  \ {Position(panels[ActivePanel].strip, t)}
<1>1. UserEvent /\ order # <<>> /\ CloseTabs(ActivePanel, K, t)
  BY DEF CloseOtherTabs
<1>2. ActivePanel \in DOMAIN panels
  BY <1>1, OrderFacts
<1>3. K \in SUBSET DOMAIN panels[ActivePanel].strip
  OBVIOUS
<1> HIDE DEF K
<1> QED
  BY <1>1, <1>2, <1>3, CloseTabsOK, EventOK

\* The tab a panel shows when several have gone.
LEMMA KeptActiveType ==
  ASSUME IInv, NEW p \in DOMAIN panels, NEW K, NEW other \in TabId
  PROVE  KeptActive(p, K, other) \in TabId \cup {NoTab}
BY PanelFacts DEF KeptActive

\* ... but those up to one ...
LEMMA CloseTabsToTheRightOK ==
  ASSUME IInv, NEW t \in TabId, CloseTabsToTheRight(t)
  PROVE  IInv'
<1> DEFINE strip == panels[ActivePanel].strip
           K     == (Position(strip, t) + 1)..Len(strip)
<1>1. UserEvent /\ order # <<>>
      /\ CloseTabs(ActivePanel, K, KeptActive(ActivePanel, K, t))
  BY DEF CloseTabsToTheRight
<1>2. ActivePanel \in DOMAIN panels
  BY <1>1, OrderFacts
<1>3. Position(strip, t) \in 0..Len(strip) /\ DOMAIN strip = 1..Len(strip)
      /\ Len(strip) \in Nat
  BY <1>2, PanelFacts, PositionProperties
<1>4. K \in SUBSET DOMAIN strip
  BY <1>3
<1> HIDE DEF K
<1>5. KeptActive(ActivePanel, K, t) \in TabId \cup {NoTab}
  BY <1>2, KeptActiveType
<1> QED
  BY <1>1, <1>2, <1>4, <1>5, CloseTabsOK, EventOK

\* ... and those from one on.
LEMMA CloseTabsToTheLeftOK ==
  ASSUME IInv, NEW t \in TabId, CloseTabsToTheLeft(t)
  PROVE  IInv'
<1> DEFINE strip == panels[ActivePanel].strip
           K     == 1..(Position(strip, t) - 1)
<1>1. UserEvent /\ order # <<>>
      /\ CloseTabs(ActivePanel, K, KeptActive(ActivePanel, K, t))
  BY DEF CloseTabsToTheLeft
<1>2. ActivePanel \in DOMAIN panels
  BY <1>1, OrderFacts
<1>3. Position(strip, t) \in 0..Len(strip) /\ DOMAIN strip = 1..Len(strip)
      /\ Len(strip) \in Nat
  BY <1>2, PanelFacts, PositionProperties
<1>4. K \in SUBSET DOMAIN strip
  BY <1>3
<1> HIDE DEF K
<1>5. KeptActive(ActivePanel, K, t) \in TabId \cup {NoTab}
  BY <1>2, KeptActiveType
<1> QED
  BY <1>1, <1>2, <1>4, <1>5, CloseTabsOK, EventOK

\* Closing the tabs of a panel that have nothing to save.
LEMMA CloseSavedTabsOK ==
  ASSUME IInv, NEW p, NEW saved, CloseSavedTabs(p, saved)
  PROVE  IInv'
<1> DEFINE strip == panels[p].strip
           K     == {i \in DOMAIN strip : ~HasUnsavedChanges(strip[i], saved)}
           kept  == Selected(strip, DOMAIN strip \ K)
           act   == IF kept = <<>> THEN NoTab ELSE KeptActive(p, K, Head(kept).id)
<1>1. UserEvent /\ p \in DOMAIN panels /\ CloseTabs(p, K, act)
  BY DEF CloseSavedTabs
<1>2. K \in SUBSET DOMAIN strip /\ strip \in Seq(Tab)
  BY <1>1, PanelFacts
<1> HIDE DEF K
<1>3. kept \in Seq(Tab)
  BY <1>2, SelectedProperties
<1>4. kept # <<>> => Head(kept) \in Tab
  BY <1>3
<1> HIDE DEF kept
<1>5. kept # <<>> => Head(kept).id \in TabId
  BY <1>4, TabParts
<1>6. act \in TabId \cup {NoTab}
  BY <1>1, <1>5, KeptActiveType
<1> HIDE DEF act
<1> QED
  BY <1>1, <1>2, <1>6, CloseTabsOK, EventOK

\* A handler that changes one panel and saves its row.
LEMMA SavePanelOK ==
  ASSUME IInv, UNCHANGED nextPanel, NEW p \in DOMAIN panels, NEW panel \in Panel,
         Emit([panels EXCEPT ![p] = panel], order, active),
         Write(<<PutPanel(p, RowOf(panels'[p]))>>)
  PROVE  MemoryOK' /\ queue' \in Seq(Entry(nextPanel')) /\ order' = order
<1>1. IsBox(panels, PanelId, Panel)
  BY DEF IInv, MemoryOK, Sound
<1>2. /\ IsBox([panels EXCEPT ![p] = panel], PanelId, Panel)
      /\ DOMAIN [panels EXCEPT ![p] = panel] = DOMAIN panels
  BY <1>1, PanelEdit
<1>3. Sound([panels EXCEPT ![p] = panel], order, nextPanel)
  BY <1>2, SameOrder
<1>4. MemoryOK' /\ order' = order /\ DOMAIN panels' = DOMAIN panels
  BY <1>2, <1>3, EmitSound
<1>5. p \in PanelId \cap 1..nextPanel /\ RowOf(panels'[p]) \in Row
  BY <1>4, RowAfter
<1> DEFINE steps == <<PutPanel(p, RowOf(panels'[p]))>>
<1>6. steps \in Seq(PlainStep(nextPanel))
  BY <1>5, PlainSteps
<1>7. queue' = queue \o Issue(steps, panels', order', active')
  BY DEF Write
<1> HIDE DEF steps
<1> QED
  BY <1>4, <1>6, <1>7, WriteQueue DEF PanelIdsGrow

\* Another tab of the active panel is selected.
LEMMA SetActiveIndexOK ==
  ASSUME IInv, NEW i, SetActiveIndex(i)
  PROVE  IInv'
<1> DEFINE p     == ActivePanel
           panel == [panels[p] EXCEPT !.active = panels[p].strip[i].id]
<1>1. /\ UserEvent /\ order # <<>> /\ i \in DOMAIN panels[p].strip
      /\ Emit([panels EXCEPT ![p] = panel], order, active)
      /\ Write(<<PutPanel(p, RowOf(panels'[p]))>>)
      /\ UNCHANGED <<closed, saving, sends, idVars, nextPanel>>
  BY DEF SetActiveIndex, idVars
<1>2. p \in DOMAIN panels
  BY <1>1, OrderFacts
<1> HIDE DEF p
<1>3. panels[p].strip[i].id \in TabId /\ panels[p] \in Panel
  BY <1>1, <1>2, PanelFacts
<1>4. panel \in Panel
  BY <1>3 DEF Panel
<1> HIDE DEF panel
<1>5. MemoryOK' /\ queue' \in Seq(Entry(nextPanel')) /\ order' = order
  BY <1>1, <1>2, <1>4, SavePanelOK
<1> QED
  BY <1>1, <1>5, Unchanged, EventOK DEF PanelIdsGrow

\* A tab is dragged to another place of its panel.
LEMMA ReorderTabsOK ==
  ASSUME IInv, NEW p, NEW i, NEW j, ReorderTabs(p, i, j)
  PROVE  IInv'
<1> DEFINE strip == Moved(panels[p].strip, i, j)
           panel == [panels[p] EXCEPT !.strip = strip]
<1>1. /\ UserEvent /\ p \in DOMAIN panels /\ {i, j} \subseteq DOMAIN panels[p].strip
      /\ Emit([panels EXCEPT ![p] = panel], order, active)
      /\ Write(<<PutPanel(p, RowOf(panels'[p]))>>)
      /\ UNCHANGED <<closed, saving, sends, idVars, nextPanel>>
  BY DEF ReorderTabs, idVars
<1>2. /\ panels[p].strip \in Seq(Tab) /\ panels[p] \in Panel
      /\ DOMAIN panels[p].strip = 1..Len(panels[p].strip)
  BY <1>1, PanelFacts
<1>3. strip \in Seq(Tab)
  BY <1>1, <1>2, MovedType
<1> HIDE DEF strip
<1>4. panel \in Panel
  BY <1>2, <1>3 DEF Panel
<1> HIDE DEF panel
<1>5. MemoryOK' /\ queue' \in Seq(Entry(nextPanel')) /\ order' = order
  BY <1>1, <1>4, SavePanelOK
<1> QED
  BY <1>1, <1>5, Unchanged, EventOK DEF PanelIdsGrow

-----------------------------------------------------------------------------
(* Edits of a tab, and the sends that end in one. *)

\* The tab a handler finds through the display order.
LEMMA LiveType ==
  ASSUME IInv, NEW t \in TabId, IsOpen(panels, t)
  PROVE  Live(t) \in Tab /\ Live(t).id = t
<1>1. Sound(panels, order, nextPanel)
  BY DEF IInv, MemoryOK
<1> QED
  BY <1>1, OwnerProperties DEF Live

\* A new version of a tab takes its place.
LEMMA ReplacedOK ==
  ASSUME IInv, UNCHANGED nextPanel, NEW tab \in Tab,
         Emit(Replaced(panels, tab), order, active)
  PROVE  MemoryOK' /\ order' = order
<1>1. IsBox(panels, PanelId, Panel)
  BY DEF IInv, MemoryOK, Sound
<1>2. /\ IsBox(Replaced(panels, tab), PanelId, Panel)
      /\ DOMAIN Replaced(panels, tab) = DOMAIN panels
  BY <1>1, ReplacedBox
<1>3. Sound(Replaced(panels, tab), order, nextPanel)
  BY <1>2, SameOrder
<1> QED
  BY <1>3, EmitSound

\* ... and waits to be saved.
LEMMA EditOK ==
  ASSUME IInv, UserEvent, NEW tab \in Tab, Edit(tab), UNCHANGED sends
  PROVE  IInv'
<1>1. /\ Emit(Replaced(panels, tab), order, active)
      /\ dirty' = dirty \cup {tab.id} /\ timer' = TRUE
      /\ UNCHANGED <<queue, closed, idVars, nextPanel>>
  BY DEF Edit, idVars
<1>2. MemoryOK' /\ order' = order
  BY <1>1, ReplacedOK
<1>3. tab.id \in TabId
  BY TabParts
<1>4. SavingOK'
  BY <1>1, <1>3 DEF IInv, SavingOK
<1>5. queue' \in Seq(Entry(nextPanel'))
  BY <1>1 DEF IInv
<1>6. ClosedOK' /\ SendsOK' /\ IdsOK' /\ PanelIdsGrow
  BY <1>1, Unchanged DEF PanelIdsGrow
<1> QED
  BY <1>2, <1>4, <1>5, <1>6, EventOK

\* The request of a tab is edited ...
LEMMA UpdateTabOK ==
  ASSUME IInv, NEW t \in TabId, NEW node \in Nodes \cup {NoNode},
         NEW config \in Configs, UpdateTab(t, node, config)
  PROVE  IInv'
<1> DEFINE tab == [Live(t) EXCEPT !.node = node, !.config = config]
<1>1. UserEvent /\ IsOpen(panels, t) /\ Edit(tab) /\ UNCHANGED sends
  BY DEF UpdateTab
<1>2. tab \in Tab
  <2>1. Live(t) \in Tab
    BY <1>1, LiveType
  <2> QED
    BY <2>1 DEF Tab
<1> HIDE DEF tab
<1> QED
  BY <1>1, <1>2, EditOK

\* ... or reverted to its node's ...
LEMMA RevertTabOK ==
  ASSUME IInv, NEW t \in TabId, NEW config \in Configs, RevertTab(t, config)
  PROVE  IInv'
<1> DEFINE tab == [Live(t) EXCEPT !.config = config]
<1>1. UserEvent /\ IsOpen(panels, t) /\ Edit(tab) /\ UNCHANGED sends
  BY DEF RevertTab
<1>2. tab \in Tab
  BY <1>1, LiveType DEF Tab
<1> HIDE DEF tab
<1> QED
  BY <1>1, <1>2, EditOK

\* ... or an earlier response is shown.
LEMMA ViewResponseHistoryEntryOK ==
  ASSUME IInv, NEW t \in TabId, NEW s \in SendId, ViewResponseHistoryEntry(t, s)
  PROVE  IInv'
<1> DEFINE tab == [Live(t) EXCEPT !.response = s]
<1>1. UserEvent /\ IsOpen(panels, t) /\ Edit(tab) /\ UNCHANGED sends
  BY DEF ViewResponseHistoryEntry
<1>2. tab \in Tab
  BY <1>1, LiveType DEF Tab
<1> HIDE DEF tab
<1> QED
  BY <1>1, <1>2, EditOK

\* The sending flag of a tab is set or cleared.
LEMMA SendingType ==
  ASSUME IInv, NEW t \in TabId, IsOpen(panels, t), NEW flag \in BOOLEAN
  PROVE  [Live(t) EXCEPT !.sending = flag] \in Tab
BY LiveType DEF Tab

\* A send starts.
LEMMA SendRequestOK ==
  ASSUME IInv, NEW t \in TabId, SendRequest(t)
  PROVE  IInv'
<1> DEFINE tab == [Live(t) EXCEPT !.sending = TRUE]
<1>1. /\ UserEvent /\ IsOpen(panels, t) /\ nextSend < MaxSends
      /\ nextSend' = nextSend + 1
      /\ cancelled' = cancelled \cup ({handle[t]} \ {NoSend})
      /\ handle' = [handle EXCEPT ![t] = nextSend']
      /\ running' = running \cup {[send |-> nextSend', tab |-> t]}
      /\ Emit(Replaced(panels, tab), order, active)
      /\ UNCHANGED <<queue, closed, saving, nextTab, nextPanel>>
  BY DEF SendRequest
<1>2. tab \in Tab
  BY <1>1, SendingType
<1> HIDE DEF tab
<1>3. MemoryOK' /\ order' = order
  BY <1>1, <1>2, ReplacedOK
<1>4. nextSend' \in SendId /\ nextSend' \in 0..MaxSends
  BY <1>1, StorageAssumption DEF IInv, IdsOK, SendId
<1>5. SendsOK' /\ IdsOK'
  <2>1. /\ handle \in [TabId -> SendId \cup {NoSend}]
        /\ cancelled \subseteq SendId
        /\ running \subseteq [send : SendId, tab : TabId]
    BY DEF IInv, SendsOK
  <2>2. handle' \in [TabId -> SendId \cup {NoSend}] /\ cancelled' \subseteq SendId
    BY <1>1, <1>4, <2>1
  <2>3. running' \subseteq [send : SendId, tab : TabId]
    BY <1>1, <1>4, <2>1
  <2> QED
    BY <1>1, <1>4, <2>2, <2>3 DEF IInv, SendsOK, IdsOK
<1>6. queue' \in Seq(Entry(nextPanel'))
  BY <1>1 DEF IInv
<1> QED
  BY <1>1, <1>3, <1>5, <1>6, Unchanged, EventOK DEF PanelIdsGrow

\* A send is cancelled.
LEMMA CancelRequestOK ==
  ASSUME IInv, NEW t \in TabId, CancelRequest(t)
  PROVE  IInv'
<1> DEFINE tab == [Live(t) EXCEPT !.sending = FALSE]
<1>1. /\ UserEvent /\ IsOpen(panels, t)
      /\ cancelled' = cancelled \cup ({handle[t]} \ {NoSend})
      /\ Emit(Replaced(panels, tab), order, active)
      /\ UNCHANGED <<queue, closed, saving, handle, running, idVars, nextPanel>>
  BY DEF CancelRequest, idVars
<1>2. tab \in Tab
  BY <1>1, SendingType
<1> HIDE DEF tab
<1>3. MemoryOK' /\ order' = order
  BY <1>1, <1>2, ReplacedOK
<1>4. SendsOK'
  BY <1>1 DEF IInv, SendsOK
<1>5. queue' \in Seq(Entry(nextPanel'))
  BY <1>1 DEF IInv
<1> QED
  BY <1>1, <1>3, <1>4, <1>5, Unchanged, EventOK DEF PanelIdsGrow

\* What the return of a send leaves alone, and the versions of the tab it may
\* put in place.
LEMMA ReturnsOK ==
  ASSUME IInv, NEW run, Returns(run), SavingOK',
         \/ panels' = panels
         \/ \E tab \in Tab : panels' = Replaced(panels, tab)
  PROVE  IInv'
<1>1. /\ run \in running /\ Finished(run)
      /\ UNCHANGED <<disk, queue, process, order, active, closed, idVars, nextPanel,
                     phase, events>>
  BY DEF Returns, idVars, process
<1>2. SendsOK'
  <2>1. run.tab \in TabId
    BY <1>1 DEF IInv, SendsOK
  <2> QED
    BY <1>1, <2>1 DEF IInv, SendsOK, Finished
<1>3. IsBox(panels, PanelId, Panel)
  BY DEF IInv, MemoryOK, Sound
<1>4. IsBox(panels', PanelId, Panel) /\ DOMAIN panels' = DOMAIN panels
  BY <1>3, ReplacedBox
<1>5. MemoryOK'
  <2>1. Sound(panels', order, nextPanel)
    BY <1>4, SameOrder
  <2> QED
    BY <1>1, <1>4, <2>1 DEF IInv, MemoryOK
<1>6. queue' \in Seq(Entry(nextPanel'))
  BY <1>1 DEF IInv
<1> QED
  BY <1>1, <1>2, <1>5, <1>6, Unchanged DEF IInv, LoadedOK

\* The response is the newest of the tab's timeline.
LEMMA RecordedType ==
  ASSUME NEW tab \in Tab, NEW s \in SendId
  PROVE  Recorded(tab, s) \in Tab /\ Recorded(tab, s).id = tab.id
<1> DEFINE all == <<s>> \o tab.history
           m   == IF Len(all) < HistoryLimit THEN Len(all) ELSE HistoryLimit
<1>1. all \in Seq(SendId)
  BY TabParts
<1> HIDE DEF all
<1>2. m \in 0..Len(all) /\ Len(all) \in Nat /\ \A i \in 1..Len(all) : all[i] \in SendId
  BY <1>1, TabsAssumption
<1> HIDE DEF m
<1>3. SubSeq(all, 1, m) \in Seq(SendId)
  BY <1>1, <1>2
<1>4. Recorded(tab, s) = [tab EXCEPT !.sending = FALSE, !.response = s,
                                     !.history = SubSeq(all, 1, m)]
  BY DEF Recorded, all, m
<1> QED
  BY <1>3, <1>4 DEF Tab

\* A send returns, in each of the three ways.
LEMMA AnswerOK ==
  ASSUME IInv, Answer
  PROVE  IInv'
<1>1. PICK run \in running : ReceiveResponse(run) \/ StopSend(run) \/ DropSend(run)
  BY DEF Answer
<1>2. run.tab \in TabId /\ run.send \in SendId
  BY DEF IInv, SendsOK
<1>3. CASE ReceiveResponse(run)
  <2>1. CASE IsOpen(panels, run.tab)
    <3>1. Recorded(Live(run.tab), run.send) \in Tab
      BY <1>2, <2>1, LiveType, RecordedType
    <3>2. /\ panels' = Replaced(panels, Recorded(Live(run.tab), run.send))
          /\ dirty' = dirty \cup {run.tab} /\ timer' = TRUE /\ Returns(run)
      BY <1>3, <2>1 DEF ReceiveResponse
    <3>3. SavingOK'
      BY <1>2, <3>2 DEF IInv, SavingOK
    <3> QED
      BY <3>1, <3>2, <3>3, ReturnsOK
  <2>2. CASE ~IsOpen(panels, run.tab)
    <3>1. panels' = panels /\ UNCHANGED saving /\ Returns(run)
      BY <1>3, <2>2 DEF ReceiveResponse
    <3> QED
      BY <3>1, Unchanged, ReturnsOK
  <2> QED
    BY <2>1, <2>2
<1>4. CASE StopSend(run)
  <2>1. Returns(run) /\ UNCHANGED saving
    BY <1>4 DEF StopSend
  <2>2. CASE IsOpen(panels, run.tab)
    <3>1. [Live(run.tab) EXCEPT !.sending = FALSE] \in Tab
      BY <1>2, <2>2, SendingType
    <3>2. panels' = Replaced(panels, [Live(run.tab) EXCEPT !.sending = FALSE])
      BY <1>4, <2>2 DEF StopSend
    <3> QED
      BY <2>1, <3>1, <3>2, Unchanged, ReturnsOK
  <2>3. CASE ~IsOpen(panels, run.tab)
    <3>1. panels' = panels
      BY <1>4, <2>3 DEF StopSend
    <3> QED
      BY <2>1, <3>1, Unchanged, ReturnsOK
  <2> QED
    BY <2>2, <2>3
<1>5. CASE DropSend(run)
  <2>1. Returns(run) /\ panels' = panels /\ UNCHANGED saving
    BY <1>5 DEF DropSend
  <2> QED
    BY <2>1, Unchanged, ReturnsOK
<1> QED
  BY <1>1, <1>3, <1>4, <1>5

-----------------------------------------------------------------------------
(* Panels come and go, and tabs move between them. *)

\* There is a free name: more names are tried than there can be panels.
LEMMA NextNameType ==
  ASSUME IInv, NEW p
  PROVE  NextName(p) \in Nat
<1> DEFINE Others == DOMAIN panels \ {p}
           used   == {panels[q].name : q \in Others}
           Names  == 1..(MaxPanels + 1)
           f      == [n \in Names |-> CHOOSE q \in Others : panels[q].name = n]
           free   == {n \in Names : n \notin used}
<1>1. Others \subseteq PanelId /\ MaxPanels \in Nat
  BY StorageAssumption DEF IInv, MemoryOK, Sound, IsBox
<1>2. free # {}
  <2> SUFFICES ASSUME \A n \in Names : n \in used
               PROVE  FALSE
    OBVIOUS
  <2>1. ASSUME NEW n \in Names
        PROVE  f[n] \in Others /\ panels[f[n]].name = n
    <3>1. \E q \in Others : panels[q].name = n
      BY <2>1
    <3> QED
      BY <3>1
  <2> HIDE DEF f
  <2>2. /\ IsFiniteSet(Names) /\ Cardinality(Names) = MaxPanels + 1
        /\ IsFiniteSet(PanelId) /\ Cardinality(PanelId) = MaxPanels
    <3>1. MaxPanels \in Int /\ MaxPanels + 1 \in Int /\ 1 \in Int
      BY <1>1
    <3>2. /\ IsFiniteSet(Names)
          /\ Cardinality(Names) = IF 1 > MaxPanels + 1 THEN 0 ELSE MaxPanels + 1 - 1 + 1
          /\ IsFiniteSet(PanelId)
          /\ Cardinality(PanelId) = IF 1 > MaxPanels THEN 0 ELSE MaxPanels - 1 + 1
      BY <3>1, FS_Interval DEF PanelId
    <3> QED
      BY <1>1, <3>2
  <2> DEFINE g == [n \in Names |-> f[n]]
  <2>3. g \in [Names -> PanelId] /\ \A n \in Names : g[n] = f[n]
    BY <1>1, <2>1
  <2> HIDE DEF g
  <2>4. \E x, y \in Names : x # y /\ g[x] = g[y]
    <3>1. Cardinality(PanelId) < Cardinality(Names)
      BY <1>1, <2>2
    <3> HIDE DEF Names
    <3> QED
      BY <2>2, <2>3, <3>1, FS_PigeonHole
  <2> QED
    BY <2>1, <2>3, <2>4
<1>3. free \in SUBSET Nat
  BY <1>1
<1>4. PICK n \in free : \A m \in free : n <= m
  BY <1>2, <1>3, LeastNumber
<1>5. \A m \in 1..(n - 1) : m \in used
  <2> SUFFICES ASSUME NEW m \in 1..(n - 1), m \notin used
               PROVE  FALSE
    OBVIOUS
  <2>1. m \in Names /\ m < n
    BY <1>1, <1>4
  <2>2. m \in free
    BY <2>1
  <2>3. n \in Nat /\ m \in Nat /\ n <= m
    BY <1>3, <1>4, <2>2
  <2> QED
    BY <2>1, <2>3
<1>6. NextName(p) = CHOOSE k \in Names :
                      k \notin used /\ \A m \in 1..(k - 1) : m \in used
  BY DEF NextName
<1>7. n \in Names /\ n \notin used
  BY <1>4
<1> HIDE DEF used
<1>8. NextName(p) \in Names
  BY <1>5, <1>6, <1>7
<1> QED
  BY <1>1, <1>8

\* A panel is renamed.
LEMMA RenamePanelOK ==
  ASSUME IInv, NEW p, NEW name \in 0..MaxName, RenamePanel(p, name)
  PROVE  IInv'
<1> DEFINE new   == IF name = 0 THEN NextName(p) ELSE name
           panel == [panels[p] EXCEPT !.name = new]
<1>1. /\ UserEvent /\ p \in DOMAIN panels
      /\ Emit([panels EXCEPT ![p] = panel], order, active)
      /\ Write(<<PutPanel(p, RowOf(panels'[p]))>>)
      /\ UNCHANGED <<closed, saving, sends, idVars, nextPanel>>
  BY DEF RenamePanel, idVars
<1>2. new \in Nat
  BY NextNameType, TabsAssumption
<1> HIDE DEF new
<1>3. panel \in Panel
  BY <1>1, <1>2, PanelFacts DEF Panel
<1> HIDE DEF panel
<1>4. MemoryOK' /\ queue' \in Seq(Entry(nextPanel')) /\ order' = order
  BY <1>1, <1>3, SavePanelOK
<1> QED
  BY <1>1, <1>4, Unchanged, EventOK DEF PanelIdsGrow

\* A panel with a new id is shown after the others.
LEMMA NewPanelSound ==
  ASSUME IInv, nextPanel < MaxPanels, NEW ps, IsBox(ps, PanelId, Panel),
         DOMAIN ps = DOMAIN panels, NEW panel \in Panel, NEW q, q = nextPanel + 1
  PROVE  /\ q \in PanelId /\ q \in 0..MaxPanels
         /\ Sound(Put(ps, q, panel), Append(order, q), q)
         /\ Append(order, q) # <<>>
         /\ DOMAIN Put(ps, q, panel) = DOMAIN panels \cup {q}
<1>1. /\ nextPanel \in Nat /\ MaxPanels \in Nat
      /\ DOMAIN panels \subseteq 1..nextPanel
      /\ order \in Seq(PanelId) /\ IsInjective(order) /\ ToSet(order) = DOMAIN panels
  BY StorageAssumption DEF IInv, IdsOK, MemoryOK, Sound
<1>2. q \in PanelId /\ q \in 0..MaxPanels /\ q \notin 1..nextPanel
      /\ 1..nextPanel \subseteq 1..q /\ q \in 1..q
  BY <1>1 DEF PanelId
<1>3. q \notin ToSet(order)
  BY <1>1, <1>2
<1>4. /\ IsBox(Put(ps, q, panel), PanelId, Panel)
      /\ DOMAIN Put(ps, q, panel) = DOMAIN panels \cup {q}
  <2>1. q \in PanelId
    BY <1>2
  <2>2. /\ IsBox(Put(ps, q, panel), PanelId, Panel)
        /\ DOMAIN Put(ps, q, panel) = DOMAIN ps \cup {q}
    BY <2>1 DEF Put, IsBox
  <2> QED
    BY <2>2
<1>5. /\ Append(order, q) \in Seq(PanelId) /\ Append(order, q) # <<>>
      /\ IsInjective(Append(order, q))
      /\ ToSet(Append(order, q)) = DOMAIN panels \cup {q}
  BY <1>1, <1>2, <1>3, AppendInjectiveOrder
<1> QED
  BY <1>1, <1>2, <1>4, <1>5 DEF Sound

\* An empty panel is added.
LEMMA AddPanelOK ==
  ASSUME IInv, AddPanel
  PROVE  IInv'
<1> DEFINE p     == nextPanel + 1
           panel == [name |-> NextName(NoPanel), strip |-> <<>>, active |-> NoTab]
           steps == <<PutPanel(p, RowOf(panels'[p])), Meta>>
<1>1. /\ UserEvent /\ nextPanel < MaxPanels
      /\ Emit(Put(panels, p, panel), Append(order, p), p)
      /\ nextPanel' = p
      /\ queue' = queue \o Issue(steps, panels', order', active')
      /\ UNCHANGED <<closed, saving, sends, nextTab, nextSend>>
  BY DEF AddPanel, Write
<1>2. panel \in Panel
  <2>1. <<>> \in Seq(Tab)
    OBVIOUS
  <2> QED
    BY <2>1, NextNameType DEF Panel
<1> HIDE DEF panel
<1>3. /\ p \in 0..MaxPanels
      /\ Sound(Put(panels, p, panel), Append(order, p), p)
      /\ Append(order, p) # <<>>
      /\ DOMAIN Put(panels, p, panel) = DOMAIN panels \cup {p}
  <2> DEFINE ps == panels
  <2>1. IsBox(ps, PanelId, Panel) /\ DOMAIN ps = DOMAIN panels
    BY DEF IInv, MemoryOK, Sound
  <2>2. p = nextPanel + 1 /\ nextPanel < MaxPanels
    BY <1>1
  <2> HIDE DEF p, ps, steps
  <2>3. \A new : IsBox(new, PanelId, Panel) /\ DOMAIN new = DOMAIN panels =>
                 Sound(Put(new, p, panel), Append(order, p), p)
    BY <1>2, <2>2, NewPanelSound
  <2>4. Sound(Put(ps, p, panel), Append(order, p), p)
    BY <2>1, <2>3
  <2>5. DOMAIN Put(ps, p, panel) = DOMAIN panels \cup {p}
    BY <2>1 DEF Put
  <2>6. p \in 0..MaxPanels /\ Append(order, p) # <<>>
    BY <1>2, <2>1, <2>2, NewPanelSound
  <2> QED
    BY <2>4, <2>5, <2>6 DEF ps
<1>4. /\ MemoryOK' /\ order' = Append(order, p)
      /\ panels' = Put(panels, p, panel)
  BY <1>1, <1>3, EmitSound
<1>5. p \in PanelId \cap 1..nextPanel' /\ RowOf(panels'[p]) \in Row
  BY <1>3, <1>4, RowAfter
<1>6. steps \in Seq(PlainStep(nextPanel'))
  BY <1>5, PlainSteps
<1> HIDE DEF steps
<1>7. PanelIdsGrow
  BY <1>1 DEF PanelIdsGrow
<1>8. queue' \in Seq(Entry(nextPanel'))
  BY <1>1, <1>4, <1>6, <1>7, WriteQueue
<1>9. IdsOK'
  BY <1>1, <1>3 DEF IInv, IdsOK
<1> QED
  BY <1>1, <1>3, <1>4, <1>7, <1>8, <1>9, Unchanged, EventOK

\* Another panel is shown.
LEMMA SetActivePanelOK ==
  ASSUME IInv, NEW p, SetActivePanel(p)
  PROVE  IInv'
<1>1. /\ UserEvent /\ Emit(panels, order, p)
      /\ queue' = queue \o Issue(<<Meta>>, panels', order', active')
      /\ UNCHANGED <<closed, saving, sends, idVars, nextPanel>>
  BY DEF SetActivePanel, Write, idVars
<1>2. Sound(panels, order, nextPanel)
  BY DEF IInv, MemoryOK
<1>3. MemoryOK' /\ order' = order
  BY <1>1, <1>2, EmitSound
<1>4. <<Meta>> \in Seq(PlainStep(nextPanel))
  BY PlainSteps
<1>5. queue' \in Seq(Entry(nextPanel'))
  BY <1>1, <1>3, <1>4, WriteQueue DEF PanelIdsGrow
<1> QED
  BY <1>1, <1>3, <1>5, Unchanged, EventOK DEF PanelIdsGrow

\* A panel is dragged to another place.
LEMMA ReorderPanelsOK ==
  ASSUME IInv, NEW i, NEW j, ReorderPanels(i, j)
  PROVE  IInv'
<1> DEFINE ord == Moved(order, i, j)
<1>1. /\ UserEvent /\ {i, j} \subseteq DOMAIN order
      /\ Emit(panels, ord, active)
      /\ queue' = queue \o Issue(<<Meta>>, panels', order', active')
      /\ UNCHANGED <<closed, saving, sends, idVars, nextPanel>>
  BY DEF ReorderPanels, Write, idVars
<1>2. /\ order \in Seq(PanelId) /\ IsInjective(order) /\ DOMAIN order = 1..Len(order)
      /\ ToSet(order) = DOMAIN panels /\ Sound(panels, order, nextPanel)
  BY OrderFacts DEF IInv, MemoryOK, Sound
<1>3. ord \in Seq(PanelId) /\ IsInjective(ord) /\ ToSet(ord) = ToSet(order)
  BY <1>1, <1>2, MovedType, MovedInjective
<1>4. ord # <<>>
  <2>1. ToSet(order) # {}
    BY <1>1 DEF ToSet
  <2> QED
    BY <1>2, <1>3, <2>1, DOMAIN <<>> = {} DEF ToSet
<1> HIDE DEF ord
<1>5. Sound(panels, ord, nextPanel)
  BY <1>2, <1>3 DEF Sound
<1>6. MemoryOK' /\ order' = ord
  BY <1>1, <1>5, EmitSound
<1>7. <<Meta>> \in Seq(PlainStep(nextPanel))
  BY PlainSteps
<1>8. queue' \in Seq(Entry(nextPanel'))
  BY <1>1, <1>6, <1>7, WriteQueue DEF PanelIdsGrow
<1> QED
  BY <1>1, <1>4, <1>6, <1>8, Unchanged, EventOK DEF PanelIdsGrow

\* A panel is removed with its tabs.
LEMMA RemovePanelOK ==
  ASSUME IInv, NEW p, RemovePanel(p)
  PROVE  IInv'
<1> DEFINE strip == panels[p].strip
           gone  == Ids(strip)
           I     == {k \in 1..Len(order) : order[k] = p}
           i     == SelectInSeq(order, LAMBDA q : q = p)
           left  == RemoveAt(order, i)
           act   == IF active # p THEN active ELSE left[IF i = 1 THEN 1 ELSE i - 1]
           steps == <<DeleteTabs(gone), DeletePanel(p), Meta>>
<1>1. /\ UserEvent /\ p \in DOMAIN panels /\ Len(order) > 1
      /\ PushClosed(Closing(p, DOMAIN strip))
      /\ Emit(Delete(panels, {p}), left, act)
      /\ dirty' = dirty \ gone
      /\ CancelAndFinish(gone)
      /\ queue' = queue \o Issue(steps, panels', order', active')
      /\ UNCHANGED <<timer, idVars, nextPanel>>
  BY DEF RemovePanel, Removable, Write, idVars
<1>2. gone \in SUBSET TabId /\ p \in PanelId /\ DOMAIN strip \in SUBSET DOMAIN strip
  BY <1>1, PanelFacts DEF Ids
<1>3. i = IF I # {} THEN Min(I) ELSE 0
  BY DEF SelectInSeq
<1>4. I \in SUBSET Nat /\ I # {}
  BY <1>1, OrderFacts
<1>5. i \in 1..Len(order) /\ order[i] = p
  BY <1>3, <1>4, MinIsLeast
<1> HIDE DEF i
<1>6. /\ order \in Seq(PanelId) /\ IsInjective(order) /\ ToSet(order) = DOMAIN panels
      /\ IsBox(panels, PanelId, Panel) /\ DOMAIN panels \subseteq 1..nextPanel
  BY DEF IInv, MemoryOK, Sound
<1>7. /\ left \in Seq(PanelId) /\ IsInjective(left)
      /\ ToSet(left) = DOMAIN panels \ {p} /\ Len(left) = Len(order) - 1
  BY <1>5, <1>6, RemoveAtType, RemoveAtInjective
<1> HIDE DEF left
<1>8. left # <<>>
  BY <1>1, <1>6, <1>7
<1>9. /\ IsBox(Delete(panels, {p}), PanelId, Panel)
      /\ DOMAIN Delete(panels, {p}) = DOMAIN panels \ {p}
  <2>1. IsBox(panels, PanelId, Panel)
    BY <1>6
  <2> QED
    BY <2>1 DEF Delete, IsBox
<1>10. Sound(Delete(panels, {p}), left, nextPanel)
  BY <1>6, <1>7, <1>9 DEF Sound
<1> HIDE DEF act, gone, strip
<1>11. MemoryOK' /\ order' = left
  BY <1>1, <1>10, EmitSound
<1>12. steps \in Seq(PlainStep(nextPanel))
  BY <1>2, PlainSteps
<1> HIDE DEF steps
<1>13. queue' \in Seq(Entry(nextPanel'))
  BY <1>1, <1>11, <1>12, WriteQueue DEF PanelIdsGrow
<1>14. ClosedOK'
  BY <1>1, <1>2, ClosingType, PushClosedOK DEF strip
<1>15. SavingOK' /\ SendsOK' /\ IdsOK'
  BY <1>1, <1>2, CancelAndFinishOK, Unchanged DEF IInv, SavingOK
<1> QED
  BY <1>1, <1>8, <1>11, <1>13, <1>14, <1>15, EventOK DEF PanelIdsGrow

\* A panel without one of its tabs.
LEMMA DetachedBox ==
  ASSUME IInv, NEW p \in DOMAIN panels, NEW i \in 1..Len(panels[p].strip)
  PROVE  /\ IsBox(Detached(panels, p, i), PanelId, Panel)
         /\ DOMAIN Detached(panels, p, i) = DOMAIN panels
<1> DEFINE strip == RemoveAt(panels[p].strip, i)
           act   == Neighbour(panels[p], i)
           panel == [panels[p] EXCEPT !.strip = strip, !.active = act]
<1>1. panels[p] \in Panel /\ panels[p].strip \in Seq(Tab)
  BY PanelFacts
<1>2. strip \in Seq(Tab) /\ act \in TabId \cup {NoTab}
  BY <1>1, RemoveAtType, NeighbourType
<1>3. Detached(panels, p, i) = [panels EXCEPT ![p] = panel]
  <2>1. panels \in [DOMAIN panels -> Panel]
    BY DEF IInv, MemoryOK, Sound, IsBox
  <2> QED
    BY <2>1 DEF Detached
<1> HIDE DEF strip, act
<1>4. panel \in Panel
  BY <1>1, <1>2 DEF Panel
<1> HIDE DEF panel
<1>5. IsBox(panels, PanelId, Panel)
  BY DEF IInv, MemoryOK, Sound
<1>6. /\ IsBox([panels EXCEPT ![p] = panel], PanelId, Panel)
      /\ DOMAIN [panels EXCEPT ![p] = panel] = DOMAIN panels
  BY <1>4, <1>5, PanelEdit
<1> QED
  BY <1>3, <1>6

\* A tab moves to another panel.
LEMMA MoveTabToPanelOK ==
  ASSUME IInv, NEW t \in TabId, NEW q, MoveTabToPanel(t, q)
  PROVE  IInv'
<1> DEFINE p     == Owner(panels, order, t)
           i     == Position(panels[p].strip, t)
           tab   == panels[p].strip[i]
           ps    == Detached(panels, p, i)
           act   == IF panels[q].strip = <<>> THEN t ELSE ps[q].active
           panel == [ps[q] EXCEPT !.strip = Append(ps[q].strip, tab), !.active = act]
           steps == <<PutPanel(q, RowOf(panels'[q])), LivePanel(p, RowOf(panels'[p]))>>
<1>1. /\ UserEvent /\ q \in DOMAIN panels /\ IsOpen(panels, t) /\ p # q
      /\ Emit([ps EXCEPT ![q].strip = Append(@, tab),
                         ![q].active = IF panels[q].strip = <<>> THEN t ELSE @],
              order, active)
      /\ queue' = queue \o Issue(steps, panels', order', active')
      /\ UNCHANGED <<closed, saving, sends, idVars, nextPanel>>
  BY DEF MoveTabToPanel, Write, MoveWrites, idVars
<1>2. Sound(panels, order, nextPanel)
  BY DEF IInv, MemoryOK
<1>3. p \in DOMAIN panels /\ i \in 1..Len(panels[p].strip)
  BY <1>1, <1>2, OwnerProperties
<1> HIDE DEF p, i
<1>4. tab \in Tab
  BY <1>3, PanelFacts
<1>5. IsBox(ps, PanelId, Panel) /\ DOMAIN ps = DOMAIN panels
  BY <1>3, DetachedBox
<1> HIDE DEF tab, ps
<1>6. ps[q] \in Panel /\ ps[q].strip \in Seq(Tab) /\ act \in TabId \cup {NoTab}
  BY <1>1, <1>5, PanelParts
<1>7. [ps EXCEPT ![q].strip = Append(@, tab),
                 ![q].active = IF panels[q].strip = <<>> THEN t ELSE @]
      = [ps EXCEPT ![q] = panel]
  BY <1>5 DEF IsBox
<1> HIDE DEF act
<1>8. panel \in Panel
  <2>1. Append(ps[q].strip, tab) \in Seq(Tab)
    BY <1>4, <1>6
  <2> QED
    BY <1>6, <2>1 DEF Panel
<1> HIDE DEF panel
<1>9. /\ IsBox([ps EXCEPT ![q] = panel], PanelId, Panel)
      /\ DOMAIN [ps EXCEPT ![q] = panel] = DOMAIN panels
  BY <1>1, <1>5, <1>8, PanelEdit
<1>10. Sound([ps EXCEPT ![q] = panel], order, nextPanel)
  BY <1>9, SameOrder
<1>11. MemoryOK' /\ order' = order /\ DOMAIN panels' = DOMAIN panels
  BY <1>1, <1>7, <1>9, <1>10, EmitSound
<1>12. /\ q \in PanelId \cap 1..nextPanel /\ RowOf(panels'[q]) \in Row
       /\ p \in PanelId \cap 1..nextPanel /\ RowOf(panels'[p]) \in Row
  BY <1>1, <1>3, <1>11, RowAfter
<1>13. steps \in Seq(PlainStep(nextPanel))
  BY <1>12, PlainSteps
<1> HIDE DEF steps
<1>14. queue' \in Seq(Entry(nextPanel'))
  BY <1>1, <1>11, <1>13, WriteQueue DEF PanelIdsGrow
<1> QED
  BY <1>1, <1>11, <1>14, Unchanged, EventOK DEF PanelIdsGrow

\* A tab moves to a panel of its own.
LEMMA MoveTabToNewPanelOK ==
  ASSUME IInv, NEW t \in TabId, MoveTabToNewPanel(t)
  PROVE  IInv'
<1> PICK q : q = nextPanel + 1
  OBVIOUS
<1> DEFINE p     == Owner(panels, order, t)
           i     == Position(panels[p].strip, t)
           ps    == Detached(panels, p, i)
           panel == [name  |-> NextName(NoPanel),
                     strip |-> <<panels[p].strip[i]>>, active |-> t]
           steps == <<PutPanel(q, RowOf(panels'[q])), LivePanel(p, RowOf(panels'[p]))>>
                    \o <<Meta>>
<1>1. /\ UserEvent /\ IsOpen(panels, t) /\ nextPanel < MaxPanels
      /\ Emit(Put(ps, q, panel), Append(order, q), active)
      /\ nextPanel' = q
      /\ queue' = queue \o Issue(steps, panels', order', active')
      /\ UNCHANGED <<closed, saving, sends, nextTab, nextSend>>
  BY DEF MoveTabToNewPanel, Write, MoveWrites
<1>2. Sound(panels, order, nextPanel)
  BY DEF IInv, MemoryOK
<1>3. p \in DOMAIN panels /\ i \in 1..Len(panels[p].strip)
  BY <1>1, <1>2, OwnerProperties
<1> HIDE DEF p, i
<1>4. IsBox(ps, PanelId, Panel) /\ DOMAIN ps = DOMAIN panels
  BY <1>3, DetachedBox
<1> HIDE DEF ps
<1>5. panel \in Panel
  <2>1. <<panels[p].strip[i]>> \in Seq(Tab)
    BY <1>3, PanelFacts
  <2> QED
    BY <2>1, NextNameType DEF Panel
<1> HIDE DEF panel
<1>6. /\ q \in 0..MaxPanels
      /\ Sound(Put(ps, q, panel), Append(order, q), q)
      /\ Append(order, q) # <<>>
      /\ DOMAIN Put(ps, q, panel) = DOMAIN panels \cup {q}
  <2>1. nextPanel < MaxPanels /\ q = nextPanel + 1
    BY <1>1
  <2> HIDE DEF steps
  <2>2. \A new : IsBox(new, PanelId, Panel) /\ DOMAIN new = DOMAIN panels =>
                 Sound(Put(new, q, panel), Append(order, q), q)
    BY <1>5, <2>1, NewPanelSound
  <2>3. Sound(Put(ps, q, panel), Append(order, q), q)
    BY <1>4, <2>2
  <2>4. DOMAIN Put(ps, q, panel) = DOMAIN ps \cup {q}
    BY DEF Put
  <2>5. q \in 0..MaxPanels /\ Append(order, q) # <<>>
    BY <1>4, <1>5, <2>1, NewPanelSound
  <2> QED
    BY <1>4, <2>3, <2>4, <2>5
<1>7. /\ MemoryOK' /\ order' = Append(order, q) /\ panels' = Put(ps, q, panel)
  BY <1>1, <1>6, EmitSound
<1>8. /\ q \in PanelId \cap 1..nextPanel' /\ RowOf(panels'[q]) \in Row
      /\ p \in PanelId \cap 1..nextPanel' /\ RowOf(panels'[p]) \in Row
  BY <1>3, <1>6, <1>7, RowAfter
<1>9. steps \in Seq(PlainStep(nextPanel'))
  BY <1>8, PlainSteps
<1> HIDE DEF steps
<1>10. PanelIdsGrow
  BY <1>1 DEF PanelIdsGrow
<1>11. queue' \in Seq(Entry(nextPanel'))
  BY <1>1, <1>7, <1>9, <1>10, WriteQueue
<1>12. IdsOK'
  BY <1>1, <1>6 DEF IInv, IdsOK
<1> QED
  BY <1>1, <1>6, <1>7, <1>10, <1>11, <1>12, Unchanged, EventOK

-----------------------------------------------------------------------------
(* Flushes, and the end of the process. *)

\* A flush may be followed by the loop of close(), and by plain steps.
LEMMA FlushFirst ==
  ASSUME NEW n, NEW first \in KnownStep(n), first.kind = "flush",
         NEW after \in Seq(KnownStep(n)),
         \A i \in 1..Len(after) : /\ after[i].kind # "flush"
                                  /\ after[i].kind = "saveAll" => i = 1
  PROVE  <<first>> \o after \in Steps(n) /\ WellShaped(<<first>> \o after)
<1> DEFINE steps == <<first>> \o after
<1>1. /\ steps \in Seq(KnownStep(n)) /\ steps # <<>> /\ Head(steps) = first
      /\ Len(after) \in Nat /\ DOMAIN steps = 1..(Len(after) + 1)
      /\ steps[1] = first
      /\ \A i \in 1..Len(after) : steps[i + 1] = after[i]
  OBVIOUS
<1> HIDE DEF steps
<1>2. \A k \in 2..(Len(after) + 1) :
        steps[k].kind # "flush" /\ (steps[k].kind = "saveAll" => k = 2)
  <2> SUFFICES ASSUME NEW k \in 2..(Len(after) + 1)
               PROVE  steps[k].kind # "flush" /\ (steps[k].kind = "saveAll" => k = 2)
    OBVIOUS
  <2>1. PICK i \in 1..Len(after) : k = i + 1
    <3>1. k - 1 \in 1..Len(after) /\ k = (k - 1) + 1
      BY <1>1
    <3> QED
      BY <3>1
  <2>2. steps[k] = after[i]
    BY <1>1, <2>1
  <2> QED
    BY <2>1, <2>2
<1>3. WellShaped(steps) /\ steps \in Steps(n)
  BY <1>1, <1>2 DEF WellShaped, Flushes, Steps
<1> QED
  BY <1>3 DEF steps

\* What a flush and the steps after it put in the queue.
LEMMA StartFlushOK ==
  ASSUME IInv, NEW after \in {<<>>, <<Exit>>, <<SaveAll, Meta, Exit>>},
         StartFlush(after)
  PROVE  queue' \in Seq(Entry(nextPanel)) /\ dirty' \in SUBSET TabId
<1>1. PICK todo \in SetToSeqs(dirty) :
        /\ dirty' = dirty \ Reached(<<Flush(todo)>>, panels)
        /\ queue' = queue \o Issue(<<Flush(todo)>> \o after, panels, order, active)
  BY DEF StartFlush
<1>2. dirty \subseteq TabId /\ MaxTabs \in Nat
  BY StorageAssumption DEF IInv, SavingOK
<1>3. todo \in Seq(TabId)
  <2>1. dirty \in SUBSET (0..MaxTabs)
    BY <1>2 DEF TabId
  <2>2. todo \in Seq(dirty)
    BY <1>2, <2>1, ArrangementProperties
  <2> QED
    BY <1>2, <2>2, SeqMonotonic
<1> DEFINE n     == nextPanel
           steps == <<Flush(todo)>> \o after
<1>4. /\ Flush(todo) \in KnownStep(n) /\ Flush(todo).kind = "flush"
      /\ SaveAll \in KnownStep(n) /\ SaveAll.kind = "saveAll"
      /\ Meta \in KnownStep(n) /\ Meta.kind = "meta"
      /\ Exit \in KnownStep(n) /\ Exit.kind = "exit"
  BY <1>3 DEF KnownStep, Step, Flush, SaveAll, Meta, Exit
<1> HIDE DEF n
<1>5. steps \in Steps(n) /\ WellShaped(steps)
  <2>1. /\ after \in Seq(KnownStep(n))
        /\ \A i \in 1..Len(after) : /\ after[i].kind # "flush"
                                   /\ after[i].kind = "saveAll" => i = 1
    <3>1. CASE after = <<>>
      BY <3>1
    <3>2. CASE after = <<Exit>>
      BY <1>4, <3>2
    <3>3. CASE after = <<SaveAll, Meta, Exit>>
      <4>1. /\ Len(after) = 3
            /\ after[1] = SaveAll /\ after[2] = Meta /\ after[3] = Exit
        BY <3>3
      <4>2. after \in Seq(KnownStep(n))
        BY <1>4, <3>3
      <4> QED
        BY <1>4, <4>1, <4>2
    <3> QED
      BY <3>1, <3>2, <3>3
  <2> HIDE DEF KnownStep
  <2> QED
    BY <1>4, <2>1, FlushFirst
<1> HIDE DEF steps
<1>6. Sound(panels, order, n) /\ active \in PanelId \cup {NoPanel}
      /\ queue \in Seq(Entry(n))
  BY DEF IInv, MemoryOK, n
<1>7. Issue(steps, panels, order, active) \in Seq(Entry(n))
  BY <1>5, <1>6, IssueType
<1>8. queue' = queue \o Issue(steps, panels, order, active)
  BY <1>1 DEF steps
<1> HIDE DEF Entry
<1>9. queue' \in Seq(Entry(n))
  BY <1>6, <1>7, <1>8, ConcatProperties
<1> QED
  BY <1>1, <1>2, <1>9 DEF n

\* The timer's flush.
LEMMA FlushTimerOK ==
  ASSUME IInv, FlushTimer
  PROVE  IInv'
<1>1. /\ timer' = FALSE /\ StartFlush(<<>>)
      /\ UNCHANGED <<disk, process, memory, closed, sends, idVars, events, nextPanel,
                     phase, order>>
  BY DEF FlushTimer, idVars, process, memory
<1>2. queue' \in Seq(Entry(nextPanel)) /\ dirty' \in SUBSET TabId
  BY <1>1, StartFlushOK
<1>3. SavingOK'
  BY <1>1, <1>2 DEF SavingOK
<1> QED
  BY <1>1, <1>2, <1>3, Unchanged DEF IInv, LoadedOK

\* The flush of an app that is hidden, or that quits.
LEMMA UserFlushOK ==
  ASSUME IInv, FlushPendingSaves \/ RequestExit
  PROVE  IInv'
<1>1. /\ UserEvent
      /\ UNCHANGED <<timer, memory, closed, sends, idVars, nextPanel, order>>
  BY DEF FlushPendingSaves, RequestExit, idVars, memory
<1>2. queue' \in Seq(Entry(nextPanel)) /\ dirty' \in SUBSET TabId
  BY StartFlushOK DEF FlushPendingSaves, RequestExit
<1>3. SavingOK'
  BY <1>1, <1>2 DEF IInv, SavingOK
<1>4. queue' \in Seq(Entry(nextPanel'))
  BY <1>1, <1>2
<1> QED
  BY <1>1, <1>3, <1>4, Unchanged, EventOK DEF PanelIdsGrow

\* The flush of close().
LEMMA CloseBlocOK ==
  ASSUME IInv, CloseBloc
  PROVE  IInv'
<1>1. /\ phase' = "closing" /\ timer' = FALSE
      /\ cancelled' = cancelled \cup ({handle[t] : t \in TabId} \ {NoSend})
      /\ handle' = [t \in TabId |-> NoSend]
      /\ StartFlush(<<SaveAll, Meta, Exit>>)
      /\ UNCHANGED <<disk, memory, closed, running, idVars, events, faults, crashes,
                     nextPanel>>
  BY DEF CloseBloc, idVars
<1>2. queue' \in Seq(Entry(nextPanel)) /\ dirty' \in SUBSET TabId
  BY <1>1, StartFlushOK
<1>3. SavingOK' /\ SendsOK' /\ ProcessOK'
  <2>1. {handle[t] : t \in TabId} \ {NoSend} \subseteq SendId
    BY DEF IInv, SendsOK
  <2> QED
    BY <1>1, <1>2, <2>1 DEF IInv, SavingOK, SendsOK, ProcessOK
<1> QED
  BY <1>1, <1>2, <1>3, Unchanged DEF IInv, LoadedOK

\* No panels are sound panels.
LEMMA NoPanelsSound ==
  ASSUME NEW n
  PROVE  Sound(<<>>, <<>>, n)
<1>1. <<>> \in Seq(PanelId) /\ DOMAIN <<>> = {}
  OBVIOUS
<1> QED
  BY <1>1 DEF Sound, IsBox, IsInjective, ToSet

\* The process ends, one way or the other.
LEMMA HaltOK ==
  ASSUME IInv, ExecuteExit \/ Crash
  PROVE  IInv'
<1>1. /\ Halt /\ UNCHANGED <<disk, idVars, events, nextPanel>>
      /\ faults' \in Nat /\ crashes' \in Nat
  BY DEF ExecuteExit, Crash, IInv, ProcessOK, idVars
<1>2. MemoryOK' /\ LoadedOK' /\ ProcessOK'
  BY <1>1, NoPanelsSound DEF Halt, MemoryOK, LoadedOK, ProcessOK
<1>3. ClosedOK' /\ SavingOK' /\ SendsOK' /\ (queue' \in Seq(Entry(nextPanel)))
  <2>1. <<>> \in Seq(Closed) /\ <<>> \in Seq(Entry(nextPanel))
    OBVIOUS
  <2> QED
    BY <1>1, <2>1 DEF Halt, ClosedOK, SavingOK, SendsOK
<1> QED
  BY <1>1, <1>2, <1>3, Unchanged DEF IInv

-----------------------------------------------------------------------------
(* Loading the session, and what the worker does. *)

\* The first command of the queue and those behind it.
LEMMA HeadProperties ==
  ASSUME IInv, queue # <<>>
  PROVE  /\ Head(queue) \in Entry(nextPanel) /\ Tail(queue) \in Seq(Entry(nextPanel))
         /\ Head(queue).op \in Command
         /\ Head(queue).rest \in Steps(nextPanel) /\ WellShaped(Head(queue).rest)
         /\ Flushes(Head(queue).rest) => Head(queue).op.kind = "putTab"
         /\ Head(queue).op.kind = "putPanel" => Head(queue).op.panel \in 1..nextPanel
         /\ Head(queue).op.kind = "getActive" =>
              /\ IsInjective(FoundOrder(Head(queue).op.found))
              /\ ToSet(FoundOrder(Head(queue).op.found)) \subseteq 1..nextPanel
<1>1. queue \in Seq(Entry(nextPanel))
  BY DEF IInv
<1> HIDE DEF Entry
<1>2. Head(queue) \in Entry(nextPanel) /\ Tail(queue) \in Seq(Entry(nextPanel))
  BY <1>1
<1> QED
  BY <1>2 DEF Entry

\* A start of the process.
LEMMA StartOK ==
  ASSUME IInv, Start
  PROVE  IInv'
<1> DEFINE entry == [op |-> GetPanels, rest |-> <<>>]
<1>1. /\ phase' = "loading" /\ queue' = <<entry>>
      /\ UNCHANGED <<disk, memory, closed, saving, sends, idVars, events, faults,
                     crashes, nextPanel>>
  BY DEF Start, idVars
<1>2. entry \in Entry(nextPanel)
  <2>1. <<>> \in Seq(PlainStep(nextPanel))
    OBVIOUS
  <2>2. <<>> \in Steps(nextPanel) /\ WellShaped(<<>>) /\ ~Flushes(<<>>)
    BY <2>1, PlainShaped
  <2>3. GetPanels \in Command /\ GetPanels.kind = "getPanels"
    BY DEF GetPanels, Command
  <2> QED
    BY <2>2, <2>3 DEF Entry
<1> HIDE DEF entry
<1>3. queue' \in Seq(Entry(nextPanel'))
  BY <1>1, <1>2
<1> QED
  BY <1>1, <1>3, Unchanged DEF IInv, LoadedOK, ProcessOK

\* The panels found are asked for the active one.
LEMMA AnsweredOK ==
  ASSUME IInv, queue # <<>>, PanelIdsGrow, nextPanel' \in Nat,
         NEW found \in Seq([id : PanelId, panel : Panel]),
         IsInjective(FoundOrder(found)), ToSet(FoundOrder(found)) \subseteq 1..nextPanel',
         Answered(found)
  PROVE  queue' \in Seq(Entry(nextPanel'))
<1> DEFINE entry == [op |-> GetActive(found), rest |-> <<>>]
<1>1. entry \in Entry(nextPanel')
  <2>1. <<>> \in Seq(PlainStep(nextPanel'))
    OBVIOUS
  <2>2. <<>> \in Steps(nextPanel') /\ WellShaped(<<>>) /\ ~Flushes(<<>>)
    BY <2>1, PlainShaped
  <2>3. /\ GetActive(found) \in Command /\ GetActive(found).kind = "getActive"
        /\ GetActive(found).found = found
    BY DEF GetActive, Command
  <2> QED
    BY <2>2, <2>3 DEF Entry
<1>2. Tail(queue) \in Seq(Entry(nextPanel'))
  <2>1. Tail(queue) \in Seq(Entry(nextPanel))
    BY HeadProperties
  <2>2. nextPanel \in Nat /\ nextPanel <= nextPanel'
    BY DEF IInv, IdsOK, PanelIdsGrow
  <2> QED
    BY <2>1, <2>2, EntryGrows, SeqMonotonic
<1>3. queue' = Append(Tail(queue), entry)
  BY DEF Answered
<1> HIDE DEF entry, Entry
<1> QED
  BY <1>1, <1>2, <1>3

\* A stored panel.
LEMMA StoredPanelType ==
  ASSUME NEW d, IsDisk(d), NEW p \in DOMAIN d.panels
  PROVE  StoredPanel(d, p) \in Panel
<1>1. /\ d.panels[p].name \in Nat /\ d.panels[p].ids \in Seq(TabId)
      /\ d.panels[p].active \in TabId \cup {NoTab}
  BY DEF IsDisk, IsBox, Row
<1>2. StoredStrip(d, d.panels[p].ids) \in Seq(Tab)
  BY <1>1, StoredStripType
<1> QED
  BY <1>1, <1>2 DEF StoredPanel, Panel

\* The session is read: panels, or tabs without panels, or nothing.
LEMMA ReadPanelsOK ==
  ASSUME IInv, ReadPanels
  PROVE  IInv'
<1>1. /\ queue # <<>>
      /\ UNCHANGED <<disk, process, memory, closed, saving, sends, nextTab, nextSend,
                     events, phase, order>>
  BY DEF ReadPanels, process, memory
<1>2. IsDisk(disk) /\ nextPanel \in 0..MaxPanels /\ MaxPanels \in Nat
      /\ DOMAIN disk.panels \subseteq 1..nextPanel
  BY StorageAssumption DEF IInv, DiskOK, IdsOK
<1>3. /\ PanelIdsGrow /\ nextPanel' \in 0..MaxPanels
      /\ queue' \in Seq(Entry(nextPanel'))
  <2>1. ASSUME NEW ord \in StoredOrders(disk), UNCHANGED nextPanel,
               Answered([i \in DOMAIN ord |-> [id    |-> ord[i],
                                               panel |-> StoredPanel(disk, ord[i])]])
        PROVE  queue' \in Seq(Entry(nextPanel'))
    <3> DEFINE found == [i \in DOMAIN ord |-> [id    |-> ord[i],
                                               panel |-> StoredPanel(disk, ord[i])]]
    <3>1. /\ ord \in Seq(PanelId) /\ ToSet(ord) \subseteq DOMAIN disk.panels
          /\ \A i, j \in DOMAIN ord : i # j => ord[i] # ord[j]
          /\ Len(ord) \in Nat /\ DOMAIN ord = 1..Len(ord)
      BY <1>2, StoredOrdersSound
    <3>2. \A i \in 1..Len(ord) : ord[i] \in PanelId /\ ord[i] \in DOMAIN disk.panels
      BY <3>1 DEF ToSet
    <3>3. \A i \in 1..Len(ord) : [id |-> ord[i], panel |-> StoredPanel(disk, ord[i])]
                                   \in [id : PanelId, panel : Panel]
      BY <1>2, <3>2, StoredPanelType
    <3>4. found \in Seq([id : PanelId, panel : Panel])
      BY <3>1, <3>3
    <3>5. FoundOrder(found) = [i \in 1..Len(ord) |-> ord[i]]
      BY <3>1 DEF FoundOrder
    <3> HIDE DEF found
    <3>6. IsInjective(FoundOrder(found))
      BY <3>1, <3>5 DEF IsInjective
    <3>7. ToSet(FoundOrder(found)) \subseteq 1..nextPanel'
      BY <1>2, <2>1, <3>2, <3>5 DEF ToSet
    <3>8. Answered(found)
      BY <2>1 DEF found
    <3>9. PanelIdsGrow /\ nextPanel' \in Nat
      BY <1>2, <2>1 DEF PanelIdsGrow
    <3> QED
      BY <1>1, <3>4, <3>6, <3>7, <3>8, <3>9, AnsweredOK
  <2>2. ASSUME nextPanel < MaxPanels, nextPanel' = nextPanel + 1,
               DOMAIN disk.tabs # {}, NEW ids \in SetToSeqs(DOMAIN disk.tabs),
               Answered(<<[id    |-> nextPanel',
                           panel |-> [name |-> 1, strip |-> StoredStrip(disk, ids),
                                      active |-> ids[1]]]>>)
        PROVE  queue' \in Seq(Entry(nextPanel'))
    <3> DEFINE panel == [name |-> 1, strip |-> StoredStrip(disk, ids),
                         active |-> ids[1]]
               found == <<[id |-> nextPanel', panel |-> panel]>>
    <3>1. ids \in Seq(TabId) /\ ids # <<>>
      <4>1. DOMAIN disk.tabs \subseteq TabId /\ MaxTabs \in Nat
        BY <1>2, StorageAssumption DEF IsDisk, IsBox
      <4>2. DOMAIN disk.tabs \in SUBSET (0..MaxTabs)
        BY <4>1 DEF TabId
      <4>3. ids \in Seq(DOMAIN disk.tabs) /\ ids # <<>>
        BY <2>2, <4>1, <4>2, ArrangementProperties
      <4> QED
        BY <4>1, <4>3, SeqMonotonic
    <3>2. panel \in Panel
      <4>1. ids[1] \in TabId
        BY <3>1
      <4>2. StoredStrip(disk, ids) \in Seq(Tab)
        BY <1>2, <3>1, StoredStripType
      <4> QED
        BY <4>1, <4>2 DEF Panel
    <3>3. nextPanel' \in PanelId /\ nextPanel' \in 1..nextPanel' /\ nextPanel' \in Nat
      BY <1>2, <2>2 DEF PanelId
    <3> HIDE DEF panel
    <3>4. found \in Seq([id : PanelId, panel : Panel])
      BY <3>2, <3>3
    <3>5. /\ DOMAIN FoundOrder(found) = {1}
          /\ FoundOrder(found)[1] = nextPanel'
      BY DEF FoundOrder
    <3>6. Answered(found)
      BY <2>2 DEF panel
    <3> HIDE DEF found
    <3>7. IsInjective(FoundOrder(found)) /\ ToSet(FoundOrder(found)) \subseteq 1..nextPanel'
      BY <3>3, <3>5 DEF IsInjective, ToSet
    <3>8. PanelIdsGrow
      BY <2>2 DEF PanelIdsGrow
    <3> QED
      BY <1>1, <3>3, <3>4, <3>6, <3>7, <3>8, AnsweredOK
  <2>3. ASSUME UNCHANGED nextPanel, Answered(<<>>)
        PROVE  queue' \in Seq(Entry(nextPanel'))
    <3>1. <<>> \in Seq([id : PanelId, panel : Panel]) /\ DOMAIN <<>> = {}
      OBVIOUS
    <3>2. DOMAIN FoundOrder(<<>>) = {}
      BY <3>1 DEF FoundOrder
    <3>3. IsInjective(FoundOrder(<<>>)) /\ ToSet(FoundOrder(<<>>)) \subseteq 1..nextPanel'
      BY <3>2 DEF IsInjective, ToSet
    <3>4. PanelIdsGrow /\ nextPanel' \in Nat /\ Answered(<<>>)
      BY <1>2, <2>3 DEF PanelIdsGrow
    <3> QED
      BY <1>1, <3>1, <3>3, <3>4, AnsweredOK
  <2>4. \/ /\ UNCHANGED nextPanel
           /\ \E ord \in StoredOrders(disk) :
                Answered([i \in DOMAIN ord |-> [id    |-> ord[i],
                                                panel |-> StoredPanel(disk, ord[i])]])
        \/ /\ nextPanel < MaxPanels /\ nextPanel' = nextPanel + 1
           /\ DOMAIN disk.tabs # {}
           /\ \E ids \in SetToSeqs(DOMAIN disk.tabs) :
                Answered(<<[id    |-> nextPanel',
                            panel |-> [name |-> 1, strip |-> StoredStrip(disk, ids),
                                       active |-> ids[1]]]>>)
        \/ UNCHANGED nextPanel /\ Answered(<<>>)
    BY DEF ReadPanels
  <2>5. PanelIdsGrow /\ nextPanel' \in 0..MaxPanels
    BY <1>2, <2>4 DEF PanelIdsGrow
  <2> QED
    BY <2>1, <2>2, <2>3, <2>4, <2>5
<1>4. MemoryOK' /\ DiskOK'
  <2>1. 1..nextPanel \subseteq 1..nextPanel'
    BY <1>2, <1>3 DEF PanelIdsGrow
  <2> QED
    BY <1>1, <2>1 DEF IInv, MemoryOK, DiskOK, Sound, memory
<1>5. IdsOK'
  BY <1>1, <1>3 DEF IInv, IdsOK
<1> QED
  BY <1>1, <1>3, <1>4, <1>5, Unchanged DEF IInv, LoadedOK

\* The panels of a session that was read.
LEMMA FoundSound ==
  ASSUME NEW n, NEW found \in Seq([id : PanelId, panel : Panel]),
         IsInjective(FoundOrder(found)), ToSet(FoundOrder(found)) \subseteq 1..n
  PROVE  Sound(FoundPanels(found), FoundOrder(found), n)
<1> DEFINE ord == FoundOrder(found)
           ps  == FoundPanels(found)
<1>1. /\ Len(found) \in Nat /\ DOMAIN found = 1..Len(found)
      /\ \A i \in 1..Len(found) : found[i].id \in PanelId /\ found[i].panel \in Panel
  <2> DEFINE S == [id : PanelId, panel : Panel]
  <2>1. \A f \in S : f.id \in PanelId /\ f.panel \in Panel
    OBVIOUS
  <2>2. found \in Seq(S)
    OBVIOUS
  <2> HIDE DEF S
  <2> QED
    BY <2>1, <2>2
<1>2. ord \in Seq(PanelId) /\ ToSet(ord) = {found[i].id : i \in 1..Len(found)}
  BY <1>1 DEF FoundOrder, ToSet
<1>3. DOMAIN ps = ToSet(ord)
  BY DEF FoundPanels
<1>4. ASSUME NEW p \in ToSet(ord)
      PROVE  ps[p] \in Panel
  <2> DEFINE I == {i \in 1..Len(found) : found[i].id = p}
             i == SelectInSeq(found, LAMBDA f : f.id = p)
  <2>1. i = IF I # {} THEN Min(I) ELSE 0
    BY DEF SelectInSeq
  <2>2. I # {} /\ I \in SUBSET Nat
    BY <1>2, <1>4
  <2>3. i \in 1..Len(found)
    BY <2>1, <2>2, MinIsLeast
  <2>4. ps[p] = found[i].panel
    BY <1>4 DEF FoundPanels
  <2> HIDE DEF i
  <2> QED
    BY <1>1, <2>3, <2>4
<1>5. ps = [p \in ToSet(ord) |-> ps[p]]
  BY DEF FoundPanels
<1>6. ToSet(ord) \subseteq PanelId
  BY <1>1, <1>2
<1> HIDE DEF ps, ord
<1>7. IsBox(ps, PanelId, Panel)
  BY <1>3, <1>4, <1>5, <1>6 DEF IsBox
<1>8. Sound(ps, ord, n)
  BY <1>2, <1>3, <1>7 DEF Sound, ord
<1> QED
  BY <1>8 DEF ps, ord

\* The handler of LoadTabs goes on with its writes.
LEMMA ThenOK ==
  ASSUME IInv, queue # <<>>, MemoryOK', PanelIdsGrow,
         NEW steps \in Seq(PlainStep(nextPanel')), Then(steps)
  PROVE  queue' \in Seq(Entry(nextPanel'))
<1>1. Sound(panels', order', nextPanel') /\ active' \in PanelId \cup {NoPanel}
  BY DEF MemoryOK
<1>2. Issue(steps, panels', order', active') \in Seq(Entry(nextPanel'))
  BY <1>1, IssuePlain
<1>3. Tail(queue) \in Seq(Entry(nextPanel'))
  <2>1. Tail(queue) \in Seq(Entry(nextPanel))
    BY HeadProperties
  <2>2. nextPanel \in Nat /\ nextPanel' \in Nat /\ nextPanel <= nextPanel'
    BY DEF IInv, IdsOK, PanelIdsGrow
  <2> QED
    BY <2>1, <2>2, EntryGrows, SeqMonotonic
<1>4. queue' = Tail(queue) \o Issue(steps, panels', order', active')
  BY DEF Then
<1> HIDE DEF Entry
<1> QED
  BY <1>2, <1>3, <1>4, ConcatProperties

\* The stored session is restored, and what was never stored is stored.
LEMMA RestoreSessionOK ==
  ASSUME IInv, RestoreSession
  PROVE  IInv'
<1> DEFINE found == Head(queue).op.found
           ord   == FoundOrder(found)
           ps    == FoundPanels(found)
           steps == IF disk.active = Unsaved THEN Append(PutEvery(ord, ps), Meta)
                    ELSE <<>>
<1>1. /\ queue # <<>> /\ Head(queue).op.kind = "getActive" /\ ord # <<>>
      /\ phase' = "ready"
      /\ Emit(ps, ord, disk.active)
      /\ Then(steps)
      /\ UNCHANGED <<disk, closed, saving, sends, idVars, events, faults, crashes,
                     nextPanel>>
  BY DEF RestoreSession, idVars
<1>2. found \in Seq([id : PanelId, panel : Panel])
  BY <1>1, HeadProperties DEF Command
<1>3. IsInjective(ord) /\ ToSet(ord) \subseteq 1..nextPanel
  BY <1>1, HeadProperties
<1>4. Sound(ps, ord, nextPanel)
  BY <1>2, <1>3, FoundSound
<1> HIDE DEF ps, ord, found
<1>5. MemoryOK' /\ order' = ord
  BY <1>1, <1>4, EmitSound
<1>6. steps \in Seq(PlainStep(nextPanel))
  <2>1. PutEvery(ord, ps) \in Seq(PlainStep(nextPanel))
    BY <1>4, PutEveryPlain
  <2>2. Meta \in PlainStep(nextPanel)
    BY PlainSteps
  <2> HIDE DEF PlainStep
  <2> QED
    BY <2>1, <2>2
<1> HIDE DEF steps
<1>7. queue' \in Seq(Entry(nextPanel'))
  BY <1>1, <1>5, <1>6, ThenOK DEF PanelIdsGrow
<1>8. ProcessOK' /\ LoadedOK'
  BY <1>1, <1>5 DEF IInv, ProcessOK, LoadedOK
<1> QED
  BY <1>1, <1>5, <1>7, <1>8, Unchanged DEF IInv

\* A first run gets a panel with a sample request.
LEMMA SeedSessionOK ==
  ASSUME IInv, SeedSession
  PROVE  IInv'
<1> PICK p : p = nextPanel + 1
  OBVIOUS
<1> DEFINE tab   == NewTab(NoNode, Sample)
           panel == [name |-> 1, strip |-> <<tab>>, active |-> tab.id]
           ps    == Put(<<>>, p, panel)
           steps == <<PutTab(tab), PutPanel(p, RowOf(panels'[p])), Meta>>
<1>1. /\ queue # <<>> /\ nextPanel < MaxPanels /\ nextTab < MaxTabs
      /\ nextPanel' = p /\ nextTab' = nextTab + 1
      /\ phase' = "ready"
      /\ Emit(ps, <<p>>, p)
      /\ Then(steps)
      /\ UNCHANGED <<disk, closed, saving, sends, nextSend, events, faults, crashes>>
  BY DEF SeedSession
<1>2. tab \in Tab /\ tab.id \in TabId /\ nextTab' \in 0..MaxTabs
  BY <1>1, NewTabType, TabParts, TabsAssumption
<1>3. panel \in Panel
  <2> HIDE DEF tab
  <2>1. <<tab>> \in Seq(Tab)
    BY <1>2
  <2> QED
    BY <1>2, <2>1 DEF Panel
<1> HIDE DEF tab, panel
<1>4. p \in PanelId /\ p \in 1..p /\ p \in 0..MaxPanels /\ 1..nextPanel \subseteq 1..p
  BY <1>1, StorageAssumption DEF IInv, IdsOK, PanelId
<1>5. Sound(ps, <<p>>, p)
  <2>1. IsBox(<<>>, PanelId, Panel)
    BY NoPanelsSound DEF Sound
  <2>2. IsBox(ps, PanelId, Panel) /\ DOMAIN ps = {p}
    <3>1. DOMAIN <<>> = {}
      OBVIOUS
    <3> QED
      BY <1>3, <1>4, <2>1, <3>1 DEF Put, IsBox
  <2>3. <<p>> \in Seq(PanelId) /\ DOMAIN <<p>> = {1} /\ <<p>>[1] = p
    BY <1>4
  <2>4. IsInjective(<<p>>) /\ ToSet(<<p>>) = {p}
    BY <2>3 DEF IsInjective, ToSet
  <2> QED
    BY <1>4, <2>2, <2>3, <2>4 DEF Sound
<1> HIDE DEF ps
<1>6. MemoryOK' /\ order' = <<p>> /\ panels' = ps
  BY <1>1, <1>5, EmitSound
<1>7. p \in DOMAIN panels'
  <2>1. ToSet(<<p>>) = DOMAIN ps
    BY <1>5 DEF Sound
  <2>2. 1 \in DOMAIN <<p>> /\ <<p>>[1] = p
    OBVIOUS
  <2> QED
    BY <1>6, <2>1, <2>2 DEF ToSet
<1>8. p \in PanelId \cap 1..nextPanel' /\ RowOf(panels'[p]) \in Row
  BY <1>6, <1>7, RowAfter
<1>9. steps \in Seq(PlainStep(nextPanel'))
  BY <1>2, <1>8, PlainSteps
<1> HIDE DEF steps
<1>10. PanelIdsGrow
  BY <1>1 DEF PanelIdsGrow
<1>11. queue' \in Seq(Entry(nextPanel'))
  BY <1>1, <1>6, <1>9, <1>10, ThenOK
<1>12. DiskOK' /\ IdsOK' /\ ProcessOK' /\ LoadedOK'
  BY <1>1, <1>2, <1>4, <1>6 DEF IInv, DiskOK, IdsOK, ProcessOK, LoadedOK
<1> QED
  BY <1>1, <1>6, <1>11, <1>12, Unchanged DEF IInv

\* The handler that waited for a command goes on.
LEMMA GoOnQueue ==
  ASSUME IInv, queue # <<>>
  PROVE  Tail(queue) \o Issue(Head(queue).rest, panels, order, active)
           \in Seq(Entry(nextPanel))
<1>1. Sound(panels, order, nextPanel) /\ active \in PanelId \cup {NoPanel}
  BY DEF IInv, MemoryOK
<1>2. Issue(Head(queue).rest, panels, order, active) \in Seq(Entry(nextPanel))
  BY <1>1, HeadProperties, IssueType
<1>3. Tail(queue) \in Seq(Entry(nextPanel))
  BY HeadProperties
<1> HIDE DEF Entry
<1> QED
  BY <1>2, <1>3, ConcatProperties

\* A box write: the panels box gets no row of an id that was not handed out.
LEMMA AppliedOK ==
  ASSUME IInv, queue # <<>>, Head(queue).op.kind \in BoxWrites \cup {"putMeta"},
         disk' = Applied(Head(queue).op, disk), UNCHANGED nextPanel
  PROVE  DiskOK'
<1> DEFINE op == Head(queue).op
<1>1. op \in Command /\ (op.kind = "putPanel" => op.panel \in 1..nextPanel)
  BY HeadProperties
<1> HIDE DEF op
<1>2. op.kind \in BoxWrites \cup {"putMeta"} /\ disk' = Applied(op, disk)
  BY DEF op
<1>3. op \in BoxWrite
  BY <1>1, <1>2 DEF Command, BoxWrite, BoxWrites
<1>4. IsDisk(disk) /\ DOMAIN disk.panels \subseteq 1..nextPanel
  BY DEF IInv, DiskOK
<1>5. IsDisk(disk')
  BY <1>2, <1>3, <1>4, AppliedDisk
<1>6. DOMAIN Applied(op, disk).panels \subseteq 1..nextPanel
  <2>1. disk = [tabs |-> disk.tabs, panels |-> disk.panels, order |-> disk.order,
                active |-> disk.active]
    BY <1>4 DEF IsDisk
  <2>2. CASE op.kind = "putPanel"
    <3>1. Applied(op, disk) = [disk EXCEPT !.panels = Put(disk.panels, op.panel, op.row)]
      BY <2>2 DEF Applied
    <3>2. Applied(op, disk).panels = Put(disk.panels, op.panel, op.row)
      BY <2>1, <3>1
    <3> QED
      BY <1>1, <1>4, <2>2, <3>2 DEF Put
  <2>3. CASE op.kind = "deletePanel"
    <3>1. Applied(op, disk) = [disk EXCEPT !.panels = Delete(disk.panels, {op.panel})]
      BY <2>3 DEF Applied
    <3>2. Applied(op, disk).panels = Delete(disk.panels, {op.panel})
      BY <2>1, <3>1
    <3> QED
      BY <1>4, <3>2 DEF Delete
  <2>4. CASE op.kind \notin {"putPanel", "deletePanel"}
    <3>1. Applied(op, disk).panels = disk.panels
      <4>1. CASE op.kind = "putTab"
        BY <2>1, <4>1 DEF Applied
      <4>2. CASE op.kind = "deleteTabs"
        BY <2>1, <4>2 DEF Applied
      <4>3. CASE op.kind = "putMeta"
        BY <2>1, <4>3 DEF Applied
      <4>4. CASE op.kind = "putActive"
        BY <2>1, <4>4 DEF Applied
      <4> QED
        BY <1>2, <2>4, <4>1, <4>2, <4>3, <4>4 DEF BoxWrites
    <3> QED
      BY <1>4, <3>1
  <2> QED
    BY <2>2, <2>3, <2>4
<1> QED
  BY <1>2, <1>5, <1>6 DEF DiskOK

\* The worker writes.
LEMMA ExecuteWriteOK ==
  ASSUME IInv, ExecuteWrite
  PROVE  IInv'
<1>1. /\ queue # <<>> /\ Head(queue).op.kind \in BoxWrites
      /\ disk' = Applied(Head(queue).op, disk)
      /\ queue' = Tail(queue) \o Issue(Head(queue).rest, panels, order, active)
      /\ dirty' = dirty \ Reached(Head(queue).rest, panels)
      /\ UNCHANGED <<process, memory, closed, timer, sends, idVars, events, nextPanel,
                     phase, order>>
  BY DEF ExecuteWrite, GoOn, idVars, process, memory
<1>2. DiskOK'
  BY <1>1, AppliedOK
<1>3. queue' \in Seq(Entry(nextPanel'))
  BY <1>1, GoOnQueue
<1>4. SavingOK'
  BY <1>1 DEF IInv, SavingOK
<1> QED
  BY <1>1, <1>2, <1>3, <1>4, Unchanged DEF IInv, LoadedOK

\* The worker writes the first of two values.
LEMMA ExecuteMetaOK ==
  ASSUME IInv, ExecuteMeta
  PROVE  IInv'
<1> DEFINE op    == Head(queue).op
           rest  == Head(queue).rest
           entry == [op |-> PutActive(op.active), rest |-> rest]
<1>1. /\ queue # <<>> /\ op.kind = "putMeta"
      /\ disk' = Applied(op, disk)
      /\ queue' = <<[Head(queue) EXCEPT !.op = PutActive(@.active)]>> \o Tail(queue)
      /\ UNCHANGED <<process, memory, closed, saving, sends, idVars, events, nextPanel,
                     phase, order>>
  BY DEF ExecuteMeta, idVars, process, memory
<1>2. DiskOK'
  BY <1>1, AppliedOK
<1>3. op \in Command /\ rest \in Steps(nextPanel) /\ WellShaped(rest)
      /\ ~Flushes(rest)
  BY <1>1, HeadProperties
<1>4. Head(queue) \in [op : Command, rest : Steps(nextPanel)]
  BY <1>1, HeadProperties DEF Entry
<1>5. [Head(queue) EXCEPT !.op = PutActive(@.active)] = entry
  BY <1>4
<1>6. PutActive(op.active) \in Command /\ PutActive(op.active).kind = "putActive"
  BY <1>1, <1>3 DEF PutActive, Command
<1>7. entry \in Entry(nextPanel)
  BY <1>3, <1>6 DEF Entry
<1>8. queue' \in Seq(Entry(nextPanel'))
  <2>1. Tail(queue) \in Seq(Entry(nextPanel))
    BY <1>1, HeadProperties
  <2>2. queue' = <<entry>> \o Tail(queue)
    BY <1>1, <1>5
  <2> HIDE DEF entry, Entry
  <2>3. <<entry>> \in Seq(Entry(nextPanel))
    BY <1>7
  <2>4. queue' \in Seq(Entry(nextPanel))
    BY <2>1, <2>2, <2>3, ConcatProperties
  <2> QED
    BY <1>1, <2>4
<1> QED
  BY <1>1, <1>2, <1>8, Unchanged DEF IInv, LoadedOK

\* A write fails.
LEMMA FailWriteOK ==
  ASSUME IInv, FailWrite
  PROVE  IInv'
<1> DEFINE op   == Head(queue).op
           rest == Head(queue).rest
<1>1. /\ queue # <<>> /\ faults' = faults + 1
      /\ queue' = Tail(queue) \o Issue(rest, panels, order, active)
      /\ dirty' = (dirty \cup PutBack(op, rest)) \ Reached(rest, panels)
      /\ UNCHANGED <<disk, phase, crashes, memory, closed, timer, sends, idVars,
                     events, nextPanel, order>>
  BY DEF FailWrite, idVars, memory
<1>2. queue' \in Seq(Entry(nextPanel'))
  BY <1>1, GoOnQueue
<1>3. PutBack(op, rest) \subseteq TabId
  <2>1. op \in Command /\ (Flushes(rest) => op.kind = "putTab")
    BY <1>1, HeadProperties
  <2> HIDE DEF op, rest
  <2>2. op.kind = "putTab" => op.tab \in Tab
    BY <2>1 DEF Command
  <2> QED
    BY <2>1, <2>2, TabParts DEF PutBack, Flushes
<1>4. SavingOK' /\ ProcessOK'
  BY <1>1, <1>3 DEF IInv, SavingOK, ProcessOK
<1> QED
  BY <1>1, <1>2, <1>4, Unchanged DEF IInv, LoadedOK

\* A read fails.
LEMMA FailLoadOK ==
  ASSUME IInv, FailLoad
  PROVE  IInv'
<1>1. /\ queue # <<>> /\ faults' = faults + 1 /\ phase' = "failed"
      /\ queue' = Tail(queue)
      /\ UNCHANGED <<disk, crashes, memory, closed, saving, sends, idVars, events,
                     nextPanel>>
  BY DEF FailLoad, idVars
<1>2. queue' \in Seq(Entry(nextPanel'))
  BY <1>1, HeadProperties
<1>3. ProcessOK' /\ LoadedOK'
  BY <1>1 DEF IInv, ProcessOK, LoadedOK
<1> QED
  BY <1>1, <1>2, <1>3, Unchanged DEF IInv

-----------------------------------------------------------------------------
(* Together. *)

\* The responses found on the disk count as handed out.
LEMMA InitSends ==
  ASSUME Init
  PROVE  /\ nextSend \in 0..MaxSends
         /\ \A t \in DOMAIN disk.tabs :
              /\ ToSet(disk.tabs[t].history) \subseteq 0..nextSend
              /\ disk.tabs[t].response \in 0..nextSend
<1> DEFINE Known(n) == \A t \in DOMAIN disk.tabs :
              ToSet(disk.tabs[t].history) \cup {disk.tabs[t].response} \subseteq 0..n
<1>1. IsDisk(disk) /\ MaxSends \in Nat
  BY StorageAssumption, TabsAssumption DEF Init
<1>2. ASSUME NEW t \in DOMAIN disk.tabs, NEW row, row = disk.tabs[t]
      PROVE  ToSet(row.history) \cup {row.response} \subseteq 0..MaxSends
  <2>1. row.history \in Seq(SendId) /\ row.response \in SendId \cup {NoSend}
    BY <1>1, <1>2 DEF IsDisk, IsBox, Tab
  <2>2. \A i \in DOMAIN row.history : row.history[i] \in SendId
    BY <2>1
  <2> QED
    BY <1>1, <2>1, <2>2 DEF ToSet, SendId, NoSend
<1>3. Known(MaxSends) /\ MaxSends \in 0..MaxSends
  BY <1>1, <1>2
<1>4. nextSend = CHOOSE n \in 0..MaxSends : Known(n)
  BY DEF Init
<1> HIDE DEF Known
<1>5. nextSend \in 0..MaxSends /\ Known(nextSend)
  BY <1>3, <1>4
<1> QED
  BY <1>5 DEF Known

\* At first there is a disk, and the ids found there count as handed out.
LEMMA InitOK ==
  ASSUME Init
  PROVE  IInv
<1>1. IsDisk(disk) /\ MaxTabs \in Nat /\ MaxPanels \in Nat
  BY StorageAssumption, TabsAssumption DEF Init
<1>2. DOMAIN disk.tabs \subseteq 1..MaxTabs /\ DOMAIN disk.panels \subseteq 1..MaxPanels
  BY <1>1 DEF IsDisk, IsBox, TabId, PanelId
<1>3. nextTab \in 0..MaxTabs
  <2>1. \E n \in 0..MaxTabs : DOMAIN disk.tabs \subseteq 1..n
    BY <1>1, <1>2
  <2> QED
    BY <2>1 DEF Init
<1>4. nextPanel \in 0..MaxPanels /\ DOMAIN disk.panels \subseteq 1..nextPanel
  <2>1. \E n \in 0..MaxPanels : DOMAIN disk.panels \subseteq 1..n
    BY <1>1, <1>2
  <2> QED
    BY <2>1 DEF Init
<1>5. MemoryOK
  BY NoPanelsSound DEF Init, MemoryOK
<1>6. DiskOK /\ IdsOK
  BY <1>1, <1>3, <1>4, InitSends DEF DiskOK, IdsOK
<1>7. ClosedOK /\ queue \in Seq(Entry(nextPanel))
  <2>1. <<>> \in Seq(Closed) /\ <<>> \in Seq(Entry(nextPanel))
    OBVIOUS
  <2> QED
    BY <2>1 DEF Init, ClosedOK
<1>8. SavingOK /\ SendsOK /\ ProcessOK /\ LoadedOK /\ events \in Nat
  BY DEF Init, SavingOK, SendsOK, ProcessOK, LoadedOK
<1> QED
  BY <1>5, <1>6, <1>7, <1>8 DEF IInv

\* Every step of every handler keeps the invariant.
LEMMA StepOK ==
  ASSUME IInv, [Next]_vars
  PROVE  IInv'
<1>1. CASE TabEvent
  <2>1. ASSUME NEW t \in TabId,
               \/ DuplicateTab(t) \/ RemoveTab(t) \/ CloseOtherTabs(t)
               \/ CloseTabsToTheRight(t) \/ CloseTabsToTheLeft(t)
               \/ SendRequest(t) \/ CancelRequest(t)
        PROVE  IInv'
    BY <2>1, DuplicateTabOK, RemoveTabOK, CloseOtherTabsOK, CloseTabsToTheRightOK,
       CloseTabsToTheLeftOK, SendRequestOK, CancelRequestOK
  <2>2. ASSUME NEW t \in TabId, NEW node \in Nodes \cup {NoNode}, NEW c \in Configs,
               UpdateTab(t, node, c) \/ RevertTab(t, c)
        PROVE  IInv'
    BY <2>2, UpdateTabOK, RevertTabOK
  <2>3. ASSUME NEW t \in TabId, NEW c \in Configs, RevertTab(t, c)
        PROVE  IInv'
    BY <2>3, RevertTabOK
  <2>4. ASSUME NEW t \in TabId, NEW s \in SendId, ViewResponseHistoryEntry(t, s)
        PROVE  IInv'
    BY <2>4, ViewResponseHistoryEntryOK
  <2>5. ASSUME NEW node \in Nodes, ShowLinkedTab(node)
        PROVE  IInv'
    BY <2>5, ShowLinkedTabOK
  <2>6. ASSUME NEW node \in Nodes \cup {NoNode}, NEW c \in Configs, AddTab(node, c)
        PROVE  IInv'
    BY <2>6, AddTabOK
  <2>7. ASSUME ReopenAsLinkedTab \/ ReopenClosedTab \/ FlushPendingSaves
        PROVE  IInv'
    BY <2>7, ReopenAsLinkedTabOK, ReopenClosedTabOK, UserFlushOK
  <2>8. ASSUME NEW i \in TabId, SetActiveIndex(i)
        PROVE  IInv'
    BY <2>8, SetActiveIndexOK
  <2> QED
    BY <1>1, <2>1, <2>2, <2>3, <2>4, <2>5, <2>6, <2>7, <2>8 DEF TabEvent
<1>2. CASE PanelEvent
  <2>1. ASSUME NEW p \in PanelId, RemovePanel(p) \/ SetActivePanel(p)
        PROVE  IInv'
    BY <2>1, RemovePanelOK, SetActivePanelOK
  <2>2. ASSUME NEW p \in PanelId, NEW n \in 0..MaxName, RenamePanel(p, n)
        PROVE  IInv'
    BY <2>2, RenamePanelOK
  <2>3. ASSUME NEW p \in PanelId, NEW saved \in SavedConfigs, CloseSavedTabs(p, saved)
        PROVE  IInv'
    BY <2>3, CloseSavedTabsOK
  <2>4. ASSUME NEW p \in PanelId, NEW i \in TabId, NEW j \in TabId, ReorderTabs(p, i, j)
        PROVE  IInv'
    BY <2>4, ReorderTabsOK
  <2>5. ASSUME NEW p \in PanelId, NEW t \in TabId, MoveTabToPanel(t, p)
        PROVE  IInv'
    BY <2>5, MoveTabToPanelOK
  <2>6. ASSUME NEW i \in PanelId, NEW j \in PanelId, ReorderPanels(i, j)
        PROVE  IInv'
    BY <2>6, ReorderPanelsOK
  <2>7. ASSUME NEW t \in TabId, MoveTabToNewPanel(t)
        PROVE  IInv'
    BY <2>7, MoveTabToNewPanelOK
  <2> QED
    BY <1>2, <2>1, <2>2, <2>3, <2>4, <2>5, <2>6, <2>7, AddPanelOK DEF PanelEvent
<1>3. CASE Answer
  BY <1>3, AnswerOK
<1>4. CASE Worker
  BY <1>4, ReadPanelsOK, RestoreSessionOK, SeedSessionOK, ExecuteWriteOK, ExecuteMetaOK,
     FailWriteOK, FailLoadOK DEF Worker, Load
<1>5. CASE Start \/ FlushTimer \/ RequestExit \/ CloseBloc \/ ExecuteExit \/ Crash
  BY <1>5, StartOK, FlushTimerOK, UserFlushOK, CloseBlocOK, HaltOK
<1>6. CASE UNCHANGED vars
  BY <1>6, Unchanged DEF vars, IInv, memory, saving, sends, idVars, process, LoadedOK
<1> QED
  BY <1>1, <1>2, <1>3, <1>4, <1>5, <1>6 DEF Next, SessionNext

\* The inductive invariant holds of every behaviour, crashes and failed
\* storage commands included.
THEOREM IInvInvariant == Spec => []IInv
<1>1. Init => IInv
  BY InitOK
<1>2. IInv /\ [Next]_vars => IInv'
  BY StepOK
<1> QED
  BY <1>1, <1>2, PTL DEF Spec

\* Every variable holds a value of its type: the state of TabsBloc, the
\* commands on their way to the storage worker and the boxes, in particular
\* what a handler writes after other handlers have run.
THEOREM TypeCorrect == Spec => []TypeOK
<1>1. IInv => TypeOK
  BY IInvImplies
<1> QED
  BY <1>1, IInvInvariant, PTL

\* The state of TabsBloc names each panel once in its display order, has a
\* panel once it is loaded and shows one that exists, whatever a crash or a
\* failed write has left on disk.
THEOREM PanelsAreSound == Spec => []PanelsSound
<1>1. IInv => PanelsSound
  BY IInvImplies
<1> QED
  BY <1>1, IInvInvariant, PTL

-----------------------------------------------------------------------------
(* The tabs of some panels, each of them a copy of the same tab if two had *)
(* the same id.                                                            *)

Copies(ps) == UNION {ToSet(ps[p].strip) : p \in DOMAIN ps}

\* The tabs of a strip are distinct, and so are their ids.
OneEach(strip) ==
  IsInjective(strip) /\ \A v, w \in ToSet(strip) : v.id = w.id => v = w

\* A panel that has tabs shows one of them.
ShownIn(panel) == IF panel.strip = <<>> THEN panel.active = NoTab
                  ELSE panel.active \in Ids(panel.strip)

\* Two strips with no tab in common.
Apart(s, u) == \A v \in ToSet(s), w \in ToSet(u) : v.id # w.id

\* Every tab is in one place, and every panel shows one of its own.
Once(ps) ==
  /\ \A p \in DOMAIN ps : OneEach(ps[p].strip) /\ ShownIn(ps[p])
  /\ \A p, q \in DOMAIN ps : p # q => Apart(ps[p].strip, ps[q].strip)

\* A copy is in the strip of some panel.
LEMMA CopyPlace ==
  ASSUME NEW ps, NEW v
  PROVE  v \in Copies(ps) <=> \E p \in DOMAIN ps : v \in ToSet(ps[p].strip)
BY DEF Copies

\* The ids of a strip are those of its tabs.
LEMMA IdsOfSet ==
  ASSUME NEW strip, NEW t
  PROVE  t \in Ids(strip) <=> \E v \in ToSet(strip) : v.id = t
BY DEF Ids, ToSet

\* A tab is open if there is a copy of it.
LEMMA OpenCopy ==
  ASSUME NEW ps, NEW t
  PROVE  IsOpen(ps, t) <=> \E v \in Copies(ps) : v.id = t
BY IdsOfSet, CopyPlace DEF IsOpen

\* A strip with an id has a tab.
LEMMA IdsNotEmpty ==
  ASSUME NEW strip, NEW t \in Ids(strip)
  PROVE  strip # <<>>
BY DEF Ids

\* A panel that shows one of its tabs.
LEMMA ShownMember ==
  ASSUME NEW panel, panel.active \in Ids(panel.strip)
  PROVE  ShownIn(panel)
<1>1. panel.strip # <<>>
  BY DEF Ids
<1> QED
  BY <1>1 DEF ShownIn

\* Two copies of a tab are one, in one panel.
LEMMA CopyUnique ==
  ASSUME NEW ps, Once(ps), NEW p \in DOMAIN ps, NEW q \in DOMAIN ps,
         NEW v \in ToSet(ps[p].strip), NEW w \in ToSet(ps[q].strip), v.id = w.id
  PROVE  p = q /\ v = w
BY DEF Once, OneEach, Apart

\* A panel put among others, in the place of one of them or as a new one:
\* its tabs were there, in the panel it replaces, or are open nowhere.
PanelPut(ps, qs, p, old) ==
  /\ Once(ps)
  /\ \/ p \in DOMAIN ps /\ old = ToSet(ps[p].strip)
     \/ p \notin DOMAIN ps /\ old = {}
  /\ DOMAIN qs = DOMAIN ps \cup {p}
  /\ \A q \in DOMAIN ps \ {p} :
       qs[q].strip = ps[q].strip /\ qs[q].active = ps[q].active
  /\ OneEach(qs[p].strip) /\ ShownIn(qs[p])
  /\ \A v \in ToSet(qs[p].strip) :
       (\E w \in old : w.id = v.id) \/ ~IsOpen(ps, v.id)

\* Then every tab is still in one place.
LEMMA PanelPutOnce ==
  ASSUME NEW ps, NEW qs, NEW p, NEW old, PanelPut(ps, qs, p, old)
  PROVE  /\ Once(qs)
         /\ \A v : v \in Copies(qs) <=>
              v \in ToSet(qs[p].strip) \/ (v \in Copies(ps) /\ v \notin old)
<1>1. ASSUME NEW q \in DOMAIN ps \ {p}
      PROVE  Apart(qs[p].strip, qs[q].strip) /\ Apart(qs[q].strip, qs[p].strip)
  <2> SUFFICES ASSUME NEW v \in ToSet(qs[p].strip), NEW w \in ToSet(ps[q].strip)
               PROVE  v.id # w.id
    BY DEF PanelPut, Apart
  <2>1. CASE \E u \in old : u.id = v.id
    BY <2>1 DEF PanelPut, Once, Apart
  <2>2. CASE ~IsOpen(ps, v.id)
    BY <2>2, OpenCopy, CopyPlace
  <2> QED
    BY <2>1, <2>2 DEF PanelPut
<1>2. \A q \in DOMAIN qs : OneEach(qs[q].strip) /\ ShownIn(qs[q])
  BY DEF PanelPut, Once, ShownIn
<1>3. \A q, r \in DOMAIN qs : q # r => Apart(qs[q].strip, qs[r].strip)
  BY <1>1 DEF PanelPut, Once
<1>4. \A v : v \in Copies(qs) <=>
        v \in ToSet(qs[p].strip) \/ \E q \in DOMAIN ps \ {p} : v \in ToSet(ps[q].strip)
  BY CopyPlace DEF PanelPut
<1>5. \A v : v \in Copies(ps) /\ v \notin old <=>
        \E q \in DOMAIN ps \ {p} : v \in ToSet(ps[q].strip)
  BY CopyPlace DEF PanelPut, Once, Apart
<1> QED
  BY <1>2, <1>3, <1>4, <1>5 DEF Once

\* A panel taken away takes its tabs with it.
LEMMA PanelDropOnce ==
  ASSUME NEW ps, Once(ps), NEW p \in DOMAIN ps
  PROVE  /\ Once(Delete(ps, {p}))
         /\ \A v : v \in Copies(Delete(ps, {p})) <=>
              v \in Copies(ps) /\ v \notin ToSet(ps[p].strip)
<1> DEFINE qs == Delete(ps, {p})
<1>1. DOMAIN qs = DOMAIN ps \ {p} /\ \A q \in DOMAIN qs : qs[q] = ps[q]
  BY DEF Delete
<1> HIDE DEF qs
<1>2. Once(qs)
  BY <1>1 DEF Once
<1>3. \A v : v \in Copies(qs) <=> \E q \in DOMAIN ps \ {p} : v \in ToSet(ps[q].strip)
  BY <1>1, CopyPlace
<1>4. \A v : v \in Copies(ps) /\ v \notin ToSet(ps[p].strip) <=>
        \E q \in DOMAIN ps \ {p} : v \in ToSet(ps[q].strip)
  BY CopyPlace DEF Once, Apart
<1> QED
  BY <1>2, <1>3, <1>4 DEF qs

-----------------------------------------------------------------------------
(* Sequences.                                                              *)

\* Two sequences, one after the other.
LEMMA ConcatParts ==
  ASSUME NEW S, NEW q \in Seq(S), NEW more \in Seq(S)
  PROVE  /\ Len(q) \in Nat /\ DOMAIN q = 1..Len(q)
         /\ Len(more) \in Nat /\ DOMAIN more = 1..Len(more)
         /\ q \o more \in Seq(S) /\ Len(q \o more) = Len(q) + Len(more)
         /\ DOMAIN (q \o more) = 1..(Len(q) + Len(more))
         /\ \A k \in DOMAIN q : (q \o more)[k] = q[k]
         /\ \A k \in DOMAIN more : (q \o more)[Len(q) + k] = more[k]
         /\ \A k \in DOMAIN (q \o more) : k \notin DOMAIN q =>
              k - Len(q) \in DOMAIN more /\ (q \o more)[k] = more[k - Len(q)]
<1>1. /\ Len(q) \in Nat /\ DOMAIN q = 1..Len(q)
      /\ Len(more) \in Nat /\ DOMAIN more = 1..Len(more)
      /\ q \o more \in Seq(S) /\ Len(q \o more) = Len(q) + Len(more)
  OBVIOUS
<1>2. DOMAIN (q \o more) = 1..(Len(q) + Len(more))
  BY <1>1
<1>3. \A k \in 1..(Len(q) + Len(more)) :
        (q \o more)[k] = IF k <= Len(q) THEN q[k] ELSE more[k - Len(q)]
  BY <1>1
<1>4. \A k \in DOMAIN more : (q \o more)[Len(q) + k] = more[k]
  <2> SUFFICES ASSUME NEW k \in DOMAIN more
               PROVE  (q \o more)[Len(q) + k] = more[k]
    OBVIOUS
  <2>1. Len(q) + k \in 1..(Len(q) + Len(more)) /\ ~(Len(q) + k <= Len(q))
        /\ (Len(q) + k) - Len(q) = k
    BY <1>1
  <2> QED
    BY <1>3, <2>1
<1> QED
  BY <1>1, <1>2, <1>3, <1>4

\* A sequence without its first element.
LEMMA TailParts ==
  ASSUME NEW S, NEW q \in Seq(S), q # <<>>
  PROVE  /\ Len(q) \in Nat \ {0} /\ DOMAIN q = 1..Len(q) /\ Head(q) = q[1]
         /\ Tail(q) \in Seq(S) /\ Len(Tail(q)) = Len(q) - 1
         /\ DOMAIN Tail(q) = 1..(Len(q) - 1)
         /\ \A k \in DOMAIN Tail(q) : Tail(q)[k] = q[k + 1]
OBVIOUS

-----------------------------------------------------------------------------
(* What the handlers do to a strip.                                        *)

\* The elements at some positions of an injective sequence.
LEMMA SelectedSet ==
  ASSUME NEW S, NEW s \in Seq(S), NEW K \in SUBSET (DOMAIN s)
  PROVE  /\ ToSet(Selected(s, K)) = {s[k] : k \in K}
         /\ IsInjective(s) => IsInjective(Selected(s, K))
<1> DEFINE u == Selected(s, K)
           e == Enumeration(K)
<1>1. /\ \A i \in DOMAIN u : e[i] \in K /\ u[i] = s[e[i]]
      /\ \A i, j \in DOMAIN u : i # j => e[i] # e[j]
      /\ \A k \in K : \E i \in DOMAIN u : u[i] = s[k]
  BY SelectedProperties
<1> HIDE DEF u, e
<1>2. ToSet(u) = {s[k] : k \in K}
  BY <1>1 DEF ToSet
<1>3. IsInjective(s) => IsInjective(u)
  BY <1>1 DEF IsInjective
<1> QED
  BY <1>2, <1>3 DEF u

\* A strip that has lost tabs has each of the others once.
LEMMA OneEachFewer ==
  ASSUME NEW s, OneEach(s), NEW u, IsInjective(u), ToSet(u) \subseteq ToSet(s)
  PROVE  OneEach(u)
BY DEF OneEach

\* A tab put in a strip that has none of its id.
LEMMA InsertedOneEach ==
  ASSUME NEW s \in Seq(Tab), OneEach(s), NEW i \in 1..(Len(s) + 1), NEW tab \in Tab,
         tab.id \notin Ids(s)
  PROVE  /\ OneEach(InsertAt(s, i, tab))
         /\ ToSet(InsertAt(s, i, tab)) = ToSet(s) \cup {tab}
<1>1. \A v \in ToSet(s) : v.id # tab.id
  BY IdsOfSet
<1>2. IsInjective(InsertAt(s, i, tab)) /\ ToSet(InsertAt(s, i, tab)) = ToSet(s) \cup {tab}
  BY <1>1, InsertAtInjective DEF OneEach
<1> QED
  BY <1>1, <1>2 DEF OneEach

\* A tab appended to such a strip.
LEMMA AppendedOneEach ==
  ASSUME NEW s \in Seq(Tab), OneEach(s), NEW tab \in Tab, tab.id \notin Ids(s)
  PROVE  /\ OneEach(Append(s, tab))
         /\ ToSet(Append(s, tab)) = ToSet(s) \cup {tab}
<1>1. \A v \in ToSet(s) : v.id # tab.id
  BY IdsOfSet
<1>2. IsInjective(Append(s, tab)) /\ ToSet(Append(s, tab)) = ToSet(s) \cup {tab}
  BY <1>1, AppendInjectiveOrder DEF OneEach
<1> QED
  BY <1>1, <1>2 DEF OneEach

\* A tab taken out of a strip.
LEMMA RemovedOneEach ==
  ASSUME NEW s \in Seq(Tab), OneEach(s), NEW i \in 1..Len(s)
  PROVE  /\ OneEach(RemoveAt(s, i))
         /\ ToSet(RemoveAt(s, i)) = ToSet(s) \ {s[i]}
BY RemoveAtInjective DEF OneEach

\* A new version in the place of a tab.
LEMMA ReplacedOneEach ==
  ASSUME NEW s \in Seq(Tab), OneEach(s), NEW i \in 1..Len(s), NEW tab \in Tab,
         tab.id = s[i].id
  PROVE  /\ OneEach(ReplaceAt(s, i, tab))
         /\ ToSet(ReplaceAt(s, i, tab)) = (ToSet(s) \ {s[i]}) \cup {tab}
<1> DEFINE u == ReplaceAt(s, i, tab)
<1>1. DOMAIN s = 1..Len(s) /\ DOMAIN u = DOMAIN s
      /\ \A j \in DOMAIN s : u[j] = IF j = i THEN tab ELSE s[j]
  BY DEF ReplaceAt
<1> HIDE DEF u
<1>2. \A j \in DOMAIN s : s[j] \in ToSet(s)
  BY DEF ToSet
<1>3. \A j \in DOMAIN s : j # i => s[j].id # s[i].id
  BY <1>1, <1>2 DEF OneEach, IsInjective
<1>4. IsInjective(u)
  BY <1>1, <1>3 DEF OneEach, IsInjective
<1>5. ToSet(u) = (ToSet(s) \ {s[i]}) \cup {tab}
  BY <1>1, <1>3 DEF ToSet
<1>6. \A v \in ToSet(s) \ {s[i]} : v.id # tab.id
  BY <1>1, <1>2 DEF OneEach
<1> QED
  BY <1>4, <1>5, <1>6 DEF OneEach, u

-----------------------------------------------------------------------------
(* What the handlers do to the panels.                                     *)

\* Panels whose strips and active tabs are as they were.
LEMMA SameStrips ==
  ASSUME NEW ps, Once(ps), NEW qs, DOMAIN qs = DOMAIN ps,
         \A q \in DOMAIN ps : qs[q].strip = ps[q].strip /\ qs[q].active = ps[q].active
  PROVE  Once(qs) /\ Copies(qs) = Copies(ps)
BY DEF Once, Copies, ShownIn

\* Another tab of the panel becomes its active one.
LEMMA ActivatedOnce ==
  ASSUME NEW ps, IsBox(ps, PanelId, Panel), Once(ps), NEW p \in DOMAIN ps,
         NEW t \in Ids(ps[p].strip)
  PROVE  /\ Once([ps EXCEPT ![p].active = t])
         /\ Copies([ps EXCEPT ![p].active = t]) = Copies(ps)
<1> DEFINE qs == [ps EXCEPT ![p].active = t]
<1>1. ps[p] \in Panel
  BY PanelParts
<1>2. /\ DOMAIN qs = DOMAIN ps
      /\ \A q \in DOMAIN ps \ {p} : qs[q] = ps[q]
      /\ qs[p].strip = ps[p].strip /\ qs[p].active = t
  BY <1>1 DEF Panel
<1> HIDE DEF qs
<1>3. ps[p].strip # <<>>
  BY DEF Ids
<1>4. Once(qs)
  BY <1>2, <1>3 DEF Once, ShownIn
<1>5. Copies(qs) = Copies(ps)
  BY <1>2 DEF Copies
<1> QED
  BY <1>4, <1>5 DEF qs

\* A tab that is open nowhere is opened.
LEMMA OpenedOnce ==
  ASSUME NEW ps, IsBox(ps, PanelId, Panel), Once(ps), NEW p \in DOMAIN ps,
         NEW i \in 1..(Len(ps[p].strip) + 1), NEW tab \in Tab, ~IsOpen(ps, tab.id)
  PROVE  /\ Once(Opened(ps, p, i, tab))
         /\ \A v : v \in Copies(Opened(ps, p, i, tab)) <=> v = tab \/ v \in Copies(ps)
         /\ Opened(ps, p, i, tab)[p].active = tab.id
         /\ tab \in ToSet(Opened(ps, p, i, tab)[p].strip)
<1> DEFINE qs == Opened(ps, p, i, tab)
           old == ToSet(ps[p].strip)
<1>1. ps[p] \in Panel /\ ps[p].strip \in Seq(Tab)
  BY PanelParts
<1>2. /\ DOMAIN qs = DOMAIN ps
      /\ \A q \in DOMAIN ps \ {p} : qs[q] = ps[q]
      /\ qs[p].strip = InsertAt(ps[p].strip, i, tab) /\ qs[p].active = tab.id
  BY <1>1 DEF Panel, Opened
<1> HIDE DEF qs
<1>3. tab.id \notin Ids(ps[p].strip) /\ OneEach(ps[p].strip)
  BY DEF IsOpen, Once
<1>4. OneEach(qs[p].strip) /\ ToSet(qs[p].strip) = old \cup {tab}
  BY <1>1, <1>2, <1>3, InsertedOneEach
<1>5. tab.id \in Ids(qs[p].strip)
  BY <1>4, IdsOfSet
<1>6. ShownIn(qs[p])
  BY <1>2, <1>5 DEF ShownIn, Ids
<1>7. PanelPut(ps, qs, p, old)
  BY <1>2, <1>4, <1>6 DEF PanelPut
<1>8. /\ Once(qs)
      /\ \A v : v \in Copies(qs) <=>
           v \in ToSet(qs[p].strip) \/ (v \in Copies(ps) /\ v \notin old)
  BY <1>7, PanelPutOnce
<1>9. old \subseteq Copies(ps)
  BY DEF Copies
<1> QED
  BY <1>2, <1>4, <1>8, <1>9 DEF qs

\* The tabs at some positions are closed; the panel shows one of the others.
LEMMA SelectedOnce ==
  ASSUME NEW ps, IsBox(ps, PanelId, Panel), Once(ps), NEW p \in DOMAIN ps,
         NEW K \in SUBSET DOMAIN ps[p].strip, NEW act,
         NEW kept, kept = Selected(ps[p].strip, DOMAIN ps[p].strip \ K),
         NEW gone, gone = Ids(Selected(ps[p].strip, K)),
         IF kept = <<>> THEN act = NoTab ELSE act \in Ids(kept)
  PROVE  /\ Once([ps EXCEPT ![p].strip = kept, ![p].active = act])
         /\ \A v : v \in Copies([ps EXCEPT ![p].strip = kept, ![p].active = act]) <=>
                     v \in Copies(ps) /\ v.id \notin gone
         /\ gone = {ps[p].strip[k].id : k \in K}
<1> DEFINE qs == [ps EXCEPT ![p].strip = kept, ![p].active = act]
           s == ps[p].strip
           old == ToSet(s)
<1>1. ps[p] \in Panel /\ s \in Seq(Tab) /\ DOMAIN s = 1..Len(s)
  BY PanelParts
<1>2. /\ DOMAIN qs = DOMAIN ps
      /\ \A q \in DOMAIN ps \ {p} : qs[q] = ps[q]
      /\ qs[p].strip = kept /\ qs[p].active = act
  BY <1>1 DEF Panel
<1> HIDE DEF qs
<1>3. OneEach(s) /\ IsInjective(s)
  BY DEF Once, OneEach
<1>4. IsInjective(kept) /\ ToSet(kept) = {s[k] : k \in DOMAIN s \ K}
  BY <1>1, <1>3, SelectedSet
<1>5. ToSet(Selected(s, K)) = {s[k] : k \in K}
  BY <1>1, SelectedSet
<1>6. gone = {s[k].id : k \in K}
  BY <1>5, IdsOfSet
<1>7. old = {s[k] : k \in DOMAIN s}
  BY DEF ToSet
<1>8. OneEach(kept)
  BY <1>3, <1>4, <1>7, OneEachFewer
<1>9. \A v \in old : v \in ToSet(kept) <=> v.id \notin gone
  <2>1. ASSUME NEW k \in DOMAIN s \ K, NEW j \in K PROVE s[k].id # s[j].id
    <3>1. s[k] \in old /\ s[j] \in old /\ s[k] # s[j]
      BY <1>3, <1>7 DEF IsInjective
    <3> QED
      BY <3>1, <1>3 DEF OneEach
  <2> QED
    BY <1>4, <1>6, <1>7, <2>1
<1>10. old \subseteq Copies(ps) /\ ToSet(kept) \subseteq old
  BY <1>4, <1>7 DEF Copies
<1>11. ShownIn(qs[p])
  BY <1>2 DEF ShownIn
<1> HIDE DEF s, old
<1>12. PanelPut(ps, qs, p, old)
  <2>1. \A v \in ToSet(kept) : \E w \in old : w.id = v.id
    BY <1>10
  <2> QED
    BY <1>2, <1>8, <1>11, <2>1 DEF PanelPut, s, old
<1>13. /\ Once(qs)
       /\ \A v : v \in Copies(qs) <=>
            v \in ToSet(kept) \/ (v \in Copies(ps) /\ v \notin old)
  BY <1>2, <1>12, PanelPutOnce
<1>14. \A v \in Copies(ps) : v \notin old => v.id \notin gone
  <2> SUFFICES ASSUME NEW v \in Copies(ps), NEW k \in K, v.id = s[k].id
               PROVE  v \in old
    BY <1>6
  <2>1. PICK q \in DOMAIN ps : v \in ToSet(ps[q].strip)
    BY CopyPlace
  <2>2. s[k] \in old
    BY <1>7 DEF s
  <2> QED
    BY <2>1, <2>2, CopyUnique DEF s, old
<1> QED
  BY <1>6, <1>9, <1>13, <1>14, <1>10 DEF qs, s

\* A tab is taken out of its panel.
LEMMA DetachedOnce ==
  ASSUME NEW ps, IsBox(ps, PanelId, Panel), Once(ps), NEW p \in DOMAIN ps,
         NEW i \in 1..Len(ps[p].strip)
  PROVE  /\ Once(Detached(ps, p, i))
         /\ \A v : v \in Copies(Detached(ps, p, i)) <=>
                     v \in Copies(ps) /\ v # ps[p].strip[i]
<1> DEFINE qs == Detached(ps, p, i)
           s == ps[p].strip
           kept == RemoveAt(s, i)
           act == Neighbour(ps[p], i)
<1>1. /\ ps[p] \in Panel /\ s \in Seq(Tab) /\ DOMAIN s = 1..Len(s) /\ Len(s) \in Nat
      /\ \A k \in 1..Len(s) : s[k] \in Tab
  BY PanelParts
<1>2. /\ DOMAIN qs = DOMAIN ps
      /\ \A q \in DOMAIN ps \ {p} : qs[q] = ps[q]
      /\ qs[p].strip = kept /\ qs[p].active = act
  BY <1>1 DEF Panel, Detached
<1> HIDE DEF qs
<1>3. OneEach(s) /\ ShownIn(ps[p])
  BY DEF Once
<1>4. OneEach(kept) /\ ToSet(kept) = ToSet(s) \ {s[i]}
  BY <1>1, <1>3, RemovedOneEach
<1>5. /\ kept \in Seq(Tab) /\ Len(kept) = Len(s) - 1
      /\ DOMAIN kept = 1..Len(kept)
  BY <1>1, RemoveAtType
<1>6. s[i] \in ToSet(s) /\ s # <<>>
  BY <1>1 DEF ToSet
<1>7. act = IF ps[p].active # s[i].id THEN ps[p].active
            ELSE IF kept = <<>> THEN NoTab
            ELSE kept[IF i > Len(kept) THEN Len(kept) ELSE i].id
  BY DEF Neighbour
<1> HIDE DEF act, kept
<1>8. ShownIn(qs[p])
  <2>1. CASE ps[p].active # s[i].id
    <3>1. ps[p].active \in Ids(s)
      BY <1>3, <1>6 DEF ShownIn
    <3>2. PICK v \in ToSet(s) : v.id = ps[p].active
      BY <3>1, IdsOfSet
    <3>3. act \in Ids(kept)
      BY <1>4, <1>7, <2>1, <3>2, IdsOfSet
    <3> QED
      BY <1>2, <3>3 DEF ShownIn, Ids
  <2>2. CASE ps[p].active = s[i].id /\ kept = <<>>
    BY <1>2, <1>7, <2>2 DEF ShownIn
  <2>3. CASE ps[p].active = s[i].id /\ kept # <<>>
    <3> DEFINE k == IF i > Len(kept) THEN Len(kept) ELSE i
    <3>1. k \in DOMAIN kept
      BY <1>1, <1>5, <2>3, EmptySeq
    <3> QED
      BY <1>2, <1>7, <2>3, <3>1 DEF ShownIn, Ids
  <2> QED
    BY <2>1, <2>2, <2>3
<1>9. PanelPut(ps, qs, p, ToSet(s))
  <2>1. \A v \in ToSet(kept) : \E w \in ToSet(s) : w.id = v.id
    BY <1>4
  <2> QED
    BY <1>2, <1>4, <1>8, <2>1 DEF PanelPut
<1>10. /\ Once(qs)
       /\ \A v : v \in Copies(qs) <=>
            v \in ToSet(kept) \/ (v \in Copies(ps) /\ v \notin ToSet(s))
  BY <1>2, <1>9, PanelPutOnce
<1>11. ToSet(s) \subseteq Copies(ps)
  BY DEF Copies
<1> QED
  BY <1>4, <1>6, <1>10, <1>11 DEF qs

\* A new version of an open tab is put in its place.
LEMMA ReplacedOnce ==
  ASSUME NEW ps, IsBox(ps, PanelId, Panel), Once(ps), NEW tab \in Tab,
         IsOpen(ps, tab.id)
  PROVE  /\ Once(Replaced(ps, tab))
         /\ \A v : v \in Copies(Replaced(ps, tab)) <=>
                     v = tab \/ (v \in Copies(ps) /\ v.id # tab.id)
<1> DEFINE qs == Replaced(ps, tab)
<1>1. PICK p \in DOMAIN ps : tab.id \in Ids(ps[p].strip)
  BY DEF IsOpen
<1> DEFINE s == ps[p].strip
           i == Position(s, tab.id)
<1>2. /\ ps[p] \in Panel /\ s \in Seq(Tab) /\ DOMAIN s = 1..Len(s)
      /\ OneEach(s) /\ ShownIn(ps[p])
  BY PanelParts DEF Once
<1>3. i \in 1..Len(s) /\ s[i].id = tab.id
  BY <1>1, <1>2, PositionProperties
<1>4. s[i] \in ToSet(s)
  BY <1>2, <1>3 DEF ToSet
<1>5. ASSUME NEW q \in DOMAIN ps \ {p} PROVE qs[q] = ps[q]
  <2>1. ps[q].strip \in Seq(Tab)
    BY PanelParts
  <2>2. tab.id \notin Ids(ps[q].strip)
    BY <1>3, <1>4, CopyUnique, IdsOfSet
  <2>3. Position(ps[q].strip, tab.id) = 0
    <3> SUFFICES ASSUME Position(ps[q].strip, tab.id) # 0 PROVE FALSE
      OBVIOUS
    <3>1. /\ Position(ps[q].strip, tab.id) \in 1..Len(ps[q].strip)
          /\ ps[q].strip[Position(ps[q].strip, tab.id)].id = tab.id
      BY <2>1, PositionProperties
    <3> QED
      BY <2>1, <2>2, <3>1 DEF Ids
  <2> QED
    BY <2>3 DEF Replaced
<1>6. qs[p].strip = ReplaceAt(s, i, tab) /\ qs[p].active = ps[p].active
  BY <1>2, <1>3 DEF Replaced, Panel
<1>7. DOMAIN qs = DOMAIN ps
  BY DEF Replaced
<1>8. /\ OneEach(qs[p].strip)
      /\ ToSet(qs[p].strip) = (ToSet(s) \ {s[i]}) \cup {tab}
  BY <1>2, <1>3, <1>6, ReplacedOneEach
<1> HIDE DEF qs
<1>9. \A t : t \in Ids(qs[p].strip) <=> t \in Ids(s)
  BY <1>3, <1>4, <1>8, IdsOfSet
<1>10. ShownIn(qs[p])
  <2>1. s # <<>> /\ ps[p].active \in Ids(s)
    BY <1>1, <1>2 DEF ShownIn, Ids
  <2>2. qs[p].active \in Ids(qs[p].strip)
    BY <1>6, <1>9, <2>1
  <2> QED
    BY <2>2 DEF ShownIn, Ids
<1>11. PanelPut(ps, qs, p, ToSet(s))
  <2>1. \A v \in ToSet(qs[p].strip) : \E w \in ToSet(s) : w.id = v.id
    BY <1>3, <1>4, <1>8
  <2> QED
    BY <1>5, <1>7, <1>8, <1>10, <2>1 DEF PanelPut
<1>12. /\ Once(qs)
       /\ \A v : v \in Copies(qs) <=>
            v \in ToSet(qs[p].strip) \/ (v \in Copies(ps) /\ v \notin ToSet(s))
  BY <1>11, PanelPutOnce
<1>13. \A v \in Copies(ps) : v.id = tab.id <=> v = s[i]
  BY <1>3, <1>4, CopyPlace, CopyUnique
<1>14. ToSet(s) \subseteq Copies(ps)
  BY DEF Copies
<1> QED
  BY <1>4, <1>8, <1>12, <1>13, <1>14 DEF qs

\* The tab found is the only copy of it.
LEMMA FoundCopy ==
  ASSUME NEW ps, NEW ord, NEW n, Sound(ps, ord, n), Once(ps), NEW t, IsOpen(ps, t)
  PROVE  /\ Found(ps, ord, t) \in Copies(ps) /\ Found(ps, ord, t).id = t
         /\ Found(ps, ord, t) \in ToSet(ps[Owner(ps, ord, t)].strip)
         /\ \A v \in Copies(ps) : v.id = t => v = Found(ps, ord, t)
<1> DEFINE o == Owner(ps, ord, t)
           i == Position(ps[o].strip, t)
<1>1. /\ o \in DOMAIN ps /\ i \in 1..Len(ps[o].strip) /\ Found(ps, ord, t).id = t
  BY OwnerProperties
<1>2. DOMAIN ps[o].strip = 1..Len(ps[o].strip)
  BY <1>1, PanelParts DEF Sound
<1>3. Found(ps, ord, t) \in ToSet(ps[o].strip)
  BY <1>1, <1>2 DEF Found, ToSet
<1> QED
  BY <1>1, <1>3, CopyPlace, CopyUnique

-----------------------------------------------------------------------------
(* The invariant of a session.                                             *)

\* A tab, open or not: its id was handed out, its timeline is sound, and the
\* send that owns it is newer than all of the timeline.
Good(v) ==
  /\ v.id \in 1..nextTab
  /\ Newest(v.history, nextSend)
  /\ handle[v.id] # NoSend => \A i \in DOMAIN v.history : v.history[i] < handle[v.id]

\* The user waits for an answer to tab t.
Waiting(t) == handle[t] # NoSend /\ handle[t] \notin cancelled

\* A tab that is open: good, and SENDING as long as the user waits.
Sounds(v) == Good(v) /\ (v.sending <=> Waiting(v.id))

\* Every open tab is sound.
OpenTabsOK == \A v \in Copies(panels) : Sounds(v)

\* The reopen stack holds tabs that are not open, each once.
ClosedTabsOK ==
  /\ Len(closed) <= ClosedMax
  /\ \A i \in DOMAIN closed :
       /\ Good(closed[i].tab) /\ ~closed[i].tab.sending
       /\ handle[closed[i].tab.id] = NoSend
       /\ ~IsOpen(panels, closed[i].tab.id)
  /\ \A i, j \in DOMAIN closed : closed[i].tab.id = closed[j].tab.id => i = j

\* The send that owns a tab is running, and no other has its number.
RunsOK ==
  /\ \A t \in TabId : handle[t] # NoSend =>
       [send |-> handle[t], tab |-> t] \in running /\ t \in 1..nextTab
  /\ \A r, s \in running : r.send = s.send => r = s
  /\ \A r \in running : r.send <= nextSend
  /\ \A c \in cancelled : c <= nextSend

\* Nothing in memory is about tab t.
Untouched(t) ==
  /\ ~IsOpen(panels, t)
  /\ \A i \in DOMAIN closed : closed[i].tab.id # t
  /\ handle[t] = NoSend

\* The disk is one that an earlier session left, and nothing was done to its
\* tabs yet.
DiskKept ==
  /\ WellKept(disk)
  /\ \A t \in DOMAIN disk.tabs : Good(disk.tabs[t]) /\ Untouched(t)

\* The panels read from such a disk, while nothing was done to their tabs.
FoundKept(found) ==
  /\ Once(FoundPanels(found))
  /\ \A v \in Copies(FoundPanels(found)) : Good(v) /\ Untouched(v.id) /\ ~v.sending

\* An entry of the queue that LoadTabs waits for.
Reads(e) == e.op.kind \in {"getPanels", "getActive"}

\* While the session is being loaded one command of the queue is a read: the
\* panels, which is the first of all, or the active panel.
LoadingOK ==
  /\ phase = "off" => queue = <<>> /\ DiskKept
  /\ \A i \in DOMAIN queue : Reads(queue[i]) =>
       /\ phase = "loading"
       /\ \A j \in DOMAIN queue : Reads(queue[j]) => i = j
       /\ queue[i].op.kind = "getPanels" => i = 1 /\ DiskKept
       /\ queue[i].op.kind = "getActive" => FoundKept(queue[i].op.found)

\* What every step of a session keeps.
SInv == Once(panels) /\ OpenTabsOK /\ ClosedTabsOK /\ RunsOK /\ LoadingOK

-----------------------------------------------------------------------------
(* What most steps have in common.                                         *)

\* The tabs of the panels are tabs.
LEMMA CopyType ==
  ASSUME NEW ps, IsBox(ps, PanelId, Panel), NEW v \in Copies(ps)
  PROVE  v \in Tab /\ v.id \in TabId
<1>1. PICK p \in DOMAIN ps : v \in ToSet(ps[p].strip)
  BY CopyPlace
<1>2. ps[p].strip \in Seq(Tab) /\ \A i \in DOMAIN ps[p].strip : ps[p].strip[i] \in Tab
  BY <1>1, PanelParts
<1> QED
  BY <1>1, <1>2, TabParts DEF ToSet

\* Some types, and those after a step.
LEMMA SessionTypes ==
  ASSUME IInv
  PROVE  /\ IsBox(panels, PanelId, Panel) /\ closed \in Seq(Closed)
         /\ handle \in [TabId -> SendId \cup {NoSend}] /\ cancelled \subseteq SendId
         /\ running \subseteq [send : SendId, tab : TabId]
         /\ nextTab \in Nat /\ nextSend \in Nat
         /\ \A i \in DOMAIN closed : closed[i] \in Closed
BY DEF IInv, MemoryOK, Sound, ClosedOK, SendsOK, IdsOK

\* A tab that was good is good if its send is the same, or none.
LEMMA GoodKept ==
  ASSUME NEW v \in Tab, IInv, IInv', nextTab <= nextTab', nextSend <= nextSend',
         handle'[v.id] \in {handle[v.id], NoSend}, Good(v)
  PROVE  Good(v)'
<1>1. /\ nextTab \in Nat /\ nextTab' \in Nat /\ nextSend \in Nat /\ nextSend' \in Nat
  BY DEF IInv, IdsOK
<1>2. v.history \in Seq(SendId) /\ \A i \in DOMAIN v.history : v.history[i] \in Nat
  <2>1. v.history \in Seq(SendId) /\ SendId \subseteq Nat
    BY TabParts, StorageAssumption DEF SendId
  <2>2. \A i \in DOMAIN v.history : v.history[i] \in SendId
    BY <2>1
  <2> QED
    BY <2>1, <2>2
<1>3. Newest(v.history, nextSend)'
  BY <1>1, <1>2 DEF Good, Newest
<1> QED
  BY <1>1, <1>3 DEF Good

\* The send of tab t is the one it was, as far as the user can tell.
SameSend(t) ==
  handle'[t] \in {handle[t], NoSend} /\ (Waiting(t)' <=> Waiting(t))

\* A step that shows tabs as they were, or in a new version, or brings up
\* new tabs or some of the reopen stack.
MemoryStep ==
  /\ \A v \in Copies(panels') :
       Sounds(v)' \/ (v \in Copies(panels) /\ SameSend(v.id))
  /\ \A v \in Copies(panels') :
       \/ IsOpen(panels, v.id) \/ v.id > nextTab
       \/ \E i \in DOMAIN closed : closed[i].tab.id = v.id
  /\ Len(closed') <= Len(closed)
  /\ \A i \in DOMAIN closed' : i \in DOMAIN closed /\ closed'[i] = closed[i]
  /\ \A i \in DOMAIN closed', v \in Copies(panels') : closed'[i].tab.id # v.id
  /\ \A t \in TabId : handle[t] = NoSend => handle'[t] = NoSend \/ IsOpen(panels, t)
  /\ nextTab <= nextTab' /\ nextSend <= nextSend'

\* A tab nothing was done to is not touched.
IdsKept ==
  /\ nextTab <= nextTab' /\ nextSend <= nextSend'
  /\ \A t \in 1..nextTab : Untouched(t) => Untouched(t)'

\* Such a step keeps what the invariant says of the tabs in memory.
LEMMA MemoryStepOK ==
  ASSUME IInv, IInv', SInv, MemoryStep
  PROVE  OpenTabsOK' /\ ClosedTabsOK' /\ IdsKept
<1>1. /\ IsBox(panels, PanelId, Panel) /\ closed \in Seq(Closed)
      /\ nextTab \in Nat /\ nextSend \in Nat
      /\ \A i \in DOMAIN closed : closed[i] \in Closed
  BY SessionTypes
<1>2. closed' \in Seq(Closed) /\ Len(closed') \in Nat /\ Len(closed) \in Nat
  BY <1>1 DEF IInv, ClosedOK
<1>3. OpenTabsOK'
  <2> SUFFICES ASSUME NEW v \in Copies(panels') PROVE Sounds(v)'
    BY DEF OpenTabsOK
  <2>1. CASE v \in Copies(panels) /\ SameSend(v.id)
    <3>1. v \in Tab /\ Sounds(v)
      BY <1>1, <2>1, CopyType DEF SInv, OpenTabsOK
    <3>2. Good(v)'
      BY <2>1, <3>1, GoodKept DEF Sounds, SameSend, MemoryStep
    <3> QED
      BY <2>1, <3>1, <3>2 DEF Sounds, SameSend
  <2> QED
    BY <2>1 DEF MemoryStep
<1>4. ASSUME NEW i \in DOMAIN closed', NEW v, v = closed[i].tab
      PROVE  /\ Good(v)' /\ ~v.sending
             /\ handle'[v.id] = NoSend
             /\ ~IsOpen(panels', v.id)
  <2>1. /\ i \in DOMAIN closed /\ closed'[i] = closed[i] /\ v \in Tab
        /\ v.id \in TabId
    BY <1>1, <1>4, TabParts DEF MemoryStep, Closed
  <2>2. Good(v) /\ ~v.sending /\ handle[v.id] = NoSend /\ ~IsOpen(panels, v.id)
    BY <1>4, <2>1 DEF SInv, ClosedTabsOK
  <2>3. handle'[v.id] = NoSend
    BY <2>1, <2>2 DEF MemoryStep
  <2>4. Good(v)'
    BY <2>1, <2>2, <2>3, GoodKept DEF MemoryStep
  <2>5. ~IsOpen(panels', v.id)
    BY <1>4, <2>1, OpenCopy DEF MemoryStep
  <2> QED
    BY <2>2, <2>3, <2>4, <2>5
<1>5. ClosedTabsOK'
  <2>1. Len(closed') <= ClosedMax
    BY <1>2, TabsAssumption DEF MemoryStep, SInv, ClosedTabsOK
  <2>2. ASSUME NEW i \in DOMAIN closed'
        PROVE  /\ Good(closed[i].tab)' /\ ~closed'[i].tab.sending
               /\ handle'[closed'[i].tab.id] = NoSend
               /\ ~IsOpen(panels', closed'[i].tab.id)
    <3>1. closed'[i] = closed[i]
      BY DEF MemoryStep
    <3> QED
      BY <1>4, <3>1 DEF Good
  <2>3. \A i, j \in DOMAIN closed' : closed'[i].tab.id = closed'[j].tab.id => i = j
    BY DEF MemoryStep, SInv, ClosedTabsOK
  <2> QED
    BY <2>1, <2>2, <2>3 DEF ClosedTabsOK
<1>6. ASSUME NEW t \in 1..nextTab, Untouched(t) PROVE Untouched(t)'
  <2>1. t \in TabId
    BY StorageAssumption DEF IInv, IdsOK, TabId
  <2>2. ~IsOpen(panels', t)
    BY <1>1, <1>6, OpenCopy DEF MemoryStep, Untouched
  <2> QED
    BY <1>6, <2>1, <2>2 DEF MemoryStep, Untouched
<1> QED
  BY <1>3, <1>5, <1>6 DEF IdsKept, MemoryStep

\* A step keeps the reads of the queue: none is new, and getPanels still sees
\* the disk there was when the process started.
ReadsKept(d) ==
  /\ phase # "off" /\ phase' = phase
  /\ \A i \in DOMAIN queue' : Reads(queue'[i]) =>
       i + d \in DOMAIN queue /\ queue'[i].op = queue[i + d].op
  /\ \A i \in DOMAIN queue : queue[i].op.kind = "getPanels" =>
       d = 0 /\ UNCHANGED disk

\* What such a step leaves of the load that is going on.
LEMMA LoadingKept ==
  ASSUME IInv, IInv', SInv, NEW d \in Nat, ReadsKept(d), IdsKept
  PROVE  LoadingOK'
<1>1. DiskKept /\ UNCHANGED disk => DiskKept'
  <2> SUFFICES ASSUME DiskKept, UNCHANGED disk, NEW t \in DOMAIN disk.tabs
               PROVE  Good(disk.tabs[t])' /\ Untouched(t)'
    BY DEF DiskKept
  <2> DEFINE row == disk.tabs[t]
  <2>1. row \in Tab /\ row.id = t /\ Good(row) /\ Untouched(t)
    BY DEF DiskKept, WellKept, IInv, DiskOK, IsDisk, IsBox
  <2>2. PICK v : v = row
    OBVIOUS
  <2>3. Untouched(t)' /\ t \in 1..nextTab
    BY <2>1 DEF IdsKept, Good
  <2>4. Good(v)'
    BY <2>1, <2>2, <2>3, GoodKept DEF IdsKept, Untouched
  <2> QED
    BY <2>2, <2>3, <2>4 DEF Good
<1>2. ASSUME NEW found, Once(FoundPanels(found)), IsBox(FoundPanels(found), PanelId, Panel),
             FoundKept(found)
      PROVE  FoundKept(found)'
  <2> SUFFICES ASSUME NEW v \in Copies(FoundPanels(found))
               PROVE  Good(v)' /\ Untouched(v.id)' /\ ~v.sending
    BY <1>2 DEF FoundKept
  <2>1. v \in Tab /\ Good(v) /\ Untouched(v.id) /\ ~v.sending
    BY <1>2, CopyType DEF FoundKept
  <2>2. Untouched(v.id)'
    BY <2>1 DEF IdsKept, Good
  <2> QED
    BY <2>1, <2>2, GoodKept DEF IdsKept, Untouched
<1>3. ASSUME NEW i \in DOMAIN queue, queue[i].op.kind = "getActive"
      PROVE  IsBox(FoundPanels(queue[i].op.found), PanelId, Panel)
  <2> DEFINE e == queue[i]
  <2>1. e \in Entry(nextPanel)
    BY DEF IInv
  <2>2. /\ e.op \in Command /\ e.op.kind = "getActive"
        /\ IsInjective(FoundOrder(e.op.found))
        /\ ToSet(FoundOrder(e.op.found)) \subseteq 1..nextPanel
    BY <1>3, <2>1 DEF Entry
  <2>3. e.op.found \in Seq([id : PanelId, panel : Panel])
    BY <2>2 DEF Command
  <2> QED
    BY <2>2, <2>3, FoundSound DEF Sound
<1>4. ASSUME NEW i \in DOMAIN queue', Reads(queue'[i])
      PROVE  /\ i + d \in DOMAIN queue /\ queue'[i].op = queue[i + d].op
             /\ Reads(queue[i + d])
             /\ queue'[i].op.kind = "getPanels" => i = 1 /\ DiskKept'
             /\ \A found : queue'[i].op.kind = "getActive" /\ found = queue'[i].op.found =>
                   FoundKept(found)'
  <2>1. /\ i + d \in DOMAIN queue /\ queue'[i].op = queue[i + d].op
        /\ Reads(queue[i + d])
    BY <1>4 DEF ReadsKept, Reads
  <2>2. ASSUME queue'[i].op.kind = "getPanels" PROVE i = 1 /\ DiskKept'
    <3>1. d = 0 /\ UNCHANGED disk /\ i + d = 1 /\ DiskKept
      BY <2>1, <2>2 DEF ReadsKept, SInv, LoadingOK
    <3> QED
      BY <1>1, <3>1 DEF IInv
  <2>3. ASSUME queue'[i].op.kind = "getActive", NEW found, found = queue'[i].op.found
        PROVE  FoundKept(found)'
    <3>1. FoundKept(found)
      BY <2>1, <2>3 DEF SInv, LoadingOK
    <3>2. IsBox(FoundPanels(found), PanelId, Panel)
      BY <1>3, <2>1, <2>3
    <3> QED
      BY <1>2, <3>1, <3>2 DEF FoundKept
  <2> QED
    BY <2>1, <2>2, <2>3
<1>5. \A i \in DOMAIN queue' : i \in Nat
  BY DEF IInv
<1>6. ASSUME NEW i \in DOMAIN queue', Reads(queue'[i])
      PROVE  phase = "loading" /\ \A j \in DOMAIN queue' : Reads(queue'[j]) => i = j
  BY <1>4, <1>5, <1>6 DEF SInv, LoadingOK
<1>7. ASSUME NEW i \in DOMAIN queue', Reads(queue'[i]), queue'[i].op.kind = "getActive"
      PROVE  FoundKept(queue[i].op.found)'
  <2>1. PICK found : found = queue'[i].op.found
    OBVIOUS
  <2>2. FoundKept(found)'
    BY <1>4, <1>7, <2>1
  <2> QED
    BY <2>1, <2>2 DEF FoundKept
<1> QED
  BY <1>4, <1>6, <1>7 DEF LoadingOK, ReadsKept, Reads

\* What a handler sends next is one write, or nothing.
Quiet(more) == more = <<>> \/ \E e : more = <<e>> /\ ~Reads(e)

\* The steps that are one write, or ask for one.
PlainKinds ==
  {"putTab", "deleteTabs", "putPanel", "livePanel", "deletePanel", "meta", "exit"}

\* The command a step other than the loops stands for is no read.
LEMMA SentQuiet ==
  ASSUME NEW step, step.kind \in PlainKinds, NEW ps, NEW ord, NEW act
  PROVE  Sent(step, ps, ord, act).kind \notin {"getPanels", "getActive"}
<1>1. CASE step.kind = "livePanel"
  BY <1>1 DEF Sent, PutPanel
<1>2. CASE step.kind = "meta"
  BY <1>2 DEF Sent, PutMeta
<1>3. CASE step.kind \notin {"livePanel", "meta"}
  <2>1. Sent(step, ps, ord, act) = step
    BY <1>3 DEF Sent
  <2> QED
    BY <2>1 DEF PlainKinds
<1> QED
  BY <1>1, <1>2, <1>3

\* What a handler sends first, when it is no loop, is no read.
LEMMA FirstQuiet ==
  ASSUME NEW steps, steps # <<>>, Head(steps).kind \in PlainKinds,
         NEW ps, NEW ord, NEW act
  PROVE  Quiet(Issue(steps, ps, ord, act))
<1>1. Unfolded(steps, ps, ord) = steps
  BY DEF Unfolded, PlainKinds
<1>2. Issue(steps, ps, ord, act) =
        <<[op |-> Sent(Head(steps), ps, ord, act), rest |-> Tail(steps)]>>
  BY <1>1 DEF Issue, PlainKinds
<1> QED
  BY <1>2, SentQuiet DEF Quiet, Reads

\* The same for a handler that goes on, whatever it has left.
LEMMA IssueQuiet ==
  ASSUME NEW ps, NEW ord, NEW n, Sound(ps, ord, n), NEW act,
         NEW steps \in Steps(n), WellShaped(steps)
  PROVE  Quiet(Issue(steps, ps, ord, act))
<1> DEFINE next == Unfolded(steps, ps, ord)
<1>1. CASE next = <<>>
  BY <1>1 DEF Issue, Quiet
<1>2. CASE next # <<>> /\ Head(next).kind = "flush"
  <2>1. PICK e : Issue(steps, ps, ord, act) = <<e>> /\ e.op.kind = "putTab"
    BY <1>2 DEF Issue, PutTab
  <2> QED
    BY <2>1 DEF Quiet, Reads
<1>3. CASE next # <<>> /\ Head(next).kind # "flush"
  <2>1. Head(next).kind \in PlainKinds
    <3>1. CASE Flushes(steps) /\ NextToFlush(Head(steps).todo, ps) # 0
      <4>1. next = steps
        BY <3>1 DEF Unfolded, Flushes
      <4> QED
        BY <1>3, <3>1, <4>1 DEF Flushes
    <3>2. CASE Flushes(steps) => NextToFlush(Head(steps).todo, ps) = 0
      <4>1. next \in Seq(PlainStep(n))
        BY <3>2, UnfoldedPlain
      <4>2. Head(next) \in PlainStep(n)
        BY <1>3, <4>1
      <4> QED
        BY <4>2 DEF PlainStep, KnownStep, Step, PlainKinds
    <3> QED
      BY <3>1, <3>2
  <2>2. Issue(steps, ps, ord, act) =
          <<[op |-> Sent(Head(next), ps, ord, act), rest |-> Tail(next)]>>
    BY <1>3 DEF Issue
  <2> QED
    BY <2>1, <2>2, SentQuiet DEF Quiet, Reads
<1> QED
  BY <1>1, <1>2, <1>3

\* Commands sent by an event of the user, a timer or an answer.
Grows ==
  /\ phase # "off" /\ UNCHANGED <<disk, phase>>
  /\ \E more : Quiet(more) /\ queue' = queue \o more

\* Commands at the end of the queue leave its reads where they are.
LEMMA GrowsKept ==
  ASSUME IInv, IInv', Grows
  PROVE  ReadsKept(0)
<1>1. PICK more : Quiet(more) /\ queue' = queue \o more
  BY DEF Grows
<1>2. queue \in Seq(Entry(nextPanel)) /\ Len(queue) \in Nat /\ DOMAIN queue = 1..Len(queue)
  BY DEF IInv
<1>3. ASSUME NEW i \in DOMAIN queue', Reads(queue'[i])
      PROVE  i + 0 \in DOMAIN queue /\ queue'[i].op = queue[i + 0].op
  <2>1. CASE more = <<>>
    BY <1>1, <1>2, <2>1
  <2>2. ASSUME NEW e, more = <<e>>, ~Reads(e)
        PROVE  i + 0 \in DOMAIN queue /\ queue'[i].op = queue[i + 0].op
    <3>1. queue' = Append(queue, e)
      BY <1>1, <1>2, <2>2
    <3>2. DOMAIN queue' = 1..(Len(queue) + 1) /\ queue'[Len(queue) + 1] = e
          /\ \A k \in 1..Len(queue) : queue'[k] = queue[k]
      BY <1>2, <3>1
    <3> QED
      BY <1>2, <1>3, <2>2, <3>2
  <2> QED
    BY <1>1, <2>1, <2>2 DEF Quiet
<1> QED
  BY <1>3 DEF ReadsKept, Grows

\* The worker has executed a write, and the handler goes on.
Shifts ==
  /\ phase' = phase
  /\ queue # <<>> /\ ~Reads(Head(queue))
  /\ \E more : Quiet(more) /\ queue' = Tail(queue) \o more

\* When the first command has gone, the reads have moved up by one.
LEMMA ShiftsKept ==
  ASSUME IInv, IInv', SInv, Shifts
  PROVE  ReadsKept(1)
<1>1. PICK more : Quiet(more) /\ queue' = Tail(queue) \o more
  BY DEF Shifts
<1>2. /\ queue \in Seq(Entry(nextPanel)) /\ Len(queue) \in Nat /\ DOMAIN queue = 1..Len(queue)
      /\ queue # <<>> /\ ~Reads(queue[1])
  BY DEF IInv, Shifts
<1> DEFINE left == Tail(queue)
<1>3. /\ left \in Seq(Entry(nextPanel)) /\ Len(left) = Len(queue) - 1
      /\ Len(queue) > 0 /\ Len(left) \in Nat
      /\ \A k \in 1..Len(left) : left[k] = queue[k + 1]
  BY <1>2
<1> HIDE DEF left
<1>4. ASSUME NEW i \in DOMAIN queue', Reads(queue'[i])
      PROVE  i + 1 \in DOMAIN queue /\ queue'[i].op = queue[i + 1].op
  <2>1. CASE more = <<>>
    <3>1. queue' = left
      BY <1>1, <1>3, <2>1 DEF left
    <3> QED
      BY <1>2, <1>3, <3>1
  <2>2. ASSUME NEW e, more = <<e>>, ~Reads(e)
        PROVE  i + 1 \in DOMAIN queue /\ queue'[i].op = queue[i + 1].op
    <3>1. queue' = left \o <<e>>
      BY <1>1, <2>2 DEF left
    <3>2. queue' = Append(left, e)
      BY <1>3, <3>1
    <3>3. DOMAIN queue' = 1..(Len(left) + 1) /\ queue'[Len(left) + 1] = e
          /\ \A k \in 1..Len(left) : queue'[k] = left[k]
      BY <1>3, <3>2
    <3> QED
      BY <1>2, <1>3, <1>4, <2>2, <3>3
  <2> QED
    BY <1>1, <2>1, <2>2 DEF Quiet
<1>5. phase # "off"
  BY <1>2 DEF SInv, LoadingOK
<1>6. \A i \in DOMAIN queue : queue[i].op.kind # "getPanels"
  BY <1>2 DEF SInv, LoadingOK, Reads
<1> QED
  BY <1>4, <1>5, <1>6 DEF ReadsKept, Shifts

-----------------------------------------------------------------------------
(* Opening tabs.                                                           *)

\* What is left to show of a step that reads nothing.
LEMMA SessionStep ==
  ASSUME IInv, IInv', SInv, Once(panels'), MemoryStep, RunsOK',
         Grows \/ Shifts \/ ReadsKept(0)
  PROVE  SInv'
<1>1. OpenTabsOK' /\ ClosedTabsOK' /\ IdsKept
  BY MemoryStepOK
<1>2. PICK d \in Nat : ReadsKept(d)
  <2>1. CASE Grows
    BY <2>1, GrowsKept
  <2>2. CASE Shifts
    BY <2>2, ShiftsKept
  <2> QED
    BY <2>1, <2>2
<1>3. LoadingOK'
  BY <1>1, <1>2, LoadingKept
<1> QED
  BY <1>1, <1>3 DEF SInv

\* The tabs are where they were, or elsewhere, and nothing else has changed,
\* but that a tab may have been popped from the reopen stack.
Rearranged ==
  /\ Once(panels') /\ Copies(panels') = Copies(panels)
  /\ closed' = closed \/ (closed # <<>> /\ closed' = Front(closed))
  /\ UNCHANGED <<handle, cancelled, running, nextTab, nextSend>>

\* What is left of a sequence without its last element.
LEMMA FrontParts ==
  ASSUME NEW S, NEW s \in Seq(S), s # <<>>
  PROVE  /\ Front(s) \in Seq(S) /\ Len(Front(s)) = Len(s) - 1
         /\ DOMAIN Front(s) = 1..(Len(s) - 1) /\ DOMAIN s = 1..Len(s)
         /\ Len(s) \in Nat \ {0} /\ Last(s) = s[Len(s)]
         /\ \A i \in DOMAIN Front(s) : i \in DOMAIN s /\ Front(s)[i] = s[i]
<1>1. Len(s) \in Nat \ {0} /\ DOMAIN s = 1..Len(s)
  BY EmptySeq
<1>2. /\ Len(SubSeq(s, 1, Len(s) - 1)) = Len(s) - 1
      /\ \A i \in 1..(Len(s) - 1) : SubSeq(s, 1, Len(s) - 1)[i] = s[i]
      /\ SubSeq(s, 1, Len(s) - 1) \in Seq(S)
  BY <1>1
<1> QED
  BY <1>1, <1>2 DEF Front, Last

\* The reopen stack, as it was or popped, holds nothing new.
LEMMA Shortened ==
  ASSUME IInv, closed' = closed \/ (closed # <<>> /\ closed' = Front(closed))
  PROVE  /\ Len(closed') <= Len(closed)
         /\ \A i \in DOMAIN closed' : i \in DOMAIN closed /\ closed'[i] = closed[i]
<1>1. closed \in Seq(Closed) /\ Len(closed) \in Nat
  BY SessionTypes
<1> QED
  BY <1>1, FrontParts

\* Sends nothing was done to.
LEMMA SendsKept ==
  ASSUME SInv, IInv, IInv', UNCHANGED <<handle, cancelled, running>>,
         nextTab <= nextTab', nextSend <= nextSend'
  PROVE  RunsOK' /\ \A t \in TabId : SameSend(t)
<1>1. /\ nextTab \in Nat /\ nextTab' \in Nat /\ nextSend \in Nat /\ nextSend' \in Nat
  BY DEF IInv, IdsOK
<1>2. (\A r \in running : r.send \in Nat) /\ \A c \in cancelled : c \in Nat
  BY StorageAssumption DEF IInv, SendsOK, SendId
<1>3. RunsOK'
  BY <1>1, <1>2 DEF RunsOK, SInv
<1> QED
  BY <1>3 DEF SameSend, Waiting

\* A step that only moves tabs keeps the invariant.
LEMMA RearrangedOK ==
  ASSUME IInv, IInv', SInv, Rearranged, Grows \/ Shifts \/ ReadsKept(0)
  PROVE  SInv'
<1>1. nextTab <= nextTab' /\ nextSend <= nextSend'
  BY SessionTypes DEF Rearranged
<1>2. RunsOK' /\ \A t \in TabId : SameSend(t)
  BY <1>1, SendsKept DEF Rearranged
<1>3. \A v \in Copies(panels) : v.id \in TabId /\ IsOpen(panels, v.id)
  BY SessionTypes, CopyType, OpenCopy
<1>4. MemoryStep
  BY <1>1, <1>2, <1>3, Shortened DEF MemoryStep, Rearranged, SInv, ClosedTabsOK
<1> QED
  BY <1>2, <1>4, SessionStep DEF Rearranged

\* A user event finds a running process.
LEMMA UserEventRuns ==
  ASSUME UserEvent
  PROVE  phase # "off" /\ UNCHANGED <<disk, phase>>
BY DEF UserEvent, process

\* What _derive leaves alone.
LEMMA EmitPanels ==
  ASSUME NEW ps, NEW ord, NEW act, Emit(ps, ord, act)
  PROVE  panels' = ps /\ (act \in DOMAIN ps => active' = act)
BY DEF Emit

\* A command, or a step, that is about a row of a tab.
RowKind(op) == op.kind \in {"putTab", "deleteTabs"}

\* The handlers that wait have no row of a tab left to write: they wrote or
\* deleted it first, and a flush works its next tab out when it gets there.
Late(steps) == \A k \in DOMAIN steps : steps[k].kind \notin {"putTab", "deleteTabs"}

\* An event whose handler writes the rows of panels only.
Shuffles ==
  UserEvent /\ \E steps : /\ Write(steps) /\ steps # <<>>
                          /\ Head(steps).kind \in PlainKinds /\ ~RowKind(Head(steps))
                          /\ Late(Tail(steps))

\* An event that moves tabs, or none.
Moves == Rearranged /\ dirty' = dirty /\ Shuffles

\* A handler that starts with such a step sends one write.
LEMMA WriteGrows ==
  ASSUME UserEvent, NEW steps, Write(steps), steps # <<>>, Head(steps).kind \in PlainKinds
  PROVE  Grows /\ (~RowKind(Head(steps)) /\ Late(Tail(steps)) => Shuffles)
<1>1. Quiet(Issue(steps, panels', order', active'))
  <2>1. PICK ps, ord, act : ps = panels' /\ ord = order' /\ act = active'
    OBVIOUS
  <2>2. Quiet(Issue(steps, ps, ord, act))
    BY FirstQuiet
  <2> QED
    BY <2>1, <2>2
<1> QED
  BY <1>1, UserEventRuns DEF Grows, Write, Shuffles

\* Showing a tab that is open moves none.
LEMMA ActivateRearranges ==
  ASSUME IInv, SInv, UserEvent, NEW p \in DOMAIN panels, NEW t \in Ids(panels[p].strip),
         Activate(p, t)
  PROVE  /\ Once(panels') /\ Copies(panels') = Copies(panels) /\ Grows
         /\ active' = p /\ Shuffles
<1>1. IsBox(panels, PanelId, Panel) /\ panels[p] \in Panel
  BY SessionTypes, PanelParts
<1>2. panels' = [panels EXCEPT ![p].active = t] /\ active' = p
  BY EmitPanels DEF Activate
<1>3. Once(panels') /\ Copies(panels') = Copies(panels)
  BY <1>1, <1>2, ActivatedOnce DEF SInv
<1>4. Grows /\ Shuffles
  <2>1. PICK row : row = RowOf(panels'[p])
    OBVIOUS
  <2>2. Write(<<PutPanel(p, row), Meta>>)
    BY <2>1 DEF Activate
  <2>3. /\ Head(<<PutPanel(p, row), Meta>>).kind \in PlainKinds
        /\ ~RowKind(Head(<<PutPanel(p, row), Meta>>)) /\ Late(Tail(<<PutPanel(p, row), Meta>>))
    BY DEF PutPanel, PlainKinds, Late, Meta, RowKind
  <2> QED
    BY <2>2, <2>3, WriteGrows
<1> QED
  BY <1>2, <1>3, <1>4

\* The tab a panel shows.
LEMMA ShownTab ==
  ASSUME NEW ps, IsBox(ps, PanelId, Panel), Once(ps), NEW p \in DOMAIN ps,
         NEW v \in ToSet(ps[p].strip), ps[p].active = v.id
  PROVE  ps[p].strip[Position(ps[p].strip, ps[p].active)] = v
<1> DEFINE s == ps[p].strip
           i == Position(s, v.id)
<1>1. s \in Seq(Tab) /\ DOMAIN s = 1..Len(s)
  BY PanelParts
<1>2. v.id \in Ids(s)
  BY IdsOfSet
<1>3. i \in DOMAIN s /\ s[i].id = v.id
  BY <1>1, <1>2, PositionProperties
<1>4. s[i] \in ToSet(s)
  BY <1>3 DEF ToSet
<1> QED
  BY <1>3, <1>4, CopyUnique

\* The tab that was reopened is the one the user sees.
Reopened(ps, act, was) ==
  LET panel == ps[act]
      shown == panel.strip[Position(panel.strip, panel.active)]
  IN  shown.node = was.node /\ shown.config = was.config

\* An event whose handler begins with such a write, and has no other left.
Starts(first) ==
  UserEvent /\ \E steps : /\ Write(steps) /\ steps # <<>> /\ Head(steps) = first
                          /\ Late(Tail(steps))

\* A tab that is new, or popped from the reopen stack.
Fresh(tab) ==
  \/ tab.id = nextTab + 1 /\ nextTab' = tab.id /\ closed' = closed
  \/ /\ closed # <<>> /\ tab = Last(closed).tab /\ closed' = Front(closed)
     /\ nextTab' = nextTab

\* An event that opens a tab.
Opens ==
  \E tab \in Tab :
    /\ Fresh(tab) /\ Starts(PutTab(tab)) /\ dirty' = dirty
    /\ \A v : v \in Copies(panels') <=> v = tab \/ v \in Copies(panels)

\* A tab that is new, or popped from the reopen stack, is opened.
LEMMA OpenTabSession ==
  ASSUME IInv, IInv', SInv, UserEvent, 
         UNCHANGED <<handle, cancelled, running, nextSend, dirty>>,
         NEW p \in DOMAIN panels, NEW i \in 1..(Len(panels[p].strip) + 1),
         NEW tab \in Tab, NEW act, NEW more \in {<<>>, <<Meta>>},
         OpenTab(p, i, tab, act, more),
         \/ /\ tab.id = nextTab + 1 /\ nextTab' = tab.id /\ closed' = closed
            /\ ~tab.sending /\ tab.history = <<>>
         \/ /\ closed # <<>> /\ tab = Last(closed).tab /\ closed' = Front(closed)
            /\ nextTab' = nextTab
  PROVE  /\ SInv' /\ Opens
         /\ panels'[p].active = tab.id /\ tab \in ToSet(panels'[p].strip)
         /\ p \in DOMAIN panels'
<1>1. /\ IsBox(panels, PanelId, Panel) /\ closed \in Seq(Closed)
      /\ handle \in [TabId -> SendId \cup {NoSend}]
      /\ nextTab \in Nat /\ nextSend \in Nat /\ tab.id \in TabId
  BY SessionTypes, TabParts
<1>2. /\ Len(closed') <= Len(closed)
      /\ \A k \in DOMAIN closed' : k \in DOMAIN closed /\ closed'[k] = closed[k]
  BY Shortened
<1>3. /\ nextTab <= nextTab' /\ nextSend <= nextSend'
  BY <1>1
<1>4. ASSUME NEW v \in Copies(panels) PROVE v.id # tab.id
  <2>1. v.id \in 1..nextTab
    BY DEF SInv, OpenTabsOK, Sounds, Good
  <2>2. CASE closed # <<>> /\ tab = Last(closed).tab
    <3>1. Len(closed) \in DOMAIN closed /\ tab = closed[Len(closed)].tab
      BY <1>1, <2>2, FrontParts
    <3> QED
      BY <3>1, OpenCopy DEF SInv, ClosedTabsOK
  <2> QED
    BY <1>1, <2>1, <2>2
<1>5. Good(tab)' /\ ~tab.sending /\ handle[tab.id] = NoSend
  <2>1. CASE tab.id = nextTab + 1 /\ nextTab' = tab.id /\ ~tab.sending /\ tab.history = <<>>
    <3>1. handle[tab.id] = NoSend
      <4>1. tab.id \notin 1..nextTab
        BY <1>1, <2>1
      <4>2. \A t \in TabId : handle[t] # NoSend => t \in 1..nextTab
        BY DEF SInv, RunsOK
      <4> QED
        BY <1>1, <4>1, <4>2
    <3>2. Len(<<>>) = 0 /\ DOMAIN <<>> = {}
      OBVIOUS
    <3> QED
      BY <1>1, <2>1, <3>1, <3>2, TabsAssumption DEF Good, Newest
  <2>2. CASE closed # <<>> /\ tab = Last(closed).tab /\ nextTab' = nextTab
    <3>1. Len(closed) \in DOMAIN closed /\ tab = closed[Len(closed)].tab
      BY <1>1, <2>2, FrontParts
    <3>2. Good(tab) /\ ~tab.sending /\ handle[tab.id] = NoSend
      BY <3>1 DEF SInv, ClosedTabsOK
    <3> QED
      BY <1>3, <3>2, GoodKept
  <2> QED
    BY <2>1, <2>2
<1>6. Sounds(tab)'
  BY <1>5 DEF Sounds, Waiting
<1>7. panels' = Opened(panels, p, i, tab)
  BY EmitPanels DEF OpenTab
<1>8. ~IsOpen(panels, tab.id)
  BY <1>4, OpenCopy
<1>9. /\ Once(panels')
      /\ \A v : v \in Copies(panels') <=> v = tab \/ v \in Copies(panels)
      /\ panels'[p].active = tab.id /\ tab \in ToSet(panels'[p].strip)
  <2>1. /\ Once(Opened(panels, p, i, tab))
        /\ \A v : v \in Copies(Opened(panels, p, i, tab)) <=> v = tab \/ v \in Copies(panels)
        /\ Opened(panels, p, i, tab)[p].active = tab.id
        /\ tab \in ToSet(Opened(panels, p, i, tab)[p].strip)
    BY <1>1, <1>8, OpenedOnce DEF SInv
  <2> QED
    BY <1>7, <2>1
<1>10. Grows /\ Starts(PutTab(tab))
  <2>1. PICK row : row = RowOf(panels'[p])
    OBVIOUS
  <2> DEFINE steps == <<PutTab(tab), LivePanel(p, row)>> \o more
  <2>2. Write(steps)
    BY <2>1 DEF OpenTab
  <2>3. steps # <<>> /\ Head(steps) = PutTab(tab) /\ Late(Tail(steps))
    <3>1. PICK a, b, c : a = PutTab(tab) /\ b = LivePanel(p, row) /\ c = Meta
      OBVIOUS
    <3>2. PICK all : all = steps
      OBVIOUS
    <3>3. /\ all # <<>> /\ Head(all) = a
          /\ \A k \in DOMAIN Tail(all) : Tail(all)[k] \in {b, c}
      <4>1. CASE more = <<>>
        <5>1. all = <<a, b>>
          BY <3>1, <3>2, <4>1
        <5> QED
          BY <5>1
      <4>2. CASE more = <<c>>
        <5>1. all = <<a, b>> \o <<c>>
          BY <3>1, <3>2, <4>2
        <5>2. /\ Len(all) = 3 /\ all[1] = a /\ all[2] = b /\ all[3] = c
              /\ DOMAIN all = 1..3 /\ Head(all) = all[1] /\ all # <<>>
          BY <5>1
        <5>3. DOMAIN Tail(all) = 1..2 /\ Tail(all)[1] = all[2] /\ Tail(all)[2] = all[3]
          BY <5>1
        <5> QED
          BY <5>2, <5>3
      <4> QED
        BY <3>1, <4>1, <4>2
    <3>4. Late(Tail(all))
      BY <3>1, <3>3 DEF Late, LivePanel, Meta
    <3> QED
      BY <3>1, <3>2, <3>3, <3>4
  <2> HIDE DEF steps
  <2>4. Head(steps).kind \in PlainKinds
    BY <2>3 DEF PutTab, PlainKinds
  <2> QED
    BY <2>2, <2>3, <2>4, WriteGrows DEF Starts
<1>11. RunsOK' /\ \A t \in TabId : SameSend(t)
  BY <1>3, SendsKept
<1>12. MemoryStep
  <2>1. \A v \in Copies(panels) : v.id \in TabId /\ IsOpen(panels, v.id)
    BY <1>1, CopyType, OpenCopy
  <2>2. \A v \in Copies(panels') : Sounds(v)' \/ (v \in Copies(panels) /\ SameSend(v.id))
    BY <1>6, <1>9, <1>11, <2>1
  <2>3. tab.id > nextTab \/ \E k \in DOMAIN closed : closed[k].tab.id = tab.id
    BY <1>1, FrontParts
  <2>4. \A k \in DOMAIN closed' : closed'[k].tab.id # tab.id
    <3>1. CASE tab.id = nextTab + 1
      BY <1>1, <1>2, <3>1 DEF SInv, ClosedTabsOK, Good
    <3>2. CASE closed # <<>> /\ tab = Last(closed).tab /\ closed' = Front(closed)
      <4>1. /\ Len(closed) \in DOMAIN closed /\ tab = closed[Len(closed)].tab
            /\ DOMAIN closed' = 1..(Len(closed) - 1) /\ Len(closed) \in Nat
        BY <1>1, <3>2, FrontParts
      <4> QED
        BY <1>2, <4>1 DEF SInv, ClosedTabsOK
    <3> QED
      BY <3>1, <3>2
  <2>5. \A k \in DOMAIN closed', v \in Copies(panels) : closed'[k].tab.id # v.id
    BY <1>2, OpenCopy DEF SInv, ClosedTabsOK
  <2> QED
    BY <1>2, <1>3, <1>9, <2>1, <2>2, <2>3, <2>4, <2>5 DEF MemoryStep
<1>13. DOMAIN panels' = DOMAIN panels
  BY <1>7 DEF Opened
<1> QED
  BY <1>9, <1>10, <1>11, <1>12, <1>13, SessionStep DEF Opens, Fresh

\* AddTab, for a node that is open in some panel.
LEMMA ShowLinkedTabSession ==
  ASSUME IInv, IInv', SInv, NEW node, ShowLinkedTab(node)
  PROVE  SInv' /\ closed' = closed /\ Moves
<1> DEFINE I == {i \in 1..Len(order) : LinkedPosition(order[i], node) # 0}
           k == SelectInSeq(order, LAMBDA p : LinkedPosition(p, node) # 0)
<1>1. /\ UserEvent /\ k # 0
      /\ Activate(order[k],
                  panels[order[k]].strip[LinkedPosition(order[k], node)].id)
      /\ UNCHANGED <<closed, saving, sends, idVars>>
  BY DEF ShowLinkedTab
<1>2. k = IF I # {} THEN Min(I) ELSE 0
  BY DEF SelectInSeq
<1>3. I \in SUBSET Nat /\ DOMAIN order = 1..Len(order)
  BY OrderFacts
<1>4. k \in I
  BY <1>1, <1>2, <1>3, MinIsLeast
<1> HIDE DEF k
<1>5. order[k] \in DOMAIN panels
  BY <1>3, <1>4, OrderFacts
<1>6. LinkedPosition(order[k], node) \in DOMAIN panels[order[k]].strip
  BY <1>4, <1>5, LinkedPositionProperties, PanelFacts
<1>7. panels[order[k]].strip[LinkedPosition(order[k], node)].id
        \in Ids(panels[order[k]].strip)
  BY <1>6 DEF Ids
<1>8. Once(panels') /\ Copies(panels') = Copies(panels) /\ Grows /\ Shuffles
  BY <1>1, <1>5, <1>7, ActivateRearranges
<1> QED
  BY <1>1, <1>8, RearrangedOK DEF Rearranged, Moves, saving, sends, idVars

\* AddTab, for a node that is not open.
LEMMA AddTabSession ==
  ASSUME IInv, IInv', SInv, NEW node \in Nodes \cup {NoNode}, NEW config \in Configs,
         AddTab(node, config)
  PROVE  SInv' /\ closed' = closed /\ Opens
<1> DEFINE p == ActivePanel
           i == Len(panels[p].strip) + 1
           new == NewTab(node, config)
<1>1. /\ UserEvent /\ order # <<>> /\ nextTab < MaxTabs
      /\ OpenTab(p, i, new, active, <<>>)
      /\ nextTab' = nextTab + 1
      /\ UNCHANGED <<closed, saving, sends, nextPanel, nextSend>>
  BY DEF AddTab
<1>2. p \in DOMAIN panels
  BY <1>1, OrderFacts
<1> HIDE DEF p
<1>3. i \in 1..(Len(panels[p].strip) + 1)
  BY <1>2, PanelFacts
<1>4. /\ new \in Tab /\ new.id = nextTab + 1 /\ ~new.sending /\ new.history = <<>>
  BY <1>1, NewTabType DEF NewTab
<1> HIDE DEF i, new
<1> QED
  BY <1>1, <1>2, <1>3, <1>4, OpenTabSession DEF sends, saving

\* A duplicate is a new tab.
LEMMA DuplicateTabSession ==
  ASSUME IInv, IInv', SInv, NEW t \in TabId, DuplicateTab(t)
  PROVE  SInv' /\ closed' = closed /\ Opens
<1> DEFINE p     == ActivePanel
           strip == panels[p].strip
           i     == Position(strip, t)
           new   == NewTab(NoNode, strip[i].config)
<1>1. /\ UserEvent /\ order # <<>> /\ i # 0 /\ nextTab < MaxTabs
      /\ OpenTab(p, i + 1, new, active, <<>>)
      /\ nextTab' = nextTab + 1
      /\ UNCHANGED <<closed, saving, sends, nextPanel, nextSend>>
  BY DEF DuplicateTab
<1>2. p \in DOMAIN panels
  BY <1>1, OrderFacts
<1> HIDE DEF p
<1>3. strip \in Seq(Tab) /\ Len(strip) \in Nat
  BY <1>2, PanelFacts
<1>4. i \in 1..Len(strip)
  BY <1>1, <1>3, PositionProperties
<1>5. strip[i].config \in Configs
  BY <1>3, <1>4, TabParts
<1>6. new \in Tab /\ new.id = nextTab + 1 /\ ~new.sending /\ new.history = <<>>
  BY <1>1, <1>5, NewTabType DEF NewTab
<1>7. i + 1 \in 1..(Len(strip) + 1)
  BY <1>3, <1>4
<1> HIDE DEF i, new
<1> QED
  BY <1>1, <1>2, <1>6, <1>7, OpenTabSession DEF sends, saving

\* ReopenClosedTab, when the popped tab's node is open with the same config.
LEMMA ReopenAsLinkedTabSession ==
  ASSUME IInv, IInv', SInv, ReopenAsLinkedTab
  PROVE  SInv' /\ Reopened(panels', active', Last(closed).tab) /\ Moves
<1> DEFINE I   == {i \in 1..Len(order) : SameAsClosed(order[i], Last(closed).tab)}
           k   == SelectInSeq(order, LAMBDA p : SameAsClosed(p, Last(closed).tab))
<1>1. /\ UserEvent /\ closed # <<>> /\ k # 0
      /\ closed' = Front(closed)
      /\ Activate(order[k],
                  panels[order[k]].strip[LinkedPosition(order[k], Last(closed).tab.node)].id)
      /\ UNCHANGED <<saving, sends, idVars>>
  BY DEF ReopenAsLinkedTab
<1>2. k = IF I # {} THEN Min(I) ELSE 0
  BY DEF SelectInSeq
<1>3. I \in SUBSET Nat /\ DOMAIN order = 1..Len(order)
  BY OrderFacts
<1>4. k \in I
  BY <1>1, <1>2, <1>3, MinIsLeast
<1> HIDE DEF k
<1>5. PICK p, was : p = order[k] /\ was = Last(closed).tab
  OBVIOUS
<1>6. PICK j : j = LinkedPosition(p, was.node)
  OBVIOUS
<1>7. p \in DOMAIN panels /\ j # 0 /\ panels[p].strip[j].config = was.config
  BY <1>3, <1>4, <1>5, <1>6, OrderFacts DEF SameAsClosed
<1>8. j \in DOMAIN panels[p].strip /\ panels[p].strip[j].node = was.node
  BY <1>6, <1>7, LinkedPositionProperties, PanelFacts
<1>9. PICK v : v = panels[p].strip[j]
  OBVIOUS
<1>10. v \in ToSet(panels[p].strip) /\ v.id \in Ids(panels[p].strip)
  BY <1>8, <1>9 DEF Ids, ToSet
<1>11. Activate(p, v.id)
  BY <1>1, <1>5, <1>6, <1>9
<1>12. Once(panels') /\ Copies(panels') = Copies(panels) /\ Grows /\ active' = p /\ Shuffles
  BY <1>1, <1>7, <1>10, <1>11, ActivateRearranges
<1>13. SInv' /\ Moves
  BY <1>1, <1>12, RearrangedOK DEF Rearranged, Moves, saving, sends, idVars
<1>14. /\ p \in DOMAIN panels' /\ panels'[p].strip = panels[p].strip
       /\ panels'[p].active = v.id
  BY <1>7, <1>11, EmitPanels, PanelFacts DEF Activate, Panel
<1>15. IsBox(panels', PanelId, Panel)
  BY DEF IInv, MemoryOK, Sound
<1>16. panels'[p].strip[Position(panels'[p].strip, panels'[p].active)] = v
  <2>1. PICK ps : ps = panels'
    OBVIOUS
  <2> QED
    BY <2>1, <1>10, <1>12, <1>14, <1>15, ShownTab
<1> QED
  BY <1>5, <1>7, <1>8, <1>9, <1>12, <1>13, <1>16 DEF Reopened

\* ReopenClosedTab, otherwise.
LEMMA ReopenClosedTabSession ==
  ASSUME IInv, IInv', SInv, ReopenClosedTab
  PROVE  SInv' /\ Reopened(panels', active', Last(closed).tab) /\ Opens
<1> DEFINE was == Last(closed)
           p   == IF was.panel \in DOMAIN panels THEN was.panel ELSE ActivePanel
           end == Len(panels[p].strip) + 1
           i   == IF was.index < end THEN was.index ELSE end
<1>1. /\ UserEvent /\ closed # <<>> /\ order # <<>>
      /\ closed' = Front(closed)
      /\ OpenTab(p, i, was.tab, p, <<Meta>>)
      /\ UNCHANGED <<saving, sends, idVars>>
  BY DEF ReopenClosedTab
<1>2. was.tab \in Tab /\ was.index \in Nat \ {0}
  BY <1>1, PopClosed
<1>3. p \in DOMAIN panels
  BY <1>1, OrderFacts
<1> HIDE DEF p
<1>4. Len(panels[p].strip) \in Nat
  BY <1>3, PanelFacts
<1>5. i \in 1..(Len(panels[p].strip) + 1)
  BY <1>2, <1>4
<1> HIDE DEF i, was
<1>6. /\ SInv' /\ Opens
      /\ panels'[p].active = was.tab.id /\ was.tab \in ToSet(panels'[p].strip)
      /\ p \in DOMAIN panels'
  <2>1. was.tab = Last(closed).tab
    BY DEF was
  <2> QED
    BY <1>1, <1>2, <1>3, <1>5, <2>1, OpenTabSession DEF sends, saving, idVars
<1>7. active' = p
  BY <1>1, <1>3, EmitPanels DEF OpenTab, Opened
<1>8. IsBox(panels', PanelId, Panel)
  BY DEF IInv, MemoryOK, Sound
<1>9. panels'[p].strip[Position(panels'[p].strip, panels'[p].active)] = was.tab
  <2>1. PICK ps, q, v : ps = panels' /\ q = p /\ v = was.tab
    OBVIOUS
  <2>2. ps[q].strip[Position(ps[q].strip, ps[q].active)] = v
    BY <2>1, <1>6, <1>8, ShownTab DEF SInv
  <2> QED
    BY <2>1, <2>2
<1> QED
  BY <1>6, <1>7, <1>9 DEF Reopened, was

-----------------------------------------------------------------------------
(* Choosing and moving tabs, panels, and what only writes.                 *)

\* Another tab of the active panel is chosen.
LEMMA SetActiveIndexSession ==
  ASSUME IInv, IInv', SInv, NEW i, SetActiveIndex(i)
  PROVE  SInv' /\ closed' = closed /\ Moves
<1>1. PICK p : p = ActivePanel
  OBVIOUS
<1>2. PICK t : t = panels[p].strip[i].id
  OBVIOUS
<1>3. /\ UserEvent /\ order # <<>> /\ i \in DOMAIN panels[p].strip
      /\ Emit([panels EXCEPT ![p].active = t], order, active)
      /\ Write(<<PutPanel(p, RowOf(panels'[p]))>>)
      /\ UNCHANGED <<closed, saving, sends, idVars>>
  BY <1>1, <1>2 DEF SetActiveIndex
<1>4. p \in DOMAIN panels /\ t \in Ids(panels[p].strip)
  BY <1>1, <1>2, <1>3, OrderFacts DEF Ids
<1>5. Once(panels') /\ Copies(panels') = Copies(panels)
  <2>1. panels' = [panels EXCEPT ![p].active = t]
    BY <1>3, EmitPanels
  <2>2. IsBox(panels, PanelId, Panel) /\ Once(panels)
    BY SessionTypes DEF SInv
  <2> QED
    BY <1>4, <2>1, <2>2, ActivatedOnce
<1>6. Grows /\ Shuffles
  <2>1. PICK row : row = RowOf(panels'[p])
    OBVIOUS
  <2>2. /\ Head(<<PutPanel(p, row)>>).kind \in PlainKinds
        /\ ~RowKind(Head(<<PutPanel(p, row)>>)) /\ Late(Tail(<<PutPanel(p, row)>>))
    BY DEF PutPanel, PlainKinds, Late, RowKind
  <2> QED
    BY <1>3, <2>1, <2>2, WriteGrows
<1> QED
  BY <1>3, <1>5, <1>6, RearrangedOK DEF Rearranged, Moves, saving, sends, idVars

\* A tab is dragged to another place of its panel.
LEMMA ReorderTabsSession ==
  ASSUME IInv, IInv', SInv, NEW p, NEW i, NEW j, ReorderTabs(p, i, j)
  PROVE  SInv' /\ closed' = closed /\ Moves
<1> DEFINE strip == panels[p].strip
           moved == Moved(strip, i, j)
<1>1. /\ UserEvent /\ p \in DOMAIN panels /\ {i, j} \subseteq DOMAIN strip
      /\ Emit([panels EXCEPT ![p].strip = moved], order, active)
      /\ Write(<<PutPanel(p, RowOf(panels'[p]))>>)
      /\ UNCHANGED <<closed, saving, sends, idVars>>
  BY DEF ReorderTabs
<1>2. /\ strip \in Seq(Tab) /\ DOMAIN strip = 1..Len(strip) /\ panels[p] \in Panel
      /\ OneEach(strip) /\ ShownIn(panels[p])
  BY <1>1, PanelFacts DEF SInv, Once
<1>3. IsInjective(moved) /\ ToSet(moved) = ToSet(strip)
  BY <1>1, <1>2, MovedInjective DEF OneEach
<1> HIDE DEF moved
<1>4. OneEach(moved)
  BY <1>2, <1>3 DEF OneEach
<1>5. /\ DOMAIN panels' = DOMAIN panels
      /\ \A q \in DOMAIN panels \ {p} : panels'[q] = panels[q]
      /\ panels'[p].strip = moved /\ panels'[p].active = panels[p].active
  BY <1>1, <1>2, EmitPanels DEF Panel
<1>6. Once(panels') /\ Copies(panels') = Copies(panels)
  <2>1. PICK qs : qs = panels'
    OBVIOUS
  <2>2. \A t : t \in Ids(moved) <=> t \in Ids(strip)
    BY <1>3, IdsOfSet
  <2>3. strip # <<>>
    BY <1>1, <1>2
  <2>4. panels[p].active \in Ids(strip)
    BY <1>2, <2>3 DEF ShownIn
  <2>5. ShownIn(qs[p])
    BY <1>5, <2>1, <2>2, <2>4, ShownMember
  <2>6. PanelPut(panels, qs, p, ToSet(strip))
    BY <1>1, <1>3, <1>4, <1>5, <2>1, <2>5 DEF PanelPut, SInv
  <2>7. /\ Once(qs)
        /\ \A v : v \in Copies(qs) <=>
             v \in ToSet(strip) \/ (v \in Copies(panels) /\ v \notin ToSet(strip))
    BY <1>3, <1>5, <2>1, <2>6, PanelPutOnce
  <2>8. ToSet(strip) \subseteq Copies(panels)
    BY <1>1 DEF Copies
  <2> QED
    BY <2>1, <2>7, <2>8
<1>7. Grows /\ Shuffles
  <2>1. PICK row : row = RowOf(panels'[p])
    OBVIOUS
  <2>2. /\ Head(<<PutPanel(p, row)>>).kind \in PlainKinds
        /\ ~RowKind(Head(<<PutPanel(p, row)>>)) /\ Late(Tail(<<PutPanel(p, row)>>))
    BY DEF PutPanel, PlainKinds, Late, RowKind
  <2> QED
    BY <1>1, <2>1, <2>2, WriteGrows
<1> QED
  BY <1>1, <1>6, <1>7, RearrangedOK DEF Rearranged, Moves, saving, sends, idVars

\* A new name moves no tab.
LEMMA RenamePanelSession ==
  ASSUME IInv, IInv', SInv, NEW p, NEW name, RenamePanel(p, name)
  PROVE  SInv' /\ closed' = closed /\ Moves
<1>1. PICK n : n = IF name = 0 THEN NextName(p) ELSE name
  OBVIOUS
<1>2. /\ UserEvent /\ p \in DOMAIN panels
      /\ Emit([panels EXCEPT ![p].name = n], order, active)
      /\ Write(<<PutPanel(p, RowOf(panels'[p]))>>)
      /\ UNCHANGED <<closed, saving, sends, idVars>>
  BY <1>1 DEF RenamePanel
<1>3. Once(panels') /\ Copies(panels') = Copies(panels)
  <2> DEFINE qs == [panels EXCEPT ![p].name = n]
  <2>1. panels[p] \in Panel /\ panels' = qs
    BY <1>2, PanelFacts, EmitPanels
  <2>2. /\ DOMAIN qs = DOMAIN panels
        /\ \A q \in DOMAIN panels : qs[q].strip = panels[q].strip
                                    /\ qs[q].active = panels[q].active
    BY <2>1 DEF Panel
  <2> HIDE DEF qs
  <2> QED
    BY <2>1, <2>2, SameStrips DEF SInv
<1>4. Grows /\ Shuffles
  <2>1. PICK row : row = RowOf(panels'[p])
    OBVIOUS
  <2>2. /\ Head(<<PutPanel(p, row)>>).kind \in PlainKinds
        /\ ~RowKind(Head(<<PutPanel(p, row)>>)) /\ Late(Tail(<<PutPanel(p, row)>>))
    BY DEF PutPanel, PlainKinds, Late, RowKind
  <2> QED
    BY <1>2, <2>1, <2>2, WriteGrows
<1> QED
  BY <1>2, <1>3, <1>4, RearrangedOK DEF Rearranged, Moves, saving, sends, idVars

\* Another panel, or another order of them.
LEMMA PanelChoiceSession ==
  ASSUME IInv, IInv', SInv,
         (\E p : SetActivePanel(p)) \/ (\E i, j : ReorderPanels(i, j))
  PROVE  SInv' /\ closed' = closed /\ Moves
<1>1. /\ UserEvent /\ panels' = panels /\ Write(<<Meta>>)
      /\ UNCHANGED <<closed, saving, sends, idVars>>
  BY DEF SetActivePanel, ReorderPanels, Emit
<1>2. /\ Head(<<Meta>>).kind \in PlainKinds /\ <<Meta>> # <<>>
      /\ ~RowKind(Head(<<Meta>>)) /\ Late(Tail(<<Meta>>))
  BY DEF Meta, PlainKinds, Late, RowKind
<1>3. Grows /\ Shuffles
  BY <1>1, <1>2, WriteGrows
<1> QED
  BY <1>1, <1>3, RearrangedOK DEF Rearranged, Moves, saving, sends, idVars, SInv

\* A panel of a new id among the others.
LEMMA AddedOnce ==
  ASSUME IInv, SInv, nextPanel < MaxPanels, NEW ps, Once(ps), DOMAIN ps = DOMAIN panels,
         NEW panel, OneEach(panel.strip), ShownIn(panel),
         \A v \in ToSet(panel.strip) : ~IsOpen(ps, v.id)
  PROVE  /\ Once(Put(ps, nextPanel + 1, panel))
         /\ \A v : v \in Copies(Put(ps, nextPanel + 1, panel)) <=>
                     v \in ToSet(panel.strip) \/ v \in Copies(ps)
<1>1. PICK q : q = nextPanel + 1
  OBVIOUS
<1> DEFINE qs == Put(ps, q, panel)
<1>2. q \notin DOMAIN ps
  BY <1>1 DEF IInv, IdsOK, MemoryOK, Sound
<1>3. /\ DOMAIN qs = DOMAIN ps \cup {q} /\ qs[q] = panel
      /\ \A r \in DOMAIN ps \ {q} : qs[r] = ps[r]
  BY DEF Put
<1> HIDE DEF qs
<1>4. PanelPut(ps, qs, q, {})
  BY <1>2, <1>3 DEF PanelPut
<1>5. /\ Once(qs)
      /\ \A v : v \in Copies(qs) <=>
           v \in ToSet(qs[q].strip) \/ (v \in Copies(ps) /\ v \notin {})
  BY <1>4, PanelPutOnce
<1> QED
  BY <1>1, <1>3, <1>5 DEF qs

\* A new panel is empty, and shows no tab.
LEMMA AddPanelSession ==
  ASSUME IInv, IInv', SInv, AddPanel
  PROVE  SInv' /\ closed' = closed /\ Moves
<1> DEFINE p     == nextPanel + 1
           panel == [name |-> NextName(NoPanel), strip |-> <<>>, active |-> NoTab]
<1>1. /\ UserEvent /\ nextPanel < MaxPanels
      /\ Emit(Put(panels, p, panel), Append(order, p), p)
      /\ Write(<<PutPanel(p, RowOf(panels'[p])), Meta>>)
      /\ UNCHANGED <<closed, saving, sends, nextTab, nextSend>>
  BY DEF AddPanel
<1>2. /\ panel.strip = <<>> /\ panel.active = NoTab
      /\ ToSet(<<>>) = {} /\ IsInjective(<<>>)
  BY DEF ToSet, IsInjective
<1>3. OneEach(panel.strip) /\ ShownIn(panel) /\ ToSet(panel.strip) = {}
  BY <1>2 DEF OneEach, ShownIn
<1> HIDE DEF panel
<1>4. PICK ps : ps = panels
  OBVIOUS
<1>5. /\ Once(Put(ps, p, panel))
      /\ \A v : v \in Copies(Put(ps, p, panel)) <=> v \in Copies(ps)
  BY <1>1, <1>3, <1>4, AddedOnce DEF SInv
<1>6. panels' = Put(ps, p, panel)
  BY <1>1, <1>4, EmitPanels
<1>7. Once(panels') /\ Copies(panels') = Copies(panels)
  BY <1>4, <1>5, <1>6
<1>8. Grows /\ Shuffles
  <2>1. PICK row, q : row = RowOf(panels'[p]) /\ q = p
    OBVIOUS
  <2>2. /\ Head(<<PutPanel(q, row), Meta>>).kind \in PlainKinds
        /\ ~RowKind(Head(<<PutPanel(q, row), Meta>>)) /\ Late(Tail(<<PutPanel(q, row), Meta>>))
    BY DEF PutPanel, PlainKinds, Late, Meta, LivePanel, RowKind
  <2> QED
    BY <1>1, <2>1, <2>2, WriteGrows
<1> QED
  BY <1>1, <1>7, <1>8, RearrangedOK DEF Rearranged, Moves, saving, sends

\* A tab that moves to another panel leaves its own.
LEMMA MoveTabToPanelSession ==
  ASSUME IInv, IInv', SInv, NEW t \in TabId, NEW q, MoveTabToPanel(t, q)
  PROVE  SInv' /\ closed' = closed /\ Moves
<1> PICK p : p = Owner(panels, order, t)
  OBVIOUS
<1> PICK i : i = Position(panels[p].strip, t)
  OBVIOUS
<1> PICK tab : tab = panels[p].strip[i]
  OBVIOUS
<1> PICK ps : ps = Detached(panels, p, i)
  OBVIOUS
<1>1. /\ UserEvent /\ q \in DOMAIN panels /\ IsOpen(panels, t) /\ p # q
      /\ Emit([ps EXCEPT ![q].strip = Append(@, tab),
                         ![q].active = IF panels[q].strip = <<>> THEN t ELSE @],
              order, active)
      /\ Write(MoveWrites(q, RowOf(panels'[q]), p, RowOf(panels'[p])))
      /\ UNCHANGED <<closed, saving, sends, idVars>>
  BY DEF MoveTabToPanel
<1>2. Sound(panels, order, nextPanel) /\ Once(panels) /\ IsBox(panels, PanelId, Panel)
  BY SessionTypes DEF IInv, MemoryOK, SInv
<1>3. /\ p \in DOMAIN panels /\ i \in 1..Len(panels[p].strip)
      /\ tab = Found(panels, order, t) /\ tab.id = t /\ tab \in Tab
  BY <1>1, <1>2, OwnerProperties DEF Found
<1>4. tab \in Copies(panels) /\ \A v \in Copies(panels) : v.id = t => v = tab
  BY <1>1, <1>2, <1>3, FoundCopy
<1>5. IsBox(ps, PanelId, Panel) /\ DOMAIN ps = DOMAIN panels
  BY <1>3, DetachedBox
<1>6. Once(ps) /\ \A v : v \in Copies(ps) <=> v \in Copies(panels) /\ v # tab
  <2>1. /\ Once(Detached(panels, p, i))
        /\ \A v : v \in Copies(Detached(panels, p, i)) <=>
                    v \in Copies(panels) /\ v # panels[p].strip[i]
    <3>1. /\ IsBox(panels, PanelId, Panel) /\ Once(panels)
          /\ p \in DOMAIN panels /\ i \in 1..Len(panels[p].strip)
      BY <1>2, <1>3
    <3>2. \A qs : IsBox(qs, PanelId, Panel) /\ Once(qs) /\ p \in DOMAIN qs
                   /\ i \in 1..Len(qs[p].strip) =>
            Once(Detached(qs, p, i))
            /\ \A v : v \in Copies(Detached(qs, p, i)) <=>
                         v \in Copies(qs) /\ v # qs[p].strip[i]
      BY DetachedOnce
    <3> QED
      BY <3>1, <3>2
  <2> QED
    BY <2>1
<1>7. ~IsOpen(ps, t)
  BY <1>4, <1>6, OpenCopy
<1>8. ps[q] \in Panel /\ ps[q].strip \in Seq(Tab) /\ OneEach(ps[q].strip) /\ ShownIn(ps[q])
  BY <1>1, <1>5, <1>6, PanelParts DEF Once
<1>9. ps[q].strip = panels[q].strip
  BY <1>1, <1>3 DEF Detached
<1>10. PICK qs : qs = panels'
  OBVIOUS
<1>11. /\ DOMAIN qs = DOMAIN ps
       /\ \A r \in DOMAIN ps \ {q} : qs[r] = ps[r]
       /\ qs[q].strip = Append(ps[q].strip, tab)
       /\ qs[q].active = IF panels[q].strip = <<>> THEN t ELSE ps[q].active
  <2>1. qs = [ps EXCEPT ![q].strip = Append(@, tab),
                        ![q].active = IF panels[q].strip = <<>> THEN t ELSE @]
    BY <1>1, <1>10, EmitPanels
  <2> QED
    BY <1>1, <1>5, <1>8, <2>1 DEF Panel
<1>12. /\ OneEach(qs[q].strip)
       /\ ToSet(qs[q].strip) = ToSet(ps[q].strip) \cup {tab}
  <2>1. t \notin Ids(ps[q].strip)
    BY <1>1, <1>5, <1>7 DEF IsOpen
  <2> QED
    BY <1>3, <1>8, <1>11, <2>1, AppendedOneEach
<1>13. ShownIn(qs[q])
  <2>1. \A u : u \in Ids(ps[q].strip) \cup {t} => u \in Ids(qs[q].strip)
    BY <1>3, <1>12, IdsOfSet
  <2>2. qs[q].active \in Ids(ps[q].strip) \cup {t}
    BY <1>8, <1>9, <1>11 DEF ShownIn
  <2> QED
    BY <2>1, <2>2, ShownMember
<1>14. PanelPut(ps, qs, q, ToSet(ps[q].strip))
  <2>1. \A v \in ToSet(qs[q].strip) :
          (\E w \in ToSet(ps[q].strip) : w.id = v.id) \/ ~IsOpen(ps, v.id)
    BY <1>3, <1>7, <1>12
  <2>2. q \in DOMAIN ps /\ DOMAIN qs = DOMAIN ps \cup {q}
    BY <1>1, <1>5, <1>11
  <2> QED
    BY <1>6, <1>11, <1>12, <1>13, <2>1, <2>2 DEF PanelPut
<1>15. /\ Once(qs)
       /\ \A v : v \in Copies(qs) <=>
            v \in ToSet(qs[q].strip) \/ (v \in Copies(ps) /\ v \notin ToSet(ps[q].strip))
  BY <1>14, PanelPutOnce
<1>16. ToSet(ps[q].strip) \subseteq Copies(ps)
  BY <1>1, <1>5 DEF Copies
<1>17. Once(panels') /\ Copies(panels') = Copies(panels)
  <2>1. \A v : v \in Copies(qs) <=> v \in Copies(panels)
    BY <1>4, <1>6, <1>12, <1>15, <1>16
  <2> QED
    BY <1>10, <1>15, <2>1
<1>18. Grows /\ Shuffles
  <2>1. PICK target, source : target = RowOf(panels'[q]) /\ source = RowOf(panels'[p])
    OBVIOUS
  <2>2. Write(<<PutPanel(q, target), LivePanel(p, source)>>)
    BY <1>1, <2>1 DEF MoveWrites
  <2>3. /\ Head(<<PutPanel(q, target), LivePanel(p, source)>>).kind \in PlainKinds
        /\ ~RowKind(Head(<<PutPanel(q, target), LivePanel(p, source)>>)) /\ Late(Tail(<<PutPanel(q, target), LivePanel(p, source)>>))
    BY DEF PutPanel, PlainKinds, Late, Meta, LivePanel, RowKind
  <2> QED
    BY <1>1, <2>2, <2>3, WriteGrows
<1> QED
  BY <1>1, <1>17, <1>18, RearrangedOK DEF Rearranged, Moves, saving, sends, idVars

\* A tab that gets a panel of its own is shown there.
LEMMA MoveTabToNewPanelSession ==
  ASSUME IInv, IInv', SInv, NEW t \in TabId, MoveTabToNewPanel(t)
  PROVE  SInv' /\ closed' = closed /\ Moves
<1> PICK p : p = Owner(panels, order, t)
  OBVIOUS
<1> PICK i : i = Position(panels[p].strip, t)
  OBVIOUS
<1> PICK tab : tab = panels[p].strip[i]
  OBVIOUS
<1> PICK ps : ps = Detached(panels, p, i)
  OBVIOUS
<1> PICK q : q = nextPanel + 1
  OBVIOUS
<1> PICK panel : panel = [name |-> NextName(NoPanel), strip |-> <<tab>>, active |-> t]
  OBVIOUS
<1>1. /\ UserEvent /\ IsOpen(panels, t) /\ nextPanel < MaxPanels
      /\ Emit(Put(ps, q, panel), Append(order, q), active)
      /\ Write(MoveWrites(q, RowOf(panels'[q]), p, RowOf(panels'[p])) \o <<Meta>>)
      /\ UNCHANGED <<closed, saving, sends, nextTab, nextSend>>
  BY DEF MoveTabToNewPanel
<1>2. Sound(panels, order, nextPanel) /\ Once(panels) /\ IsBox(panels, PanelId, Panel)
  BY SessionTypes DEF IInv, MemoryOK, SInv
<1>3. /\ p \in DOMAIN panels /\ i \in 1..Len(panels[p].strip)
      /\ tab = Found(panels, order, t) /\ tab.id = t /\ tab \in Tab
  BY <1>1, <1>2, OwnerProperties DEF Found
<1>4. tab \in Copies(panels) /\ \A v \in Copies(panels) : v.id = t => v = tab
  BY <1>1, <1>2, <1>3, FoundCopy
<1>5. DOMAIN ps = DOMAIN panels
  BY <1>3, DetachedBox
<1>6. Once(ps) /\ \A v : v \in Copies(ps) <=> v \in Copies(panels) /\ v # tab
  <2>1. /\ Once(Detached(panels, p, i))
        /\ \A v : v \in Copies(Detached(panels, p, i)) <=>
                    v \in Copies(panels) /\ v # panels[p].strip[i]
    <3>1. /\ IsBox(panels, PanelId, Panel) /\ Once(panels)
          /\ p \in DOMAIN panels /\ i \in 1..Len(panels[p].strip)
      BY <1>2, <1>3
    <3>2. \A qs : IsBox(qs, PanelId, Panel) /\ Once(qs) /\ p \in DOMAIN qs
                   /\ i \in 1..Len(qs[p].strip) =>
            Once(Detached(qs, p, i))
            /\ \A v : v \in Copies(Detached(qs, p, i)) <=>
                         v \in Copies(qs) /\ v # qs[p].strip[i]
      BY DetachedOnce
    <3> QED
      BY <3>1, <3>2
  <2> QED
    BY <2>1
<1>7. ~IsOpen(ps, t)
  BY <1>4, <1>6, OpenCopy
<1>8. panel.strip = <<tab>> /\ panel.active = t
  OBVIOUS
<1>9. /\ ToSet(panel.strip) = {tab} /\ IsInjective(panel.strip)
  BY <1>8 DEF ToSet, IsInjective
<1>10. OneEach(panel.strip)
  BY <1>9 DEF OneEach
<1>11. ShownIn(panel)
  <2>1. t \in Ids(panel.strip)
    BY <1>3, <1>9, IdsOfSet
  <2> QED
    BY <1>8, <2>1, ShownMember
<1>12. /\ Once(Put(ps, nextPanel + 1, panel))
       /\ \A v : v \in Copies(Put(ps, nextPanel + 1, panel)) <=>
                   v \in ToSet(panel.strip) \/ v \in Copies(ps)
  BY <1>1, <1>3, <1>5, <1>6, <1>7, <1>9, <1>10, <1>11, AddedOnce
<1>13. panels' = Put(ps, nextPanel + 1, panel)
  BY <1>1, EmitPanels
<1>14. Once(panels') /\ Copies(panels') = Copies(panels)
  BY <1>4, <1>6, <1>9, <1>12, <1>13
<1>15. Grows /\ Shuffles
  <2>1. PICK target, source : target = RowOf(panels'[q]) /\ source = RowOf(panels'[p])
    OBVIOUS
  <2> DEFINE steps == MoveWrites(q, target, p, source) \o <<Meta>>
  <2>2. Write(steps)
    BY <1>1, <2>1
  <2>3. steps # <<>> /\ Head(steps) = PutPanel(q, target) /\ Late(Tail(steps))
    <3>1. PICK a, b, c : a = PutPanel(q, target) /\ b = LivePanel(p, source) /\ c = Meta
      OBVIOUS
    <3>2. PICK all : all = <<a, b>> \o <<c>>
      OBVIOUS
    <3>3. /\ all # <<>> /\ Head(all) = a
          /\ \A k \in DOMAIN Tail(all) : Tail(all)[k] \in {b, c}
      <4>1. Len(all) = 3 /\ all[1] = a /\ all[2] = b /\ all[3] = c
            /\ DOMAIN all = 1..3 /\ Head(all) = all[1]
        BY <3>2
      <4>2. all # <<>> /\ \A k \in 1..2 : all[k + 1] \in {b, c}
        BY <4>1
      <4>3. all \in Seq({a, b, c})
        <5>1. <<a, b>> \in Seq({a, b, c}) /\ <<c>> \in Seq({a, b, c})
          OBVIOUS
        <5> QED
          BY <3>2, <5>1
      <4>4. /\ DOMAIN Tail(all) = 1..(Len(all) - 1)
            /\ \A k \in DOMAIN Tail(all) : Tail(all)[k] = all[k + 1]
        BY <4>2, <4>3, TailParts
      <4>5. Len(all) - 1 = 2
        BY <4>1
      <4> QED
        BY <4>1, <4>2, <4>4, <4>5
    <3>4. Late(Tail(all))
      BY <3>1, <3>3 DEF Late, PutPanel, LivePanel, Meta
    <3>5. steps = all
      BY <3>1, <3>2 DEF MoveWrites
    <3> QED
      BY <3>1, <3>3, <3>4, <3>5
  <2> HIDE DEF steps
  <2>4. Head(steps).kind \in PlainKinds /\ ~RowKind(Head(steps))
    BY <2>3 DEF PutPanel, PlainKinds, RowKind
  <2> QED
    BY <1>1, <2>2, <2>3, <2>4, WriteGrows
<1> QED
  BY <1>1, <1>14, <1>15, RearrangedOK DEF Rearranged, Moves, saving, sends

\* A flush sends a tab, or nothing.
LEMMA FlushSession ==
  ASSUME IInv, IInv', SInv, FlushTimer \/ FlushPendingSaves
  PROVE  SInv' /\ closed' = closed
<1>1. /\ phase # "off" /\ UNCHANGED <<disk, phase>>
      /\ StartFlush(<<>>)
      /\ UNCHANGED <<memory, closed, sends, idVars>>
  BY UserEventRuns DEF FlushTimer, FlushPendingSaves, process
<1>2. PICK todo : queue' = queue \o Issue(<<Flush(todo)>> \o <<>>, panels, order, active)
  BY <1>1 DEF StartFlush
<1>3. Quiet(Issue(<<Flush(todo)>> \o <<>>, panels, order, active))
  <2>1. <<Flush(todo)>> \o <<>> = <<Flush(todo)>>
    OBVIOUS
  <2>2. /\ Head(<<Flush(todo)>>) = Flush(todo) /\ <<Flush(todo)>> # <<>>
        /\ Tail(<<Flush(todo)>>) = <<>>
        /\ Flush(todo).kind = "flush" /\ Flush(todo).todo = todo
    BY DEF Flush
  <2>3. CASE NextToFlush(todo, panels) = 0
    <3>1. Unfolded(<<Flush(todo)>>, panels, order) = <<>>
      BY <2>2, <2>3 DEF Unfolded
    <3>2. Issue(<<Flush(todo)>>, panels, order, active) = <<>>
      BY <3>1 DEF Issue
    <3> QED
      BY <2>1, <3>2 DEF Quiet
  <2>4. CASE NextToFlush(todo, panels) # 0
    <3>1. Unfolded(<<Flush(todo)>>, panels, order) = <<Flush(todo)>>
      BY <2>2, <2>4 DEF Unfolded
    <3>2. PICK e : /\ Issue(<<Flush(todo)>>, panels, order, active) = <<e>>
                   /\ e.op.kind = "putTab"
      BY <2>2, <3>1 DEF Issue, PutTab
    <3> QED
      BY <2>1, <3>2 DEF Quiet, Reads
  <2> QED
    BY <2>3, <2>4
<1>4. Grows
  BY <1>1, <1>2, <1>3 DEF Grows
<1> QED
  BY <1>1, <1>4, RearrangedOK DEF Rearranged, sends, idVars, memory, SInv

\* The worker writes, or fails to.
LEMMA WorkerWriteSession ==
  ASSUME IInv, IInv', SInv, ExecuteWrite \/ FailWrite
  PROVE  SInv' /\ closed' = closed
<1>1. /\ phase' = phase /\ queue # <<>>
      /\ Head(queue).op.kind \in BoxWrites \cup {"putMeta"}
      /\ queue' = Tail(queue) \o Issue(Head(queue).rest, panels, order, active)
      /\ UNCHANGED <<memory, closed, sends, idVars>>
  BY DEF ExecuteWrite, FailWrite, GoOn, process
<1>2. ~Reads(Head(queue))
  BY <1>1 DEF Reads, BoxWrites
<1>3. Quiet(Issue(Head(queue).rest, panels, order, active))
  <2>1. Sound(panels, order, nextPanel)
    BY DEF IInv, MemoryOK
  <2>2. Head(queue).rest \in Steps(nextPanel) /\ WellShaped(Head(queue).rest)
    BY <1>1, HeadProperties
  <2> QED
    BY <2>1, <2>2, IssueQuiet
<1>4. Shifts
  BY <1>1, <1>2, <1>3 DEF Shifts
<1> QED
  BY <1>1, <1>4, RearrangedOK DEF Rearranged, sends, idVars, memory, SInv

\* The worker writes the order of the panels.
LEMMA ExecuteMetaSession ==
  ASSUME IInv, IInv', SInv, ExecuteMeta
  PROVE  SInv' /\ closed' = closed
<1> PICK e : e = [Head(queue) EXCEPT !.op = PutActive(@.active)]
  OBVIOUS
<1>1. /\ phase' = phase /\ queue # <<>> /\ Head(queue).op.kind = "putMeta"
      /\ queue' = <<e>> \o Tail(queue)
      /\ UNCHANGED <<memory, closed, sends, idVars>>
  BY DEF ExecuteMeta, process
<1>2. /\ queue \in Seq(Entry(nextPanel)) /\ Len(queue) \in Nat /\ DOMAIN queue = 1..Len(queue)
      /\ Head(queue) = queue[1] /\ Len(queue) > 0
  BY <1>1 DEF IInv
<1>3. ~Reads(queue[1]) /\ ~Reads(e)
  <2>1. Head(queue) \in [op : Command, rest : Steps(nextPanel)]
    BY <1>1, HeadProperties DEF Entry
  <2>2. e.op.kind = "putActive"
    BY <2>1 DEF PutActive
  <2> QED
    BY <1>1, <1>2, <2>2 DEF Reads
<1>4. /\ DOMAIN queue' = DOMAIN queue /\ queue'[1] = e
      /\ \A k \in 2..Len(queue) : queue'[k] = queue[k]
  <2> DEFINE left == Tail(queue)
  <2>1. /\ left \in Seq(Entry(nextPanel)) /\ Len(left) = Len(queue) - 1
        /\ \A k \in 1..Len(left) : left[k] = queue[k + 1]
    BY <1>2
  <2>2. queue' = <<e>> \o left
    BY <1>1
  <2> HIDE DEF left
  <2>3. /\ DOMAIN queue' = 1..(Len(left) + 1) /\ queue'[1] = e
        /\ \A k \in 1..Len(left) : queue'[k + 1] = left[k]
    BY <2>1, <2>2
  <2>4. ASSUME NEW k \in 2..Len(queue) PROVE queue'[k] = queue[k]
    <3>1. k - 1 \in 1..Len(left) /\ k = (k - 1) + 1
      BY <1>2, <2>1
    <3> QED
      BY <2>1, <2>3, <3>1
  <2> QED
    BY <1>2, <2>1, <2>3, <2>4
<1>5. phase # "off"
  BY <1>1 DEF SInv, LoadingOK
<1>6. \A i \in DOMAIN queue : queue[i].op.kind # "getPanels"
  BY <1>2, <1>3 DEF SInv, LoadingOK, Reads
<1>7. ASSUME NEW i \in DOMAIN queue', Reads(queue'[i])
      PROVE  i + 0 \in DOMAIN queue /\ queue'[i].op = queue[i + 0].op
  BY <1>2, <1>3, <1>4, <1>7
<1>8. ReadsKept(0)
  BY <1>1, <1>5, <1>6, <1>7 DEF ReadsKept
<1> QED
  BY <1>1, <1>8, RearrangedOK DEF Rearranged, sends, idVars, memory, SInv

-----------------------------------------------------------------------------
(* Closing tabs.                                                           *)

\* What the reopen stack holds after records were pushed: the last of all, as
\* many as fit.
LEMMA PushedParts ==
  ASSUME IInv, Len(closed) <= ClosedMax, NEW recs \in Seq(Closed), PushClosed(recs)
  PROVE  /\ Len(closed) <= Len(closed') /\ Len(closed') <= ClosedMax
         /\ \E m \in Nat : \A i \in DOMAIN closed' :
              \/ i + m \in DOMAIN closed /\ closed'[i] = closed[i + m]
              \/ /\ i + m - Len(closed) \in DOMAIN recs
                 /\ closed'[i] = recs[i + m - Len(closed)]
<1> DEFINE all == closed \o recs
           m   == IF Len(all) > ClosedMax THEN Len(all) - ClosedMax ELSE 0
<1>1. /\ closed \in Seq(Closed) /\ Len(closed) \in Nat /\ Len(recs) \in Nat
      /\ DOMAIN closed = 1..Len(closed) /\ DOMAIN recs = 1..Len(recs)
      /\ ClosedMax \in Nat
  BY SessionTypes, TabsAssumption
<1>2. /\ all \in Seq(Closed) /\ Len(all) = Len(closed) + Len(recs)
      /\ \A i \in 1..Len(all) : all[i] = IF i <= Len(closed) THEN closed[i]
                                         ELSE recs[i - Len(closed)]
  BY <1>1
<1>3. closed' = SubSeq(all, 1 + m, Len(all))
  BY DEF PushClosed
<1> HIDE DEF all
<1>4. m \in Nat /\ m <= Len(all)
  BY <1>1, <1>2
<1>5. /\ Len(closed') = Len(all) - m /\ DOMAIN closed' = 1..(Len(all) - m)
      /\ \A i \in 1..(Len(all) - m) : closed'[i] = all[i + m]
  <2> HIDE DEF m
  <2>1. /\ Len(SubSeq(all, 1 + m, Len(all))) = Len(all) - m
        /\ DOMAIN SubSeq(all, 1 + m, Len(all)) = 1..(Len(all) - m)
        /\ \A i \in 1..(Len(all) - m) : SubSeq(all, 1 + m, Len(all))[i] = all[i + m]
    <3>1. /\ 1 + m \in 1..(Len(all) + 1) /\ Len(all) \in 0..Len(all) /\ Len(all) \in Nat
          /\ Len(all) - (1 + m) + 1 = Len(all) - m
          /\ \A i \in 1..(Len(all) - m) : 1 + m + i - 1 = i + m
      BY <1>1, <1>2, <1>4
    <3>2. SubSeq(all, 1 + m, Len(all)) = [i \in 1..(Len(all) - m) |-> all[i + m]]
      BY <1>2, <3>1, SubSeqProperties
    <3>3. Len(SubSeq(all, 1 + m, Len(all))) = Len(all) - m
      <4>1. \A i \in (1 + m)..Len(all) : all[i] \in Closed
        BY <1>2, <1>4, <3>1
      <4>2. Len(SubSeq(all, 1 + m, Len(all)))
              = IF 1 + m <= Len(all) THEN Len(all) - (1 + m) + 1 ELSE 0
        BY <3>1, <4>1, SubSeqProperties
      <4>3. PICK n \in Nat, k \in Nat : n = Len(all) /\ k = m
        BY <1>4, <3>1
      <4>4. k <= n /\ (IF 1 + k <= n THEN n - (1 + k) + 1 ELSE 0) = n - k
        BY <1>4, <4>3
      <4> QED
        BY <4>2, <4>3, <4>4
    <3> QED
      BY <3>2, <3>3
  <2> QED
    BY <1>3, <2>1
<1>6. Len(closed) <= Len(closed') /\ Len(closed') <= ClosedMax
  BY <1>1, <1>2, <1>5
<1>7. ASSUME NEW i \in DOMAIN closed'
      PROVE  \/ i + m \in DOMAIN closed /\ closed'[i] = closed[i + m]
             \/ /\ i + m - Len(closed) \in DOMAIN recs
                /\ closed'[i] = recs[i + m - Len(closed)]
  <2> HIDE DEF m
  <2>1. PICK j : j = i + m
    OBVIOUS
  <2>2. j \in 1..Len(all) /\ closed'[i] = all[j]
    BY <1>1, <1>2, <1>4, <1>5, <2>1
  <2>3. j > Len(closed) => j - Len(closed) \in 1..Len(recs)
    BY <1>1, <1>2, <2>2
  <2>4. CASE j <= Len(closed)
    BY <1>1, <1>2, <2>1, <2>2, <2>4
  <2>5. CASE j > Len(closed)
    <3>1. j - Len(closed) \in DOMAIN recs /\ closed'[i] = recs[j - Len(closed)]
      BY <1>1, <1>2, <2>2, <2>3, <2>5
    <3>2. i + m - Len(closed) = j - Len(closed)
      <4>1. i \in Nat /\ m \in Nat /\ Len(closed) \in Nat
        BY <1>1, <1>4, <1>5
      <4> QED
        BY <2>1, <4>1
    <3> QED
      BY <3>1, <3>2
  <2> QED
    BY <1>1, <2>2, <2>4, <2>5
<1> QED
  BY <1>4, <1>6, <1>7

\* Tabs are closed: those of some ids leave the panels for the reopen stack,
\* and their sends are cancelled and released.
TabsGone(gone, recs) ==
  /\ gone \subseteq TabId /\ recs \in Seq(Closed)
  /\ \A t \in gone : IsOpen(panels, t)
  /\ PushClosed(recs) /\ CancelAndFinish(gone)
  /\ Once(panels')
  /\ \A v : v \in Copies(panels') <=> v \in Copies(panels) /\ v.id \notin gone
  /\ \A k \in DOMAIN recs : \E v \in Copies(panels) :
       v.id \in gone /\ recs[k].tab = Settled(v)
  /\ \A j, k \in DOMAIN recs : recs[j].tab.id = recs[k].tab.id => j = k
  /\ UNCHANGED <<nextTab, nextSend>>

\* Tabs that are closed are open nowhere, and on the reopen stack once.
LEMMA TabsGoneSession ==
  ASSUME IInv, IInv', SInv, NEW gone, NEW recs, TabsGone(gone, recs), Grows
  PROVE  SInv' /\ Len(closed) <= Len(closed')
<1>1. /\ IsBox(panels, PanelId, Panel) /\ closed \in Seq(Closed) /\ Len(closed) \in Nat
      /\ handle \in [TabId -> SendId \cup {NoSend}]
      /\ nextTab \in Nat /\ nextSend \in Nat
      /\ \A i \in DOMAIN closed : closed[i] \in Closed
      /\ DOMAIN closed = 1..Len(closed)
  BY SessionTypes
<1>2. nextTab' = nextTab /\ nextSend' = nextSend /\ running' = running
  BY DEF TabsGone, CancelAndFinish
<1>3. \A t \in TabId : handle'[t] = IF t \in gone THEN NoSend ELSE handle[t]
  BY DEF TabsGone, CancelAndFinish
<1>4. \A v \in Copies(panels) : v \in Tab /\ v.id \in TabId
  BY <1>1, CopyType
<1>5. OpenTabsOK'
  <2> SUFFICES ASSUME NEW v \in Copies(panels') PROVE Sounds(v)'
    BY DEF OpenTabsOK
  <2>1. v \in Copies(panels) /\ v.id \notin gone /\ v \in Tab /\ v.id \in TabId /\ Sounds(v)
    BY <1>4 DEF TabsGone, SInv, OpenTabsOK
  <2>2. handle'[v.id] = handle[v.id]
    BY <1>3, <2>1
  <2>3. Good(v)'
    BY <1>1, <1>2, <2>1, <2>2, GoodKept DEF Sounds
  <2>4. ASSUME handle[v.id] # NoSend, NEW t \in gone PROVE handle[t] # handle[v.id]
    <3>1. t \in TabId /\ t # v.id
      BY <2>1 DEF TabsGone
    <3>2. ASSUME handle[t] = handle[v.id] PROVE FALSE
      <4> DEFINE r == [send |-> handle[t], tab |-> t]
                 s == [send |-> handle[v.id], tab |-> v.id]
      <4>1. r \in running /\ s \in running
        BY <2>1, <2>4, <3>1, <3>2 DEF SInv, RunsOK
      <4>2. r.send = s.send
        BY <3>2
      <4>3. r = s
        BY <4>1, <4>2 DEF SInv, RunsOK
      <4>4. r.tab = t /\ s.tab = v.id
        OBVIOUS
      <4> QED
        BY <3>1, <4>3, <4>4
    <3> QED
      BY <3>2
  <2>5. Waiting(v.id)' <=> Waiting(v.id)
    BY <2>2, <2>4 DEF Waiting, TabsGone, CancelAndFinish
  <2> QED
    BY <2>1, <2>3, <2>5 DEF Sounds
<1>6. ASSUME NEW rec, \/ \E i \in DOMAIN closed : rec = closed[i]
                      \/ \E k \in DOMAIN recs : rec = recs[k]
      PROVE  /\ Good(rec.tab)' /\ ~rec.tab.sending
             /\ handle'[rec.tab.id] = NoSend
             /\ ~IsOpen(panels', rec.tab.id)
  <2>1. ASSUME NEW i \in DOMAIN closed, rec = closed[i]
        PROVE  /\ Good(rec.tab)' /\ ~rec.tab.sending
               /\ handle'[rec.tab.id] = NoSend
               /\ ~IsOpen(panels', rec.tab.id)
    <3>1. rec.tab \in Tab /\ rec.tab.id \in TabId
      BY <1>1, <2>1, TabParts DEF Closed
    <3>2. /\ Good(rec.tab) /\ ~rec.tab.sending /\ handle[rec.tab.id] = NoSend
          /\ ~IsOpen(panels, rec.tab.id)
      BY <2>1 DEF SInv, ClosedTabsOK
    <3>3. handle'[rec.tab.id] = NoSend /\ ~IsOpen(panels', rec.tab.id)
      BY <1>3, <3>1, <3>2, OpenCopy DEF TabsGone
    <3>4. Good(rec.tab)'
      BY <1>1, <1>2, <3>1, <3>2, <3>3, GoodKept
    <3> QED
      BY <3>2, <3>3, <3>4
  <2>2. ASSUME NEW k \in DOMAIN recs, rec = recs[k]
        PROVE  /\ Good(rec.tab)' /\ ~rec.tab.sending
               /\ handle'[rec.tab.id] = NoSend
               /\ ~IsOpen(panels', rec.tab.id)
    <3>1. PICK v \in Copies(panels) : v.id \in gone /\ rec.tab = Settled(v)
      BY <2>2 DEF TabsGone
    <3>2. v \in Tab /\ v.id \in TabId /\ Good(v)
      BY <1>4 DEF SInv, OpenTabsOK, Sounds
    <3>3. PICK w : w = rec.tab
      OBVIOUS
    <3>4. /\ w.id = v.id /\ w.history = v.history /\ w \in Tab /\ ~w.sending
      BY <3>1, <3>2, <3>3 DEF Settled, Tab
    <3>5. Good(w)
      BY <3>2, <3>4 DEF Good
    <3>6. handle'[w.id] = NoSend /\ ~IsOpen(panels', w.id)
      BY <1>3, <3>1, <3>2, <3>4, OpenCopy DEF TabsGone
    <3>7. Good(w)'
      BY <1>1, <1>2, <3>4, <3>5, <3>6, GoodKept
    <3> QED
      BY <3>3, <3>4, <3>6, <3>7 DEF Good
  <2> QED
    BY <1>6, <2>1, <2>2
<1>7. /\ Len(closed) <= Len(closed') /\ Len(closed') <= ClosedMax
      /\ \E m \in Nat : \A i \in DOMAIN closed' :
           \/ i + m \in DOMAIN closed /\ closed'[i] = closed[i + m]
           \/ /\ i + m - Len(closed) \in DOMAIN recs
              /\ closed'[i] = recs[i + m - Len(closed)]
  BY PushedParts DEF TabsGone, SInv, ClosedTabsOK
<1>8. PICK m \in Nat : \A i \in DOMAIN closed' :
        \/ i + m \in DOMAIN closed /\ closed'[i] = closed[i + m]
        \/ /\ i + m - Len(closed) \in DOMAIN recs
           /\ closed'[i] = recs[i + m - Len(closed)]
  BY <1>7
<1>9. ASSUME NEW i \in DOMAIN closed, NEW k \in DOMAIN recs
      PROVE  closed[i].tab.id # recs[k].tab.id
  <2>1. PICK v \in Copies(panels) : recs[k].tab = Settled(v)
    BY DEF TabsGone
  <2>2. recs[k].tab.id = v.id
    BY <1>4, <2>1 DEF Settled, Tab
  <2> QED
    BY <2>2, OpenCopy DEF SInv, ClosedTabsOK
<1>10. DOMAIN closed' \subseteq Nat
  BY DEF IInv, ClosedOK
<1>11. ASSUME NEW i \in DOMAIN closed', NEW j \in DOMAIN closed',
              closed'[i].tab.id = closed'[j].tab.id
       PROVE  i = j
  <2>1. CASE i + m \in DOMAIN closed /\ closed'[i] = closed[i + m]
    <3>1. CASE j + m \in DOMAIN closed /\ closed'[j] = closed[j + m]
      <4>1. i + m = j + m
        BY <1>11, <2>1, <3>1 DEF SInv, ClosedTabsOK
      <4> QED
        BY <1>10, <4>1
    <3>2. CASE j + m - Len(closed) \in DOMAIN recs /\ closed'[j] = recs[j + m - Len(closed)]
      BY <1>9, <1>11, <2>1, <3>2
    <3> QED
      BY <1>8, <3>1, <3>2
  <2>2. CASE i + m - Len(closed) \in DOMAIN recs /\ closed'[i] = recs[i + m - Len(closed)]
    <3>1. CASE j + m \in DOMAIN closed /\ closed'[j] = closed[j + m]
      BY <1>9, <1>11, <2>2, <3>1
    <3>2. CASE j + m - Len(closed) \in DOMAIN recs /\ closed'[j] = recs[j + m - Len(closed)]
      <4>1. i + m - Len(closed) = j + m - Len(closed)
        BY <1>11, <2>2, <3>2 DEF TabsGone
      <4> QED
        BY <1>1, <1>10, <4>1
    <3> QED
      BY <1>8, <3>1, <3>2
  <2> QED
    BY <1>8, <2>1, <2>2
<1>12. ClosedTabsOK'
  <2>1. ASSUME NEW i \in DOMAIN closed'
        PROVE  /\ Good(closed[i].tab)' /\ ~closed'[i].tab.sending
               /\ handle'[closed'[i].tab.id] = NoSend
               /\ ~IsOpen(panels', closed'[i].tab.id)
    <3>1. PICK rec : rec = closed'[i]
      OBVIOUS
    <3>2. (\E k \in DOMAIN closed : rec = closed[k]) \/ (\E k \in DOMAIN recs : rec = recs[k])
      BY <1>8, <3>1
    <3>3. /\ Good(rec.tab)' /\ ~rec.tab.sending
          /\ handle'[rec.tab.id] = NoSend
          /\ ~IsOpen(panels', rec.tab.id)
      BY <1>6, <3>2
    <3> QED
      BY <3>1, <3>3 DEF Good
  <2> QED
    BY <1>7, <1>11, <2>1 DEF ClosedTabsOK
<1>13. RunsOK'
  <2>1. \A t \in TabId : handle'[t] # NoSend => handle'[t] = handle[t]
    BY <1>3
  <2>2. ASSUME NEW c \in cancelled' PROVE c <= nextSend
    <3>1. CASE c \in cancelled
      BY <3>1 DEF SInv, RunsOK
    <3>2. ASSUME NEW t \in gone, handle[t] # NoSend, c = handle[t] PROVE c <= nextSend
      <4>1. [send |-> handle[t], tab |-> t] \in running
        BY <3>2 DEF TabsGone, SInv, RunsOK
      <4> QED
        BY <3>2, <4>1 DEF SInv, RunsOK
    <3> QED
      BY <3>1, <3>2 DEF TabsGone, CancelAndFinish
  <2> QED
    BY <1>2, <2>1, <2>2 DEF SInv, RunsOK
<1>14. IdsKept
  <2> SUFFICES ASSUME NEW t \in 1..nextTab, Untouched(t) PROVE Untouched(t)'
    BY <1>1, <1>2 DEF IdsKept
  <2>1. t \in TabId
    BY StorageAssumption DEF IInv, IdsOK, TabId
  <2>2. ~IsOpen(panels', t) /\ handle'[t] = NoSend
    BY <1>3, <2>1, OpenCopy DEF Untouched, TabsGone
  <2>3. ASSUME NEW k \in DOMAIN recs PROVE recs[k].tab.id # t
    <3>1. PICK v \in Copies(panels) : recs[k].tab = Settled(v)
      BY DEF TabsGone
    <3>2. recs[k].tab.id = v.id
      BY <1>4, <3>1 DEF Settled, Tab
    <3> QED
      BY <3>2, OpenCopy DEF Untouched
  <2>4. \A i \in DOMAIN closed' : closed'[i].tab.id # t
    BY <1>8, <2>3 DEF Untouched
  <2> QED
    BY <2>2, <2>4 DEF Untouched
<1>15. LoadingOK'
  <2>1. 0 \in Nat /\ ReadsKept(0)
    BY GrowsKept
  <2> QED
    BY <1>14, <2>1, LoadingKept
<1> QED
  BY <1>5, <1>7, <1>12, <1>13, <1>15 DEF SInv, TabsGone

\* The records of the closed tabs: one for each, without its sending flag.
LEMMA ClosingRecords ==
  ASSUME IInv, Once(panels), NEW p \in DOMAIN panels, NEW strip, strip = panels[p].strip,
         NEW K \in SUBSET DOMAIN strip, NEW recs, recs = Closing(p, K)
  PROVE  /\ recs \in Seq(Closed)
         /\ \A k \in DOMAIN recs : \E v \in Copies(panels) :
              v.id \in {strip[i].id : i \in K} /\ recs[k].tab = Settled(v)
         /\ \A j, k \in DOMAIN recs : recs[j].tab.id = recs[k].tab.id => j = k
<1> DEFINE all == [i \in DOMAIN strip |-> i]
           at  == Selected(all, K)
           e   == Enumeration(K)
<1>1. /\ Len(strip) \in Nat /\ DOMAIN strip = 1..Len(strip)
      /\ \A i \in DOMAIN strip : strip[i] \in Tab
  BY PanelFacts
<1>2. all \in Seq(1..Len(strip)) /\ DOMAIN all = DOMAIN strip
  BY <1>1
<1>3. /\ \A k \in DOMAIN at : e[k] \in K /\ at[k] = all[e[k]]
      /\ \A j, k \in DOMAIN at : j # k => e[j] # e[k]
  BY <1>2, SelectedProperties
<1>4. recs = [k \in DOMAIN at |-> [tab |-> Settled(strip[at[k]]), panel |-> p, index |-> at[k]]]
  BY DEF Closing
<1>5. recs \in Seq(Closed)
  BY ClosingType
<1> HIDE DEF at, e
<1>6. \A k \in DOMAIN at : at[k] = e[k] /\ at[k] \in K
  BY <1>3
<1> HIDE DEF all
<1>7. DOMAIN recs = DOMAIN at /\ \A k \in DOMAIN at : recs[k].tab = Settled(strip[at[k]])
  BY <1>4
<1>8. ASSUME NEW i \in K
      PROVE  strip[i] \in Copies(panels) /\ Settled(strip[i]).id = strip[i].id
             /\ strip[i] \in ToSet(strip)
  <2>1. strip[i] \in ToSet(strip) /\ strip[i] \in Tab
    BY <1>1 DEF ToSet
  <2> QED
    BY <2>1, CopyPlace DEF Settled, Tab
<1>9. \A k \in DOMAIN recs : \E v \in Copies(panels) :
        v.id \in {strip[i].id : i \in K} /\ recs[k].tab = Settled(v)
  BY <1>6, <1>7, <1>8
<1>10. ASSUME NEW j \in DOMAIN recs, NEW k \in DOMAIN recs, recs[j].tab.id = recs[k].tab.id
       PROVE  j = k
  <2>1. at[j] \in K /\ at[k] \in K /\ strip[at[j]].id = strip[at[k]].id
    BY <1>6, <1>7, <1>8, <1>10
  <2>2. strip[at[j]] = strip[at[k]]
    BY <1>8, <2>1 DEF Once, OneEach
  <2>3. at[j] = at[k]
    BY <2>1, <2>2 DEF Once, OneEach, IsInjective
  <2> QED
    BY <1>3, <1>6, <1>7, <2>3
<1> QED
  BY <1>5, <1>9, <1>10

\* An event that closes tabs.
Closes ==
  \E gone, recs : TabsGone(gone, recs) /\ dirty' = dirty \ gone /\ Starts(DeleteTabs(gone))

\* Tabs of a panel are closed, which then shows one of the others.
LEMMA CloseTabsSession ==
  ASSUME IInv, IInv', SInv, UserEvent, NEW p \in DOMAIN panels, NEW strip,
         strip = panels[p].strip, NEW K \in SUBSET DOMAIN strip, NEW act,
         NEW kept, kept = Selected(strip, DOMAIN strip \ K),
         IF kept = <<>> THEN act = NoTab ELSE act \in Ids(kept),
         CloseTabs(p, K, act)
  PROVE  SInv' /\ Len(closed) <= Len(closed') /\ Closes
<1> PICK gone : gone = Ids(Selected(strip, K))
  OBVIOUS
<1> PICK recs : recs = Closing(p, K)
  OBVIOUS
<1>1. /\ PushClosed(recs)
      /\ Emit([panels EXCEPT ![p].strip = kept, ![p].active = act], order, active)
      /\ CancelAndFinish(gone) /\ dirty' = dirty \ gone
      /\ Write(CloseWrites(p, gone, RowOf(panels'[p])))
      /\ UNCHANGED <<timer, idVars>>
  BY DEF CloseTabs
<1>2. IsBox(panels, PanelId, Panel) /\ Once(panels)
  BY SessionTypes DEF SInv
<1>3. /\ Once([panels EXCEPT ![p].strip = kept, ![p].active = act])
      /\ \A v : v \in Copies([panels EXCEPT ![p].strip = kept, ![p].active = act]) <=>
                  v \in Copies(panels) /\ v.id \notin gone
      /\ gone = {panels[p].strip[k].id : k \in K}
  <2>1. PICK ps : ps = panels
    OBVIOUS
  <2>2. /\ IsBox(ps, PanelId, Panel) /\ Once(ps) /\ p \in DOMAIN ps
        /\ K \in SUBSET DOMAIN ps[p].strip
        /\ kept = Selected(ps[p].strip, DOMAIN ps[p].strip \ K)
        /\ gone = Ids(Selected(ps[p].strip, K))
        /\ IF kept = <<>> THEN act = NoTab ELSE act \in Ids(kept)
    BY <1>2, <2>1
  <2>3. /\ Once([ps EXCEPT ![p].strip = kept, ![p].active = act])
        /\ \A v : v \in Copies([ps EXCEPT ![p].strip = kept, ![p].active = act]) <=>
                    v \in Copies(ps) /\ v.id \notin gone
        /\ gone = {ps[p].strip[k].id : k \in K}
    BY <2>2, SelectedOnce, ZenonT(30)
  <2> QED
    BY <2>1, <2>3
<1>4. panels' = [panels EXCEPT ![p].strip = kept, ![p].active = act]
  BY <1>1, EmitPanels
<1>5. Once(panels') /\ \A v : v \in Copies(panels') <=> v \in Copies(panels) /\ v.id \notin gone
  BY <1>3, <1>4
<1>6. /\ recs \in Seq(Closed)
      /\ \A k \in DOMAIN recs : \E v \in Copies(panels) :
           v.id \in {strip[i].id : i \in K} /\ recs[k].tab = Settled(v)
      /\ \A j, k \in DOMAIN recs : recs[j].tab.id = recs[k].tab.id => j = k
  BY <1>2, ClosingRecords
<1>7. gone \subseteq TabId
  BY <1>3, PanelFacts
<1>8. TabsGone(gone, recs)
  <2>1. \A t \in gone : IsOpen(panels, t)
    BY <1>3 DEF IsOpen, Ids
  <2> QED
    BY <1>1, <1>3, <1>5, <1>6, <1>7, <2>1 DEF TabsGone, idVars
<1>9. Grows /\ Starts(DeleteTabs(gone))
  <2>1. PICK row : row = RowOf(panels'[p])
    OBVIOUS
  <2>2. Write(<<DeleteTabs(gone), LivePanel(p, row)>>)
    BY <1>1, <2>1 DEF CloseWrites
  <2>3. Head(<<DeleteTabs(gone), LivePanel(p, row)>>).kind \in PlainKinds
    BY DEF DeleteTabs, PlainKinds
  <2>4. Late(Tail(<<DeleteTabs(gone), LivePanel(p, row)>>))
    BY DEF Late, LivePanel
  <2>5. PICK steps : steps = <<DeleteTabs(gone), LivePanel(p, row)>>
    OBVIOUS
  <2>6. steps # <<>> /\ Head(steps) = DeleteTabs(gone)
    BY <2>5
  <2>7. /\ Write(steps) /\ Head(steps).kind \in PlainKinds
        /\ Late(Tail(steps))
    BY <2>2, <2>3, <2>4, <2>5
  <2> QED
    BY <2>6, <2>7, WriteGrows DEF Starts
<1> QED
  BY <1>1, <1>8, <1>9, TabsGoneSession DEF Closes

\* The ids of the tabs that are left.
LEMMA KeptIds ==
  ASSUME NEW strip \in Seq(Tab), NEW K, NEW t
  PROVE  t \in Ids(Selected(strip, DOMAIN strip \ K)) <=>
           \E i \in DOMAIN strip \ K : strip[i].id = t
<1>1. DOMAIN strip \ K \in SUBSET DOMAIN strip
  OBVIOUS
<1>2. ToSet(Selected(strip, DOMAIN strip \ K)) = {strip[i] : i \in DOMAIN strip \ K}
  BY <1>1, SelectedSet
<1> DEFINE kept == Selected(strip, DOMAIN strip \ K)
<1>3. t \in Ids(kept) <=> \E v \in ToSet(kept) : v.id = t
  BY IdsOfSet
<1> HIDE DEF kept
<1>4. t \in Ids(kept) <=> \E i \in DOMAIN strip \ K : strip[i].id = t
  BY <1>2, <1>3 DEF kept
<1> QED
  BY <1>4 DEF kept

\* The active tab when it is left, and another one that is left otherwise.
LEMMA KeptActiveShown ==
  ASSUME IInv, NEW p \in DOMAIN panels, NEW K,
         NEW other \in Ids(Selected(panels[p].strip, DOMAIN panels[p].strip \ K))
  PROVE  KeptActive(p, K, other) \in Ids(Selected(panels[p].strip, DOMAIN panels[p].strip \ K))
BY PanelFacts, KeptIds DEF KeptActive

\* One tab is closed; its panel shows a neighbour.
LEMMA RemoveTabSession ==
  ASSUME IInv, IInv', SInv, NEW t \in TabId, RemoveTab(t)
  PROVE  SInv' /\ Len(closed) <= Len(closed') /\ Closes
<1> PICK p : p = Owner(panels, order, t)
  OBVIOUS
<1> PICK strip : strip = panels[p].strip
  OBVIOUS
<1> PICK i : i = Position(strip, t)
  OBVIOUS
<1> PICK act : act = Neighbour(panels[p], i)
  OBVIOUS
<1> PICK kept : kept = Selected(strip, DOMAIN strip \ {i})
  OBVIOUS
<1>1. UserEvent /\ IsOpen(panels, t) /\ CloseTabs(p, {i}, act)
  BY DEF RemoveTab
<1>2. p \in DOMAIN panels /\ i \in 1..Len(strip)
  BY <1>1, OwnerProperties DEF IInv, MemoryOK
<1>3. strip \in Seq(Tab) /\ DOMAIN strip = 1..Len(strip) /\ OneEach(strip)
      /\ ShownIn(panels[p])
  BY <1>2, PanelFacts DEF SInv, Once
<1> DEFINE left == RemoveAt(strip, i)
           k    == IF i > Len(left) THEN Len(left) ELSE i
<1>4. ToSet(left) = ToSet(strip) \ {strip[i]}
  BY <1>2, <1>3, RemovedOneEach
<1>5. left \in Seq(Tab) /\ Len(left) \in Nat /\ DOMAIN left = 1..Len(left)
  BY <1>2, <1>3, RemoveAtType
<1>6. act = IF panels[p].active # strip[i].id THEN panels[p].active
            ELSE IF left = <<>> THEN NoTab ELSE left[k].id
  BY DEF Neighbour
<1> HIDE DEF left
<1>7. ToSet(kept) = ToSet(left)
  <2>1. {i} \in SUBSET DOMAIN strip /\ DOMAIN strip \ {i} \in SUBSET DOMAIN strip
    BY <1>2, <1>3
  <2>2. ToSet(kept) = {strip[j] : j \in DOMAIN strip \ {i}}
    BY <1>3, <2>1, SelectedSet
  <2>3. \A j \in DOMAIN strip : strip[j] = strip[i] => j = i
    BY <1>2, <1>3 DEF OneEach, IsInjective
  <2> QED
    <3>1. ToSet(strip) = {strip[j] : j \in DOMAIN strip}
      BY DEF ToSet
    <3> QED
      <4>1. i \in DOMAIN strip
        BY <1>2, <1>3
      <4>2. \A v : v \in ToSet(strip) /\ v # strip[i] <=>
              \E j \in DOMAIN strip : v = strip[j] /\ j # i
        BY <2>3, <3>1, <4>1
      <4> QED
        BY <1>4, <2>2, <4>2
<1>8. \A u : u \in Ids(kept) <=> u \in Ids(left)
  BY <1>7, IdsOfSet
<1>9. IF kept = <<>> THEN act = NoTab ELSE act \in Ids(kept)
  <2>1. kept = <<>> <=> left = <<>>
    <3>1. kept \in Seq(Tab)
      BY <1>3, SelectedProperties
    <3>2. \A s \in Seq(Tab) : s = <<>> <=> ToSet(s) = {}
      <4> TAKE s \in Seq(Tab)
      <4>1. s # <<>> => s[1] \in ToSet(s)
        BY EmptySeq DEF ToSet
      <4>2. ToSet(<<>>) = {}
        BY DEF ToSet
      <4> QED
        BY <4>1, <4>2
    <3> QED
      BY <1>5, <1>7, <3>1, <3>2
  <2>2. panels[p].active \in Ids(strip)
    BY <1>2, <1>3 DEF ShownIn
  <2>3. CASE panels[p].active # strip[i].id
    <3>1. PICK v \in ToSet(strip) : v.id = panels[p].active
      BY <2>2, IdsOfSet
    <3>2. v \in ToSet(left)
      BY <1>4, <2>3, <3>1
    <3>3. act \in Ids(kept)
      BY <1>6, <1>7, <2>3, <3>1, <3>2, IdsOfSet
    <3> QED
      BY <3>3, IdsNotEmpty
  <2>4. CASE panels[p].active = strip[i].id /\ left = <<>>
    BY <1>6, <2>1, <2>4
  <2>5. CASE panels[p].active = strip[i].id /\ left # <<>>
    <3>1. k \in DOMAIN left
      BY <1>2, <1>3, <1>5, <2>5, EmptySeq
    <3>2. act \in Ids(left)
      BY <1>6, <2>5, <3>1 DEF Ids
    <3> QED
      BY <1>8, <2>1, <2>5, <3>2
  <2> QED
    BY <2>3, <2>4, <2>5
<1>10. {i} \in SUBSET DOMAIN strip
  BY <1>2, <1>3
<1> QED
  BY <1>1, <1>2, <1>9, <1>10, CloseTabsSession

\* All tabs of a panel but one are closed.
LEMMA CloseOtherTabsSession ==
  ASSUME IInv, IInv', SInv, NEW t \in TabId, CloseOtherTabs(t)
  PROVE  SInv' /\ Len(closed) <= Len(closed') /\ Closes
<1> PICK p : p = ActivePanel
  OBVIOUS
<1> PICK strip : strip = panels[p].strip
  OBVIOUS
<1> PICK i : i = Position(strip, t)
  OBVIOUS
<1> PICK K : K = DOMAIN strip \ {i}
  OBVIOUS
<1> PICK kept : kept = Selected(strip, DOMAIN strip \ K)
  OBVIOUS
<1>1. UserEvent /\ order # <<>> /\ i # 0 /\ CloseTabs(p, K, t)
  BY DEF CloseOtherTabs
<1>2. p \in DOMAIN panels
  BY <1>1, OrderFacts
<1>3. strip \in Seq(Tab) /\ DOMAIN strip = 1..Len(strip)
  BY <1>2, PanelFacts
<1>4. i \in DOMAIN strip \ K /\ strip[i].id = t
  BY <1>1, <1>3, PositionProperties
<1>5. t \in Ids(kept)
  BY <1>3, <1>4, KeptIds
<1>6. IF kept = <<>> THEN t = NoTab ELSE t \in Ids(kept)
  BY <1>5, IdsNotEmpty
<1>7. K \in SUBSET DOMAIN strip
  OBVIOUS
<1> QED
  BY <1>1, <1>2, <1>6, <1>7, CloseTabsSession

\* Closing the tabs on one side of t leaves t.
LEMMA CloseSideSession ==
  ASSUME IInv, IInv', SInv, NEW t \in TabId,
         CloseTabsToTheRight(t) \/ CloseTabsToTheLeft(t)
  PROVE  SInv' /\ Len(closed) <= Len(closed') /\ Closes
<1> PICK p : p = ActivePanel
  OBVIOUS
<1> PICK strip : strip = panels[p].strip
  OBVIOUS
<1> PICK i : i = Position(strip, t)
  OBVIOUS
<1>1. PICK K \in {(i + 1)..Len(strip), 1..(i - 1)} :
        UserEvent /\ order # <<>> /\ i # 0 /\ CloseTabs(p, K, KeptActive(p, K, t))
  <2>1. CASE CloseTabsToTheRight(t)
    BY <2>1 DEF CloseTabsToTheRight
  <2>2. CASE CloseTabsToTheLeft(t)
    BY <2>2 DEF CloseTabsToTheLeft
  <2> QED
    BY <2>1, <2>2
<1> PICK kept : kept = Selected(strip, DOMAIN strip \ K)
  OBVIOUS
<1> PICK act : act = KeptActive(p, K, t)
  OBVIOUS
<1>2. p \in DOMAIN panels
  BY <1>1, OrderFacts
<1>3. strip \in Seq(Tab) /\ DOMAIN strip = 1..Len(strip) /\ Len(strip) \in Nat
  BY <1>2, PanelFacts
<1>4. i \in DOMAIN strip /\ strip[i].id = t
  BY <1>1, <1>3, PositionProperties
<1>5. i \notin K /\ K \in SUBSET DOMAIN strip
  BY <1>1, <1>3, <1>4
<1>6. t \in Ids(kept)
  BY <1>3, <1>4, <1>5, KeptIds
<1>7. act \in Ids(kept)
  BY <1>2, <1>6, KeptActiveShown
<1>8. IF kept = <<>> THEN act = NoTab ELSE act \in Ids(kept)
  BY <1>7, IdsNotEmpty
<1> QED
  BY <1>1, <1>2, <1>5, <1>8, CloseTabsSession

\* The tabs without unsaved changes are closed.
LEMMA CloseSavedTabsSession ==
  ASSUME IInv, IInv', SInv, NEW p, NEW saved, CloseSavedTabs(p, saved)
  PROVE  SInv' /\ Len(closed) <= Len(closed') /\ Closes
<1> PICK strip : strip = panels[p].strip
  OBVIOUS
<1> PICK K : K = {i \in DOMAIN strip : ~HasUnsavedChanges(strip[i], saved)}
  OBVIOUS
<1> PICK kept : kept = Selected(strip, DOMAIN strip \ K)
  OBVIOUS
<1> PICK act : act = IF kept = <<>> THEN NoTab ELSE KeptActive(p, K, Head(kept).id)
  OBVIOUS
<1>1. UserEvent /\ p \in DOMAIN panels /\ CloseTabs(p, K, act)
  BY DEF CloseSavedTabs
<1>2. strip \in Seq(Tab)
  BY <1>1, PanelFacts
<1>3. kept \in Seq(Tab)
  BY <1>2, SelectedProperties
<1>4. IF kept = <<>> THEN act = NoTab ELSE act \in Ids(kept)
  <2>1. CASE kept # <<>>
    <3>1. 1 \in DOMAIN kept /\ Head(kept) = kept[1]
      BY <1>3, <2>1, EmptySeq
    <3>2. Head(kept).id \in Ids(kept)
      BY <3>1 DEF Ids
    <3> QED
      BY <1>1, <2>1, <3>2, KeptActiveShown
  <2> QED
    BY <2>1
<1> QED
  BY <1>1, <1>4, CloseTabsSession

\* A panel is closed with its tabs.
LEMMA RemovePanelSession ==
  ASSUME IInv, IInv', SInv, NEW p, RemovePanel(p)
  PROVE  SInv' /\ Len(closed) <= Len(closed') /\ Closes
<1> PICK strip : strip = panels[p].strip
  OBVIOUS
<1> PICK gone : gone = Ids(strip)
  OBVIOUS
<1> PICK recs : recs = Closing(p, DOMAIN strip)
  OBVIOUS
<1>1. /\ UserEvent /\ p \in DOMAIN panels /\ PushClosed(recs)
      /\ panels' = Delete(panels, {p})
      /\ CancelAndFinish(gone) /\ dirty' = dirty \ gone
      /\ Write(<<DeleteTabs(gone), DeletePanel(p), Meta>>)
      /\ UNCHANGED <<timer, idVars>>
  BY EmitPanels DEF RemovePanel, Removable
<1>2. Once(panels)
  BY DEF SInv
<1>3. /\ Once(Delete(panels, {p}))
      /\ \A v : v \in Copies(Delete(panels, {p})) <=>
                  v \in Copies(panels) /\ v \notin ToSet(panels[p].strip)
  <2>1. \A ps : Once(ps) /\ p \in DOMAIN ps =>
          /\ Once(Delete(ps, {p}))
          /\ \A v : v \in Copies(Delete(ps, {p})) <=>
                      v \in Copies(ps) /\ v \notin ToSet(ps[p].strip)
    BY PanelDropOnce
  <2> QED
    BY <1>1, <1>2, <2>1
<1>4. \A v \in Copies(panels) : v \in ToSet(strip) <=> v.id \in gone
  BY <1>1, <1>2, IdsOfSet, CopyPlace, CopyUnique
<1>5. /\ recs \in Seq(Closed)
      /\ \A k \in DOMAIN recs : \E v \in Copies(panels) :
           v.id \in {strip[i].id : i \in DOMAIN strip} /\ recs[k].tab = Settled(v)
      /\ \A j, k \in DOMAIN recs : recs[j].tab.id = recs[k].tab.id => j = k
  BY <1>1, <1>2, ClosingRecords
<1>6. gone \subseteq TabId /\ gone = {strip[i].id : i \in DOMAIN strip}
  BY <1>1, PanelFacts DEF Ids
<1>7. TabsGone(gone, recs)
  <2>1. \A t \in gone : IsOpen(panels, t)
    BY <1>1 DEF IsOpen
  <2> QED
    BY <1>1, <1>3, <1>4, <1>5, <1>6, <2>1 DEF TabsGone, idVars
<1>8. Grows /\ Starts(DeleteTabs(gone))
  <2>1. Head(<<DeleteTabs(gone), DeletePanel(p), Meta>>).kind \in PlainKinds
    BY DEF DeleteTabs, PlainKinds
  <2>2. Late(Tail(<<DeleteTabs(gone), DeletePanel(p), Meta>>))
    BY DEF Late, DeletePanel, Meta
  <2>3. PICK steps : steps = <<DeleteTabs(gone), DeletePanel(p), Meta>>
    OBVIOUS
  <2>4. steps # <<>> /\ Head(steps) = DeleteTabs(gone)
    BY <2>3
  <2>5. /\ Write(steps) /\ Head(steps).kind \in PlainKinds
        /\ Late(Tail(steps))
    BY <1>1, <2>1, <2>2, <2>3
  <2> QED
    BY <1>1, <2>4, <2>5, WriteGrows DEF Starts
<1> QED
  BY <1>1, <1>7, <1>8, TabsGoneSession DEF Closes

-----------------------------------------------------------------------------
(* New versions of a tab: edits, sends and answers.                        *)

\* An open tab, as a handler finds it.
LEMMA LiveCopy ==
  ASSUME IInv, SInv, NEW t, IsOpen(panels, t)
  PROVE  /\ Live(t) \in Copies(panels) /\ Live(t) \in Tab /\ Live(t).id = t
         /\ t \in TabId /\ Sounds(Live(t))
<1>1. Sound(panels, order, nextPanel) /\ Once(panels)
  BY DEF IInv, MemoryOK, SInv
<1>2. Live(t) \in Copies(panels) /\ Live(t).id = t
  BY <1>1, FoundCopy DEF Live
<1>3. Live(t) \in Tab /\ t \in TabId
  BY <1>2, SessionTypes, CopyType
<1> QED
  BY <1>2, <1>3 DEF SInv, OpenTabsOK

\* A tab is replaced by a version that is sound, and the sends of the others
\* are kept.
LEMMA EditedOK ==
  ASSUME IInv, IInv', SInv, NEW tab \in Tab, IsOpen(panels, tab.id),
         panels' = Replaced(panels, tab), Sounds(tab)', closed' = closed,
         \A t \in TabId : t # tab.id => SameSend(t),
         nextTab' = nextTab, nextSend <= nextSend'
  PROVE  Once(panels') /\ MemoryStep
<1>1. IsBox(panels, PanelId, Panel) /\ Once(panels) /\ nextTab \in Nat /\ closed \in Seq(Closed)
  BY SessionTypes DEF SInv
<1>2. /\ Once(Replaced(panels, tab))
      /\ \A v : v \in Copies(Replaced(panels, tab)) <=>
                  v = tab \/ (v \in Copies(panels) /\ v.id # tab.id)
  <2>1. PICK ps : ps = panels
    OBVIOUS
  <2>2. /\ Once(Replaced(ps, tab))
        /\ \A v : v \in Copies(Replaced(ps, tab)) <=>
                    v = tab \/ (v \in Copies(ps) /\ v.id # tab.id)
    BY <1>1, <2>1, ReplacedOnce
  <2> QED
    BY <2>1, <2>2
<1>3. \A v \in Copies(panels) : v.id \in TabId /\ IsOpen(panels, v.id)
  BY <1>1, CopyType, OpenCopy
<1>4. \A v \in Copies(panels') : IsOpen(panels, v.id)
  BY <1>2, <1>3
<1>5. \A i \in DOMAIN closed', v \in Copies(panels') : closed'[i].tab.id # v.id
  BY <1>4 DEF SInv, ClosedTabsOK
<1>6. \A v \in Copies(panels') : Sounds(v)' \/ (v \in Copies(panels) /\ SameSend(v.id))
  BY <1>2, <1>3
<1>7. \A t \in TabId : handle[t] = NoSend => handle'[t] = NoSend \/ IsOpen(panels, t)
  BY DEF SameSend
<1>8. Len(closed') <= Len(closed)
  BY <1>1
<1> QED
  BY <1>1, <1>2, <1>4, <1>5, <1>6, <1>7, <1>8 DEF MemoryStep

\* A handler that sends no command.
LEMMA IdleGrows ==
  ASSUME IInv, phase # "off", UNCHANGED <<disk, phase, queue>>
  PROVE  Grows
<1>1. queue' = queue \o <<>>
  BY DEF IInv
<1>2. Quiet(<<>>)
  BY DEF Quiet
<1> QED
  BY <1>1, <1>2 DEF Grows

\* The request or the response on display of a tab is another one.
LEMMA EditSession ==
  ASSUME IInv, IInv', SInv, UserEvent, NEW t, IsOpen(panels, t), NEW tab \in Tab,
         tab.id = t, tab.history = Live(t).history, tab.sending = Live(t).sending,
         Edit(tab), UNCHANGED sends
  PROVE  SInv' /\ closed' = closed
<1>1. /\ panels' = Replaced(panels, tab)
      /\ UNCHANGED <<queue, closed, nextTab, nextSend, handle, cancelled, running>>
  BY EmitPanels DEF Edit, idVars, sends
<1>2. nextTab <= nextTab' /\ nextSend <= nextSend'
  BY <1>1, SessionTypes
<1>3. RunsOK' /\ \A u \in TabId : SameSend(u)
  BY <1>1, <1>2, SendsKept
<1>4. Sounds(tab)'
  <2>1. Good(tab) /\ (tab.sending <=> Waiting(tab.id)) /\ tab.id \in TabId
    BY LiveCopy DEF Sounds, Good
  <2>2. handle'[tab.id] = handle[tab.id]
    BY <1>1
  <2>3. Good(tab)'
    BY <1>2, <2>1, <2>2, GoodKept
  <2> QED
    BY <1>3, <2>1, <2>3 DEF Sounds, SameSend
<1>5. Once(panels') /\ MemoryStep
  BY <1>1, <1>2, <1>3, <1>4, EditedOK
<1>6. Grows
  BY <1>1, UserEventRuns, IdleGrows
<1> QED
  BY <1>1, <1>3, <1>5, <1>6, SessionStep

\* The events that edit a tab.
LEMMA EditEventSession ==
  ASSUME IInv, IInv', SInv, NEW t \in TabId,
         \/ \E node \in Nodes \cup {NoNode}, c \in Configs : UpdateTab(t, node, c)
         \/ \E c \in Configs : RevertTab(t, c)
         \/ \E s \in SendId : ViewResponseHistoryEntry(t, s)
  PROVE  SInv' /\ closed' = closed
<1>1. UserEvent /\ IsOpen(panels, t) /\ UNCHANGED sends
  BY DEF UpdateTab, RevertTab, ViewResponseHistoryEntry
<1>2. PICK v : v = Live(t)
  OBVIOUS
<1>3. v \in Tab /\ v.id = t
  BY <1>1, <1>2, LiveCopy
<1>4. PICK tab : /\ tab \in Tab /\ tab.id = t /\ tab.history = v.history
                 /\ tab.sending = v.sending /\ Edit(tab)
  <2>1. ASSUME NEW node \in Nodes \cup {NoNode}, NEW c \in Configs, UpdateTab(t, node, c)
        PROVE  \E tab \in Tab : /\ tab.id = t /\ tab.history = v.history
                                /\ tab.sending = v.sending /\ Edit(tab)
    <3>1. PICK tab : tab = [v EXCEPT !.node = node, !.config = c]
      OBVIOUS
    <3>2. tab \in Tab /\ tab.id = t /\ tab.history = v.history /\ tab.sending = v.sending
      BY <1>3, <3>1 DEF Tab
    <3>3. Edit(tab)
      BY <1>2, <2>1, <3>1 DEF UpdateTab
    <3> QED
      BY <3>2, <3>3
  <2>2. ASSUME NEW c \in Configs, RevertTab(t, c)
        PROVE  \E tab \in Tab : /\ tab.id = t /\ tab.history = v.history
                                /\ tab.sending = v.sending /\ Edit(tab)
    <3>1. PICK tab : tab = [v EXCEPT !.config = c]
      OBVIOUS
    <3>2. tab \in Tab /\ tab.id = t /\ tab.history = v.history /\ tab.sending = v.sending
      BY <1>3, <3>1 DEF Tab
    <3>3. Edit(tab)
      BY <1>2, <2>2, <3>1 DEF RevertTab
    <3> QED
      BY <3>2, <3>3
  <2>3. ASSUME NEW s \in SendId, ViewResponseHistoryEntry(t, s)
        PROVE  \E tab \in Tab : /\ tab.id = t /\ tab.history = v.history
                                /\ tab.sending = v.sending /\ Edit(tab)
    <3>1. PICK tab : tab = [v EXCEPT !.response = s]
      OBVIOUS
    <3>2. tab \in Tab /\ tab.id = t /\ tab.history = v.history /\ tab.sending = v.sending
      BY <1>3, <3>1 DEF Tab
    <3>3. Edit(tab)
      BY <1>2, <2>3, <3>1 DEF ViewResponseHistoryEntry
    <3> QED
      BY <3>2, <3>3
  <2> QED
    BY <2>1, <2>2, <2>3
<1>5. tab.history = Live(t).history /\ tab.sending = Live(t).sending
  BY <1>2, <1>4
<1> QED
  BY <1>1, <1>4, <1>5, EditSession

\* Two tabs are not owned by the same send.
LEMMA SendsApart ==
  ASSUME SInv, NEW t \in TabId, NEW run \in running, handle[t] # NoSend,
         handle[t] = run.send
  PROVE  t = run.tab
<1> DEFINE r == [send |-> handle[t], tab |-> t]
<1>1. r \in running /\ r.send = run.send /\ r.tab = t
  BY DEF SInv, RunsOK
<1> HIDE DEF r
<1> QED
  BY <1>1 DEF SInv, RunsOK

\* A send is started for a tab that waits for none.
LEMMA SendRequestSession ==
  ASSUME IInv, IInv', SInv, NEW t \in TabId, SendRequest(t)
  PROVE  SInv' /\ closed' = closed
<1>1. PICK v : v = Live(t)
  OBVIOUS
<1>2. PICK tab : tab = [v EXCEPT !.sending = TRUE]
  OBVIOUS
<1>3. PICK s : s = nextSend + 1
  OBVIOUS
<1>4. /\ UserEvent /\ IsOpen(panels, t) /\ nextSend' = s
      /\ cancelled' = cancelled \cup ({handle[t]} \ {NoSend})
      /\ handle' = [handle EXCEPT ![t] = s]
      /\ running' = running \cup {[send |-> s, tab |-> t]}
      /\ panels' = Replaced(panels, tab)
      /\ UNCHANGED <<queue, closed, nextTab>>
  BY <1>1, <1>2, <1>3, EmitPanels DEF SendRequest
<1>5. v \in Tab /\ v.id = t /\ Sounds(v)
  BY <1>1, <1>4, LiveCopy
<1>6. tab \in Tab /\ tab.id = t /\ tab.history = v.history /\ tab.sending
  BY <1>2, <1>5 DEF Tab
<1>7. /\ handle \in [TabId -> SendId \cup {NoSend}]
      /\ nextTab \in Nat /\ nextSend \in Nat /\ SendId \subseteq Nat
      /\ running \subseteq [send : SendId, tab : TabId] /\ cancelled \subseteq SendId
  BY SessionTypes DEF SendId
<1>8. handle'[t] = s /\ \A u \in TabId : u # t => handle'[u] = handle[u]
  BY <1>4, <1>7
<1>9. handle[t] # NoSend => handle[t] <= nextSend
  <2>1. [send |-> handle[t], tab |-> t] \in running => handle[t] <= nextSend
    BY DEF SInv, RunsOK
  <2> QED
    BY <2>1 DEF SInv, RunsOK
<1>10. s \notin cancelled' /\ s # NoSend
  <2>1. \A c \in cancelled : c <= nextSend
    BY DEF SInv, RunsOK
  <2>2. \A c \in cancelled' : c \in Nat /\ c <= nextSend
    BY <1>4, <1>7, <1>9, <2>1
  <2> QED
    BY <1>3, <1>7, <2>2 DEF NoSend
<1>11. \A u \in TabId : u # t => SameSend(u)
  <2> SUFFICES ASSUME NEW u \in TabId, u # t PROVE SameSend(u)
    OBVIOUS
  <2>1. ASSUME handle[u] # NoSend, handle[u] = handle[t] PROVE FALSE
    <3>1. [send |-> handle[t], tab |-> t] \in running
      BY <2>1 DEF SInv, RunsOK
    <3>2. PICK r \in running : r.send = handle[t] /\ r.tab = t
      BY <3>1
    <3> QED
      BY <2>1, <3>2, SendsApart
  <2>2. Waiting(u)' <=> Waiting(u)
    BY <1>4, <1>8, <2>1 DEF Waiting
  <2> QED
    BY <1>8, <2>2 DEF SameSend
<1>12. nextTab' = nextTab /\ nextSend <= nextSend'
  BY <1>3, <1>4, <1>7
<1>13. Sounds(tab)'
  <2>1. Waiting(tab.id)'
    BY <1>6, <1>8, <1>10 DEF Waiting
  <2>2. Newest(tab.history, nextSend) /\ tab.id \in 1..nextTab
    BY <1>5, <1>6 DEF Sounds, Good
  <2>3. \A i \in DOMAIN tab.history : tab.history[i] \in Nat
    <3>1. tab.history \in Seq(SendId)
      BY <1>6, TabParts
    <3>2. \A i \in DOMAIN tab.history : tab.history[i] \in SendId
      BY <3>1
    <3> QED
      BY <1>7, <3>2
  <2>4. \A i \in DOMAIN tab.history : tab.history[i] < s /\ tab.history[i] <= s
    BY <1>3, <1>7, <2>2, <2>3 DEF Newest
  <2>5. Good(tab)'
    BY <1>4, <1>6, <1>8, <2>2, <2>4 DEF Good, Newest
  <2> QED
    BY <1>6, <2>1, <2>5 DEF Sounds
<1>14. RunsOK'
  <2>1. ASSUME NEW u \in TabId, handle'[u] # NoSend
        PROVE  [send |-> handle'[u], tab |-> u] \in running' /\ u \in 1..nextTab'
    <3>1. CASE u = t
      BY <1>4, <1>5, <1>8, <3>1 DEF Sounds, Good
    <3>2. CASE u # t
      BY <1>4, <1>8, <2>1, <3>2 DEF SInv, RunsOK
    <3> QED
      BY <3>1, <3>2
  <2>2. \A r \in running : r.send \in Nat /\ r.send <= nextSend
    BY <1>7 DEF SInv, RunsOK
  <2>3. \A r \in running : r.send # s /\ r.send <= s
    BY <1>3, <1>7, <2>2
  <2>4. \A r, q \in running' : r.send = q.send => r = q
    BY <1>4, <2>3 DEF SInv, RunsOK
  <2>5. \A r \in running' : r.send <= nextSend'
    BY <1>3, <1>4, <1>7, <2>3
  <2>6. \A c \in cancelled' : c <= nextSend'
    <3>1. \A c \in cancelled : c \in Nat /\ c <= nextSend
      BY <1>7 DEF SInv, RunsOK
    <3> QED
      BY <1>3, <1>4, <1>7, <1>9, <3>1
  <2> QED
    BY <2>1, <2>4, <2>5, <2>6 DEF RunsOK
<1>15. Once(panels') /\ MemoryStep
  BY <1>4, <1>6, <1>11, <1>12, <1>13, EditedOK
<1>16. Grows
  BY <1>4, UserEventRuns, IdleGrows
<1> QED
  BY <1>4, <1>14, <1>15, <1>16, SessionStep

\* A send is cancelled.
LEMMA CancelRequestSession ==
  ASSUME IInv, IInv', SInv, NEW t \in TabId, CancelRequest(t)
  PROVE  SInv' /\ closed' = closed
<1>1. PICK v : v = Live(t)
  OBVIOUS
<1>2. PICK tab : tab = [v EXCEPT !.sending = FALSE]
  OBVIOUS
<1>3. /\ UserEvent /\ IsOpen(panels, t)
      /\ cancelled' = cancelled \cup ({handle[t]} \ {NoSend})
      /\ panels' = Replaced(panels, tab)
      /\ UNCHANGED <<queue, closed, handle, running, nextTab, nextSend>>
  BY <1>1, <1>2, EmitPanels DEF CancelRequest, idVars
<1>4. v \in Tab /\ v.id = t /\ Sounds(v)
  BY <1>1, <1>3, LiveCopy
<1>5. tab \in Tab /\ tab.id = t /\ tab.history = v.history /\ ~tab.sending
  BY <1>2, <1>4 DEF Tab
<1>6. nextTab' = nextTab /\ nextTab <= nextTab' /\ nextSend <= nextSend'
  BY <1>3, SessionTypes
<1>7. \A u \in TabId : u # t => SameSend(u)
  <2> SUFFICES ASSUME NEW u \in TabId, u # t PROVE SameSend(u)
    OBVIOUS
  <2>1. ASSUME handle[u] # NoSend, handle[u] = handle[t] PROVE FALSE
    <3>1. [send |-> handle[t], tab |-> t] \in running
      BY <2>1 DEF SInv, RunsOK
    <3>2. PICK r \in running : r.send = handle[t] /\ r.tab = t
      BY <3>1
    <3> QED
      BY <2>1, <3>2, SendsApart
  <2>2. Waiting(u)' <=> Waiting(u)
    BY <1>3, <2>1 DEF Waiting
  <2> QED
    BY <1>3, <2>2 DEF SameSend
<1>8. Sounds(tab)'
  <2>1. ~Waiting(tab.id)'
    BY <1>3, <1>5 DEF Waiting
  <2>2. Good(tab)
    BY <1>4, <1>5 DEF Sounds, Good
  <2>3. Good(tab)'
    <3>1. handle'[tab.id] = handle[tab.id]
      BY <1>3
    <3> QED
      BY <1>5, <1>6, <2>2, <3>1, GoodKept
  <2> QED
    BY <1>5, <2>1, <2>3 DEF Sounds
<1>9. RunsOK'
  <2>1. ASSUME handle[t] # NoSend PROVE handle[t] <= nextSend
    <3>1. [send |-> handle[t], tab |-> t] \in running
      BY <2>1 DEF SInv, RunsOK
    <3> QED
      BY <3>1 DEF SInv, RunsOK
  <2> QED
    BY <1>3, <2>1 DEF SInv, RunsOK
<1>10. Once(panels') /\ MemoryStep
  BY <1>3, <1>5, <1>6, <1>7, <1>8, EditedOK
<1>11. Grows
  BY <1>3, UserEventRuns, IdleGrows
<1> QED
  BY <1>3, <1>9, <1>10, <1>11, SessionStep

-----------------------------------------------------------------------------
(* Answers.                                                                *)

\* A send that returns: the tab it owns is released, the other tabs and their
\* sends are left alone, and so is a tab that does not wait for it.
LEMMA FinishedRun ==
  ASSUME IInv, SInv, NEW run \in running, Finished(run),
         UNCHANGED <<nextTab, nextSend>>
  PROVE  /\ RunsOK' /\ run.tab \in TabId /\ run.send \in SendId /\ run.send # NoSend
         /\ Owns(run) => handle'[run.tab] = NoSend /\ handle[run.tab] # NoSend
         /\ \A t \in TabId : handle'[t] \in {handle[t], NoSend}
         /\ \A t \in TabId : t # run.tab \/ ~Relevant(run) => SameSend(t)
<1>1. /\ handle \in [TabId -> SendId \cup {NoSend}] /\ nextSend \in Nat
      /\ running \subseteq [send : SendId, tab : TabId] /\ cancelled \subseteq SendId
  BY SessionTypes
<1>2. run.tab \in TabId /\ run.send \in SendId /\ run.send # NoSend
  BY <1>1 DEF SendId, NoSend
<1>3. /\ running' = running \ {run}
      /\ handle' = IF Owns(run) THEN [handle EXCEPT ![run.tab] = NoSend] ELSE handle
      /\ cancelled' = cancelled \ {run.send}
  BY DEF Finished
<1>4. /\ Owns(run) => handle'[run.tab] = NoSend
      /\ \A t \in TabId : t # run.tab \/ ~Owns(run) => handle'[t] = handle[t]
  BY <1>1, <1>2, <1>3
<1>5. \A t \in TabId : handle'[t] \in {handle[t], NoSend}
  BY <1>4
<1>6. ASSUME NEW t \in TabId, t # run.tab \/ ~Relevant(run)
      PROVE  SameSend(t)
  <2>1. CASE handle[t] # NoSend /\ handle[t] = run.send
    <3>1. t = run.tab /\ Owns(run)
      BY <2>1, SendsApart DEF Owns
    <3>2. handle'[t] = NoSend /\ handle[t] \in cancelled
      BY <1>4, <1>6, <3>1 DEF Relevant, Owns
    <3> QED
      BY <3>2 DEF SameSend, Waiting
  <2>2. CASE handle[t] = NoSend \/ handle[t] # run.send
    <3>1. t # run.tab \/ ~Owns(run)
      BY <1>2, <2>2 DEF Owns
    <3>2. handle'[t] = handle[t]
      BY <1>4, <3>1
    <3> QED
      BY <1>3, <2>2, <3>2 DEF SameSend, Waiting
  <2> QED
    BY <2>1, <2>2
<1>7. RunsOK'
  <2>1. ASSUME NEW t \in TabId, handle'[t] # NoSend
        PROVE  [send |-> handle'[t], tab |-> t] \in running' /\ t \in 1..nextTab'
    <3>1. handle'[t] = handle[t] /\ ~(t = run.tab /\ Owns(run))
      BY <1>4, <1>5, <2>1
    <3>2. PICK r \in running : r = [send |-> handle[t], tab |-> t]
      BY <2>1, <3>1 DEF SInv, RunsOK
    <3>3. r.send = handle[t] /\ r.tab = t
      BY <3>2
    <3>4. r # run
      BY <3>1, <3>3 DEF Owns
    <3> QED
      BY <1>3, <2>1, <3>1, <3>2, <3>4 DEF SInv, RunsOK
  <2> QED
    BY <1>3, <2>1 DEF SInv, RunsOK
<1> QED
  BY <1>2, <1>4, <1>5, <1>6, <1>7 DEF Owns

\* An answer that is relevant is waited for.
LEMMA RelevantWaits ==
  ASSUME IInv, SInv, NEW run \in running, Relevant(run)
  PROVE  Waiting(run.tab) /\ (IsOpen(panels, run.tab) => Live(run.tab).sending)
<1>1. run.send \in SendId
  BY DEF IInv, SendsOK
<1>2. Waiting(run.tab)
  BY <1>1 DEF Relevant, Owns, Waiting, SendId, NoSend
<1> QED
  BY <1>2, LiveCopy DEF Sounds

\* The timeline with its newest response is newest first, and within the limit.
LEMMA RecordedNewest ==
  ASSUME NEW tab \in Tab, NEW s \in SendId, NEW n \in Nat, s <= n,
         Newest(tab.history, n), \A i \in DOMAIN tab.history : tab.history[i] < s
  PROVE  Newest(Recorded(tab, s).history, n) /\ ~Recorded(tab, s).sending
<1> DEFINE all == <<s>> \o tab.history
           m   == IF Len(all) < HistoryLimit THEN Len(all) ELSE HistoryLimit
           new == SubSeq(all, 1, m)
<1>1. /\ tab.history \in Seq(SendId) /\ SendId \subseteq Nat /\ HistoryLimit \in Nat
      /\ Len(tab.history) \in Nat /\ DOMAIN tab.history = 1..Len(tab.history)
  BY TabParts, TabsAssumption DEF SendId
<1>2. /\ all \in Seq(SendId) /\ Len(all) = Len(tab.history) + 1
      /\ all[1] = s /\ \A i \in 2..Len(all) : all[i] = tab.history[i - 1]
  BY <1>1
<1>3. Recorded(tab, s).history = new /\ ~Recorded(tab, s).sending
  <2> HIDE DEF new
  <2>1. Recorded(tab, s) = [tab EXCEPT !.sending = FALSE, !.response = s, !.history = new]
    BY DEF Recorded, new
  <2> QED
    BY <2>1 DEF Tab
<1> HIDE DEF all
<1>4. m \in Nat /\ m <= Len(all) /\ m <= HistoryLimit
  BY <1>1, <1>2
<1> HIDE DEF m
<1>5. Len(new) = m /\ DOMAIN new = 1..m /\ \A i \in 1..m : new[i] = all[i]
  BY <1>2, <1>4
<1> HIDE DEF new
<1>6. ASSUME NEW i \in 1..Len(all) PROVE all[i] \in Nat /\ all[i] <= s
  <2>1. CASE i = 1
    BY <1>1, <1>2, <2>1
  <2>2. CASE i # 1
    <3>1. i - 1 \in DOMAIN tab.history /\ all[i] = tab.history[i - 1]
      BY <1>1, <1>2, <2>2
    <3>2. \A k \in DOMAIN tab.history : tab.history[k] \in SendId
      <4>1. tab.history \in Seq(SendId)
        BY <1>1
      <4> QED
        BY <4>1
    <3>3. tab.history[i - 1] \in Nat
      BY <3>1, <3>2 DEF SendId
    <3> QED
      BY <1>1, <3>1, <3>3
  <2> QED
    BY <2>1, <2>2
<1>7. ASSUME NEW i \in 1..Len(all), NEW j \in 1..Len(all), i < j PROVE all[i] > all[j]
  <2>1. j - 1 \in DOMAIN tab.history /\ all[j] = tab.history[j - 1]
    BY <1>1, <1>2, <1>7
  <2>2. CASE i = 1
    <3>1. tab.history[j - 1] < s /\ all[i] = s
      BY <1>2, <2>1, <2>2
    <3> QED
      BY <2>1, <3>1
  <2>3. CASE i # 1
    <3>1. i - 1 \in DOMAIN tab.history /\ all[i] = tab.history[i - 1] /\ i - 1 < j - 1
      BY <1>1, <1>2, <1>7, <2>3
    <3> QED
      BY <2>1, <3>1 DEF Newest
  <2> QED
    BY <2>2, <2>3
<1>8. \A i \in 1..m : i \in 1..Len(all)
  BY <1>2, <1>1, <1>4
<1>9. \A i \in 1..m : all[i] <= n
  BY <1>1, <1>6, <1>8
<1>10. Newest(new, n)
  BY <1>4, <1>5, <1>7, <1>8, <1>9 DEF Newest
<1> QED
  BY <1>3, <1>10

\* The answer of a run changes its tab only if it is waited for.
AnswerDue ==
  \A run \in running \ running' :
    IsOpen(panels, run.tab) /\ IsOpen(panels', run.tab) =>
      Live(run.tab).sending \/ Live(run.tab)' = Live(run.tab)

\* The tab whose send has returned, in the version the answer left.
LEMMA AnsweredSession ==
  ASSUME IInv, IInv', SInv, NEW run \in running, Returns(run), Relevant(run),
         IsOpen(panels, run.tab), NEW tab \in Tab, tab.id = run.tab, ~tab.sending,
         Newest(tab.history, nextSend), panels' = Replaced(panels, tab)
  PROVE  SInv' /\ closed' = closed
<1>1. /\ Finished(run) /\ phase # "off" /\ closed' = closed
      /\ UNCHANGED <<disk, phase, queue, nextTab, nextSend>>
  BY DEF Returns, process, idVars
<1>2. /\ RunsOK' /\ handle'[run.tab] = NoSend
      /\ \A t \in TabId : t # run.tab => SameSend(t)
  BY <1>1, FinishedRun DEF Relevant
<1>3. nextTab <= nextTab' /\ nextSend <= nextSend'
  BY <1>1, SessionTypes
<1>4. Sounds(tab)'
  <2>1. tab.id \in 1..nextTab
    BY LiveCopy DEF Sounds, Good
  <2> QED
    BY <1>1, <1>2, <2>1 DEF Sounds, Good, Waiting, Newest
<1>5. Once(panels') /\ MemoryStep
  BY <1>1, <1>2, <1>3, <1>4, EditedOK
<1>6. Grows
  BY <1>1, IdleGrows
<1> QED
  BY <1>1, <1>2, <1>5, <1>6, SessionStep

\* The tabs are left alone: the tab is closed, or the answer is not relevant.
LEMMA ReturnedSession ==
  ASSUME IInv, IInv', SInv, NEW run \in running, Returns(run), panels' = panels,
         IsOpen(panels, run.tab) => ~Relevant(run)
  PROVE  SInv' /\ closed' = closed
<1>1. /\ Finished(run) /\ phase # "off" /\ closed' = closed
      /\ UNCHANGED <<disk, phase, queue, nextTab, nextSend>>
  BY DEF Returns, process, idVars
<1>2. /\ RunsOK' /\ \A t \in TabId : handle'[t] \in {handle[t], NoSend}
      /\ \A t \in TabId : t # run.tab \/ ~Relevant(run) => SameSend(t)
  BY <1>1, FinishedRun
<1>3. nextTab <= nextTab' /\ nextSend <= nextSend'
  BY <1>1, SessionTypes
<1>4. \A v \in Copies(panels) : v.id \in TabId /\ IsOpen(panels, v.id)
  BY SessionTypes, CopyType, OpenCopy
<1>5. \A v \in Copies(panels) : SameSend(v.id)
  BY <1>2, <1>4
<1>6. \A i \in DOMAIN closed, v \in Copies(panels) : closed[i].tab.id # v.id
  BY <1>4 DEF SInv, ClosedTabsOK
<1>7. Len(closed) <= Len(closed)
  BY SessionTypes
<1>8. MemoryStep
  BY <1>1, <1>2, <1>3, <1>4, <1>5, <1>6, <1>7 DEF MemoryStep
<1>9. Grows
  BY <1>1, IdleGrows
<1> QED
  BY <1>1, <1>2, <1>8, <1>9, SessionStep DEF SInv

\* A run ends, and changes its tab only if the tab waits for it.
LEMMA AnswerSession ==
  ASSUME IInv, IInv', SInv, Answer
  PROVE  SInv' /\ closed' = closed /\ AnswerDue
<1>1. PICK run \in running : ReceiveResponse(run) \/ StopSend(run) \/ DropSend(run)
  BY DEF Answer
<1>2. Returns(run) /\ running' = running \ {run} /\ UNCHANGED order
  BY <1>1 DEF ReceiveResponse, StopSend, DropSend, Returns, Finished
<1>3. /\ run.tab \in TabId /\ run.send \in SendId /\ run.send # NoSend
      /\ nextSend \in Nat /\ run.send <= nextSend
  BY SessionTypes DEF IInv, SendsOK, SendId, NoSend, SInv, RunsOK
<1>4. SInv' /\ closed' = closed
  <2>1. CASE IsOpen(panels, run.tab) /\ (ReceiveResponse(run) \/ StopSend(run))
    <3>1. PICK v : v = Live(run.tab)
      OBVIOUS
    <3>2. v \in Tab /\ v.id = run.tab /\ Sounds(v)
      BY <2>1, <3>1, LiveCopy
    <3>3. Relevant(run) /\ handle[v.id] = run.send
      BY <2>1, <3>2 DEF ReceiveResponse, StopSend, Relevant, Owns
    <3>4. CASE ReceiveResponse(run)
      <4>1. PICK tab : tab = Recorded(v, run.send)
        OBVIOUS
      <4>2. tab \in Tab /\ tab.id = run.tab
        BY <1>3, <3>2, <4>1, RecordedType
      <4>3. Newest(tab.history, nextSend) /\ ~tab.sending
        <5>1. /\ Newest(v.history, nextSend)
              /\ \A i \in DOMAIN v.history : v.history[i] < run.send
          BY <1>3, <3>2, <3>3 DEF Sounds, Good
        <5> QED
          BY <1>3, <3>2, <4>1, <5>1, RecordedNewest
      <4>4. panels' = Replaced(panels, tab)
        BY <2>1, <3>1, <3>4, <4>1 DEF ReceiveResponse
      <4> QED
        BY <1>2, <2>1, <3>3, <4>2, <4>3, <4>4, AnsweredSession
    <3>5. CASE StopSend(run)
      <4>1. PICK tab : tab = [v EXCEPT !.sending = FALSE]
        OBVIOUS
      <4>2. tab \in Tab /\ tab.id = run.tab /\ tab.history = v.history /\ ~tab.sending
        BY <3>2, <4>1 DEF Tab
      <4>3. Newest(tab.history, nextSend)
        BY <3>2, <4>2 DEF Sounds, Good
      <4>4. panels' = Replaced(panels, tab)
        BY <2>1, <3>1, <3>5, <4>1 DEF StopSend
      <4> QED
        BY <1>2, <2>1, <3>3, <4>2, <4>3, <4>4, AnsweredSession
    <3> QED
      BY <2>1, <3>4, <3>5
  <2>2. CASE ~IsOpen(panels, run.tab) \/ DropSend(run)
    <3>1. panels' = panels /\ (IsOpen(panels, run.tab) => ~Relevant(run))
      BY <1>1, <2>2 DEF ReceiveResponse, StopSend, DropSend
    <3> QED
      BY <1>2, <3>1, ReturnedSession
  <2> QED
    BY <1>1, <2>1, <2>2
<1>5. AnswerDue
  <2> SUFFICES ASSUME IsOpen(panels, run.tab), ~Live(run.tab).sending
               PROVE  Live(run.tab)' = Live(run.tab)
    BY <1>2 DEF AnswerDue
  <2>1. ~Relevant(run)
    BY RelevantWaits
  <2>2. panels' = panels
    BY <1>1, <2>1 DEF ReceiveResponse, StopSend, DropSend
  <2> QED
    BY <1>2, <2>2 DEF Live
<1> QED
  BY <1>4, <1>5

-----------------------------------------------------------------------------
(* Loading the session.                                                    *)

\* Nothing of what the invariant speaks of has changed, the queue apart.
Still == UNCHANGED <<memory, closed, sends, nextTab, nextSend>>

\* Then what was kept of the tabs, in memory, on disk or read, is kept.
LEMMA StillOK ==
  ASSUME SInv, Still
  PROVE  /\ Once(panels') /\ OpenTabsOK' /\ ClosedTabsOK' /\ RunsOK'
         /\ \A found : FoundKept(found) => FoundKept(found)'
         /\ DiskKept /\ UNCHANGED disk => DiskKept'
<1>1. UNCHANGED <<panels, closed, handle, cancelled, running, nextTab, nextSend>>
  BY DEF Still, memory, sends
<1>2. OpenTabsOK' /\ ClosedTabsOK' /\ RunsOK'
  <2>1. OpenTabsOK'
    BY <1>1 DEF SInv, OpenTabsOK, Sounds, Good, Waiting
  <2>2. ClosedTabsOK'
    BY <1>1 DEF SInv, ClosedTabsOK, Good
  <2>3. RunsOK'
    BY <1>1 DEF SInv, RunsOK
  <2> QED
    BY <2>1, <2>2, <2>3
<1>3. \A found : FoundKept(found) => FoundKept(found)'
  BY <1>1 DEF FoundKept, Good, Untouched
<1>4. DiskKept /\ UNCHANGED disk => DiskKept'
  BY <1>1 DEF DiskKept, Good, Untouched
<1> QED
  BY <1>1, <1>2, <1>3, <1>4 DEF SInv

\* The queue without its read, which was the only one, and with what the
\* handler that waited for it sends.
LEMMA NoReadsLeft ==
  ASSUME IInv, SInv, queue # <<>>, Reads(Head(queue)), NEW more, Quiet(more),
         queue' = Tail(queue) \o more
  PROVE  \A i \in DOMAIN queue' : ~Reads(queue'[i])
<1>1. /\ queue \in Seq(Entry(nextPanel)) /\ Len(queue) \in Nat /\ DOMAIN queue = 1..Len(queue)
      /\ Len(queue) > 0 /\ Reads(queue[1])
  BY DEF IInv
<1> DEFINE left == Tail(queue)
<1>2. /\ left \in Seq(Entry(nextPanel)) /\ Len(left) = Len(queue) - 1
      /\ Len(left) \in Nat /\ DOMAIN left = 1..Len(left)
      /\ \A k \in 1..Len(left) : left[k] = queue[k + 1]
  BY <1>1
<1>3. ASSUME NEW k \in 1..Len(left) PROVE ~Reads(left[k])
  <2>1. k + 1 \in DOMAIN queue /\ 1 \in DOMAIN queue /\ k + 1 # 1 /\ left[k] = queue[k + 1]
    BY <1>1, <1>2
  <2> QED
    BY <1>1, <2>1 DEF SInv, LoadingOK
<1>4. queue' = left \o more
  OBVIOUS
<1> HIDE DEF left
<1>5. CASE more = <<>>
  BY <1>2, <1>3, <1>4, <1>5
<1>6. ASSUME NEW e, more = <<e>>, ~Reads(e)
      PROVE  \A i \in DOMAIN queue' : ~Reads(queue'[i])
  <2>1. queue' = Append(left, e)
    BY <1>2, <1>4, <1>6
  <2>2. /\ DOMAIN queue' = 1..(Len(left) + 1) /\ queue'[Len(left) + 1] = e
        /\ \A k \in 1..Len(left) : queue'[k] = left[k]
    BY <1>2, <2>1
  <2> QED
    BY <1>2, <1>3, <1>6, <2>2
<1> QED
  BY <1>5, <1>6 DEF Quiet

\* The process is started.
LEMMA StartSession ==
  ASSUME IInv, SInv, Start
  PROVE  SInv' /\ closed' = closed
<1>1. /\ Still /\ closed' = closed /\ phase' = "loading" /\ UNCHANGED disk /\ DiskKept
      /\ queue' = <<[op |-> GetPanels, rest |-> <<>>]>>
  BY DEF Start, Still, idVars, SInv, LoadingOK
<1>2. DOMAIN queue' = {1} /\ queue'[1].op.kind = "getPanels"
  BY <1>1 DEF GetPanels
<1>3. LoadingOK'
  BY <1>1, <1>2, StillOK DEF LoadingOK, Reads
<1> QED
  BY <1>1, <1>3, StillOK DEF SInv

\* A read fails: nothing is left to load.
LEMMA FailLoadSession ==
  ASSUME IInv, SInv, FailLoad
  PROVE  SInv' /\ closed' = closed
<1>1. /\ Still /\ closed' = closed /\ phase' = "failed" /\ queue # <<>>
      /\ Reads(Head(queue)) /\ queue' = Tail(queue)
  BY DEF FailLoad, Still, idVars, Reads
<1>2. queue' = Tail(queue) \o <<>> /\ Quiet(<<>>)
  BY <1>1, HeadProperties DEF Quiet
<1>3. LoadingOK'
  BY <1>1, <1>2, NoReadsLeft DEF LoadingOK
<1> QED
  BY <1>1, <1>3, StillOK DEF SInv

\* Nothing happens.
LEMMA StutterSession ==
  ASSUME IInv, SInv, UNCHANGED vars
  PROVE  SInv' /\ closed' = closed
<1>1. Still /\ UNCHANGED <<phase, queue, disk, closed>>
  BY DEF vars, Still, memory, sends
<1>2. LoadingOK'
  BY <1>1, StillOK DEF LoadingOK, SInv, Reads
<1> QED
  BY <1>1, <1>2, StillOK DEF SInv

\* The panels have been read, and the active one is asked for.
LEMMA AnsweredLoading ==
  ASSUME IInv, SInv, Still, phase' = phase, queue # <<>>, Head(queue).op = GetPanels,
         NEW found, FoundKept(found), Answered(found)
  PROVE  SInv'
<1> DEFINE left  == Tail(queue)
           entry == [op |-> GetActive(found), rest |-> <<>>]
<1>1. Head(queue) = queue[1] /\ Reads(Head(queue)) /\ 1 \in DOMAIN queue
  BY DEF GetPanels, Reads, IInv
<1>2. phase = "loading"
  BY <1>1 DEF SInv, LoadingOK
<1>3. /\ left \in Seq(Entry(nextPanel)) /\ Len(left) \in Nat /\ DOMAIN left = 1..Len(left)
      /\ Len(left) = Len(queue) - 1 /\ DOMAIN queue = 1..Len(queue) /\ Len(queue) \in Nat
      /\ \A k \in 1..Len(left) : left[k] = queue[k + 1]
  BY <1>1 DEF IInv
<1>4. ASSUME NEW k \in 1..Len(left) PROVE ~Reads(left[k])
  <2>1. k + 1 \in DOMAIN queue /\ k + 1 # 1 /\ left[k] = queue[k + 1]
    BY <1>3
  <2> QED
    BY <1>1, <2>1 DEF SInv, LoadingOK
<1>5. queue' = Append(left, entry) /\ entry.op.kind = "getActive" /\ entry.op.found = found
  BY DEF Answered, GetActive
<1> HIDE DEF left, entry
<1>6. /\ DOMAIN queue' = 1..(Len(left) + 1) /\ queue'[Len(left) + 1] = entry
      /\ \A k \in 1..Len(left) : queue'[k] = left[k]
  BY <1>3, <1>5
<1>7. \A i \in DOMAIN queue' : Reads(queue'[i]) => i = Len(left) + 1 /\ queue'[i] = entry
  BY <1>3, <1>4, <1>6
<1>8. FoundKept(found)'
  BY StillOK
<1>9. ASSUME NEW i \in DOMAIN queue', Reads(queue'[i])
      PROVE  /\ \A j \in DOMAIN queue' : Reads(queue'[j]) => i = j
             /\ queue'[i].op.kind = "getActive" /\ FoundKept(queue[i].op.found)'
  BY <1>5, <1>7, <1>8, <1>9 DEF FoundKept
<1>10. LoadingOK'
  <2>1. ASSUME NEW i \in DOMAIN queue', Reads(queue'[i])
        PROVE  /\ phase' = "loading"
               /\ \A j \in DOMAIN queue' : Reads(queue'[j]) => i = j
               /\ queue'[i].op.kind = "getPanels" => i = 1 /\ DiskKept'
               /\ queue'[i].op.kind = "getActive" => FoundKept(queue[i].op.found)'
    BY <1>2, <1>9, <2>1
  <2> QED
    BY <1>2, <2>1 DEF LoadingOK, Reads
<1> QED
  BY <1>10, StillOK DEF SInv

\* A tab that is settled is the tab it was, and not sending.
LEMMA SettledParts ==
  ASSUME NEW tab \in Tab
  PROVE  /\ Settled(tab) \in Tab /\ ~Settled(tab).sending /\ Settled(tab).id = tab.id
         /\ Settled(tab).history = tab.history /\ Settled(tab).node = tab.node
         /\ Settled(tab).config = tab.config
BY DEF Settled, Tab

\* The strip a row rebuilds to has a tab for each stored id of the row.
LEMMA StoredStripParts ==
  ASSUME NEW d, IsDisk(d), \A t \in DOMAIN d.tabs : d.tabs[t].id = t,
         NEW ids \in Seq(TabId),
         \A i, j \in DOMAIN ids : ids[i] \in DOMAIN d.tabs /\ ids[i] = ids[j] => i = j
  PROVE  /\ OneEach(StoredStrip(d, ids))
         /\ Ids(StoredStrip(d, ids)) = ToSet(ids) \cap DOMAIN d.tabs
         /\ \A v \in ToSet(StoredStrip(d, ids)) :
              v.id \in ToSet(ids) \cap DOMAIN d.tabs /\ v = Settled(d.tabs[v.id])
<1> DEFINE K     == {i \in DOMAIN ids : ids[i] \in DOMAIN d.tabs}
           live  == Selected(ids, K)
           e     == Enumeration(K)
           strip == [i \in DOMAIN live |-> Settled(d.tabs[live[i]])]
<1>1. K \in SUBSET DOMAIN ids
  OBVIOUS
<1>2. /\ \A i \in DOMAIN live : e[i] \in K /\ live[i] = ids[e[i]]
      /\ \A i, j \in DOMAIN live : i # j => e[i] # e[j]
      /\ \A k \in K : \E i \in DOMAIN live : live[i] = ids[k]
  <2> HIDE DEF K
  <2> QED
    BY <1>1, SelectedProperties
<1>3. \A t \in DOMAIN d.tabs : d.tabs[t] \in Tab /\ Settled(d.tabs[t]).id = t
  BY SettledParts DEF IsDisk, IsBox
<1>4. StoredStrip(d, ids) = strip
  BY DEF StoredStrip
<1>5. ToSet(ids) \cap DOMAIN d.tabs = {ids[k] : k \in K}
  BY DEF ToSet
<1>6. \A k \in K : k \in DOMAIN ids /\ ids[k] \in DOMAIN d.tabs
  OBVIOUS
<1>7. \A i \in DOMAIN strip : i \in DOMAIN live /\ strip[i] = Settled(d.tabs[live[i]])
  OBVIOUS
<1>8. DOMAIN strip = DOMAIN live
  OBVIOUS
<1> HIDE DEF K, live, e, strip
<1>9. ASSUME NEW i \in DOMAIN live
      PROVE  live[i] \in DOMAIN d.tabs /\ strip[i].id = live[i] /\ strip[i] = Settled(d.tabs[live[i]])
  BY <1>2, <1>3, <1>6, <1>7, <1>8
<1>10. ASSUME NEW i \in DOMAIN live, NEW j \in DOMAIN live, live[i] = live[j] PROVE i = j
  <2>1. e[i] = e[j]
    BY <1>2, <1>6, <1>10
  <2> QED
    BY <1>2, <2>1
<1>11. ToSet(strip) = {strip[i] : i \in DOMAIN live}
  BY <1>8 DEF ToSet
<1>12. OneEach(strip)
  BY <1>8, <1>9, <1>10, <1>11 DEF OneEach, IsInjective
<1>13. {live[i] : i \in DOMAIN live} = {ids[k] : k \in K}
  BY <1>2
<1>14. Ids(strip) = {live[i] : i \in DOMAIN live}
  BY <1>8, <1>9 DEF Ids
<1>15. ASSUME NEW v \in ToSet(strip)
       PROVE  v.id \in {ids[k] : k \in K} /\ v = Settled(d.tabs[v.id])
  <2>1. PICK i \in DOMAIN live : v = strip[i]
    BY <1>11
  <2>2. live[i] \in {ids[k] : k \in K}
    BY <1>13
  <2> QED
    BY <1>9, <2>1, <2>2
<1> QED
  BY <1>4, <1>5, <1>12, <1>13, <1>14, <1>15

\* The panels found, each with its id.
LEMMA FoundAt ==
  ASSUME NEW found \in Seq([id : PanelId, panel : Panel]), IsInjective(FoundOrder(found))
  PROVE  /\ DOMAIN FoundPanels(found) = {found[i].id : i \in DOMAIN found}
         /\ \A i \in DOMAIN found : FoundPanels(found)[found[i].id] = found[i].panel
<1>1. /\ DOMAIN FoundOrder(found) = DOMAIN found
      /\ \A i \in DOMAIN found : FoundOrder(found)[i] = found[i].id
  BY DEF FoundOrder
<1>2. ToSet(FoundOrder(found)) = {found[i].id : i \in DOMAIN found}
  BY <1>1 DEF ToSet
<1>3. DOMAIN FoundPanels(found) = ToSet(FoundOrder(found))
  BY DEF FoundPanels
<1>4. ASSUME NEW i \in DOMAIN found
      PROVE  FoundPanels(found)[found[i].id] = found[i].panel
  <2> DEFINE p == found[i].id
             k == SelectInSeq(found, LAMBDA f : f.id = p)
             I == {j \in 1..Len(found) : found[j].id = p}
  <2>1. k = IF I # {} THEN Min(I) ELSE 0
    BY DEF SelectInSeq
  <2>2. i \in I /\ I \in SUBSET Nat /\ I \subseteq DOMAIN found
    OBVIOUS
  <2>3. k \in I
    BY <2>1, <2>2, MinIsLeast
  <2>4. k = i
    BY <1>1, <2>2, <2>3 DEF IsInjective
  <2>5. p \in ToSet(FoundOrder(found))
    BY <1>2
  <2>6. FoundPanels(found)[p] = found[k].panel
    BY <2>5 DEF FoundPanels
  <2> QED
    BY <2>4, <2>6
<1> QED
  BY <1>2, <1>3, <1>4

\* The panels found show rows of the disk.
AsStored(found) ==
  \A v \in Copies(FoundPanels(found)) :
    v.id \in DOMAIN disk.tabs /\ v = Settled(disk.tabs[v.id])

\* Panels whose tabs are rows of a well kept disk that nothing was done to.
LEMMA StoredFoundKept ==
  ASSUME IInv, DiskKept, NEW found, Once(FoundPanels(found)), AsStored(found)
  PROVE  FoundKept(found)
<1> SUFFICES ASSUME NEW v \in Copies(FoundPanels(found))
             PROVE  Good(v) /\ Untouched(v.id) /\ ~v.sending
  BY DEF FoundKept
<1>1. PICK row : row = disk.tabs[v.id]
  OBVIOUS
<1>2. row \in Tab /\ row.id = v.id /\ Good(row) /\ Untouched(v.id)
  BY <1>1 DEF AsStored, DiskKept, WellKept, IInv, DiskOK, IsDisk, IsBox
<1>3. v.history = row.history /\ v.id = row.id /\ ~v.sending
  BY <1>1, <1>2, SettledParts DEF AsStored
<1>4. Good(v)
  BY <1>2, <1>3 DEF Good
<1> QED
  BY <1>2, <1>3, <1>4

\* getPanels on a disk an earlier session left: the stored panels.
LEMMA StoredPanelsKept ==
  ASSUME IInv, DiskKept, NEW ord \in StoredOrders(disk), NEW found,
         found = [i \in DOMAIN ord |-> [id |-> ord[i], panel |-> StoredPanel(disk, ord[i])]]
  PROVE  FoundKept(found) /\ AsStored(found)
<1> DEFINE ps == FoundPanels(found)
<1>1. IsDisk(disk) /\ WellKept(disk) /\ disk.tabs \in [DOMAIN disk.tabs -> Tab]
      /\ disk.panels \in [DOMAIN disk.panels -> Row]
  BY DEF IInv, DiskOK, DiskKept, IsDisk, IsBox
<1>2. /\ ord \in Seq(PanelId) /\ ToSet(ord) \subseteq DOMAIN disk.panels
      /\ \A i, j \in DOMAIN ord : i # j => ord[i] # ord[j]
      /\ Len(ord) \in Nat /\ DOMAIN ord = 1..Len(ord)
  BY <1>1, StoredOrdersSound
<1>3. \A i \in DOMAIN ord : ord[i] \in PanelId /\ ord[i] \in DOMAIN disk.panels
  BY <1>2 DEF ToSet
<1>4. /\ DOMAIN found = DOMAIN ord
      /\ \A i \in DOMAIN ord :
           found[i] = [id |-> ord[i], panel |-> StoredPanel(disk, ord[i])]
  OBVIOUS
<1>5. \A i \in DOMAIN ord : [id |-> ord[i], panel |-> StoredPanel(disk, ord[i])]
                               \in [id : PanelId, panel : Panel]
  BY <1>1, <1>3, StoredPanelType
<1>6. found \in Seq([id : PanelId, panel : Panel])
  BY <1>2, <1>5
<1>7. IsInjective(FoundOrder(found))
  BY <1>2, <1>4 DEF FoundOrder, IsInjective
<1>8. /\ DOMAIN ps = {found[i].id : i \in DOMAIN found}
      /\ \A i \in DOMAIN found : ps[found[i].id] = found[i].panel
  BY <1>6, <1>7, FoundAt
<1> HIDE DEF ps
<1>9. ASSUME NEW p \in DOMAIN ps
      PROVE  /\ p \in DOMAIN disk.panels
             /\ ps[p].strip = StoredStrip(disk, disk.panels[p].ids)
             /\ ps[p].active = disk.panels[p].active
  <2>1. PICK i \in DOMAIN ord : p = ord[i]
    BY <1>4, <1>8
  <2>2. ps[p] = StoredPanel(disk, p) /\ p \in DOMAIN disk.panels
    BY <1>3, <1>4, <1>8, <2>1
  <2> QED
    BY <2>2 DEF StoredPanel
<1>10. ASSUME NEW p \in DOMAIN ps
       PROVE  /\ OneEach(ps[p].strip)
              /\ Ids(ps[p].strip) = LiveIds(disk, p)
              /\ \A v \in ToSet(ps[p].strip) :
                   v.id \in LiveIds(disk, p) /\ v = Settled(disk.tabs[v.id])
  <2>1. PICK ids : ids = disk.panels[p].ids
    OBVIOUS
  <2>2. ids \in Seq(TabId)
    BY <1>1, <1>9, <2>1 DEF Row
  <2>3. \A i, j \in DOMAIN ids : ids[i] \in DOMAIN disk.tabs /\ ids[i] = ids[j] => i = j
    BY <1>1, <1>9, <2>1 DEF WellKept
  <2>4. \A t \in DOMAIN disk.tabs : disk.tabs[t].id = t
    BY <1>1 DEF WellKept
  <2>5. /\ OneEach(StoredStrip(disk, ids))
        /\ Ids(StoredStrip(disk, ids)) = ToSet(ids) \cap DOMAIN disk.tabs
        /\ \A v \in ToSet(StoredStrip(disk, ids)) :
             v.id \in ToSet(ids) \cap DOMAIN disk.tabs /\ v = Settled(disk.tabs[v.id])
    BY <1>1, <2>2, <2>3, <2>4, StoredStripParts
  <2> QED
    BY <1>9, <2>1, <2>5 DEF LiveIds
<1>11. ASSUME NEW p \in DOMAIN ps PROVE ShownIn(ps[p])
  <2>1. IF LiveIds(disk, p) = {} THEN ps[p].active = NoTab
        ELSE ps[p].active \in LiveIds(disk, p)
    BY <1>1, <1>9 DEF WellKept
  <2>2. CASE LiveIds(disk, p) = {}
    <3>1. Ids(ps[p].strip) = {}
      BY <1>10, <2>2
    <3>2. ps[p].strip = <<>>
      <4>1. ps[p].strip \in Seq(Tab)
        <5>1. disk.panels[p].ids \in Seq(TabId)
          BY <1>1, <1>9 DEF Row
        <5> QED
          BY <1>1, <1>9, <5>1, StoredStripType
      <4>2. DOMAIN ps[p].strip = {}
        BY <3>1 DEF Ids
      <4>3. Len(ps[p].strip) = 0
        <5>1. DOMAIN ps[p].strip = 1..Len(ps[p].strip) /\ Len(ps[p].strip) \in Nat
          BY <4>1
        <5>2. 1 \notin 1..Len(ps[p].strip)
          BY <4>2, <5>1
        <5> QED
          BY <5>1, <5>2
      <4> QED
        BY <4>1, <4>3, EmptySeq
    <3> QED
      BY <2>1, <2>2, <3>2 DEF ShownIn
  <2>3. CASE LiveIds(disk, p) # {}
    BY <1>10, <2>1, <2>3, ShownMember
  <2> QED
    BY <2>2, <2>3
<1>12. Once(ps)
  <2>1. ASSUME NEW p \in DOMAIN ps, NEW q \in DOMAIN ps, p # q
        PROVE  Apart(ps[p].strip, ps[q].strip)
    <3>1. LiveIds(disk, p) \cap LiveIds(disk, q) = {}
      BY <1>1, <1>9, <2>1 DEF WellKept
    <3> QED
      BY <1>10, <3>1 DEF Apart
  <2> QED
    BY <1>10, <1>11, <2>1 DEF Once
<1>13. \A v \in Copies(ps) : v.id \in DOMAIN disk.tabs /\ v = Settled(disk.tabs[v.id])
  BY <1>10, CopyPlace DEF LiveIds
<1> QED
  BY <1>12, <1>13, StoredFoundKept DEF ps, AsStored

\* getPanels for the layout that had no panels: one, with every stored tab.
LEMMA StoredTabsKept ==
  ASSUME IInv, DiskKept, DOMAIN disk.tabs # {}, NEW ids \in SetToSeqs(DOMAIN disk.tabs),
         NEW p \in PanelId, NEW found,
         found = <<[id    |-> p,
                    panel |-> [name |-> 1, strip |-> StoredStrip(disk, ids),
                               active |-> ids[1]]]>>
  PROVE  FoundKept(found) /\ AsStored(found)
<1> DEFINE ps    == FoundPanels(found)
           panel == [name |-> 1, strip |-> StoredStrip(disk, ids), active |-> ids[1]]
<1>1. IsDisk(disk) /\ WellKept(disk) /\ \A t \in DOMAIN disk.tabs : disk.tabs[t].id = t
  BY DEF IInv, DiskOK, DiskKept, WellKept
<1>2. /\ ids \in Seq(DOMAIN disk.tabs) /\ ids \in Seq(TabId) /\ ids # <<>>
      /\ \A i, j \in DOMAIN ids : i # j => ids[i] # ids[j]
  <2>1. DOMAIN disk.tabs \subseteq TabId /\ MaxTabs \in Nat
    BY <1>1, StorageAssumption DEF IsDisk, IsBox
  <2>2. DOMAIN disk.tabs \in SUBSET (0..MaxTabs)
    BY <2>1 DEF TabId
  <2>3. /\ ids \in Seq(DOMAIN disk.tabs) /\ ids # <<>>
        /\ \A i, j \in DOMAIN ids : i # j => ids[i] # ids[j]
    BY <2>1, <2>2, ArrangementProperties
  <2> QED
    BY <2>1, <2>3, SeqMonotonic
<1>3. /\ OneEach(StoredStrip(disk, ids))
      /\ Ids(StoredStrip(disk, ids)) = ToSet(ids) \cap DOMAIN disk.tabs
      /\ \A v \in ToSet(StoredStrip(disk, ids)) :
           v.id \in ToSet(ids) \cap DOMAIN disk.tabs /\ v = Settled(disk.tabs[v.id])
  BY <1>1, <1>2, StoredStripParts
<1>4. ids[1] \in ToSet(ids) \cap DOMAIN disk.tabs /\ ids[1] \in TabId
  <2>1. 1 \in DOMAIN ids
    BY <1>2
  <2> QED
    BY <1>2, <2>1 DEF ToSet
<1>5. panel \in Panel
  <2>1. StoredStrip(disk, ids) \in Seq(Tab)
    BY <1>1, <1>2, StoredStripType
  <2> QED
    BY <1>4, <2>1 DEF Panel
<1>6. /\ panel.strip = StoredStrip(disk, ids) /\ panel.active = ids[1]
      /\ found = <<[id |-> p, panel |-> panel]>>
  OBVIOUS
<1> HIDE DEF panel
<1>7. /\ found \in Seq([id : PanelId, panel : Panel])
      /\ DOMAIN found = {1} /\ found[1].id = p /\ found[1].panel = panel
  BY <1>5, <1>6
<1>8. IsInjective(FoundOrder(found))
  BY <1>7 DEF FoundOrder, IsInjective
<1>9. DOMAIN ps = {p} /\ ps[p] = panel
  BY <1>7, <1>8, FoundAt
<1> HIDE DEF ps
<1>10. OneEach(panel.strip) /\ ShownIn(panel)
  BY <1>3, <1>4, <1>6, ShownMember
<1>11. Once(ps)
  BY <1>9, <1>10 DEF Once
<1>12. \A v \in Copies(ps) : v.id \in DOMAIN disk.tabs /\ v = Settled(disk.tabs[v.id])
  BY <1>3, <1>6, <1>9, CopyPlace
<1> QED
  BY <1>11, <1>12, StoredFoundKept DEF ps, AsStored

\* getPanels answers.
LEMMA ReadPanelsSession ==
  ASSUME IInv, IInv', SInv, ReadPanels
  PROVE  SInv' /\ closed' = closed /\ \E found : AsStored(found) /\ Answered(found)
<1>1. /\ queue # <<>> /\ Head(queue).op = GetPanels /\ closed' = closed
      /\ Still /\ phase' = phase
  BY DEF ReadPanels, Still, process
<1>2. DiskKept
  <2>1. 1 \in DOMAIN queue /\ Reads(queue[1]) /\ queue[1].op.kind = "getPanels"
    BY <1>1 DEF IInv, Reads, GetPanels
  <2> QED
    BY <2>1 DEF SInv, LoadingOK
<1>3. ASSUME NEW ord \in StoredOrders(disk),
             Answered([i \in DOMAIN ord |-> [id    |-> ord[i],
                                             panel |-> StoredPanel(disk, ord[i])]])
      PROVE  SInv' /\ \E found : AsStored(found) /\ Answered(found)
  <2>1. PICK found :
          found = [i \in DOMAIN ord |-> [id    |-> ord[i],
                                         panel |-> StoredPanel(disk, ord[i])]]
    OBVIOUS
  <2>2. FoundKept(found) /\ AsStored(found) /\ Answered(found)
    BY <1>2, <1>3, <2>1, StoredPanelsKept
  <2> QED
    BY <1>1, <2>2, AnsweredLoading
<1>4. ASSUME nextPanel < MaxPanels, nextPanel' = nextPanel + 1,
             DOMAIN disk.tabs # {}, NEW ids \in SetToSeqs(DOMAIN disk.tabs),
             Answered(<<[id    |-> nextPanel',
                         panel |-> [name |-> 1, strip |-> StoredStrip(disk, ids),
                                    active |-> ids[1]]]>>)
      PROVE  SInv' /\ \E found : AsStored(found) /\ Answered(found)
  <2>1. PICK p, found :
          /\ p = nextPanel'
          /\ found = <<[id    |-> nextPanel',
                        panel |-> [name |-> 1, strip |-> StoredStrip(disk, ids),
                                   active |-> ids[1]]]>>
    OBVIOUS
  <2>2. p \in PanelId
    BY <1>4, <2>1, StorageAssumption DEF IInv, IdsOK, PanelId
  <2>3. FoundKept(found) /\ AsStored(found) /\ Answered(found)
    BY <1>2, <1>4, <2>1, <2>2, StoredTabsKept
  <2> QED
    BY <1>1, <2>3, AnsweredLoading
<1>5. ASSUME Answered(<<>>)
      PROVE  SInv' /\ \E found : AsStored(found) /\ Answered(found)
  <2>1. DOMAIN FoundPanels(<<>>) = {}
    <3>1. DOMAIN FoundOrder(<<>>) = {}
      BY DEF FoundOrder
    <3> QED
      BY <3>1 DEF FoundPanels, ToSet
  <2>2. FoundKept(<<>>) /\ AsStored(<<>>)
    BY <2>1, CopyPlace DEF FoundKept, AsStored, Once
  <2> QED
    BY <1>1, <1>5, <2>2, AnsweredLoading
<1> QED
  BY <1>1, <1>3, <1>4, <1>5 DEF ReadPanels

\* getActivePanelId answers: the panels that were read are shown.
LEMMA RestoreSessionSession ==
  ASSUME IInv, IInv', SInv, RestoreSession
  PROVE  SInv' /\ closed' = closed
<1> PICK found, ord, ps, steps :
      /\ found = Head(queue).op.found
      /\ ord = FoundOrder(found) /\ ps = FoundPanels(found)
      /\ steps = IF disk.active = Unsaved THEN Append(PutEvery(ord, ps), Meta)
                 ELSE <<>>
  OBVIOUS
<1>1. /\ queue # <<>> /\ Head(queue).op.kind = "getActive"
      /\ phase' = "ready" /\ panels' = ps /\ order' = ord
      /\ Then(steps)
      /\ UNCHANGED <<closed, handle, cancelled, running, nextTab, nextSend, nextPanel>>
  BY DEF RestoreSession, Emit, sends, idVars
<1>2. FoundKept(found) /\ Reads(Head(queue))
  <2>1. 1 \in DOMAIN queue /\ Reads(queue[1]) /\ queue[1] = Head(queue)
    BY <1>1 DEF IInv, Reads
  <2> QED
    BY <1>1, <2>1 DEF SInv, LoadingOK
<1>3. ps = FoundPanels(found)
  OBVIOUS
<1>4. Quiet(Issue(steps, panels', order', active'))
  <2>1. Sound(ps, ord, nextPanel)
    BY <1>1 DEF IInv, MemoryOK
  <2>2. steps \in Seq(PlainStep(nextPanel))
    <3>1. PutEvery(ord, ps) \in Seq(PlainStep(nextPanel))
      BY <2>1, PutEveryPlain
    <3>2. Meta \in PlainStep(nextPanel)
      BY PlainSteps
    <3> HIDE DEF PlainStep
    <3> QED
      BY <3>1, <3>2
  <2>3. steps \in Steps(nextPanel) /\ WellShaped(steps)
    BY <2>2, PlainShaped
  <2> QED
    BY <1>1, <2>1, <2>3, IssueQuiet
<1>5. \A i \in DOMAIN queue' : ~Reads(queue'[i])
  BY <1>1, <1>2, <1>4, NoReadsLeft DEF Then
<1>6. LoadingOK'
  BY <1>1, <1>5 DEF LoadingOK, Reads
<1>7. nextTab <= nextTab' /\ nextSend <= nextSend'
  BY <1>1, SessionTypes
<1>8. RunsOK'
  BY <1>1, <1>7, SendsKept
<1>9. Once(panels')
  BY <1>1, <1>2 DEF FoundKept
<1>10. OpenTabsOK'
  <2>1. ASSUME NEW v \in Copies(ps) PROVE Sounds(v)'
    BY <1>1, <1>2, <2>1 DEF FoundKept, Sounds, Good, Untouched, Waiting
  <2> QED
    BY <1>1, <2>1 DEF OpenTabsOK
<1>11. ClosedTabsOK'
  <2>1. ASSUME NEW i \in DOMAIN closed PROVE ~IsOpen(ps, closed[i].tab.id)
    BY <1>2, OpenCopy DEF FoundKept, Untouched
  <2> QED
    BY <1>1, <2>1 DEF SInv, ClosedTabsOK, Good
<1> QED
  BY <1>1, <1>6, <1>8, <1>9, <1>10, <1>11 DEF SInv

\* getActivePanelId answers on a first run: a new tab is shown.
LEMMA SeedSessionSession ==
  ASSUME IInv, IInv', SInv, SeedSession
  PROVE  SInv' /\ closed' = closed
<1> PICK p, tab, panel, ps, steps :
      /\ p = nextPanel + 1 /\ tab = NewTab(NoNode, Sample)
      /\ panel = [name |-> 1, strip |-> <<tab>>, active |-> tab.id]
      /\ ps = Put(<<>>, p, panel)
      /\ steps = <<PutTab(tab), PutPanel(p, RowOf(panels'[p])), Meta>>
  OBVIOUS
<1>1. /\ queue # <<>> /\ Reads(Head(queue)) /\ nextTab < MaxTabs /\ nextTab' = nextTab + 1
      /\ phase' = "ready" /\ panels' = ps
      /\ queue' = Tail(queue) \o Issue(steps, panels', order', active')
      /\ UNCHANGED <<closed, handle, cancelled, running, nextSend>>
  BY DEF SeedSession, Emit, sends, Then, Reads, GetActive
<1>2. Quiet(Issue(steps, panels', order', active'))
  <2>1. steps # <<>> /\ Head(steps).kind \in PlainKinds
    BY DEF PutTab, PlainKinds
  <2> QED
    BY <2>1, FirstQuiet
<1>3. \A i \in DOMAIN queue' : ~Reads(queue'[i])
  BY <1>1, <1>2, NoReadsLeft
<1>4. LoadingOK'
  <2>1. phase' = "ready"
    BY <1>1
  <2> QED
    BY <1>3, <2>1 DEF LoadingOK
<1>5. /\ tab \in Tab /\ tab.id = nextTab + 1 /\ tab.history = <<>> /\ ~tab.sending
      /\ nextTab \in Nat /\ nextSend \in Nat
  BY <1>1, NewTabType, TabsAssumption, SessionTypes DEF NewTab
<1>6. tab.id \in TabId /\ handle[tab.id] = NoSend
  <2>1. tab.id \in TabId /\ tab.id \notin 1..nextTab
    BY <1>5, TabParts
  <2> QED
    BY <2>1 DEF SInv, RunsOK
<1>7. Sounds(tab)'
  BY <1>1, <1>5, <1>6, TabsAssumption DEF Sounds, Good, Newest, Waiting
<1>8. DOMAIN ps = {p} /\ ps[p] = panel
  BY DEF Put
<1>9. ToSet(panel.strip) = {tab} /\ OneEach(panel.strip) /\ ShownIn(panel)
  <2>1. panel.strip = <<tab>> /\ panel.active = tab.id
    OBVIOUS
  <2>2. ToSet(panel.strip) = {tab}
    BY <2>1 DEF ToSet
  <2>3. OneEach(panel.strip)
    BY <2>1, <2>2 DEF OneEach, IsInjective
  <2>4. tab.id \in Ids(panel.strip)
    BY <2>2, IdsOfSet
  <2> QED
    BY <2>1, <2>2, <2>3, <2>4, ShownMember
<1>10. Once(panels') /\ \A v \in Copies(panels') : v = tab
  BY <1>1, <1>8, <1>9, CopyPlace DEF Once
<1>11. nextTab <= nextTab' /\ nextSend <= nextSend'
  BY <1>1, <1>5
<1>12. RunsOK'
  BY <1>1, <1>11, SendsKept
<1>13. OpenTabsOK'
  BY <1>7, <1>10 DEF OpenTabsOK
<1>14. ClosedTabsOK'
  <2>1. ASSUME NEW i \in DOMAIN closed, NEW v, v = closed[i].tab
        PROVE  Good(v)' /\ ~IsOpen(panels', v.id)
    <3>1. v \in Tab /\ Good(v) /\ handle[v.id] = NoSend
      BY <2>1, SessionTypes DEF SInv, ClosedTabsOK, Closed
    <3>2. Good(v)'
      BY <1>1, <1>11, <3>1, GoodKept
    <3>3. v.id # tab.id
      BY <1>5, <3>1 DEF Good
    <3> QED
      BY <1>10, <3>2, <3>3, OpenCopy
  <2>2. \A i \in DOMAIN closed :
          Good(closed[i].tab)' /\ ~IsOpen(panels', closed[i].tab.id)
    <3>1. closed' = closed
      BY <1>1
    <3> QED
      BY <2>1, <3>1 DEF Good
  <2> QED
    BY <1>1, <2>2 DEF SInv, ClosedTabsOK, Good
<1> QED
  BY <1>1, <1>4, <1>10, <1>12, <1>13, <1>14 DEF SInv

-----------------------------------------------------------------------------
(* Together. *)

\* At first there is a disk that an earlier session left.
LEMMA InitSession ==
  ASSUME SessionsWellKept, Init
  PROVE  SInv
<1>1. /\ disk \in Sessions /\ IInv /\ WellKept(disk)
      /\ queue = <<>> /\ phase = "off" /\ panels = <<>> /\ closed = <<>>
      /\ handle = [t \in TabId |-> NoSend] /\ cancelled = {} /\ running = {}
  BY InitOK DEF Init, SessionsWellKept
<1>2. IsDisk(disk) /\ MaxTabs \in Nat /\ MaxSends \in Nat
      /\ disk.tabs \in [DOMAIN disk.tabs -> Tab] /\ DOMAIN disk.tabs \subseteq TabId
  BY <1>1, StorageAssumption, TabsAssumption DEF IsDisk, IsBox
<1>3. DOMAIN disk.tabs \subseteq 1..nextTab
  <2>1. \E n \in 0..MaxTabs : DOMAIN disk.tabs \subseteq 1..n
    BY <1>2 DEF TabId
  <2> QED
    BY <2>1 DEF Init
<1>4. \A t \in DOMAIN disk.tabs : ToSet(disk.tabs[t].history) \subseteq 0..nextSend
  BY InitSends
<1>5. ASSUME NEW t \in DOMAIN disk.tabs PROVE Good(disk.tabs[t]) /\ Untouched(t)
  <2>1. PICK v : v = disk.tabs[t]
    OBVIOUS
  <2>2. v \in Tab /\ v.id = t /\ t \in 1..nextTab /\ t \in TabId
    BY <1>1, <1>2, <1>3, <2>1 DEF WellKept
  <2>3. /\ Len(v.history) <= HistoryLimit
        /\ \A i, j \in DOMAIN v.history : i < j => v.history[i] > v.history[j]
    BY <1>1, <2>1 DEF WellKept, Newest
  <2>4. \A i \in DOMAIN v.history : v.history[i] <= nextSend
    <3>1. nextSend \in Nat
      BY <1>1, SessionTypes
    <3>2. ToSet(v.history) = {v.history[i] : i \in DOMAIN v.history}
      BY DEF ToSet
    <3> QED
      BY <1>4, <2>1, <3>1, <3>2
  <2>5. handle[t] = NoSend
    BY <1>1, <2>2
  <2>6. Good(v)
    BY <2>2, <2>3, <2>4, <2>5 DEF Good, Newest
  <2>7. Untouched(t)
    BY <1>1, <2>5 DEF Untouched, IsOpen
  <2> QED
    BY <2>1, <2>6, <2>7
<1>6. LoadingOK
  BY <1>1, <1>5 DEF LoadingOK, DiskKept
<1>7. Once(panels) /\ OpenTabsOK
  <2>1. DOMAIN panels = {}
    BY <1>1
  <2> QED
    BY <2>1, CopyPlace DEF Once, OpenTabsOK
<1>8. ClosedTabsOK
  <2>1. DOMAIN closed = {} /\ Len(closed) = 0
    BY <1>1
  <2> QED
    BY <2>1, TabsAssumption DEF ClosedTabsOK
<1>9. RunsOK
  BY <1>1 DEF RunsOK
<1> QED
  BY <1>6, <1>7, <1>8, <1>9 DEF SInv

\* Only an answer ends a run.
LEMMA RunsGrow ==
  ASSUME TabEvent \/ PanelEvent \/ FlushTimer \/ Worker \/ Start \/ UNCHANGED vars
  PROVE  running \subseteq running'
<1>1. ASSUME NEW p, NEW K, NEW act, CloseTabs(p, K, act)
      PROVE  UNCHANGED running
  BY <1>1 DEF CloseTabs, CancelAndFinish
<1>2. CASE TabEvent
  <2>1. ASSUME NEW t,
               \/ RemoveTab(t) \/ CloseOtherTabs(t)
               \/ CloseTabsToTheRight(t) \/ CloseTabsToTheLeft(t)
        PROVE  UNCHANGED running
    BY <1>1, <2>1 DEF RemoveTab, CloseOtherTabs, CloseTabsToTheRight, CloseTabsToTheLeft
  <2>2. ASSUME NEW t, SendRequest(t) \/ CancelRequest(t)
        PROVE  running \subseteq running'
    BY <2>2 DEF SendRequest, CancelRequest
  <2>3. ASSUME NEW t, NEW node, NEW c, NEW s,
               \/ UpdateTab(t, node, c) \/ RevertTab(t, c)
               \/ ViewResponseHistoryEntry(t, s) \/ DuplicateTab(t)
               \/ ShowLinkedTab(node) \/ AddTab(node, c) \/ SetActiveIndex(t)
        PROVE  UNCHANGED running
    BY <2>3 DEF UpdateTab, RevertTab, ViewResponseHistoryEntry, DuplicateTab,
                ShowLinkedTab, AddTab, SetActiveIndex, sends
  <2>4. ASSUME ReopenAsLinkedTab \/ ReopenClosedTab \/ FlushPendingSaves
        PROVE  UNCHANGED running
    BY <2>4 DEF ReopenAsLinkedTab, ReopenClosedTab, FlushPendingSaves, sends
  <2> HIDE DEF SendRequest, CancelRequest
  <2> QED
    BY <1>2, <2>1, <2>2, <2>3, <2>4 DEF TabEvent
<1>3. CASE PanelEvent
  <2>1. ASSUME NEW p, NEW saved, RemovePanel(p) \/ CloseSavedTabs(p, saved)
        PROVE  UNCHANGED running
    BY <1>1, <2>1 DEF RemovePanel, CloseSavedTabs, CancelAndFinish
  <2>2. ASSUME NEW p, NEW n, NEW t, NEW i, NEW j,
               \/ AddPanel \/ SetActivePanel(p) \/ RenamePanel(p, n)
               \/ ReorderTabs(p, i, j) \/ MoveTabToPanel(t, p)
               \/ ReorderPanels(i, j) \/ MoveTabToNewPanel(t)
        PROVE  UNCHANGED running
    BY <2>2 DEF AddPanel, SetActivePanel, RenamePanel, ReorderTabs, MoveTabToPanel,
                ReorderPanels, MoveTabToNewPanel, sends
  <2> QED
    BY <1>3, <2>1, <2>2 DEF PanelEvent
<1>4. CASE FlushTimer \/ Start \/ UNCHANGED vars
  BY <1>4 DEF FlushTimer, Start, vars, sends
<1>5. CASE Worker
  BY <1>5 DEF Worker, Load, ReadPanels, RestoreSession, SeedSession, ExecuteWrite,
              ExecuteMeta, FailWrite, FailLoad, sends
<1> QED
  BY <1>2, <1>3, <1>4, <1>5

\* The last tab of the reopen stack has been reopened, and is shown.
Pops == closed # <<>> /\ Reopened(panels', active', Last(closed).tab)

\* Every step of a session keeps the invariant, answers only tabs that wait
\* and shows the tab it takes from the reopen stack.
LEMMA StepSession ==
  ASSUME IInv, IInv', SInv, [SessionNext]_vars
  PROVE  SInv' /\ AnswerDue /\ (Len(closed) <= Len(closed') \/ Pops)
<1>1. closed' = closed => Len(closed) <= Len(closed')
  BY SessionTypes
<1>2. CASE TabEvent
  <2>1. ASSUME NEW t \in TabId,
               \/ RemoveTab(t) \/ CloseOtherTabs(t)
               \/ CloseTabsToTheRight(t) \/ CloseTabsToTheLeft(t)
        PROVE  SInv' /\ Len(closed) <= Len(closed')
    BY <2>1, RemoveTabSession, CloseOtherTabsSession, CloseSideSession
  <2>2. ASSUME NEW t \in TabId, DuplicateTab(t) \/ SendRequest(t) \/ CancelRequest(t)
        PROVE  SInv' /\ closed' = closed
    BY <2>2, DuplicateTabSession, SendRequestSession, CancelRequestSession
  <2>3. ASSUME NEW t \in TabId,
               \/ \E node \in Nodes \cup {NoNode}, c \in Configs : UpdateTab(t, node, c)
               \/ \E c \in Configs : RevertTab(t, c)
               \/ \E s \in SendId : ViewResponseHistoryEntry(t, s)
        PROVE  SInv' /\ closed' = closed
    BY <2>3, EditEventSession
  <2>4. ASSUME NEW node \in Nodes, ShowLinkedTab(node)
        PROVE  SInv' /\ closed' = closed
    BY <2>4, ShowLinkedTabSession
  <2>5. ASSUME NEW node \in Nodes \cup {NoNode}, NEW c \in Configs, AddTab(node, c)
        PROVE  SInv' /\ closed' = closed
    BY <2>5, AddTabSession
  <2>6. ASSUME ReopenAsLinkedTab \/ ReopenClosedTab
        PROVE  SInv' /\ Pops
    <3>1. closed # <<>>
      BY <2>6 DEF ReopenAsLinkedTab, ReopenClosedTab
    <3> QED
      BY <2>6, <3>1, ReopenAsLinkedTabSession, ReopenClosedTabSession DEF Pops
  <2>7. ASSUME FlushPendingSaves PROVE SInv' /\ closed' = closed
    BY <2>7, FlushSession
  <2>8. ASSUME NEW i \in TabId, SetActiveIndex(i)
        PROVE  SInv' /\ closed' = closed
    BY <2>8, SetActiveIndexSession
  <2>9. AnswerDue
    BY <1>2, RunsGrow DEF AnswerDue
  <2> QED
    BY <1>1, <1>2, <2>1, <2>2, <2>3, <2>4, <2>5, <2>6, <2>7, <2>8, <2>9 DEF TabEvent
<1>3. CASE PanelEvent
  <2>1. ASSUME NEW p \in PanelId,
               RemovePanel(p) \/ \E saved \in SavedConfigs : CloseSavedTabs(p, saved)
        PROVE  SInv' /\ Len(closed) <= Len(closed')
    BY <2>1, RemovePanelSession, CloseSavedTabsSession
  <2>2. ASSUME NEW p \in PanelId,
               \/ SetActivePanel(p)
               \/ \E n \in 0..MaxName : RenamePanel(p, n)
               \/ \E i, j \in TabId : ReorderTabs(p, i, j)
        PROVE  SInv' /\ closed' = closed
    BY <2>2, PanelChoiceSession, RenamePanelSession, ReorderTabsSession
  <2>3. ASSUME NEW t \in TabId,
               (\E p \in PanelId : MoveTabToPanel(t, p)) \/ MoveTabToNewPanel(t)
        PROVE  SInv' /\ closed' = closed
    BY <2>3, MoveTabToPanelSession, MoveTabToNewPanelSession
  <2>4. ASSUME AddPanel \/ \E i, j \in PanelId : ReorderPanels(i, j)
        PROVE  SInv' /\ closed' = closed
    BY <2>4, AddPanelSession, PanelChoiceSession
  <2>5. AnswerDue
    BY <1>3, RunsGrow DEF AnswerDue
  <2> QED
    BY <1>1, <1>3, <2>1, <2>2, <2>3, <2>4, <2>5 DEF PanelEvent
<1>4. CASE Answer
  BY <1>1, <1>4, AnswerSession
<1>5. CASE Worker
  <2>1. SInv' /\ closed' = closed
    BY <1>5, ReadPanelsSession, RestoreSessionSession, SeedSessionSession,
       WorkerWriteSession, ExecuteMetaSession, FailLoadSession DEF Worker, Load
  <2> QED
    BY <1>1, <1>5, <2>1, RunsGrow DEF AnswerDue
<1>6. CASE Start \/ FlushTimer \/ UNCHANGED vars
  <2>1. SInv' /\ closed' = closed
    BY <1>6, StartSession, FlushSession, StutterSession
  <2> QED
    BY <1>1, <1>6, <2>1, RunsGrow DEF AnswerDue
<1> QED
  BY <1>2, <1>3, <1>4, <1>5, <1>6 DEF SessionNext

-----------------------------------------------------------------------------
(* The theorems.                                                           *)

\* The invariant of a session: what the properties below share.
THEOREM SInvInvariant ==
  ASSUME SessionsWellKept
  PROVE  SessionSpec => [](IInv /\ SInv)
<1>1. Init => IInv /\ SInv
  BY InitOK, InitSession
<1>2. IInv /\ SInv /\ [SessionNext]_vars => IInv' /\ SInv'
  <2>1. [SessionNext]_vars => [Next]_vars
    BY DEF Next
  <2> QED
    BY <2>1, StepOK, StepSession
<1> QED
  BY <1>1, <1>2, PTL DEF SessionSpec

\* Wherever the events of a session close, reopen and move tabs, each is in
\* one place: in one panel, once, or on the reopen stack, once.
THEOREM TabsOpenOrClosedOnce ==
  ASSUME SessionsWellKept
  PROVE  SessionSpec => []OpenOrClosedOnce
<1>1. IInv /\ SInv => OpenOrClosedOnce
  <2> SUFFICES ASSUME IInv, SInv PROVE OpenOrClosedOnce
    OBVIOUS
  <2>1. ASSUME NEW p \in DOMAIN panels, NEW q \in DOMAIN panels,
               NEW i \in DOMAIN panels[p].strip, NEW j \in DOMAIN panels[q].strip,
               panels[p].strip[i].id = panels[q].strip[j].id
        PROVE  p = q /\ i = j
    <3>1. panels[p].strip[i] \in ToSet(panels[p].strip)
          /\ panels[q].strip[j] \in ToSet(panels[q].strip)
      BY DEF ToSet
    <3>2. p = q /\ panels[p].strip[i] = panels[q].strip[j]
      BY <2>1, <3>1, CopyUnique DEF SInv
    <3>3. IsInjective(panels[p].strip)
      BY DEF SInv, Once, OneEach
    <3> QED
      BY <3>2, <3>3 DEF IsInjective
  <2> QED
    BY <2>1 DEF OpenOrClosedOnce, SInv, ClosedTabsOK
<1> QED
  BY <1>1, SInvInvariant, PTL

\* A panel with tabs shows one of them, after every close, move and reopen.
THEOREM ActiveTabsAreShown ==
  ASSUME SessionsWellKept
  PROVE  SessionSpec => []ActiveTabShown
<1>1. IInv /\ SInv => ActiveTabShown
  BY DEF SInv, Once, ShownIn, ActiveTabShown
<1> QED
  BY <1>1, SInvInvariant, PTL

\* A tab that shows SENDING has a send that runs, was not cancelled, and will
\* reset the flag when it returns.
THEOREM SendingHasAnOwner ==
  ASSUME SessionsWellKept
  PROVE  SessionSpec => []SendingHasOwner
<1>1. IInv /\ SInv => SendingHasOwner
  <2> SUFFICES ASSUME IInv, SInv, NEW t \in TabId, IsOpen(panels, t), Live(t).sending
               PROVE  /\ [send |-> handle[t], tab |-> t] \in running
                      /\ handle[t] \notin cancelled
    BY DEF SendingHasOwner
  <2>1. Waiting(t)
    BY LiveCopy DEF Sounds
  <2> QED
    BY <2>1 DEF Waiting, SInv, RunsOK
<1> QED
  BY <1>1, SInvInvariant, PTL

\* The timeline of every open tab is newest first and within its limit,
\* whatever the order in which the answers come back.
THEOREM TimelinesNewestFirst ==
  ASSUME SessionsWellKept
  PROVE  SessionSpec => []HistoryNewestFirst
<1>1. IInv /\ SInv => HistoryNewestFirst
  <2> SUFFICES ASSUME IInv, SInv, NEW p \in DOMAIN panels,
                      NEW k \in DOMAIN panels[p].strip, NEW v, v = panels[p].strip[k]
               PROVE  /\ Len(v.history) <= HistoryLimit
                      /\ \A i, j \in DOMAIN v.history :
                           i < j => v.history[i] > v.history[j]
    BY DEF HistoryNewestFirst
  <2>1. v \in ToSet(panels[p].strip)
    BY DEF ToSet
  <2>2. v \in Copies(panels)
    BY <2>1, CopyPlace
  <2> QED
    BY <2>2 DEF SInv, OpenTabsOK, Sounds, Good, Newest
<1> QED
  BY <1>1, SInvInvariant, PTL

\* An answer that nobody waits for any more leaves its tab alone.
THEOREM OnlyAwaitedAnswers ==
  ASSUME SessionsWellKept
  PROVE  SessionSpec => AnswersOnlyWhileSending
<1>1. IInv /\ IInv' /\ SInv /\ [SessionNext]_vars => AnswerDue
  BY StepSession
<1>2. IInv /\ IInv' /\ SInv /\ [SessionNext]_vars =>
        [\A run \in running \ running' :
           IsOpen(panels, run.tab) /\ IsOpen(panels', run.tab) =>
             Live(run.tab).sending \/ Live(run.tab)' = Live(run.tab)]_vars
  BY <1>1 DEF AnswerDue
<1> QED
  BY <1>2, SInvInvariant, PTL DEF SessionSpec, AnswersOnlyWhileSending

\* What ReopenClosedTab pops is what the user sees next.
THEOREM ReopeningRestores ==
  ASSUME SessionsWellKept
  PROVE  SessionSpec => ReopenRestores
<1>1. IInv /\ IInv' /\ SInv /\ [SessionNext]_vars =>
        [closed' # closed /\ closed' = Front(closed) =>
           LET was   == Last(closed).tab
               panel == panels'[active']
               shown == panel.strip[Position(panel.strip, panel.active)]
           IN  shown.node = was.node /\ shown.config = was.config]_vars
  <2> SUFFICES ASSUME IInv, IInv', SInv, [SessionNext]_vars,
                      closed' # closed, closed' = Front(closed)
               PROVE  Reopened(panels', active', Last(closed).tab)
    BY DEF Reopened
  <2>1. closed \in Seq(Closed) /\ Len(closed) \in Nat
    BY SessionTypes
  <2>2. CASE closed = <<>>
    <3>1. Front(closed) = <<>>
      BY <2>2 DEF Front
    <3> QED
      BY <2>2, <3>1
  <2>3. CASE closed # <<>>
    <3>1. Len(closed') = Len(closed) - 1
      BY <2>1, <2>3, FrontParts
    <3>2. ~(Len(closed) <= Len(closed'))
      BY <2>1, <3>1
    <3> QED
      BY <3>2, StepSession DEF Pops
  <2> QED
    BY <2>2, <2>3
<1> QED
  BY <1>1, SInvInvariant, PTL DEF SessionSpec, ReopenRestores
=============================================================================
