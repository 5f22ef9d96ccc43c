----------------------- MODULE WorkspaceMirror_proofs -----------------------
(***************************************************************************)
(* Proofs about WorkspaceMirror, for any number of edits, operations and   *)
(* faults: nothing is mirrored while git or a reload is at work, a forest  *)
(* is written over no other tree than its own, git finds the edits that    *)
(* were flushed, and saved examples survive.                               *)
(***************************************************************************)
EXTENDS WorkspaceMirror, SequenceTheorems, TLAPS

\* The operation may still come to the tree.
Pending == op.step \in {"flush", "status", "flushAgain", "git"}

One(happens) == IF happens THEN 1 ELSE 0

\* Who holds the gate, and that nothing gets through it.
Gated ==
  /\ gates = Len(reads) + yields + One(GitOnTree)
  /\ gates > 0 => armed = NoForest /\ chain = <<>>
  /\ blocked => armed = NoForest

\* How many trees and reads there can still be.
Left == One(Pending) + waiting + opsLeft

Budget ==
  /\ waiting + opsLeft <= MaxOps
  /\ Len(reads) + yields + Left <= MaxOps + 1
  /\ mem.gen + Left <= MaxOps + 1 /\ disk.gen + Left <= MaxOps + 1
  /\ armed # NoForest => armed.gen + Left <= MaxOps + 1
  /\ \A i \in DOMAIN chain : chain[i].gen + Left <= MaxOps + 1
  /\ \A i \in DOMAIN reads : reads[i].gen + Left <= MaxOps + 1

\* Every read is of the tree that is there, unless git crossed one.
ReadsOfThisTree ==
  paused \/ "crossed" \in astray \/ \A i \in DOMAIN reads : reads[i].gen = disk.gen

\* The forest is of another tree only behind a block, or while a read goes on
\* that no closed tile can call off; what is on its way to disk never is.
OfThisTree ==
  \/ paused \/ astray # {}
  \/ /\ mem.gen = disk.gen \/ blocked \/ \E i \in DOMAIN reads : ~reads[i].tile
     /\ armed # NoForest => armed.gen = disk.gen
     /\ \A i \in DOMAIN chain : chain[i].gen = disk.gen

\* Where the first e edits are, once nothing waits for the timer.
Flushed(e) ==
  \/ e <= dropped \/ e <= void
  \/ chain # <<>> /\ e <= chain[Len(chain)].edit
  \/ chain = <<>> /\ (failed \/ e <= disk.edit)

\* ... and that git finds them in the files, as later writes hold them too.
InTree(e) ==
  \/ e <= dropped \/ e <= void
  \/ e <= disk.edit /\ \A i \in DOMAIN chain : e <= chain[i].edit

Edited ==
  /\ armed # NoForest => armed.edit = edits
  /\ mem.edit <= edits /\ op.seen <= edits
  /\ armed # NoForest \/ Flushed(edits)
  /\ Flushing => Flushed(op.seen)
  /\ op.step \in {"status", "git"} => InTree(op.seen)

\* Saved examples are in the forest, or kept for a request that is absent.
Examples ==
  /\ saved = (kept \/ mem.node = "full")
  /\ kept => mem.node = "absent"

IInv == TypeOK /\ Gated /\ Budget /\ ReadsOfThisTree /\ OfThisTree /\ Edited /\ Examples

-----------------------------------------------------------------------------
(* Sequences. *)

\* What appending does to each place of a sequence.
LEMMA Appended ==
  ASSUME NEW S, NEW s \in Seq(S), NEW e \in S
  PROVE  /\ Append(s, e) \in Seq(S) /\ Append(s, e) # <<>>
         /\ Len(Append(s, e)) = Len(s) + 1 /\ Len(s) \in Nat
         /\ DOMAIN Append(s, e) = 1..(Len(s) + 1) /\ DOMAIN s = 1..Len(s)
         /\ \A i \in 1..Len(s) : Append(s, e)[i] = s[i]
         /\ Append(s, e)[Len(s) + 1] = e
<1>1. Len(Append(s, e)) = Len(s) + 1 /\ Len(s) \in Nat OBVIOUS
<1>2. Append(s, e) # <<>> BY <1>1
<1> QED BY <1>1, <1>2

\* What taking the head does to each place of a sequence.
LEMMA Dequeued ==
  ASSUME NEW S, NEW s \in Seq(S), s # <<>>
  PROVE  /\ Tail(s) \in Seq(S) /\ Len(Tail(s)) = Len(s) - 1 /\ Len(s) \in Nat \ {0}
         /\ Head(s) = s[1] /\ s[1] \in S
         /\ Tail(s) = <<>> <=> Len(s) = 1
         /\ DOMAIN Tail(s) = 1..(Len(s) - 1) /\ DOMAIN s = 1..Len(s)
         /\ \A i \in 1..(Len(s) - 1) : Tail(s)[i] = s[i + 1]
<1>1. Len(s) \in Nat \ {0} BY EmptySeq, LenProperties
<1>2. Head(s) \in S /\ Tail(s) \in Seq(S) /\ Len(Tail(s)) = Len(s) - 1
  BY HeadTailProperties
<1>3. Head(s) = s[1] OBVIOUS
<1>4. \A i \in 1..(Len(s) - 1) : Tail(s)[i] = s[i + 1] BY <1>1, HeadTailProperties
<1>5. Tail(s) = <<>> <=> Len(s) = 1 BY <1>1, <1>2, EmptySeq, LenProperties
<1> QED BY <1>1, <1>2, <1>3, <1>4, <1>5, LenProperties

\* A read is taken out of those under way.
LEMMA Removed ==
  ASSUME NEW S, NEW s \in Seq(S), NEW i \in 1..Len(s)
  PROVE  LET t == SubSeq(s, 1, i - 1) \o SubSeq(s, i + 1, Len(s))
         IN  /\ t \in Seq(S) /\ Len(t) = Len(s) - 1 /\ Len(s) \in Nat \ {0}
             /\ \A j \in DOMAIN t : \E k \in DOMAIN s : t[j] = s[k]
             /\ \A k \in DOMAIN s \ {i} : \E j \in DOMAIN t : t[j] = s[k]
             /\ s[i] \in S
<1> DEFINE a == SubSeq(s, 1, i - 1)
           b == SubSeq(s, i + 1, Len(s))
           t == a \o b
<1>1. /\ a \in Seq(S) /\ Len(a) = i - 1 /\ \A k \in 1..(i - 1) : a[k] = s[k]
      /\ b \in Seq(S) /\ Len(b) = Len(s) - i
      /\ \A k \in 1..(Len(s) - i) : b[k] = s[i + k]
  OBVIOUS
<1>2. Len(s) \in Nat \ {0} /\ i \in Nat /\ i <= Len(s) /\ DOMAIN s = 1..Len(s) /\ s[i] \in S
  OBVIOUS
<1> HIDE DEF a, b
<1>3. /\ t \in Seq(S) /\ Len(t) = Len(a) + Len(b)
      /\ \A k \in 1..(Len(a) + Len(b)) :
           t[k] = IF k <= Len(a) THEN a[k] ELSE b[k - Len(a)]
  <2>1. a \in Seq(S) /\ b \in Seq(S) BY <1>1
  <2> QED BY <2>1, ConcatProperties
<1> HIDE DEF t
<1>4. Len(a) + Len(b) = Len(s) - 1 BY <1>1, <1>2
<1>5. ASSUME NEW j \in 1..(Len(s) - 1)
      PROVE  \E k \in DOMAIN s : t[j] = s[k]
  <2>1. t[j] = IF j <= i - 1 THEN a[j] ELSE b[j - (i - 1)] BY <1>1, <1>3, <1>4
  <2>2. CASE j <= i - 1
    <3>1. j \in 1..(i - 1) /\ j \in DOMAIN s BY <1>2, <2>2
    <3> QED BY <1>1, <2>1, <2>2, <3>1
  <2>3. CASE ~(j <= i - 1)
    <3>1. j - (i - 1) \in 1..(Len(s) - i) /\ i + (j - (i - 1)) = j + 1 /\ j + 1 \in DOMAIN s
      BY <1>2, <2>3
    <3> QED BY <1>1, <2>1, <2>3, <3>1
  <2> QED BY <2>2, <2>3
<1>6. DOMAIN t = 1..(Len(s) - 1) BY <1>3, <1>4
<1>7. ASSUME NEW k \in DOMAIN s \ {i}
      PROVE  \E j \in DOMAIN t : t[j] = s[k]
  <2>1. k \in 1..Len(s) /\ k # i BY <1>2
  <2>2. CASE k < i
    <3>1. k \in 1..(i - 1) /\ k \in DOMAIN t BY <1>2, <1>6, <2>1, <2>2
    <3>2. k <= Len(a) /\ k \in 1..(Len(a) + Len(b)) BY <1>1, <1>2, <1>4, <2>1, <2>2
    <3>3. t[k] = a[k] BY <1>3, <3>2
    <3> QED BY <1>1, <3>1, <3>3
  <2>3. CASE ~(k < i)
    <3>1. k - i \in 1..(Len(s) - i) /\ i + (k - i) = k /\ k - 1 \in 1..(Len(s) - 1)
      BY <1>2, <2>1, <2>3
    <3>2. ~(k - 1 <= Len(a)) /\ (k - 1) - Len(a) = k - i BY <1>1, <1>2, <2>1, <2>3
    <3>3. t[k - 1] = b[k - i] BY <1>3, <1>4, <3>1, <3>2
    <3> QED BY <1>1, <1>6, <3>1, <3>3
  <2> QED BY <2>2, <2>3
<1>8. /\ t \in Seq(S) /\ Len(t) = Len(s) - 1 /\ Len(s) \in Nat \ {0} /\ s[i] \in S
      /\ \A j \in DOMAIN t : \E k \in DOMAIN s : t[j] = s[k]
      /\ \A k \in DOMAIN s \ {i} : \E j \in DOMAIN t : t[j] = s[k]
  BY <1>2, <1>3, <1>4, <1>5, <1>6, <1>7
<1> QED BY <1>8 DEF a, b, t

-----------------------------------------------------------------------------
(* Forests. *)

\* A forest has a generation and an edit within the bounds; NoForest is none.
LEMMA ForestFacts ==
  /\ \A f \in Forests : /\ f # NoForest /\ f.gen \in Nat /\ f.edit \in Nat
                        /\ f.gen <= MaxOps + 1 /\ f.edit <= MaxEdits
  /\ NoForest \notin Forests
BY WorkspaceAssumption DEF Forests

\* Writing a forest out loses what no file holds, and nothing else.
LEMMA WrittenFacts ==
  ASSUME NEW f \in Forests
  PROVE  /\ Written(f) \in Forests /\ Written(f).node # "full"
         /\ Written(f).gen = f.gen /\ Written(f).edit = f.edit
BY DEF Written, Forests

\* What all lemmas below start from.
LEMMA Numbers ==
  ASSUME TypeOK
  PROVE  /\ MaxEdits \in Nat /\ MaxOps \in Nat /\ MaxFaults \in Nat
         /\ edits \in Nat /\ dropped \in Nat /\ void \in Nat /\ op.seen \in Nat
         /\ gates \in Nat /\ opsLeft \in Nat /\ waiting \in Nat /\ yields \in Nat
         /\ Len(reads) \in Nat /\ Len(chain) \in Nat
         /\ disk.gen \in Nat /\ disk.edit \in Nat /\ mem.gen \in Nat /\ mem.edit \in Nat
         /\ \A i \in DOMAIN chain : chain[i] \in Forests /\ chain[i].edit \in Nat
         /\ \A i \in DOMAIN reads : reads[i] \in Reads /\ reads[i].gen \in Nat
         /\ DOMAIN chain = 1..Len(chain) /\ DOMAIN reads = 1..Len(reads)
         /\ armed # NoForest => armed \in Forests /\ armed.edit \in Nat
         /\ chain # <<>> => Len(chain) > 0
         /\ chain # <<>> => Len(chain) \in DOMAIN chain /\ chain[Len(chain)].edit \in Nat
         /\ reads # <<>> => Len(reads) > 0
<1>1. MaxEdits \in Nat /\ MaxOps \in Nat /\ MaxFaults \in Nat BY WorkspaceAssumption
<1>2. chain \in Seq(Forests) /\ reads \in Seq(Reads) BY DEF TypeOK
<1>3. /\ Len(chain) \in Nat /\ Len(reads) \in Nat
      /\ DOMAIN chain = 1..Len(chain) /\ DOMAIN reads = 1..Len(reads)
      /\ chain # <<>> => Len(chain) > 0
      /\ reads # <<>> => Len(reads) > 0
  BY <1>2, EmptySeq, LenProperties
<1>4. /\ \A i \in DOMAIN chain : chain[i] \in Forests
      /\ \A i \in DOMAIN reads : reads[i] \in Reads /\ reads[i].gen \in Nat
  <2>1. \A r \in Reads : r.gen \in Nat BY <1>1 DEF Reads
  <2>2. /\ \A i \in DOMAIN chain : chain[i] \in Forests
        /\ \A i \in DOMAIN reads : reads[i] \in Reads
    BY <1>2, ElementOfSeq, <1>3
  <2> QED BY <2>1, <2>2
<1>5. /\ edits \in Nat /\ dropped \in Nat /\ void \in Nat /\ op.seen \in Nat
      /\ gates \in Nat /\ opsLeft \in Nat /\ waiting \in Nat /\ yields \in Nat
      /\ mem \in Forests /\ disk \in Forests /\ armed \in Forests \cup {NoForest}
  BY <1>1 DEF TypeOK
<1>6. chain # <<>> => Len(chain) \in DOMAIN chain BY <1>3
<1> QED BY <1>1, <1>3, <1>4, <1>5, <1>6, ForestFacts

\* Who holds the gate.
LEMMA Holders ==
  ASSUME TypeOK, Gated
  PROVE  /\ gates = 0 => reads = <<>> /\ ~GitOnTree
         /\ reads # <<>> \/ GitOnTree => gates > 0 /\ armed = NoForest /\ chain = <<>>
<1>1. gates = Len(reads) + yields + One(GitOnTree) /\ Len(reads) \in Nat /\ yields \in Nat
  BY Numbers DEF Gated
<1>2. CASE GitOnTree
  <2>1. One(GitOnTree) = 1 BY <1>2 DEF One
  <2>2. gates > 0 /\ gates # 0 BY <1>1, <2>1
  <2> QED BY <1>2, <2>2 DEF Gated
<1>3. CASE ~GitOnTree
  <2>1. One(GitOnTree) = 0 BY <1>3 DEF One
  <2> QED BY <1>1, <1>3, <2>1, Numbers DEF Gated
<1> QED BY <1>2, <1>3

\* What is left is a number, and less than that fits as well.
LEMMA LessLeft ==
  ASSUME TypeOK, Budget
  PROVE  /\ Left \in Nat
         /\ Left = waiting + (IF Pending THEN 1 + opsLeft ELSE opsLeft)
         /\ \A n \in Nat : n <= Left =>
              /\ Len(reads) + yields + n <= MaxOps + 1
              /\ mem.gen + n <= MaxOps + 1 /\ disk.gen + n <= MaxOps + 1
              /\ armed # NoForest => armed.gen + n <= MaxOps + 1
              /\ \A i \in DOMAIN chain : chain[i].gen + n <= MaxOps + 1
              /\ \A i \in DOMAIN reads : reads[i].gen + n <= MaxOps + 1
<1>1. /\ opsLeft \in Nat /\ waiting \in Nat /\ yields \in Nat /\ MaxOps \in Nat
      /\ Len(reads) \in Nat
      /\ mem.gen \in Nat /\ disk.gen \in Nat
      /\ \A i \in DOMAIN reads : reads[i].gen \in Nat
  BY Numbers
<1>2. /\ armed # NoForest => armed.gen \in Nat
      /\ \A i \in DOMAIN chain : chain[i].gen \in Nat
  BY Numbers, ForestFacts
<1>3. Left \in Nat /\ Left = waiting + (IF Pending THEN 1 + opsLeft ELSE opsLeft)
  BY <1>1 DEF Left, One
<1> SUFFICES ASSUME NEW n \in Nat, n <= Left
             PROVE  /\ Len(reads) + yields + n <= MaxOps + 1
                    /\ mem.gen + n <= MaxOps + 1 /\ disk.gen + n <= MaxOps + 1
                    /\ armed # NoForest => armed.gen + n <= MaxOps + 1
                    /\ \A i \in DOMAIN chain : chain[i].gen + n <= MaxOps + 1
                    /\ \A i \in DOMAIN reads : reads[i].gen + n <= MaxOps + 1
  BY <1>3
<1>4. \A m \in Nat : m + Left <= MaxOps + 1 => m + n <= MaxOps + 1 BY <1>1, <1>3
<1>5. /\ Len(reads) + yields + n <= MaxOps + 1
      /\ mem.gen + n <= MaxOps + 1 /\ disk.gen + n <= MaxOps + 1
      /\ armed # NoForest => armed.gen + n <= MaxOps + 1
  BY <1>1, <1>2, <1>4 DEF Budget
<1>6. \A i \in DOMAIN chain : chain[i].gen + n <= MaxOps + 1 BY <1>2, <1>4 DEF Budget
<1>7. \A i \in DOMAIN reads : reads[i].gen + n <= MaxOps + 1 BY <1>1, <1>4 DEF Budget
<1> QED BY <1>5, <1>6, <1>7

\* A fault takes one from those left.
LEMMA FaultFacts ==
  ASSUME NEW b \in BOOLEAN, Fault(b), faultsLeft \in 0..MaxFaults, MaxFaults \in Nat
  PROVE  opsLeft' = opsLeft /\ faultsLeft' \in 0..MaxFaults
BY DEF Fault, bounds

\* What was flushed, or is in the tree, for some edits is so for fewer.
LEMMA FewerEdits ==
  ASSUME TypeOK, NEW e \in Nat, NEW d \in Nat, e <= d
  PROVE  Flushed(d) => Flushed(e)
<1>1. /\ dropped \in Nat /\ void \in Nat /\ disk.edit \in Nat
      /\ chain # <<>> => chain[Len(chain)].edit \in Nat
  BY Numbers
<1> QED BY <1>1 DEF Flushed

-----------------------------------------------------------------------------
(* The user and the mirror. *)

\* An edit preserves the invariant.
LEMMA EditKeeps ==
  ASSUME IInv, Edit
  PROVE  IInv'
<1> USE DEF IInv
<1>0. TypeOK BY DEF IInv
<1>1. /\ edits' = edits + 1 /\ edits < MaxEdits
      /\ UNCHANGED <<disk, chain, failed, gates, blocked, op, waiting, reads, yields, paused,
                     kept, void, astray, opsLeft, faultsLeft>>
  BY DEF Edit, loads, bounds
<1>2. PICK node \in {"absent", "bare", "full"} :
        /\ mem' = [mem EXCEPT !.edit = edits', !.node = node]
        /\ saved' = IF mem.node = "absent" THEN saved ELSE node = "full"
        /\ mem.node = "absent" <=> node = "absent"
  BY <1>0 DEF Edit, TypeOK, Forests
<1>3. /\ mem' \in Forests /\ mem'.gen = mem.gen /\ mem'.edit = edits' /\ mem'.node = node
      /\ mem' # NoForest
  <2>1. edits' \in 0..MaxEdits BY <1>0, <1>1, Numbers, SMTT(20)
  <2>2. mem \in Forests BY <1>0 DEF TypeOK
  <2>3. mem' \in Forests /\ mem'.gen = mem.gen /\ mem'.edit = edits' /\ mem'.node = node
    BY <1>2, <2>1, <2>2 DEF Forests
  <2> QED BY <2>3, ForestFacts
<1>4. \/ (gates > 0 \/ blocked) /\ armed = NoForest /\ armed' = NoForest
         /\ dropped' = edits' /\ missed' \in {missed, edits'}
      \/ gates = 0 /\ ~blocked /\ armed' = mem' /\ dropped' = dropped /\ missed' = missed
  BY <1>0, Numbers DEF Edit, ScheduleMirror, Drop, drops, Gated
<1>5. TypeOK'
  <2>1. /\ edits' \in 0..MaxEdits /\ dropped' \in 0..MaxEdits /\ missed' \in 0..MaxEdits
        /\ armed' \in Forests \cup {NoForest} /\ saved' \in BOOLEAN
    <3>1. edits' \in 0..MaxEdits BY <1>0, <1>1, Numbers, SMTT(20)
    <3> QED BY <1>0, <1>1, <1>2, <1>3, <1>4, <3>1 DEF TypeOK
  <2> QED BY <1>0, <1>1, <1>3, <1>4, <2>1 DEF TypeOK
<1>6. Gated' BY <1>1, <1>4 DEF Gated, GitOnTree
<1>7. Budget' BY <1>0, <1>1, <1>3, <1>4, Numbers DEF Budget, Left, Pending
<1>8. ReadsOfThisTree' BY <1>1 DEF ReadsOfThisTree
<1>11. OfThisTree'
  <2>1. gates = 0 => \A i \in DOMAIN reads : FALSE BY <1>0, Holders
  <2> QED BY <1>1, <1>3, <1>4, <2>1 DEF OfThisTree
<1>9. Edited'
  <2>1. \A e \in Nat : e <= edits /\ Flushed(e) => Flushed(e)'
    BY <1>0, <1>1, <1>4, Numbers, SMTT(20) DEF Flushed
  <2>2. \A e \in Nat : e <= edits /\ InTree(e) => InTree(e)'
    BY <1>0, <1>1, <1>4, Numbers, SMTT(20) DEF InTree
  <2>3. armed' # NoForest \/ Flushed(edits)'
    BY <1>0, <1>1, <1>3, <1>4 DEF Flushed
  <2> QED BY <1>0, <1>1, <1>3, <1>4, <2>1, <2>2, <2>3, Numbers, SMTT(20) DEF Edited, Flushing
<1>10. Examples' BY <1>0, <1>1, <1>2, <1>3 DEF Examples, TypeOK
<1> QED BY <1>1, <1>5, <1>6, <1>7, <1>8, <1>9, <1>10, <1>11

\* The armed forest is put at the end of the chain, by the timer or a flush.
LEMMA ArmedJoins ==
  ASSUME IInv, armed # NoForest, chain' = Append(chain, armed), armed' = NoForest,
         UNCHANGED <<mem, disk, failed, gates, blocked, reads, yields, paused, kept, saved,
                     edits, dropped, missed, void, astray>>
  PROVE  /\ chain' \in Seq(Forests) /\ chain' # <<>> /\ gates = 0
         /\ Flushed(edits)'
         /\ \A e \in Nat : e <= edits /\ Flushed(e) => Flushed(e)'
         /\ \A e \in Nat : e <= edits /\ InTree(e) => InTree(e)'
         /\ \A i \in DOMAIN chain' :
              chain'[i] = armed \/ \E j \in DOMAIN chain : chain'[i] = chain[j]
<1> USE DEF IInv
<1>1. armed \in Forests /\ armed.edit = edits /\ TypeOK
  BY Numbers DEF Edited
<1>2. /\ chain' \in Seq(Forests) /\ chain' # <<>> /\ Len(chain') = Len(chain) + 1
      /\ DOMAIN chain' = 1..(Len(chain) + 1) /\ DOMAIN chain = 1..Len(chain)
      /\ \A i \in 1..Len(chain) : chain'[i] = chain[i]
      /\ chain'[Len(chain) + 1] = armed
  BY <1>1, Appended DEF TypeOK
<1>3. gates = 0 BY <1>1, Numbers DEF Gated
<1>4. chain'[Len(chain')] = armed BY <1>2
<1>5. \A e \in Nat : e <= edits => Flushed(e)'
  BY <1>1, <1>2, <1>4 DEF Flushed
<1>6. \A e \in Nat : e <= edits /\ InTree(e) => InTree(e)'
  <2> SUFFICES ASSUME NEW e \in Nat, e <= edits, InTree(e) PROVE InTree(e)'
    OBVIOUS
  <2>1. ASSUME NEW i \in DOMAIN chain', \A j \in DOMAIN chain : e <= chain[j].edit
        PROVE  e <= chain'[i].edit
    <3>1. CASE i = Len(chain) + 1 BY <1>1, <1>2, <3>1
    <3>2. CASE i # Len(chain) + 1
      <4>1. i \in 1..Len(chain) BY <1>1, <1>2, <3>2, Numbers
      <4> QED BY <1>2, <2>1, <4>1
    <3> QED BY <3>1, <3>2
  <2> QED BY <2>1 DEF InTree
<1>7. ASSUME NEW i \in DOMAIN chain'
      PROVE  chain'[i] = armed \/ \E j \in DOMAIN chain : chain'[i] = chain[j]
  <2>1. i = Len(chain) + 1 \/ i \in 1..Len(chain) BY <1>1, <1>2, Numbers
  <2> QED BY <1>2, <2>1
<1> QED BY <1>1, <1>2, <1>3, <1>5, <1>6, <1>7, Numbers, SMTT(20)

\* The timer that fires preserves the invariant.
LEMMA TimerKeeps ==
  ASSUME IInv, TimerFires
  PROVE  IInv'
<1> USE DEF IInv
<1>0. TypeOK BY DEF IInv
<1>1. /\ armed # NoForest /\ chain' = Append(chain, armed) /\ armed' = NoForest
      /\ UNCHANGED <<mem, disk, failed, gates, blocked, op, waiting, reads, yields, paused,
                     kept, saved, edits, dropped, missed, void, astray, opsLeft, faultsLeft>>
  BY DEF TimerFires, loads, ghosts, drops, bounds
<1>2. /\ chain' \in Seq(Forests) /\ chain' # <<>> /\ gates = 0
      /\ Flushed(edits)'
      /\ \A e \in Nat : e <= edits /\ Flushed(e) => Flushed(e)'
      /\ \A e \in Nat : e <= edits /\ InTree(e) => InTree(e)'
      /\ \A i \in DOMAIN chain' :
           chain'[i] = armed \/ \E j \in DOMAIN chain : chain'[i] = chain[j]
  BY <1>1, ArmedJoins
<1>3. TypeOK' BY <1>0, <1>1, <1>2 DEF TypeOK
<1>4. Gated' BY <1>1, <1>2 DEF Gated, GitOnTree
<1>5. Budget' BY <1>0, <1>1, <1>2, Numbers DEF Budget, Left, Pending
<1>6. ReadsOfThisTree' /\ OfThisTree' BY <1>1, <1>2 DEF ReadsOfThisTree, OfThisTree
<1>7. Edited' BY <1>0, <1>1, <1>2, Numbers DEF Edited, Flushing
<1>8. Examples' BY <1>1 DEF Examples
<1> QED BY <1>1, <1>3, <1>4, <1>5, <1>6, <1>7, <1>8

\* A write that ends preserves the invariant.
LEMMA MirrorKeeps ==
  ASSUME IInv, MirrorEnds
  PROVE  IInv'
<1> USE DEF IInv
<1>0. TypeOK BY DEF IInv
<1>1. PICK ok \in BOOLEAN :
        Fault(~ok) /\ failed' = ~ok /\ disk' = IF ok THEN Written(Head(chain)) ELSE disk
  BY DEF MirrorEnds, Record
<1>2. /\ chain # <<>>
      /\ UNCHANGED <<mem, armed, gates, blocked, op, waiting, reads, yields, paused, kept,
                     saved, edits, dropped, missed, void, astray>>
  BY DEF MirrorEnds, loads, ghosts, drops
<1>3. gates = 0 /\ chain' = Tail(chain) /\ reads = <<>> /\ ~GitOnTree
  <2>1. gates = 0 BY <1>0, <1>2, Numbers DEF Gated
  <2>2. reads = <<>> /\ ~GitOnTree BY <1>0, <2>1, Holders
  <2> QED BY <2>1, <2>2 DEF MirrorEnds, Remaining
<1>4. /\ chain' \in Seq(Forests) /\ Len(chain') = Len(chain) - 1
      /\ Head(chain) = chain[1] /\ Head(chain) \in Forests /\ 1 \in DOMAIN chain
      /\ chain' = <<>> <=> Len(chain) = 1
      /\ DOMAIN chain' = 1..(Len(chain) - 1) /\ DOMAIN chain = 1..Len(chain)
      /\ \A i \in 1..(Len(chain) - 1) : chain'[i] = chain[i + 1]
  BY <1>0, <1>2, <1>3, Dequeued DEF TypeOK
<1>5. /\ disk' \in Forests /\ disk'.node # "full"
      /\ disk'.gen = IF ok THEN chain[1].gen ELSE disk.gen
      /\ disk'.edit = IF ok THEN chain[1].edit ELSE disk.edit
  BY <1>0, <1>1, <1>4, WrittenFacts DEF TypeOK
<1>6. opsLeft' = opsLeft /\ faultsLeft' \in 0..MaxFaults
  BY <1>0, <1>1, FaultFacts, Numbers DEF TypeOK
<1>13. \A i \in DOMAIN chain' : \E j \in DOMAIN chain : chain'[i] = chain[j]
  <2>1. \A i \in 1..(Len(chain) - 1) : i + 1 \in 1..Len(chain) BY <1>4
  <2> QED BY <1>4, <2>1
<1>7. TypeOK' BY <1>0, <1>1, <1>2, <1>4, <1>5, <1>6 DEF TypeOK
<1>8. Gated' BY <1>0, <1>2, <1>3, Numbers DEF Gated, GitOnTree
<1>9. Budget'
  <2>1. Left' = Left BY <1>2, <1>6 DEF Left, Pending
  <2> QED BY <1>2, <1>4, <1>5, <1>6, <1>13, <2>1 DEF Budget
<1>10. ReadsOfThisTree' /\ OfThisTree'
  <2>1. \A i \in DOMAIN reads : FALSE BY <1>3
  <2>2. ReadsOfThisTree' BY <1>2, <2>1 DEF ReadsOfThisTree
  <2>3. CASE paused \/ astray # {}
    <3>1. paused' = paused /\ astray' = astray BY <1>2
    <3> QED BY <2>2, <2>3, <3>1 DEF OfThisTree
  <2>4. CASE ~paused /\ astray = {}
    <3>1. disk'.gen = disk.gen BY <1>4, <1>5, <2>4 DEF OfThisTree
    <3>2. \A i \in DOMAIN chain' : chain'[i].gen = disk.gen BY <1>13, <2>4 DEF OfThisTree
    <3>3. mem.gen = disk.gen \/ blocked BY <2>1, <2>4 DEF OfThisTree
    <3>4. armed # NoForest => armed.gen = disk.gen BY <2>4 DEF OfThisTree
    <3>5. mem' = mem /\ armed' = armed /\ blocked' = blocked BY <1>2
    <3> QED BY <2>2, <3>1, <3>2, <3>3, <3>4, <3>5 DEF OfThisTree
  <2> QED BY <2>2, <2>3, <2>4
<1>11. Edited'
  <2>1. ASSUME NEW e \in Nat, Flushed(e) PROVE Flushed(e)'
    <3>1. CASE e <= dropped \/ e <= void BY <1>2, <3>1 DEF Flushed
    <3>2. CASE e <= chain[Len(chain)].edit
      <4>1. CASE Len(chain) = 1
        <5>1. chain' = <<>> /\ (failed' \/ e <= disk'.edit) BY <1>1, <1>4, <1>5, <3>2, <4>1
        <5> QED BY <5>1 DEF Flushed
      <4>2. CASE Len(chain) # 1
        <5>1. Len(chain') \in 1..(Len(chain) - 1) /\ Len(chain') + 1 = Len(chain) /\ chain' # <<>>
          <6>1. Len(chain) \in Nat /\ Len(chain) > 1 BY <1>0, <1>2, <4>2, Numbers
          <6>2. chain' # <<>> BY <1>4, <4>2
          <6> QED BY <1>4, <6>1, <6>2
        <5>2. chain'[Len(chain')] = chain[Len(chain)] BY <1>4, <5>1
        <5> QED BY <3>2, <5>1, <5>2 DEF Flushed
      <4> QED BY <4>1, <4>2
    <3> QED BY <1>2, <2>1, <3>1, <3>2 DEF Flushed
  <2>2. ASSUME NEW e \in Nat, InTree(e) PROVE InTree(e)'
    <3>1. CASE e <= dropped \/ e <= void BY <1>2, <3>1 DEF InTree
    <3>2. CASE e <= disk.edit /\ \A i \in DOMAIN chain : e <= chain[i].edit
      <4>1. e <= disk'.edit BY <1>4, <1>5, <3>2
      <4>2. ASSUME NEW i \in DOMAIN chain' PROVE e <= chain'[i].edit
        <5>1. \E j \in DOMAIN chain : chain'[i] = chain[j] BY <1>13
        <5> QED BY <3>2, <5>1
      <4> QED BY <4>1, <4>2 DEF InTree
    <3> QED BY <2>2, <3>1, <3>2 DEF InTree
  <2> QED BY <1>0, <1>2, <2>1, <2>2, Numbers DEF Edited, Flushing
<1>12. Examples' BY <1>2 DEF Examples
<1> QED BY <1>2, <1>7, <1>8, <1>9, <1>10, <1>11, <1>12

-----------------------------------------------------------------------------
(* The operations. *)

\* An operation ends, or has only to refresh, and leaves the tree alone.
LEMMA OpEndsKeeps ==
  ASSUME IInv, ~GitOnTree, op' \in {Idle, [op EXCEPT !.step = "refresh"]},
         UNCHANGED <<mem, disk, syncVars, blocked, loads, paused, kept, saved,
                     ghosts, bounds>>
  PROVE  IInv'
<1> USE DEF IInv
<1>0. TypeOK BY DEF IInv
<1>1. UNCHANGED <<mem, disk, armed, chain, failed, gates, blocked, waiting, reads, yields,
                  paused, kept, saved, edits, dropped, missed, void, astray, opsLeft,
                  faultsLeft>>
  BY DEF syncVars, loads, ghosts, drops, bounds
<1>2. /\ op'.step \in {"idle", "refresh"} /\ op'.seen \in 0..edits /\ op'.seen \in 0..MaxEdits
      /\ op' \in [kind : Mutating \cup {"none"}, seen : 0..MaxEdits,
                  step : {"idle", "flush", "status", "flushAgain", "git", "refresh"}]
  <2>1. op.seen \in Nat /\ edits \in Nat /\ MaxEdits \in Nat /\ edits <= MaxEdits
    BY <1>0, Numbers DEF TypeOK
  <2>2. op.seen \in 0..edits /\ 0 \in 0..edits BY <2>1 DEF Edited
  <2>3. op' = Idle \/ op' = [op EXCEPT !.step = "refresh"] OBVIOUS
  <2>4. op'.seen \in {op.seen, 0} /\ op'.step \in {"idle", "refresh"}
    BY <1>0, <2>3 DEF TypeOK, Idle
  <2>5. op' \in [kind : Mutating \cup {"none"}, seen : 0..MaxEdits,
                 step : {"idle", "flush", "status", "flushAgain", "git", "refresh"}]
    BY <1>0, <2>1, <2>3, SMTT(20) DEF TypeOK, Idle
  <2> QED BY <2>1, <2>2, <2>4, <2>5
<1>3. ~GitOnTree' /\ ~Pending' /\ ~Flushing' BY <1>2 DEF GitOnTree, Pending, Flushing
<1>4. TypeOK' BY <1>0, <1>1, <1>2 DEF TypeOK
<1>5. Gated'
  <2>1. One(GitOnTree)' = One(GitOnTree) BY <1>3 DEF One
  <2> QED BY <1>1, <2>1 DEF Gated
<1>6. Budget'
  <2>1. Left' \in Nat /\ Left' <= Left
    <3>1. opsLeft \in Nat /\ waiting \in Nat /\ Left' = waiting + opsLeft
      BY <1>0, <1>1, <1>3, Numbers DEF Left, One
    <3> QED BY <1>0, <3>1, LessLeft
  <2> QED BY <1>0, <1>1, <2>1, LessLeft DEF Budget
<1>7. ReadsOfThisTree' /\ OfThisTree' BY <1>1 DEF ReadsOfThisTree, OfThisTree
<1>8. Edited' BY <1>1, <1>2, <1>3 DEF Edited, Flushed
<1>9. Examples' BY <1>1 DEF Examples
<1> QED BY <1>1, <1>4, <1>5, <1>6, <1>7, <1>8, <1>9

\* What TakePending does to the edits and the forests.
LEMMA Taken ==
  ASSUME IInv, TakePending,
         UNCHANGED <<mem, disk, failed, gates, blocked, reads, yields, paused, kept, saved,
                     edits, dropped, missed, void, astray>>
  PROVE  /\ armed' = NoForest /\ chain' \in Seq(Forests)
         /\ gates > 0 => chain' = <<>>
         /\ Flushed(edits)'
         /\ \A e \in Nat : e <= edits /\ InTree(e) => Flushed(e)'
         /\ \A e \in Nat : e <= edits /\ Flushed(e) => Flushed(e)'
         /\ \A e \in Nat : e <= edits /\ InTree(e) => InTree(e)'
         /\ \A i \in DOMAIN chain' :
              (armed # NoForest /\ chain'[i] = armed) \/ \E j \in DOMAIN chain : chain'[i] = chain[j]
<1> USE DEF IInv
<1>0. TypeOK BY DEF IInv
<1>1. CASE armed = NoForest
  <2>1. armed' = NoForest /\ chain' = chain BY <1>1 DEF TakePending
  <2>2. chain' \in Seq(Forests) /\ (gates > 0 => chain' = <<>>)
    BY <1>0, <2>1 DEF TypeOK, Gated
  <2>3. Flushed(edits)' BY <1>1, <2>1 DEF Edited, Flushed
  <2>4. \A e \in Nat : InTree(e) => Flushed(e)
    BY <1>0, Numbers DEF InTree, Flushed
  <2>5. \A e : (Flushed(e) => Flushed(e)') /\ (InTree(e) => InTree(e)')
    BY <2>1 DEF Flushed, InTree
  <2> QED BY <2>1, <2>2, <2>3, <2>4, <2>5
<1>2. CASE armed # NoForest
  <2>1. armed' = NoForest /\ chain' = Append(chain, armed) BY <1>2 DEF TakePending
  <2>2. /\ chain' \in Seq(Forests) /\ chain' # <<>> /\ gates = 0 /\ Flushed(edits)'
        /\ \A e \in Nat : e <= edits /\ InTree(e) => InTree(e)'
        /\ \A i \in DOMAIN chain' :
             chain'[i] = armed \/ \E j \in DOMAIN chain : chain'[i] = chain[j]
    BY <1>2, <2>1, ArmedJoins
  <2>3. \A e \in Nat : e <= edits => Flushed(e)'
    <3>1. TypeOK /\ armed \in Forests /\ armed.edit = edits
      BY <1>0, <1>2, Numbers DEF Edited
    <3>2. chain'[Len(chain')] = armed
      BY <1>0, <2>1, <3>1, Appended DEF TypeOK
    <3> QED BY <2>2, <3>1, <3>2 DEF Flushed
  <2> QED BY <1>2, <2>1, <2>2, <2>3
<1> QED BY <1>1, <1>2

\* An operation that starts preserves the invariant.
LEMMA StartKeeps ==
  ASSUME IInv, StartOp
  PROVE  IInv'
<1> USE DEF IInv
<1>0. TypeOK BY DEF IInv
<1>1. PICK kind \in Mutating :
        op' = [kind |-> kind, step |-> "flush", seen |-> edits]
  BY DEF StartOp
<1>2. /\ op = Idle /\ ~paused /\ opsLeft > 0 /\ opsLeft' = opsLeft - 1 /\ TakePending
      /\ UNCHANGED <<mem, disk, failed, gates, blocked, waiting, reads, yields, paused, kept,
                     saved, edits, dropped, missed, void, astray, faultsLeft>>
  BY DEF StartOp, loads, ghosts, drops
<1>3. /\ armed' = NoForest /\ chain' \in Seq(Forests)
      /\ gates > 0 => chain' = <<>>
      /\ Flushed(edits)'
      /\ \A i \in DOMAIN chain' :
           (armed # NoForest /\ chain'[i] = armed) \/ \E j \in DOMAIN chain : chain'[i] = chain[j]
  BY <1>2, Taken
<1>4. /\ ~GitOnTree /\ ~GitOnTree' /\ ~Pending /\ Pending' /\ Flushing'
      /\ op'.step = "flush" /\ op'.seen = edits
  BY <1>1, <1>2 DEF GitOnTree, Pending, Flushing, Idle
<1>5. TypeOK'
  <2>1. op' \in [kind : Mutating \cup {"none"}, seen : 0..MaxEdits,
                 step : {"idle", "flush", "status", "flushAgain", "git", "refresh"}]
    BY <1>0, <1>1 DEF TypeOK
  <2>2. opsLeft' \in 0..MaxOps
    <3>1. opsLeft \in 0..MaxOps /\ MaxOps \in Nat BY <1>0, Numbers DEF TypeOK
    <3> QED BY <1>2, <3>1
  <2> QED BY <1>0, <1>2, <1>3, <2>1, <2>2 DEF TypeOK
<1>6. Gated'
  <2>1. One(GitOnTree)' = One(GitOnTree) BY <1>4 DEF One
  <2> QED BY <1>2, <1>3, <2>1 DEF Gated
<1>7. Budget'
  <2>1. Left' = Left /\ waiting + opsLeft' <= MaxOps
    <3>1. One(Pending) = 0 /\ One(Pending)' = 1 BY <1>4 DEF One
    <3>2. waiting \in Nat /\ opsLeft \in Nat /\ MaxOps \in Nat /\ waiting + opsLeft <= MaxOps
      BY <1>0, Numbers DEF Budget
    <3>3. waiting' = waiting /\ opsLeft' = opsLeft - 1 BY <1>2
    <3> QED BY <3>1, <3>2, <3>3 DEF Left
  <2> QED BY <1>2, <1>3, <2>1 DEF Budget
<1>8. ReadsOfThisTree' /\ OfThisTree' BY <1>2, <1>3 DEF ReadsOfThisTree, OfThisTree
<1>9. Edited' BY <1>0, <1>2, <1>3, <1>4, Numbers DEF Edited
<1>10. Examples' BY <1>2 DEF Examples
<1> QED BY <1>0, <1>2, <1>5, <1>6, <1>7, <1>8, <1>9, <1>10

\* suspendMirroring after a flush: what it drops is known to be dropped.
LEMMA SuspendDrops ==
  ASSUME IInv, NEW git, Suspend(git), chain = <<>>, op'.seen = op.seen,
         UNCHANGED <<disk, chain, failed, edits, void>>
  PROVE  /\ armed' = NoForest /\ gates' = gates + 1
         /\ dropped' \in {dropped, edits} /\ missed' \in {missed, edits}
         /\ Flushed(edits)'
         /\ Flushed(op.seen) => Flushed(op.seen)'
         /\ InTree(op.seen) => InTree(op.seen)'
<1> USE DEF IInv
<1>1. edits \in Nat /\ op.seen \in Nat /\ op.seen <= edits BY Numbers DEF Edited
<1>2. CASE armed = NoForest
  <2>1. UNCHANGED <<dropped, missed>> /\ armed' = NoForest /\ gates' = gates + 1
    BY <1>2 DEF Suspend, drops
  <2>2. Flushed(edits) BY <1>2 DEF Edited
  <2> QED BY <2>1, <2>2 DEF Flushed, InTree
<1>3. CASE armed # NoForest
  <2>1. /\ dropped' = edits /\ missed' \in {missed, edits}
        /\ armed' = NoForest /\ gates' = gates + 1
    BY <1>3 DEF Suspend, Drop
  <2> QED BY <1>1, <2>1 DEF Flushed, InTree
<1> QED BY <1>2, <1>3

\* A flush that succeeded has the edits in the tree.
LEMMA FlushedIsInTree ==
  ASSUME TypeOK, NEW e, Flushed(e), chain = <<>>, ~failed
  PROVE  InTree(e)
BY Numbers, EmptySeq DEF Flushed, InTree

\* A flush that succeeds, and what starts then, preserves the invariant.
LEMMA SucceedKeeps ==
  ASSUME IInv, FlushSucceeds
  PROVE  IInv'
<1> USE DEF IInv
<1>0. TypeOK BY DEF IInv
<1>1. /\ Flushing /\ chain = <<>> /\ ~failed
      /\ UNCHANGED <<mem, disk, chain, failed, blocked, waiting, reads, yields, paused, kept,
                     saved, edits, void, astray, opsLeft, faultsLeft>>
  BY DEF FlushSucceeds, loads, bounds
<1>2. \/ /\ op' = [op EXCEPT !.step = "status"]
         /\ UNCHANGED <<armed, gates, dropped, missed>>
      \/ /\ op.kind \notin Suspended /\ op' = [op EXCEPT !.step = "git"]
         /\ UNCHANGED <<armed, gates, dropped, missed>>
      \/ op.kind \in Suspended /\ op' = [op EXCEPT !.step = "git"] /\ Suspend(TRUE)
  BY DEF FlushSucceeds, drops
<1>3. /\ op'.seen = op.seen /\ op'.kind = op.kind
      /\ op'.step \in {"status", "git"} /\ Pending' /\ ~Flushing'
      /\ op' \in [kind : Mutating \cup {"none"}, seen : 0..MaxEdits,
                  step : {"idle", "flush", "status", "flushAgain", "git", "refresh"}]
  BY <1>0, <1>2 DEF TypeOK, Pending, Flushing
<1>4. /\ ~GitOnTree /\ Pending /\ Left' = Left
  BY <1>1, <1>3 DEF GitOnTree, Pending, Flushing, Left, One
<1>5. InTree(op.seen) BY <1>0, <1>1, FlushedIsInTree DEF Edited
<1>6. CASE UNCHANGED <<armed, gates, dropped, missed>> /\ ~GitOnTree'
  <2>1. TypeOK' BY <1>0, <1>1, <1>3, <1>6 DEF TypeOK
  <2>2. Gated'
    <3>1. One(GitOnTree)' = One(GitOnTree) BY <1>4, <1>6 DEF One
    <3> QED BY <1>1, <1>6, <3>1 DEF Gated
  <2>3. Budget' BY <1>1, <1>4, <1>6 DEF Budget
  <2>4. ReadsOfThisTree' /\ OfThisTree' BY <1>1, <1>6 DEF ReadsOfThisTree, OfThisTree
  <2>5. Edited' BY <1>0, <1>1, <1>3, <1>5, <1>6, Numbers DEF Edited, Flushed, InTree
  <2>6. Examples' BY <1>1 DEF Examples
  <2> QED BY <2>1, <2>2, <2>3, <2>4, <2>5, <2>6
<1>7. CASE Suspend(TRUE) /\ GitOnTree'
  <2>1. gates' = gates + 1 BY <1>7 DEF Suspend
  <2>2. /\ armed' = NoForest /\ dropped' \in {dropped, edits} /\ missed' \in {missed, edits}
        /\ Flushed(edits)' /\ (InTree(op.seen) => InTree(op.seen)')
    BY <1>1, <1>3, <1>7, SuspendDrops
  <2>3. Edited' BY <1>0, <1>1, <1>3, <1>5, <2>2, Numbers DEF Edited
  <2>4. gates' = Len(reads) + yields + 1 /\ gates' \in 0..(MaxOps + 1)
    <3>1. One(GitOnTree) = 0 BY <1>4 DEF One
    <3>2. gates = Len(reads) + yields /\ Len(reads) \in Nat /\ yields \in Nat /\ MaxOps \in Nat
      BY <1>0, <3>1, Numbers DEF Gated
    <3>3. Left = waiting + (1 + opsLeft) /\ waiting \in Nat /\ opsLeft \in Nat
      BY <1>0, <1>4, LessLeft, Numbers
    <3>4. Len(reads) + yields + 1 <= MaxOps + 1
      <4>1. 1 <= Left /\ 1 \in Nat BY <3>3
      <4> QED BY <1>0, <4>1, LessLeft
    <3> QED BY <2>1, <3>2, <3>4
  <2>5. Gated'
    <3>1. One(GitOnTree)' = 1 BY <1>7 DEF One
    <3> QED BY <1>1, <2>2, <2>4, <3>1 DEF Gated
  <2>6. TypeOK'
    <3>1. dropped' \in 0..MaxEdits /\ missed' \in 0..MaxEdits
      BY <1>0, <2>2 DEF TypeOK
    <3> QED BY <1>0, <1>1, <1>3, <2>2, <2>4, <3>1 DEF TypeOK
  <2>7. Budget' BY <1>1, <1>4, <2>2 DEF Budget
  <2>8. ReadsOfThisTree' /\ OfThisTree' BY <1>1, <2>2 DEF ReadsOfThisTree, OfThisTree
  <2>9. Examples' BY <1>1 DEF Examples
  <2> QED BY <2>3, <2>5, <2>6, <2>7, <2>8, <2>9
<1>8. \/ UNCHANGED <<armed, gates, dropped, missed>> /\ ~GitOnTree'
      \/ Suspend(TRUE) /\ GitOnTree'
  <2>1. CASE op' = [op EXCEPT !.step = "status"]
    <3>1. op'.step = "status" BY <1>0, <2>1 DEF TypeOK
    <3>2. op' # [op EXCEPT !.step = "git"] BY <1>0, <3>1 DEF TypeOK
    <3> QED BY <1>2, <3>1, <3>2 DEF GitOnTree
  <2>2. CASE op' = [op EXCEPT !.step = "git"]
    <3>1. op'.step = "git" BY <1>0, <2>2 DEF TypeOK
    <3>2. op' # [op EXCEPT !.step = "status"] BY <1>0, <3>1 DEF TypeOK
    <3> QED BY <1>2, <1>3, <3>1, <3>2 DEF GitOnTree
  <2> QED BY <1>2, <2>1, <2>2
<1> QED BY <1>6, <1>7, <1>8

\* A second flush of a switch, after git status.
LEMMA FlushAgainKeeps ==
  ASSUME IInv, op.step = "status", FlushAgain,
         UNCHANGED <<mem, disk, failed, blocked, waiting, reads, yields, paused, kept, saved,
                     edits, void, astray, bounds>>
  PROVE  IInv'
<1> USE DEF IInv
<1>0. TypeOK BY DEF IInv
<1>1. /\ op' = [op EXCEPT !.step = "flushAgain"] /\ TakePending
      /\ UNCHANGED <<mem, disk, failed, gates, blocked, waiting, reads, yields, paused, kept,
                     saved, edits, dropped, missed, void, astray, opsLeft, faultsLeft>>
  BY DEF FlushAgain, drops, bounds
<1>2. /\ armed' = NoForest /\ chain' \in Seq(Forests)
      /\ gates > 0 => chain' = <<>>
      /\ Flushed(edits)'
      /\ \A e \in Nat : e <= edits /\ InTree(e) => Flushed(e)'
      /\ \A i \in DOMAIN chain' :
           (armed # NoForest /\ chain'[i] = armed) \/ \E j \in DOMAIN chain : chain'[i] = chain[j]
  BY <1>1, Taken
<1>3. /\ op'.step = "flushAgain" /\ op'.seen = op.seen /\ op'.kind = op.kind
      /\ op' \in [kind : Mutating \cup {"none"}, seen : 0..MaxEdits,
                  step : {"idle", "flush", "status", "flushAgain", "git", "refresh"}]
  BY <1>0, <1>1 DEF TypeOK
<1>4. /\ ~GitOnTree /\ ~GitOnTree' /\ Pending /\ Pending' /\ Flushing'
  BY <1>3 DEF GitOnTree, Pending, Flushing
<1>5. TypeOK' BY <1>0, <1>1, <1>2, <1>3 DEF TypeOK
<1>6. Gated'
  <2>1. One(GitOnTree)' = One(GitOnTree) BY <1>4 DEF One
  <2> QED BY <1>1, <1>2, <2>1 DEF Gated
<1>7. Budget'
  <2>1. Left' = Left BY <1>1, <1>4 DEF Left, One
  <2> QED BY <1>1, <1>2, <2>1 DEF Budget
<1>8. ReadsOfThisTree' /\ OfThisTree' BY <1>1, <1>2 DEF ReadsOfThisTree, OfThisTree
<1>9. Edited' BY <1>0, <1>1, <1>2, <1>3, <1>4, Numbers DEF Edited
<1>10. Examples' BY <1>1 DEF Examples
<1> QED BY <1>0, <1>1, <1>5, <1>6, <1>7, <1>8, <1>9, <1>10

\* Git throws, or stops at a conflict: the gate is opened and nothing is read.
LEMMA GitStopsKeeps ==
  ASSUME IInv, GitOnTree,
         op' \in {Idle, [op EXCEPT !.step = "refresh"]},
         gates' = gates - 1, faultsLeft' \in 0..MaxFaults,
         UNCHANGED <<mem, armed, chain, failed, blocked, waiting, reads, yields, kept, saved,
                     edits, dropped, missed, void, astray, opsLeft>>,
         UNCHANGED <<disk, paused>> \/ (NewTree /\ paused' = TRUE)
  PROVE  IInv'
<1> USE DEF IInv
<1>0. TypeOK BY DEF IInv
<1>1. /\ op'.step \in {"idle", "refresh"} /\ op'.seen \in {op.seen, 0}
      /\ op' \in [kind : Mutating \cup {"none"}, seen : 0..MaxEdits,
                  step : {"idle", "flush", "status", "flushAgain", "git", "refresh"}]
  <2>1. op' = Idle \/ op' = [op EXCEPT !.step = "refresh"] OBVIOUS
  <2>2. 0 \in 0..MaxEdits BY <1>0, Numbers
  <2> QED BY <1>0, <2>1, <2>2 DEF TypeOK, Idle
<1>2. /\ ~GitOnTree' /\ Pending /\ ~Pending' /\ ~Flushing'
  BY <1>1 DEF GitOnTree, Pending, Flushing
<1>3. gates > 0 /\ armed = NoForest /\ chain = <<>> BY <1>0, Holders
<1>4. /\ Left' = waiting + opsLeft /\ Left' \in Nat /\ Left = Left' + 1
  <2>1. One(Pending) = 1 /\ One(Pending)' = 0 BY <1>2 DEF One
  <2>2. waiting \in Nat /\ opsLeft \in Nat BY <1>0, Numbers
  <2>3. waiting' = waiting /\ opsLeft' = opsLeft OBVIOUS
  <2> QED BY <2>1, <2>2, <2>3 DEF Left
<1>5. \/ UNCHANGED <<disk, paused>>
      \/ /\ disk' \in Forests /\ disk'.node # "full" /\ disk'.gen = disk.gen + 1
         /\ disk'.edit = edits /\ paused' = TRUE
  <2>1. CASE UNCHANGED <<disk, paused>> BY <2>1
  <2>2. CASE NewTree /\ paused' = TRUE
    <3>1. PICK node \in {"absent", "bare"} :
            disk' = [gen |-> disk.gen + 1, edit |-> edits, node |-> node]
      BY <2>2 DEF NewTree
    <3>2. disk.gen + 1 \in 0..(MaxOps + 1) /\ edits \in 0..MaxEdits
      <4>1. disk.gen + 1 <= MaxOps + 1
        <5>1. 1 \in Nat /\ 1 <= Left BY <1>4
        <5> QED BY <1>0, <5>1, LessLeft
      <4>2. disk.gen \in Nat /\ MaxOps \in Nat /\ edits \in 0..MaxEdits
        BY <1>0, Numbers DEF TypeOK
      <4> QED BY <4>1, <4>2
    <3> QED BY <2>2, <3>1, <3>2 DEF Forests
  <2> QED BY <2>1, <2>2
<1>6. TypeOK'
  <2>1. gates' \in 0..(MaxOps + 1)
    <3>1. gates \in 0..(MaxOps + 1) /\ MaxOps \in Nat BY <1>0, Numbers DEF TypeOK
    <3> QED BY <1>3, <3>1
  <2>2. disk' \in Forests /\ disk'.node # "full" /\ paused' \in BOOLEAN
    BY <1>0, <1>5 DEF TypeOK
  <2> QED BY <1>0, <1>1, <1>3, <2>1, <2>2 DEF TypeOK
<1>7. Gated'
  <2>1. One(GitOnTree) = 1 /\ One(GitOnTree)' = 0 BY <1>2 DEF One
  <2>2. gates' = Len(reads') + yields' + 0
    <3>1. gates = Len(reads) + yields + 1 /\ Len(reads) \in Nat /\ yields \in Nat
      BY <1>0, <2>1, Numbers DEF Gated
    <3> QED BY <3>1
  <2> QED BY <1>3, <2>1, <2>2 DEF Gated
<1>8. Budget'
  <2>1. disk'.gen + Left' <= MaxOps + 1
    <3>1. disk.gen + (Left' + 1) <= MaxOps + 1 BY <1>4 DEF Budget
    <3>2. disk.gen \in Nat /\ MaxOps \in Nat /\ Left' \in Nat BY <1>0, <1>4, Numbers
    <3>3. disk'.gen \in {disk.gen, disk.gen + 1} BY <1>5
    <3> QED BY <3>1, <3>2, <3>3
  <2>2. /\ Len(reads) + yields + Left' <= MaxOps + 1 /\ mem.gen + Left' <= MaxOps + 1
        /\ \A i \in DOMAIN reads : reads[i].gen + Left' <= MaxOps + 1
    <3>1. Left' <= Left BY <1>4
    <3> QED BY <1>0, <1>4, <3>1, LessLeft
  <2> QED BY <1>3, <2>1, <2>2 DEF Budget
<1>9. ReadsOfThisTree' /\ OfThisTree'
  <2>1. CASE UNCHANGED <<disk, paused>> BY <1>3, <2>1 DEF ReadsOfThisTree, OfThisTree
  <2>2. CASE paused' = TRUE BY <2>2 DEF ReadsOfThisTree, OfThisTree
  <2> QED BY <2>1, <2>2
<1>10. Edited'
  <2>1. Flushed(edits)'
    <3>1. CASE UNCHANGED <<disk, paused>> BY <1>3, <3>1 DEF Edited, Flushed
    <3>2. CASE disk'.edit = edits BY <1>0, <1>3, <3>2, Numbers DEF Flushed
    <3> QED BY <1>5, <3>1, <3>2
  <2>2. op'.seen <= edits BY <1>0, <1>1, Numbers, SMTT(20) DEF Edited
  <2> QED BY <1>1, <1>2, <1>3, <2>1, <2>2 DEF Edited
<1>11. Examples' BY DEF Examples
<1> QED BY <1>0, <1>6, <1>7, <1>8, <1>9, <1>10, <1>11

\* A read begins: it joins those under way.
LEMMA ReadJoins ==
  ASSUME TypeOK, NEW read \in Reads, reads' = Append(reads, read)
  PROVE  /\ reads' \in Seq(Reads) /\ Len(reads') = Len(reads) + 1
         /\ DOMAIN reads' = 1..(Len(reads) + 1)
         /\ reads'[Len(reads) + 1] = read /\ Len(reads) + 1 \in DOMAIN reads'
         /\ \A i \in DOMAIN reads' :
              reads'[i] = read \/ \E j \in DOMAIN reads : reads'[i] = reads[j]
         /\ \A j \in DOMAIN reads : \E i \in DOMAIN reads' : reads'[i] = reads[j]
<1>1. /\ reads' \in Seq(Reads) /\ Len(reads') = Len(reads) + 1 /\ Len(reads) \in Nat
      /\ DOMAIN reads' = 1..(Len(reads) + 1) /\ DOMAIN reads = 1..Len(reads)
      /\ \A i \in 1..Len(reads) : reads'[i] = reads[i]
      /\ reads'[Len(reads) + 1] = read
  BY Appended DEF TypeOK
<1>2. Len(reads) + 1 \in DOMAIN reads' BY <1>1
<1>3. \A i \in DOMAIN reads' : i = Len(reads) + 1 \/ i \in DOMAIN reads BY <1>1
<1>4. \A j \in DOMAIN reads : j \in DOMAIN reads' BY <1>1
<1> QED BY <1>1, <1>2, <1>3, <1>4

\* Git has ended: the gate passes to the reload.
LEMMA GitEndsKeeps ==
  ASSUME IInv, GitEnds
  PROVE  IInv'
<1> USE DEF IInv
<1>0. TypeOK BY DEF IInv
<1> DEFINE read == [gen |-> disk'.gen, tile |-> FALSE]
<1>1. /\ GitOnTree /\ NewTree /\ reads' = Append(reads, read)
      /\ gates' = (gates - 1) + 1 /\ op' = [op EXCEPT !.step = "refresh"]
      /\ astray' = IF reads = <<>> THEN astray ELSE astray \cup {"crossed"}
      /\ UNCHANGED <<mem, armed, chain, failed, blocked, waiting, yields, paused, kept, saved,
                     edits, dropped, missed, void, opsLeft, faultsLeft>>
  BY DEF GitEnds, HandOver, drops, bounds
<1>2. /\ op'.step = "refresh" /\ op'.seen = op.seen
      /\ op' \in [kind : Mutating \cup {"none"}, seen : 0..MaxEdits,
                  step : {"idle", "flush", "status", "flushAgain", "git", "refresh"}]
  BY <1>0, <1>1 DEF TypeOK
<1>3. /\ ~GitOnTree' /\ Pending /\ ~Pending' /\ ~Flushing'
  BY <1>1, <1>2 DEF GitOnTree, Pending, Flushing
<1>4. gates > 0 /\ armed = NoForest /\ chain = <<>> /\ gates' = gates
  BY <1>0, <1>1, Holders, Numbers
<1>5. Left' = waiting + opsLeft /\ Left' \in Nat /\ Left = Left' + 1
  <2>1. One(Pending) = 1 /\ One(Pending)' = 0 BY <1>3 DEF One
  <2>2. waiting \in Nat /\ opsLeft \in Nat BY <1>0, Numbers
  <2>3. waiting' = waiting /\ opsLeft' = opsLeft BY <1>1
  <2> QED BY <2>1, <2>2, <2>3 DEF Left
<1>6. /\ disk' \in Forests /\ disk'.node # "full" /\ disk'.gen = disk.gen + 1
      /\ disk'.edit = edits /\ read \in Reads
  <2>1. PICK node \in {"absent", "bare"} :
          disk' = [gen |-> disk.gen + 1, edit |-> edits, node |-> node]
    BY <1>1 DEF NewTree
  <2>2. disk.gen + 1 \in 0..(MaxOps + 1) /\ edits \in 0..MaxEdits
    <3>1. disk.gen + 1 <= MaxOps + 1
      <4>1. 1 \in Nat /\ 1 <= Left BY <1>5
      <4> QED BY <1>0, <4>1, LessLeft
    <3>2. disk.gen \in Nat /\ MaxOps \in Nat /\ edits \in 0..MaxEdits
      BY <1>0, Numbers DEF TypeOK
    <3> QED BY <3>1, <3>2
  <2> QED BY <2>1, <2>2 DEF Forests, Reads
<1> HIDE DEF read
<1>7. /\ reads' \in Seq(Reads) /\ Len(reads') = Len(reads) + 1
      /\ DOMAIN reads' = 1..(Len(reads) + 1)
      /\ reads'[Len(reads) + 1] = read /\ Len(reads) + 1 \in DOMAIN reads'
      /\ \A i \in DOMAIN reads' : reads'[i] = read \/ \E j \in DOMAIN reads : reads'[i] = reads[j]
  BY <1>0, <1>1, <1>6, ReadJoins
<1>8. read.gen = disk'.gen /\ ~read.tile BY DEF read
<1>9. TypeOK' BY <1>0, <1>1, <1>2, <1>4, <1>6, <1>7 DEF TypeOK
<1>10. Gated'
  <2>1. One(GitOnTree) = 1 /\ One(GitOnTree)' = 0 BY <1>1, <1>3 DEF One
  <2>2. gates' = Len(reads') + yields' + 0
    <3>1. /\ gates = Len(reads) + yields + 1 /\ Len(reads) \in Nat /\ yields \in Nat
      BY <1>0, <2>1, Numbers DEF Gated
    <3>2. gates' = gates /\ yields' = yields /\ Len(reads') = Len(reads) + 1 BY <1>1, <1>4, <1>7
    <3> QED BY <3>1, <3>2
  <2> QED BY <1>1, <1>4, <2>1, <2>2 DEF Gated
<1>11. Budget'
  <2>1. /\ disk.gen \in Nat /\ Len(reads) \in Nat /\ yields \in Nat /\ MaxOps \in Nat
    BY <1>0, Numbers
  <2>2. Len(reads) + yields + Left <= MaxOps + 1 /\ disk.gen + Left <= MaxOps + 1
    BY DEF Budget
  <2>3. Len(reads') + yields + Left' <= MaxOps + 1 /\ disk'.gen + Left' <= MaxOps + 1
    BY <1>5, <1>6, <1>7, <2>1, <2>2
  <2>4. /\ mem.gen + Left' <= MaxOps + 1
        /\ \A i \in DOMAIN reads : reads[i].gen + Left' <= MaxOps + 1
    <3>1. Left' <= Left BY <1>5
    <3> QED BY <1>0, <1>5, <3>1, LessLeft
  <2>5. \A i \in DOMAIN reads' : reads'[i].gen + Left' <= MaxOps + 1
    BY <1>7, <1>8, <2>3, <2>4
  <2>6. \A i \in DOMAIN chain' : FALSE BY <1>1, <1>4
  <2>7. waiting' + opsLeft' <= MaxOps BY <1>1 DEF Budget
  <2> QED BY <1>1, <1>4, <2>3, <2>4, <2>5, <2>6, <2>7 DEF Budget
<1>12. ReadsOfThisTree'
  <2>1. CASE reads = <<>> BY <1>7, <1>8, <2>1 DEF ReadsOfThisTree
  <2>2. CASE reads # <<>>
    <3>1. "crossed" \in astray' BY <1>1, <2>2
    <3> QED BY <3>1 DEF ReadsOfThisTree
  <2> QED BY <2>1, <2>2
<1>13. OfThisTree'
  <2>1. \E i \in DOMAIN reads' : ~reads'[i].tile BY <1>7, <1>8
  <2>2. \A i \in DOMAIN chain' : FALSE BY <1>1, <1>4
  <2> QED BY <1>1, <1>4, <2>1, <2>2 DEF OfThisTree
<1>14. Edited'
  <2>1. Flushed(edits)' BY <1>0, <1>1, <1>4, <1>6, Numbers DEF Flushed
  <2> QED BY <1>1, <1>2, <1>3, <1>4, <2>1 DEF Edited
<1>15. Examples' BY <1>1 DEF Examples
<1> QED BY <1>9, <1>10, <1>11, <1>12, <1>13, <1>14, <1>15

-----------------------------------------------------------------------------
(* The reload. *)

\* A reload that starts preserves the invariant: it only flushes.
LEMMA StartReloadKeeps ==
  ASSUME IInv, StartReload
  PROVE  IInv'
<1> USE DEF IInv
<1>0. TypeOK BY DEF IInv
<1>1. /\ opsLeft > 0 /\ opsLeft' = opsLeft - 1 /\ waiting' = waiting + 1 /\ TakePending
      /\ UNCHANGED <<mem, disk, failed, gates, blocked, op, reads, yields, paused, kept, saved,
                     edits, dropped, missed, void, astray, faultsLeft>>
  BY DEF StartReload, ghosts, drops
<1>2. /\ armed' = NoForest /\ chain' \in Seq(Forests)
      /\ gates > 0 => chain' = <<>>
      /\ Flushed(edits)'
      /\ \A e \in Nat : e <= edits /\ Flushed(e) => Flushed(e)'
      /\ \A e \in Nat : e <= edits /\ InTree(e) => InTree(e)'
      /\ \A i \in DOMAIN chain' :
           (armed # NoForest /\ chain'[i] = armed) \/ \E j \in DOMAIN chain : chain'[i] = chain[j]
  BY <1>1, Taken
<1>3. waiting' \in 0..MaxOps /\ opsLeft' \in 0..MaxOps /\ Left' = Left
      /\ waiting' + opsLeft' <= MaxOps
  <2>1. /\ waiting \in Nat /\ opsLeft \in Nat /\ MaxOps \in Nat /\ waiting + opsLeft <= MaxOps
        /\ opsLeft <= MaxOps
    BY <1>0, Numbers DEF Budget, TypeOK
  <2>2. waiting' + opsLeft' = waiting + opsLeft BY <1>1, <2>1
  <2>3. One(Pending)' = One(Pending) /\ One(Pending) \in Nat BY <1>1 DEF One, Pending
  <2> QED BY <1>1, <2>1, <2>2, <2>3 DEF Left
<1>4. TypeOK' BY <1>0, <1>1, <1>2, <1>3 DEF TypeOK
<1>5. Gated' BY <1>1, <1>2 DEF Gated, GitOnTree
<1>6. Budget' BY <1>1, <1>2, <1>3 DEF Budget
<1>7. ReadsOfThisTree' /\ OfThisTree' BY <1>1, <1>2 DEF ReadsOfThisTree, OfThisTree
<1>8. Edited' BY <1>0, <1>1, <1>2, Numbers DEF Edited, Flushing
<1>9. Examples' BY <1>1 DEF Examples
<1> QED BY <1>4, <1>5, <1>6, <1>7, <1>8, <1>9

\* A reload that gives up, as its flush failed, preserves the invariant.
LEMMA ReloadFailsKeeps ==
  ASSUME IInv, ReloadFails
  PROVE  IInv'
<1> USE DEF IInv
<1>0. TypeOK BY DEF IInv
<1>1. /\ waiting > 0 /\ waiting' = waiting - 1
      /\ UNCHANGED <<mem, disk, armed, chain, failed, gates, blocked, op, reads, yields, paused,
                     kept, saved, edits, dropped, missed, void, astray, opsLeft, faultsLeft>>
  BY DEF ReloadFails, syncVars, ghosts, drops, bounds
<1>2. waiting' \in 0..MaxOps /\ waiting' + opsLeft' <= MaxOps /\ Left' \in Nat /\ Left' <= Left
  <2>1. /\ waiting \in Nat /\ opsLeft \in Nat /\ MaxOps \in Nat /\ waiting + opsLeft <= MaxOps
    BY <1>0, Numbers DEF Budget
  <2>2. One(Pending)' = One(Pending) /\ One(Pending) \in Nat BY <1>1 DEF One, Pending
  <2> QED BY <1>1, <2>1, <2>2 DEF Left
<1>3. TypeOK' BY <1>0, <1>1, <1>2 DEF TypeOK
<1>4. Gated' BY <1>1 DEF Gated, GitOnTree
<1>5. Budget' BY <1>0, <1>1, <1>2, LessLeft DEF Budget
<1>6. ReadsOfThisTree' /\ OfThisTree' BY <1>1 DEF ReadsOfThisTree, OfThisTree
<1>7. Edited' BY <1>1 DEF Edited, Flushed, InTree, Flushing
<1>8. Examples' BY <1>1 DEF Examples
<1> QED BY <1>3, <1>4, <1>5, <1>6, <1>7, <1>8

\* A reload that closes the gate and begins to read preserves the invariant,
\* also while git is at work.
LEMMA ReloadReadsKeeps ==
  ASSUME IInv, ReloadReads
  PROVE  IInv'
<1> USE DEF IInv
<1>0. TypeOK BY DEF IInv
<1> DEFINE read == [gen |-> disk.gen, tile |-> TRUE]
<1>1. /\ waiting > 0 /\ waiting' = waiting - 1 /\ chain = <<>> /\ Suspend(FALSE)
      /\ reads' = Append(reads, read)
      /\ UNCHANGED <<mem, disk, chain, failed, blocked, op, yields, paused, kept, saved, edits,
                     void, astray, opsLeft, faultsLeft>>
  BY DEF ReloadReads, bounds
<1>2. read \in Reads /\ read.gen = disk.gen BY <1>0, ForestFacts DEF TypeOK, Forests, Reads
<1> HIDE DEF read
<1>3. /\ reads' \in Seq(Reads) /\ Len(reads') = Len(reads) + 1
      /\ \A i \in DOMAIN reads' : reads'[i] = read \/ \E j \in DOMAIN reads : reads'[i] = reads[j]
      /\ \A j \in DOMAIN reads : \E i \in DOMAIN reads' : reads'[i] = reads[j]
  BY <1>0, <1>1, <1>2, ReadJoins
<1>4. /\ armed' = NoForest /\ gates' = gates + 1
      /\ dropped' \in {dropped, edits} /\ missed' \in {missed, edits}
      /\ Flushed(edits)'
      /\ Flushed(op.seen) => Flushed(op.seen)'
      /\ InTree(op.seen) => InTree(op.seen)'
  BY <1>1, SuspendDrops
<1>5. /\ waiting' \in 0..MaxOps /\ waiting' + opsLeft <= MaxOps
      /\ Left' \in Nat /\ Left = Left' + 1
  <2>1. /\ waiting \in Nat /\ opsLeft \in Nat /\ MaxOps \in Nat /\ waiting + opsLeft <= MaxOps
    BY <1>0, Numbers DEF Budget
  <2>2. One(Pending)' = One(Pending) /\ One(Pending) \in Nat BY <1>1 DEF One, Pending
  <2> QED BY <1>1, <2>1, <2>2 DEF Left
<1>6. Budget'
  <2>1. Len(reads') + yields + Left' <= MaxOps + 1
    <3>1. Len(reads) + yields + Left <= MaxOps + 1 BY DEF Budget
    <3> QED BY <1>0, <1>3, <1>5, <3>1, Numbers
  <2>2. /\ mem.gen + Left' <= MaxOps + 1 /\ disk.gen + Left' <= MaxOps + 1
        /\ \A i \in DOMAIN reads : reads[i].gen + Left' <= MaxOps + 1
    <3>1. \A m \in Nat : m <= m + 1 OBVIOUS
    <3>2. Left' \in Nat /\ Left' <= Left BY <1>5, <3>1
    <3> QED BY <1>0, <3>2, LessLeft
  <2>3. \A i \in DOMAIN reads' : reads'[i].gen + Left' <= MaxOps + 1
    BY <1>2, <1>3, <2>2
  <2>4. \A i \in DOMAIN chain' : FALSE BY <1>1
  <2> QED BY <1>1, <1>4, <1>5, <2>1, <2>2, <2>3, <2>4 DEF Budget
<1>7. Gated'
  <2>1. One(GitOnTree)' = One(GitOnTree) /\ One(GitOnTree) \in {0, 1}
    BY <1>1 DEF One, GitOnTree
  <2>2. /\ gates = Len(reads) + yields + One(GitOnTree) /\ Len(reads) \in Nat /\ yields \in Nat
    BY <1>0, Numbers DEF Gated
  <2>3. gates' = gates + 1 /\ yields' = yields /\ Len(reads') = Len(reads) + 1
    BY <1>1, <1>3, <1>4
  <2>4. gates' = Len(reads') + yields' + One(GitOnTree)' BY <2>1, <2>2, <2>3
  <2> QED BY <1>1, <1>4, <2>4 DEF Gated
<1>8. gates' \in 0..(MaxOps + 1)
  <2>1. One(GitOnTree) \in Nat /\ One(GitOnTree) <= One(Pending) /\ One(Pending) \in Nat
    BY DEF One, GitOnTree, Pending
  <2>2. One(Pending) <= Left'
    <3>1. Left' = One(Pending) + waiting' + opsLeft BY <1>1 DEF Left, Pending
    <3>2. waiting' \in Nat /\ opsLeft \in Nat /\ opsLeft' = opsLeft
      BY <1>0, <1>1, <1>5, Numbers
    <3> QED BY <2>1, <3>1, <3>2
  <2>3. gates' = Len(reads') + yields + One(GitOnTree) BY <1>1, <1>7 DEF Gated, GitOnTree, One
  <2>4. Len(reads') + yields + Left' <= MaxOps + 1 BY <1>1, <1>6 DEF Budget
  <2>5. Len(reads') \in Nat /\ yields \in Nat /\ MaxOps \in Nat BY <1>0, <1>3, Numbers
  <2> QED BY <1>5, <2>1, <2>2, <2>3, <2>4, <2>5
<1>9. TypeOK'
  <2>1. dropped' \in 0..MaxEdits /\ missed' \in 0..MaxEdits BY <1>0, <1>4 DEF TypeOK
  <2> QED BY <1>0, <1>1, <1>3, <1>4, <1>5, <1>8, <2>1 DEF TypeOK
<1>10. ReadsOfThisTree' BY <1>1, <1>2, <1>3 DEF ReadsOfThisTree
<1>11. OfThisTree'
  <2>1. \A i \in DOMAIN chain' : FALSE BY <1>1
  <2>2. (\E i \in DOMAIN reads : ~reads[i].tile) => \E i \in DOMAIN reads' : ~reads'[i].tile
    BY <1>3
  <2> QED BY <1>1, <1>4, <2>1, <2>2 DEF OfThisTree
<1>12. Edited' BY <1>1, <1>4 DEF Edited, Flushing
<1>13. Examples' BY <1>1 DEF Examples
<1> QED BY <1>6, <1>7, <1>9, <1>10, <1>11, <1>12, <1>13

\* One read is over, behind the gate.
LEMMA ReadIsOver ==
  ASSUME IInv, NEW i \in DOMAIN reads, RemoveRead(i), op' = op, opsLeft' = opsLeft
  PROVE  /\ gates > 0 /\ armed = NoForest /\ chain = <<>>
         /\ reads' \in Seq(Reads) /\ reads[i] \in Reads
         /\ Len(reads') = Len(reads) - 1 /\ Len(reads') \in Nat
         /\ \A j \in DOMAIN reads' : \E k \in DOMAIN reads : reads'[j] = reads[k]
         /\ \A k \in DOMAIN reads \ {i} : \E j \in DOMAIN reads' : reads'[j] = reads[k]
         /\ waiting' = waiting /\ Left' = Left /\ One(GitOnTree)' = One(GitOnTree)
<1> USE DEF IInv
<1>0. TypeOK BY DEF IInv
<1>1. /\ reads \in Seq(Reads) /\ i \in 1..Len(reads) /\ Len(reads) \in Nat
  BY <1>0, Numbers DEF TypeOK
<1>2. /\ reads' \in Seq(Reads) /\ Len(reads') = Len(reads) - 1 /\ reads[i] \in Reads
      /\ \A j \in DOMAIN reads' : \E k \in DOMAIN reads : reads'[j] = reads[k]
      /\ \A k \in DOMAIN reads \ {i} : \E j \in DOMAIN reads' : reads'[j] = reads[k]
  <2> DEFINE t == SubSeq(reads, 1, i - 1) \o SubSeq(reads, i + 1, Len(reads))
  <2>1. /\ t \in Seq(Reads) /\ Len(t) = Len(reads) - 1 /\ reads[i] \in Reads
        /\ \A j \in DOMAIN t : \E k \in DOMAIN reads : t[j] = reads[k]
        /\ \A k \in DOMAIN reads \ {i} : \E j \in DOMAIN t : t[j] = reads[k]
    BY <1>1, Removed
  <2>2. reads' = t BY DEF RemoveRead
  <2> HIDE DEF t
  <2> QED BY <2>1, <2>2
<1>3. reads # <<>> BY <1>1
<1>4. gates > 0 /\ armed = NoForest /\ chain = <<>> BY <1>0, <1>3, Holders
<1>5. waiting' = waiting BY DEF RemoveRead
<1>6. One(GitOnTree)' = One(GitOnTree) BY DEF GitOnTree, One
<1>7. Left' = Left BY <1>5 DEF Left, Pending
<1>8. Len(reads') \in Nat BY <1>1, <1>2
<1> QED BY <1>2, <1>4, <1>5, <1>6, <1>7, <1>8

\* A read that replaces the forest preserves the invariant.
LEMMA ReadEndsKeeps ==
  ASSUME IInv, NEW i \in DOMAIN reads, ReadEnds(i)
  PROVE  IInv'
<1> USE DEF IInv
<1>0. TypeOK BY DEF IInv
<1>1. /\ RemoveRead(i) /\ yields' = yields + 1 /\ blocked' = FALSE
      /\ astray' = IF \A j \in DOMAIN reads : reads[j].gen = disk.gen THEN {} ELSE astray
      /\ UNCHANGED <<disk, armed, chain, failed, gates, op, paused, saved, edits, dropped,
                     missed, opsLeft, faultsLeft>>
  BY DEF ReadEnds, syncVars, drops, bounds
<1>2. PICK tree \in TreeRead(i) : Replace(tree)
  BY DEF ReadEnds
<1>3. /\ gates > 0 /\ armed = NoForest /\ chain = <<>>
      /\ reads' \in Seq(Reads) /\ reads[i] \in Reads
      /\ Len(reads') = Len(reads) - 1 /\ Len(reads') \in Nat
      /\ \A j \in DOMAIN reads' : \E k \in DOMAIN reads : reads'[j] = reads[k]
      /\ waiting' = waiting /\ Left' = Left /\ One(GitOnTree)' = One(GitOnTree)
  BY <1>1, ReadIsOver
<1>4. /\ tree.gen \in {reads[i].gen, disk.gen} /\ tree.gen \in 0..(MaxOps + 1)
      /\ tree.node \in {"absent", "bare"} /\ tree.gen + Left <= MaxOps + 1
  <2>1. tree.gen \in {reads[i].gen, disk.gen} /\ tree.node \in {"absent", "bare", disk.node}
    BY <1>2 DEF TreeRead
  <2>2. disk \in Forests /\ disk.node # "full" BY <1>0 DEF TypeOK
  <2>3. disk.node \in {"absent", "bare"} /\ disk.gen \in 0..(MaxOps + 1)
    BY <2>2 DEF Forests
  <2>4. reads[i].gen \in 0..(MaxOps + 1) BY <1>3 DEF Reads
  <2> QED BY <2>1, <2>3, <2>4 DEF Budget
<1>5. /\ mem' \in Forests /\ mem'.gen = tree.gen /\ mem'.edit = edits
      /\ mem'.node = Overlay(tree)
      /\ kept' = ((kept \/ mem.node = "full") /\ tree.node = "absent") /\ void' = edits
  <2>1. Overlay(tree) \in {"absent", "bare", "full"} BY <1>4 DEF Overlay
  <2>2. mem' = [gen |-> tree.gen, edit |-> edits, node |-> Overlay(tree)]
    BY <1>2 DEF Replace
  <2>3. edits \in 0..MaxEdits BY <1>0 DEF TypeOK
  <2> QED BY <1>2, <1>4, <2>1, <2>2, <2>3 DEF Replace, HarvestAndPrune, Forests
<1>6. Budget'
  <2>1. Len(reads') + yields' + Left' <= MaxOps + 1
    <3>1. Len(reads) + yields + Left <= MaxOps + 1 BY DEF Budget
    <3>2. Left \in Nat BY <1>0, LessLeft
    <3> QED BY <1>0, <1>1, <1>3, <3>1, <3>2, Numbers
  <2> QED BY <1>1, <1>3, <1>4, <1>5, <2>1 DEF Budget
<1>7. TypeOK'
  <2>1. kept' \in BOOLEAN /\ void' \in 0..MaxEdits /\ astray' \subseteq {"skipped", "crossed"}
    BY <1>0, <1>1, <1>5 DEF TypeOK
  <2>2. yields' \in 0..(MaxOps + 1)
    <3>1. Len(reads') + yields' + Left' <= MaxOps + 1 /\ Left \in Nat /\ yields \in Nat
          /\ MaxOps \in Nat
      BY <1>0, <1>6, LessLeft, Numbers DEF Budget
    <3> QED BY <1>1, <1>3, <3>1
  <2> QED BY <1>0, <1>1, <1>3, <1>5, <2>1, <2>2 DEF TypeOK
<1>8. Gated'
  <2>1. /\ gates = Len(reads) + yields + One(GitOnTree) /\ Len(reads) \in Nat
        /\ yields \in Nat /\ One(GitOnTree) \in {0, 1}
    BY <1>0, Numbers DEF Gated, One
  <2>2. gates' = gates /\ yields' = yields + 1 BY <1>1
  <2>3. gates' = Len(reads') + yields' + One(GitOnTree)' BY <1>3, <2>1, <2>2
  <2> QED BY <1>1, <1>3, <2>3 DEF Gated
<1>9. ReadsOfThisTree'
  <2>1. CASE \A j \in DOMAIN reads : reads[j].gen = disk.gen
    BY <1>1, <1>3, <2>1 DEF ReadsOfThisTree
  <2>2. CASE ~(\A j \in DOMAIN reads : reads[j].gen = disk.gen)
    BY <1>1, <2>2 DEF ReadsOfThisTree
  <2> QED BY <2>1, <2>2
<1>10. OfThisTree'
  <2>1. \A j \in DOMAIN chain' : FALSE BY <1>1, <1>3
  <2>2. CASE \A j \in DOMAIN reads : reads[j].gen = disk.gen
    <3>1. mem'.gen = disk.gen BY <1>4, <1>5, <2>2
    <3> QED BY <1>1, <1>3, <2>1, <3>1 DEF OfThisTree
  <2>3. CASE ~(\A j \in DOMAIN reads : reads[j].gen = disk.gen)
    <3>1. paused \/ "crossed" \in astray BY <2>3 DEF ReadsOfThisTree
    <3> QED BY <1>1, <2>3, <3>1 DEF OfThisTree
  <2> QED BY <2>2, <2>3
<1>11. Edited'
  <2>1. op.seen <= edits /\ op.seen \in Nat /\ edits \in Nat BY <1>0, Numbers DEF Edited
  <2> QED BY <1>1, <1>3, <1>5, <2>1 DEF Edited, Flushed, InTree
<1>12. Examples' BY <1>0, <1>1, <1>4, <1>5 DEF Examples, Overlay, TypeOK, Forests
<1> QED BY <1>6, <1>7, <1>8, <1>9, <1>10, <1>11, <1>12

\* The turn that follows is over, and the gate opens: the invariant is preserved.
LEMMA YieldEndsKeeps ==
  ASSUME IInv, YieldEnds
  PROVE  IInv'
<1> USE DEF IInv
<1>0. TypeOK BY DEF IInv
<1>1. /\ yields > 0 /\ yields' = yields - 1 /\ gates' = gates - 1
      /\ UNCHANGED <<mem, disk, armed, chain, failed, blocked, op, waiting, reads, paused, kept,
                     saved, edits, dropped, missed, void, astray, opsLeft, faultsLeft>>
  BY DEF YieldEnds, Resume, ghosts, drops, bounds
<1>2. /\ gates = Len(reads) + yields + One(GitOnTree) /\ Len(reads) \in Nat
      /\ yields \in Nat /\ One(GitOnTree) \in {0, 1} /\ MaxOps \in Nat
      /\ gates <= MaxOps + 1 /\ yields <= MaxOps + 1
  BY <1>0, Numbers DEF Gated, One, TypeOK
<1>3. gates > 0 /\ armed = NoForest /\ chain = <<>> BY <1>1, <1>2 DEF Gated
<1>4. gates' \in 0..(MaxOps + 1) /\ yields' \in 0..(MaxOps + 1) BY <1>1, <1>2
<1>5. TypeOK' BY <1>0, <1>1, <1>3, <1>4 DEF TypeOK
<1>6. Gated'
  <2>1. One(GitOnTree)' = One(GitOnTree) BY <1>1 DEF One, GitOnTree
  <2> QED BY <1>1, <1>2, <1>3, <2>1 DEF Gated
<1>7. Budget'
  <2>1. Left' = Left /\ Left \in Nat BY <1>0, <1>1, LessLeft DEF Left, Pending
  <2>2. Len(reads) + yields + Left <= MaxOps + 1 BY DEF Budget
  <2>3. Len(reads) + yields' + Left <= MaxOps + 1 BY <1>1, <1>2, <2>1, <2>2
  <2> QED BY <1>1, <2>1, <2>3 DEF Budget
<1>8. ReadsOfThisTree' /\ OfThisTree' BY <1>1 DEF ReadsOfThisTree, OfThisTree
<1>9. Edited' BY <1>1 DEF Edited, Flushed, InTree, Flushing
<1>10. Examples' BY <1>1 DEF Examples
<1> QED BY <1>5, <1>6, <1>7, <1>8, <1>9, <1>10

\* A read that ends with the forest left alone, and opens the gate.
LEMMA ReadWithdraws ==
  ASSUME IInv, NEW i \in DOMAIN reads, RemoveRead(i), gates' = gates - 1,
         blocked' \in BOOLEAN, faultsLeft' \in 0..MaxFaults,
         astray' \subseteq {"skipped", "crossed"},
         UNCHANGED <<mem, disk, armed, chain, failed, op, yields, paused, kept, saved, edits,
                     drops, void, opsLeft>>
  PROVE  /\ TypeOK' /\ Gated' /\ Budget' /\ Edited' /\ Examples'
         /\ armed = NoForest /\ chain = <<>>
<1> USE DEF IInv
<1>0. TypeOK BY DEF IInv
<1>1. UNCHANGED <<mem, disk, armed, chain, failed, op, yields, paused, kept, saved, edits,
                  dropped, missed, void, opsLeft>>
  BY DEF drops
<1>2. /\ gates > 0 /\ armed = NoForest /\ chain = <<>>
      /\ reads' \in Seq(Reads)
      /\ Len(reads') = Len(reads) - 1 /\ Len(reads') \in Nat
      /\ \A j \in DOMAIN reads' : \E k \in DOMAIN reads : reads'[j] = reads[k]
      /\ waiting' = waiting /\ Left' = Left /\ One(GitOnTree)' = One(GitOnTree)
  BY <1>1, ReadIsOver
<1>3. gates' \in 0..(MaxOps + 1)
  <2>1. gates \in 0..(MaxOps + 1) /\ MaxOps \in Nat BY <1>0, Numbers DEF TypeOK
  <2> QED BY <1>2, <2>1
<1>4. TypeOK' BY <1>0, <1>1, <1>2, <1>3 DEF TypeOK
<1>5. Gated'
  <2>1. /\ gates = Len(reads) + yields + One(GitOnTree) /\ Len(reads) \in Nat
        /\ yields \in Nat /\ One(GitOnTree) \in {0, 1}
    BY <1>0, Numbers DEF Gated, One
  <2> QED BY <1>1, <1>2, <2>1 DEF Gated
<1>6. Budget'
  <2>1. Left \in Nat /\ Len(reads) + yields + Left <= MaxOps + 1 BY <1>0, LessLeft DEF Budget
  <2>2. Len(reads) \in Nat /\ yields \in Nat /\ MaxOps \in Nat BY <1>0, Numbers
  <2>3. Len(reads') + yields + Left' <= MaxOps + 1 BY <1>2, <2>1, <2>2
  <2> QED BY <1>1, <1>2, <2>3 DEF Budget
<1>7. Edited' BY <1>1 DEF Edited, Flushed, InTree, Flushing
<1>8. Examples' BY <1>1 DEF Examples
<1> QED BY <1>2, <1>4, <1>5, <1>6, <1>7, <1>8

\* A read whose tile is gone preserves the invariant: if it unblocks the root,
\* the forest is astray; else the forest is of this tree, or another read of git
\* still goes on.
LEMMA ReadUnusedKeeps ==
  ASSUME IInv, NEW i \in DOMAIN reads, ReadUnused(i)
  PROVE  IInv'
<1> USE DEF IInv
<1>0. TypeOK BY DEF IInv
<1>1. /\ reads[i].tile /\ RemoveRead(i) /\ gates' = gates - 1 /\ blocked' = FALSE
      /\ astray' = IF blocked THEN astray \cup {"skipped"} ELSE astray
      /\ UNCHANGED <<mem, disk, armed, chain, failed, op, yields, paused, kept, saved, edits,
                     drops, void, opsLeft, faultsLeft>>
  BY DEF ReadUnused, Resume, bounds
<1>2. astray' \subseteq {"skipped", "crossed"} /\ faultsLeft' \in 0..MaxFaults
  BY <1>0, <1>1 DEF TypeOK
<1>3. /\ TypeOK' /\ Gated' /\ Budget' /\ Edited' /\ Examples'
      /\ armed = NoForest /\ chain = <<>>
  BY <1>1, <1>2, ReadWithdraws
<1>4. /\ \A j \in DOMAIN reads' : \E k \in DOMAIN reads : reads'[j] = reads[k]
      /\ \A k \in DOMAIN reads \ {i} : \E j \in DOMAIN reads' : reads'[j] = reads[k]
  BY <1>1, ReadIsOver
<1>5. ReadsOfThisTree' BY <1>1, <1>4 DEF ReadsOfThisTree
<1>6. OfThisTree'
  <2>1. \A j \in DOMAIN chain' : FALSE BY <1>1, <1>3
  <2>2. (\E k \in DOMAIN reads : ~reads[k].tile) => \E j \in DOMAIN reads' : ~reads'[j].tile
    BY <1>1, <1>4
  <2>3. CASE blocked
    <3>1. "skipped" \in astray' BY <1>1, <2>3
    <3> QED BY <3>1 DEF OfThisTree
  <2>4. CASE ~blocked BY <1>1, <1>3, <2>1, <2>2, <2>4 DEF OfThisTree
  <2> QED BY <2>3, <2>4
<1> QED BY <1>3, <1>5, <1>6

\* A read that fails preserves the invariant: it blocks the root.
LEMMA ReadFailsKeeps ==
  ASSUME IInv, NEW i \in DOMAIN reads, ReadFails(i)
  PROVE  IInv'
<1> USE DEF IInv
<1>0. TypeOK BY DEF IInv
<1>1. /\ RemoveRead(i) /\ gates' = gates - 1 /\ blocked' = TRUE /\ Fault(TRUE)
      /\ UNCHANGED <<mem, disk, armed, chain, failed, op, yields, paused, kept, saved, edits,
                     drops, void, astray>>
  BY DEF ReadFails, Block, Resume, ghosts
<1>2. opsLeft' = opsLeft /\ faultsLeft' \in 0..MaxFaults
  BY <1>0, <1>1, FaultFacts, Numbers DEF TypeOK
<1>3. /\ TypeOK' /\ Gated' /\ Budget' /\ Edited' /\ Examples'
      /\ armed = NoForest /\ chain = <<>>
  <2>1. astray' \subseteq {"skipped", "crossed"} BY <1>0, <1>1 DEF TypeOK
  <2> QED BY <1>1, <1>2, <2>1, ReadWithdraws
<1>4. \A j \in DOMAIN reads' : \E k \in DOMAIN reads : reads'[j] = reads[k]
  BY <1>1, <1>2, ReadIsOver
<1>5. ReadsOfThisTree' BY <1>1, <1>4 DEF ReadsOfThisTree
<1>6. OfThisTree'
  <2>1. \A j \in DOMAIN chain' : FALSE BY <1>1, <1>3
  <2> QED BY <1>1, <1>3, <2>1 DEF OfThisTree
<1> QED BY <1>3, <1>5, <1>6

-----------------------------------------------------------------------------
(* Invariance. *)

\* The invariant holds at the start.
LEMMA IInvInit == Init => IInv
<1> SUFFICES ASSUME Init PROVE IInv
  OBVIOUS
<1>1. MaxEdits \in Nat /\ MaxOps \in Nat /\ MaxFaults \in Nat BY WorkspaceAssumption
<1>2. /\ mem \in Forests /\ mem.gen = 0 /\ mem.edit = 0
      /\ disk \in Forests /\ disk.gen = 1 /\ disk.edit = 0 /\ disk.node # "full"
  BY <1>1 DEF Init, Forests
<1>3. /\ armed = NoForest /\ chain = <<>> /\ failed = FALSE /\ gates = 1 /\ blocked = FALSE
      /\ op = Idle /\ reads = <<[gen |-> disk.gen, tile |-> FALSE]>> /\ waiting = 0 /\ yields = 0
      /\ paused = FALSE /\ kept = FALSE /\ saved = (mem.node = "full")
      /\ edits = 0 /\ dropped = 0 /\ missed = 0 /\ void = 0 /\ astray = {}
      /\ opsLeft = MaxOps /\ faultsLeft = MaxFaults
  BY DEF Init
<1>4. /\ reads \in Seq(Reads) /\ Len(reads) = 1 /\ 1 \in DOMAIN reads
      /\ \A i \in DOMAIN reads : reads[i].gen = disk.gen /\ ~reads[i].tile
  <2>1. [gen |-> disk.gen, tile |-> FALSE] \in Reads BY <1>2 DEF Reads, Forests
  <2> QED BY <1>3, <2>1
<1>5. ~GitOnTree /\ ~Pending /\ ~Flushing /\ op.seen = 0 /\ op.step = "idle"
  BY <1>3 DEF Idle, GitOnTree, Pending, Flushing
<1>6. TypeOK
  <2>1. chain \in Seq(Forests) BY <1>3
  <2>2. op \in [kind : Mutating \cup {"none"}, seen : 0..MaxEdits,
                step : {"idle", "flush", "status", "flushAgain", "git", "refresh"}]
    BY <1>1, <1>3 DEF Idle
  <2>3. /\ gates \in 0..(MaxOps + 1) /\ edits \in 0..MaxEdits /\ dropped \in 0..MaxEdits
        /\ missed \in 0..MaxEdits /\ waiting \in 0..MaxOps /\ yields \in 0..(MaxOps + 1)
        /\ void \in 0..MaxEdits /\ opsLeft \in 0..MaxOps /\ faultsLeft \in 0..MaxFaults
    BY <1>1, <1>3
  <2> QED BY <1>2, <1>3, <1>4, <2>1, <2>2, <2>3 DEF TypeOK
<1>7. Gated BY <1>3, <1>4, <1>5 DEF Gated, One
<1>8. Budget
  <2>1. Left = MaxOps BY <1>1, <1>3, <1>5 DEF Left, One
  <2> QED BY <1>1, <1>2, <1>3, <1>4, <2>1 DEF Budget
<1>9. ReadsOfThisTree /\ OfThisTree BY <1>3, <1>4 DEF ReadsOfThisTree, OfThisTree
<1>10. Edited BY <1>2, <1>3, <1>5 DEF Edited, Flushed
<1>11. Examples BY <1>3 DEF Examples
<1> QED BY <1>6, <1>7, <1>8, <1>9, <1>10, <1>11 DEF IInv

\* Every step preserves the invariant.
LEMMA IInvNext == IInv /\ [Next]_vars => IInv'
<1> SUFFICES ASSUME IInv, [Next]_vars PROVE IInv'
  OBVIOUS
<1>0. TypeOK BY DEF IInv
<1>1. CASE Edit BY <1>1, EditKeeps
<1>2. CASE StartOp BY <1>2, StartKeeps
<1>3. CASE TimerFires BY <1>3, TimerKeeps
<1>4. CASE MirrorEnds BY <1>4, MirrorKeeps
<1>5. CASE FlushFails
  BY <1>5, OpEndsKeeps DEF FlushFails, Flushing, GitOnTree
<1>6. CASE FlushSucceeds BY <1>6, SucceedKeeps
<1>7. CASE StatusRead
  <2>1. CASE FlushAgain BY <1>7, <2>1, FlushAgainKeeps DEF StatusRead, loads
  <2>2. CASE op' = Idle /\ UNCHANGED <<armed, chain, gates, drops>>
    BY <1>7, <2>2, OpEndsKeeps DEF StatusRead, GitOnTree, syncVars, ghosts
  <2> QED BY <1>7, <2>1, <2>2 DEF StatusRead
<1>8. CASE GitEndsBeside
  <2>1. ~GitOnTree BY <1>8 DEF GitEndsBeside, GitOnTree, Suspended
  <2> QED BY <1>8, <2>1, OpEndsKeeps DEF GitEndsBeside
<1>9. CASE GitThrows
  <2>1. opsLeft' = opsLeft /\ faultsLeft' \in 0..MaxFaults
    BY <1>0, <1>9, FaultFacts, Numbers DEF GitThrows, TypeOK
  <2> QED BY <1>9, <2>1, GitStopsKeeps DEF GitThrows, Unwind, Resume, loads, ghosts, drops
<1>10. CASE GitEnds BY <1>10, GitEndsKeeps
<1>11. CASE GitConflicts
  <2>1. GitOnTree BY <1>11 DEF GitConflicts, GitOnTree, Suspended
  <2>2. faultsLeft' \in 0..MaxFaults BY <1>0, <1>11 DEF GitConflicts, bounds, TypeOK
  <2> QED BY <1>11, <2>1, <2>2, GitStopsKeeps DEF GitConflicts, Resume, loads, ghosts, drops, bounds
<1>12. CASE RefreshEnds
  BY <1>12, OpEndsKeeps DEF RefreshEnds, GitOnTree
<1>13. ASSUME NEW i \in DOMAIN reads, ReadEnds(i) PROVE IInv'
  BY <1>13, ReadEndsKeeps
<1>14. ASSUME NEW i \in DOMAIN reads, ReadFails(i) PROVE IInv'
  BY <1>14, ReadFailsKeeps
<1>15. ASSUME NEW i \in DOMAIN reads, ReadUnused(i) PROVE IInv'
  BY <1>15, ReadUnusedKeeps
<1>16. CASE YieldEnds BY <1>16, YieldEndsKeeps
<1>17. CASE StartReload BY <1>17, StartReloadKeeps
<1>18. CASE ReloadFails BY <1>18, ReloadFailsKeeps
<1>19. CASE ReloadReads BY <1>19, ReloadReadsKeeps
<1>20. CASE UNCHANGED vars
  <2>1. UNCHANGED <<mem, disk, armed, chain, failed, gates, blocked, op, waiting, reads, yields,
                    paused, kept, saved, edits, dropped, missed, void, astray, opsLeft,
                    faultsLeft>>
    BY <1>20 DEF vars, syncVars, loads, ghosts, drops, bounds
  <2>2. TypeOK' BY <1>0, <2>1 DEF TypeOK
  <2>3. Gated' /\ Budget'
    BY <2>1 DEF IInv, Gated, GitOnTree, Budget, Left, Pending
  <2>4. ReadsOfThisTree' /\ OfThisTree' BY <2>1 DEF IInv, ReadsOfThisTree, OfThisTree
  <2>5. Edited' BY <2>1 DEF IInv, Edited, Flushed, InTree, Flushing
  <2>6. Examples' BY <2>1 DEF IInv, Examples
  <2> QED BY <2>2, <2>3, <2>4, <2>5, <2>6 DEF IInv
<1> QED
  BY <1>1, <1>2, <1>3, <1>4, <1>5, <1>6, <1>7, <1>8, <1>9, <1>10, <1>11, <1>12, <1>13, <1>14,
     <1>15, <1>16, <1>17, <1>18, <1>19, <1>20 DEF Next, System, Microtask

\* The invariant holds in every behaviour.
LEMMA IInvInvariant == Spec => []IInv
BY IInvInit, IInvNext, PTL DEF Spec

-----------------------------------------------------------------------------
(* Theorems. *)

\* Every variable keeps its type; the gate is opened as often as it was closed.
THEOREM TypeCorrect == Spec => []TypeOK
<1>1. IInv => TypeOK BY DEF IInv
<1> QED BY <1>1, IInvInvariant, PTL

\* suspendMirroring: while git rewrites the tree, or a reload reads it, nothing
\* is being mirrored or waits for its turn, whatever timer fired meanwhile.
THEOREM MirrorKeepsOut == Spec => []GitOwnsTheTree
<1>1. IInv => GitOwnsTheTree BY Holders DEF IInv, GitOwnsTheTree, GitOnTree
<1> QED BY <1>1, IInvInvariant, PTL

\* scheduleMirror and read: whatever fails, is edited or fires in whatever order,
\* no forest is on its way to another tree than its own, but after a conflict, a
\* reload whose tile was gone, or a reload that git crossed.
THEOREM NoForestOnAnotherTree == Spec => []MirrorsItsOwnTree
<1>1. ASSUME IInv PROVE MirrorsItsOwnTree
  <2>1. TypeOK /\ OfThisTree BY <1>1 DEF IInv
  <2>2. chain # <<>> => Head(chain) = chain[1] /\ 1 \in DOMAIN chain
    BY <2>1, Numbers
  <2> QED BY <2>1, <2>2 DEF OfThisTree, MirrorsItsOwnTree, MirroringIsOfThisTree
<1> QED BY <1>1, IInvInvariant, PTL

\* _flushOrThrow: git runs over a tree that holds every edit made before the
\* operation began, unless mirroring was suspended or blocked and dropped it.
THEOREM GitFindsTheEdits == Spec => []GitSeesFlushedEdits
<1>1. IInv => GitSeesFlushedEdits
  BY DEF IInv, Edited, InTree, GitSeesFlushedEdits
<1> QED BY <1>1, IInvInvariant, PTL

\* _localOnlyStore: saved examples come back with their request, however often
\* trees come and go, and deleted ones do not.
THEOREM ExamplesSurvive == Spec => []LocalOnlySurvives
<1>1. IInv => LocalOnlySurvives BY DEF IInv, Examples, LocalOnlySurvives
<1> QED BY <1>1, IInvInvariant, PTL
=============================================================================
