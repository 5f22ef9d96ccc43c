-------------------------------- MODULE Runs --------------------------------
(***************************************************************************)
(* What the send pipeline promises, whatever its stages: a tab belongs to  *)
(* the run started last, a run does each of its effects at most once and   *)
(* in their order, and only while it owns its tab and nobody stopped it.   *)
(***************************************************************************)
EXTENDS Naturals

CONSTANTS Tab, Run, NoRun

VARIABLES begun,    \* the runs there have been
          owner,    \* of each tab
          stopped,  \* runs that may do nothing more
          issued    \* what each run has set off

vars == <<begun, owner, stopped, issued>>

\* Running the first script, saving what it set, the request, its place in the
\* history, running the second script, saving what that set.
Effects == 1..6

PreScript  == 1
PrePatch   == 2
Request    == 3
History    == 4
PostScript == 5
PostPatch  == 6

Init ==
  /\ begun = {}
  /\ owner = [t \in Tab |-> NoRun]
  /\ stopped = {}
  /\ issued = [r \in Run |-> {}]

\* Starting a run takes the tab away from the one before.
Begin(t, r) ==
  /\ r \notin begun
  /\ begun' = begun \cup {r}
  /\ owner' = [owner EXCEPT ![t] = r]
  /\ stopped' = stopped \cup ({owner[t]} \ {NoRun})
  /\ \/ UNCHANGED issued
     \/ issued' = [issued EXCEPT ![r] = {Request}]

Act(t, r, e) ==
  /\ owner[t] = r /\ r \notin stopped
  /\ \A f \in issued[r] : f < e
  /\ issued' = [issued EXCEPT ![r] = @ \cup {e}]
  /\ UNCHANGED <<begun, owner, stopped>>

Stop(r) ==
  /\ stopped' = stopped \cup {r}
  /\ UNCHANGED <<begun, owner, issued>>

End(t, r) ==
  /\ owner[t] = r
  /\ owner' = [owner EXCEPT ![t] = NoRun]
  /\ UNCHANGED <<begun, stopped, issued>>

Next ==
  \E r \in Run :
    \/ Stop(r)
    \/ \E t \in Tab : Begin(t, r) \/ End(t, r) \/ \E e \in Effects : Act(t, r, e)

Spec == Init /\ [][Next]_vars
=============================================================================
