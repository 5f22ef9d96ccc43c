----------------------------- MODULE TabStorage -----------------------------
(***************************************************************************)
(* The tabs part of Getman's storage: the rows of the three Hive boxes     *)
(* ("tabs", "panels", "tabs_meta") that outlive the process, and the       *)
(* commands the UI isolate sends to the storage worker, which executes     *)
(* them one at a time in the order they were sent.                         *)
(*                                                                         *)
(* Identifiers are uuids in the code; here they are numbers handed out in  *)
(* order and never reused.  NoTab and NoPanel stand for the empty string,  *)
(* Unsaved for an active panel that was never stored.                      *)
(***************************************************************************)
EXTENDS Naturals, SequencesExt

CONSTANTS MaxTabs,      \* bound: tab ids that can ever be created
          MaxPanels,    \* bound: panel ids that can ever be created
          MaxSends,     \* bound: HTTP sends that can ever be started
          Configs,      \* the request configurations a tab can hold
          Pristine,     \* the default configuration of a new request
          Nodes,        \* collection nodes a tab can be linked to
          NoNode        \* an unlinked tab

ASSUME StorageAssumption ==
  /\ MaxTabs \in Nat /\ MaxPanels \in Nat /\ MaxSends \in Nat
  /\ Pristine \in Configs
  /\ NoNode \notin Nodes

NoTab   == 0
NoPanel == 0
NoSend  == 0
Unsaved == MaxPanels + 1
TabId   == 1..MaxTabs
PanelId == 1..MaxPanels
SendId  == 1..MaxSends

\* A tab: its request, the response on display and the recent responses,
\* newest first.  A response is named by the send that produced it.
Tab == [id : TabId, node : Nodes \cup {NoNode}, config : Configs,
        sending : BOOLEAN, response : SendId \cup {NoSend},
        history : Seq(SendId)]

\* A row of the panels box: it stores tab ids only.  The name n stands for
\* the automatic name "Panel n".
Row == [name : Nat, ids : Seq(TabId), active : TabId \cup {NoTab}]

\* A box: a function from some of the keys to rows.
IsBox(box, Keys, Rows) == DOMAIN box \subseteq Keys /\ box \in [DOMAIN box -> Rows]

IsDisk(d) ==
  /\ d = [tabs |-> d.tabs, panels |-> d.panels, order |-> d.order,
          active |-> d.active]
  /\ IsBox(d.tabs, TabId, Tab)
  /\ IsBox(d.panels, PanelId, Row)
  /\ d.order \in Seq(PanelId)
  /\ d.active \in PanelId \cup {NoPanel, Unsaved}

EmptyDisk == [tabs |-> <<>>, panels |-> <<>>, order |-> <<>>,
              active |-> Unsaved]

-----------------------------------------------------------------------------
(* What can be done to a box. *)

Put(box, k, row) ==
  [x \in DOMAIN box \cup {k} |-> IF x = k THEN row ELSE box[x]]

Delete(box, ks) == [x \in DOMAIN box \ ks |-> box[x]]

-----------------------------------------------------------------------------
(* Commands. *)

PutTab(tab)             == [kind |-> "putTab", tab |-> tab]
DeleteTabs(ids)         == [kind |-> "deleteTabs", tabs |-> ids]
PutPanel(p, row)        == [kind |-> "putPanel", panel |-> p, row |-> row]
DeletePanel(p)          == [kind |-> "deletePanel", panel |-> p]
PutMeta(order, active)  == [kind |-> "putMeta", order |-> order,
                            active |-> active]
PutActive(active)       == [kind |-> "putActive", active |-> active]
GetPanels               == [kind |-> "getPanels"]

\* What a single box write does to the disk.
Applied(op, d) ==
  CASE op.kind = "putTab"      -> [d EXCEPT !.tabs = Put(d.tabs, op.tab.id, op.tab)]
    [] op.kind = "deleteTabs"  -> [d EXCEPT !.tabs = Delete(d.tabs, op.tabs)]
    [] op.kind = "putPanel"    -> [d EXCEPT !.panels = Put(d.panels, op.panel, op.row)]
    [] op.kind = "deletePanel" -> [d EXCEPT !.panels = Delete(d.panels, {op.panel})]
    [] op.kind = "putMeta"     -> [d EXCEPT !.order = op.order]
    [] op.kind = "putActive"   -> [d EXCEPT !.active = op.active]

-----------------------------------------------------------------------------
(* Reading the panels back. *)

\* The positions K of a sequence, in increasing order, and the subsequence
\* found there: what the code's where(...).toList() and skipping loops keep.
Enumeration(K) ==
  CHOOSE f \in [1..Cardinality(K) -> K] :
    /\ \A i, j \in DOMAIN f : i < j => f[i] < f[j]
    /\ \A k \in K : \E i \in DOMAIN f : f[i] = k

Selected(s, K) == [i \in 1..Cardinality(K) |-> s[Enumeration(K)[i]]]

\* The orders getPanels can return: the ids of the stored order that have a
\* row, each once, then the rows the stored order does not know.  The code
\* appends those in the box's own order, which is left open here.
StoredOrders(d) ==
  LET known == {i \in DOMAIN d.order :
                  /\ d.order[i] \in DOMAIN d.panels
                  /\ \A j \in 1..(i - 1) : d.order[j] # d.order[i]}
      rest  == DOMAIN d.panels \ ToSet(d.order)
  IN  {Selected(d.order, known) \o r : r \in SetToSeqs(rest)}

\* LoadTabs clears the sending flag of every tab it restores, and a closed
\* tab is pushed on the reopen stack without it.
Settled(tab) == [tab EXCEPT !.sending = FALSE]

\* The strip a stored row rebuilds to: ids without a tab row are dropped.
StoredStrip(d, ids) ==
  LET live == Selected(ids, {i \in DOMAIN ids : ids[i] \in DOMAIN d.tabs})
  IN  [i \in DOMAIN live |-> Settled(d.tabs[live[i]])]

StoredPanel(d, p) == [name   |-> d.panels[p].name,
                      strip  |-> StoredStrip(d, d.panels[p].ids),
                      active |-> d.panels[p].active]
=============================================================================
