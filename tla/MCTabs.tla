------------------------------- MODULE MCTabs -------------------------------
(***************************************************************************)
(* Small instances of TabsBloc.                                            *)
(***************************************************************************)
EXTENDS TabsBloc

CONSTANTS plain, edited, node, unlinked

TheConfigs  == {plain, edited}
NoNodes     == {}
OneNode     == {node}

StoredTab(t, link) ==
  [id |-> t, node |-> link, config |-> plain, sending |-> FALSE,
   response |-> NoSend, history |-> <<>>]

StoredRow(name, ids) ==
  [name |-> name, ids |-> ids,
   active |-> IF ids = <<>> THEN NoTab ELSE Head(ids)]

\* A session with two panels, as an earlier process left it.
TwoPanels(links) ==
  {[tabs   |-> [t \in DOMAIN links |-> StoredTab(t, links[t])],
    panels |-> <<StoredRow(1, [i \in 1..(Len(links) - 1) |-> i]),
                 StoredRow(2, <<Len(links)>>)>>,
    order  |-> <<1, 2>>, active |-> 1]}

SmallSession == TwoPanels(<<unlinked, unlinked>>)
PlainSession == TwoPanels(<<unlinked, unlinked, unlinked>>)

\* One tab, linked to a node.
LinkedTab ==
  {[tabs   |-> <<StoredTab(1, node)>>,
    panels |-> <<StoredRow(1, <<1>>)>>, order |-> <<1>>, active |-> 1]}

\* One tab, linked to no node.
OneTab ==
  {[tabs   |-> <<StoredTab(1, unlinked)>>,
    panels |-> <<StoredRow(1, <<1>>)>>, order |-> <<1>>, active |-> 1]}

\* The layout that had no panels.
LegacySession == {[EmptyDisk EXCEPT !.tabs = [t \in 1..2 |-> StoredTab(t, unlinked)]]}

FirstRun == {EmptyDisk}

\* What the theorems about one session suppose of the disk it finds.
ASSUME StoredSessions == SessionsWellKept

AllSessions == SmallSession \cup LegacySession \cup FirstRun
=============================================================================
