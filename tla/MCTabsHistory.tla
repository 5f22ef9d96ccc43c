---------------------------- MODULE MCTabsHistory ----------------------------
(* Small instances of TabsHistory, from the sessions of MCTabs. *)
EXTENDS MCTabs, TabsHistory

\* What the theorem about settled tabs supposes of the disk besides.
ASSUME StoredPanels == SessionsStored

\* What the theorem about a quiet disk supposes of it.
ASSUME QuietSessions == SessionsWhole
=============================================================================
