----------------------------- MODULE MCRealtime -----------------------------
(***************************************************************************)
(* Small instances of RealtimeBloc.                                        *)
(***************************************************************************)
EXTENDS RealtimeBloc, TLC

\* Tabs are alike; sets of them are never ordered.
Symmetry == Permutations(Tabs)
=============================================================================
