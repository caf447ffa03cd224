------------------------------- MODULE MCSessions -------------------------------
(***************************************************************************)
(* Small instances of the sessions: people and workers are interchangeable *)
(* where a run's properties treat them alike.                              *)
(***************************************************************************)
EXTENDS Sessions, TLC

Interchangeable == Permutations(People) \cup Permutations(Workers)
=============================================================================
