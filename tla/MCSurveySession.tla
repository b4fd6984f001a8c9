--------------------------- MODULE MCSurveySession --------------------------
(***************************************************************************)
(* Small instances of SurveySession.                                       *)
(***************************************************************************)
EXTENDS SurveySession, TLC

\* Workers and attempts are interchangeable where no liveness is checked.
Symmetry == Permutations(Hosts) \cup Permutations(Clients) \cup Permutations(Attempts)
=============================================================================
