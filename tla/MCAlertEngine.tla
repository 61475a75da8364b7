--------------------------- MODULE MCAlertEngine ---------------------------
(***************************************************************************)
(* Instances of AlertEngine: two goroutines that evaluate, on two days.     *)
(***************************************************************************)
EXTENDS AlertEngine, TLC

CONSTANTS a1, a2, e1, e2

MCAlerts == {a1, a2}
MCOneAlert == {a1}
MCEvaluators == {e1, e2}

\* Alerts are interchangeable.
MCSymmetry == Permutations(MCAlerts)
=============================================================================
