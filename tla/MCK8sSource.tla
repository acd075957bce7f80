------------------------------ MODULE MCK8sSource ------------------------------
(* Two pods for TLC; the dashboard selects all or one of them.              *)
EXTENDS K8sSource, TLC

CONSTANTS p1, p2

MCSelections == {Pods, {p1}}
=============================================================================
