----------------------------- MODULE MCScheduler -----------------------------
(* Small instances of the scheduler for TLC: tenant 1 ("a") owns the slots  *)
(* a1..a3, tenant 2 ("b") the slots b1 and b2.                             *)
EXTENDS SchedulerProperties, TLC

CONSTANTS a1, a2, a3, b1, b2, w1, w2

MCTenantOf == [e \in Exports |-> IF e \in {b1, b2} THEN 2 ELSE 1]

(* The slots of one tenant are interchangeable. *)
SlotSymmetry == Permutations({a1, a2, a3})
=============================================================================
