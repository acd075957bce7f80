------------------------------ MODULE MCReceiver ------------------------------
(* A small receiver for TLC: a gRPC exporter of tenant 1 and an HTTP        *)
(* exporter of tenant 2.                                                    *)
EXTENDS Receiver

CONSTANTS g1, h1, w1

MCTenantOf == [e \in Exports |-> IF e = g1 THEN 1 ELSE 2]
=============================================================================
