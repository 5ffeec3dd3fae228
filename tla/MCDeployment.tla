---------------------------- MODULE MCDeployment ----------------------------
(***************************************************************************)
(* Model checking of Deployment.                                            *)
(***************************************************************************)
EXTENDS Deployment

\* Little goes on beside the server when Cloud Director is set up: there is room
\* for a second failure.
Faults == [s \in Setups |-> IF s = "vcd" THEN 2 ELSE 1]

=============================================================================
