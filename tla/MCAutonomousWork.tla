-------------------------- MODULE MCAutonomousWork --------------------------
(***************************************************************************)
(* Small work systems for AutonomousWork: a job that needs one resource,   *)
(* and one that needs two and waits for the job with the first id.         *)
(***************************************************************************)
EXTENDS AutonomousWork

CONSTANTS w1, w2, r1, r2

Simple == [needs |-> {r1}, after |-> {}, required |-> 1]
Compound == [needs |-> {r1, r2}, after |-> {1}, required |-> 2]
Both == {Simple, Compound}

Maintain == <<[mode |-> "atLeast", frequency |-> "periodic", min |-> 1, max |-> 1, batch |-> 1, period |-> 1]>>
NoOrder == <<>>

=============================================================================
