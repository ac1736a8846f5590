--------------------------- MODULE ResourceClaims ---------------------------
(***************************************************************************)
(* What the reservation ledger and the leases of AutonomousWork promise    *)
(* together.  A job has either no claim and no resource, or a claim and    *)
(* all it asks for; it gets both in one step and loses both in one step.   *)
(* Whoever wants to give a resource to another job has to wait until the   *)
(* lease is over or the claim was given back.                              *)
(***************************************************************************)
EXTENDS Naturals

CONSTANTS Jobs, Resources

VARIABLES
  needs,    \* what each job asks for
  holds,    \* what each job has reserved
  claimed,  \* the jobs that have a claim
  over      \* those of them whose lease is over

vars == <<needs, holds, claimed, over>>

Init ==
  /\ needs = [j \in Jobs |-> {}]
  /\ holds = [j \in Jobs |-> {}]
  /\ claimed = {}
  /\ over = {}

\* The jobs of a set give their claims back, with all they hold.  What a job
\* without a claim asks for may change, while it has one it stands.
GiveBack(S) ==
  /\ claimed' = claimed \ S
  /\ over' = over \ S
  /\ holds' = [j \in Jobs |-> IF j \in S THEN {} ELSE holds[j]]
  /\ \A j \in claimed' : needs'[j] = needs[j]

\* Claims that are over go, and new ones are made, side by side: the resources
\* of a new claim are nobody's whose lease is running, nor another new one's.
Grant(S) ==
  LET running == claimed \ over
  IN /\ S \cap running = {}
     /\ \A i \in S, j \in S \union running : i # j => needs[i] \cap needs[j] = {}
     /\ claimed' = running \union S
     /\ over' = {}
     /\ holds' = [j \in Jobs |-> IF j \in S THEN needs[j] ELSE IF j \in over THEN {} ELSE holds[j]]
     /\ needs' = needs

\* Leases run out, and until something is done about it the claims stay.
RunOut ==
  /\ over \subseteq over' /\ over' \subseteq claimed
  /\ UNCHANGED <<needs, holds, claimed>>

Next ==
  \/ \E S \in SUBSET claimed : GiveBack(S)
  \/ \E S \in SUBSET Jobs : Grant(S)
  \/ RunOut

Spec == Init /\ [][Next]_vars

=============================================================================
