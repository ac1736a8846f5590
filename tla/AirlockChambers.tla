-------------------------- MODULE AirlockChambers --------------------------
(***************************************************************************)
(* What the airlocks of a planet promise, without doors, controllers and   *)
(* power: a chamber is shut or open to one side, and it goes from one side *)
(* to the other through being shut.  Gas moves only while it is shut.  A   *)
(* saved game comes back as it was, one step on.                           *)
(***************************************************************************)
CONSTANT Chambers

VARIABLES
  chambers,  \* of each: absent, shut or open to a side, and its air
  kept       \* the chambers of the saved game, of which there is at most one

vars == <<chambers, kept>>

Absent == [door |-> "absent", air |-> "none"]
Chamber == [door : {"shut", "outer", "inner"}, air : {"empty", "some", "full"}] \union {Absent}

Init == chambers = [c \in Chambers |-> Absent] /\ kept = {}

Waits(a, b) == b = a
Paired(a, b) == a = Absent /\ b = [door |-> "shut", air |-> "full"]
Pumped(a, b) == a.door = "shut" /\ b.door = "shut"
OpenedOut(a, b) == a.door = "shut" /\ b = [door |-> "outer", air |-> "empty"]
OpenedIn(a, b) == a.door = "shut" /\ b = [door |-> "inner", air |-> "full"]
Shut(a, b) == a.door \in {"outer", "inner"} /\ b = [a EXCEPT !.door = "shut"]

\* What becomes of a chamber in a step.
Works(a, b) ==
  Waits(a, b) \/ Paired(a, b) \/ Pumped(a, b) \/ OpenedOut(a, b) \/ OpenedIn(a, b) \/ Shut(a, b)

\* Any number of chambers work in a step.
Work(from) ==
  /\ chambers' \in [Chambers -> Chamber]
  /\ \A c \in Chambers : Works(from[c], chambers'[c])
  /\ kept' = kept

Save == kept' = {chambers} /\ chambers' = chambers
Load == \E game \in kept : Work(game)

Next == Work(chambers) \/ Save \/ Load

Spec == Init /\ [][Next]_vars

=============================================================================
