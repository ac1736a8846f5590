-------------------------- MODULE MCSurfacePortals --------------------------
(***************************************************************************)
(* Small bases for SurfacePortals: what stands, what the player can place, *)
(* and gas in a few units.                                                 *)
(***************************************************************************)
EXTENDS SurfacePortals, TLC

CONSTANTS c1, c2

Two == {c1, c2}
Anywhere == Permutations(Cells)

Nothing == <<>>
Base == <<"LogicController", "SensorMast", "Turret", "AirlockController">>

NoKit == [k \in Kinds |-> 0]
TwoAirlocks == [NoKit EXCEPT !["Airlock"] = 2]
AirlockSet == [TwoAirlocks EXCEPT !["AirlockController"] = 1]

\* Any machines may be dark, or only a controller: the logic controller and
\* the airlock controller of Base are objects 1 and 4.
AnyDark == SUBSET Ids
ControllersDark == {{}, Ids, Ids \ {1}, Ids \ {4}}

Slow == [out |-> 2, outO2 |-> 3, in |-> 2, inO2 |-> 3]
Quick == [out |-> 3, outO2 |-> 3, in |-> 3, inO2 |-> 2]

=============================================================================
