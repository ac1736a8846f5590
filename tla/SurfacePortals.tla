--------------------------- MODULE SurfacePortals ---------------------------
(***************************************************************************)
(* Doors, airlocks and automation rules of one planet, as                  *)
(* SurfaceInfrastructure keeps them and Game drives them.                  *)
(*                                                                         *)
(* A frame updates the airlocks with the power of the frame, lets the      *)
(* player act and, unless a menu is open, evaluates the rules.  A save     *)
(* keeps everything but the power and the serial of the next stable id; a  *)
(* load rebuilds the planet from it.  The power a frame hands out is a     *)
(* free choice here.  Stable ids are the serials that mix64 permutes.      *)
(***************************************************************************)
EXTENDS Integers, Sequences, FiniteSets

CONSTANTS
  Cells,            \* cells of the planet where the player builds
  None,             \* no object, no saved game
  Built,            \* the machines that stand already, in their order
  Kits,             \* the portals and machines the player can place, by kind
  Blocks,           \* the blocks he can place
  MaxId,            \* bound: stable ids
  Hull,             \* chamber gas is counted in units, Hull is 1.0
  Vented,           \* 0.05, below which the outer door may open
  Ready, Breath,    \* 0.95 and 0.75, from which the inner door may open
  Pumps,            \* gas moved in a unit of time: out, outO2, in, inO2
  Steps,            \* the dt a frame may have
  Supply,           \* the ids that the power of a frame may reach
  MaxKits,          \* bound: portal kits of a kind in the inventory
  MaxLoads          \* bound: saved games loaded in a run; none saves for none

Ids == 1..MaxId
PortalTypes == {"Door", "Airlock"}
MachineTypes == {"AirlockController", "LogicController", "SensorMast", "Turret"}
Kinds == PortalTypes \union MachineTypes
States == {"Idle", "Depressurizing", "ExteriorOpen", "Pressurizing", "InteriorOpen", "Fault"}
Gas == 0..Hull

ASSUME BoundAssumption == MaxId \in Nat /\ MaxKits \in Nat /\ MaxLoads \in Nat /\ Blocks \in Nat
ASSUME BuiltAssumption == Built \in Seq(MachineTypes) /\ Len(Built) <= MaxId
ASSUME KitAssumption == Kits \in [Kinds -> Nat]
ASSUME GasAssumption ==
  /\ Hull \in Nat /\ Vented \in Gas /\ Ready \in Gas /\ Breath \in Gas
  /\ Vented < Ready
ASSUME PumpAssumption == Pumps \in [{"out", "outO2", "in", "inO2"} -> Nat] /\ Steps \subseteq Nat
ASSUME SupplyAssumption == Supply \subseteq SUBSET Ids

Portal == [type : PortalTypes, at : Cells, open : BOOLEAN]
Machine == [type : MachineTypes, enabled : BOOLEAN]
Assembly == [controller : Ids, inner : Ids, outer : Ids, state : States, pressure : Gas, oxygen : Gas]
Rule == [controller : Ids, source : Ids, action : {"EnableMachine", "ClosePortal"}, target : Ids]
Voxels == {"Air", "Block"} \union PortalTypes

ASSUME NoneAssumption == None \notin Portal \union Machine \union Assembly \union Rule

VARIABLES
  serial,           \* nextSerial_
  portals, machines, airlocks, rules,   \* by stable id
  powered,          \* machines that got power at the latest update
  cells,            \* a voxel per cell: a closed portal shows its panel
  kits, blocks,     \* the player's inventory
  phase,            \* where in the frame the program is
  saved,            \* the committed save, or None
  loads

persistent == <<portals, machines, airlocks, rules, cells, kits, blocks>>
vars == <<serial, portals, machines, airlocks, rules, powered, cells, kits, blocks,
          phase, saved, loads>>

\* What a save keeps; its cells stand for the edit journals.
World == [portals |-> portals, machines |-> machines, airlocks |-> airlocks, rules |-> rules,
          cells |-> cells, kits |-> kits, blocks |-> blocks]

Live(objects) == {i \in Ids : objects[i] # None}

Init ==
  /\ serial = Len(Built) + 1
  /\ portals = [i \in Ids |-> None]
  /\ machines = [i \in Ids |-> IF i <= Len(Built) THEN [type |-> Built[i], enabled |-> TRUE] ELSE None]
  /\ airlocks = [i \in Ids |-> None]
  /\ rules = [i \in Ids |-> None]
  /\ powered = {}
  /\ cells = [c \in Cells |-> "Air"]
  /\ kits = Kits
  /\ blocks = Blocks
  /\ phase = "begin"
  /\ saved = None
  /\ loads = 0

-----------------------------------------------------------------------------
(* Stable ids, and who owns what.                                          *)

\* Mutant of Taken: portals are forgotten.
TakenButPortals == Live(machines) \union Live(airlocks) \union Live(rules)

Taken == Live(machines) \union Live(portals) \union Live(airlocks) \union Live(rules)

\* allocateStableId, called with nextSerial_ = from, returns id.
Allocates(from, id) == id >= from /\ id \notin Taken /\ \A i \in from..(id - 1) : i \in Taken

Owns(a, p) == a.inner = p \/ a.outer = p
Owned(w, p) == \E i \in Live(w.airlocks) : Owns(w.airlocks[i], p)
Owner(w, p) == CHOOSE i \in Live(w.airlocks) : Owns(w.airlocks[i], p)

IsMachine(w, i, type) == w.machines[i] # None /\ w.machines[i].type = type
IsAirlock(w, p) == w.portals[p] # None /\ w.portals[p].type = "Airlock"
IsOpen(w, p) == w.portals[p] # None /\ w.portals[p].open

PortalAt(w, c) == {p \in Live(w.portals) : w.portals[p].at = c}
Skin(portal) == IF portal.open THEN "Air" ELSE portal.type

\* setPortalOpenUnchecked on every portal: those whose state changes author
\* their voxels.
SetOpen(w, open) ==
  LET set(p) == [w.portals[p] EXCEPT !.open = open[p]]
      moved(c) == {p \in PortalAt(w, c) : w.portals[p].open # open[p]}
  IN  /\ portals' = [p \in Ids |-> IF w.portals[p] = None THEN None ELSE set(p)]
      /\ cells' = [c \in Cells |->
                     IF moved(c) = {} THEN w.cells[c] ELSE Skin(set(CHOOSE p \in moved(c) : TRUE))]

-----------------------------------------------------------------------------
(* updateAirlocks: what dt does to an assembly and its two doors when      *)
(* the machines in lit have power.                                         *)

Most(a, b) == IF a > b THEN a ELSE b
Least(a, b) == IF a < b THEN a ELSE b

Valid(w, a) ==
  IsMachine(w, a.controller, "AirlockController") /\ IsAirlock(w, a.inner) /\ IsAirlock(w, a.outer)
BothOpen(w, a) == IsOpen(w, a.inner) /\ IsOpen(w, a.outer)

Becomes(a, state, pressure, oxygen) ==
  [a EXCEPT !.state = state, !.pressure = pressure, !.oxygen = oxygen]

Depressurized(a, dt) ==
  LET pressure == Most(0, a.pressure - Pumps["out"] * dt)
      oxygen == Most(0, a.oxygen - Pumps["outO2"] * dt)
  IN  IF pressure <= Vented THEN Becomes(a, "ExteriorOpen", 0, 0)
      ELSE Becomes(a, "Depressurizing", pressure, oxygen)

\* Mutant of Pressurized: oxygen without its limit.
PressurizedUncapped(a, dt) ==
  LET pressure == Least(Hull, a.pressure + Pumps["in"] * dt)
      oxygen == a.oxygen + Pumps["inO2"] * dt
  IN  IF pressure >= Ready /\ oxygen >= Breath
      THEN Becomes(a, "InteriorOpen", Hull, Most(Breath, oxygen))
      ELSE Becomes(a, "Pressurizing", pressure, oxygen)

Pressurized(a, dt) ==
  LET pressure == Least(Hull, a.pressure + Pumps["in"] * dt)
      oxygen == Least(pressure, a.oxygen + Pumps["inO2"] * dt)
  IN  IF pressure >= Ready /\ oxygen >= Breath
      THEN Becomes(a, "InteriorOpen", Hull, Most(Breath, oxygen))
      ELSE Becomes(a, "Pressurizing", pressure, oxygen)

\* update hands power to enabled machines only.
Enabled(objects) == {i \in Live(objects) : objects[i].enabled}
PoweredSets(objects) == {Enabled(objects) \intersect reached : reached \in Supply}

Runs(w, a, lit) == w.machines[a.controller].enabled /\ a.controller \in lit

\* Mutant of Cycled: a brownout ends the cycle.
CycledForgets(w, a, dt, lit) ==
  IF ~Valid(w, a) \/ BothOpen(w, a) THEN [a EXCEPT !.state = "Fault"]
  ELSE IF ~Runs(w, a, lit) THEN [a EXCEPT !.state = "Idle"]
  ELSE CASE a.state = "Depressurizing" -> Depressurized(a, dt)
         [] a.state = "Pressurizing" -> Pressurized(a, dt)
         [] a.state = "ExteriorOpen" -> Becomes(a, a.state, 0, 0)
         [] a.state = "InteriorOpen" -> Becomes(a, a.state, Most(a.pressure, Ready), Most(a.oxygen, Breath))
         [] OTHER -> a

Cycled(w, a, dt, lit) ==
  IF ~Valid(w, a) \/ BothOpen(w, a) THEN [a EXCEPT !.state = "Fault"]
  ELSE IF ~Runs(w, a, lit) THEN a
  ELSE CASE a.state = "Depressurizing" -> Depressurized(a, dt)
         [] a.state = "Pressurizing" -> Pressurized(a, dt)
         [] a.state = "ExteriorOpen" -> Becomes(a, a.state, 0, 0)
         [] a.state = "InteriorOpen" -> Becomes(a, a.state, Most(a.pressure, Ready), Most(a.oxygen, Breath))
         [] OTHER -> a

\* Does the door stand open after that?
Door(w, a, p, dt, lit) ==
  /\ Valid(w, a) /\ ~BothOpen(w, a) /\ Runs(w, a, lit)
  /\ \/ p = a.inner /\ Cycled(w, a, dt, lit).state = "InteriorOpen"
     \/ p = a.outer /\ Cycled(w, a, dt, lit).state = "ExteriorOpen"

UpdateAirlocks(w, dt, lit) ==
  /\ airlocks' = [i \in Ids |-> IF w.airlocks[i] = None THEN None ELSE Cycled(w, w.airlocks[i], dt, lit)]
  /\ SetOpen(w, [p \in Ids |-> IF Owned(w, p) THEN Door(w, w.airlocks[Owner(w, p)], p, dt, lit)
                               ELSE IsOpen(w, p)])
  /\ powered' = lit

Update(dt, lit) ==
  /\ phase = "begin" /\ phase' = "play"
  /\ UpdateAirlocks(World, dt, lit)
  /\ UNCHANGED <<serial, machines, rules, kits, blocks, saved, loads>>

-----------------------------------------------------------------------------
(* What the player does in a frame.                                        *)

\* trySphericalPlacePortal: the cell is empty and no portal stands there.
PlacePortal(c, type) ==
  /\ phase = "play"
  /\ cells[c] = "Air" /\ PortalAt(World, c) = {} /\ kits[type] > 0
  /\ \E id \in Ids :
       /\ Allocates(serial, id)
       /\ serial' = id + 1
       /\ portals' = [portals EXCEPT ![id] = [type |-> type, at |-> c, open |-> FALSE]]
  /\ cells' = [cells EXCEPT ![c] = type]
  /\ kits' = [kits EXCEPT ![type] = @ - 1]
  /\ UNCHANGED <<machines, airlocks, rules, powered, blocks, phase, saved, loads>>

\* trySphericalPlaceMachine; update(planet, 0) follows, and hands out power
\* in which no battery has a part.
PlaceMachine(type) ==
  /\ phase = "play"
  /\ kits[type] > 0
  /\ kits' = [kits EXCEPT ![type] = @ - 1]
  /\ \E id \in Ids :
       /\ Allocates(serial, id)
       /\ serial' = id + 1
       /\ machines' = [machines EXCEPT ![id] = [type |-> type, enabled |-> TRUE]]
  /\ \E lit \in PoweredSets(machines') : UpdateAirlocks(World, 0, lit)
  /\ UNCHANGED <<rules, blocks, phase, saved, loads>>

\* trySphericalPlaceBlock does not ask for a portal: an open doorway is air.
PlaceBlock(c) ==
  /\ phase = "play"
  /\ cells[c] = "Air" /\ blocks > 0
  /\ cells' = [cells EXCEPT ![c] = "Block"]
  /\ blocks' = blocks - 1
  /\ UNCHANGED <<serial, portals, machines, airlocks, rules, powered, kits, phase, saved, loads>>

MineBlock(c) ==
  /\ phase = "play"
  /\ cells[c] # "Air" /\ PortalAt(World, c) = {}
  /\ cells' = [cells EXCEPT ![c] = "Air"]
  /\ blocks' = blocks + 1
  /\ UNCHANGED <<serial, portals, machines, airlocks, rules, powered, kits, phase, saved, loads>>

\* Mutant of MinePortal: removePortal does not ask for an assembly.
MinePortalUnchecked(p) ==
  /\ phase = "play"
  /\ p \in Live(portals) /\ cells[portals[p].at] # "Air"
  /\ kits[portals[p].type] < MaxKits
  /\ kits' = [kits EXCEPT ![portals[p].type] = @ + 1]
  /\ portals' = [portals EXCEPT ![p] = None]
  /\ cells' = [cells EXCEPT ![portals[p].at] = "Air"]
  /\ UNCHANGED <<serial, machines, airlocks, rules, powered, blocks, phase, saved, loads>>

\* Mutant of MinePortal: the panel stays.
MinePortalLeavesPanel(p) ==
  /\ phase = "play"
  /\ p \in Live(portals) /\ cells[portals[p].at] # "Air" /\ ~Owned(World, p)
  /\ kits[portals[p].type] < MaxKits
  /\ kits' = [kits EXCEPT ![portals[p].type] = @ + 1]
  /\ portals' = [portals EXCEPT ![p] = None]
  /\ UNCHANGED <<serial, machines, airlocks, rules, powered, cells, blocks, phase, saved, loads>>

\* Whatever stands in the cell of a portal, trySphericalMine calls
\* removePortal and adds a kit; removePortal refuses a portal of an assembly.
MinePortal(p) ==
  /\ phase = "play"
  /\ p \in Live(portals) /\ cells[portals[p].at] # "Air"
  /\ kits[portals[p].type] < MaxKits
  /\ kits' = [kits EXCEPT ![portals[p].type] = @ + 1]
  /\ IF Owned(World, p) THEN UNCHANGED <<portals, cells>>
     ELSE /\ portals' = [portals EXCEPT ![p] = None]
          /\ cells' = [cells EXCEPT ![portals[p].at] = "Air"]
  /\ UNCHANGED <<serial, machines, airlocks, rules, powered, blocks, phase, saved, loads>>

\* Mutant of TogglePortal: the doors of an assembly open by hand.
TogglePortalUnchecked(p) ==
  /\ phase = "play"
  /\ p \in Live(portals)
  /\ SetOpen(World, [q \in Ids |-> IF q = p THEN ~portals[p].open ELSE IsOpen(World, q)])
  /\ UNCHANGED <<serial, machines, airlocks, rules, powered, kits, blocks, phase, saved, loads>>

\* trySurfacePortalInteract with setPortalOpen: an assembly's doors can be
\* closed by hand, not opened.
TogglePortal(p) ==
  /\ phase = "play"
  /\ p \in Live(portals)
  /\ portals[p].open \/ ~Owned(World, p)
  /\ SetOpen(World, [q \in Ids |-> IF q = p THEN ~portals[p].open ELSE IsOpen(World, q)])
  /\ UNCHANGED <<serial, machines, airlocks, rules, powered, kits, blocks, phase, saved, loads>>

\* trySurfaceMachineInteract at a controller without an assembly: it takes two
\* free airlocks nearby; createAirlockAssembly closes both.
Pair(controller, inner, outer) ==
  /\ phase = "play"
  /\ IsMachine(World, controller, "AirlockController")
  /\ ~\E i \in Live(airlocks) : airlocks[i].controller = controller
  /\ inner # outer
  /\ \A p \in {inner, outer} : IsAirlock(World, p) /\ ~Owned(World, p)
  /\ \E id \in Ids :
       /\ Allocates(serial, id)
       /\ serial' = id + 1
       /\ airlocks' = [airlocks EXCEPT ![id] =
            [controller |-> controller, inner |-> inner, outer |-> outer,
             state |-> "Idle", pressure |-> Hull, oxygen |-> Hull]]
  /\ SetOpen(World, [p \in Ids |-> IsOpen(World, p) /\ p \notin {inner, outer}])
  /\ UNCHANGED <<machines, rules, powered, kits, blocks, phase, saved, loads>>

\* ... at one with an assembly: requestAirlockCycle closes both doors and
\* starts the pumps, unless they are running.
Cycling(a) == a.state \in {"Depressurizing", "Pressurizing"}

Cycle(i) ==
  /\ phase = "play"
  /\ i \in Live(airlocks) /\ Valid(World, airlocks[i]) /\ ~Cycling(airlocks[i])
  /\ airlocks' = [airlocks EXCEPT ![i].state =
                    IF @ = "ExteriorOpen" THEN "Pressurizing" ELSE "Depressurizing"]
  /\ SetOpen(World, [p \in Ids |-> IsOpen(World, p) /\ ~Owns(airlocks[i], p)])
  /\ UNCHANGED <<serial, machines, rules, powered, kits, blocks, phase, saved, loads>>

\* ... at a logic controller without rules: hostiles near the sensor turn the
\* turret on and close the nearest portal, if one is near.
AddRules(controller, sensor, turret) ==
  /\ phase = "play"
  /\ IsMachine(World, controller, "LogicController")
  /\ ~\E r \in Live(rules) : rules[r].controller = controller
  /\ IsMachine(World, sensor, "SensorMast") /\ IsMachine(World, turret, "Turret")
  /\ machines' = [machines EXCEPT ![turret].enabled = FALSE]
  /\ LET rule(action, target) ==
           [controller |-> controller, source |-> sensor, action |-> action, target |-> target]
     IN  \E first \in Ids :
           /\ Allocates(serial, first)
           /\ \/ /\ serial' = first + 1
                 /\ rules' = [rules EXCEPT ![first] = rule("EnableMachine", turret)]
              \/ \E second \in Ids, p \in Live(portals) :
                   /\ Allocates(first + 1, second)
                   /\ serial' = second + 1
                   /\ rules' = [rules EXCEPT ![first] = rule("EnableMachine", turret),
                                             ![second] = rule("ClosePortal", p)]
  /\ UNCHANGED <<portals, airlocks, powered, cells, kits, blocks, phase, saved, loads>>

-----------------------------------------------------------------------------
(* The end of a frame: updateDefense publishes what the sensors see and    *)
(* evaluates the rules; a menu skips both.                                 *)

Fires(r, seeing) ==
  /\ rules[r].controller \in powered /\ machines[rules[r].controller].enabled
  /\ rules[r].source \in seeing

\* evaluateAutomation.
Defend(seeing) ==
  /\ phase = "play" /\ phase' = "begin"
  /\ LET firing(action) == {rules[r].target : r \in {q \in Live(rules) : Fires(q, seeing) /\ rules[q].action = action}}
     IN  /\ machines' = [m \in Ids |-> IF machines[m] # None /\ m \in firing("EnableMachine")
                                       THEN [machines[m] EXCEPT !.enabled = TRUE] ELSE machines[m]]
         /\ SetOpen(World, [p \in Ids |-> IsOpen(World, p) /\ p \notin firing("ClosePortal")])
  /\ UNCHANGED <<serial, airlocks, rules, powered, kits, blocks, saved, loads>>

Menu ==
  /\ phase = "play" /\ phase' = "begin"
  /\ UNCHANGED <<serial, persistent, powered, saved, loads>>

-----------------------------------------------------------------------------
(* Saving and loading, between two frames.                                 *)

Save ==
  /\ phase = "begin" /\ MaxLoads > 0
  /\ saved' = World
  /\ UNCHANGED <<serial, persistent, powered, phase, loads>>

\* What restore, restorePortal, restoreAirlockAssembly and
\* restoreAutomationRule ask of the records; loadGame gives up when one of
\* them refuses.
Restorable(s) ==
  /\ \A f, g \in {"portals", "machines", "airlocks", "rules"} :
       f # g => Live(s[f]) \intersect Live(s[g]) = {}
  /\ \A p, q \in Live(s.portals) : s.portals[p].at = s.portals[q].at => p = q
  /\ \A i \in Live(s.airlocks) : s.airlocks[i].inner # s.airlocks[i].outer
  /\ \A i, j \in Live(s.airlocks) : i # j =>
       /\ s.airlocks[i].controller # s.airlocks[j].controller
       /\ \A p \in {s.airlocks[j].inner, s.airlocks[j].outer} : ~Owns(s.airlocks[i], p)
  /\ \A r \in Live(s.rules) :
       LET c == s.rules[r].controller
       IN  s.machines[c] # None /\ s.machines[c].type = "LogicController"

\* Mutant of Load: the gas of the chambers is not restored.
LoadDefaultGas ==
  LET refilled(a) == IF a = None THEN None ELSE [a EXCEPT !.pressure = Hull, !.oxygen = Hull]
      s == [saved EXCEPT !.airlocks = [i \in Ids |-> refilled(saved.airlocks[i])]]
  IN  /\ phase = "begin" /\ saved # None /\ Restorable(saved) /\ loads < MaxLoads
      /\ loads' = loads + 1
      /\ serial' = 1
      /\ machines' = saved.machines /\ rules' = saved.rules
      /\ kits' = saved.kits /\ blocks' = saved.blocks
      /\ \E lit \in PoweredSets(saved.machines) : UpdateAirlocks(s, 0, lit)
      /\ UNCHANGED <<phase, saved>>

\* loadGame builds new planets, whose ids count from 1 again, restores the
\* objects without power and calls update(surface, 0): without the part of
\* the batteries, but with the generators.
Load ==
  /\ phase = "begin" /\ saved # None /\ Restorable(saved) /\ loads < MaxLoads
  /\ loads' = loads + 1
  /\ serial' = 1
  /\ machines' = saved.machines /\ rules' = saved.rules
  /\ kits' = saved.kits /\ blocks' = saved.blocks
  /\ \E lit \in PoweredSets(saved.machines) : UpdateAirlocks(saved, 0, lit)
  /\ UNCHANGED <<phase, saved>>

-----------------------------------------------------------------------------

Interact ==
  \/ \E c \in Cells, type \in PortalTypes : PlacePortal(c, type)
  \/ \E type \in MachineTypes : PlaceMachine(type)
  \/ \E c \in Cells : PlaceBlock(c) \/ MineBlock(c)
  \/ \E p \in Ids : MinePortal(p) \/ TogglePortal(p)
  \/ \E controller, inner, outer \in Ids : Pair(controller, inner, outer)
  \/ \E i \in Ids : Cycle(i)
  \/ \E controller, sensor, turret \in Ids : AddRules(controller, sensor, turret)

Sensors == {i \in Live(machines) \intersect powered : machines[i].type = "SensorMast"}

Frame ==
  \/ \E dt \in Steps, lit \in PoweredSets(machines) : Update(dt, lit)
  \/ \E seeing \in SUBSET Sensors : Defend(seeing)
  \/ Menu

Next == Frame \/ Interact \/ Save \/ Load

Spec == Init /\ [][Next]_vars

\* Frames go on as long as the program runs.
LiveSpec == Spec /\ WF_vars(Frame)

-----------------------------------------------------------------------------

WorldType ==
  [portals : [Ids -> Portal \union {None}], machines : [Ids -> Machine \union {None}],
   airlocks : [Ids -> Assembly \union {None}], rules : [Ids -> Rule \union {None}],
   cells : [Cells -> Voxels], kits : [Kinds -> Nat], blocks : Nat]

ASSUME SavedAssumption == None \notin WorldType

TypeOK ==
  /\ serial \in Nat /\ loads \in 0..MaxLoads
  /\ World \in WorldType
  /\ powered \subseteq Ids
  /\ phase \in {"begin", "play"}
  /\ saved \in WorldType \union {None}

\* The doors of an airlock are never open on both sides, nor on gas that is
\* not there: the outer one only onto an empty chamber, the inner one only
\* onto a full one, and either only while the controller had power at the
\* latest update, whatever the player, the rules and the grid do.
ChamberSafe ==
  \A i \in Live(airlocks) :
    LET a == airlocks[i]
    IN  /\ ~BothOpen(World, a)
        /\ IsOpen(World, a.outer) => a.pressure = 0 /\ a.oxygen = 0
        /\ IsOpen(World, a.inner) => a.pressure >= Ready /\ a.oxygen >= Breath
        /\ IsOpen(World, a.outer) \/ IsOpen(World, a.inner) => a.controller \in powered

\* No assembly ever loses its controller or a door, or finds both doors
\* open: none goes to Fault.
NeverFaults == \A i \in Live(airlocks) : airlocks[i].state # "Fault" /\ Valid(World, airlocks[i])

\* Voxels and portals agree on what is sealed: a panel stands in a cell just
\* when a closed portal does, however it was opened, mined, blocked or saved.
SealsShow ==
  \A c \in Cells, type \in PortalTypes :
    cells[c] = type <=> \E p \in PortalAt(World, c) : ~portals[p].open /\ portals[p].type = type

\* The chamber of an assembly, seen from outside.
Side(w, a) == IF IsOpen(w, a.outer) THEN "outer" ELSE IF IsOpen(w, a.inner) THEN "inner" ELSE "shut"
Air(a) ==
  IF a.pressure = 0 /\ a.oxygen = 0 THEN "empty"
  ELSE IF a.pressure >= Ready /\ a.oxygen >= Breath THEN "full" ELSE "some"
ChamberOf(w, i) ==
  IF w.airlocks[i] = None THEN [door |-> "absent", air |-> "none"]
  ELSE [door |-> Side(w, w.airlocks[i]), air |-> Air(w.airlocks[i])]
ChambersOf(w) == [i \in Ids |-> ChamberOf(w, i)]

Lock ==
  INSTANCE AirlockChambers WITH
    Chambers <- Ids, chambers <- ChambersOf(World),
    kept <- IF saved = None THEN {} ELSE {ChambersOf(saved)}

\* Whatever the player, the rules, the power and the saves do, and also across
\* a load: an airlock goes from one side to the other only through being shut,
\* its gas moves only then, and it opens only on the gas for the side.
ImplementsChambers == Lock!Spec

\* What a save wrote can be loaded: no stable id is used twice, and no record
\* is refused for what another one refers to.
SavedLoads == saved # None => Restorable(saved)

\* A requested cycle comes to an open door if the controller has power again
\* and again: brownouts pause the pumps and forget nothing.
Pumping(i) == i \in Live(airlocks) /\ Cycling(airlocks[i])
Arrived(i) == i \in Live(airlocks) /\ airlocks[i].state \in {"ExteriorOpen", "InteriorOpen"}
HasPower(i) == i \in Live(airlocks) /\ airlocks[i].controller \in powered
CyclesComplete == \A i \in Ids : []<>HasPower(i) => (Pumping(i) ~> Arrived(i))

-----------------------------------------------------------------------------
(* The inductive invariant behind the safety properties: what holds of the *)
(* world holds of the saved one as well.                                   *)

Named(w) ==
  \A f, g \in {"portals", "machines", "airlocks", "rules"} :
    f # g => Live(w[f]) \intersect Live(w[g]) = {}

Placed(w) == \A p, q \in Live(w.portals) : w.portals[p].at = w.portals[q].at => p = q

Sealed(w) ==
  \A c \in Cells, type \in PortalTypes :
    w.cells[c] = type <=> \E p \in PortalAt(w, c) : ~w.portals[p].open /\ w.portals[p].type = type

\* Assemblies have their parts, and share none.
Assembled(w) ==
  \A i \in Live(w.airlocks) :
    /\ Valid(w, w.airlocks[i]) /\ w.airlocks[i].inner # w.airlocks[i].outer
    /\ \A j \in Live(w.airlocks) \ {i} :
         /\ w.airlocks[i].controller # w.airlocks[j].controller
         /\ \A p \in Ids : ~(Owns(w.airlocks[i], p) /\ Owns(w.airlocks[j], p))

\* A door is open in the state that is named after it, and that state has the
\* gas for it.
Fits(a) ==
  /\ a.state # "Fault"
  /\ a.state = "ExteriorOpen" => a.pressure = 0 /\ a.oxygen = 0
  /\ a.state = "InteriorOpen" => a.pressure >= Ready /\ a.oxygen >= Breath

Guarded(w) ==
  \A i \in Live(w.airlocks) :
    LET a == w.airlocks[i]
    IN  /\ Fits(a)
        /\ IsOpen(w, a.outer) => a.state = "ExteriorOpen"
        /\ IsOpen(w, a.inner) => a.state = "InteriorOpen"

Ruled(w) == \A r \in Live(w.rules) : IsMachine(w, w.rules[r].controller, "LogicController")

Sound(w) == Named(w) /\ Placed(w) /\ Sealed(w) /\ Assembled(w) /\ Guarded(w) /\ Ruled(w)

Lit ==
  \A i \in Live(airlocks) :
    IsOpen(World, airlocks[i].outer) \/ IsOpen(World, airlocks[i].inner) => airlocks[i].controller \in powered

IInv ==
  /\ TypeOK
  /\ Sound(World)
  /\ saved # None => Sound(saved)
  /\ Lit

=============================================================================
