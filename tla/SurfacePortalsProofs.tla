------------------------ MODULE SurfacePortalsProofs ------------------------
(***************************************************************************)
(* Theorems about SurfacePortals, for any cells, any inventory, any sizes  *)
(* and speeds of the gas, any frames and any number of loads.              *)
(***************************************************************************)
EXTENDS SurfacePortals, TLAPS

USE BoundAssumption, NoneAssumption

(***************************************************************************)
(* Worlds                                                                  *)
(***************************************************************************)

\* What TypeOK says of the present world, by variable.
LEMMA PresentWorld ==
  ASSUME TypeOK
  PROVE  /\ World \in WorldType
         /\ World.portals = portals /\ World.machines = machines /\ World.airlocks = airlocks
         /\ World.rules = rules /\ World.cells = cells
         /\ World.kits = kits /\ World.blocks = blocks
BY DEF TypeOK, World

\* A live object is one of its kind.
LEMMA LiveObjects ==
  ASSUME NEW w \in WorldType
  PROVE  /\ \A i \in Live(w.portals) : i \in Ids /\ w.portals[i] \in Portal
         /\ \A i \in Live(w.machines) : i \in Ids /\ w.machines[i] \in Machine
         /\ \A i \in Live(w.airlocks) : i \in Ids /\ w.airlocks[i] \in Assembly
         /\ \A i \in Live(w.rules) : i \in Ids /\ w.rules[i] \in Rule
BY DEF Live, WorldType

\* Opening and closing portals changes nothing else about them.
LEMMA SetOpenPortals ==
  ASSUME NEW w \in WorldType, NEW open \in [Ids -> BOOLEAN], SetOpen(w, open)
  PROVE  /\ portals' \in [Ids -> Portal \union {None}]
         /\ Live(portals') = Live(w.portals)
         /\ \A p \in Live(w.portals) :
              /\ portals'[p] \in Portal
              /\ portals'[p].type = w.portals[p].type
              /\ portals'[p].at = w.portals[p].at
              /\ portals'[p].open = open[p]
<1>1. ASSUME NEW p \in Live(w.portals)
      PROVE  portals'[p] = [w.portals[p] EXCEPT !.open = open[p]]
  BY <1>1 DEF SetOpen, Live
<1>2. ASSUME NEW p \in Ids, w.portals[p] = None PROVE portals'[p] = None
  BY <1>2 DEF SetOpen
<1>3. ASSUME NEW p \in Live(w.portals)
      PROVE  /\ portals'[p] \in Portal
             /\ portals'[p].type = w.portals[p].type
             /\ portals'[p].at = w.portals[p].at
             /\ portals'[p].open = open[p]
  <2>1. w.portals[p] \in Portal /\ p \in Ids
    BY LiveObjects
  <2> QED BY <2>1, <1>1 DEF Portal
<1>4. DOMAIN portals' = Ids /\ portals' = [p \in Ids |-> portals'[p]]
  BY DEF SetOpen
<1>5. \A p \in Ids : portals'[p] \in Portal \union {None} /\ (portals'[p] = None <=> w.portals[p] = None)
  BY <1>2, <1>3 DEF Live
<1> QED BY <1>3, <1>4, <1>5 DEF Live

\* Where portals stand apart, the one that moves authors its voxel.
LEMMA SetOpenCells ==
  ASSUME NEW w \in WorldType, NEW open \in [Ids -> BOOLEAN], SetOpen(w, open), Placed(w)
  PROVE  /\ cells' \in [Cells -> Voxels]
         /\ \A p \in Live(w.portals) :
              cells'[w.portals[p].at] =
                IF w.portals[p].open = open[p] THEN w.cells[w.portals[p].at] ELSE Skin(portals'[p])
         /\ \A c \in Cells : PortalAt(w, c) = {} => cells'[c] = w.cells[c]
<1> DEFINE set(p) == [w.portals[p] EXCEPT !.open = open[p]]
           moved(c) == {p \in PortalAt(w, c) : w.portals[p].open # open[p]}
<1>1. \A c \in Cells : cells'[c] = IF moved(c) = {} THEN w.cells[c] ELSE Skin(set(CHOOSE p \in moved(c) : TRUE))
  BY DEF SetOpen
<1>2. ASSUME NEW p \in Live(w.portals)
      PROVE  /\ w.portals[p].at \in Cells
             /\ portals'[p] = set(p)
             /\ cells'[w.portals[p].at] =
                  IF w.portals[p].open = open[p] THEN w.cells[w.portals[p].at] ELSE Skin(portals'[p])
  <2>1. w.portals[p].at \in Cells /\ p \in Ids
    BY LiveObjects DEF Portal
  <2>2. portals'[p] = set(p)
    BY DEF SetOpen, Live
  <2>3. PortalAt(w, w.portals[p].at) = {p}
    BY DEF PortalAt, Placed
  <2>4. CASE w.portals[p].open = open[p]
    <3>1. moved(w.portals[p].at) = {}
      BY <2>3, <2>4
    <3> QED BY <2>1, <2>2, <2>4, <3>1, <1>1
  <2>5. CASE w.portals[p].open # open[p]
    <3>1. moved(w.portals[p].at) = {p}
      BY <2>3, <2>5
    <3>2. (CHOOSE q \in {p} : TRUE) = p
      OBVIOUS
    <3> QED BY <2>1, <2>2, <2>5, <3>1, <3>2, <1>1
  <2> QED BY <2>1, <2>2, <2>4, <2>5
<1>3. ASSUME NEW c \in Cells PROVE cells'[c] \in Voxels /\ (PortalAt(w, c) = {} => cells'[c] = w.cells[c])
  <2>1. CASE PortalAt(w, c) = {}
    <3>1. moved(c) = {}
      BY <2>1
    <3> QED BY <1>1, <3>1 DEF WorldType
  <2>2. CASE PortalAt(w, c) # {}
    <3>1. PICK p \in Live(w.portals) : w.portals[p].at = c
      BY <2>2 DEF PortalAt
    <3>2. portals'[p] \in Portal
      BY SetOpenPortals
    <3>3. Skin(portals'[p]) \in Voxels
      BY <3>2 DEF Skin, Portal, Voxels
    <3> QED BY <1>2, <2>2, <3>1, <3>3 DEF WorldType
  <2> QED BY <2>1, <2>2
<1>4. cells' = [c \in Cells |-> cells'[c]]
  BY DEF SetOpen
<1> QED BY <1>2, <1>3, <1>4

\* Portals stay apart and sealed.
LEMMA SetOpenSealed ==
  ASSUME NEW w \in WorldType, NEW open \in [Ids -> BOOLEAN], SetOpen(w, open),
         Placed(w), Sealed(w)
  PROVE  Placed(World)' /\ Sealed(World)'
<1>1. /\ World'.portals = portals' /\ World'.cells = cells'
      /\ Live(portals') = Live(w.portals)
      /\ \A p \in Live(w.portals) : portals'[p].at = w.portals[p].at
  BY SetOpenPortals DEF World
<1>2. \A c \in Cells : PortalAt(World', c) = PortalAt(w, c)
  BY <1>1 DEF PortalAt
<1>3. Placed(World)'
  BY <1>1 DEF Placed
<1>4. ASSUME NEW c \in Cells, NEW type \in PortalTypes
      PROVE  cells'[c] = type <=>
               \E p \in PortalAt(World', c) : ~portals'[p].open /\ portals'[p].type = type
  <2>1. CASE PortalAt(w, c) = {}
    BY <2>1, <1>2, SetOpenCells DEF Sealed
  <2>2. CASE PortalAt(w, c) # {}
    <3>1. PICK p \in Live(w.portals) : w.portals[p].at = c
      BY <2>2 DEF PortalAt
    <3>2. PortalAt(w, c) = {p}
      BY <3>1 DEF PortalAt, Placed
    <3>3. w.cells[c] = type <=> ~w.portals[p].open /\ w.portals[p].type = type
      BY <3>2 DEF Sealed
    <3>4. /\ portals'[p].type = w.portals[p].type
          /\ portals'[p].open = open[p] /\ open[p] \in BOOLEAN
          /\ w.portals[p].open \in BOOLEAN
      BY SetOpenPortals, LiveObjects DEF Portal
    <3>5. cells'[c] = IF w.portals[p].open = open[p] THEN w.cells[c] ELSE Skin(portals'[p])
      BY <3>1, SetOpenCells
    <3>6. cells'[c] = type <=> ~portals'[p].open /\ portals'[p].type = type
      BY <3>3, <3>4, <3>5 DEF Skin, PortalTypes
    <3> QED BY <3>6, <3>2, <1>2
  <2> QED BY <2>1, <2>2
<1>5. Sealed(World)'
  BY <1>1, <1>4 DEF Sealed
<1> QED BY <1>3, <1>5

(***************************************************************************)
(* The airlocks                                                            *)
(***************************************************************************)

\* Arithmetic of the pumps: products, the larger and the smaller of two numbers.
LEMMA Units ==
  /\ \A x, y \in Nat : x * y \in Nat
  /\ \A x, y \in Int : Most(x, y) \in {x, y} /\ Most(x, y) >= x /\ Most(x, y) >= y
  /\ \A x, y \in Int : Least(x, y) \in {x, y} /\ Least(x, y) <= x /\ Least(x, y) <= y
BY DEF Most, Least

\* A frame moves the gas within the chamber's limits, and comes to an open
\* state only with the gas for it.
LEMMA CycledFits ==
  ASSUME NEW w, NEW a \in Assembly, NEW dt \in Nat, NEW lit,
         Valid(w, a), ~BothOpen(w, a), Fits(a)
  PROVE  /\ Cycled(w, a, dt, lit) \in Assembly
         /\ Cycled(w, a, dt, lit).controller = a.controller
         /\ Cycled(w, a, dt, lit).inner = a.inner
         /\ Cycled(w, a, dt, lit).outer = a.outer
         /\ Fits(Cycled(w, a, dt, lit))
<1> DEFINE b == Cycled(w, a, dt, lit)
           Good(x) == /\ x \in Assembly /\ Fits(x)
                      /\ x.controller = a.controller /\ x.inner = a.inner /\ x.outer = a.outer
<1>1. /\ a.pressure \in 0..Hull /\ a.oxygen \in 0..Hull
      /\ Hull \in Nat /\ Vented \in 0..Hull /\ Ready \in 0..Hull /\ Breath \in 0..Hull
  BY GasAssumption DEF Assembly, Gas
<1>2. ASSUME NEW state \in States, NEW p \in Gas, NEW o \in Gas,
             state # "Fault",
             state = "ExteriorOpen" => p = 0 /\ o = 0,
             state = "InteriorOpen" => p >= Ready /\ o >= Breath
      PROVE  Good(Becomes(a, state, p, o))
  BY <1>2 DEF Becomes, Assembly, Fits
<1>3. Good(Depressurized(a, dt))
  <2> DEFINE p == Most(0, a.pressure - Pumps["out"] * dt)
             o == Most(0, a.oxygen - Pumps["outO2"] * dt)
  <2>1. Pumps["out"] * dt \in Nat /\ Pumps["outO2"] * dt \in Nat
    BY PumpAssumption, Units
  <2>2. p \in Gas /\ o \in Gas
    <3> HIDE DEF p, o
    <3>1. p \in {0, a.pressure - Pumps["out"] * dt} /\ p >= 0
      BY <1>1, <2>1, Units DEF p
    <3>2. o \in {0, a.oxygen - Pumps["outO2"] * dt} /\ o >= 0
      BY <1>1, <2>1, Units DEF o
    <3> QED BY <1>1, <2>1, <3>1, <3>2 DEF Gas
  <2>3. Depressurized(a, dt) = IF p <= Vented THEN Becomes(a, "ExteriorOpen", 0, 0)
                               ELSE Becomes(a, "Depressurizing", p, o)
    BY DEF Depressurized
  <2>4. 0 \in Gas /\ "ExteriorOpen" \in States /\ "Depressurizing" \in States
    BY <1>1 DEF Gas, States
  <2> HIDE DEF p, o, Good
  <2> QED BY <1>2, <2>2, <2>3, <2>4
<1>4. Good(Pressurized(a, dt))
  <2> DEFINE p == Least(Hull, a.pressure + Pumps["in"] * dt)
             o == Least(p, a.oxygen + Pumps["inO2"] * dt)
  <2>1. Pumps["in"] * dt \in Nat /\ Pumps["inO2"] * dt \in Nat
    BY PumpAssumption, Units
  <2>2. p \in Gas /\ o \in Gas /\ Most(Breath, o) \in Gas /\ Most(Breath, o) >= Breath
    <3>1. p \in Gas
      BY <1>1, <2>1, Units DEF Gas, Least
    <3>2. o \in Gas
      <4> HIDE DEF p
      <4> QED BY <1>1, <2>1, <3>1 DEF Gas, Least
    <3> HIDE DEF p, o
    <3> QED BY <1>1, <3>1, <3>2 DEF Gas, Most
  <2>3. Pressurized(a, dt) = IF p >= Ready /\ o >= Breath
                             THEN Becomes(a, "InteriorOpen", Hull, Most(Breath, o))
                             ELSE Becomes(a, "Pressurizing", p, o)
    BY DEF Pressurized
  <2>4. /\ Hull \in Gas /\ Hull >= Ready
        /\ "InteriorOpen" \in States /\ "Pressurizing" \in States
    BY <1>1 DEF Gas, States
  <2> HIDE DEF p, o, Good
  <2> QED BY <1>2, <2>2, <2>3, <2>4
<1>5. Good(Becomes(a, "ExteriorOpen", 0, 0))
  BY <1>1, <1>2 DEF Gas, States
<1>6. Good(Becomes(a, "InteriorOpen", Most(a.pressure, Ready), Most(a.oxygen, Breath)))
  <2>1. /\ Most(a.pressure, Ready) \in Gas /\ Most(a.pressure, Ready) >= Ready
        /\ Most(a.oxygen, Breath) \in Gas /\ Most(a.oxygen, Breath) >= Breath
    BY <1>1 DEF Gas, Most
  <2> QED BY <1>2, <2>1 DEF States
<1>7. Good(a)
  OBVIOUS
<1>8. \/ b = a
      \/ b = Depressurized(a, dt)
      \/ b = Pressurized(a, dt)
      \/ b = Becomes(a, "ExteriorOpen", 0, 0)
      \/ b = Becomes(a, "InteriorOpen", Most(a.pressure, Ready), Most(a.oxygen, Breath))
  <2>1. b = IF ~Runs(w, a, lit) THEN a
            ELSE CASE a.state = "Depressurizing" -> Depressurized(a, dt)
                   [] a.state = "Pressurizing" -> Pressurized(a, dt)
                   [] a.state = "ExteriorOpen" -> Becomes(a, a.state, 0, 0)
                   [] a.state = "InteriorOpen" -> Becomes(a, a.state, Most(a.pressure, Ready), Most(a.oxygen, Breath))
                   [] OTHER -> a
    BY DEF Cycled
  <2> HIDE DEF b
  <2> QED BY <2>1
<1> HIDE DEF b
<1>9. Good(b)
  <2> HIDE DEF Good
  <2> QED BY <1>3, <1>4, <1>5, <1>6, <1>7, <1>8
<1> QED BY <1>9 DEF b


\* Assemblies share no door: the owner of one is found.
LEMMA OwnerIs ==
  ASSUME NEW w, Assembled(w), NEW i \in Live(w.airlocks), NEW p \in Ids, Owns(w.airlocks[i], p)
  PROVE  Owned(w, p) /\ Owner(w, p) = i
<1>1. \A j \in Live(w.airlocks) : Owns(w.airlocks[j], p) => j = i
  BY DEF Assembled
<1>2. Owner(w, p) \in Live(w.airlocks) /\ Owns(w.airlocks[Owner(w, p)], p)
  BY DEF Owner
<1> QED BY <1>1, <1>2 DEF Owned

\* The two doors of a sound assembly are never open together.
LEMMA OneOpen ==
  ASSUME NEW w, Guarded(w), NEW i \in Live(w.airlocks)
  PROVE  ~BothOpen(w, w.airlocks[i])
BY DEF Guarded, BothOpen

\* World v has the machines and the doors of assemblies of world w.
Keeps(w, v) ==
  /\ \A m \in Live(w.machines) : m \in Live(v.machines) /\ v.machines[m].type = w.machines[m].type
  /\ \A p \in Live(w.portals) :
       Owned(w, p) => p \in Live(v.portals) /\ v.portals[p].type = w.portals[p].type

SameParts(a, b) == a.controller = b.controller /\ a.inner = b.inner /\ a.outer = b.outer

\* Assemblies keep their parts if no part is lost and none of them is changed.
LEMMA AssembledKept ==
  ASSUME NEW w \in WorldType, NEW v, Assembled(w), Keeps(w, v),
         Live(v.airlocks) = Live(w.airlocks),
         \A i \in Live(w.airlocks) : SameParts(v.airlocks[i], w.airlocks[i])
  PROVE  Assembled(v)
<1>1. ASSUME NEW i \in Live(w.airlocks) PROVE Valid(v, v.airlocks[i])
  <2>1. /\ w.airlocks[i].controller \in Ids /\ w.airlocks[i].inner \in Ids /\ w.airlocks[i].outer \in Ids
    BY LiveObjects DEF Assembly
  <2>2. Valid(w, w.airlocks[i])
    BY DEF Assembled
  <2>3. Owned(w, w.airlocks[i].inner) /\ Owned(w, w.airlocks[i].outer)
    BY DEF Owned, Owns
  <2>4. IsMachine(v, w.airlocks[i].controller, "AirlockController")
    BY <2>1, <2>2 DEF Keeps, Valid, IsMachine, Live
  <2>5. IsAirlock(v, w.airlocks[i].inner) /\ IsAirlock(v, w.airlocks[i].outer)
    BY <2>1, <2>2, <2>3 DEF Keeps, Valid, IsAirlock, Live
  <2> QED BY <2>4, <2>5 DEF Valid, SameParts
<1>2. ASSUME NEW i \in Live(w.airlocks)
      PROVE  /\ v.airlocks[i].inner # v.airlocks[i].outer
             /\ \A j \in Live(w.airlocks) \ {i} :
                  /\ v.airlocks[i].controller # v.airlocks[j].controller
                  /\ \A p \in Ids : ~(Owns(v.airlocks[i], p) /\ Owns(v.airlocks[j], p))
  BY DEF Assembled, SameParts, Owns
<1> QED BY <1>1, <1>2 DEF Assembled

\* A frame of the airlocks keeps what is sound, and opens doors only under a
\* controller that has power.
LEMMA AirlocksSound ==
  ASSUME NEW w \in WorldType, Placed(w), Sealed(w), Assembled(w), Guarded(w),
         NEW dt \in Nat, NEW lit \in SUBSET Ids, UpdateAirlocks(w, dt, lit),
         \A m \in Live(w.machines) : m \in Live(machines') /\ machines'[m].type = w.machines[m].type
  PROVE  /\ portals' \in [Ids -> Portal \union {None}] /\ Live(portals') = Live(w.portals)
         /\ airlocks' \in [Ids -> Assembly \union {None}] /\ Live(airlocks') = Live(w.airlocks)
         /\ cells' \in [Cells -> Voxels] /\ powered' = lit
         /\ Placed(World)' /\ Sealed(World)' /\ Assembled(World)' /\ Guarded(World)' /\ Lit'
<1> DEFINE open == [p \in Ids |-> IF Owned(w, p) THEN Door(w, w.airlocks[Owner(w, p)], p, dt, lit)
                                  ELSE IsOpen(w, p)]
<1>1. open \in [Ids -> BOOLEAN] /\ SetOpen(w, open)
  <2>1. \A p \in Ids : open[p] \in BOOLEAN
    BY DEF Door, IsOpen
  <2> QED BY <2>1 DEF UpdateAirlocks
<1>2. World'.portals = portals' /\ World'.airlocks = airlocks' /\ World'.machines = machines'
  BY DEF World
<1>3. ASSUME NEW i \in Live(w.airlocks)
      PROVE  /\ i \in Ids /\ w.airlocks[i] \in Assembly
             /\ airlocks'[i] = Cycled(w, w.airlocks[i], dt, lit)
             /\ airlocks'[i] \in Assembly
             /\ SameParts(airlocks'[i], w.airlocks[i])
             /\ Fits(airlocks'[i])
  <2>1. i \in Ids /\ w.airlocks[i] \in Assembly
    BY LiveObjects
  <2>2. airlocks'[i] = Cycled(w, w.airlocks[i], dt, lit)
    BY <2>1 DEF UpdateAirlocks, Live
  <2>3. Valid(w, w.airlocks[i]) /\ ~BothOpen(w, w.airlocks[i]) /\ Fits(w.airlocks[i])
    BY OneOpen DEF Assembled, Guarded
  <2> QED BY <2>1, <2>2, <2>3, CycledFits DEF SameParts
<1>4. airlocks' \in [Ids -> Assembly \union {None}] /\ Live(airlocks') = Live(w.airlocks)
  <2>1. \A i \in Ids : i \notin Live(w.airlocks) => airlocks'[i] = None
    BY DEF UpdateAirlocks, Live
  <2>2. airlocks' = [i \in Ids |-> airlocks'[i]]
    BY DEF UpdateAirlocks
  <2>3. \A i \in Live(w.airlocks) : airlocks'[i] # None
    BY <1>3
  <2> QED BY <2>1, <2>2, <2>3, <1>3 DEF Live
<1>5. /\ portals' \in [Ids -> Portal \union {None}] /\ Live(portals') = Live(w.portals)
      /\ cells' \in [Cells -> Voxels]
      /\ Placed(World)' /\ Sealed(World)'
  BY <1>1, SetOpenPortals, SetOpenCells, SetOpenSealed
<1>6. Assembled(World)'
  <2>1. Keeps(w, World')
    BY <1>1, <1>2, SetOpenPortals DEF Keeps
  <2> QED BY <2>1, <1>2, <1>3, <1>4, AssembledKept
<1>7. ASSUME NEW i \in Live(w.airlocks), NEW p \in {w.airlocks[i].inner, w.airlocks[i].outer},
             IsOpen(World', p)
      PROVE  /\ p = w.airlocks[i].inner => airlocks'[i].state = "InteriorOpen"
             /\ p = w.airlocks[i].outer => airlocks'[i].state = "ExteriorOpen"
             /\ w.airlocks[i].controller \in lit
  <2>1. p \in Ids /\ Owns(w.airlocks[i], p)
    BY <1>3 DEF Assembly, Owns
  <2>2. p \in Live(w.portals)
    BY <1>2, <1>5, <1>7, <2>1 DEF IsOpen, Live
  <2>3. portals'[p].open = open[p]
    BY <1>1, <2>2, SetOpenPortals
  <2>4. open[p] = Door(w, w.airlocks[i], p, dt, lit)
    BY <2>1, OwnerIs
  <2>5. Door(w, w.airlocks[i], p, dt, lit)
    <3> HIDE DEF open
    <3> QED BY <1>2, <1>7, <2>3, <2>4 DEF IsOpen
  <2>6. w.airlocks[i].inner # w.airlocks[i].outer
    BY DEF Assembled
  <2> QED BY <1>3, <2>5, <2>6 DEF Door, Runs
<1>8. Guarded(World)'
  <2>1. ASSUME NEW i \in Live(w.airlocks)
        PROVE  /\ Fits(airlocks'[i])
               /\ IsOpen(World', airlocks'[i].outer) => airlocks'[i].state = "ExteriorOpen"
               /\ IsOpen(World', airlocks'[i].inner) => airlocks'[i].state = "InteriorOpen"
    BY <1>3, <1>7 DEF SameParts
  <2> QED BY <2>1, <1>2, <1>4 DEF Guarded
<1>9. Lit'
  <2>1. ASSUME NEW i \in Live(w.airlocks),
               IsOpen(World', airlocks'[i].outer) \/ IsOpen(World', airlocks'[i].inner)
        PROVE  airlocks'[i].controller \in lit
    BY <1>3, <1>7, <2>1 DEF SameParts
  <2>2. powered' = lit
    BY DEF UpdateAirlocks
  <2> QED BY <2>1, <2>2, <1>4 DEF Lit
<1> QED BY <1>4, <1>5, <1>6, <1>8, <1>9 DEF UpdateAirlocks

(***************************************************************************)
(* The invariant, part by part                                             *)
(***************************************************************************)

\* The types of the variables after a step, one by one, give TypeOK'.
LEMMA TypeParts ==
  ASSUME serial' \in Nat, loads' \in 0..MaxLoads, powered' \subseteq Ids,
         phase' \in {"begin", "play"}, saved' \in WorldType \union {None},
         portals' \in [Ids -> Portal \union {None}], machines' \in [Ids -> Machine \union {None}],
         airlocks' \in [Ids -> Assembly \union {None}], rules' \in [Ids -> Rule \union {None}],
         cells' \in [Cells -> Voxels], kits' \in [Kinds -> Nat], blocks' \in Nat
  PROVE  TypeOK'
BY DEF TypeOK, World, WorldType

\* TypeOK by variable.
LEMMA Types ==
  ASSUME TypeOK
  PROVE  /\ serial \in Nat /\ loads \in 0..MaxLoads /\ powered \subseteq Ids
         /\ phase \in {"begin", "play"} /\ saved \in WorldType \union {None}
         /\ portals \in [Ids -> Portal \union {None}] /\ machines \in [Ids -> Machine \union {None}]
         /\ airlocks \in [Ids -> Assembly \union {None}] /\ rules \in [Ids -> Rule \union {None}]
         /\ cells \in [Cells -> Voxels] /\ kits \in [Kinds -> Nat] /\ blocks \in Nat
BY DEF TypeOK, World, WorldType

\* An id that allocateStableId returns names nothing yet.
LEMMA FreshId ==
  ASSUME NEW from \in Nat, NEW id \in Ids, Allocates(from, id)
  PROVE  /\ id \notin Live(portals) /\ id \notin Live(machines)
         /\ id \notin Live(airlocks) /\ id \notin Live(rules)
         /\ id + 1 \in Nat /\ id >= from
BY DEF Allocates, Taken, Ids

\* Names stay distinct where at most fresh ones are added.
LEMMA NamedKept ==
  ASSUME Named(World), NEW fresh \in SUBSET Ids,
         \A id \in fresh : /\ id \notin Live(portals) /\ id \notin Live(machines)
                           /\ id \notin Live(airlocks) /\ id \notin Live(rules),
         \/ /\ Live(portals') \subseteq Live(portals) \union fresh
            /\ Live(machines') = Live(machines) /\ Live(airlocks') = Live(airlocks) /\ Live(rules') = Live(rules)
         \/ /\ Live(machines') \subseteq Live(machines) \union fresh
            /\ Live(portals') = Live(portals) /\ Live(airlocks') = Live(airlocks) /\ Live(rules') = Live(rules)
         \/ /\ Live(airlocks') \subseteq Live(airlocks) \union fresh
            /\ Live(portals') = Live(portals) /\ Live(machines') = Live(machines) /\ Live(rules') = Live(rules)
         \/ /\ Live(rules') \subseteq Live(rules) \union fresh
            /\ Live(portals') = Live(portals) /\ Live(machines') = Live(machines) /\ Live(airlocks') = Live(airlocks)
  PROVE  Named(World)'
<1> DEFINE Apart(P, M, A, R) == /\ P \intersect M = {} /\ P \intersect A = {} /\ P \intersect R = {}
                                /\ M \intersect A = {} /\ M \intersect R = {} /\ A \intersect R = {}
<1>1. Apart(Live(portals), Live(machines), Live(airlocks), Live(rules))
  BY DEF Named, World
<1>2. Apart(Live(portals'), Live(machines'), Live(airlocks'), Live(rules'))
  BY <1>1
<1> QED BY <1>2 DEF Named, World

\* Ids stay apart when objects are removed.
LEMMA NamedFewer ==
  ASSUME Named(World),
         Live(portals') \subseteq Live(portals), Live(machines') \subseteq Live(machines),
         Live(airlocks') \subseteq Live(airlocks), Live(rules') \subseteq Live(rules)
  PROVE  Named(World)'
BY DEF Named, World

\* Airlocks stay guarded and lit when no door opens.
LEMMA GuardedKept ==
  ASSUME TypeOK, Guarded(World), Lit, airlocks' = airlocks, powered' = powered,
         \A i \in Live(airlocks) : \A p \in {airlocks[i].inner, airlocks[i].outer} :
           IsOpen(World', p) => IsOpen(World, p)
  PROVE  Guarded(World)' /\ Lit'
<1>1. World.airlocks = airlocks /\ World'.airlocks = airlocks
  BY DEF World
<1> QED BY <1>1 DEF Guarded, Lit

\* Assemblies stay whole when no machine and none of their doors goes.
LEMMA AssemblyKept ==
  ASSUME TypeOK, Assembled(World), airlocks' = airlocks,
         \A m \in Live(machines) : m \in Live(machines') /\ machines'[m].type = machines[m].type,
         \A p \in Live(portals) :
           Owned(World, p) => p \in Live(portals') /\ portals'[p].type = portals[p].type
  PROVE  Assembled(World)'
<1>1. Keeps(World, World')
  BY DEF Keeps, World
<1>2. World.airlocks = airlocks /\ World'.airlocks = airlocks
  BY DEF World
<1> QED BY <1>1, <1>2, PresentWorld, AssembledKept DEF SameParts

\* Rules keep their controller as long as no machine goes.
LEMMA RuledKept ==
  ASSUME TypeOK, Ruled(World), rules' = rules,
         \A m \in Live(machines) : m \in Live(machines') /\ machines'[m].type = machines[m].type
  PROVE  Ruled(World)'
<1>1. /\ World.rules = rules /\ World.machines = machines
      /\ World'.rules = rules /\ World'.machines = machines'
  BY DEF World
<1>2. \A r \in Live(rules) : rules[r].controller \in Ids
  BY <1>1, PresentWorld, LiveObjects DEF Rule
<1> QED BY <1>1, <1>2 DEF Ruled, IsMachine, Live

\* What a step that leaves the save alone has to show.
LEMMA SoundStep ==
  ASSUME IInv, TypeOK', saved' = saved, Named(World)', Placed(World)', Sealed(World)',
         Assembled(World)', Guarded(World)', Ruled(World)', Lit'
  PROVE  IInv'
<1>1. (saved # None => Sound(saved))'
  BY DEF IInv
<1> QED BY <1>1 DEF IInv, Sound

\* Setting portals by hand or by rule, if it opens no door of an assembly.
LEMMA SetOpenSound ==
  ASSUME IInv, NEW open \in [Ids -> BOOLEAN], SetOpen(World, open),
         airlocks' = airlocks, rules' = rules, powered' = powered, saved' = saved,
         serial' = serial, loads' = loads, kits' = kits, blocks' = blocks,
         phase' \in {"begin", "play"},
         machines' \in [Ids -> Machine \union {None}], Live(machines') = Live(machines),
         \A m \in Live(machines) : machines'[m].type = machines[m].type,
         \A p \in Ids : Owned(World, p) /\ open[p] => IsOpen(World, p)
  PROVE  IInv'
<1>1. /\ TypeOK /\ Named(World) /\ Placed(World) /\ Sealed(World) /\ Assembled(World)
      /\ Guarded(World) /\ Ruled(World) /\ Lit
  BY DEF IInv, Sound
<1>2. /\ World \in WorldType /\ World.portals = portals /\ World.airlocks = airlocks
  BY <1>1, PresentWorld
<1>3. /\ portals' \in [Ids -> Portal \union {None}] /\ Live(portals') = Live(portals)
      /\ cells' \in [Cells -> Voxels] /\ Placed(World)' /\ Sealed(World)'
      /\ \A p \in Live(portals) : portals'[p].type = portals[p].type /\ portals'[p].open = open[p]
  BY <1>1, <1>2, SetOpenPortals, SetOpenCells, SetOpenSealed
<1>4. TypeOK'
  <2>1. /\ serial' \in Nat /\ loads' \in 0..MaxLoads /\ powered' \subseteq Ids
        /\ saved' \in WorldType \union {None} /\ airlocks' \in [Ids -> Assembly \union {None}]
        /\ rules' \in [Ids -> Rule \union {None}] /\ kits' \in [Kinds -> Nat] /\ blocks' \in Nat
    BY <1>1, Types
  <2> QED BY <1>3, <2>1, TypeParts
<1>5. Named(World)'
  BY <1>1, <1>3, NamedFewer
<1>6. Assembled(World)'
  BY <1>1, <1>3, AssemblyKept
<1>7. Guarded(World)' /\ Lit'
  <2>1. ASSUME NEW i \in Live(airlocks), NEW p \in {airlocks[i].inner, airlocks[i].outer},
               IsOpen(World', p)
        PROVE  IsOpen(World, p)
    <3>1. p \in Ids /\ Owned(World, p)
      BY <1>2, LiveObjects DEF Owned, Owns, Assembly
    <3>2. p \in Live(portals) /\ portals'[p].open
      BY <1>3, <2>1, <3>1 DEF IsOpen, Live, World
    <3> QED BY <1>3, <3>1, <3>2
  <2> QED BY <1>1, <2>1, GuardedKept
<1>8. Ruled(World)'
  BY <1>1, RuledKept
<1> QED BY <1>3, <1>4, <1>5, <1>6, <1>7, <1>8, SoundStep

(***************************************************************************)
(* The invariant holds at the start and through every step                 *)
(***************************************************************************)

\* A new base satisfies the invariant: it has neither doors nor assemblies.
LEMMA InitInv == Init => IInv
<1> SUFFICES ASSUME Init PROVE IInv
  OBVIOUS
<1>1. machines \in [Ids -> Machine \union {None}]
  <2>1. \A i \in 1..Len(Built) : [type |-> Built[i], enabled |-> TRUE] \in Machine
    BY BuiltAssumption DEF Machine
  <2> QED BY <2>1, BuiltAssumption DEF Init, Ids
<1>2. Len(Built) + 1 \in Nat /\ Kits \in [Kinds -> Nat] /\ Blocks \in Nat
  BY BuiltAssumption, KitAssumption
<1>3. TypeOK
  BY <1>1, <1>2 DEF Init, TypeOK, World, WorldType, Voxels
<1>4. /\ World.portals = portals /\ World.machines = machines /\ World.airlocks = airlocks
      /\ World.rules = rules /\ World.cells = cells
      /\ Live(portals) = {} /\ Live(airlocks) = {} /\ Live(rules) = {}
  BY DEF World, Init, Live
<1>5. Named(World) /\ Placed(World) /\ Assembled(World) /\ Guarded(World) /\ Ruled(World) /\ Lit
  BY <1>4 DEF Named, Placed, Assembled, Guarded, Ruled, Lit
<1>6. Sealed(World)
  BY <1>4 DEF Sealed, PortalAt, PortalTypes, Init
<1> QED BY <1>3, <1>5, <1>6 DEF IInv, Sound, Init

\* What IInv says of the present, by part.
LEMMA Present ==
  ASSUME IInv
  PROVE  /\ TypeOK /\ Named(World) /\ Placed(World) /\ Sealed(World)
         /\ Assembled(World) /\ Guarded(World) /\ Ruled(World) /\ Lit
         /\ World \in WorldType
         /\ World.portals = portals /\ World.machines = machines /\ World.airlocks = airlocks
         /\ World.rules = rules /\ World.cells = cells
         /\ serial \in Nat /\ loads \in 0..MaxLoads /\ powered \subseteq Ids
         /\ phase \in {"begin", "play"} /\ saved \in WorldType \union {None}
         /\ portals \in [Ids -> Portal \union {None}] /\ machines \in [Ids -> Machine \union {None}]
         /\ airlocks \in [Ids -> Assembly \union {None}] /\ rules \in [Ids -> Rule \union {None}]
         /\ cells \in [Cells -> Voxels] /\ kits \in [Kinds -> Nat] /\ blocks \in Nat
BY PresentWorld, Types DEF IInv, Sound

\* A frame of the airlocks preserves the invariant, whatever has power.
LEMMA UpdateInv ==
  ASSUME IInv, NEW dt \in Nat, NEW lit \in SUBSET Ids, Update(dt, lit)
  PROVE  IInv'
<1>1. /\ UpdateAirlocks(World, dt, lit) /\ machines' = machines /\ rules' = rules /\ saved' = saved
      /\ serial' = serial /\ loads' = loads /\ kits' = kits /\ blocks' = blocks /\ phase' = "play"
  BY DEF Update
<1>2. /\ portals' \in [Ids -> Portal \union {None}] /\ Live(portals') = Live(portals)
      /\ airlocks' \in [Ids -> Assembly \union {None}] /\ Live(airlocks') = Live(airlocks)
      /\ cells' \in [Cells -> Voxels] /\ powered' = lit
      /\ Placed(World)' /\ Sealed(World)' /\ Assembled(World)' /\ Guarded(World)' /\ Lit'
  BY <1>1, Present, AirlocksSound
<1>3. TypeOK'
  BY <1>1, <1>2, Present, TypeParts
<1>4. Named(World)' /\ Ruled(World)'
  BY <1>1, <1>2, Present, NamedFewer, RuledKept
<1> QED BY <1>1, <1>2, <1>3, <1>4, SoundStep

\* A placed door is closed, in a free cell, under a fresh id.
LEMMA PlacePortalInv ==
  ASSUME IInv, NEW c \in Cells, NEW type \in PortalTypes, PlacePortal(c, type)
  PROVE  IInv'
<1> DEFINE new == [type |-> type, at |-> c, open |-> FALSE]
<1>1. PICK id \in Ids : /\ Allocates(serial, id) /\ serial' = id + 1
                        /\ portals' = [portals EXCEPT ![id] = new]
  BY DEF PlacePortal
<1>2. /\ cells[c] = "Air" /\ PortalAt(World, c) = {} /\ cells' = [cells EXCEPT ![c] = type]
      /\ kits[type] > 0 /\ kits' = [kits EXCEPT ![type] = @ - 1]
      /\ machines' = machines /\ airlocks' = airlocks /\ rules' = rules /\ powered' = powered
      /\ blocks' = blocks /\ phase' = phase /\ saved' = saved /\ loads' = loads
  BY DEF PlacePortal
<1>3. /\ id \notin Live(portals) /\ id \notin Live(machines)
      /\ id \notin Live(airlocks) /\ id \notin Live(rules) /\ id + 1 \in Nat
  BY <1>1, Present, FreshId
<1>4. new \in Portal /\ new # None /\ new.at = c /\ new.open = FALSE /\ new.type = type
  <2>1. new \in Portal
    BY DEF Portal
  <2> QED BY <2>1
<1>5. /\ Live(portals') = Live(portals) \union {id} /\ portals'[id] = new
      /\ \A p \in Live(portals) : p # id /\ portals'[p] = portals[p]
  BY <1>1, <1>3, <1>4, Present DEF Live
<1>6. TypeOK'
  <2>1. portals' \in [Ids -> Portal \union {None}]
    BY <1>1, <1>4, Present
  <2>2. cells' \in [Cells -> Voxels] /\ kits' \in [Kinds -> Nat]
    BY <1>2, Present DEF Voxels, Kinds
  <2> QED BY <1>1, <1>2, <1>3, <2>1, <2>2, Present, TypeParts
<1>7. Named(World)'
  <2> DEFINE fresh == {id}
  <2>1. fresh \in SUBSET Ids /\ Live(portals') \subseteq Live(portals) \union fresh
    BY <1>5
  <2>2. \A i \in fresh : /\ i \notin Live(portals) /\ i \notin Live(machines)
                         /\ i \notin Live(airlocks) /\ i \notin Live(rules)
    BY <1>3
  <2> HIDE DEF fresh
  <2>3. Named(World)
    BY Present
  <2> QED BY <1>2, <1>3, <2>1, <2>2, <2>3, NamedKept
<1>8. World'.portals = portals' /\ World'.cells = cells'
  BY DEF World
<1>9. Placed(World)'
  <2>1. \A p \in Live(portals) : portals[p].at # c
    BY <1>2, Present DEF PortalAt
  <2>2. \A p, q \in Live(portals) : portals[p].at = portals[q].at => p = q
    BY Present DEF Placed
  <2> QED BY <1>4, <1>5, <1>8, <2>1, <2>2 DEF Placed
<1>10. Sealed(World)'
  <2>1. ASSUME NEW d \in Cells, d # c, NEW t \in PortalTypes
        PROVE  cells'[d] = t <=> \E p \in PortalAt(World', d) : ~portals'[p].open /\ portals'[p].type = t
    <3>1. PortalAt(World', d) = PortalAt(World, d)
      BY <1>4, <1>5, <1>8, <2>1, Present DEF PortalAt
    <3>2. cells'[d] = cells[d]
      BY <1>2, <2>1, Present
    <3>3. \A p \in PortalAt(World, d) : portals'[p] = portals[p]
      BY <1>5, Present DEF PortalAt
    <3>4. cells[d] = t <=> \E p \in PortalAt(World, d) : ~portals[p].open /\ portals[p].type = t
      BY Present DEF Sealed
    <3> QED BY <3>1, <3>2, <3>3, <3>4
  <2>2. ASSUME NEW t \in PortalTypes
        PROVE  cells'[c] = t <=> \E p \in PortalAt(World', c) : ~portals'[p].open /\ portals'[p].type = t
    <3>1. PortalAt(World', c) = {id}
      BY <1>2, <1>4, <1>5, <1>8, Present DEF PortalAt
    <3>2. cells'[c] = type
      BY <1>2, Present
    <3> QED BY <1>4, <1>5, <3>1, <3>2
  <2> QED BY <1>8, <2>1, <2>2 DEF Sealed
<1>11. Assembled(World)' /\ Ruled(World)'
  BY <1>2, <1>5, Present, AssemblyKept, RuledKept
<1>12. Guarded(World)' /\ Lit'
  <2>1. \A p \in Ids : IsOpen(World', p) => IsOpen(World, p)
    BY <1>4, <1>5, <1>8, Present DEF IsOpen, Live
  <2>2. \A i \in Live(airlocks) : airlocks[i].inner \in Ids /\ airlocks[i].outer \in Ids
    BY Present, LiveObjects DEF Assembly
  <2> QED BY <1>2, <2>1, <2>2, Present, GuardedKept
<1> QED BY <1>2, <1>6, <1>7, <1>9, <1>10, <1>11, <1>12, SoundStep

\* A placed machine has a fresh id.
LEMMA PlaceMachineInv ==
  ASSUME IInv, NEW type \in MachineTypes, PlaceMachine(type)
  PROVE  IInv'
<1> DEFINE new == [type |-> type, enabled |-> TRUE]
<1>1. PICK id \in Ids : /\ Allocates(serial, id) /\ serial' = id + 1
                        /\ machines' = [machines EXCEPT ![id] = new]
  BY DEF PlaceMachine
<1>2. PICK lit \in PoweredSets(machines') : UpdateAirlocks(World, 0, lit)
  BY DEF PlaceMachine
<1>3. /\ kits[type] > 0 /\ kits' = [kits EXCEPT ![type] = @ - 1]
      /\ rules' = rules /\ blocks' = blocks /\ phase' = phase /\ saved' = saved /\ loads' = loads
  BY DEF PlaceMachine
<1>4. /\ id \notin Live(portals) /\ id \notin Live(machines)
      /\ id \notin Live(airlocks) /\ id \notin Live(rules) /\ id + 1 \in Nat
  BY <1>1, Present, FreshId
<1>5. new \in Machine /\ new # None
  <2>1. new \in Machine
    BY DEF Machine
  <2> QED BY <2>1
<1>6. /\ Live(machines') = Live(machines) \union {id}
      /\ \A m \in Live(machines) : machines'[m] = machines[m]
      /\ machines' \in [Ids -> Machine \union {None}]
  BY <1>1, <1>4, <1>5, Present DEF Live
<1>7. lit \in SUBSET Ids
  BY DEF PoweredSets, Enabled, Live
<1>8. /\ portals' \in [Ids -> Portal \union {None}] /\ Live(portals') = Live(portals)
      /\ airlocks' \in [Ids -> Assembly \union {None}] /\ Live(airlocks') = Live(airlocks)
      /\ cells' \in [Cells -> Voxels] /\ powered' = lit
      /\ Placed(World)' /\ Sealed(World)' /\ Assembled(World)' /\ Guarded(World)' /\ Lit'
  <2>1. 0 \in Nat
    OBVIOUS
  <2> QED BY <1>2, <1>6, <1>7, <2>1, Present, AirlocksSound
<1>9. TypeOK'
  <2>1. kits' \in [Kinds -> Nat]
    BY <1>3, Present DEF Kinds
  <2> QED BY <1>1, <1>3, <1>4, <1>6, <1>7, <1>8, <2>1, Present, TypeParts
<1>10. Named(World)'
  <2> DEFINE fresh == {id}
  <2>1. fresh \in SUBSET Ids /\ Live(machines') \subseteq Live(machines) \union fresh
    BY <1>6
  <2>2. \A i \in fresh : /\ i \notin Live(portals) /\ i \notin Live(machines)
                         /\ i \notin Live(airlocks) /\ i \notin Live(rules)
    BY <1>4
  <2> HIDE DEF fresh
  <2>3. Named(World)
    BY Present
  <2> QED BY <1>3, <1>4, <1>8, <2>1, <2>2, <2>3, NamedKept
<1>11. Ruled(World)'
  BY <1>3, <1>6, Present, RuledKept
<1> QED BY <1>3, <1>8, <1>9, <1>10, <1>11, SoundStep

\* Blocks are no panels: placing or mining one seals and unseals nothing.
LEMMA BlocksInv ==
  ASSUME IInv, NEW c \in Cells, PlaceBlock(c) \/ MineBlock(c)
  PROVE  IInv'
<1>1. /\ portals' = portals /\ machines' = machines /\ airlocks' = airlocks /\ rules' = rules
      /\ serial' = serial /\ powered' = powered /\ kits' = kits /\ phase' = phase
      /\ saved' = saved /\ loads' = loads
  BY DEF PlaceBlock, MineBlock
<1>2. blocks' \in Nat
  BY Present DEF PlaceBlock, MineBlock
<1>3. PICK v \in {"Block", "Air"} :
        /\ cells' = [cells EXCEPT ![c] = v]
        /\ \A p \in PortalAt(World, c) : portals[p].open
  <2>1. CASE PlaceBlock(c)
    <3>1. ASSUME NEW p \in PortalAt(World, c) PROVE portals[p].open
      <4>1. /\ p \in Live(portals) /\ portals[p].type \in PortalTypes /\ portals[p].open \in BOOLEAN
        BY Present, LiveObjects DEF PortalAt, Portal
      <4>2. cells[c] # portals[p].type
        BY <2>1, <4>1 DEF PlaceBlock, PortalTypes
      <4> QED BY <4>1, <4>2, Present DEF Sealed
    <3> QED BY <2>1, <3>1 DEF PlaceBlock
  <2>2. CASE MineBlock(c)
    BY <2>2 DEF MineBlock
  <2> QED BY <2>1, <2>2
<1>4. TypeOK'
  <2>1. cells' \in [Cells -> Voxels]
    BY <1>3, Present DEF Voxels
  <2> QED BY <1>1, <1>2, <2>1, Present, TypeParts
<1>5. /\ World'.portals = portals /\ World'.cells = cells'
  BY <1>1 DEF World
<1>6. Placed(World)'
  BY <1>5, Present DEF Placed
<1>7. Sealed(World)'
  <2>1. ASSUME NEW d \in Cells, NEW t \in PortalTypes
        PROVE  cells'[d] = t <=> \E p \in PortalAt(World', d) : ~portals[p].open /\ portals[p].type = t
    <3>1. PortalAt(World', d) = PortalAt(World, d)
      BY <1>5, Present DEF PortalAt
    <3>2. cells[d] = t <=> \E p \in PortalAt(World, d) : ~portals[p].open /\ portals[p].type = t
      BY Present DEF Sealed
    <3>3. CASE d = c
      BY <1>3, <3>1, <3>3, Present DEF PortalTypes
    <3>4. CASE d # c
      BY <1>3, <3>1, <3>2, <3>4, Present
    <3> QED BY <3>3, <3>4
  <2> QED BY <1>5, <2>1 DEF Sealed
<1>8. Named(World)' /\ Assembled(World)' /\ Ruled(World)'
  BY <1>1, Present, NamedFewer, AssemblyKept, RuledKept
<1>9. Guarded(World)' /\ Lit'
  <2>1. \A p \in Ids : IsOpen(World', p) => IsOpen(World, p)
    BY <1>5, Present DEF IsOpen
  <2>2. \A i \in Live(airlocks) : airlocks[i].inner \in Ids /\ airlocks[i].outer \in Ids
    BY Present, LiveObjects DEF Assembly
  <2> QED BY <1>1, <2>1, <2>2, Present, GuardedKept
<1> QED BY <1>1, <1>4, <1>6, <1>7, <1>8, <1>9, SoundStep

\* A door that is removed was no part of an assembly.
LEMMA MinePortalInv ==
  ASSUME IInv, NEW p \in Ids, MinePortal(p)
  PROVE  IInv'
<1>1. /\ p \in Live(portals) /\ kits' = [kits EXCEPT ![portals[p].type] = @ + 1]
      /\ serial' = serial /\ machines' = machines /\ airlocks' = airlocks /\ rules' = rules
      /\ powered' = powered /\ blocks' = blocks /\ phase' = phase /\ saved' = saved /\ loads' = loads
  BY DEF MinePortal
<1>2. portals[p].at \in Cells /\ portals[p].type \in PortalTypes
  BY <1>1, Present, LiveObjects DEF Portal
<1>3. kits' \in [Kinds -> Nat]
  BY <1>1, <1>2, Present DEF Kinds
<1>4. World'.portals = portals' /\ World'.cells = cells'
  BY DEF World
<1>5. CASE Owned(World, p)
  <2>1. portals' = portals /\ cells' = cells
    BY <1>5 DEF MinePortal
  <2>2. TypeOK'
    BY <1>1, <1>3, <2>1, Present, TypeParts
  <2>3. Placed(World)' /\ Sealed(World)'
    BY <1>4, <2>1, Present DEF Placed, Sealed, PortalAt
  <2>4. Named(World)' /\ Assembled(World)' /\ Ruled(World)'
    BY <1>1, <2>1, Present, NamedFewer, AssemblyKept, RuledKept
  <2>5. Guarded(World)' /\ Lit'
    <3>1. \A q : IsOpen(World', q) => IsOpen(World, q)
      BY <1>4, <2>1, Present DEF IsOpen
    <3> QED BY <1>1, <3>1, Present, GuardedKept
  <2> QED BY <1>1, <2>2, <2>3, <2>4, <2>5, SoundStep
<1>6. CASE ~Owned(World, p)
  <2>1. portals' = [portals EXCEPT ![p] = None] /\ cells' = [cells EXCEPT ![portals[p].at] = "Air"]
    BY <1>6 DEF MinePortal
  <2>2. /\ Live(portals') = Live(portals) \ {p}
        /\ \A q \in Live(portals) \ {p} : portals'[q] = portals[q]
    BY <2>1, Present DEF Live
  <2>3. TypeOK'
    <3>1. portals' \in [Ids -> Portal \union {None}] /\ cells' \in [Cells -> Voxels]
      BY <1>2, <2>1, Present DEF Voxels
    <3> QED BY <1>1, <1>3, <3>1, Present, TypeParts
  <2>4. Placed(World)'
    BY <1>4, <2>2, Present DEF Placed
  <2>5. Sealed(World)'
    <3>1. ASSUME NEW d \in Cells, NEW t \in PortalTypes
          PROVE  cells'[d] = t <=> \E q \in PortalAt(World', d) : ~portals'[q].open /\ portals'[q].type = t
      <4>1. CASE d = portals[p].at
        <5>1. PortalAt(World', d) = {}
          BY <1>1, <1>4, <2>2, <4>1, Present DEF PortalAt, Placed
        <5> QED BY <2>1, <4>1, <5>1, Present DEF PortalTypes
      <4>2. CASE d # portals[p].at
        <5>1. PortalAt(World', d) = PortalAt(World, d)
          BY <1>4, <2>2, <4>2, Present DEF PortalAt
        <5>2. \A q \in PortalAt(World, d) : portals'[q] = portals[q]
          BY <2>2, <4>2, Present DEF PortalAt
        <5>3. cells'[d] = cells[d]
          BY <2>1, <4>2, Present
        <5>4. cells[d] = t <=> \E q \in PortalAt(World, d) : ~portals[q].open /\ portals[q].type = t
          BY Present DEF Sealed
        <5> QED BY <5>1, <5>2, <5>3, <5>4
      <4> QED BY <4>1, <4>2
    <3> QED BY <1>4, <3>1 DEF Sealed
  <2>6. Named(World)' /\ Ruled(World)'
    BY <1>1, <2>2, Present, NamedFewer, RuledKept
  <2>7. Assembled(World)'
    <3>1. \A q \in Live(portals) : Owned(World, q) => q \in Live(portals') /\ portals'[q].type = portals[q].type
      BY <1>6, <2>2
    <3> QED BY <1>1, <3>1, Present, AssemblyKept
  <2>8. Guarded(World)' /\ Lit'
    <3>1. \A q \in Ids : IsOpen(World', q) => IsOpen(World, q)
      BY <1>4, <2>1, Present DEF IsOpen
    <3>2. \A i \in Live(airlocks) : airlocks[i].inner \in Ids /\ airlocks[i].outer \in Ids
      BY Present, LiveObjects DEF Assembly
    <3> QED BY <1>1, <3>1, <3>2, Present, GuardedKept
  <2> QED BY <1>1, <2>3, <2>4, <2>5, <2>6, <2>7, <2>8, SoundStep
<1> QED BY <1>5, <1>6

\* A door of an assembly can be closed by hand, and not opened.
LEMMA TogglePortalInv ==
  ASSUME IInv, NEW p \in Ids, TogglePortal(p)
  PROVE  IInv'
<1> DEFINE open == [q \in Ids |-> IF q = p THEN ~portals[p].open ELSE IsOpen(World, q)]
<1>1. open \in [Ids -> BOOLEAN]
  <2>1. \A q \in Ids : open[q] \in BOOLEAN
    BY DEF IsOpen
  <2> QED BY <2>1
<1>2. /\ SetOpen(World, open) /\ p \in Live(portals) /\ (portals[p].open \/ ~Owned(World, p))
      /\ serial' = serial /\ machines' = machines /\ airlocks' = airlocks /\ rules' = rules
      /\ powered' = powered /\ kits' = kits /\ blocks' = blocks /\ phase' = phase
      /\ saved' = saved /\ loads' = loads
  BY DEF TogglePortal
<1>3. \A q \in Ids : Owned(World, q) /\ open[q] => IsOpen(World, q)
  BY <1>2
<1> HIDE DEF open
<1> QED BY <1>1, <1>2, <1>3, Present, SetOpenSound

\* Rules close doors and open none.
LEMMA DefendInv ==
  ASSUME IInv, NEW seeing, Defend(seeing)
  PROVE  IInv'
<1> DEFINE firing(action) == {rules[r].target : r \in {q \in Live(rules) : Fires(q, seeing) /\ rules[q].action = action}}
           open == [p \in Ids |-> IsOpen(World, p) /\ p \notin firing("ClosePortal")]
<1>1. open \in [Ids -> BOOLEAN] /\ \A p \in Ids : open[p] => IsOpen(World, p)
  <2> HIDE DEF firing
  <2> QED OBVIOUS
<1>2. /\ SetOpen(World, open)
      /\ machines' = [m \in Ids |-> IF machines[m] # None /\ m \in firing("EnableMachine")
                                    THEN [machines[m] EXCEPT !.enabled = TRUE] ELSE machines[m]]
      /\ serial' = serial /\ airlocks' = airlocks /\ rules' = rules /\ powered' = powered
      /\ kits' = kits /\ blocks' = blocks /\ phase' = "begin" /\ saved' = saved /\ loads' = loads
  BY DEF Defend
<1>3. /\ machines' \in [Ids -> Machine \union {None}] /\ Live(machines') = Live(machines)
      /\ \A m \in Live(machines) : machines'[m].type = machines[m].type
  <2> HIDE DEF firing
  <2>1. ASSUME NEW m \in Ids, machines[m] # None
        PROVE  machines'[m] \in Machine /\ machines'[m] # None /\ machines'[m].type = machines[m].type
    <3>1. machines[m] \in Machine
      BY <2>1, Present
    <3>2. [machines[m] EXCEPT !.enabled = TRUE] \in Machine
      BY <3>1 DEF Machine
    <3>3. machines'[m] \in Machine /\ machines'[m].type = machines[m].type
      BY <1>2, <2>1, <3>1, <3>2 DEF Machine
    <3> QED BY <3>3
  <2>2. ASSUME NEW m \in Ids, machines[m] = None PROVE machines'[m] = None
    BY <1>2, <2>2
  <2>3. machines' = [m \in Ids |-> machines'[m]]
    BY <1>2
  <2> QED BY <2>1, <2>2, <2>3 DEF Live
<1> HIDE DEF open
<1> QED BY <1>1, <1>2, <1>3, Present, SetOpenSound

\* A new assembly has parts that no other has, both doors closed and air inside.
LEMMA PairInv ==
  ASSUME IInv, NEW controller \in Ids, NEW inner \in Ids, NEW outer \in Ids,
         Pair(controller, inner, outer)
  PROVE  IInv'
<1> DEFINE new == [controller |-> controller, inner |-> inner, outer |-> outer,
                   state |-> "Idle", pressure |-> Hull, oxygen |-> Hull]
           open == [p \in Ids |-> IsOpen(World, p) /\ p \notin {inner, outer}]
<1>1. PICK id \in Ids : /\ Allocates(serial, id) /\ serial' = id + 1
                        /\ airlocks' = [airlocks EXCEPT ![id] = new]
  BY DEF Pair
<1>2. /\ IsMachine(World, controller, "AirlockController")
      /\ \A i \in Live(airlocks) : airlocks[i].controller # controller
      /\ inner # outer
      /\ IsAirlock(World, inner) /\ ~Owned(World, inner)
      /\ IsAirlock(World, outer) /\ ~Owned(World, outer)
      /\ SetOpen(World, open)
      /\ machines' = machines /\ rules' = rules /\ powered' = powered /\ kits' = kits
      /\ blocks' = blocks /\ phase' = phase /\ saved' = saved /\ loads' = loads
  BY DEF Pair
<1>3. /\ id \notin Live(portals) /\ id \notin Live(machines)
      /\ id \notin Live(airlocks) /\ id \notin Live(rules) /\ id + 1 \in Nat
  BY <1>1, Present, FreshId
<1>4. new \in Assembly /\ new # None
  <2>1. new \in Assembly
    BY GasAssumption DEF Assembly, Gas, States
  <2> QED BY <2>1
<1>5. /\ new.controller = controller /\ new.inner = inner /\ new.outer = outer
      /\ Fits(new)
  BY DEF Fits
<1>6. /\ Live(airlocks') = Live(airlocks) \union {id} /\ airlocks'[id] = new
      /\ \A i \in Live(airlocks) : i # id /\ i \in Ids /\ airlocks'[i] = airlocks[i] /\ airlocks[i] \in Assembly
      /\ airlocks' \in [Ids -> Assembly \union {None}]
  <2> HIDE DEF new
  <2> QED BY <1>1, <1>3, <1>4, Present DEF Live
<1>7. open \in [Ids -> BOOLEAN] /\ \A p \in Ids : open[p] => IsOpen(World, p) /\ p \notin {inner, outer}
  OBVIOUS
<1> HIDE DEF new, open
<1>8. /\ portals' \in [Ids -> Portal \union {None}] /\ Live(portals') = Live(portals)
      /\ cells' \in [Cells -> Voxels] /\ Placed(World)' /\ Sealed(World)'
      /\ \A p \in Live(portals) : portals'[p].type = portals[p].type /\ portals'[p].open = open[p]
  BY <1>2, <1>7, Present, SetOpenPortals, SetOpenCells, SetOpenSealed
<1>9. /\ World'.portals = portals' /\ World'.machines = machines /\ World'.airlocks = airlocks'
  BY <1>2 DEF World
<1>10. TypeOK'
  BY <1>1, <1>2, <1>3, <1>6, <1>8, Present, TypeParts
<1>11. Named(World)'
  <2> DEFINE fresh == {id}
  <2>1. fresh \in SUBSET Ids /\ Live(airlocks') \subseteq Live(airlocks) \union fresh
    BY <1>6
  <2>2. \A i \in fresh : /\ i \notin Live(portals) /\ i \notin Live(machines)
                         /\ i \notin Live(airlocks) /\ i \notin Live(rules)
    BY <1>3
  <2> HIDE DEF fresh
  <2>3. Named(World)
    BY Present
  <2> QED BY <1>2, <1>8, <2>1, <2>2, <2>3, NamedKept
<1>12. \A p \in Ids : IsOpen(World', p) => IsOpen(World, p) /\ p \notin {inner, outer}
  BY <1>7, <1>8, <1>9, Present DEF IsOpen, Live
<1>13. Assembled(World)'
  <2>1. \A c, p : /\ IsMachine(World, c, "AirlockController") => IsMachine(World', c, "AirlockController")
                  /\ p \in Ids /\ IsAirlock(World, p) => IsAirlock(World', p)
    BY <1>8, <1>9, Present DEF IsMachine, IsAirlock, Live
  <2>2. ASSUME NEW i \in Live(airlocks)
        PROVE  Valid(World', airlocks[i]) /\ airlocks[i].inner # airlocks[i].outer
    BY <1>6, <2>1, Present DEF Assembled, Valid, Assembly
  <2>3. Valid(World', new) /\ new.inner # new.outer
    BY <1>2, <1>5, <2>1 DEF Valid
  <2>4. ASSUME NEW i \in Live(airlocks), NEW j \in Live(airlocks) \ {i}
        PROVE  /\ airlocks[i].controller # airlocks[j].controller
               /\ \A p \in Ids : ~(Owns(airlocks[i], p) /\ Owns(airlocks[j], p))
    BY Present DEF Assembled
  <2>5. ASSUME NEW i \in Live(airlocks)
        PROVE  /\ airlocks[i].controller # new.controller
               /\ \A p \in Ids : ~(Owns(airlocks[i], p) /\ Owns(new, p))
    BY <1>2, <1>5, Present DEF Owned, Owns
  <2> QED BY <1>6, <1>9, <2>2, <2>3, <2>4, <2>5 DEF Assembled
<1>14. Guarded(World)' /\ Lit'
  <2>1. ASSUME NEW i \in Live(airlocks)
        PROVE  /\ Fits(airlocks[i])
               /\ IsOpen(World', airlocks[i].outer) => airlocks[i].state = "ExteriorOpen"
               /\ IsOpen(World', airlocks[i].inner) => airlocks[i].state = "InteriorOpen"
               /\ IsOpen(World', airlocks[i].outer) \/ IsOpen(World', airlocks[i].inner)
                    => airlocks[i].controller \in powered
    BY <1>6, <1>12, Present DEF Guarded, Lit, Assembly
  <2>2. ~IsOpen(World', new.inner) /\ ~IsOpen(World', new.outer)
    BY <1>5, <1>12
  <2> QED BY <1>2, <1>5, <1>6, <1>9, <2>1, <2>2 DEF Guarded, Lit
<1>15. Ruled(World)'
  BY <1>2, Present, RuledKept
<1> QED BY <1>2, <1>8, <1>10, <1>11, <1>13, <1>14, <1>15, SoundStep

\* A requested cycle begins with both doors closed.
LEMMA CycleInv ==
  ASSUME IInv, NEW i \in Ids, Cycle(i)
  PROVE  IInv'
<1> DEFINE next == IF airlocks[i].state = "ExteriorOpen" THEN "Pressurizing" ELSE "Depressurizing"
           open == [p \in Ids |-> IsOpen(World, p) /\ ~Owns(airlocks[i], p)]
<1>1. /\ i \in Live(airlocks) /\ airlocks' = [airlocks EXCEPT ![i].state = next]
      /\ SetOpen(World, open)
      /\ serial' = serial /\ machines' = machines /\ rules' = rules /\ powered' = powered /\ kits' = kits
      /\ blocks' = blocks /\ phase' = phase /\ saved' = saved /\ loads' = loads
  BY DEF Cycle
<1>2. airlocks[i] \in Assembly /\ next \in States /\ next \notin {"Fault", "ExteriorOpen", "InteriorOpen"}
  BY <1>1, Present, LiveObjects DEF States
<1>3. open \in [Ids -> BOOLEAN] /\ \A p \in Ids : open[p] => IsOpen(World, p) /\ ~Owns(airlocks[i], p)
  OBVIOUS
<1> HIDE DEF next, open
<1>4. /\ airlocks'[i] = [airlocks[i] EXCEPT !.state = next]
      /\ airlocks'[i] \in Assembly /\ airlocks'[i] # None /\ airlocks'[i].state = next
      /\ SameParts(airlocks'[i], airlocks[i])
  <2>1. airlocks'[i] = [airlocks[i] EXCEPT !.state = next]
    BY <1>1, Present
  <2>2. airlocks'[i] \in Assembly /\ airlocks'[i].state = next /\ SameParts(airlocks'[i], airlocks[i])
    BY <1>2, <2>1 DEF Assembly, SameParts
  <2> QED BY <2>1, <2>2
<1>5. /\ airlocks' \in [Ids -> Assembly \union {None}] /\ Live(airlocks') = Live(airlocks)
      /\ \A j \in Live(airlocks) : j # i => airlocks'[j] = airlocks[j]
      /\ \A j \in Live(airlocks) : SameParts(airlocks'[j], airlocks[j])
      /\ \A j \in Live(airlocks) : airlocks[j] \in Assembly
  <2>1. \A j \in Ids : j # i => airlocks'[j] = airlocks[j]
    BY <1>1, Present
  <2>2. airlocks' = [j \in Ids |-> airlocks'[j]]
    BY <1>1, Present
  <2>3. airlocks[i] # None
    BY <1>1 DEF Live
  <2> QED BY <1>1, <1>4, <2>1, <2>2, <2>3, Present DEF Live, SameParts
<1>6. /\ portals' \in [Ids -> Portal \union {None}] /\ Live(portals') = Live(portals)
      /\ cells' \in [Cells -> Voxels] /\ Placed(World)' /\ Sealed(World)'
      /\ \A p \in Live(portals) : portals'[p].type = portals[p].type /\ portals'[p].open = open[p]
  BY <1>1, <1>3, Present, SetOpenPortals, SetOpenCells, SetOpenSealed
<1>7. World'.portals = portals' /\ World'.machines = machines /\ World'.airlocks = airlocks'
  BY <1>1 DEF World
<1>8. TypeOK'
  BY <1>1, <1>5, <1>6, Present, TypeParts
<1>9. Named(World)' /\ Ruled(World)'
  BY <1>1, <1>5, <1>6, Present, NamedFewer, RuledKept
<1>10. Assembled(World)'
  <2>1. Keeps(World, World')
    BY <1>6, <1>7, Present DEF Keeps
  <2> QED BY <1>5, <1>7, <2>1, Present, AssembledKept
<1>11. \A p \in Ids : IsOpen(World', p) => IsOpen(World, p) /\ ~Owns(airlocks[i], p)
  BY <1>3, <1>6, <1>7, Present DEF IsOpen, Live
<1>12. Guarded(World)' /\ Lit'
  <2>1. ASSUME NEW j \in Live(airlocks), j # i
        PROVE  /\ Fits(airlocks'[j])
               /\ IsOpen(World', airlocks'[j].outer) => airlocks'[j].state = "ExteriorOpen"
               /\ IsOpen(World', airlocks'[j].inner) => airlocks'[j].state = "InteriorOpen"
               /\ IsOpen(World', airlocks'[j].outer) \/ IsOpen(World', airlocks'[j].inner)
                    => airlocks'[j].controller \in powered
    BY <1>5, <1>11, <2>1, Present DEF Guarded, Lit, Assembly
  <2>2. Fits(airlocks'[i])
    BY <1>2, <1>4 DEF Fits
  <2>3. ~IsOpen(World', airlocks'[i].outer) /\ ~IsOpen(World', airlocks'[i].inner)
    BY <1>2, <1>4, <1>11 DEF SameParts, Owns, Assembly
  <2> QED BY <1>1, <1>5, <1>7, <2>1, <2>2, <2>3 DEF Guarded, Lit
<1> QED BY <1>1, <1>6, <1>8, <1>9, <1>10, <1>12, SoundStep

\* New rules have fresh ids and a logic controller.
LEMMA AddRulesInv ==
  ASSUME IInv, NEW controller \in Ids, NEW sensor \in Ids, NEW turret \in Ids,
         AddRules(controller, sensor, turret)
  PROVE  IInv'
<1> DEFINE rule(action, target) ==
             [controller |-> controller, source |-> sensor, action |-> action, target |-> target]
<1>1. /\ IsMachine(World, controller, "LogicController")
      /\ machines' = [machines EXCEPT ![turret].enabled = FALSE] /\ IsMachine(World, turret, "Turret")
      /\ portals' = portals /\ airlocks' = airlocks /\ powered' = powered /\ cells' = cells
      /\ kits' = kits /\ blocks' = blocks /\ phase' = phase /\ saved' = saved /\ loads' = loads
  BY DEF AddRules
<1>2. PICK fresh \in SUBSET Ids :
        /\ \A r \in fresh : /\ r \notin Live(portals) /\ r \notin Live(machines)
                            /\ r \notin Live(airlocks) /\ r \notin Live(rules)
        /\ serial' \in Nat
        /\ rules' \in [Ids -> Rule \union {None}]
        /\ \A r \in Ids \ fresh : rules'[r] = rules[r]
        /\ \A r \in fresh : rules'[r] # None /\ rules'[r].controller = controller
  <2>1. PICK first \in Ids :
          /\ Allocates(serial, first)
          /\ \/ /\ serial' = first + 1
                /\ rules' = [rules EXCEPT ![first] = rule("EnableMachine", turret)]
             \/ \E second \in Ids, p \in Live(portals) :
                  /\ Allocates(first + 1, second)
                  /\ serial' = second + 1
                  /\ rules' = [rules EXCEPT ![first] = rule("EnableMachine", turret),
                                            ![second] = rule("ClosePortal", p)]
    BY DEF AddRules
  <2>2. ASSUME NEW action \in {"EnableMachine", "ClosePortal"}, NEW target \in Ids
        PROVE  /\ rule(action, target) \in Rule /\ rule(action, target) # None
               /\ rule(action, target).controller = controller
    <3>1. rule(action, target) \in Rule
      BY DEF Rule
    <3> QED BY <3>1
  <2>3. /\ first \notin Live(portals) /\ first \notin Live(machines)
        /\ first \notin Live(airlocks) /\ first \notin Live(rules) /\ first + 1 \in Nat
    BY <2>1, Present, FreshId
  <2>4. CASE /\ serial' = first + 1
             /\ rules' = [rules EXCEPT ![first] = rule("EnableMachine", turret)]
    <3>1. /\ rule("EnableMachine", turret) \in Rule /\ rule("EnableMachine", turret) # None
          /\ rule("EnableMachine", turret).controller = controller
      BY <2>2
    <3> HIDE DEF rule
    <3> WITNESS {first} \in SUBSET Ids
    <3> QED BY <2>3, <2>4, <3>1, Present
  <2>5. ASSUME NEW second \in Ids, NEW p \in Live(portals),
               Allocates(first + 1, second), serial' = second + 1,
               rules' = [rules EXCEPT ![first] = rule("EnableMachine", turret),
                                      ![second] = rule("ClosePortal", p)]
        PROVE  \E f \in SUBSET Ids :
                 /\ \A r \in f : /\ r \notin Live(portals) /\ r \notin Live(machines)
                                 /\ r \notin Live(airlocks) /\ r \notin Live(rules)
                 /\ serial' \in Nat
                 /\ rules' \in [Ids -> Rule \union {None}]
                 /\ \A r \in Ids \ f : rules'[r] = rules[r]
                 /\ \A r \in f : rules'[r] # None /\ rules'[r].controller = controller
    <3>1. /\ rule("EnableMachine", turret) \in Rule /\ rule("EnableMachine", turret) # None
          /\ rule("EnableMachine", turret).controller = controller
          /\ rule("ClosePortal", p) \in Rule /\ rule("ClosePortal", p) # None
          /\ rule("ClosePortal", p).controller = controller
      BY <2>2 DEF Live
    <3>2. /\ second \notin Live(portals) /\ second \notin Live(machines)
          /\ second \notin Live(airlocks) /\ second \notin Live(rules) /\ second + 1 \in Nat
      BY <2>3, <2>5, FreshId
    <3> HIDE DEF rule
    <3> WITNESS {first, second} \in SUBSET Ids
    <3> QED BY <2>3, <2>5, <3>1, <3>2, Present
  <2> QED BY <2>1, <2>4, <2>5
<1> HIDE DEF rule
<1>3. /\ machines' \in [Ids -> Machine \union {None}] /\ Live(machines') = Live(machines)
      /\ \A m \in Live(machines) : machines'[m].type = machines[m].type
  <2>1. turret \in Live(machines) /\ machines[turret] \in Machine
    BY <1>1, Present, LiveObjects DEF IsMachine, Live
  <2>2. [machines[turret] EXCEPT !.enabled = FALSE] \in Machine
    BY <2>1 DEF Machine
  <2>3. machines'[turret] \in Machine /\ machines'[turret].type = machines[turret].type
    BY <1>1, <2>1, <2>2, Present DEF Machine
  <2>4. \A m \in Ids : m # turret => machines'[m] = machines[m]
    BY <1>1, Present
  <2>5. machines' = [m \in Ids |-> machines'[m]]
    BY <1>1, Present
  <2>6. machines'[turret] # None /\ machines[turret] # None
    BY <2>1, <2>3
  <2> QED BY <2>1, <2>3, <2>4, <2>5, <2>6, Present DEF Live
<1>4. TypeOK'
  BY <1>1, <1>2, <1>3, Present, TypeParts
<1>5. Live(rules') \subseteq Live(rules) \union fresh
  BY <1>2 DEF Live
<1>6. Named(World)'
  <2>1. Named(World)
    BY Present
  <2> QED BY <1>1, <1>2, <1>3, <1>5, <2>1, NamedKept
<1>7. /\ World'.portals = portals /\ World'.cells = cells /\ World'.machines = machines' /\ World'.rules = rules'
  BY <1>1 DEF World
<1>8. Placed(World)' /\ Sealed(World)'
  BY <1>7, Present DEF Placed, Sealed, PortalAt
<1>9. Assembled(World)'
  BY <1>1, <1>3, Present, AssemblyKept
<1>10. Guarded(World)' /\ Lit'
  <2>1. \A p : IsOpen(World', p) => IsOpen(World, p)
    BY <1>7, Present DEF IsOpen
  <2> QED BY <1>1, <2>1, Present, GuardedKept
<1>11. Ruled(World)'
  <2>1. ASSUME NEW m \in Ids, IsMachine(World, m, "LogicController")
        PROVE  IsMachine(World', m, "LogicController")
    BY <1>3, <1>7, <2>1, Present DEF IsMachine, Live
  <2>2. ASSUME NEW r \in Live(rules') PROVE IsMachine(World', rules'[r].controller, "LogicController")
    <3>1. CASE r \in fresh
      BY <1>1, <1>2, <2>1, <3>1
    <3>2. CASE r \notin fresh
      <4>1. r \in Live(rules) /\ rules'[r] = rules[r]
        BY <1>2, <3>2 DEF Live
      <4>2. rules[r].controller \in Ids
        BY <4>1, Present, LiveObjects DEF Rule
      <4> QED BY <2>1, <4>1, <4>2, Present DEF Ruled
    <3> QED BY <3>1, <3>2
  <2> QED BY <1>7, <2>2 DEF Ruled
<1> QED BY <1>1, <1>4, <1>6, <1>8, <1>9, <1>10, <1>11, SoundStep

\* A load builds the world from the save and lets one frame pass on it.
LEMMA LoadInv ==
  ASSUME IInv, Load
  PROVE  IInv'
<1>1. /\ saved # None /\ loads < MaxLoads /\ loads' = loads + 1 /\ serial' = 1
      /\ machines' = saved.machines /\ rules' = saved.rules
      /\ kits' = saved.kits /\ blocks' = saved.blocks /\ phase' = phase /\ saved' = saved
  BY DEF Load
<1>2. PICK lit \in PoweredSets(saved.machines) : UpdateAirlocks(saved, 0, lit)
  BY DEF Load
<1>3. saved \in WorldType /\ Sound(saved)
  BY <1>1, Present DEF IInv
<1>4. lit \in SUBSET Ids /\ 0 \in Nat
  BY DEF PoweredSets, Enabled, Live
<1>5. /\ portals' \in [Ids -> Portal \union {None}] /\ Live(portals') = Live(saved.portals)
      /\ airlocks' \in [Ids -> Assembly \union {None}] /\ Live(airlocks') = Live(saved.airlocks)
      /\ cells' \in [Cells -> Voxels] /\ powered' = lit
      /\ Placed(World)' /\ Sealed(World)' /\ Assembled(World)' /\ Guarded(World)' /\ Lit'
  BY <1>1, <1>2, <1>3, <1>4, AirlocksSound DEF Sound
<1>6. TypeOK'
  <2>1. /\ machines' \in [Ids -> Machine \union {None}] /\ rules' \in [Ids -> Rule \union {None}]
        /\ kits' \in [Kinds -> Nat] /\ blocks' \in Nat
    BY <1>1, <1>3 DEF WorldType
  <2>2. loads' \in 0..MaxLoads /\ serial' \in Nat
    BY <1>1, Present
  <2> QED BY <1>1, <1>4, <1>5, <2>1, <2>2, Present, TypeParts
<1>7. Named(World)'
  BY <1>1, <1>3, <1>5 DEF Sound, Named, World
<1>8. Ruled(World)'
  BY <1>1, <1>3 DEF Sound, Ruled, World, IsMachine
<1> QED BY <1>1, <1>5, <1>6, <1>7, <1>8, SoundStep

\* What is saved satisfies what is asked of a saved world.
LEMMA SaveInv ==
  ASSUME IInv, Save
  PROVE  IInv'
<1>1. /\ saved' = World /\ serial' = serial /\ powered' = powered /\ phase' = phase /\ loads' = loads
      /\ portals' = portals /\ machines' = machines /\ airlocks' = airlocks /\ rules' = rules
      /\ cells' = cells /\ kits' = kits /\ blocks' = blocks
  BY DEF Save, persistent
<1>2. TypeOK'
  BY <1>1, Present, TypeParts
<1>3. World' = World
  BY <1>1 DEF World
<1>4. Sound(World)' /\ Lit'
  <2>1. Sound(World) /\ Lit
    BY DEF IInv
  <2>2. Sound(World)'
    BY <1>3, <2>1 DEF Sound, Named, Placed, Sealed, Assembled, Guarded, Ruled,
                      Valid, IsMachine, IsAirlock, IsOpen, PortalAt
  <2> QED BY <1>1, <1>3, <2>1, <2>2 DEF Lit, IsOpen
<1>5. (saved # None => Sound(saved))'
  BY <1>1, <1>3, <1>4 DEF Sound, Named, Placed, Sealed, Assembled, Guarded, Ruled,
                          Valid, IsMachine, IsAirlock, IsOpen, PortalAt
<1> QED BY <1>2, <1>4, <1>5 DEF IInv

\* A frame in a menu, or no step, preserves the invariant.
LEMMA IdleInv ==
  ASSUME IInv, Menu \/ UNCHANGED vars
  PROVE  IInv'
<1>1. /\ saved' = saved /\ serial' = serial /\ powered' = powered /\ loads' = loads
      /\ portals' = portals /\ machines' = machines /\ airlocks' = airlocks /\ rules' = rules
      /\ cells' = cells /\ kits' = kits /\ blocks' = blocks /\ phase' \in {"begin", "play"}
  BY Present DEF Menu, persistent, vars
<1>2. TypeOK'
  BY <1>1, Present, TypeParts
<1>3. World' = World
  BY <1>1 DEF World
<1>4. Sound(World)' /\ Lit'
  <2>1. Sound(World) /\ Lit
    BY DEF IInv
  <2>2. Sound(World)'
    BY <1>3, <2>1 DEF Sound, Named, Placed, Sealed, Assembled, Guarded, Ruled,
                      Valid, IsMachine, IsAirlock, IsOpen, PortalAt
  <2> QED BY <1>1, <1>3, <2>1, <2>2 DEF Lit, IsOpen
<1> QED BY <1>1, <1>2, <1>4, SoundStep DEF Sound

\* Every step preserves the invariant.
LEMMA InvStep == IInv /\ [Next]_vars => IInv'
<1> SUFFICES ASSUME IInv, [Next]_vars PROVE IInv'
  OBVIOUS
<1>1. CASE Frame
  <2>1. ASSUME NEW dt \in Steps, NEW lit \in PoweredSets(machines), Update(dt, lit) PROVE IInv'
    <3>1. dt \in Nat /\ lit \in SUBSET Ids
      BY PumpAssumption DEF PoweredSets, Enabled, Live
    <3> QED BY <2>1, <3>1, UpdateInv
  <2>2. ASSUME NEW seeing \in SUBSET Sensors, Defend(seeing) PROVE IInv'
    BY <2>2, DefendInv
  <2>3. CASE Menu
    BY <2>3, IdleInv
  <2> QED BY <1>1, <2>1, <2>2, <2>3 DEF Frame
<1>2. CASE Interact
  <2>1. ASSUME NEW c \in Cells, NEW type \in PortalTypes, PlacePortal(c, type) PROVE IInv'
    BY <2>1, PlacePortalInv
  <2>2. ASSUME NEW type \in MachineTypes, PlaceMachine(type) PROVE IInv'
    BY <2>2, PlaceMachineInv
  <2>3. ASSUME NEW c \in Cells, PlaceBlock(c) \/ MineBlock(c) PROVE IInv'
    BY <2>3, BlocksInv
  <2>4. ASSUME NEW p \in Ids, MinePortal(p) \/ TogglePortal(p) PROVE IInv'
    BY <2>4, MinePortalInv, TogglePortalInv
  <2>5. ASSUME NEW controller \in Ids, NEW inner \in Ids, NEW outer \in Ids,
               Pair(controller, inner, outer)
        PROVE  IInv'
    BY <2>5, PairInv
  <2>6. ASSUME NEW i \in Ids, Cycle(i) PROVE IInv'
    BY <2>6, CycleInv
  <2>7. ASSUME NEW controller \in Ids, NEW sensor \in Ids, NEW turret \in Ids,
               AddRules(controller, sensor, turret)
        PROVE  IInv'
    BY <2>7, AddRulesInv
  <2> QED BY <1>2, <2>1, <2>2, <2>3, <2>4, <2>5, <2>6, <2>7 DEF Interact
<1>3. CASE Save
  BY <1>3, SaveInv
<1>4. CASE Load
  BY <1>4, LoadInv
<1>5. CASE UNCHANGED vars
  BY <1>5, IdleInv
<1> QED BY <1>1, <1>2, <1>3, <1>4, <1>5 DEF Next

(***************************************************************************)
(* The airlocks as chambers: SurfacePortals implements AirlockChambers     *)
(***************************************************************************)

\* An assembly in an open state has the air for it; empty is not full.
LEMMA FitsAir ==
  ASSUME NEW a \in Assembly, Fits(a)
  PROVE  /\ a.state = "ExteriorOpen" => Air(a) = "empty"
         /\ a.state = "InteriorOpen" => Air(a) = "full"
<1>1. Vented \in 0..Hull /\ Ready \in 0..Hull /\ Hull \in Nat /\ Vented < Ready
  BY GasAssumption DEF Gas
<1> QED BY <1>1 DEF Fits, Air

\* What a frame does to an assembly: it stands still without power, it opens to
\* a side on the air for it, or it is in no open state before and after.
LEMMA CycledSide ==
  ASSUME NEW w, NEW a \in Assembly, NEW dt \in Nat, NEW lit,
         Valid(w, a), ~BothOpen(w, a), Fits(a), Runs(w, a, lit)
  PROVE  \/ /\ Cycled(w, a, dt, lit).state = "ExteriorOpen"
            /\ a.state \in {"Depressurizing", "ExteriorOpen"}
         \/ /\ Cycled(w, a, dt, lit).state = "InteriorOpen"
            /\ a.state \in {"Pressurizing", "InteriorOpen"}
         \/ /\ Cycled(w, a, dt, lit).state \notin {"ExteriorOpen", "InteriorOpen"}
            /\ a.state \notin {"ExteriorOpen", "InteriorOpen"}
<1> DEFINE b == Cycled(w, a, dt, lit)
<1>1. b = CASE a.state = "Depressurizing" -> Depressurized(a, dt)
            [] a.state = "Pressurizing" -> Pressurized(a, dt)
            [] a.state = "ExteriorOpen" -> Becomes(a, a.state, 0, 0)
            [] a.state = "InteriorOpen" -> Becomes(a, a.state, Most(a.pressure, Ready), Most(a.oxygen, Breath))
            [] OTHER -> a
  BY DEF Cycled
<1>2. \A state, p, o : Becomes(a, state, p, o).state = state
  BY DEF Becomes, Assembly
<1>3. Depressurized(a, dt).state \in {"ExteriorOpen", "Depressurizing"}
  BY <1>2 DEF Depressurized
<1>4. Pressurized(a, dt).state \in {"InteriorOpen", "Pressurizing"}
  BY <1>2 DEF Pressurized
<1> HIDE DEF b
<1>5. CASE a.state = "Depressurizing"
  BY <1>1, <1>3, <1>5 DEF b
<1>6. CASE a.state = "Pressurizing"
  BY <1>1, <1>4, <1>6 DEF b
<1>7. CASE a.state = "ExteriorOpen"
  BY <1>1, <1>2, <1>7 DEF b
<1>8. CASE a.state = "InteriorOpen"
  BY <1>1, <1>2, <1>8 DEF b
<1>9. CASE a.state \notin {"Depressurizing", "Pressurizing", "ExteriorOpen", "InteriorOpen"}
  BY <1>1, <1>9 DEF b
<1> QED BY <1>5, <1>6, <1>7, <1>8, <1>9

\* A frame of the airlocks works each chamber.
LEMMA AirlocksWork ==
  ASSUME NEW w \in WorldType, Assembled(w), Guarded(w),
         NEW dt \in Nat, NEW lit \in SUBSET Ids, UpdateAirlocks(w, dt, lit),
         NEW i \in Ids
  PROVE  Lock!Works(ChamberOf(w, i), ChamberOf(World', i))
<1> DEFINE open == [p \in Ids |-> IF Owned(w, p) THEN Door(w, w.airlocks[Owner(w, p)], p, dt, lit)
                                  ELSE IsOpen(w, p)]
           a == w.airlocks[i]
           b == Cycled(w, a, dt, lit)
<1>1. World'.portals = portals' /\ World'.airlocks = airlocks'
  BY DEF World
<1>2. CASE i \notin Live(w.airlocks)
  <2>1. a = None /\ airlocks'[i] = None
    BY <1>2 DEF Live, UpdateAirlocks
  <2> QED BY <1>1, <2>1 DEF ChamberOf, Lock!Works, Lock!Waits
<1>3. CASE i \in Live(w.airlocks)
  <2>1. a \in Assembly /\ a # None
    BY <1>3, LiveObjects
  <2>2. airlocks'[i] = b
    BY <2>1 DEF UpdateAirlocks
  <2>3. Valid(w, a) /\ ~BothOpen(w, a) /\ Fits(a) /\ a.inner # a.outer
    BY <1>3, OneOpen DEF Assembled, Guarded
  <2>4. /\ IsOpen(w, a.outer) => a.state = "ExteriorOpen"
        /\ IsOpen(w, a.inner) => a.state = "InteriorOpen"
    BY <1>3 DEF Guarded
  <2>5. b \in Assembly /\ b.inner = a.inner /\ b.outer = a.outer /\ Fits(b)
    <3> HIDE DEF a
    <3> QED BY <2>1, <2>3, CycledFits DEF b
  <2>6. open \in [Ids -> BOOLEAN] /\ SetOpen(w, open)
    <3>1. \A p \in Ids : open[p] \in BOOLEAN
      BY DEF Door, IsOpen
    <3> QED BY <3>1 DEF UpdateAirlocks
  <2>7. ASSUME NEW p \in {a.inner, a.outer}
        PROVE  IsOpen(World', p) <=> Door(w, a, p, dt, lit)
    <3>1. p \in Ids /\ Owns(a, p)
      BY <2>1 DEF Assembly, Owns
    <3>2. p \in Live(w.portals)
      BY <2>3, <3>1 DEF Valid, IsAirlock, Live
    <3>3. portals'[p] \in Portal /\ portals'[p].open = open[p]
      BY <2>6, <3>2, SetOpenPortals
    <3>4. open[p] = Door(w, a, p, dt, lit)
      BY <1>3, <3>1, OwnerIs
    <3>5. portals'[p] # None
      BY <3>3
    <3> HIDE DEF open, a
    <3> QED BY <1>1, <3>3, <3>4, <3>5 DEF IsOpen
  <2>8. Door(w, a, a.outer, dt, lit) <=> Runs(w, a, lit) /\ b.state = "ExteriorOpen"
    <3> HIDE DEF a
    <3> QED BY <2>3 DEF Door, b
  <2>9. Door(w, a, a.inner, dt, lit) <=> Runs(w, a, lit) /\ b.state = "InteriorOpen"
    <3> HIDE DEF a
    <3> QED BY <2>3 DEF Door, b
  <2>10. ~Runs(w, a, lit) => b = a
    BY <2>3 DEF Cycled
  <2>11. Runs(w, a, lit) =>
           \/ b.state = "ExteriorOpen" /\ a.state \in {"Depressurizing", "ExteriorOpen"}
           \/ b.state = "InteriorOpen" /\ a.state \in {"Pressurizing", "InteriorOpen"}
           \/ /\ b.state \notin {"ExteriorOpen", "InteriorOpen"}
              /\ a.state \notin {"ExteriorOpen", "InteriorOpen"}
    <3> HIDE DEF a
    <3> QED BY <2>1, <2>3, CycledSide DEF b
  <2>12. b # None
    BY <2>5
  <2> HIDE DEF open, a, b
  <2>13. /\ ChamberOf(w, i) = [door |-> Side(w, a), air |-> Air(a)]
         /\ ChamberOf(World', i) = [door |-> Side(World', b), air |-> Air(b)]
    BY <1>1, <2>1, <2>2, <2>12 DEF ChamberOf, a
  <2>14. Side(World', b) = IF Runs(w, a, lit) /\ b.state = "ExteriorOpen" THEN "outer"
                           ELSE IF Runs(w, a, lit) /\ b.state = "InteriorOpen" THEN "inner" ELSE "shut"
    BY <2>5, <2>7, <2>8, <2>9 DEF Side
  <2>15. Side(w, a) \in {"outer", "inner", "shut"}
    BY DEF Side
  <2>16. /\ Side(w, a) = "outer" => a.state = "ExteriorOpen"
         /\ Side(w, a) = "inner" => a.state = "InteriorOpen"
    BY <2>4 DEF Side
  <2>17. /\ a.state = "ExteriorOpen" => Air(a) = "empty"
         /\ a.state = "InteriorOpen" => Air(a) = "full"
         /\ b.state = "ExteriorOpen" => Air(b) = "empty"
         /\ b.state = "InteriorOpen" => Air(b) = "full"
    BY <2>1, <2>3, <2>5, FitsAir
  <2>18. CASE ~Runs(w, a, lit)
    <3>1. Side(World', b) = "shut" /\ Air(b) = Air(a)
      BY <2>10, <2>14, <2>18
    <3> QED BY <2>13, <2>15, <3>1 DEF Lock!Works, Lock!Waits, Lock!Shut
  <2>19. CASE Runs(w, a, lit) /\ b.state = "ExteriorOpen"
    <3>1. Side(World', b) = "outer" /\ Air(b) = "empty" /\ Side(w, a) # "inner"
      BY <2>11, <2>14, <2>16, <2>17, <2>19
    <3>2. Side(w, a) = "outer" => Air(a) = "empty"
      BY <2>16, <2>17
    <3> QED BY <2>13, <2>15, <3>1, <3>2 DEF Lock!Works, Lock!Waits, Lock!OpenedOut
  <2>20. CASE Runs(w, a, lit) /\ b.state = "InteriorOpen"
    <3>1. Side(World', b) = "inner" /\ Air(b) = "full" /\ Side(w, a) # "outer"
      BY <2>11, <2>14, <2>16, <2>17, <2>20
    <3>2. Side(w, a) = "inner" => Air(a) = "full"
      BY <2>16, <2>17
    <3> QED BY <2>13, <2>15, <3>1, <3>2 DEF Lock!Works, Lock!Waits, Lock!OpenedIn
  <2>21. CASE Runs(w, a, lit) /\ b.state \notin {"ExteriorOpen", "InteriorOpen"}
    <3>1. Side(World', b) = "shut" /\ Side(w, a) = "shut"
      BY <2>11, <2>14, <2>15, <2>16, <2>21
    <3> QED BY <2>13, <3>1 DEF Lock!Works, Lock!Pumped
  <2> QED BY <2>18, <2>19, <2>20, <2>21
<1> QED BY <1>2, <1>3

\* A chamber whose gas stays and whose doors do not open waits or is shut.
LEMMA SteadyChamber ==
  ASSUME NEW w, NEW v, NEW i, w.airlocks[i] # None, v.airlocks[i] # None,
         ~BothOpen(w, w.airlocks[i]), SameParts(v.airlocks[i], w.airlocks[i]),
         v.airlocks[i].pressure = w.airlocks[i].pressure, v.airlocks[i].oxygen = w.airlocks[i].oxygen,
         \A p \in {w.airlocks[i].inner, w.airlocks[i].outer} : IsOpen(v, p) => IsOpen(w, p)
  PROVE  Lock!Works(ChamberOf(w, i), ChamberOf(v, i))
<1> DEFINE a == w.airlocks[i]
           b == v.airlocks[i]
<1>1. /\ ChamberOf(w, i) = [door |-> Side(w, a), air |-> Air(a)]
      /\ ChamberOf(v, i) = [door |-> Side(v, b), air |-> Air(b)]
  BY DEF ChamberOf
<1>2. Air(a) = Air(b)
  BY DEF Air
<1>3. Side(v, b) \in {Side(w, a), "shut"} /\ Side(w, a) \in {"outer", "inner", "shut"}
  BY DEF Side, SameParts, BothOpen
<1> QED BY <1>1, <1>2, <1>3 DEF Lock!Works, Lock!Waits, Lock!Shut

\* A world shows a chamber for every id.
LEMMA ChambersTyped ==
  ASSUME NEW w \in WorldType
  PROVE  ChambersOf(w) \in [Ids -> Lock!Chamber]
<1>1. ASSUME NEW i \in Ids PROVE ChamberOf(w, i) \in Lock!Chamber
  BY DEF ChamberOf, Side, Air, Lock!Chamber, Lock!Absent
<1> QED BY <1>1 DEF ChambersOf

\* A step that works each chamber of the world is a step of the chambers.
LEMMA WorkStep ==
  ASSUME IInv', saved' = saved,
         \A i \in Ids : Lock!Works(ChamberOf(World, i), ChamberOf(World', i))
  PROVE  Lock!Next
<1>1. World' \in WorldType
  BY DEF IInv, TypeOK
<1>2. ChambersOf(World') \in [Ids -> Lock!Chamber]
  BY <1>1, ChambersTyped
<1>3. \A i \in Ids : Lock!Works(ChambersOf(World)[i], ChambersOf(World')[i])
  BY DEF ChambersOf
<1>4. (IF saved = None THEN {} ELSE {ChambersOf(saved)})' = IF saved = None THEN {} ELSE {ChambersOf(saved)}
  BY DEF ChambersOf, ChamberOf, Side, Air, IsOpen, Ids
<1>5. Lock!Work(ChambersOf(World))
  BY <1>2, <1>3, <1>4 DEF Lock!Work, Ids
<1> QED BY <1>5 DEF Lock!Next

\* A step that moves no gas and opens no door of an assembly, but may found
\* one, is a step of the chambers.
LEMMA SteadyStep ==
  ASSUME IInv, IInv', saved' = saved,
         \A i \in Live(airlocks) :
           /\ airlocks'[i] # None /\ SameParts(airlocks'[i], airlocks[i])
           /\ airlocks'[i].pressure = airlocks[i].pressure /\ airlocks'[i].oxygen = airlocks[i].oxygen
           /\ \A p \in {airlocks[i].inner, airlocks[i].outer} : IsOpen(World', p) => IsOpen(World, p),
         \A i \in Ids \ Live(airlocks) :
           airlocks'[i] = None \/ ChamberOf(World', i) = [door |-> "shut", air |-> "full"]
  PROVE  Lock!Next
<1>1. World.airlocks = airlocks /\ World'.airlocks = airlocks'
  BY DEF World
<1>2. ASSUME NEW i \in Ids PROVE Lock!Works(ChamberOf(World, i), ChamberOf(World', i))
  <2>1. CASE i \in Live(airlocks)
    <3>1. ~BothOpen(World, World.airlocks[i]) /\ airlocks[i] # None
      BY <1>1, <2>1, Present, OneOpen DEF Live
    <3> QED BY <1>1, <2>1, <3>1, SteadyChamber
  <2>2. CASE i \notin Live(airlocks)
    <3>1. ChamberOf(World, i) = [door |-> "absent", air |-> "none"]
      BY <1>1, <2>2 DEF ChamberOf, Live
    <3>2. airlocks'[i] = None => ChamberOf(World', i) = [door |-> "absent", air |-> "none"]
      BY <1>1 DEF ChamberOf
    <3> QED BY <2>2, <3>1, <3>2 DEF Lock!Works, Lock!Waits, Lock!Paired, Lock!Absent
  <2> QED BY <2>1, <2>2
<1> QED BY <1>2, WorkStep

\* ... and so is one that leaves the assemblies as they are and opens no door.
LEMMA QuietStep ==
  ASSUME IInv, IInv', saved' = saved, airlocks' = airlocks,
         \A p \in Ids : Owned(World, p) /\ IsOpen(World', p) => IsOpen(World, p)
  PROVE  Lock!Next
<1>1. ASSUME NEW i \in Live(airlocks), NEW p \in {airlocks[i].inner, airlocks[i].outer}
      PROVE  p \in Ids /\ Owned(World, p)
  BY Present, LiveObjects DEF Assembly, Owned, Owns
<1>2. \A i \in Live(airlocks) : airlocks'[i] # None /\ SameParts(airlocks'[i], airlocks[i])
  BY DEF Live, SameParts
<1>3. \A i \in Ids \ Live(airlocks) : airlocks'[i] = None
  BY DEF Live
<1> QED BY <1>1, <1>2, <1>3, SteadyStep

\* What SetOpen does to the doors of the world.
LEMMA SetOpenDoors ==
  ASSUME IInv, NEW open \in [Ids -> BOOLEAN], SetOpen(World, open)
  PROVE  \A p \in Ids : IsOpen(World', p) => open[p]
<1>1. /\ Live(portals') = Live(portals)
      /\ \A p \in Live(portals) : portals'[p].open = open[p]
  BY Present, SetOpenPortals
<1> QED BY <1>1 DEF IsOpen, Live, World

\* A frame, and the update that follows a placed machine, work the airlocks.
LEMMA UpdateLock ==
  ASSUME IInv, IInv', saved' = saved, NEW dt \in Nat, NEW lit \in SUBSET Ids,
         UpdateAirlocks(World, dt, lit)
  PROVE  Lock!Next
<1>1. \A i \in Ids : Lock!Works(ChamberOf(World, i), ChamberOf(World', i))
  BY Present, AirlocksWork
<1> QED BY <1>1, WorkStep

\* trySphericalPlacePortal places closed portals.
LEMMA PlacePortalLock ==
  ASSUME IInv, IInv', NEW c \in Cells, NEW type \in PortalTypes, PlacePortal(c, type)
  PROVE  Lock!Next
<1>1. PICK id \in Ids : portals' = [portals EXCEPT ![id] = [type |-> type, at |-> c, open |-> FALSE]]
  BY DEF PlacePortal
<1>2. \A p \in Ids : IsOpen(World', p) => IsOpen(World, p)
  BY <1>1, Present DEF IsOpen, World
<1> QED BY <1>2, QuietStep DEF PlacePortal

\* Blocks, rules and menus open nothing.
LEMMA SamePortalsLock ==
  ASSUME IInv, IInv', saved' = saved, airlocks' = airlocks, portals' = portals
  PROVE  Lock!Next
<1>1. \A p \in Ids : IsOpen(World', p) => IsOpen(World, p)
  BY DEF IsOpen, World
<1> QED BY <1>1, QuietStep

\* removePortal
LEMMA MinePortalLock ==
  ASSUME IInv, IInv', NEW p \in Ids, MinePortal(p)
  PROVE  Lock!Next
<1>1. portals' = portals \/ portals' = [portals EXCEPT ![p] = None]
  BY DEF MinePortal
<1>2. \A q \in Ids : IsOpen(World', q) => IsOpen(World, q)
  BY <1>1, Present DEF IsOpen, World
<1> QED BY <1>2, QuietStep DEF MinePortal

\* setPortalOpen: by hand a door of an assembly can only be closed.
LEMMA TogglePortalLock ==
  ASSUME IInv, IInv', NEW p \in Ids, TogglePortal(p)
  PROVE  Lock!Next
<1> DEFINE open == [q \in Ids |-> IF q = p THEN ~portals[p].open ELSE IsOpen(World, q)]
<1>1. open \in [Ids -> BOOLEAN]
  <2>1. \A q \in Ids : open[q] \in BOOLEAN
    BY DEF IsOpen
  <2> QED BY <2>1
<1>2. SetOpen(World, open) /\ (portals[p].open \/ ~Owned(World, p)) /\ airlocks' = airlocks /\ saved' = saved
  BY DEF TogglePortal
<1>3. \A q \in Ids : Owned(World, q) /\ open[q] => IsOpen(World, q)
  BY <1>2
<1> HIDE DEF open
<1> QED BY <1>1, <1>2, <1>3, SetOpenDoors, QuietStep

\* evaluateAutomation closes portals only.
LEMMA DefendLock ==
  ASSUME IInv, IInv', NEW seeing, Defend(seeing)
  PROVE  Lock!Next
<1> DEFINE firing(action) == {rules[r].target : r \in {q \in Live(rules) : Fires(q, seeing) /\ rules[q].action = action}}
           open == [p \in Ids |-> IsOpen(World, p) /\ p \notin firing("ClosePortal")]
<1>1. open \in [Ids -> BOOLEAN] /\ \A p \in Ids : open[p] => IsOpen(World, p)
  <2> HIDE DEF firing
  <2> QED OBVIOUS
<1>2. SetOpen(World, open) /\ airlocks' = airlocks /\ saved' = saved
  BY DEF Defend
<1> HIDE DEF open
<1> QED BY <1>1, <1>2, SetOpenDoors, QuietStep

\* createAirlockAssembly founds a shut chamber that is full.
LEMMA PairLock ==
  ASSUME IInv, IInv', NEW controller \in Ids, NEW inner \in Ids, NEW outer \in Ids,
         Pair(controller, inner, outer)
  PROVE  Lock!Next
<1> DEFINE new == [controller |-> controller, inner |-> inner, outer |-> outer,
                   state |-> "Idle", pressure |-> Hull, oxygen |-> Hull]
           open == [p \in Ids |-> IsOpen(World, p) /\ p \notin {inner, outer}]
<1>1. PICK id \in Ids : Allocates(serial, id) /\ airlocks' = [airlocks EXCEPT ![id] = new]
  BY DEF Pair
<1>2. SetOpen(World, open) /\ saved' = saved
  BY DEF Pair
<1>3. id \notin Live(airlocks)
  BY <1>1, Present, FreshId
<1>4. open \in [Ids -> BOOLEAN] /\ \A p \in Ids : open[p] => IsOpen(World, p) /\ p \notin {inner, outer}
  OBVIOUS
<1>5. /\ new.inner = inner /\ new.outer = outer /\ new \in Assembly
      /\ Air(new) = "full"
  BY GasAssumption DEF Air, Assembly, States, Gas
<1> HIDE DEF new, open
<1>6. \A p \in Ids : IsOpen(World', p) => IsOpen(World, p) /\ p \notin {inner, outer}
  BY <1>2, <1>4, SetOpenDoors
<1>7. ChamberOf(World', id) = [door |-> "shut", air |-> "full"]
  <2>1. World'.airlocks[id] = new /\ new # None
    BY <1>1, <1>5, Present DEF World
  <2>2. Side(World', new) = "shut"
    BY <1>5, <1>6 DEF Side
  <2> QED BY <1>5, <2>1, <2>2 DEF ChamberOf
<1>8. ASSUME NEW i \in Live(airlocks)
      PROVE  /\ airlocks'[i] = airlocks[i] /\ airlocks[i] # None /\ airlocks[i] \in Assembly
             /\ \A p \in {airlocks[i].inner, airlocks[i].outer} : p \in Ids
  <2>1. i # id /\ i \in Ids /\ airlocks[i] \in Assembly
    BY <1>3, Present, LiveObjects
  <2> QED BY <1>1, <2>1, Present DEF Assembly
<1>9. ASSUME NEW i \in Ids \ Live(airlocks)
      PROVE  airlocks'[i] = None \/ ChamberOf(World', i) = [door |-> "shut", air |-> "full"]
  BY <1>1, <1>7, Present DEF Live
<1> QED BY <1>2, <1>6, <1>8, <1>9, SteadyStep DEF SameParts

\* requestAirlockCycle closes both doors and moves no gas yet.
LEMMA CycleLock ==
  ASSUME IInv, IInv', NEW i \in Ids, Cycle(i)
  PROVE  Lock!Next
<1> DEFINE next == IF airlocks[i].state = "ExteriorOpen" THEN "Pressurizing" ELSE "Depressurizing"
           open == [p \in Ids |-> IsOpen(World, p) /\ ~Owns(airlocks[i], p)]
<1>1. /\ i \in Live(airlocks) /\ airlocks' = [airlocks EXCEPT ![i].state = next]
      /\ SetOpen(World, open) /\ saved' = saved
  BY DEF Cycle
<1>2. open \in [Ids -> BOOLEAN] /\ \A p \in Ids : open[p] => IsOpen(World, p)
  OBVIOUS
<1> HIDE DEF next, open
<1>3. \A p \in Ids : IsOpen(World', p) => IsOpen(World, p)
  BY <1>1, <1>2, SetOpenDoors
<1>4. ASSUME NEW j \in Live(airlocks)
      PROVE  /\ airlocks'[j] # None /\ SameParts(airlocks'[j], airlocks[j])
             /\ airlocks'[j].pressure = airlocks[j].pressure /\ airlocks'[j].oxygen = airlocks[j].oxygen
             /\ \A p \in {airlocks[j].inner, airlocks[j].outer} : p \in Ids
  <2>1. j \in Ids /\ airlocks[j] \in Assembly
    BY Present, LiveObjects
  <2>2. airlocks'[j] \in {airlocks[j], [airlocks[j] EXCEPT !.state = next]}
    BY <1>1, <2>1, Present
  <2>3. airlocks'[j] # None
    <3>1. World' \in WorldType /\ World'.airlocks = airlocks'
      BY DEF IInv, TypeOK, World
    <3>2. next \in States
      BY DEF next, States
    <3>3. airlocks'[j] \in Assembly
      BY <2>1, <2>2, <3>2 DEF Assembly
    <3> QED BY <3>3
  <2> QED BY <2>1, <2>2, <2>3 DEF SameParts, Assembly
<1>5. \A j \in Ids \ Live(airlocks) : airlocks'[j] = None
  BY <1>1, Present DEF Live
<1> QED BY <1>1, <1>3, <1>4, <1>5, SteadyStep

\* loadGame brings the saved chambers back, one update on.
LEMMA LoadLock ==
  ASSUME IInv, IInv', Load
  PROVE  Lock!Next
<1>1. saved # None /\ saved' = saved
  BY DEF Load
<1>2. PICK lit \in PoweredSets(saved.machines) : UpdateAirlocks(saved, 0, lit)
  BY DEF Load
<1>3. saved \in WorldType /\ Assembled(saved) /\ Guarded(saved)
  BY <1>1, Present DEF IInv, Sound
<1>4. lit \in SUBSET Ids /\ 0 \in Nat
  BY DEF PoweredSets, Enabled, Live
<1>5. \A i \in Ids : Lock!Works(ChamberOf(saved, i), ChamberOf(World', i))
  BY <1>2, <1>3, <1>4, AirlocksWork
<1>6. ChambersOf(World') \in [Ids -> Lock!Chamber]
  BY ChambersTyped DEF IInv, TypeOK
<1>7. \A i \in Ids : Lock!Works(ChambersOf(saved)[i], ChambersOf(World')[i])
  BY <1>5 DEF ChambersOf
<1>8. ChambersOf(saved)' = ChambersOf(saved)
  BY <1>1 DEF ChambersOf, ChamberOf, Side, Air, IsOpen, Ids
<1>9. (IF saved = None THEN {} ELSE {ChambersOf(saved)})' = IF saved = None THEN {} ELSE {ChambersOf(saved)}
  BY <1>1, <1>8
<1> HIDE DEF ChambersOf
<1>10. Lock!Work(ChambersOf(saved))
  BY <1>6, <1>7, <1>9 DEF Lock!Work, Ids
<1>11. \E game \in IF saved = None THEN {} ELSE {ChambersOf(saved)} : Lock!Work(game)
  BY <1>1, <1>10
<1> QED BY <1>11 DEF Lock!Next, Lock!Load

\* saveGame keeps the chambers as they are.
LEMMA SaveLock ==
  ASSUME IInv, IInv', Save
  PROVE  Lock!Next
<1>1. saved' = World /\ World' = World
  BY DEF Save, World, persistent
<1>2. saved' # None
  BY <1>1, Present, SavedAssumption
<1>3. ChambersOf(World') = ChambersOf(World) /\ ChambersOf(saved') = ChambersOf(World)
  BY <1>1
<1> QED BY <1>2, <1>3 DEF Lock!Next, Lock!Save

(***************************************************************************)
(* Theorems                                                                *)
(***************************************************************************)

\* The inductive invariant: what the safety of an airlock rests on holds of
\* the world, and of the saved one, in every state.
THEOREM Invariance == Spec => []IInv
BY InitInv, InvStep, PTL DEF Spec

\* Objects, gas, voxels and saves keep their types: TypeOK of SurfacePortals.
THEOREM TypeCorrect == Spec => []TypeOK
<1>1. IInv => TypeOK
  BY DEF IInv
<1> QED BY <1>1, Invariance, PTL

\* The interlock of updateAirlocks, for any base, any gas and pumps, and
\* whatever the player, the rules and the power do.
THEOREM AirlocksAreSafe == Spec => []ChamberSafe
<1>1. IInv => ChamberSafe
  <2> SUFFICES ASSUME IInv, NEW i \in Live(airlocks)
               PROVE  /\ ~BothOpen(World, airlocks[i])
                      /\ IsOpen(World, airlocks[i].outer) => airlocks[i].pressure = 0 /\ airlocks[i].oxygen = 0
                      /\ IsOpen(World, airlocks[i].inner) => airlocks[i].pressure >= Ready /\ airlocks[i].oxygen >= Breath
                      /\ IsOpen(World, airlocks[i].outer) \/ IsOpen(World, airlocks[i].inner)
                           => airlocks[i].controller \in powered
    BY DEF ChamberSafe
  <2>1. /\ Guarded(World) /\ Lit /\ World.airlocks = airlocks
    BY Present
  <2> QED BY <2>1 DEF Guarded, Fits, BothOpen, Lit
<1> QED BY <1>1, Invariance, PTL

\* No assembly faults: removePortal and the interlock never leave one without
\* its parts or with two open doors.
THEOREM AirlocksNeverFault == Spec => []NeverFaults
<1>1. IInv => NeverFaults
  BY Present DEF NeverFaults, Guarded, Fits, Assembled
<1> QED BY <1>1, Invariance, PTL

\* Panels stand exactly where closed portals do.
THEOREM PanelsAgree == Spec => []SealsShow
<1>1. IInv => SealsShow
  BY Present DEF SealsShow, Sealed
<1> QED BY <1>1, Invariance, PTL

\* loadGame refuses nothing that saveGame wrote: SavedLoads.
THEOREM SavesLoad == Spec => []SavedLoads
<1>1. ASSUME NEW s \in WorldType, Sound(s) PROVE Restorable(s)
  <2>1. \A i \in Live(s.airlocks) : s.airlocks[i] \in Assembly
    BY LiveObjects
  <2>2. \A i, j \in Live(s.airlocks) : i # j =>
          /\ s.airlocks[i].controller # s.airlocks[j].controller
          /\ ~Owns(s.airlocks[i], s.airlocks[j].inner) /\ ~Owns(s.airlocks[i], s.airlocks[j].outer)
    BY <1>1, <2>1 DEF Sound, Assembled, Owns, Assembly
  <2>3. \A i \in Live(s.airlocks) : s.airlocks[i].inner # s.airlocks[i].outer
    BY <1>1 DEF Sound, Assembled
  <2> QED BY <1>1, <2>2, <2>3 DEF Restorable, Sound, Named, Placed, Ruled, IsMachine
<1>2. IInv => SavedLoads
  BY <1>1, Present DEF SavedLoads, IInv
<1> QED BY <1>2, Invariance, PTL

\* Every step of the bases is a step of their chambers, or none: whatever the
\* player, the rules, the grid, saves and loads do, an airlock goes from one side
\* to the other only through being shut, and its gas moves only then.
LEMMA LockStep == ASSUME IInv, IInv', [Next]_vars PROVE Lock!Next \/ UNCHANGED Lock!vars
<1>1. CASE Frame
  <2>1. ASSUME NEW dt \in Steps, NEW lit \in PoweredSets(machines), Update(dt, lit) PROVE Lock!Next
    <3>1. dt \in Nat /\ lit \in SUBSET Ids
      BY PumpAssumption DEF PoweredSets, Enabled, Live
    <3> QED BY <2>1, <3>1, UpdateLock DEF Update
  <2>2. ASSUME NEW seeing \in SUBSET Sensors, Defend(seeing) PROVE Lock!Next
    BY <2>2, DefendLock
  <2>3. CASE Menu
    BY <2>3, SamePortalsLock DEF Menu, persistent
  <2> QED BY <1>1, <2>1, <2>2, <2>3 DEF Frame
<1>2. CASE Interact
  <2>1. ASSUME NEW c \in Cells, NEW type \in PortalTypes, PlacePortal(c, type) PROVE Lock!Next
    BY <2>1, PlacePortalLock
  <2>2. ASSUME NEW type \in MachineTypes, PlaceMachine(type) PROVE Lock!Next
    <3>1. PICK lit \in PoweredSets(machines') : UpdateAirlocks(World, 0, lit)
      BY <2>2 DEF PlaceMachine
    <3>2. lit \in SUBSET Ids /\ 0 \in Nat
      BY DEF PoweredSets, Enabled, Live
    <3> QED BY <2>2, <3>1, <3>2, UpdateLock DEF PlaceMachine
  <2>3. ASSUME NEW c \in Cells, PlaceBlock(c) \/ MineBlock(c) PROVE Lock!Next
    BY <2>3, SamePortalsLock DEF PlaceBlock, MineBlock
  <2>4. ASSUME NEW p \in Ids, MinePortal(p) \/ TogglePortal(p) PROVE Lock!Next
    BY <2>4, MinePortalLock, TogglePortalLock
  <2>5. ASSUME NEW controller \in Ids, NEW inner \in Ids, NEW outer \in Ids,
               Pair(controller, inner, outer)
        PROVE  Lock!Next
    BY <2>5, PairLock
  <2>6. ASSUME NEW i \in Ids, Cycle(i) PROVE Lock!Next
    BY <2>6, CycleLock
  <2>7. ASSUME NEW controller \in Ids, NEW sensor \in Ids, NEW turret \in Ids,
               AddRules(controller, sensor, turret)
        PROVE  Lock!Next
    BY <2>7, SamePortalsLock DEF AddRules
  <2> QED BY <1>2, <2>1, <2>2, <2>3, <2>4, <2>5, <2>6, <2>7 DEF Interact
<1>3. CASE Save
  BY <1>3, SaveLock
<1>4. CASE Load
  BY <1>4, LoadLock
<1>5. CASE UNCHANGED vars
  BY <1>5, SamePortalsLock DEF vars
<1> QED BY <1>1, <1>2, <1>3, <1>4, <1>5 DEF Next

\* At the start there is no chamber and no saved game.
LEMMA InitLock == Init => Lock!Init
BY DEF Init, Lock!Init, Lock!Absent, ChambersOf, ChamberOf, World

\* The bases implement the abstract airlocks: ImplementsChambers.
THEOREM PortalsImplementChambers == Spec => ImplementsChambers
<1>1. IInv /\ IInv' /\ [Next]_vars => [Lock!Next]_(Lock!vars)
  BY LockStep
<1> QED BY InitLock, Invariance, <1>1, PTL DEF Spec, ImplementsChambers, Lock!Spec

=============================================================================
