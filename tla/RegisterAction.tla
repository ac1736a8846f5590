--------------------------- MODULE RegisterAction ---------------------------
(***************************************************************************)
(* Imperial enforcement: a director per planet (world/SurfaceSiege) that   *)
(* sends patrols and register actions in waves, the enemies of the actor   *)
(* world (ecs/EcsWorld) it knows by stable id only, and the frames of Game *)
(* that bring the two together for the planet the player is on. The        *)
(* directors are never told of a death: they compare the ids they wait for *)
(* with those that live in the player's domain, the surface of the planet  *)
(* or the older planar patch. Changing the view, travelling and loading    *)
(* empty the actor world, a load that fails half-way makes new directors   *)
(* and leaves the enemies, the player's death changes the domain, and the  *)
(* player may file or strike his claim at any time.                        *)
(***************************************************************************)
EXTENDS Naturals, FiniteSets

CONSTANTS
  Planets,            \* the planets, each with its director
  Announcement,       \* registerAnnouncementSeconds, in units of time
  Pause,              \* interWaveSeconds, in the same units
  MaxSquad,           \* bound: enemies of a wave
  MaxActions,         \* bound: actions since the last load, and of enemies from before it
  MaxFailures,        \* bound: failed loads that an enemy outlives
  MaxSurvivors        \* bound: enemies that live when a load fails

ASSUME SiegeAssumption ==
  /\ Announcement \in Nat /\ Pause \in Nat /\ MaxSquad \in Nat \ {0}
  /\ MaxActions \in Nat /\ MaxFailures \in Nat /\ MaxSurvivors \in Nat

VARIABLES
  spherical,          \* sphericalSurfaceMode_
  orbital,            \* orbitalPreview_
  current,            \* currentPlanet_
  claimed,            \* claimed_, by planet
  action,             \* the state_ of each planet's director
  serial,             \* and its nextActionSerial_
  living              \* the enemies of the registry: stable id, domain and, for the
                      \* record, how many failed loads each has outlived

vars == <<spherical, orbital, current, claimed, action, serial, living>>

Bands == {"Quiet", "Noted", "Marked", "Hunted"}
Types == {"Patrol", "RegisterAction"}
Phases == {"Idle", "Announced", "WaveActive", "InterWave", "Cleared", "Failed"}
Domains == {"PlanetSurface", "Planar"}

Domain == IF spherical THEN "PlanetSurface" ELSE "Planar"

\* The state a director is made with, and returns to; the serial of the
\* action stands for its id, 0 for none.
Idle ==
  [id |-> 0, type |-> "Patrol", band |-> "Quiet", phase |-> "Idle", wave |-> 0,
   waves |-> 0, seconds |-> 0, claimRequired |-> FALSE, ids |-> {}]

Active(a) == a.phase \in {"Announced", "WaveActive", "InterWave"}
Terminal(a) == a.phase \in {"Cleared", "Failed"}

Init ==
  /\ spherical = TRUE /\ orbital = FALSE
  /\ current \in Planets
  /\ claimed \in [Planets -> BOOLEAN]
  /\ action = [p \in Planets |-> Idle]
  /\ serial = [p \in Planets |-> 1]
  /\ living = {}

-----------------------------------------------------------------------------
(* The director.                                                           *)

TotalWavesOfBand(register, band) == IF band = "Hunted" THEN 5 ELSE 3
TotalWaves(register, band) == IF ~register THEN 1 ELSE IF band = "Hunted" THEN 5 ELSE 3

\* requestEnforcement of an attention band that is not quiet: a claim of a
\* marked or hunted file gets a register action, which is announced first.
Requested(a, n, band, claim) ==
  LET register == claim /\ band \in {"Marked", "Hunted"}
  IN  IF Active(a) \/ Terminal(a) THEN a
      ELSE [id |-> n, band |-> band, type |-> IF register THEN "RegisterAction" ELSE "Patrol",
            claimRequired |-> register, waves |-> TotalWaves(register, band), wave |-> 0, ids |-> {},
            phase |-> IF register THEN "Announced" ELSE "InterWave",
            seconds |-> IF register THEN Announcement ELSE 0]

\* How many enemies the present wave has.
Squad(a) ==
  LET authored ==
        IF a.type = "Patrol" THEN IF a.band = "Noted" THEN 2 ELSE 3
        ELSE IF a.band = "Hunted" THEN IF a.wave \in {2, 3} THEN 5 ELSE 4
        ELSE IF a.wave = 0 THEN 3 ELSE 4
  IN  IF authored > MaxSquad THEN MaxSquad ELSE authored

\* The stable id hashes these four (and the planet's seed).
EnemyIds(p, a) == {[planet |-> p, action |-> a.id, wave |-> a.wave, ordinal |-> k] : k \in 1..Squad(a)}

\* spawnCurrentWave
Spawned(p, a) == [a EXCEPT !.phase = "WaveActive", !.seconds = 0, !.ids = EnemyIds(p, a)]

\* completeWaveIfEmpty
CompletedLate(a) ==
  IF a.phase # "WaveActive" \/ a.ids # {} THEN a
  ELSE IF a.wave >= a.waves THEN [a EXCEPT !.phase = "Cleared", !.seconds = 0]
  ELSE [a EXCEPT !.phase = "InterWave", !.wave = @ + 1, !.seconds = Pause]
Completed(a) ==
  IF a.phase # "WaveActive" \/ a.ids # {} THEN a
  ELSE IF a.wave + 1 >= a.waves THEN [a EXCEPT !.phase = "Cleared", !.seconds = 0]
  ELSE [a EXCEPT !.phase = "InterWave", !.wave = @ + 1, !.seconds = Pause]

\* reconcileLiveEnemies: what is not among the living is destroyed.
ReconciledAtOnce(a, liveIds) ==
  IF a.phase # "WaveActive" \/ a.ids \subseteq liveIds THEN a ELSE Completed([a EXCEPT !.ids = {}])
Reconciled(a, liveIds) ==
  IF a.phase # "WaveActive" \/ a.ids = {} THEN a
  ELSE Completed([a EXCEPT !.ids = @ \intersect liveIds])

\* failAction
FailActionInWave(a) == IF a.phase = "WaveActive" THEN [a EXCEPT !.phase = "Failed", !.seconds = 0] ELSE a
FailAction(a) == IF Active(a) THEN [a EXCEPT !.phase = "Failed", !.seconds = 0] ELSE a

\* The director's update, after lapse units of time.
Updated(p, a, lapse, claim) ==
  LET left == IF a.seconds > lapse THEN a.seconds - lapse ELSE 0
  IN  IF ~Active(a) THEN a
      ELSE IF a.claimRequired /\ ~claim THEN FailAction(a)
      ELSE IF a.phase = "WaveActive" THEN Completed(a)
      ELSE IF left > 0 THEN [a EXCEPT !.seconds = left]
      ELSE Spawned(p, a)

\* What restoreState accepts of what serializeState writes.
Restorable(a, n) ==
  /\ n # 0
  /\ a.phase = "WaveActive" => a.ids # {}
  /\ a.phase = "Idle" => a.id = 0
  /\ a.type = "RegisterAction" => a.waves \in {3, 5}
  /\ a.type = "Patrol" /\ a.phase # "Idle" => a.waves = 1

-----------------------------------------------------------------------------
(* The frame. updateEmpire reconciles with the living of the domain, pays  *)
(* out and forgets an action that has ended, may dispatch another, and     *)
(* updates the director, whose spawn requests it carries out at once.      *)

InDomain(enemies) == {e \in enemies : e.domain = Domain}
IdsOf(enemies) == {e.id : e \in enemies}
LiveIds == IdsOf(InDomain(living))

\* reconcile, and what becomes of a terminal state
SettledPaid(a, liveIds) ==
  LET b == Reconciled(a, liveIds)
  IN  IF (b.phase = "Cleared" /\ a.phase # "Cleared" /\ b.type = "RegisterAction") \/ b.phase = "Failed" THEN Idle ELSE b
Settled(a, liveIds) ==
  LET b == Reconciled(a, liveIds)
  IN  IF (b.phase = "Cleared" /\ a.phase # "Cleared") \/ b.phase = "Failed" THEN Idle ELSE b

\* The enemies that the spawn requests of these ids make.
Enlisted(ids) == {[id |-> i, domain |-> Domain, outlived |-> 0] : i \in ids}

\* The dispatch roll is any choice; "Quiet" stands for a roll that fails, or
\* is not made: for a busy director, or a suspicion that is too low.
Dispatched(a, n, band, claim) ==
  IF band = "Quiet" THEN a ELSE Requested(a, n, band, claim)

UpdateEmpire(alive, claim, band, lapse) ==
  LET a == Settled(action[current], IdsOf(InDomain(alive)))
      d == Dispatched(a, serial[current], band, claim)
      u == Updated(current, d, lapse, claim)
      spawns == u.phase = "WaveActive" /\ d.phase # "WaveActive"
  IN  /\ band # "Quiet" => ~Active(a) /\ ~Terminal(a)
      /\ action' = [action EXCEPT ![current] = IF u.phase = "Failed" /\ d.phase # "Failed" THEN Idle ELSE u]
      /\ serial' = [serial EXCEPT ![current] = IF d # a THEN @ + 1 ELSE @]
      /\ living' = alive \union IF spawns THEN Enlisted(u.ids) ELSE {}

\* The actions sent since the last load, and those of living enemies from
\* before it.
Dispatches ==
  UNION {{p} \X (1..(serial[p] - 1)) \X {0} : p \in Planets}
    \union {<<e.id.planet, e.id.action, e.outlived>> : e \in living}

\* A frame without open menus: the player files or strikes the claim, some of
\* the domain's enemies die by his hand or by a turret's, time lapses; if he
\* dies in the planar patch he wakes at the ship, on the surface, and nobody
\* clears the enemies (a death on the surface changes nothing here).
Frame(claim, dead, band, lapse, dies) ==
  /\ ~orbital /\ UNCHANGED <<orbital, current>>
  /\ dies => ~spherical
  /\ spherical' = (spherical \/ dies)
  /\ dead \subseteq InDomain(living)
  /\ band = "Quiet" \/ Cardinality(Dispatches) < MaxActions
  /\ claimed' = [claimed EXCEPT ![current] = claim]
  /\ UpdateEmpire(living \ dead, claim, band, lapse)

-----------------------------------------------------------------------------
(* The keys and the save.                                                  *)

\* clearEnemies
ClearEnemies == living' = {}

\* P: the other view
TogglePlanarKeeping ==
  spherical' = ~spherical /\ orbital' = FALSE /\ UNCHANGED <<current, claimed, action, serial, living>>
TogglePlanar ==
  /\ spherical' = ~spherical /\ orbital' = FALSE
  /\ ClearEnemies
  /\ UNCHANGED <<current, claimed, action, serial>>

\* O: the orbital view
ToggleOrbital ==
  /\ orbital' = ~orbital /\ spherical' = FALSE
  /\ ClearEnemies
  /\ UNCHANGED <<current, claimed, action, serial>>

\* switchPlanet, from the travel menu
SwitchPlanet(p) ==
  /\ ~orbital
  /\ current' = p
  /\ ClearEnemies
  /\ UNCHANGED <<spherical, orbital, claimed, action, serial>>

\* initWorlds: every planet gets a new director.
InitWorlds == action' = [p \in Planets |-> Idle] /\ serial' = [p \in Planets |-> 1]

\* loadGame returns true: the claims and the planet of the save.
LoadGameKeeping ==
  /\ InitWorlds
  /\ current' \in Planets /\ claimed' \in [Planets -> BOOLEAN]
  /\ spherical' = TRUE /\ orbital' = FALSE /\ UNCHANGED living
LoadGame ==
  /\ InitWorlds
  /\ current' \in Planets
  /\ claimed' \in [Planets -> BOOLEAN]
  /\ spherical' = TRUE /\ orbital' = FALSE
  /\ ClearEnemies

\* loadGame returns false after initWorlds: the directors are new, and the
\* claims, the view and the enemies are those of the game that goes on.
LoadGameFails ==
  /\ Cardinality(living) <= MaxSurvivors
  /\ \A e \in living : e.outlived < MaxFailures
  /\ InitWorlds
  /\ living' = {[e EXCEPT !.outlived = @ + 1] : e \in living}
  /\ UNCHANGED <<spherical, orbital, current, claimed>>

Next ==
  \/ \E claim, dies \in BOOLEAN, dead \in SUBSET InDomain(living), band \in Bands, lapse \in 0..1 :
       Frame(claim, dead, band, lapse, dies)
  \/ TogglePlanar
  \/ ToggleOrbital
  \/ \E p \in Planets : SwitchPlanet(p)
  \/ LoadGame
  \/ LoadGameFails

\* Nothing obliges the player to stay, to fight, or to close a menu: what the
\* liveness below needs of him is its premise.
Spec == Init /\ [][Next]_vars

-----------------------------------------------------------------------------
(* Properties.                                                             *)

Enemies == [planet : Planets, action : Nat \ {0}, wave : 0..4, ordinal : 1..MaxSquad]

States ==
  [id : Nat, type : Types, band : Bands, phase : Phases, wave : 0..4, waves : {0, 1, 3, 5},
   seconds : Nat, claimRequired : BOOLEAN, ids : SUBSET Enemies]

TypeOK ==
  /\ spherical \in BOOLEAN /\ orbital \in BOOLEAN
  /\ current \in Planets
  /\ claimed \in [Planets -> BOOLEAN]
  /\ action \in [Planets -> States]
  /\ serial \in [Planets -> Nat \ {0}]
  /\ \A p \in Planets : action[p].id < serial[p]
  /\ living \subseteq [id : Enemies, domain : Domains, outlived : 0..MaxFailures]

\* A register action under way is one against a claim that stands, on every
\* planet: losing the beacon fails it in the same frame.
RegisterNeedsClaim == \A p \in Planets : action[p].type = "RegisterAction" => claimed[p]

\* At the end of every frame a director is in a state that restoreState
\* accepts: a wave under way waits for somebody.
StateRestores == \A p \in Planets : Restorable(action[p], serial[p])

\* The enemies sent by the directors there are. The others outlived a load that
\* failed; their directors are gone, and the serials in their ids start again.
Known == {e \in living : e.outlived = 0}

\* Waves do not overlap: who lives in the player's domain and was sent by his
\* director's action is one the director waits for. Nothing is claimed of those
\* who outlived a failed load: the code does not keep their waves apart.
WavesApart ==
  \A e \in Known :
    e.domain = Domain /\ e.id.planet = current /\ e.id.action = action[current].id => e.id \in action[current].ids

\* Whether the action of p is neither failed by its claim nor dropped by a
\* load, whether it leaves a wave, and whether that wave was beaten.
Kept(p) == (action[p].claimRequired => claimed'[p]) /\ serial'[p] >= serial[p]
Left(p) == action[p].id # 0 /\ (action'[p].id # action[p].id \/ action'[p].wave # action[p].wave)
WaveBeaten(p) ==
  /\ action[p].phase = "WaveActive"
  /\ \/ action'[p].id = action[p].id /\ action'[p].wave = action[p].wave + 1
     \/ action'[p].id # action[p].id /\ action[p].wave + 1 = action[p].waves
  /\ \A e \in living' : e.id \in action[p].ids => e.domain # Domain

\* An action that is not failed (by the claim) nor dropped (by a load) goes
\* through all of its waves in order, and leaves none while one of the wave's
\* enemies lives in the domain the player fights in.
WavesBeaten == [][\A p \in Planets : Left(p) /\ Kept(p) => WaveBeaten(p)]_vars

\* No enemy is sent under the stable id of one that lives, though the serials
\* of the actions start again with every load: a shot, and the director, know
\* an enemy by that id alone. The only ids that are shared are those of enemies
\* that outlived a failed load, until the actor world is next emptied.
NamesFresh ==
  [][\A p \in Planets : \A i \in action'[p].ids \ action[p].ids : \A e \in Known : e.id # i]_vars

\* An action comes to an end and its director is free for the next one, if the
\* player fights on its planet again and again: time lapses, and an enemy dies
\* if there is one.
Fights(p) ==
  /\ current = p
  /\ LiveIds # {} => living \ living' # {}
  /\ LET band == IF serial' = serial THEN "Quiet" ELSE action'[p].band
     IN  Frame(claimed'[p], living \ living', band, 1, spherical' # spherical)
ActionsEnd ==
  \A p \in Planets : []<><<Fights(p)>>_vars => (Active(action[p]) ~> action[p] = Idle)

-----------------------------------------------------------------------------
(* The inductive invariant behind the safety properties.                   *)

\* What a director's state is between two frames.
Coherent(p, a) ==
  /\ ~Terminal(a)
  /\ a.phase = "Idle" => a = Idle
  /\ Active(a) =>
       /\ a.id # 0 /\ a.wave < a.waves
       /\ a.claimRequired <=> a.type = "RegisterAction"
       /\ a.waves = TotalWaves(a.claimRequired, a.band)
  /\ a.phase = "WaveActive" <=> a.ids # {}
  /\ a.ids \subseteq EnemyIds(p, a)

\* The enemies are of the planet the player is on; in the planar patch there
\* are none of the surface; those of the present directors are of waves that
\* have been sent.
Sent(e) ==
  /\ e.id.action < serial[current]
  /\ e.id.action = action[current].id =>
       \/ e.id.wave < action[current].wave
       \/ e.id.wave = action[current].wave /\ action[current].phase = "WaveActive"
Sighted ==
  \A e \in living :
    /\ e.id.planet = current
    /\ ~spherical => e.domain = "Planar"
    /\ e.outlived = 0 => Sent(e)

IInv ==
  /\ TypeOK
  /\ \A p \in Planets : Coherent(p, action[p])
  /\ RegisterNeedsClaim
  /\ WavesApart
  /\ Sighted

=============================================================================
