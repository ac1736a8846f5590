------------------------ MODULE RegisterActionProofs ------------------------
(***************************************************************************)
(* Theorems of RegisterAction for any planets, times, squads and number of *)
(* actions.  The director is treated first, one lemma for each of its      *)
(* operations; the frame combines them.                                    *)
(***************************************************************************)
EXTENDS RegisterAction, TLAPS

\* A wave has one enemy at least, and no more than the bound.
LEMMA SquadSize == ASSUME NEW a PROVE Squad(a) \in 1..MaxSquad
  BY SiegeAssumption DEF Squad

\* The stable ids of a wave are of that wave, and there are some.
LEMMA WaveIds ==
  ASSUME NEW p \in Planets, NEW a \in States, a.id # 0
  PROVE  /\ EnemyIds(p, a) \subseteq Enemies /\ EnemyIds(p, a) # {}
         /\ \A i \in EnemyIds(p, a) : i.planet = p /\ i.action = a.id /\ i.wave = a.wave
<1>1. Squad(a) \in 1..MaxSquad
  BY SquadSize
<1>2. a.id \in Nat \ {0} /\ a.wave \in 0..4
  BY DEF States
<1>3. \A k \in 1..Squad(a) :
        LET i == [planet |-> p, action |-> a.id, wave |-> a.wave, ordinal |-> k]
        IN  i \in Enemies /\ i.planet = p /\ i.action = a.id /\ i.wave = a.wave
  BY <1>1, <1>2, SiegeAssumption DEF Enemies
<1>4. [planet |-> p, action |-> a.id, wave |-> a.wave, ordinal |-> 1] \in EnemyIds(p, a)
  BY <1>1, SiegeAssumption DEF EnemyIds
<1> QED
  BY <1>3, <1>4 DEF EnemyIds

\* The state of a director at rest is coherent.
LEMMA AtRest == ASSUME NEW p PROVE Idle \in States /\ Coherent(p, Idle)
  BY DEF Idle, States, Coherent, Types, Bands, Phases, Active, Terminal

\* A state with one field replaced.
LEMMA Update ==
  ASSUME NEW a \in States
  PROVE  /\ \A x \in Phases : [a EXCEPT !.phase = x] \in States
         /\ \A x \in 0..4 : [a EXCEPT !.wave = x] \in States
         /\ \A x \in Nat : [a EXCEPT !.seconds = x] \in States
         /\ \A x \in SUBSET Enemies : [a EXCEPT !.ids = x] \in States
<1>1. ASSUME NEW x \in Phases PROVE [a EXCEPT !.phase = x] \in States
  BY DEF States
<1>2. ASSUME NEW x \in 0..4 PROVE [a EXCEPT !.wave = x] \in States
  BY DEF States
<1>3. ASSUME NEW x \in Nat PROVE [a EXCEPT !.seconds = x] \in States
  BY DEF States
<1>4. ASSUME NEW x \in SUBSET Enemies PROVE [a EXCEPT !.ids = x] \in States
  BY DEF States
<1> QED
  BY <1>1, <1>2, <1>3, <1>4

\* The state between two waves.
LEMMA NextWave ==
  ASSUME NEW a \in States, NEW w \in 0..4
  PROVE  LET d == [a EXCEPT !.phase = "InterWave", !.wave = w, !.seconds = Pause, !.ids = {}]
         IN  /\ d \in States /\ d.phase = "InterWave" /\ d.wave = w /\ d.waves = a.waves /\ d.ids = {}
             /\ d.id = a.id /\ d.type = a.type /\ d.band = a.band /\ d.claimRequired = a.claimRequired
<1> DEFINE d == [a EXCEPT !.phase = "InterWave", !.wave = w, !.seconds = Pause, !.ids = {}]
           d1 == [a EXCEPT !.phase = "InterWave"]
           d2 == [d1 EXCEPT !.wave = w]
           d3 == [d2 EXCEPT !.seconds = Pause]
           d4 == [d3 EXCEPT !.ids = {}]
<1>1. /\ d.phase = "InterWave" /\ d.wave = w /\ d.waves = a.waves /\ d.ids = {} /\ d.seconds = Pause
      /\ d.id = a.id /\ d.type = a.type /\ d.band = a.band /\ d.claimRequired = a.claimRequired
  BY DEF States
<1>2. d = d4
  BY DEF States
<1>3. d1 \in States
  BY Update DEF Phases
<1>4. d2 \in States
  BY <1>3, Update
<1>5. d3 \in States
  BY <1>4, Update, SiegeAssumption
<1>6. d4 \in States
  BY <1>5, Update
<1> QED
  BY <1>1, <1>2, <1>6

\* The state in a wave.
LEMMA Wave ==
  ASSUME NEW a \in States, NEW ids \in SUBSET Enemies
  PROVE  [a EXCEPT !.phase = "WaveActive", !.seconds = 0, !.ids = ids] \in States
<1> DEFINE d == [a EXCEPT !.phase = "WaveActive", !.seconds = 0, !.ids = ids]
           d1 == [a EXCEPT !.phase = "WaveActive"]
           d2 == [d1 EXCEPT !.seconds = 0]
           d3 == [d2 EXCEPT !.ids = ids]
<1>2. d = d3
  BY DEF States
<1>3. d1 \in States
  BY Update DEF Phases
<1>4. d2 \in States
  BY <1>3, Update
<1>5. d3 \in States
  BY <1>4, Update
<1> QED
  BY <1>2, <1>5

-----------------------------------------------------------------------------
(* The steps of updateEmpire on a director's state.                        *)

\* Reconciling leaves the state, or takes the dead from it, or goes on to the
\* next wave, or ends the action and forgets it.
LEMMA SettledSteps ==
  ASSUME NEW p \in Planets, NEW a \in States, Coherent(p, a), NEW live
  PROVE  LET b == Settled(a, live)
         IN  /\ b \in States /\ Coherent(p, b)
             /\ b.type = "RegisterAction" => a.type = "RegisterAction"
             /\ \/ a.phase # "WaveActive" /\ b = a
                \/ /\ a.phase = "WaveActive" /\ b = [a EXCEPT !.ids = a.ids \intersect live]
                   /\ b.ids # {}
                \/ /\ a.phase = "WaveActive" /\ a.ids \intersect live = {} /\ a.wave + 1 < a.waves
                   /\ b = [a EXCEPT !.phase = "InterWave", !.wave = a.wave + 1, !.seconds = Pause, !.ids = {}]
                \/ /\ a.phase = "WaveActive" /\ a.ids \intersect live = {} /\ a.wave + 1 = a.waves
                   /\ b = Idle
<1> DEFINE b == Settled(a, live)
           c == [a EXCEPT !.ids = a.ids \intersect live]
<1>1. /\ a.wave \in 0..4 /\ a.waves \in {0, 1, 3, 5} /\ a.ids \subseteq Enemies /\ a.phase \in Phases
      /\ ~Terminal(a)
  BY DEF States, Coherent
<1>2. CASE a.phase # "WaveActive"
  <2>1. Reconciled(a, live) = a
    BY <1>2 DEF Reconciled
  <2>2. b = a
    BY <2>1, <1>1 DEF Settled, Terminal
  <2> QED
    BY <2>2, <1>2
<1>3. CASE a.phase = "WaveActive" /\ a.ids \intersect live # {}
  <2>1. a.ids # {}
    BY <1>3
  <2>2. c \in States /\ c.phase = "WaveActive" /\ c.ids = a.ids \intersect live
    BY <1>1, <1>3 DEF States
  <2>3. Reconciled(a, live) = c
    BY <1>3, <2>1, <2>2 DEF Reconciled, Completed
  <2>4. b = c
    BY <2>2, <2>3 DEF Settled
  <2>5. /\ c.id = a.id /\ c.wave = a.wave /\ c.waves = a.waves /\ c.type = a.type /\ c.band = a.band
        /\ c.claimRequired = a.claimRequired
    BY DEF States
  <2>6. EnemyIds(p, c) = EnemyIds(p, a)
    BY <2>5 DEF EnemyIds, Squad
  <2>7. Coherent(p, c)
    BY <2>2, <2>5, <2>6, <1>3 DEF Coherent, Active, Terminal
  <2> QED
    BY <2>2, <2>4, <2>5, <2>7, <1>3
<1>4. CASE a.phase = "WaveActive" /\ a.ids \intersect live = {}
  <2>1. a.ids # {} /\ a.id # 0 /\ a.wave < a.waves
    BY <1>4 DEF Coherent, Active
  <2>2. Reconciled(a, live) = Completed(c)
    BY <1>4, <2>1 DEF Reconciled
  <2>3. /\ c.phase = "WaveActive" /\ c.ids = {} /\ c.wave = a.wave /\ c.waves = a.waves
    BY <1>4 DEF States
  <2>4. CASE a.wave + 1 = a.waves
    <3>1. Completed(c) = [c EXCEPT !.phase = "Cleared", !.seconds = 0]
      BY <2>3, <2>4, <1>1 DEF Completed
    <3>2. [c EXCEPT !.phase = "Cleared", !.seconds = 0].phase = "Cleared"
      BY DEF States
    <3>3. b = Idle
      BY <3>1, <3>2, <2>2, <1>4 DEF Settled
    <3> QED
      BY <3>3, <1>4, <2>4, AtRest DEF Idle
  <2>5. CASE a.wave + 1 # a.waves
    <3> DEFINE d == [a EXCEPT !.phase = "InterWave", !.wave = a.wave + 1, !.seconds = Pause, !.ids = {}]
    <3>1. a.wave + 1 < a.waves
      BY <2>1, <2>5, <1>1
    <3>2. Completed(c) = [c EXCEPT !.phase = "InterWave", !.wave = a.wave + 1, !.seconds = Pause]
      BY <2>3, <3>1, <1>1 DEF Completed
    <3>3. c = [a EXCEPT !.ids = {}]
      BY <1>4
    <3>4. Completed(c) = d
      BY <3>2, <3>3 DEF States
    <3>5. a.wave + 1 \in 0..4
      BY <3>1, <1>1
    <3>6. /\ d \in States /\ d.phase = "InterWave" /\ d.wave = a.wave + 1 /\ d.waves = a.waves /\ d.ids = {}
          /\ d.id = a.id /\ d.type = a.type /\ d.band = a.band /\ d.claimRequired = a.claimRequired
      BY <3>5, NextWave
    <3>7. b = d
      BY <3>4, <3>6, <2>2 DEF Settled
    <3>8. Coherent(p, d)
      BY <3>6, <3>1, <2>1, <1>4 DEF Coherent, Active, Terminal
    <3> QED
      BY <3>1, <3>6, <3>7, <3>8, <1>4
  <2> QED
    BY <2>4, <2>5
<1> QED
  BY <1>2, <1>3, <1>4

\* A dispatch leaves a director that is busy alone and starts a new action
\* of a free one.
LEMMA DispatchedSteps ==
  ASSUME NEW p \in Planets, NEW a \in States, Coherent(p, a), NEW n \in Nat \ {0},
         NEW band \in Bands, NEW claim \in BOOLEAN
  PROVE  LET d == Dispatched(a, n, band, claim)
         IN  /\ d \in States /\ Coherent(p, d)
             /\ \/ d = a
                \/ /\ a = Idle /\ d.id = n /\ d.wave = 0 /\ d.ids = {} /\ d.phase \in {"Announced", "InterWave"}
                   /\ d.type = "RegisterAction" => claim
<1> DEFINE d == Dispatched(a, n, band, claim)
           register == claim /\ band \in {"Marked", "Hunted"}
           type == IF register THEN "RegisterAction" ELSE "Patrol"
           phase == IF register THEN "Announced" ELSE "InterWave"
           seconds == IF register THEN Announcement ELSE 0
           waves == TotalWaves(register, band)
           r == [id |-> n, type |-> type, band |-> band, phase |-> phase, wave |-> 0, waves |-> waves,
                 seconds |-> seconds, claimRequired |-> register, ids |-> {}]
<1>1. d = a \/ (d = r /\ ~Active(a) /\ ~Terminal(a))
  BY DEF Dispatched, Requested
<1>2. ~Active(a) /\ ~Terminal(a) => a = Idle
  BY DEF Coherent, States, Phases, Active, Terminal
<1>3. register \in BOOLEAN /\ waves \in {1, 3, 5}
  BY DEF TotalWaves
<1>4. /\ type \in Types /\ phase \in {"Announced", "InterWave"} /\ seconds \in Nat
      /\ register <=> type = "RegisterAction"
  BY SiegeAssumption DEF Types
<1>5. /\ r.id = n /\ r.band = band /\ r.type = type /\ r.claimRequired = register /\ r.waves = waves
      /\ r.phase = phase /\ r.wave = 0 /\ r.ids = {}
  OBVIOUS
<1> HIDE DEF type, phase, seconds
<1>6. r \in States
  BY <1>3, <1>4 DEF States, Phases
<1>7. Coherent(p, r)
  <2>1. r.waves = TotalWaves(r.claimRequired, r.band) /\ r.id # 0
    BY <1>5
  <2>2. r.wave < r.waves
    BY <1>3, <1>5
  <2>3. r.claimRequired <=> r.type = "RegisterAction"
    BY <1>4, <1>5
  <2>4. r.phase \in {"Announced", "InterWave"} /\ r.ids = {} /\ r.ids \subseteq EnemyIds(p, r)
    BY <1>4, <1>5
  <2> HIDE DEF r
  <2> QED
    BY <2>1, <2>2, <2>3, <2>4 DEF Coherent, Active, Terminal
<1>8. register => claim
  OBVIOUS
<1> QED
  BY <1>1, <1>2, <1>4, <1>5, <1>6, <1>7, <1>8

\* A failed action is forgotten in the frame.
Rested(d, u) == IF u.phase = "Failed" /\ d.phase # "Failed" THEN Idle ELSE u

\* What the director's update makes of a coherent state.
LEMMA UpdatedSteps ==
  ASSUME NEW p \in Planets, NEW d \in States, Coherent(p, d), NEW lapse \in Nat, NEW claim \in BOOLEAN
  PROVE  LET u == Updated(p, d, lapse, claim)
             r == Rested(d, u)
         IN  /\ r \in States /\ Coherent(p, r)
             /\ r.type = "RegisterAction" => claim
             /\ \/ r = Idle /\ u.phase # "WaveActive"
                   /\ (Active(d) => d.claimRequired /\ ~claim)
                \/ r = u /\ u = d /\ d.phase = "WaveActive"
                \/ r = u /\ u.phase # "WaveActive" /\ d.phase # "WaveActive" /\ u.id = d.id /\ u.wave = d.wave
                   /\ u.ids = d.ids /\ d.ids = {}
                \/ /\ r = u /\ u.phase = "WaveActive" /\ u.id = d.id /\ u.wave = d.wave
                   /\ d.phase # "WaveActive" /\ d.id # 0 /\ u.ids = EnemyIds(p, u)
<1> DEFINE u == Updated(p, d, lapse, claim)
           r == Rested(d, u)
           left == IF d.seconds > lapse THEN d.seconds - lapse ELSE 0
<1>1. d.phase \in Phases /\ d.seconds \in Nat /\ ~Terminal(d)
  BY DEF States, Coherent
<1>2. CASE ~Active(d)
  <2>1. d = Idle /\ u = d
    BY <1>1, <1>2 DEF Coherent, Active, Terminal, Phases, Updated
  <2>2. r = Idle
    BY <2>1 DEF Rested
  <2> QED
    BY <2>1, <2>2, <1>2, AtRest DEF Idle, Active
<1>3. CASE Active(d) /\ d.claimRequired /\ ~claim
  <2>1. u = [d EXCEPT !.phase = "Failed", !.seconds = 0]
    BY <1>3 DEF Updated, FailAction
  <2>2. u.phase = "Failed" /\ d.phase # "Failed"
    BY <2>1, <1>3 DEF States, Active
  <2>3. r = Idle
    BY <2>2 DEF Rested
  <2> QED
    BY <2>2, <2>3, <1>3, AtRest DEF Idle
<1>4. CASE Active(d) /\ ~(d.claimRequired /\ ~claim) /\ d.phase = "WaveActive"
  <2>1. u = d
    BY <1>4 DEF Updated, Completed, Coherent
  <2>2. r = u
    BY <2>1, <1>4 DEF Rested
  <2> QED
    BY <2>1, <2>2, <1>4 DEF Coherent, States
<1>5. CASE Active(d) /\ ~(d.claimRequired /\ ~claim) /\ d.phase # "WaveActive" /\ left > 0
  <2>1. u = [d EXCEPT !.seconds = left]
    BY <1>5 DEF Updated
  <2>2. left \in Nat
    BY <1>1
  <2>3. /\ u \in States /\ u.phase = d.phase /\ u.id = d.id /\ u.wave = d.wave /\ u.waves = d.waves
        /\ u.type = d.type /\ u.band = d.band /\ u.claimRequired = d.claimRequired /\ u.ids = d.ids
    BY <2>1, <2>2 DEF States
  <2>4. r = u /\ d.ids = {}
    BY <2>3, <1>5 DEF Rested, Active, Coherent
  <2>5. Coherent(p, u)
    BY <2>3, <2>4, <1>5 DEF Coherent, Active, Terminal
  <2> QED
    BY <2>3, <2>4, <2>5, <1>5 DEF Coherent
<1>6. CASE Active(d) /\ ~(d.claimRequired /\ ~claim) /\ d.phase # "WaveActive" /\ ~(left > 0)
  <2>1. u = [d EXCEPT !.phase = "WaveActive", !.seconds = 0, !.ids = EnemyIds(p, d)]
    BY <1>6 DEF Updated, Spawned
  <2>2. d.id # 0
    BY <1>6 DEF Coherent
  <2>3. EnemyIds(p, d) \subseteq Enemies /\ EnemyIds(p, d) # {}
    BY <2>2, WaveIds
  <2>4. u \in States
    BY <2>1, <2>3, Wave
  <2>5. /\ u.phase = "WaveActive" /\ u.id = d.id /\ u.wave = d.wave /\ u.waves = d.waves
        /\ u.type = d.type /\ u.band = d.band /\ u.claimRequired = d.claimRequired /\ u.ids = EnemyIds(p, d)
    BY <2>1 DEF States
  <2>6. EnemyIds(p, u) = EnemyIds(p, d)
    BY <2>5 DEF EnemyIds, Squad
  <2>7. Coherent(p, u)
    BY <2>2, <2>3, <2>5, <2>6, <1>6 DEF Coherent, Active, Terminal
  <2>8. r = u
    BY <2>5 DEF Rested
  <2> QED
    BY <2>2, <2>5, <2>4, <2>6, <2>7, <2>8, <1>6 DEF Coherent, Active
<1> QED
  BY <1>2, <1>3, <1>4, <1>5, <1>6

-----------------------------------------------------------------------------
(* The frame: what becomes of the director of the planet the player is on, *)
(* and of the enemies.                                                     *)

\* Where the director's state r stands after a frame that began with a: in
\* the same wave, in the next one, in a new action, or at rest.
Same(a, r) == r.id = a.id /\ r.wave = a.wave
Beaten(a, live) == a.phase = "WaveActive" /\ a.ids \intersect live = {}
NextOne(a, r, live) == Beaten(a, live) /\ a.wave + 1 < a.waves /\ r.id = a.id /\ r.wave = a.wave + 1
Over(a, live) == a = Idle \/ (Beaten(a, live) /\ a.wave + 1 = a.waves)
NewOne(a, r, live, n) == Over(a, live) /\ r.id = n /\ r.wave = 0
AtEnd(a, r, live, claim) == r = Idle /\ (Over(a, live) \/ (a.claimRequired /\ ~claim))

\* The ids of those in the domain; the director's state and its serial after
\* a frame; the enemies after it.
LiveOf(alive) == IdsOf(InDomain(alive))
Course(a, r, live, claim) ==
  \/ Same(a, r) /\ serial' = serial
  \/ NextOne(a, r, live) /\ serial' = serial
  \/ NewOne(a, r, live, serial[current]) /\ serial' = [serial EXCEPT ![current] = serial[current] + 1]
  \/ AtEnd(a, r, live, claim) /\ serial' = serial
Army(a, r, alive, live) ==
  \/ /\ living' = alive
     /\ IF r.phase = "WaveActive"
        THEN Same(a, r) /\ a.phase = "WaveActive" /\ r.ids = a.ids \intersect live
        ELSE Same(a, r) => a.phase # "WaveActive"
  \/ /\ living' = alive \union Enlisted(r.ids)
     /\ r.phase = "WaveActive" /\ r.ids = EnemyIds(current, r) /\ r.id # 0
     /\ Same(a, r) => a.phase # "WaveActive"

\* What a frame makes of the director of the planet the player is on.
FrameMakes(claim, dead) ==
  /\ action'[current] \in States /\ Coherent(current, action'[current])
  /\ action'[current].type = "RegisterAction" => claim
  /\ action' = [action EXCEPT ![current] = action'[current]]
  /\ Course(action[current], action'[current], LiveOf(living \ dead), claim)
  /\ Army(action[current], action'[current], living \ dead, LiveOf(living \ dead))

\* A frame takes the director through its operations one after the other, each of
\* which keeps its state coherent.
LEMMA FrameSteps ==
  ASSUME NEW claim, NEW dead, NEW band, NEW lapse, NEW dies,
         claim \in BOOLEAN, band \in Bands, lapse \in 0..1, dies \in BOOLEAN, IInv,
         Frame(claim, dead, band, lapse, dies)
  PROVE  FrameMakes(claim, dead)
<1> DEFINE p == current
           a == action[p]
           n == serial[p]
           alive == living \ dead
           live == LiveOf(alive)
           b == Settled(a, live)
           d == Dispatched(b, n, band, claim)
           u == Updated(p, d, lapse, claim)
           r == Rested(d, u)
           spawns == u.phase = "WaveActive" /\ d.phase # "WaveActive"
<1>1. p \in Planets /\ a \in States /\ Coherent(p, a) /\ n \in Nat \ {0} /\ a.id < n
  BY DEF IInv, TypeOK
<1>2. /\ action' = [action EXCEPT ![p] = r]
      /\ serial' = [serial EXCEPT ![p] = IF d # b THEN n + 1 ELSE n]
      /\ living' = alive \union IF spawns THEN Enlisted(u.ids) ELSE {}
  BY DEF Frame, UpdateEmpire, Rested, LiveOf
<1>3. action'[p] = r
  BY <1>1, <1>2 DEF IInv, TypeOK
<1> HIDE DEF alive, live
<1>4. /\ b \in States /\ Coherent(p, b)
      /\ \/ a.phase # "WaveActive" /\ b = a
         \/ a.phase = "WaveActive" /\ b = [a EXCEPT !.ids = a.ids \intersect live] /\ b.ids # {}
         \/ /\ a.phase = "WaveActive" /\ a.ids \intersect live = {} /\ a.wave + 1 < a.waves
            /\ b = [a EXCEPT !.phase = "InterWave", !.wave = a.wave + 1, !.seconds = Pause, !.ids = {}]
         \/ a.phase = "WaveActive" /\ a.ids \intersect live = {} /\ a.wave + 1 = a.waves /\ b = Idle
  BY <1>1, SettledSteps
<1>5. \/ a.phase # "WaveActive" /\ b = a
      \/ /\ a.phase = "WaveActive" /\ b.phase = "WaveActive" /\ b.ids = a.ids \intersect live /\ Same(a, b)
         /\ b.claimRequired = a.claimRequired /\ b.ids # {}
      \/ b.phase = "InterWave" /\ b.ids = {} /\ NextOne(a, b, live) /\ b.claimRequired = a.claimRequired
      \/ b = Idle /\ Over(a, live)
  BY <1>1, <1>4 DEF Same, NextOne, Over, Beaten, States
<1> HIDE DEF b
<1>6. /\ d \in States /\ Coherent(p, d)
      /\ \/ d = b
         \/ /\ b = Idle /\ d.id = n /\ d.wave = 0 /\ d.ids = {} /\ d.phase \in {"Announced", "InterWave"}
            /\ d.type = "RegisterAction" => claim
  BY <1>1, <1>4, DispatchedSteps
<1> HIDE DEF d
<1>7. /\ r \in States /\ Coherent(p, r)
      /\ r.type = "RegisterAction" => claim
      /\ \/ r = Idle /\ u.phase # "WaveActive" /\ (Active(d) => d.claimRequired /\ ~claim)
         \/ r = u /\ u = d /\ d.phase = "WaveActive"
         \/ r = u /\ u.phase # "WaveActive" /\ d.phase # "WaveActive" /\ u.id = d.id /\ u.wave = d.wave
            /\ u.ids = d.ids /\ d.ids = {}
         \/ /\ r = u /\ u.phase = "WaveActive" /\ u.id = d.id /\ u.wave = d.wave
            /\ d.phase # "WaveActive" /\ d.id # 0 /\ u.ids = EnemyIds(p, u)
  <2>1. lapse \in Nat
    OBVIOUS
  <2> QED
    BY <1>1, <1>6, <2>1, UpdatedSteps
<1> HIDE DEF u, r
<1>8. Idle.phase = "Idle" /\ Idle.id = 0 /\ Idle.wave = 0
  BY DEF Idle
<1>9. ~Active(d) => d = Idle
  BY <1>6 DEF Coherent, States, Phases, Active, Terminal
<1>10. d # b => d.id = n /\ b = Idle /\ (d.type = "RegisterAction" => claim) /\ Active(d)
  BY <1>6 DEF Active
<1>11. d = b => serial' = serial
  BY <1>1, <1>2 DEF IInv, TypeOK
<1>12. d # b => serial' = [serial EXCEPT ![p] = n + 1]
  BY <1>2
<1>13. b = Idle => Over(a, live)
  <2>1. a = Idle => Over(a, live)
    BY DEF Over
  <2> QED
    BY <1>5, <1>8, <2>1
<1>14. Active(d) /\ d.type = "RegisterAction" <=> Active(d) /\ d.claimRequired
  BY <1>6 DEF Coherent
<1>15. Course(a, r, live, claim) /\ Army(a, r, alive, live)
  <2>1. CASE r = Idle /\ u.phase # "WaveActive" /\ (Active(d) => d.claimRequired /\ ~claim)
    <3>1. d = b
      BY <1>10, <1>14, <2>1
    <3>2. b = Idle \/ (b.claimRequired /\ ~claim)
      BY <3>1, <1>9, <2>1
    <3>3. AtEnd(a, r, live, claim)
      <4>1. CASE b = Idle
        BY <4>1, <1>13, <2>1 DEF AtEnd
      <4>2. CASE b.claimRequired /\ ~claim
        <5>1. b # Idle
          BY <4>2 DEF Idle
        <5>2. a.claimRequired
          BY <1>5, <5>1, <4>2
        <5> QED
          BY <5>2, <4>2, <2>1 DEF AtEnd
      <4> QED
        BY <3>2, <4>1, <4>2
    <3>4. living' = alive /\ r.phase # "WaveActive"
      BY <1>2, <1>8, <2>1
    <3>5. Same(a, r) => a.phase # "WaveActive"
      BY <1>1, <1>8, <2>1 DEF Same, Coherent, Active
    <3> QED
      BY <1>11, <3>1, <3>3, <3>4, <3>5 DEF Course, Army
  <2>2. CASE r = u /\ u = d /\ d.phase = "WaveActive"
    <3>1. d = b
      BY <1>6, <2>2
    <3>2. a.phase = "WaveActive" /\ b.ids = a.ids \intersect live /\ Same(a, b)
      BY <1>5, <1>8, <2>2, <3>1
    <3>3. living' = alive
      BY <1>2, <2>2
    <3>4. r = b /\ r.phase = "WaveActive"
      BY <2>2, <3>1
    <3> QED
      BY <1>11, <3>1, <3>2, <3>3, <3>4 DEF Course, Army
  <2>3. CASE r = u /\ d.phase # "WaveActive" /\ u.id = d.id /\ u.wave = d.wave
    <3>1. \/ Same(a, r) /\ serial' = serial /\ a.phase # "WaveActive"
          \/ NextOne(a, r, live) /\ serial' = serial
          \/ NewOne(a, r, live, n) /\ serial' = [serial EXCEPT ![p] = n + 1]
          \/ AtEnd(a, r, live, claim) /\ serial' = serial
      <4>1. CASE d # b
        BY <4>1, <1>6, <1>10, <1>12, <1>13, <2>3 DEF NewOne
      <4>2. CASE d = b /\ b # Idle
        BY <4>2, <1>5, <1>11, <2>3 DEF Same, NextOne
      <4>3. CASE d = b /\ b = Idle
        <5>1. r = Idle
          BY <4>3, <1>7, <1>8, <2>3 DEF Coherent, Active, Terminal, States, Phases
        <5> QED
          BY <5>1, <4>3, <1>11, <1>13 DEF AtEnd
      <4> QED
        BY <4>1, <4>2, <4>3
    <3>2. Same(a, r) => a.phase # "WaveActive"
      <4> SUFFICES ASSUME Same(a, r), a.phase = "WaveActive" PROVE FALSE
        OBVIOUS
      <4>1. a.id # 0 /\ a.id \in Nat /\ a.wave \in 0..4
        BY <1>1 DEF Coherent, Active, States
      <4>2. CASE Same(a, r) /\ serial' = serial /\ a.phase # "WaveActive"
        BY <4>2
      <4>3. CASE NextOne(a, r, live)
        BY <4>1, <4>3 DEF NextOne, Same
      <4>4. CASE NewOne(a, r, live, n)
        BY <4>1, <4>4, <1>1 DEF NewOne, Same
      <4>5. CASE AtEnd(a, r, live, claim)
        BY <4>1, <4>5, <1>8 DEF AtEnd, Same
      <4> QED
        BY <3>1, <4>2, <4>3, <4>4, <4>5
    <3>5. Course(a, r, live, claim)
      BY <3>1 DEF Course
    <3>3. CASE u.phase # "WaveActive"
      <4>1. living' = alive /\ r.phase # "WaveActive"
        BY <1>2, <2>3, <3>3
      <4> QED
        BY <3>2, <3>5, <4>1 DEF Army
    <3>4. CASE u.phase = "WaveActive"
      <4>1. u.ids = EnemyIds(p, u) /\ d.id # 0
        BY <1>7, <1>8, <2>3, <3>4
      <4>2. r.phase = "WaveActive" /\ r.ids = EnemyIds(p, r) /\ r.id # 0
        BY <4>1, <2>3, <3>4
      <4>3. living' = alive \union Enlisted(r.ids)
        BY <1>2, <2>3, <3>4
      <4> QED
        BY <3>5, <3>2, <4>2, <4>3 DEF Army
    <3> QED
      BY <3>3, <3>4
  <2> QED
    BY <1>7, <2>1, <2>2, <2>3
<1> QED
  BY <1>2, <1>3, <1>7, <1>15 DEF FrameMakes, alive, live

\* A frame that ends with a death in the planar patch leaves nobody in the
\* player's new domain.
LEMMA DomainKept ==
  ASSUME NEW claim, NEW dead, NEW band, NEW lapse, NEW dies,
         claim \in BOOLEAN, band \in Bands, lapse \in 0..1, dies \in BOOLEAN, IInv,
         Frame(claim, dead, band, lapse, dies), NEW e \in living', e.domain = Domain'
  PROVE  e.domain = Domain
<1> DEFINE a == action[current]
           r == action'[current]
           alive == living \ dead
<1>1. Army(a, r, alive, LiveOf(alive))
  <2>1. FrameMakes(claim, dead)
    BY FrameSteps
  <2> QED
    BY <2>1 DEF FrameMakes
<1>2. e \in living \/ e \in Enlisted(r.ids)
  BY <1>1 DEF Army
<1>3. spherical \in BOOLEAN /\ spherical' = (spherical \/ dies) /\ (dies => ~spherical)
  BY DEF IInv, TypeOK, Frame
<1>4. CASE e \in living
  <2>1. ~spherical => e.domain = "Planar"
    BY <1>4 DEF IInv, Sighted
  <2> QED
    BY <1>3, <2>1 DEF Domain
<1>5. CASE e \in Enlisted(r.ids)
  BY <1>5 DEF Enlisted
<1> QED
  BY <1>2, <1>4, <1>5

\* The records of the actor world.
Actors == [id : Enemies, domain : Domains, outlived : 0..MaxFailures]

\* The invariant at the end of a frame.
LEMMA FrameKeeps ==
  ASSUME NEW claim, NEW dead, NEW band, NEW lapse, NEW dies,
         claim \in BOOLEAN, band \in Bands, lapse \in 0..1, dies \in BOOLEAN, IInv,
         Frame(claim, dead, band, lapse, dies)
  PROVE  IInv'
<1> DEFINE p == current
           a == action[p]
           r == action'[p]
           n == serial[p]
           alive == living \ dead
           live == LiveOf(alive)
<1>1. /\ p \in Planets /\ a \in States /\ Coherent(p, a) /\ n \in Nat \ {0} /\ a.id < n
      /\ a.id \in Nat /\ a.wave \in 0..4
  BY DEF IInv, TypeOK, States
<1>2. /\ r \in States /\ Coherent(p, r)
      /\ r.type = "RegisterAction" => claim
      /\ action' = [action EXCEPT ![p] = r]
      /\ Course(a, r, live, claim) /\ Army(a, r, alive, live)
  <2>1. FrameMakes(claim, dead)
    BY FrameSteps
  <2> QED
    BY <2>1 DEF FrameMakes
<1>3. /\ current' = p /\ orbital' = orbital /\ spherical' = (spherical \/ dies)
      /\ claimed' = [claimed EXCEPT ![p] = claim]
  BY DEF Frame
<1>4. r.id \in Nat /\ r.wave \in 0..4
  BY <1>2 DEF States
<1>5. Idle.id = 0
  BY DEF Idle
<1>6. /\ r.id < serial'[p] /\ serial' \in [Planets -> Nat \ {0}] /\ n <= serial'[p]
      /\ \A q \in Planets \ {p} : serial'[q] = serial[q]
  <2>1. serial \in [Planets -> Nat \ {0}]
    BY DEF IInv, TypeOK
  <2>2. CASE Same(a, r) /\ serial' = serial
    BY <1>1, <2>1, <2>2 DEF Same
  <2>3. CASE NextOne(a, r, live) /\ serial' = serial
    BY <1>1, <2>1, <2>3 DEF NextOne
  <2>4. CASE NewOne(a, r, live, n) /\ serial' = [serial EXCEPT ![p] = n + 1]
    BY <1>1, <2>1, <2>4 DEF NewOne
  <2>5. CASE AtEnd(a, r, live, claim) /\ serial' = serial
    BY <1>1, <1>5, <2>1, <2>5 DEF AtEnd
  <2> QED
    BY <1>2, <2>2, <2>3, <2>4, <2>5 DEF Course
<1>7. \A i \in r.ids : i \in Enemies /\ i.planet = p /\ i.action = r.id /\ i.wave = r.wave /\ r.phase = "WaveActive"
  <2>1. r.ids # {} => r.phase = "WaveActive" /\ r.id # 0 /\ r.ids \subseteq EnemyIds(p, r)
    BY <1>2 DEF Coherent, Active
  <2> QED
    BY <1>1, <1>2, <2>1, WaveIds
<1>8. \A e \in living' : e \in alive \/ (e.id \in r.ids /\ e.domain = Domain /\ e \in Actors)
  <2>1. \A e \in Enlisted(r.ids) : e.id \in r.ids /\ e.domain = Domain /\ e \in Actors
    BY <1>7, SiegeAssumption DEF Enlisted, Actors, Domain, Domains
  <2> QED
    BY <1>2, <2>1 DEF Army
<1>9. \A e \in alive :
        /\ e \in Actors /\ e.id.planet = p
        /\ ~spherical => e.domain = "Planar"
        /\ e.domain = Domain => e.id \in live
        /\ e.outlived = 0 =>
             /\ e.id.action \in Nat \ {0} /\ e.id.wave \in 0..4 /\ e.id.action < n
             /\ e.id.action = a.id => e.id.wave < a.wave \/ (e.id.wave = a.wave /\ a.phase = "WaveActive")
             /\ e.domain = Domain /\ e.id.action = a.id => e.id \in a.ids /\ a.phase = "WaveActive"
  <2> SUFFICES ASSUME NEW e \in alive
               PROVE  /\ e \in Actors /\ e.id.planet = p
                      /\ ~spherical => e.domain = "Planar"
                      /\ e.domain = Domain => e.id \in live
                      /\ e.outlived = 0 =>
                           /\ e.id.action \in Nat \ {0} /\ e.id.wave \in 0..4 /\ e.id.action < n
                           /\ e.id.action = a.id => e.id.wave < a.wave \/ (e.id.wave = a.wave /\ a.phase = "WaveActive")
                           /\ e.domain = Domain /\ e.id.action = a.id => e.id \in a.ids /\ a.phase = "WaveActive"
    OBVIOUS
  <2>1. e \in living /\ e \in Actors
    BY DEF IInv, TypeOK, Actors
  <2>2. e.id \in Enemies /\ e.id.action \in Nat \ {0} /\ e.id.wave \in 0..4
    BY <2>1 DEF Enemies, Actors
  <2>3. /\ e.id.planet = p /\ (~spherical => e.domain = "Planar")
        /\ e.outlived = 0 =>
             /\ e.id.action < n
             /\ e.id.action = a.id => e.id.wave < a.wave \/ (e.id.wave = a.wave /\ a.phase = "WaveActive")
    BY <2>1 DEF IInv, Sighted, Sent
  <2>4. e.domain = Domain => e.id \in live
    BY DEF LiveOf, IdsOf, InDomain
  <2>5. e.outlived = 0 /\ e.domain = Domain /\ e.id.action = a.id => e.id \in a.ids
    BY <2>1, <2>3 DEF IInv, WavesApart, Known
  <2>6. a.ids # {} => a.phase = "WaveActive"
    BY <1>1 DEF Coherent
  <2> QED
    BY <2>1, <2>2, <2>3, <2>4, <2>5, <2>6
<1> HIDE DEF r, alive, live, a
<1>10. TypeOK'
  <2>1. action' \in [Planets -> States] /\ \A q \in Planets : action'[q].id < serial'[q]
    BY <1>1, <1>2, <1>6 DEF IInv, TypeOK
  <2>2. living' \subseteq [id : Enemies, domain : Domains, outlived : 0..MaxFailures]
    BY <1>8, <1>9 DEF Actors
  <2>3. spherical' \in BOOLEAN /\ orbital' \in BOOLEAN /\ current' \in Planets /\ claimed' \in [Planets -> BOOLEAN]
    BY <1>1, <1>3 DEF IInv, TypeOK
  <2> QED
    BY <1>6, <2>1, <2>2, <2>3 DEF TypeOK
<1>11. \A q \in Planets : Coherent(q, action[q])'
  <2> SUFFICES ASSUME NEW q \in Planets PROVE Coherent(q, action'[q])
    BY DEF Coherent, EnemyIds
  <2>1. CASE q = p
    BY <2>1, <1>2 DEF r
  <2>2. CASE q # p
    BY <2>2, <1>2 DEF IInv, TypeOK
  <2> QED
    BY <2>1, <2>2
<1>12. RegisterNeedsClaim'
  <2> SUFFICES ASSUME NEW q \in Planets, action'[q].type = "RegisterAction" PROVE claimed'[q]
    BY DEF RegisterNeedsClaim
  <2>1. CASE q = p
    BY <2>1, <1>2, <1>3 DEF IInv, TypeOK, r
  <2>2. CASE q # p
    BY <2>2, <1>2, <1>3 DEF IInv, TypeOK, RegisterNeedsClaim
  <2> QED
    BY <2>1, <2>2
<1>13. WavesApart'
  <2> SUFFICES ASSUME NEW e \in living', e.outlived = 0, e.domain = Domain', e.id.action = r.id
               PROVE  e.id \in r.ids
    BY <1>3 DEF WavesApart, Known, r
  <2>1. e.domain = Domain
    BY DomainKept
  <2>2. ASSUME e \in alive PROVE e.id \in r.ids
    <3>1. CASE Same(a, r)
      <4>1. e.id \in a.ids /\ a.phase = "WaveActive" /\ e.id \in live
        BY <1>9, <2>1, <2>2, <3>1 DEF Same
      <4> QED
        BY <1>2, <3>1, <4>1 DEF Army
    <3>2. CASE NextOne(a, r, live)
      BY <1>9, <2>1, <2>2, <3>2 DEF NextOne, Beaten
    <3>3. CASE NewOne(a, r, live, n)
      BY <1>1, <1>9, <2>2, <3>3 DEF NewOne
    <3>4. CASE AtEnd(a, r, live, claim)
      BY <1>5, <1>9, <2>2, <3>4 DEF AtEnd
    <3> QED
      BY <1>2, <3>1, <3>2, <3>3, <3>4 DEF Course
  <2> QED
    BY <1>8, <2>2
<1>14. Sighted'
  <2> SUFFICES ASSUME NEW e \in living'
               PROVE  /\ e.id.planet = p
                      /\ ~spherical' => e.domain = "Planar"
                      /\ e.outlived = 0 =>
                           /\ e.id.action < serial'[p]
                           /\ e.id.action = r.id =>
                                e.id.wave < r.wave \/ (e.id.wave = r.wave /\ r.phase = "WaveActive")
    BY <1>3 DEF Sighted, Sent, r
  <2>1. spherical \in BOOLEAN /\ (~spherical' => ~spherical)
    BY <1>3 DEF IInv, TypeOK
  <2>2. CASE e \in alive
    <3>1. /\ e.id.planet = p /\ (~spherical' => e.domain = "Planar")
          /\ e.outlived = 0 => e.id.action < serial'[p]
      BY <1>1, <1>6, <1>9, <2>1, <2>2
    <3>2. ASSUME e.outlived = 0, e.id.action = r.id
          PROVE  e.id.wave < r.wave \/ (e.id.wave = r.wave /\ r.phase = "WaveActive")
      <4>1. CASE Same(a, r)
        BY <1>2, <1>9, <2>2, <3>2, <4>1 DEF Same, Army
      <4>2. CASE NextOne(a, r, live)
        BY <1>1, <1>9, <2>2, <3>2, <4>2 DEF NextOne
      <4>3. CASE NewOne(a, r, live, n)
        BY <1>1, <1>9, <2>2, <3>2, <4>3 DEF NewOne
      <4>4. CASE AtEnd(a, r, live, claim)
        BY <1>5, <1>9, <2>2, <3>2, <4>4 DEF AtEnd
      <4> QED
        BY <1>2, <4>1, <4>2, <4>3, <4>4 DEF Course
    <3> QED
      BY <3>1, <3>2
  <2>3. CASE e.id \in r.ids /\ e.domain = Domain
    BY <1>6, <1>7, <2>1, <2>3 DEF Domain
  <2> QED
    BY <1>8, <2>2, <2>3
<1> QED
  BY <1>10, <1>11, <1>12, <1>13, <1>14 DEF IInv

-----------------------------------------------------------------------------
(* The invariant of the specification.                                     *)

\* With nobody alive the enemies' part of the invariant holds.
LEMMA EmptyWorld ==
  ASSUME living' = {}, action' \in [Planets -> States], serial' \in [Planets -> Nat \ {0}],
         claimed' \in [Planets -> BOOLEAN], current' \in Planets, spherical' \in BOOLEAN, orbital' \in BOOLEAN,
         \A q \in Planets : action'[q].id < serial'[q] /\ Coherent(q, action'[q])
                            /\ (action'[q].type = "RegisterAction" => claimed'[q])
  PROVE  IInv'
<1>1. TypeOK'
  BY DEF TypeOK
<1>2. \A q \in Planets : Coherent(q, action[q])'
  BY DEF Coherent, EnemyIds
<1> QED
  BY <1>1, <1>2 DEF IInv, RegisterNeedsClaim, WavesApart, Known, Sighted

\* The directors of a new game, all at rest.
LEMMA InitIInv == ASSUME Init PROVE IInv
<1>1. \A p \in Planets : action[p] = Idle /\ serial[p] = 1
  BY DEF Init
<1>2. Idle.id = 0 /\ Idle.type = "Patrol" /\ Idle.ids = {}
  BY DEF Idle
<1>3. \A p \in Planets : Coherent(p, action[p])
  BY <1>1, AtRest
<1>4. TypeOK
  <2>1. Idle \in States
    BY AtRest
  <2>2. action \in [Planets -> States]
    BY <2>1 DEF Init
  <2>3. serial \in [Planets -> Nat \ {0}] /\ living = {} /\ current \in Planets /\ claimed \in [Planets -> BOOLEAN]
    BY DEF Init
  <2>4. spherical \in BOOLEAN /\ orbital \in BOOLEAN
    BY DEF Init
  <2> QED
    BY <1>1, <1>2, <2>2, <2>3, <2>4 DEF TypeOK
<1>5. living = {}
  BY DEF Init
<1> QED
  BY <1>1, <1>2, <1>3, <1>4, <1>5 DEF IInv, RegisterNeedsClaim, WavesApart, Known, Sighted

\* The directors that initWorlds makes.
LEMMA NewDirectors ==
  ASSUME InitWorlds
  PROVE  /\ action' \in [Planets -> States] /\ serial' \in [Planets -> Nat \ {0}]
         /\ \A q \in Planets : /\ action'[q].id < serial'[q] /\ Coherent(q, action'[q])
                                /\ action'[q].id = 0 /\ action'[q].type = "Patrol" /\ action'[q].ids = {}
                                /\ serial'[q] = 1
<1>1. \A q \in Planets : action'[q] = Idle /\ serial'[q] = 1
  BY DEF InitWorlds
<1>2. Idle.id = 0 /\ Idle.type = "Patrol" /\ Idle.ids = {}
  BY DEF Idle
<1>3. Idle \in States /\ \A q : Coherent(q, Idle)
  BY AtRest
<1>4. action' \in [Planets -> States] /\ serial' \in [Planets -> Nat \ {0}]
  BY <1>3 DEF InitWorlds
<1> QED
  BY <1>1, <1>2, <1>3, <1>4

\* A load that fails: whoever lives is known to none of the new directors.
LEMMA FailedLoad == ASSUME IInv, LoadGameFails PROVE IInv'
<1>1. \A e \in living' : \E x \in living : /\ e = [x EXCEPT !.outlived = x.outlived + 1]
                                          /\ x \in Actors /\ x.outlived < MaxFailures
  BY DEF LoadGameFails, IInv, TypeOK, Actors
<1>2. ASSUME NEW e \in living'
      PROVE  /\ e \in Actors /\ e.outlived # 0 /\ e.id.planet = current /\ (~spherical => e.domain = "Planar")
  <2>1. PICK x \in living : /\ e = [x EXCEPT !.outlived = x.outlived + 1]
                            /\ x \in Actors /\ x.outlived < MaxFailures
    BY <1>1
  <2>2. x.id.planet = current /\ (~spherical => x.domain = "Planar")
    BY DEF IInv, Sighted
  <2>3. e.id = x.id /\ e.domain = x.domain /\ e.outlived = x.outlived + 1
    BY <2>1 DEF Actors
  <2>4. x.outlived \in 0..MaxFailures /\ x.outlived + 1 \in 1..MaxFailures
    BY <2>1, SiegeAssumption DEF Actors
  <2>5. e \in Actors
    BY <2>1, <2>4, SiegeAssumption DEF Actors
  <2> QED
    BY <2>2, <2>3, <2>4, <2>5
<1>3. UNCHANGED <<spherical, orbital, current, claimed>>
  BY DEF LoadGameFails
<1>4. /\ action' \in [Planets -> States] /\ serial' \in [Planets -> Nat \ {0}]
      /\ \A q \in Planets : /\ action'[q].id < serial'[q] /\ Coherent(q, action'[q])
                             /\ action'[q].type = "Patrol"
  BY NewDirectors DEF LoadGameFails
<1>5. TypeOK'
  BY <1>2, <1>3, <1>4 DEF IInv, TypeOK, Actors
<1>6. \A q \in Planets : Coherent(q, action[q])'
  BY <1>4 DEF Coherent, EnemyIds
<1>7. RegisterNeedsClaim'
  BY <1>4 DEF RegisterNeedsClaim
<1>8. WavesApart'
  BY <1>2 DEF WavesApart, Known
<1>9. Sighted'
  BY <1>2, <1>3 DEF Sighted
<1> QED
  BY <1>5, <1>6, <1>7, <1>8, <1>9 DEF IInv

\* The directors between two frames, for the actions that leave them alone.
LEMMA AtPeace ==
  ASSUME IInv
  PROVE  /\ action \in [Planets -> States] /\ serial \in [Planets -> Nat \ {0}] /\ claimed \in [Planets -> BOOLEAN]
         /\ current \in Planets /\ spherical \in BOOLEAN /\ orbital \in BOOLEAN
         /\ \A q \in Planets : action[q].id < serial[q] /\ Coherent(q, action[q])
                                /\ (action[q].type = "RegisterAction" => claimed[q])
  BY DEF IInv, TypeOK, RegisterNeedsClaim

\* The frame is FrameKeeps; the other steps empty the actor world, but for
\* the load that fails.
LEMMA NextIInv == ASSUME IInv, [Next]_vars PROVE IInv'
<1>1. ASSUME NEW claim \in BOOLEAN, NEW dies \in BOOLEAN, NEW dead \in SUBSET InDomain(living), NEW band \in Bands,
             NEW lapse \in 0..1, Frame(claim, dead, band, lapse, dies)
      PROVE  IInv'
  BY <1>1, FrameKeeps
<1>2. ASSUME TogglePlanar PROVE IInv'
  BY <1>2, AtPeace, EmptyWorld DEF TogglePlanar, ClearEnemies
<1>3. ASSUME ToggleOrbital PROVE IInv'
  BY <1>3, AtPeace, EmptyWorld DEF ToggleOrbital, ClearEnemies
<1>4. ASSUME NEW p \in Planets, SwitchPlanet(p) PROVE IInv'
  BY <1>4, AtPeace, EmptyWorld DEF SwitchPlanet, ClearEnemies
<1>5. ASSUME LoadGame PROVE IInv'
  <2>1. /\ living' = {} /\ claimed' \in [Planets -> BOOLEAN] /\ current' \in Planets
        /\ spherical' \in BOOLEAN /\ orbital' \in BOOLEAN /\ InitWorlds
    BY <1>5 DEF LoadGame, ClearEnemies
  <2>2. /\ action' \in [Planets -> States] /\ serial' \in [Planets -> Nat \ {0}]
        /\ \A q \in Planets : /\ action'[q].id < serial'[q] /\ Coherent(q, action'[q])
                               /\ (action'[q].type = "RegisterAction" => claimed'[q])
    BY <2>1, NewDirectors
  <2> QED
    BY <2>1, <2>2, EmptyWorld
<1>6. ASSUME LoadGameFails PROVE IInv'
  BY <1>6, FailedLoad
<1>7. ASSUME UNCHANGED vars PROVE IInv'
  BY <1>7 DEF vars, IInv, TypeOK, RegisterNeedsClaim, WavesApart, Known, Sighted, Sent, Domain, Coherent, EnemyIds
<1> QED
  BY <1>1, <1>2, <1>3, <1>4, <1>5, <1>6, <1>7 DEF Next

\* The invariant the theorems below rest on.
THEOREM Invariance == Spec => []IInv
<1>1. Init => IInv
  BY InitIInv
<1>2. IInv /\ [Next]_vars => IInv'
  BY NextIInv
<1> QED
  BY <1>1, <1>2, PTL DEF Spec

\* The variables keep their types, and an action's serial is below the next.
THEOREM TypeCorrect == Spec => []TypeOK
<1>1. IInv => TypeOK
  BY DEF IInv
<1> QED
  BY <1>1, Invariance, PTL

\* A register action under way is one against a claim that stands: the claim
\* and the director are brought together once a frame and on the player's
\* planet only, and no other step changes either.
THEOREM ActionsNeedTheirClaim == Spec => []RegisterNeedsClaim
<1>1. IInv => RegisterNeedsClaim
  BY DEF IInv
<1> QED
  BY <1>1, Invariance, PTL

\* The waves of the present directors do not overlap.
THEOREM WavesAreApart == Spec => []WavesApart
<1>1. IInv => WavesApart
  BY DEF IInv
<1> QED
  BY <1>1, Invariance, PTL

\* Between two frames a director is in a state that restoreState accepts.
THEOREM StatesRestore == Spec => []StateRestores
<1>1. ASSUME IInv, NEW p \in Planets PROVE Restorable(action[p], serial[p])
  <2> DEFINE a == action[p]
  <2>1. a \in States /\ Coherent(p, a) /\ serial[p] # 0
    BY <1>1 DEF IInv, TypeOK
  <2>2. a.phase \in Phases /\ a.type \in Types /\ a.band \in Bands /\ a.claimRequired \in BOOLEAN
    BY <2>1 DEF States
  <2>3. a.phase = "Idle" \/ Active(a)
    BY <2>1, <2>2 DEF Coherent, Phases, Terminal, Active
  <2>4. CASE a.phase = "Idle"
    <3>1. a = Idle
      BY <2>1, <2>4 DEF Coherent
    <3>2. Idle.phase = "Idle" /\ Idle.type = "Patrol" /\ Idle.id = 0
      BY DEF Idle
    <3> QED
      BY <2>1, <3>1, <3>2 DEF Restorable
  <2>5. CASE Active(a)
    <3>1. /\ a.claimRequired <=> a.type = "RegisterAction"
          /\ a.waves = TotalWaves(a.claimRequired, a.band)
          /\ a.phase = "WaveActive" => a.ids # {}
          /\ a.phase # "Idle"
      BY <2>1, <2>5 DEF Coherent, Active
    <3>2. a.type = "RegisterAction" => a.waves \in {3, 5}
      BY <3>1, <2>2 DEF TotalWaves
    <3>3. a.type = "Patrol" => a.waves = 1
      BY <3>1, <2>2 DEF TotalWaves
    <3> QED
      BY <2>1, <3>1, <3>2, <3>3 DEF Restorable
  <2> QED
    BY <2>3, <2>4, <2>5
<1>2. IInv => StateRestores
  BY <1>1 DEF StateRestores
<1> QED
  BY <1>2, Invariance, PTL

-----------------------------------------------------------------------------
(* What a step does.                                                       *)

\* A wave is left when its enemies are dead, and only then.
LEMMA FrameBeats ==
  ASSUME NEW claim, NEW dead, NEW band, NEW lapse, NEW dies,
         claim \in BOOLEAN, band \in Bands, lapse \in 0..1, dies \in BOOLEAN, IInv,
         Frame(claim, dead, band, lapse, dies), Left(current), Kept(current)
  PROVE  WaveBeaten(current)
<1> DEFINE p == current
           a == action[p]
           r == action'[p]
           n == serial[p]
           alive == living \ dead
           live == LiveOf(alive)
<1>1. /\ p \in Planets /\ a \in States /\ Coherent(p, a) /\ n \in Nat \ {0} /\ a.id < n /\ a.id \in Nat
      /\ a.wave \in 0..4 /\ a.id # 0
  BY DEF IInv, TypeOK, States, Left
<1>2. /\ r \in States /\ Coherent(p, r)
      /\ Course(a, r, live, claim) /\ Army(a, r, alive, live)
  <2>1. FrameMakes(claim, dead)
    BY FrameSteps
  <2> QED
    BY <2>1 DEF FrameMakes
<1>3. ~Same(a, r)
  BY DEF Left, Same
<1>4. a.claimRequired => claim
  BY <1>1 DEF Kept, Frame, IInv, TypeOK
<1>5. Idle.id = 0
  BY DEF Idle
<1> HIDE DEF a, r, alive, live
<1>6. /\ Beaten(a, live) /\ (r.id # a.id \/ r.wave # a.wave)
      /\ (r.id = a.id /\ r.wave = a.wave + 1) \/ (r.id # a.id /\ a.wave + 1 = a.waves)
  <2>1. Over(a, live) => Beaten(a, live) /\ a.wave + 1 = a.waves
    BY <1>1, <1>5 DEF Over
  <2>2. CASE NextOne(a, r, live)
    BY <1>1, <2>2 DEF NextOne
  <2>3. CASE NewOne(a, r, live, n)
    BY <1>1, <2>1, <2>3 DEF NewOne
  <2>4. CASE AtEnd(a, r, live, claim)
    BY <1>1, <1>4, <1>5, <2>1, <2>4 DEF AtEnd
  <2> QED
    BY <1>2, <1>3, <2>2, <2>3, <2>4 DEF Course
<1>7. \A i \in a.ids : i.action = a.id /\ i.wave = a.wave
  BY <1>1, WaveIds DEF Coherent
<1>8. ASSUME NEW e \in living', e.id \in a.ids, e.domain = Domain PROVE FALSE
  <2>1. CASE e \in alive
    <3>1. e.id \in live
      BY <1>8, <2>1 DEF live, LiveOf, IdsOf, InDomain
    <3> QED
      BY <3>1, <1>6, <1>8 DEF Beaten
  <2>2. CASE e \notin alive
    <3>1. e.id \in r.ids /\ r.ids = EnemyIds(p, r) /\ r.id # 0
      BY <1>2, <1>8, <2>2 DEF Army, Enlisted
    <3>2. e.id.action = r.id /\ e.id.wave = r.wave
      BY <1>1, <1>2, <3>1, WaveIds
    <3> QED
      BY <3>2, <1>6, <1>7, <1>8
  <2> QED
    BY <2>1, <2>2
<1> QED
  BY <1>6, <1>8 DEF Beaten, WaveBeaten, a, r

\* The ids of a wave are new when it is sent.
LEMMA FrameNames ==
  ASSUME NEW claim, NEW dead, NEW band, NEW lapse, NEW dies,
         claim \in BOOLEAN, band \in Bands, lapse \in 0..1, dies \in BOOLEAN, IInv,
         Frame(claim, dead, band, lapse, dies)
  PROVE  \A i \in action'[current].ids \ action[current].ids : \A e \in Known : e.id # i
<1> DEFINE p == current
           a == action[p]
           r == action'[p]
           n == serial[p]
           alive == living \ dead
           live == LiveOf(alive)
<1>1. /\ p \in Planets /\ a \in States /\ Coherent(p, a) /\ n \in Nat \ {0} /\ a.id < n /\ a.id \in Nat
      /\ a.wave \in 0..4
  BY DEF IInv, TypeOK, States
<1>2. /\ r \in States /\ Coherent(p, r)
      /\ Course(a, r, live, claim) /\ Army(a, r, alive, live)
  <2>1. FrameMakes(claim, dead)
    BY FrameSteps
  <2> QED
    BY <2>1 DEF FrameMakes
<1>3. ASSUME NEW e \in Known
      PROVE  /\ e.id.action \in Nat \ {0} /\ e.id.wave \in 0..4 /\ e.id.action < n
             /\ e.id.action = a.id => e.id.wave < a.wave \/ (e.id.wave = a.wave /\ a.phase = "WaveActive")
  <2>1. e \in living /\ e.outlived = 0
    BY DEF Known
  <2>2. e.id \in Enemies
    BY <2>1 DEF IInv, TypeOK
  <2> QED
    BY <2>1, <2>2 DEF IInv, Sighted, Sent, Enemies
<1>4. Idle.id = 0
  BY DEF Idle
<1> SUFFICES ASSUME NEW i \in r.ids, i \notin a.ids, NEW e \in Known, e.id = i PROVE FALSE
  OBVIOUS
<1> HIDE DEF a, r, alive, live
<1>5. r.phase = "WaveActive"
  BY <1>2 DEF Coherent
<1>6. r.ids = EnemyIds(p, r) /\ r.id # 0 /\ (Same(a, r) => a.phase # "WaveActive")
  BY <1>2, <1>5 DEF Army
<1>7. e.id.action = r.id /\ e.id.wave = r.wave
  BY <1>1, <1>2, <1>6, WaveIds
<1>8. CASE Same(a, r)
  BY <1>1, <1>3, <1>6, <1>7, <1>8 DEF Same
<1>9. CASE NextOne(a, r, live)
  BY <1>1, <1>3, <1>7, <1>9 DEF NextOne
<1>10. CASE NewOne(a, r, live, n)
  BY <1>1, <1>3, <1>7, <1>10 DEF NewOne
<1>11. CASE AtEnd(a, r, live, claim)
  BY <1>4, <1>6, <1>11 DEF AtEnd
<1> QED
  BY <1>2, <1>8, <1>9, <1>10, <1>11 DEF Course

\* The steps that are not frames leave the directors, or make new ones.
LEMMA OtherSteps ==
  ASSUME TogglePlanar \/ ToggleOrbital \/ (\E p \in Planets : SwitchPlanet(p)) \/ UNCHANGED vars
  PROVE  action' = action
  BY DEF TogglePlanar, ToggleOrbital, SwitchPlanet, vars

\* What the step of a frame leaves of the directors of the other planets.
LEMMA FrameElsewhere ==
  ASSUME IInv, NEW claim, NEW dead, NEW band, NEW lapse, NEW dies, Frame(claim, dead, band, lapse, dies)
  PROVE  \A q \in Planets \ {current} : action'[q] = action[q]
  BY DEF Frame, UpdateEmpire, IInv, TypeOK

\* Every wave of an action that is neither failed nor dropped is beaten before
\* the next one, or the reward, comes.
THEOREM WavesAreBeaten == Spec => WavesBeaten
<1>1. ASSUME IInv, Next, NEW p \in Planets PROVE Left(p) /\ Kept(p) => WaveBeaten(p)
  <2>1. ASSUME NEW claim \in BOOLEAN, NEW dies \in BOOLEAN, NEW dead \in SUBSET InDomain(living), NEW band \in Bands,
               NEW lapse \in 0..1, Frame(claim, dead, band, lapse, dies)
        PROVE  Left(p) /\ Kept(p) => WaveBeaten(p)
    <3>1. CASE p = current
      BY <1>1, <2>1, <3>1, FrameBeats
    <3>2. CASE p # current
      BY <1>1, <2>1, <3>2, FrameElsewhere DEF Left
    <3> QED
      BY <3>1, <3>2
  <2>2. ASSUME TogglePlanar \/ ToggleOrbital \/ (\E q \in Planets : SwitchPlanet(q)) PROVE Left(p) /\ Kept(p) => WaveBeaten(p)
    BY <2>2, OtherSteps DEF Left
  <2>3. ASSUME LoadGame \/ LoadGameFails PROVE Left(p) /\ Kept(p) => WaveBeaten(p)
    <3>1. serial'[p] = 1 /\ serial[p] \in Nat \ {0} /\ action[p].id < serial[p] /\ action[p].id \in Nat
      BY <1>1, <2>3 DEF LoadGame, LoadGameFails, InitWorlds, IInv, TypeOK, States
    <3> QED
      BY <3>1 DEF Left, Kept
  <2> QED
    BY <1>1, <2>1, <2>2, <2>3 DEF Next
<1>2. IInv /\ [Next]_vars => [\A p \in Planets : Left(p) /\ Kept(p) => WaveBeaten(p)]_vars
  BY <1>1
<1> QED
  BY <1>2, Invariance, PTL DEF Spec, WavesBeaten

\* No enemy is sent under a stable id that another enemy of the present
\* directors has.
THEOREM NamesAreFresh == Spec => NamesFresh
<1>1. ASSUME IInv, Next, NEW p \in Planets
      PROVE  \A i \in action'[p].ids \ action[p].ids : \A e \in Known : e.id # i
  <2>1. ASSUME NEW claim \in BOOLEAN, NEW dies \in BOOLEAN, NEW dead \in SUBSET InDomain(living), NEW band \in Bands,
               NEW lapse \in 0..1, Frame(claim, dead, band, lapse, dies)
        PROVE  \A i \in action'[p].ids \ action[p].ids : \A e \in Known : e.id # i
    <3>1. CASE p = current
      BY <1>1, <2>1, <3>1, FrameNames
    <3>2. CASE p # current
      BY <1>1, <2>1, <3>2, FrameElsewhere
    <3> QED
      BY <3>1, <3>2
  <2>2. ASSUME TogglePlanar \/ ToggleOrbital \/ (\E q \in Planets : SwitchPlanet(q))
        PROVE  action'[p].ids \ action[p].ids = {}
    BY <2>2, OtherSteps
  <2>3. ASSUME LoadGame \/ LoadGameFails PROVE action'[p].ids = {}
    BY <1>1, <2>3, NewDirectors DEF LoadGame, LoadGameFails
  <2> QED
    BY <1>1, <2>1, <2>2, <2>3 DEF Next
<1>2. IInv /\ [Next]_vars =>
        [\A p \in Planets : \A i \in action'[p].ids \ action[p].ids : \A e \in Known : e.id # i]_vars
  BY <1>1
<1> QED
  BY <1>2, Invariance, PTL DEF Spec, NamesFresh

=============================================================================
