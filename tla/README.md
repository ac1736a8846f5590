# A verification development of ELYSIUM

This directory holds TLA+ models of the parts of the game that are hard to
test: its save files, its streamed world, its thread pool, the doors and
airlocks of its bases, the waves of its sieges, and the leases of its work
system. TLC checks the models on small instances; TLAPS proves
the most important properties for every value of the constants. The reference is
the C++ under `src/`; where this text gives a path without a directory it is
below `src/src/`.

Contents

1. The system
2. Components, their state, and what makes them correct
3. Which module models what
4. The runs
5. Bounds
6. Fairness
7. The proofs
8. Where the code departs from what it says
9. What is not modelled
10. Plan

## 1. The system

ELYSIUM is a single-player game in C++20. `main.cpp` builds one `Game`
(`game/Game.cpp`), whose `run` is the frame loop: read input, update the
simulation with a time step clamped to 50 ms, draw. One thread, called the
**owner thread** below, runs all of that. The only other threads are the
workers of one `JobSystem`, which build chunk packets and meshes and help with
data-parallel loops.

```
                       Game::run  (owner thread, one frame after the other)
        ________________________|_______________________________________
       |               |                |                |              |
  saveGame/loadGame  EcsWorld    SurfaceInfrastructure  PlanetSurface  PlanetSurfaceRenderer
       |             (actors)    machines, portals,     voxels, edit    meshes, targets
       |               |         airlocks, rules        journal,           |
  SurfaceChunk-        |                |               revisions       SurfaceChunkCache
  Persistence          |                |_______ voxels ___|____________ packets, futures
  manifest, one        |                                   |               |
  file per chunk       |__ SurfaceWorldReadService reads __|_______________|
                       |                                                   |
                       |_______________ parallelFor _______ JobSystem _____| submit
                                                         worker threads
```

Of the 3 200 files of the repository about a hundred carry logic of their own.
Most of the others are small stores with the same four operations (apply, erase,
find, snapshot) and no callers; they are listed in section 9 by group.

Interactions that matter:

* **Edits.** `PlanetSurface::setBlock` changes a voxel, appends to the chunk's
  journal, raises the planet's revision and stamps the chunks around the cell
  with it. Everything derived from voxels (packets, meshes, routes) is keyed by
  those stamps; nothing is notified.
* **Jobs.** The cache and the renderer submit closures that own a snapshot of
  what they read, and poll the futures once per frame. Nothing is cancelled in
  the pool: an unwanted future is dropped and its job runs to its end.
* **Reads.** Collision, mining and enemy paths ask `SurfaceWorldReadService`,
  which takes the packet of a chunk if the cache holds one of the present
  revision, and the planet itself otherwise.
* **Frames of the base.** `SurfaceInfrastructure::update` settles power and
  moves the airlocks at the beginning of a frame, the player acts, and
  `updateDefense` and the automation rules end it. Doors author voxels.
* **Sieges.** `Game::updateEmpire` gives the director of the player's planet the
  ids of the enemies that live in the player's domain, pays out what has ended,
  and spawns what the director asks for. The director is never told of a death.
* **Saves.** `Game::saveGame` writes a file per touched chunk and then the
  manifest; `loadGame` rebuilds every planet and reads the files back. Neither
  runs concurrently with anything, but the process can die between any two file
  operations, and a load can give up half-way.

## 2. Components, their state, and what makes them correct

### Campaign save (`world/SurfaceChunkPersistence`, `Game::saveGame`, `Game::loadGame`)

*State.* On disk: the manifest and one sidecar per touched chunk, each with its
`.prev`, header line, length, checksum and generation. In memory: the journals
and machines, `saveGeneration_`.
*Operations.* Publish a file (write `.tmp`, rotate the current file to `.prev`,
rename), prune sidecars no manifest refers to, read a file with fallback to
`.prev`, load, launch, save at F5 and at exit.
*Hard.* A crash or an I/O error between any two of these; a retry with the
same generation number; the cleanup racing the retained previous manifest; a
load that fails after it has replaced the planets.
*Correct when* a start of the game always finds exactly the campaign of the last
committed save, never a mixture; the retained manifest keeps what it refers to;
generations grow; a damaged file costs one generation at most.

### Surface streaming (`world/SurfaceChunkCache`, `render/PlanetSurfaceRenderer`, `world/SurfaceWorldRead`, the revisions of `world/PlanetSurface`)

*State.* Per chunk: a revision, a cache entry (packet or future, token, wanted
flag, last use), a mesh and a pending mesh; the focus and its detail targets.
*Operations.* Edit, move, switch planet, load, one `sync` per frame (targets,
requests, completions, eviction, meshing), and the jobs that finish whenever.
*Hard.* Results that arrive after the chunk was edited, evicted, cancelled or
replaced; budgets that refuse a request somebody waits for; edits at chunk
borders; equal revision numbers of different planets.
*Correct when* a read through a packet agrees with the planet; a mesh that
counts as up to date shows the planet; the bound on pending builds is kept; and
when the player stands still everything is eventually shown.

### Thread pool (`core/JobSystem`)

*State.* A queue, `stopping_`, `active_`, a mutex, two condition variables,
futures; per `parallelFor` call a shared counter of partitions.
*Operations.* submit, parallelFor, drain, shutdown, and the workers' loop.
*Hard.* Every interleaving of the above; jobs that call `parallelFor`; an
exception in one of the threads of a call; shutdown against a worker about to
sleep.
*Correct when* `parallelFor` computes each index exactly once and leaves nobody
behind with references into its frame; every call returns; every future is
resolved; shutdown returns.

### Portals, airlocks and rules (`world/SurfaceInfrastructure`, their use in `Game`)

*State.* Portals, machines, airlock assemblies and automation rules by stable
id; the doors' voxels; the inventory; the serial of the next id.
*Operations.* Place, mine, toggle, pair, cycle, add rules, update, defend, save,
load.
*Hard.* Any order of the player's actions, rules, brownouts and loads; objects
that refer to others by id while those are removed; ids that start again.
*Correct when* no airlock is open on both sides or against the gas in its
chamber; no assembly loses a part; voxels and portals agree on what is sealed;
what was saved can be loaded; a requested cycle ends.

### Register actions (`world/SurfaceSiege`, `Game::updateEmpire`, the enemies of `ecs/EcsWorld`)

*State.* A director per planet: the action, its phase, wave, countdown and the
ids it waits for; the next serial. The claims, the enemies with their domain, the
player's planet and view.
*Operations.* The frame (deaths, reconciliation, rewards, dispatch, update,
spawn), the change of view, travel, the player's death, the claim filed or
struck, load.
*Hard.* The director knows the living by comparison only, and whom it is compared
with changes with the view, the planet and the domain; a claim may end in any
frame; serials restart with a load, whether or not it reaches the line that
clears the enemies.
*Correct when* waves follow one another and none ends while its enemies fight on;
a register action stands on a claim; the ids of the living are not reused; every
action that is fought ends; between frames a director is never in a state that
its own checks would refuse.

### Autonomous work (`fortress/AutonomousWork`)

*State.* Jobs with their claim (worker, lease) and progress, the reservation
ledger of resources, the workers' snapshots, the work orders.
*Operations.* Create, cancel, release, synchronize a source's jobs, register and
remove workers, assign, expire leases, invalidate a reservation, execute,
evaluate orders.
*Hard.* A lease lapses, a worker leaves, a source withdraws or rewrites a job, a
resource disappears, each between any two executions; the claim is written down
twice, in the job and in the ledger.
*Correct when* the two always agree, a running lease is not taken away, no work is
lost, and once nobody interferes whatever can be done is done.

### The rest

Power, infrastructure journal, navigation, industry, the actors' phases, the
priority scheduler, the atomic save generation and the strategic simulation have
protocols of their own that are not modelled (section 9). What is left is
arithmetic, tables and presentation.

## 3. Which module models what

| Module | Models | Extends |
| --- | --- | --- |
| `CampaignStore` | the promise of the save: one durable campaign, replaced as a whole | |
| `SurfaceSave` | the file protocol, crash by crash | |
| `SurfaceSaveProofs` | its theorems, the refinement included | `SurfaceSave`, `TLAPS` |
| `SurfaceStreaming` | revisions, cache, renderer, reads, the jobs in flight | |
| `SurfaceStreamingProofs` | its theorems | `SurfaceStreaming`, `TLAPS` |
| `JobSystem` | the pool, the lock and the condition variables | |
| `JobSystemProofs` | its theorems about calls of `parallelFor` | `JobSystem`, `TLAPS` |
| `JobQueueProofs` | its theorems about jobs, wake-ups and the shutdown | `JobSystemProofs` |
| `AirlockChambers` | the promise of the airlocks: chambers that change sides through being shut | |
| `SurfacePortals` | portals, airlocks, rules, stable ids, frames, save and load | |
| `SurfacePortalsProofs` | its theorems, the refinement included | `SurfacePortals`, `TLAPS` |
| `RegisterAction` | the directors, the enemies, the frame, keys, travel, death, load | |
| `RegisterActionProofs` | its theorems | `RegisterAction`, `TLAPS` |
| `ResourceClaims` | the promise of the leases: claims given back, granted and run out | |
| `AutonomousWork` | jobs, sources, workers, leases, the ledger, work orders | |
| `AutonomousWorkProofs` | its theorems, the refinement included | `AutonomousWork`, `FiniteSums`, `TLAPS` |
| `FiniteSums` | lemmas on sums over finite sets and on finite sets of numbers | `TLAPS` and the library's theorems |
| `MC...` | the constants of the runs, and nothing else | the module it names |

### SurfaceSave

One action is one call of the file system. `pc` says where `saveGame` or
`loadGame` stands, "down" that no process runs. `cur` and `prev` map each
destination (the chunks, and `Manifest`) to the published file and its `.prev`.

| Code | Action |
| --- | --- |
| `Game` constructor, `loadGame` | `Launch`, `Reload` (F9), both through `LoadGame` |
| an edit by the player | `Edit` |
| `saveGame` up to its first write | `StartSave` |
| `writeAtomicGenerationImpl`: write, drop `.prev`, rotate, rename | `WriteTemp`, `DropPrevious`, `RotateCurrent`, `ReplaceCurrent`, `PublishFile` |
| what follows a published chunk, the manifest | `PublishChunk`, `PublishManifest` |
| a failing call and the code's rollback | `StepFails`, `PublishFails` |
| `SurfaceChunkStore::pruneExcept` | `PruneFile`, `PruneEnds` |
| the process dies | `Crash` |
| a file is damaged at rest (only in the runs about damage) | `Damage` |

A chunk's content is one value; a chunk with nothing to save is `Base`. A `.tmp`
file that a crash leaves behind is no state: nothing reads it and the next
writer truncates it. Renames take effect in the order they are made: the
reordering that a power loss may cause without an fsync of the directory is
not modelled (it is listed as a hazard).

### SurfaceStreaming

The `sync` of a frame is cut where a finished job makes a difference:
`BeginSync` (focus, targets, requests), one `Request` per chunk, `EndResidency`
(completions, eviction, prefetch), `MeshSync`, `FinishSync`. `PacketBuilt` and
`MeshBuilt` are the workers. `Edit`, `SwitchPlanet`,
`LoadGame` and, in one run, `LoadGameFails` are the game. A packet or a mesh is
what it shows: a function from the cells of the chunk and its halo to blocks.

Kept from the code: the replacement of a pending request after an edit, the
dropping of futures of unwanted chunks, which requests the frontier refuses and
which pass it, the order of requests by distance, hysteresis of the focus, the
budget of prefetches per sync. Abstracted: the byte budget of the cache is a
number of chunks, and the victim of an eviction is any unwanted packet (the code
takes the least recently used, and nothing depends on which). An entry's token
is left out because it changes only together with the future it guards;
`priority` because it only feeds statistics. Left out: `setFullDetail` (tests
call it), the orbital shell's own meshes, the serial mode without workers. A
load brings back a planet with at most two edits. A job whose future was
dropped is no state: nobody reads its result.

### JobSystem

Threads have a program counter; a step is what happens between two points where
another thread can be observed. A wait on a condition variable is two steps:
the predicate is tested with the lock held, and then the thread goes to sleep;
a notification between the two is lost unless the notifier needs the lock.
Spurious wake-ups are in `SpuriousSpec`, under which safety is checked.
`parallelForPartitions` is `Call`, `SubmitHelper`, `Take`, `Computes` or
`Throws`, `Get`, `Returns`; the worker loop is `Look`, `Blocks`, `Begin`, `Run`,
`End`; the owner's `drain` and `shutdown` are `Drain`, `DrainBlocks`, `Shutdown`,
`ClearQueue`, `WakeAll`, `Join`. `End` joins the decrement of `active_` and the
notification, between which nobody can tell. `submit` on a stopping pool throws;
with one owner, who is in `shutdown` then, no thread can reach that. A helper
that runs on after its caller unwound reads a dead frame: it finds the frame as
it was, which is one of the outcomes the build can produce. The pool without
workers and its serial path are the `Serial` branch only.

### SurfacePortals

A frame is `Update`, any number of the player's actions, and `Defend` or `Menu`.
The operators that the update and the load share take the world they work on,
`World` or `saved`. `UpdateAirlocks` is the whole of `updateAirlocks`, the doors
it closes and opens included; `Pair`, `Cycle`, `TogglePortal`, `MinePortal`,
`PlacePortal`, `PlaceMachine`, `PlaceBlock`, `MineBlock` and `AddRules` are the
`try...` functions of `Game` with the calls they make.

Abstracted: the power a frame hands out is any set of enabled machines (among
those the constant `Supply` allows, all of them in `portal_airlock`), so that
every brownout is covered; distances (6 m to pair, 2.6 m to interact, a sensor's
range) are a free choice among all candidates; crafting is a larger initial
inventory; machines have no cell; the gas of a chamber is counted in units; one
planet stands for three, the frames spent elsewhere being stutters. Stable ids
are the serials that `mix64` permutes. A load that gives up is the subject of
`SurfaceSave` and `SurfaceStreaming`, not of this module.

### RegisterAction

One action is one frame (`Frame`) or one key. `UpdateEmpire` is
`Game::updateEmpire` in the code's order: `Settled` (reconcile, then pay out or
drop a terminal action), `Dispatched`, `Updated`, and the spawn requests, which
the registry carries out within the frame. The director's operations are
functions on its state, each named after its method. The keys are
`TogglePlanar` (P), `ToggleOrbital` (O), `SwitchPlanet` (the travel menu) and
F9, which is `LoadGame` or `LoadGameFails`; a death in the planar patch is the
last argument of `Frame`. `loadGame` makes new directors (`InitWorlds`) long
before it has read the rest of the file, and clears the enemies in its last
line: when it returns false in between, the game goes on with its claims, its
view and its enemies, and with directors whose serials begin at 1. An enemy is
a stable id and a domain, as in the code, and `outlived`, a history variable
that no action reads but to bound itself: how many such loads it has lived
through. Without it an old enemy and a new one of the same id would be one
member of the set `living`. `Known` are the enemies of the present directors.

Abstracted: an action's id is its serial, an enemy's stable id the four numbers
it hashes; the dispatch roll is any choice of a band; time passes in units, and
the announcement and the pause are longer than a frame; who dies in a frame is
any set of the domain's enemies. An id also hashes the role, so that of two
enemies with the same four numbers only those of one role share it: in the model
more of them do. A load that fails brings back the same galaxy seed, as that of
the game's own save is. Left out: roles, positions, rewards (the
property says when one is due), messages, and `notifyEnemyDestroyed`,
`serializeState` and `restoreState`, which tests alone call: the game never
saves a director. `StateRestores` takes the checks of `restoreState` for what
they say of a director between two frames.

### AutonomousWork

One action is one call of `AutonomousWorkSystem`: `CreateJob`, `Cancel`,
`Release`, `Synchronize`, `UpsertWorker`, `RemoveWorker`, `Assign`,
`ExpireLeases`, `Invalidate`, `Execute` and `ExecuteFails`, `EvaluateWorkOrders`
(with `instantiateTriggeredOrders`, which the caller must call with its result),
`SignalWorkOrderEvent`; `Tick` is the caller's clock. `Assign` is the whole call:
it expires the leases, looks at the open jobs whose dependencies are done, makes
any set of compatible pairs, and blocks the rest.

Abstracted: a lease is the time left of it; eligibility and score decide which of
the compatible pairs are made, so that any set of them is possible; a job is
characterised by what it needs, what it waits for and how long it takes. Left
out: the registration of orders and their dependency graph, diagnostics, events,
work details and policies, an executor that calls back into the system, negative
progress. No part of the game calls this system yet, except
`ecs/FortressWorkEcs.hpp`, and no test does; the model is of its contract.

## 4. The runs

Runs that pass. Between them they take every action of every module.

| Run | Question | Answer |
| --- | --- | --- |
| `save_safety` | crashes and I/O errors between any two file operations of up to three saves | a start finds exactly the last committed campaign (`Recoverable`), the retained manifest keeps its chunks (`PreviousRecoverable`), generations never go back (`GenerationGrows`), and the files are one durable campaign that the rename of the manifest replaces (`ImplementsCampaignStore`) |
| `save_torn_manifest` | one manifest with a wrong length or checksum | the game falls back one generation at most (`OneGenerationLost`) |
| `stream_surface` | three chunks of a corner, a focus that moves between two directions, an edit, loads, orbital frames; then the player stands still | reads agree with the planet (`ReadsAuthoritative`), up-to-date meshes show it in their chunk and across its edges (`ReadyShowsPlanet`), no more builds are awaited than the bound (`FrontierHolds`), and every chunk gets its mesh for good (`Settles`), although one build and one packet fit at a time |
| `pool_safety` | two workers, three jobs, five indices in partitions of two, both shutdowns, spurious wake-ups | no helper outlives its call (`Synchronous`), each index is computed once (`EachIndexOnce`), and while a worker sleeps every queued job has a thread on its way to it (`NoLostWakeup`) |
| `pool_progress` | jobs that call `parallelFor` on the pool they occupy, an `fn` that throws, shutdown with and without the queue | a job that is not settled is run by somebody or is in the queue of a pool that has a worker (`NoJobLost`), every call ends (`CallsReturn`), every future is resolved (`FuturesResolve`) |
| `portal_airlock` | one assembly, its parts placed, paired, mined, toggled and walled up in any order, with brownouts | `ChamberSafe`, `NeverFaults`, `SealsShow`; a cycle ends if power comes back again and again (`CyclesComplete`) |
| `portal_saves` | the same doors under rules that close them, saves at any frame, a load after which ids count from 1 | a save can be loaded (`SavedLoads`), and the airlocks are chambers that change sides only through being shut, from a saved game too (`ImplementsChambers`) |
| `siege_waves` | two planets, patrols and register actions of up to five waves, deaths, travel, both views, claims filed and struck, loads, one of which may fail half-way | waves end when they are beaten (`WavesBeaten`) and do not overlap (`WavesApart`), register actions stand on a claim (`RegisterNeedsClaim`), ids are fresh (`NamesFresh`), both but for enemies that outlived a failed load, directors are coherent between frames (`StateRestores`), an action that is fought ends (`ActionsEnd`) |
| `work_leases` | two workers, two resources, jobs that share and wait, a source that publishes and withdraws, an order that maintains a stock, leases that lapse | jobs and ledger agree (`ClaimsAgree`, `ClaimantsPresent`), no running lease is taken (`LeasesRespected`), no work is lost (`WorkKept`), jobs, ledger and workers together are a book of claims (`ImplementsClaims`), open work drains (`WorkDrains`), a stock is replenished for good (`Replenishes`) |

Three runs end in a violation; section 8 says of what.

Every property of a passing run has a mutant: the operator above a definition,
named after it (`LoadStale` above `Load`), is what the code would be with a
plausible mistake in it, and with it in place TLC finds the property violated.

Deadlock is checked for the saves, the streaming and the sieges, which never
stop. A pool that has been shut down stops, a base without kits, closed by its
bounds on ids and loads, may, and so may a work system that nobody calls; their
runs say `CHECK_DEADLOCK FALSE`.

## 5. Bounds

Every bound is a constant named in its module; no guard hides another.

* **Save.** Two chunks and two values: a mixture needs two chunks, a stale file
  two values. `MaxGeneration` 3 gives three saves in a row, as long as the
  protocol's longest chain (current, `.prev`, and the one being written). With
  damage there are two generations and one fault (`MaxFaults`), of the manifest
  in one run and of a chunk in the other. Chunks and values are symmetric.
* **Streaming.** Three of the four chunks at a corner: the second lies beside the
  first and the third, which are across the corner from each other. A chunk is
  one cell, which is in the halo of the other two: a border cell is what an edit
  is about. The two directions differ in which of the second and the third chunk
  is at full detail, the other one being near; the first is far from both. The
  third one's cell is edited (`Editable`): that is an edit of a chunk of its own, one
  across an edge for the second, one across the corner for the first. Three
  blocks, of which an edit places one (`Placed`) and a load may bring back any, so
  that an edited and a loaded planet may differ at the same revision.
  All budgets are 1, the smallest value, at which every refusal, cancellation and
  eviction happens. `MaxRevision` 2 allows one edit, after which a load may bring
  back any state of the planet. The run about a failed load has two chunks side by
  side, both edited, and needs `MaxRevision` 3. More chunks and cells, and several
  planets, are the theorems' part.
* **Pool.** Two workers, so that a helper can run beside another caller. Five
  indices in partitions of two make a short last partition; with three indices
  there are two partitions, one of which throws. `MaxJobs` 3 counts helpers too.
* **Portals.** Two cells; in `portal_airlock` the kits of one whole assembly and
  a block, with gas of five units, so that a chamber needs two frames or more
  to fill or to empty, and any machines dark (`Supply`); in `portal_saves` a base
  of four machines with two airlocks to place, gas of one unit, and in each frame
  power for all, for none, or for all but one of the two controllers, one save
  after the other and one load. `MaxKits` bounds the kits that mining
  returns: with 0 no portal is mined in `portal_saves`. `MaxId`
  bounds the ids and is large enough for all objects of a run. Cells are
  symmetric in `portal_saves`.
* **Sieges.** Two planets, since an action goes on when the player has left its
  planet. `MaxActions` 2, those of enemies from before a failed load included: one
  action after the other on one planet, one on each, or one before and one after
  a failed load. `MaxFailures` 1 and `MaxSurvivors` 1: one enemy outlives one such
  load, which is enough for its id to be given again. `MaxSquad` 2: with two enemies
  one can die while the other fights. The waves of an action are not bounded, they are one, three or
  five. Announcement and pause take one frame more than the spawn.
* **Work.** Two resources and two workers, a job that needs one resource and a
  job that needs both and waits for job 1; two job ids (`MaxJobs`), so that the
  two compete, share and depend on each other. A lease of one unit lapses
  between two calls; a job of two units keeps half of its work. `MaxStock` 1 is
  on both sides of what the order maintains.

The theorems of section 7 do not depend on any of these.

## 6. Fairness

* **Streaming** (`Settles`): the owner thread goes on with a sync it has begun
  and begins one each frame, which is what `run` does; each worker's job ends,
  which a mesher without blocking calls does. Nothing obliges the player: the
  property speaks of executions in which he stops moving and editing.
* **Pool** (`CallsReturn`, `FuturesResolve`, `ShutdownReturns`): weak fairness of
  each thread's own steps. The mutex is held for a step at a time in the model,
  so weak fairness suffices. The owner is not obliged to submit or to shut down.
  Spurious wake-ups, which the standard allows and does not promise, are not in
  the specification with fairness: liveness must not depend on them.
* **Portals** (`CyclesComplete`): frames go on. The player and the grid are free;
  the property assumes of the grid that the controller has power again and
  again, which is its premise.
* **Work** (`WorkDrains`, `Replenishes`): time passes; the caller assigns again and
  again (weak fairness of `FullAssign`, an assignment in which every worker is
  fit), executes claimed jobs now and then within their leases (strong fairness,
  since a lease may lapse before), and evaluates the orders. This is what the
  interface asks of its caller. `WorkDrains` speaks of executions in which nobody
  cancels, withdraws or takes away any more (`Calm`).
* **Sieges**: none. The player may leave, or keep a menu open, for ever;
  `ActionsEnd` has as its premise that he fights on the action's planet again and
  again.
* The saves state no fairness: a crash may come at any time.

## 7. The proofs

`tlapm` checks eight modules to the last leaf. The theorems hold for every value
of the constants that satisfies the assumptions of the module, which are the
`ASSUME`s next to the constants (sorts are disjoint, bounds are numbers, and what
is named below); nothing else is assumed.

**`SurfaceSaveProofs`**: any number of chunks, any contents, any length of run.

| Theorem | Says |
| --- | --- |
| `TypeCorrect` | `FaultySpec => []TypeOK`, damaged files included |
| `Invariance` | `Spec => []IInv` |
| `CrashRecovery` | `Spec => []Recoverable` |
| `PreviousRecovery` | `Spec => []PreviousRecoverable` |
| `GenerationsGrow` | `Spec => GenerationGrows` |
| `SaveImplementsCampaignStore` | `Spec => ImplementsCampaignStore`: every step of the file protocol is a step of `CampaignStore` or a stutter |
| `OneLost` | `FaultySpec => []OneGenerationLost`, for at most one torn manifest |

`Recoverable` is not inductive: that a start finds the committed chunks says
nothing of what the next call of the file system removes. `IInv` adds where each
committed chunk is (in place, or in `.prev` behind a file of the generation that
is not committed yet), which generation memory believes in, and what the running
save has published so far. The step that needs all of it is `RotateCurrent`: it
may discard the `.prev` of a chunk only because the file in place is not of the
generation that is being written, hence the committed one. `saveGame`'s rule of
not rotating a file of the same generation is exactly this conjunct.

`OneLost` is about a disk on which files are damaged at rest, where `IInv` does
not hold. Its hypotheses are on the constants and are those of its run: only the
manifest is damaged, at most once, and the damage is one its header line
betrays (a wrong length or checksum). Its invariant, `TornInv`, is `IInv` until
the damage, and from then on `AfterDamage`: either the last commit is whole where
it was published, or its manifest is torn, no save has begun since, and the
previous manifest still finds all its chunks; and a save under way has published
what it no longer lists, whatever generation it started from. That is enough for
the next commit to be whole again. Neither
hypothesis can be dropped: a second damage may hit the manifest behind the first,
a chunk file has nothing behind it that the manifest accepts, and a manifest that
lost its header line passes for a legacy file (section 8).

**`SurfaceStreamingProofs`**: any chunks, halos, budgets and number of planets.

| Theorem | Says |
| --- | --- |
| `TypeCorrect` | `FailingSpec => []TypeOK`, failed loads included |
| `Invariance` | `Spec => []IInv` |
| `ReadsAgree` | `Spec => []ReadsAuthoritative` |
| `MeshesAgree` | `Spec => []ReadyShowsPlanet` |
| `FrontierBounded` | `FailingSpec => []FrontierHolds` |

`IInv` says of every packet and mesh, finished or not, that it shows the present
blocks if it carries the chunk's present revision, and that no revision is ahead
of the planet's. Jobs in flight have to be in it, since they become packets
later. `ReadyShowsPlanet` is about the cells of a chunk and those of its halo
across its edges (`AcrossEdges`), and holds for any layout. It does not speak of a cell
across a corner of four chunks, because there the code does not keep it (section
8): of the whole halo it is false, and TLC finds that in the layout of
`stream_surface` after one edit.

**`SurfacePortalsProofs`**: any base, inventory, gas scale, pumps and grid.

| Theorem | Says |
| --- | --- |
| `TypeCorrect` | `Spec => []TypeOK` |
| `Invariance` | `Spec => []IInv` |
| `AirlocksAreSafe` | `Spec => []ChamberSafe` |
| `AirlocksNeverFault` | `Spec => []NeverFaults` |
| `PanelsAgree` | `Spec => []SealsShow` |
| `SavesLoad` | `Spec => []SavedLoads` |
| `PortalsImplementChambers` | `Spec => ImplementsChambers`: every step is a step of `AirlockChambers` or a stutter |

`IInv` asks the same of the world and of the saved one, `Sound`: ids are used
once, cells have one portal, panels show closed portals, assemblies have their
parts and share none, an open door is the one its assembly's state is named
after and the gas is right for that state, rules have a logic controller. What
it does not ask of the saved world is that the controller of an open door has
power (`Lit`): a save does not keep power, so the conjunct holds of the present
world only because `loadGame` calls `update(surface, 0)`, which closes the doors
that have none.

`AirlockChambers` knows neither doors nor power: a chamber is absent, shut, or
open to one side, its air is empty, full or something between, and a saved game
holds what all of them were. The mapping reads the side off the two doors and
the air off pressure and oxygen (`Side`, `Air`, `ChamberOf`), of the present base
and of the saved one. In a step each chamber waits, is paired, pumps while it is
shut, opens on the gas for the side, or shuts; a load does the same to the
chambers of the saved game, since the frame of zero length that ends it may shut
a door that has lost its power. The proof takes from `IInv` that assemblies share
no door, so that a door that moves belongs to one chamber, and that the doors of a
chamber that pumps are closed. `SavedAssumption` says that a world is not the
value that stands for no saved game.

**`JobSystemProofs`**: any number of workers and jobs, any count and grain, with
spurious wake-ups, for an `fn` that does not throw.

| Theorem | Says |
| --- | --- |
| `TypeCorrect` | `SpuriousSpec => []TypeOK`; `active_` never exceeds the workers |
| `Invariance` | `SpuriousSpec => []IInv` |
| `CallsAreSynchronous` | `SpuriousSpec => []Synchronous` |
| `IndicesAreComputed` | `SpuriousSpec => []EachIndexOnce` |
| `FairPool` | the three for `Spec` |

`Throwing = {}` is the hypothesis of each: with an `fn` that throws, helpers do
outlive their call (section 8). `IInv` follows a job from the queue to its end.
The queue is ordered and later than every job a worker holds, hence no job is
held twice; a helper that is not finished belongs to the open call of the owner,
whose list of futures has it, hence a call whose list is empty has no helper
left; and of a call's partitions those below its counter are computed, or being
computed by exactly one thread, and the others are neither. That every index
lies in exactly one partition is arithmetic about `PartitionCount`, the lemma
`OnePartition`.

**`JobQueueProofs`**: the same pool, whatever `fn` throws and wherever, with
spurious wake-ups. None of these has a hypothesis.

| Theorem | Says |
| --- | --- |
| `ThrowingTypeCorrect` | `SpuriousSpec => []TypeOK` |
| `QueueInvariance` | `SpuriousSpec => []QueueInv` |
| `WakeupsAreKept` | `SpuriousSpec => []NoLostWakeup` |
| `JobsAreKept` | `SpuriousSpec => []NoJobLost` |
| `ShutdownSettlesAll` | `SpuriousSpec => []ShutdownSettles`: once `shutdown` has joined the workers no future is pending |
| `FairQueue` | the four for `Spec` |

`NoLostWakeup` counts: as long as a worker sleeps, the queue is no longer than the
workers that are about to look and the threads that are about to notify, taken
together. One that looks takes a job or finds the queue empty, one that notifies
makes a sleeper look, or finds none; a worker falls asleep only from `block`,
with the lock held since it found the queue empty (`LockHeld`), and a push needs
the lock. It does not speak of `stopping_`, which is set without the lock: that
wake-up is lost (section 8).
`NoJobLost` needs `ExitsLast`, that a worker leaves only a stopping pool with an
empty queue, and that nothing is pushed on a stopping pool.

**`RegisterActionProofs`**: any planets, squads, times and number of actions.

| Theorem | Says |
| --- | --- |
| `TypeCorrect` | `Spec => []TypeOK` |
| `Invariance` | `Spec => []IInv` |
| `ActionsNeedTheirClaim` | `Spec => []RegisterNeedsClaim` |
| `WavesAreApart` | `Spec => []WavesApart` |
| `StatesRestore` | `Spec => []StateRestores` |
| `WavesAreBeaten` | `Spec => WavesBeaten` |
| `NamesAreFresh` | `Spec => NamesFresh` |

`IInv` adds `Coherent`, which a director's state is between two frames (no
terminal phase survives one; a wave waits for somebody exactly while it is
active; the number of waves is what the band and the claim make it), and
`Sighted`, which says where the living come from: the planet the player is on and,
in the planar patch, not the surface; and, of those that no failed load has
orphaned, an action already sent and a wave that is not ahead of the director's.
A load that fails makes an orphan of everybody (`FailedLoad`). `WavesApart` is not inductive without it: an
enemy of the other domain that outlives its wave would come back into sight
with the player. It cannot, because every way back to that domain empties the
actor world, except a death in the planar patch, after which nobody of the
surface is left. Each operation of the director has its lemma on `Coherent`, and
the frame is their composition.

**`AutonomousWorkProofs`**: any workers, resources, definitions, orders and lease,
any number of jobs.

| Theorem | Says |
| --- | --- |
| `TypeCorrect` | `Spec => []TypeOK` |
| `Invariance` | `Spec => []IInv` |
| `ClaimsAndLedgerAgree` | `Spec => []ClaimsAgree` |
| `ClaimantsArePresent` | `Spec => []ClaimantsPresent` |
| `RunningLeasesAreRespected` | `Spec => LeasesRespected` |
| `WorkIsKept` | `Spec => WorkKept` |
| `WorkImplementsClaims` | `Spec => ImplementsClaims`: every step is a step of `ResourceClaims` or a stutter |

`IInv` adds to the three invariants `WithinWork` (a job never has more done than it
requires, without which finishing a job, which sets what is done to what is
required, could undo work) and `Unused` (an id not handed out is no job, and a
resource nobody holds is free, so that a new job starts without claims). Most
operations only give claims up; the lemma `Maintained` is about all of them, and
what is left of each is to say which jobs it takes the claim from. Expiry is one
of them because `ClaimsAgree` makes the leases of a job and of its resources lapse
together: what `LeaseEnded` finds in the ledger is what it finds in the jobs
(`LapsedJobs`). An assignment is then an expiry followed by claims on resources
that are free. The ids a snapshot or an evaluation hands out are new because each
is a position in a finite set of numbers (the lemma `Position`), and what an order
has under way is a number because a sum of naturals over a finite set is one
(the lemma `SumIsNatural` of `FiniteSums`), proved without induction from the minimal sets for
which it would fail.

`ResourceClaims` is the ledger and the jobs seen as one book: what each job needs
and holds, who has a claim, whose lease is over. Claims are given back whole, or
granted whole and side by side, or their leases run out; a running one is not
touched. In the code the claim is written down twice, so the mapping takes
what a job holds from the ledger and the rest from the job. `HeldBefore` and
`HeldAfter` say what `ClaimsAgree` makes of that, in the two states of a step: a
job with a claim holds just what it needs, and one without holds nothing. After
them every operation but `assign` is an instance of one lemma about claims
given back (`GivenBack`) and `assign` of one about claims granted (`Granted`).

Only model-checked: the liveness properties `Settles`, `CallsReturn`,
`FuturesResolve`, `CyclesComplete`, `ActionsEnd`, `WorkDrains` and `Replenishes`, which
TLAPS does not reach. Every invariant and every action property of a passing run
is stated by a theorem; the three refinements are proved and checked.

## 8. Where the code departs from what it says

Each of these is a run in which TLC finds the property violated; the finding in
`PROJECT.json` quotes the line of the repository that states it.

| Run | What happens |
| --- | --- |
| `save_reused_generation` | A load that fails on a torn chunk leaves `saveGeneration_` at 0. The next save may then carry the committed generation number again, and a crash before its manifest leaves chunk files of the new save that the old manifest accepts. |
| `stream_failed_load` | A load that fails after `initWorlds` leaves the old planet's packets in the cache; where revisions agree, collision reads them. |
| `pool_shutdown` | `shutdown` sets `stopping_` and notifies without the mutex; a worker between its predicate and its sleep is never woken, and `join` waits. |

Observations made while reading and modelling. No property of a run states them;
the behaviour is in the models unless said otherwise.

* A manifest that ends before its header line, an empty file for one, passes for
  a legacy file: it counts as loaded and the good `.prev` is not read
  (`SurfaceChunkPersistence.cpp:43`).
* A torn chunk file usually has a good `.prev`, but of an older generation than
  the manifest asks for: the load gives up.
* After such a load the next save commits a lower generation than the one on
  disk (the same cause as `save_reused_generation`).
* An edit at the corner of four chunks does not mark the one across, whose
  ambient occlusion samples the cell (`PlanetSurface.cpp:878`): its mesh stays as it
  was and counts as up to date.
* The focus is compared with that of the frame before, so a walk in small steps
  never refreshes the detail targets (`PlanetSurfaceRenderer.cpp:81`).
* Replaced and cancelled builds drop the future and leave the job in the pool, so
  the bound of `FrontierHolds` is one on futures, not on jobs. The model keeps
  futures only.
* When `fn` throws on the caller's thread, the call unwinds while helpers keep
  references into its frame (`JobSystem.hpp:107`).
* `removePortal` refuses a panel that belongs to an airlock assembly
  (`SurfaceInfrastructure.cpp:247`), and `Game` hands out a kit all the same
  (`Game.cpp:740`).
* A block fits into the doorway of an open portal, which still counts as open.
* After a load a new object may get the id of one that was removed before the
  save, and a rule that still names it acts on the new one.
* Sieges: whoever leaves the domain (the views, travel, a death in the planar
  patch) counts as having beaten the wave, with its reward; after such a death
  the wave's enemies live on in the patch. Enemies of a failed action stay. A
  claim struck in the frame in which the last enemy dies does not cost the
  reward. F9 drops the action.
* A load that gives up after `initWorlds` (`Game.cpp:2090`; for example at 2274) does
  not reach `clearEnemies` (2307). The old enemies live on under new directors, who
  number their actions from 1 again: an enemy of the next action 1 may be spawned under
  the stable id of a living one, which the registry accepts. A shot by id then hits
  whichever comes first, the wave counts as alive while either lives, and old enemies
  of other waves are waited for by nobody. It ends when the actor world is next
  emptied. `WavesApart` and `NamesFresh` say so little of these enemies because, of
  all the living, both are false: with `Known == living` TLC finds each violated
  within a few steps of `siege_waves`.
* Work: `releaseJob` and `cancelJob` accept jobs that have ended, so that one source
  key may have two open jobs, of which a withdrawal cancels the later; `assign`
  may give a second job to a worker who has one; an order evaluated after a job is
  completed and before its product is in stock orders it again.
* All resident packets may be wanted at once, in which case the cache exceeds its
  budget rather than evict (`SurfaceChunkCache.cpp:241`); two workers that miss
  on the same route both search it, and a route is filed under the revision read
  before the search (`SurfaceNavigation.cpp:153`). Not in the models, respectively
  not at the bounds of a run.
* `compactShipment` may leave a shipment with no minutes to go, which the next
  boundary, or the end of the slice, then handles: the promise that many small
  slices lead to the same state as a large one (`strategy/StrategicSimulation.hpp`,
  `advanceTo`) does not hold for such a shipment. Not modelled.

## 9. What is not modelled

`PROJECT.json` lists every part with its reason. In short:

* *Protocols left out*: power and turrets (`SurfacePortals` takes any outcome of
  it), the infrastructure journal (only tests call it), the route cache and the
  phases of the actor world, the inventories of `SurfaceIndustry`, the priority
  scheduler and the atomic save generation (no code of the game calls them), and
  the strategic simulation of sites and shipments (only its tests call it). They
  have states and operations a model could follow; this development stops at the
  parts whose interleavings, crashes and liveness matter most to a player.
* *Arithmetic*: terrain, meshing, weather, medicine, minds, strategy, history
  and galaxy generation compute numbers from numbers in one thread. What can go
  wrong in them is a formula, which a test reaches better than a model checker.
* *Tables and stores*: the content catalogue and the many stores under
  `fortress/`, `network/`, `simulation/`, `save/` and the directories beside them have
  no protocol between them and, for the most part, no callers in the game.
  The ones under `network/` send and receive nothing.
* *Presentation*: rendering, audio, user interface and tools read the state
  and nothing reads theirs.

## 10. Plan

Done: the save with its refinement and proofs, one torn manifest included; the
streaming with its proofs; the pool with its proofs, for an `fn` that throws too;
portals, airlocks and rules with their refinement and proofs; sieges with their
proofs; autonomous work with its refinement and proofs.

To prove next: an abstract course of a siege (announced, a wave, a pause, the end)
that `RegisterAction` implements, from `Coherent`, `WavesBeaten` and
`RegisterNeedsClaim`; an abstract view that `SurfaceStreaming` implements, in which
a mesh shows some state of the planet since the last invalidation and never an
older one than before.

What would come next, in this order:

1. `PowerNetwork`: generation, demand, battery charge and priorities of one
   network, with turrets and shields. Properties: no more is handed out than
   there is; charge stays within its capacity; `SurfacePortals`' free choice of
   power refined by it.
2. `Logistics` over `SurfaceIndustry`: items are conserved by transfers, recipes
   and turret supply; jams resolve when space appears.
3. `StrategicSimulation`: sites and shipments, cargo conserved through dispatch,
   loss, raid and unloading, and through promotion and compaction.
4. `InfrastructureJournal`: closure and the order of tombstones, with
   `SurfacePortals`' objects.
5. `NavigationCache`: the routes of `SurfaceNavigation` filled inside a
   `parallelFor`; with it the phases of `EcsWorld`.
6. `PriorityJobScheduler` composed with `JobSystem`, and `AtomicSaveGeneration` as a
   second implementation of `CampaignStore`; the composition of the streaming
   with the pool.
