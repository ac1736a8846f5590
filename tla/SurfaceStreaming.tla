-------------------------- MODULE SurfaceStreaming --------------------------
(***************************************************************************)
(* The streaming of a planet surface: PlanetSurface's chunk revisions, the *)
(* SurfaceChunkCache that rebuilds chunk packets on worker threads, the    *)
(* PlanetSurfaceRenderer that meshes them, and the reads of                *)
(* SurfaceWorldReadService, which take the same packets.                   *)
(*                                                                         *)
(* The owner thread runs the game and one sync of the renderer per frame;  *)
(* a worker finishes a submitted job at any time.  The sync is cut into    *)
(* the actions between which a finished job makes a difference, one        *)
(* request of the cache being one action.                                  *)
(*                                                                         *)
(* A packet or a mesh is what it shows: the blocks of its cells.  An entry *)
(* of the cache has data or a pending future, never both, and its revision *)
(* is the one of whichever it has.  Its token changes only when its future *)
(* is dropped, so the token of a result that arrives is always current.  A *)
(* job whose future was dropped still runs; it has its own snapshot and    *)
(* nobody sees what it makes.                                              *)
(***************************************************************************)
EXTENDS Integers, FiniteSets

CONSTANTS
  Slots,            \* the chunks of a planet
  Index,            \* the slot index of a chunk
  Cells,            \* the columns of a planet
  Owner,            \* the chunk of a cell
  Beside, Diagonal, \* the cells next to a cell in u or v, and in u and v
  Blocks, Base,     \* what a cell may hold, and what was generated there
  NoBlock,          \* stands for a cell a packet does not cover
  Planets,          \* the planets of the game
  Places,           \* directions of the streaming focus
  Close,            \* pairs of directions whose dot product is >= 0.9995
  Rank,             \* how many chunks are nearer to a place than a chunk
  HighDetailBudget, NearFieldBudget, PrefetchBudget,
  MaxResidentChunks, MaxPending,
  MaxRevision,      \* bound: no edit from this revision on
  Editable,         \* bound: the cells that are edited
  Placed            \* bound: the blocks that edits of this game place

Details == {"far", "near", "full"}

\* The chunks markDirty stamps for an edit of cell x.
\* Mutant of Marked: the chunk whose halo holds the cell is not marked.
MarkedOwner(x) == {Owner[x]}

Marked(x) == {Owner[y] : y \in {x} \union Beside[x]}

\* The cells of a chunk and its halo of one cell.
Halo(c) ==
  {x \in Cells : \E y \in Cells : Owner[y] = c /\ x \in {y} \union Beside[y] \union Diagonal[y]}

ASSUME SlotAssumption == IsFiniteSet(Slots) /\ Index \in [Slots -> Nat]
ASSUME CellAssumption ==
  /\ Owner \in [Cells -> Slots] /\ Editable \subseteq Cells
  /\ Beside \in [Cells -> SUBSET Cells] /\ Diagonal \in [Cells -> SUBSET Cells]
ASSUME BlockAssumption == Base \in Blocks /\ NoBlock \notin Blocks /\ Placed \subseteq Blocks
ASSUME PlaceAssumption ==
  /\ Close \subseteq Places \X Places
  /\ Rank \in [Places -> [Slots -> Nat]]
ASSUME BudgetAssumption ==
  /\ HighDetailBudget \in Nat /\ NearFieldBudget \in Nat /\ PrefetchBudget \in Nat \ {0}
  /\ MaxResidentChunks \in Nat \ {0} /\ MaxPending \in Nat \ {0}
  /\ MaxRevision \in Nat

VARIABLES
  planets,          \* PlanetSurface of every planet
  currentPlanet,
  focus,            \* focusDirection_
  streaming,        \* streaming_
  targetRevisions, targetDetails,
  snapshotRevision, latestSnapshot,
  cache,            \* SurfaceChunkCache::entries_
  wanted,           \* the entries whose wanted flag is set
  shown,            \* PlanetSurfaceRenderer::chunks_
  meshing,          \* PlanetSurfaceRenderer::pending_
  pc,               \* where the owner thread is
  orbital,          \* orbitalShellOnly_
  requests,         \* chunks this sync has still to request
  prefetched        \* prefetch requests granted in this sync

world == <<planets, currentPlanet>>
targets == <<focus, streaming, targetRevisions, targetDetails, snapshotRevision, latestSnapshot, orbital>>
vars == <<planets, currentPlanet, focus, streaming, targetRevisions, targetDetails,
          snapshotRevision, latestSnapshot, cache, wanted, shown, meshing,
          pc, orbital, requests, prefetched>>

planet == planets[currentPlanet]

\* What a packet or a mesh of chunk c made from b shows.
Part(b, c) == [x \in Cells |-> IF x \in Halo(c) THEN b[x] ELSE NoBlock]
Content == [Cells -> Blocks \union {NoBlock}]
Nothing == [x \in Cells |-> NoBlock]

Entry(s, r, d) == [state |-> s, revision |-> r, data |-> d]
NoEntry == Entry("none", 0, Nothing)
Mesh(s, r, l, d) == [state |-> s, revision |-> r, detail |-> l, data |-> d]
NoMesh == Mesh("none", 0, "far", Nothing)

Pending == {c \in Slots : cache[c].state \in {"building", "built"}}
Least(a, b) == IF a < b THEN a ELSE b

(***************************************************************************)
(* Planets                                                                 *)
(***************************************************************************)
Generated == [blocks |-> [x \in Cells |-> Base],
              chunkRevisions |-> [c \in Slots |-> 1], revision |-> 1]

Surfaces == [blocks : [Cells -> Blocks], chunkRevisions : [Slots -> Nat], revision : Nat]

\* PlanetSurface::set and the other edits: revision_, then markDirty.
Edited(p, x, b) ==
  [blocks |-> [p.blocks EXCEPT ![x] = b],
   chunkRevisions |-> [c \in Slots |-> IF c \in Marked(x) THEN p.revision + 1
                                       ELSE p.chunkRevisions[c]],
   revision |-> p.revision + 1]

\* The planets of S and those one edit away.
OneEdit(S) ==
  S \union {Edited(p, x, b) : p \in {q \in S : q.revision < MaxRevision},
                             x \in Editable, b \in Blocks \ {Base}}

\* Planets loadGame may leave: the generated one after at most two edits.
Loadable == OneEdit(OneEdit({Generated}))

(***************************************************************************)
(* Initial state: the constructors of Game and of its renderer.            *)
(***************************************************************************)
Init ==
  /\ planets = [w \in Planets |-> Generated]
  /\ currentPlanet \in Planets
  /\ focus \in Places
  /\ streaming = FALSE
  /\ targetRevisions = [c \in Slots |-> 0]
  /\ targetDetails = [c \in Slots |-> "full"]
  /\ snapshotRevision = 0
  /\ latestSnapshot = Nothing
  /\ cache = [c \in Slots |-> NoEntry]
  /\ wanted = {}
  /\ shown = [c \in Slots |-> NoMesh]
  /\ meshing = [c \in Slots |-> NoMesh]
  /\ pc = "play"
  /\ orbital = FALSE
  /\ requests = {}
  /\ prefetched = 0

(***************************************************************************)
(* The game between two syncs                                              *)
(***************************************************************************)
Edit(x, b) ==
  /\ pc = "play"
  /\ planet.blocks[x] # b
  /\ planet.revision < MaxRevision
  /\ planets' = [planets EXCEPT ![currentPlanet] = Edited(planet, x, b)]
  /\ UNCHANGED <<currentPlanet, targets, cache, wanted, shown, meshing, pc,
                 requests, prefetched>>

\* Mutant of Invalidate: the cache of chunk packets is kept.
InvalidateKeepsCache ==
  /\ shown' = [c \in Slots |-> NoMesh]
  /\ meshing' = [c \in Slots |-> NoMesh]
  /\ latestSnapshot' = Nothing
  /\ targetRevisions' = [c \in Slots |-> 0]
  /\ targetDetails' = [c \in Slots |-> IF streaming THEN "far" ELSE "full"]
  /\ snapshotRevision' = 0
  /\ UNCHANGED <<cache, wanted>>

\* PlanetSurfaceRenderer::invalidate, with SurfaceChunkCache::clear.
Invalidate ==
  /\ cache' = [c \in Slots |-> NoEntry]
  /\ wanted' = {}
  /\ shown' = [c \in Slots |-> NoMesh]
  /\ meshing' = [c \in Slots |-> NoMesh]
  /\ latestSnapshot' = Nothing
  /\ targetRevisions' = [c \in Slots |-> 0]
  /\ targetDetails' = [c \in Slots |-> IF streaming THEN "far" ELSE "full"]
  /\ snapshotRevision' = 0

SwitchPlanet(w) ==
  /\ pc = "play"
  /\ currentPlanet' = w
  /\ Invalidate
  /\ UNCHANGED <<planets, focus, streaming, pc, orbital, requests, prefetched>>

\* loadGame returns true.
LoadGame(w) ==
  /\ pc = "play"
  /\ planets' \in [Planets -> Loadable]
  /\ currentPlanet' = w
  /\ Invalidate
  /\ UNCHANGED <<focus, streaming, pc, orbital, requests, prefetched>>

\* loadGame returns false after initWorlds: the planets are new ones, with
\* the part of the save applied that was read.
LoadGameFails ==
  /\ pc = "play"
  /\ planets' \in [Planets -> Loadable]
  /\ UNCHANGED <<currentPlanet, targets, cache, wanted, shown, meshing, pc,
                 requests, prefetched>>

(***************************************************************************)
(* One frame of the renderer                                               *)
(***************************************************************************)
\* updateDetailTargets
DetailAt(p, s) ==
  [c \in Slots |->
     IF ~s THEN "full"
     ELSE IF Rank[p][c] < HighDetailBudget THEN "full"
     ELSE IF Rank[p][c] < HighDetailBudget + NearFieldBudget THEN "near"
     ELSE "far"]

\* updateTargets, after setStreamingFocus(p) (s) or setOrbitalShellOnly.
UpdateTargets(p, s) ==
  LET changed == snapshotRevision # planet.revision
      dirty == changed \/ s # streaming \/ <<p, focus>> \notin Close
  IN /\ snapshotRevision' = planet.revision
     /\ latestSnapshot' = IF changed THEN planet.blocks ELSE latestSnapshot
     /\ targetRevisions' = IF changed THEN planet.chunkRevisions ELSE targetRevisions
     /\ targetDetails' = IF dirty THEN DetailAt(p, s) ELSE targetDetails
     /\ focus' = p
     /\ streaming' = s

\* Mutant of Neighbors: the cells beside those of chunk c, not their chunks.
NeighborCells(c) == UNION {Beside[x] : x \in {y \in Cells : Owner[y] = c}}

\* The chunks that have a cell beside one of chunk c.
Neighbors(c) == {d \in Slots : \E x, y \in Cells : Owner[x] = c /\ Owner[y] = d /\ y \in Beside[x]}

\* updateCpuResidency requests the full chunks and then their neighbours ...
Requested(l) ==
  LET full == {c \in Slots : l[c] = "full"} IN full \union UNION {Neighbors(c) : c \in full}

\* ... the former by slot, the latter nearest first.
Before(c, d) ==
  IF targetDetails[c] = "full" /\ targetDetails[d] = "full" THEN Index[c] < Index[d]
  ELSE IF targetDetails[c] # "full" /\ targetDetails[d] # "full" THEN Rank[focus][c] < Rank[focus][d]
  ELSE targetDetails[c] = "full"

\* sync begins: the targets, and the cache's beginFrame.
BeginSync(p) ==
  /\ pc = "play"
  /\ UpdateTargets(p, TRUE)
  /\ orbital' = FALSE
  /\ wanted' = {}
  /\ requests' = Requested(targetDetails')
  /\ prefetched' = 0
  /\ pc' = "request"
  /\ UNCHANGED <<world, cache, shown, meshing>>

\* The same in the orbital view, which wants no chunk.
BeginOrbitalSync ==
  /\ pc = "play"
  /\ UpdateTargets(focus, streaming)
  /\ orbital' = TRUE
  /\ wanted' = {}
  /\ requests' = {}
  /\ prefetched' = 0
  /\ pc' = "request"
  /\ UNCHANGED <<world, cache, shown, meshing>>

\* Mutant of Refused: only speculative requests respect the frontier.
RefusedPrefetch(c) ==
  c \notin Pending /\ targetDetails[c] # "full" /\ Cardinality(Pending) >= MaxPending

\* The scheduling frontier.
Refused(c) == c \notin Pending /\ Cardinality(Pending) >= MaxPending

EnoughPrefetched == prefetched >= PrefetchBudget

\* SurfaceChunkCache::request for chunk c, the next one of the frame.
Request(c) ==
  /\ pc = "request"
  /\ c \in requests
  /\ \A d \in requests \ {c} : Before(c, d)
  /\ LET revision == planet.chunkRevisions[c]
         current == cache[c].state # "none" /\ cache[c].revision = revision
         prefetch == targetDetails[c] # "full"
     IN IF prefetch /\ EnoughPrefetched
          THEN /\ requests' = {}
               /\ UNCHANGED <<cache, wanted, prefetched>>
          ELSE /\ requests' = requests \ {c}
               /\ wanted' = wanted \union {c}
               /\ IF current \/ Refused(c)
                    THEN UNCHANGED cache
                    ELSE cache' = [cache EXCEPT ![c] =
                                     Entry("building", revision, Part(planet.blocks, c))]
               /\ prefetched' = IF prefetch /\ (current \/ ~Refused(c))
                                  THEN prefetched + 1 ELSE prefetched
  /\ UNCHANGED <<world, targets, shown, meshing, pc>>

\* cancelUnwanted
Cancelled(c) == c \in Pending /\ c \notin wanted

\* processCompleted of the cache: a finished packet is taken if its chunk has
\* not changed.
Completed(e, c) ==
  IF e[c].state # "built" THEN e[c]
  ELSE IF e[c].revision = planet.chunkRevisions[c]
         THEN Entry("resident", e[c].revision, e[c].data)
         ELSE NoEntry

\* evictToBudget: unwanted packets go until the rest fits the budget.  The
\* code takes the least recently used first; here any may go.
Evict(e) ==
  LET resident == {c \in Slots : e[c].state = "resident"}
      excess == Cardinality(resident) - MaxResidentChunks
  IN \E victims \in SUBSET (resident \ wanted) :
       /\ Cardinality(victims) =
            IF excess <= 0 THEN 0 ELSE Least(excess, Cardinality(resident \ wanted))
       /\ cache' = [c \in Slots |-> IF c \in victims THEN NoEntry ELSE e[c]]

\* SurfaceChunkCache::sync on the entries e.
CacheSync(e) == Evict([c \in Slots |-> Completed(e, c)])

\* The end of updateCpuResidency.
EndResidency ==
  /\ pc = "request"
  /\ requests = {}
  /\ CacheSync([c \in Slots |-> IF Cancelled(c) THEN NoEntry ELSE cache[c]])
  /\ prefetched' = 0
  /\ pc' = IF orbital THEN "play" ELSE "mesh"
  /\ UNCHANGED <<world, targets, wanted, shown, meshing, requests>>

UpToDate(m, c) == m.revision = targetRevisions[c] /\ m.detail = targetDetails[c]

\* Mutant of NowShown: a finished mesh is shown whatever it was built for.
NowShownAnyRevision ==
  [c \in Slots |->
     IF meshing[c].state = "built"
       THEN Mesh("shown", targetRevisions[c], meshing[c].detail, meshing[c].data) ELSE shown[c]]

\* processCompleted of the renderer: what is shown and what is pending after it.
NowShown ==
  [c \in Slots |->
     IF meshing[c].state = "built" /\ UpToDate(meshing[c], c)
       THEN [meshing[c] EXCEPT !.state = "shown"] ELSE shown[c]]

\* Mutant of StillMeshing: a stale result stays pending.
StillMeshingStale ==
  [c \in Slots |-> IF meshing[c].state = "built" /\ UpToDate(meshing[c], c) THEN NoMesh
                   ELSE meshing[c]]

StillMeshing == [c \in Slots |-> IF meshing[c].state = "built" THEN NoMesh ELSE meshing[c]]

\* The jobs of scheduleMissing.
Scheduled(c) ==
  IF shown'[c].state = "shown" /\ UpToDate(shown'[c], c) THEN StillMeshing[c]
  ELSE IF StillMeshing[c].state # "none" THEN StillMeshing[c]
  ELSE IF targetDetails[c] = "full"
    THEN IF cache[c].state = "resident" /\ cache[c].revision = targetRevisions[c]
           THEN Mesh("building", targetRevisions[c], "full", cache[c].data)
           ELSE NoMesh
    ELSE Mesh("building", targetRevisions[c], targetDetails[c], Part(latestSnapshot, c))

MeshSync ==
  /\ pc = "mesh"
  /\ shown' = NowShown
  /\ meshing' = [c \in Slots |-> Scheduled(c)]
  /\ pc' = "finish"
  /\ UNCHANGED <<world, targets, cache, wanted, requests, prefetched>>

FinishSync ==
  /\ pc = "finish"
  /\ shown' = NowShown
  /\ meshing' = StillMeshing
  /\ CacheSync(cache)
  /\ pc' = "play"
  /\ UNCHANGED <<world, targets, wanted, requests, prefetched>>

(***************************************************************************)
(* Workers                                                                 *)
(***************************************************************************)
PacketBuilt(c) ==
  /\ cache[c].state = "building"
  /\ cache' = [cache EXCEPT ![c].state = "built"]
  /\ UNCHANGED <<world, targets, wanted, shown, meshing, pc, requests, prefetched>>

MeshBuilt(c) ==
  /\ meshing[c].state = "building"
  /\ meshing' = [meshing EXCEPT ![c].state = "built"]
  /\ UNCHANGED <<world, targets, cache, wanted, shown, pc, requests, prefetched>>

Worker == \E c \in Slots : PacketBuilt(c) \/ MeshBuilt(c)
SyncStep == (\E c \in Slots : Request(c)) \/ EndResidency \/ MeshSync \/ FinishSync

Game ==
  \/ \E x \in Editable, b \in Placed : Edit(x, b)
  \/ \E w \in Planets : SwitchPlanet(w) \/ LoadGame(w)
  \/ BeginOrbitalSync

Next == Game \/ Worker \/ SyncStep \/ \E p \in Places : BeginSync(p)

FailingNext == Next \/ LoadGameFails

(***************************************************************************)
(* The game loop calls sync in every frame, and the pool runs every job it *)
(* was given.                                                              *)
(***************************************************************************)
Fairness ==
  /\ WF_vars(SyncStep \/ \E p \in Places : BeginSync(p))
  /\ \A c \in Slots : WF_vars(PacketBuilt(c)) /\ WF_vars(MeshBuilt(c))

Spec == Init /\ [][Next]_vars /\ Fairness

\* The same when loading may fail half-way.
FailingSpec == Init /\ [][FailingNext]_vars

(***************************************************************************)
(* Properties                                                              *)
(***************************************************************************)
Entries == [state : {"none", "building", "built", "resident"}, revision : Nat, data : Content]
Meshes == [state : {"none", "building", "built", "shown"}, revision : Nat,
           detail : Details, data : Content]

\* The types of the planets, the renderer, its cache and the owner thread's
\* place in the frame; never more prefetches in a frame than the budget.
TypeOK ==
  /\ planets \in [Planets -> Surfaces]
  /\ currentPlanet \in Planets
  /\ focus \in Places
  /\ streaming \in BOOLEAN
  /\ targetRevisions \in [Slots -> Nat]
  /\ targetDetails \in [Slots -> Details]
  /\ snapshotRevision \in Nat
  /\ latestSnapshot \in Content
  /\ cache \in [Slots -> Entries]
  /\ wanted \subseteq Slots
  /\ shown \in [Slots -> Meshes]
  /\ meshing \in [Slots -> Meshes]
  /\ pc \in {"play", "request", "mesh", "finish"}
  /\ orbital \in BOOLEAN
  /\ requests \subseteq Slots
  /\ prefetched \in 0..PrefetchBudget

\* Mutant of ReadsCache: the revision of the packet is not compared.
ReadsAnyRevision(c) == cache[c].state = "resident"

\* SurfaceWorldReadService::residentFor: the packet a read of chunk c takes.
ReadsCache(c) ==
  cache[c].state = "resident" /\ cache[c].revision = planet.chunkRevisions[c]

\* Collision, mining and path finding never see a block that is not in the
\* planet: what residentFor hands out equals PlanetSurface at that moment,
\* whatever was edited, cancelled, switched or loaded while it was built.
ReadsAuthoritative ==
  \A c \in Slots : ReadsCache(c) =>
    \A x \in Cells : Owner[x] = c => cache[c].data[x] = planet.blocks[x]

\* The cells of a chunk, and those of its halo that lie across an edge of it and
\* not across a corner only.
AcrossEdges(c) == {x \in Halo(c) : \E y \in {x} \union Beside[x] : Owner[y] = c}

\* When the renderer has synced, a mesh it counts as up to date shows the present
\* blocks of its chunk and across the chunk's edges, whatever was edited on
\* either side. Of the cells across a corner nothing is claimed: the mesher
\* samples them, but markDirty does not stamp the chunk when one is edited.
ReadyShowsPlanet ==
  (pc = "play" /\ snapshotRevision = planet.revision) =>
    \A c \in Slots :
      (shown[c].state = "shown" /\ UpToDate(shown[c], c)) =>
        \A x \in AcrossEdges(c) : shown[c].data[x] = planet.blocks[x]

\* SurfaceChunkCache::request: the futures the cache waits for never exceed
\* maxPending_, whatever the class of the request.
FrontierHolds == Cardinality(Pending) <= MaxPending

Ready == \A c \in Slots : shown[c].state = "shown" /\ UpToDate(shown[c], c)

\* A step of a frame with the player standing still: of a sync that is under
\* way, of a worker, or the beginning of a sync of the same focus.
Quiet == pc # "play" \/ Worker \/ (BeginSync(focus) /\ streaming)

\* When the game stops editing, moving and switching, the renderer becomes
\* ready and stays so: no chunk starves behind the frontier, the prefetches,
\* the eviction or results that came too late.
Settles == <>[][Quiet]_vars => <>[]Ready

(***************************************************************************)
(* The inductive invariant behind ReadsAuthoritative and ReadyShowsPlanet. *)
(* A cell of a halo that markDirty does not cover is left out of it.       *)
(***************************************************************************)
Sane(p) ==
  /\ p \in Surfaces
  /\ p.revision > 0
  /\ \A c \in Slots : p.chunkRevisions[c] <= p.revision

\* What was built of chunk c at revision r, if that is the chunk's revision
\* in planet p, shows the blocks of p; what was built before an edit is of an
\* older one.
Current(p, r, d, c) ==
  /\ r <= p.revision
  /\ r = p.chunkRevisions[c] => \A x \in Halo(c) : c \in Marked(x) => d[x] = p.blocks[x]
  /\ \A x \in Cells \ Halo(c) : d[x] = NoBlock

AllCurrent(made) ==
  \A c \in Slots : made[c].state # "none" => Current(planet, made[c].revision, made[c].data, c)

\* The targets are those of the planet, from the first step of a sync on and
\* until the next edit.
TargetsInStep ==
  /\ snapshotRevision <= planet.revision
  /\ snapshotRevision = planet.revision =>
       latestSnapshot = planet.blocks /\ targetRevisions = planet.chunkRevisions
  /\ pc # "play" => snapshotRevision = planet.revision

IInv ==
  /\ TypeOK
  /\ \A w \in Planets : Sane(planets[w])
  /\ TargetsInStep
  /\ AllCurrent(cache)
  /\ AllCurrent(meshing)
  /\ AllCurrent(shown)

=============================================================================
