----------------------- MODULE SurfaceStreamingProofs -----------------------
(***************************************************************************)
(* Proofs about SurfaceStreaming, for any planet, budgets and bounds: the  *)
(* types, the frontier, and that reads and meshes agree with the planet.   *)
(***************************************************************************)
EXTENDS SurfaceStreaming, FiniteSetTheorems, TLAPS

(***************************************************************************)
(* Planets and parts of planets                                            *)
(***************************************************************************)

\* A new planet is sane.
LEMMA GeneratedSane == Sane(Generated)
BY BlockAssumption DEF Sane, Surfaces, Generated

\* An edit keeps a planet sane.
LEMMA EditedSane ==
  ASSUME NEW p, Sane(p), NEW x \in Cells, NEW b \in Blocks
  PROVE  Sane(Edited(p, x, b))
<1> DEFINE e == Edited(p, x, b)
<1>1. /\ p.blocks \in [Cells -> Blocks] /\ p.chunkRevisions \in [Slots -> Nat]
      /\ p.revision \in Nat
  BY DEF Sane, Surfaces
<1>2. /\ e.blocks = [p.blocks EXCEPT ![x] = b]
      /\ e.chunkRevisions = [c \in Slots |-> IF c \in Marked(x) THEN p.revision + 1
                                             ELSE p.chunkRevisions[c]]
      /\ e.revision = p.revision + 1
  BY DEF Edited
<1>3. e \in Surfaces
  <2>1. [p.blocks EXCEPT ![x] = b] \in [Cells -> Blocks]
    BY <1>1
  <2>2. [c \in Slots |-> IF c \in Marked(x) THEN p.revision + 1 ELSE p.chunkRevisions[c]]
          \in [Slots -> Nat]
    BY <1>1
  <2> QED
    BY <1>1, <2>1, <2>2 DEF Edited, Surfaces
<1>4. e.revision > 0
  BY <1>1, <1>2
<1>5. ASSUME NEW c \in Slots PROVE e.chunkRevisions[c] <= e.revision
  BY <1>1, <1>2 DEF Sane
<1> QED
  BY <1>3, <1>4, <1>5 DEF Sane

\* Whatever loadGame leaves is sane.
LEMMA LoadableSane == \A p \in Loadable : Sane(p)
<1>1. ASSUME NEW S, \A p \in S : Sane(p) PROVE \A p \in OneEdit(S) : Sane(p)
  BY <1>1, EditedSane, CellAssumption DEF OneEdit
<1>2. \A p \in {Generated} : Sane(p)
  BY GeneratedSane
<1> QED
  BY <1>1, <1>2 DEF Loadable

\* What a packet shows: the blocks of its halo and nothing else.
LEMMA PartShows ==
  ASSUME NEW b \in Content, NEW c \in Slots
  PROVE  /\ Part(b, c) \in Content
         /\ \A x \in Halo(c) : Part(b, c)[x] = b[x]
         /\ \A x \in Cells \ Halo(c) : Part(b, c)[x] = NoBlock
BY DEF Part, Content, Halo

\* The blocks of a planet are a content.
LEMMA BlocksContent == [Cells -> Blocks] \subseteq Content
BY DEF Content

(***************************************************************************)
(* Types                                                                   *)
(***************************************************************************)
LEMMA InitType == Init => TypeOK
<1> SUFFICES ASSUME Init PROVE TypeOK
  OBVIOUS
<1>1. Nothing \in Content
  BY DEF Nothing, Content
<1>2. NoEntry \in Entries
  BY <1>1 DEF NoEntry, Entry, Entries
<1>3. NoMesh \in Meshes
  BY <1>1 DEF NoMesh, Mesh, Meshes, Details
<1>4. planets \in [Planets -> Surfaces]
  BY GeneratedSane DEF Init, Sane
<1>5. prefetched \in 0..PrefetchBudget
  BY BudgetAssumption DEF Init
<1> QED
  BY <1>1, <1>2, <1>3, <1>4, <1>5 DEF Init, TypeOK, Details

\* The number of chunks in a set is a natural number.
LEMMA SlotsCount == \A S \in SUBSET Slots : IsFiniteSet(S) /\ Cardinality(S) \in Nat
BY SlotAssumption, FS_Subset, FS_CardinalityType

\* evictToBudget keeps or drops entries.
LEMMA EvictKeeps ==
  ASSUME NEW e, Evict(e)
  PROVE  \E victims : cache' = [c \in Slots |-> IF c \in victims THEN NoEntry ELSE e[c]]
BY DEF Evict

\* What a sync of the cache leaves of an entry: the entry, or the packet it waited
\* for, or nothing.
LEMMA CacheSyncKeeps ==
  ASSUME TypeOK, NEW e \in [Slots -> Entries], CacheSync(e)
  PROVE  /\ cache' \in [Slots -> Entries]
         /\ \A c \in Slots : cache'[c] \in {NoEntry, Completed(e, c)}
         /\ \A c \in Slots : Completed(e, c) \in {NoEntry, e[c],
                               Entry("resident", e[c].revision, e[c].data)}
<1> DEFINE f == [c \in Slots |-> Completed(e, c)]
<1>1. NoEntry \in Entries
  BY DEF NoEntry, Entry, Entries, Nothing, Content
<1>2. ASSUME NEW c \in Slots
      PROVE  /\ Completed(e, c) \in Entries
             /\ Completed(e, c) \in {NoEntry, e[c], Entry("resident", e[c].revision, e[c].data)}
  <2>1. e[c] \in Entries
    OBVIOUS
  <2>2. Entry("resident", e[c].revision, e[c].data) \in Entries
    BY <2>1 DEF Entry, Entries
  <2> QED
    BY <1>1, <2>1, <2>2 DEF Completed
<1>3. PICK victims : cache' = [c \in Slots |-> IF c \in victims THEN NoEntry ELSE f[c]]
  BY EvictKeeps DEF CacheSync
<1> QED
  BY <1>1, <1>2, <1>3

\* The present planet, and what it says of a chunk.
LEMMA PlanetType ==
  ASSUME TypeOK
  PROVE  /\ planet \in Surfaces
         /\ planet.blocks \in [Cells -> Blocks]
         /\ planet.chunkRevisions \in [Slots -> Nat]
         /\ planet.revision \in Nat
BY DEF TypeOK, planet, Surfaces

\* PlanetSurfaceRenderer::invalidate leaves well-typed variables behind.
LEMMA InvalidateType ==
  ASSUME TypeOK, Invalidate
  PROVE  /\ targetRevisions' \in [Slots -> Nat] /\ targetDetails' \in [Slots -> Details]
         /\ snapshotRevision' \in Nat /\ latestSnapshot' \in Content
         /\ cache' \in [Slots -> Entries] /\ wanted' \subseteq Slots
         /\ shown' \in [Slots -> Meshes] /\ meshing' \in [Slots -> Meshes]
<1>1. Nothing \in Content
  BY DEF Nothing, Content
<1>2. NoEntry \in Entries
  BY <1>1 DEF NoEntry, Entry, Entries
<1>3. NoMesh \in Meshes
  BY <1>1 DEF NoMesh, Mesh, Meshes, Details
<1>4. targetDetails' \in [Slots -> Details]
  BY DEF Invalidate, Details
<1>5. wanted' \subseteq Slots /\ snapshotRevision' \in Nat /\ targetRevisions' \in [Slots -> Nat]
  BY DEF Invalidate
<1> QED
  BY <1>1, <1>2, <1>3, <1>4, <1>5 DEF Invalidate

\* The targets of a sync are well-typed.
LEMMA UpdateTargetsType ==
  ASSUME TypeOK, NEW p \in Places, NEW s \in BOOLEAN, UpdateTargets(p, s)
  PROVE  /\ targetRevisions' \in [Slots -> Nat] /\ targetDetails' \in [Slots -> Details]
         /\ snapshotRevision' \in Nat /\ latestSnapshot' \in Content
         /\ focus' \in Places /\ streaming' \in BOOLEAN
<1>1. DetailAt(p, s) \in [Slots -> Details]
  BY DEF DetailAt, Details
<1>2. latestSnapshot' \in Content
  BY PlanetType, BlocksContent DEF UpdateTargets, TypeOK
<1>3. targetDetails' \in [Slots -> Details]
  BY <1>1 DEF UpdateTargets, TypeOK
<1>4. targetRevisions' \in [Slots -> Nat] /\ snapshotRevision' \in Nat
  BY PlanetType DEF UpdateTargets, TypeOK
<1> QED
  BY <1>2, <1>3, <1>4 DEF UpdateTargets

\* Finished meshes stay meshes when they are shown or dropped.
LEMMA MeshTypes ==
  ASSUME TypeOK
  PROVE  NowShown \in [Slots -> Meshes] /\ StillMeshing \in [Slots -> Meshes]
<1>1. NoMesh \in Meshes
  BY DEF NoMesh, Mesh, Meshes, Details, Nothing, Content
<1>2. ASSUME NEW c \in Slots PROVE [meshing[c] EXCEPT !.state = "shown"] \in Meshes
  BY DEF TypeOK, Meshes
<1>3. shown \in [Slots -> Meshes] /\ meshing \in [Slots -> Meshes]
  BY DEF TypeOK
<1> QED
  BY <1>1, <1>2, <1>3 DEF NowShown, StillMeshing

\* Every job of scheduleMissing is a mesh.
LEMMA ScheduledType ==
  ASSUME TypeOK, NEW c \in Slots
  PROVE  Scheduled(c) \in Meshes
<1>1. NoMesh \in Meshes
  BY DEF NoMesh, Mesh, Meshes, Details, Nothing, Content
<1>2. StillMeshing[c] \in Meshes
  BY MeshTypes
<1>3. Mesh("building", targetRevisions[c], "full", cache[c].data) \in Meshes
  <2>1. cache[c].data \in Content /\ targetRevisions[c] \in Nat
    BY DEF TypeOK, Entries
  <2> QED
    BY <2>1 DEF Mesh, Meshes, Details
<1>4. Mesh("building", targetRevisions[c], targetDetails[c], Part(latestSnapshot, c)) \in Meshes
  <2>1. Part(latestSnapshot, c) \in Content
    BY PartShows DEF TypeOK
  <2>2. targetRevisions[c] \in Nat /\ targetDetails[c] \in Details
    BY DEF TypeOK
  <2> QED
    BY <2>1, <2>2 DEF Mesh, Meshes
<1> QED
  BY <1>1, <1>2, <1>3, <1>4 DEF Scheduled

\* No step leaves the types, a failing load included.
LEMMA TypeStep == TypeOK /\ [FailingNext]_vars => TypeOK'
<1> SUFFICES ASSUME TypeOK, [FailingNext]_vars PROVE TypeOK'
  OBVIOUS
<1> USE DEF world, targets
<1>1. CASE UNCHANGED vars
  BY <1>1 DEF vars, TypeOK
<1>2. ASSUME NEW x \in Cells, NEW b \in Blocks, Edit(x, b) PROVE TypeOK'
  <2>1. Edited(planet, x, b) \in Surfaces
    <3>1. [planet.blocks EXCEPT ![x] = b] \in [Cells -> Blocks]
      BY PlanetType
    <3>2. [c \in Slots |-> IF c \in Marked(x) THEN planet.revision + 1
                           ELSE planet.chunkRevisions[c]] \in [Slots -> Nat]
      BY PlanetType
    <3> QED
      BY <3>1, <3>2, PlanetType DEF Edited, Surfaces
  <2>2. planets' \in [Planets -> Surfaces]
    BY <1>2, <2>1 DEF Edit, TypeOK
  <2> QED
    BY <1>2, <2>2 DEF Edit, TypeOK
<1>3. ASSUME NEW w \in Planets, SwitchPlanet(w) PROVE TypeOK'
  BY <1>3, InvalidateType DEF SwitchPlanet, TypeOK
<1>4. ASSUME NEW w \in Planets, LoadGame(w) PROVE TypeOK'
  <2>1. planets' \in [Planets -> Surfaces]
    BY <1>4, LoadableSane DEF LoadGame, Sane
  <2> QED
    BY <1>4, <2>1, InvalidateType DEF LoadGame, TypeOK
<1>5. ASSUME LoadGameFails PROVE TypeOK'
  <2>1. planets' \in [Planets -> Surfaces]
    BY <1>5, LoadableSane DEF LoadGameFails, Sane
  <2> QED
    BY <1>5, <2>1 DEF LoadGameFails, TypeOK
<1>6. ASSUME NEW p \in Places, BeginSync(p) PROVE TypeOK'
  <2>1. requests' \subseteq Slots
    BY <1>6 DEF BeginSync, Requested, Neighbors
  <2>2. prefetched' \in 0..PrefetchBudget
    BY <1>6, BudgetAssumption DEF BeginSync
  <2> QED
    BY <1>6, <2>1, <2>2, UpdateTargetsType DEF BeginSync, TypeOK
<1>7. ASSUME BeginOrbitalSync PROVE TypeOK'
  <2>1. prefetched' \in 0..PrefetchBudget
    BY <1>7, BudgetAssumption DEF BeginOrbitalSync
  <2>2. focus \in Places /\ streaming \in BOOLEAN
    BY DEF TypeOK
  <2> QED
    BY <1>7, <2>1, <2>2, UpdateTargetsType DEF BeginOrbitalSync, TypeOK
<1>8. ASSUME NEW c \in Slots, Request(c) PROVE TypeOK'
  <2>1. Entry("building", planet.chunkRevisions[c], Part(planet.blocks, c)) \in Entries
    <3>1. Part(planet.blocks, c) \in Content
      BY PlanetType, BlocksContent, PartShows
    <3>2. planet.chunkRevisions[c] \in Nat
      BY PlanetType
    <3> QED
      BY <3>1, <3>2 DEF Entry, Entries
  <2>2. cache' \in [Slots -> Entries]
    BY <1>8, <2>1 DEF Request, TypeOK
  <2>3. prefetched' \in 0..PrefetchBudget
    BY <1>8, BudgetAssumption DEF Request, EnoughPrefetched, TypeOK
  <2>4. requests' \subseteq Slots /\ wanted' \subseteq Slots
    BY <1>8 DEF Request, TypeOK
  <2> QED
    BY <1>8, <2>2, <2>3, <2>4 DEF Request, TypeOK
<1>9. ASSUME EndResidency PROVE TypeOK'
  <2> DEFINE e == [c \in Slots |-> IF Cancelled(c) THEN NoEntry ELSE cache[c]]
  <2>1. e \in [Slots -> Entries]
    BY DEF TypeOK, NoEntry, Entry, Entries, Nothing, Content
  <2>2. cache' \in [Slots -> Entries]
    BY <1>9, <2>1, CacheSyncKeeps DEF EndResidency
  <2>3. prefetched' \in 0..PrefetchBudget
    BY <1>9, BudgetAssumption DEF EndResidency
  <2> QED
    BY <1>9, <2>2, <2>3 DEF EndResidency, TypeOK
<1>10. ASSUME MeshSync PROVE TypeOK'
  <2>1. meshing' \in [Slots -> Meshes]
    BY <1>10, ScheduledType DEF MeshSync
  <2>2. shown' \in [Slots -> Meshes]
    BY <1>10, MeshTypes DEF MeshSync
  <2> QED
    BY <1>10, <2>1, <2>2 DEF MeshSync, TypeOK
<1>11. ASSUME FinishSync PROVE TypeOK'
  <2>1. cache' \in [Slots -> Entries]
    BY <1>11, CacheSyncKeeps DEF FinishSync, TypeOK
  <2> QED
    BY <1>11, <2>1, MeshTypes DEF FinishSync, TypeOK
<1>12. ASSUME NEW c \in Slots, PacketBuilt(c) PROVE TypeOK'
  <2>1. [cache[c] EXCEPT !.state = "built"] \in Entries
    BY DEF TypeOK, Entries
  <2>2. cache' \in [Slots -> Entries]
    BY <1>12, <2>1 DEF PacketBuilt, TypeOK
  <2> QED
    BY <1>12, <2>2 DEF PacketBuilt, TypeOK
<1>13. ASSUME NEW c \in Slots, MeshBuilt(c) PROVE TypeOK'
  <2>1. [meshing[c] EXCEPT !.state = "built"] \in Meshes
    BY DEF TypeOK, Meshes
  <2>2. meshing' \in [Slots -> Meshes]
    BY <1>13, <2>1 DEF MeshBuilt, TypeOK
  <2> QED
    BY <1>13, <2>2 DEF MeshBuilt, TypeOK
<1> QED
  BY <1>1, <1>2, <1>3, <1>4, <1>5, <1>6, <1>7, <1>8, <1>9, <1>10, <1>11, <1>12, <1>13, CellAssumption, BlockAssumption
     DEF FailingNext, Next, Game, Worker, SyncStep

\* The types hold throughout, whatever load fails: TypeOK of SurfaceStreaming.
THEOREM TypeCorrect == FailingSpec => []TypeOK
BY InitType, TypeStep, PTL DEF FailingSpec

(***************************************************************************)
(* What is built agrees with the planet                                    *)
(***************************************************************************)

\* What was built stays current when a block is edited: either the edit gives
\* the chunk a revision that nothing has, or it is not near it.
LEMMA CurrentEdited ==
  ASSUME NEW p, Sane(p), NEW x \in Cells, NEW b \in Blocks,
         NEW c \in Slots, NEW r \in Nat, NEW d, Current(p, r, d, c)
  PROVE  Current(Edited(p, x, b), r, d, c)
<1> DEFINE e == Edited(p, x, b)
<1>1. /\ p.blocks \in [Cells -> Blocks] /\ p.chunkRevisions \in [Slots -> Nat]
      /\ p.revision \in Nat
  BY DEF Sane, Surfaces
<1>2. /\ e.blocks = [p.blocks EXCEPT ![x] = b]
      /\ e.chunkRevisions[c] = IF c \in Marked(x) THEN p.revision + 1 ELSE p.chunkRevisions[c]
      /\ e.revision = p.revision + 1
  BY DEF Edited
<1>3. r <= p.revision
  BY DEF Current
<1>4. ASSUME r = e.chunkRevisions[c], NEW y \in Halo(c), c \in Marked(y)
      PROVE  d[y] = e.blocks[y]
  <2>1. c \notin Marked(x)
    BY <1>1, <1>2, <1>3, <1>4
  <2>2. y # x /\ y \in Cells
    BY <1>4, <2>1 DEF Halo
  <2>3. d[y] = p.blocks[y]
    BY <1>2, <1>4, <2>1 DEF Current
  <2> QED
    BY <1>1, <1>2, <2>2, <2>3
<1>5. r <= e.revision
  BY <1>1, <1>2, <1>3
<1>6. \A y \in Cells \ Halo(c) : d[y] = NoBlock
  BY DEF Current
<1> HIDE DEF e
<1>7. Current(e, r, d, c)
  BY <1>4, <1>5, <1>6 DEF Current
<1> QED
  BY <1>7 DEF e

\* What is built from the planet is current.
LEMMA CurrentPart ==
  ASSUME NEW p, Sane(p), NEW c \in Slots
  PROVE  Current(p, p.chunkRevisions[c], Part(p.blocks, c), c)
<1>1. p.blocks \in Content
  BY BlocksContent DEF Sane, Surfaces
<1>2. p.chunkRevisions[c] <= p.revision
  BY DEF Sane
<1> QED
  BY <1>1, <1>2, PartShows DEF Current

\* The present planet is sane.
LEMMA PlanetSane == IInv => Sane(planet)
BY DEF IInv, TypeOK, planet

\* A new game satisfies the invariant: nothing is built.
LEMMA InitInv == Init => IInv
<1> SUFFICES ASSUME Init PROVE IInv
  OBVIOUS
<1>1. \A w \in Planets : Sane(planets[w])
  BY GeneratedSane DEF Init
<1>2. planet = Generated
  BY DEF Init, planet
<1>3. TargetsInStep
  BY <1>2 DEF Init, TargetsInStep, Generated
<1>4. AllCurrent(cache) /\ AllCurrent(meshing) /\ AllCurrent(shown)
  BY DEF Init, AllCurrent, NoEntry, Entry, NoMesh, Mesh
<1> QED
  BY <1>1, <1>3, <1>4, InitType DEF IInv

\* After invalidate nothing is built and the targets are behind the planet.
LEMMA InvalidateInv ==
  ASSUME Invalidate, pc' = "play", currentPlanet' \in Planets,
         \A w \in Planets : Sane(planets'[w]), TypeOK'
  PROVE  IInv'
<1>1. Sane(planet')
  BY DEF planet
<1>2. planet'.revision \in Nat /\ planet'.revision > 0
  BY <1>1 DEF Sane, Surfaces
<1>3. TargetsInStep'
  BY <1>2 DEF TargetsInStep, Invalidate
<1>4. AllCurrent(cache)' /\ AllCurrent(meshing)' /\ AllCurrent(shown)'
  BY DEF Invalidate, AllCurrent, NoEntry, Entry, NoMesh, Mesh
<1> QED
  BY <1>3, <1>4 DEF IInv

\* The targets of a sync are those of the planet.
LEMMA UpdateTargetsInStep ==
  ASSUME IInv, UNCHANGED world, NEW p, NEW s, UpdateTargets(p, s)
  PROVE  TargetsInStep'
<1>1. planet' = planet
  BY DEF world, planet
<1>2. planet.revision \in Nat
  BY PlanetType DEF IInv
<1>3. CASE snapshotRevision = planet.revision
  BY <1>1, <1>2, <1>3 DEF UpdateTargets, TargetsInStep, IInv
<1>4. CASE snapshotRevision # planet.revision
  BY <1>1, <1>2, <1>4 DEF UpdateTargets, TargetsInStep
<1> QED
  BY <1>3, <1>4

\* The cache's sync leaves current packets only.
LEMMA CacheSyncCurrent ==
  ASSUME TypeOK, UNCHANGED world, NEW e \in [Slots -> Entries], AllCurrent(e), CacheSync(e)
  PROVE  AllCurrent(cache)'
<1>1. planet' = planet
  BY DEF world, planet
<1>2. SUFFICES ASSUME NEW c \in Slots, cache'[c].state # "none"
               PROVE  Current(planet, cache'[c].revision, cache'[c].data, c)
  BY <1>1 DEF AllCurrent
<1>3. cache'[c].revision = e[c].revision /\ cache'[c].data = e[c].data /\ e[c].state # "none"
  <2>1. cache'[c] = Completed(e, c) /\ cache'[c] # NoEntry
    BY <1>2, CacheSyncKeeps DEF NoEntry, Entry
  <2>2. CASE e[c].state # "built"
    BY <1>2, <2>1, <2>2 DEF Completed
  <2>3. CASE e[c].state = "built"
    BY <2>1, <2>3 DEF Completed, Entry
  <2> QED
    BY <2>2, <2>3
<1> QED
  BY <1>3 DEF AllCurrent

\* What the renderer shows and what it still waits for is current.
LEMMA MeshesStayCurrent ==
  ASSUME IInv
  PROVE  AllCurrent(NowShown) /\ AllCurrent(StillMeshing)
<1>1. ASSUME NEW c \in Slots, NowShown[c].state # "none"
      PROVE  Current(planet, NowShown[c].revision, NowShown[c].data, c)
  <2>1. CASE meshing[c].state = "built" /\ UpToDate(meshing[c], c)
    <3>1. NowShown[c].revision = meshing[c].revision /\ NowShown[c].data = meshing[c].data
      BY <2>1 DEF NowShown, IInv, TypeOK, Meshes
    <3> QED
      BY <2>1, <3>1 DEF IInv, AllCurrent
  <2>2. CASE ~(meshing[c].state = "built" /\ UpToDate(meshing[c], c))
    BY <1>1, <2>2 DEF NowShown, IInv, AllCurrent
  <2> QED
    BY <2>1, <2>2
<1>2. ASSUME NEW c \in Slots, StillMeshing[c].state # "none"
      PROVE  Current(planet, StillMeshing[c].revision, StillMeshing[c].data, c)
  <2>1. StillMeshing[c] = meshing[c]
    BY <1>2 DEF StillMeshing, NoMesh, Mesh
  <2> QED
    BY <1>2, <2>1 DEF IInv, AllCurrent
<1> QED
  BY <1>1, <1>2 DEF AllCurrent

\* scheduleMissing builds from the packet of the target revision or from the
\* snapshot, and both are the present planet's.
LEMMA ScheduledCurrent ==
  ASSUME IInv, pc = "mesh", NEW c \in Slots, Scheduled(c).state # "none"
  PROVE  Current(planet, Scheduled(c).revision, Scheduled(c).data, c)
<1>1. latestSnapshot = planet.blocks /\ targetRevisions = planet.chunkRevisions
  BY DEF IInv, TargetsInStep
<1>2. CASE Scheduled(c) = StillMeshing[c]
  BY <1>2, MeshesStayCurrent DEF AllCurrent
<1>3. CASE Scheduled(c) = NoMesh
  BY <1>3 DEF NoMesh, Mesh
<1>4. CASE /\ cache[c].state = "resident" /\ cache[c].revision = targetRevisions[c]
           /\ Scheduled(c) = Mesh("building", targetRevisions[c], "full", cache[c].data)
  BY <1>4 DEF Mesh, IInv, AllCurrent
<1>5. CASE Scheduled(c) = Mesh("building", targetRevisions[c], targetDetails[c],
                               Part(latestSnapshot, c))
  BY <1>1, <1>5, PlanetSane, CurrentPart DEF Mesh
<1> QED
  BY <1>2, <1>3, <1>4, <1>5 DEF Scheduled

\* An edit gives the chunks near it a revision that nothing was built at.
LEMMA EditInv ==
  ASSUME IInv, TypeOK', NEW x \in Cells, NEW b \in Blocks, Edit(x, b)
  PROVE  IInv'
<1> DEFINE e == Edited(planet, x, b)
<1>1. Sane(planet) /\ planet.revision \in Nat
  BY PlanetSane DEF Sane, Surfaces
<1>2. planets' = [planets EXCEPT ![currentPlanet] = e] /\ currentPlanet' = currentPlanet
  BY DEF Edit
<1>3. Sane(e)
  BY <1>1, EditedSane
<1>4. planet' = e
  BY <1>2 DEF planet, IInv, TypeOK
<1>5. \A w \in Planets : Sane(planets'[w])
  BY <1>2, <1>3 DEF IInv, TypeOK
<1>6. TargetsInStep'
  <2>1. e.revision = planet.revision + 1
    BY DEF Edited
  <2>2. snapshotRevision' = snapshotRevision /\ pc' = "play" /\ snapshotRevision \in Nat
    BY DEF Edit, targets, IInv, TypeOK
  <2>3. snapshotRevision <= planet.revision
    BY DEF IInv, TargetsInStep
  <2> QED
    BY <1>1, <1>4, <2>1, <2>2, <2>3 DEF TargetsInStep
<1>7. AllCurrent(cache)'
  <2>1. ASSUME NEW c \in Slots, cache[c].state # "none"
        PROVE  Current(e, cache[c].revision, cache[c].data, c)
    <3>1. cache[c].revision \in Nat
      BY DEF IInv, TypeOK, Entries
    <3>2. Current(planet, cache[c].revision, cache[c].data, c)
      BY <2>1 DEF IInv, AllCurrent
    <3> QED
      BY <1>1, <3>1, <3>2, CurrentEdited
  <2>2. cache' = cache
    BY DEF Edit
  <2> QED
    BY <1>4, <2>1, <2>2 DEF AllCurrent
<1>8. ASSUME NEW made, made \in [Slots -> Meshes], AllCurrent(made), NEW c \in Slots,
             made[c].state # "none"
      PROVE  Current(e, made[c].revision, made[c].data, c)
  <2>1. made[c].revision \in Nat
    BY <1>8 DEF Meshes
  <2>2. Current(planet, made[c].revision, made[c].data, c)
    BY <1>8 DEF AllCurrent
  <2> QED
    BY <1>1, <2>1, <2>2, CurrentEdited
<1>9. shown' = shown /\ meshing' = meshing
  BY DEF Edit
<1>10. AllCurrent(meshing)' /\ AllCurrent(shown)'
  <2>1. /\ meshing \in [Slots -> Meshes] /\ AllCurrent(meshing)
        /\ shown \in [Slots -> Meshes] /\ AllCurrent(shown)
    BY DEF IInv, TypeOK
  <2> QED
    BY <1>4, <1>8, <1>9, <2>1 DEF AllCurrent
<1> QED
  BY <1>5, <1>6, <1>7, <1>10 DEF IInv

\* A request that starts a job gives it the planet's present blocks.
LEMMA RequestInv ==
  ASSUME IInv, TypeOK', NEW c \in Slots, Request(c)
  PROVE  IInv'
<1>1. UNCHANGED <<world, targets, shown, meshing, pc>> /\ planet' = planet
  BY DEF Request, world, planet
<1>2. \/ cache' = cache
      \/ cache' = [cache EXCEPT ![c] =
                     Entry("building", planet.chunkRevisions[c], Part(planet.blocks, c))]
  BY DEF Request
<1>3. AllCurrent(cache)'
  <2>1. CASE cache' = cache
    BY <1>1, <2>1 DEF IInv, AllCurrent
  <2>2. CASE cache' = [cache EXCEPT ![c] =
                         Entry("building", planet.chunkRevisions[c], Part(planet.blocks, c))]
    <3>1. Current(planet, cache'[c].revision, cache'[c].data, c)
      BY <2>2, PlanetSane, CurrentPart DEF Entry, IInv, TypeOK
    <3>2. \A d \in Slots \ {c} : cache'[d] = cache[d]
      BY <2>2 DEF IInv, TypeOK
    <3> QED
      BY <1>1, <3>1, <3>2 DEF IInv, AllCurrent
  <2> QED
    BY <1>2, <2>1, <2>2
<1> QED
  BY <1>1, <1>3 DEF IInv, AllCurrent, TargetsInStep, targets, world

\* Every step keeps the invariant.
LEMMA StepInv == IInv /\ [Next]_vars => IInv'
<1> SUFFICES ASSUME IInv, [Next]_vars PROVE IInv'
  OBVIOUS
<1>1. TypeOK /\ TypeOK'
  BY TypeStep DEF IInv, FailingNext
<1>2. CASE UNCHANGED vars
  BY <1>2 DEF vars, IInv, TypeOK, Sane, TargetsInStep, AllCurrent, planet
<1>3. ASSUME NEW x \in Cells, NEW b \in Blocks, Edit(x, b) PROVE IInv'
  BY <1>1, <1>3, EditInv
<1>4. ASSUME NEW w \in Planets, SwitchPlanet(w) PROVE IInv'
  <2>1. \A v \in Planets : Sane(planets'[v])
    BY <1>4 DEF SwitchPlanet, IInv
  <2> QED
    BY <1>1, <1>4, <2>1, InvalidateInv DEF SwitchPlanet
<1>5. ASSUME NEW w \in Planets, LoadGame(w) PROVE IInv'
  <2>1. \A v \in Planets : Sane(planets'[v])
    BY <1>5, LoadableSane DEF LoadGame
  <2> QED
    BY <1>1, <1>5, <2>1, InvalidateInv DEF LoadGame, IInv
<1>6. ASSUME UNCHANGED <<world, cache, shown, meshing>>, TargetsInStep' PROVE IInv'
  BY <1>1, <1>6 DEF IInv, AllCurrent, planet, world
<1>7. ASSUME NEW p \in Places, BeginSync(p) PROVE IInv'
  BY <1>6, <1>7, UpdateTargetsInStep DEF BeginSync, world
<1>8. ASSUME BeginOrbitalSync PROVE IInv'
  BY <1>6, <1>8, UpdateTargetsInStep DEF BeginOrbitalSync, world
<1>9. ASSUME NEW c \in Slots, Request(c) PROVE IInv'
  BY <1>1, <1>9, RequestInv
<1>10. ASSUME UNCHANGED <<world, targets>>, pc' = pc \/ pc' = "play" \/ pc # "play",
              AllCurrent(cache)', AllCurrent(meshing)', AllCurrent(shown)'
       PROVE  IInv'
  <2>1. TargetsInStep'
    BY <1>10 DEF IInv, TargetsInStep, targets, world, planet
  <2> QED
    BY <1>1, <1>10, <2>1 DEF IInv, world
<1>11. /\ UNCHANGED <<world, cache>> => AllCurrent(cache)'
       /\ UNCHANGED <<world, shown>> => AllCurrent(shown)'
       /\ UNCHANGED <<world, meshing>> => AllCurrent(meshing)'
  BY DEF IInv, AllCurrent, world, planet
<1>12. ASSUME EndResidency PROVE IInv'
  <2> DEFINE e == [c \in Slots |-> IF Cancelled(c) THEN NoEntry ELSE cache[c]]
  <2>1. e \in [Slots -> Entries]
    BY <1>1 DEF TypeOK, NoEntry, Entry, Entries, Nothing, Content
  <2>2. AllCurrent(e)
    BY DEF IInv, AllCurrent, NoEntry, Entry
  <2>3. AllCurrent(cache)'
    BY <1>1, <1>12, <2>1, <2>2, CacheSyncCurrent DEF EndResidency, world
  <2> QED
    BY <1>10, <1>11, <1>12, <2>3 DEF EndResidency, world
<1>13. ASSUME MeshSync PROVE IInv'
  <2>1. planet' = planet
    BY <1>13 DEF MeshSync, world, planet
  <2>2. AllCurrent(shown)'
    BY <1>13, <2>1, MeshesStayCurrent DEF MeshSync, AllCurrent
  <2>3. AllCurrent(meshing)'
    <3>1. \A c \in Slots : meshing'[c] = Scheduled(c)
      BY <1>13 DEF MeshSync
    <3>2. pc = "mesh"
      BY <1>13 DEF MeshSync
    <3> QED
      BY <2>1, <3>1, <3>2, ScheduledCurrent DEF AllCurrent
  <2> QED
    BY <1>10, <1>11, <1>13, <2>2, <2>3 DEF MeshSync, world
<1>14. ASSUME FinishSync PROVE IInv'
  <2>1. planet' = planet
    BY <1>14 DEF FinishSync, world, planet
  <2>2. AllCurrent(shown)' /\ AllCurrent(meshing)'
    BY <1>14, <2>1, MeshesStayCurrent DEF FinishSync, AllCurrent
  <2>3. AllCurrent(cache)'
    <3>1. cache \in [Slots -> Entries] /\ AllCurrent(cache)
      BY DEF IInv, TypeOK
    <3> QED
      BY <1>1, <1>14, <3>1, CacheSyncCurrent DEF FinishSync, world
  <2> QED
    BY <1>10, <1>14, <2>2, <2>3 DEF FinishSync, world
<1>15. ASSUME NEW c \in Slots, PacketBuilt(c) PROVE IInv'
  <2>1. \A d \in Slots : /\ cache'[d].revision = cache[d].revision
                         /\ cache'[d].data = cache[d].data
                         /\ cache'[d].state # "none" => cache[d].state # "none"
    BY <1>1, <1>15 DEF PacketBuilt, TypeOK, Entries
  <2>2. AllCurrent(cache)'
    BY <1>15, <2>1 DEF PacketBuilt, IInv, AllCurrent, world, planet
  <2> QED
    BY <1>10, <1>11, <1>15, <2>2 DEF PacketBuilt, world
<1>16. ASSUME NEW c \in Slots, MeshBuilt(c) PROVE IInv'
  <2>1. \A d \in Slots : /\ meshing'[d].revision = meshing[d].revision
                         /\ meshing'[d].data = meshing[d].data
                         /\ meshing'[d].state # "none" => meshing[d].state # "none"
    BY <1>1, <1>16 DEF MeshBuilt, TypeOK, Meshes
  <2>2. AllCurrent(meshing)'
    BY <1>16, <2>1 DEF MeshBuilt, IInv, AllCurrent, world, planet
  <2> QED
    BY <1>10, <1>11, <1>16, <2>2 DEF MeshBuilt, world
<1> QED
  BY <1>2, <1>3, <1>4, <1>5, <1>7, <1>8, <1>9, <1>12, <1>13, <1>14, <1>15, <1>16,
     CellAssumption, BlockAssumption
     DEF Next, Game, Worker, SyncStep

(***************************************************************************)
(* Theorems                                                                *)
(***************************************************************************)

\* The invariant holds while every load succeeds.
THEOREM Invariance == Spec => []IInv
BY InitInv, StepInv, PTL DEF Spec

\* What SurfaceWorldReadService hands out is what PlanetSurface holds:
\* ReadsAuthoritative of SurfaceStreaming, for any layout of the chunks.
THEOREM ReadsAgree == Spec => []ReadsAuthoritative
<1>1. IInv => ReadsAuthoritative
  <2> SUFFICES ASSUME IInv, NEW c \in Slots, ReadsCache(c), NEW x \in Cells, Owner[x] = c
               PROVE  cache[c].data[x] = planet.blocks[x]
    BY DEF ReadsAuthoritative
  <2>1. x \in Halo(c) /\ c \in Marked(x)
    BY DEF Halo, Marked
  <2>2. Current(planet, cache[c].revision, cache[c].data, c)
    BY DEF ReadsCache, IInv, AllCurrent
  <2> QED
    BY <2>1, <2>2 DEF ReadsCache, Current
<1> QED
  BY <1>1, Invariance, PTL

\* A mesh that counts as up to date shows its chunk and the cells across the
\* chunk's edges as the planet has them: ReadyShowsPlanet of SurfaceStreaming,
\* for any layout of cells and chunks, the corners where several meet included.
THEOREM MeshesAgree == Spec => []ReadyShowsPlanet
<1>1. IInv => ReadyShowsPlanet
  <2> SUFFICES ASSUME IInv, snapshotRevision = planet.revision, NEW c \in Slots,
                      shown[c].state = "shown", UpToDate(shown[c], c), NEW x \in AcrossEdges(c)
               PROVE  shown[c].data[x] = planet.blocks[x]
    BY DEF ReadyShowsPlanet
  <2>1. x \in Halo(c) /\ c \in Marked(x)
    BY DEF AcrossEdges, Marked
  <2>2. shown[c].revision = planet.chunkRevisions[c]
    BY DEF UpToDate, IInv, TargetsInStep
  <2>3. Current(planet, shown[c].revision, shown[c].data, c)
    BY DEF IInv, AllCurrent
  <2> QED
    BY <2>1, <2>2, <2>3 DEF Current
<1> QED
  BY <1>1, Invariance, PTL

\* The frontier of SurfaceChunkCache::request holds, whatever is requested
\* and whatever load fails: FrontierHolds of SurfaceStreaming.
THEOREM FrontierBounded == FailingSpec => []FrontierHolds
<1>1. Init => FrontierHolds
  <2> SUFFICES ASSUME Init PROVE FrontierHolds
    OBVIOUS
  <2>1. Pending = {}
    BY DEF Init, Pending, NoEntry, Entry
  <2> QED
    BY <2>1, FS_EmptySet, BudgetAssumption DEF FrontierHolds
<1>2. TypeOK /\ FrontierHolds /\ [FailingNext]_vars => FrontierHolds'
  <2> SUFFICES ASSUME TypeOK, FrontierHolds, [FailingNext]_vars PROVE FrontierHolds'
    OBVIOUS
  <2>1. ASSUME Pending' \subseteq Pending PROVE FrontierHolds'
    <3>1. IsFiniteSet(Pending) /\ Cardinality(Pending) \in Nat /\ Cardinality(Pending') \in Nat
      BY SlotsCount DEF Pending
    <3>2. Cardinality(Pending') <= Cardinality(Pending)
      BY <2>1, <3>1, FS_Subset
    <3> QED
      BY <3>1, <3>2, BudgetAssumption DEF FrontierHolds
  <2>2. ASSUME NEW c \in Slots, Request(c) PROVE FrontierHolds'
    <3>1. CASE cache' = cache
      BY <2>1, <3>1 DEF Pending
    <3>2. CASE ~Refused(c) /\ cache' = [cache EXCEPT ![c] =
                 Entry("building", planet.chunkRevisions[c], Part(planet.blocks, c))]
      <4>1. Pending' = Pending \union {c}
        BY <3>2 DEF Pending, TypeOK, Entry
      <4>2. CASE c \in Pending
        BY <2>1, <4>1, <4>2
      <4>3. CASE c \notin Pending /\ Cardinality(Pending) < MaxPending
        <5>1. IsFiniteSet(Pending) /\ Cardinality(Pending) \in Nat
          BY SlotsCount DEF Pending
        <5>2. Cardinality(Pending') = Cardinality(Pending) + 1
          BY <4>1, <4>3, <5>1, FS_AddElement
        <5> QED
          BY <4>3, <5>1, <5>2, BudgetAssumption DEF FrontierHolds
      <4>4. Cardinality(Pending) \in Nat
        BY SlotsCount DEF Pending
      <4> QED
        BY <3>2, <4>2, <4>3, <4>4, BudgetAssumption DEF Refused
    <3> QED
      BY <2>2, <3>1, <3>2 DEF Request
  <2>3. ASSUME NEW e \in [Slots -> Entries], CacheSync(e), \A c \in Slots : e[c] \in {NoEntry, cache[c]}
        PROVE  FrontierHolds'
    <3>1. ASSUME NEW c \in Slots, cache'[c].state \in {"building", "built"}
          PROVE  cache[c].state \in {"building", "built"}
      <4>1. cache'[c] \in {NoEntry, e[c], Entry("resident", e[c].revision, e[c].data)}
        BY <2>3, CacheSyncKeeps
      <4>2. cache'[c] = e[c]
        BY <3>1, <4>1 DEF NoEntry, Entry
      <4> QED
        BY <2>3, <3>1, <4>2 DEF NoEntry, Entry
    <3>2. Pending' \subseteq Pending
      BY <3>1 DEF Pending
    <3> QED
      BY <2>1, <3>2
  <2>4. CASE EndResidency
    <3> DEFINE e == [c \in Slots |-> IF Cancelled(c) THEN NoEntry ELSE cache[c]]
    <3>1. e \in [Slots -> Entries]
      BY DEF TypeOK, NoEntry, Entry, Entries, Nothing, Content
    <3> QED
      BY <2>3, <2>4, <3>1 DEF EndResidency
  <2>5. CASE FinishSync
    BY <2>3, <2>5 DEF FinishSync, TypeOK
  <2>6. CASE \E c \in Slots : PacketBuilt(c)
    <3>1. PICK c \in Slots : PacketBuilt(c)
      BY <2>6
    <3>2. Pending' \subseteq Pending
      BY <3>1 DEF PacketBuilt, Pending, TypeOK, Entries
    <3> QED
      BY <2>1, <3>2
  <2>7. ASSUME cache' \in {cache, [c \in Slots |-> NoEntry]} PROVE FrontierHolds'
    <3>1. Pending' \subseteq Pending
      BY <2>7 DEF Pending, NoEntry, Entry
    <3> QED
      BY <2>1, <3>1
  <2>8. CASE \E x \in Cells, b \in Blocks : Edit(x, b)
    BY <2>7, <2>8 DEF Edit
  <2>9. CASE \E w \in Planets : SwitchPlanet(w) \/ LoadGame(w)
    BY <2>7, <2>9 DEF SwitchPlanet, LoadGame, Invalidate
  <2>10. CASE BeginOrbitalSync \/ \E p \in Places : BeginSync(p)
    BY <2>7, <2>10 DEF BeginOrbitalSync, BeginSync
  <2>11. CASE LoadGameFails \/ MeshSync \/ \E c \in Slots : MeshBuilt(c)
    BY <2>7, <2>11 DEF LoadGameFails, MeshSync, MeshBuilt
  <2>12. CASE UNCHANGED vars
    BY <2>7, <2>12 DEF vars
  <2> QED
    BY <2>2, <2>4, <2>5, <2>6, <2>8, <2>9, <2>10, <2>11, <2>12, CellAssumption, BlockAssumption
       DEF FailingNext, Next, Game, Worker, SyncStep
<1> QED
  BY <1>1, <1>2, TypeCorrect, PTL DEF FailingSpec

=============================================================================
