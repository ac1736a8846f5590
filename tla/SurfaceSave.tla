----------------------------- MODULE SurfaceSave -----------------------------
(***************************************************************************)
(* The campaign save of Game.cpp over the sidecar store of                 *)
(* SurfaceChunkPersistence.cpp: one file per touched chunk and one global  *)
(* manifest, each published by writeAtomicGeneration, which writes a .tmp  *)
(* file, rotates the current file to .prev and renames .tmp into place.    *)
(* Nothing reads a .tmp file that a crash left behind, the next writer     *)
(* truncates it: the .tmp files are no state of the model.                 *)
(*                                                                         *)
(* One action is one call of the file system, so that a crash or an I/O    *)
(* error can happen between any two of them.  The game loop is one thread: *)
(* nothing edits the world while saveGame or loadGame runs.  A chunk of    *)
(* any of the three planets is an element of Chunks; what its journal and  *)
(* its machines hold is one element of Values, Base standing for a chunk   *)
(* with nothing to save.                                                   *)
(***************************************************************************)
EXTENDS Naturals

CONSTANTS
  Chunks,         \* addresses of the chunks a player may touch, all planets
  Manifest,       \* the file elysium_save.txt
  Values,         \* what a touched chunk may hold
  Base,           \* an untouched chunk: the generated baseline, never saved
  NoCampaign,     \* ghost value: no save has been committed
  MaxGeneration,  \* bound: no save starts from this generation or above
  FaultKinds,     \* how a published file may be damaged from outside
  FaultFiles,     \* which files may be damaged
  MaxFaults       \* bound: number of damages

Files == Chunks \union {Manifest}
World == [Chunks -> Values \union {Base}]

ASSUME ManifestAssumption == Manifest \notin Chunks
ASSUME BaseAssumption == Base \notin Values
ASSUME NoCampaignAssumption == NoCampaign \notin World
ASSUME BoundAssumption == MaxGeneration \in Nat /\ MaxFaults \in Nat
ASSUME FaultAssumption == FaultKinds \subseteq {"torn", "blank"} /\ FaultFiles \subseteq Files

VARIABLES
  cur, prev,       \* the published file of each destination and its .prev
  live,            \* the journals and machines in memory
  saveGeneration,  \* Game::saveGeneration_
  pc,              \* where the game is; "down" when no process runs
  target,          \* the destination being published
  todo,            \* touched chunks the running save has not published
  previousRefs,    \* saveGame's previousSurfaceRefs
  rotated,         \* writeAtomicGenerationImpl's local
  faults,          \* damages so far
  committed,       \* ghost: the world of the last committed save
  fallback         \* ghost: the one before it, until the next save starts

disk == <<cur, prev>>
saving == <<target, todo, previousRefs, rotated>>
vars == <<cur, prev, live, saveGeneration, pc, target, todo,
          previousRefs, rotated, faults, committed, fallback>>

(***************************************************************************)
(* A file is absent, damaged so that its length or checksum is wrong       *)
(* ("torn"), damaged so that its header line is gone ("blank"), or whole.  *)
(* A whole chunk file holds the chunk's value, a whole manifest the world  *)
(* it was written from, of which the code keeps the references and the     *)
(* player's part.                                                          *)
(***************************************************************************)
Whole(g, d) == [kind |-> "ok", gen |-> g, data |-> d]
Damaged(k) == [kind |-> k, gen |-> 0, data |-> Base]
NoFile == Damaged("none")

\* What the file at destination f may be.
FileAt(f) ==
  [kind : {"none", "torn", "blank"}, gen : {0}, data : {Base}]
    \union [kind : {"ok"}, gen : Nat, data : IF f = Manifest THEN World ELSE Values \union {Base}]

AnyFile == [kind : {"none", "torn", "blank", "ok"}, gen : Nat,
            data : World \union Values \union {Base}]
Disk == {d \in [Files -> AnyFile] : \A f \in Files : d[f] \in FileAt(f)}

EmptyWorld == [c \in Chunks |-> Base]

\* The chunks saveGame collects: a non-empty journal, a machine or a portal.
Refs(w) == {c \in Chunks : w[c] # Base}

(***************************************************************************)
(* Reading                                                                 *)
(***************************************************************************)

\* readCheckedPath with allowPlainLegacy: a file without the header line is
\* taken for a plain legacy manifest and counts as loaded.
ReadsAsManifest(f) == f.kind \in {"ok", "blank"}

\* Mutant of ReadManifest: .prev is read only when the current file is missing.
ReadManifestTrustsCurrent ==
  IF cur[Manifest].kind # "none" THEN cur[Manifest]
  ELSE IF ReadsAsManifest(prev[Manifest]) THEN prev[Manifest]
  ELSE NoFile

\* readCheckedAtomicGeneration.
ReadManifest ==
  IF ReadsAsManifest(cur[Manifest]) THEN cur[Manifest]
  ELSE IF ReadsAsManifest(prev[Manifest]) THEN prev[Manifest]
  ELSE NoFile

\* SurfaceChunkStore::loadPath and load with the manifest's generation.
Fits(f, g) == f.kind = "ok" /\ f.gen = g

\* Mutant of LoadRecord: a readable current file is taken whatever its generation.
LoadRecordAnyGeneration(c, g) ==
  IF cur[c].kind = "ok" THEN cur[c]
  ELSE IF Fits(prev[c], g) THEN prev[c]
  ELSE NoFile

LoadRecord(c, g) ==
  IF Fits(cur[c], g) THEN cur[c]
  ELSE IF Fits(prev[c], g) THEN prev[c]
  ELSE NoFile

Readable(m) == {c \in Refs(m.data) : LoadRecord(c, m.gen).kind = "ok"}

\* loadGame returns true: the manifest parses and every reference loads.
Loads(m) == m.kind = "ok" /\ Readable(m) = Refs(m.data)

\* The world loadGame rebuilds when it applied the records of S.
Loaded(m, S) == [c \in Chunks |-> IF c \in S THEN LoadRecord(c, m.gen).data ELSE Base]

\* What a start of the game would find now.
Recovered ==
  IF Loads(ReadManifest)
    THEN Loaded(ReadManifest, Refs(ReadManifest.data))
    ELSE NoCampaign

(***************************************************************************)
(* Initial states: no save at all, or the sidecars and the manifest a      *)
(* schema 7 build left, which carry generation 0.                          *)
(***************************************************************************)
Init ==
  /\ \/ /\ committed = NoCampaign
        /\ cur = [f \in Files |-> NoFile]
     \/ \E w \in World :
          /\ committed = w
          /\ cur = [f \in Files |->
                      IF f = Manifest THEN Whole(0, w)
                      ELSE IF f \in Refs(w) THEN Whole(0, w[f])
                      ELSE NoFile]
  /\ prev = [f \in Files |-> NoFile]
  /\ live = EmptyWorld
  /\ saveGeneration = 0
  /\ pc = "down"
  /\ target = Manifest
  /\ todo = {}
  /\ previousRefs = {}
  /\ rotated = FALSE
  /\ faults = 0
  /\ fallback = NoCampaign

\* Mutant of LoadGame: the generation of the manifest is not taken over.
LoadGameForgetsGeneration ==
  /\ Loads(ReadManifest)
  /\ live' = Loaded(ReadManifest, Refs(ReadManifest.data))
  /\ UNCHANGED saveGeneration

(***************************************************************************)
(* loadGame, at the start of the game and on F9.  Failing before           *)
(* initWorlds leaves the world as it was; failing on a chunk leaves the    *)
(* records applied until then; both keep saveGeneration_.                  *)
(***************************************************************************)
LoadGame ==
  LET m == ReadManifest IN
  \/ /\ Loads(m)
     /\ live' = Loaded(m, Refs(m.data))
     /\ saveGeneration' = m.gen
  \/ /\ m.kind # "ok"
     /\ UNCHANGED <<live, saveGeneration>>
  \/ /\ m.kind = "ok" /\ ~Loads(m)
     /\ \E S \in SUBSET Readable(m) : live' = Loaded(m, S)
     /\ UNCHANGED saveGeneration

Launch ==
  /\ pc = "down"
  /\ LoadGame
  /\ pc' = "play"
  /\ UNCHANGED <<disk, saving, faults, committed, fallback>>

Reload ==
  /\ pc = "play"
  /\ LoadGame
  /\ UNCHANGED <<disk, pc, saving, faults, committed, fallback>>

\* The player edits a chunk; undoing every edit removes its journal.
Edit(c, v) ==
  /\ pc = "play"
  /\ live' = [live EXCEPT ![c] = v]
  /\ UNCHANGED <<disk, saveGeneration, pc, saving, faults, committed, fallback>>

(***************************************************************************)
(* saveGame                                                                *)
(***************************************************************************)
nextSaveGeneration == saveGeneration + 1

\* The bytes saveGame writes to file f.
Content(f) == Whole(nextSaveGeneration, IF f = Manifest THEN live ELSE live[f])

\* Mutant of NextTarget: the manifest is one more entry of the work list.
NextTargetListsManifest(S) ==
  /\ todo' = S \union {Manifest}
  /\ target' \in S \union {Manifest}
  /\ rotated' = FALSE
  /\ pc' = "write"

\* Go on with a chunk of S, or with the manifest when none is left.
NextTarget(S) ==
  /\ todo' = S
  /\ target' \in IF S = {} THEN {Manifest} ELSE S
  /\ rotated' = FALSE
  /\ pc' = "write"

\* saveGame returns, its locals are gone.
Return ==
  /\ pc' = "play"
  /\ target' = Manifest
  /\ todo' = {}
  /\ previousRefs' = {}
  /\ rotated' = FALSE

StartSave ==
  /\ pc = "play"
  /\ saveGeneration < MaxGeneration
  /\ previousRefs' = IF ReadManifest.kind = "ok" THEN Refs(ReadManifest.data) ELSE {}
  /\ NextTarget(Refs(live))
  /\ fallback' = NoCampaign
  /\ UNCHANGED <<disk, live, saveGeneration, faults, committed>>

\* writeCheckedAtomicGeneration's rotatePrevious, for a manifest that exists.
RotatesManifest == ReadsAsManifest(cur[Manifest]) \/ prev[Manifest].kind = "none"

\* Mutant of RotatesChunk: a retry of the same generation rotates as well.
RotatesAlways(c) == cur[c].kind = "ok" \/ prev[c].kind = "none"

\* SurfaceChunkStore::save's rotatePrevious, for a chunk file that exists.
RotatesChunk(c) ==
  /\ ~Fits(cur[c], nextSaveGeneration)
  /\ cur[c].kind = "ok" \/ prev[c].kind = "none"

\* writeAllDurable fills and syncs the .tmp file; what becomes of the
\* destination is decided next.
WriteTemp ==
  /\ pc = "write"
  /\ LET rotatePrevious == IF target = Manifest THEN RotatesManifest
                           ELSE RotatesChunk(target)
     IN pc' = IF cur[target].kind = "none" THEN "publish"
              ELSE IF rotatePrevious THEN "drop" ELSE "replace"
  /\ UNCHANGED <<disk, live, saveGeneration, saving, faults, committed, fallback>>

\* remove(previous): its error is ignored, the rename overwrites the file.
DropPrevious ==
  /\ pc = "drop"
  /\ prev' \in {[prev EXCEPT ![target] = NoFile], prev}
  /\ pc' = "rotate"
  /\ UNCHANGED <<cur, live, saveGeneration, saving, faults, committed, fallback>>

RotateCurrent ==
  /\ pc = "rotate"
  /\ prev' = [prev EXCEPT ![target] = cur[target]]
  /\ cur' = [cur EXCEPT ![target] = NoFile]
  /\ rotated' = TRUE
  /\ pc' = "publish"
  /\ UNCHANGED <<live, saveGeneration, target, todo, previousRefs, faults,
                 committed, fallback>>

\* Replacing an uncommitted retry, or a damaged file, does not rotate.
ReplaceCurrent ==
  /\ pc = "replace"
  /\ cur' = [cur EXCEPT ![target] = NoFile]
  /\ pc' = "publish"
  /\ UNCHANGED <<prev, live, saveGeneration, saving, faults, committed, fallback>>

\* rename(temp, destination)
PublishFile ==
  /\ pc = "publish"
  /\ cur' = [cur EXCEPT ![target] = Content(target)]
  /\ UNCHANGED prev

PublishChunk ==
  /\ PublishFile
  /\ target # Manifest
  /\ NextTarget(todo \ {target})
  /\ UNCHANGED <<live, saveGeneration, previousRefs, faults, committed, fallback>>

\* The commit point of the whole save.
PublishManifest ==
  /\ PublishFile
  /\ target = Manifest
  /\ saveGeneration' = nextSaveGeneration
  /\ committed' = live
  /\ fallback' = committed
  /\ rotated' = FALSE
  /\ pc' = "prune"
  /\ UNCHANGED <<live, target, todo, previousRefs, faults>>

(***************************************************************************)
(* An I/O error makes writeAtomicGenerationImpl clean up and return false, *)
(* and saveGame returns: no file written before is taken back.             *)
(***************************************************************************)
StepFails ==
  /\ pc \in {"write", "rotate", "replace"}
  /\ Return
  /\ UNCHANGED <<disk, live, saveGeneration, faults, committed, fallback>>

\* When the last rename fails the rotation is undone, which may fail too.
PublishFails ==
  /\ pc = "publish"
  /\ \/ /\ rotated
        /\ cur' = [cur EXCEPT ![target] = prev[target]]
        /\ prev' = [prev EXCEPT ![target] = NoFile]
     \/ UNCHANGED disk
  /\ Return
  /\ UNCHANGED <<live, saveGeneration, faults, committed, fallback>>

(***************************************************************************)
(* pruneSurfaceChunkStore: one removal at a time, in the order the         *)
(* directory is listed; an error ends it.                                  *)
(***************************************************************************)
\* Mutant of Keep: the previous manifest's references are not kept.
KeepCurrentOnly == Refs(live)

Keep == Refs(live) \union previousRefs

PruneFile(c) ==
  /\ pc = "prune"
  /\ c \notin Keep
  /\ \/ /\ cur[c].kind # "none"
        /\ cur' = [cur EXCEPT ![c] = NoFile]
        /\ UNCHANGED prev
     \/ /\ prev[c].kind # "none"
        /\ prev' = [prev EXCEPT ![c] = NoFile]
        /\ UNCHANGED cur
  /\ UNCHANGED <<live, saveGeneration, pc, saving, faults, committed, fallback>>

\* The scan ends, or an error ends it early and leaves files behind.
PruneEnds ==
  /\ pc = "prune"
  /\ Return
  /\ UNCHANGED <<disk, live, saveGeneration, faults, committed, fallback>>

(***************************************************************************)
(* The process ends, anywhere: its memory is gone, the files stay.         *)
(***************************************************************************)
Crash ==
  /\ pc # "down"
  /\ pc' = "down"
  /\ live' = EmptyWorld
  /\ saveGeneration' = 0
  /\ target' = Manifest
  /\ todo' = {}
  /\ previousRefs' = {}
  /\ rotated' = FALSE
  /\ UNCHANGED <<disk, faults, committed, fallback>>

\* A published file is damaged from outside while no save is running.  A
\* schema 7 manifest has no header: any damage reads as "blank".
Damage(f, k) ==
  /\ pc \in {"down", "play"}
  /\ faults < MaxFaults
  /\ cur[f].kind = "ok"
  /\ k = IF f \in Chunks THEN "torn" ELSE IF cur[f].gen = 0 THEN "blank" ELSE k
  /\ cur' = [cur EXCEPT ![f] = Damaged(k)]
  /\ faults' = faults + 1
  /\ UNCHANGED <<prev, live, saveGeneration, pc, saving, committed, fallback>>

SaveStep ==
  \/ StartSave \/ WriteTemp \/ DropPrevious \/ RotateCurrent
  \/ ReplaceCurrent \/ PublishChunk \/ PublishManifest
  \/ StepFails \/ PublishFails \/ PruneEnds
  \/ \E c \in Chunks : PruneFile(c)

Next ==
  \/ Launch \/ Reload \/ Crash
  \/ \E c \in Chunks, v \in Values \union {Base} : Edit(c, v)
  \/ SaveStep

FaultyNext == Next \/ \E f \in FaultFiles, k \in FaultKinds : Damage(f, k)

Spec == Init /\ [][Next]_vars
FaultySpec == Init /\ [][FaultyNext]_vars

(***************************************************************************)
(* Properties                                                              *)
(***************************************************************************)
TypeOK ==
  /\ cur \in Disk
  /\ prev \in Disk
  /\ live \in World
  /\ saveGeneration \in Nat
  /\ pc \in {"down", "play", "write", "drop", "rotate", "replace", "publish", "prune"}
  /\ target \in Files
  /\ todo \in SUBSET Chunks
  /\ previousRefs \in SUBSET Chunks
  /\ rotated \in BOOLEAN
  /\ faults \in 0 .. MaxFaults
  /\ committed \in World \union {NoCampaign}
  /\ fallback \in World \union {NoCampaign}

\* A crash at any point, followed by a start, gives back exactly the world of
\* the last committed save: Game.cpp's saveGame binds the sidecars to the
\* manifest so that no crash mixes two campaign states.
Recoverable == Recovered = committed

\* From a commit until the next save starts, the manifest kept as .prev still
\* finds every chunk it refers to, as the campaign was then: the cleanup of
\* pruneSurfaceChunkStore and the rotations never take them away.
PreviousRecoverable ==
  fallback # NoCampaign =>
    /\ Loads(prev[Manifest])
    /\ Loaded(prev[Manifest], Refs(prev[Manifest].data)) = fallback

\* "Every newly committed save receives a monotonically increasing
\* save_generation": the manifest a start would read never goes back.
GenerationGrows == [][ReadManifest'.gen >= ReadManifest.gen]_vars

(***************************************************************************)
(* What holds, and what does not, when published files may be damaged at   *)
(* rest (FaultySpec).                                                      *)
(***************************************************************************)

\* Between a commit and the next save, a manifest whose length or checksum is
\* wrong costs at most one generation: readCheckedAtomicGeneration falls back
\* to .prev, whose chunks the rotations and the cleanup have kept.
OneGenerationLost == fallback # NoCampaign => Recovered \in {committed, fallback}

\* Game.cpp's saveGame: "If a crash occurs before manifest publication, the
\* old manifest selects the retained previous chunk generations instead of
\* accidentally mixing campaign states."
NeverMixed == Recovered \in {committed, NoCampaign}

(***************************************************************************)
(* The inductive invariant behind Recoverable, for Spec.                   *)
(***************************************************************************)
NothingDamaged ==
  \A f \in Files : cur[f].kind \in {"none", "ok"} /\ prev[f].kind \in {"none", "ok"}

\* The manifest a start would read is the last committed one.
ManifestIsCommitted ==
  IF committed = NoCampaign THEN ReadManifest = NoFile
  ELSE ReadManifest = Whole(ReadManifest.gen, committed)

\* Between saves, memory knows the generation on disk.
GenerationInStep ==
  saveGeneration = IF pc = "down" THEN 0 ELSE ReadManifest.gen

\* A committed chunk is in place, or it is in .prev and what is in place, if
\* anything, belongs to the generation that is not committed yet.
ChunksRetained ==
  \A c \in Chunks : committed # NoCampaign /\ committed[c] # Base =>
    LET W == Whole(ReadManifest.gen, committed[c]) IN
    \/ cur[c] = W
    \/ /\ cur[c].kind = "none" \/ cur[c].gen = ReadManifest.gen + 1
       /\ prev[c] = W

Publishing == pc \in {"write", "drop", "rotate", "replace", "publish"}

\* What the running save has published, and where it stands with its target.
SaveInStep ==
  /\ Publishing =>
       /\ fallback = NoCampaign
       /\ todo \subseteq Refs(live)
       /\ target \in IF todo = {} THEN {Manifest} ELSE todo
       /\ \A c \in Refs(live) \ todo : cur[c] = Content(c)
       /\ previousRefs = IF committed = NoCampaign THEN {} ELSE Refs(committed)
  /\ pc \in {"drop", "rotate"} =>
       cur[target].kind = "ok" /\ (target \in Chunks => cur[target].gen # nextSaveGeneration)
  /\ pc = "replace" =>
       target \in Chunks /\ cur[target].kind = "ok" /\ cur[target].gen = nextSaveGeneration
  /\ pc = "publish" => cur[target].kind = "none"
  /\ pc = "prune" =>
       /\ committed = live
       /\ fallback # NoCampaign => previousRefs = Refs(fallback)

\* The previous manifest still finds its chunks.
PreviousRetained ==
  fallback # NoCampaign =>
    /\ prev[Manifest] = Whole(prev[Manifest].gen, fallback)
    /\ \A c \in Refs(fallback) :
         LoadRecord(c, prev[Manifest].gen) = Whole(prev[Manifest].gen, fallback[c])

IInv ==
  /\ TypeOK
  /\ NothingDamaged
  /\ ManifestIsCommitted
  /\ GenerationInStep
  /\ ChunksRetained
  /\ SaveInStep
  /\ PreviousRetained

(***************************************************************************)
(* The inductive invariant behind OneGenerationLost, for FaultySpec when a *)
(* manifest may be torn, once.                                             *)
(***************************************************************************)

\* The last commit is whole where it was published.
CommitInPlace ==
  /\ cur[Manifest] = Whole(cur[Manifest].gen, committed)
  /\ \A c \in Refs(committed) : cur[c] = Whole(cur[Manifest].gen, committed[c])

\* The last commit lost its manifest, no save has started since.
FallsBack == pc \in {"down", "play"} /\ cur[Manifest].kind = "torn" /\ PreviousRetained

\* A save under way has published what it no longer lists, whatever
\* generation it read from the disk.
PublishedSoFar ==
  Publishing =>
    /\ fallback = NoCampaign
    /\ todo \subseteq Refs(live)
    /\ target \in IF todo = {} THEN {Manifest} ELSE todo
    /\ \A c \in Refs(live) \ todo : cur[c] = Content(c)

AfterDamage ==
  /\ fallback # NoCampaign => FallsBack \/ CommitInPlace
  /\ pc = "prune" => committed = live
  /\ PublishedSoFar

TornInv ==
  /\ TypeOK
  /\ faults = 0 => IInv
  /\ faults # 0 => AfterDamage

\* Seen from outside, the files are one durable campaign that a save replaces
\* at the rename of the manifest and at no other step.
Campaign == INSTANCE CampaignStore WITH
  durable <- Recovered, world <- live, running <- pc # "down"

ImplementsCampaignStore == Campaign!Spec

=============================================================================
