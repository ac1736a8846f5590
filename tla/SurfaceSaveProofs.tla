-------------------------- MODULE SurfaceSaveProofs --------------------------
(***************************************************************************)
(* Theorems about SurfaceSave, for any set of chunks, any values and any   *)
(* bound on the generations.  TypeOK is proved of FaultySpec, with         *)
(* damaged files; the recovery theorems are about Spec, in which files     *)
(* change only by the game's own calls and crashes; OneLost is about       *)
(* FaultySpec with one torn manifest.                                      *)
(***************************************************************************)
EXTENDS SurfaceSave, TLAPS

USE ManifestAssumption, BaseAssumption, NoCampaignAssumption

(***************************************************************************)
(* Files and worlds                                                        *)
(***************************************************************************)

\* Every file that may lie at a destination has the shape of AnyFile.
LEMMA FileShape ==
  ASSUME NEW f \in Files, NEW x \in FileAt(f)
  PROVE  /\ x \in AnyFile
         /\ x.kind = "ok" /\ f = Manifest => x.data \in World
         /\ x.kind = "ok" /\ f \in Chunks => x.data \in Values \union {Base}
         /\ x.gen \in Nat
BY DEF FileAt, AnyFile, Files

\* NoFile, a damaged file and a whole one may lie there.
LEMMA FileKinds ==
  ASSUME NEW f \in Files
  PROVE  /\ NoFile \in FileAt(f)
         /\ \A k \in {"torn", "blank"} : Damaged(k) \in FileAt(f)
         /\ \A g \in Nat, d \in IF f = Manifest THEN World ELSE Values \union {Base} :
              Whole(g, d) \in FileAt(f)
BY DEF FileAt, NoFile, Damaged, Whole

\* Replacing one file keeps a disk a disk.
LEMMA DiskUpdate ==
  ASSUME NEW d \in Disk, NEW f \in Files, NEW x \in FileAt(f)
  PROVE  [d EXCEPT ![f] = x] \in Disk
BY FileShape DEF Disk

\* What ReadManifest and LoadRecord return.
LEMMA ReadManifestType ==
  ASSUME cur \in Disk, prev \in Disk
  PROVE  ReadManifest \in FileAt(Manifest)
BY FileKinds DEF ReadManifest, Disk, Files

\* What is read for a chunk is a file of the chunk.
LEMMA LoadRecordType ==
  ASSUME cur \in Disk, prev \in Disk, NEW c \in Chunks, NEW g
  PROVE  LoadRecord(c, g) \in FileAt(c)
BY FileKinds DEF LoadRecord, Disk, Files

\* A load, whole or cut short, puts a world in memory.
LEMMA LoadedType ==
  ASSUME cur \in Disk, prev \in Disk, NEW m, NEW S \in SUBSET Readable(m)
  PROVE  Loaded(m, S) \in World
<1>1. ASSUME NEW c \in S PROVE LoadRecord(c, m.gen).data \in Values \union {Base}
  <2>1. c \in Chunks /\ LoadRecord(c, m.gen).kind = "ok"
    BY <1>1 DEF Readable, Refs
  <2> QED BY <2>1, LoadRecordType, FileShape DEF Files
<1> QED BY <1>1 DEF Loaded, World

(***************************************************************************)
(* Type correctness                                                        *)
(***************************************************************************)

\* The types hold at the first start.
LEMMA TypeInit == Init => TypeOK
<1> SUFFICES ASSUME Init PROVE TypeOK
  OBVIOUS
<1>1. prev \in Disk
  BY FileKinds, FileShape DEF Init, Disk
<1>2. /\ EmptyWorld \in World /\ Manifest \in Files /\ 0 \in 0 .. MaxFaults
      /\ {} \in SUBSET Chunks
  BY BoundAssumption DEF Files, EmptyWorld, World
<1>3. CASE committed = NoCampaign /\ cur = [f \in Files |-> NoFile]
  <2>1. cur \in Disk
    BY <1>3, FileKinds, FileShape DEF Disk
  <2> QED BY <1>1, <1>3, <1>2, <2>1 DEF Init, TypeOK
<1>4. ASSUME NEW w \in World, committed = w,
             cur = [f \in Files |-> IF f = Manifest THEN Whole(0, w)
                                    ELSE IF f \in Refs(w) THEN Whole(0, w[f])
                                    ELSE NoFile]
      PROVE  TypeOK
  <2>1. ASSUME NEW f \in Files PROVE cur[f] \in FileAt(f)
    <3>1. CASE f = Manifest
      BY <1>4, <3>1, FileKinds
    <3>2. CASE f \in Refs(w)
      <4>1. f # Manifest /\ w[f] \in Values \union {Base}
        BY <3>2 DEF Refs, World
      <4> QED BY <1>4, <3>2, <4>1, FileKinds
    <3>3. CASE f # Manifest /\ f \notin Refs(w)
      BY <1>4, <3>3, FileKinds
    <3> QED BY <3>1, <3>2, <3>3
  <2>2. cur \in Disk
    BY <1>4, <2>1, FileShape DEF Disk
  <2> QED BY <1>1, <1>4, <1>2, <2>2 DEF Init, TypeOK
<1> QED BY <1>3, <1>4 DEF Init

\* Every step preserves the types, damage included.
LEMMA TypeStep == TypeOK /\ [FaultyNext]_vars => TypeOK'
<1> SUFFICES ASSUME TypeOK, [FaultyNext]_vars PROVE TypeOK'
  OBVIOUS
<1> USE DEF TypeOK
<1>1. ASSUME LoadGame PROVE live' \in World /\ saveGeneration' \in Nat
  <2>1. ReadManifest.gen \in Nat
    BY ReadManifestType, FileShape DEF Files
  <2>2. CASE Loads(ReadManifest) /\ live' = Loaded(ReadManifest, Refs(ReadManifest.data))
             /\ saveGeneration' = ReadManifest.gen
    BY <2>1, <2>2, LoadedType DEF Loads
  <2>3. CASE UNCHANGED <<live, saveGeneration>>
    BY <2>3
  <2>4. CASE UNCHANGED saveGeneration
             /\ \E S \in SUBSET Readable(ReadManifest) : live' = Loaded(ReadManifest, S)
    BY <2>4, LoadedType
  <2> QED BY <1>1, <2>2, <2>3, <2>4 DEF LoadGame
<1>2. CASE Launch
  BY <1>1, <1>2 DEF Launch, disk, saving
<1>3. CASE Reload
  BY <1>1, <1>3 DEF Reload, disk, saving
<1>4. CASE Crash
  BY <1>4 DEF Crash, disk, EmptyWorld, World, Files
<1>5. ASSUME NEW c \in Chunks, NEW v \in Values \union {Base}, Edit(c, v) PROVE TypeOK'
  BY <1>5 DEF Edit, disk, saving, World
<1>6. CASE StartSave
  BY <1>6 DEF StartSave, disk, NextTarget, Refs, Files
<1>7. CASE WriteTemp
  BY <1>7 DEF WriteTemp, disk, saving
<1>8. CASE DropPrevious
  BY <1>8, FileKinds, DiskUpdate DEF DropPrevious, saving
<1>9. CASE RotateCurrent
  <2>1. cur[target] \in FileAt(target) /\ NoFile \in FileAt(target)
    BY FileKinds DEF Disk
  <2>2. cur' \in Disk /\ prev' \in Disk
    BY <1>9, <2>1, DiskUpdate DEF RotateCurrent
  <2> QED BY <1>9, <2>2 DEF RotateCurrent
<1>10. CASE ReplaceCurrent
  BY <1>10, FileKinds, DiskUpdate DEF ReplaceCurrent, saving
<1>11. ASSUME PublishFile PROVE cur' \in Disk /\ prev' \in Disk
  <2>1. nextSaveGeneration \in Nat
    BY DEF nextSaveGeneration
  <2>2. target \in Chunks => live[target] \in Values \union {Base}
    BY DEF World
  <2>3. Content(target) \in FileAt(target)
    BY <2>1, <2>2, FileKinds DEF Content, Files
  <2> QED BY <1>11, <2>3, DiskUpdate DEF PublishFile
<1>12. CASE PublishChunk
  BY <1>11, <1>12 DEF PublishChunk, NextTarget, Files
<1>13. CASE PublishManifest
  <2>1. cur' \in Disk /\ prev' \in Disk
    BY <1>11, <1>13 DEF PublishManifest
  <2>2. saveGeneration' \in Nat
    BY <1>13 DEF PublishManifest, nextSaveGeneration
  <2> QED BY <1>13, <2>1, <2>2 DEF PublishManifest
<1>14. CASE StepFails
  BY <1>14 DEF StepFails, Return, disk, Files
<1>15. CASE PublishFails
  <2>1. cur' \in Disk /\ prev' \in Disk
    <3>1. CASE UNCHANGED disk
      BY <3>1 DEF disk
    <3>2. CASE /\ cur' = [cur EXCEPT ![target] = prev[target]]
               /\ prev' = [prev EXCEPT ![target] = NoFile]
      <4>1. prev[target] \in FileAt(target) /\ NoFile \in FileAt(target)
        BY FileKinds DEF Disk
      <4> QED BY <3>2, <4>1, DiskUpdate
    <3> QED BY <1>15, <3>1, <3>2 DEF PublishFails
  <2> QED BY <1>15, <2>1 DEF PublishFails, Return, Files
<1>16. CASE PruneEnds
  BY <1>16 DEF PruneEnds, Return, disk, Files
<1>17. ASSUME NEW c \in Chunks, PruneFile(c) PROVE TypeOK'
  <2>1. cur' \in Disk /\ prev' \in Disk
    <3>1. c \in Files /\ NoFile \in FileAt(c)
      BY FileKinds DEF Files
    <3>2. [cur EXCEPT ![c] = NoFile] \in Disk /\ [prev EXCEPT ![c] = NoFile] \in Disk
      BY <3>1, DiskUpdate
    <3> QED BY <1>17, <3>2 DEF PruneFile
  <2> QED BY <1>17, <2>1 DEF PruneFile, saving
<1>18. ASSUME NEW f \in FaultFiles, NEW k \in FaultKinds, Damage(f, k) PROVE TypeOK'
  <2>1. f \in Files /\ k \in {"torn", "blank"}
    BY FaultAssumption
  <2>2. cur' \in Disk
    BY <1>18, <2>1, FileKinds, DiskUpdate DEF Damage
  <2>3. faults' \in 0 .. MaxFaults
    BY <1>18, BoundAssumption DEF Damage
  <2> QED BY <1>18, <2>2, <2>3 DEF Damage, saving
<1>19. CASE UNCHANGED vars
  BY <1>19 DEF vars
<1> QED
  BY <1>2, <1>3, <1>4, <1>5, <1>6, <1>7, <1>8, <1>9, <1>10, <1>12, <1>13, <1>14, <1>15,
     <1>16, <1>17, <1>18, <1>19 DEF FaultyNext, Next, SaveStep

\* Files, memory and the save's locals keep their types, whatever is damaged.
THEOREM TypeCorrect == FaultySpec => []TypeOK
BY TypeInit, TypeStep, PTL DEF FaultySpec

(***************************************************************************)
(* The inductive invariant.  Between saves the committed campaign sits in  *)
(* cur or, where an unfinished save already wrote, in prev.                *)
(***************************************************************************)

\* What is on disk and committed, as opposed to in memory.
DiskInv == NothingDamaged /\ ManifestIsCommitted /\ ChunksRetained /\ PreviousRetained

\* A start reads the same manifest while neither of its files is touched.
LEMMA SameManifest ==
  ASSUME cur'[Manifest] = cur[Manifest], prev'[Manifest] = prev[Manifest]
  PROVE  ReadManifest' = ReadManifest
BY DEF ReadManifest

\* Without damage a start reads the manifest in place, or else .prev.
LEMMA ReadsIntact ==
  ASSUME TypeOK, NothingDamaged
  PROVE  /\ ReadManifest = IF cur[Manifest].kind = "ok" THEN cur[Manifest]
                           ELSE IF prev[Manifest].kind = "ok" THEN prev[Manifest]
                           ELSE NoFile
         /\ \A f \in Files : cur[f].kind # "ok" => cur[f] = NoFile
BY DEF ReadManifest, ReadsAsManifest, NothingDamaged, Files, TypeOK, Disk, FileAt, NoFile, Damaged

\* The committed manifest and its records are found.
LEMMA CommittedRecords ==
  ASSUME IInv, committed # NoCampaign
  PROVE  /\ ReadManifest = Whole(ReadManifest.gen, committed)
         /\ ReadManifest.gen \in Nat
         /\ committed \in World
         /\ \A c \in Refs(committed) :
              LoadRecord(c, ReadManifest.gen) = Whole(ReadManifest.gen, committed[c])
<1>1. ReadManifest = Whole(ReadManifest.gen, committed)
  BY DEF IInv, ManifestIsCommitted
<1>2. ReadManifest.gen \in Nat
  BY ReadManifestType, FileShape DEF IInv, TypeOK, Files
<1>3. ASSUME NEW c \in Refs(committed)
      PROVE  LoadRecord(c, ReadManifest.gen) = Whole(ReadManifest.gen, committed[c])
  <2>1. c \in Chunks /\ committed[c] # Base
    BY <1>3 DEF Refs
  <2> QED BY <1>2, <2>1 DEF IInv, ChunksRetained, LoadRecord, Fits, Whole
<1> QED BY <1>1, <1>2, <1>3 DEF IInv, TypeOK

\* A start gives back the committed campaign, or finds none.
LEMMA CommittedLoads ==
  ASSUME IInv
  PROVE  /\ committed = NoCampaign => ReadManifest = NoFile
         /\ committed # NoCampaign =>
              /\ Loads(ReadManifest)
              /\ Loaded(ReadManifest, Refs(ReadManifest.data)) = committed
<1> SUFFICES ASSUME committed # NoCampaign
             PROVE  /\ Loads(ReadManifest)
                    /\ Loaded(ReadManifest, Refs(ReadManifest.data)) = committed
  BY DEF IInv, ManifestIsCommitted
<1>1. ReadManifest.kind = "ok" /\ ReadManifest.data = committed
  BY CommittedRecords DEF Whole
<1>2. \A c \in Refs(committed) :
        /\ LoadRecord(c, ReadManifest.gen).kind = "ok"
        /\ LoadRecord(c, ReadManifest.gen).data = committed[c]
  BY CommittedRecords DEF Whole
<1>3. Loads(ReadManifest)
  BY <1>1, <1>2 DEF Loads, Readable
<1>4. ASSUME NEW c \in Chunks
      PROVE  (IF c \in Refs(committed) THEN LoadRecord(c, ReadManifest.gen).data ELSE Base)
               = committed[c]
  BY <1>2 DEF Refs
<1> QED BY <1>1, <1>3, <1>4, CommittedRecords DEF Loaded, World

\* A manifest all of whose records are found gives back its world.
LEMMA WorldLoads ==
  ASSUME NEW m, NEW w \in World, m.kind = "ok", m.data = w,
         \A c \in Refs(w) : LoadRecord(c, m.gen) = Whole(m.gen, w[c])
  PROVE  Loads(m) /\ Loaded(m, Refs(m.data)) = w
<1>1. ASSUME NEW c \in Refs(w)
      PROVE  LoadRecord(c, m.gen).kind = "ok" /\ LoadRecord(c, m.gen).data = w[c]
  <2>1. LoadRecord(c, m.gen) = Whole(m.gen, w[c])
    OBVIOUS
  <2> QED BY <2>1 DEF Whole
<1>2. Loads(m)
  BY <1>1 DEF Loads, Readable
<1>3. ASSUME NEW c \in Chunks
      PROVE  (IF c \in Refs(w) THEN LoadRecord(c, m.gen).data ELSE Base) = w[c]
  BY <1>1 DEF Refs
<1> QED BY <1>2, <1>3 DEF Loaded, World

\* The manifest kept as .prev gives back the campaign before the last commit.
LEMMA PreviousLoads ==
  ASSUME PreviousRetained, fallback \in World \union {NoCampaign}, fallback # NoCampaign
  PROVE  /\ prev[Manifest].kind = "ok"
         /\ Loads(prev[Manifest])
         /\ Loaded(prev[Manifest], Refs(prev[Manifest].data)) = fallback
<1>1. prev[Manifest].kind = "ok" /\ prev[Manifest].data = fallback
  BY DEF PreviousRetained, Whole
<1>2. \A c \in Refs(fallback) :
        LoadRecord(c, prev[Manifest].gen) = Whole(prev[Manifest].gen, fallback[c])
  BY DEF PreviousRetained
<1> QED BY <1>1, <1>2, WorldLoads

\* The invariant holds at the first start.
LEMMA InvInit == Init => IInv
<1> SUFFICES ASSUME Init PROVE IInv
  OBVIOUS
<1>1. TypeOK
  BY TypeInit
<1>2. NothingDamaged
  BY DEF Init, NothingDamaged, NoFile, Damaged, Whole
<1>3. ManifestIsCommitted /\ ReadManifest.gen = 0
  <2>1. Manifest \in Files /\ prev[Manifest] = NoFile
    BY DEF Init, Files
  <2>2. CASE committed = NoCampaign /\ cur = [f \in Files |-> NoFile]
    BY <2>1, <2>2 DEF ManifestIsCommitted, ReadManifest, ReadsAsManifest, NoFile, Damaged
  <2>3. ASSUME NEW w \in World, committed = w, cur[Manifest] = Whole(0, w)
        PROVE  ManifestIsCommitted /\ ReadManifest.gen = 0
    BY <2>3 DEF ManifestIsCommitted, ReadManifest, ReadsAsManifest, Whole
  <2> QED BY <2>1, <2>2, <2>3 DEF Init
<1>4. ChunksRetained
  <2> SUFFICES ASSUME NEW c \in Chunks, committed # NoCampaign, committed[c] # Base
               PROVE  cur[c] = Whole(ReadManifest.gen, committed[c])
    BY DEF ChunksRetained
  <2>1. c \in Files /\ c # Manifest
    BY DEF Files
  <2>2. PICK w \in World :
          /\ committed = w
          /\ cur = [f \in Files |-> IF f = Manifest THEN Whole(0, w)
                                   ELSE IF f \in Refs(w) THEN Whole(0, w[f])
                                   ELSE NoFile]
    BY DEF Init
  <2> QED BY <1>3, <2>1, <2>2 DEF Refs
<1> QED BY <1>1, <1>2, <1>3, <1>4
        DEF Init, IInv, GenerationInStep, SaveInStep, Publishing, PreviousRetained

\* A step that leaves the files and the commit alone.
LEMMA QuietStep ==
  ASSUME IInv, UNCHANGED <<disk, committed>>, fallback' \in {fallback, NoCampaign}
  PROVE  DiskInv' /\ ReadManifest' = ReadManifest
<1>1. cur' = cur /\ prev' = prev /\ committed' = committed
  BY DEF disk
<1>2. ReadManifest' = ReadManifest
  BY <1>1, SameManifest
<1>3. NothingDamaged' /\ ManifestIsCommitted' /\ ChunksRetained'
  BY <1>1, <1>2 DEF IInv, NothingDamaged, ManifestIsCommitted, ChunksRetained
<1>4. PreviousRetained'
  BY <1>1 DEF IInv, PreviousRetained, LoadRecord
<1> QED BY <1>2, <1>3, <1>4 DEF DiskInv

\* A load puts the generation of the manifest it read into memory.
LEMMA LoadKeepsGeneration ==
  ASSUME IInv, LoadGame
  PROVE  saveGeneration' = ReadManifest.gen
<1>1. CASE committed = NoCampaign
  <2>1. ReadManifest.kind # "ok" /\ ReadManifest.gen = 0
    BY <1>1, CommittedLoads DEF NoFile, Damaged
  <2> QED BY <2>1 DEF LoadGame, Loads, IInv, GenerationInStep
<1>2. CASE committed # NoCampaign
  BY <1>2, CommittedLoads DEF LoadGame, Loads
<1> QED BY <1>1, <1>2

(***************************************************************************)
(* The steps of a save that change files                                   *)
(***************************************************************************)

\* The target is not yet published, and the generation being written is the
\* one after the committed one.
LEMMA Underway ==
  ASSUME IInv, Publishing
  PROVE  /\ (target \in Chunks /\ target \in todo) \/ (target = Manifest /\ todo = {})
         /\ \A c \in Refs(live) \ todo : c \in Chunks /\ c # target /\ c # Manifest
         /\ saveGeneration = ReadManifest.gen /\ nextSaveGeneration = ReadManifest.gen + 1
         /\ ReadManifest.gen \in Nat
         /\ fallback = NoCampaign
<1>1. ReadManifest.gen \in Nat
  BY ReadManifestType, FileShape DEF IInv, TypeOK, Files
<1>2. pc # "down"
  BY DEF Publishing
<1>3. saveGeneration = ReadManifest.gen
  BY <1>2 DEF IInv, GenerationInStep
<1>4. target \in (IF todo = {} THEN {Manifest} ELSE todo) /\ fallback = NoCampaign
      /\ todo \in SUBSET Chunks
  BY DEF IInv, SaveInStep, TypeOK
<1>5. (target \in Chunks /\ target \in todo) \/ (target = Manifest /\ todo = {})
  BY <1>4
<1>6. \A c \in Refs(live) \ todo : c \in Chunks /\ c # target /\ c # Manifest
  <2> TAKE c \in Refs(live) \ todo
  <2>1. c \in Chunks /\ c \notin todo
    BY DEF Refs
  <2> QED BY <1>5, <2>1
<1>7. nextSaveGeneration = ReadManifest.gen + 1
  BY <1>3 DEF nextSaveGeneration
<1> QED BY <1>1, <1>3, <1>4, <1>5, <1>6, <1>7

\* Dropping a .prev before the rotation loses nothing that is committed.
LEMMA DropStep ==
  ASSUME IInv, DropPrevious, TypeOK'
  PROVE  IInv' /\ ReadManifest' = ReadManifest
<1>1. Publishing /\ Publishing'
  BY DEF DropPrevious, Publishing
<1>2. CASE prev' = prev
  <2>1. DiskInv' /\ ReadManifest' = ReadManifest
    BY <1>2, QuietStep DEF DropPrevious, disk
  <2>2. SaveInStep' /\ GenerationInStep'
    BY <1>1, <2>1 DEF DropPrevious, saving, IInv, SaveInStep, GenerationInStep, Content,
                      nextSaveGeneration, Refs
  <2> QED BY <2>1, <2>2 DEF IInv, DiskInv
<1>3. CASE prev' = [prev EXCEPT ![target] = NoFile]
  <2>1. cur' = cur /\ committed' = committed /\ fallback' = fallback /\ cur[target].kind = "ok"
    BY DEF DropPrevious, IInv, SaveInStep
  <2>2. \A f \in Files : prev'[f] = IF f = target THEN NoFile ELSE prev[f]
    BY <1>3 DEF IInv, TypeOK, Disk
  <2>3. NothingDamaged'
    BY <2>1, <2>2 DEF IInv, NothingDamaged, NoFile, Damaged
  <2>4. ReadManifest' = ReadManifest
    BY <2>1, <2>2 DEF ReadManifest, ReadsAsManifest, Files
  <2>5. ManifestIsCommitted'
    BY <2>1, <2>4 DEF IInv, ManifestIsCommitted
  <2>6. ChunksRetained'
    <3> SUFFICES ASSUME NEW c \in Chunks, committed # NoCampaign, committed[c] # Base
                 PROVE  LET W == Whole(ReadManifest.gen, committed[c]) IN
                        \/ cur[c] = W
                        \/ /\ cur[c].kind = "none" \/ cur[c].gen = ReadManifest.gen + 1
                           /\ prev'[c] = W
      BY <2>1, <2>4 DEF ChunksRetained
    <3>1. c = target => cur[c].kind = "ok" /\ cur[c].gen # ReadManifest.gen + 1
      BY <1>1, Underway DEF DropPrevious, IInv, SaveInStep
    <3> QED BY <2>2, <3>1 DEF IInv, ChunksRetained, Files
  <2>7. PreviousRetained'
    BY <1>1, <2>1, Underway DEF PreviousRetained
  <2>8. SaveInStep' /\ GenerationInStep'
    BY <1>1, <2>1, <2>4 DEF DropPrevious, saving, IInv, SaveInStep, GenerationInStep, Content,
                      nextSaveGeneration, Refs
  <2> QED BY <2>3, <2>4, <2>5, <2>6, <2>7, <2>8 DEF IInv
<1> QED BY <1>2, <1>3 DEF DropPrevious

\* The rotation moves the file in place to .prev, where a load finds it.
LEMMA RotateStep ==
  ASSUME IInv, RotateCurrent, TypeOK'
  PROVE  IInv' /\ ReadManifest' = ReadManifest
<1>1. Publishing /\ Publishing'
  BY DEF RotateCurrent, Publishing
<1>2. committed' = committed /\ fallback' = fallback /\ cur[target].kind = "ok"
  BY DEF RotateCurrent, IInv, SaveInStep
<1>3. /\ \A f \in Files : prev'[f] = IF f = target THEN cur[f] ELSE prev[f]
      /\ \A f \in Files : cur'[f] = IF f = target THEN NoFile ELSE cur[f]
  BY DEF RotateCurrent, IInv, TypeOK, Disk
<1>4. NothingDamaged'
  BY <1>2, <1>3 DEF IInv, NothingDamaged, NoFile, Damaged
<1>5. ReadManifest' = ReadManifest
  BY <1>2, <1>3 DEF ReadManifest, ReadsAsManifest, Files, NoFile, Damaged
<1>6. ManifestIsCommitted'
  BY <1>2, <1>5 DEF IInv, ManifestIsCommitted
<1>7. ChunksRetained'
  <2> SUFFICES ASSUME NEW c \in Chunks, committed # NoCampaign, committed[c] # Base
               PROVE  LET W == Whole(ReadManifest.gen, committed[c]) IN
                      \/ cur'[c] = W
                      \/ /\ cur'[c].kind = "none" \/ cur'[c].gen = ReadManifest.gen + 1
                         /\ prev'[c] = W
    BY <1>2, <1>5 DEF ChunksRetained
  <2>1. c = target => cur[c].kind = "ok" /\ cur[c].gen # ReadManifest.gen + 1
    BY <1>1, Underway DEF RotateCurrent, IInv, SaveInStep
  <2> QED BY <1>3, <2>1 DEF IInv, ChunksRetained, Files, NoFile, Damaged
<1>8. PreviousRetained'
  BY <1>1, <1>2, Underway DEF PreviousRetained
<1>9. GenerationInStep'
  BY <1>5 DEF RotateCurrent, IInv, GenerationInStep
<1>10. SaveInStep'
  <2>1. \A c \in Refs(live) \ todo : cur'[c] = Content(c)
    BY <1>1, <1>3, Underway DEF IInv, SaveInStep, Files
  <2>2. cur'[target].kind = "none"
    BY <1>3 DEF IInv, TypeOK, NoFile, Damaged
  <2> QED BY <1>1, <2>1, <2>2 DEF RotateCurrent, IInv, SaveInStep, Content, nextSaveGeneration, Refs
<1> QED BY <1>4, <1>5, <1>6, <1>7, <1>8, <1>9, <1>10 DEF IInv

\* A file of the generation being written is removed without a rotation.
LEMMA ReplaceStep ==
  ASSUME IInv, ReplaceCurrent, TypeOK'
  PROVE  IInv' /\ ReadManifest' = ReadManifest
<1>1. Publishing /\ Publishing'
  BY DEF ReplaceCurrent, Publishing
<1>2. /\ committed' = committed /\ fallback' = fallback /\ prev' = prev
      /\ target \in Chunks /\ cur[target].gen = nextSaveGeneration
      /\ cur[target].kind = "ok"
  BY DEF ReplaceCurrent, IInv, SaveInStep
<1>3. \A f \in Files : cur'[f] = IF f = target THEN NoFile ELSE cur[f]
  BY DEF ReplaceCurrent, IInv, TypeOK, Disk
<1>4. NothingDamaged'
  BY <1>2, <1>3 DEF IInv, NothingDamaged, NoFile, Damaged
<1>5. ReadManifest' = ReadManifest
  BY <1>2, <1>3, SameManifest DEF Files
<1>6. ManifestIsCommitted'
  BY <1>2, <1>5 DEF IInv, ManifestIsCommitted
<1>7. ChunksRetained'
  <2> SUFFICES ASSUME NEW c \in Chunks, committed # NoCampaign, committed[c] # Base
               PROVE  LET W == Whole(ReadManifest.gen, committed[c]) IN
                      \/ cur'[c] = W
                      \/ /\ cur'[c].kind = "none" \/ cur'[c].gen = ReadManifest.gen + 1
                         /\ prev[c] = W
    BY <1>2, <1>5 DEF ChunksRetained
  <2>1. c = target => cur[c] # Whole(ReadManifest.gen, committed[c])
    BY <1>1, <1>2, Underway DEF Whole
  <2> QED BY <1>3, <2>1 DEF IInv, ChunksRetained, Files, NoFile, Damaged
<1>8. PreviousRetained'
  BY <1>1, <1>2, Underway DEF PreviousRetained
<1>9. GenerationInStep'
  BY <1>5 DEF ReplaceCurrent, IInv, GenerationInStep
<1>10. SaveInStep'
  <2>1. \A c \in Refs(live) \ todo : cur'[c] = Content(c)
    BY <1>1, <1>3, Underway DEF IInv, SaveInStep, Files
  <2>2. cur'[target].kind = "none"
    BY <1>3 DEF IInv, TypeOK, NoFile, Damaged
  <2> QED BY <1>1, <2>1, <2>2
          DEF ReplaceCurrent, saving, IInv, SaveInStep, Content, nextSaveGeneration, Refs
<1> QED BY <1>4, <1>5, <1>6, <1>7, <1>8, <1>9, <1>10 DEF IInv

\* A published chunk hides the committed one, which stays in .prev.
LEMMA PublishChunkStep ==
  ASSUME IInv, PublishChunk, TypeOK'
  PROVE  IInv' /\ ReadManifest' = ReadManifest
<1>1. Publishing /\ Publishing'
  BY DEF PublishChunk, PublishFile, NextTarget, Publishing
<1>2. /\ committed' = committed /\ fallback' = fallback /\ prev' = prev
      /\ cur[target].kind = "none"
      /\ target \in Chunks /\ target \in todo
  BY <1>1, Underway DEF PublishChunk, PublishFile, IInv, SaveInStep
<1>3. \A f \in Files : cur'[f] = IF f = target THEN Content(target) ELSE cur[f]
  BY DEF PublishChunk, PublishFile, IInv, TypeOK, Disk
<1>4. NothingDamaged'
  BY <1>2, <1>3 DEF IInv, NothingDamaged, Content, Whole
<1>5. ReadManifest' = ReadManifest
  BY <1>2, <1>3, SameManifest DEF Files
<1>6. ManifestIsCommitted'
  BY <1>2, <1>5 DEF IInv, ManifestIsCommitted
<1>7. ChunksRetained'
  <2> SUFFICES ASSUME NEW c \in Chunks, committed # NoCampaign, committed[c] # Base
               PROVE  LET W == Whole(ReadManifest.gen, committed[c]) IN
                      \/ cur'[c] = W
                      \/ /\ cur'[c].kind = "none" \/ cur'[c].gen = ReadManifest.gen + 1
                         /\ prev[c] = W
    BY <1>2, <1>5 DEF ChunksRetained
  <2>1. c = target => prev[c] = Whole(ReadManifest.gen, committed[c])
    BY <1>2 DEF IInv, ChunksRetained, Whole
  <2>2. c = target => cur'[c].gen = ReadManifest.gen + 1
    BY <1>1, <1>3, Underway DEF Content, Whole, Files
  <2> QED BY <1>3, <2>1, <2>2 DEF IInv, ChunksRetained, Files
<1>8. PreviousRetained'
  BY <1>1, <1>2, Underway DEF PreviousRetained
<1>9. GenerationInStep'
  BY <1>5 DEF PublishChunk, PublishFile, NextTarget, IInv, GenerationInStep
<1>10. SaveInStep'
  <2>1. live' = live /\ saveGeneration' = saveGeneration /\ previousRefs' = previousRefs
        /\ todo' = todo \ {target} /\ pc' = "write"
        /\ target' \in IF todo' = {} THEN {Manifest} ELSE todo'
    BY DEF PublishChunk, NextTarget
  <2>2. \A c \in Refs(live) \ todo' : cur'[c] = Content(c)
    BY <1>1, <1>2, <1>3, <2>1, Underway DEF IInv, SaveInStep, Files, Refs
  <2>3. \A c \in Refs(live) : Content(c)' = Content(c)
    BY <2>1 DEF Content, nextSaveGeneration
  <2>4. Refs(live)' = Refs(live)
    BY <2>1 DEF Refs
  <2>5. previousRefs' = IF committed' = NoCampaign THEN {} ELSE Refs(committed)'
    BY <1>1, <1>2, <2>1 DEF IInv, SaveInStep, Refs
  <2>6. todo' \subseteq Refs(live)
    BY <1>1, <2>1 DEF IInv, SaveInStep
  <2> QED BY <1>1, <1>2, <2>1, <2>2, <2>3, <2>4, <2>5, <2>6, Underway DEF SaveInStep
<1> QED BY <1>4, <1>5, <1>6, <1>7, <1>8, <1>9, <1>10 DEF IInv

\* The rename of the manifest commits the save, one generation later.
LEMMA PublishManifestStep ==
  ASSUME IInv, PublishManifest, TypeOK'
  PROVE  /\ IInv'
         /\ ReadManifest' = Content(Manifest)
         /\ ReadManifest'.gen = ReadManifest.gen + 1
<1>1. Publishing /\ ~Publishing'
  BY DEF PublishManifest, PublishFile, Publishing
<1>2. /\ committed' = live /\ fallback' = committed /\ prev' = prev /\ live' = live
      /\ cur[Manifest].kind = "none"
      /\ target = Manifest /\ todo = {} /\ Manifest \in Files
  BY <1>1, Underway DEF PublishManifest, PublishFile, IInv, SaveInStep, Files
<1>3. \A f \in Files : cur'[f] = IF f = Manifest THEN Content(Manifest) ELSE cur[f]
  BY <1>2 DEF PublishManifest, PublishFile, IInv, TypeOK, Disk
<1>4. NothingDamaged'
  BY <1>2, <1>3 DEF IInv, NothingDamaged, Content, Whole
<1>5. ReadManifest' = Content(Manifest) /\ Content(Manifest) = Whole(nextSaveGeneration, live)
  BY <1>2, <1>3 DEF ReadManifest, ReadsAsManifest, Content, Whole
<1>6. ReadManifest'.gen = nextSaveGeneration /\ nextSaveGeneration = ReadManifest.gen + 1
  BY <1>1, <1>5, Underway DEF Whole
<1>7. live # NoCampaign
  BY DEF IInv, TypeOK
<1>8. ManifestIsCommitted'
  BY <1>2, <1>5, <1>6, <1>7 DEF ManifestIsCommitted
<1>9. ChunksRetained'
  <2> SUFFICES ASSUME NEW c \in Chunks, live[c] # Base
               PROVE  cur'[c] = Whole(nextSaveGeneration, live[c])
    BY <1>2, <1>6 DEF ChunksRetained
  <2>1. c \in Refs(live) \ todo /\ c # Manifest /\ c \in Files
    BY <1>2 DEF Refs, Files
  <2> QED BY <1>1, <1>3, <2>1 DEF IInv, SaveInStep, Content
<1>10. ASSUME committed # NoCampaign
       PROVE  /\ prev[Manifest] = Whole(prev[Manifest].gen, committed)
              /\ \A c \in Refs(committed) :
                   LoadRecord(c, prev[Manifest].gen) = Whole(prev[Manifest].gen, committed[c])
  <2>1. prev[Manifest] = ReadManifest
    BY <1>2, <1>10, CommittedRecords, ReadsIntact DEF IInv, Whole
  <2> QED BY <1>10, <2>1, CommittedRecords
<1>11. PreviousRetained'
  <2>1. ASSUME NEW c \in Refs(committed) PROVE cur'[c] = cur[c]
    BY <1>3, <2>1 DEF Refs, Files
  <2> QED BY <1>2, <1>10, <2>1 DEF PreviousRetained, LoadRecord, Refs
<1>12. GenerationInStep'
  BY <1>6 DEF PublishManifest, GenerationInStep
<1>13. SaveInStep'
  <2>1. pc' = "prune" /\ previousRefs' = previousRefs
    BY DEF PublishManifest
  <2>2. committed # NoCampaign => previousRefs = Refs(committed)
    BY <1>1 DEF IInv, SaveInStep
  <2> QED BY <1>1, <1>2, <2>1, <2>2 DEF SaveInStep, Refs
<1> QED BY <1>4, <1>5, <1>6, <1>8, <1>9, <1>11, <1>12, <1>13 DEF IInv

\* When the rename fails the rotated file may come back or stay in .prev: the
\* committed campaign is found either way.
LEMMA PublishFailsStep ==
  ASSUME IInv, PublishFails, TypeOK'
  PROVE  IInv' /\ ReadManifest' = ReadManifest
<1>1. Publishing /\ ~Publishing'
  BY DEF PublishFails, Return, Publishing
<1>2. committed' = committed /\ fallback' = fallback /\ cur[target].kind = "none"
  BY DEF PublishFails, IInv, SaveInStep
<1>3. SaveInStep'
  BY <1>1 DEF PublishFails, Return, SaveInStep
<1>4. CASE UNCHANGED disk
  <2>1. DiskInv' /\ ReadManifest' = ReadManifest
    BY <1>2, <1>4, QuietStep
  <2>2. GenerationInStep'
    BY <2>1 DEF PublishFails, Return, IInv, GenerationInStep
  <2> QED BY <1>3, <2>1, <2>2 DEF IInv, DiskInv
<1>5. CASE /\ cur' = [cur EXCEPT ![target] = prev[target]]
           /\ prev' = [prev EXCEPT ![target] = NoFile]
  <2>1. /\ \A f \in Files : cur'[f] = IF f = target THEN prev[f] ELSE cur[f]
        /\ \A f \in Files : prev'[f] = IF f = target THEN NoFile ELSE prev[f]
    BY <1>5 DEF IInv, TypeOK, Disk
  <2>2. NothingDamaged'
    BY <2>1 DEF IInv, NothingDamaged, NoFile, Damaged
  <2>3. ReadManifest' = ReadManifest
    <3>1. CASE target = Manifest
      <4>1. cur[Manifest] = NoFile /\ cur'[Manifest] = prev[Manifest] /\ prev'[Manifest] = NoFile
        BY <1>2, <2>1, <3>1, ReadsIntact DEF IInv, Files
      <4> QED BY <4>1 DEF ReadManifest, ReadsAsManifest, NoFile, Damaged
    <3>2. CASE target # Manifest
      BY <2>1, <3>2, SameManifest DEF Files
    <3> QED BY <3>1, <3>2
  <2>4. ManifestIsCommitted'
    BY <1>2, <2>3 DEF IInv, ManifestIsCommitted
  <2>5. ChunksRetained'
    <3> SUFFICES ASSUME NEW c \in Chunks, committed # NoCampaign, committed[c] # Base
                 PROVE  LET W == Whole(ReadManifest.gen, committed[c]) IN
                        \/ cur'[c] = W
                        \/ /\ cur'[c].kind = "none" \/ cur'[c].gen = ReadManifest.gen + 1
                           /\ prev'[c] = W
      BY <1>2, <2>3 DEF ChunksRetained
    <3>1. c = target => prev[c] = Whole(ReadManifest.gen, committed[c])
      BY <1>2 DEF IInv, ChunksRetained, Whole
    <3> QED BY <2>1, <3>1 DEF IInv, ChunksRetained, Files
  <2>6. PreviousRetained'
    BY <1>1, <1>2, Underway DEF PreviousRetained
  <2>7. GenerationInStep'
    BY <2>3 DEF PublishFails, Return, IInv, GenerationInStep
  <2> QED BY <1>3, <2>2, <2>3, <2>4, <2>5, <2>6, <2>7 DEF IInv
<1> QED BY <1>4, <1>5 DEF PublishFails

\* Only files that neither manifest refers to are pruned.
LEMMA PruneStep ==
  ASSUME IInv, NEW x \in Chunks, PruneFile(x), TypeOK'
  PROVE  IInv' /\ ReadManifest' = ReadManifest
<1>1. /\ pc = "prune" /\ ~Publishing /\ ~Publishing'
      /\ committed' = committed /\ fallback' = fallback /\ live' = live
      /\ pc' = pc /\ previousRefs' = previousRefs /\ saveGeneration' = saveGeneration
      /\ x \in Files /\ x # Manifest
  BY DEF PruneFile, saving, Publishing, Files
<1>2. /\ \A f \in Files : cur'[f] \in {cur[f], NoFile} /\ prev'[f] \in {prev[f], NoFile}
      /\ \A f \in Files \ {x} : cur'[f] = cur[f] /\ prev'[f] = prev[f]
  BY DEF PruneFile, IInv, TypeOK, Disk
<1>3. NothingDamaged'
  BY <1>2 DEF IInv, NothingDamaged, NoFile, Damaged
<1>4. ReadManifest' = ReadManifest
  BY <1>1, <1>2, SameManifest DEF Files
<1>5. ManifestIsCommitted'
  BY <1>1, <1>4 DEF IInv, ManifestIsCommitted
<1>6. x \notin Refs(committed) /\ (fallback # NoCampaign => x \notin Refs(fallback))
  BY <1>1 DEF PruneFile, Keep, IInv, SaveInStep
<1>7. ChunksRetained'
  <2> SUFFICES ASSUME NEW c \in Chunks, committed # NoCampaign, committed[c] # Base
               PROVE  cur'[c] = cur[c] /\ prev'[c] = prev[c]
    BY <1>1, <1>4 DEF IInv, ChunksRetained
  <2> QED BY <1>2, <1>6 DEF Refs, Files
<1>8. PreviousRetained'
  <2>1. ASSUME fallback # NoCampaign, NEW c \in Refs(fallback)
        PROVE  cur'[c] = cur[c] /\ prev'[c] = prev[c]
    BY <1>2, <1>6, <2>1 DEF Refs, Files
  <2>2. prev'[Manifest] = prev[Manifest]
    BY <1>1, <1>2 DEF Files
  <2> QED BY <1>1, <2>1, <2>2 DEF IInv, PreviousRetained, LoadRecord
<1>9. GenerationInStep' /\ SaveInStep'
  BY <1>1, <1>4 DEF IInv, GenerationInStep, SaveInStep
<1> QED BY <1>3, <1>4, <1>5, <1>7, <1>8, <1>9 DEF IInv

(***************************************************************************)
(* The steps that leave the files alone                                    *)
(***************************************************************************)
LEMMA StartSaveStep ==
  ASSUME IInv, StartSave, TypeOK'
  PROVE  IInv' /\ ReadManifest' = ReadManifest
<1>1. DiskInv' /\ ReadManifest' = ReadManifest
  BY QuietStep DEF StartSave
<1>2. pc = "play" /\ pc' = "write" /\ live' = live /\ saveGeneration' = saveGeneration
      /\ committed' = committed /\ fallback' = NoCampaign /\ todo' = Refs(live)
      /\ target' \in IF todo' = {} THEN {Manifest} ELSE todo'
  BY DEF StartSave, NextTarget
<1>3. GenerationInStep'
  BY <1>1, <1>2 DEF IInv, GenerationInStep
<1>4. previousRefs' = IF committed = NoCampaign THEN {} ELSE Refs(committed)
  <2>1. CASE committed = NoCampaign
    BY <2>1, CommittedLoads DEF StartSave, NoFile, Damaged
  <2>2. CASE committed # NoCampaign
    BY <2>2, CommittedRecords DEF StartSave, Whole
  <2> QED BY <2>1, <2>2
<1>5. SaveInStep'
  BY <1>2, <1>4 DEF SaveInStep, Refs
<1> QED BY <1>1, <1>3, <1>5 DEF IInv, DiskInv

\* A written .tmp changes nothing that is read.
LEMMA WriteTempStep ==
  ASSUME IInv, WriteTemp, TypeOK'
  PROVE  IInv' /\ ReadManifest' = ReadManifest
<1>1. DiskInv' /\ ReadManifest' = ReadManifest
  BY QuietStep DEF WriteTemp
<1>2. /\ Publishing /\ Publishing' /\ pc # "down" /\ pc' \in {"drop", "replace", "publish"}
      /\ cur' = cur /\ UNCHANGED <<live, saveGeneration, saving, committed, fallback>>
  BY DEF WriteTemp, Publishing, disk
<1>3. GenerationInStep'
  BY <1>1, <1>2 DEF IInv, GenerationInStep
<1>4. cur[target].kind \in {"none", "ok"}
  BY DEF IInv, NothingDamaged, TypeOK
<1>5. (target \in Chunks /\ target # Manifest) \/ target = Manifest
  BY <1>2, Underway
<1>6. /\ pc' = "drop" => /\ cur[target].kind = "ok"
                         /\ target \in Chunks => cur[target].gen # nextSaveGeneration
      /\ pc' = "replace" => /\ target \in Chunks /\ cur[target].kind = "ok"
                            /\ cur[target].gen = nextSaveGeneration
      /\ pc' = "publish" => cur[target].kind = "none"
  BY <1>4, <1>5 DEF WriteTemp, RotatesManifest, RotatesChunk, Fits, ReadsAsManifest
<1>7. SaveInStep'
  BY <1>2, <1>6 DEF saving, IInv, SaveInStep, Content, nextSaveGeneration, Refs
<1> QED BY <1>1, <1>3, <1>7 DEF IInv, DiskInv

\* Steps after which no save is running.
LEMMA IdleStep ==
  ASSUME IInv, TypeOK', UNCHANGED <<disk, committed, fallback>>,
         pc' \in {"play", "down"},
         saveGeneration' = IF pc' = "down" THEN 0 ELSE ReadManifest.gen
  PROVE  IInv' /\ ReadManifest' = ReadManifest
<1>1. DiskInv' /\ ReadManifest' = ReadManifest
  BY QuietStep
<1>2. GenerationInStep' /\ SaveInStep'
  BY <1>1 DEF GenerationInStep, SaveInStep, Publishing
<1> QED BY <1>1, <1>2 DEF IInv, DiskInv

\* Every step preserves the invariant, and only the rename of a manifest changes
\* what a start reads.
LEMMA InvStep ==
  ASSUME IInv, [Next]_vars
  PROVE  /\ IInv'
         /\ \/ ReadManifest' = ReadManifest
            \/ PublishManifest /\ ReadManifest'.gen = ReadManifest.gen + 1
<1>1. TypeOK'
  BY TypeStep DEF IInv, FaultyNext
<1>2. pc # "down" => saveGeneration = ReadManifest.gen
  BY DEF IInv, GenerationInStep
<1>3. CASE Launch
  BY <1>1, <1>3, LoadKeepsGeneration, IdleStep DEF Launch
<1>4. CASE Reload
  BY <1>1, <1>4, LoadKeepsGeneration, IdleStep DEF Reload
<1>5. CASE Crash
  BY <1>1, <1>5, IdleStep DEF Crash
<1>6. ASSUME NEW c \in Chunks, NEW v \in Values \union {Base}, Edit(c, v)
      PROVE  IInv' /\ ReadManifest' = ReadManifest
  BY <1>1, <1>2, <1>6, IdleStep DEF Edit
<1>7. CASE StepFails
  BY <1>1, <1>2, <1>7, IdleStep DEF StepFails, Return
<1>8. CASE PruneEnds
  BY <1>1, <1>2, <1>8, IdleStep DEF PruneEnds, Return
<1>9. CASE StartSave \/ WriteTemp
  BY <1>1, <1>9, StartSaveStep, WriteTempStep
<1>10. CASE DropPrevious \/ RotateCurrent \/ ReplaceCurrent
  BY <1>1, <1>10, DropStep, RotateStep, ReplaceStep
<1>11. CASE PublishChunk \/ PublishFails
  BY <1>1, <1>11, PublishChunkStep, PublishFailsStep
<1>12. CASE PublishManifest
  BY <1>1, <1>12, PublishManifestStep
<1>13. ASSUME NEW c \in Chunks, PruneFile(c)
       PROVE  IInv' /\ ReadManifest' = ReadManifest
  BY <1>1, <1>13, PruneStep
<1>14. CASE UNCHANGED vars
  <2>1. DiskInv' /\ ReadManifest' = ReadManifest
    BY <1>14, QuietStep DEF vars, disk
  <2>2. GenerationInStep' /\ SaveInStep'
    BY <1>14, <2>1 DEF vars, IInv, GenerationInStep, SaveInStep, Publishing, Content,
                       nextSaveGeneration, Refs
  <2> QED BY <1>1, <2>1, <2>2 DEF IInv, DiskInv
<1> QED
  BY <1>3, <1>4, <1>5, <1>6, <1>7, <1>8, <1>9, <1>10, <1>11, <1>12, <1>13, <1>14
  DEF Next, SaveStep

(***************************************************************************)
(* The theorems                                                            *)
(***************************************************************************)

\* The invariant holds throughout, crashes and failing calls included, on a disk
\* where nothing is damaged.
THEOREM Invariance == Spec => []IInv
BY InvInit, InvStep, PTL DEF Spec

\* A crash between any two calls of the file system, at any number of chunks
\* and saves, leaves exactly the last committed campaign to be found.
THEOREM CrashRecovery == Spec => []Recoverable
<1>1. IInv => Recoverable
  BY CommittedLoads DEF Recoverable, Recovered, NoFile, Damaged, Loads
<1> QED BY <1>1, Invariance, PTL

\* Between a commit and the next save, the manifest kept as .prev is whole and
\* finds every chunk it refers to.
THEOREM PreviousRecovery == Spec => []PreviousRecoverable
<1>1. ASSUME IInv PROVE PreviousRecoverable
  <2> SUFFICES ASSUME fallback # NoCampaign
               PROVE  /\ Loads(prev[Manifest])
                      /\ Loaded(prev[Manifest], Refs(prev[Manifest].data)) = fallback
    BY DEF PreviousRecoverable
  <2> QED BY <1>1, PreviousLoads DEF IInv, TypeOK
<1> QED BY <1>1, Invariance, PTL

\* No step of the game, a crash included, makes a start read an older manifest.
THEOREM GenerationsGrow == Spec => GenerationGrows
<1>1. IInv /\ [Next]_vars => [ReadManifest'.gen >= ReadManifest.gen]_vars
  <2> SUFFICES ASSUME IInv, [Next]_vars PROVE ReadManifest'.gen >= ReadManifest.gen
    OBVIOUS
  <2>1. ReadManifest.gen \in Nat
    BY ReadManifestType, FileShape DEF IInv, TypeOK, Files
  <2> QED BY <2>1, InvStep
<1> QED BY <1>1, Invariance, PTL DEF Spec, GenerationGrows

\* The files implement one durable campaign: the rename of the manifest
\* replaces it, every other step of a save, an error or the cleanup is unseen.
THEOREM SaveImplementsCampaignStore == Spec => ImplementsCampaignStore
<1> USE DEF Recoverable
<1>1. IInv /\ Recoverable /\ Init => Campaign!Init
  <2> SUFFICES ASSUME IInv, Recoverable, Init PROVE Campaign!Init
    OBVIOUS
  <2>1. Campaign!World = World /\ Campaign!EmptyWorld = EmptyWorld
    BY DEF Campaign!World, World, Campaign!EmptyWorld, EmptyWorld
  <2> QED BY <2>1 DEF Campaign!Init, Init, IInv, TypeOK
<1>2. IInv /\ Recoverable /\ Recoverable' /\ [Next]_vars => [Campaign!Next]_(Campaign!vars)
  <2> SUFFICES ASSUME IInv, Recoverable, Recoverable', [Next]_vars
               PROVE  [Campaign!Next]_(Campaign!vars)
    OBVIOUS
  <2>1. ASSUME LoadGame
        PROVE  live' = IF committed = NoCampaign THEN live ELSE committed
    BY <2>1, CommittedLoads DEF LoadGame, Loads, NoFile, Damaged
  <2>2. CASE Launch
    BY <2>1, <2>2 DEF Launch, Campaign!Next, Campaign!Load
  <2>3. CASE Reload
    BY <2>1, <2>3 DEF Reload, Campaign!Next, Campaign!Load
  <2>4. CASE Crash
    BY <2>4 DEF Crash, Campaign!Next, Campaign!Stop, Campaign!EmptyWorld, EmptyWorld
  <2>5. ASSUME NEW c \in Chunks, NEW v \in Values \union {Base}, Edit(c, v)
        PROVE  Campaign!Next
    BY <2>5 DEF Edit, Campaign!Next, Campaign!Edit
  <2>6. CASE PublishManifest
    BY <2>6 DEF PublishManifest, PublishFile, Campaign!Next, Campaign!Commit
  <2>7. CASE StartSave \/ WriteTemp \/ DropPrevious \/ RotateCurrent \/ ReplaceCurrent
    BY <2>7 DEF StartSave, WriteTemp, DropPrevious, RotateCurrent, ReplaceCurrent, NextTarget,
                Campaign!vars
  <2>8. CASE PublishChunk \/ StepFails \/ PublishFails \/ PruneEnds
    BY <2>8 DEF PublishChunk, PublishFile, StepFails, PublishFails, PruneEnds, NextTarget,
                Return, Campaign!vars
  <2>9. ASSUME NEW c \in Chunks, PruneFile(c) PROVE UNCHANGED Campaign!vars
    BY <2>9 DEF PruneFile, Campaign!vars
  <2>10. CASE UNCHANGED vars
    BY <2>10 DEF vars, Campaign!vars
  <2> QED BY <2>2, <2>3, <2>4, <2>5, <2>6, <2>7, <2>8, <2>9, <2>10 DEF Next, SaveStep
<1> QED
  BY <1>1, <1>2, Invariance, CrashRecovery, PTL DEF Spec, ImplementsCampaignStore, Campaign!Spec

(***************************************************************************)
(* A torn manifest.  Before the damage IInv holds, since the files changed *)
(* only by the game's own steps; after it AfterDamage does.                *)
(***************************************************************************)

\* After the damage, a step that leaves the files alone and ends or keeps out
\* of a save.
LEMMA DamagedIdle ==
  ASSUME AfterDamage, UNCHANGED <<disk, committed, fallback>>, pc' \in {"down", "play"}
  PROVE  AfterDamage'
<1>1. cur' = cur /\ prev' = prev /\ committed' = committed /\ fallback' = fallback
  BY DEF disk
<1>2. FallsBack => FallsBack'
  BY <1>1 DEF FallsBack, PreviousRetained, LoadRecord
<1>3. CommitInPlace => CommitInPlace'
  BY <1>1 DEF CommitInPlace
<1> QED BY <1>1, <1>2, <1>3 DEF AfterDamage, PublishedSoFar, Publishing

\* While a save writes, only its target changes, which no record it has
\* published is.
LEMMA DamagedWrite ==
  ASSUME TypeOK, AfterDamage, Publishing, Publishing',
         UNCHANGED <<live, saveGeneration, target, todo, fallback>>,
         \A f \in Files \ {target} : cur'[f] = cur[f]
  PROVE  AfterDamage'
<1>1. /\ fallback = NoCampaign
      /\ todo \subseteq Refs(live)
      /\ target \in IF todo = {} THEN {Manifest} ELSE todo
      /\ \A c \in Refs(live) \ todo : cur[c] = Content(c)
  BY DEF AfterDamage, PublishedSoFar
<1>2. ASSUME NEW c \in Refs(live) \ todo PROVE cur'[c] = Content(c)' /\ c \in Refs(live)
  <2>1. c \in Files \ {target}
    BY <1>1 DEF Refs, Files
  <2> QED BY <1>1, <2>1 DEF Content, nextSaveGeneration
<1>3. PublishedSoFar'
  BY <1>1, <1>2 DEF PublishedSoFar, Refs
<1> QED BY <1>1, <1>3 DEF AfterDamage, Publishing

\* The commit puts the manifest beside the records it was written with.
LEMMA DamagedCommit ==
  ASSUME TypeOK, AfterDamage, PublishManifest
  PROVE  AfterDamage'
<1>1. /\ Publishing /\ target = Manifest /\ live' = live /\ committed' = live
      /\ pc' = "prune" /\ ~Publishing'
      /\ cur' = [cur EXCEPT ![target] = Content(target)]
  BY DEF PublishManifest, PublishFile, Publishing
<1>2. todo = {} /\ \A c \in Refs(live) : cur[c] = Content(c)
  BY <1>1 DEF AfterDamage, PublishedSoFar, TypeOK
<1>3. cur'[Manifest] = Whole(nextSaveGeneration, live)
  BY <1>1 DEF Content, TypeOK, Disk, Files
<1>4. ASSUME NEW c \in Refs(live) PROVE cur'[c] = Whole(nextSaveGeneration, live[c])
  <2>1. c \in Files /\ c # Manifest
    BY DEF Refs, Files
  <2> QED BY <1>1, <1>2, <2>1 DEF Content, TypeOK, Disk
<1>5. CommitInPlace'
  BY <1>1, <1>3, <1>4 DEF CommitInPlace, Whole
<1> QED BY <1>1, <1>5 DEF AfterDamage, PublishedSoFar

\* The cleanup keeps what the last commit refers to.
LEMMA DamagedPrune ==
  ASSUME TypeOK, AfterDamage, NEW x \in Chunks, PruneFile(x)
  PROVE  AfterDamage'
<1>1. /\ pc = "prune" /\ pc' = pc /\ live' = live /\ x \notin Refs(live)
      /\ committed' = committed /\ fallback' = fallback /\ committed = live
  BY DEF PruneFile, saving, Keep, AfterDamage
<1>2. \A f \in Files \ {x} : cur'[f] = cur[f]
  BY DEF PruneFile, TypeOK, Disk
<1>3. CommitInPlace => CommitInPlace'
  BY <1>1, <1>2 DEF CommitInPlace, Refs, Files
<1> QED BY <1>1, <1>3 DEF AfterDamage, PublishedSoFar, Publishing, FallsBack

\* After the damage every step of the game keeps AfterDamage.
LEMMA DamagedStep ==
  ASSUME TypeOK, AfterDamage, [Next]_vars
  PROVE  AfterDamage'
<1>1. CASE Launch \/ Reload \/ Crash
  BY <1>1, DamagedIdle DEF Launch, Reload, Crash
<1>2. ASSUME NEW c \in Chunks, NEW v \in Values \union {Base}, Edit(c, v) PROVE AfterDamage'
  BY <1>2, DamagedIdle DEF Edit
<1>3. CASE StepFails \/ PruneEnds
  BY <1>3, DamagedIdle DEF StepFails, PruneEnds, Return
<1>4. CASE StartSave
  BY <1>4 DEF StartSave, NextTarget, disk, AfterDamage, PublishedSoFar, Refs
<1>5. CASE WriteTemp \/ DropPrevious \/ RotateCurrent \/ ReplaceCurrent
  <2>1. Publishing /\ Publishing' /\ UNCHANGED <<live, saveGeneration, target, todo, fallback>>
    BY <1>5 DEF WriteTemp, DropPrevious, RotateCurrent, ReplaceCurrent, saving, Publishing
  <2>2. \A f \in Files \ {target} : cur'[f] = cur[f]
    BY <1>5 DEF WriteTemp, DropPrevious, RotateCurrent, ReplaceCurrent, disk, TypeOK, Disk
  <2> QED BY <2>1, <2>2, DamagedWrite
<1>6. CASE PublishChunk
  <2>1. /\ Publishing /\ fallback' = fallback /\ live' = live /\ target # Manifest
        /\ saveGeneration' = saveGeneration /\ pc' = "write"
        /\ todo' = todo \ {target}
        /\ target' \in IF todo' = {} THEN {Manifest} ELSE todo'
        /\ cur' = [cur EXCEPT ![target] = Content(target)]
    BY <1>6 DEF PublishChunk, PublishFile, NextTarget, Publishing
  <2>2. /\ fallback = NoCampaign /\ todo \subseteq Refs(live) /\ target \in todo
        /\ \A c \in Refs(live) \ todo : cur[c] = Content(c)
    BY <2>1 DEF AfterDamage, PublishedSoFar
  <2>3. ASSUME NEW c \in Refs(live) \ todo' PROVE cur'[c] = Content(c)'
    <3>1. c \in Files /\ c # Manifest
      BY DEF Refs, Files
    <3>2. cur'[c] = Content(c)
      BY <2>1, <2>2, <3>1 DEF TypeOK, Disk
    <3> QED BY <2>1, <3>2 DEF Content, nextSaveGeneration
  <2> QED BY <2>1, <2>2, <2>3 DEF AfterDamage, PublishedSoFar, Refs
<1>7. CASE PublishManifest
  BY <1>7, DamagedCommit
<1>8. CASE PublishFails
  BY <1>8 DEF PublishFails, Return, AfterDamage, PublishedSoFar, Publishing
<1>9. ASSUME NEW c \in Chunks, PruneFile(c) PROVE AfterDamage'
  BY <1>9, DamagedPrune
<1>10. CASE UNCHANGED vars
  <2>1. cur' = cur /\ prev' = prev /\ committed' = committed /\ fallback' = fallback
        /\ pc' = pc /\ live' = live /\ todo' = todo /\ target' = target
        /\ saveGeneration' = saveGeneration
    BY <1>10 DEF vars
  <2>2. FallsBack => FallsBack'
    BY <2>1 DEF FallsBack, PreviousRetained, LoadRecord
  <2>3. CommitInPlace => CommitInPlace'
    BY <2>1 DEF CommitInPlace
  <2>4. PublishedSoFar => PublishedSoFar'
    BY <2>1 DEF PublishedSoFar, Publishing, Content, nextSaveGeneration, Refs
  <2> QED BY <2>1, <2>2, <2>3, <2>4 DEF AfterDamage
<1> QED
  BY <1>1, <1>2, <1>3, <1>4, <1>5, <1>6, <1>7, <1>8, <1>9, <1>10 DEF Next, SaveStep

\* The damage itself: it finds no save running and the previous manifest whole.
LEMMA TearStep ==
  ASSUME IInv, Damage(Manifest, "torn")
  PROVE  AfterDamage'
<1>1. /\ pc \in {"down", "play"} /\ pc' = pc /\ prev' = prev /\ fallback' = fallback
      /\ cur' = [cur EXCEPT ![Manifest] = Damaged("torn")]
  BY DEF Damage
<1>2. /\ cur'[Manifest].kind = "torn"
      /\ \A c \in Chunks : cur'[c] = cur[c]
  BY <1>1 DEF Damaged, IInv, TypeOK, Disk, Files
<1>3. PreviousRetained'
  BY <1>1, <1>2 DEF IInv, PreviousRetained, LoadRecord, Refs
<1> QED BY <1>1, <1>2, <1>3 DEF AfterDamage, FallsBack, PublishedSoFar, Publishing

\* TornInv is inductive: the one damage leads from IInv to AfterDamage.
LEMMA TornStep ==
  ASSUME FaultFiles \subseteq {Manifest}, FaultKinds \subseteq {"torn"}, MaxFaults <= 1,
         TornInv, [FaultyNext]_vars
  PROVE  TornInv'
<1>1. TypeOK /\ TypeOK'
  BY TypeStep DEF TornInv
<1>2. CASE [Next]_vars
  <2>1. faults' = faults
    BY <1>2 DEF Next, vars, Launch, Reload, Crash, Edit, SaveStep, StartSave, WriteTemp,
                DropPrevious, RotateCurrent, ReplaceCurrent, PublishChunk, PublishManifest,
                StepFails, PublishFails, PruneEnds, PruneFile
  <2> QED BY <1>1, <1>2, <2>1, InvStep, DamagedStep DEF TornInv
<1>3. ASSUME NEW f \in FaultFiles, NEW k \in FaultKinds, Damage(f, k) PROVE TornInv'
  <2>1. faults = 0 /\ faults' = 1
    BY <1>1, <1>3, BoundAssumption DEF Damage, TypeOK
  <2>2. AfterDamage'
    BY <1>3, <2>1, TearStep DEF TornInv
  <2> QED BY <1>1, <2>1, <2>2 DEF TornInv
<1> QED BY <1>2, <1>3 DEF FaultyNext

\* Between a commit and the next save, one torn manifest costs at most the last
\* commit, whatever the game did before and did after: the .prev manifest is
\* read, and every record it refers to is still there.  It takes a second
\* damage, or one that hides the header line, to lose more.
THEOREM OneLost ==
  ASSUME FaultFiles \subseteq {Manifest}, FaultKinds \subseteq {"torn"}, MaxFaults <= 1
  PROVE  FaultySpec => []OneGenerationLost
<1>1. Init => TornInv
  BY InvInit DEF IInv, Init, TornInv
<1>2. TornInv /\ [FaultyNext]_vars => TornInv'
  BY TornStep
<1>3. ASSUME TornInv, fallback # NoCampaign PROVE Recovered \in {committed, fallback}
  <2>1. CASE faults = 0
    BY <1>3, <2>1, CommittedLoads DEF TornInv, Recovered, NoFile, Damaged, Loads
  <2>2. CASE faults # 0 /\ FallsBack
    <3>1. /\ prev[Manifest].kind = "ok" /\ Loads(prev[Manifest])
          /\ Loaded(prev[Manifest], Refs(prev[Manifest].data)) = fallback
      BY <1>3, <2>2, PreviousLoads DEF TornInv, TypeOK, FallsBack
    <3>2. ReadManifest = prev[Manifest]
      BY <2>2, <3>1 DEF FallsBack, ReadManifest, ReadsAsManifest
    <3> QED BY <3>1, <3>2 DEF Recovered
  <2>3. CASE faults # 0 /\ CommitInPlace
    <3>1. cur[Manifest].kind = "ok" /\ cur[Manifest].data = committed
      BY <2>3 DEF CommitInPlace, Whole
    <3>2. committed \in World
      BY <1>3, <3>1, FileShape DEF TornInv, TypeOK, Disk, Files
    <3>3. \A c \in Refs(committed) :
            LoadRecord(c, cur[Manifest].gen) = Whole(cur[Manifest].gen, committed[c])
      BY <2>3 DEF CommitInPlace, LoadRecord, Fits, Whole
    <3>4. ReadManifest = cur[Manifest]
      BY <3>1 DEF ReadManifest, ReadsAsManifest
    <3> QED BY <3>1, <3>2, <3>3, <3>4, WorldLoads DEF Recovered
  <2> QED BY <1>3, <2>1, <2>2, <2>3 DEF TornInv, AfterDamage
<1> QED BY <1>1, <1>2, <1>3, PTL DEF FaultySpec, OneGenerationLost

=============================================================================
