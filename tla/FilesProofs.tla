----------------------------- MODULE FilesProofs ----------------------------
(***************************************************************************)
(* Theorems about the files of ditm, for every set of paths and contents   *)
(* and every bound.                                                        *)
(***************************************************************************)
EXTENDS Files, TLAPS

-----------------------------------------------------------------------------
(* Type correctness.                                                       *)

LEMMA Bounds == MaxRecordings \in Nat /\ MaxSnapshots \in Nat /\ MaxBegun \in Nat
BY FilesAssumption

LEMMA BlankType ==
    /\ NoFiles \in Files
    /\ NoRecording \in Recordings
    /\ MissingRecording \in RecordingFiles
    /\ MissingSnapshot \in SnapshotFiles
BY Bounds DEF NoFiles, Files, NoRecording, Recordings, States,
   MissingRecording, RecordingFiles, MissingSnapshot, SnapshotFiles

\* writeRecording adds a file or none.
LEMMA WriteRecordingType ==
    ASSUME TypeOK, writeRecording
    PROVE  /\ recordings' \in [1..MaxRecordings -> RecordingFiles]
           /\ lastSavedId' \in 0..MaxRecordings
BY DEF TypeOK, writeRecording, RecordingFiles, States

\* writeVolumes begins with an empty archive.
LEMMA WriteVolumesType ==
    ASSUME TypeOK, NEW handler \in Archiving, NEW start \in 0..MaxBegun,
           writeVolumes(handler, start)
    PROVE  /\ snapshots' \in [1..MaxSnapshots -> SnapshotFiles]
           /\ archive' \in 1..MaxSnapshots
           /\ left' \subseteq Paths
           /\ lock' = handler
BY BlankType DEF TypeOK, writeVolumes, SnapshotFiles, States, Existing

LEMMA RecordingTypeStep == ASSUME TypeOK, RecordingSteps PROVE TypeOK'
<1> USE BlankType
<1>1. CASE HomeHandler
  BY <1>1 DEF HomeHandler, TypeOK, archiver
<1>2. CASE EndRecordingHandler
  BY <1>2, WriteRecordingType DEF EndRecordingHandler, TypeOK, archiver
<1>3. CASE EndReplay
  BY <1>3, WriteRecordingType DEF EndReplay, TypeOK, archiver
<1>4. ASSUME NEW id \in 1..MaxRecordings, InspectHandler(id) PROVE TypeOK'
  BY <1>4 DEF InspectHandler, TypeOK, archiver, RecordingFiles
<1>5. ASSUME NEW id \in 1..MaxRecordings, StartReplayHandler(id) PROVE TypeOK'
  BY <1>5 DEF StartReplayHandler, TypeOK, archiver, RecordingFiles, Recordings,
              Readable, loadVolumes, Existing, Archiving, Restoring
<1>6. ASSUME NEW id \in 1..MaxRecordings, StartReplayPanics(id) PROVE TypeOK'
  BY <1>6 DEF StartReplayPanics, TypeOK, archiver, Archiving, Restoring
<1> QED  BY <1>1, <1>2, <1>3, <1>4, <1>5, <1>6 DEF RecordingSteps

LEMMA ArchiverTypeStep ==
    ASSUME TypeOK, ArchiveFile \/ ArchiveSkips \/ RestoreFile PROVE TypeOK'
<1>1. CASE ArchiveFile
  <2>1. PICK path \in Existing(volumes) :
            /\ snapshots' = [snapshots EXCEPT ![archive].data[path] = volumes[path]]
            /\ left' = left \ {path}
    BY <1>1 DEF ArchiveFile
  <2>2. archive \in 1..MaxSnapshots /\ snapshots[archive] \in SnapshotFiles
    BY <1>1 DEF ArchiveFile, TypeOK, Archiving
  <2>3. path \in Paths /\ volumes[path] \in Contents \cup {None}
    BY DEF Existing, TypeOK, Files
  <2>4. [snapshots[archive].data EXCEPT ![path] = volumes[path]] \in Files
    BY <2>2, <2>3 DEF SnapshotFiles, Files
  <2>5. snapshots' \in [1..MaxSnapshots -> SnapshotFiles]
    BY <2>1, <2>2, <2>4 DEF TypeOK, SnapshotFiles
  <2> QED  BY <1>1, <2>1, <2>5 DEF ArchiveFile, TypeOK
<1>2. CASE ArchiveSkips
  BY <1>2 DEF ArchiveSkips, TypeOK
<1>3. CASE RestoreFile
  <2>1. archive \in 1..MaxSnapshots /\ snapshots[archive] \in SnapshotFiles
    BY <1>3 DEF RestoreFile, TypeOK, Restoring
  <2>2. PICK path \in left :
            /\ volumes' = [volumes EXCEPT ![path] = snapshots[archive].data[path]]
            /\ left' = left \ {path}
    BY <1>3 DEF RestoreFile
  <2>3. volumes' \in Files
    BY <2>1, <2>2 DEF TypeOK, SnapshotFiles, Files
  <2> QED  BY <1>3, <2>2, <2>3 DEF RestoreFile, TypeOK
<1> QED  BY <1>1, <1>2, <1>3

LEMMA SnapshotTypeStep == ASSUME TypeOK, SnapshotSteps PROVE TypeOK'
<1> USE BlankType
<1>0. ASSUME Len(begun) < MaxBegun, begun' = Append(begun, volumes)
      PROVE  begun' \in Seq(Files) /\ Len(begun') <= MaxBegun
  BY <1>0, Bounds DEF TypeOK
<1>1. CASE StartRecordingHandler
  <2>1. Len(begun) + 1 \in 0..MaxBegun
    BY <1>1, Bounds DEF StartRecordingHandler, TypeOK
  <2> QED  BY <1>0, <1>1, <2>1, WriteVolumesType
           DEF StartRecordingHandler, TypeOK, Archiving
<1>2. CASE StartRecordingArchived
  <2>1. recording' \in Recordings
    BY <1>2, Bounds
       DEF StartRecordingArchived, TypeOK, Recordings, Archiving
  <2>2. snapshots' \in [1..MaxSnapshots -> SnapshotFiles]
    BY <1>2 DEF StartRecordingArchived, ArchiveClosed, TypeOK, SnapshotFiles, States
  <2> QED  BY <1>2, <2>1, <2>2
           DEF StartRecordingArchived, TypeOK, Archiving, Restoring
<1>3. CASE StartRecordingNoSnapshot
  <2>1. recording' \in Recordings
    BY <1>3, Bounds DEF StartRecordingNoSnapshot, TypeOK, Recordings
  <2> QED  BY <1>0, <1>3, <2>1 DEF StartRecordingNoSnapshot, TypeOK, archiver
<1>4. CASE SaveVolumesHandler
  BY <1>4, WriteVolumesType, Bounds
     DEF SaveVolumesHandler, TypeOK, Archiving
<1>5. CASE SaveVolumesArchived
  <2>1. snapshots' \in [1..MaxSnapshots -> SnapshotFiles]
    BY <1>5 DEF SaveVolumesArchived, ArchiveClosed, TypeOK, SnapshotFiles, States
  <2> QED  BY <1>5, <2>1 DEF SaveVolumesArchived, TypeOK, Archiving, Restoring
<1>6. ASSUME NEW id \in 0..MaxSnapshots, LoadVolumesHandler(id) PROVE TypeOK'
  BY <1>6 DEF LoadVolumesHandler, TypeOK, loadVolumes, Existing, Archiving,
              Restoring
<1>7. CASE Restored
  BY <1>7 DEF Restored, TypeOK, Archiving, Restoring
<1> QED  BY <1>1, <1>2, <1>3, <1>4, <1>5, <1>6, <1>7, ArchiverTypeStep
         DEF SnapshotSteps

LEMMA OtherTypeStep == ASSUME TypeOK, OtherSteps PROVE TypeOK'
<1> USE BlankType
<1>1. CASE SystemWrites
  BY <1>1 DEF SystemWrites, TypeOK, Files, archiver
<1>2. CASE Restart
  <2>1. lock' \in {"free", "leaked"} /\ archive' = 0 /\ left' \subseteq Paths
    BY <1>2 DEF Restart
  <2>2. lastSavedId' \in 0..MaxRecordings
    <3>1. lastSavedId' = 0
      BY <1>2 DEF Restart
    <3> QED  BY <3>1, Bounds
  <2>5. replayed' \in BOOLEAN
    BY <1>2 DEF Restart
  <2>3. recording' \in Recordings /\ replayingFrom' \in Recordings
    BY <1>2 DEF Restart
  <2> QED  BY <1>2, <2>1, <2>2, <2>3, <2>5 DEF Restart, TypeOK
<1>3. ASSUME NEW id \in 1..MaxRecordings, DeleteRecording(id) PROVE TypeOK'
  BY <1>3 DEF DeleteRecording, TypeOK, archiver
<1>4. ASSUME NEW id \in 1..MaxSnapshots, DeleteSnapshot(id) PROVE TypeOK'
  BY <1>4 DEF DeleteSnapshot, TypeOK, archiver
<1> QED  BY <1>1, <1>2, <1>3, <1>4 DEF OtherSteps

LEMMA InitType == ASSUME Init PROVE TypeOK
<1>1. lock \in {"free", "leaked"} /\ archive = 0 /\ left \subseteq Paths
  BY DEF Init
<1>2. lastSavedId \in 0..MaxRecordings
  <2>1. lastSavedId = 0
    BY DEF Init
  <2> QED  BY <2>1, Bounds
<1>5. replayed \in BOOLEAN
  BY DEF Init
<1>3. begun \in Seq(Files) /\ Len(begun) <= MaxBegun
  BY Bounds DEF Init
<1>4. /\ snapshots \in [1..MaxSnapshots -> SnapshotFiles]
      /\ recordings \in [1..MaxRecordings -> RecordingFiles]
  BY BlankType DEF Init
<1> QED  BY <1>1, <1>2, <1>3, <1>4, <1>5, BlankType DEF Init, TypeOK

THEOREM FilesType == Spec => []TypeOK
<1>1. Init => TypeOK
  BY InitType
<1>2. TypeOK /\ [Next]_vars => TypeOK'
  <2> SUFFICES ASSUME TypeOK, [Next]_vars PROVE TypeOK'
    OBVIOUS
  <2>1. CASE Next
    BY <2>1, RecordingTypeStep, SnapshotTypeStep, OtherTypeStep DEF Next
  <2>2. CASE UNCHANGED vars
    BY <2>2 DEF vars, archiver, TypeOK
  <2> QED  BY <2>1, <2>2
<1> QED  BY <1>1, <1>2, PTL DEF Spec

-----------------------------------------------------------------------------
(* Nothing is overwritten.                                                 *)

\* The archive that is being made is not complete.
ArchiveOpen == lock \in Archiving => snapshots[archive].state = "cut"

\* What a step may do to the files.
Preserving ==
    /\ \A id \in 1..MaxRecordings :
          recordings[id].state # "missing" =>
              recordings'[id] \in {recordings[id], MissingRecording}
    /\ \A id \in 1..MaxSnapshots :
          snapshots[id].state = "whole" =>
              snapshots'[id] \in {snapshots[id], MissingSnapshot}

LEMMA WriteRecordingPreserves ==
    ASSUME TypeOK, writeRecording, snapshots' = snapshots PROVE Preserving
BY DEF TypeOK, writeRecording, newFilePath, Preserving

LEMMA WriteVolumesPreserves ==
    ASSUME TypeOK, NEW handler \in Archiving, NEW start \in 0..MaxBegun,
           writeVolumes(handler, start), recordings' = recordings
    PROVE  Preserving /\ ArchiveOpen'
BY DEF TypeOK, writeVolumes, newFilePath, Preserving, ArchiveOpen, SnapshotFiles

\* Closing an archive completes the one that was open, or leaves it.
LEMMA ArchiveClosedPreserves ==
    ASSUME TypeOK, ArchiveOpen, lock \in Archiving, ArchiveClosed,
           recordings' = recordings, lock' = "free"
    PROVE  Preserving /\ ArchiveOpen'
BY DEF TypeOK, ArchiveClosed, Preserving, ArchiveOpen, Archiving

LEMMA PreservingStep ==
    ASSUME TypeOK, ArchiveOpen, [Next]_vars PROVE Preserving /\ ArchiveOpen'
<1>1. CASE StartRecordingHandler
  <2>1. Len(begun) + 1 \in 0..MaxBegun
    BY <1>1, Bounds DEF StartRecordingHandler, TypeOK
  <2> QED  BY <1>1, <2>1, WriteVolumesPreserves
           DEF StartRecordingHandler, Archiving
<1>2. CASE SaveVolumesHandler
  BY <1>2, Bounds, WriteVolumesPreserves DEF SaveVolumesHandler, Archiving
<1>3. CASE StartRecordingArchived
  BY <1>3, ArchiveClosedPreserves DEF StartRecordingArchived, Archiving
<1>4. CASE SaveVolumesArchived
  BY <1>4, ArchiveClosedPreserves DEF SaveVolumesArchived, Archiving
<1>5. CASE EndRecordingHandler
  BY <1>5, WriteRecordingPreserves
     DEF EndRecordingHandler, ArchiveOpen, Archiving
<1>6. CASE EndReplay
  BY <1>6, WriteRecordingPreserves DEF EndReplay, ArchiveOpen, Archiving
<1>7. CASE ArchiveFile
  <2>1. archive \in 1..MaxSnapshots
    BY <1>7 DEF ArchiveFile, TypeOK, Archiving
  <2>2. /\ \A id \in 1..MaxSnapshots \ {archive} : snapshots'[id] = snapshots[id]
        /\ snapshots'[archive].state = snapshots[archive].state
    BY <1>7, <2>1 DEF ArchiveFile, TypeOK, SnapshotFiles
  <2> QED  BY <1>7, <2>1, <2>2 DEF ArchiveFile, Preserving, ArchiveOpen
<1>8. ASSUME NEW id \in 1..MaxRecordings, DeleteRecording(id)
      PROVE  Preserving /\ ArchiveOpen'
  BY <1>8 DEF DeleteRecording, Preserving, ArchiveOpen, TypeOK, archiver
<1>9. ASSUME NEW id \in 1..MaxSnapshots, DeleteSnapshot(id)
      PROVE  Preserving /\ ArchiveOpen'
  BY <1>9 DEF DeleteSnapshot, Preserving, ArchiveOpen, TypeOK, archiver
<1>10. ASSUME UNCHANGED <<recordings, snapshots>>,
              lock' \in Archiving => UNCHANGED <<lock, archive>>
       PROVE  Preserving /\ ArchiveOpen'
  BY <1>10 DEF Preserving, ArchiveOpen
<1>11. CASE \/ HomeHandler \/ StartRecordingNoSnapshot \/ ArchiveSkips
            \/ RestoreFile \/ Restored \/ SystemWrites \/ Restart
            \/ UNCHANGED vars
            \/ \E id \in 1..MaxRecordings : \/ InspectHandler(id)
                                            \/ StartReplayHandler(id)
                                            \/ StartReplayPanics(id)
            \/ \E id \in 0..MaxSnapshots : LoadVolumesHandler(id)
  BY <1>10, <1>11 DEF HomeHandler, StartRecordingNoSnapshot, ArchiveSkips,
     RestoreFile, Restored, SystemWrites, Restart, vars, InspectHandler,
     StartReplayHandler, StartReplayPanics, LoadVolumesHandler, loadVolumes,
     archiver, Archiving
<1> QED  BY <1>1, <1>2, <1>3, <1>4, <1>5, <1>6, <1>7, <1>8, <1>9, <1>11
         DEF Next, RecordingSteps, SnapshotSteps, OtherSteps

\* Whatever happened to the files before, a number is given to a new file only
\* when no file has it: what is saved changes only when the user deletes it.
THEOREM Kept == Spec => NothingOverwritten
<1>1. Init => ArchiveOpen
  BY DEF Init, ArchiveOpen, Archiving
<1>2. TypeOK /\ ArchiveOpen /\ [Next]_vars => Preserving /\ ArchiveOpen'
  BY PreservingStep
<1>3. NothingOverwritten <=> [][Preserving]_vars
  BY PTL DEF NothingOverwritten, Preserving
<1> QED  BY <1>1, <1>2, <1>3, FilesType, PTL DEF Spec

-----------------------------------------------------------------------------
(* Recordings and their snapshots.                                         *)

\* A number that is free belongs to no recording, and the archive made for a
\* recording says so before the recording names it.
LinkInv ==
    /\ TypeOK
    /\ SnapshotBelongs
    /\ \A id \in 1..MaxSnapshots :
          snapshots[id].state = "missing" => snapshots[id].start = 0
    /\ lock = "StartRecordingHandler" =>
          Len(begun) # 0 /\ snapshots[archive].start = Len(begun)

\* What a recording in memory or in a file may become, in a step that makes
\* none: another of those there are.
Known == {NoRecording, recording, replayingFrom}
             \cup {recordings[id].data : id \in 1..MaxRecordings}

OnlyKnown ==
    /\ recording' \in Known
    /\ replayingFrom' \in Known
    /\ \A id \in 1..MaxRecordings : recordings'[id].data \in Known

\* A snapshot that is named keeps its start.
Named == {id \in 1..MaxSnapshots : snapshots[id].start # 0}

LEMMA KnownBelong ==
    ASSUME LinkInv, OnlyKnown, TypeOK',
           \A id \in Named : snapshots'[id].start = snapshots[id].start
    PROVE  SnapshotBelongs'
<1>1. ASSUME NEW data \in Known PROVE Belongs(data)'
  <2>1. Belongs(data)
    BY DEF Known, LinkInv, SnapshotBelongs, Belongs, NoRecording
  <2>2. data \in Recordings
    BY BlankType DEF Known, LinkInv, TypeOK, RecordingFiles
  <2>3. data.Volumes # 0 => data.Volumes \in 1..MaxSnapshots
    BY <2>2, Bounds DEF Recordings
  <2> QED  BY <2>1, <2>3 DEF Belongs, Named
<1> QED  BY <1>1 DEF OnlyKnown, SnapshotBelongs, Belongs

LEMMA WriteRecordingKnown ==
    ASSUME TypeOK, writeRecording PROVE
        \A id \in 1..MaxRecordings : recordings'[id].data \in Known
<1>1. CASE recordings' = recordings
  BY <1>1 DEF Known
<1>2. ASSUME NEW id \in 1..MaxRecordings, NEW state \in States,
             recordings' = [recordings EXCEPT ![id] =
                               [state |-> state, data |-> recording]]
      PROVE  \A n \in 1..MaxRecordings : recordings'[n].data \in Known
  <2> TAKE n \in 1..MaxRecordings
  <2>1. CASE n = id
    BY <1>2, <2>1 DEF TypeOK, Known
  <2>2. CASE n # id
    BY <1>2, <2>2 DEF TypeOK, Known
  <2> QED  BY <2>1, <2>2
<1> QED  BY <1>1, <1>2 DEF writeRecording, States

LEMMA WriteVolumesLinks ==
    ASSUME LinkInv, NEW handler \in Archiving, NEW start \in 0..MaxBegun,
           writeVolumes(handler, start)
    PROVE  /\ \A id \in Named : snapshots'[id].start = snapshots[id].start
           /\ \A id \in 1..MaxSnapshots :
                 snapshots'[id].state = "missing" => snapshots'[id].start = 0
           /\ snapshots'[archive'].start = start
BY DEF LinkInv, TypeOK, writeVolumes, newFilePath, Named

LEMMA ArchiveClosedLinks ==
    ASSUME TypeOK, lock \in Archiving, ArchiveClosed
    PROVE  \A id \in 1..MaxSnapshots :
              /\ snapshots'[id].start = snapshots[id].start
              /\ snapshots'[id].state = "missing" => snapshots[id].state = "missing"
<1>1. archive \in 1..MaxSnapshots
  BY DEF TypeOK, Archiving
<1>2. CASE snapshots' = snapshots
  BY <1>2
<1>3. CASE snapshots' = [snapshots EXCEPT ![archive].state = "whole"]
  <2> TAKE id \in 1..MaxSnapshots
  <2>1. CASE id = archive
    BY <1>1, <1>3, <2>1 DEF TypeOK, SnapshotFiles
  <2>2. CASE id # archive
    BY <1>1, <1>3, <2>2 DEF TypeOK
  <2> QED  BY <2>1, <2>2
<1> QED  BY <1>2, <1>3 DEF ArchiveClosed

LEMMA LinkStep ==
    ASSUME "create_fails" \notin Events, "delete_snapshot" \notin Events,
           LinkInv, TypeOK', [Next]_vars
    PROVE  LinkInv'
<1> USE DEF LinkInv
<1>1. CASE StartRecordingHandler
  <2>1. Len(begun) + 1 \in 0..MaxBegun /\ Len(begun') = Len(begun) + 1
    BY <1>1, Bounds DEF StartRecordingHandler, TypeOK
  <2>2. OnlyKnown
    BY <1>1 DEF StartRecordingHandler, OnlyKnown, Known
  <2>3. writeVolumes("StartRecordingHandler", Len(begun) + 1)
    BY <1>1 DEF StartRecordingHandler
  <2>4. "StartRecordingHandler" \in Archiving /\ Len(begun) \in Nat
    BY DEF Archiving, TypeOK
  <2>5. Len(begun') # 0
    BY <2>1, <2>4
  <2> QED  BY <2>1, <2>2, <2>3, <2>4, <2>5, WriteVolumesLinks, KnownBelong
<1>2. CASE SaveVolumesHandler
  <2>1. OnlyKnown
    BY <1>2 DEF SaveVolumesHandler, OnlyKnown, Known
  <2>2. writeVolumes("SaveVolumesHandler", 0) /\ lock' = "SaveVolumesHandler"
    BY <1>2 DEF SaveVolumesHandler, writeVolumes
  <2> QED  BY <2>1, <2>2, Bounds, WriteVolumesLinks, KnownBelong DEF Archiving
<1>3. CASE StartRecordingArchived
  <2>1. archive \in 1..MaxSnapshots /\ snapshots[archive].start = Len(begun)
    BY <1>3 DEF StartRecordingArchived, TypeOK
  <2>2. /\ \A id \in 1..MaxSnapshots : snapshots'[id].start = snapshots[id].start
        /\ \A id \in 1..MaxSnapshots :
              snapshots'[id].state = "missing" => snapshots[id].state = "missing"
    BY <1>3, ArchiveClosedLinks DEF StartRecordingArchived, Archiving
  <2>3. recording' = [Volumes |-> archive, start |-> Len(begun)] /\ Len(begun) # 0
    BY <1>3 DEF StartRecordingArchived
  <2>4. Belongs(recording)'
    BY <2>1, <2>2, <2>3 DEF Belongs
  <2>5. ASSUME NEW data \in {NoRecording} \cup
                   {recordings[id].data : id \in 1..MaxRecordings}
        PROVE  Belongs(data)'
    <3>1. Belongs(data)
      BY DEF SnapshotBelongs, Belongs, NoRecording
    <3>2. data.Volumes \in 0..MaxSnapshots
      BY BlankType DEF TypeOK, Recordings, RecordingFiles
    <3> QED  BY <2>2, <3>1, <3>2 DEF Belongs
  <2>6. SnapshotBelongs'
    BY <1>3, <2>4, <2>5 DEF StartRecordingArchived, SnapshotBelongs, Belongs
  <2> QED  BY <1>3, <2>2, <2>6 DEF StartRecordingArchived
<1>4. CASE SaveVolumesArchived
  <2>1. OnlyKnown
    BY <1>4 DEF SaveVolumesArchived, OnlyKnown, Known
  <2>2. /\ \A id \in 1..MaxSnapshots : snapshots'[id].start = snapshots[id].start
        /\ \A id \in 1..MaxSnapshots :
              snapshots'[id].state = "missing" => snapshots[id].state = "missing"
    BY <1>4, ArchiveClosedLinks DEF SaveVolumesArchived, Archiving
  <2> QED  BY <1>4, <2>1, <2>2, KnownBelong DEF SaveVolumesArchived, Named
<1>5. CASE ArchiveFile
  <2>1. OnlyKnown
    BY <1>5 DEF ArchiveFile, OnlyKnown, Known
  <2>2. archive \in 1..MaxSnapshots
    BY <1>5 DEF ArchiveFile, TypeOK, Archiving
  <2>3. \A id \in 1..MaxSnapshots : /\ snapshots'[id].start = snapshots[id].start
                                    /\ snapshots'[id].state = snapshots[id].state
    BY <1>5, <2>2 DEF ArchiveFile, TypeOK, SnapshotFiles
  <2> QED  BY <1>5, <2>1, <2>2, <2>3, KnownBelong DEF ArchiveFile, Named
<1>6. ASSUME OnlyKnown, snapshots' = snapshots,
             lock' = "StartRecordingHandler" => UNCHANGED <<lock, archive, begun>>
      PROVE  LinkInv'
  BY <1>6, KnownBelong
<1>7. CASE EndRecordingHandler \/ EndReplay
  BY <1>6, <1>7, WriteRecordingKnown
     DEF EndRecordingHandler, EndReplay, OnlyKnown, Known
<1>8. CASE \E id \in 1..MaxRecordings : \/ InspectHandler(id)
                                        \/ StartReplayHandler(id)
                                        \/ StartReplayPanics(id)
                                        \/ DeleteRecording(id)
  <2>1. OnlyKnown
    BY <1>8 DEF InspectHandler, StartReplayHandler, StartReplayPanics,
       DeleteRecording, OnlyKnown, Known, MissingRecording, TypeOK
  <2>2. /\ snapshots' = snapshots
        /\ lock' = "StartRecordingHandler" => UNCHANGED <<lock, archive, begun>>
    BY <1>8 DEF InspectHandler, StartReplayHandler, StartReplayPanics,
       DeleteRecording, loadVolumes, archiver
  <2> QED  BY <1>6, <2>1, <2>2
<1>9. CASE \/ HomeHandler \/ ArchiveSkips \/ RestoreFile \/ Restored
           \/ SystemWrites \/ Restart \/ UNCHANGED vars
           \/ \E id \in 0..MaxSnapshots : LoadVolumesHandler(id)
  BY <1>6, <1>9 DEF HomeHandler, ArchiveSkips, RestoreFile, Restored,
     SystemWrites, Restart, vars, LoadVolumesHandler, loadVolumes, archiver,
     OnlyKnown, Known
<1>10. ~StartRecordingNoSnapshot /\ \A id \in 1..MaxSnapshots : ~DeleteSnapshot(id)
  BY DEF StartRecordingNoSnapshot, DeleteSnapshot
<1> QED  BY <1>1, <1>2, <1>3, <1>4, <1>5, <1>7, <1>8, <1>9, <1>10
         DEF Next, RecordingSteps, SnapshotSteps, OtherSteps

\* Where snapshots are not deleted and their files can be made, a recording
\* names the snapshot that was made when it began: in memory, on the disk, and
\* in the copies that an EndReplay saves.
THEOREM Linked ==
    ASSUME "create_fails" \notin Events, "delete_snapshot" \notin Events
    PROVE  Spec => []SnapshotBelongs
<1>1. Init => LinkInv
  <2> SUFFICES ASSUME Init PROVE LinkInv
    OBVIOUS
  <2>1. SnapshotBelongs
    BY DEF Init, SnapshotBelongs, Belongs, NoRecording, MissingRecording
  <2>2. /\ \A id \in 1..MaxSnapshots : snapshots[id].start = 0
        /\ lock # "StartRecordingHandler"
    BY DEF Init, MissingSnapshot
  <2> QED  BY <2>1, <2>2, InitType DEF LinkInv
<1>2. LinkInv /\ TypeOK' /\ [Next]_vars => LinkInv'
  BY LinkStep
<1>3. LinkInv => SnapshotBelongs
  BY DEF LinkInv
<1> QED  BY <1>1, <1>2, <1>3, FilesType, PTL DEF Spec

-----------------------------------------------------------------------------
(* The file of the latest recording.                                       *)

\* Numbers are taken without gaps.
LatestInv ==
    /\ TypeOK
    /\ LatestIsNewest
    /\ \A id \in 1..MaxRecordings, lower \in 1..MaxRecordings :
          lower < id /\ recordings[id].state # "missing" =>
              recordings[lower].state # "missing"

LEMMA WriteRecordingLatest ==
    ASSUME "create_fails" \notin Events, LatestInv, TypeOK', writeRecording
    PROVE  LatestInv'
<1>1. PICK id \in 1..MaxRecordings :
          /\ newFilePath(recordings, id)
          /\ lastSavedId' = id
          /\ \E state \in {"whole", "cut"} :
                recordings' = [recordings EXCEPT ![id] =
                                  [state |-> state, data |-> recording]]
  BY DEF writeRecording
<1>2. /\ recordings'[id].state # "missing"
      /\ \A n \in 1..MaxRecordings : n # id => recordings'[n] = recordings[n]
  BY <1>1 DEF LatestInv, TypeOK
<1>3. \A n \in 1..MaxRecordings : n > id => recordings[n].state = "missing"
  BY <1>1 DEF newFilePath, LatestInv
<1>4. \A n \in 1..MaxRecordings : n < id => recordings[n].state # "missing"
  BY <1>1, Bounds DEF newFilePath
<1>5. LatestIsNewest'
  <2>1. ASSUME NEW n \in lastSavedId' + 1..MaxRecordings
        PROVE  recordings'[n].state = "missing"
    <3>1. n \in 1..MaxRecordings /\ n > id
      BY <1>1, <2>1, Bounds
    <3> QED  BY <1>2, <1>3, <3>1
  <2> QED  BY <1>1, <1>2, <2>1 DEF LatestIsNewest
<1>6. ASSUME NEW n \in 1..MaxRecordings, NEW lower \in 1..MaxRecordings,
             lower < n, recordings'[n].state # "missing"
      PROVE  recordings'[lower].state # "missing"
  <2>1. n <= id
    BY <1>2, <1>3, <1>6, Bounds
  <2>2. lower < id
    BY <1>6, <2>1, Bounds
  <2> QED  BY <1>2, <1>4, <2>2
<1> QED  BY <1>5, <1>6 DEF LatestInv

LEMMA LatestStep ==
    ASSUME "create_fails" \notin Events, "delete_recording" \notin Events,
           LatestInv, TypeOK', [Next]_vars
    PROVE  LatestInv'
<1>1. CASE EndRecordingHandler \/ EndReplay
  BY <1>1, WriteRecordingLatest DEF EndRecordingHandler, EndReplay
<1>2. ASSUME recordings' = recordings, lastSavedId' \in {0, lastSavedId}
      PROVE  LatestInv'
  BY <1>2 DEF LatestInv, LatestIsNewest
<1>3. CASE ~EndRecordingHandler /\ ~EndReplay
  <2>1. \A id \in 1..MaxRecordings : ~DeleteRecording(id)
    BY DEF DeleteRecording
  <2>2. CASE RecordingSteps
    BY <1>2, <1>3, <2>2 DEF RecordingSteps, HomeHandler, InspectHandler,
       StartReplayHandler, StartReplayPanics
  <2>3. CASE SnapshotSteps
    BY <1>2, <2>3 DEF SnapshotSteps, StartRecordingHandler,
       StartRecordingArchived, StartRecordingNoSnapshot, SaveVolumesHandler,
       SaveVolumesArchived, LoadVolumesHandler, ArchiveFile, ArchiveSkips,
       RestoreFile, Restored
  <2>4. CASE OtherSteps
    BY <1>2, <2>1, <2>4 DEF OtherSteps, SystemWrites, Restart, DeleteSnapshot
  <2>5. CASE UNCHANGED vars
    BY <1>2, <2>5 DEF vars
  <2> QED  BY <2>2, <2>3, <2>4, <2>5 DEF Next
<1> QED  BY <1>1, <1>3

\* Where recordings are not deleted and their files can be made, the number
\* that /api/latest_recording answers is that of the newest file.
THEOREM Latest ==
    ASSUME "create_fails" \notin Events, "delete_recording" \notin Events
    PROVE  Spec => []LatestIsNewest
<1>1. Init => LatestInv
  <2> SUFFICES ASSUME Init PROVE LatestInv
    OBVIOUS
  <2>1. lastSavedId = 0 /\ \A id \in 1..MaxRecordings : recordings[id].state = "missing"
    BY DEF Init, MissingRecording
  <2> QED  BY <2>1, InitType DEF LatestInv, LatestIsNewest
<1>2. LatestInv /\ TypeOK' /\ [Next]_vars => LatestInv'
  BY LatestStep
<1>3. LatestInv => LatestIsNewest
  BY DEF LatestInv
<1> QED  BY <1>1, <1>2, <1>3, FilesType, PTL DEF Spec

-----------------------------------------------------------------------------
(* A replay starts as its recording did.                                   *)

\* Nothing disturbs the archiver, the archives or their numbers.
Undisturbed ==
    {"busy", "unreadable", "create_fails", "delete_snapshot"} \cap Events = {}

\* The archive that is made for a recording holds what the volumes were when it
\* began, as far as the archiver has come ...
ArchivedSoFar ==
    lock = "StartRecordingHandler" =>
        /\ Len(begun) # 0
        /\ volumes = begun[Len(begun)]
        /\ \A path \in Paths :
              /\ snapshots[archive].data[path] \in {None, volumes[path]}
              /\ path \notin left => snapshots[archive].data[path] = volumes[path]

\* ... while the one that the user asked for is nobody's ...
SavedForNobody ==
    lock = "SaveVolumesHandler" => snapshots[archive].start = 0

\* ... and it holds all of it once it is complete.
WholeSnapshots ==
    \A id \in 1..MaxSnapshots :
        snapshots[id].state = "whole" /\ snapshots[id].start # 0 =>
            /\ snapshots[id].start <= Len(begun)
            /\ snapshots[id].data = begun[snapshots[id].start]

\* The replay's snapshot is restored as far as the archiver has come.
RestoredSoFar ==
    lock = "StartReplayHandler" =>
        /\ archive = replayingFrom.Volumes
        /\ snapshots[archive].state = "whole"
        /\ \A path \in Paths \ left :
              snapshots[archive].data[path] \in {None, volumes[path]}

AlikeInv ==
    /\ LinkInv /\ ArchiveOpen
    /\ ArchivedSoFar /\ SavedForNobody /\ WholeSnapshots /\ RestoredSoFar

\* A snapshot that is complete stays so as long as nothing is deleted, and the
\* starts of recordings are not forgotten.
LEMMA WholeStays ==
    ASSUME AlikeInv, TypeOK', begun' \in {begun, Append(begun, volumes)},
           \A id \in 1..MaxSnapshots :
               snapshots'[id].state = "whole" => snapshots'[id] = snapshots[id]
    PROVE  WholeSnapshots'
<1>1. \A n \in 1..Len(begun) : n <= Len(begun') /\ begun'[n] = begun[n]
  BY DEF AlikeInv, LinkInv, TypeOK
<1> SUFFICES ASSUME NEW id \in 1..MaxSnapshots,
                    snapshots'[id].state = "whole", snapshots'[id].start # 0
             PROVE  /\ snapshots'[id].start <= Len(begun')
                    /\ snapshots'[id].data = begun'[snapshots'[id].start]
  BY DEF WholeSnapshots
<1>2. snapshots'[id] = snapshots[id]
  OBVIOUS
<1>3. snapshots[id].start \in 1..Len(begun)
  BY <1>2, Bounds DEF AlikeInv, WholeSnapshots, LinkInv, TypeOK, SnapshotFiles
<1> QED  BY <1>1, <1>2, <1>3 DEF AlikeInv, WholeSnapshots

LEMMA AlikeStep ==
    ASSUME Undisturbed, AlikeInv, LinkInv', TypeOK', ArchiveOpen', [Next]_vars
    PROVE  AlikeInv'
<1> USE DEF AlikeInv
<1>0. /\ "busy" \notin Events /\ "unreadable" \notin Events
      /\ "create_fails" \notin Events /\ "delete_snapshot" \notin Events
  BY DEF Undisturbed
<1>1. CASE StartRecordingHandler \/ SaveVolumesHandler
  <2>1. PICK id \in 1..MaxSnapshots, start \in Nat :
            /\ newFilePath(snapshots, id)
            /\ snapshots' = [snapshots EXCEPT ![id] =
                                [state |-> "cut", data |-> NoFiles, start |-> start]]
            /\ archive' = id
            /\ left' = Existing(volumes)
    BY <1>1 DEF StartRecordingHandler, SaveVolumesHandler, writeVolumes, LinkInv, TypeOK
  <2>2. begun' \in {begun, Append(begun, volumes)} /\ volumes' = volumes
    BY <1>1 DEF StartRecordingHandler, SaveVolumesHandler
  <2>3. \A n \in 1..MaxSnapshots :
            snapshots'[n].state = "whole" => snapshots'[n] = snapshots[n]
    BY <2>1 DEF LinkInv, TypeOK
  <2>4. snapshots'[archive'].data = NoFiles
    BY <2>1 DEF LinkInv, TypeOK
  <2>5. lock' \notin Restoring
    BY <1>1 DEF StartRecordingHandler, SaveVolumesHandler, writeVolumes, Restoring
  <2>6. ArchivedSoFar'
    <3>1. SUFFICES ASSUME lock' = "StartRecordingHandler"
                   PROVE  ArchivedSoFar'
      BY DEF ArchivedSoFar
    <3>2. begun' = Append(begun, volumes)
      BY <1>1, <3>1 DEF StartRecordingHandler, SaveVolumesHandler, writeVolumes
    <3>3. Len(begun') # 0 /\ begun'[Len(begun')] = volumes
      BY <3>2 DEF LinkInv, TypeOK
    <3>4. \A path \in Paths :
              /\ snapshots'[archive'].data[path] = None
              /\ path \notin left' => volumes[path] = None
      BY <2>1, <2>4 DEF NoFiles, Existing
    <3> QED  BY <2>2, <3>3, <3>4 DEF ArchivedSoFar
  <2>7. SavedForNobody'
    BY <1>1, <2>1 DEF StartRecordingHandler, SaveVolumesHandler, writeVolumes,
                      SavedForNobody, LinkInv, TypeOK
  <2> QED  BY <2>2, <2>3, <2>5, <2>6, <2>7, WholeStays DEF RestoredSoFar, Restoring
<1>2. CASE ArchiveFile
  <2>1. PICK path \in Existing(volumes) :
            /\ snapshots[archive].data[path] = None
            /\ snapshots' = [snapshots EXCEPT ![archive].data[path] = volumes[path]]
            /\ left' = left \ {path}
    BY <1>2 DEF ArchiveFile
  <2>2. archive \in 1..MaxSnapshots /\ snapshots[archive] \in SnapshotFiles
    BY <1>2 DEF ArchiveFile, LinkInv, TypeOK, Archiving
  <2>3. /\ snapshots'[archive].start = snapshots[archive].start
        /\ snapshots'[archive].data = [snapshots[archive].data EXCEPT ![path] = volumes[path]]
        /\ snapshots'[archive].state = "cut"
        /\ \A n \in 1..MaxSnapshots \ {archive} : snapshots'[n] = snapshots[n]
    BY <1>2, <2>1, <2>2 DEF ArchiveFile, ArchiveOpen, LinkInv, TypeOK, SnapshotFiles
  <2>4. \A n \in 1..MaxSnapshots :
            snapshots'[n].state = "whole" => snapshots'[n] = snapshots[n]
    BY <2>2, <2>3
  <2>5. \A p \in Paths : snapshots'[archive].data[p] =
            IF p = path THEN volumes[path] ELSE snapshots[archive].data[p]
    BY <2>2, <2>3 DEF SnapshotFiles, Files
  <2>6. ArchivedSoFar'
    BY <1>2, <2>1, <2>5 DEF ArchiveFile, ArchivedSoFar
  <2> QED  BY <1>2, <2>4, <2>6, WholeStays
           DEF ArchiveFile, RestoredSoFar, Archiving, SavedForNobody
<1>3. CASE ArchiveSkips
  <2>1. PICK path \in left : volumes[path] = None /\ left' = left \ {path}
    BY <1>0, <1>3 DEF ArchiveSkips
  <2>2. ArchivedSoFar'
    BY <1>3, <2>1 DEF ArchiveSkips, ArchivedSoFar
  <2> QED  BY <1>3, <2>2, WholeStays
           DEF ArchiveSkips, RestoredSoFar, Archiving, SavedForNobody
<1>4. CASE SaveVolumesArchived \/ StartRecordingArchived
  <2>1. /\ lock \in Archiving /\ lock' = "free" /\ begun' = begun
        /\ archive \in 1..MaxSnapshots /\ ArchiveClosed
    BY <1>4 DEF SaveVolumesArchived, StartRecordingArchived, LinkInv, TypeOK,
                Archiving
  <2>2. CASE snapshots' = snapshots
    BY <2>1, <2>2, WholeStays DEF ArchivedSoFar, RestoredSoFar, SavedForNobody
  <2>3. CASE left = {} /\ snapshots' = [snapshots EXCEPT ![archive].state = "whole"]
    <3>1. /\ snapshots'[archive].start = snapshots[archive].start
          /\ snapshots'[archive].data = snapshots[archive].data
          /\ \A n \in 1..MaxSnapshots \ {archive} : snapshots'[n] = snapshots[n]
      BY <2>1, <2>3 DEF LinkInv, TypeOK, SnapshotFiles
    <3>2. snapshots[archive].start # 0 => lock = "StartRecordingHandler"
      BY <1>4 DEF SavedForNobody, StartRecordingArchived, SaveVolumesArchived
    <3>3. ASSUME lock = "StartRecordingHandler"
          PROVE  /\ snapshots[archive].start <= Len(begun)
                 /\ snapshots[archive].data = begun[snapshots[archive].start]
      <4>1. snapshots[archive].start = Len(begun) /\ Len(begun) \in Nat
        BY <3>3 DEF LinkInv, TypeOK
      <4>2. \A path \in Paths : snapshots[archive].data[path] = volumes[path]
        BY <2>3, <3>3 DEF ArchivedSoFar
      <4>3. snapshots[archive].data = volumes
        BY <2>1, <4>2 DEF LinkInv, TypeOK, SnapshotFiles, Files
      <4> QED  BY <3>3, <4>1, <4>3 DEF ArchivedSoFar
    <3>4. WholeSnapshots'
      BY <2>1, <3>1, <3>2, <3>3 DEF WholeSnapshots
    <3> QED  BY <2>1, <3>4 DEF ArchivedSoFar, RestoredSoFar, SavedForNobody
  <2> QED  BY <2>1, <2>2, <2>3 DEF ArchiveClosed
<1>5. ASSUME UNCHANGED <<snapshots, begun>>, lock' \in {"free", "leaked", "LoadVolumesHandler"}
      PROVE  AlikeInv'
  BY <1>5, WholeStays DEF ArchivedSoFar, RestoredSoFar, SavedForNobody
<1>6. ASSUME UNCHANGED <<lock, volumes, snapshots, replayingFrom, archive, left, begun>>
      PROVE  AlikeInv'
  BY <1>6, WholeStays DEF ArchivedSoFar, RestoredSoFar, SavedForNobody
<1>7. CASE SystemWrites
  <2>1. lock \notin Archiving \cup Restoring /\ lock' = lock
    BY <1>0, <1>7 DEF SystemWrites
  <2> QED  BY <1>5, <1>7, <2>1 DEF SystemWrites, LinkInv, TypeOK
<1>8. CASE RestoreFile
  <2>1. PICK path \in left :
            /\ volumes' = [volumes EXCEPT ![path] = snapshots[archive].data[path]]
            /\ left' = left \ {path}
    BY <1>8 DEF RestoreFile
  <2>2. path \in Paths
    BY DEF LinkInv, TypeOK
  <2>3. RestoredSoFar'
    BY <1>8, <2>1, <2>2 DEF RestoreFile, RestoredSoFar, LinkInv, TypeOK, Files
  <2> QED  BY <1>8, <2>3, WholeStays
           DEF RestoreFile, ArchivedSoFar, Restoring, SavedForNobody
<1>9. ASSUME NEW id \in 1..MaxRecordings, StartReplayHandler(id) PROVE AlikeInv'
  <2>1. CASE lock' = "free"
    BY <1>5, <1>9, <2>1 DEF StartReplayHandler
  <2>2. CASE lock' # "free"
    <3>1. /\ lock' = "StartReplayHandler"
          /\ archive' = replayingFrom'.Volumes
          /\ snapshots[archive'].state = "whole"
          /\ left' = Existing(snapshots[archive'].data)
      BY <1>9, <2>2 DEF StartReplayHandler, Readable, loadVolumes
    <3>2. RestoredSoFar'
      BY <1>9, <3>1 DEF StartReplayHandler, RestoredSoFar, Existing
    <3> QED  BY <1>9, <3>1, <3>2, WholeStays
             DEF StartReplayHandler, ArchivedSoFar, SavedForNobody
  <2> QED  BY <2>1, <2>2
<1>10. CASE \/ Restart \/ Restored
            \/ \E id \in 1..MaxRecordings : StartReplayPanics(id)
            \/ \E id \in 0..MaxSnapshots : LoadVolumesHandler(id)
  BY <1>5, <1>10 DEF Restart, Restored, StartReplayPanics, LoadVolumesHandler,
     loadVolumes
<1>11. CASE \/ HomeHandler \/ EndRecordingHandler \/ EndReplay \/ UNCHANGED vars
            \/ \E id \in 1..MaxRecordings : InspectHandler(id) \/ DeleteRecording(id)
  BY <1>6, <1>11 DEF HomeHandler, EndRecordingHandler, EndReplay, vars,
     InspectHandler, DeleteRecording, archiver
<1>12. ~StartRecordingNoSnapshot /\ \A id \in 1..MaxSnapshots : ~DeleteSnapshot(id)
  BY <1>0 DEF StartRecordingNoSnapshot, DeleteSnapshot
<1> QED  BY <1>1, <1>2, <1>3, <1>4, <1>7, <1>8, <1>9, <1>10, <1>11, <1>12
         DEF Next, RecordingSteps, SnapshotSteps, OtherSteps

\* Where nothing disturbs the archiver, a replay whose snapshot can be read
\* begins with the files as they were when the recording began.
THEOREM Alike == ASSUME Undisturbed PROVE Spec => ReplayStartsAlike
<1> DEFINE Start == Restored /\ lock = "StartReplayHandler" =>
                        \A path \in Existing(begun[replayingFrom.start]) :
                            volumes[path] = begun[replayingFrom.start][path]
<1>1. Init => LinkInv /\ AlikeInv
  <2> SUFFICES ASSUME Init PROVE AlikeInv
    BY DEF AlikeInv
  <2>1. LinkInv /\ ArchiveOpen
    <3>1. SnapshotBelongs
      BY DEF Init, SnapshotBelongs, Belongs, NoRecording, MissingRecording
    <3>2. /\ \A id \in 1..MaxSnapshots : snapshots[id].start = 0
          /\ lock # "StartRecordingHandler"
      BY DEF Init, MissingSnapshot
    <3> QED  BY <3>1, <3>2, InitType DEF LinkInv, ArchiveOpen, Init, Archiving
  <2>2. lock = "free" /\ \A id \in 1..MaxSnapshots : snapshots[id].state = "missing"
    BY DEF Init, MissingSnapshot
  <2> QED  BY <2>1, <2>2 DEF AlikeInv, ArchivedSoFar, SavedForNobody,
                             WholeSnapshots, RestoredSoFar
<1>2. AlikeInv /\ TypeOK' /\ [Next]_vars => AlikeInv'
  <2> SUFFICES ASSUME AlikeInv, TypeOK', [Next]_vars PROVE AlikeInv'
    OBVIOUS
  <2>1. LinkInv'
    BY LinkStep DEF AlikeInv, Undisturbed
  <2>2. ArchiveOpen'
    BY PreservingStep DEF AlikeInv, LinkInv
  <2> QED  BY <2>1, <2>2, AlikeStep
<1>3. AlikeInv => Start
  <2> SUFFICES ASSUME AlikeInv, Restored, lock = "StartReplayHandler",
                      NEW path \in Existing(begun[replayingFrom.start])
               PROVE  volumes[path] = begun[replayingFrom.start][path]
    BY DEF Start
  <2>1. /\ archive \in 1..MaxSnapshots
        /\ archive = replayingFrom.Volumes
        /\ snapshots[archive].state = "whole"
    BY DEF AlikeInv, LinkInv, TypeOK, RestoredSoFar
  <2>2. replayingFrom.start # 0 /\ snapshots[archive].start = replayingFrom.start
    BY <2>1, Bounds DEF AlikeInv, LinkInv, SnapshotBelongs, Belongs
  <2>3. snapshots[archive].data = begun[replayingFrom.start]
    BY <2>1, <2>2 DEF AlikeInv, WholeSnapshots
  <2>4. snapshots[archive].data[path] \in {None, volumes[path]}
    BY DEF AlikeInv, RestoredSoFar, Restored, Existing
  <2> QED  BY <2>3, <2>4 DEF Existing
<1>4. ReplayStartsAlike <=> [][Start]_vars
  BY PTL DEF ReplayStartsAlike
<1> QED  BY <1>1, <1>2, <1>3, <1>4, FilesType, PTL DEF Spec

=============================================================================
