-------------------------------- MODULE Files -------------------------------
(***************************************************************************)
(* The files of ditm (src/files.go) and the handlers of src/api.go that    *)
(* use them: recordings, snapshots of the system's volumes, and the        *)
(* volumes themselves, which the system writes while ditm reads or         *)
(* restores them.                                                          *)
(*                                                                         *)
(* A recording is reduced to what the files are about: the snapshot it     *)
(* names and, as a history variable, when it began (begun[n] is what the   *)
(* volumes were when the n-th recording began).  The archiver goes through *)
(* the volumes file by file, with p.mu locked; nothing stops the system    *)
(* meanwhile.  A file is written in one step, and may end up cut short.    *)
(* When a replay ends is the business of module Proxy: here EndReplay may  *)
(* save at any time once a replay began.                                   *)
(***************************************************************************)
EXTENDS Naturals, Sequences, FiniteSets

CONSTANTS
    Paths,          \* the files in /volumes
    Contents,       \* what may be in them
    None,           \* in place of the content: there is no such file
    Events,         \* which of the optional steps below may happen
    MaxRecordings,  \* how many recordings fit on the disk
    MaxSnapshots,   \* how many snapshots fit on the disk
    MaxBegun        \* bound on the calls of /start_recording

\* busy: the system writes while an archive is made or restored; add_file and
\* remove_file: not only the contents, but the set of its files changes.
\* create_fails: no file is made; write_fails: a file is cut short; unreadable:
\* the archiver leaves out a file.  delete_...: the user removes files.
AllEvents == {"busy", "add_file", "remove_file", "create_fails", "write_fails",
              "unreadable", "crash", "delete_recording", "delete_snapshot"}

ASSUME FilesAssumption ==
    /\ None \notin Contents
    /\ Events \subseteq AllEvents
    /\ {MaxRecordings, MaxSnapshots, MaxBegun} \subseteq Nat

VARIABLES
    lock,           \* who holds p.mu: the handler that waits for the archiver,
                    \* "free", or "leaked" by a handler that panicked
    volumes,        \* /volumes
    snapshots,      \* /snapshots/<id>.zip, by id
    recordings,     \* /recordings/<id>.json, by id
    recording,      \* p.recording
    replayingFrom,  \* p.replayingFrom
    lastSavedId,    \* p.lastSavedId
    replayed,       \* whether a replay began, so that EndReplay may run
    archive,        \* the snapshot the archiver is at, 0 for none
    left,           \* the paths it has still to go through
    begun           \* history: the volumes when each recording began

archiver == <<archive, left>>
vars == <<lock, volumes, snapshots, recordings, recording, replayingFrom,
          lastSavedId, replayed, archiver, begun>>

Files == [Paths -> Contents \cup {None}]
Existing(files) == {path \in Paths : files[path] # None}

\* Volumes: the id of a snapshot, 0 for none.  start: the recording's number,
\* 0 for what is no recording: requests seen while nobody records, or a replay.
Recordings == [Volumes : 0..MaxSnapshots, start : 0..MaxBegun]
NoRecording == [Volumes |-> 0, start |-> 0]

\* A file with a number for its name.  start: history, the recording at whose
\* start the snapshot was made, 0 for a snapshot that the user asked for.
States == {"missing", "cut", "whole"}
RecordingFiles == [state : States, data : Recordings]
SnapshotFiles == [state : States, data : Files, start : 0..MaxBegun]

NoFiles == [path \in Paths |-> None]
MissingRecording == [state |-> "missing", data |-> NoRecording]
MissingSnapshot == [state |-> "missing", data |-> NoFiles, start |-> 0]

Archiving == {"StartRecordingHandler", "SaveVolumesHandler"}
Restoring == {"LoadVolumesHandler", "StartReplayHandler"}

TypeOK ==
    /\ \/ lock \in {"free", "leaked"} /\ archive = 0
       \/ lock \in Archiving \cup Restoring /\ archive \in 1..MaxSnapshots
    /\ volumes \in Files
    /\ snapshots \in [1..MaxSnapshots -> SnapshotFiles]
    /\ recordings \in [1..MaxRecordings -> RecordingFiles]
    /\ recording \in Recordings
    /\ replayingFrom \in Recordings
    /\ lastSavedId \in 0..MaxRecordings
    /\ replayed \in BOOLEAN
    /\ left \subseteq Paths
    /\ begun \in Seq(Files) /\ Len(begun) <= MaxBegun

Init ==
    /\ lock = "free"
    /\ volumes \in Files
    /\ snapshots = [id \in 1..MaxSnapshots |-> MissingSnapshot]
    /\ recordings = [id \in 1..MaxRecordings |-> MissingRecording]
    /\ recording = NoRecording
    /\ replayingFrom = NoRecording
    /\ lastSavedId = 0
    /\ replayed = FALSE
    /\ archive = 0 /\ left = {}
    /\ begun = <<>>

-----------------------------------------------------------------------------
(* files.go.                                                               *)

\* BUG: the number after that of the files.
FaultyNewFilePath(files, id) ==
    id = 1 + Cardinality({n \in DOMAIN files : files[n].state # "missing"})

\* The first number that no file has.
newFilePath(files, id) ==
    /\ files[id].state = "missing"
    /\ \A lower \in 1..(id - 1) : files[lower].state # "missing"

writeRecording ==
    \E id \in 1..MaxRecordings :
        /\ newFilePath(recordings, id)
        /\ lastSavedId' = id
        /\ \/ \E state \in {"whole", "cut"} :
                 /\ state = "cut" => "write_fails" \in Events
                 /\ recordings' = [recordings EXCEPT ![id] =
                                      [state |-> state, data |-> recording]]
           \/ "create_fails" \in Events /\ UNCHANGED recordings

\* writeVolumes up to where it goes through the files, called by handler when
\* as many recordings as start had begun.
writeVolumes(handler, start) ==
    /\ \E id \in 1..MaxSnapshots :
          /\ newFilePath(snapshots, id)
          /\ snapshots' = [snapshots EXCEPT ![id] =
                              [state |-> "cut", data |-> NoFiles, start |-> start]]
          /\ archive' = id
    /\ left' = Existing(volumes)
    /\ lock' = handler

\* The archiver reads a file, which may have come into being meanwhile ...
ArchiveFile ==
    /\ lock \in Archiving
    /\ \E path \in Existing(volumes) :
          /\ snapshots[archive].data[path] = None
          /\ snapshots' = [snapshots EXCEPT ![archive].data[path] = volumes[path]]
          /\ left' = left \ {path}
    /\ UNCHANGED <<lock, volumes, recordings, recording, replayingFrom,
                   lastSavedId, replayed, archive, begun>>

\* ... or goes on to the next, as ContinueOnError says.
ArchiveSkips ==
    /\ lock \in Archiving
    /\ \E path \in left :
          /\ volumes[path] = None \/ "unreadable" \in Events
          /\ left' = left \ {path}
    /\ UNCHANGED <<lock, volumes, snapshots, recordings, recording,
                   replayingFrom, lastSavedId, replayed, archive, begun>>

\* The rest of writeVolumes: the archive is complete, or an error is logged.
ArchiveClosed ==
    \/ /\ left = {}
       /\ snapshots' = [snapshots EXCEPT ![archive].state = "whole"]
    \/ "write_fails" \in Events /\ UNCHANGED snapshots

\* loadVolumes can read an archive that is there and complete.
Readable(id) == id # 0 /\ snapshots[id].state = "whole"

\* loadVolumes up to where it goes through the files.
loadVolumes(handler, id) ==
    /\ lock' = handler
    /\ archive' = id
    /\ left' = Existing(snapshots[id].data)

\* BUG: as if OverwriteExisting were not set.
FaultyRestoreFile ==
    /\ lock \in Restoring
    /\ \E path \in left :
          /\ \/ volumes[path] # None /\ UNCHANGED volumes
             \/ /\ volumes[path] = None
                /\ volumes' = [volumes EXCEPT ![path] = snapshots[archive].data[path]]
          /\ left' = left \ {path}
    /\ UNCHANGED <<lock, snapshots, recordings, recording, replayingFrom,
                   lastSavedId, replayed, archive, begun>>

\* A file is overwritten (OverwriteExisting); those not in the archive remain.
RestoreFile ==
    /\ lock \in Restoring
    /\ \E path \in left :
          /\ volumes' = [volumes EXCEPT ![path] = snapshots[archive].data[path]]
          /\ left' = left \ {path}
    /\ UNCHANGED <<lock, snapshots, recordings, recording, replayingFrom,
                   lastSavedId, replayed, archive, begun>>

latestVolumes(id) ==
    /\ snapshots[id].state # "missing"
    /\ \A higher \in id + 1..MaxSnapshots : snapshots[higher].state = "missing"

-----------------------------------------------------------------------------
(* api.go, and the end of EndReplay in proxy.go.                           *)

HomeHandler ==
    /\ lock = "free"
    /\ recording' = NoRecording
    /\ UNCHANGED <<lock, volumes, snapshots, recordings, replayingFrom,
                   lastSavedId, replayed, archiver, begun>>

\* A file that is missing or cut short is answered with 404.
InspectHandler(id) ==
    /\ recordings[id].state = "whole"
    /\ lock = "free"
    /\ recording' = recordings[id].data
    /\ UNCHANGED <<lock, volumes, snapshots, recordings, replayingFrom,
                   lastSavedId, replayed, archiver, begun>>

StartRecordingHandler ==
    /\ lock = "free"
    /\ Len(begun) < MaxBegun
    /\ begun' = Append(begun, volumes)
    /\ writeVolumes("StartRecordingHandler", Len(begun) + 1)
    /\ UNCHANGED <<volumes, recordings, recording, replayingFrom, lastSavedId,
                   replayed>>

\* BUG: the number is asked for when the archive has taken it.
FaultyStartRecordingArchived ==
    /\ lock = "StartRecordingHandler"
    /\ ArchiveClosed
    /\ lock' = "free" /\ archive' = 0 /\ left' = {}
    /\ \E id \in 1..MaxSnapshots :
          /\ newFilePath(snapshots, id)
          /\ recording' = [Volumes |-> id, start |-> Len(begun)]
    /\ replayingFrom' = NoRecording
    /\ UNCHANGED <<volumes, recordings, lastSavedId, replayed, begun>>

\* The recording names the snapshot, complete or not.
StartRecordingArchived ==
    /\ lock = "StartRecordingHandler"
    /\ ArchiveClosed
    /\ lock' = "free" /\ archive' = 0 /\ left' = {}
    /\ recording' = [Volumes |-> archive, start |-> Len(begun)]
    /\ replayingFrom' = NoRecording
    /\ UNCHANGED <<volumes, recordings, lastSavedId, replayed, begun>>

\* The archiver cannot make the file: the recording names it all the same.
StartRecordingNoSnapshot ==
    /\ "create_fails" \in Events
    /\ lock = "free"
    /\ Len(begun) < MaxBegun
    /\ begun' = Append(begun, volumes)
    /\ \E id \in 1..MaxSnapshots :
          /\ newFilePath(snapshots, id)
          /\ recording' = [Volumes |-> id, start |-> Len(begun) + 1]
    /\ replayingFrom' = NoRecording
    /\ UNCHANGED <<lock, volumes, snapshots, recordings, lastSavedId, replayed,
                   archiver>>

EndRecordingHandler ==
    /\ lock = "free"
    /\ writeRecording
    /\ recording' = NoRecording
    /\ UNCHANGED <<lock, volumes, snapshots, replayingFrom, replayed, archiver,
                   begun>>

SaveVolumesHandler ==
    /\ lock = "free"
    /\ writeVolumes("SaveVolumesHandler", 0)
    /\ UNCHANGED <<volumes, recordings, recording, replayingFrom, lastSavedId,
                   replayed, begun>>

\* BUG: an error returns early, with the lock held.
FaultySaveVolumesArchived ==
    /\ lock = "SaveVolumesHandler"
    /\ ArchiveClosed
    /\ archive' = 0 /\ left' = {}
    /\ lock' = IF snapshots' = snapshots THEN lock ELSE "free"
    /\ UNCHANGED <<volumes, recordings, recording, replayingFrom, lastSavedId,
                   replayed, begun>>

SaveVolumesArchived ==
    /\ lock = "SaveVolumesHandler"
    /\ ArchiveClosed
    /\ lock' = "free" /\ archive' = 0 /\ left' = {}
    /\ UNCHANGED <<volumes, recordings, recording, replayingFrom, lastSavedId,
                   replayed, begun>>

\* The user names a snapshot, or none (0).  What cannot be read is logged.
LoadVolumesHandler(id) ==
    /\ lock = "free"
    /\ \E filename \in 1..MaxSnapshots :
          /\ filename = id \/ (id = 0 /\ latestVolumes(filename))
          /\ Readable(filename)
          /\ loadVolumes("LoadVolumesHandler", filename)
    /\ UNCHANGED <<volumes, snapshots, recordings, recording, replayingFrom,
                   lastSavedId, replayed, begun>>

\* The replay starts where its snapshot was made, or, without a snapshot that
\* can be read, where the system is.
StartReplayHandler(id) ==
    /\ lock = "free"
    /\ recordings[id].state = "whole"
    /\ replayingFrom' = recordings[id].data
    /\ recording' = NoRecording
    /\ replayed' = TRUE
    /\ \/ /\ Readable(recordings[id].data.Volumes)
          /\ loadVolumes("StartReplayHandler", recordings[id].data.Volumes)
       \/ /\ ~Readable(recordings[id].data.Volumes)
          /\ UNCHANGED <<lock, archiver>>
    /\ UNCHANGED <<volumes, snapshots, recordings, lastSavedId, begun>>

\* loadRecording returns nil, which is dereferenced with the lock held.
StartReplayPanics(id) ==
    /\ lock = "free"
    /\ recordings[id].state # "whole"
    /\ lock' = "leaked"
    /\ UNCHANGED <<volumes, snapshots, recordings, recording, replayingFrom,
                   lastSavedId, replayed, archiver, begun>>

\* The handler whose archive is restored unlocks.
Restored ==
    /\ lock \in Restoring
    /\ left = {}
    /\ lock' = "free" /\ archive' = 0 /\ left' = {}
    /\ UNCHANGED <<volumes, snapshots, recordings, recording, replayingFrom,
                   lastSavedId, replayed, begun>>

\* BUG: only what the user ends is the latest.
FaultyEndReplay ==
    /\ lock = "free"
    /\ replayed
    /\ \E id \in 1..MaxRecordings :
          /\ newFilePath(recordings, id)
          /\ recordings' = [recordings EXCEPT ![id] =
                               [state |-> "whole", data |-> recording]]
    /\ UNCHANGED <<lock, volumes, snapshots, recording, replayingFrom,
                   lastSavedId, replayed, archiver, begun>>

\* EndReplay saves what p.recording is by then, and keeps it.
EndReplay ==
    /\ lock = "free"
    /\ replayed
    /\ writeRecording
    /\ UNCHANGED <<lock, volumes, snapshots, recording, replayingFrom,
                   replayed, archiver, begun>>

-----------------------------------------------------------------------------
(* The system under test, the user's files, and restarts.                  *)

SystemWrites ==
    /\ lock \in Archiving \cup Restoring => "busy" \in Events
    /\ \E path \in Paths, content \in Contents \cup {None} :
          /\ volumes[path] = None => "add_file" \in Events
          /\ content = None => "remove_file" \in Events
          /\ volumes' = [volumes EXCEPT ![path] = content]
    /\ UNCHANGED <<lock, snapshots, recordings, recording, replayingFrom,
                   lastSavedId, replayed, archiver, begun>>

DeleteRecording(id) ==
    /\ "delete_recording" \in Events
    /\ recordings' = [recordings EXCEPT ![id] = MissingRecording]
    /\ UNCHANGED <<lock, volumes, snapshots, recording, replayingFrom,
                   lastSavedId, replayed, archiver, begun>>

\* Not the one that the archiver is at.
DeleteSnapshot(id) ==
    /\ "delete_snapshot" \in Events
    /\ lock \in Archiving \cup Restoring => id # archive
    /\ snapshots' = [snapshots EXCEPT ![id] = MissingSnapshot]
    /\ UNCHANGED <<lock, volumes, recordings, recording, replayingFrom,
                   lastSavedId, replayed, archiver, begun>>

\* The proxy stops, perhaps in the middle of an archive, and InitProxy runs.
Restart ==
    /\ "crash" \in Events
    /\ lock' = "free" /\ archive' = 0 /\ left' = {}
    /\ recording' = NoRecording
    /\ replayingFrom' = NoRecording
    /\ lastSavedId' = 0
    /\ replayed' = FALSE
    /\ UNCHANGED <<volumes, snapshots, recordings, begun>>

RecordingSteps ==
    \/ HomeHandler \/ EndRecordingHandler \/ EndReplay
    \/ \E id \in 1..MaxRecordings :
          \/ InspectHandler(id) \/ StartReplayHandler(id)
          \/ StartReplayPanics(id)

SnapshotSteps ==
    \/ StartRecordingHandler \/ StartRecordingArchived
    \/ StartRecordingNoSnapshot
    \/ SaveVolumesHandler \/ SaveVolumesArchived
    \/ \E id \in 0..MaxSnapshots : LoadVolumesHandler(id)
    \/ ArchiveFile \/ ArchiveSkips \/ RestoreFile \/ Restored

OtherSteps ==
    \/ SystemWrites \/ Restart
    \/ \E id \in 1..MaxRecordings : DeleteRecording(id)
    \/ \E id \in 1..MaxSnapshots : DeleteSnapshot(id)

Next == RecordingSteps \/ SnapshotSteps \/ OtherSteps

Spec == Init /\ [][Next]_vars

-----------------------------------------------------------------------------
(* Properties.                                                             *)

\* What is saved stays as it is until the user removes it: recordings and
\* snapshots get numbers of their own (newFilePath), whatever was deleted, cut
\* short or interrupted before.
NothingOverwritten ==
    [][/\ \A id \in 1..MaxRecordings :
             recordings[id].state # "missing" =>
                 recordings'[id] \in {recordings[id], MissingRecording}
       /\ \A id \in 1..MaxSnapshots :
             snapshots[id].state = "whole" =>
                 snapshots'[id] \in {snapshots[id], MissingSnapshot}]_vars

\* A recording and the snapshot it names began together: StartRecordingHandler
\* takes the number of the file it has just made, and no handler and no
\* EndReplay that comes between connects it to another.  This needs that
\* snapshots are not deleted and that their files can be made: a number that is
\* free again, or was never taken, goes to the next snapshot.
Belongs(data) ==
    /\ data.Volumes = 0 <=> data.start = 0
    /\ data.Volumes # 0 => snapshots[data.Volumes].start = data.start

SnapshotBelongs ==
    /\ Belongs(recording)
    /\ Belongs(replayingFrom)
    /\ \A id \in 1..MaxRecordings : Belongs(recordings[id].data)

\* A replay of a recording whose snapshot can be read begins with every file as
\* it was when the recording began, whatever happened in between: snapshots
\* made and restored, restarts in the middle of them, copies that EndReplay or
\* the user saved.  This needs a system that is at rest while an archive is
\* made or restored, and files that can be read.
ReplayStartsAlike ==
    [][Restored /\ lock = "StartReplayHandler" =>
          \A path \in Existing(begun[replayingFrom.start]) :
              volumes[path] = begun[replayingFrom.start][path]]_vars

\* /api/latest_recording names the last recording that this process saved:
\* lastSavedId is set by everything that saves.  This needs that recordings are
\* not deleted and that their files can be made.
LatestIsNewest ==
    lastSavedId # 0 =>
        /\ recordings[lastSavedId].state # "missing"
        /\ \A id \in lastSavedId + 1..MaxRecordings :
              recordings[id].state = "missing"

\* FA8 of the thesis: a snapshot can be restored, so that replays of systems
\* with a state are deterministic: what /load_volumes restores is what was
\* saved.
VolumesRestored ==
    [][Restored => volumes = snapshots[archive].data]_vars

=============================================================================
