----------------------------- MODULE GameRecovery -----------------------------
(***************************************************************************)
(* The copies of a game that a scorer's device keeps besides its journal:  *)
(* checkpoints in the recovery database and a file in a folder the scorer  *)
(* chose (src/src/recovery).                                               *)
(*                                                                         *)
(* Every change of the scoresheet emits a snapshot that nobody waits for.  *)
(* Each layer has a writer that debounces, keeps the newest snapshot only  *)
(* and has one write under way.  The folder's layer first asks, across     *)
(* several awaits, where the file is, and meanwhile the scorer may change  *)
(* or forget the folder.                                                   *)
(*                                                                         *)
(* One game.  The two layers share the snapshots and nothing else, so a    *)
(* behaviour follows one of them.                                          *)
(***************************************************************************)
EXTENDS Integers, Sequences, FiniteSets

CONSTANTS
  Layers,        \* the layers followed: "checkpoints", "files"
  Anchors,       \* anchor keys: what makes a snapshot worth keeping longer
  Folders,       \* folders the scorer may choose
  Faults,        \* what may go wrong
  MaxRolling,    \* maxRolling: how many rolling checkpoints are kept
  MaxAnchors,    \* maxAnchors
  MaxSnapshots,  \* bound: snapshots
  None

AllFaults == {"write fails", "permission lost", "file refused", "settings not stored",
              "clock set back", "reload"}

\* A checkpoint's data: its number, its revision in its page, its anchor, its time.
Snapshots == [number : 1..MaxSnapshots, revision : 1..MaxSnapshots,
              anchor : Anchors \cup {None}, at : 1..(2 * MaxSnapshots)]
Configurations == [folder : Folders, failed : BOOLEAN]

\* What may mislead: the scorer touched the settings since that snapshot, a refresh was
\* under way when it was emitted, or the page was loaded again before it was written.
Misleading == {"touched", "refreshing", "reloaded"}

\* A refresh of the status: who asked for it (a snapshot's refusal, the page when it
\* loads, or the scorer), the settings once it has read them, and whether another
\* follows.
Page == 0
Scorer == MaxSnapshots + 1
Refreshes == [by : 0..(MaxSnapshots + 1), read : BOOLEAN,
              settings : Configurations \cup {None}, again : BOOLEAN]

ASSUME RecoveryAssumption ==
  /\ Layers \subseteq {"checkpoints", "files"}
  /\ Faults \subseteq AllFaults
  /\ {MaxRolling, MaxAnchors, MaxSnapshots} \subseteq Nat \ {0}
  /\ None \notin Anchors \cup Folders \cup Configurations
  /\ None \notin [snapshot : Snapshots] \cup [snapshot : Snapshots, folder : Folders]

VARIABLES
  layer,       \* the layer this behaviour follows
  number,      \* how many snapshots were emitted
  revision,    \* how many of them by this page load (recoveryRevision)
  back,        \* whether the clock was set back
  queue,       \* the writer's queue for this game
  store,       \* the checkpoints in the database
  kept,        \* history: the checkpoints whose write was reported saved
  asked,       \* snapshots whose enqueueBackup awaits the folder's permission
  mapping,     \* snapshots that wait for their file, in turn (mappingTail)
  config,      \* the folder configured and whether its last write failed, or None
  stored,      \* the settings in the database
  permission,  \* the browser's permission for the folder
  files,       \* the snapshot in each folder's file, 0 for none
  shown,       \* the state of external backup that the settings show
  refreshing,  \* refreshes of it under way
  since        \* history: what happened since the newest snapshot that may mislead

clock == <<number, revision, back>>
checkpoints == <<store, kept>>
requests == <<asked, mapping>>
settings == <<config, stored, permission>>
display == <<shown, refreshing>>
vars == <<layer, clock, queue, checkpoints, requests, settings, files, display, since>>

-----------------------------------------------------------------------------
(* The coalescing writers.                                                 *)

Empty == [newest |-> 0, pending |-> None, active |-> None, timer |-> FALSE]

\* schedule: a timer is set unless a write or a timer is under way.
Scheduled(q) ==
  [q EXCEPT !.timer = @ \/ (q.active = None /\ q.pending # None)]

\* Slip: what comes later is taken to be newer.
RefusedNever(q, write) == FALSE

\* enqueue refuses a revision that is not newer than every one it has seen.
Refused(q, write) == write.snapshot.revision <= q.newest

\* enqueue: what was pending is superseded.
Enqueued(q, write) ==
  IF Refused(q, write) THEN q
  ELSE Scheduled([q EXCEPT !.newest = write.snapshot.revision, !.pending = write])

\* The end of drain.
Finished(q) == Scheduled([q EXCEPT !.active = None])

\* drain begins: the pending write starts.
TimerFires ==
  /\ queue.timer
  /\ queue' = [queue EXCEPT !.timer = FALSE, !.active = queue.pending, !.pending = None]
  /\ UNCHANGED <<layer, clock, checkpoints, requests, settings, files, display, since>>

-----------------------------------------------------------------------------
(* Checkpoints.                                                            *)

Newest(snapshots, limit) ==
  {s \in snapshots : Cardinality({t \in snapshots : t.at > s.at}) < limit}

\* Slip: an anchor is a snapshot like any other.
RetainedRolling(snapshots) == Newest(snapshots, MaxRolling)

\* retainRecoveryCheckpoints: the newest copy of each anchor and the newest
\* rolling snapshots.
Retained(snapshots) ==
  LET rolling == {s \in snapshots : s.anchor = None}
      anchors == UNION {Newest({s \in snapshots : s.anchor = a}, 1) : a \in Anchors}
  IN Newest(anchors, MaxAnchors) \cup Newest(rolling, MaxRolling)

\* writeCheckpoint settles: put and prune are one transaction.
CheckpointWritten(saved) ==
  /\ layer = "checkpoints" /\ queue.active # None
  /\ saved \/ "write fails" \in Faults
  /\ LET snapshot == queue.active.snapshot IN
       /\ store' = IF saved THEN Retained(store \cup {snapshot}) ELSE store
       /\ kept' = IF saved THEN kept \cup {snapshot} ELSE kept
  /\ queue' = Finished(queue)
  /\ UNCHANGED <<layer, clock, requests, settings, files, display, since>>

-----------------------------------------------------------------------------
(* The folder.                                                             *)

\* ExternalBackupTarget.status.
Status(settled, granted) ==
  IF settled = None THEN "not-configured"
  ELSE IF ~granted THEN "needs-permission"
  ELSE IF settled.failed THEN "backup-failed" ELSE "ready"

Settings(folder) == [folder |-> folder, failed |-> FALSE]

\* setSettings and putSettings: the database may fail to take them.
SaveSettings(new) ==
  /\ config' = new
  /\ stored' \in {new} \cup (IF "settings not stored" \in Faults THEN {stored} ELSE {})

\* refreshRecoveryStatus begins.
Refresh(by, again) ==
  refreshing' = refreshing \cup {[by |-> by, read |-> FALSE, settings |-> None, again |-> again]}

\* status has loaded the settings and asks the browser for the permission.
RefreshReads(r) ==
  /\ ~r.read
  /\ refreshing' = (refreshing \ {r}) \cup {[r EXCEPT !.read = TRUE, !.settings = config]}
  /\ UNCHANGED <<layer, clock, queue, checkpoints, requests, settings, files, shown, since>>

\* The browser answered: what the settings said then is shown, over whatever the
\* outcome of a write had shown meanwhile.  The settings dialog refreshes once more.
RefreshEnds(r) ==
  /\ r.read
  /\ shown' = Status(r.settings, permission)
  /\ refreshing' = (refreshing \ {r}) \cup
       (IF r.again THEN {[r EXCEPT !.read = FALSE, !.settings = None, !.again = FALSE]} ELSE {})
  /\ UNCHANGED <<layer, clock, queue, checkpoints, requests, settings, files, since>>

\* A write settled or was superseded: shown unless the status of this page is not
\* known yet.
Outcome(state) == IF shown = "checking" THEN shown ELSE state

\* enqueueBackup refuses and the application asks for the status again.
RefuseBackup(snapshot) == Refresh(snapshot.number, FALSE)

\* enqueueBackup has the folder's permission.
StatusRead(snapshot) ==
  /\ asked' = asked \ {snapshot}
  /\ IF permission
       THEN /\ mapping' = Append(mapping, [snapshot |-> snapshot, folder |-> None])
            /\ UNCHANGED refreshing
       ELSE RefuseBackup(snapshot) /\ UNCHANGED mapping
  /\ UNCHANGED <<layer, clock, queue, checkpoints, settings, files, shown, since>>

\* fileForGameSerial begins: it reads the settings anew and queries the permission.
BeginMapping ==
  /\ mapping # <<>> /\ Head(mapping).folder = None
  /\ IF config # None /\ permission
       THEN /\ mapping' = [mapping EXCEPT ![1].folder = config.folder]
            /\ UNCHANGED refreshing
       ELSE /\ mapping' = Tail(mapping)
            /\ IF config = None THEN UNCHANGED refreshing
                                ELSE RefuseBackup(Head(mapping).snapshot)
  /\ UNCHANGED <<layer, clock, queue, checkpoints, asked, settings, files, shown, since>>

\* The folder gave the file and enqueueBackup hands the write over; or the folder
\* refused, or the snapshot could not be serialized.  The application shows a
\* superseded write as a failed one.
FileFound ==
  /\ mapping # <<>> /\ Head(mapping).folder # None
  /\ mapping' = Tail(mapping)
  /\ \E found \in {permission} \cup (IF "file refused" \in Faults THEN {FALSE} ELSE {}) :
       IF found
         THEN /\ queue' = Enqueued(queue, Head(mapping))
              /\ shown' = IF Refused(queue, Head(mapping)) \/ queue.pending # None
                            THEN Outcome("backup-failed") ELSE shown
              /\ UNCHANGED refreshing
         ELSE RefuseBackup(Head(mapping).snapshot) /\ UNCHANGED <<queue, shown>>
  /\ UNCHANGED <<layer, clock, checkpoints, asked, settings, files, since>>

\* writeOne settles: recordWriteResult and the application both take note.
FileWritten(saved) ==
  /\ layer = "files" /\ queue.active # None
  /\ IF saved THEN permission ELSE "write fails" \in Faults \/ ~permission
  /\ files' = IF saved THEN [files EXCEPT ![queue.active.folder] = queue.active.snapshot.number]
                       ELSE files
  /\ IF config = None THEN UNCHANGED <<config, stored>>
                      ELSE SaveSettings([config EXCEPT !.failed = ~saved])
  /\ shown' = Outcome(IF saved THEN "ready" ELSE "backup-failed")
  /\ queue' = Finished(queue)
  /\ UNCHANGED <<layer, clock, checkpoints, requests, permission, refreshing, since>>

-----------------------------------------------------------------------------
(* The scorer.                                                             *)

\* queueRecoverySnapshot: a snapshot for the writer, or for the folder, where anchors
\* say nothing.
Snapshot(anchor) ==
  /\ number < MaxSnapshots /\ (layer = "files" => anchor = None)
  /\ number' = number + 1 /\ revision' = revision + 1
  /\ LET snapshot == [number |-> number', revision |-> revision', anchor |-> anchor,
                      at |-> IF back THEN number' ELSE number' + MaxSnapshots]
     IN IF layer = "checkpoints"
          THEN queue' = Enqueued(queue, [snapshot |-> snapshot]) /\ UNCHANGED asked
          ELSE /\ asked' = IF config = None THEN asked ELSE asked \cup {snapshot}
               /\ UNCHANGED queue
  /\ since' = IF refreshing = {} THEN {} ELSE {"refreshing"}
  /\ UNCHANGED <<layer, back, checkpoints, mapping, settings, files, display>>

\* runRecoveryAction: one of the scorer's actions at a time, refreshes included.
MayAct == layer = "files" /\ \A r \in refreshing : r.by # Scorer

\* setupFromUserGesture: the picker grants the permission.  What the settings show
\* until they are known is that nothing is configured.
Setup(folder) ==
  /\ MayAct /\ shown \in {"checking", "not-configured", "ready"}
  /\ SaveSettings(Settings(folder)) /\ permission' = TRUE
  /\ Refresh(Scorer, TRUE) /\ since' = since \cup {"touched"}
  /\ UNCHANGED <<layer, clock, queue, checkpoints, requests, files, shown>>

Reconnect ==
  /\ MayAct /\ shown \in {"needs-permission", "backup-failed"} /\ config # None
  /\ SaveSettings([config EXCEPT !.failed = FALSE]) /\ permission' = TRUE
  /\ Refresh(Scorer, TRUE) /\ since' = since \cup {"touched"}
  /\ UNCHANGED <<layer, clock, queue, checkpoints, requests, files, shown>>

\* removeConfiguration: what waits is disposed of, shown as superseded, and the
\* folder forgotten; the application refreshes what it shows only when the database
\* forgot it too.
Remove ==
  /\ MayAct /\ shown \notin {"checking", "not-configured"}
  /\ queue' = [queue EXCEPT !.timer = FALSE, !.pending = None]
  /\ shown' = IF queue.pending # None THEN "backup-failed" ELSE shown
  /\ config' = None
  /\ \/ stored' = None /\ Refresh(Scorer, TRUE)
     \/ /\ "settings not stored" \in Faults
        /\ UNCHANGED <<stored, refreshing>>
  /\ since' = since \cup {"touched"}
  /\ UNCHANGED <<layer, clock, checkpoints, requests, permission, files>>

-----------------------------------------------------------------------------
(* What may go wrong.                                                      *)

LosePermission ==
  /\ "permission lost" \in Faults /\ layer = "files" /\ permission
  /\ permission' = FALSE
  /\ UNCHANGED <<layer, clock, queue, checkpoints, requests, config, stored, files, display, since>>

SetClockBack ==
  /\ "clock set back" \in Faults /\ layer = "checkpoints" /\ ~back
  /\ back' = TRUE
  /\ UNCHANGED <<layer, number, revision, queue, checkpoints, requests, settings, files,
                 display, since>>

\* Nothing is on its way to a layer.
Idle == queue.active = None /\ ~queue.timer /\ asked = {} /\ mapping = <<>>

\* The page is loaded again and reads the status: revisions start over, and so do the
\* writers.  A write under way may have landed.
Reload ==
  /\ "reload" \in Faults /\ revision > 0
  /\ \/ UNCHANGED <<store, files>>
     \/ /\ queue.active # None
        /\ store' = IF layer = "checkpoints" THEN Retained(store \cup {queue.active.snapshot})
                                             ELSE store
        /\ files' = IF layer = "files"
                      THEN [files EXCEPT ![queue.active.folder] = queue.active.snapshot.number]
                      ELSE files
  /\ revision' = 0 /\ queue' = Empty
  /\ asked' = {} /\ mapping' = <<>>
  /\ config' = stored /\ shown' = "checking"
  /\ refreshing' = {[by |-> Page, read |-> FALSE, settings |-> None, again |-> FALSE]}
  /\ since' = IF Idle /\ stored = config THEN since ELSE since \cup {"reloaded"}
  /\ UNCHANGED <<layer, number, back, kept, stored, permission>>

-----------------------------------------------------------------------------

Init ==
  /\ layer \in Layers
  /\ number = 0 /\ revision = 0 /\ back = FALSE
  /\ queue = Empty
  /\ store = {} /\ kept = {}
  /\ asked = {} /\ mapping = <<>>
  /\ config = None /\ stored = None /\ permission = FALSE
  /\ files = [f \in Folders |-> 0]
  /\ shown = "checking" /\ since = {}
  /\ refreshing = {[by |-> Page, read |-> FALSE, settings |-> None, again |-> FALSE]}

Next ==
  \/ \E anchor \in Anchors \cup {None} : Snapshot(anchor)
  \/ TimerFires
  \/ \E saved \in BOOLEAN : CheckpointWritten(saved) \/ FileWritten(saved)
  \/ \E snapshot \in asked : StatusRead(snapshot)
  \/ BeginMapping \/ FileFound
  \/ \E r \in refreshing : RefreshReads(r) \/ RefreshEnds(r)
  \/ \E folder \in Folders : Setup(folder)
  \/ Reconnect \/ Remove
  \/ LosePermission \/ SetClockBack \/ Reload

Spec == Init /\ [][Next]_vars

-----------------------------------------------------------------------------
(* Properties.                                                             *)

\* Nothing will happen by itself.
Resting == Idle /\ refreshing = {}

\* Of the checkpoints reported saved, rolling ones and those of each anchor, the
\* database still holds the newest or a newer one.
EverKept == \A s \in kept : \E t \in store : t.anchor = s.anchor /\ t.number >= s.number

\* It does if the clock was never set back; and at rest the newest snapshot of this
\* page no longer waits (retainRecoveryCheckpoints, CoalescingCheckpointWriter).
SavedIsKept ==
  layer = "checkpoints" => (Resting => queue.pending = None) /\ (~back => EverKept)

\* The first whatever the clock does (App.tsx: "Rolling checkpoints are protected").
ProtectedAnyway == EverKept

Backed == Resting /\ shown = "ready" /\ config # None => files[config.folder] = number

\* If external backup shows "Ready" while nothing is under way, the newest snapshot is
\* in the configured folder, in whatever order the requests and their answers came
\* (ExternalBackup, CoalescingExternalBackupWriter); unless since that snapshot the
\* settings were touched, a refresh was under way when it was emitted, or the page was
\* loaded again before it was written or with settings that were not stored.
ReadyMeansBackedUp == since = {} => Backed

\* It is if the page was loaded again too (App.tsx: "External backup stopped." is what
\* a scorer is told of a snapshot that is not backed up).
ReadyAfterReload == since \subseteq {"reloaded"} => Backed

\* It is if a refresh was under way too.
ReadyAfterRefresh == since \subseteq {"refreshing"} => Backed

\* External backup shows "Ready" only while a folder is configured (App.tsx:
\* "External backup stopped.").
ReadyIsConfigured == shown = "ready" => config # None

=============================================================================
