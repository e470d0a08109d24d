------------------------- MODULE GameRecoveryProofs -------------------------
(***************************************************************************)
(* Theorems about GameRecovery for every number of snapshots, folders and  *)
(* retained checkpoints: a checkpoint reported saved is kept, or a newer   *)
(* one of its kind is, and "Ready" means that the newest snapshot is in    *)
(* the folder, unless something happened since that misleads.              *)
(***************************************************************************)
EXTENDS GameRecovery, FiniteSetTheorems, TLAPS

\* What a writer is given: the folder's layer adds where the snapshot goes.
Writes == IF layer = "checkpoints" THEN [snapshot : Snapshots]
                                   ELSE [snapshot : Snapshots, folder : Folders]
Requests == [snapshot : Snapshots, folder : Folders \cup {None}]
Waiting(requested) == {requested[i] : i \in DOMAIN requested}

ClockTypes ==
  /\ layer \in {"checkpoints", "files"}
  /\ number \in 0..MaxSnapshots /\ revision \in 0..number /\ back \in BOOLEAN

Queues(writes) == [newest : 0..MaxSnapshots, pending : writes \cup {None},
                   active : writes \cup {None}, timer : BOOLEAN]

\* The timer runs when a snapshot waits and no write is under way.
InTurn(q) == q.timer <=> q.active = None /\ q.pending # None

QueueTypes == queue \in Queues(Writes) /\ InTurn(queue)

StoreTypes == store \subseteq Snapshots /\ kept \subseteq Snapshots

FolderTypes ==
  /\ asked \subseteq Snapshots /\ mapping \in Seq(Requests)
  /\ config \in Configurations \cup {None} /\ stored \in Configurations \cup {None}
  /\ permission \in BOOLEAN
  /\ files \in [Folders -> 0..MaxSnapshots]

DisplayTypes == refreshing \subseteq Refreshes /\ since \subseteq Misleading

\* The checkpoints' layer never touches the folder's state.
OneLayer ==
  layer = "checkpoints" => asked = {} /\ mapping = <<>> /\ config = None /\ stored = None

TypeInv == ClockTypes /\ QueueTypes /\ StoreTypes /\ FolderTypes /\ DisplayTypes /\ OneLayer

\* The bounds are positive numbers (RecoveryAssumption).
LEMMA Bounds ==
  /\ MaxRolling \in Nat /\ MaxRolling > 0
  /\ MaxAnchors \in Nat /\ MaxAnchors > 0
  /\ MaxSnapshots \in Nat /\ MaxSnapshots > 0
BY RecoveryAssumption

\* No write, no folder and no configuration is None (RecoveryAssumption).
LEMMA NoneIsNothing ==
  /\ None \notin Anchors /\ None \notin Folders /\ None \notin Configurations
  /\ None \notin Writes
BY RecoveryAssumption DEF Writes

-----------------------------------------------------------------------------
(* The queue.                                                              *)

\* A snapshot is scheduled, or waits for the write under way (Enqueued).
LEMMA EnqueuedQueue ==
  ASSUME NEW writes, None \notin writes, NEW q \in Queues(writes), InTurn(q),
         NEW w \in writes, w.snapshot.revision \in 0..MaxSnapshots
  PROVE  /\ Enqueued(q, w) \in Queues(writes) /\ InTurn(Enqueued(q, w))
         /\ Refused(q, w) => Enqueued(q, w) = q
         /\ ~Refused(q, w) => /\ Enqueued(q, w).pending = w
                              /\ Enqueued(q, w).active = q.active
                              /\ Enqueued(q, w).newest = w.snapshot.revision
<1>1. CASE Refused(q, w)
  BY <1>1 DEF Enqueued
<1>2. CASE ~Refused(q, w)
  <2> DEFINE q1 == [q EXCEPT !.newest = w.snapshot.revision, !.pending = w]
  <2>1. /\ q1 \in Queues(writes) /\ q1.timer = q.timer /\ q1.active = q.active
        /\ q1.pending = w /\ q1.newest = w.snapshot.revision
    BY DEF Queues
  <2>2. Enqueued(q, w) = Scheduled(q1)
    BY <1>2 DEF Enqueued
  <2>3. q.timer => q.active = None
    BY DEF InTurn
  <2>4. w # None
    OBVIOUS
  <2> HIDE DEF q1
  <2> QED
    BY <1>2, <2>1, <2>2, <2>3, <2>4 DEF Scheduled, Queues, InTurn
<1> QED
  BY <1>1, <1>2

\* What waits is scheduled when the write under way settles (Finished).
LEMMA FinishedQueue ==
  ASSUME NEW writes, NEW q \in Queues(writes), InTurn(q), q.active # None
  PROVE  /\ Finished(q) \in Queues(writes) /\ InTurn(Finished(q))
         /\ Finished(q).active = None /\ Finished(q).pending = q.pending
         /\ Finished(q).newest = q.newest
<1> DEFINE q1 == [q EXCEPT !.active = None]
<1>1. /\ q1 \in Queues(writes) /\ q1.timer = q.timer /\ q1.active = None
      /\ q1.pending = q.pending /\ q1.newest = q.newest
  BY DEF Queues
<1>2. Finished(q) = Scheduled(q1)
  BY DEF Finished
<1>3. ~q.timer
  BY DEF InTurn
<1> HIDE DEF q1
<1> QED
  BY <1>1, <1>2, <1>3 DEF Scheduled, Queues, InTurn

\* A page begins with nothing to write.
LEMMA EmptyQueue ==
  ASSUME NEW writes
  PROVE  /\ Empty \in Queues(writes) /\ InTurn(Empty)
         /\ Empty.pending = None /\ Empty.active = None /\ Empty.newest = 0
BY Bounds DEF Empty, Queues, InTurn

-----------------------------------------------------------------------------
(* The requests for a file, in turn.                                       *)

\* Who waits after one joined, after the first was served, and after the first was
\* given its folder.
LEMMA WaitingInTurn ==
  ASSUME NEW S, NEW requested \in Seq(S)
  PROVE  /\ \A w \in S : /\ Append(requested, w) \in Seq(S)
                         /\ Waiting(Append(requested, w)) = Waiting(requested) \cup {w}
         /\ Waiting(requested) \subseteq S
         /\ requested # <<>> =>
              /\ Head(requested) \in S /\ Tail(requested) \in Seq(S)
              /\ Waiting(requested) = Waiting(Tail(requested)) \cup {Head(requested)}
         /\ \A w \in S : requested # <<>> =>
              /\ [requested EXCEPT ![1] = w] \in Seq(S)
              /\ Waiting([requested EXCEPT ![1] = w]) = Waiting(Tail(requested)) \cup {w}
<1> DEFINE n == Len(requested)
<1>1. n \in Nat /\ DOMAIN requested = 1..n /\ \A i \in 1..n : requested[i] \in S
  OBVIOUS
<1>2. Waiting(requested) \subseteq S
  BY <1>1 DEF Waiting
<1>3. ASSUME NEW w \in S
      PROVE  /\ Append(requested, w) \in Seq(S)
             /\ Waiting(Append(requested, w)) = Waiting(requested) \cup {w}
  <2> DEFINE joined == Append(requested, w)
  <2>1. /\ joined \in Seq(S) /\ DOMAIN joined = 1..(n + 1) /\ joined[n + 1] = w
        /\ \A i \in 1..n : joined[i] = requested[i]
    BY <1>1
  <2> HIDE DEF joined, n
  <2>2. 1..(n + 1) = (1..n) \cup {n + 1}
    BY <1>1
  <2>3. Waiting(joined) = {joined[i] : i \in 1..n} \cup {joined[n + 1]}
    BY <2>1, <2>2 DEF Waiting
  <2>4. {joined[i] : i \in 1..n} = {requested[i] : i \in 1..n}
    BY <2>1
  <2> QED
    BY <1>1, <2>1, <2>3, <2>4 DEF Waiting, joined
<1>4. ASSUME requested # <<>>
      PROVE  /\ n > 0 /\ Head(requested) \in S /\ Tail(requested) \in Seq(S)
             /\ Head(requested) = requested[1]
             /\ Waiting(Tail(requested)) = {requested[i] : i \in 2..n}
  <2> DEFINE rest == Tail(requested)
  <2>1. /\ n > 0 /\ Head(requested) = requested[1] /\ Head(requested) \in S
        /\ rest \in Seq(S) /\ DOMAIN rest = 1..(n - 1)
        /\ \A i \in 1..(n - 1) : rest[i] = requested[i + 1]
    BY <1>1, <1>4
  <2> HIDE DEF rest, n
  <2>2. \A i \in 2..n : i - 1 \in 1..(n - 1) /\ requested[i] = rest[i - 1]
    BY <1>1, <2>1
  <2>3. \A i \in 1..(n - 1) : i + 1 \in 2..n
    BY <1>1
  <2>4. Waiting(rest) = {requested[i] : i \in 2..n}
    <3>1. Waiting(rest) = {rest[i] : i \in 1..(n - 1)}
      BY <2>1 DEF Waiting
    <3>2. \A i \in 1..(n - 1) : \E j \in 2..n : rest[i] = requested[j]
      BY <2>1, <2>3
    <3>3. \A j \in 2..n : \E i \in 1..(n - 1) : rest[i] = requested[j]
      BY <2>2
    <3> QED
      BY <3>1, <3>2, <3>3
  <2> QED
    BY <2>1, <2>4 DEF rest
<1>5. n > 0 => 1..n = {1} \cup (2..n)
  BY <1>1
<1>6. ASSUME requested # <<>>
      PROVE  Waiting(requested) = Waiting(Tail(requested)) \cup {Head(requested)}
  BY <1>1, <1>4, <1>5, <1>6 DEF Waiting
<1>7. ASSUME NEW w \in S, requested # <<>>
      PROVE  /\ [requested EXCEPT ![1] = w] \in Seq(S)
             /\ Waiting([requested EXCEPT ![1] = w]) = Waiting(Tail(requested)) \cup {w}
  <2> DEFINE changed == [requested EXCEPT ![1] = w]
  <2>1. /\ changed \in Seq(S) /\ DOMAIN changed = 1..n /\ changed[1] = w
        /\ \A i \in 2..n : changed[i] = requested[i]
    BY <1>1, <1>4, <1>7
  <2> HIDE DEF changed, n
  <2>2. Waiting(changed) = {changed[i] : i \in {1} \cup (2..n)}
    BY <1>4, <1>5, <1>7, <2>1 DEF Waiting
  <2>3. Waiting(changed) = {changed[i] : i \in 2..n} \cup {w}
    BY <2>1, <2>2
  <2>4. {changed[i] : i \in 2..n} = {requested[i] : i \in 2..n}
    BY <2>1
  <2> QED
    BY <1>4, <1>7, <2>1, <2>3, <2>4 DEF changed
<1> HIDE DEF n
<1> QED
  BY <1>2, <1>3, <1>4, <1>6, <1>7

\* A request joins the end (enqueueBackup, mappingTail).
LEMMA JoinedQueue ==
  ASSUME NEW S, NEW requested \in Seq(S), NEW w \in S
  PROVE  Waiting(Append(requested, w)) = Waiting(requested) \cup {w}
BY WaitingInTurn

\* The first request goes on changed (fileForGameSerial).
LEMMA ChangedFirst ==
  ASSUME NEW S, NEW requested \in Seq(S), requested # <<>>, NEW w \in S
  PROVE  Waiting([requested EXCEPT ![1] = w]) = Waiting(Tail(requested)) \cup {w}
BY WaitingInTurn

-----------------------------------------------------------------------------
(* The type invariant.                                                     *)

\* A folder just chosen has not failed; one written to failed or did not
\* (setupFromUserGesture, recordWriteResult).
LEMMA ConfigurationTypes ==
  /\ \A folder \in Folders : Settings(folder) \in Configurations
  /\ \A c \in Configurations, b \in BOOLEAN : /\ [c EXCEPT !.failed = b] \in Configurations
                                             /\ [c EXCEPT !.failed = b].folder = c.folder
                                             /\ [c EXCEPT !.failed = b].failed = b
<1>1. ASSUME NEW folder \in Folders
      PROVE  Settings(folder) \in Configurations
  BY <1>1, FALSE \in BOOLEAN, Zenon DEF Settings, Configurations
<1>2. ASSUME NEW c \in Configurations, NEW b \in BOOLEAN
      PROVE  /\ [c EXCEPT !.failed = b] \in Configurations
             /\ [c EXCEPT !.failed = b].folder = c.folder
             /\ [c EXCEPT !.failed = b].failed = b
  BY <1>2 DEF Configurations
<1> QED
  BY <1>1, <1>2

\* The database takes the new settings or keeps what it had (SaveSettings).
LEMMA SettingsSaved ==
  ASSUME NEW new, SaveSettings(new)
  PROVE  config' = new /\ (stored' = new \/ stored' = stored)
BY DEF SaveSettings

\* What is retained was there (retainRecoveryCheckpoints).
LEMMA RetainedSubset ==
  ASSUME NEW S
  PROVE  Retained(S) \subseteq S
BY DEF Retained, Newest

\* Before the first snapshot nothing is queued and nothing is saved.
LEMMA InitTypes == Init => TypeInv
<1> SUFFICES ASSUME Init PROVE TypeInv
  OBVIOUS
<1>1. ClockTypes
  <2>1. Layers \subseteq {"checkpoints", "files"}
    BY RecoveryAssumption
  <2>2. /\ layer \in {"checkpoints", "files"} /\ back \in BOOLEAN
        /\ number = 0 /\ revision = 0
    BY <2>1 DEF Init
  <2>3. 0 \in 0..MaxSnapshots /\ 0 \in 0..0
    BY Bounds
  <2> QED
    BY <2>2, <2>3, Zenon DEF ClockTypes
<1>2. QueueTypes
  BY EmptyQueue DEF Init, QueueTypes
<1>3. mapping \in Seq(Requests)
  BY DEF Init
<1>4. FolderTypes
  <2>1. 0 \in 0..MaxSnapshots
    BY Bounds
  <2>2. [f \in Folders |-> 0] \in [Folders -> 0..MaxSnapshots]
    BY <2>1
  <2>3. files \in [Folders -> 0..MaxSnapshots]
    BY <2>2 DEF Init
  <2> QED
    BY <1>3, <2>3 DEF Init, FolderTypes
<1>5. DisplayTypes
  BY Bounds DEF Init, DisplayTypes, Refreshes, Page
<1> QED
  BY <1>1, <1>2, <1>4, <1>5 DEF Init, TypeInv, StoreTypes, OneLayer

\* The newest snapshot is one: numbered next, and later in its page (Snapshot).
LEMMA NextSnapshot ==
  ASSUME ClockTypes, number < MaxSnapshots, number' = number + 1,
         revision' = revision + 1, NEW anchor \in Anchors \cup {None}
  PROVE  [number |-> number', revision |-> revision', anchor |-> anchor,
          at |-> IF back THEN number' ELSE number' + MaxSnapshots] \in Snapshots
<1>1. /\ number' \in 1..MaxSnapshots /\ revision' \in 1..MaxSnapshots
      /\ number' + MaxSnapshots \in 1..(2 * MaxSnapshots)
      /\ number' \in 1..(2 * MaxSnapshots)
  BY Bounds DEF ClockTypes
<1> QED
  BY <1>1 DEF Snapshots

\* A snapshot takes the place of the one that waits for its layer
\* (queueRecoverySnapshot).
LEMMA SnapshotTypes ==
  ASSUME TypeInv, NEW anchor \in Anchors \cup {None}, Snapshot(anchor)
  PROVE  TypeInv'
<1> DEFINE snapshot == [number |-> number', revision |-> revision', anchor |-> anchor,
                        at |-> IF back THEN number' ELSE number' + MaxSnapshots]
<1>1. ClockTypes'
  BY Bounds DEF TypeInv, ClockTypes, Snapshot
<1>2. snapshot \in Snapshots /\ snapshot.revision \in 0..MaxSnapshots
  BY NextSnapshot, Bounds DEF TypeInv, ClockTypes, Snapshot
<1>3. Writes' = Writes
  BY DEF Snapshot, Writes
<1>4. QueueTypes'
  <2>1. CASE layer = "checkpoints"
    <3> DEFINE write == [snapshot |-> snapshot]
    <3>1. queue' = Enqueued(queue, write)
      BY <2>1 DEF Snapshot
    <3>2. write \in Writes /\ write.snapshot.revision \in 0..MaxSnapshots
      BY <1>2, <2>1 DEF Writes
    <3> HIDE DEF write
    <3> QED
      BY <1>3, <3>1, <3>2, NoneIsNothing, EnqueuedQueue DEF TypeInv, QueueTypes
  <2>2. CASE layer # "checkpoints"
    BY <1>3, <2>2 DEF Snapshot, TypeInv, QueueTypes
  <2> QED
    BY <2>1, <2>2
<1>5. asked' \subseteq Snapshots
  BY <1>2 DEF Snapshot, TypeInv, FolderTypes
<1>6. FolderTypes'
  BY <1>5 DEF Snapshot, TypeInv, FolderTypes, settings
<1>7. StoreTypes' /\ OneLayer' /\ DisplayTypes'
  BY DEF Snapshot, TypeInv, StoreTypes, OneLayer, DisplayTypes, Misleading, checkpoints,
     settings, display
<1> QED
  BY <1>1, <1>4, <1>6, <1>7 DEF TypeInv

\* The debounced write starts with what is queued when its timer fires.
LEMMA TimerTypes ==
  ASSUME TypeInv, TimerFires
  PROVE  TypeInv'
<1>1. queue' \in Queues(Writes) /\ InTurn(queue)'
  BY DEF TimerFires, TypeInv, QueueTypes, Queues, InTurn
<1>2. Writes' = Writes
  BY DEF TimerFires, Writes
<1> QED
  BY <1>1, <1>2 DEF TimerFires, TypeInv, ClockTypes, QueueTypes, StoreTypes, FolderTypes,
     DisplayTypes, OneLayer, clock, checkpoints, requests, settings, display

\* A write settles: what it writes is a snapshot (CheckpointWritten, FileWritten).
LEMMA WriteTypes ==
  ASSUME TypeInv, NEW saved \in BOOLEAN, CheckpointWritten(saved) \/ FileWritten(saved)
  PROVE  TypeInv'
<1>1. /\ queue.active \in Writes /\ queue.active.snapshot \in Snapshots
      /\ queue.active.snapshot.number \in 0..MaxSnapshots
  <2>1. queue.active \in Writes
    BY DEF TypeInv, QueueTypes, Queues, CheckpointWritten, FileWritten
  <2>2. queue.active.snapshot \in Snapshots
    BY <2>1 DEF Writes
  <2> QED
    BY <2>1, <2>2 DEF Snapshots
<1>2. QueueTypes'
  <2>1. Finished(queue) \in Queues(Writes) /\ InTurn(Finished(queue))
    BY FinishedQueue DEF TypeInv, QueueTypes, CheckpointWritten, FileWritten
  <2>2. Writes' = Writes /\ queue' = Finished(queue)
    BY DEF Writes, CheckpointWritten, FileWritten
  <2> QED
    BY <2>1, <2>2 DEF QueueTypes
<1>3. CASE CheckpointWritten(saved)
  <2>1. Retained(store \cup {queue.active.snapshot}) \subseteq Snapshots
    BY <1>1, RetainedSubset DEF TypeInv, StoreTypes
  <2>2. StoreTypes'
    BY <1>1, <1>3, <2>1 DEF CheckpointWritten, TypeInv, StoreTypes
  <2> QED
    BY <1>2, <1>3, <2>2 DEF CheckpointWritten, TypeInv, ClockTypes, FolderTypes, DisplayTypes,
       OneLayer, clock, requests, settings, display
<1>4. CASE FileWritten(saved)
  <2>1. /\ config' \in Configurations \cup {None}
        /\ stored' \in Configurations \cup {None}
    <3>1. /\ config \in Configurations \cup {None} /\ stored \in Configurations \cup {None}
          /\ (~saved) \in BOOLEAN
      BY DEF TypeInv, FolderTypes
    <3>2. CASE config = None
      BY <1>4, <3>1, <3>2 DEF FileWritten
    <3>3. CASE config # None
      <4> DEFINE new == [config EXCEPT !.failed = ~saved]
      <4>1. new \in Configurations
        BY <3>1, <3>3, ConfigurationTypes, Zenon
      <4>2. SaveSettings(new)
        BY <1>4, <3>3, Zenon DEF FileWritten
      <4> HIDE DEF new
      <4> QED
        BY <3>1, <4>1, <4>2, SettingsSaved
    <3> QED
      BY <3>2, <3>3
  <2>2. files' \in [Folders -> 0..MaxSnapshots]
    BY <1>1, <1>4 DEF FileWritten, TypeInv, FolderTypes
  <2>3. layer' = layer /\ layer # "checkpoints"
    BY <1>4 DEF FileWritten
  <2> QED
    BY <1>2, <1>4, <2>1, <2>2, <2>3 DEF FileWritten, TypeInv, ClockTypes, StoreTypes,
       FolderTypes, DisplayTypes, OneLayer, clock, checkpoints, requests
<1> QED
  BY <1>3, <1>4

\* A refresh of the status is one (Refresh).
LEMMA RefreshTyped ==
  ASSUME DisplayTypes, NEW by \in 0..(MaxSnapshots + 1), NEW again \in BOOLEAN,
         Refresh(by, again)
  PROVE  refreshing' \subseteq Refreshes
<1> DEFINE new == [by |-> by, read |-> FALSE, settings |-> None, again |-> again]
<1>1. new \in Refreshes
  BY DEF Refreshes
<1>2. refreshing' = refreshing \cup {new}
  BY DEF Refresh
<1> QED
  BY <1>1, <1>2 DEF DisplayTypes

\* A refusal belongs to a snapshot (RefuseBackup).
LEMMA RefusalTyped ==
  ASSUME DisplayTypes, NEW snapshot \in Snapshots, RefuseBackup(snapshot)
  PROVE  refreshing' \subseteq Refreshes
<1>1. snapshot.number \in 0..(MaxSnapshots + 1)
  BY Bounds DEF Snapshots
<1> QED
  BY <1>1, RefreshTyped DEF RefuseBackup

\* A refresh reads the settings and ends (RefreshReads, RefreshEnds).
LEMMA RefreshTypes ==
  ASSUME TypeInv, NEW r \in refreshing, RefreshReads(r) \/ RefreshEnds(r)
  PROVE  TypeInv'
<1>1. r \in Refreshes /\ config \in Configurations \cup {None}
  BY DEF TypeInv, DisplayTypes, FolderTypes
<1>2. /\ [r EXCEPT !.read = TRUE, !.settings = config] \in Refreshes
      /\ [r EXCEPT !.read = FALSE, !.settings = None, !.again = FALSE] \in Refreshes
  BY <1>1 DEF Refreshes
<1>3. refreshing' \subseteq Refreshes
  BY <1>2 DEF TypeInv, DisplayTypes, RefreshReads, RefreshEnds
<1>4. Writes' = Writes
  BY DEF RefreshReads, RefreshEnds, Writes
<1> QED
  BY <1>3, <1>4 DEF RefreshReads, RefreshEnds, TypeInv, ClockTypes, QueueTypes, StoreTypes,
     FolderTypes, DisplayTypes, OneLayer, clock, checkpoints, requests, settings

\* A request for the folder goes on, or is refused (StatusRead, BeginMapping, FileFound).
LEMMA RequestTypes ==
  ASSUME TypeInv, (\E snapshot \in asked : StatusRead(snapshot)) \/ BeginMapping \/ FileFound
  PROVE  TypeInv'
<1>1. Writes' = Writes /\ UNCHANGED <<layer, clock, checkpoints, settings, files>>
  BY DEF StatusRead, BeginMapping, FileFound, Writes
<1>2. mapping \in Seq(Requests) /\ layer \in {"checkpoints", "files"}
  BY DEF TypeInv, FolderTypes, ClockTypes
<1>3. layer = "files"
  BY <1>2 DEF TypeInv, OneLayer, StatusRead, BeginMapping, FileFound
<1>4. mapping' \in Seq(Requests) /\ asked' \subseteq Snapshots /\ QueueTypes'
  <2>1. ASSUME NEW snapshot \in asked, StatusRead(snapshot)
        PROVE  mapping' \in Seq(Requests) /\ asked' \subseteq Snapshots /\ QueueTypes'
    <3>1. [snapshot |-> snapshot, folder |-> None] \in Requests
      BY DEF Requests, TypeInv, FolderTypes
    <3>2. mapping' \in Seq(Requests)
      BY <1>2, <2>1, <3>1, WaitingInTurn DEF StatusRead
    <3> QED
      BY <1>1, <2>1, <3>2 DEF StatusRead, TypeInv, FolderTypes, QueueTypes
  <2>2. CASE BeginMapping
    <3>1. mapping # <<>> /\ queue' = queue /\ asked' = asked
      BY <2>2 DEF BeginMapping
    <3>2. mapping' = Tail(mapping)
          \/ (config # None /\ mapping' = [mapping EXCEPT ![1].folder = config.folder])
      BY <2>2, Zenon DEF BeginMapping
    <3>3. Head(mapping) = mapping[1] /\ mapping[1] \in Requests /\ Tail(mapping) \in Seq(Requests)
      BY <1>2, <3>1
    <3>4. config # None => [mapping[1] EXCEPT !.folder = config.folder] \in Requests
      BY <3>3 DEF Requests, Configurations, TypeInv, FolderTypes
    <3>5. [mapping EXCEPT ![1].folder = config.folder]
            = [mapping EXCEPT ![1] = [mapping[1] EXCEPT !.folder = config.folder]]
      BY <1>2, <3>1
    <3>6. mapping' \in Seq(Requests)
      BY <1>2, <3>1, <3>2, <3>3, <3>4, <3>5, WaitingInTurn
    <3> QED
      BY <1>1, <3>1, <3>6 DEF TypeInv, FolderTypes, QueueTypes
  <2>3. CASE FileFound
    <3>1. mapping # <<>> /\ Head(mapping).folder # None /\ mapping' = Tail(mapping)
          /\ asked' = asked
      BY <2>3 DEF FileFound
    <3>2. Head(mapping) \in Requests /\ mapping' \in Seq(Requests)
      BY <1>2, <3>1
    <3>3. /\ Head(mapping) \in Writes
          /\ Head(mapping).snapshot.revision \in 0..MaxSnapshots
      BY <1>3, <3>1, <3>2, Bounds DEF Requests, Writes, Snapshots
    <3>4. queue' = queue \/ queue' = Enqueued(queue, Head(mapping))
      BY <2>3 DEF FileFound
    <3>5. QueueTypes'
      BY <1>1, <3>3, <3>4, NoneIsNothing, EnqueuedQueue DEF TypeInv, QueueTypes
    <3> QED
      BY <3>1, <3>2, <3>5 DEF TypeInv, FolderTypes
  <2> QED
    BY <2>1, <2>2, <2>3
<1>5. DisplayTypes'
  <2>1. since' = since
    BY DEF StatusRead, BeginMapping, FileFound
  <2>2. refreshing' = refreshing \/ \E snapshot \in Snapshots : RefuseBackup(snapshot)
    <3>1. mapping # <<>> => Head(mapping) \in Requests
      BY <1>2
    <3>2. mapping # <<>> => Head(mapping).snapshot \in Snapshots
      BY <3>1 DEF Requests
    <3>3. asked \subseteq Snapshots
      BY DEF TypeInv, FolderTypes
    <3>4. BeginMapping => \/ refreshing' = refreshing
                          \/ mapping # <<>> /\ RefuseBackup(Head(mapping).snapshot)
      BY Zenon DEF BeginMapping
    <3>5. FileFound => \/ refreshing' = refreshing
                       \/ mapping # <<>> /\ RefuseBackup(Head(mapping).snapshot)
      BY Zenon DEF FileFound
    <3>6. \A snapshot \in asked :
            StatusRead(snapshot) => refreshing' = refreshing \/ RefuseBackup(snapshot)
      BY Zenon DEF StatusRead
    <3> QED
      BY <3>2, <3>3, <3>4, <3>5, <3>6
  <2>3. refreshing' \subseteq Refreshes
    BY <2>2, RefusalTyped DEF TypeInv, DisplayTypes
  <2> QED
    BY <2>1, <2>3 DEF TypeInv, DisplayTypes
<1> QED
  BY <1>1, <1>3, <1>4, <1>5 DEF TypeInv, ClockTypes, StoreTypes, FolderTypes, OneLayer, clock,
     checkpoints, settings

\* The scorer sets up, reconnects and removes the folder (Setup, Reconnect, Remove).
LEMMA SettingsTypes ==
  ASSUME TypeInv, (\E folder \in Folders : Setup(folder)) \/ Reconnect \/ Remove
  PROVE  TypeInv'
<1>1. /\ Writes' = Writes /\ UNCHANGED <<layer, clock, checkpoints, requests, files>>
      /\ layer \in {"checkpoints", "files"}
  BY DEF Setup, Reconnect, Remove, Writes, TypeInv, ClockTypes
<1>2. layer = "files"
  BY <1>1 DEF Setup, Reconnect, Remove, MayAct, TypeInv, OneLayer
<1>3. /\ config' \in Configurations \cup {None} /\ stored' \in Configurations \cup {None}
      /\ permission' \in BOOLEAN
  <2>1. /\ config \in Configurations \cup {None} /\ stored \in Configurations \cup {None}
        /\ permission \in BOOLEAN /\ FALSE \in BOOLEAN
    BY DEF TypeInv, FolderTypes
  <2>2. ASSUME NEW folder \in Folders, Setup(folder)
        PROVE  config' \in Configurations /\ stored' \in {stored, config'} /\ permission'
    BY <2>2, SettingsSaved, ConfigurationTypes DEF Setup
  <2>3. CASE Reconnect
    <3> DEFINE new == [config EXCEPT !.failed = FALSE]
    <3>1. new \in Configurations /\ SaveSettings(new) /\ permission' = TRUE
      BY <2>1, <2>3, ConfigurationTypes DEF Reconnect
    <3> HIDE DEF new
    <3> QED
      BY <2>1, <3>1, SettingsSaved
  <2>4. CASE Remove
    BY <2>1, <2>4 DEF Remove
  <2>5. ASSUME NEW folder \in Folders, Setup(folder)
        PROVE  permission' = TRUE
    BY <2>5 DEF Setup
  <2> QED
    BY <2>1, <2>2, <2>3, <2>4, <2>5
<1>4. QueueTypes'
  <2>1. CASE Remove
    BY <1>1, <2>1 DEF Remove, TypeInv, QueueTypes, Queues, InTurn
  <2>2. CASE queue' = queue
    BY <1>1, <2>2 DEF TypeInv, QueueTypes
  <2> QED
    BY <2>1, <2>2 DEF Setup, Reconnect
<1>5. DisplayTypes'
  <2>1. Scorer \in 0..(MaxSnapshots + 1) /\ TRUE \in BOOLEAN
    BY Bounds DEF Scorer
  <2>2. refreshing' = refreshing \/ Refresh(Scorer, TRUE)
    BY Zenon DEF Setup, Reconnect, Remove
  <2>3. refreshing' \subseteq Refreshes
    BY <2>1, <2>2, RefreshTyped DEF TypeInv, DisplayTypes
  <2>4. since' = since \cup {"touched"}
    BY Zenon DEF Setup, Reconnect, Remove
  <2> QED
    BY <2>3, <2>4 DEF TypeInv, DisplayTypes, Misleading
<1> QED
  BY <1>1, <1>2, <1>3, <1>4, <1>5 DEF TypeInv, ClockTypes, StoreTypes, FolderTypes, OneLayer,
     clock, checkpoints, requests

\* A page is loaded again, whether or not its last write landed (Reload).
LEMMA ReloadTypes ==
  ASSUME TypeInv, Reload
  PROVE  TypeInv'
<1>1. Writes' = Writes /\ layer' = layer
  BY DEF Reload, Writes
<1>2. QueueTypes'
  BY <1>1, EmptyQueue DEF Reload, QueueTypes
<1>3. queue.active # None => queue.active \in Writes /\ queue.active.snapshot \in Snapshots
  BY DEF TypeInv, QueueTypes, Queues, Writes
<1>4. queue.active # None => queue.active.snapshot.number \in 0..MaxSnapshots
  BY <1>3 DEF Snapshots
<1>5. StoreTypes'
  <2>1. queue.active # None
          => Retained(store \cup {queue.active.snapshot}) \subseteq Snapshots
    BY <1>3, RetainedSubset DEF TypeInv, StoreTypes
  <2> QED
    BY <2>1 DEF Reload, TypeInv, StoreTypes
<1>6. files' \in [Folders -> 0..MaxSnapshots]
  BY <1>4 DEF Reload, TypeInv, FolderTypes
<1>7. mapping' \in Seq(Requests)
  BY DEF Reload
<1>8. FolderTypes'
  BY <1>6, <1>7 DEF Reload, TypeInv, FolderTypes
<1>9. ClockTypes' /\ OneLayer'
  BY DEF Reload, TypeInv, ClockTypes, OneLayer
<1>10. DisplayTypes'
  <2>1. refreshing' \subseteq Refreshes
    BY Bounds DEF Reload, Refreshes, Page
  <2>2. since' \in {since, since \cup {"reloaded"}}
    BY DEF Reload
  <2> QED
    BY <2>1, <2>2 DEF TypeInv, DisplayTypes, Misleading
<1> QED
  BY <1>2, <1>5, <1>8, <1>9, <1>10 DEF TypeInv

\* Every step of the queue, the layers and the timers keeps its types.
LEMMA NextTypes == TypeInv /\ [Next]_vars => TypeInv'
<1> SUFFICES ASSUME TypeInv, [Next]_vars PROVE TypeInv'
  OBVIOUS
<1>1. CASE LosePermission \/ SetClockBack \/ UNCHANGED vars
  <2>1. Writes' = Writes
    BY <1>1 DEF Writes, LosePermission, SetClockBack, vars
  <2> QED
    BY <1>1, <2>1 DEF LosePermission, SetClockBack, vars, TypeInv, ClockTypes, QueueTypes,
       StoreTypes, FolderTypes, DisplayTypes, OneLayer, clock, checkpoints, requests, settings,
       display
<1> QED
  BY <1>1, SnapshotTypes, TimerTypes, WriteTypes, RequestTypes, RefreshTypes, SettingsTypes,
     ReloadTypes DEF Next

\* Every state a behaviour reaches is made of layers, snapshots, folders and their
\* writes, and a timer runs exactly when a snapshot waits for its turn.
THEOREM Types == Spec => []TypeInv
BY InitTypes, NextTypes, PTL DEF Spec

-----------------------------------------------------------------------------
(* "Ready" means backed up.                                                *)

\* The folder is not deleted or unplugged, and every snapshot can be serialized: the
\* code records a failure only when a write fails, and a request refused otherwise is
\* not shown (FileFound).
FolderStays == "file refused" \notin Faults

\* A snapshot of this page load: revisions and numbers advance together.
OfPage(s) == s.revision <= revision /\ s.number - s.revision = number - revision

\* What is under way is of this page, and the queue has seen what it holds.
Pages ==
  /\ \A s \in asked : OfPage(s)
  /\ \A w \in Waiting(mapping) : OfPage(w.snapshot)
  /\ queue.newest <= revision
  /\ queue.pending # None => /\ OfPage(queue.pending.snapshot)
                             /\ queue.pending.snapshot.revision = queue.newest
  /\ queue.active # None => /\ OfPage(queue.active.snapshot)
                            /\ queue.active.snapshot.revision <= queue.newest

IsNewest(write) ==
  write # None /\ write.snapshot.number = number /\ write.folder = config.folder

Done == queue.newest = revision /\ queue.active = None /\ queue.pending = None

\* Where the newest snapshot is: it waits for the permission or for its file, in the
\* queue or in a write, or it is in the folder, or else it failed and shows it.
Awaited ==
  \/ \E s \in asked : s.number = number
  \/ \E w \in Waiting(mapping) : w.snapshot.number = number
Fresh ==
  \/ Awaited /\ queue.newest < revision
  \/ IsNewest(queue.pending)
  \/ IsNewest(queue.active) /\ queue.pending = None
  \/ Done /\ files[config.folder] = number
  \/ Done /\ config.failed /\ shown # "ready"
  \/ ~permission /\ (shown # "ready" \/ refreshing # {})

\* The newest snapshot's file is sought where the folder is now.
SoughtHere ==
  \A w \in Waiting(mapping) :
    w.snapshot.number = number => w.folder \in {None, config.folder}

\* A refresh that could mislead is that of a page loaded at rest: nothing is on its way
\* that could make what it read stale.
Idling == asked = {} /\ mapping = <<>> /\ queue.active = None /\ queue.pending = None
ReadRight ==
  permission /\ refreshing # {} => Idling /\ \A r \in refreshing : r.read => r.settings = config

OnItsWay == since = {} /\ config # None => SoughtHere /\ Fresh /\ ReadRight

BackupInv == TypeInv /\ Pages /\ OnItsWay

\* Nothing waits in an empty queue of requests.
LEMMA NobodyWaits == Waiting(<<>>) = {}
BY DEF Waiting

\* A snapshot is asked about before its revision reaches the queue (Snapshot).
LEMMA SnapshotBackup ==
  ASSUME BackupInv, NEW anchor \in Anchors \cup {None}, Snapshot(anchor)
  PROVE  Pages' /\ OnItsWay'
<1>1. /\ number' = number + 1 /\ revision' = revision + 1
      /\ number \in 0..MaxSnapshots /\ revision \in 0..number /\ number < MaxSnapshots
      /\ mapping' = mapping /\ config' = config
  BY DEF Snapshot, settings, BackupInv, TypeInv, ClockTypes
<1>2. PICK snapshot \in Snapshots :
        /\ snapshot.number = number' /\ snapshot.revision = revision'
        /\ IF layer = "checkpoints"
             THEN queue' = Enqueued(queue, [snapshot |-> snapshot]) /\ asked' = asked
             ELSE /\ asked' = IF config = None THEN asked ELSE asked \cup {snapshot}
                  /\ queue' = queue
  <2> DEFINE new == [number |-> number', revision |-> revision', anchor |-> anchor,
                     at |-> IF back THEN number' ELSE number' + MaxSnapshots]
  <2>1. new \in Snapshots
    BY <1>1, NextSnapshot DEF BackupInv, TypeInv
  <2>2. new.number = number' /\ new.revision = revision'
    OBVIOUS
  <2>3. IF layer = "checkpoints"
          THEN queue' = Enqueued(queue, [snapshot |-> new]) /\ asked' = asked
          ELSE /\ asked' = IF config = None THEN asked ELSE asked \cup {new}
               /\ queue' = queue
    BY DEF Snapshot
  <2> HIDE DEF new
  <2> QED
    BY <2>1, <2>2, <2>3
<1>3. ASSUME NEW s \in Snapshots, OfPage(s)
      PROVE  OfPage(s)' /\ s.number # number'
  BY <1>1, <1>3 DEF OfPage, Snapshots
<1>4. OfPage(snapshot)'
  BY <1>1, <1>2 DEF OfPage
<1>5. \A w \in Waiting(mapping) : w.snapshot \in Snapshots
  <2>1. Waiting(mapping) \subseteq Requests
    BY WaitingInTurn DEF BackupInv, TypeInv, FolderTypes
  <2> QED
    BY <2>1 DEF Requests
<1>6. /\ queue.newest \in 0..revision
      /\ queue.pending # None => queue.pending.snapshot \in Snapshots
      /\ queue.active # None => queue.active.snapshot \in Snapshots
  BY <1>1 DEF Queues, Writes, BackupInv, TypeInv, QueueTypes, Pages
<1>7. asked' \subseteq asked \cup {snapshot} /\ asked \subseteq Snapshots
  BY <1>2 DEF BackupInv, TypeInv, FolderTypes
<1>8. /\ \A s \in asked' : OfPage(s)'
      /\ \A w \in Waiting(mapping) : OfPage(w.snapshot)' /\ w.snapshot.number # number'
  <2>1. /\ \A s \in asked : OfPage(s)
        /\ \A w \in Waiting(mapping) : OfPage(w.snapshot)
    BY DEF BackupInv, Pages
  <2> QED
    BY <1>3, <1>4, <1>5, <1>7, <2>1
<1>9. Pages'
  <2>1. CASE queue' = queue
    BY <1>1, <1>3, <1>6, <1>8, <2>1 DEF BackupInv, Pages
  <2>2. CASE layer = "checkpoints"
    <3> DEFINE write == [snapshot |-> snapshot]
    <3>1. queue' = Enqueued(queue, write)
      BY <1>2, <2>2
    <3>2. /\ write \in Writes /\ write.snapshot = snapshot
          /\ write.snapshot.revision \in 0..MaxSnapshots
      <4>1. snapshot.revision \in 0..MaxSnapshots
        BY DEF Snapshots
      <4> QED
        BY <2>2, <4>1 DEF Writes
    <3> HIDE DEF write
    <3>3. ~Refused(queue, write)
      BY <1>1, <1>2, <1>6, <3>2 DEF Refused
    <3>4. queue'.pending = write /\ queue'.active = queue.active /\ queue'.newest = revision'
      BY <1>2, <3>1, <3>2, <3>3, NoneIsNothing, EnqueuedQueue
         DEF BackupInv, TypeInv, QueueTypes
    <3>5. queue.active # None
            => /\ queue.active.snapshot \in Snapshots /\ OfPage(queue.active.snapshot)
      BY <1>6 DEF BackupInv, Pages
    <3>6. queue.active # None
            => \E s \in Snapshots : s = queue.active.snapshot /\ OfPage(s)'
      BY <1>3, <3>5
    <3>7. queue.active # None
            => /\ OfPage(queue.active.snapshot)'
               /\ queue'.active.snapshot.revision <= queue'.newest
      BY <1>1, <1>2, <3>4, <3>6 DEF OfPage
    <3>8. OfPage(queue.pending.snapshot)' /\ queue'.pending.snapshot.revision = queue'.newest
      BY <1>2, <1>4, <3>2, <3>4
    <3> QED
      BY <1>1, <1>8, <3>4, <3>7, <3>8 DEF Pages
  <2> QED
    BY <1>2, <2>1, <2>2
<1>10. config # None => SoughtHere' /\ Fresh'
  <2>1. config # None => snapshot \in asked' /\ queue' = queue
    BY <1>2 DEF BackupInv, TypeInv, OneLayer
  <2>2. config # None => Awaited' /\ queue'.newest < revision'
    BY <1>1, <1>2, <1>6, <2>1 DEF Awaited
  <2> QED
    BY <1>1, <1>8, <2>2 DEF SoughtHere, Fresh
<1>11. since' = {} => refreshing' = {}
  BY DEF Snapshot, display
<1> QED
  BY <1>1, <1>9, <1>10, <1>11 DEF OnItsWay, ReadRight

\* What starts was pending (TimerFires).
LEMMA TimerBackup ==
  ASSUME BackupInv, TimerFires
  PROVE  Pages' /\ OnItsWay'
<1>1. /\ queue.active = None /\ queue.pending # None
      /\ queue'.newest = queue.newest /\ queue'.active = queue.pending
      /\ queue'.pending = None
  BY DEF TimerFires, BackupInv, TypeInv, QueueTypes, Queues, InTurn
<1>2. UNCHANGED <<layer, number, revision, asked, mapping, config, permission, files, shown,
                  refreshing, since>>
  BY DEF TimerFires, clock, requests, settings, display
<1>3. queue.newest \in Nat
  BY DEF BackupInv, TypeInv, QueueTypes, Queues
<1>4. Pages'
  BY <1>1, <1>2, <1>3 DEF BackupInv, Pages, OfPage
<1>5. Fresh => Fresh'
  BY <1>1, <1>2 DEF Fresh, Awaited, IsNewest, Done
<1>6. ReadRight => ReadRight'
  BY <1>1, <1>2 DEF ReadRight, Idling
<1> QED
  BY <1>2, <1>4, <1>5, <1>6 DEF BackupInv, OnItsWay, SoughtHere

\* A write settles: the newest snapshot is in its folder, or its failure shows
\* (FileWritten, CheckpointWritten).
LEMMA WriteBackup ==
  ASSUME BackupInv, NEW saved \in BOOLEAN, CheckpointWritten(saved) \/ FileWritten(saved)
  PROVE  Pages' /\ OnItsWay'
<1>1. /\ queue.active # None /\ queue'.active = None
      /\ queue'.pending = queue.pending /\ queue'.newest = queue.newest
  BY FinishedQueue DEF CheckpointWritten, FileWritten, BackupInv, TypeInv, QueueTypes
<1>2. UNCHANGED <<layer, number, revision, asked, mapping, permission, since>>
  <2>1. CASE CheckpointWritten(saved)
    BY <2>1 DEF CheckpointWritten, clock, requests, settings
  <2>2. CASE FileWritten(saved)
    BY <2>2 DEF FileWritten, clock, requests
  <2> QED
    BY <2>1, <2>2
<1>3. Pages'
  BY <1>1, <1>2 DEF BackupInv, Pages, OfPage
<1>4. ASSUME CheckpointWritten(saved)
      PROVE  config' = None
  BY <1>4 DEF CheckpointWritten, settings, BackupInv, TypeInv, OneLayer
<1>5. ASSUME FileWritten(saved), since = {}, config' # None
      PROVE  SoughtHere' /\ Fresh' /\ ReadRight'
  <2> DEFINE new == [config EXCEPT !.failed = ~saved]
  <2>1. config # None /\ config' = new
    BY <1>5, SettingsSaved, Zenon DEF FileWritten
  <2>2. config'.folder = config.folder /\ config'.failed = ~saved
    <3>1. config \in Configurations /\ (~saved) \in BOOLEAN
      BY <2>1 DEF BackupInv, TypeInv, FolderTypes
    <3> QED
      BY <2>1, <3>1, ConfigurationTypes, Zenon
  <2>3. /\ files' = IF saved THEN [files EXCEPT ![queue.active.folder] = queue.active.snapshot.number]
                             ELSE files
        /\ saved => permission
        /\ ~saved => shown' # "ready"
        /\ refreshing' = refreshing
    BY <1>5 DEF FileWritten, Outcome
  <2>4. SoughtHere /\ Fresh /\ ReadRight
    BY <1>5, <2>1 DEF BackupInv, OnItsWay
  <2>5. SoughtHere'
    BY <1>2, <2>2, <2>4 DEF SoughtHere
  <2> HIDE DEF new
  <2>6. ASSUME Awaited, queue.newest < revision
        PROVE  (Awaited /\ queue.newest < revision)'
    BY <1>1, <1>2, <2>6 DEF Awaited
  <2>7. ASSUME IsNewest(queue.pending)
        PROVE  IsNewest(queue.pending)'
    BY <1>1, <1>2, <2>2, <2>7 DEF IsNewest
  <2>8. ASSUME IsNewest(queue.active) /\ queue.pending = None
        PROVE  Fresh'
    <3>1. Done'
      <4>1. /\ queue.active.snapshot.number = number
            /\ OfPage(queue.active.snapshot)
            /\ queue.active.snapshot.revision <= queue.newest /\ queue.newest <= revision
        BY <1>1, <2>8 DEF BackupInv, Pages, IsNewest
      <4>2. queue.active.snapshot \in Snapshots
        BY <1>1 DEF BackupInv, TypeInv, QueueTypes, Queues, Writes
      <4>3. queue.newest \in Nat /\ revision \in Nat /\ number \in Nat
        BY Bounds DEF BackupInv, TypeInv, QueueTypes, Queues, ClockTypes
      <4>4. queue.newest = revision
        BY <4>1, <4>2, <4>3 DEF OfPage, Snapshots
      <4> QED
        BY <1>1, <1>2, <2>8, <4>4 DEF Done
    <3>2. CASE saved
      <4>1. /\ queue.active.folder = config.folder /\ queue.active.snapshot.number = number
            /\ config.folder \in Folders /\ files \in [Folders -> 0..MaxSnapshots]
        BY <2>1, <2>8 DEF IsNewest, Configurations, BackupInv, TypeInv, FolderTypes
      <4>2. files'[config'.folder] = number'
        BY <1>2, <2>2, <2>3, <3>2, <4>1
      <4> QED
        BY <2>5, <3>1, <4>2, Zenon DEF Fresh
    <3>3. CASE ~saved
      <4>1. config'.failed /\ shown' # "ready"
        BY <2>2, <2>3, <3>3
      <4> QED
        BY <2>5, <3>1, <4>1, Zenon DEF Fresh
    <3> QED
      BY <3>2, <3>3
  <2>9. ASSUME ~permission
        PROVE  (~permission /\ shown # "ready")'
    BY <1>2, <2>3, <2>9
  <2>10. ~Done
    BY <1>1 DEF Done
  <2>11. ReadRight'
    BY <1>1, <1>2, <2>3, <2>4 DEF ReadRight, Idling
  <2> QED
    BY <2>4, <2>5, <2>6, <2>7, <2>8, <2>9, <2>10, <2>11, Zenon DEF Fresh
<1> QED
  BY <1>2, <1>3, <1>4, <1>5 DEF OnItsWay

\* What is refused for want of the permission will show it (RefuseBackup).
LEMMA Refusal ==
  ASSUME ~permission, NEW snapshot, RefuseBackup(snapshot), permission' = permission
  PROVE  ~permission' /\ refreshing' # {}
BY DEF RefuseBackup, Refresh

\* With the permission a request waits for its file (StatusRead).
LEMMA StatusBackup ==
  ASSUME BackupInv, NEW snapshot \in asked, StatusRead(snapshot)
  PROVE  Pages' /\ OnItsWay'
<1> DEFINE request == [snapshot |-> snapshot, folder |-> None]
<1>1. UNCHANGED <<layer, number, revision, queue, config, permission, files, shown, since>>
  BY DEF StatusRead, clock, settings
<1>2. /\ mapping \in Seq(Requests) /\ request \in Requests
      /\ request.snapshot = snapshot /\ request.folder = None
      /\ asked' = asked \ {snapshot}
  BY DEF StatusRead, BackupInv, TypeInv, FolderTypes, Requests
<1>3. permission => mapping' = Append(mapping, request) /\ refreshing' = refreshing
  BY DEF StatusRead
<1>4. ~permission => mapping' = mapping /\ RefuseBackup(snapshot)
  BY DEF StatusRead
<1> HIDE DEF request
<1>5. CASE permission
  <2>1. Waiting(mapping') = Waiting(mapping) \cup {request}
    <3>1. Waiting(Append(mapping, request)) = Waiting(mapping) \cup {request}
      BY <1>2, JoinedQueue
    <3> QED
      BY <1>3, <1>5, <3>1, Zenon
  <2>2. Pages'
    BY <1>1, <1>2, <2>1 DEF BackupInv, Pages, OfPage
  <2>3. SoughtHere => SoughtHere'
    BY <1>1, <1>2, <2>1 DEF SoughtHere
  <2>4. Awaited => Awaited'
    BY <1>1, <1>2, <2>1 DEF Awaited
  <2>5. Fresh => Fresh'
    BY <1>1, <1>3, <1>5, <2>4 DEF Fresh, IsNewest, Done
  <2>6. ReadRight => ReadRight'
    BY <1>3, <1>5 DEF ReadRight, Idling
  <2> QED
    BY <1>1, <2>2, <2>3, <2>5, <2>6 DEF BackupInv, OnItsWay
<1>6. CASE ~permission
  <2>1. Pages'
    BY <1>1, <1>2, <1>4, <1>6 DEF BackupInv, Pages, OfPage
  <2>2. ~permission' /\ refreshing' # {}
    BY <1>1, <1>4, <1>6, Refusal
  <2>3. SoughtHere => SoughtHere'
    BY <1>1, <1>4, <1>6 DEF SoughtHere
  <2> QED
    BY <1>1, <2>1, <2>2, <2>3 DEF BackupInv, OnItsWay, Fresh, ReadRight
<1> QED
  BY <1>5, <1>6

\* A request is given the folder configured when its turn comes (BeginMapping).
LEMMA MappingBackup ==
  ASSUME BackupInv, BeginMapping
  PROVE  Pages' /\ OnItsWay'
<1>1. UNCHANGED <<layer, number, revision, queue, asked, config, permission, files, shown, since>>
  BY DEF BeginMapping, clock, settings
<1>2. /\ mapping \in Seq(Requests) /\ mapping # <<>> /\ Head(mapping).folder = None
      /\ Head(mapping) = mapping[1] /\ Head(mapping) \in Requests
      /\ Waiting(mapping) = Waiting(Tail(mapping)) \cup {Head(mapping)}
  BY WaitingInTurn DEF BeginMapping, BackupInv, TypeInv, FolderTypes
<1>3. CASE config # None /\ permission
  <2> DEFINE request == [mapping[1] EXCEPT !.folder = config.folder]
  <2>1. /\ request \in Requests /\ request.snapshot = Head(mapping).snapshot
        /\ request.folder = config.folder
    BY <1>2, <1>3 DEF Requests, Configurations, BackupInv, TypeInv, FolderTypes
  <2>2. mapping' = [mapping EXCEPT ![1] = request] /\ refreshing' = refreshing
    <3>1. mapping' = [mapping EXCEPT ![1].folder = config.folder] /\ refreshing' = refreshing
      BY <1>3, Zenon DEF BeginMapping
    <3> QED
      BY <1>2, <3>1
  <2> HIDE DEF request
  <2>3. Waiting(mapping') = Waiting(Tail(mapping)) \cup {request}
    <3>1. Waiting([mapping EXCEPT ![1] = request]) = Waiting(Tail(mapping)) \cup {request}
      BY <1>2, <2>1, ChangedFirst
    <3> QED
      BY <2>2, <3>1, Zenon
  <2>4. Pages'
    BY <1>1, <1>2, <2>1, <2>3 DEF BackupInv, Pages, OfPage
  <2>5. SoughtHere => SoughtHere'
    BY <1>1, <1>2, <2>1, <2>3 DEF SoughtHere
  <2>6. Awaited => Awaited'
    BY <1>1, <1>2, <2>1, <2>3 DEF Awaited
  <2>7. Fresh => Fresh'
    BY <1>1, <2>2, <2>6 DEF Fresh, IsNewest, Done
  <2>8. ReadRight => ReadRight'
    BY <1>2, <1>3, <2>2 DEF ReadRight, Idling
  <2> QED
    BY <1>1, <2>4, <2>5, <2>7, <2>8 DEF BackupInv, OnItsWay
<1>4. CASE ~(config # None /\ permission)
  <2>1. mapping' = Tail(mapping) /\ (config # None => RefuseBackup(Head(mapping).snapshot))
    BY <1>4, Zenon DEF BeginMapping
  <2>2. Waiting(mapping') \subseteq Waiting(mapping)
    BY <1>2, <2>1
  <2>3. Pages'
    BY <1>1, <2>2 DEF BackupInv, Pages, OfPage
  <2>4. config' # None => ~permission' /\ refreshing' # {}
    BY <1>1, <1>4, <2>1, Refusal
  <2>5. SoughtHere => SoughtHere'
    BY <1>1, <2>2 DEF SoughtHere
  <2> QED
    BY <1>1, <2>3, <2>4, <2>5 DEF BackupInv, OnItsWay, Fresh, ReadRight
<1> QED
  BY <1>3, <1>4

\* A file found is written next, unless a newer snapshot came first (FileFound).
LEMMA FoundBackup ==
  ASSUME BackupInv, FileFound, FolderStays
  PROVE  Pages' /\ OnItsWay'
<1> DEFINE first == Head(mapping)
<1>1. UNCHANGED <<layer, number, revision, asked, config, permission, files, since>>
  BY DEF FileFound, clock, settings
<1>2. /\ mapping # <<>> /\ first.folder # None /\ first \in Requests
      /\ Waiting(mapping) = Waiting(Tail(mapping)) \cup {first}
  BY WaitingInTurn DEF FileFound, BackupInv, TypeInv, FolderTypes
<1>3. mapping' = Tail(mapping)
  BY DEF FileFound
<1>4. \/ /\ permission /\ queue' = Enqueued(queue, first) /\ refreshing' = refreshing
         /\ shown' = IF Refused(queue, first) \/ queue.pending # None
                       THEN Outcome("backup-failed") ELSE shown
      \/ ~permission /\ RefuseBackup(first.snapshot) /\ queue' = queue
  <2>1. PICK found \in {permission} :
          IF found
            THEN /\ queue' = Enqueued(queue, first)
                 /\ shown' = IF Refused(queue, first) \/ queue.pending # None
                               THEN Outcome("backup-failed") ELSE shown
                 /\ UNCHANGED refreshing
            ELSE RefuseBackup(first.snapshot) /\ UNCHANGED <<queue, shown>>
    BY Zenon DEF FileFound, FolderStays
  <2>2. found = permission
    BY Zenon
  <2> QED
    BY <2>1, <2>2, Zenon
<1>5. layer = "files"
  BY <1>2 DEF BackupInv, TypeInv, ClockTypes, OneLayer
<1>6. /\ first \in Writes /\ first \in Waiting(mapping)
      /\ first.snapshot.revision \in 0..MaxSnapshots /\ first.snapshot.number \in Nat
  <2>1. first \in Writes /\ first.snapshot \in Snapshots
    BY <1>2, <1>5 DEF Requests, Writes
  <2>2. first.snapshot.revision \in 1..MaxSnapshots /\ first.snapshot.number \in 1..MaxSnapshots
    BY <2>1, Zenon DEF Snapshots
  <2>3. first \in Waiting(mapping)
    BY <1>2
  <2> QED
    BY <2>1, <2>2, <2>3, Bounds
<1>7. /\ queue.newest \in Nat /\ revision \in Nat /\ number \in Nat
      /\ queue.pending # None => queue.pending.snapshot \in Snapshots
      /\ queue.active # None => queue.active.snapshot \in Snapshots
  <2>1. queue \in Queues(Writes) /\ number \in 0..MaxSnapshots /\ revision \in 0..number
    BY DEF BackupInv, TypeInv, QueueTypes, ClockTypes
  <2>2. queue.newest \in Nat /\ revision \in Nat /\ number \in Nat
    BY <2>1, Bounds DEF Queues
  <2>3. /\ queue.pending # None => queue.pending \in Writes
        /\ queue.active # None => queue.active \in Writes
    BY <2>1 DEF Queues
  <2> QED
    BY <2>2, <2>3 DEF Writes
<1>8. OfPage(first.snapshot) /\ queue.newest <= revision
  BY <1>6 DEF BackupInv, Pages
<1> HIDE DEF first
<1>9. Waiting(mapping)' \subseteq Waiting(mapping)
  BY <1>2, <1>3
<1>10. /\ \A s \in asked' : OfPage(s)'
       /\ \A w \in Waiting(mapping)' : OfPage(w.snapshot)'
  BY <1>1, <1>9 DEF BackupInv, Pages, OfPage
<1>11. SoughtHere => SoughtHere'
  BY <1>1, <1>9 DEF SoughtHere
<1>12. CASE ~permission
  <2>1. RefuseBackup(first.snapshot) /\ queue' = queue
    BY <1>4, <1>12
  <2>2. ~permission' /\ refreshing' # {}
    BY <1>1, <1>12, <2>1, Refusal
  <2>3. Pages'
    BY <1>1, <1>10, <2>1 DEF BackupInv, Pages, OfPage
  <2> QED
    BY <1>1, <1>11, <2>2, <2>3 DEF BackupInv, OnItsWay, Fresh, ReadRight
<1>13. CASE permission /\ Refused(queue, first)
  <2>1. queue' = queue /\ shown' # "ready" /\ refreshing' = refreshing
    BY <1>4, <1>13 DEF Enqueued, Outcome
  <2>2. Pages'
    BY <1>1, <1>10, <2>1 DEF BackupInv, Pages, OfPage
  <2>3. ASSUME Awaited, queue.newest < revision
        PROVE  (Awaited /\ queue.newest < revision)'
    <3>1. first.snapshot.number # number
      BY <1>6, <1>7, <1>8, <1>13, <2>3 DEF Refused, OfPage
    <3> QED
      BY <1>1, <1>2, <1>3, <2>1, <2>3, <3>1 DEF Awaited
  <2>4. Fresh => Fresh'
    BY <1>1, <1>13, <2>1, <2>3 DEF Fresh, IsNewest, Done
  <2>5. ReadRight => ReadRight'
    BY <1>2, <1>13, <2>1 DEF ReadRight, Idling
  <2> QED
    BY <1>1, <1>11, <2>2, <2>4, <2>5 DEF BackupInv, OnItsWay
<1>14. CASE permission /\ ~Refused(queue, first)
  <2>1. queue' = Enqueued(queue, first)
    BY <1>4, <1>14
  <2>2. /\ queue'.pending = first /\ queue'.active = queue.active
        /\ queue'.newest = first.snapshot.revision
    BY <1>6, <1>14, <2>1, NoneIsNothing, EnqueuedQueue DEF BackupInv, TypeInv, QueueTypes
  <2>3. first.snapshot.revision > queue.newest
    BY <1>6, <1>7, <1>14 DEF Refused
  <2>4. Pages'
    <3>1. queue.active # None => /\ OfPage(queue.active.snapshot)
                                /\ queue.active.snapshot.revision <= first.snapshot.revision
      BY <1>6, <1>7, <2>3 DEF BackupInv, Pages, Snapshots
    <3>2. OfPage(queue.active.snapshot) => OfPage(queue.active.snapshot)'
      BY <1>1, <2>2 DEF OfPage
    <3>3. OfPage(queue.pending.snapshot)' /\ queue'.newest <= revision'
      BY <1>1, <1>8, <2>2 DEF OfPage
    <3> QED
      BY <1>10, <2>2, <3>1, <3>2, <3>3 DEF Pages
  <2>5. ASSUME SoughtHere, first.snapshot.number = number
        PROVE  IsNewest(queue.pending)'
    <3>1. first.folder = config.folder
      BY <1>2, <1>6, <2>5 DEF SoughtHere
    <3>2. first # None
      BY <1>6, NoneIsNothing
    <3> QED
      BY <1>1, <2>2, <2>5, <3>1, <3>2 DEF IsNewest
  <2>6. ASSUME Fresh, first.snapshot.number # number
        PROVE  (Awaited /\ queue.newest < revision)'
    <3>1. first.snapshot.revision < revision
      BY <1>6, <1>7, <1>8, <2>6 DEF OfPage
    <3>2. queue.newest < revision
      BY <1>6, <1>7, <2>3, <3>1
    <3>3. ~Done
      BY <3>2, <1>7 DEF Done
    <3>4. ~IsNewest(queue.pending)
      BY <1>7, <3>2 DEF BackupInv, Pages, IsNewest, OfPage, Snapshots
    <3>5. ~IsNewest(queue.active)
      BY <1>7, <3>2 DEF BackupInv, Pages, IsNewest, OfPage, Snapshots
    <3>6. Awaited
      BY <1>14, <2>6, <3>3, <3>4, <3>5, Zenon DEF Fresh
    <3>7. Awaited'
      BY <1>1, <1>2, <1>3, <2>6, <3>6 DEF Awaited
    <3> QED
      BY <1>1, <2>2, <3>1, <3>7
  <2>7. SoughtHere /\ Fresh => Fresh'
    BY <2>5, <2>6, Zenon DEF Fresh
  <2>8. ReadRight => ReadRight'
    BY <1>2, <1>4, <1>14 DEF ReadRight, Idling
  <2> QED
    BY <1>1, <1>11, <2>4, <2>7, <2>8 DEF BackupInv, OnItsWay
<1> QED
  BY <1>12, <1>13, <1>14

\* A refresh that ends shows what it read, and no permission where there is none
\* (RefreshReads, RefreshEnds).
LEMMA RefreshBackup ==
  ASSUME BackupInv, NEW r \in refreshing, RefreshReads(r) \/ RefreshEnds(r)
  PROVE  Pages' /\ OnItsWay'
<1>1. UNCHANGED <<layer, number, revision, queue, asked, mapping, config, permission, files, since>>
  BY DEF RefreshReads, RefreshEnds, clock, requests, settings
<1>2. Pages'
  BY <1>1 DEF BackupInv, Pages, OfPage
<1>3. ASSUME since = {}, config # None, SoughtHere, Fresh, ReadRight
      PROVE  SoughtHere' /\ Fresh' /\ ReadRight'
  <2>1. SoughtHere'
    BY <1>1, <1>3 DEF SoughtHere
  <2>2. Awaited => Awaited'
    BY <1>1 DEF Awaited
  <2>3. CASE RefreshReads(r)
    <3>1. shown' = shown /\ refreshing' # {}
      BY <2>3 DEF RefreshReads
    <3>2. \A s \in refreshing' : s \in refreshing \/ s.settings = config
      <4>1. refreshing' = (refreshing \ {r}) \cup {[r EXCEPT !.read = TRUE, !.settings = config]}
        BY <2>3 DEF RefreshReads
      <4>2. r \in Refreshes
        BY DEF BackupInv, TypeInv, DisplayTypes
      <4>3. [r EXCEPT !.read = TRUE, !.settings = config].settings = config
        BY <4>2 DEF Refreshes
      <4> QED
        BY <4>1, <4>3
    <3>3. ReadRight'
      BY <1>1, <1>3, <3>2 DEF ReadRight, Idling
    <3>4. Fresh'
      BY <1>1, <1>3, <2>2, <3>1 DEF Fresh, IsNewest, Done
    <3> QED
      BY <2>1, <3>3, <3>4
  <2>4. CASE RefreshEnds(r)
    <3>1. r.read /\ shown' = Status(r.settings, permission)
      BY <2>4 DEF RefreshEnds
    <3>2. \A s \in refreshing' : s \in refreshing \/ ~s.read
      <4>1. refreshing' \subseteq refreshing
              \cup {[r EXCEPT !.read = FALSE, !.settings = None, !.again = FALSE]}
        BY <2>4 DEF RefreshEnds
      <4>2. r \in Refreshes
        BY DEF BackupInv, TypeInv, DisplayTypes
      <4>3. ~[r EXCEPT !.read = FALSE, !.settings = None, !.again = FALSE].read
        BY <4>2 DEF Refreshes
      <4> QED
        BY <4>1, <4>3
    <3>3. ReadRight'
      BY <1>1, <1>3, <3>2 DEF ReadRight, Idling
    <3>4. ~permission => shown' # "ready"
      BY <3>1 DEF Status
    <3>5. permission /\ config.failed => shown' # "ready"
      BY <1>3, <3>1 DEF Status, ReadRight
    <3>6. Fresh'
      BY <1>1, <1>3, <2>2, <3>4, <3>5 DEF Fresh, IsNewest, Done
    <3> QED
      BY <2>1, <3>3, <3>6
  <2> QED
    BY <2>3, <2>4
<1> QED
  BY <1>1, <1>2, <1>3 DEF BackupInv, OnItsWay

\* Whoever touches the settings, and a new page, starts anew; a permission lost
\* changes nothing that is under way.
LEMMA OtherBackup ==
  ASSUME BackupInv,
         \/ (\E folder \in Folders : Setup(folder)) \/ Reconnect \/ Remove \/ Reload
         \/ LosePermission \/ SetClockBack \/ UNCHANGED vars
  PROVE  Pages' /\ OnItsWay'
<1>1. CASE Reload
  <2>1. since' = {} /\ config' # None => SoughtHere' /\ Fresh' /\ ReadRight'
    <3> SUFFICES ASSUME since' = {}, config' # None PROVE SoughtHere' /\ Fresh' /\ ReadRight'
      OBVIOUS
    <3>1. since = {} /\ Idle /\ stored = config /\ config' = config
      BY <1>1 DEF Reload
    <3>2. /\ Fresh /\ ~Awaited /\ queue.active = None /\ queue.pending = None
          /\ UNCHANGED <<number, permission, files>>
      <4>1. queue.active = None /\ queue.pending = None /\ asked = {} /\ mapping = <<>>
        BY <3>1 DEF Idle, BackupInv, TypeInv, QueueTypes, InTurn
      <4> QED
        BY <1>1, <3>1, <4>1, NobodyWaits DEF Reload, BackupInv, OnItsWay, Awaited
    <3>3. /\ asked' = {} /\ mapping' = <<>> /\ queue' = Empty /\ revision' = 0
          /\ shown' = "checking" /\ \A r \in refreshing' : ~r.read
      BY <1>1 DEF Reload
    <3>4. Waiting(mapping') = {}
      BY <3>3, NobodyWaits
    <3>5. Done' /\ queue'.pending = None /\ queue'.active = None
      BY <3>3, EmptyQueue DEF Done
    <3>6. Fresh'
      BY <3>1, <3>2, <3>3, <3>5 DEF Fresh, IsNewest
    <3> QED
      BY <3>3, <3>4, <3>5, <3>6 DEF SoughtHere, ReadRight, Idling
  <2>2. asked' = {} /\ mapping' = <<>> /\ queue' = Empty /\ revision' = 0
    BY <1>1 DEF Reload
  <2>3. Waiting(mapping') = {}
    BY <2>2, NobodyWaits
  <2>4. Pages'
    BY <2>2, <2>3, EmptyQueue DEF Pages, OfPage
  <2> QED
    BY <2>1, <2>4 DEF OnItsWay
<1>2. CASE (\E folder \in Folders : Setup(folder)) \/ Reconnect \/ Remove
  <2>1. since' # {} /\ UNCHANGED <<number, revision, asked, mapping>>
    BY <1>2 DEF Setup, Reconnect, Remove, clock, requests
  <2>2. /\ queue'.newest = queue.newest /\ queue'.active = queue.active
        /\ queue'.pending \in {queue.pending, None}
    <3>1. CASE Remove
      BY <3>1 DEF Remove, BackupInv, TypeInv, QueueTypes, Queues
    <3>2. CASE queue' = queue
      BY <3>2
    <3> QED
      BY <1>2, <3>1, <3>2 DEF Setup, Reconnect
  <2>3. Pages'
    BY <2>1, <2>2 DEF BackupInv, Pages, OfPage
  <2> QED
    BY <2>1, <2>3 DEF OnItsWay
<1>3. CASE LosePermission \/ SetClockBack \/ UNCHANGED vars
  <2>1. /\ UNCHANGED <<number, revision, queue, asked, mapping, config, files, shown,
                       refreshing, since>>
        /\ permission' = permission \/ ~permission'
    BY <1>3 DEF LosePermission, SetClockBack, vars, clock, requests, settings, display
  <2>2. Pages'
    BY <2>1 DEF BackupInv, Pages, OfPage
  <2>3. Awaited => Awaited'
    BY <2>1 DEF Awaited
  <2>4. Fresh => Fresh'
    BY <2>1, <2>3 DEF Fresh, IsNewest, Done
  <2>5. ReadRight => ReadRight'
    BY <2>1 DEF ReadRight, Idling
  <2> QED
    BY <2>1, <2>2, <2>4, <2>5 DEF BackupInv, OnItsWay, SoughtHere
<1> QED
  BY <1>1, <1>2, <1>3

\* If external backup shows "Ready" while nothing is under way, the newest snapshot is in
\* the folder, unless since it was emitted the settings were touched, a refresh of the
\* status from before it ran, or the page was loaded again before it was written; while
\* folders give their files, which the code notices only when a write fails
\* (ExternalBackup, CoalescingExternalBackupWriter).
THEOREM ReadyIsBackedUp ==
  ASSUME FolderStays
  PROVE  Spec => []ReadyMeansBackedUp
<1>1. Init => BackupInv
  <2>1. Init => /\ config = None /\ asked = {} /\ Waiting(mapping) = {}
               /\ queue = Empty /\ revision = 0
    BY NobodyWaits DEF Init
  <2>2. Init => Pages /\ OnItsWay
    BY <2>1, EmptyQueue DEF Pages, OnItsWay
  <2> QED
    BY <2>2, InitTypes DEF BackupInv
<1>2. BackupInv /\ [Next]_vars => BackupInv'
  <2> SUFFICES ASSUME BackupInv, [Next]_vars PROVE BackupInv'
    OBVIOUS
  <2>1. TypeInv'
    BY NextTypes DEF BackupInv
  <2>2. Pages' /\ OnItsWay'
    BY SnapshotBackup, TimerBackup, WriteBackup, StatusBackup, MappingBackup, FoundBackup,
       RefreshBackup, OtherBackup DEF Next
  <2> QED
    BY <2>1, <2>2 DEF BackupInv
<1>3. BackupInv => ReadyMeansBackedUp
  <2> SUFFICES ASSUME BackupInv, Resting, since = {}, shown = "ready", config # None
               PROVE  files[config.folder] = number
    BY DEF ReadyMeansBackedUp, Backed
  <2>1. Fresh
    BY DEF BackupInv, OnItsWay
  <2>2. ~Awaited
    BY NobodyWaits DEF Resting, Idle, Awaited
  <2>3. queue.active = None /\ queue.pending = None /\ refreshing = {}
    BY DEF Resting, Idle, BackupInv, TypeInv, QueueTypes, InTurn
  <2> QED
    BY <2>1, <2>2, <2>3 DEF Fresh, IsNewest
<1> QED
  BY <1>1, <1>2, <1>3, PTL DEF Spec

-----------------------------------------------------------------------------
(* What was saved is kept.                                                 *)

\* There are no more anchor keys than anchors are kept (App.tsx's keys: the start,
\* each half, the end of regulation, the end; maxAnchors is 32).
FewAnchors == IsFiniteSet(Anchors) /\ Cardinality(Anchors) <= MaxAnchors

\* The snapshot is the newest of its kind: rolling, or of its anchor.
IsPeak(m, S) == m \in S /\ \A t \in S : t.anchor = m.anchor => t.at <= m.at
Peaked(S) == \A s \in S : \E m \in S : m.anchor = s.anchor /\ IsPeak(m, S)

\* While the clock goes forward, the times are those of the numbers.
Ordered(S) ==
  /\ \A s \in S : s.number <= number /\ s.at = s.number + MaxSnapshots
  /\ \A s, t \in S : s.number = t.number => s = t

\* Snapshots on their way to the database.
Flying == {w.snapshot : w \in {queue.pending, queue.active} \ {None}}

SaveInv ==
  /\ TypeInv /\ IsFiniteSet(store)
  /\ layer = "checkpoints" /\ ~back =>
       Ordered(store \cup Flying) /\ Peaked(store) /\ EverKept

\* Nothing in a set is later than its latest, and one that nothing is later than is
\* the latest (retainRecoveryCheckpoints sorts by time).
LEMMA Latest ==
  ASSUME NEW S, S \subseteq Snapshots, NEW m \in S
  PROVE  /\ (\A t \in S : t.at <= m.at) => {t \in S : t.at > m.at} = {}
         /\ {t \in S : t.at > m.at} = {} => \A t \in S : t.at <= m.at
<1>1. \A t \in S : t.at \in Int
  BY DEF Snapshots
<1> QED
  BY <1>1

\* Two snapshots of one time are one, and so at most one of each anchor is retained:
\* the newest of its kind is (retainRecoveryCheckpoints).
LEMMA PeakStays ==
  ASSUME FewAnchors, NEW S, S \subseteq Snapshots, IsFiniteSet(S),
         \A s, t \in S : s.at = t.at => s = t,
         NEW m, IsPeak(m, S)
  PROVE  m \in Retained(S)
<1> DEFINE Of(a) == {s \in S : s.anchor = a}
           anchors == UNION {Newest(Of(a), 1) : a \in Anchors}
<1>1. Retained(S) = Newest(anchors, MaxAnchors) \cup Newest(Of(None), MaxRolling)
  BY DEF Retained
<1>2. /\ m \in S /\ m \in Snapshots /\ m \in Of(m.anchor)
      /\ \A t \in Of(m.anchor) : t.at <= m.at
      /\ \A a : Of(a) \subseteq S /\ Of(a) \subseteq Snapshots /\ IsFiniteSet(Of(a))
  BY FS_Subset DEF IsPeak
<1>3. {t \in Of(m.anchor) : t.at > m.at} = {}
  BY <1>2, Latest
<1>4. Cardinality({t \in Of(m.anchor) : t.at > m.at}) = 0
  BY <1>3, FS_EmptySet
<1>5. CASE m.anchor = None
  BY <1>1, <1>2, <1>4, <1>5, Bounds DEF Newest
<1>6. CASE m.anchor \in Anchors
  <2> DEFINE others == Anchors \ {m.anchor}
             later == {t \in anchors : t.at > m.at}
  <2>1. m \in anchors
    <3>1. m \in Newest(Of(m.anchor), 1)
      BY <1>2, <1>4 DEF Newest
    <3> QED
      BY <1>6, <3>1
  <2>2. ASSUME NEW t \in anchors
        PROVE  t \in S /\ t.anchor \in Anchors /\ \A u \in Of(t.anchor) : u.at <= t.at
    <3>1. PICK a \in Anchors : t \in Newest(Of(a), 1)
      BY <2>2
    <3>2. t \in Of(a) /\ Cardinality({u \in Of(a) : u.at > t.at}) < 1
      BY <3>1 DEF Newest
    <3>3. IsFiniteSet({u \in Of(a) : u.at > t.at})
      BY <1>2, FS_Subset
    <3>4. Cardinality({u \in Of(a) : u.at > t.at}) = 0
      BY <3>2, <3>3, FS_CardinalityType
    <3>5. {u \in Of(a) : u.at > t.at} = {}
      BY <3>3, <3>4, FS_EmptySet
    <3>6. t.anchor = a /\ t \in S
      BY <3>2
    <3> QED
      BY <1>2, <3>2, <3>5, <3>6, Latest
  <2> HIDE DEF anchors
  <2>3. \A t \in S : t \in Of(t.anchor) /\ t.at \in Int
    BY DEF Snapshots
  <2> HIDE DEF Of
  <2>4. ASSUME NEW t \in anchors, NEW u \in anchors, t.anchor = u.anchor
        PROVE  t = u
    BY <2>2, <2>3, <2>4
  <2>5. ASSUME NEW t \in later
        PROVE  t.anchor \in others
    BY <1>2, <2>2, <2>3, <2>5
  <2>6. IsFiniteSet(later) /\ IsFiniteSet(others) /\ Cardinality(others) < MaxAnchors
    <3>1. IsFiniteSet(later)
      BY <2>2, FS_Subset
    <3>2. IsFiniteSet(others) /\ Cardinality(others) = Cardinality(Anchors) - 1
      BY <1>6, FS_RemoveElement DEF FewAnchors
    <3>3. Cardinality(Anchors) \in Nat
      BY FS_CardinalityType DEF FewAnchors
    <3> QED
      BY <3>1, <3>2, <3>3, Bounds DEF FewAnchors
  <2>7. ~(Cardinality(others) < Cardinality(later))
    <3> SUFFICES ASSUME Cardinality(others) < Cardinality(later) PROVE FALSE
      OBVIOUS
    <3> DEFINE f == [t \in later |-> t.anchor]
    <3>1. f \in [later -> others]
      BY <2>5
    <3> HIDE DEF f, later, others
    <3>2. PICK t, u \in later : t # u /\ f[t] = f[u]
      BY <2>6, <3>1, FS_PigeonHole
    <3> QED
      BY <2>4, <3>2 DEF f, later
  <2>8. Cardinality(later) < MaxAnchors
    BY <2>6, <2>7, FS_CardinalityType, Bounds
  <2> QED
    BY <1>1, <2>1, <2>8 DEF Newest
<1> QED
  BY <1>2, <1>5, <1>6 DEF Snapshots

\* The newer of the one added and the newest so far is the newest of its kind.
LEMMA PeakAdded ==
  ASSUME NEW S, S \subseteq Snapshots, Peaked(S), NEW x \in Snapshots
  PROVE  Peaked(S \cup {x})
<1>1. SUFFICES ASSUME NEW s \in S \cup {x}
               PROVE  \E m \in S \cup {x} : m.anchor = s.anchor /\ IsPeak(m, S \cup {x})
  BY DEF Peaked
<1>2. \A t \in S \cup {x} : t.at \in Int
  BY DEF Snapshots
<1>3. CASE \E t \in S : t.anchor = s.anchor
  <2>1. PICK m \in S : m.anchor = s.anchor /\ IsPeak(m, S)
    BY <1>3 DEF Peaked
  <2>2. CASE x.anchor = s.anchor /\ x.at > m.at
    BY <1>2, <2>1, <2>2 DEF IsPeak
  <2>3. CASE ~(x.anchor = s.anchor /\ x.at > m.at)
    BY <1>2, <2>1, <2>3 DEF IsPeak
  <2> QED
    BY <2>2, <2>3
<1>4. CASE ~\E t \in S : t.anchor = s.anchor
  BY <1>2, <1>4 DEF IsPeak
<1> QED
  BY <1>3, <1>4

\* Pruning keeps for every snapshot one of its kind that is no older
\* (retainRecoveryCheckpoints).
LEMMA PeakRetained ==
  ASSUME FewAnchors, NEW S, S \subseteq Snapshots, IsFiniteSet(S), Ordered(S), Peaked(S)
  PROVE  /\ Peaked(Retained(S))
         /\ \A s \in S : \E t \in Retained(S) : t.anchor = s.anchor /\ t.number >= s.number
<1>1. \A s \in S : s.number \in Int /\ s.at \in Int
  BY DEF Snapshots
<1>2. \A s, t \in S : s.at = t.at => s = t
  BY <1>1, Bounds DEF Ordered
<1>3. ASSUME NEW s \in S
      PROVE  \E m \in Retained(S) :
               m.anchor = s.anchor /\ IsPeak(m, S) /\ s.at <= m.at
  <2>1. PICK m \in S : m.anchor = s.anchor /\ IsPeak(m, S)
    BY DEF Peaked
  <2>2. m \in Retained(S)
    BY <1>2, <2>1, PeakStays
  <2> QED
    BY <2>1, <2>2 DEF IsPeak
<1>4. Retained(S) \subseteq S
  BY RetainedSubset
<1>5. Peaked(Retained(S))
  BY <1>3, <1>4 DEF Peaked, IsPeak
<1>6. ASSUME NEW s \in S
      PROVE  \E t \in Retained(S) : t.anchor = s.anchor /\ t.number >= s.number
  <2>1. PICK m \in Retained(S) : m.anchor = s.anchor /\ s.at <= m.at
    BY <1>3
  <2>2. m.number >= s.number
    BY <1>1, <1>4, <2>1, Bounds DEF Ordered
  <2> QED
    BY <2>1, <2>2
<1> QED
  BY <1>5, <1>6

\* A new snapshot is the newest there is (Snapshot).
LEMMA SnapshotSave ==
  ASSUME SaveInv, NEW anchor \in Anchors \cup {None}, Snapshot(anchor)
  PROVE  SaveInv'
<1>1. TypeInv' /\ UNCHANGED <<layer, back, store, kept>>
  BY NextTypes DEF Snapshot, SaveInv, Next, checkpoints
<1>2. SUFFICES ASSUME layer = "checkpoints", ~back
               PROVE  (Ordered(store \cup Flying))'
  BY <1>1 DEF SaveInv, Peaked, IsPeak, EverKept
<1> DEFINE new == [number |-> number', revision |-> revision', anchor |-> anchor,
                   at |-> IF back THEN number' ELSE number' + MaxSnapshots]
           write == [snapshot |-> new]
<1>3. /\ number' = number + 1 /\ number \in Nat
      /\ new \in Snapshots /\ queue' = Enqueued(queue, write)
  BY <1>2, NextSnapshot, Bounds DEF Snapshot, SaveInv, TypeInv, ClockTypes
<1>4. new.number = number' /\ new.at = number' + MaxSnapshots
  BY <1>2
<1>5. write \in Writes /\ write.snapshot = new /\ write.snapshot.revision \in 0..MaxSnapshots
  <2> HIDE DEF new
  <2>1. new.revision \in 0..MaxSnapshots
    BY <1>3 DEF Snapshots
  <2> QED
    BY <1>2, <1>3, <2>1 DEF Writes
<1> HIDE DEF write, new
<1>6. queue'.pending \in {queue.pending, write} /\ queue'.active = queue.active
  BY <1>3, <1>5, NoneIsNothing, EnqueuedQueue DEF SaveInv, TypeInv, QueueTypes
<1>7. Flying' \subseteq Flying \cup {new}
  BY <1>5, <1>6 DEF Flying
<1>8. \A s \in store \cup Flying : s.number \in Int
  BY DEF SaveInv, TypeInv, StoreTypes, QueueTypes, Queues, Writes, Flying, Snapshots
<1>9. Ordered(store \cup Flying)
  BY <1>2 DEF SaveInv
<1>10. \A s \in (store \cup Flying)' : s \in store \cup Flying \/ s = new
  BY <1>1, <1>7
<1> QED
  BY <1>3, <1>4, <1>8, <1>9, <1>10 DEF Ordered

\* A checkpoint is put and the old ones are pruned, in one transaction
\* (CheckpointWritten).
LEMMA CheckpointSave ==
  ASSUME SaveInv, FewAnchors, NEW saved \in BOOLEAN, CheckpointWritten(saved)
  PROVE  SaveInv'
<1>1. TypeInv' /\ UNCHANGED <<layer, number, back>> /\ queue.active # None
  BY NextTypes DEF CheckpointWritten, SaveInv, Next, clock
<1> DEFINE x == queue.active.snapshot
           S == store \cup {x}
<1>2. /\ x \in Snapshots /\ x \in Flying /\ S \subseteq Snapshots /\ IsFiniteSet(S)
      /\ Retained(S) \subseteq S
  <2>1. queue.active \in Writes
    BY <1>1 DEF SaveInv, TypeInv, QueueTypes, Queues
  <2>2. x \in Snapshots /\ x \in Flying
    BY <1>1, <2>1 DEF Writes, Flying
  <2> QED
    BY <2>2, RetainedSubset, FS_AddElement DEF SaveInv, TypeInv, StoreTypes
<1>3. store' = (IF saved THEN Retained(S) ELSE store)
      /\ kept' = (IF saved THEN kept \cup {x} ELSE kept)
  BY DEF CheckpointWritten
<1>4. IsFiniteSet(store)'
  BY <1>2, <1>3, FS_Subset DEF SaveInv
<1>5. Flying' \subseteq Flying
  BY FinishedQueue DEF CheckpointWritten, SaveInv, TypeInv, QueueTypes, Flying
<1> HIDE DEF x
<1>6. ASSUME layer = "checkpoints", ~back
      PROVE  (Ordered(store \cup Flying) /\ Peaked(store) /\ EverKept)'
  <2>1. Ordered(store \cup Flying) /\ Peaked(store) /\ EverKept
    BY <1>6 DEF SaveInv
  <2>2. (store \cup Flying)' \subseteq store \cup Flying /\ S \subseteq store \cup Flying
    BY <1>2, <1>3, <1>5
  <2>3. (Ordered(store \cup Flying))' /\ Ordered(S)
    BY <1>1, <2>1, <2>2 DEF Ordered
  <2>4. CASE ~saved
    BY <1>3, <2>1, <2>3, <2>4 DEF Peaked, IsPeak, EverKept
  <2>5. CASE saved
    <3>1. Peaked(S)
      BY <1>2, <2>1, PeakAdded DEF SaveInv, TypeInv, StoreTypes
    <3>2. /\ Peaked(Retained(S))
          /\ \A s \in S : \E t \in Retained(S) : t.anchor = s.anchor /\ t.number >= s.number
      BY <1>2, <2>3, <3>1, PeakRetained
    <3>3. \A s \in kept \cup {x} : \E t \in S : t.anchor = s.anchor /\ t.number >= s.number
      BY <1>2, <2>1 DEF EverKept, Snapshots
    <3>4. \A s \in kept \cup {x} : s.number \in Int
      BY <1>2 DEF SaveInv, TypeInv, StoreTypes, Snapshots
    <3>5. \A s \in S : s.number \in Int
      BY <1>2 DEF Snapshots
    <3> HIDE DEF S
    <3>6. \A s \in kept \cup {x} :
            \E t \in Retained(S) : t.anchor = s.anchor /\ t.number >= s.number
      BY <1>2, <3>2, <3>3, <3>4, <3>5
    <3> QED
      BY <1>3, <2>3, <2>5, <3>2, <3>6 DEF Peaked, IsPeak, EverKept
  <2> QED
    BY <2>4, <2>5
<1> QED
  BY <1>1, <1>4, <1>6 DEF SaveInv

\* The page is gone: its last write has landed or not (Reload).
LEMMA ReloadSave ==
  ASSUME SaveInv, FewAnchors, Reload
  PROVE  SaveInv'
<1>1. /\ TypeInv' /\ UNCHANGED <<layer, number, back, kept>>
      /\ queue' = Empty
  BY NextTypes DEF Reload, SaveInv, Next
<1>2. Flying' = {}
  BY <1>1, EmptyQueue DEF Flying
<1> DEFINE x == queue.active.snapshot
           S == store \cup {x}
<1>3. CASE store' = store
  BY <1>1, <1>2, <1>3 DEF SaveInv, Ordered, Peaked, IsPeak, EverKept
<1>4. CASE layer = "checkpoints" /\ queue.active # None /\ store' = Retained(S)
  <2>1. queue.active \in Writes
    BY <1>4 DEF SaveInv, TypeInv, QueueTypes, Queues
  <2>2. x \in Snapshots /\ x \in Flying
    BY <1>4, <2>1 DEF Writes, Flying
  <2>3. S \subseteq Snapshots /\ IsFiniteSet(S) /\ Retained(S) \subseteq S
    BY <2>2, RetainedSubset, FS_AddElement DEF SaveInv, TypeInv, StoreTypes
  <2>4. IsFiniteSet(store)'
    BY <1>4, <2>3, FS_Subset
  <2> HIDE DEF x
  <2>5. ASSUME ~back
        PROVE  (Ordered(store \cup Flying) /\ Peaked(store) /\ EverKept)'
    <3>1. Ordered(store \cup Flying) /\ Peaked(store) /\ EverKept
      BY <1>4, <2>5 DEF SaveInv
    <3>2. Ordered(S) /\ (Ordered(store \cup Flying))'
      <4>1. S \subseteq store \cup Flying
        BY <2>2
      <4>2. (store \cup Flying)' \subseteq S
        BY <1>2, <1>4, <2>3
      <4> HIDE DEF S
      <4>3. Ordered(S)
        BY <3>1, <4>1 DEF Ordered
      <4>4. number' = number
        BY <1>1
      <4> QED
        BY <4>2, <4>3, <4>4 DEF Ordered
    <3>3. Peaked(S)
      BY <2>2, <3>1, PeakAdded DEF SaveInv, TypeInv, StoreTypes
    <3>4. /\ Peaked(Retained(S))
          /\ \A s \in S : \E t \in Retained(S) : t.anchor = s.anchor /\ t.number >= s.number
      BY <2>3, <3>2, <3>3, PeakRetained
    <3>5. \A s \in kept : s.number \in Int
      BY DEF SaveInv, TypeInv, StoreTypes, Snapshots
    <3>6. \A s \in S : s.number \in Int
      BY <2>3 DEF Snapshots
    <3>7. \A s \in kept : \E t \in S : t.anchor = s.anchor /\ t.number >= s.number
      BY <3>1 DEF EverKept
    <3> HIDE DEF S
    <3>8. \A s \in kept :
            \E t \in Retained(S) : t.anchor = s.anchor /\ t.number >= s.number
      BY <2>3, <3>4, <3>5, <3>6, <3>7
    <3> QED
      BY <1>1, <1>4, <3>2, <3>4, <3>8 DEF Peaked, IsPeak, EverKept
  <2> QED
    BY <1>1, <2>4, <2>5 DEF SaveInv
<1> QED
  BY <1>3, <1>4 DEF Reload

\* Nothing else touches the checkpoints.
LEMMA OtherSave ==
  ASSUME SaveInv,
         \/ TimerFires \/ (\E saved \in BOOLEAN : FileWritten(saved))
         \/ (\E snapshot \in asked : StatusRead(snapshot)) \/ BeginMapping \/ FileFound
         \/ (\E r \in refreshing : RefreshReads(r) \/ RefreshEnds(r))
         \/ (\E folder \in Folders : Setup(folder)) \/ Reconnect \/ Remove
         \/ LosePermission \/ SetClockBack \/ UNCHANGED vars
  PROVE  SaveInv'
<1>1. TypeInv'
  BY NextTypes DEF SaveInv, Next
<1>2. UNCHANGED <<layer, number, store, kept>>
  BY DEF TimerFires, FileWritten, StatusRead, BeginMapping, FileFound, RefreshReads, RefreshEnds,
     Setup, Reconnect, Remove, LosePermission, SetClockBack, vars, clock, checkpoints
<1>3. back' = back \/ back'
  BY DEF TimerFires, FileWritten, StatusRead, BeginMapping, FileFound, RefreshReads, RefreshEnds,
     Setup, Reconnect, Remove, LosePermission, SetClockBack, vars, clock
<1>4. layer = "checkpoints" => TimerFires \/ queue' = queue
  BY DEF FileWritten, StatusRead, BeginMapping, FileFound, RefreshReads, RefreshEnds, Setup,
     Reconnect, Remove, MayAct, LosePermission, SetClockBack, vars, SaveInv, TypeInv, OneLayer
<1>5. layer = "checkpoints" => Flying' \subseteq Flying
  BY <1>4 DEF TimerFires, SaveInv, TypeInv, QueueTypes, Queues, Flying
<1>6. layer = "checkpoints" /\ Ordered(store \cup Flying) => (Ordered(store \cup Flying))'
  BY <1>2, <1>5 DEF Ordered
<1> QED
  BY <1>1, <1>2, <1>3, <1>6 DEF SaveInv, Peaked, IsPeak, EverKept

\* While the clock is never set back, the database holds of the checkpoints reported
\* saved, rolling ones and those of each anchor, the newest or a newer one; and at
\* rest no snapshot of this page waits (retainRecoveryCheckpoints,
\* CoalescingCheckpointWriter).
THEOREM SavedStays ==
  ASSUME FewAnchors
  PROVE  Spec => []SavedIsKept
<1>1. Init => SaveInv
  <2>1. Init => store = {} /\ kept = {} /\ Flying = {}
    BY EmptyQueue DEF Init, Flying
  <2> QED
    BY <2>1, InitTypes, FS_EmptySet DEF SaveInv, Ordered, Peaked, EverKept
<1>2. SaveInv /\ [Next]_vars => SaveInv'
  BY SnapshotSave, CheckpointSave, ReloadSave, OtherSave DEF Next
<1>3. SaveInv => SavedIsKept
  BY DEF SaveInv, SavedIsKept, Resting, Idle, TypeInv, QueueTypes, InTurn
<1> QED
  BY <1>1, <1>2, <1>3, PTL DEF Spec

=============================================================================
