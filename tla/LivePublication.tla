--------------------------- MODULE LivePublication ---------------------------
(***************************************************************************)
(* QBSheet Live: how the Director's document reaches the public page.      *)
(*                                                                         *)
(* Every commit derives the public projection and, if a section changed,   *)
(* appends an item to the outbox that is part of the document.  A worker   *)
(* sends one item at a time to the backend, over a network that loses      *)
(* requests and answers, and merges what came of it into a document that   *)
(* may have changed meanwhile.  The backend accepts an item by comparing   *)
(* revisions.                                                              *)
(*                                                                         *)
(* One publication, on a remote backend.  A section is abstracted to the   *)
(* edition of the document that last changed it.                           *)
(***************************************************************************)
EXTENDS Integers, SequencesExt

CONSTANTS
  Sections,     \* the named sections of the public document
  Transient,    \* transientSections: those of which only the newest value matters
  Commands,     \* what the Director may do to the publication besides editing
  Faults,       \* what may go wrong
  MaxOutbox,    \* maxOutboxItems
  MaxBacklog,   \* bound: edits and restarts happen while at most so many items wait
  MaxEditions,  \* bound: editions of the document
  MaxRevision,  \* bound: revisions after which no more restarts are modelled
  None

AllCommands == {"finalize", "unpublish", "delete", "disable"}
AllFaults == {"lost request", "lost answer", "late request", "overlapping requests",
              "crash", "unsaved crash"}

ASSUME LiveAssumption ==
  /\ Transient \subseteq Sections
  /\ Commands \subseteq AllCommands
  /\ Faults \subseteq AllFaults
  /\ {MaxOutbox, MaxEditions, MaxRevision} \subseteq Nat \ {0}
  /\ MaxBacklog \in Nat

VARIABLES
  content,  \* the edition in which each public section of the document last changed
  live,     \* the document's publication record: lifecycle, outbox, revisions
  cache,    \* publishedSnapshotRef: the last snapshot derived by this process
  saved,    \* the document as last saved
  attempt,  \* what the running drain holds: the item, the record before it, the snapshot
  request,  \* the item on its way to the backend, or None
  answer,   \* the backend's answer to it, or None
  late,     \* requests the Director stopped waiting for and the network still holds
  page,     \* the backend's publication
  hurried   \* history: an edit was made while something waited, or an answer missed

document == <<content, live, cache>>
network == <<attempt, request, answer, late>>
public == <<page, hurried>>
vars == <<document, saved, network, public>>

Barriers == {"unpublish", "delete"}
Projecting == {"live", "final"}
Ending == {"unpublishing", "deleting"}

-----------------------------------------------------------------------------
(* Deriving what to publish.                                               *)

Ids(outbox) == {outbox[i].id : i \in DOMAIN outbox}

\* Slip: ids counted from the length of the queue.
FreshIdByLength(outbox, other) == Len(outbox) + 1

\* newDirectorId: an id no item of these outboxes has.
FreshId(outbox, other) ==
  CHOOSE n \in 1..(Len(outbox) + Len(other) + 1) : n \notin Ids(outbox) \cup Ids(other)

\* The outbox before the request under way, whose ids settle against the current one.
Known == IF attempt = None THEN <<>> ELSE attempt.live.outbox

NoSections == [s \in {} |-> 0]

Item(id, kind, snapshot, base, sections) ==
  [id |-> id, kind |-> kind, revision |-> snapshot.revision, base |-> base,
   sections |-> sections, final |-> snapshot.final, state |-> "queued"]

SnapshotItem(id, snapshot) == Item(id, "snapshot", snapshot, 0, snapshot.sections)

TransientOnly(item) ==
  item.kind = "sections" /\ DOMAIN item.sections \subseteq Transient

\* Slip: every update is replaced by the one behind it.
CoalesceAll(items, item) ==
  IF items # <<>> /\ Last(items).kind = "sections" /\ item.kind = "sections"
    THEN [items EXCEPT ![Len(items)] =
            [item EXCEPT !.id = Last(items).id, !.base = Last(items).base]]
    ELSE Append(items, item)

\* Consecutive updates of transient sections become the newest one, under the
\* id and the base of the earliest.
Coalesce(items, item) ==
  IF items # <<>> /\ TransientOnly(Last(items)) /\ TransientOnly(item)
    THEN [items EXCEPT ![Len(items)] =
            [item EXCEPT !.id = Last(items).id, !.base = Last(items).base]]
    ELSE Append(items, item)

Coalesced(items) ==
  LET coalesced[n \in 0..Len(items)] ==
        IF n = 0 THEN <<>> ELSE Coalesce(coalesced[n - 1], items[n])
  IN coalesced[Len(items)]

\* The items at these places, in their order (filter).
Picked(items, places) ==
  LET picked[n \in 0..Len(items)] ==
        IF n = 0 THEN <<>>
        ELSE IF n \in places THEN Append(picked[n - 1], items[n]) ELSE picked[n - 1]
  IN picked[Len(items)]

InFlight(item) == item.state = "in-flight"
Flying(outbox) == {i \in DOMAIN outbox : InFlight(outbox[i])}

Collapse(outbox, snapshot) ==
  LET sent == Picked(outbox, Flying(outbox)) IN
  IF Len(outbox) > MaxOutbox
    THEN Append(sent, SnapshotItem(FreshId(outbox, Known), snapshot))
    ELSE sent \o Coalesced(Picked(outbox, DOMAIN outbox \ Flying(outbox)))

\* Slip: derivation goes on behind a barrier.
PublishesAlways(record) == record.lifecycle \notin {"disabled", "deleted"}

Publishes(record) == record.lifecycle \in Projecting

\* derivePublication of a document with these sections and this record, when
\* `previous` was derived last: the record and the snapshot to keep.
Derived(sections, record, previous) ==
  LET snapshot == [revision |-> record.local + 1, sections |-> sections,
                   final |-> record.lifecycle = "final"]
      changed == {s \in Sections : previous = None \/ previous.sections[s] # sections[s]}
      id == FreshId(record.outbox, Known)
      item == IF previous = None \/ snapshot.final
                THEN SnapshotItem(id, snapshot)
                ELSE Item(id, "sections", snapshot, record.ack, [s \in changed |-> sections[s]])
  IN IF Publishes(record) /\ changed # {}
       THEN [live |-> [record EXCEPT !.outbox = Collapse(Append(@, item), snapshot),
                                     !.local = snapshot.revision],
             cache |-> snapshot]
       ELSE [live |-> record, cache |-> previous]

\* commit: a mutation of the document and what it publishes, together.
Commit(sections, record) ==
  LET derived == Derived(sections, record, cache) IN
  content' = sections /\ live' = derived.live /\ cache' = derived.cache

-----------------------------------------------------------------------------
(* The Director.                                                           *)

Edition == Max({content[s] : s \in Sections} \cup {1})

\* A commit that changes these sections, or none of them.
Edit(changed) ==
  /\ changed = {} => cache = None
  /\ changed # {} => Edition < MaxEditions /\ Len(live.outbox) <= MaxBacklog
  /\ Commit([s \in Sections |-> IF s \in changed THEN Edition + 1 ELSE content[s]], live)
  /\ hurried' = (hurried \/ (changed # {} /\ live.outbox # <<>>))
  /\ UNCHANGED <<saved, network, page>>

Finalize ==
  /\ "finalize" \in Commands /\ live.lifecycle = "live"
  /\ Commit(content, [live EXCEPT !.lifecycle = "final"])
  /\ UNCHANGED <<saved, network, public>>

\* The record with a lifecycle barrier that supersedes what has not started.
Barrier(kind, lifecycle) ==
  LET sent == Picked(live.outbox, Flying(live.outbox))
      barrier == [id |-> FreshId(live.outbox, Known), kind |-> kind, revision |-> live.local,
                  base |-> 0, sections |-> NoSections, final |-> FALSE, state |-> "queued"]
  IN [live EXCEPT !.lifecycle = lifecycle, !.outbox = Append(sent, barrier)]

Unpublish ==
  /\ "unpublish" \in Commands
  /\ live.lifecycle \in Projecting \cup {"disabled"}
  /\ Commit(content, Barrier("unpublish", "unpublishing"))
  /\ UNCHANGED <<saved, network, public>>

Delete ==
  /\ "delete" \in Commands
  /\ live.lifecycle \in Projecting \cup {"unpublishing", "unpublished", "disabled"}
  /\ Commit(content, Barrier("delete", "deleting"))
  /\ UNCHANGED <<saved, network, public>>

Disable ==
  /\ "disable" \in Commands
  /\ live.lifecycle \in Projecting \cup {"unpublished"}
  /\ live' = [live EXCEPT !.lifecycle = "disabled"]
  /\ cache' = None
  /\ UNCHANGED <<content, saved, network, public>>

\* The persistence queue catches up with the document (in the runs where a
\* restart may read what it wrote).
Save ==
  /\ Faults \cap {"crash", "unsaved crash"} # {}
  /\ saved # [content |-> content, live |-> live]
  /\ saved' = [content |-> content, live |-> live]
  /\ UNCHANGED <<document, network, public>>

-----------------------------------------------------------------------------
(* The worker.                                                             *)

\* Slip: an item in flight is sent again whatever came after it.
RecoveredAll(record) ==
  [record EXCEPT !.outbox = [i \in DOMAIN @ |-> [@[i] EXCEPT !.state =
     IF @ = "in-flight" THEN "queued" ELSE @]]]

\* recoverStaleInFlight: an item in flight that no drain waits for, after a
\* restart, is sent again unless a barrier has superseded it.
Recovered(record) ==
  LET superseded == {i \in Flying(record.outbox) : /\ record.lifecycle \in Ending
                                                   /\ record.outbox[i].kind \notin Barriers}
      kept == Picked(record.outbox, DOMAIN record.outbox \ superseded)
  IN [record EXCEPT !.outbox =
        [i \in DOMAIN kept |-> IF InFlight(kept[i]) THEN [kept[i] EXCEPT !.state = "queued"]
                                                    ELSE kept[i]]]

\* nextOutboxItem: only the head may be sent, once its retry is due.
Sendable(record) ==
  /\ record.outbox # <<>>
  /\ \A i \in DOMAIN record.outbox : ~InFlight(record.outbox[i])
  /\ Head(record.outbox).state = "queued"

\* A drain begins: recover, take the head, mark it in flight, send it.
StartAttempt ==
  /\ attempt = None
  /\ live.lifecycle \notin {"disabled", "deleted"}
  /\ LET record == Recovered(live)
         item == Head(record.outbox)
         marked == [record EXCEPT !.outbox[1].state = "in-flight"]
         recovered == IF record = live THEN [live |-> live, cache |-> cache]
                                       ELSE Derived(content, record, cache)
         started == Derived(content, [recovered.live EXCEPT !.outbox = marked.outbox],
                            recovered.cache)
     IN /\ Sendable(record)
        /\ live' = started.live /\ cache' = started.cache
        /\ attempt' = [item |-> item, live |-> marked, snapshot |-> started.cache]
        /\ request' = item
  /\ UNCHANGED <<content, saved, answer, late, public>>

Without(outbox, id) == Picked(outbox, {i \in DOMAIN outbox : outbox[i].id # id})

\* Slip: any failure is taken for a fatal one.
RetriedNever(reply) == "stopped"

\* classifyFailure: a fatal failure waits for the Director, others are retried.
Retried(reply) == IF reply.kind = "fatal" THEN "stopped" ELSE "queued"

\* Slip: an item that was sent is forgotten, published or not.
OutcomeForgotten(reply) ==
  [attempt.live EXCEPT !.outbox = Without(@, attempt.item.id),
                       !.ack = IF reply.kind = "transient" THEN @ ELSE reply.revision]

\* acknowledgeOutboxItem, recordOutboxFailure: the record before the request,
\* with what came of it.
Outcome(reply) ==
  LET record == attempt.live
      id == attempt.item.id
      rest == Without(record.outbox, id)
      repair == SnapshotItem(FreshId(record.outbox, live.outbox), attempt.snapshot)
  IN CASE reply.kind = "published" ->
            [record EXCEPT !.outbox = rest, !.ack = reply.revision]
       [] reply.kind = "conflict" /\ attempt.snapshot # None ->
            [record EXCEPT !.outbox = Append(rest, repair), !.ack = reply.revision]
       [] OTHER ->
            [record EXCEPT !.outbox = [i \in DOMAIN @ |->
               IF @[i].id = id
                 THEN [@[i] EXCEPT !.state = Retried(reply)]
                 ELSE @[i]]]

Superseded(kind) == live.lifecycle \in Ending /\ kind \notin Barriers

\* Slip: an unpublication that succeeds ends a deletion asked for meanwhile.
ReachedAnyway(reply) ==
  IF attempt.item.kind = "unpublish" /\ reply.kind = "published"
    THEN "unpublished" ELSE live.lifecycle

\* The lifecycle after this reply.
Reached(reply) ==
  IF /\ attempt.item.kind = "unpublish" /\ reply.kind = "published"
     /\ live.lifecycle # "deleting"
    THEN "unpublished" ELSE live.lifecycle

\* The places of the items that have come since.
Newer(known, outbox) == {i \in DOMAIN outbox : outbox[i].id \notin Ids(known)}

\* The record as it is now with that outcome merged in.
Merged(reply) ==
  LET settled == Outcome(reply)
      lifecycle == Reached(reply)
      newer == Picked(live.outbox, Newer(attempt.live.outbox, live.outbox))
  IN [lifecycle |-> lifecycle,
      outbox |-> (IF Superseded(attempt.item.kind) THEN <<>> ELSE settled.outbox)
                 \o (IF lifecycle = "unpublished" THEN <<>> ELSE newer),
      local |-> settled.local,
      ack |-> settled.ack]

\* The drain ends with this reply.
Settle(reply) ==
  /\ IF attempt.item.kind = "delete" /\ reply.kind = "published"
       THEN /\ live' = [live EXCEPT !.lifecycle = "deleted", !.outbox = <<>>]
            /\ cache' = None
            /\ UNCHANGED content
       ELSE Commit(content, Merged(reply))
  /\ attempt' = None /\ request' = None /\ answer' = None

ReceiveAnswer ==
  /\ answer # None
  /\ Settle(answer)
  /\ UNCHANGED <<saved, late, public>>

-----------------------------------------------------------------------------
(* The backend.                                                            *)

Reply(kind, revision) == [kind |-> kind, revision |-> revision]
Failure == Reply("transient", 0)

\* Slip: the revision already published is accepted again.
RefusedOlder(item, row) ==
  \/ item.kind = "snapshot" /\ item.revision < row.revision
  \/ /\ item.kind = "sections"
     /\ row.lifecycle # "live" \/ item.revision < row.revision \/ item.base # row.revision

\* Slip: a snapshot replaces whatever the page has.
RefusedUpdate(item, row) ==
  item.kind = "sections"
  /\ (row.lifecycle # "live" \/ item.revision <= row.revision \/ item.base # row.revision)

\* putSnapshot and postSections refuse what does not follow the row they read.
Refused(item, row) ==
  \/ item.kind = "snapshot" /\ item.revision <= row.revision
  \/ /\ item.kind = "sections"
     /\ \/ row.lifecycle # "live"
        \/ item.revision <= row.revision
        \/ item.base # row.revision

\* The publication after an accepted item.
Applied(item) ==
  CASE item.kind = "delete" -> [page EXCEPT !.lifecycle = "gone"]
    [] item.kind = "unpublish" ->
         IF page.lifecycle = "gone" THEN page ELSE [page EXCEPT !.lifecycle = "unpublished"]
    [] OTHER -> [lifecycle |-> IF item.final THEN "final" ELSE "live",
                 revision |-> item.revision,
                 sections |-> [s \in Sections |-> IF s \in DOMAIN item.sections
                                THEN item.sections[s] ELSE page.sections[s]]]

\* What a management request does, and answers, given the row its
\* authorization read.
Served(item, row) ==
  IF row.lifecycle = "gone" \/ Refused(item, row) THEN page ELSE Applied(item)

Answered(item, row) ==
  IF row.lifecycle = "gone" THEN Reply("fatal", 0)
  ELSE IF Refused(item, row) \/ item.kind \in Barriers
    THEN Reply(IF Refused(item, row) THEN "conflict" ELSE "published", row.revision)
  ELSE Reply("published", item.revision)

Serve ==
  /\ request # None /\ answer = None
  /\ page' = Served(request, page)
  /\ answer' = Answered(request, page)
  /\ UNCHANGED <<document, saved, attempt, request, late, hurried>>

-----------------------------------------------------------------------------
(* What may go wrong.                                                      *)

LoseRequest ==
  /\ "lost request" \in Faults
  /\ request # None /\ answer = None
  /\ Settle(Failure)
  /\ UNCHANGED <<saved, late, public>>

LoseAnswer ==
  /\ "lost answer" \in Faults
  /\ answer # None
  /\ Settle(Failure)
  /\ hurried' = TRUE
  /\ UNCHANGED <<saved, late, page>>

\* The Director stops waiting for a request that the network still holds, or
\* (overlapping requests) whose handler has read the row and still reads the body.
TimeOut ==
  /\ Faults \cap {"late request", "overlapping requests"} # {}
  /\ request # None /\ answer = None /\ late = {}
  /\ \E row \in {None} \cup (IF "overlapping requests" \in Faults THEN {page} ELSE {}) :
       late' = {[item |-> request, row |-> row]}
  /\ Settle(Failure)
  /\ hurried' = TRUE
  /\ UNCHANGED <<saved, page>>

ServeLate(r) ==
  /\ page' = Served(r.item, IF r.row = None THEN page ELSE r.row)
  /\ late' = late \ {r}
  /\ UNCHANGED <<document, saved, attempt, request, answer, hurried>>

\* The Director's process ends and starts again from the saved document.
Crash ==
  /\ \/ "unsaved crash" \in Faults
     \/ "crash" \in Faults /\ saved = [content |-> content, live |-> live]
  /\ live.local < MaxRevision /\ Len(live.outbox) <= MaxBacklog
  /\ content' = saved.content /\ live' = saved.live /\ cache' = None
  /\ attempt' = None /\ request' = None /\ answer' = None
  /\ hurried' = TRUE
  /\ UNCHANGED <<saved, late, page>>

-----------------------------------------------------------------------------

\* The commit that enables publication has been made: its snapshot is queued.
Init ==
  LET new == [lifecycle |-> "live", outbox |-> <<>>, local |-> 0, ack |-> 0]
      first == [revision |-> 1, sections |-> [s \in Sections |-> 1], final |-> FALSE]
  IN /\ content = first.sections
     /\ live = [new EXCEPT !.outbox = <<SnapshotItem(1, first)>>, !.local = 1]
     /\ cache = first
     /\ saved = [content |-> content, live |-> live]
     /\ attempt = None /\ request = None /\ answer = None /\ late = {}
     /\ page = [lifecycle |-> "live", revision |-> 0, sections |-> [s \in Sections |-> 0]]
     /\ hurried = FALSE

Direct ==
  \/ \E changed \in SUBSET Sections : Edit(changed)
  \/ Finalize \/ Unpublish \/ Delete \/ Disable

Fault == LoseRequest \/ LoseAnswer \/ TimeOut \/ Crash

Next ==
  \/ Direct \/ Save
  \/ StartAttempt \/ Serve \/ ReceiveAnswer
  \/ \E r \in late : ServeLate(r)
  \/ Fault

Spec == Init /\ [][Next]_vars

\* The drain runs every second; a network that loses messages does not lose
\* every one.
Fairness == WF_vars(StartAttempt) /\ SF_vars(Serve) /\ SF_vars(ReceiveAnswer)
FairSpec == Spec /\ Fairness

-----------------------------------------------------------------------------
(* Properties.                                                             *)

Editions == 0..MaxEditions
Contents == [Sections -> Editions]
SectionValues == UNION {[S -> Editions] : S \in SUBSET Sections}
Items == [id : Nat, kind : {"snapshot", "sections"} \cup Barriers, revision : Nat, base : Nat,
          sections : SectionValues, final : BOOLEAN, state : {"queued", "in-flight", "stopped"}]
Snapshots == [revision : Nat, sections : Contents, final : BOOLEAN]
Lifecycles == Projecting \cup Ending \cup {"unpublished", "deleted", "disabled"}
Records == [lifecycle : Lifecycles, outbox : Seq(Items), local : Nat, ack : Nat]
Attempts == [item : Items, live : Records, snapshot : Snapshots \cup {None}]
Replies == [kind : {"published", "conflict", "transient", "fatal"}, revision : Nat]
Pages == [lifecycle : {"live", "final", "unpublished", "gone"}, revision : Nat,
          sections : Contents]

ASSUME NoneAssumption ==
  None \notin Items \cup Snapshots \cup Attempts \cup Replies \cup Pages

\* No two items of an outbox have the same id.
Distinct(outbox) == \A i, j \in DOMAIN outbox : outbox[i].id = outbox[j].id => i = j

\* Every variable has its type; ids are unique, at most one item is in flight
\* and it is the one the drain waits for (markOutboxItemInFlight).
TypeOK ==
  /\ content \in Contents
  /\ live \in Records /\ Distinct(live.outbox)
  /\ cache \in Snapshots \cup {None}
  /\ saved \in [content : Contents, live : Records]
  /\ attempt \in Attempts \cup {None}
  /\ request = IF attempt = None THEN None ELSE attempt.item
  /\ answer \in Replies \cup {None} /\ (attempt = None => answer = None)
  /\ attempt # None =>
       \A i \in Flying(live.outbox) : live.outbox[i].id = attempt.item.id
  /\ late \subseteq [item : Items, row : Pages \cup {None}]
  /\ page \in Pages /\ hurried \in BOOLEAN

\* Once the Director shows the publication as taken down or deleted, the page
\* is (enqueueUnpublish, enqueueDelete: nothing can appear behind the barrier).
BarrierHolds ==
  /\ live.lifecycle = "unpublished" => page.lifecycle = "unpublished"
  /\ live.lifecycle = "deleted" => page.lifecycle = "gone"

\* While the publication is ending, and after, nothing but the barrier is sent
\* (enqueueUnpublish, enqueueDelete, recoverStaleInFlight).
OnlyBarriersSent ==
  [][live.lifecycle \in Ending \cup {"unpublished"} /\ attempt = None =>
       attempt' = None \/ attempt'.item.kind \in Barriers]_vars

\* An empty outbox means that the page shows the document's durable sections:
\* no result is forgotten on its way through derivation, coalescing, repair,
\* merging, saving and restarting (docs/QBLIVE.md, 6.1 and 8).
DurableMeansPublished ==
  live.lifecycle \in Projecting /\ live.outbox = <<>> =>
    \A s \in Sections \ Transient : page.sections[s] = content[s]

\* The same of every section: LiveView says "Public data is up to date." when
\* nothing is pending.
EmptyMeansPublished ==
  live.lifecycle \in Projecting /\ live.outbox = <<>> => page.sections = content

\* The backend's revision never decreases, however late a request is served and
\* from whatever saved document Director goes on (docs/QBLIVE.md, 5).
RevisionNeverDecreases == [][page'.revision >= page.revision]_page

\* No revision is acknowledged that was not derived (LiveSyncHealth).
AcknowledgedWasDerived == live.ack <= live.local

\* Final results with nothing left to publish are published (syncSummary).
FinalIsPublished ==
  live.lifecycle = "final" /\ live.outbox = <<>> => page.lifecycle = "final"

\* What the page shows has been saved (docs/QBLIVE.md, 8: save first, publish later).
ShownIsSaved == \A s \in Sections : page.sections[s] <= saved.content[s]

\* What spectators rely on of the page holds (the backend's revision rules).
Promise == INSTANCE PublicPage
ImplementsPublicPage == Promise!Spec

Current == page.sections = content /\ live.outbox = <<>>

\* If edits wait for the outbox and no answer is missed, the outbox empties and the
\* page ends showing the document, whatever requests are lost and whatever else the
\* Director does (drainLiveOutbox, recordOutboxFailure).
PageConverges == <>[](live.lifecycle \in Projecting /\ ~hurried => Current)

\* The same of every Director that rests in the end.
PageConvergesAnyway == <>[](live.lifecycle \in Projecting => page.sections = content)

\* What waits is sent sooner or later (drainLiveOutbox).
OutboxDrains == live.lifecycle \in Projecting /\ live.outbox # <<>>
                  ~> live.lifecycle \notin Projecting \/ live.outbox = <<>>

\* A page that is to be taken down is, and one that is to be deleted is gone
\* (the barriers of the outbox; destroy: never lose the credential while public).
UnpublishCompletes == live.lifecycle = "unpublishing" ~> live.lifecycle # "unpublishing"
DeleteReachesPage == live.lifecycle = "deleting" ~> page.lifecycle = "gone"

\* The worker drives a deletion to completion (useDirectorController destroy).
DeleteCompletes == live.lifecycle = "deleting" ~> live.lifecycle = "deleted"

=============================================================================
