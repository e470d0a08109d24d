--------------------------- MODULE ResultSettlement ---------------------------
(***************************************************************************)
(* The Director's side of a tournament day: rounds are released and        *)
(* closed, results arrive from scorers and from drives, and the Director   *)
(* accepts, rejects, moves, corrects or replaces them.                     *)
(*                                                                         *)
(* The document is one record, and what the controller's functions do to a *)
(* draft is an operator on documents.  A commit is atomic; what is not is  *)
(* what the controller awaits: a settlement awaits the QBTCP host before   *)
(* it commits, a poll applies a snapshot of the host that the document may *)
(* have overtaken, and the host learns of the document when it is saved.   *)
(*                                                                         *)
(* The rounds have their games, all with two teams and a room; a planned   *)
(* round stands for a planned or a prepared one.  What does not decide     *)
(* which result counts (statistics, packets, brackets beyond "may not be   *)
(* cancelled") is left out, and so is a room's status: a round may be      *)
(* released as soon as no unresolved work keeps its rooms.                 *)
(***************************************************************************)
EXTENDS Integers, SequencesExt

CONSTANTS
  Rounds,
  RoundOf,      \* the round of every scheduled game
  FirstRoom,    \* the room every scheduled game is given
  Rooms,
  Bracket,      \* the games an elimination bracket needs a winner of
  Sessions,
  Scores,       \* what the document of a scorer can say
  Doubtful,     \* those that may be found to be no result of the game
  Commands,     \* what the Director may do besides running the rounds
  Faults,       \* what may go wrong
  MaxEntered,   \* bound: submissions that do not come from the host
  MaxResults,   \* bound: results the host retains
  MaxFlights,   \* bound: settlements awaiting the host at a time
  None

Games == DOMAIN RoundOf
Settlements == {"cancel", "forfeit", "manual"}
AllCommands == Settlements \cup {"edit", "replace", "reopen", "associate", "drive", "move"}
AllFaults == {"session expires", "scorer falls silent", "host stops", "poll fails"}

ASSUME SettlementAssumption ==
  /\ RoundOf \in [Games -> Rounds]
  /\ FirstRoom \in [Games -> Rooms]
  /\ Bracket \subseteq Games
  /\ Doubtful \subseteq Scores
  /\ Commands \subseteq AllCommands
  /\ Faults \subseteq AllFaults
  /\ {MaxEntered, MaxResults, MaxFlights} \subseteq Nat
  /\ None \notin Games \cup Rooms \cup Scores \cup Nat

VARIABLES
  doc,       \* the Director's document
  flights,   \* settlements that await the retirement of the sessions they found
  poll,      \* the host snapshot a poll has read and not yet applied, or None
  moving,    \* a room move: the document it will write, or None
  offered,   \* host: the assignment each room is offered
  runtime,   \* host: the QBTCP sessions
  shown,     \* host: session_snapshots, what polls are shown of the sessions
  retained   \* host: the results retained, in order

host == <<offered, runtime, shown, retained>>
vars == <<doc, flights, poll, moving, host>>

Typed == "typed"   \* the fingerprint of a result entered by hand: no file has it
Unseen == [state |-> "absent", resumable |-> FALSE, match |-> None, room |-> None]

-----------------------------------------------------------------------------
(* Reading a document.                                                     *)

Records(d, g) == {r \in DOMAIN d.records : d.records[r].game = g}

Entries(d, g) == {e \in DOMAIN d.entries : d.entries[e].record \in Records(d, g)}

Pending(d, g) == {e \in Entries(d, g) : d.entries[e].status = "pending"}

AcceptedEntries(d, r) ==
  {e \in DOMAIN d.entries : d.entries[e].record = r /\ d.entries[e].status = "accepted"}

\* The result that counts.  The code takes the one accepted last if there are
\* several; OneResult says there never are.
Canonical(d, g) ==
  LET decided == {r \in Records(d, g) : d.records[r].status \in {"accepted", "forfeit"}}
      current == {r \in decided : AcceptedEntries(d, r) # {}}
      eligible == IF current # {} THEN current ELSE decided
  IN IF eligible = {} THEN None ELSE Max(eligible)

Resolved(d, g) == d.game[g] \in {"accepted", "cancelled"}
Active(d, g) == \E r \in Records(d, g) : d.records[r].status = "submitted"

Resumable(d, s) == d.session[s].state = "abandoned" /\ d.session[s].resumable
Writing(d, s) == d.session[s].state = "open" \/ Resumable(d, s)

UnresolvedSession(d, s) ==
  \/ Writing(d, s)
  \/ /\ d.session[s].state = "received"
     /\ d.session[s].match = None \/ ~Resolved(d, d.session[s].match)

InRoom(d, rm) == {g \in Games : d.room[g] = rm}
Operational(d, rm) == {g \in InRoom(d, rm) : d.game[g] \in {"released", "live", "submitted"}}

\* A session that names no match belongs to the one game its room can mean.
SessionsOf(d, g) ==
  {s \in Sessions :
    /\ d.session[s].state # "absent"
    /\ \/ d.session[s].match = g
       \/ /\ d.session[s].match = None /\ d.session[s].room = d.room[g]
          /\ \/ Operational(d, d.room[g]) = {g}
             \/ /\ Operational(d, d.room[g]) = {}
                /\ {h \in InRoom(d, d.room[g]) : ~Resolved(d, h)} = {g}}

UnresolvedGame(d, g) ==
  \/ Pending(d, g) # {} \/ Active(d, g)
  \/ d.game[g] \in {"released", "live", "submitted"}
  \/ /\ d.game[g] = "scheduled"
     /\ \E s \in Sessions : d.session[s].match = g /\ UnresolvedSession(d, s)

\* Slip: a room is kept by its scorers only, not by its games.
RoomFreeOfScorers(d, g) ==
  \A s \in Sessions :
    d.session[s].room = d.room[g] /\ d.session[s].match # g => ~UnresolvedSession(d, s)

RoomFree(d, g) ==
  /\ \A h \in Games \ {g} : d.room[h] = d.room[g] => ~UnresolvedGame(d, h)
  /\ \A s \in Sessions :
       d.session[s].room = d.room[g] /\ d.session[s].match # g => ~UnresolvedSession(d, s)

GamesOf(r) == {g \in Games : RoundOf[g] = r}

CloseBlocked(d, r) ==
  \E g \in GamesOf(r) :
    \/ ~Resolved(d, g)
    \/ d.game[g] = "accepted" /\ Canonical(d, g) = None
    \/ Active(d, g) \/ Pending(d, g) # {}
    \/ \E s \in Sessions :
         /\ \/ d.session[s].match = g
            \/ d.session[s].match = None /\ d.session[s].room = d.room[g]
         /\ Writing(d, s)

-----------------------------------------------------------------------------
(* Writing a document.                                                     *)

\* Slip: the status is derived again for a cancelled game too.
ReconciledAnyway(d, g) ==
  [d EXCEPT !.game[g] =
     IF Canonical(d, g) # None THEN "accepted"
     ELSE IF Pending(d, g) # {} THEN "submitted" ELSE "released"]

Reconciled(d, g) ==
  LET status ==
        IF Canonical(d, g) # None THEN "accepted"
        ELSE IF \E s \in SessionsOf(d, g) : Writing(d, s) THEN "live"
        ELSE IF Pending(d, g) # {} \/ Active(d, g) THEN "submitted"
        ELSE IF d.round[RoundOf[g]] = "released" THEN "released" ELSE "scheduled"
  IN IF d.game[g] = "cancelled" THEN d ELSE [d EXCEPT !.game[g] = status]

SessionsAbandoned(d, g) ==
  [d EXCEPT !.session = [s \in Sessions |->
     IF s \in SessionsOf(d, g)
     THEN [d.session[s] EXCEPT !.state = "abandoned", !.resumable = FALSE]
     ELSE d.session[s]]]

\* What a cancellation or a forfeit does to the results that had arrived.
Discarded(d, g, status) ==
  [d EXCEPT
     !.records = [r \in DOMAIN d.records |->
        IF r \in Records(d, g) /\ d.records[r].status \notin {"accepted", "forfeit"}
        THEN [d.records[r] EXCEPT !.status = status] ELSE d.records[r]],
     !.entries = [e \in DOMAIN d.entries |->
        IF e \in Pending(d, g) THEN [d.entries[e] EXCEPT !.status = "rejected"]
        ELSE d.entries[e]]]

\* A result decided by the Director: a record and its accepted submission.
Decided(d, g, status) ==
  [d EXCEPT
     !.records = Append(@, [game |-> g, status |-> status]),
     !.entries = Append(@, [record |-> Len(d.records) + 1, status |-> "accepted",
                            print |-> Typed, result |-> 0]),
     !.game[g] = "accepted"]

\* Slip: a repeat is filed under a record of its own, which is not created.
IngestedApart(d, g, print, result) ==
  LET same == {e \in Entries(d, g) :
                 d.entries[e].status # "rejected" /\ d.entries[e].print = print}
      entry == [record |-> Len(d.records) + 1,
                status |-> IF same # {} THEN "duplicate" ELSE "pending",
                print |-> print, result |-> result]
  IN IF same # {} THEN [d EXCEPT !.entries = Append(@, entry)]
     ELSE [d EXCEPT !.entries = Append(@, entry),
                    !.records = Append(@, [game |-> g, status |-> "submitted"]),
                    !.game[g] = IF Resolved(d, g) THEN @ ELSE "submitted"]

\* assessIncomingDocument and stageIncomingDocument of what is found to be a
\* result; "ready" and "needs-review" both wait for the Director.  A document
\* found to be none (no match, no scores, another definition) is only listed.
Ingested(d, g, print, result) ==
  LET same == {e \in Entries(d, g) :
                 d.entries[e].status # "rejected" /\ d.entries[e].print = print}
      entry == [record |-> IF same # {} THEN d.entries[Min(same)].record
                           ELSE Len(d.records) + 1,
                status |-> IF same # {} THEN "duplicate" ELSE "pending",
                print |-> print, result |-> result]
  IN IF same # {} THEN [d EXCEPT !.entries = Append(@, entry)]
     ELSE [d EXCEPT !.entries = Append(@, entry),
                    !.records = Append(@, [game |-> g, status |-> "submitted"]),
                    !.game[g] = IF Resolved(d, g) THEN @ ELSE "submitted"]

NextState(status, state) ==
  CASE status = "final" -> "received"
    [] status = "abandoned" -> IF state = "received" THEN "received" ELSE "abandoned"
    [] OTHER -> IF state = "absent" THEN "open" ELSE state

\* applyNativeSessions: an abandoned session is resumable, whoever abandoned it.
SessionsApplied(d, snapshot) ==
  [d EXCEPT !.session = [s \in Sessions |->
     LET next == NextState(snapshot[s].status, d.session[s].state)
     IN IF snapshot[s].status = "none" THEN d.session[s]
        ELSE [state |-> next, resumable |-> next # "received",
              match |-> IF snapshot[s].match # None THEN snapshot[s].match
                        ELSE d.session[s].match,
              room |-> IF snapshot[s].room # None THEN snapshot[s].room
                       ELSE d.session[s].room]]]

\* Slip: only what still waits for review is recognised as seen before.
HoldsWaiting(d, i) ==
  \E e \in DOMAIN d.entries : d.entries[e].result = i /\ d.entries[e].status = "pending"

Holds(d, i) == \E e \in DOMAIN d.entries : d.entries[e].result = i

\* Slip: a session that is known to have finished is not read again.
ResultsAppliedFirst(d, results, refused) ==
  LET Apply(acc, i) ==
        LET result == results[i]
        IN IF Holds(acc, i) \/ acc.session[result.session].state = "received" THEN acc
           ELSE Ingested(acc, result.game, result.print, i)
  IN FoldLeft(Apply, d, [i \in DOMAIN results |-> i])

\* One result of the host's, unless it has been staged before.  One that is
\* refused ends its session too, and is looked at again by the next poll.
ResultApplied(d, result, i, refused) ==
  LET staged == IF i \in refused THEN d ELSE Ingested(d, result.game, result.print, i)
  IN IF Holds(d, i) THEN d
     ELSE [staged EXCEPT !.session[result.session] =
             [@ EXCEPT !.state = "received", !.resumable = FALSE]]

\* applyNativeResults, in the order the host retained them.
ResultsApplied(d, results, refused) ==
  LET after[n \in 0..Len(results)] ==
        IF n = 0 THEN d ELSE ResultApplied(after[n - 1], results[n], n, refused)
  IN after[Len(results)]

PollApplied(d, snapshot, refused) ==
  ResultsApplied(SessionsApplied(d, snapshot.sessions), snapshot.results, refused)

\* The sets of results that may be found to be none: it depends on the document
\* and on the definitions issued by then, which are not modelled.
Refusals(results) == SUBSET {i \in DOMAIN results : results[i].print \in Doubtful}

-----------------------------------------------------------------------------
(* What the host makes of a document (assignments_from_document).          *)

\* The host's map of records keeps the last of a game: only that one is asked
\* whether a submission waits for review.
PendingAtHost(d, g) ==
  /\ Records(d, g) # {}
  /\ \E e \in Pending(d, g) : d.entries[e].record = Max(Records(d, g))

Offer(d, rm) ==
  LET active == Operational(d, rm) \cup {g \in InRoom(d, rm) : PendingAtHost(d, g)}
      playable == {g \in active : d.game[g] # "submitted" /\ ~PendingAtHost(d, g)}
  IN [play |-> IF Cardinality(active) = 1 THEN playable ELSE {}, games |-> active]

Offers(d) == [rm \in Rooms |-> Offer(d, rm)]

-----------------------------------------------------------------------------
(* The Director.                                                           *)

NoRound == [r \in Rounds |-> "planned"]

Init ==
  /\ doc = [round |-> NoRound, game |-> [g \in Games |-> "scheduled"],
            room |-> FirstRoom, records |-> <<>>, entries |-> <<>>,
            session |-> [s \in Sessions |-> Unseen]]
  /\ flights = {} /\ poll = None /\ moving = None
  /\ offered = Offers(doc)
  /\ runtime = [s \in Sessions |-> [state |-> "none", game |-> None, room |-> None]]
  /\ shown = [s \in Sessions |-> [status |-> "none", match |-> None, room |-> None]]
  /\ retained = <<>>

Commit(d) ==
  /\ doc' = d
  /\ UNCHANGED <<flights, poll, moving, host>>

Released(d, g) == d.round[RoundOf[g]] = "released"

\* Bound: what the Director enters, the settlements under way counted.
MayEnter ==
  Cardinality({e \in DOMAIN doc.entries : doc.entries[e].result = 0}) + Cardinality(flights)
    < MaxEntered

\* Slip: only the rooms decide, not the other rounds.
ReleaseBlockedByRooms(d, r) ==
  \/ d.round[r] # "planned"
  \/ \E g \in GamesOf(r) : d.game[g] # "cancelled" /\ ~RoomFree(d, g)

ReleaseBlocked(d, r) ==
  \/ d.round[r] # "planned"
  \/ \E q \in Rounds \ {r} :
       d.round[q] = "released" /\ \E g \in GamesOf(q) : ~Resolved(d, g)
  \/ \E g \in GamesOf(r) : d.game[g] # "cancelled" /\ ~RoomFree(d, g)
  \/ \E g, h \in GamesOf(r) :
       g # h /\ d.room[g] = d.room[h] /\ "cancelled" \notin {d.game[g], d.game[h]}

Release(r) ==
  /\ ~ReleaseBlocked(doc, r)
  /\ Commit([doc EXCEPT !.round[r] = "released",
                        !.game = [g \in Games |->
                          IF g \in GamesOf(r) /\ doc.game[g] = "scheduled"
                          THEN "released" ELSE doc.game[g]]])

Close(r) ==
  /\ doc.round[r] = "released" /\ ~CloseBlocked(doc, r)
  /\ Commit([doc EXCEPT !.round[r] = "closed"])

-----------------------------------------------------------------------------
(* Cancelling, forfeiting and entering a result: the sessions found are    *)
(* retired at the host, which is awaited, and the document then settles.   *)

MayStart(kind, g) ==
  /\ ~Resolved(doc, g) /\ Canonical(doc, g) = None
  /\ IF kind = "cancel" THEN g \notin Bracket ELSE Released(doc, g)

\* Slip: what the settlement found before it awaited the host still counts.
SettledUnchecked(d, f) ==
  LET abandoned == SessionsAbandoned(d, f.game)
  IN CASE f.kind = "cancel" ->
            [Discarded(abandoned, f.game, "cancelled") EXCEPT !.game[f.game] = "cancelled"]
       [] f.kind = "forfeit" ->
            Decided(Discarded(abandoned, f.game, "rejected"), f.game, "forfeit")
       [] f.kind = "manual" -> Decided(abandoned, f.game, "accepted")

Settled(d, f) ==
  LET abandoned == SessionsAbandoned(d, f.game)
      untouched == ~Resolved(d, f.game)
  IN CASE f.kind = "cancel" /\ untouched ->
            [Discarded(abandoned, f.game, "cancelled") EXCEPT !.game[f.game] = "cancelled"]
       [] f.kind = "forfeit" /\ untouched /\ Canonical(d, f.game) = None ->
            Decided(Discarded(abandoned, f.game, "rejected"), f.game, "forfeit")
       [] /\ f.kind = "manual" /\ untouched /\ Canonical(d, f.game) = None
          /\ Released(d, f.game) /\ d.room[f.game] = f.room ->
            Reconciled(Decided(abandoned, f.game, "accepted"), f.game)
       [] OTHER -> d

Start(kind, g) ==
  LET found == {s \in SessionsOf(doc, g) :
                  doc.session[s].state # "abandoned" /\ UnresolvedSession(doc, s)}
      flight == [kind |-> kind, game |-> g, room |-> doc.room[g], left |-> found]
  IN /\ kind \in Commands /\ MayStart(kind, g) /\ MayEnter
     /\ IF found = {} THEN Commit(Settled(doc, flight))
        ELSE /\ Cardinality(flights) < MaxFlights
             /\ flights' = flights \cup {flight}
             /\ UNCHANGED <<doc, poll, moving, host>>

Retire(f) ==
  \E s \in f.left :
    /\ flights' = (flights \ {f}) \cup {[f EXCEPT !.left = @ \ {s}]}
    /\ IF runtime[s].state = "open"
       THEN /\ runtime' = [runtime EXCEPT ![s].state = "abandoned"]
            /\ shown' = [shown EXCEPT ![s] =
                 IF @.status = "none"
                 THEN [status |-> "abandoned", match |-> None, room |-> runtime[s].room]
                 ELSE [@ EXCEPT !.status = "abandoned"]]
       ELSE UNCHANGED <<runtime, shown>>
    /\ UNCHANGED <<doc, poll, moving, offered, retained>>

\* The host does not run or answers with an error: the settlement is given up.
RetireFails(f) ==
  /\ "host stops" \in Faults /\ f.left # {}
  /\ flights' = flights \ {f}
  /\ UNCHANGED <<doc, poll, moving, host>>

Settle(f) ==
  /\ f.left = {}
  /\ flights' = flights \ {f}
  /\ doc' = Settled(doc, f)
  /\ UNCHANGED <<poll, moving, host>>

-----------------------------------------------------------------------------
(* The inbox.                                                              *)

Waiting == {e \in DOMAIN doc.entries : doc.entries[e].status = "pending"}
GameOf(d, e) == d.records[d.entries[e].record].game

\* Slip: only the submission's own record is looked at.
AcceptBlockedByRecord(d, e) ==
  \/ ~Released(d, GameOf(d, e)) \/ d.game[GameOf(d, e)] = "cancelled"
  \/ AcceptedEntries(d, d.entries[e].record) # {}

AcceptBlocked(d, e) ==
  LET r == d.entries[e].record
      g == GameOf(d, e)
  IN \/ ~Released(d, g) \/ d.game[g] = "cancelled"
     \/ Canonical(d, g) \notin {None, r}
     \/ AcceptedEntries(d, r) # {}
     \/ \E f \in Entries(d, g) :
          d.entries[f].status = "accepted" /\ d.entries[f].print = d.entries[e].print

Accept(e) ==
  /\ ~AcceptBlocked(doc, e)
  /\ Commit(Reconciled([doc EXCEPT !.entries[e].status = "accepted",
                                   !.records[doc.entries[e].record].status = "accepted",
                                   !.game[GameOf(doc, e)] = "accepted"],
                       GameOf(doc, e)))

\* canReopen: a rejected submission takes its record with it only if that
\* record is the game's result, or the game has none.
Rejected(d, e) ==
  LET r == d.entries[e].record
      g == GameOf(d, e)
      out == [d EXCEPT !.entries[e].status = "rejected"]
      reopens == d.records[r].status # "accepted" /\ Canonical(d, g) \in {None, r}
  IN Reconciled(IF reopens THEN [out EXCEPT !.records[r].status = "rejected"] ELSE out, g)

Reject(e) == Commit(Rejected(doc, e))

Associate(e, g) ==
  /\ "associate" \in Commands
  /\ Released(doc, g) /\ ~Resolved(doc, g) /\ Canonical(doc, g) = None
  /\ GameOf(doc, e) # g
  /\ LET moved == [doc EXCEPT !.records[doc.entries[e].record] =
                                [game |-> g, status |-> "submitted"]]
     IN Commit(Reconciled(Reconciled(moved, GameOf(doc, e)), g))

Drive(g, print) ==
  /\ "drive" \in Commands /\ MayEnter
  /\ Commit(Ingested(doc, g, print, 0))

-----------------------------------------------------------------------------
(* Corrections of a result that counts.                                    *)

Superseded(d, r) ==
  [d EXCEPT !.entries = [e \in DOMAIN d.entries |->
     IF e \in AcceptedEntries(d, r) THEN [d.entries[e] EXCEPT !.status = "superseded"]
     ELSE d.entries[e]]]

\* editAcceptedResult, and a protest ruled with a score adjustment.
Edit(g) ==
  LET r == Canonical(doc, g)
  IN /\ "edit" \in Commands /\ MayEnter
     /\ r # None /\ doc.records[r].status = "accepted"
     /\ Commit([Superseded(doc, r) EXCEPT
                  !.entries = Append(@, [record |-> r, status |-> "accepted",
                                         print |-> Typed, result |-> 0]),
                  !.game[g] = "accepted"])

Withdrawn(d, g) == [Superseded(d, Canonical(d, g)) EXCEPT
                      !.records[Canonical(d, g)].status = "rejected"]

CanonicalForfeit(g) ==
  /\ Canonical(doc, g) # None
  /\ doc.records[Canonical(doc, g)].status = "forfeit"

Replace(g, status) ==
  /\ "replace" \in Commands /\ MayEnter /\ CanonicalForfeit(g)
  /\ Commit(Decided(Withdrawn(doc, g), g, status))

Reopen(g) ==
  /\ "reopen" \in Commands /\ CanonicalForfeit(g)
  /\ Commit([Withdrawn(doc, g) EXCEPT
               !.game[g] = IF Released(doc, g) THEN "released" ELSE "scheduled",
               !.session = [s \in Sessions |->
                 IF doc.session[s].match = g
                 THEN [doc.session[s] EXCEPT !.state = "abandoned", !.resumable = FALSE]
                 ELSE doc.session[s]]])

-----------------------------------------------------------------------------
(* Moving a released game to another room.  A poll is awaited first, which *)
(* may fail; the document to write is made from the one the move was       *)
(* checked on, and the host is asked in between.                           *)

HostSnapshot == [sessions |-> shown, results |-> retained]

MoveBlocked(d, g, to) ==
  \/ ~Released(d, g) \/ d.game[g] # "released" \/ d.room[g] = to
  \/ \E r \in Records(d, g) : d.records[r].status \notin {"rejected", "cancelled"}
  \/ Pending(d, g) # {}
  \/ \E s \in Sessions : d.session[s].match = g /\ UnresolvedSession(d, s)
  \/ ~RoomFree(d, g) \/ ~RoomFree([d EXCEPT !.room[g] = to], g)

PlanMove(g, to) ==
  /\ "move" \in Commands /\ moving = None /\ poll = None
  /\ \/ \E refused \in Refusals(retained) : doc' = PollApplied(doc, HostSnapshot, refused)
     \/ "poll fails" \in Faults /\ doc' = doc
  /\ ~MoveBlocked(doc', g, to)
  /\ moving' = [rooms |-> {doc'.room[g], to}, doc |-> [doc' EXCEPT !.room[g] = to]]
  /\ UNCHANGED <<flights, poll, host>>

\* rooms_with_live_scorers, at the host.
ScorerIn(rm) == \E s \in Sessions : runtime[s].state = "open" /\ runtime[s].room = rm

\* assignmentSnapshotBlocker: what it protects is the games being scored.
SnapshotBlocked(d, next) ==
  \E s \in Sessions :
    /\ d.session[s].state # "abandoned" /\ UnresolvedSession(d, s)
    /\ \E g \in Games :
         /\ \/ d.session[s].match = g
            \/ /\ d.session[s].match = None /\ d.session[s].room = d.room[g]
               /\ ~Resolved(d, g)
         /\ d.room[g] # next.room[g]

Move ==
  /\ moving # None
  /\ doc' = IF (\E rm \in moving.rooms : ScorerIn(rm)) \/ SnapshotBlocked(doc, moving.doc)
            THEN doc ELSE moving.doc
  /\ moving' = None
  /\ UNCHANGED <<flights, poll, host>>

-----------------------------------------------------------------------------
(* The poll of the host, one at a time.                                    *)

PollRead ==
  /\ poll = None /\ poll' = HostSnapshot
  /\ UNCHANGED <<doc, flights, moving, host>>

\* The read fails, or what it brought is dropped: nothing changes, and the next
\* poll reads again.
PollFails ==
  /\ "poll fails" \in Faults
  /\ poll # None /\ poll' = None
  /\ UNCHANGED <<doc, flights, moving, host>>

\* expireQbtcpSessions: a session not heard of for two minutes is given up.
Silent(d, quiet) ==
  [d EXCEPT !.session = [s \in Sessions |->
     IF s \in quiet THEN [d.session[s] EXCEPT !.state = "abandoned", !.resumable = TRUE]
     ELSE d.session[s]]]

PollApply ==
  /\ poll # None /\ poll' = None
  /\ \E refused \in Refusals(poll.results) :
       LET applied == PollApplied(doc, poll, refused)
           open == {s \in Sessions : applied.session[s].state = "open"}
       IN \E quiet \in SUBSET open :
            /\ quiet = {} \/ "scorer falls silent" \in Faults
            /\ doc' = Silent(applied, quiet)
  /\ UNCHANGED <<flights, moving, host>>

-----------------------------------------------------------------------------
(* The host and the scorers.                                               *)

UnchangedDirector == UNCHANGED <<doc, flights, poll, moving>>

Open(s, rm, g) ==
  /\ runtime[s].state = "none" /\ ~ScorerIn(rm)
  /\ g \in offered[rm].play
  /\ runtime' = [runtime EXCEPT ![s] = [state |-> "open", game |-> g, room |-> rm]]
  /\ shown' = [shown EXCEPT ![s] = [status |-> "open", match |-> g, room |-> rm]]
  /\ UnchangedDirector /\ UNCHANGED <<offered, retained>>

\* A final is retained from a session that is open, closed or already final;
\* the same document from the same match is answered as a repeat.
Post(s, print) ==
  /\ runtime[s].state # "none" /\ Len(retained) < MaxResults
  /\ ~\E i \in DOMAIN retained :
        retained[i].game = runtime[s].game /\ retained[i].print = print
  /\ retained' = Append(retained, [session |-> s, game |-> runtime[s].game, print |-> print])
  /\ runtime' = [runtime EXCEPT ![s].state = IF @ = "open" THEN "final" ELSE @]
  /\ shown' = [shown EXCEPT ![s].status = "final"]
  /\ UnchangedDirector /\ UNCHANGED offered

Expire(s) ==
  /\ "session expires" \in Faults /\ runtime[s].state = "open"
  /\ runtime' = [runtime EXCEPT ![s].state = "abandoned"]
  /\ shown' = [shown EXCEPT ![s].status = "abandoned"]
  /\ UnchangedDirector /\ UNCHANGED <<offered, retained>>

\* The document is saved and the host refreshed from it: what was tracked of a
\* room whose assignment changed is forgotten, finals apart, and the sessions
\* that disagree with the new assignment are closed.
Refresh ==
  /\ offered # Offers(doc) /\ offered' = Offers(doc)
  /\ LET changed == {rm \in Rooms : offered[rm] # offered'[rm]}
         closed == {s \in Sessions : /\ runtime[s].state = "open"
                                     /\ runtime[s].game \notin offered'[runtime[s].room].play}
         forgotten == {s \in Sessions : shown[s].room \in changed /\ shown[s].status # "final"}
     IN /\ runtime' = [s \in Sessions |->
             IF s \in closed THEN [runtime[s] EXCEPT !.state = "abandoned"] ELSE runtime[s]]
        /\ shown' = [s \in Sessions |->
             CASE s \in closed \cap forgotten ->
                    [status |-> "abandoned", match |-> None, room |-> runtime[s].room]
               [] s \in closed \ forgotten -> [shown[s] EXCEPT !.status = "abandoned"]
               [] s \in forgotten \ closed -> [status |-> "none", match |-> None, room |-> None]
               [] OTHER -> shown[s]]
  /\ UnchangedDirector /\ UNCHANGED retained

-----------------------------------------------------------------------------
Next ==
  \/ \E r \in Rounds : Release(r) \/ Close(r)
  \/ \E g \in Games : Edit(g) \/ Reopen(g)
  \/ \E g \in Games, kind \in Settlements : Start(kind, g)
  \/ \E f \in flights : Retire(f) \/ RetireFails(f) \/ Settle(f)
  \/ \E e \in Waiting : Accept(e) \/ Reject(e)
  \/ \E e \in Waiting, g \in Games : Associate(e, g)
  \/ \E g \in Games, print \in Scores : Drive(g, print)
  \/ \E g \in Games, status \in {"accepted", "forfeit"} : Replace(g, status)
  \/ \E g \in Games, to \in Rooms : PlanMove(g, to)
  \/ Move
  \/ PollRead \/ PollFails \/ PollApply
  \/ \E s \in Sessions, rm \in Rooms, g \in Games : Open(s, rm, g)
  \/ \E s \in Sessions, print \in Scores : Post(s, print)
  \/ \E s \in Sessions : Expire(s)
  \/ Refresh

Spec == Init /\ [][Next]_vars

\* The poll runs every second and does not fail for ever, and what the controller
\* awaits is answered; the Director, the scorers and the faults need not act.
Fairness ==
  /\ WF_vars(PollRead)
  /\ SF_vars(PollApply)
  /\ WF_vars(\E f \in flights : Retire(f) \/ Settle(f))
  /\ WF_vars(Move)
  /\ WF_vars(Refresh)

FairSpec == Spec /\ Fairness

-----------------------------------------------------------------------------
(* Properties.                                                             *)

GameStatus == {"scheduled", "released", "live", "submitted", "accepted", "cancelled"}
RecordStatus == {"submitted", "accepted", "forfeit", "rejected", "cancelled"}
EntryStatus == {"pending", "accepted", "rejected", "duplicate", "superseded"}

Documents(d) ==
  /\ d.round \in [Rounds -> {"planned", "released", "closed"}]
  /\ d.game \in [Games -> GameStatus]
  /\ d.room \in [Games -> Rooms]
  /\ \A r \in DOMAIN d.records : d.records[r] \in [game : Games, status : RecordStatus]
  /\ \A e \in DOMAIN d.entries : d.entries[e] \in
       [record : DOMAIN d.records, status : EntryStatus,
        print : Scores \cup {Typed}, result : 0..MaxResults]
  /\ d.session \in [Sessions -> [state : {"absent", "open", "received", "abandoned"},
                                 resumable : BOOLEAN,
                                 match : Games \cup {None}, room : Rooms \cup {None}]]

\* Every submission is about a record of the document, whatever the order in
\* which results were staged, moved and replaced.
TypeOK ==
  /\ Documents(doc)
  /\ moving # None => Documents(moving.doc)
  /\ \A f \in flights : f.kind \in Settlements /\ f.game \in Games /\ f.left \subseteq Sessions
  /\ \A s \in Sessions : runtime[s].state \in {"none", "open", "abandoned", "final"}
  /\ \A s \in Sessions : shown[s].status \in {"none", "open", "abandoned", "final"}
  /\ Len(retained) <= MaxResults

DecidedRecords(g) == {r \in Records(doc, g) : doc.records[r].status \in {"accepted", "forfeit"}}

\* A game has at most one result that counts and one accepted submission, which
\* is about that result; and it is accepted exactly when it has one
\* (canonicalAcceptedGame, which would otherwise choose by time).
OneResult ==
  \A g \in Games :
    LET accepted == {e \in Entries(doc, g) : doc.entries[e].status = "accepted"}
    IN /\ Cardinality(DecidedRecords(g)) <= 1 /\ Cardinality(accepted) <= 1
       /\ {doc.entries[e].record : e \in accepted} = DecidedRecords(g)
       /\ doc.game[g] = "accepted" <=> DecidedRecords(g) # {}

\* However often a poll shows it and whatever was staged meanwhile, a result the
\* host retained is one submission (applyNativeResults, transportResultId).
ExactlyOnce ==
  \A e, f \in DOMAIN doc.entries :
    doc.entries[e].result = doc.entries[f].result /\ doc.entries[e].result # 0 => e = f

\* "Normal tournament operation has one released round with unresolved play at
\* a time" (tournamentSafety.ts:28).
OneRoundAtATime ==
  \A q, r \in Rounds :
    /\ q # r /\ {doc.round[q], doc.round[r]} = {"released"}
    => (\A g \in GamesOf(q) : Resolved(doc, g)) \/ (\A g \in GamesOf(r) : Resolved(doc, g))

\* A game is open to play only in a released round: "Planning and preparation
\* may create scheduled games early, but those rows are not competitive history
\* until the Director starts the round" (tournamentSafety.ts:11).
PlayedWhenReleased ==
  \A g \in Games : doc.game[g] \in {"released", "live"} => Released(doc, g)

\* Two games that may be played never share a room: "A room can only host one
\* game in a QBTCP round" (roundDeliveryBlocker, releasedGameRoomMoveBlocker).
OneGamePerRoom ==
  \A g, h \in Games :
    {doc.game[g], doc.game[h]} \subseteq {"released", "live"} /\ doc.room[g] = doc.room[h]
    => g = h

\* releasedRoundResultBlocker: a game gets its first result in a released round,
\* also when the settlement was begun long before.
ResultsWhilePlayed ==
  [][\A g \in Games : Canonical(doc, g) = None /\ Canonical(doc', g) # None
                      => Released(doc, g)]_vars

\* A result that counts is withdrawn only by an explicit correction; a poll, a
\* rejection or another settlement leaves it alone, however late it comes.
Correction(g) == Reopen(g) \/ \E status \in {"accepted", "forfeit"} : Replace(g, status)
ResultKept ==
  [][\A g \in Games : Canonical(doc, g) # None /\ Canonical(doc', g) # Canonical(doc, g)
                      => Correction(g)]_vars

\* "Cancellation is terminal for the schedule row"
\* (reconcileScheduledGameResultState).
CancelledIsFinal ==
  [][\A g \in Games : doc.game[g] = "cancelled" => doc'.game[g] = "cancelled"]_vars

\* Every retained result of a game that is not found to be none reaches the inbox,
\* through failed polls, a closed round and a settled game (syncQbtcp).
ResultsArrive ==
  \A i \in 1..MaxResults :
    Len(retained) >= i /\ retained[i].print \notin Doubtful ~> Holds(doc, i)

\* Nothing is under way, and a poll would tell the Director nothing new.
Quiet ==
  /\ flights = {} /\ poll = None /\ moving = None
  /\ offered = Offers(doc)
  /\ \A refused \in Refusals(retained) : PollApplied(doc, HostSnapshot, refused) = doc

\* A round whose games are all resolved, with no result left to review and no
\* scorer at work, can be closed (roundCloseBlockers).
SettledRoundsClose ==
  \A r \in Rounds :
    /\ Quiet /\ doc.round[r] = "released"
    /\ \A g \in GamesOf(r) : Resolved(doc, g) /\ Pending(doc, g) = {}
    /\ \A s \in Sessions : runtime[s].state # "open"
    => ~CloseBlocked(doc, r)

\* docs/QBTCP.md:474: abandoning a session "releases the room for a new
\* assignment"; here only once the session's game is settled.
AbandonedReleasesRoom ==
  \A s \in Sessions :
    /\ Quiet /\ runtime[s].state = "abandoned" /\ Resolved(doc, runtime[s].game)
    => ~UnresolvedSession(doc, s)
=============================================================================
