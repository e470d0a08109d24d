---------------------------- MODULE QbtcpServer ----------------------------
(***************************************************************************)
(* The QBTCP server a Director runs for its scorekeepers                   *)
(* (crates/qbtcp-server/src/core.rs over the result ledger of state.rs and *)
(* the Director's SQLite files): scoring sessions, their device            *)
(* credentials and writer lock, the progress sequence, retained finals,    *)
(* and the credential vault a restart is rebuilt from.                     *)
(*                                                                         *)
(* Every HTTP handler runs synchronously on a thread of a multi-threaded   *)
(* runtime, so two handlers interleave wherever a handler is outside the   *)
(* runtime mutex.  A thread therefore goes through these program points:   *)
(*                                                                         *)
(*    Arrive     sweep idle sessions, then read the host's assignments     *)
(*    Reconcile  lock: abandon the open sessions that disagree with them   *)
(*    ReadAssignment   (open_session only) read the host again, unlocked   *)
(*    <handler>  lock: the operation itself                                *)
(*    Snapshot   lock: copy the authority to be saved                      *)
(*    Persist    write the copy to the vault and answer the client         *)
(*                                                                         *)
(* Time only matters through the idle timeout, so an open session may be   *)
(* overdue at any sweep.  Room tokens are left to pairing: a device that   *)
(* needs one can always pair again with an enabled room.                   *)
(*                                                                         *)
(* A definition marked "Slip" is its neighbour with a plausible mistake in *)
(* it; the specification does not use it.  It shows which property the     *)
(* mistake would break.                                                    *)
(***************************************************************************)
EXTENDS Naturals, FiniteSets

CONSTANTS
  Rooms,          \* the rooms of the Director's document
  Assignments,    \* assignment identities: records [match, revision]
  Matches,        \* match identities
  NoMatch,        \* a submitted document that names no match
  NoAssignment,   \* none, blocked or held, or the room is disabled
  Devices,        \* device identities the clients send
  NoDevice,
  Bodies,         \* contents of a final document, transport data aside
  Finals,         \* final documents: records [match, revision, body]
  Threads,        \* runtime threads serving requests at the same time
  Operations,     \* bound: the operations the clients and the host call
  MaxSessions,    \* bound: sessions ever opened
  MaxTokens,      \* bound: session tokens ever issued
  MaxSequence,    \* bound: highest progress sequence a client sends
  MaxResults,     \* bound: results retained
  Faults          \* the accesses to the store that may fail

ASSUME ServerAssumption ==
  /\ Assignments \subseteq [match : Matches, revision : Nat]
  /\ Finals \subseteq [match : Matches \cup {NoMatch}, revision : Nat, body : Bodies]
  /\ NoMatch \notin Matches
  /\ NoAssignment \notin Assignments
  /\ NoDevice \notin Devices
  /\ MaxSessions \in Nat /\ MaxTokens \in Nat
  /\ MaxSequence \in Nat /\ MaxResults \in Nat
  /\ Faults \subseteq {"vault write", "result write", "result read"}

SessionIds == 1..MaxSessions
NoSession == 0
Tokens == 1..MaxTokens
NoToken == 0
ResultIds == 1..MaxResults
NoResult == 0
NoProgress == 0

Status == {"open", "final-received", "abandoned"}

\* SessionRecord: latest_progress is its sequence, final_result_id its result.
Session == [room : Rooms, assignment : Assignments, status : Status,
            credentials : [Devices -> Tokens \cup {NoToken}],
            writerToken : Tokens \cup {NoToken},
            writerDevice : Devices \cup {NoDevice},
            progress : 0..MaxSequence,
            result : ResultIds \cup {NoResult}]

\* Session tables: the runtime's, the vault's, and a thread's copy of one.
IsTable(table) == DOMAIN table \subseteq SessionIds /\ table \in [DOMAIN table -> Session]
EmptyTable == [s \in {} |-> NoSession]

Retained == [id : ResultIds, session : SessionIds, match : Matches \cup {NoMatch},
             body : Bodies, review : BOOLEAN]

\* What a client can ask, and the host's two own calls (abandon, refresh).
OpenRequests == [op : {"open"}, room : Rooms, match : Matches, device : Devices]
TakeRequests == [op : {"take"}, session : SessionIds, token : Tokens, device : Devices]
ProgressRequests == [op : {"progress"}, session : SessionIds, token : Tokens,
                     sequence : 1..MaxSequence]
ResultRequests == [op : {"result"}, session : SessionIds, token : Tokens, final : Finals]
AbandonRequests == [op : {"abandon"}, session : SessionIds]
RefreshRequest == [op |-> "refresh"]
NoRequest == [op |-> "none"]

Answers == [session : SessionIds \cup {NoSession}, token : Tokens \cup {NoToken},
            result : ResultIds \cup {NoResult}]
NoAnswer == [session |-> NoSession, token |-> NoToken, result |-> NoResult]

VARIABLES
  up,         \* is the listener running?
  assigned,   \* host projection: the assignment of every room
  sessions,   \* runtime.sessions (and, through credentials, session_tokens)
  opened,     \* number of sessions ever opened: ids are never reused
  issued,     \* number of tokens ever issued: tokens are never reused
  memory,     \* results the running host holds
  durable,    \* results in the qbtcp_results table
  vault,      \* the encrypted credential snapshot in the store
  pc,         \* where each thread is
  req,        \* the request it serves
  view,       \* the assignments its reconciliation read
  seen,       \* the assignment its open_session read
  copy,       \* the snapshot it is about to persist
  answer,     \* the answer it will send if the save succeeds
  held,       \* <<session, token>> pairs clients have been given
  receipts,   \* sessions whose client has a receipt for a final
  acked,      \* highest progress sequence accepted and acknowledged per session
  settled     \* sessions whose abandonment was confirmed to the host

hostVars == <<assigned>>
ledgerVars == <<memory, durable>>
threadVars == <<pc, req, view, seen, copy, answer>>
clientVars == <<held, receipts, acked, settled>>
vars == <<up, hostVars, sessions, opened, issued, ledgerVars, vault,
          threadVars, clientVars>>

NoView == [r \in Rooms |-> NoAssignment]

TypeOK ==
  /\ up \in BOOLEAN
  /\ assigned \in [Rooms -> Assignments \cup {NoAssignment}]
  /\ IsTable(sessions)
  /\ opened \in 0..MaxSessions
  /\ issued \in 0..MaxTokens
  /\ memory \subseteq Retained
  /\ durable \subseteq Retained
  /\ IsTable(vault)
  /\ pc \in [Threads -> {"idle", "reconcile", "read", "handle", "snapshot", "persist"}]
  /\ req \in [Threads -> OpenRequests \cup TakeRequests \cup ProgressRequests
                         \cup ResultRequests \cup AbandonRequests
                         \cup {RefreshRequest, NoRequest}]
  /\ view \in [Threads -> [Rooms -> Assignments \cup {NoAssignment}]]
  /\ seen \in [Threads -> Assignments \cup {NoAssignment}]
  /\ DOMAIN copy = Threads /\ \A t \in Threads : IsTable(copy[t])
  /\ answer \in [Threads -> Answers]
  /\ held \subseteq SessionIds \X Tokens
  /\ receipts \subseteq SessionIds
  /\ acked \in [SessionIds -> 0..MaxSequence]
  /\ settled \subseteq SessionIds

Init ==
  /\ up = TRUE
  /\ assigned = NoView
  /\ sessions = EmptyTable /\ opened = 0 /\ issued = 0
  /\ memory = {} /\ durable = {} /\ vault = EmptyTable
  /\ pc = [t \in Threads |-> "idle"]
  /\ req = [t \in Threads |-> NoRequest]
  /\ view = [t \in Threads |-> NoView]
  /\ seen = [t \in Threads |-> NoAssignment]
  /\ copy = [t \in Threads |-> EmptyTable]
  /\ answer = [t \in Threads |-> NoAnswer]
  /\ held = {} /\ receipts = {} /\ settled = {}
  /\ acked = [s \in SessionIds |-> NoProgress]

-----------------------------------------------------------------------------
(* Helpers on sessions.                                                    *)

Live(table) == {s \in DOMAIN table : table[s].status = "open"}

\* Slip: the two cleared fields are swapped.
ClosedSwapped(session, status) ==
  [session EXCEPT !.status = status, !.writerToken = NoDevice, !.writerDevice = NoToken]

\* Slip: the writer keeps the lock of a closed session.
ClosedKeepingWriter(session, status) == [session EXCEPT !.status = status]

\* Every closing path revokes the writer with the status.
Closed(session, status) ==
  [session EXCEPT !.status = status, !.writerToken = NoToken, !.writerDevice = NoDevice]

\* The table with the sessions of S abandoned.
Abandoned(table, S) ==
  [s \in DOMAIN table |-> IF s \in S THEN Closed(table[s], "abandoned") ELSE table[s]]

\* session_matches_assignment, for the room's assignment in a view.
Mismatched(table, assignments) ==
  {s \in Live(table) : assignments[table[s].room] # table[s].assignment}

\* The devices whose credential is a token.
Owners(session, token) == {d \in Devices : session.credentials[d] = token}

Authentic(s, token) == s \in DOMAIN sessions /\ Owners(sessions[s], token) # {}

\* The table with one session added or replaced.
With(table, s, session) ==
  [x \in DOMAIN table \cup {s} |-> IF x = s THEN session ELSE table[x]]

(* A thread's way out: the answer has been sent (or refused), forget it.   *)
Done(t) ==
  /\ pc' = [pc EXCEPT ![t] = "idle"]
  /\ req' = [req EXCEPT ![t] = NoRequest]
  /\ view' = [view EXCEPT ![t] = NoView]
  /\ seen' = [seen EXCEPT ![t] = NoAssignment]
  /\ copy' = [copy EXCEPT ![t] = EmptyTable]
  /\ answer' = [answer EXCEPT ![t] = NoAnswer]

Goto(t, point) ==
  /\ pc' = [pc EXCEPT ![t] = point]
  /\ view' = [view EXCEPT ![t] = NoView]
  /\ UNCHANGED <<req, seen, copy, answer>>

\* The operation took effect: go on to save the authority, then answer.
Save(t, s, token, result) ==
  /\ pc' = [pc EXCEPT ![t] = "snapshot"]
  /\ seen' = [seen EXCEPT ![t] = NoAssignment]
  /\ answer' = [answer EXCEPT ![t] = [session |-> s, token |-> token, result |-> result]]
  /\ UNCHANGED <<req, view, copy>>

-----------------------------------------------------------------------------
(* The steps every request takes before and after its handler.             *)

Requests == {r \in
  [op : {"open"}, room : Rooms, match : Matches, device : Devices]
    \cup {[op |-> "take", session |-> h[1], token |-> h[2], device |-> d] :
             h \in held, d \in Devices}
    \cup {[op |-> "progress", session |-> h[1], token |-> h[2], sequence |-> n] :
             h \in held, n \in 1..MaxSequence}
    \cup {[op |-> "result", session |-> h[1], token |-> h[2], final |-> f] :
             h \in held, f \in Finals}
    \cup {[op |-> "abandon", session |-> s] : s \in 1..opened}
    \cup {RefreshRequest} : r.op \in Operations}

\* sweep_expired abandons whatever is overdue; reconcile_runtime then reads
\* the host's rooms and assignments, still outside the lock.
Arrive(t) ==
  /\ up /\ pc[t] = "idle"
  /\ \E r \in Requests : req' = [req EXCEPT ![t] = r]
  /\ \E overdue \in SUBSET Live(sessions) : sessions' = Abandoned(sessions, overdue)
  /\ view' = [view EXCEPT ![t] = assigned]
  /\ pc' = [pc EXCEPT ![t] = "reconcile"]
  /\ UNCHANGED <<up, hostVars, opened, issued, ledgerVars, vault,
                 seen, copy, answer, clientVars>>

\* Slip: a session whose assignment returned is taken up again.
ReconcileReviving(t) ==
  /\ pc[t] = "reconcile"
  /\ sessions' = [s \in DOMAIN sessions |->
                   IF view[t][sessions[s].room] = sessions[s].assignment
                   THEN [sessions[s] EXCEPT !.status = "open"]
                   ELSE Closed(sessions[s], "abandoned")]
  /\ CASE req[t].op = "refresh" -> Done(t)
       [] req[t].op = "open"    -> Goto(t, "read")
       [] OTHER                 -> Goto(t, "handle")
  /\ UNCHANGED <<up, hostVars, opened, issued, ledgerVars, vault, clientVars>>

\* Slip: only the host's refresh reconciles, requests do not.
ReconcileOnRefreshOnly(t) ==
  /\ pc[t] = "reconcile"
  /\ sessions' = IF req[t].op = "refresh"
                 THEN Abandoned(sessions, Mismatched(sessions, view[t])) ELSE sessions
  /\ CASE req[t].op = "refresh" -> Done(t)
       [] req[t].op = "open"    -> Goto(t, "read")
       [] OTHER                 -> Goto(t, "handle")
  /\ UNCHANGED <<up, hostVars, opened, issued, ledgerVars, vault, clientVars>>

\* reconcile_runtime under the lock: close what the assignments it read no
\* longer cover.  Nothing is persisted.
Reconcile(t) ==
  /\ pc[t] = "reconcile"
  /\ sessions' = Abandoned(sessions, Mismatched(sessions, view[t]))
  /\ CASE req[t].op = "refresh" -> Done(t)
       [] req[t].op = "open"    -> Goto(t, "read")
       [] OTHER                 -> Goto(t, "handle")
  /\ UNCHANGED <<up, hostVars, opened, issued, ledgerVars, vault, clientVars>>

\* open_session reads the room's assignment before it takes the lock.
ReadAssignment(t) ==
  LET assignment == assigned[req[t].room] IN
  /\ pc[t] = "read"
  /\ IF assignment # NoAssignment /\ assignment.match = req[t].match
     THEN /\ seen' = [seen EXCEPT ![t] = assignment]
          /\ pc' = [pc EXCEPT ![t] = "handle"]
          /\ UNCHANGED <<req, view, copy, answer>>
     ELSE Done(t)
  /\ UNCHANGED <<up, hostVars, sessions, opened, issued, ledgerVars, vault,
                 clientVars>>

\* persist_credentials copies the authority under the lock ...
Snapshot(t) ==
  /\ pc[t] = "snapshot"
  /\ copy' = [copy EXCEPT ![t] = sessions]
  /\ pc' = [pc EXCEPT ![t] = "persist"]
  /\ UNCHANGED <<up, hostVars, sessions, opened, issued, ledgerVars, vault,
                 req, view, seen, answer, clientVars>>

\* What the client learns from a successful answer.
Acknowledge(t) ==
  LET s == answer[t].session IN
  /\ held' = IF req[t].op \in {"open", "take"}
             THEN held \cup {<<s, answer[t].token>>} ELSE held
  /\ receipts' = IF req[t].op = "result"
                 THEN receipts \cup {s} ELSE receipts
  /\ acked' = IF req[t].op = "progress" /\ req[t].sequence > acked[s]
              THEN [acked EXCEPT ![s] = req[t].sequence] ELSE acked
  /\ settled' = IF req[t].op = "abandon" THEN settled \cup {s} ELSE settled

\* ... and writes it with the lock released.  A failed write is an error to
\* the client, but what the handler did in memory stands.
Persist(t) ==
  /\ pc[t] = "persist"
  /\ \/ vault' = copy[t] /\ Acknowledge(t)
     \/ "vault write" \in Faults /\ UNCHANGED <<vault, clientVars>>
  /\ Done(t)
  /\ UNCHANGED <<up, hostVars, sessions, opened, issued, ledgerVars>>

-----------------------------------------------------------------------------
(* The handlers, each in its critical section.                             *)

Handling(t, op) == pc[t] = "handle" /\ req[t].op = op

\* A request that changes nothing: it is refused, or its snapshot discarded.
Refuse(t) ==
  /\ Done(t)
  /\ UNCHANGED <<up, hostVars, sessions, opened, issued, ledgerVars, vault,
                 clientVars>>

NewSession(room, assignment, device, token) ==
  [room |-> room, assignment |-> assignment, status |-> "open",
   credentials |-> [d \in Devices |-> IF d = device THEN token ELSE NoToken],
   writerToken |-> token, writerDevice |-> device,
   progress |-> NoProgress, result |-> NoResult]

\* Slip: a session without a writer is not resumed.
ResumableWithWriter(room, assignment) ==
  {s \in Live(sessions) : /\ sessions[s].room = room
                          /\ sessions[s].assignment = assignment
                          /\ sessions[s].writerToken # NoToken}

\* The sessions an open request may resume: same room, same assignment, not abandoned.
Resumable(room, assignment) ==
  {s \in DOMAIN sessions : /\ sessions[s].room = room
                           /\ sessions[s].assignment = assignment
                           /\ sessions[s].status # "abandoned"}

\* open_session finds nothing to resume: the caller opens it as its writer.
OpenNewSession(t) ==
  LET s == opened + 1
      token == issued + 1 IN
  /\ Handling(t, "open")
  /\ Resumable(req[t].room, seen[t]) = {}
  /\ s \in SessionIds /\ token \in Tokens
  /\ opened' = s /\ issued' = token
  /\ sessions' = With(sessions, s, NewSession(req[t].room, seen[t], req[t].device, token))
  /\ Save(t, s, token, NoResult)
  /\ UNCHANGED <<up, hostVars, ledgerVars, vault, clientVars>>

\* open_session finds a session: a known device gets its credential again,
\* a new one gets its own, and neither touches the writer lock.
ResumeSession(t) ==
  /\ Handling(t, "open")
  /\ \E s \in Resumable(req[t].room, seen[t]) :
       LET token == sessions[s].credentials[req[t].device] IN
       \/ /\ token # NoToken
          /\ Save(t, s, token, NoResult)
          /\ UNCHANGED <<sessions, issued>>
       \/ /\ token = NoToken
          /\ issued + 1 \in Tokens
          /\ issued' = issued + 1
          /\ sessions' = [sessions EXCEPT ![s].credentials[req[t].device] = issued + 1]
          /\ Save(t, s, issued + 1, NoResult)
  /\ UNCHANGED <<up, hostVars, opened, ledgerVars, vault, clientVars>>

\* Bound: no identifier is left for what the open request would create.
OutOfIds(t) ==
  /\ Handling(t, "open")
  /\ IF Resumable(req[t].room, seen[t]) = {}
     THEN opened = MaxSessions \/ issued = MaxTokens
     ELSE issued = MaxTokens
  /\ Refuse(t)

\* take_writer: any credential of an open session may take the lock.
TakeWriter(t) ==
  LET s == req[t].session IN
  /\ Handling(t, "take")
  /\ IF Authentic(s, req[t].token) /\ sessions[s].status = "open"
     THEN /\ sessions' = [sessions EXCEPT ![s].writerToken = req[t].token,
                                          ![s].writerDevice = req[t].device]
          /\ Save(t, s, req[t].token, NoResult)
          /\ UNCHANGED <<up, hostVars, opened, issued, ledgerVars, vault, clientVars>>
     ELSE Refuse(t)

\* Slip: any sequence of the writer is recorded.
ProgressUnordered(t) ==
  LET s == req[t].session IN
  /\ Handling(t, "progress")
  /\ IF /\ Authentic(s, req[t].token)
        /\ sessions[s].status = "open"
        /\ sessions[s].writerToken = req[t].token
     THEN /\ sessions' = [sessions EXCEPT ![s].progress = req[t].sequence]
          /\ Save(t, s, req[t].token, NoResult)
          /\ UNCHANGED <<up, hostVars, opened, issued, ledgerVars, vault, clientVars>>
     ELSE Refuse(t)

\* The snapshot comes from the writer of an open session.
FromWriter(t) ==
  LET s == req[t].session IN
  /\ Authentic(s, req[t].token)
  /\ sessions[s].status = "open"
  /\ sessions[s].writerToken = req[t].token

\* ... and is not above the one the session holds: the answer is a success
\* (200, accepted: false), and nothing is recorded or saved for it.
Discards(t) ==
  /\ Handling(t, "progress") /\ FromWriter(t)
  /\ req[t].sequence <= sessions[req[t].session].progress

\* progress: only the writer, only while open, and only a higher sequence
\* is recorded and saved.
Progress(t) ==
  LET s == req[t].session IN
  /\ Handling(t, "progress")
  /\ IF FromWriter(t) /\ ~Discards(t)
     THEN /\ sessions' = [sessions EXCEPT ![s].progress = req[t].sequence]
          /\ Save(t, s, req[t].token, NoResult)
          /\ UNCHANGED <<up, hostVars, opened, issued, ledgerVars, vault, clientVars>>
     ELSE Refuse(t)

-----------------------------------------------------------------------------
(* Retained results (MemoryState::record_result, then the SQLite row).     *)

SameMatch(r, final) == final.match # NoMatch /\ r.match = final.match

\* The fingerprint covers the match identity and the body, not the revision.
SameFingerprint(r, final) == r.match = final.match /\ r.body = final.body

\* Slip: a retry is recognised by its session only.
RetryOfSession(r, s, final) == SameFingerprint(r, final) /\ r.session = s

\* A retry: the same document from the same session, or for the same match.
Retry(r, s, final) ==
  SameFingerprint(r, final) /\ (r.session = s \/ SameMatch(r, final))

\* Slip: an earlier result for the match is not looked for.
NeedsReviewUnlessConflict(s, final) ==
  \/ final.match # sessions[s].assignment.match
  \/ final.revision < sessions[s].assignment.revision
  \/ sessions[s].status = "abandoned"

\* What the ledger would tell Director to look at before using the result.
NeedsReview(s, final) ==
  \/ final.match # sessions[s].assignment.match
  \/ final.revision < sessions[s].assignment.revision
  \/ sessions[s].status = "abandoned"
  \/ \E r \in memory : SameMatch(r, final)

\* The record a submission is answered with: the retained one, or a new one.
Disposition(s, final) ==
  LET retries == {r \in memory : Retry(r, s, final)} IN
  IF retries # {} THEN retries
  ELSE {[id |-> id, session |-> s, match |-> final.match, body |-> final.body,
         review |-> NeedsReview(s, final)] :
          id \in {i \in ResultIds : /\ \A r \in memory \cup durable : r.id # i
                                    /\ \A j \in 1..(i - 1) :
                                         \E r \in memory \cup durable : r.id = j}}

\* Slip: a later final replaces the session's result.
FinalizedLatest(session, id) ==
  [(IF session.status = "open" THEN Closed(session, "final-received") ELSE session)
     EXCEPT !.result = id]

\* The session's side of a retained final: an open session is closed by it,
\* and the first result it was given stays its result.
Finalized(session, id) ==
  [(IF session.status = "open" THEN Closed(session, "final-received") ELSE session)
     EXCEPT !.result = IF session.result = NoResult THEN id ELSE session.result]

\* Slip: the failure to write the row is ignored.
ResultUnchecked(t) ==
  LET s == req[t].session IN
  /\ Handling(t, "result")
  /\ IF /\ Authentic(s, req[t].token)
        /\ sessions[s].status = "open" => sessions[s].writerToken = req[t].token
     THEN \E r \in Disposition(s, req[t].final) :
            /\ memory' = memory \cup {r}
            /\ \/ durable' = durable \cup {r}
               \/ "result write" \in Faults /\ UNCHANGED durable
            /\ sessions' = [sessions EXCEPT ![s] = Finalized(sessions[s], r.id)]
            /\ Save(t, s, req[t].token, r.id)
            /\ UNCHANGED <<up, hostVars, opened, issued, vault, clientVars>>
     ELSE Refuse(t)

\* result: an open session takes it from its writer only; a closed one takes
\* it from any of its credentials.  When the row cannot be written the caller
\* gets an error and the session stays as it was, with the result in memory.
Result(t) ==
  LET s == req[t].session IN
  /\ Handling(t, "result")
  /\ IF /\ Authentic(s, req[t].token)
        /\ sessions[s].status = "open" => sessions[s].writerToken = req[t].token
     THEN \E r \in Disposition(s, req[t].final) :
            /\ memory' = memory \cup {r}
            /\ \/ /\ durable' = durable \cup {r}
                  /\ sessions' = [sessions EXCEPT ![s] = Finalized(sessions[s], r.id)]
                  /\ Save(t, s, req[t].token, r.id)
               \/ /\ "result write" \in Faults
                  /\ Done(t)
                  /\ UNCHANGED <<durable, sessions>>
            /\ UNCHANGED <<up, hostVars, opened, issued, vault, clientVars>>
     ELSE Refuse(t)

\* abandon_session closes an open session and saves; one that is no longer
\* open is confirmed without saving anything.
Abandon(t) ==
  LET s == req[t].session IN
  /\ Handling(t, "abandon")
  /\ \/ /\ s \in Live(sessions)
        /\ sessions' = Abandoned(sessions, {s})
        /\ Save(t, s, NoToken, NoResult)
        /\ UNCHANGED <<up, hostVars, opened, issued, ledgerVars, vault, clientVars>>
     \/ /\ s \in DOMAIN sessions \ Live(sessions)
        /\ settled' = settled \cup {s}
        /\ Done(t)
        /\ UNCHANGED <<up, hostVars, sessions, opened, issued, ledgerVars, vault,
                       held, receipts, acked>>
     \/ s \notin DOMAIN sessions /\ Refuse(t)

-----------------------------------------------------------------------------
(* The Director around the server.                                         *)

\* refresh_from_document: the saved document assigns something else.
AssignRoom(room) ==
  /\ \E a \in (Assignments \cup {NoAssignment}) \ {assigned[room]} :
       assigned' = [assigned EXCEPT ![room] = a]
  /\ UNCHANGED <<up, sessions, opened, issued, ledgerVars, vault, threadVars,
                 clientVars>>

\* The process ends, and memory and requests are lost with it; or the listener
\* is stopped and no request is under way.  (stop() aborts the accept loop
\* only: the end of a request that outlives its listener is left out.)
Stop ==
  /\ up /\ up' = FALSE
  /\ sessions' = EmptyTable /\ memory' = {}
  /\ pc' = [t \in Threads |-> "idle"]
  /\ req' = [t \in Threads |-> NoRequest]
  /\ view' = [t \in Threads |-> NoView]
  /\ seen' = [t \in Threads |-> NoAssignment]
  /\ copy' = [t \in Threads |-> EmptyTable]
  /\ answer' = [t \in Threads |-> NoAnswer]
  /\ UNCHANGED <<hostVars, opened, issued, durable, vault, clientVars>>

\* runtime_from_snapshot: the writer comes back only if the device named as
\* writer still has a credential of its own; a closed session has none.
Restored(session) ==
  LET token == IF session.writerDevice \in Devices
               THEN session.credentials[session.writerDevice] ELSE NoToken
      writer == session.status = "open" /\ token # NoToken IN
  [session EXCEPT !.writerToken = IF writer THEN token ELSE NoToken,
                  !.writerDevice = IF writer THEN session.writerDevice ELSE NoDevice]

\* start: load the retained results, restore the vault, reconcile with the
\* document and save the outcome before the listener answers anyone.  A ledger
\* that cannot be read is only logged.
Start ==
  /\ ~up /\ up' = TRUE
  /\ \/ memory' = durable
     \/ "result read" \in Faults /\ memory' = {}
  /\ LET table == [s \in DOMAIN vault |-> Restored(vault[s])] IN
       sessions' = Abandoned(table, Mismatched(table, assigned))
  /\ vault' = sessions'
  /\ UNCHANGED <<hostVars, opened, issued, durable, threadVars, clientVars>>

\* "Reset all pairings" deletes the vault while the listener is stopped.
ForgetCredentials ==
  /\ "forget" \in Operations
  /\ ~up /\ vault' = EmptyTable
  /\ UNCHANGED <<up, hostVars, sessions, opened, issued, ledgerVars, threadVars,
                 clientVars>>

Step(t) ==
  \/ Arrive(t) \/ Reconcile(t) \/ ReadAssignment(t)
  \/ OpenNewSession(t) \/ ResumeSession(t) \/ OutOfIds(t) \/ TakeWriter(t)
  \/ Progress(t) \/ Result(t) \/ Abandon(t)
  \/ Snapshot(t) \/ Persist(t)

Next ==
  \/ \E t \in Threads : Step(t)
  \/ \E room \in Rooms : AssignRoom(room)
  \/ Stop \/ Start \/ ForgetCredentials

Spec == Init /\ [][Next]_vars

(* Every request runs to its end, and requests keep coming: while a        *)
(* scoresheet is open it reports its presence every few seconds, and each  *)
(* authenticated request reconciles first.                                 *)
FairSpec == Spec /\ \A t \in Threads : WF_vars(Step(t))

-----------------------------------------------------------------------------
(* Properties.                                                             *)

\* Two scorekeepers of a game always share one session (core.rs open_session
\* looks the session up before creating one): in no session table, running,
\* saved or about to be saved, are two usable sessions bound to one room's
\* assignment, whatever two devices, a restart from an old vault and a reset
\* of all pairings do.
Exclusive(table) ==
  \A s1, s2 \in DOMAIN table :
    /\ table[s1].status # "abandoned" /\ table[s2].status # "abandoned"
    /\ table[s1].room = table[s2].room
    /\ table[s1].assignment = table[s2].assignment
    => s1 = s2
OneSessionPerAssignment ==
  /\ Exclusive(sessions) /\ Exclusive(vault)
  /\ \A t \in Threads : Exclusive(copy[t])

\* Writer authority is never left behind (core.rs: every closing path and
\* runtime_from_snapshot clear it): in every table the writer's token belongs
\* to an open session and to one of that session's own devices, and a token
\* opens one session for one device only.
Sound(table) ==
  /\ \A s \in DOMAIN table :
       /\ table[s].writerToken # NoToken =>
            /\ table[s].status = "open"
            /\ Owners(table[s], table[s].writerToken) # {}
       /\ table[s].writerToken = NoToken <=> table[s].writerDevice = NoDevice
  /\ \A s1, s2 \in DOMAIN table : \A d1, d2 \in Devices :
       table[s1].credentials[d1] = table[s2].credentials[d2] =>
         \/ table[s1].credentials[d1] = NoToken
         \/ s1 = s2 /\ d1 = d2
WriterAuthority ==
  /\ Sound(sessions) /\ Sound(vault)
  /\ \A t \in Threads : Sound(copy[t])

\* While one server process lives, a session that is closed stays closed and
\* its progress and its first result stay what they were or grow (core.rs
\* never writes "open" to an existing record), whichever handlers that passed
\* their checks earlier finish later.
NeverBackwards ==
  [][(up /\ up') => \A s \in DOMAIN sessions :
        /\ s \in DOMAIN sessions'
        /\ sessions[s].status # "open" => sessions'[s].status = sessions[s].status
        /\ sessions'[s].progress >= sessions[s].progress
        /\ sessions[s].result # NoResult => sessions'[s].result = sessions[s].result]_vars

\* Of two different finals for one match at most one goes unreviewed
\* (docs/QBTCP.md, Results: a correction candidate MUST be retained for
\* review), in the table on disk and in the running host, across failed
\* writes and restarts.
OneUnreviewed(results) ==
  \A r1, r2 \in results :
    /\ r1.match # NoMatch /\ r1.match = r2.match
    /\ ~r1.review /\ ~r2.review
    => r1 = r2
OneUnreviewedResultPerMatch == OneUnreviewed(memory) /\ OneUnreviewed(durable)

\* A retry is idempotent (docs/QBTCP.md, Results): the same document is never
\* retained twice for a match, nor for a session, even when the first attempt
\* failed to write its row and was answered with an error.
NeverRetainedTwice ==
  \A r1, r2 \in memory \cup durable :
    /\ r1.match = r2.match /\ r1.body = r2.body
    /\ r1.match # NoMatch \/ r1.session = r2.session
    => r1 = r2

\* A receipt is a promise about the disk: by the time the handler goes on to
\* answer, the row it names holds the client's document, and the row a session
\* records as its result, restored or not, is there too.
ReceiptIsDurable ==
  /\ \A t \in Threads :
       answer[t].result # NoResult =>
         \E r \in durable : r.id = answer[t].result /\ SameFingerprint(r, req[t].final)
  /\ \A s \in DOMAIN sessions :
       sessions[s].result # NoResult => \E r \in durable : r.id = sessions[s].result

\* What was acknowledged survives a restart: a credential a client was given
\* is in the vault, the saved progress is not below a snapshot that was
\* accepted, and a session whose final got a receipt is not saved as open.  It
\* holds when requests come one at a time, which is why persist_credentials
\* may run outside the lock only then.
CredentialsSaved ==
  \A h \in held : h[1] \in DOMAIN vault /\ Owners(vault[h[1]], h[2]) # {}
ProgressSaved ==
  \A s \in DOMAIN vault : vault[s].progress >= acked[s]
FinalsSaved ==
  \A s \in receipts : s \in DOMAIN vault => vault[s].status # "open"
AcknowledgedIsSaved == CredentialsSaved /\ ProgressSaved /\ FinalsSaved

\* docs/QBTCP.md, Progress: a lower sequence "than the one it holds" is
\* discarded and answered 200.  By then the vault holds one that is not lower,
\* so a restart cannot lose both.
DiscardedIsSaved ==
  [][\A t \in Threads : Discards(t) /\ Progress(t) =>
        vault[req[t].session].progress >= req[t].sequence]_vars

\* docs/QBTCP.md, Server restart continuity: "the restored session retains its
\* monotonic progress sequence so an older retry cannot replace newer
\* progress": an open session is never below a sequence it acknowledged.
RestoredProgressIsMonotonic ==
  \A s \in Live(sessions) : sessions[s].progress >= acked[s]

\* core.rs on abandon_session: "a later final is retained as late-after-abandon
\* rather than reopening the game": a session the host was told is abandoned is
\* never open again.
SettledStaysClosed == settled \cap Live(sessions) = {}

\* core.rs on reconcile_runtime: "an open session is abandoned when its room
\* goes away or its assignment identity changes": reconciliation closes no
\* session that is what its room is assigned.
ReconcileKeepsCurrent ==
  [][\A t \in Threads : Reconcile(t) =>
        \A s \in Live(sessions) :
          assigned[sessions[s].room] = sessions[s].assignment
            => sessions'[s].status = "open"]_vars

\* docs/QBTCP.md, Results: "the same match identity and a different fingerprint
\* is a correction candidate and MUST be retained for review".
CorrectionsAreReviewed ==
  \A r1, r2 \in durable :
    r1.match # NoMatch /\ r1.match = r2.match /\ r1.body # r2.body
      => r1.review \/ r2.review

\* An open session its room is no longer assigned cannot be scored for ever:
\* whatever stale assignment it was opened from, some request closes it.
Superseded(s) == s \in Mismatched(sessions, assigned)
SupersededSessionsClose == \A s \in SessionIds : Superseded(s) ~> ~Superseded(s)

\* The table on disk implements the ledger Director is promised.
Ledger == INSTANCE ResultLedger WITH Results <- Retained, ledger <- durable
ImplementsLedger == Ledger!Spec
=============================================================================
