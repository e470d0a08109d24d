------------------------- MODULE QbtcpServerProofs -------------------------
(***************************************************************************)
(* Theorems about QbtcpServer for every number of rooms, devices, threads  *)
(* and finals: its type invariant, and that a room's assignment never has  *)
(* two usable sessions.                                                    *)
(***************************************************************************)
EXTENDS QbtcpServer, TLAPS

AllRequests == OpenRequests \cup TakeRequests \cup ProgressRequests
                 \cup ResultRequests \cup AbandonRequests
                 \cup {RefreshRequest, NoRequest}

\* The type invariant in three parts: the server, its threads, its clients.
StateTypes ==
  /\ up \in BOOLEAN
  /\ assigned \in [Rooms -> Assignments \cup {NoAssignment}]
  /\ IsTable(sessions)
  /\ opened \in 0..MaxSessions
  /\ issued \in 0..MaxTokens
  /\ memory \subseteq Retained
  /\ durable \subseteq Retained
  /\ IsTable(vault)

ThreadTypes ==
  /\ pc \in [Threads -> {"idle", "reconcile", "read", "handle", "snapshot", "persist"}]
  /\ req \in [Threads -> AllRequests]
  /\ view \in [Threads -> [Rooms -> Assignments \cup {NoAssignment}]]
  /\ seen \in [Threads -> Assignments \cup {NoAssignment}]
  /\ DOMAIN copy = Threads /\ \A t \in Threads : IsTable(copy[t])
  /\ answer \in [Threads -> Answers]

ClientTypes ==
  /\ held \subseteq SessionIds \X Tokens
  /\ receipts \subseteq SessionIds
  /\ acked \in [SessionIds -> 0..MaxSequence]
  /\ settled \subseteq SessionIds

\* What a thread has established by the time it is at a program point.
PointOK ==
  \A t \in Threads :
    /\ pc[t] = "read" => req[t].op = "open"
    /\ pc[t] = "handle" /\ req[t].op = "open" => seen[t] \in Assignments
    /\ pc[t] \in {"snapshot", "persist"} =>
         /\ answer[t].session \in SessionIds
         /\ req[t].op \in {"open", "take"} => answer[t].token \in Tokens

\* The type invariant is inductive with what the program points imply.
TypeInv == StateTypes /\ ThreadTypes /\ ClientTypes /\ PointOK

-----------------------------------------------------------------------------
(* Lemmas on sessions and tables.                                          *)

\* Closing a session gives a session (Closed, every closing path).
LEMMA ClosedType ==
  ASSUME NEW session \in Session, NEW status \in Status
  PROVE  Closed(session, status) \in Session
BY DEF Closed, Session

\* Abandoning some sessions of a table gives a table (Abandoned).
LEMMA AbandonedType ==
  ASSUME NEW table, IsTable(table), NEW S
  PROVE  /\ IsTable(Abandoned(table, S))
         /\ DOMAIN Abandoned(table, S) = DOMAIN table
<1>1. \A s \in DOMAIN table : table[s] \in Session
  BY DEF IsTable
<1>2. "abandoned" \in Status
  BY DEF Status
<1>3. \A s \in DOMAIN table :
        (IF s \in S THEN Closed(table[s], "abandoned") ELSE table[s]) \in Session
  BY <1>1, <1>2, ClosedType
<1> QED
  BY <1>3 DEF IsTable, Abandoned

\* Adding or replacing a session of a table gives a table (With).
LEMMA WithType ==
  ASSUME NEW table, IsTable(table), NEW s \in SessionIds, NEW session \in Session
  PROVE  IsTable(With(table, s, session))
BY DEF IsTable, With

\* Updating one session of a table in place gives a table.
LEMMA UpdateType ==
  ASSUME NEW table, IsTable(table), NEW s \in DOMAIN table, NEW session \in Session
  PROVE  IsTable([table EXCEPT ![s] = session])
BY DEF IsTable

\* The empty table is a table.
LEMMA EmptyType == IsTable(EmptyTable)
BY DEF IsTable, EmptyTable

-----------------------------------------------------------------------------
(* Lemmas on threads: what Done, Goto and Save leave.                      *)

\* A thread that is done keeps the others' program points and all types (Done).
LEMMA DoneType ==
  ASSUME NEW t \in Threads, ThreadTypes, PointOK, Done(t)
  PROVE  ThreadTypes' /\ PointOK'
<1>1. NoView \in [Rooms -> Assignments \cup {NoAssignment}]
  BY DEF NoView
<1>2. NoAnswer \in Answers
  BY DEF NoAnswer, Answers
<1>3. NoRequest \in AllRequests
  BY DEF AllRequests
<1>4. ThreadTypes'
  BY <1>1, <1>2, <1>3, EmptyType DEF ThreadTypes, Done
<1>5. PointOK'
  BY DEF ThreadTypes, PointOK, Done
<1> QED
  BY <1>4, <1>5

\* Moving on to read or to handle keeps them too, once what the next point
\* relies on holds (Goto).
LEMMA GotoType ==
  ASSUME NEW t \in Threads, NEW point \in {"read", "handle"},
         ThreadTypes, PointOK, Goto(t, point),
         point = "read" => req[t].op = "open",
         point = "handle" => req[t].op # "open"
  PROVE  ThreadTypes' /\ PointOK'
<1>1. NoView \in [Rooms -> Assignments \cup {NoAssignment}]
  BY DEF NoView
<1>2. ThreadTypes'
  BY <1>1 DEF ThreadTypes, Goto
<1>3. PointOK'
  BY DEF ThreadTypes, PointOK, Goto
<1> QED
  BY <1>2, <1>3

\* So does an operation that goes on to save its session (Save).
LEMMA SaveType ==
  ASSUME NEW t \in Threads, NEW s \in SessionIds, NEW token \in Tokens \cup {NoToken},
         NEW result \in ResultIds \cup {NoResult},
         ThreadTypes, PointOK, Save(t, s, token, result),
         req[t].op \in {"open", "take"} => token \in Tokens
  PROVE  ThreadTypes' /\ PointOK'
<1>1. [session |-> s, token |-> token, result |-> result] \in Answers
  BY DEF Answers
<1>2. ThreadTypes'
  BY <1>1 DEF ThreadTypes, Save
<1>3. PointOK'
  BY DEF ThreadTypes, PointOK, Save
<1> QED
  BY <1>2, <1>3

\* The parts together are TypeOK.
LEMMA TypeParts == TypeInv => TypeOK
BY DEF TypeInv, TypeOK, StateTypes, ThreadTypes, ClientTypes, AllRequests

\* The bounds are numbers (ServerAssumption).
LEMMA Bounds ==
  /\ MaxSessions \in Nat /\ MaxTokens \in Nat
  /\ MaxSequence \in Nat /\ MaxResults \in Nat
BY ServerAssumption

\* Init establishes the type invariant.
LEMMA InitTypes == Init => TypeInv
<1> SUFFICES ASSUME Init PROVE TypeInv
  OBVIOUS
<1>1. NoView \in [Rooms -> Assignments \cup {NoAssignment}]
  BY DEF NoView
<1>2. NoAnswer \in Answers
  BY DEF NoAnswer, Answers
<1>3. 0 \in 0..MaxSessions /\ 0 \in 0..MaxTokens /\ 0 \in 0..MaxSequence
  BY Bounds
<1>3a. StateTypes
  BY <1>1, <1>3, EmptyType DEF Init, StateTypes
<1>4. ThreadTypes
  BY <1>1, <1>2, EmptyType DEF Init, ThreadTypes, AllRequests
<1>5. ClientTypes
  BY <1>3 DEF Init, ClientTypes, NoProgress
<1>6. PointOK
  BY DEF Init, PointOK
<1> QED
  BY <1>3a, <1>4, <1>5, <1>6 DEF TypeInv

-----------------------------------------------------------------------------
(* One lemma per action: it preserves the type invariant.                  *)

\* Clients and the host only ask what a request record can say (Requests).
LEMMA RequestTypes ==
  ASSUME StateTypes, ClientTypes
  PROVE  Requests \subseteq AllRequests
<1> SUFFICES ASSUME NEW r \in Requests PROVE r \in AllRequests
  OBVIOUS
<1>1. CASE r \in [op : {"open"}, room : Rooms, match : Matches, device : Devices]
  BY <1>1 DEF AllRequests, OpenRequests
<1>2. ASSUME NEW h \in held, NEW d \in Devices,
             r = [op |-> "take", session |-> h[1], token |-> h[2], device |-> d]
      PROVE  r \in AllRequests
  BY <1>2 DEF AllRequests, TakeRequests, ClientTypes
<1>3. ASSUME NEW h \in held, NEW n \in 1..MaxSequence,
             r = [op |-> "progress", session |-> h[1], token |-> h[2], sequence |-> n]
      PROVE  r \in AllRequests
  BY <1>3 DEF AllRequests, ProgressRequests, ClientTypes
<1>4. ASSUME NEW h \in held, NEW f \in Finals,
             r = [op |-> "result", session |-> h[1], token |-> h[2], final |-> f]
      PROVE  r \in AllRequests
  BY <1>4 DEF AllRequests, ResultRequests, ClientTypes
<1>5. ASSUME NEW s \in 1..opened, r = [op |-> "abandon", session |-> s]
      PROVE  r \in AllRequests
  <2>1. s \in SessionIds
    BY Bounds DEF StateTypes, SessionIds
  <2> QED
    BY <1>5, <2>1 DEF AllRequests, AbandonRequests
<1>6. CASE r = RefreshRequest
  BY <1>6 DEF AllRequests
<1> QED
  BY <1>1, <1>2, <1>3, <1>4, <1>5, <1>6 DEF Requests

\* A request reaches the server (Arrive).
LEMMA ArriveTypes ==
  ASSUME TypeInv, NEW t \in Threads, Arrive(t)
  PROVE  TypeInv'
<1>1. StateTypes /\ ThreadTypes /\ ClientTypes /\ PointOK
  BY DEF TypeInv
<1>2. PICK r \in Requests : req' = [req EXCEPT ![t] = r]
  BY DEF Arrive
<1>3. r \in AllRequests
  BY <1>1, RequestTypes
<1>4. PICK overdue \in SUBSET Live(sessions) : sessions' = Abandoned(sessions, overdue)
  BY DEF Arrive
<1>5. StateTypes'
  BY <1>1, <1>4, AbandonedType DEF StateTypes, Arrive, hostVars, ledgerVars
<1>6. ThreadTypes'
  BY <1>1, <1>2, <1>3 DEF ThreadTypes, StateTypes, Arrive
<1>7. ClientTypes'
  BY <1>1 DEF ClientTypes, Arrive, clientVars
<1>8. PointOK'
  BY <1>1, <1>2 DEF PointOK, ThreadTypes, Arrive
<1> QED
  BY <1>5, <1>6, <1>7, <1>8 DEF TypeInv

\* The request reconciles the sessions with the assignments it read (Reconcile).
LEMMA ReconcileTypes ==
  ASSUME TypeInv, NEW t \in Threads, Reconcile(t)
  PROVE  TypeInv'
<1>1. StateTypes /\ ThreadTypes /\ ClientTypes /\ PointOK
  BY DEF TypeInv
<1>2. sessions' = Abandoned(sessions, Mismatched(sessions, view[t]))
  BY DEF Reconcile
<1>3. StateTypes'
  BY <1>1, <1>2, AbandonedType DEF StateTypes, Reconcile, hostVars, ledgerVars
<1>4. ClientTypes'
  BY <1>1 DEF ClientTypes, Reconcile, clientVars
<1>5. ThreadTypes' /\ PointOK'
  <2>1. CASE req[t].op = "refresh"
    BY <1>1, <2>1, DoneType DEF Reconcile
  <2>2. CASE req[t].op = "open"
    BY <1>1, <2>2, GotoType DEF Reconcile
  <2>3. CASE req[t].op \notin {"refresh", "open"}
    BY <1>1, <2>3, GotoType DEF Reconcile
  <2> QED
    BY <2>1, <2>2, <2>3
<1> QED
  BY <1>3, <1>4, <1>5 DEF TypeInv

\* open_session reads the room's assignment (ReadAssignment).
LEMMA ReadAssignmentTypes ==
  ASSUME TypeInv, NEW t \in Threads, ReadAssignment(t)
  PROVE  TypeInv'
<1>1. StateTypes /\ ThreadTypes /\ ClientTypes /\ PointOK
  BY DEF TypeInv
<1>2. StateTypes' /\ ClientTypes'
  BY <1>1 DEF StateTypes, ClientTypes, ReadAssignment, hostVars, ledgerVars, clientVars
<1>3. CASE Done(t)
  BY <1>1, <1>2, <1>3, DoneType DEF TypeInv
<1>4. CASE ~Done(t)
  <2> DEFINE assignment == assigned[req[t].room]
  <2>1. /\ assignment # NoAssignment
        /\ seen' = [seen EXCEPT ![t] = assignment]
        /\ pc[t] = "read"
        /\ pc' = [pc EXCEPT ![t] = "handle"]
        /\ UNCHANGED <<req, view, copy, answer>>
    BY <1>4 DEF ReadAssignment
  <2>2. req[t].op = "open"
    BY <1>1, <2>1 DEF PointOK
  <2>3. req[t] \in OpenRequests
    BY <1>1, <2>2 DEF ThreadTypes, AllRequests, TakeRequests, ProgressRequests,
                      ResultRequests, AbandonRequests, RefreshRequest, NoRequest
  <2>4. assignment \in Assignments
    BY <1>1, <2>1, <2>3 DEF StateTypes, OpenRequests
  <2> HIDE DEF assignment
  <2>5. ThreadTypes'
    BY <1>1, <2>1, <2>4 DEF ThreadTypes
  <2>6. PointOK'
    BY <1>1, <2>1, <2>4 DEF PointOK, ThreadTypes
  <2> QED
    BY <1>2, <2>5, <2>6 DEF TypeInv
<1> QED
  BY <1>3, <1>4

\* The authority is copied under the lock (Snapshot).
LEMMA SnapshotTypes ==
  ASSUME TypeInv, NEW t \in Threads, Snapshot(t)
  PROVE  TypeInv'
<1>1. StateTypes' /\ ClientTypes'
  BY DEF TypeInv, StateTypes, ClientTypes, Snapshot, hostVars, ledgerVars, clientVars
<1>2. ThreadTypes'
  BY DEF TypeInv, StateTypes, ThreadTypes, Snapshot
<1>3. PointOK'
  BY DEF TypeInv, ThreadTypes, PointOK, Snapshot
<1> QED
  BY <1>1, <1>2, <1>3 DEF TypeInv

\* What a saved answer teaches the client is well typed (Acknowledge).
LEMMA AcknowledgeTypes ==
  ASSUME TypeInv, NEW t \in Threads, pc[t] = "persist", Acknowledge(t)
  PROVE  ClientTypes'
<1> DEFINE s == answer[t].session
<1>1. s \in SessionIds
  BY DEF TypeInv, PointOK
<1>2. (held \cup {<<s, answer[t].token>>} \subseteq SessionIds \X Tokens) \/
      req[t].op \notin {"open", "take"}
  BY <1>1 DEF TypeInv, PointOK, ClientTypes
<1>3. req[t].op = "progress" => req[t].sequence \in 0..MaxSequence
  BY DEF TypeInv, ThreadTypes, AllRequests, OpenRequests, TakeRequests,
         ProgressRequests, ResultRequests, AbandonRequests, RefreshRequest, NoRequest
<1> HIDE DEF s
<1>4. held' \subseteq SessionIds \X Tokens
  BY <1>2 DEF Acknowledge, TypeInv, ClientTypes, s
<1>5. receipts' \subseteq SessionIds /\ settled' \subseteq SessionIds
  BY <1>1 DEF Acknowledge, TypeInv, ClientTypes, s
<1>6. acked' \in [SessionIds -> 0..MaxSequence]
  BY <1>1, <1>3 DEF Acknowledge, TypeInv, ClientTypes, s
<1> QED
  BY <1>4, <1>5, <1>6 DEF ClientTypes

\* The copy is written, or the write fails (Persist).
LEMMA PersistTypes ==
  ASSUME TypeInv, NEW t \in Threads, Persist(t)
  PROVE  TypeInv'
<1>1. StateTypes'
  BY DEF TypeInv, StateTypes, ThreadTypes, Persist, hostVars, ledgerVars, clientVars
<1>2. ThreadTypes' /\ PointOK'
  BY DoneType DEF Persist, TypeInv
<1>3. ClientTypes'
  <2>1. CASE Acknowledge(t)
    BY <2>1, AcknowledgeTypes DEF Persist
  <2>2. CASE UNCHANGED clientVars
    BY <2>2 DEF TypeInv, ClientTypes, clientVars
  <2> QED
    BY <2>1, <2>2 DEF Persist
<1> QED
  BY <1>1, <1>2, <1>3 DEF TypeInv

\* A refused request leaves everything but its thread (Refuse).
LEMMA RefuseTypes ==
  ASSUME TypeInv, NEW t \in Threads, Refuse(t)
  PROVE  TypeInv'
<1>1. StateTypes' /\ ClientTypes'
  BY DEF TypeInv, StateTypes, ClientTypes, Refuse, hostVars, ledgerVars, clientVars
<1>2. ThreadTypes' /\ PointOK'
  BY DoneType DEF Refuse, TypeInv
<1> QED
  BY <1>1, <1>2 DEF TypeInv

\* The operation tells what else a request carries.
LEMMA RequestKinds ==
  ASSUME ThreadTypes, NEW t \in Threads
  PROVE  /\ req[t].op = "open" => req[t] \in OpenRequests
         /\ req[t].op = "take" => req[t] \in TakeRequests
         /\ req[t].op = "progress" => req[t] \in ProgressRequests
         /\ req[t].op = "result" => req[t] \in ResultRequests
         /\ req[t].op = "abandon" => req[t] \in AbandonRequests
BY DEF ThreadTypes, AllRequests, OpenRequests, TakeRequests, ProgressRequests,
       ResultRequests, AbandonRequests, RefreshRequest, NoRequest

\* A new session is a session (NewSession).
LEMMA NewSessionType ==
  ASSUME NEW room \in Rooms, NEW assignment \in Assignments, NEW device \in Devices,
         NEW token \in Tokens
  PROVE  NewSession(room, assignment, device, token) \in Session
<1>1. NoProgress \in 0..MaxSequence
  BY Bounds DEF NoProgress
<1>2. [d \in Devices |-> IF d = device THEN token ELSE NoToken]
        \in [Devices -> Tokens \cup {NoToken}]
  OBVIOUS
<1> QED
  BY <1>1, <1>2 DEF NewSession, Session, Status

\* open_session creates a session (OpenNewSession).
LEMMA OpenNewSessionTypes ==
  ASSUME TypeInv, NEW t \in Threads, OpenNewSession(t)
  PROVE  TypeInv'
<1> DEFINE s == opened + 1
           token == issued + 1
           new == NewSession(req[t].room, seen[t], req[t].device, token)
<1>1. s \in SessionIds /\ token \in Tokens /\ opened' = s /\ issued' = token
  BY DEF OpenNewSession
<1>2. req[t] \in OpenRequests /\ seen[t] \in Assignments
  BY RequestKinds DEF OpenNewSession, Handling, TypeInv, PointOK
<1>3. new \in Session
  BY <1>1, <1>2, NewSessionType DEF OpenRequests
<1>4. sessions' = With(sessions, s, new)
  BY DEF OpenNewSession
<1>5. Save(t, s, token, NoResult)
  BY DEF OpenNewSession
<1>6. s \in 0..MaxSessions /\ token \in 0..MaxTokens
  BY <1>1, Bounds DEF SessionIds, Tokens
<1> HIDE DEF s, token, new
<1>7. StateTypes'
  BY <1>1, <1>3, <1>4, <1>6, WithType
  DEF TypeInv, StateTypes, OpenNewSession, hostVars, ledgerVars
<1>8. ClientTypes'
  BY DEF TypeInv, ClientTypes, OpenNewSession, clientVars
<1>9. ThreadTypes' /\ PointOK'
  BY <1>1, <1>5, SaveType DEF TypeInv
<1> QED
  BY <1>7, <1>8, <1>9 DEF TypeInv

\* open_session finds a session to resume (ResumeSession).
LEMMA ResumeSessionTypes ==
  ASSUME TypeInv, NEW t \in Threads, ResumeSession(t)
  PROVE  TypeInv'
<1>1. req[t] \in OpenRequests /\ req[t].op = "open"
  BY RequestKinds DEF ResumeSession, Handling, TypeInv
<1>2. PICK s \in Resumable(req[t].room, seen[t]) :
        LET token == sessions[s].credentials[req[t].device] IN
        \/ /\ token # NoToken
           /\ Save(t, s, token, NoResult)
           /\ UNCHANGED <<sessions, issued>>
        \/ /\ token = NoToken
           /\ issued + 1 \in Tokens
           /\ issued' = issued + 1
           /\ sessions' = [sessions EXCEPT ![s].credentials[req[t].device] = issued + 1]
           /\ Save(t, s, issued + 1, NoResult)
  BY DEF ResumeSession
<1> DEFINE token == sessions[s].credentials[req[t].device]
<1>3. s \in DOMAIN sessions /\ s \in SessionIds /\ sessions[s] \in Session
  BY DEF Resumable, TypeInv, StateTypes, IsTable
<1>4. token \in Tokens \cup {NoToken}
  BY <1>1, <1>3 DEF Session, OpenRequests
<1>5. ClientTypes'
  BY DEF TypeInv, ClientTypes, ResumeSession, clientVars
<1>6. CASE token # NoToken
  <2>1. Save(t, s, token, NoResult) /\ UNCHANGED <<sessions, issued>> /\ token \in Tokens
    BY <1>2, <1>4, <1>6
  <2> HIDE DEF token
  <2>2. ThreadTypes' /\ PointOK'
    BY <2>1, <1>3, SaveType DEF TypeInv
  <2>3. StateTypes'
    BY <2>1 DEF TypeInv, StateTypes, ResumeSession, hostVars, ledgerVars
  <2> QED
    BY <1>5, <2>2, <2>3 DEF TypeInv
<1>7. CASE token = NoToken
  <2> DEFINE new == [sessions[s] EXCEPT !.credentials[req[t].device] = issued + 1]
  <2>1. /\ issued + 1 \in Tokens
        /\ issued' = issued + 1
        /\ sessions' = [sessions EXCEPT ![s] = new]
        /\ Save(t, s, issued + 1, NoResult)
    BY <1>2, <1>7
  <2>2. new \in Session
    BY <1>1, <1>3, <2>1 DEF Session, OpenRequests
  <2>3. issued + 1 \in 0..MaxTokens
    BY <2>1, Bounds DEF Tokens
  <2> HIDE DEF new
  <2>4. StateTypes'
    BY <1>3, <2>1, <2>2, <2>3, UpdateType
    DEF TypeInv, StateTypes, ResumeSession, hostVars, ledgerVars
  <2>5. ThreadTypes' /\ PointOK'
    BY <2>1, <1>3, SaveType DEF TypeInv
  <2> QED
    BY <1>5, <2>4, <2>5 DEF TypeInv
<1> QED
  BY <1>6, <1>7

\* A device takes the writer lock (TakeWriter).
LEMMA TakeWriterTypes ==
  ASSUME TypeInv, NEW t \in Threads, TakeWriter(t)
  PROVE  TypeInv'
<1> DEFINE s == req[t].session
           new == [sessions[s] EXCEPT !.writerToken = req[t].token,
                                      !.writerDevice = req[t].device]
<1>1. req[t] \in TakeRequests
  BY RequestKinds DEF TakeWriter, Handling, TypeInv
<1>2. CASE Refuse(t)
  BY <1>2, RefuseTypes
<1>3. CASE ~Refuse(t)
  <2>1. /\ s \in DOMAIN sessions
        /\ sessions' = [sessions EXCEPT ![s] = new]
        /\ Save(t, s, req[t].token, NoResult)
        /\ UNCHANGED <<up, hostVars, opened, issued, ledgerVars, vault, clientVars>>
    BY <1>3 DEF TakeWriter, Authentic
  <2>2. sessions[s] \in Session /\ s \in SessionIds
    BY <2>1 DEF TypeInv, StateTypes, IsTable
  <2>3. new \in Session
    BY <1>1, <2>2 DEF Session, TakeRequests
  <2>4. req[t].token \in Tokens
    BY <1>1 DEF TakeRequests
  <2> HIDE DEF new, s
  <2>5. StateTypes' /\ ClientTypes'
    BY <2>1, <2>3, UpdateType
    DEF TypeInv, StateTypes, ClientTypes, hostVars, ledgerVars, clientVars
  <2>6. ThreadTypes' /\ PointOK'
    BY <2>1, <2>2, <2>4, SaveType DEF TypeInv
  <2> QED
    BY <2>5, <2>6 DEF TypeInv
<1> QED
  BY <1>2, <1>3

\* The writer's progress is recorded (Progress).
LEMMA ProgressTypes ==
  ASSUME TypeInv, NEW t \in Threads, Progress(t)
  PROVE  TypeInv'
<1> DEFINE s == req[t].session
           new == [sessions[s] EXCEPT !.progress = req[t].sequence]
<1>1. req[t] \in ProgressRequests
  BY RequestKinds DEF Progress, Handling, TypeInv
<1>2. CASE Refuse(t)
  BY <1>2, RefuseTypes
<1>3. CASE ~Refuse(t)
  <2>1. /\ s \in DOMAIN sessions
        /\ sessions' = [sessions EXCEPT ![s] = new]
        /\ Save(t, s, req[t].token, NoResult)
        /\ UNCHANGED <<up, hostVars, opened, issued, ledgerVars, vault, clientVars>>
    BY <1>3 DEF Progress, FromWriter, Authentic
  <2>2. sessions[s] \in Session /\ s \in SessionIds
    BY <2>1 DEF TypeInv, StateTypes, IsTable
  <2>3. req[t].sequence \in 0..MaxSequence /\ req[t].token \in Tokens
    BY <1>1 DEF ProgressRequests
  <2>4. new \in Session
    BY <2>2, <2>3 DEF Session
  <2> HIDE DEF new, s
  <2>5. StateTypes' /\ ClientTypes'
    BY <2>1, <2>4, UpdateType
    DEF TypeInv, StateTypes, ClientTypes, hostVars, ledgerVars, clientVars
  <2>6. ThreadTypes' /\ PointOK'
    BY <2>1, <2>2, <2>3, SaveType DEF TypeInv
  <2> QED
    BY <2>5, <2>6 DEF TypeInv
<1> QED
  BY <1>2, <1>3

\* The record a result is answered with is well typed (Disposition).
LEMMA DispositionType ==
  ASSUME NEW s \in SessionIds, NEW final \in Finals, memory \subseteq Retained,
         NEW r \in Disposition(s, final)
  PROVE  r \in Retained
<1>1. CASE r \in memory
  BY <1>1
<1>2. CASE r \notin memory
  <2>1. PICK id \in ResultIds :
          r = [id |-> id, session |-> s, match |-> final.match, body |-> final.body,
               review |-> NeedsReview(s, final)]
    BY <1>2 DEF Disposition
  <2>2. final.match \in Matches \cup {NoMatch} /\ final.body \in Bodies
    BY ServerAssumption
  <2>3. NeedsReview(s, final) \in BOOLEAN
    BY DEF NeedsReview
  <2> QED
    BY <2>1, <2>2, <2>3 DEF Retained
<1> QED
  BY <1>1, <1>2

\* A session with its final recorded is a session (Finalized).
LEMMA FinalizedType ==
  ASSUME NEW session \in Session, NEW id \in ResultIds
  PROVE  Finalized(session, id) \in Session
<1> DEFINE closed == IF session.status = "open"
                     THEN Closed(session, "final-received") ELSE session
<1>1. closed \in Session
  BY ClosedType DEF Status
<1>2. (IF session.result = NoResult THEN id ELSE session.result)
        \in ResultIds \cup {NoResult}
  BY DEF Session
<1> HIDE DEF closed
<1>3. [closed EXCEPT !.result = IF session.result = NoResult THEN id ELSE session.result]
        \in Session
  BY <1>1, <1>2 DEF Session
<1> QED
  BY <1>3 DEF Finalized, closed

\* A final is retained, or its row cannot be written (Result).
LEMMA ResultTypes ==
  ASSUME TypeInv, NEW t \in Threads, Result(t)
  PROVE  TypeInv'
<1> DEFINE s == req[t].session
<1>1. req[t] \in ResultRequests
  BY RequestKinds DEF Result, Handling, TypeInv
<1>2. s \in SessionIds /\ req[t].final \in Finals /\ req[t].token \in Tokens
  BY <1>1 DEF ResultRequests
<1>3. CASE Refuse(t)
  BY <1>3, RefuseTypes
<1>4. CASE ~Refuse(t)
  <2>1. s \in DOMAIN sessions /\ sessions[s] \in Session
    BY <1>4 DEF Result, Authentic, TypeInv, StateTypes, IsTable
  <2>2. PICK r \in Disposition(s, req[t].final) :
          /\ memory' = memory \cup {r}
          /\ \/ /\ durable' = durable \cup {r}
                /\ sessions' = [sessions EXCEPT ![s] = Finalized(sessions[s], r.id)]
                /\ Save(t, s, req[t].token, r.id)
             \/ /\ "result write" \in Faults
                /\ Done(t)
                /\ UNCHANGED <<durable, sessions>>
          /\ UNCHANGED <<up, hostVars, opened, issued, vault, clientVars>>
    BY <1>4 DEF Result
  <2>3. r \in Retained
    BY <1>2, DispositionType DEF TypeInv, StateTypes
  <2>4. r.id \in ResultIds
    BY <2>3 DEF Retained
  <2> HIDE DEF s
  <2>5. ClientTypes'
    BY <2>2 DEF TypeInv, ClientTypes, clientVars
  <2>6. CASE /\ durable' = durable \cup {r}
             /\ sessions' = [sessions EXCEPT ![s] = Finalized(sessions[s], r.id)]
             /\ Save(t, s, req[t].token, r.id)
    <3>1. IsTable(sessions')
      BY <2>1, <2>4, <2>6, FinalizedType, UpdateType DEF TypeInv, StateTypes
    <3>2. StateTypes'
      BY <2>2, <2>3, <2>6, <3>1 DEF TypeInv, StateTypes, hostVars
    <3>3. ThreadTypes' /\ PointOK'
      BY <1>2, <2>4, <2>6, SaveType DEF TypeInv
    <3> QED
      BY <2>5, <3>2, <3>3 DEF TypeInv
  <2>7. CASE Done(t) /\ UNCHANGED <<durable, sessions>>
    <3>1. StateTypes'
      BY <2>2, <2>3, <2>7 DEF TypeInv, StateTypes, hostVars
    <3>2. ThreadTypes' /\ PointOK'
      BY <2>7, DoneType DEF TypeInv
    <3> QED
      BY <2>5, <3>1, <3>2 DEF TypeInv
  <2> QED
    BY <2>2, <2>6, <2>7
<1> QED
  BY <1>3, <1>4

\* The host abandons a session (Abandon).
LEMMA AbandonTypes ==
  ASSUME TypeInv, NEW t \in Threads, Abandon(t)
  PROVE  TypeInv'
<1> DEFINE s == req[t].session
<1>1. req[t] \in AbandonRequests /\ req[t].op = "abandon"
  BY RequestKinds DEF Abandon, Handling, TypeInv
<1>2. s \in SessionIds
  BY <1>1 DEF AbandonRequests
<1>3. CASE Refuse(t)
  BY <1>3, RefuseTypes
<1>4. CASE /\ sessions' = Abandoned(sessions, {s})
           /\ Save(t, s, NoToken, NoResult)
           /\ UNCHANGED <<up, hostVars, opened, issued, ledgerVars, vault, clientVars>>
  <2> HIDE DEF s
  <2>1. StateTypes' /\ ClientTypes'
    BY <1>4, AbandonedType
    DEF TypeInv, StateTypes, ClientTypes, hostVars, ledgerVars, clientVars
  <2>2. ThreadTypes' /\ PointOK'
    BY <1>1, <1>2, <1>4, SaveType DEF TypeInv
  <2> QED
    BY <2>1, <2>2 DEF TypeInv
<1>5. CASE /\ settled' = settled \cup {s}
           /\ Done(t)
           /\ UNCHANGED <<up, hostVars, sessions, opened, issued, ledgerVars, vault,
                          held, receipts, acked>>
  <2>1. StateTypes' /\ ClientTypes'
    BY <1>2, <1>5 DEF TypeInv, StateTypes, ClientTypes, hostVars, ledgerVars
  <2>2. ThreadTypes' /\ PointOK'
    BY <1>5, DoneType DEF TypeInv
  <2> QED
    BY <2>1, <2>2 DEF TypeInv
<1> QED
  BY <1>3, <1>4, <1>5 DEF Abandon

\* The listener stops (Stop).
LEMMA StopTypes ==
  ASSUME TypeInv, Stop
  PROVE  TypeInv'
<1>1. NoView \in [Rooms -> Assignments \cup {NoAssignment}]
  BY DEF NoView
<1>2. NoAnswer \in Answers
  BY DEF NoAnswer, Answers
<1>3. StateTypes' /\ ClientTypes'
  BY EmptyType DEF TypeInv, StateTypes, ClientTypes, Stop, hostVars, clientVars
<1>4. ThreadTypes'
  BY <1>1, <1>2, EmptyType DEF ThreadTypes, Stop, AllRequests
<1>5. PointOK'
  BY DEF PointOK, Stop
<1> QED
  BY <1>3, <1>4, <1>5 DEF TypeInv

\* A restored session is a session (Restored).
LEMMA RestoredType ==
  ASSUME NEW session \in Session
  PROVE  Restored(session) \in Session
<1> DEFINE token == IF session.writerDevice \in Devices
                    THEN session.credentials[session.writerDevice] ELSE NoToken
           writer == session.status = "open" /\ token # NoToken
<1>1. token \in Tokens \cup {NoToken}
  BY DEF Session
<1>2. (IF writer THEN token ELSE NoToken) \in Tokens \cup {NoToken}
  BY <1>1
<1>3. (IF writer THEN session.writerDevice ELSE NoDevice) \in Devices \cup {NoDevice}
  BY DEF Session
<1> HIDE DEF token, writer
<1>4. [session EXCEPT !.writerToken = IF writer THEN token ELSE NoToken,
                      !.writerDevice = IF writer THEN session.writerDevice ELSE NoDevice]
        \in Session
  BY <1>2, <1>3 DEF Session
<1> QED
  BY <1>4 DEF Restored, token, writer

\* What a start restores from a vault.
RestoredTable(table) == [s \in DOMAIN table |-> Restored(table[s])]

\* The server starts from the vault (Start).
LEMMA StartTypes ==
  ASSUME TypeInv, Start
  PROVE  TypeInv'
<1> DEFINE table == RestoredTable(vault)
<1>1. IsTable(table)
  BY RestoredType DEF RestoredTable, IsTable, TypeInv, StateTypes
<1>2. sessions' = Abandoned(table, Mismatched(table, assigned)) /\ vault' = sessions'
  BY DEF Start, RestoredTable
<1>3. memory' \subseteq Retained
  BY DEF Start, TypeInv, StateTypes
<1> HIDE DEF table
<1>4. IsTable(sessions') /\ IsTable(vault')
  BY <1>1, <1>2, AbandonedType
<1>5. StateTypes' /\ ClientTypes'
  BY <1>3, <1>4 DEF TypeInv, StateTypes, ClientTypes, Start, hostVars, clientVars
<1>6. ThreadTypes' /\ PointOK'
  BY DEF TypeInv, ThreadTypes, PointOK, Start, threadVars
<1> QED
  BY <1>5, <1>6 DEF TypeInv

\* The host's own actions away from the server (AssignRoom, ForgetCredentials).
LEMMA HostTypes ==
  ASSUME TypeInv, ForgetCredentials \/ \E room \in Rooms : AssignRoom(room)
  PROVE  TypeInv'
<1>1. CASE ForgetCredentials
  BY <1>1, EmptyType DEF TypeInv, StateTypes, ThreadTypes, ClientTypes, PointOK,
     ForgetCredentials, hostVars, ledgerVars, threadVars, clientVars
<1>2. ASSUME NEW room \in Rooms, AssignRoom(room) PROVE TypeInv'
  <2>1. assigned' \in [Rooms -> Assignments \cup {NoAssignment}]
    BY <1>2 DEF AssignRoom, TypeInv, StateTypes
  <2> QED
    BY <1>2, <2>1 DEF TypeInv, StateTypes, ThreadTypes, ClientTypes, PointOK,
       AssignRoom, ledgerVars, threadVars, clientVars
<1> QED
  BY <1>1, <1>2

-----------------------------------------------------------------------------
(* The type invariant is inductive.                                        *)

\* Every request, and a stop and a start of the server, keeps its types.
LEMMA NextTypes == TypeInv /\ [Next]_vars => TypeInv'
<1> SUFFICES ASSUME TypeInv, [Next]_vars PROVE TypeInv'
  OBVIOUS
<1>1. ASSUME NEW t \in Threads, Step(t) PROVE TypeInv'
  <2>1. CASE OutOfIds(t)
    BY <2>1, RefuseTypes DEF OutOfIds
  <2> QED
    BY <1>1, <2>1, ArriveTypes, ReconcileTypes, ReadAssignmentTypes,
       OpenNewSessionTypes, ResumeSessionTypes, TakeWriterTypes, ProgressTypes,
       ResultTypes, AbandonTypes, SnapshotTypes, PersistTypes DEF Step
<1>2. CASE Stop \/ Start \/ ForgetCredentials \/ \E room \in Rooms : AssignRoom(room)
  BY <1>2, StopTypes, StartTypes, HostTypes
<1>3. CASE UNCHANGED vars
  BY <1>3 DEF vars, TypeInv, StateTypes, ThreadTypes, ClientTypes, PointOK,
     hostVars, ledgerVars, threadVars, clientVars
<1> QED
  BY <1>1, <1>2, <1>3 DEF Next

\* Every variable of the server keeps its type, and every thread has at each of
\* its program points what its next step relies on.
THEOREM TypeInvariant == Spec => [](TypeOK /\ PointOK)
<1>1. Init => TypeInv
  BY InitTypes
<1>2. TypeInv /\ [Next]_vars => TypeInv'
  BY NextTypes
<1>3. TypeInv => TypeOK /\ PointOK
  BY TypeParts DEF TypeInv
<1> QED
  BY <1>1, <1>2, <1>3, PTL DEF Spec

\* What Done, Goto and Save leave to the other threads, and the answer they give.
LEMMA DoneOwn ==
  ASSUME TypeInv, NEW t \in Threads, Done(t)
  PROVE  /\ answer'[t].result = NoResult
         /\ \A x \in Threads \ {t} :
              pc'[x] = pc[x] /\ req'[x] = req[x] /\ answer'[x] = answer[x]
         /\ \A x \in Threads : copy'[x] = copy[x] \/ copy'[x] = EmptyTable
BY DEF TypeInv, ThreadTypes, Done, NoAnswer

\* A thread that only goes on disturbs no other and answers nothing yet.
LEMMA GotoOwn ==
  ASSUME TypeInv, NEW t \in Threads, NEW point, Goto(t, point)
  PROVE  /\ copy' = copy /\ answer' = answer /\ req' = req
         /\ \A x \in Threads \ {t} : pc'[x] = pc[x]
BY DEF TypeInv, ThreadTypes, Goto

\* A thread about to save has its answer ready and disturbs no other.
LEMMA SaveOwn ==
  ASSUME TypeInv, NEW t \in Threads, NEW s, NEW token, NEW result,
         Save(t, s, token, result)
  PROVE  /\ pc'[t] = "snapshot" /\ req' = req /\ copy' = copy
         /\ answer'[t].session = s /\ answer'[t].token = token /\ answer'[t].result = result
         /\ \A x \in Threads \ {t} : pc'[x] = pc[x] /\ answer'[x] = answer[x]
BY DEF TypeInv, ThreadTypes, Save

-----------------------------------------------------------------------------
(* One usable session per assignment.  Every table is made from another one *)
(* that had no two: a step either keeps every session's binding and revives *)
(* none, or adds the one session open_session found missing.                *)

\* U has no session T does not have, binds each as T does, and revives none.
Keeps(T, U) ==
  /\ DOMAIN U \subseteq DOMAIN T
  /\ \A s \in DOMAIN U : /\ U[s].room = T[s].room
                         /\ U[s].assignment = T[s].assignment
                         /\ U[s].status # "abandoned" => T[s].status # "abandoned"

\* A table kept from an exclusive one is exclusive.
LEMMA KeepsExclusive ==
  ASSUME NEW T, NEW U, Keeps(T, U), Exclusive(T)
  PROVE  Exclusive(U)
BY DEF Keeps, Exclusive

\* Abandoning sessions keeps the table (Abandoned).
LEMMA AbandonedKeeps ==
  ASSUME NEW table, IsTable(table), NEW S
  PROVE  Keeps(table, Abandoned(table, S))
BY DEF Keeps, Abandoned, Closed, IsTable, Session

\* Updating a session keeps the table if it keeps the session.
LEMMA UpdateKeeps ==
  ASSUME NEW table, IsTable(table), NEW s \in DOMAIN table, NEW session,
         session.room = table[s].room, session.assignment = table[s].assignment,
         session.status # "abandoned" => table[s].status # "abandoned"
  PROVE  Keeps(table, [table EXCEPT ![s] = session])
BY DEF Keeps, IsTable

\* Restoring a table keeps it (Restored).
LEMMA RestoredKeeps ==
  ASSUME NEW table, IsTable(table)
  PROVE  Keeps(table, RestoredTable(table))
<1>1. ASSUME NEW session \in Session
      PROVE  /\ Restored(session).room = session.room
             /\ Restored(session).assignment = session.assignment
             /\ Restored(session).status = session.status
  BY <1>1 DEF Restored, Session
<1> QED
  BY <1>1 DEF Keeps, RestoredTable, IsTable

\* Recording a final keeps the session (Finalized).
LEMMA FinalizedKeeps ==
  ASSUME NEW session \in Session, NEW id
  PROVE  /\ Finalized(session, id).room = session.room
         /\ Finalized(session, id).assignment = session.assignment
         /\ Finalized(session, id).status # "abandoned" => session.status # "abandoned"
BY DEF Finalized, Closed, Session


\* A step that keeps the running table, the vault and every thread's copy, or
\* empties a copy, keeps exclusiveness.
LEMMA KeptTables ==
  ASSUME OneSessionPerAssignment, TypeInv, Keeps(sessions, sessions'), vault' = vault,
         \A t \in Threads : copy'[t] = copy[t] \/ copy'[t] = EmptyTable
  PROVE  OneSessionPerAssignment'
<1>1. Exclusive(EmptyTable)
  BY DEF Exclusive, EmptyTable
<1>2. Exclusive(sessions')
  BY KeepsExclusive DEF OneSessionPerAssignment
<1>3. Exclusive(vault')
  BY DEF OneSessionPerAssignment
<1>4. \A t \in Threads : Exclusive(copy'[t])
  BY <1>1 DEF OneSessionPerAssignment
<1> QED
  BY <1>2, <1>3, <1>4 DEF OneSessionPerAssignment

\* A thread that is done, goes on or goes to save leaves the other copies alone.
LEMMA CopiesKept ==
  ASSUME TypeInv, NEW t \in Threads, Done(t) \/ copy' = copy
  PROVE  \A x \in Threads : copy'[x] = copy[x] \/ copy'[x] = EmptyTable
BY DEF Done, TypeInv, ThreadTypes

\* One lemma per way a step can touch a table.

\* Requests come in and reconcile: sessions are only abandoned.
LEMMA ReconcileExclusive ==
  ASSUME TypeInv, OneSessionPerAssignment, NEW t \in Threads, Arrive(t) \/ Reconcile(t)
  PROVE  OneSessionPerAssignment'
<1>1. PICK S : sessions' = Abandoned(sessions, S)
  BY DEF Arrive, Reconcile
<1>2. Keeps(sessions, sessions')
  BY <1>1, AbandonedKeeps DEF TypeInv, StateTypes
<1>3. vault' = vault
  BY DEF Arrive, Reconcile
<1>4. Done(t) \/ copy' = copy
  BY DEF Arrive, Reconcile, Goto
<1> QED
  BY <1>2, <1>3, <1>4, CopiesKept, KeptTables

\* A request that leaves the sessions alone (Refuse, ReadAssignment).
LEMMA RefuseExclusive ==
  ASSUME TypeInv, OneSessionPerAssignment, NEW t \in Threads,
         Refuse(t) \/ ReadAssignment(t)
  PROVE  OneSessionPerAssignment'
<1>1. Keeps(sessions, sessions')
  BY DEF Refuse, ReadAssignment, Keeps
<1>2. vault' = vault /\ (Done(t) \/ copy' = copy)
  BY DEF Refuse, ReadAssignment
<1> QED
  BY <1>1, <1>2, CopiesKept, KeptTables

\* The lock is what makes the check and the creation one step (OpenNewSession).
LEMMA OpenExclusive ==
  ASSUME TypeInv, OneSessionPerAssignment, NEW t \in Threads, OpenNewSession(t)
  PROVE  OneSessionPerAssignment'
<1> DEFINE s == opened + 1
           new == NewSession(req[t].room, seen[t], req[t].device, issued + 1)
<1>1. sessions' = With(sessions, s, new) /\ Resumable(req[t].room, seen[t]) = {}
  BY DEF OpenNewSession
<1>2. \A x \in DOMAIN sessions : sessions[x].status # "abandoned" =>
        sessions[x].room # new.room \/ sessions[x].assignment # new.assignment
  BY <1>1 DEF Resumable, NewSession
<1>3. Exclusive(sessions)
  BY DEF OneSessionPerAssignment
<1> HIDE DEF s, new
<1>4. Exclusive(sessions')
  BY <1>1, <1>2, <1>3 DEF Exclusive, With
<1>5. vault' = vault /\ copy' = copy
  BY DEF OpenNewSession, Save
<1> QED
  BY <1>4, <1>5 DEF OneSessionPerAssignment

\* An operation on an existing session keeps its room, its assignment and its
\* status, or closes it (ResumeSession, TakeWriter, Progress, Result, Abandon).
LEMMA UpdateExclusive ==
  ASSUME TypeInv, OneSessionPerAssignment, NEW t \in Threads,
         ResumeSession(t) \/ TakeWriter(t) \/ Progress(t) \/ Result(t) \/ Abandon(t)
  PROVE  OneSessionPerAssignment'
<1>1. CASE Refuse(t)
  BY <1>1, RefuseExclusive
<1>2. CASE ~Refuse(t)
  <2>1. IsTable(sessions) /\ \A s \in DOMAIN sessions : sessions[s] \in Session
    BY DEF TypeInv, StateTypes, IsTable
  <2>2. Keeps(sessions, sessions)
    BY DEF Keeps
  <2>3. vault' = vault /\ (Done(t) \/ copy' = copy)
    BY <1>2 DEF ResumeSession, TakeWriter, Progress, Result, Abandon, Save
  <2>4. CASE ResumeSession(t)
    <3>1. ASSUME NEW s \in DOMAIN sessions,
                 sessions' = [sessions EXCEPT ![s].credentials[req[t].device] = issued + 1]
          PROVE  Keeps(sessions, sessions')
      BY <2>1, <3>1, UpdateKeeps DEF Session
    <3>2. Keeps(sessions, sessions')
      BY <2>2, <2>4, <3>1 DEF ResumeSession, Resumable
    <3> QED
      BY <2>3, <3>2, CopiesKept, KeptTables
  <2>5. CASE TakeWriter(t)
    <3>1. Keeps(sessions, sessions')
      BY <1>2, <2>1, <2>5, UpdateKeeps DEF TakeWriter, Authentic, Session
    <3> QED
      BY <2>3, <3>1, CopiesKept, KeptTables
  <2>6. CASE Progress(t)
    <3>1. Keeps(sessions, sessions')
      BY <1>2, <2>1, <2>6, UpdateKeeps DEF Progress, FromWriter, Authentic, Session
    <3> QED
      BY <2>3, <3>1, CopiesKept, KeptTables
  <2>7. CASE Result(t)
    <3>1. ASSUME NEW s \in DOMAIN sessions, NEW id,
                 sessions' = [sessions EXCEPT ![s] = Finalized(sessions[s], id)]
          PROVE  Keeps(sessions, sessions')
      BY <2>1, <3>1, FinalizedKeeps, UpdateKeeps
    <3>2. Keeps(sessions, sessions')
      BY <1>2, <2>2, <2>7, <3>1 DEF Result, Authentic
    <3> QED
      BY <2>3, <3>2, CopiesKept, KeptTables
  <2>8. CASE Abandon(t)
    <3>1. Keeps(sessions, sessions')
      BY <1>2, <2>1, <2>2, <2>8, AbandonedKeeps DEF Abandon
    <3> QED
      BY <2>3, <3>1, CopiesKept, KeptTables
  <2> QED
    BY <2>4, <2>5, <2>6, <2>7, <2>8
<1> QED
  BY <1>1, <1>2

\* Saving copies one exclusive table to another, however late (Snapshot, Persist).
LEMMA SaveExclusive ==
  ASSUME TypeInv, OneSessionPerAssignment, NEW t \in Threads, Snapshot(t) \/ Persist(t)
  PROVE  OneSessionPerAssignment'
<1>1. CASE Snapshot(t)
  BY <1>1 DEF Snapshot, OneSessionPerAssignment, TypeInv, ThreadTypes
<1>2. CASE Persist(t)
  <2>1. sessions' = sessions /\ vault' \in {vault, copy[t]}
    BY <1>2 DEF Persist
  <2>2. Exclusive(EmptyTable)
    BY DEF Exclusive, EmptyTable
  <2>3. \A x \in Threads : copy'[x] = copy[x] \/ copy'[x] = EmptyTable
    BY <1>2, CopiesKept DEF Persist
  <2>4. Exclusive(sessions') /\ Exclusive(vault')
    BY <2>1 DEF OneSessionPerAssignment
  <2> QED
    BY <2>2, <2>3, <2>4 DEF OneSessionPerAssignment
<1> QED
  BY <1>1, <1>2

\* The Director stops, starts or forgets (Stop, Start, ForgetCredentials, AssignRoom).
LEMMA HostExclusive ==
  ASSUME TypeInv, OneSessionPerAssignment,
         Stop \/ Start \/ ForgetCredentials \/ \E room \in Rooms : AssignRoom(room)
  PROVE  OneSessionPerAssignment'
<1>1. Exclusive(EmptyTable)
  BY DEF Exclusive, EmptyTable
<1>2. CASE Stop
  BY <1>1, <1>2 DEF Stop, OneSessionPerAssignment
<1>3. CASE Start
  <2> DEFINE table == RestoredTable(vault)
  <2>1. IsTable(vault)
    BY DEF TypeInv, StateTypes
  <2>2. IsTable(table)
    BY <2>1, RestoredType DEF RestoredTable, IsTable
  <2>3. Exclusive(table)
    BY <2>1, RestoredKeeps, KeepsExclusive DEF OneSessionPerAssignment
  <2>4. /\ sessions' = Abandoned(table, Mismatched(table, assigned))
        /\ vault' = sessions' /\ copy' = copy
    BY <1>3 DEF Start, RestoredTable, threadVars
  <2> HIDE DEF table
  <2>5. Exclusive(sessions')
    BY <2>2, <2>3, <2>4, AbandonedKeeps, KeepsExclusive
  <2> QED
    BY <2>4, <2>5 DEF OneSessionPerAssignment
<1>4. CASE ForgetCredentials
  BY <1>1, <1>4 DEF ForgetCredentials, OneSessionPerAssignment, threadVars
<1>5. ASSUME NEW room \in Rooms, AssignRoom(room) PROVE OneSessionPerAssignment'
  BY <1>5 DEF AssignRoom, OneSessionPerAssignment, threadVars
<1> QED
  BY <1>2, <1>3, <1>4, <1>5

\* No request brings a second open session to an assignment.
LEMMA NextExclusive ==
  TypeInv /\ OneSessionPerAssignment /\ [Next]_vars => OneSessionPerAssignment'
<1> SUFFICES ASSUME TypeInv, OneSessionPerAssignment, [Next]_vars
             PROVE  OneSessionPerAssignment'
  OBVIOUS
<1>1. ASSUME NEW t \in Threads, Step(t) PROVE OneSessionPerAssignment'
  <2>1. CASE OutOfIds(t)
    BY <2>1, RefuseExclusive DEF OutOfIds
  <2> QED
    BY <1>1, <2>1, ReconcileExclusive, RefuseExclusive, OpenExclusive, UpdateExclusive,
       SaveExclusive DEF Step
<1>2. CASE UNCHANGED vars
  BY <1>2 DEF vars, OneSessionPerAssignment, threadVars
<1> QED
  BY <1>1, <1>2, HostExclusive DEF Next

\* Two scorekeepers of a game always share one session: in the running server,
\* in the vault and in every save under way, for any number of devices and
\* threads, whatever fails and restarts.
THEOREM OneSession == Spec => []OneSessionPerAssignment
<1>1. Init => OneSessionPerAssignment
  BY DEF Init, OneSessionPerAssignment, Exclusive, EmptyTable
<1>2. Init => TypeInv
  BY InitTypes
<1>3. TypeInv /\ [Next]_vars => TypeInv'
  BY NextTypes
<1>4. TypeInv /\ OneSessionPerAssignment /\ [Next]_vars => OneSessionPerAssignment'
  BY NextExclusive
<1> QED
  BY <1>1, <1>2, <1>3, <1>4, PTL DEF Spec
=============================================================================
