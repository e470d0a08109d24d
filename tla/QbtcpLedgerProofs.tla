------------------------- MODULE QbtcpLedgerProofs -------------------------
(***************************************************************************)
(* The retained results of QbtcpServer, for every number of matches,       *)
(* finals, sessions and threads, as long as a start can read them back:    *)
(* none is kept twice, at most one per match goes unreviewed, and the      *)
(* table on disk implements ResultLedger.  Whatever fails, a receipt names *)
(* a row of that table.                                                    *)
(*                                                                         *)
(* What a submission is compared with is the running host's memory, what   *)
(* must be right is the table: the invariant ties the two, through failed  *)
(* writes (a result in memory only) and restarts (memory reloaded).        *)
(***************************************************************************)
EXTENDS QbtcpServerProofs

\* The same document, from one session or for one match.
Again(r1, r2) ==
  /\ r1.match = r2.match /\ r1.body = r2.body
  /\ r1.match # NoMatch \/ r1.session = r2.session

Tidy(results) ==
  /\ \A r1, r2 \in results : r1.id = r2.id => r1 = r2
  /\ \A r1, r2 \in results : Again(r1, r2) => r1 = r2
  /\ OneUnreviewed(results)

LedgerInv ==
  /\ up => durable \subseteq memory
  /\ ~up => memory = {} /\ \A t \in Threads : pc[t] = "idle"
  /\ Tidy(memory \cup durable)

\* The invariant gives both properties.
LEMMA TidyIsSafe ==
  ASSUME LedgerInv
  PROVE  NeverRetainedTwice /\ OneUnreviewedResultPerMatch
BY DEF LedgerInv, Tidy, Again, NeverRetainedTwice, OneUnreviewedResultPerMatch,
       OneUnreviewed

\* Fewer results are tidy too: a crash may lose those in memory only.
LEMMA TidySubset ==
  ASSUME NEW R, NEW Q \in SUBSET R, Tidy(R)
  PROVE  Tidy(Q)
BY DEF Tidy, OneUnreviewed

\* A new result is added to tidy ones if it repeats none of them and is marked
\* for review when its match has one (the new record of Disposition).
LEMMA TidyAdded ==
  ASSUME NEW R, Tidy(R), NEW r,
         \A q \in R : q.id # r.id /\ ~Again(q, r),
         r.match # NoMatch /\ ~r.review => \A q \in R : q.match # r.match
  PROVE  Tidy(R \cup {r})
BY DEF Tidy, Again, OneUnreviewed

-----------------------------------------------------------------------------
(* One lemma per way a step can touch the results.                         *)

\* A submission is answered with a result already held or adds one that keeps
\* the results tidy (Disposition).
LEMMA DispositionTidy ==
  ASSUME TypeInv, LedgerInv, up, NEW s, NEW final, NEW r \in Disposition(s, final)
  PROVE  Tidy(memory \cup {r})
<1>1. memory \cup durable = memory /\ Tidy(memory)
  <2>1. memory \cup durable = memory
    BY DEF LedgerInv
  <2> QED
    BY <2>1 DEF LedgerInv
<1> DEFINE retries == {q \in memory : Retry(q, s, final)}
<1>2. CASE retries # {}
  <2>1. r \in memory
    BY <1>2 DEF Disposition
  <2>2. memory \cup {r} = memory
    BY <2>1
  <2> QED
    BY <1>1, <2>2
<1>3. CASE retries = {}
  <2>1. /\ r.session = s /\ r.match = final.match /\ r.body = final.body
        /\ r.review = NeedsReview(s, final)
        /\ \A q \in memory \cup durable : q.id # r.id
    BY <1>3 DEF Disposition
  <2>2. \A q \in memory : ~Again(q, r)
    BY <1>3, <2>1 DEF Again, Retry, SameFingerprint, SameMatch
  <2>3. r.match # NoMatch /\ ~r.review => \A q \in memory : q.match # r.match
    BY <2>1 DEF NeedsReview, SameMatch
  <2> QED
    BY <1>1, <2>1, <2>2, <2>3, TidyAdded
<1> QED
  BY <1>2, <1>3

\* A submission (Result): it is in memory before it is on disk, if it gets there.
LEMMA ResultTidy ==
  ASSUME TypeInv, LedgerInv, NEW t \in Threads, Result(t), ~Refuse(t)
  PROVE  LedgerInv'
<1>1. up /\ up' = up
  BY DEF Result, Handling, LedgerInv
<1>2. PICK r \in Disposition(req[t].session, req[t].final) :
        memory' = memory \cup {r} /\ durable' \in {durable, durable \cup {r}}
  BY DEF Result
<1>3. Tidy(memory \cup {r})
  BY <1>1, DispositionTidy
<1>4. durable' \subseteq memory' /\ memory' \cup durable' = memory \cup {r}
  BY <1>1, <1>2 DEF LedgerInv
<1> QED
  BY <1>1, <1>3, <1>4 DEF LedgerInv

\* Every other step of a thread leaves the results alone, and runs only while
\* the listener does.
LEMMA ThreadTidy ==
  ASSUME TypeInv, LedgerInv, NEW t \in Threads, Step(t), Refuse(t) \/ ~Result(t)
  PROVE  LedgerInv'
<1>1. up' = up /\ memory' = memory /\ durable' = durable
  BY DEF Step, Refuse, Arrive, Reconcile, ReadAssignment, OpenNewSession, ResumeSession,
     OutOfIds, TakeWriter, Progress, Abandon, Snapshot, Persist, ledgerVars
<1>2. up
  <2>1. pc[t] # "idle" \/ up
    BY DEF Step, Arrive, Reconcile, ReadAssignment, OpenNewSession, ResumeSession,
       OutOfIds, TakeWriter, Progress, Result, Abandon, Snapshot, Persist, Handling
  <2> QED
    BY <2>1 DEF LedgerInv
<1> QED
  BY <1>1, <1>2 DEF LedgerInv

\* The Director stops, starts or forgets: what is on disk is what comes back.
LEMMA HostTidy ==
  ASSUME "result read" \notin Faults, TypeInv, LedgerInv,
         Stop \/ Start \/ ForgetCredentials \/ \E room \in Rooms : AssignRoom(room)
  PROVE  LedgerInv'
<1>1. Tidy(durable)
  BY TidySubset DEF LedgerInv
<1>2. CASE Stop
  <2>1. memory' \cup durable' = durable
    BY <1>2 DEF Stop
  <2> QED
    BY <1>1, <1>2, <2>1 DEF Stop, LedgerInv
<1>3. CASE Start
  <2>1. up' /\ memory' = durable /\ durable' = durable
    BY <1>3 DEF Start
  <2>2. memory' \cup durable' = durable
    BY <2>1
  <2> QED
    BY <1>1, <2>1, <2>2 DEF LedgerInv
<1>4. CASE ForgetCredentials
  BY <1>4 DEF ForgetCredentials, LedgerInv, ledgerVars, threadVars
<1>5. ASSUME NEW room \in Rooms, AssignRoom(room) PROVE LedgerInv'
  BY <1>5 DEF AssignRoom, LedgerInv, ledgerVars, threadVars
<1> QED
  BY <1>2, <1>3, <1>4, <1>5

\* No step retains a result twice, also while threads hold what they read
\* before (record_result).
LEMMA NextTidy ==
  ASSUME "result read" \notin Faults
  PROVE  TypeInv /\ LedgerInv /\ [Next]_vars => LedgerInv'
<1> SUFFICES ASSUME TypeInv, LedgerInv, [Next]_vars
             PROVE  LedgerInv'
  OBVIOUS
<1>1. ASSUME NEW t \in Threads, Step(t) PROVE LedgerInv'
  BY <1>1, ResultTidy, ThreadTidy
<1>2. CASE UNCHANGED vars
  BY <1>2 DEF vars, LedgerInv, ledgerVars, threadVars
<1> QED
  BY <1>1, <1>2, HostTidy DEF Next

\* LedgerInv holds initially.
LEMMA InitTidy == Init => LedgerInv
BY DEF Init, LedgerInv, Tidy, OneUnreviewed

\* As long as a start can read the results back, a retry is idempotent: no
\* document is retained twice for a match, nor for a session, whatever writes
\* fail and however the two requests interleave.
THEOREM RetriesIdempotent ==
  ASSUME "result read" \notin Faults
  PROVE  Spec => []NeverRetainedTwice
<1>1. Init => TypeInv /\ LedgerInv
  BY InitTypes, InitTidy
<1>2. TypeInv /\ LedgerInv /\ [Next]_vars => TypeInv' /\ LedgerInv'
  BY NextTypes, NextTidy
<1>3. LedgerInv => NeverRetainedTwice
  BY TidyIsSafe
<1> QED
  BY <1>1, <1>2, <1>3, PTL DEF Spec

\* Nor do two different finals for a match ever both go unreviewed: the
\* correction is always marked.
THEOREM Retention ==
  ASSUME "result read" \notin Faults
  PROVE  Spec => []OneUnreviewedResultPerMatch
<1>1. Init => TypeInv /\ LedgerInv
  BY InitTypes, InitTidy
<1>2. TypeInv /\ LedgerInv /\ [Next]_vars => TypeInv' /\ LedgerInv'
  BY NextTypes, NextTidy
<1>3. LedgerInv => OneUnreviewedResultPerMatch
  BY TidyIsSafe
<1> QED
  BY <1>1, <1>2, <1>3, PTL DEF Spec

-----------------------------------------------------------------------------
(* The table on disk implements the abstract ledger.                       *)

\* A row that is written is one the ledger may retain (Result).
LEMMA ResultRetains ==
  ASSUME TypeInv, LedgerInv, NEW t \in Threads, Result(t)
  PROVE  Ledger!Next \/ durable' = durable
<1>1. CASE Refuse(t)
  BY <1>1 DEF Refuse, ledgerVars
<1>2. CASE ~Refuse(t) /\ durable' # durable
  <2>1. PICK r \in Disposition(req[t].session, req[t].final) :
          memory' = memory \cup {r} /\ durable' = durable \cup {r}
    BY <1>2 DEF Result
  <2>2. r \notin durable
    BY <1>2, <2>1
  <2>3. up
    BY <1>2 DEF Result, Handling, LedgerInv
  <2>4. durable \cup {r} \subseteq memory \cup {r}
    BY <2>3 DEF LedgerInv
  <2>5. Tidy(durable \cup {r})
    BY <2>3, <2>4, DispositionTidy, TidySubset
  <2>6. r \in Retained
    BY <1>2, <2>1, NextTypes DEF Next, Step, TypeInv, StateTypes
  <2>7. Ledger!Retain(r)
    BY <2>1, <2>2, <2>5 DEF Ledger!Retain, Ledger!Repeats, Tidy, Again, OneUnreviewed
  <2> QED
    BY <2>6, <2>7 DEF Ledger!Next
<1> QED
  BY <1>1, <1>2

\* Rows are only ever added, one at a time, never twice, and never two of a
\* match without review: what ResultLedger promises Director.
THEOREM LedgerImplemented ==
  ASSUME "result read" \notin Faults
  PROVE  Spec => ImplementsLedger
<1>1. Init => TypeInv /\ LedgerInv /\ Ledger!Init
  BY InitTypes, InitTidy DEF Init, Ledger!Init
<1>2. TypeInv /\ LedgerInv /\ [Next]_vars => TypeInv' /\ LedgerInv'
  BY NextTypes, NextTidy
<1>3. TypeInv /\ LedgerInv /\ [Next]_vars => [Ledger!Next]_durable
  <2> SUFFICES ASSUME TypeInv, LedgerInv, [Next]_vars
               PROVE  Ledger!Next \/ durable' = durable
    OBVIOUS
  <2>1. ASSUME NEW t \in Threads, Step(t) PROVE Ledger!Next \/ durable' = durable
    <3>1. CASE Result(t)
      BY <3>1, ResultRetains
    <3>2. CASE ~Result(t)
      BY <2>1, <3>2 DEF Step, Arrive, Reconcile, ReadAssignment, OpenNewSession,
         ResumeSession, OutOfIds, Refuse, TakeWriter, Progress, Abandon, Snapshot, Persist,
         ledgerVars
    <3> QED
      BY <3>1, <3>2
  <2>2. CASE Stop \/ Start \/ ForgetCredentials \/ \E room \in Rooms : AssignRoom(room)
    BY <2>2 DEF Stop, Start, ForgetCredentials, AssignRoom, ledgerVars
  <2>3. CASE UNCHANGED vars
    BY <2>3 DEF vars, ledgerVars
  <2> QED
    BY <2>1, <2>2, <2>3 DEF Next
<1> QED
  BY <1>1, <1>2, <1>3, PTL DEF Spec, ImplementsLedger, Ledger!Spec
-----------------------------------------------------------------------------
(* Receipts: a result is named, in an answer or in a session, only when its *)
(* row is on disk.  Rows are never removed, so what must be shown is that   *)
(* no table and no answer comes by a result otherwise, whatever becomes of  *)
(* the running host's memory.                                               *)

HasRows(table, rows) ==
  \A s \in DOMAIN table :
    table[s].result # NoResult => \E r \in rows : r.id = table[s].result

\* An answer that names a result names the document it answers.
Receipt(t, rows) ==
  answer[t].result # NoResult =>
    \E r \in rows : r.id = answer[t].result /\ SameFingerprint(r, req[t].final)

ReceiptInv ==
  /\ HasRows(sessions, durable) /\ HasRows(vault, durable)
  /\ \A t \in Threads :
       /\ HasRows(copy[t], durable)
       /\ Receipt(t, durable)
       /\ pc[t] \notin {"snapshot", "persist"} => answer[t].result = NoResult

\* The invariant gives the property.
LEMMA ReceiptInvIsDurable ==
  ASSUME ReceiptInv
  PROVE  ReceiptIsDurable
BY DEF ReceiptInv, HasRows, Receipt, ReceiptIsDurable

\* U names no result that T does not.
NamesNoMore(T, U) ==
  \A s \in DOMAIN U : U[s].result # NoResult => s \in DOMAIN T /\ T[s].result = U[s].result

\* A table that names no more results, while rows are only added, has its rows.
LEMMA RowsKept ==
  ASSUME NEW T, NEW U, NEW Q, NEW R, HasRows(T, Q), NamesNoMore(T, U), Q \subseteq R
  PROVE  HasRows(U, R)
<1> SUFFICES ASSUME NEW s \in DOMAIN U, U[s].result # NoResult
             PROVE  \E r \in R : r.id = U[s].result
  BY DEF HasRows
<1>1. s \in DOMAIN T /\ T[s].result = U[s].result
  BY DEF NamesNoMore
<1>2. \E r \in Q : r.id = T[s].result
  BY <1>1 DEF HasRows
<1> QED
  BY <1>1, <1>2

\* Abandoning, restoring and updating sessions other than by a final names no
\* result (Abandoned, Restored).
LEMMA TablesNameNoMore ==
  ASSUME NEW table, IsTable(table)
  PROVE  /\ NamesNoMore(table, table) /\ NamesNoMore(table, EmptyTable)
         /\ \A S : NamesNoMore(table, Abandoned(table, S))
         /\ NamesNoMore(table, RestoredTable(table))
         /\ \A s \in DOMAIN table : \A session :
              session.result = table[s].result
                => NamesNoMore(table, [table EXCEPT ![s] = session])
<1>1. \A s \in DOMAIN table : table[s] \in Session
  BY DEF IsTable
<1>2. NamesNoMore(table, table) /\ NamesNoMore(table, EmptyTable)
  BY DEF NamesNoMore, EmptyTable
<1>3. ASSUME NEW S PROVE NamesNoMore(table, Abandoned(table, S))
  <2>1. \A s \in DOMAIN table : Closed(table[s], "abandoned").result = table[s].result
    BY <1>1 DEF Closed, Session
  <2> QED
    BY <2>1 DEF NamesNoMore, Abandoned
<1>4. NamesNoMore(table, RestoredTable(table))
  <2>1. \A s \in DOMAIN table : Restored(table[s]).result = table[s].result
    BY <1>1 DEF Restored, Session
  <2> QED
    BY <2>1 DEF NamesNoMore, RestoredTable
<1>5. ASSUME NEW s \in DOMAIN table, NEW session, session.result = table[s].result
      PROVE  NamesNoMore(table, [table EXCEPT ![s] = session])
  BY <1>5 DEF NamesNoMore, IsTable
<1> QED
  BY <1>2, <1>3, <1>4, <1>5

\* A step of a thread that leaves the vault and the other threads alone has the
\* running table and its own answer to account for.
LEMMA ReceiptStep ==
  ASSUME TypeInv, ReceiptInv, NEW t \in Threads, durable \subseteq durable',
         HasRows(sessions', durable'), vault' = vault,
         \A x \in Threads : copy'[x] = copy[x] \/ copy'[x] = EmptyTable,
         \A x \in Threads \ {t} :
           pc'[x] = pc[x] /\ req'[x] = req[x] /\ answer'[x] = answer[x],
         \/ answer'[t].result = NoResult
         \/ pc'[t] \in {"snapshot", "persist"} /\ Receipt(t, durable)'
  PROVE  ReceiptInv'
<1>1. IsTable(vault) /\ \A x \in Threads : IsTable(copy[x])
  BY DEF TypeInv, StateTypes, ThreadTypes
<1>2. HasRows(vault', durable')
  BY <1>1, RowsKept, TablesNameNoMore DEF ReceiptInv
<1>3. \A x \in Threads : HasRows(copy'[x], durable')
  <2>1. \A x \in Threads : NamesNoMore(copy[x], copy'[x])
    BY <1>1, TablesNameNoMore
  <2> QED
    BY <2>1, RowsKept DEF ReceiptInv
<1>4. \A x \in Threads \ {t} :
        /\ Receipt(x, durable)'
        /\ pc'[x] \notin {"snapshot", "persist"} => answer'[x].result = NoResult
  BY DEF ReceiptInv, Receipt
<1>5. /\ Receipt(t, durable)'
      /\ pc'[t] \notin {"snapshot", "persist"} => answer'[t].result = NoResult
  BY DEF Receipt
<1> QED
  BY <1>2, <1>3, <1>4, <1>5 DEF ReceiptInv

\* Requests that arrive, reconcile or are refused name no result.
LEMMA RequestReceipt ==
  ASSUME TypeInv, ReceiptInv, NEW t \in Threads,
         Arrive(t) \/ Reconcile(t) \/ ReadAssignment(t) \/ Refuse(t)
  PROVE  ReceiptInv'
<1>1. durable' = durable /\ vault' = vault
  BY DEF Arrive, Reconcile, ReadAssignment, Refuse, ledgerVars
<1>2. \/ sessions' = sessions
      \/ \E S : sessions' = Abandoned(sessions, S)
  BY DEF Arrive, Reconcile, ReadAssignment, Refuse
<1>3. HasRows(sessions', durable')
  BY <1>1, <1>2, RowsKept, TablesNameNoMore DEF ReceiptInv, TypeInv, StateTypes
<1>4. /\ \A x \in Threads : copy'[x] = copy[x] \/ copy'[x] = EmptyTable
      /\ \A x \in Threads \ {t} :
           pc'[x] = pc[x] /\ req'[x] = req[x] /\ answer'[x] = answer[x]
      /\ answer'[t].result = NoResult
  <2>1. CASE Done(t)
    BY <2>1, DoneOwn
  <2>2. pc[t] \notin {"snapshot", "persist"} => answer[t].result = NoResult
    BY DEF ReceiptInv
  <2>3. CASE Arrive(t)
    BY <2>2, <2>3 DEF Arrive, TypeInv, ThreadTypes
  <2>4. CASE Reconcile(t)
    <3>1. CASE Goto(t, "read") \/ Goto(t, "handle")
      <4>1. /\ copy' = copy /\ answer' = answer /\ req' = req
            /\ \A x \in Threads \ {t} : pc'[x] = pc[x]
        BY <3>1, GotoOwn
      <4> QED
        BY <2>2, <2>4, <4>1 DEF Reconcile
    <3>2. Done(t) \/ Goto(t, "read") \/ Goto(t, "handle")
      BY <2>4 DEF Reconcile
    <3> QED
      BY <2>1, <3>1, <3>2
  <2>5. CASE ReadAssignment(t) /\ ~Done(t)
    BY <2>2, <2>5 DEF ReadAssignment, TypeInv, ThreadTypes
  <2> QED
    BY <2>1, <2>3, <2>4, <2>5 DEF Refuse
<1> QED
  BY <1>1, <1>3, <1>4, ReceiptStep

\* Opening, resuming, taking the lock, progress and abandoning answer without a
\* result, and leave the results of the sessions.
LEMMA SaveReceipt ==
  ASSUME TypeInv, ReceiptInv, NEW t \in Threads,
         \/ OpenNewSession(t) \/ ResumeSession(t) \/ TakeWriter(t) \/ Progress(t)
         \/ Abandon(t)
  PROVE  ReceiptInv'
<1>1. CASE Refuse(t)
  BY <1>1, RequestReceipt
<1>2. CASE ~Refuse(t)
  <2> DEFINE s == req[t].session
  <2>1. durable' = durable /\ vault' = vault
    BY <1>2 DEF OpenNewSession, ResumeSession, TakeWriter, Progress, Abandon, ledgerVars
  <2>2. IsTable(sessions) /\ \A x \in DOMAIN sessions : sessions[x] \in Session
    BY DEF TypeInv, StateTypes, IsTable
  <2>3. NamesNoMore(sessions, sessions')
    <3>1. CASE OpenNewSession(t)
      <4>1. \A token : NewSession(req[t].room, seen[t], req[t].device, token).result = NoResult
        BY DEF NewSession
      <4> QED
        BY <3>1, <4>1 DEF OpenNewSession, With, NamesNoMore
    <3>2. CASE ResumeSession(t)
      <4>1. PICK x \in Resumable(req[t].room, seen[t]) :
              \/ sessions' = sessions
              \/ sessions' = [sessions EXCEPT ![x].credentials[req[t].device] = issued + 1]
        BY <3>2 DEF ResumeSession
      <4> DEFINE joined == [sessions[x] EXCEPT !.credentials[req[t].device] = issued + 1]
      <4>2. x \in DOMAIN sessions
        BY DEF Resumable
      <4>3. joined.result = sessions[x].result
        BY <2>2, <4>2 DEF Session
      <4>4. sessions' = sessions \/ sessions' = [sessions EXCEPT ![x] = joined]
        BY <2>2, <4>1, <4>2 DEF IsTable, Session
      <4> HIDE DEF joined
      <4> QED
        BY <2>2, <4>2, <4>3, <4>4, TablesNameNoMore
    <3>3. CASE TakeWriter(t)
      <4> DEFINE taken == [sessions[s] EXCEPT !.writerToken = req[t].token,
                                              !.writerDevice = req[t].device]
      <4>1. s \in DOMAIN sessions
        BY <1>2, <3>3 DEF TakeWriter, Authentic
      <4>2. taken.result = sessions[s].result
        BY <2>2, <4>1 DEF Session
      <4>3. sessions' = [sessions EXCEPT ![s] = taken]
        BY <1>2, <2>2, <3>3, <4>1 DEF TakeWriter, Authentic, IsTable, Session
      <4> HIDE DEF taken, s
      <4> QED
        BY <2>2, <4>1, <4>2, <4>3, TablesNameNoMore
    <3>4. CASE Progress(t)
      <4> DEFINE moved == [sessions[s] EXCEPT !.progress = req[t].sequence]
      <4>1. s \in DOMAIN sessions
        BY <1>2, <3>4 DEF Progress, FromWriter, Authentic
      <4>2. moved.result = sessions[s].result
        BY <2>2, <4>1 DEF Session
      <4>3. sessions' = [sessions EXCEPT ![s] = moved]
        BY <1>2, <2>2, <3>4, <4>1 DEF Progress, FromWriter, Authentic, IsTable, Session
      <4> HIDE DEF moved, s
      <4> QED
        BY <2>2, <4>1, <4>2, <4>3, TablesNameNoMore
    <3>5. CASE Abandon(t)
      BY <1>2, <2>2, <3>5, TablesNameNoMore DEF Abandon
    <3> QED
      BY <3>1, <3>2, <3>3, <3>4, <3>5
  <2>4. HasRows(sessions', durable')
    BY <2>1, <2>3, RowsKept DEF ReceiptInv
  <2>5. Done(t) \/ \E x, token : Save(t, x, token, NoResult)
    BY <1>2 DEF OpenNewSession, ResumeSession, TakeWriter, Progress, Abandon
  <2>6. /\ \A x \in Threads : copy'[x] = copy[x] \/ copy'[x] = EmptyTable
        /\ \A x \in Threads \ {t} :
             pc'[x] = pc[x] /\ req'[x] = req[x] /\ answer'[x] = answer[x]
        /\ answer'[t].result = NoResult
    <3>1. CASE Done(t)
      BY <3>1, DoneOwn
    <3>2. ASSUME NEW x, NEW token, Save(t, x, token, NoResult)
          PROVE  /\ copy' = copy /\ req' = req /\ answer'[t].result = NoResult
                 /\ \A y \in Threads \ {t} : pc'[y] = pc[y] /\ answer'[y] = answer[y]
      BY <3>2, SaveOwn
    <3> QED
      BY <2>5, <3>1, <3>2
  <2> QED
    BY <2>1, <2>4, <2>6, ReceiptStep
<1> QED
  BY <1>1, <1>2

\* The record a submission is answered with holds its document (Disposition).
LEMMA DispositionAnswers ==
  ASSUME NEW s, NEW final, NEW r \in Disposition(s, final)
  PROVE  SameFingerprint(r, final)
BY DEF Disposition, Retry, SameFingerprint

\* Recording a final names the result given, or the one already named (Finalized).
LEMMA FinalizedResult ==
  ASSUME NEW session \in Session, NEW id
  PROVE  Finalized(session, id).result \in {session.result, id}
<1> DEFINE base == IF session.status = "open" THEN Closed(session, "final-received")
                   ELSE session
<1>1. "final-received" \in Status
  BY DEF Status
<1>2. base \in Session
  BY <1>1, ClosedType
<1>3. Finalized(session, id)
        = [base EXCEPT !.result = IF session.result = NoResult THEN id ELSE session.result]
  BY DEF Finalized
<1> HIDE DEF base
<1> QED
  BY <1>2, <1>3 DEF Session

\* A submission names its result, in the session and in the answer, only with
\* the row that was just written (Result).
LEMMA ResultReceipt ==
  ASSUME TypeInv, ReceiptInv, NEW t \in Threads, Result(t)
  PROVE  ReceiptInv'
<1>1. CASE Refuse(t)
  BY <1>1, RequestReceipt
<1>2. CASE ~Refuse(t)
  <2> DEFINE s == req[t].session
  <2>1. PICK r \in Disposition(s, req[t].final) :
          \/ /\ durable' = durable \cup {r}
             /\ sessions' = [sessions EXCEPT ![s] = Finalized(sessions[s], r.id)]
             /\ Save(t, s, req[t].token, r.id)
          \/ Done(t) /\ UNCHANGED <<durable, sessions>>
    BY <1>2 DEF Result
  <2>2. vault' = vault
    BY <1>2 DEF Result
  <2>3. CASE Done(t) /\ UNCHANGED <<durable, sessions>>
    <3>1. HasRows(sessions', durable') /\ durable \subseteq durable'
      BY <2>3 DEF ReceiptInv
    <3> QED
      BY <2>2, <2>3, <3>1, DoneOwn, ReceiptStep
  <2>4. CASE /\ durable' = durable \cup {r}
             /\ sessions' = [sessions EXCEPT ![s] = Finalized(sessions[s], r.id)]
             /\ Save(t, s, req[t].token, r.id)
    <3>1. s \in DOMAIN sessions
      BY <1>2 DEF Result, Authentic
    <3>2. IsTable(sessions) /\ sessions[s] \in Session
      BY <3>1 DEF TypeInv, StateTypes, IsTable
    <3>3. Finalized(sessions[s], r.id).result \in {sessions[s].result, r.id}
      BY <3>2, FinalizedResult
    <3>4. /\ DOMAIN sessions' = DOMAIN sessions
          /\ \A x \in DOMAIN sessions : sessions'[x] =
               IF x = s THEN Finalized(sessions[s], r.id) ELSE sessions[x]
      BY <2>4, <3>1, <3>2 DEF IsTable
    <3>5. HasRows(sessions, durable) /\ durable \subseteq durable' /\ r \in durable'
      BY <2>4 DEF ReceiptInv
    <3> HIDE DEF s
    <3>6. HasRows(sessions', durable')
      <4> SUFFICES ASSUME NEW x \in DOMAIN sessions, sessions'[x].result # NoResult
                   PROVE  \E q \in durable' : q.id = sessions'[x].result
        BY <3>4 DEF HasRows
      <4>1. sessions'[x].result \in {sessions[x].result, r.id}
        BY <3>3, <3>4
      <4> QED
        BY <3>5, <4>1 DEF HasRows
    <3>7. /\ pc'[t] = "snapshot" /\ req' = req /\ copy' = copy
          /\ answer'[t].result = r.id
          /\ \A x \in Threads \ {t} : pc'[x] = pc[x] /\ answer'[x] = answer[x]
      BY <2>4, SaveOwn
    <3>8. Receipt(t, durable)'
      BY <3>5, <3>7, DispositionAnswers DEF Receipt, SameFingerprint
    <3> QED
      BY <2>2, <3>5, <3>6, <3>7, <3>8, ReceiptStep
  <2> QED
    BY <2>1, <2>3, <2>4
<1> QED
  BY <1>1, <1>2

\* Saving and restarting copy tables whose rows are on disk (Snapshot, Persist, Stop,
\* Start, ForgetCredentials, AssignRoom).
LEMMA TablesReceipt ==
  ASSUME TypeInv, ReceiptInv,
         \/ \E t \in Threads : Snapshot(t) \/ Persist(t)
         \/ Stop \/ Start \/ ForgetCredentials \/ \E room \in Rooms : AssignRoom(room)
  PROVE  ReceiptInv'
<1>1. /\ IsTable(sessions) /\ IsTable(vault)
      /\ HasRows(sessions, durable) /\ HasRows(vault, durable)
      /\ \A t \in Threads : HasRows(copy[t], durable)
  BY DEF TypeInv, StateTypes, ThreadTypes, ReceiptInv
<1>2. HasRows(EmptyTable, durable)
  BY DEF HasRows, EmptyTable
<1>3. durable' = durable
  BY DEF Snapshot, Persist, Stop, Start, ForgetCredentials, AssignRoom, ledgerVars
<1>4. ASSUME NEW t \in Threads, Snapshot(t) PROVE ReceiptInv'
  <2>1. /\ sessions' = sessions /\ vault' = vault /\ req' = req /\ answer' = answer
        /\ \A x \in Threads :
             /\ copy'[x] = IF x = t THEN sessions ELSE copy[x]
             /\ pc'[x] = IF x = t THEN "persist" ELSE pc[x]
    BY <1>4 DEF Snapshot, TypeInv, ThreadTypes
  <2>2. pc[t] = "snapshot"
    BY <1>4 DEF Snapshot
  <2> QED
    BY <1>1, <1>3, <2>1, <2>2 DEF ReceiptInv, Receipt
<1>5. ASSUME NEW t \in Threads, Persist(t) PROVE ReceiptInv'
  <2>1. sessions' = sessions /\ vault' \in {vault, copy[t]}
    BY <1>5 DEF Persist
  <2>2. /\ answer'[t].result = NoResult
        /\ \A x \in Threads \ {t} :
             pc'[x] = pc[x] /\ req'[x] = req[x] /\ answer'[x] = answer[x]
        /\ \A x \in Threads : copy'[x] = copy[x] \/ copy'[x] = EmptyTable
    BY <1>5, DoneOwn DEF Persist
  <2> QED
    BY <1>1, <1>2, <1>3, <2>1, <2>2 DEF ReceiptInv, Receipt
<1>6. CASE Stop
  BY <1>1, <1>2, <1>3, <1>6 DEF Stop, ReceiptInv, Receipt, NoAnswer
<1>7. CASE Start
  <2> DEFINE table == RestoredTable(vault)
  <2>1. IsTable(table)
    BY <1>1, RestoredType DEF RestoredTable, IsTable
  <2>2. HasRows(table, durable)
    BY <1>1, RowsKept, TablesNameNoMore
  <2>3. /\ sessions' = Abandoned(table, Mismatched(table, assigned))
        /\ vault' = sessions' /\ UNCHANGED threadVars
    BY <1>7 DEF Start, RestoredTable
  <2> HIDE DEF table
  <2>4. HasRows(sessions', durable)
    BY <2>1, <2>2, <2>3, RowsKept, TablesNameNoMore
  <2> QED
    BY <1>3, <2>3, <2>4 DEF ReceiptInv, Receipt, threadVars
<1>8. CASE ForgetCredentials
  BY <1>1, <1>2, <1>3, <1>8 DEF ForgetCredentials, ReceiptInv, Receipt, threadVars
<1>9. ASSUME NEW room \in Rooms, AssignRoom(room) PROVE ReceiptInv'
  BY <1>1, <1>3, <1>9 DEF AssignRoom, ReceiptInv, Receipt, threadVars
<1> QED
  BY <1>4, <1>5, <1>6, <1>7, <1>8, <1>9

\* No step of the server makes an answer name a result that is not retained.
LEMMA NextReceipt == TypeInv /\ ReceiptInv /\ [Next]_vars => ReceiptInv'
<1> SUFFICES ASSUME TypeInv, ReceiptInv, [Next]_vars
             PROVE  ReceiptInv'
  OBVIOUS
<1>1. ASSUME NEW t \in Threads, Step(t) PROVE ReceiptInv'
  <2>1. CASE OutOfIds(t)
    BY <2>1, RequestReceipt DEF OutOfIds
  <2> QED
    BY <1>1, <2>1, RequestReceipt, SaveReceipt, ResultReceipt, TablesReceipt DEF Step
<1>2. CASE UNCHANGED vars
  BY <1>2 DEF vars, ledgerVars, threadVars, ReceiptInv, Receipt
<1> QED
  BY <1>1, <1>2, TablesReceipt DEF Next

\* A receipt is a promise about the disk, whatever accesses to the store fail:
\* the result an answer or a session names has its row, with the client's
\* document in it, and keeps it through late saves and restarts.
THEOREM Receipts == Spec => []ReceiptIsDurable
<1>1. Init => TypeInv /\ ReceiptInv
  BY InitTypes DEF Init, ReceiptInv, HasRows, Receipt, EmptyTable, NoAnswer
<1>2. TypeInv /\ [Next]_vars => TypeInv'
  BY NextTypes
<1>3. TypeInv /\ ReceiptInv /\ [Next]_vars => ReceiptInv'
  BY NextReceipt
<1>4. ReceiptInv => ReceiptIsDurable
  BY ReceiptInvIsDurable
<1> QED
  BY <1>1, <1>2, <1>3, <1>4, PTL DEF Spec

=============================================================================
