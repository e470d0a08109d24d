------------------------- MODULE QbtcpSessionProofs ------------------------
(***************************************************************************)
(* The sessions of QbtcpServer, for every number of rooms, devices and     *)
(* threads: the writer lock is held by an open session's own credential,   *)
(* in the running server, in the vault and in every save under way; while  *)
(* a process lives a session only advances; and where requests come one at *)
(* a time, what was acknowledged outlives a restart.                       *)
(*                                                                         *)
(* None is inductive alone.  A token, or a session, that is new must       *)
(* differ from those of tables that were saved earlier and may come back   *)
(* (Issued, Known); and what a thread is about to answer must be in the    *)
(* table it saves (SavedInv).                                              *)
(***************************************************************************)
EXTENDS QbtcpServerProofs

\* The parts of Sound: one session's writer, and tokens that open one session
\* for one device.
WriterOK(session) ==
  /\ session.writerToken # NoToken =>
       /\ session.status = "open"
       /\ Owners(session, session.writerToken) # {}
  /\ session.writerToken = NoToken <=> session.writerDevice = NoDevice

Unshared(table) ==
  \A s1, s2 \in DOMAIN table : \A d1, d2 \in Devices :
    table[s1].credentials[d1] = table[s2].credentials[d2] =>
      \/ table[s1].credentials[d1] = NoToken
      \/ s1 = s2 /\ d1 = d2

\* No credential of the table is still to be issued.
Issued(table, n) ==
  \A s \in DOMAIN table : \A d \in Devices : table[s].credentials[d] <= n

Secure(table, n) ==
  /\ \A s \in DOMAIN table : WriterOK(table[s])
  /\ Unshared(table)
  /\ Issued(table, n)

SecureInv ==
  /\ Secure(sessions, issued) /\ Secure(vault, issued)
  /\ \A t \in Threads : Secure(copy[t], issued)

\* The invariant gives the property.
LEMMA SecureIsSound ==
  ASSUME SecureInv
  PROVE  WriterAuthority
BY DEF SecureInv, Secure, Unshared, WriterOK, WriterAuthority, Sound

\* A server that starts without a saved table has no token to lose.
LEMMA EmptySecure ==
  ASSUME NEW n
  PROVE  Secure(EmptyTable, n)
BY DEF Secure, EmptyTable, Unshared, Issued

-----------------------------------------------------------------------------
(* Lemmas on tables.                                                       *)

\* A table stays secure while more tokens are issued.
LEMMA LaterSecure ==
  ASSUME NEW table, IsTable(table), NEW n \in Nat, Secure(table, n), NEW m \in Nat, n <= m
  PROVE  Secure(table, m)
<1>1. \A s \in DOMAIN table : \A d \in Devices : table[s].credentials[d] \in Nat
  BY DEF IsTable, Session, Tokens, NoToken
<1>2. Issued(table, m)
  BY <1>1 DEF Secure, Issued
<1> QED
  BY <1>2 DEF Secure

\* A table with the same credentials is secure if its writers are in order.
LEMMA SameCredentials ==
  ASSUME NEW T, NEW U, NEW n, Secure(T, n), DOMAIN U = DOMAIN T,
         \A s \in DOMAIN U : U[s].credentials = T[s].credentials /\ WriterOK(U[s])
  PROVE  Secure(U, n)
BY DEF Secure, Unshared, Issued

\* Closing a session clears its writer and keeps its credentials (Closed).
LEMMA ClosedWriter ==
  ASSUME NEW session \in Session, NEW status
  PROVE  /\ WriterOK(Closed(session, status))
         /\ Closed(session, status).credentials = session.credentials
BY DEF Closed, Session, WriterOK

\* Abandoning sessions keeps the table secure (Abandoned).
LEMMA AbandonedSecure ==
  ASSUME NEW table, IsTable(table), NEW n, Secure(table, n), NEW S
  PROVE  Secure(Abandoned(table, S), n)
<1> DEFINE U == Abandoned(table, S)
<1>1. DOMAIN U = DOMAIN table
  BY DEF Abandoned
<1>2. \A s \in DOMAIN table : table[s] \in Session /\ WriterOK(table[s])
  BY DEF IsTable, Secure
<1>3. \A s \in DOMAIN table :
        U[s] = IF s \in S THEN Closed(table[s], "abandoned") ELSE table[s]
  BY DEF Abandoned
<1>4. \A s \in DOMAIN U : U[s].credentials = table[s].credentials /\ WriterOK(U[s])
  BY <1>1, <1>2, <1>3, ClosedWriter
<1> HIDE DEF U
<1> QED
  BY <1>1, <1>4, SameCredentials DEF U

\* A restored session's writer is a device that still has its credential (Restored).
LEMMA RestoredWriter ==
  ASSUME NEW session \in Session
  PROVE  /\ WriterOK(Restored(session))
         /\ Restored(session).credentials = session.credentials
<1> DEFINE token == IF session.writerDevice \in Devices
                    THEN session.credentials[session.writerDevice] ELSE NoToken
           r == Restored(session)
<1>1. /\ r.credentials = session.credentials /\ r.status = session.status
      /\ r.writerToken = IF session.status = "open" /\ token # NoToken
                         THEN token ELSE NoToken
      /\ r.writerDevice = IF session.status = "open" /\ token # NoToken
                          THEN session.writerDevice ELSE NoDevice
  BY DEF Restored, Session
<1>2. token # NoToken => /\ session.writerDevice \in Devices
                         /\ token = session.credentials[session.writerDevice]
  OBVIOUS
<1>3. NoDevice \notin Devices
  BY ServerAssumption
<1> HIDE DEF r, token
<1>4. WriterOK(r)
  BY <1>1, <1>2, <1>3 DEF WriterOK, Owners
<1> QED
  BY <1>1, <1>4 DEF r

\* Restoring keeps a table secure.
LEMMA RestoredSecure ==
  ASSUME NEW table, IsTable(table), NEW n, Secure(table, n)
  PROVE  Secure(RestoredTable(table), n)
<1> DEFINE U == RestoredTable(table)
<1>1. DOMAIN U = DOMAIN table /\ \A s \in DOMAIN table : U[s] = Restored(table[s])
  BY DEF RestoredTable
<1>2. \A s \in DOMAIN table : table[s] \in Session
  BY DEF IsTable
<1>3. \A s \in DOMAIN U : U[s].credentials = table[s].credentials /\ WriterOK(U[s])
  BY <1>1, <1>2, RestoredWriter
<1> HIDE DEF U
<1> QED
  BY <1>1, <1>3, SameCredentials DEF U

\* Updating a session keeps the table secure if it keeps the credentials and
\* leaves the writer in order.
LEMMA UpdateSecure ==
  ASSUME NEW table, IsTable(table), NEW n, Secure(table, n), NEW s \in DOMAIN table,
         NEW session, session.credentials = table[s].credentials, WriterOK(session)
  PROVE  Secure([table EXCEPT ![s] = session], n)
<1> DEFINE U == [table EXCEPT ![s] = session]
<1>1. DOMAIN U = DOMAIN table
      /\ \A x \in DOMAIN table : U[x] = IF x = s THEN session ELSE table[x]
  BY DEF IsTable
<1>2. \A x \in DOMAIN U : U[x].credentials = table[x].credentials /\ WriterOK(U[x])
  BY <1>1 DEF Secure
<1> HIDE DEF U
<1> QED
  BY <1>1, <1>2, SameCredentials DEF U

-----------------------------------------------------------------------------
(* One lemma per way a step can touch a table.                             *)

\* A step that leaves the vault alone, and copies nothing, has only the
\* running table to answer for.
LEMMA SecureStep ==
  ASSUME TypeInv, TypeInv', SecureInv, issued' >= issued, Secure(sessions', issued'),
         vault' = vault,
         \A t \in Threads : copy'[t] = copy[t] \/ copy'[t] = EmptyTable
  PROVE  SecureInv'
<1>1. /\ issued \in Nat /\ issued' \in Nat
      /\ IsTable(vault) /\ \A t \in Threads : IsTable(copy[t])
  BY Bounds DEF TypeInv, StateTypes, ThreadTypes
<1>2. Secure(vault', issued')
  BY <1>1, LaterSecure DEF SecureInv
<1>3. \A t \in Threads : Secure(copy[t], issued')
  BY <1>1, LaterSecure DEF SecureInv
<1>4. \A t \in Threads : Secure(copy'[t], issued')
  BY <1>3, EmptySecure
<1> QED
  BY <1>2, <1>4 DEF SecureInv

\* Requests come in and reconcile: sessions are only abandoned.
LEMMA ReconcileSecure ==
  ASSUME TypeInv, TypeInv', SecureInv, NEW t \in Threads, Arrive(t) \/ Reconcile(t)
  PROVE  SecureInv'
<1>1. PICK S : sessions' = Abandoned(sessions, S)
  BY DEF Arrive, Reconcile
<1>2. vault' = vault /\ issued' = issued
  BY DEF Arrive, Reconcile
<1>3. Secure(sessions', issued')
  BY <1>1, <1>2, AbandonedSecure DEF SecureInv, TypeInv, StateTypes
<1>4. Done(t) \/ copy' = copy
  BY DEF Arrive, Reconcile, Goto
<1>5. issued' >= issued
  BY <1>2, Bounds DEF TypeInv, StateTypes
<1> QED
  BY <1>2, <1>3, <1>4, <1>5, CopiesKept, SecureStep

\* A request that leaves the sessions alone (Refuse, ReadAssignment).
LEMMA RefuseSecure ==
  ASSUME TypeInv, TypeInv', SecureInv, NEW t \in Threads, Refuse(t) \/ ReadAssignment(t)
  PROVE  SecureInv'
<1>1. sessions' = sessions /\ vault' = vault /\ issued' = issued
  BY DEF Refuse, ReadAssignment
<1>2. Done(t) \/ copy' = copy
  BY DEF Refuse, ReadAssignment
<1>3. Secure(sessions', issued') /\ issued' >= issued
  BY <1>1, Bounds DEF SecureInv, TypeInv, StateTypes
<1> QED
  BY <1>1, <1>2, <1>3, CopiesKept, SecureStep

\* The device that opens a session is its writer, with the token just issued
\* (OpenNewSession).
LEMMA OpenSecure ==
  ASSUME TypeInv, TypeInv', SecureInv, NEW t \in Threads, OpenNewSession(t)
  PROVE  SecureInv'
<1> DEFINE s == opened + 1
           n == issued + 1
           new == NewSession(req[t].room, seen[t], req[t].device, n)
           U == With(sessions, s, new)
<1>1. sessions' = U /\ issued' = n /\ vault' = vault /\ copy' = copy
  BY DEF OpenNewSession, Save
<1>2. issued \in Nat /\ opened \in Nat
  BY Bounds DEF TypeInv, StateTypes
<1>3. req[t].device \in Devices
  BY RequestKinds DEF OpenNewSession, Handling, TypeInv, ThreadTypes, OpenRequests
<1>4. \A d \in Devices :
        new.credentials[d] = IF d = req[t].device THEN n ELSE NoToken
  BY DEF NewSession
<1>5. WriterOK(new)
  <2>1. /\ new.status = "open" /\ new.writerToken = n
        /\ new.writerDevice = req[t].device
    BY DEF NewSession
  <2>2. req[t].device \in Owners(new, n)
    BY <1>3, <1>4 DEF Owners
  <2>3. n # NoToken
    BY <1>2 DEF NoToken
  <2>4. req[t].device # NoDevice
    BY <1>3, ServerAssumption
  <2> HIDE DEF new, n
  <2> QED
    BY <2>1, <2>2, <2>3, <2>4 DEF WriterOK
<1>6. DOMAIN U = DOMAIN sessions \cup {s}
      /\ \A x \in DOMAIN U : U[x] = IF x = s THEN new ELSE sessions[x]
  BY DEF With
<1>7. \A x \in DOMAIN sessions : \A d \in Devices :
        sessions[x].credentials[d] \in Nat /\ sessions[x].credentials[d] <= issued
  BY DEF SecureInv, Secure, Issued, TypeInv, StateTypes, IsTable, Session, Tokens, NoToken
<1> HIDE DEF s, new, U
<1>8. \A x \in DOMAIN U : WriterOK(U[x])
  BY <1>5, <1>6 DEF SecureInv, Secure
<1>9. Unshared(U)
  BY <1>2, <1>4, <1>6, <1>7 DEF SecureInv, Secure, Unshared, NoToken
<1>10. Issued(U, n)
  BY <1>2, <1>4, <1>6, <1>7 DEF Issued, NoToken
<1> QED
  BY <1>1, <1>2, <1>8, <1>9, <1>10, SecureStep DEF Secure

\* A device that joins a session gets a token nobody has, and takes no
\* credential away from the writer (ResumeSession).
LEMMA ResumeSecure ==
  ASSUME TypeInv, TypeInv', SecureInv, NEW t \in Threads, ResumeSession(t)
  PROVE  SecureInv'
<1>1. PICK s \in Resumable(req[t].room, seen[t]) :
        LET token == sessions[s].credentials[req[t].device] IN
        \/ UNCHANGED <<sessions, issued>>
        \/ /\ token = NoToken /\ issued' = issued + 1
           /\ sessions' = [sessions EXCEPT ![s].credentials[req[t].device] = issued + 1]
  BY DEF ResumeSession
<1>2. vault' = vault /\ copy' = copy
  BY DEF ResumeSession, Save
<1>3. issued \in Nat
  BY Bounds DEF TypeInv, StateTypes
<1>4. CASE UNCHANGED <<sessions, issued>>
  BY <1>2, <1>3, <1>4, SecureStep DEF SecureInv
<1>5. CASE /\ sessions[s].credentials[req[t].device] = NoToken /\ issued' = issued + 1
           /\ sessions' = [sessions EXCEPT ![s].credentials[req[t].device] = issued + 1]
  <2> DEFINE device == req[t].device
             joined == [sessions[s] EXCEPT !.credentials[device] = issued + 1]
             U == [sessions EXCEPT ![s] = joined]
  <2>1. device \in Devices /\ s \in DOMAIN sessions
    BY RequestKinds DEF ResumeSession, Handling, TypeInv, ThreadTypes, OpenRequests,
       Resumable
  <2>2. \A x \in DOMAIN sessions : sessions[x] \in Session
    BY DEF TypeInv, StateTypes, IsTable
  <2>3. /\ joined.status = sessions[s].status
        /\ joined.writerToken = sessions[s].writerToken
        /\ joined.writerDevice = sessions[s].writerDevice
        /\ \A d \in Devices : joined.credentials[d] =
             IF d = device THEN issued + 1 ELSE sessions[s].credentials[d]
    BY <2>1, <2>2 DEF Session
  <2>4. DOMAIN U = DOMAIN sessions
        /\ \A x \in DOMAIN sessions : U[x] = IF x = s THEN joined ELSE sessions[x]
    BY <2>1 DEF TypeInv, StateTypes, IsTable
  <2>5. sessions' = U
    BY <1>5, <2>1, <2>2 DEF TypeInv, StateTypes, IsTable, Session
  <2>6. \A x \in DOMAIN sessions : \A d \in Devices :
          sessions[x].credentials[d] \in Nat /\ sessions[x].credentials[d] <= issued
    BY <2>2 DEF SecureInv, Secure, Issued, Session, Tokens, NoToken
  <2>7. sessions[s].credentials[device] = NoToken
    BY <1>5
  <2>8. \A x \in DOMAIN sessions : WriterOK(sessions[x])
    BY DEF SecureInv, Secure
  <2>9. Unshared(sessions)
    BY DEF SecureInv, Secure
  <2> HIDE DEF device, joined, U
  <2>10. WriterOK(joined)
    BY <2>1, <2>3, <2>7, <2>8 DEF WriterOK, Owners
  <2>11. Unshared(U)
    BY <1>3, <2>1, <2>3, <2>4, <2>6, <2>9 DEF Unshared, NoToken
  <2>12. Issued(U, issued + 1)
    BY <1>3, <2>3, <2>4, <2>6 DEF Issued
  <2>13. Secure(sessions', issued')
    BY <1>5, <2>4, <2>5, <2>8, <2>10, <2>11, <2>12 DEF Secure
  <2>14. issued' >= issued
    BY <1>3, <1>5
  <2> QED
    BY <1>2, <2>13, <2>14, SecureStep
<1> QED
  BY <1>1, <1>4, <1>5

\* Recording a final leaves a closed session's writer alone and clears an open
\* one's (Finalized).
LEMMA FinalizedWriter ==
  ASSUME NEW session \in Session, WriterOK(session), NEW id
  PROVE  /\ WriterOK(Finalized(session, id))
         /\ Finalized(session, id).credentials = session.credentials
<1> DEFINE base == IF session.status = "open" THEN Closed(session, "final-received")
                   ELSE session
           f == Finalized(session, id)
<1>1. "final-received" \in Status
  BY DEF Status
<1>2. /\ base \in Session /\ WriterOK(base)
      /\ base.credentials = session.credentials
  BY <1>1, ClosedType, ClosedWriter
<1>3. f = [base EXCEPT !.result = IF session.result = NoResult THEN id ELSE session.result]
  BY DEF Finalized
<1> HIDE DEF base, f
<1>4. /\ f.credentials = base.credentials /\ f.status = base.status
      /\ f.writerToken = base.writerToken /\ f.writerDevice = base.writerDevice
  BY <1>2, <1>3 DEF Session
<1>5. WriterOK(f)
  BY <1>2, <1>4 DEF WriterOK, Owners
<1> QED
  BY <1>2, <1>4, <1>5 DEF f

\* The writer lock is taken with a credential of the session, and an operation
\* on a session keeps its credentials and its writer, or closes it
\* (TakeWriter, Progress, Result, Abandon).
LEMMA UpdateStaysSecure ==
  ASSUME TypeInv, TypeInv', SecureInv, NEW t \in Threads,
         TakeWriter(t) \/ Progress(t) \/ Result(t) \/ Abandon(t)
  PROVE  SecureInv'
<1>1. CASE Refuse(t)
  BY <1>1, RefuseSecure
<1>2. CASE ~Refuse(t)
  <2>1. /\ IsTable(sessions)
        /\ \A s \in DOMAIN sessions : sessions[s] \in Session /\ WriterOK(sessions[s])
    BY DEF TypeInv, StateTypes, IsTable, SecureInv, Secure
  <2>2. Secure(sessions, issued)
    BY DEF SecureInv
  <2>3. vault' = vault /\ issued' = issued /\ (Done(t) \/ copy' = copy)
    BY <1>2 DEF TakeWriter, Progress, Result, Abandon, Save
  <2>4. CASE TakeWriter(t)
    <3> DEFINE s == req[t].session
               taken == [sessions[s] EXCEPT !.writerToken = req[t].token,
                                            !.writerDevice = req[t].device]
    <3>1. s \in DOMAIN sessions /\ Owners(sessions[s], req[t].token) # {}
          /\ sessions[s].status = "open"
      BY <1>2, <2>4 DEF TakeWriter, Authentic
    <3>2. req[t].token # NoToken /\ req[t].device # NoDevice
      <4>1. req[t] \in TakeRequests
        BY <2>4, RequestKinds DEF TakeWriter, Handling, TypeInv
      <4>2. req[t].token \in Tokens /\ req[t].device \in Devices
        BY <4>1 DEF TakeRequests
      <4>3. req[t].token # NoToken
        BY <4>2 DEF Tokens, NoToken
      <4>4. req[t].device # NoDevice
        BY <4>2, ServerAssumption
      <4> QED
        BY <4>3, <4>4
    <3>3. /\ taken.credentials = sessions[s].credentials /\ taken.status = "open"
          /\ taken.writerToken = req[t].token /\ taken.writerDevice = req[t].device
      BY <2>1, <3>1 DEF Session
    <3>4. sessions' = [sessions EXCEPT ![s] = taken]
      BY <1>2, <2>1, <2>4, <3>1 DEF TakeWriter, Authentic, IsTable, Session
    <3> HIDE DEF taken, s
    <3>5. WriterOK(taken)
      BY <3>1, <3>2, <3>3 DEF WriterOK, Owners
    <3>6. Secure(sessions', issued)
      BY <2>1, <2>2, <3>1, <3>3, <3>4, <3>5, UpdateSecure
    <3> QED
      BY <2>3, <3>6, CopiesKept, SecureStep, Bounds DEF TypeInv, StateTypes
  <2>5. CASE Progress(t)
    <3> DEFINE s == req[t].session
               moved == [sessions[s] EXCEPT !.progress = req[t].sequence]
    <3>1. s \in DOMAIN sessions
      BY <1>2, <2>5 DEF Progress, FromWriter, Authentic
    <3>2. /\ moved.credentials = sessions[s].credentials
          /\ moved.status = sessions[s].status
          /\ moved.writerToken = sessions[s].writerToken
          /\ moved.writerDevice = sessions[s].writerDevice
      BY <2>1, <3>1 DEF Session
    <3>3. sessions' = [sessions EXCEPT ![s] = moved]
      BY <1>2, <2>1, <2>5, <3>1 DEF Progress, FromWriter, Authentic, IsTable, Session
    <3> HIDE DEF moved, s
    <3>4. WriterOK(moved)
      BY <2>1, <3>1, <3>2 DEF WriterOK, Owners
    <3>5. Secure(sessions', issued)
      BY <2>1, <2>2, <3>1, <3>2, <3>3, <3>4, UpdateSecure
    <3> QED
      BY <2>3, <3>5, CopiesKept, SecureStep, Bounds DEF TypeInv, StateTypes
  <2>6. CASE Result(t)
    <3>1. ASSUME NEW session \in Session, WriterOK(session), NEW id
          PROVE  /\ WriterOK(Finalized(session, id))
                 /\ Finalized(session, id).credentials = session.credentials
      BY <3>1, FinalizedWriter
    <3>2. ASSUME NEW s \in DOMAIN sessions, NEW id,
                 sessions' = [sessions EXCEPT ![s] = Finalized(sessions[s], id)]
          PROVE  Secure(sessions', issued)
      BY <2>1, <2>2, <3>1, <3>2, UpdateSecure
    <3>3. Secure(sessions', issued)
      BY <1>2, <2>2, <2>6, <3>2 DEF Result, Authentic
    <3> QED
      BY <2>3, <3>3, CopiesKept, SecureStep, Bounds DEF TypeInv, StateTypes
  <2>7. CASE Abandon(t)
    <3>1. Secure(sessions', issued)
      BY <1>2, <2>1, <2>2, <2>7, AbandonedSecure DEF Abandon
    <3> QED
      BY <2>3, <3>1, CopiesKept, SecureStep, Bounds DEF TypeInv, StateTypes
  <2> QED
    BY <2>4, <2>5, <2>6, <2>7
<1> QED
  BY <1>1, <1>2

\* Saving copies one secure table to another, however late (Snapshot, Persist).
LEMMA SaveSecure ==
  ASSUME TypeInv, TypeInv', SecureInv, NEW t \in Threads, Snapshot(t) \/ Persist(t)
  PROVE  SecureInv'
<1>1. sessions' = sessions /\ issued' = issued
  BY DEF Snapshot, Persist
<1>2. CASE Snapshot(t)
  <2>1. /\ vault' = vault
        /\ \A x \in Threads : copy'[x] = IF x = t THEN sessions ELSE copy[x]
    BY <1>2 DEF Snapshot, TypeInv, ThreadTypes
  <2> QED
    BY <1>1, <2>1 DEF SecureInv
<1>3. CASE Persist(t)
  <2>1. vault' \in {vault, copy[t]}
    BY <1>3 DEF Persist
  <2>2. \A x \in Threads : copy'[x] = copy[x] \/ copy'[x] = EmptyTable
    BY <1>3, CopiesKept DEF Persist
  <2>3. Secure(EmptyTable, issued)
    BY EmptySecure
  <2>4. Secure(sessions', issued') /\ Secure(vault', issued')
    BY <1>1, <2>1 DEF SecureInv
  <2>5. \A x \in Threads : Secure(copy'[x], issued')
    BY <1>1, <2>2, <2>3 DEF SecureInv
  <2> QED
    BY <2>4, <2>5 DEF SecureInv
<1> QED
  BY <1>2, <1>3

\* The Director stops, starts or forgets (Stop, Start, ForgetCredentials, AssignRoom).
LEMMA HostSecure ==
  ASSUME TypeInv, TypeInv', SecureInv,
         Stop \/ Start \/ ForgetCredentials \/ \E room \in Rooms : AssignRoom(room)
  PROVE  SecureInv'
<1>1. issued' = issued
  BY DEF Stop, Start, ForgetCredentials, AssignRoom
<1>2. Secure(EmptyTable, issued)
  BY EmptySecure
<1>3. CASE Stop
  BY <1>1, <1>2, <1>3 DEF Stop, SecureInv
<1>4. CASE Start
  <2> DEFINE table == RestoredTable(vault)
  <2>1. IsTable(vault) /\ Secure(vault, issued)
    BY DEF TypeInv, StateTypes, SecureInv
  <2>2. IsTable(table)
    BY <2>1, RestoredType DEF RestoredTable, IsTable
  <2>3. Secure(table, issued)
    BY <2>1, RestoredSecure
  <2>4. /\ sessions' = Abandoned(table, Mismatched(table, assigned))
        /\ vault' = sessions' /\ copy' = copy
    BY <1>4 DEF Start, RestoredTable, threadVars
  <2> HIDE DEF table
  <2>5. Secure(sessions', issued)
    BY <2>2, <2>3, <2>4, AbandonedSecure
  <2> QED
    BY <1>1, <2>4, <2>5 DEF SecureInv
<1>5. CASE ForgetCredentials
  BY <1>1, <1>2, <1>5 DEF ForgetCredentials, SecureInv, threadVars
<1>6. ASSUME NEW room \in Rooms, AssignRoom(room) PROVE SecureInv'
  BY <1>1, <1>6 DEF AssignRoom, SecureInv, threadVars
<1> QED
  BY <1>3, <1>4, <1>5, <1>6

\* No step gives two sessions one token or a session a token not issued.
LEMMA NextSecure == TypeInv /\ SecureInv /\ [Next]_vars => SecureInv'
<1> SUFFICES ASSUME TypeInv, SecureInv, [Next]_vars
             PROVE  SecureInv'
  OBVIOUS
<1>1. TypeInv'
  BY NextTypes
<1>2. ASSUME NEW t \in Threads, Step(t) PROVE SecureInv'
  <2>1. CASE OutOfIds(t)
    BY <1>1, <2>1, RefuseSecure DEF OutOfIds
  <2> QED
    BY <1>1, <1>2, <2>1, ReconcileSecure, RefuseSecure, OpenSecure, ResumeSecure,
       UpdateStaysSecure, SaveSecure DEF Step
<1>3. CASE UNCHANGED vars
  BY <1>3 DEF vars, SecureInv, threadVars
<1> QED
  BY <1>1, <1>2, <1>3, HostSecure DEF Next

\* Writer authority is never left behind and never forged: whatever take-overs,
\* restarts and late saves do, the writer lock of a session is held by one of
\* its own credentials, only while it is open, and no token is shared.
THEOREM WriterLock == Spec => []WriterAuthority
<1>1. Init => TypeInv /\ SecureInv
  BY InitTypes, EmptySecure DEF Init, SecureInv
<1>2. TypeInv /\ [Next]_vars => TypeInv'
  BY NextTypes
<1>3. TypeInv /\ SecureInv /\ [Next]_vars => SecureInv'
  BY NextSecure
<1>4. SecureInv => WriterAuthority
  BY SecureIsSound
<1> QED
  BY <1>1, <1>2, <1>3, <1>4, PTL DEF Spec
-----------------------------------------------------------------------------
(* Time only goes forward: what a session has reached (its end, its         *)
(* progress, its first result, its credentials) it keeps, from one table    *)
(* to every later one.                                                      *)

Later(old, new) ==
  /\ old.status # "open" => new.status = old.status
  /\ new.progress >= old.progress
  /\ old.result # NoResult => new.result = old.result
  /\ \A d \in Devices :
       old.credentials[d] # NoToken => new.credentials[d] = old.credentials[d]

Forward(T, U) ==
  /\ DOMAIN T \subseteq DOMAIN U
  /\ \A s \in DOMAIN T : Later(T[s], U[s])

\* Session ids are never reused, not even those of tables saved earlier.
Known ==
  /\ DOMAIN sessions \subseteq 1..opened /\ DOMAIN vault \subseteq 1..opened
  /\ \A t \in Threads : DOMAIN copy[t] \subseteq 1..opened

\* A table is forward of itself, and forward of what it is forward of.
LEMMA ForwardItself ==
  ASSUME NEW table, IsTable(table)
  PROVE  Forward(table, table)
<1>1. \A s \in DOMAIN table : table[s].progress \in Nat
  BY Bounds DEF IsTable, Session
<1> QED
  BY <1>1 DEF Forward, Later

\* Sessions that advanced twice have advanced.
LEMMA ForwardTwice ==
  ASSUME NEW T, IsTable(T), NEW U, IsTable(U), NEW V, IsTable(V), Forward(T, U), Forward(U, V)
  PROVE  Forward(T, V)
<1>1. DOMAIN T \subseteq DOMAIN U /\ DOMAIN T \subseteq DOMAIN V
  BY DEF Forward
<1>2. ASSUME NEW s \in DOMAIN T PROVE Later(T[s], V[s])
  <2>1. Later(T[s], U[s]) /\ Later(U[s], V[s])
    BY <1>1 DEF Forward
  <2>2. T[s].progress \in Nat /\ U[s].progress \in Nat /\ V[s].progress \in Nat
    BY <1>1, Bounds DEF IsTable, Session
  <2> QED
    BY <2>1, <2>2 DEF Later
<1> QED
  BY <1>1, <1>2 DEF Forward

\* Only live sessions are abandoned (Abandoned).
LEMMA AbandonedForward ==
  ASSUME NEW table, IsTable(table), NEW S \in SUBSET Live(table)
  PROVE  Forward(table, Abandoned(table, S))
<1>1. \A s \in DOMAIN table : table[s] \in Session /\ table[s].progress \in Nat
  BY Bounds DEF IsTable, Session
<1>2. ASSUME NEW session \in Session, session.status = "open", session.progress \in Nat
      PROVE  Later(session, Closed(session, "abandoned"))
  BY <1>2 DEF Later, Closed, Session
<1>3. \A session \in Session : session.progress \in Nat => Later(session, session)
  BY DEF Later
<1> QED
  BY <1>1, <1>2, <1>3 DEF Forward, Abandoned, Live

\* Restoring a table only touches writers (Restored).
LEMMA RestoredForward ==
  ASSUME NEW table, IsTable(table)
  PROVE  Forward(table, RestoredTable(table))
<1>1. \A s \in DOMAIN table : table[s] \in Session /\ table[s].progress \in Nat
  BY Bounds DEF IsTable, Session
<1>2. ASSUME NEW session \in Session
      PROVE  /\ Restored(session).status = session.status
             /\ Restored(session).progress = session.progress
             /\ Restored(session).result = session.result
             /\ Restored(session).credentials = session.credentials
  BY <1>2 DEF Restored, Session
<1>3. \A s \in DOMAIN table : Later(table[s], Restored(table[s]))
  BY <1>1, <1>2 DEF Later
<1> QED
  BY <1>3 DEF Forward, RestoredTable

\* A new session is no step back for the others (With).
LEMMA WithForward ==
  ASSUME NEW table, IsTable(table), NEW s, s \notin DOMAIN table, NEW session
  PROVE  Forward(table, With(table, s, session))
BY ForwardItself DEF Forward, With

\* Updating a session is a step forward if the session's is.
LEMMA UpdateForward ==
  ASSUME NEW table, IsTable(table), NEW s \in DOMAIN table, NEW session,
         Later(table[s], session)
  PROVE  Forward(table, [table EXCEPT ![s] = session])
BY ForwardItself DEF Forward, IsTable

\* Recording a final keeps the first one, and the status of a closed session (Finalized).
LEMMA FinalizedLater ==
  ASSUME NEW session \in Session, NEW id
  PROVE  Later(session, Finalized(session, id)) /\ Finalized(session, id).status # "open"
<1> DEFINE base == IF session.status = "open" THEN Closed(session, "final-received")
                   ELSE session
<1>1. /\ base \in Session /\ base.status # "open"
      /\ session.status # "open" => base.status = session.status
      /\ base.progress = session.progress /\ base.credentials = session.credentials
  BY ClosedType DEF Closed, Session, Status
<1>2. Finalized(session, id)
        = [base EXCEPT !.result = IF session.result = NoResult THEN id ELSE session.result]
  BY DEF Finalized
<1> HIDE DEF base
<1>3. session.progress \in Nat
  BY Bounds DEF Session
<1> QED
  BY <1>1, <1>2, <1>3 DEF Later, Session

\* Every step of a thread takes the running table forward.
LEMMA StepForward ==
  ASSUME TypeInv, Known, NEW t \in Threads, Step(t)
  PROVE  Forward(sessions, sessions')
<1> DEFINE s == req[t].session
<1>1. IsTable(sessions) /\ \A x \in DOMAIN sessions : sessions[x] \in Session
  BY DEF TypeInv, StateTypes, IsTable
<1>2. CASE UNCHANGED sessions
  BY <1>1, <1>2, ForwardItself
<1>3. CASE Arrive(t) \/ Reconcile(t)
  <2>1. PICK S \in SUBSET Live(sessions) : sessions' = Abandoned(sessions, S)
    BY <1>3 DEF Arrive, Reconcile, Mismatched
  <2> QED
    BY <1>1, <2>1, AbandonedForward
<1>4. CASE OpenNewSession(t)
  <2>1. opened + 1 \notin DOMAIN sessions
    BY Bounds DEF Known, TypeInv, StateTypes
  <2> QED
    BY <1>1, <1>4, <2>1, WithForward DEF OpenNewSession
<1>5. CASE ResumeSession(t) /\ sessions' # sessions
  <2>1. PICK x \in Resumable(req[t].room, seen[t]) :
          /\ sessions[x].credentials[req[t].device] = NoToken
          /\ sessions' = [sessions EXCEPT ![x].credentials[req[t].device] = issued + 1]
    BY <1>5 DEF ResumeSession
  <2> DEFINE joined == [sessions[x] EXCEPT !.credentials[req[t].device] = issued + 1]
  <2>2. x \in DOMAIN sessions
    BY DEF Resumable
  <2>3. sessions[x].progress \in Nat
    BY <1>1, <2>2, Bounds DEF Session
  <2>4. Later(sessions[x], joined)
    BY <1>1, <2>1, <2>2, <2>3 DEF Later, Session
  <2>5. sessions' = [sessions EXCEPT ![x] = joined]
    BY <1>1, <2>1, <2>2 DEF IsTable, Session
  <2> HIDE DEF joined
  <2> QED
    BY <1>1, <2>2, <2>4, <2>5, UpdateForward
<1>6. CASE TakeWriter(t) /\ sessions' # sessions
  <2> DEFINE taken == [sessions[s] EXCEPT !.writerToken = req[t].token,
                                          !.writerDevice = req[t].device]
  <2>1. s \in DOMAIN sessions
    BY <1>6 DEF TakeWriter, Authentic, Refuse
  <2>2. sessions[s].progress \in Nat
    BY <1>1, <2>1, Bounds DEF Session
  <2>3. Later(sessions[s], taken)
    BY <1>1, <2>1, <2>2 DEF Later, Session
  <2>4. sessions' = [sessions EXCEPT ![s] = taken]
    BY <1>1, <1>6, <2>1 DEF TakeWriter, Refuse, IsTable, Session
  <2> HIDE DEF taken, s
  <2> QED
    BY <1>1, <2>1, <2>3, <2>4, UpdateForward
<1>7. CASE Progress(t) /\ sessions' # sessions
  <2> DEFINE moved == [sessions[s] EXCEPT !.progress = req[t].sequence]
  <2>1. s \in DOMAIN sessions /\ ~(req[t].sequence <= sessions[s].progress)
    BY <1>7 DEF Progress, FromWriter, Discards, Authentic, Refuse
  <2>2. sessions[s].progress \in Nat /\ req[t].sequence \in Nat
    BY <1>1, <1>7, <2>1, Bounds, RequestKinds DEF Session, Progress, Handling, TypeInv,
       ProgressRequests
  <2>3. Later(sessions[s], moved)
    BY <1>1, <2>1, <2>2 DEF Later, Session
  <2>4. sessions' = [sessions EXCEPT ![s] = moved]
    BY <1>1, <1>7, <2>1 DEF Progress, Refuse, IsTable, Session
  <2> HIDE DEF moved, s
  <2> QED
    BY <1>1, <2>1, <2>3, <2>4, UpdateForward
<1>8. CASE Result(t) /\ sessions' # sessions
  <2>1. PICK id : sessions' = [sessions EXCEPT ![s] = Finalized(sessions[s], id)]
    BY <1>8 DEF Result, Refuse
  <2>2. s \in DOMAIN sessions
    BY <1>8 DEF Result, Authentic, Refuse
  <2> QED
    BY <1>1, <2>1, <2>2, FinalizedLater, UpdateForward
<1>9. CASE Abandon(t) /\ sessions' # sessions
  <2>1. s \in Live(sessions) /\ sessions' = Abandoned(sessions, {s})
    BY <1>9 DEF Abandon, Refuse
  <2> QED
    BY <1>1, <2>1, AbandonedForward
<1> QED
  BY <1>2, <1>3, <1>4, <1>5, <1>6, <1>7, <1>8, <1>9
     DEF Step, ReadAssignment, OutOfIds, Refuse, Snapshot, Persist
\* A step of a thread opens at most the next session, and its tables are among those
\* there were.
LEMMA StepKnown ==
  ASSUME TypeInv, Known, NEW t \in Threads, Step(t)
  PROVE  Known'
<1> DEFINE s == req[t].session
<1>1. opened \in Nat /\ IsTable(sessions) /\ DOMAIN EmptyTable = {}
  BY Bounds DEF TypeInv, StateTypes, EmptyTable
<1>2. \/ opened' = opened /\ DOMAIN sessions' = DOMAIN sessions
      \/ opened' = opened + 1 /\ DOMAIN sessions' = DOMAIN sessions \cup {opened + 1}
  <2>1. CASE OpenNewSession(t)
    BY <2>1 DEF OpenNewSession, With
  <2>2. CASE ~OpenNewSession(t)
    <3>1. opened' = opened
      BY <2>2 DEF Step, Arrive, Reconcile, ReadAssignment, ResumeSession, OutOfIds, Refuse,
         TakeWriter, Progress, Result, Abandon, Snapshot, Persist
    <3>2. DOMAIN sessions' = DOMAIN sessions
      BY <1>1, <2>2 DEF Step, Arrive, Reconcile, ReadAssignment, ResumeSession, OutOfIds,
         Refuse, TakeWriter, Progress, Result, Abandon, Snapshot, Persist, Abandoned, IsTable
    <3> QED
      BY <3>1, <3>2
  <2> QED
    BY <2>1, <2>2
<1>3. vault' = vault \/ vault' = copy[t]
  BY DEF Step, Arrive, Reconcile, ReadAssignment, OpenNewSession, ResumeSession, OutOfIds,
     Refuse, TakeWriter, Progress, Result, Abandon, Snapshot, Persist
<1>4. \A x \in Threads :
        copy'[x] = copy[x] \/ copy'[x] = EmptyTable \/ copy'[x] = sessions
  <2>1. CASE Snapshot(t)
    BY <2>1 DEF Snapshot, TypeInv, ThreadTypes
  <2>2. CASE ~Snapshot(t)
    <3>1. Done(t) \/ copy' = copy
      BY <2>2 DEF Step, Arrive, Reconcile, ReadAssignment, OpenNewSession, ResumeSession,
         OutOfIds, Refuse, TakeWriter, Progress, Result, Abandon, Persist, Goto, Save
    <3> QED
      BY <3>1, CopiesKept
  <2> QED
    BY <2>1, <2>2
<1> QED
  BY <1>1, <1>2, <1>3, <1>4 DEF Known

\* Every session id in use was given out, whatever table a restart reads.
LEMMA NextKnown == TypeInv /\ Known /\ [Next]_vars => Known'
<1> SUFFICES ASSUME TypeInv, Known, [Next]_vars
             PROVE  Known'
  OBVIOUS
<1>1. DOMAIN EmptyTable = {}
  BY DEF EmptyTable
<1>2. CASE Stop
  BY <1>1, <1>2 DEF Stop, Known
<1>3. CASE Start
  <2>1. DOMAIN sessions' = DOMAIN vault /\ vault' = sessions'
    BY <1>3 DEF Start, Abandoned
  <2> QED
    BY <1>3, <2>1 DEF Start, Known, threadVars
<1>4. CASE ForgetCredentials
  BY <1>1, <1>4 DEF ForgetCredentials, Known, threadVars
<1>5. ASSUME NEW room \in Rooms, AssignRoom(room) PROVE Known'
  BY <1>5 DEF AssignRoom, Known, threadVars
<1>6. CASE UNCHANGED vars
  BY <1>6 DEF vars, Known, threadVars
<1> QED
  BY <1>2, <1>3, <1>4, <1>5, <1>6, StepKnown DEF Next

\* No session id was given out before the first request.
LEMMA InitKnown == Init => Known
BY DEF Init, Known, EmptyTable

\* While one server process lives, a closed session stays closed, its progress
\* only grows and its first result stays its result, whatever the threads that
\* passed their checks earlier do to it later.
THEOREM SessionsOnlyAdvance == Spec => NeverBackwards
<1> DEFINE Advance ==
      (up /\ up') => \A s \in DOMAIN sessions :
        /\ s \in DOMAIN sessions'
        /\ sessions[s].status # "open" => sessions'[s].status = sessions[s].status
        /\ sessions'[s].progress >= sessions[s].progress
        /\ sessions[s].result # NoResult => sessions'[s].result = sessions[s].result
<1>1. Init => TypeInv /\ Known
  BY InitTypes, InitKnown
<1>2. TypeInv /\ Known /\ [Next]_vars => TypeInv' /\ Known'
  BY NextTypes, NextKnown
<1>3. TypeInv /\ Known /\ [Next]_vars => Advance
  <2> SUFFICES ASSUME TypeInv, Known, [Next]_vars, up, up'
               PROVE  Forward(sessions, sessions')
    BY DEF Forward, Later
  <2>1. IsTable(sessions)
    BY DEF TypeInv, StateTypes
  <2>2. CASE UNCHANGED sessions
    BY <2>1, <2>2, ForwardItself
  <2>3. ASSUME NEW t \in Threads, Step(t) PROVE Forward(sessions, sessions')
    BY <2>3, StepForward
  <2> QED
    BY <2>2, <2>3 DEF Next, Stop, Start, ForgetCredentials, AssignRoom, vars
<1>4. TypeInv /\ Known /\ [Next]_vars => [Advance]_vars
  BY <1>3
<1> HIDE DEF Advance
<1>5. Spec => [][Advance]_vars
  BY <1>1, <1>2, <1>4, PTL DEF Spec
<1> QED
  BY <1>5 DEF Advance, NeverBackwards
-----------------------------------------------------------------------------
(* What was acknowledged is saved, when requests come one at a time and     *)
(* nobody resets the pairings: then no handler runs between the copy of the *)
(* authority and its save, so the running table is always forward of the    *)
(* vault, and the copy that is saved holds what the answer says.            *)

OneThread == \A t1, t2 \in Threads : t1 = t2

\* The operation whose answer is on its way took effect in the table.
Earned(t, table) ==
  LET s == answer[t].session IN
  /\ s \in DOMAIN table
  /\ req[t].op \in {"open", "take"} => Owners(table[s], answer[t].token) # {}
  /\ req[t].op = "progress" => table[s].progress >= req[t].sequence
  /\ req[t].op = "result" => table[s].status # "open"

ThreadSaves(t) ==
  /\ pc[t] # "idle" => up
  /\ pc[t] = "persist" => copy[t] = sessions
  /\ pc[t] \in {"snapshot", "persist"} => Earned(t, sessions)

\* What clients were told is in the table.
Covers(table) ==
  /\ \A h \in held : h[1] \in DOMAIN table /\ Owners(table[h[1]], h[2]) # {}
  /\ \A s \in SessionIds : acked[s] # NoProgress =>
       s \in DOMAIN table /\ table[s].progress >= acked[s]
  /\ \A s \in receipts : s \in DOMAIN table /\ table[s].status # "open"

SavedInv ==
  /\ up => Forward(vault, sessions)
  /\ \A t \in Threads : ThreadSaves(t)
  /\ Covers(vault)

\* The invariant gives the property: what a client was never told is at its
\* lowest.
LEMMA SavedInvIsSaved ==
  ASSUME TypeInv, SavedInv
  PROVE  AcknowledgedIsSaved
<1>1. \A s \in DOMAIN vault : s \in SessionIds /\ vault[s].progress \in Nat
  BY Bounds DEF TypeInv, StateTypes, IsTable, Session
<1> QED
  BY <1>1 DEF SavedInv, Covers, AcknowledgedIsSaved, CredentialsSaved, ProgressSaved,
     FinalsSaved, NoProgress

\* A table that is forward of one that covers what clients were told covers it.
LEMMA ForwardCovers ==
  ASSUME ClientTypes, NEW T, IsTable(T), NEW U, IsTable(U), Forward(T, U), Covers(T)
  PROVE  Covers(U)
<1>1. DOMAIN T \subseteq DOMAIN U /\ \A s \in DOMAIN T : Later(T[s], U[s])
  BY DEF Forward
<1>2. \A s \in DOMAIN T : T[s].progress \in Nat /\ U[s].progress \in Nat
  BY <1>1, Bounds DEF IsTable, Session
<1>3. \A s \in SessionIds : acked[s] \in Nat
  BY Bounds DEF ClientTypes
<1>4. ASSUME NEW h \in held
      PROVE  h[1] \in DOMAIN U /\ Owners(U[h[1]], h[2]) # {}
  <2>1. h[1] \in DOMAIN T /\ Owners(T[h[1]], h[2]) # {} /\ h[2] # NoToken
    BY DEF Covers, ClientTypes, Tokens, NoToken
  <2>2. PICK d \in Devices : T[h[1]].credentials[d] = h[2]
    BY <2>1 DEF Owners
  <2>3. U[h[1]].credentials[d] = h[2]
    BY <1>1, <2>1, <2>2 DEF Later
  <2> QED
    BY <1>1, <2>1, <2>3 DEF Owners
<1>5. ASSUME NEW s \in SessionIds, acked[s] # NoProgress
      PROVE  s \in DOMAIN U /\ U[s].progress >= acked[s]
  <2>1. s \in DOMAIN T /\ T[s].progress >= acked[s]
    BY <1>5 DEF Covers
  <2>2. U[s].progress >= T[s].progress
    BY <1>1, <2>1 DEF Later
  <2> QED
    BY <1>1, <1>2, <1>3, <2>1, <2>2
<1>6. ASSUME NEW s \in receipts
      PROVE  s \in DOMAIN U /\ U[s].status # "open"
  BY <1>1 DEF Covers, Later
<1> QED
  BY <1>4, <1>5, <1>6 DEF Covers

\* A step of the thread up to where it goes to save: the running table moves
\* forward, and the vault and the clients are as they were.
LEMMA BeforeSave ==
  ASSUME OneThread, TypeInv, TypeInv', Known, SavedInv, NEW t \in Threads, Step(t),
         UNCHANGED <<up, vault, held, receipts, acked>>,
         pc[t] # "idle" \/ up, pc'[t] # "persist",
         pc'[t] = "snapshot" => Earned(t, sessions)'
  PROVE  SavedInv'
<1>1. IsTable(vault) /\ IsTable(sessions) /\ IsTable(sessions')
  BY DEF TypeInv, StateTypes
<1>2. up => Forward(vault', sessions')
  BY <1>1, StepForward, ForwardTwice DEF SavedInv
<1>3. \A x \in Threads : ThreadSaves(x)'
  BY DEF SavedInv, ThreadSaves, OneThread
<1>4. Covers(vault)'
  BY DEF SavedInv, Covers
<1> QED
  BY <1>2, <1>3, <1>4 DEF SavedInv
\* A request that arrives, reconciles, is refused or is answered without a save.
LEMMA RequestSaves ==
  ASSUME OneThread, TypeInv, TypeInv', Known, SavedInv, NEW t \in Threads,
         \/ Arrive(t) \/ Reconcile(t) \/ ReadAssignment(t)
         \/ /\ TakeWriter(t) \/ Progress(t) \/ Result(t) \/ Abandon(t) \/ OutOfIds(t)
            /\ Done(t)
  PROVE  SavedInv'
<1>1. pc \in [Threads -> {"idle", "reconcile", "read", "handle", "snapshot", "persist"}]
  BY DEF TypeInv, ThreadTypes
<1>2. UNCHANGED <<up, vault, held, receipts, acked>>
  BY DEF Arrive, Reconcile, ReadAssignment, TakeWriter, Progress, Result, Abandon, OutOfIds,
     Refuse, clientVars
<1>3. Step(t) /\ (pc[t] # "idle" \/ up)
  BY DEF Step, Arrive, Reconcile, ReadAssignment, TakeWriter, Progress, Result, Abandon,
     OutOfIds, Handling
<1>4. pc'[t] \in {"idle", "reconcile", "read", "handle"}
  BY <1>1 DEF Arrive, Reconcile, ReadAssignment, Done, Goto
<1> QED
  BY <1>2, <1>3, <1>4, BeforeSave

\* What an operation must have done to its session to be answered.
LEMMA SaveEarned ==
  ASSUME TypeInv, NEW t \in Threads, NEW s \in DOMAIN sessions', NEW token, NEW result,
         Save(t, s, token, result),
         req[t].op \in {"open", "take"} => Owners(sessions'[s], token) # {},
         req[t].op = "progress" => sessions'[s].progress >= req[t].sequence,
         req[t].op = "result" => sessions'[s].status # "open"
  PROVE  Earned(t, sessions)'
BY SaveOwn DEF Earned

\* Opening gives the device a credential of the session (OpenNewSession, ResumeSession).
LEMMA OpenSaves ==
  ASSUME OneThread, TypeInv, TypeInv', Known, SavedInv, NEW t \in Threads,
         OpenNewSession(t) \/ ResumeSession(t)
  PROVE  SavedInv'
<1> DEFINE device == req[t].device
<1>1. /\ UNCHANGED <<up, vault, held, receipts, acked>>
      /\ Step(t) /\ pc[t] = "handle" /\ req[t].op = "open"
  BY DEF OpenNewSession, ResumeSession, Save, clientVars, Step, Handling
<1>2. device \in Devices
  BY <1>1, RequestKinds DEF TypeInv, ThreadTypes, OpenRequests
<1>3. PICK s, token :
        /\ s \in DOMAIN sessions' /\ Save(t, s, token, NoResult)
        /\ sessions'[s].credentials[device] = token
  <2>1. CASE OpenNewSession(t)
    <3> DEFINE new == NewSession(req[t].room, seen[t], device, issued + 1)
    <3>1. /\ sessions' = With(sessions, opened + 1, new)
          /\ Save(t, opened + 1, issued + 1, NoResult)
      BY <2>1 DEF OpenNewSession
    <3>2. new.credentials[device] = issued + 1
      BY <1>2 DEF NewSession
    <3> HIDE DEF new
    <3>3. opened + 1 \in DOMAIN sessions' /\ sessions'[opened + 1] = new
      BY <3>1 DEF With
    <3> QED
      BY <3>1, <3>2, <3>3
  <2>2. CASE ResumeSession(t)
    <3>1. PICK x \in Resumable(req[t].room, seen[t]) :
            \/ /\ Save(t, x, sessions[x].credentials[device], NoResult)
               /\ sessions' = sessions
            \/ /\ sessions' = [sessions EXCEPT ![x].credentials[device] = issued + 1]
               /\ Save(t, x, issued + 1, NoResult)
      BY <2>2 DEF ResumeSession
    <3>2. x \in DOMAIN sessions /\ IsTable(sessions) /\ sessions[x] \in Session
      BY DEF Resumable, TypeInv, StateTypes, IsTable
    <3>3. CASE /\ sessions' = [sessions EXCEPT ![x].credentials[device] = issued + 1]
               /\ Save(t, x, issued + 1, NoResult)
      <4>1. x \in DOMAIN sessions' /\ sessions'[x].credentials[device] = issued + 1
        BY <1>2, <3>2, <3>3 DEF IsTable, Session
      <4> QED
        BY <3>3, <4>1
    <3> QED
      BY <3>1, <3>2, <3>3
  <2> QED
    BY <2>1, <2>2
<1>4. Owners(sessions'[s], token) # {}
  BY <1>2, <1>3 DEF Owners
<1>5. Earned(t, sessions)'
  BY <1>1, <1>3, <1>4, SaveEarned
<1>6. pc'[t] = "snapshot"
  BY <1>3, SaveOwn
<1> QED
  BY <1>1, <1>5, <1>6, BeforeSave

\* Taking the lock, progress, a final and abandoning (TakeWriter, Progress, Result, Abandon).
LEMMA OperationSaves ==
  ASSUME OneThread, TypeInv, TypeInv', Known, SavedInv, NEW t \in Threads,
         TakeWriter(t) \/ Progress(t) \/ Result(t) \/ Abandon(t)
  PROVE  SavedInv'
<1> DEFINE s == req[t].session
<1>1. CASE Done(t)
  BY <1>1, RequestSaves
<1>2. CASE ~Done(t)
  <2>1. /\ UNCHANGED <<up, vault, held, receipts, acked>>
        /\ Step(t) /\ pc[t] = "handle"
    BY <1>2 DEF TakeWriter, Progress, Result, Abandon, Refuse, Save, clientVars, Step,
       Handling
  <2>2. IsTable(sessions) /\ \A x \in DOMAIN sessions : sessions[x] \in Session
    BY DEF TypeInv, StateTypes, IsTable
  <2>3. PICK token, result :
          /\ Save(t, s, token, result)
          /\ s \in DOMAIN sessions'
          /\ req[t].op \in {"open", "take"} => Owners(sessions'[s], token) # {}
          /\ req[t].op = "progress" => sessions'[s].progress >= req[t].sequence
          /\ req[t].op = "result" => sessions'[s].status # "open"
    <3>1. CASE TakeWriter(t)
      <4>1. /\ Save(t, s, req[t].token, NoResult) /\ req[t].op = "take"
            /\ s \in DOMAIN sessions /\ Owners(sessions[s], req[t].token) # {}
            /\ sessions' = [sessions EXCEPT ![s].writerToken = req[t].token,
                                            ![s].writerDevice = req[t].device]
        BY <1>2, <3>1 DEF TakeWriter, Authentic, Refuse, Handling
      <4> HIDE DEF s
      <4>2. s \in DOMAIN sessions' /\ sessions'[s].credentials = sessions[s].credentials
        BY <2>2, <4>1 DEF IsTable, Session
      <4> QED
        BY <4>1, <4>2 DEF Owners
    <3>2. CASE Progress(t)
      <4>1. /\ Save(t, s, req[t].token, NoResult) /\ req[t].op = "progress"
            /\ s \in DOMAIN sessions
            /\ sessions' = [sessions EXCEPT ![s].progress = req[t].sequence]
        BY <1>2, <3>2 DEF Progress, FromWriter, Authentic, Refuse, Handling
      <4>2. req[t].sequence \in Nat
        BY <4>1, Bounds, RequestKinds DEF TypeInv, ProgressRequests
      <4> HIDE DEF s
      <4>3. s \in DOMAIN sessions' /\ sessions'[s].progress = req[t].sequence
        BY <2>2, <4>1 DEF IsTable, Session
      <4> QED
        BY <4>1, <4>2, <4>3
    <3>3. CASE Result(t)
      <4>1. PICK r \in Disposition(s, req[t].final) :
              /\ sessions' = [sessions EXCEPT ![s] = Finalized(sessions[s], r.id)]
              /\ Save(t, s, req[t].token, r.id)
        BY <1>2, <3>3 DEF Result, Refuse
      <4>2. s \in DOMAIN sessions /\ req[t].op = "result"
        BY <1>2, <3>3 DEF Result, Authentic, Refuse, Handling
      <4> HIDE DEF s
      <4>3. s \in DOMAIN sessions' /\ sessions'[s].status # "open"
        BY <2>2, <4>1, <4>2, FinalizedLater DEF IsTable
      <4> QED
        BY <4>1, <4>2, <4>3
    <3>4. CASE Abandon(t)
      <4>1. /\ Save(t, s, NoToken, NoResult) /\ req[t].op = "abandon"
            /\ s \in DOMAIN sessions /\ sessions' = Abandoned(sessions, {s})
        BY <1>2, <3>4 DEF Abandon, Live, Refuse, Handling
      <4>2. s \in DOMAIN sessions'
        BY <4>1 DEF Abandoned
      <4> QED
        BY <4>1, <4>2
    <3> QED
      BY <3>1, <3>2, <3>3, <3>4
  <2> HIDE DEF s
  <2>4. Earned(t, sessions)'
    BY <2>3, SaveEarned
  <2>5. pc'[t] = "snapshot"
    BY <2>3, SaveOwn
  <2> QED
    BY <2>1, <2>4, <2>5, BeforeSave
<1> QED
  BY <1>1, <1>2
\* The copy of the authority is the running table, and stays so until it is saved
\* (Snapshot).
LEMMA SnapshotSaves ==
  ASSUME OneThread, TypeInv, SavedInv, NEW t \in Threads, Snapshot(t)
  PROVE  SavedInv'
<1>1. /\ up' = up /\ sessions' = sessions /\ vault' = vault /\ UNCHANGED clientVars
      /\ req' = req /\ answer' = answer
  BY DEF Snapshot
<1>2. pc[t] = "snapshot" /\ pc'[t] = "persist" /\ copy'[t] = sessions
  BY DEF Snapshot, TypeInv, ThreadTypes
<1>3. ThreadSaves(t)'
  BY <1>1, <1>2 DEF SavedInv, ThreadSaves, Earned
<1> QED
  BY <1>1, <1>3 DEF SavedInv, OneThread, Covers, clientVars

\* What the answer says is in the copy that was saved, so the client may be told
\* (Persist, Acknowledge).
LEMMA PersistSaves ==
  ASSUME OneThread, TypeInv, SavedInv, NEW t \in Threads, Persist(t)
  PROVE  SavedInv'
<1> DEFINE s == answer[t].session
<1>1. /\ pc[t] = "persist" /\ up /\ copy[t] = sessions /\ Earned(t, sessions)
      /\ up' = up /\ sessions' = sessions
  BY DEF Persist, SavedInv, ThreadSaves
<1>2. IsTable(sessions) /\ IsTable(vault) /\ ClientTypes
  BY DEF TypeInv, StateTypes
<1>3. pc'[t] = "idle"
  BY DEF Persist, Done, TypeInv, ThreadTypes
<1>4. \A x \in Threads : ThreadSaves(x)'
  BY <1>1, <1>3 DEF ThreadSaves, OneThread
<1>5. CASE vault' = vault /\ UNCHANGED clientVars
  BY <1>1, <1>4, <1>5 DEF SavedInv, Covers, clientVars
<1>6. CASE vault' = copy[t] /\ Acknowledge(t)
  <2>1. vault' = sessions /\ Covers(sessions)
    BY <1>1, <1>2, <1>6, ForwardCovers DEF SavedInv
  <2>2. Forward(vault', sessions')
    BY <1>1, <1>2, <2>1, ForwardItself
  <2>3. ASSUME NEW h \in held'
        PROVE  h[1] \in DOMAIN sessions /\ Owners(sessions[h[1]], h[2]) # {}
    <3>1. CASE h \in held
      BY <2>1, <3>1 DEF Covers
    <3>2. CASE h \notin held
      <4>1. h[1] = s /\ h[2] = answer[t].token /\ req[t].op \in {"open", "take"}
        BY <1>6, <2>3, <3>2 DEF Acknowledge
      <4> QED
        BY <1>1, <4>1 DEF Earned
    <3> QED
      BY <3>1, <3>2
  <2>4. ASSUME NEW x \in SessionIds, acked'[x] # NoProgress
        PROVE  x \in DOMAIN sessions /\ sessions[x].progress >= acked'[x]
    <3>1. CASE acked'[x] = acked[x]
      BY <2>1, <2>4, <3>1 DEF Covers
    <3>2. CASE acked'[x] # acked[x]
      <4>1. req[t].op = "progress" /\ x = s /\ acked'[x] = req[t].sequence
        BY <1>2, <1>6, <3>2 DEF Acknowledge, ClientTypes
      <4> QED
        BY <1>1, <4>1 DEF Earned
    <3> QED
      BY <3>1, <3>2
  <2>5. ASSUME NEW x \in receipts'
        PROVE  x \in DOMAIN sessions /\ sessions[x].status # "open"
    <3>1. CASE x \in receipts
      BY <2>1, <3>1 DEF Covers
    <3>2. CASE x \notin receipts
      <4>1. req[t].op = "result" /\ x = s
        BY <1>6, <2>5, <3>2 DEF Acknowledge
      <4> QED
        BY <1>1, <4>1 DEF Earned
    <3> QED
      BY <3>1, <3>2
  <2>6. Covers(vault)'
    BY <2>1, <2>3, <2>4, <2>5 DEF Covers
  <2> QED
    BY <1>4, <2>2, <2>6 DEF SavedInv
<1> QED
  BY <1>5, <1>6 DEF Persist

\* A restart serves what was saved, and saves what it serves (Stop, Start, AssignRoom).
LEMMA HostSaves ==
  ASSUME "forget" \notin Operations, TypeInv, TypeInv', SavedInv,
         Stop \/ Start \/ ForgetCredentials \/ \E room \in Rooms : AssignRoom(room)
  PROVE  SavedInv'
<1>1. CASE Stop
  <2>1. \A t \in Threads : ThreadSaves(t)'
    BY <1>1 DEF Stop, ThreadSaves
  <2> QED
    BY <1>1, <2>1 DEF Stop, SavedInv, Covers, clientVars
<1>2. CASE Start
  <2> DEFINE table == RestoredTable(vault)
  <2>1. IsTable(vault) /\ IsTable(vault') /\ ClientTypes
    BY DEF TypeInv, StateTypes
  <2>2. IsTable(table) /\ Forward(vault, table)
    BY <2>1, RestoredType, RestoredForward DEF RestoredTable, IsTable
  <2>3. /\ sessions' = Abandoned(table, Mismatched(table, assigned)) /\ vault' = sessions'
        /\ ~up /\ UNCHANGED clientVars /\ UNCHANGED threadVars
    BY <1>2 DEF Start, RestoredTable
  <2> HIDE DEF table
  <2>4. Forward(table, vault')
    BY <2>2, <2>3, AbandonedForward DEF Mismatched
  <2>5. Forward(vault, vault')
    BY <2>1, <2>2, <2>4, ForwardTwice
  <2>6. Covers(vault')
    BY <2>1, <2>5, ForwardCovers DEF SavedInv
  <2>7. Covers(vault)'
    BY <2>3, <2>6 DEF Covers, clientVars
  <2>8. Forward(vault', sessions')
    BY <2>1, <2>3, ForwardItself
  <2>9. \A t \in Threads : ThreadSaves(t)'
    BY <2>3 DEF SavedInv, ThreadSaves, threadVars, TypeInv, ThreadTypes
  <2> QED
    BY <2>7, <2>8, <2>9 DEF SavedInv
<1>3. CASE ForgetCredentials
  BY <1>3 DEF ForgetCredentials
<1>4. ASSUME NEW room \in Rooms, AssignRoom(room) PROVE SavedInv'
  BY <1>4 DEF AssignRoom, SavedInv, ThreadSaves, Earned, Covers, threadVars, clientVars
<1> QED
  BY <1>1, <1>2, <1>3, <1>4

\* A lone thread saves what it changed before it answers (persist_credentials).
LEMMA NextSaves ==
  ASSUME OneThread, "forget" \notin Operations
  PROVE  TypeInv /\ Known /\ SavedInv /\ [Next]_vars => SavedInv'
<1> SUFFICES ASSUME TypeInv, Known, SavedInv, [Next]_vars
             PROVE  SavedInv'
  OBVIOUS
<1>1. TypeInv'
  BY NextTypes
<1>2. ASSUME NEW t \in Threads, Step(t) PROVE SavedInv'
  <2>1. CASE OutOfIds(t)
    BY <1>1, <2>1, RequestSaves DEF OutOfIds, Refuse
  <2> QED
    BY <1>1, <1>2, <2>1, RequestSaves, OpenSaves, OperationSaves, SnapshotSaves,
       PersistSaves DEF Step
<1>3. CASE UNCHANGED vars
  BY <1>3 DEF vars, SavedInv, ThreadSaves, Earned, Covers, threadVars, clientVars
<1> QED
  BY <1>1, <1>2, <1>3, HostSaves DEF Next

\* When requests come one at a time, what a client was told outlives a restart at
\* any point and any failed save: its credential is in the vault, its progress is
\* not below what was acknowledged, and a session it has a receipt for is not
\* saved as open.
THEOREM AnswersSurvive ==
  ASSUME OneThread, "forget" \notin Operations
  PROVE  Spec => []AcknowledgedIsSaved
<1>1. Init => TypeInv /\ Known /\ SavedInv
  <2>1. Init => SavedInv
    BY DEF Init, SavedInv, ThreadSaves, Covers, Forward, EmptyTable, NoProgress
  <2> QED
    BY <2>1, InitTypes, InitKnown
<1>2. TypeInv /\ Known /\ SavedInv /\ [Next]_vars => TypeInv' /\ Known' /\ SavedInv'
  BY NextTypes, NextKnown, NextSaves
<1>3. TypeInv /\ SavedInv => AcknowledgedIsSaved
  BY SavedInvIsSaved
<1> QED
  BY <1>1, <1>2, <1>3, PTL DEF Spec
=============================================================================
