----------------------- MODULE ResultSettlementProofs -----------------------
(***************************************************************************)
(* Theorems about ResultSettlement for any rounds, games, rooms, sessions  *)
(* and bounds: a game has one result, a retained result is staged once, a  *)
(* result that counts and a cancellation stay, one round is at play, and   *)
(* one game in a room.                                                     *)
(***************************************************************************)
EXTENDS ResultSettlement, FiniteSetTheorems, WellFoundedInduction, TLAPS

ResultType == [session : Sessions, game : Games, print : Scores]
RecordType == [game : Games, status : RecordStatus]
EntryType == [record : Nat, status : EntryStatus, print : Scores \cup {Typed},
              result : 0..MaxResults]
SessionType == [state : {"absent", "open", "received", "abandoned"}, resumable : BOOLEAN,
                match : Games \cup {None}, room : Rooms \cup {None}]
DocumentType ==
  [round : [Rounds -> {"planned", "released", "closed"}], game : [Games -> GameStatus],
   room : [Games -> Rooms], records : Seq(RecordType), entries : Seq(EntryType),
   session : [Sessions -> SessionType]]

IsDecided(d, r) == d.records[r].status \in {"accepted", "forfeit"}
DecidedOf(d, g) == {r \in Records(d, g) : IsDecided(d, r)}

\* Every submission is about a record of the document.
Filed(d) ==
  /\ d \in DocumentType
  /\ \A e \in DOMAIN d.entries : d.entries[e].record \in DOMAIN d.records

\* What waits is the one submission that waits about a record nobody decided; a
\* decided record has one accepted submission, and a game one decided record.
Entered(d) ==
  /\ Filed(d)
  /\ \A e \in DOMAIN d.entries : d.entries[e].status = "pending"
       => d.records[d.entries[e].record].status = "submitted"
  /\ \A e \in DOMAIN d.entries : d.entries[e].status = "accepted"
       => IsDecided(d, d.entries[e].record)
  /\ \A e, f \in DOMAIN d.entries :
       /\ d.entries[e].record = d.entries[f].record
       /\ d.entries[e].status = d.entries[f].status
       /\ d.entries[e].status \in {"pending", "accepted"}
       => e = f
  /\ \A r \in DOMAIN d.records : IsDecided(d, r)
       => \E e \in DOMAIN d.entries : d.entries[e].status = "accepted" /\ d.entries[e].record = r
  /\ \A g \in Games : \A r, q \in DecidedOf(d, g) : r = q

\* A game is accepted exactly when it has a decided record.
Ruled(d) == \A g \in Games : d.game[g] = "accepted" <=> DecidedOf(d, g) # {}

\* A result of the host's is one submission.
Once(d) ==
  \A e, f \in DOMAIN d.entries :
    d.entries[e].result = d.entries[f].result /\ d.entries[e].result # 0 => e = f

Sound(d) == Entered(d) /\ Ruled(d) /\ Once(d)

HostTypes ==
  /\ offered \in [Rooms -> [play : SUBSET Games, games : SUBSET Games]]
  /\ runtime \in [Sessions -> [state : {"none", "open", "abandoned", "final"},
                               game : Games \cup {None}, room : Rooms \cup {None}]]
  /\ \A s \in Sessions : runtime[s].state # "none" => runtime[s].game \in Games
  /\ shown \in [Sessions -> [status : {"none", "open", "abandoned", "final"},
                             match : Games \cup {None}, room : Rooms \cup {None}]]
  /\ retained \in Seq(ResultType)
  /\ Len(retained) <= MaxResults

Snapshots == [sessions : [Sessions -> [status : {"none", "open", "abandoned", "final"},
                                       match : Games \cup {None}, room : Rooms \cup {None}]],
              results : Seq(ResultType)]

Inv ==
  /\ Sound(doc)
  /\ \A f \in flights : /\ f \in [kind : Settlements, game : Games, room : Rooms,
                                  left : SUBSET Sessions]
  /\ poll # None => poll \in Snapshots /\ Len(poll.results) <= MaxResults
  /\ moving # None => /\ moving \in [rooms : SUBSET Rooms, doc : DocumentType]
                      /\ Sound(moving.doc)
  /\ HostTypes

-----------------------------------------------------------------------------
(* Numbers and sequences.                                                  *)

\* A set of numbers has a least one.
LEMMA Least ==
  ASSUME NEW T \in SUBSET Nat, T # {}
  PROVE  \E n \in T : \A m \in T : n <= m
<1> DEFINE R == {pair \in Nat \X Nat : pair[1] < pair[2]}
<1>1. IsWellFoundedOn(R, Nat)
  BY NatLessThanWellFounded DEF OpToRel
<1> HIDE DEF R
<1>2. \E n \in T : \A m \in T : <<m, n>> \notin R
  BY <1>1, WFMin
<1>3. \A m, n \in Nat : <<m, n>> \notin R => n <= m
  BY DEF R
<1> QED
  BY <1>2, <1>3

\* Numbers up to n, the first of which is in a set that each is in with the one before.
LEMMA UpTo ==
  ASSUME NEW n \in Nat, NEW S, 0 \in S, \A i \in 1..n : i - 1 \in S => i \in S
  PROVE  0..n \subseteq S
<1> SUFFICES ASSUME (0..n) \ S # {} PROVE FALSE
  OBVIOUS
<1> DEFINE T == (0..n) \ S
<1>1. T \in SUBSET Nat /\ T # {} /\ T \subseteq 0..n
  OBVIOUS
<1> HIDE DEF T
<1>2. PICK i \in T : \A j \in T : i <= j
  BY <1>1, Least
<1>3. i \in 1..n /\ i - 1 \in 0..n /\ i - 1 \notin T
  BY <1>1, <1>2 DEF T
<1> QED
  BY <1>2, <1>3 DEF T

\* The least number of a set is one of it (Ingested: the first of the same).
LEMMA MinIsOne ==
  ASSUME NEW n \in Nat, NEW T \in SUBSET (1..n), T # {}
  PROVE  Min(T) \in T
<1>1. \E i \in T : \A j \in T : i =< j
  BY Least
<1> QED
  BY <1>1 DEF Min

\* What appending one thing to a sequence does.
LEMMA Appended ==
  ASSUME NEW S, NEW old \in Seq(S), NEW x \in S
  PROVE  LET new == Append(old, x) IN
         /\ new \in Seq(S) /\ DOMAIN old = 1..Len(old)
         /\ DOMAIN new = 1..(Len(old) + 1) /\ Len(new) = Len(old) + 1
         /\ \A i \in DOMAIN old : i \in DOMAIN new /\ new[i] = old[i]
         /\ new[Len(old) + 1] = x
         /\ \A i \in DOMAIN new : i \in DOMAIN old \/ i = Len(old) + 1
         /\ Len(old) \in Nat /\ Len(old) + 1 \notin DOMAIN old
  OBVIOUS

\* A sequence of the same length with other elements.
LEMMA Mapped ==
  ASSUME NEW S, NEW old \in Seq(S), NEW T, NEW new, DOMAIN new = DOMAIN old,
         new = [i \in DOMAIN old |-> new[i]], \A i \in DOMAIN old : new[i] \in T
  PROVE  new \in Seq(T)
<1>1. DOMAIN old = 1..Len(old) /\ Len(old) \in Nat
  OBVIOUS
<1>2. new \in [1..Len(old) -> T]
  BY <1>1
<1> QED
  BY <1>1, <1>2

-----------------------------------------------------------------------------
(* Reading a sound document.                                               *)

\* The result that counts is the decided record, if there is one
\* (canonicalAcceptedGame).
LEMMA CanonicalIs ==
  ASSUME NEW d, Entered(d), NEW g \in Games
  PROVE  /\ Canonical(d, g) = None <=> DecidedOf(d, g) = {}
         /\ \A r \in DecidedOf(d, g) : Canonical(d, g) = r
<1> DEFINE decided == {r \in Records(d, g) : d.records[r].status \in {"accepted", "forfeit"}}
           current == {r \in decided : AcceptedEntries(d, r) # {}}
<1>1. decided = DecidedOf(d, g)
  BY DEF DecidedOf, IsDecided
<1>2. current = decided
  <2> SUFFICES ASSUME NEW r \in decided PROVE AcceptedEntries(d, r) # {}
    OBVIOUS
  <2>1. r \in DOMAIN d.records /\ IsDecided(d, r)
    BY DEF Records, IsDecided
  <2> QED
    BY <2>1 DEF Entered, AcceptedEntries
<1>3. decided \subseteq Nat /\ None \notin Nat
  BY SettlementAssumption DEF Records, Entered, Filed, DocumentType
<1>4. Canonical(d, g) = IF decided = {} THEN None ELSE Max(decided)
  BY <1>2 DEF Canonical
<1> HIDE DEF decided, current
<1>5. ASSUME NEW r \in decided PROVE Max(decided) = r
  <2>1. decided = {r} /\ r \in Nat
    BY <1>1, <1>3 DEF Entered
  <2> QED
    BY <2>1 DEF Max
<1> QED
  BY <1>1, <1>3, <1>4, <1>5

-----------------------------------------------------------------------------
(* Steps of a document.                                                    *)

\* A decided record stays with its game, and a cancelled game cancelled.
Keeps(d, next) ==
  /\ \A r \in DOMAIN d.records : IsDecided(d, r) =>
       /\ r \in DOMAIN next.records /\ IsDecided(next, r)
       /\ next.records[r].game = d.records[r].game
  /\ \A g \in Games : d.game[g] = "cancelled" => next.game[g] = "cancelled"

\* A sound document that keeps what was settled, the rounds and the rooms.
Follows(d, next) ==
  /\ Sound(next) /\ Keeps(d, next)
  /\ next.round = d.round /\ next.room = d.room

\* What two changes keep one after the other, both together keep.
LEMMA FollowsOn ==
  ASSUME NEW d, NEW e, NEW f, Follows(d, e), Follows(e, f)
  PROVE  Follows(d, f)
  BY DEF Follows, Keeps

\* A document that nobody changes keeps every result.
LEMMA FollowsItself ==
  ASSUME NEW d, Sound(d)
  PROVE  Follows(d, d)
  BY DEF Follows, Keeps

\* A document with the same records and submissions, whose games are accepted
\* when they were and cancelled if they were.
LEMMA SameResults ==
  ASSUME NEW d, Sound(d), NEW next \in DocumentType,
         next.records = d.records, next.entries = d.entries,
         \A g \in Games : next.game[g] = "accepted" <=> d.game[g] = "accepted"
  PROVE  /\ Sound(next)
         /\ \A g \in Games : DecidedOf(next, g) = DecidedOf(d, g)
         /\ (\A g \in Games : d.game[g] = "cancelled" => next.game[g] = "cancelled")
              => Keeps(d, next)
<1>1. /\ \A r : IsDecided(next, r) <=> IsDecided(d, r)
      /\ \A g \in Games : DecidedOf(next, g) = DecidedOf(d, g)
  BY DEF IsDecided, DecidedOf, Records
<1>2. Entered(next)
  BY <1>1 DEF Sound, Entered, Filed
<1>3. Ruled(next) /\ Once(next)
  BY <1>1 DEF Sound, Ruled, Once
<1> QED
  BY <1>1, <1>2, <1>3 DEF Sound, Keeps

\* A game's status is derived from its results (reconcileScheduledGameResultState).
LEMMA ReconciledFollows ==
  ASSUME NEW d, Sound(d), NEW g \in Games
  PROVE  Follows(d, Reconciled(d, g))
<1>1. CASE d.game[g] = "cancelled"
  BY <1>1, FollowsItself DEF Reconciled
<1>2. CASE d.game[g] # "cancelled"
  <2>1. PICK status : /\ Reconciled(d, g) = [d EXCEPT !.game[g] = status]
                      /\ status \in GameStatus \ {"cancelled"}
                      /\ status = "accepted" <=> Canonical(d, g) # None
    <3> DEFINE derived ==
          IF Canonical(d, g) # None THEN "accepted"
          ELSE IF \E s \in SessionsOf(d, g) : Writing(d, s) THEN "live"
          ELSE IF Pending(d, g) # {} \/ Active(d, g) THEN "submitted"
          ELSE IF d.round[RoundOf[g]] = "released" THEN "released" ELSE "scheduled"
    <3>1. Reconciled(d, g) = [d EXCEPT !.game[g] = derived]
      BY <1>2 DEF Reconciled
    <3>2. /\ derived \in {"accepted", "live", "submitted", "released", "scheduled"}
          /\ derived = "accepted" <=> Canonical(d, g) # None
      OBVIOUS
    <3> HIDE DEF derived
    <3> QED
      BY <3>1, <3>2 DEF GameStatus
  <2> DEFINE next == [d EXCEPT !.game[g] = status]
  <2>2. d \in DocumentType
    BY DEF Sound, Entered, Filed
  <2>3. /\ next \in DocumentType /\ next.records = d.records /\ next.entries = d.entries
        /\ next.round = d.round /\ next.room = d.room
        /\ \A h \in Games : next.game[h] = IF h = g THEN status ELSE d.game[h]
    BY <2>1, <2>2 DEF DocumentType
  <2>4. status = "accepted" <=> d.game[g] = "accepted"
    BY <2>1, CanonicalIs DEF Sound, Ruled
  <2> HIDE DEF next
  <2>5. Sound(next) /\ Keeps(d, next)
    BY <1>2, <2>1, <2>3, <2>4, SameResults
  <2> QED
    BY <2>1, <2>3, <2>5 DEF Follows, next
<1> QED
  BY <1>1, <1>2

\* A document that differs in its sessions.
LEMMA OtherSessions ==
  ASSUME NEW d, Sound(d), NEW sessions \in [Sessions -> SessionType]
  PROVE  Follows(d, [d EXCEPT !.session = sessions])
<1> DEFINE next == [d EXCEPT !.session = sessions]
<1>1. d \in DocumentType
  BY DEF Sound, Entered, Filed
<1>2. /\ next \in DocumentType /\ next.records = d.records /\ next.entries = d.entries
      /\ next.game = d.game /\ next.round = d.round /\ next.room = d.room
  BY <1>1 DEF DocumentType
<1> HIDE DEF next
<1>3. Sound(next) /\ Keeps(d, next)
  BY <1>2, SameResults
<1> QED
  BY <1>2, <1>3 DEF Follows, next

\* Sessions a settlement retires (abandonQbtcpSessionsForGame).
LEMMA SessionsAbandonedFollows ==
  ASSUME NEW d, Sound(d), NEW g \in Games
  PROVE  Follows(d, SessionsAbandoned(d, g))
<1>1. d.session \in [Sessions -> SessionType]
  BY DEF Sound, Entered, Filed, DocumentType
<1> DEFINE sessions == [s \in Sessions |->
              IF s \in SessionsOf(d, g)
              THEN [d.session[s] EXCEPT !.state = "abandoned", !.resumable = FALSE]
              ELSE d.session[s]]
<1>2. sessions \in [Sessions -> SessionType]
  BY <1>1 DEF SessionType
<1> QED
  BY <1>2, OtherSessions DEF SessionsAbandoned

\* A session staged or given up: one document's session replaced.
LEMMA OneSession ==
  ASSUME NEW d, Sound(d), NEW s \in Sessions,
         NEW next,
         next = [d EXCEPT !.session[s] = [@ EXCEPT !.state = "received", !.resumable = FALSE]]
  PROVE  Follows(d, next)
<1>1. d.session \in [Sessions -> SessionType] /\ d \in DocumentType
  BY DEF Sound, Entered, Filed, DocumentType
<1> DEFINE sessions == [d.session EXCEPT ![s] = [d.session[s] EXCEPT !.state = "received",
                                                                    !.resumable = FALSE]]
<1>2. sessions \in [Sessions -> SessionType]
  BY <1>1 DEF SessionType
<1>3. next = [d EXCEPT !.session = sessions]
  BY <1>1 DEF DocumentType
<1> HIDE DEF sessions
<1> QED
  BY <1>2, <1>3, OtherSessions

\* A submission that is read as one seen before changes no result
\* (stageIncomingDocument: duplicate).
LEMMA DuplicateFollows ==
  ASSUME NEW d, Sound(d), NEW x \in EntryType, x.record \in DOMAIN d.records,
         x.status = "duplicate",
         x.result # 0 => \A e \in DOMAIN d.entries : d.entries[e].result # x.result
  PROVE  Follows(d, [d EXCEPT !.entries = Append(@, x)])
<1> DEFINE next == [d EXCEPT !.entries = Append(@, x)]
<1>1. d \in DocumentType
  BY DEF Sound, Entered, Filed
<1>2. /\ next \in DocumentType /\ next.records = d.records /\ next.game = d.game
      /\ next.entries = Append(d.entries, x)
      /\ next.round = d.round /\ next.room = d.room
      /\ d.entries \in Seq(EntryType)
  <2>1. d.entries \in Seq(EntryType)
    BY <1>1 DEF DocumentType
  <2>2. Append(d.entries, x) \in Seq(EntryType)
    BY <2>1, Appended
  <2> QED
    BY <1>1, <2>1, <2>2 DEF DocumentType
<1> HIDE DEF next
<1>3. /\ \A e \in DOMAIN d.entries : e \in DOMAIN next.entries /\ next.entries[e] = d.entries[e]
      /\ \A e \in DOMAIN next.entries :
            e \in DOMAIN d.entries \/ (next.entries[e] = x /\ e = Len(d.entries) + 1)
  BY <1>2, Appended
<1>4. /\ \A r : IsDecided(next, r) <=> IsDecided(d, r)
      /\ \A g \in Games : DecidedOf(next, g) = DecidedOf(d, g)
  BY <1>2 DEF IsDecided, DecidedOf, Records
<1>5. Filed(next)
  BY <1>2, <1>3 DEF Filed, Sound, Entered
<1>6. Entered(next)
  BY <1>2, <1>3, <1>4, <1>5 DEF Entered, Sound
<1>7. Ruled(next)
  BY <1>2, <1>4 DEF Ruled, Sound
<1>8. Once(next)
  BY <1>2, <1>3 DEF Once, Sound
<1> QED
  BY <1>2, <1>4, <1>6, <1>7, <1>8 DEF Follows, Sound, Keeps, next

\* A document with a record and its submission more: waiting, or decided where
\* nothing was (stageIncomingDocument, recordForfeit, addManualResult).
Adds(d, next, g, x, y, status) ==
  /\ Entered(d) /\ Once(d) /\ next \in DocumentType
  /\ g \in Games /\ x \in EntryType /\ y \in RecordType /\ status \in GameStatus
  /\ x.record = Len(d.records) + 1 /\ y.game = g
  /\ \/ x.status = "pending" /\ y.status = "submitted"
     \/ x.status = "accepted" /\ y.status \in {"accepted", "forfeit"} /\ DecidedOf(d, g) = {}
  /\ x.result # 0 => \A e \in DOMAIN d.entries : d.entries[e].result # x.result
  /\ next.entries = Append(d.entries, x) /\ next.records = Append(d.records, y)
  /\ next.game = [d.game EXCEPT ![g] = status]
  /\ next.round = d.round /\ next.room = d.room

\* The new record is the game's result if it is decided; everything else stays.
LEMMA NewRecord ==
  ASSUME NEW d, NEW next, NEW g, NEW x, NEW y, NEW status, Adds(d, next, g, x, y, status)
  PROVE  /\ Entered(next) /\ Once(next) /\ next.round = d.round /\ next.room = d.room
         /\ \A h \in Games : next.game[h] = IF h = g THEN status ELSE d.game[h]
         /\ \A h \in Games : DecidedOf(next, h) = IF h = g /\ x.status = "accepted"
                                THEN {Len(d.records) + 1} ELSE DecidedOf(d, h)
         /\ \A r \in DOMAIN d.records : /\ r \in DOMAIN next.records
                                        /\ next.records[r] = d.records[r]
<1>1. d \in DocumentType
  BY DEF Entered, Filed, Adds
<1> USE DEF Adds
<1>2. /\ d.entries \in Seq(EntryType) /\ d.records \in Seq(RecordType)
      /\ \A h \in Games : next.game[h] = IF h = g THEN status ELSE d.game[h]
  BY <1>1 DEF DocumentType
<1> DEFINE r == Len(d.records) + 1
<1>3. /\ \A e \in DOMAIN d.entries : e \in DOMAIN next.entries /\ next.entries[e] = d.entries[e]
      /\ \A e \in DOMAIN next.entries :
            e \in DOMAIN d.entries \/ (next.entries[e] = x /\ e = Len(d.entries) + 1)
      /\ Len(d.entries) + 1 \in DOMAIN next.entries /\ next.entries[Len(d.entries) + 1] = x
  BY <1>2, Appended
<1>4. /\ \A q \in DOMAIN d.records : q \in DOMAIN next.records /\ next.records[q] = d.records[q]
      /\ \A q \in DOMAIN next.records : q \in DOMAIN d.records \/ q = r
      /\ r \in DOMAIN next.records /\ next.records[r] = y /\ r \notin DOMAIN d.records
  BY <1>2, Appended
<1> HIDE DEF r
<1>5. Filed(next)
  BY <1>2, <1>3, <1>4 DEF Filed, Entered, r
<1>6. /\ \A q \in DOMAIN d.records : IsDecided(next, q) <=> IsDecided(d, q)
      /\ IsDecided(next, r) <=> x.status = "accepted"
  BY <1>4 DEF IsDecided
<1>7. \A h \in Games : DecidedOf(next, h) = IF h = g /\ x.status = "accepted"
                                            THEN {r} ELSE DecidedOf(d, h)
  BY <1>4, <1>6 DEF DecidedOf, Records
<1>8. \A e \in DOMAIN d.entries : d.entries[e].record \in DOMAIN d.records
  BY DEF Entered, Filed
<1>9. Entered(next)
  <2>1. \A e \in DOMAIN next.entries : next.entries[e].status = "pending"
          => next.records[next.entries[e].record].status = "submitted"
    BY <1>3, <1>4, <1>8 DEF Entered, r
  <2>2. \A e \in DOMAIN next.entries : next.entries[e].status = "accepted"
          => IsDecided(next, next.entries[e].record)
    BY <1>3, <1>6, <1>8 DEF Entered, r
  <2>3. \A e, f \in DOMAIN next.entries :
          /\ next.entries[e].record = next.entries[f].record
          /\ next.entries[e].status = next.entries[f].status
          /\ next.entries[e].status \in {"pending", "accepted"}
          => e = f
    <3> SUFFICES ASSUME NEW e \in DOMAIN next.entries, NEW f \in DOMAIN next.entries,
                        next.entries[e].record = next.entries[f].record,
                        next.entries[e].status = next.entries[f].status,
                        next.entries[e].status \in {"pending", "accepted"}
                 PROVE  e = f
      OBVIOUS
    <3>1. CASE e \in DOMAIN d.entries /\ f \in DOMAIN d.entries
      BY <1>3, <3>1 DEF Entered
    <3>2. CASE e \notin DOMAIN d.entries /\ f \notin DOMAIN d.entries
      BY <1>3, <3>2
    <3> QED
      BY <1>3, <1>4, <1>8, <3>1, <3>2 DEF r
  <2>4. \A q \in DOMAIN next.records : IsDecided(next, q)
          => \E e \in DOMAIN next.entries : next.entries[e].status = "accepted"
                                            /\ next.entries[e].record = q
    <3> SUFFICES ASSUME NEW q \in DOMAIN next.records, IsDecided(next, q)
                 PROVE  \E e \in DOMAIN next.entries : next.entries[e].status = "accepted"
                                                       /\ next.entries[e].record = q
      OBVIOUS
    <3>1. CASE q = r
      BY <1>3, <1>6, <3>1 DEF r
    <3>2. CASE q \in DOMAIN d.records
      <4>1. PICK e \in DOMAIN d.entries : d.entries[e].status = "accepted"
                                          /\ d.entries[e].record = q
        BY <1>6, <3>2 DEF Entered
      <4> QED
        BY <1>3, <4>1
    <3> QED
      BY <1>4, <3>1, <3>2
  <2>5. \A h \in Games : \A p, q \in DecidedOf(next, h) : p = q
    BY <1>7 DEF Entered
  <2> QED
    BY <1>5, <2>1, <2>2, <2>3, <2>4, <2>5 DEF Entered
<1>10. Once(next)
  BY <1>3 DEF Once
<1> QED
  BY <1>2, <1>4, <1>7, <1>9, <1>10 DEF r

\* A document that arrives waits for review under a record of its own, or is known
\* as a repeat (assessIncomingDocument, stageIncomingDocument).
LEMMA IngestedFollows ==
  ASSUME NEW d, Sound(d), NEW g \in Games, NEW print \in Scores, NEW result \in 0..MaxResults,
         result # 0 => ~Holds(d, result)
  PROVE  Follows(d, Ingested(d, g, print, result))
<1> DEFINE same == {e \in Entries(d, g) :
                     d.entries[e].status # "rejected" /\ d.entries[e].print = print}
<1>1. /\ d \in DocumentType /\ d.entries \in Seq(EntryType) /\ d.records \in Seq(RecordType)
      /\ Entered(d) /\ Once(d) /\ d.game \in [Games -> GameStatus]
  BY DEF Sound, Entered, Filed, DocumentType
<1>2. result # 0 => \A e \in DOMAIN d.entries : d.entries[e].result # result
  BY DEF Holds
<1>3. CASE same # {}
  <2>1. Len(d.entries) \in Nat /\ same \subseteq 1..Len(d.entries)
    BY <1>1 DEF Entries
  <2>2. Min(same) \in same
    BY <1>3, <2>1, MinIsOne
  <2> DEFINE r == d.entries[Min(same)].record
             x == [record |-> r, status |-> "duplicate", print |-> print, result |-> result]
  <2>3. r \in DOMAIN d.records /\ r \in Nat
    <3>1. Min(same) \in DOMAIN d.entries
      BY <2>2 DEF Entries
    <3> HIDE DEF same
    <3>2. r \in DOMAIN d.records
      BY <1>1, <3>1 DEF Entered, Filed
    <3>3. DOMAIN d.records \subseteq Nat
      BY <1>1
    <3> QED
      BY <3>2, <3>3
  <2>4. Ingested(d, g, print, result) = [d EXCEPT !.entries = Append(@, x)]
    BY <1>3 DEF Ingested
  <2> HIDE DEF r, same
  <2>5. x \in EntryType
    BY <2>3 DEF EntryType, EntryStatus
  <2> QED
    BY <1>2, <2>3, <2>4, <2>5, DuplicateFollows
<1>4. CASE same = {}
  <2> DEFINE x == [record |-> Len(d.records) + 1, status |-> "pending", print |-> print,
                   result |-> result]
             y == [game |-> g, status |-> "submitted"]
             status == IF Resolved(d, g) THEN d.game[g] ELSE "submitted"
             entries == Append(d.entries, x)
             records == Append(d.records, y)
             game == [d.game EXCEPT ![g] = status]
             next == [d EXCEPT !.entries = entries, !.records = records, !.game = game]
  <2>1. Ingested(d, g, print, result) = next
    BY <1>4, <1>1 DEF Ingested, DocumentType
  <2>2. x \in EntryType /\ y \in RecordType /\ status \in GameStatus
    BY <1>1 DEF EntryType, EntryStatus, RecordType, RecordStatus, GameStatus
  <2>3. status = "accepted" <=> d.game[g] = "accepted"
    BY DEF Resolved
  <2>4. d.game[g] = "cancelled" => status = "cancelled"
    BY DEF Resolved
  <2>5. x.record = Len(d.records) + 1 /\ x.status = "pending" /\ x.result = result
        /\ y.game = g /\ y.status = "submitted"
    OBVIOUS
  <2> HIDE DEF x, y, status, same
  <2>9. /\ entries \in Seq(EntryType) /\ records \in Seq(RecordType)
        /\ game \in [Games -> GameStatus]
        /\ entries = Append(d.entries, x) /\ records = Append(d.records, y)
        /\ game = [d.game EXCEPT ![g] = status]
    BY <1>1, <2>2, Appended
  <2>11. next = [d EXCEPT !.entries = entries, !.records = records, !.game = game]
    OBVIOUS
  <2> HIDE DEF entries, records, game, next
  <2>10. /\ next \in DocumentType
         /\ next.entries = Append(d.entries, x) /\ next.records = Append(d.records, y)
         /\ next.game = [d.game EXCEPT ![g] = status]
         /\ next.round = d.round /\ next.room = d.room
    BY <1>1, <2>9, <2>11 DEF DocumentType
  <2>6. /\ Entered(next) /\ Once(next) /\ next.round = d.round /\ next.room = d.room
        /\ \A h \in Games : next.game[h] = IF h = g THEN status ELSE d.game[h]
        /\ \A h \in Games : DecidedOf(next, h) = DecidedOf(d, h)
        /\ \A r \in DOMAIN d.records : /\ r \in DOMAIN next.records
                                       /\ next.records[r] = d.records[r]
    <3>1. Adds(d, next, g, x, y, status)
      BY <1>1, <1>2, <2>2, <2>5, <2>10 DEF Adds
    <3> QED
      BY <2>5, <3>1, NewRecord
  <2>7. Ruled(next)
    BY <2>3, <2>6 DEF Ruled, Sound
  <2>8. Keeps(d, next)
    BY <2>4, <2>6 DEF Keeps, IsDecided
  <2> QED
    BY <2>1, <2>6, <2>7, <2>8 DEF Follows, Sound
<1> QED
  BY <1>3, <1>4

-----------------------------------------------------------------------------
(* A poll.                                                                 *)

\* One result of the host's (applyNativeResults).
LEMMA ResultAppliedFollows ==
  ASSUME NEW d, Sound(d), NEW result \in ResultType,
         NEW i \in 1..MaxResults, NEW refused
  PROVE  Follows(d, ResultApplied(d, result, i, refused))
<1>1. CASE Holds(d, i)
  BY <1>1, FollowsItself DEF ResultApplied
<1>2. CASE ~Holds(d, i)
  <2> DEFINE staged == IF i \in refused THEN d ELSE Ingested(d, result.game, result.print, i)
  <2>1. Follows(d, staged)
    <3>1. /\ result.game \in Games /\ result.print \in Scores
          /\ i \in 0..MaxResults /\ i # 0
      BY SettlementAssumption DEF ResultType
    <3>2. Follows(d, Ingested(d, result.game, result.print, i))
      BY <1>2, <3>1, IngestedFollows
    <3> QED
      BY <3>2, FollowsItself
  <2>2. ResultApplied(d, result, i, refused) =
          [staged EXCEPT !.session[result.session] =
             [@ EXCEPT !.state = "received", !.resumable = FALSE]]
    BY <1>2 DEF ResultApplied
  <2> HIDE DEF staged
  <2>3. Sound(staged) /\ result.session \in Sessions
    BY <2>1 DEF Follows, ResultType
  <2>4. Follows(staged, ResultApplied(d, result, i, refused))
    BY <2>2, <2>3, OneSession
  <2> QED
    BY <2>1, <2>4, FollowsOn
<1> QED
  BY <1>1, <1>2

\* The results of the host are applied one after the other, in the order it
\* retained them (applyNativeResults).
LEMMA AppliedInTurn ==
  ASSUME NEW d, NEW results \in Seq(ResultType), NEW refused
  PROVE  \E after : /\ after[0] = d /\ ResultsApplied(d, results, refused) = after[Len(results)]
                    /\ \A n \in 1..Len(results) :
                          after[n] = ResultApplied(after[n - 1], results[n], n, refused)
<1> DEFINE Size == Len(results)
           IsFold(f, n) == f = [i \in 0..n |-> IF i = 0 THEN d
                                               ELSE ResultApplied(f[i - 1], results[i], i, refused)]
           after == CHOOSE f : IsFold(f, Size)
           Defined == {n \in 0..Size : \E f : IsFold(f, n)}
<1>1. Size \in Nat
  OBVIOUS
<1>2. ResultsApplied(d, results, refused) = after[Size]
  BY DEF ResultsApplied
<1>3. 0..Size \subseteq Defined
  <2>1. 0 \in Defined
    <3>1. IsFold([i \in 0..0 |-> d], 0)
      OBVIOUS
    <3> HIDE DEF IsFold
    <3> QED
      BY <1>1, <3>1
  <2>2. ASSUME NEW n \in 1..Size, n - 1 \in Defined PROVE n \in Defined
    <3>1. PICK f : IsFold(f, n - 1)
      BY <2>2
    <3> DEFINE g == [i \in 0..n |-> IF i = n THEN ResultApplied(f[n - 1], results[n], n, refused) ELSE f[i]]
    <3>2. \A i \in 0..n : g[i] = IF i = 0 THEN d ELSE ResultApplied(g[i - 1], results[i], i, refused)
      BY <1>1, <3>1
    <3>3. g = [i \in 0..n |-> g[i]]
      OBVIOUS
    <3> HIDE DEF g
    <3>4. IsFold(g, n)
      BY <3>2, <3>3
    <3> QED
      BY <3>4
  <2> HIDE DEF Defined
  <2> QED
    BY <1>1, <2>1, <2>2, UpTo
<1>4. IsFold(after, Size)
  <2>1. \E f : IsFold(f, Size)
    BY <1>1, <1>3
  <2> HIDE DEF IsFold
  <2> QED
    BY <2>1
<1> HIDE DEF after, Size
<1>5. after[0] = d /\ \A n \in 1..Size : after[n] = ResultApplied(after[n - 1], results[n], n, refused)
  BY <1>1, <1>4
<1> QED
  BY <1>2, <1>5 DEF Size

\* What follows from each result of the host follows from all of them.
LEMMA ResultsAppliedFollows ==
  ASSUME NEW d, Sound(d), NEW results \in Seq(ResultType),
         Len(results) <= MaxResults, NEW refused
  PROVE  Follows(d, ResultsApplied(d, results, refused))
<1>1. PICK after : /\ after[0] = d /\ ResultsApplied(d, results, refused) = after[Len(results)]
                   /\ \A n \in 1..Len(results) :
                         after[n] = ResultApplied(after[n - 1], results[n], n, refused)
  BY AppliedInTurn
<1> DEFINE Reached == {n \in 0..Len(results) : Follows(d, after[n])}
<1>2. Len(results) \in Nat /\ MaxResults \in Nat
  BY SettlementAssumption
<1>3. 0..Len(results) \subseteq Reached
  <2>1. 0 \in Reached
    BY <1>1, <1>2, FollowsItself
  <2>2. ASSUME NEW n \in 1..Len(results), n - 1 \in Reached PROVE n \in Reached
    <3>1. n \in 1..MaxResults /\ results[n] \in ResultType
      BY <1>2
    <3>2. Follows(d, after[n - 1])
      BY <2>2
    <3>3. Follows(after[n - 1], after[n])
      <4>1. Sound(after[n - 1])
        BY <3>2 DEF Follows
      <4> QED
        BY <1>1, <3>1, <4>1, ResultAppliedFollows
    <3> QED
      BY <3>2, <3>3, FollowsOn
  <2> HIDE DEF Reached
  <2> QED
    BY <1>2, <2>1, <2>2, UpTo
<1> QED
  BY <1>1, <1>2, <1>3

\* What the host's sessions say (applyNativeSessions).
LEMMA SessionsAppliedFollows ==
  ASSUME NEW d, Sound(d), NEW snapshot \in Snapshots
  PROVE  Follows(d, SessionsApplied(d, snapshot.sessions))
<1>1. d.session \in [Sessions -> SessionType]
  BY DEF Sound, Entered, Filed, DocumentType
<1> DEFINE Next1(s) == NextState(snapshot.sessions[s].status, d.session[s].state)
           sessions == [s \in Sessions |->
             IF snapshot.sessions[s].status = "none" THEN d.session[s]
             ELSE [state |-> Next1(s), resumable |-> Next1(s) # "received",
                   match |-> IF snapshot.sessions[s].match # None THEN snapshot.sessions[s].match
                             ELSE d.session[s].match,
                   room |-> IF snapshot.sessions[s].room # None THEN snapshot.sessions[s].room
                            ELSE d.session[s].room]]
<1>2. \A s \in Sessions : Next1(s) \in {"absent", "open", "received", "abandoned"}
  BY <1>1 DEF NextState, SessionType
<1>3. sessions \in [Sessions -> SessionType]
  <2> HIDE DEF Next1
  <2> QED
    BY <1>1, <1>2 DEF SessionType, Snapshots
<1>4. SessionsApplied(d, snapshot.sessions) = [d EXCEPT !.session = sessions]
  BY DEF SessionsApplied
<1> HIDE DEF sessions
<1> QED
  BY <1>3, <1>4, OtherSessions

\* A snapshot of the host is applied (syncQbtcp).
LEMMA PollAppliedFollows ==
  ASSUME NEW d, Sound(d), NEW snapshot \in Snapshots, Len(snapshot.results) <= MaxResults,
         NEW refused
  PROVE  Follows(d, PollApplied(d, snapshot, refused))
<1> DEFINE seen == SessionsApplied(d, snapshot.sessions)
<1>1. Follows(d, seen)
  BY SessionsAppliedFollows
<1>2. PollApplied(d, snapshot, refused) = ResultsApplied(seen, snapshot.results, refused)
  BY DEF PollApplied
<1> HIDE DEF seen
<1>3. Sound(seen)
  BY <1>1 DEF Follows
<1>4. snapshot.results \in Seq(ResultType)
  BY DEF Snapshots
<1>5. Follows(seen, PollApplied(d, snapshot, refused))
  BY <1>2, <1>3, <1>4, ResultsAppliedFollows
<1> QED
  BY <1>1, <1>5, FollowsOn

\* Sessions that fell silent (expireQbtcpSessions).
LEMMA SilentFollows ==
  ASSUME NEW d, Sound(d), NEW quiet \in SUBSET Sessions
  PROVE  Follows(d, Silent(d, quiet))
<1>1. d.session \in [Sessions -> SessionType]
  BY DEF Sound, Entered, Filed, DocumentType
<1> DEFINE sessions == [s \in Sessions |->
     IF s \in quiet THEN [d.session[s] EXCEPT !.state = "abandoned", !.resumable = TRUE]
     ELSE d.session[s]]
<1>2. sessions \in [Sessions -> SessionType]
  BY <1>1 DEF SessionType
<1> QED
  BY <1>2, OtherSessions DEF Silent

-----------------------------------------------------------------------------
(* What the Director does to a document.                                   *)

\* A game's status is set, to "accepted" only if it is and to nothing else if
\* it is cancelled.
LEMMA StatusSet ==
  ASSUME NEW d, Sound(d), NEW g \in Games, NEW status \in GameStatus,
         status = "accepted" <=> d.game[g] = "accepted"
  PROVE  LET next == [d EXCEPT !.game[g] = status] IN
         /\ Sound(next) /\ next.round = d.round /\ next.room = d.room
         /\ (d.game[g] = "cancelled" => status = "cancelled") => Follows(d, next)
<1> DEFINE next == [d EXCEPT !.game[g] = status]
<1>1. d \in DocumentType
  BY DEF Sound, Entered, Filed
<1>2. /\ next \in DocumentType /\ next.records = d.records /\ next.entries = d.entries
      /\ next.round = d.round /\ next.room = d.room
      /\ \A h \in Games : next.game[h] = IF h = g THEN status ELSE d.game[h]
  BY <1>1 DEF DocumentType
<1> HIDE DEF next
<1>3. /\ Sound(next)
      /\ (d.game[g] = "cancelled" => status = "cancelled") => Keeps(d, next)
  BY <1>2, SameResults
<1> QED
  BY <1>2, <1>3 DEF Follows, next

\* Results that had arrived are given up, none that was decided
\* (cancelScheduledGame, recordForfeit).
LEMMA DiscardedFollows ==
  ASSUME NEW d, Sound(d), NEW g \in Games, NEW status \in {"cancelled", "rejected"}
  PROVE  Follows(d, Discarded(d, g, status))
<1> DEFINE records == [r \in DOMAIN d.records |->
              IF r \in Records(d, g) /\ d.records[r].status \notin {"accepted", "forfeit"}
              THEN [d.records[r] EXCEPT !.status = status] ELSE d.records[r]]
           entries == [e \in DOMAIN d.entries |->
              IF e \in Pending(d, g) THEN [d.entries[e] EXCEPT !.status = "rejected"]
              ELSE d.entries[e]]
           next == [d EXCEPT !.records = records, !.entries = entries]
<1>1. /\ d \in DocumentType /\ d.records \in Seq(RecordType) /\ d.entries \in Seq(EntryType)
      /\ Entered(d)
  BY DEF Sound, Entered, Filed, DocumentType
<1>2. /\ \A r \in DOMAIN d.records : d.records[r] \in RecordType
      /\ \A e \in DOMAIN d.entries : d.entries[e] \in EntryType
  BY <1>1
<1>3. /\ DOMAIN records = DOMAIN d.records /\ DOMAIN entries = DOMAIN d.entries
      /\ \A r \in DOMAIN d.records :
            /\ records[r] \in RecordType /\ records[r].game = d.records[r].game
            /\ IF d.records[r].game = g /\ ~IsDecided(d, r)
               THEN records[r].status = status ELSE records[r] = d.records[r]
      /\ \A e \in DOMAIN d.entries :
            /\ entries[e] \in EntryType /\ entries[e].record = d.entries[e].record
            /\ entries[e].result = d.entries[e].result
            /\ IF e \in Pending(d, g)
               THEN entries[e].status = "rejected" ELSE entries[e] = d.entries[e]
  BY <1>2 DEF RecordType, RecordStatus, EntryType, EntryStatus, Records, IsDecided
<1>4. records \in Seq(RecordType) /\ entries \in Seq(EntryType)
  <2>1. records = [r \in DOMAIN d.records |-> records[r]]
        /\ entries = [e \in DOMAIN d.entries |-> entries[e]]
    OBVIOUS
  <2> HIDE DEF records, entries, next
  <2>2. \A r \in DOMAIN d.records : records[r] \in RecordType
    BY <1>3
  <2>3. \A e \in DOMAIN d.entries : entries[e] \in EntryType
    BY <1>3
  <2>4. DOMAIN records = DOMAIN d.records /\ DOMAIN entries = DOMAIN d.entries
    BY <1>3
  <2>5. records \in Seq(RecordType)
    BY <1>1, <2>1, <2>2, <2>4, Mapped
  <2>6. entries \in Seq(EntryType)
    BY <1>1, <2>1, <2>3, <2>4, Mapped
  <2> QED
    BY <2>5, <2>6
<1>5. Discarded(d, g, status) = next
  BY DEF Discarded
<1> HIDE DEF records, entries
<1>6. /\ next \in DocumentType /\ next.records = records /\ next.entries = entries
      /\ next.game = d.game /\ next.round = d.round /\ next.room = d.room
  BY <1>1, <1>4 DEF DocumentType
<1> HIDE DEF next
<1>7. /\ \A r \in DOMAIN d.records : IsDecided(next, r) <=> IsDecided(d, r)
      /\ \A h \in Games : DecidedOf(next, h) = DecidedOf(d, h)
  BY <1>3, <1>6 DEF IsDecided, DecidedOf, Records
<1>8. Filed(next)
  BY <1>3, <1>6 DEF Filed, Sound, Entered
<1>9. \A e \in DOMAIN d.entries : e \in Pending(d, g)
        <=> d.entries[e].status = "pending" /\ d.records[d.entries[e].record].game = g
  BY <1>1 DEF Pending, Entries, Records, Entered, Filed
<1>10. Entered(next)
  <2>1. \A e \in DOMAIN next.entries : next.entries[e].status = "pending"
          => next.records[next.entries[e].record].status = "submitted"
    BY <1>1, <1>3, <1>6, <1>8, <1>9 DEF Entered, Filed
  <2>2. \A e \in DOMAIN next.entries : next.entries[e].status = "accepted"
          => IsDecided(next, next.entries[e].record)
    BY <1>1, <1>3, <1>6, <1>7, <1>8 DEF Entered, Filed
  <2>3. \A e, f \in DOMAIN next.entries :
          /\ next.entries[e].record = next.entries[f].record
          /\ next.entries[e].status = next.entries[f].status
          /\ next.entries[e].status \in {"pending", "accepted"}
          => e = f
    BY <1>1, <1>3, <1>6 DEF Entered
  <2>4. \A r \in DOMAIN next.records : IsDecided(next, r)
          => \E e \in DOMAIN next.entries : next.entries[e].status = "accepted"
                                            /\ next.entries[e].record = r
    <3> SUFFICES ASSUME NEW r \in DOMAIN next.records, IsDecided(next, r)
                 PROVE  \E e \in DOMAIN next.entries : next.entries[e].status = "accepted"
                                                        /\ next.entries[e].record = r
      OBVIOUS
    <3>1. r \in DOMAIN d.records /\ IsDecided(d, r)
      BY <1>3, <1>6, <1>7
    <3>2. PICK e \in DOMAIN d.entries : d.entries[e].status = "accepted"
                                        /\ d.entries[e].record = r
      BY <1>1, <3>1 DEF Entered
    <3>3. e \notin Pending(d, g)
      BY <1>9, <3>2
    <3>4. e \in DOMAIN next.entries /\ next.entries[e] = d.entries[e]
      BY <1>3, <1>6, <3>2, <3>3
    <3> QED
      BY <3>2, <3>4
  <2>5. \A h \in Games : \A p, q \in DecidedOf(next, h) : p = q
    BY <1>1, <1>7 DEF Entered
  <2> QED
    BY <1>8, <2>1, <2>2, <2>3, <2>4, <2>5 DEF Entered
<1>11. Ruled(next) /\ Once(next)
  BY <1>3, <1>6, <1>7 DEF Ruled, Once, Sound
<1> QED
  BY <1>3, <1>5, <1>6, <1>7, <1>10, <1>11 DEF Follows, Keeps, Sound

\* A game without a result gets one of the Director's (recordForfeit, addManualResult).
LEMMA DecidedFollows ==
  ASSUME NEW d, Entered(d), Once(d), NEW g \in Games, NEW status \in {"accepted", "forfeit"},
         DecidedOf(d, g) = {}, d.game[g] # "cancelled",
         \A h \in Games \ {g} : d.game[h] = "accepted" <=> DecidedOf(d, h) # {}
  PROVE  Follows(d, Decided(d, g, status))
<1> DEFINE x == [record |-> Len(d.records) + 1, status |-> "accepted", print |-> Typed,
                 result |-> 0]
           y == [game |-> g, status |-> status]
           entries == Append(d.entries, x)
           records == Append(d.records, y)
           game == [d.game EXCEPT ![g] = "accepted"]
           next == [d EXCEPT !.records = records, !.entries = entries, !.game = game]
<1>1. /\ d \in DocumentType /\ d.entries \in Seq(EntryType) /\ d.records \in Seq(RecordType)
      /\ d.game \in [Games -> GameStatus]
  BY DEF Entered, Filed, DocumentType
<1>2. Decided(d, g, status) = next
  BY <1>1 DEF Decided, DocumentType
<1>3. x \in EntryType /\ y \in RecordType /\ "accepted" \in GameStatus
  BY <1>1, SettlementAssumption DEF EntryType, EntryStatus, RecordType, RecordStatus, GameStatus
<1>4. /\ x.record = Len(d.records) + 1 /\ x.status = "accepted" /\ x.result = 0
      /\ y.game = g /\ y.status \in {"accepted", "forfeit"}
  OBVIOUS
<1> HIDE DEF x, y
<1>5. /\ entries \in Seq(EntryType) /\ records \in Seq(RecordType)
      /\ game \in [Games -> GameStatus]
      /\ entries = Append(d.entries, x) /\ records = Append(d.records, y)
      /\ game = [d.game EXCEPT ![g] = "accepted"]
  BY <1>1, <1>3, Appended
<1> HIDE DEF entries, records, game
<1>6. /\ next \in DocumentType
      /\ next.entries = Append(d.entries, x) /\ next.records = Append(d.records, y)
      /\ next.game = [d.game EXCEPT ![g] = "accepted"]
      /\ next.round = d.round /\ next.room = d.room
  BY <1>1, <1>5 DEF DocumentType
<1> HIDE DEF next
<1>7. Adds(d, next, g, x, y, "accepted")
  BY <1>3, <1>4, <1>6 DEF Adds
<1>8. /\ Entered(next) /\ Once(next) /\ next.round = d.round /\ next.room = d.room
      /\ \A h \in Games : next.game[h] = IF h = g THEN "accepted" ELSE d.game[h]
      /\ \A h \in Games : DecidedOf(next, h) = IF h = g THEN {Len(d.records) + 1}
                                                        ELSE DecidedOf(d, h)
      /\ \A r \in DOMAIN d.records : /\ r \in DOMAIN next.records
                                     /\ next.records[r] = d.records[r]
  BY <1>4, <1>7, NewRecord
<1>9. Ruled(next)
  BY <1>8 DEF Ruled
<1>10. Keeps(d, next)
  BY <1>8 DEF Keeps, IsDecided
<1> QED
  BY <1>2, <1>8, <1>9, <1>10 DEF Follows, Sound

\* A settlement settles what is still open when the host has answered
\* (cancelScheduledGame, recordForfeit, addManualResult).
LEMMA SettledFollows ==
  ASSUME NEW d, Sound(d), NEW f, f.kind \in Settlements, f.game \in Games
  PROVE  Follows(d, Settled(d, f))
<1> DEFINE g == f.game
           abandoned == SessionsAbandoned(d, g)
           untouched == ~Resolved(d, g)
<1>1. Follows(d, abandoned) /\ abandoned.game = d.game /\ abandoned.records = d.records
      /\ abandoned.entries = d.entries
  <2>1. d \in DocumentType
    BY DEF Sound, Entered, Filed
  <2> QED
    BY <2>1, SessionsAbandonedFollows DEF SessionsAbandoned, DocumentType
<1> HIDE DEF abandoned
<1>2. Sound(abandoned) /\ \A h \in Games : DecidedOf(abandoned, h) = DecidedOf(d, h)
  BY <1>1 DEF Follows, DecidedOf, Records, IsDecided
<1>3. CASE f.kind = "cancel" /\ untouched
  <2> DEFINE mid == Discarded(abandoned, g, "cancelled")
  <2>1. Follows(abandoned, mid)
    BY <1>2, DiscardedFollows
  <2>2. mid.game = d.game
    <3>1. abandoned \in DocumentType
      BY <1>2 DEF Sound, Entered, Filed
    <3> QED
      BY <1>1, <3>1 DEF Discarded, DocumentType
  <2>3. Settled(d, f) = [mid EXCEPT !.game[g] = "cancelled"]
    BY <1>3 DEF Settled, abandoned
  <2> HIDE DEF mid
  <2>4. Follows(mid, Settled(d, f))
    <3>1. Sound(mid) /\ "cancelled" \in GameStatus /\ mid.game[g] # "accepted"
      BY <1>3, <2>1, <2>2 DEF Follows, GameStatus, Resolved
    <3> QED
      BY <2>3, <3>1, StatusSet
  <2> QED
    BY <1>1, <2>1, <2>4, FollowsOn
<1>4. CASE f.kind = "forfeit" /\ untouched /\ Canonical(d, g) = None
  <2> DEFINE mid == Discarded(abandoned, g, "rejected")
  <2>1. Follows(abandoned, mid)
    BY <1>2, DiscardedFollows
  <2>2. mid.game = d.game
    <3>1. abandoned \in DocumentType
      BY <1>2 DEF Sound, Entered, Filed
    <3> QED
      BY <1>1, <3>1 DEF Discarded, DocumentType
  <2>3. Settled(d, f) = Decided(mid, g, "forfeit")
    BY <1>4 DEF Settled, abandoned
  <2> HIDE DEF mid
  <2>4. mid.game[g] \notin {"accepted", "cancelled"}
    BY <1>4, <2>2 DEF Resolved
  <2>5. Entered(mid) /\ Once(mid) /\ Ruled(mid)
    BY <2>1 DEF Follows, Sound
  <2>6. DecidedOf(mid, g) = {} /\ \A h \in Games \ {g} : mid.game[h] = "accepted"
                                                          <=> DecidedOf(mid, h) # {}
    BY <2>4, <2>5 DEF Ruled
  <2>7. Follows(mid, Settled(d, f))
    BY <2>3, <2>4, <2>5, <2>6, DecidedFollows
  <2> QED
    BY <1>1, <2>1, <2>7, FollowsOn
<1>5. CASE /\ f.kind = "manual" /\ untouched /\ Canonical(d, g) = None
           /\ Released(d, g) /\ d.room[g] = f.room
  <2> DEFINE next == Decided(abandoned, g, "accepted")
  <2>1. Settled(d, f) = Reconciled(next, g)
    BY <1>5 DEF Settled, abandoned
  <2>2. abandoned.game[g] \notin {"accepted", "cancelled"}
    BY <1>1, <1>5 DEF Resolved
  <2>3. Entered(abandoned) /\ Once(abandoned) /\ Ruled(abandoned)
    BY <1>2 DEF Sound
  <2>4. DecidedOf(abandoned, g) = {}
        /\ \A h \in Games \ {g} : abandoned.game[h] = "accepted"
                                    <=> DecidedOf(abandoned, h) # {}
    BY <2>2, <2>3 DEF Ruled
  <2>5. Follows(abandoned, next)
    BY <2>2, <2>3, <2>4, DecidedFollows
  <2> HIDE DEF next
  <2>6. Follows(next, Settled(d, f))
    BY <2>1, <2>5, ReconciledFollows DEF Follows
  <2> QED
    BY <1>1, <2>5, <2>6, FollowsOn
<1>6. CASE /\ ~(f.kind = "cancel" /\ untouched)
           /\ ~(f.kind = "forfeit" /\ untouched /\ Canonical(d, g) = None)
           /\ ~(/\ f.kind = "manual" /\ untouched /\ Canonical(d, g) = None
                /\ Released(d, g) /\ d.room[g] = f.room)
  <2>1. Settled(d, f) = d
    BY <1>6 DEF Settled
  <2> QED
    BY <2>1, FollowsItself
<1> QED
  BY <1>3, <1>4, <1>5, <1>6

\* A submission that waits is replaced by x and its record by y: moved, rejected,
\* or accepted where nothing was decided.
Reviews(d, next, e, x, y) ==
  /\ Sound(d) /\ next \in DocumentType
  /\ e \in DOMAIN d.entries /\ d.entries[e].status = "pending"
  /\ x \in EntryType /\ y \in RecordType
  /\ x.record = d.entries[e].record /\ x.result = d.entries[e].result
  /\ \/ x.status = "pending" /\ y.status = "submitted"
     \/ x.status = "rejected" /\ y.status \in {"submitted", "rejected"}
     \/ /\ x.status = "accepted" /\ y.status = "accepted"
        /\ DecidedOf(d, y.game) = {} /\ d.game[y.game] # "cancelled"
  /\ next.entries = [d.entries EXCEPT ![e] = x]
  /\ next.records = [d.records EXCEPT ![d.entries[e].record] = y]
  /\ next.game = IF x.status = "accepted" THEN [d.game EXCEPT ![y.game] = "accepted"] ELSE d.game
  /\ next.round = d.round /\ next.room = d.room /\ next.session = d.session

\* What the Director does with a submission that waits leaves every other alone,
\* since it is the only one that waits about its record
\* (acceptIncomingResult, rejectIncomingResult, associateIncomingResult).
LEMMA ReviewedFollows ==
  ASSUME NEW d, NEW next, NEW e, NEW x, NEW y, Reviews(d, next, e, x, y)
  PROVE  Follows(d, next)
<1> DEFINE r == d.entries[e].record
<1>1. /\ d \in DocumentType /\ d.entries \in Seq(EntryType) /\ d.records \in Seq(RecordType)
      /\ Entered(d) /\ Ruled(d) /\ Once(d) /\ d.game \in [Games -> GameStatus]
  BY DEF Reviews, Sound, Entered, Filed, DocumentType
<1>2. /\ e \in DOMAIN d.entries /\ r \in DOMAIN d.records
      /\ d.records[r].status = "submitted" /\ ~IsDecided(d, r)
  BY <1>1 DEF Reviews, Entered, Filed, IsDecided
<1>3. /\ DOMAIN next.entries = DOMAIN d.entries /\ DOMAIN next.records = DOMAIN d.records
      /\ \A f \in DOMAIN d.entries : next.entries[f] = IF f = e THEN x ELSE d.entries[f]
      /\ \A q \in DOMAIN d.records : next.records[q] = IF q = r THEN y ELSE d.records[q]
  BY <1>1, <1>2 DEF Reviews
<1>4. \A f \in DOMAIN d.entries :
        f # e /\ d.entries[f].status \in {"pending", "accepted"} => d.entries[f].record # r
  BY <1>1, <1>2 DEF Entered, Reviews
<1>5. /\ x.record = r /\ x.result = d.entries[e].result
      /\ x.status \in {"pending", "rejected", "accepted"}
      /\ x.status = "accepted" <=> y.status \in {"accepted", "forfeit"}
      /\ x.status = "pending" => y.status = "submitted"
      /\ x.status = "accepted" => DecidedOf(d, y.game) = {} /\ d.game[y.game] # "cancelled"
      /\ y.game \in Games
  BY DEF Reviews, RecordType
<1> HIDE DEF r
<1>6. \A q \in DOMAIN d.records :
        IsDecided(next, q) <=> IF q = r THEN x.status = "accepted" ELSE IsDecided(d, q)
  BY <1>3, <1>5 DEF IsDecided
<1>7. \A h \in Games : DecidedOf(next, h) = IF h = y.game /\ x.status = "accepted"
                                            THEN {r} ELSE DecidedOf(d, h)
  BY <1>2, <1>3, <1>5, <1>6 DEF DecidedOf, Records
<1>8. Filed(next)
  <2>1. next \in DocumentType
    BY DEF Reviews
  <2> QED
    BY <1>1, <1>2, <1>3, <1>5, <2>1 DEF Entered, Filed
<1>9. Entered(next)
  <2>1. \A f \in DOMAIN next.entries : next.entries[f].status = "pending"
          => next.records[next.entries[f].record].status = "submitted"
    <3> SUFFICES ASSUME NEW f \in DOMAIN d.entries, next.entries[f].status = "pending"
                 PROVE  next.records[next.entries[f].record].status = "submitted"
      BY <1>3
    <3>1. CASE f = e
      BY <1>2, <1>3, <1>5, <3>1
    <3>2. CASE f # e
      <4>1. next.entries[f] = d.entries[f]
        BY <1>3, <3>2
      <4>2. /\ d.records[d.entries[f].record].status = "submitted"
            /\ d.entries[f].record # r /\ d.entries[f].record \in DOMAIN d.records
        BY <1>1, <1>4, <3>2, <4>1 DEF Entered, Filed
      <4> QED
        BY <1>3, <4>1, <4>2
    <3> QED
      BY <3>1, <3>2
  <2>2. \A f \in DOMAIN next.entries : next.entries[f].status = "accepted"
          => IsDecided(next, next.entries[f].record)
    <3> SUFFICES ASSUME NEW f \in DOMAIN d.entries, next.entries[f].status = "accepted"
                 PROVE  IsDecided(next, next.entries[f].record)
      BY <1>3
    <3>1. CASE f = e
      BY <1>2, <1>3, <1>5, <1>6, <3>1
    <3>2. CASE f # e
      <4>1. next.entries[f] = d.entries[f]
        BY <1>3, <3>2
      <4>2. /\ IsDecided(d, d.entries[f].record)
            /\ d.entries[f].record # r /\ d.entries[f].record \in DOMAIN d.records
        BY <1>1, <1>4, <3>2, <4>1 DEF Entered, Filed
      <4> QED
        BY <1>6, <4>1, <4>2
    <3> QED
      BY <3>1, <3>2
  <2>3. \A f, k \in DOMAIN next.entries :
          /\ next.entries[f].record = next.entries[k].record
          /\ next.entries[f].status = next.entries[k].status
          /\ next.entries[f].status \in {"pending", "accepted"}
          => f = k
    BY <1>1, <1>3, <1>4, <1>5 DEF Entered
  <2>4. \A q \in DOMAIN next.records : IsDecided(next, q)
          => \E f \in DOMAIN next.entries : next.entries[f].status = "accepted"
                                            /\ next.entries[f].record = q
    <3> SUFFICES ASSUME NEW q \in DOMAIN next.records, IsDecided(next, q)
                 PROVE  \E f \in DOMAIN next.entries : next.entries[f].status = "accepted"
                                                       /\ next.entries[f].record = q
      OBVIOUS
    <3>1. CASE q = r
      BY <1>2, <1>3, <1>5, <1>6, <3>1
    <3>2. CASE q # r
      <4>1. PICK f \in DOMAIN d.entries : d.entries[f].status = "accepted"
                                          /\ d.entries[f].record = q
        BY <1>1, <1>3, <1>6, <3>2 DEF Entered
      <4>2. f # e
        BY <3>2, <4>1 DEF r
      <4> QED
        BY <1>3, <4>1, <4>2
    <3> QED
      BY <3>1, <3>2
  <2>5. \A h \in Games : \A p, q \in DecidedOf(next, h) : p = q
    BY <1>1, <1>7 DEF Entered
  <2> QED
    BY <1>8, <2>1, <2>2, <2>3, <2>4, <2>5 DEF Entered
<1>10. Once(next)
  <2>1. \A f \in DOMAIN d.entries : next.entries[f].result = d.entries[f].result
    BY <1>3, <1>5
  <2> QED
    BY <1>1, <1>3, <2>1 DEF Once
<1>11. \A h \in Games : next.game[h] = IF h = y.game /\ x.status = "accepted"
                                       THEN "accepted" ELSE d.game[h]
  BY <1>1 DEF Reviews
<1>12. Ruled(next)
  BY <1>1, <1>7, <1>11 DEF Ruled
<1>13. Keeps(d, next)
  <2>1. \A q \in DOMAIN d.records : IsDecided(d, q) => next.records[q] = d.records[q]
    BY <1>2, <1>3
  <2> QED
    BY <1>2, <1>3, <1>5, <1>6, <1>11, <2>1 DEF Keeps
<1> QED
  BY <1>9, <1>10, <1>12, <1>13 DEF Reviews, Follows, Sound

\* What is written when a submission is accepted, rejected or given to another game,
\* before the status of its game is derived again.
Accepting(d, e) ==
  [d EXCEPT !.entries[e].status = "accepted",
            !.records[d.entries[e].record].status = "accepted",
            !.game[GameOf(d, e)] = "accepted"]

Rejecting(d, e) ==
  LET r == d.entries[e].record
      out == [d EXCEPT !.entries[e].status = "rejected"]
      reopens == d.records[r].status # "accepted" /\ Canonical(d, GameOf(d, e)) \in {None, r}
  IN IF reopens THEN [out EXCEPT !.records[r].status = "rejected"] ELSE out

Associating(d, e, g) ==
  [d EXCEPT !.records[d.entries[e].record] = [game |-> g, status |-> "submitted"]]

ReviewedFor(d, next, e, g) == \E x, y : Reviews(d, next, e, x, y) /\ y.game = g

\* A submission that waits is accepted (acceptIncomingResult).
LEMMA AcceptReviews ==
  ASSUME NEW d, Sound(d), NEW e \in DOMAIN d.entries, d.entries[e].status = "pending",
         ~AcceptBlocked(d, e)
  PROVE  ReviewedFor(d, Accepting(d, e), e, GameOf(d, e))
<1> DEFINE r == d.entries[e].record
           g == GameOf(d, e)
           x == [d.entries[e] EXCEPT !.status = "accepted"]
           y == [d.records[r] EXCEPT !.status = "accepted"]
           entries == [d.entries EXCEPT ![e] = x]
           records == [d.records EXCEPT ![r] = y]
           game == [d.game EXCEPT ![g] = "accepted"]
           base == [d EXCEPT !.entries = entries, !.records = records, !.game = game]
           written == [d EXCEPT !.entries[e].status = "accepted",
                                !.records[r].status = "accepted",
                                !.game[g] = "accepted"]
<1>1. /\ d \in DocumentType /\ d.entries \in Seq(EntryType) /\ d.records \in Seq(RecordType)
      /\ Entered(d) /\ d.game \in [Games -> GameStatus]
  BY DEF Sound, Entered, Filed, DocumentType
<1>2. /\ r \in DOMAIN d.records /\ d.records[r].status = "submitted" /\ ~IsDecided(d, r)
      /\ r \in Nat
  <2>1. r \in DOMAIN d.records /\ d.records[r].status = "submitted"
    BY <1>1 DEF Entered, Filed
  <2> QED
    BY <1>1, <2>1 DEF IsDecided
<1>3. d.records[r] \in RecordType /\ d.entries[e] \in EntryType
  BY <1>1, <1>2
<1>4. g = d.records[r].game /\ g \in Games
  BY <1>3 DEF GameOf, RecordType
<1>5. /\ x \in EntryType /\ x.record = r /\ x.result = d.entries[e].result
      /\ x.status = "accepted"
  BY <1>3 DEF EntryType, EntryStatus
<1>6. y \in RecordType /\ y.status = "accepted" /\ y.game = g
  BY <1>3, <1>4 DEF RecordType, RecordStatus
<1>7. written = base
  BY <1>1, <1>2 DEF DocumentType
<1>8. DecidedOf(d, g) = {} /\ d.game[g] # "cancelled"
  <2>1. Canonical(d, g) \in {None, r} /\ d.game[g] # "cancelled"
    BY DEF AcceptBlocked
  <2>2. r \notin DecidedOf(d, g)
    BY <1>2 DEF DecidedOf
  <2>3. None # r
    BY <1>2, SettlementAssumption
  <2> HIDE DEF r, g
  <2> QED
    BY <1>1, <1>4, <2>1, <2>2, <2>3, CanonicalIs
<1> HIDE DEF x, y
<1>9. /\ entries \in Seq(EntryType) /\ records \in Seq(RecordType)
      /\ game \in [Games -> GameStatus]
  BY <1>1, <1>2, <1>4, <1>5, <1>6 DEF GameStatus
<1>10. /\ entries = [d.entries EXCEPT ![e] = x] /\ records = [d.records EXCEPT ![r] = y]
       /\ game = [d.game EXCEPT ![g] = "accepted"]
  OBVIOUS
<1> HIDE DEF entries, records, game
<1>11. /\ base \in DocumentType /\ base.entries = entries /\ base.records = records
       /\ base.game = game /\ base.round = d.round /\ base.room = d.room
       /\ base.session = d.session
  BY <1>1, <1>9 DEF DocumentType
<1> HIDE DEF base, written
<1>12. Reviews(d, base, e, x, y)
  BY <1>5, <1>6, <1>8, <1>10, <1>11 DEF Reviews
<1> QED
  BY <1>6, <1>7, <1>12 DEF written, Accepting, ReviewedFor

\* A submission that waits is rejected, with its record or without (rejectIncomingResult).
LEMMA RejectReviews ==
  ASSUME NEW d, Sound(d), NEW e \in DOMAIN d.entries, d.entries[e].status = "pending"
  PROVE  ReviewedFor(d, Rejecting(d, e), e, GameOf(d, e))
<1> DEFINE r == d.entries[e].record
           g == GameOf(d, e)
           reopens == d.records[r].status # "accepted" /\ Canonical(d, g) \in {None, r}
           x == [d.entries[e] EXCEPT !.status = "rejected"]
           y == IF reopens THEN [d.records[r] EXCEPT !.status = "rejected"] ELSE d.records[r]
           entries == [d.entries EXCEPT ![e] = x]
           records == [d.records EXCEPT ![r] = y]
           base == [d EXCEPT !.entries = entries, !.records = records]
           out == [d EXCEPT !.entries[e].status = "rejected"]
           written == IF reopens THEN [out EXCEPT !.records[r].status = "rejected"] ELSE out
<1>1. /\ d \in DocumentType /\ d.entries \in Seq(EntryType) /\ d.records \in Seq(RecordType)
      /\ Entered(d) /\ d.game \in [Games -> GameStatus]
  BY DEF Sound, Entered, Filed, DocumentType
<1>2. r \in DOMAIN d.records /\ d.records[r].status = "submitted"
  BY <1>1 DEF Entered, Filed
<1>3. d.records[r] \in RecordType /\ d.entries[e] \in EntryType
  BY <1>1, <1>2
<1>4. g = d.records[r].game /\ g \in Games
  BY <1>3 DEF GameOf, RecordType
<1>5. /\ x \in EntryType /\ x.record = r /\ x.result = d.entries[e].result
      /\ x.status = "rejected"
  BY <1>3 DEF EntryType, EntryStatus
<1>6. y \in RecordType /\ y.status \in {"submitted", "rejected"} /\ y.game = g
  BY <1>2, <1>3, <1>4 DEF RecordType, RecordStatus
<1>7. written = base
  <2>1. CASE reopens
    <3>1. y = [d.records[r] EXCEPT !.status = "rejected"]
      BY <2>1
    <3> HIDE DEF reopens, y
    <3> QED
      BY <1>1, <1>2, <2>1, <3>1 DEF DocumentType
  <2>2. CASE ~reopens
    <3>1. y = d.records[r]
      BY <2>2
    <3>2. records = d.records
      BY <1>1, <1>2, <3>1
    <3> HIDE DEF reopens, y, records
    <3> QED
      BY <1>1, <2>2, <3>2 DEF DocumentType
  <2> QED
    BY <2>1, <2>2
<1>8. Rejecting(d, e) = written
  BY DEF Rejecting
<1> HIDE DEF x, y, reopens
<1>9. entries \in Seq(EntryType) /\ records \in Seq(RecordType)
  BY <1>1, <1>2, <1>5, <1>6
<1>10. entries = [d.entries EXCEPT ![e] = x] /\ records = [d.records EXCEPT ![r] = y]
  OBVIOUS
<1> HIDE DEF entries, records
<1>11. /\ base \in DocumentType /\ base.entries = entries /\ base.records = records
       /\ base.game = d.game /\ base.round = d.round /\ base.room = d.room
       /\ base.session = d.session
  BY <1>1, <1>9 DEF DocumentType
<1> HIDE DEF base, written
<1>12. Reviews(d, base, e, x, y)
  BY <1>5, <1>6, <1>10, <1>11 DEF Reviews
<1> QED
  BY <1>6, <1>7, <1>8, <1>12 DEF ReviewedFor

\* A submission that waits is given to another game (associateIncomingResult).
LEMMA AssociateReviews ==
  ASSUME NEW d, Sound(d), NEW e \in DOMAIN d.entries, d.entries[e].status = "pending",
         NEW g \in Games
  PROVE  ReviewedFor(d, Associating(d, e, g), e, g)
<1> DEFINE r == d.entries[e].record
           y == [game |-> g, status |-> "submitted"]
           records == [d.records EXCEPT ![r] = y]
           moved == [d EXCEPT !.records[r] = y]
<1>1. /\ d \in DocumentType /\ d.entries \in Seq(EntryType) /\ d.records \in Seq(RecordType)
      /\ Entered(d)
  BY DEF Sound, Entered, Filed, DocumentType
<1>2. r \in DOMAIN d.records
  BY <1>1 DEF Entered, Filed
<1>3. d.entries[e] \in EntryType
  BY <1>1
<1>4. y \in RecordType /\ y.status = "submitted" /\ y.game = g
  BY DEF RecordType, RecordStatus
<1>5. Associating(d, e, g) = moved
  BY DEF Associating
<1> HIDE DEF y
<1>6. records \in Seq(RecordType)
  BY <1>1, <1>2, <1>4
<1>7. /\ moved \in DocumentType /\ moved.entries = d.entries
      /\ moved.records = [d.records EXCEPT ![r] = y]
      /\ moved.game = d.game /\ moved.round = d.round /\ moved.room = d.room
      /\ moved.session = d.session
  <2>1. moved = [d EXCEPT !.records = records]
    BY <1>1 DEF DocumentType
  <2>2. records = [d.records EXCEPT ![r] = y]
    OBVIOUS
  <2> HIDE DEF moved, records
  <2> QED
    BY <1>1, <1>6, <2>1, <2>2 DEF DocumentType
<1> HIDE DEF moved
<1>8. d.entries = [d.entries EXCEPT ![e] = d.entries[e]]
  BY <1>1
<1>9. Reviews(d, moved, e, d.entries[e], y)
  BY <1>3, <1>4, <1>7, <1>8 DEF Reviews
<1> QED
  BY <1>4, <1>5, <1>9 DEF ReviewedFor

\* A review that is written follows, and so does what it makes of its games
\* (acceptIncomingResult, rejectIncomingResult, associateIncomingResult).
LEMMA ReviewFollows ==
  ASSUME NEW d, Sound(d), NEW next, NEW e, NEW g \in Games, ReviewedFor(d, next, e, g),
         NEW h \in Games
  PROVE  /\ Follows(d, next) /\ Follows(d, Reconciled(next, h))
         /\ Follows(d, Reconciled(Reconciled(next, h), g))
<1>1. Follows(d, next)
  BY ReviewedFollows DEF ReviewedFor
<1>2. Follows(next, Reconciled(next, h))
  BY <1>1, ReconciledFollows DEF Follows
<1>3. Follows(Reconciled(next, h), Reconciled(Reconciled(next, h), g))
  BY <1>2, ReconciledFollows DEF Follows
<1> QED
  BY <1>1, <1>2, <1>3, FollowsOn

\* What waits is about a game of the document's.
LEMMA WaitingGame ==
  ASSUME NEW d, Sound(d), NEW e \in DOMAIN d.entries
  PROVE  /\ d.entries[e].record \in DOMAIN d.records
         /\ GameOf(d, e) = d.records[d.entries[e].record].game /\ GameOf(d, e) \in Games
<1>1. d.entries[e].record \in DOMAIN d.records /\ d.records \in Seq(RecordType)
  BY DEF Sound, Entered, Filed, DocumentType
<1>2. d.records[d.entries[e].record] \in RecordType
  BY <1>1
<1> QED
  BY <1>1, <1>2 DEF RecordType, GameOf

\* The accepted submission of a record makes way for another one, or for none
\* (editAcceptedResult, replaceForfeit, reopenForfeit).
LEMMA SupersededIs ==
  ASSUME NEW d, Sound(d), NEW r \in DOMAIN d.records
  PROVE  LET next == Superseded(d, r) IN
         /\ next \in DocumentType /\ next.records = d.records /\ next.game = d.game
         /\ next.round = d.round /\ next.room = d.room /\ next.session = d.session
         /\ next = [d EXCEPT !.entries = next.entries]
         /\ next.entries \in Seq(EntryType) /\ DOMAIN next.entries = DOMAIN d.entries
         /\ Len(next.entries) = Len(d.entries)
         /\ \A e \in DOMAIN d.entries :
              /\ next.entries[e].record = d.entries[e].record
              /\ next.entries[e].result = d.entries[e].result
              /\ IF d.entries[e].record = r /\ d.entries[e].status = "accepted"
                 THEN next.entries[e].status = "superseded"
                 ELSE next.entries[e] = d.entries[e]
<1> DEFINE entries == [e \in DOMAIN d.entries |->
              IF e \in AcceptedEntries(d, r) THEN [d.entries[e] EXCEPT !.status = "superseded"]
              ELSE d.entries[e]]
<1>1. d \in DocumentType /\ d.entries \in Seq(EntryType)
  BY DEF Sound, Entered, Filed, DocumentType
<1>2. \A e \in DOMAIN d.entries : d.entries[e] \in EntryType
  BY <1>1
<1>3. /\ DOMAIN entries = DOMAIN d.entries
      /\ \A e \in DOMAIN d.entries :
           /\ entries[e] \in EntryType
           /\ entries[e].record = d.entries[e].record
           /\ entries[e].result = d.entries[e].result
           /\ IF d.entries[e].record = r /\ d.entries[e].status = "accepted"
              THEN entries[e].status = "superseded" ELSE entries[e] = d.entries[e]
  BY <1>2 DEF EntryType, EntryStatus, AcceptedEntries
<1>4. entries = [e \in DOMAIN d.entries |-> entries[e]]
  OBVIOUS
<1>5. Superseded(d, r) = [d EXCEPT !.entries = entries]
  BY DEF Superseded
<1> HIDE DEF entries
<1>6. entries \in Seq(EntryType)
  <2>1. \A e \in DOMAIN d.entries : entries[e] \in EntryType
    BY <1>3
  <2>2. DOMAIN entries = DOMAIN d.entries
    BY <1>3
  <2> QED
    BY <1>1, <1>4, <2>1, <2>2, Mapped
<1>7. Len(entries) = Len(d.entries)
  BY <1>1, <1>3, <1>6
<1>8. /\ Superseded(d, r) \in DocumentType /\ Superseded(d, r).entries = entries
      /\ Superseded(d, r).records = d.records /\ Superseded(d, r).game = d.game
      /\ Superseded(d, r).round = d.round /\ Superseded(d, r).room = d.room
      /\ Superseded(d, r).session = d.session
  BY <1>1, <1>5, <1>6 DEF DocumentType
<1> QED
  BY <1>3, <1>5, <1>6, <1>7, <1>8

\* A result that counts is corrected: another submission about it is accepted
\* instead (editAcceptedResult).
LEMMA EditFollows ==
  ASSUME NEW d, Sound(d), NEW g \in Games, NEW r, r = Canonical(d, g), r # None
  PROVE  Follows(d, [Superseded(d, r) EXCEPT
                       !.entries = Append(@, [record |-> r, status |-> "accepted",
                                              print |-> Typed, result |-> 0]),
                       !.game[g] = "accepted"])
<1> DEFINE x == [record |-> r, status |-> "accepted", print |-> Typed, result |-> 0]
           mid == Superseded(d, r)
           entries == Append(mid.entries, x)
           game == [mid.game EXCEPT ![g] = "accepted"]
           next == [mid EXCEPT !.entries = entries, !.game = game]
<1>1. /\ d \in DocumentType /\ d.entries \in Seq(EntryType) /\ d.records \in Seq(RecordType)
      /\ Entered(d) /\ Ruled(d) /\ Once(d) /\ d.game \in [Games -> GameStatus]
  BY DEF Sound, Entered, Filed, DocumentType
<1>2. r \in DecidedOf(d, g)
  BY <1>1, CanonicalIs
<1>3. /\ r \in DOMAIN d.records /\ IsDecided(d, r) /\ r \in Nat
      /\ d.game[g] = "accepted"
  BY <1>1, <1>2 DEF DecidedOf, Records, Ruled
<1>4. /\ mid \in DocumentType /\ mid.records = d.records /\ mid.game = d.game
      /\ mid.round = d.round /\ mid.room = d.room
      /\ mid.entries \in Seq(EntryType) /\ DOMAIN mid.entries = DOMAIN d.entries
      /\ \A e \in DOMAIN d.entries :
           /\ mid.entries[e].record = d.entries[e].record
           /\ mid.entries[e].result = d.entries[e].result
           /\ IF d.entries[e].record = r /\ d.entries[e].status = "accepted"
              THEN mid.entries[e].status = "superseded"
              ELSE mid.entries[e] = d.entries[e]
  BY <1>3, SupersededIs
<1> HIDE DEF mid
<1>5. x \in EntryType /\ x.record = r /\ x.status = "accepted" /\ x.result = 0
  BY <1>3, SettlementAssumption DEF EntryType, EntryStatus
<1>6. game = d.game
  BY <1>1, <1>3, <1>4
<1>7. /\ entries \in Seq(EntryType)
      /\ \A e \in DOMAIN d.entries : e \in DOMAIN entries /\ entries[e] = mid.entries[e]
      /\ \A e \in DOMAIN entries :
            e \in DOMAIN d.entries \/ (entries[e] = x /\ e = Len(d.entries) + 1)
      /\ Len(d.entries) + 1 \in DOMAIN entries /\ entries[Len(d.entries) + 1] = x
      /\ Len(d.entries) + 1 \notin DOMAIN d.entries
  <2>1. Len(mid.entries) = Len(d.entries)
    BY <1>1, <1>4
  <2> HIDE DEF x
  <2> QED
    BY <1>4, <1>5, <2>1, Appended
<1> HIDE DEF x, entries, game
<1>8. /\ next \in DocumentType /\ next.entries = entries /\ next.records = d.records
      /\ next.game = d.game /\ next.round = d.round /\ next.room = d.room
  BY <1>4, <1>6, <1>7 DEF DocumentType
<1>9. [mid EXCEPT !.entries = Append(@, x), !.game[g] = "accepted"] = next
  BY <1>4 DEF DocumentType, entries, game
<1> HIDE DEF next
<1>10. /\ \A q : IsDecided(next, q) <=> IsDecided(d, q)
       /\ \A h \in Games : DecidedOf(next, h) = DecidedOf(d, h)
  BY <1>8 DEF IsDecided, DecidedOf, Records
<1>11. Filed(next)
  <2>1. \A e \in DOMAIN d.entries : mid.entries[e].record \in DOMAIN d.records
    BY <1>1, <1>4 DEF Entered, Filed
  <2>2. \A e \in DOMAIN entries : entries[e].record \in DOMAIN d.records
    BY <1>3, <1>5, <1>7, <2>1
  <2> QED
    BY <1>8, <2>2 DEF Filed
<1>12. \A e \in DOMAIN d.entries : next.entries[e].status \in {"pending", "accepted"}
         => next.entries[e] = d.entries[e] /\ ~(d.entries[e].record = r
                                                /\ d.entries[e].status = "accepted")
  BY <1>4, <1>7, <1>8
<1>13. Entered(next)
  <2>1. \A e \in DOMAIN next.entries : next.entries[e].status = "pending"
          => next.records[next.entries[e].record].status = "submitted"
    BY <1>1, <1>5, <1>7, <1>8, <1>12 DEF Entered
  <2>2. \A e \in DOMAIN next.entries : next.entries[e].status = "accepted"
          => IsDecided(next, next.entries[e].record)
    BY <1>1, <1>3, <1>5, <1>7, <1>8, <1>10, <1>12 DEF Entered
  <2>3. \A e, f \in DOMAIN next.entries :
          /\ next.entries[e].record = next.entries[f].record
          /\ next.entries[e].status = next.entries[f].status
          /\ next.entries[e].status \in {"pending", "accepted"}
          => e = f
    <3> SUFFICES ASSUME NEW e \in DOMAIN next.entries, NEW f \in DOMAIN next.entries,
                        next.entries[e].record = next.entries[f].record,
                        next.entries[e].status = next.entries[f].status,
                        next.entries[e].status \in {"pending", "accepted"}
                 PROVE  e = f
      OBVIOUS
    <3>1. CASE e \in DOMAIN d.entries /\ f \in DOMAIN d.entries
      BY <1>1, <1>12, <3>1 DEF Entered
    <3>2. CASE e \notin DOMAIN d.entries
      BY <1>5, <1>7, <1>8, <1>12, <3>2
    <3>3. CASE f \notin DOMAIN d.entries
      BY <1>5, <1>7, <1>8, <1>12, <3>3
    <3> QED
      BY <3>1, <3>2, <3>3
  <2>4. \A q \in DOMAIN next.records : IsDecided(next, q)
          => \E e \in DOMAIN next.entries : next.entries[e].status = "accepted"
                                            /\ next.entries[e].record = q
    <3> SUFFICES ASSUME NEW q \in DOMAIN next.records, IsDecided(next, q)
                 PROVE  \E e \in DOMAIN next.entries : next.entries[e].status = "accepted"
                                                       /\ next.entries[e].record = q
      OBVIOUS
    <3>1. CASE q = r
      BY <1>5, <1>7, <1>8, <3>1
    <3>2. CASE q # r
      <4>1. PICK e \in DOMAIN d.entries : d.entries[e].status = "accepted"
                                          /\ d.entries[e].record = q
        BY <1>1, <1>8, <1>10 DEF Entered
      <4>2. e \in DOMAIN next.entries /\ next.entries[e] = d.entries[e]
        BY <1>4, <1>7, <1>8, <3>2, <4>1
      <4> QED
        BY <4>1, <4>2
    <3> QED
      BY <3>1, <3>2
  <2>5. \A h \in Games : \A p, q \in DecidedOf(next, h) : p = q
    BY <1>1, <1>10 DEF Entered
  <2> QED
    BY <1>11, <2>1, <2>2, <2>3, <2>4, <2>5 DEF Entered
<1>14. Ruled(next)
  BY <1>1, <1>8, <1>10 DEF Ruled
<1>15. Once(next)
  <2>1. \A e \in DOMAIN d.entries : e \in DOMAIN next.entries
                                    /\ next.entries[e].result = d.entries[e].result
    BY <1>4, <1>7, <1>8
  <2>2. \A e \in DOMAIN next.entries : e \in DOMAIN d.entries \/ next.entries[e].result = 0
    BY <1>5, <1>7, <1>8
  <2> QED
    BY <1>1, <2>1, <2>2 DEF Once
<1>16. Keeps(d, next)
  BY <1>8, <1>10 DEF Keeps
<1>17. Follows(d, next)
  BY <1>8, <1>13, <1>14, <1>15, <1>16 DEF Follows, Sound
<1> QED
  BY <1>9, <1>17 DEF mid, x

\* Without its result a game is as before it had one, but still called accepted.
Withdraws(d, next, g) ==
  /\ Entered(next) /\ Once(next) /\ next \in DocumentType
  /\ next.round = d.round /\ next.room = d.room /\ next.game = d.game
  /\ next.session = d.session
  /\ DOMAIN next.records = DOMAIN d.records
  /\ \A r \in DOMAIN d.records : next.records[r].game = d.records[r].game
  /\ d.game[g] = "accepted"
  /\ \A h \in Games : DecidedOf(next, h) = IF h = g THEN {} ELSE DecidedOf(d, h)

\* A forfeit is withdrawn, to be replaced or for the game to be played after all
\* (replaceForfeit, reopenForfeit).
LEMMA WithdrawnIs ==
  ASSUME NEW d, Sound(d), NEW g \in Games, Canonical(d, g) # None
  PROVE  Withdraws(d, Withdrawn(d, g), g)
<1> DEFINE r == Canonical(d, g)
           mid == Superseded(d, r)
           y == [d.records[r] EXCEPT !.status = "rejected"]
           records == [d.records EXCEPT ![r] = y]
           next == [mid EXCEPT !.records = records]
<1>1. /\ d \in DocumentType /\ d.entries \in Seq(EntryType) /\ d.records \in Seq(RecordType)
      /\ Entered(d) /\ Ruled(d) /\ Once(d) /\ d.game \in [Games -> GameStatus]
  BY DEF Sound, Entered, Filed, DocumentType
<1>2. r \in DecidedOf(d, g) /\ DecidedOf(d, g) = {r}
  <2>1. DecidedOf(d, g) # {}
    BY <1>1, CanonicalIs
  <2> QED
    BY <1>1, <2>1, CanonicalIs
<1>3. /\ r \in DOMAIN d.records /\ IsDecided(d, r) /\ d.records[r].game = g
      /\ d.game[g] = "accepted"
  BY <1>1, <1>2 DEF DecidedOf, Records, Ruled
<1>4. /\ mid \in DocumentType /\ mid.records = d.records /\ mid.game = d.game
      /\ mid.round = d.round /\ mid.room = d.room /\ mid.session = d.session
      /\ mid.entries \in Seq(EntryType) /\ DOMAIN mid.entries = DOMAIN d.entries
      /\ \A e \in DOMAIN d.entries :
           /\ mid.entries[e].record = d.entries[e].record
           /\ mid.entries[e].result = d.entries[e].result
           /\ IF d.entries[e].record = r /\ d.entries[e].status = "accepted"
              THEN mid.entries[e].status = "superseded"
              ELSE mid.entries[e] = d.entries[e]
  BY <1>3, SupersededIs
<1>5. Withdrawn(d, g) = [mid EXCEPT !.records[r].status = "rejected"]
  BY DEF Withdrawn
<1> HIDE DEF mid, r
<1>6. d.records[r] \in RecordType
  BY <1>1, <1>3
<1>7. y \in RecordType /\ y.status = "rejected" /\ y.game = g
  BY <1>3, <1>6 DEF RecordType, RecordStatus
<1>8. Withdrawn(d, g) = next
  BY <1>3, <1>4, <1>5 DEF DocumentType
<1> HIDE DEF y
<1>9. /\ records \in Seq(RecordType) /\ DOMAIN records = DOMAIN d.records
      /\ \A q \in DOMAIN d.records : records[q] = IF q = r THEN y ELSE d.records[q]
  BY <1>1, <1>3, <1>7
<1> HIDE DEF records
<1>10. /\ next \in DocumentType /\ next.entries = mid.entries /\ next.records = records
       /\ next.game = d.game /\ next.round = d.round /\ next.room = d.room
       /\ next.session = d.session
  BY <1>4, <1>9 DEF DocumentType
<1> HIDE DEF next
<1>11. \A q \in DOMAIN d.records : IsDecided(next, q) <=> q # r /\ IsDecided(d, q)
  BY <1>7, <1>9, <1>10 DEF IsDecided
<1>12. \A h \in Games : DecidedOf(next, h) = DecidedOf(d, h) \ {r}
  BY <1>3, <1>7, <1>9, <1>10, <1>11 DEF DecidedOf, Records
<1>13. \A h \in Games : DecidedOf(next, h) = IF h = g THEN {} ELSE DecidedOf(d, h)
  <2>1. \A h \in Games \ {g} : r \notin DecidedOf(d, h)
    BY <1>3 DEF DecidedOf, Records
  <2> QED
    BY <1>2, <1>12, <2>1
<1>14. Filed(next)
  BY <1>1, <1>4, <1>9, <1>10 DEF Entered, Filed
<1>15. \A e \in DOMAIN d.entries : next.entries[e].status \in {"pending", "accepted"}
         => /\ next.entries[e] = d.entries[e] /\ d.entries[e].record # r
            /\ d.entries[e].record \in DOMAIN d.records
  <2> SUFFICES ASSUME NEW e \in DOMAIN d.entries,
                      next.entries[e].status \in {"pending", "accepted"}
               PROVE  /\ next.entries[e] = d.entries[e] /\ d.entries[e].record # r
                      /\ d.entries[e].record \in DOMAIN d.records
    OBVIOUS
  <2>1. next.entries[e] = d.entries[e]
        /\ ~(d.entries[e].record = r /\ d.entries[e].status = "accepted")
    BY <1>4, <1>10
  <2>2. d.entries[e].status = "pending" => d.entries[e].record # r
    BY <1>1, <1>3 DEF Entered, IsDecided
  <2> QED
    BY <1>1, <2>1, <2>2 DEF Entered, Filed
<1>16. Entered(next)
  <2>1. \A e \in DOMAIN next.entries : next.entries[e].status = "pending"
          => next.records[next.entries[e].record].status = "submitted"
    BY <1>1, <1>4, <1>9, <1>10, <1>15 DEF Entered
  <2>2. \A e \in DOMAIN next.entries : next.entries[e].status = "accepted"
          => IsDecided(next, next.entries[e].record)
    BY <1>1, <1>4, <1>10, <1>11, <1>15 DEF Entered
  <2>3. \A e, f \in DOMAIN next.entries :
          /\ next.entries[e].record = next.entries[f].record
          /\ next.entries[e].status = next.entries[f].status
          /\ next.entries[e].status \in {"pending", "accepted"}
          => e = f
    BY <1>1, <1>4, <1>10, <1>15 DEF Entered
  <2>4. \A q \in DOMAIN next.records : IsDecided(next, q)
          => \E e \in DOMAIN next.entries : next.entries[e].status = "accepted"
                                            /\ next.entries[e].record = q
    BY <1>1, <1>4, <1>9, <1>10, <1>11 DEF Entered
  <2>5. \A h \in Games : \A p, q \in DecidedOf(next, h) : p = q
    BY <1>1, <1>13 DEF Entered
  <2> QED
    BY <1>14, <2>1, <2>2, <2>3, <2>4, <2>5 DEF Entered
<1>17. Once(next)
  BY <1>1, <1>4, <1>10 DEF Once
<1> QED
  BY <1>3, <1>7, <1>8, <1>9, <1>10, <1>13, <1>16, <1>17 DEF Withdraws

-----------------------------------------------------------------------------
(* The steps of the system.                                                *)

\* What a follower keeps of each game.
LEMMA FollowerKeeps ==
  ASSUME NEW d, Sound(d), NEW next, Follows(d, next), NEW g \in Games
  PROVE  /\ DecidedOf(d, g) \subseteq DecidedOf(next, g)
         /\ d.game[g] = "cancelled" => next.game[g] = "cancelled"
         /\ Resolved(d, g) => Resolved(next, g)
<1>1. DecidedOf(d, g) \subseteq DecidedOf(next, g)
  BY DEF Follows, Keeps, DecidedOf, Records
<1>2. d.game[g] = "cancelled" => next.game[g] = "cancelled"
  BY DEF Follows, Keeps
<1>3. d.game[g] = "accepted" => next.game[g] = "accepted"
  BY <1>1 DEF Follows, Sound, Ruled
<1> QED
  BY <1>1, <1>2, <1>3 DEF Resolved

\* What a forfeit's replacement keeps (replaceForfeit).
LEMMA ReplaceKeeps ==
  ASSUME NEW d, Sound(d), NEW g \in Games, Canonical(d, g) # None,
         NEW status \in {"accepted", "forfeit"}
  PROVE  LET next == Decided(Withdrawn(d, g), g, status) IN
         /\ Sound(next) /\ next.round = d.round
         /\ \A h \in Games :
              /\ h # g => DecidedOf(d, h) \subseteq DecidedOf(next, h)
              /\ d.game[h] = "cancelled" => next.game[h] = "cancelled"
              /\ Resolved(d, h) => Resolved(next, h)
<1> DEFINE mid == Withdrawn(d, g)
           next == Decided(mid, g, status)
<1>1. Withdraws(d, mid, g)
  BY WithdrawnIs
<1> HIDE DEF mid
<1>2. /\ Entered(mid) /\ Once(mid) /\ DecidedOf(mid, g) = {} /\ mid.game[g] # "cancelled"
      /\ \A h \in Games \ {g} : mid.game[h] = "accepted" <=> DecidedOf(mid, h) # {}
  BY <1>1 DEF Withdraws, Sound, Ruled
<1>3. Follows(mid, next)
  BY <1>2, DecidedFollows
<1>4. next.game[g] = "accepted"
  <2>1. mid \in DocumentType
    BY <1>1 DEF Withdraws
  <2> QED
    BY <2>1 DEF Decided, DocumentType
<1> HIDE DEF next
<1>5. Sound(next) /\ next.round = d.round
  BY <1>1, <1>3 DEF Follows, Withdraws
<1>6. ASSUME NEW h \in Games, h # g
      PROVE  /\ DecidedOf(d, h) \subseteq DecidedOf(next, h)
             /\ d.game[h] = "cancelled" => next.game[h] = "cancelled"
             /\ Resolved(d, h) => Resolved(next, h)
  <2>1. DecidedOf(mid, h) = DecidedOf(d, h) /\ mid.game = d.game
    BY <1>1, <1>6 DEF Withdraws
  <2>2. DecidedOf(mid, h) \subseteq DecidedOf(next, h)
    BY <1>3 DEF Follows, Keeps, DecidedOf, Records
  <2>3. d.game[h] = "cancelled" => next.game[h] = "cancelled"
    BY <1>3, <2>1 DEF Follows, Keeps
  <2>4. d.game[h] = "accepted" => next.game[h] = "accepted"
    BY <1>5, <2>1, <2>2 DEF Sound, Ruled
  <2> QED
    BY <2>1, <2>2, <2>3, <2>4 DEF Resolved
<1>7. d.game[g] = "accepted" /\ Resolved(next, g)
  BY <1>1, <1>4 DEF Withdraws, Resolved
<1> QED
  BY <1>5, <1>6, <1>7 DEF next, mid

Reopened(d, g, status, sessions) ==
  [Withdrawn(d, g) EXCEPT !.game[g] = status, !.session = sessions]

\* What reopening a forfeited game keeps (reopenForfeit).
LEMMA ReopenKeeps ==
  ASSUME NEW d, Sound(d), NEW g \in Games, Canonical(d, g) # None,
         NEW status \in {"released", "scheduled"}, NEW sessions \in [Sessions -> SessionType],
         NEW reopened, reopened = Reopened(d, g, status, sessions)
  PROVE  /\ Sound(reopened)
         /\ \A h \in Games :
              /\ h # g => DecidedOf(d, h) \subseteq DecidedOf(reopened, h)
              /\ d.game[h] = "cancelled" => reopened.game[h] = "cancelled"
<1> DEFINE mid == Withdrawn(d, g)
           next == [mid EXCEPT !.game[g] = status, !.session = sessions]
<1>1. Withdraws(d, mid, g)
  BY WithdrawnIs
<1> HIDE DEF mid
<1>2. /\ mid \in DocumentType /\ Entered(mid) /\ Once(mid) /\ mid.game = d.game
      /\ \A h \in Games : DecidedOf(mid, h) = IF h = g THEN {} ELSE DecidedOf(d, h)
  BY <1>1 DEF Withdraws
<1>3. /\ next \in DocumentType /\ next.entries = mid.entries /\ next.records = mid.records
      /\ \A h \in Games : next.game[h] = IF h = g THEN status ELSE d.game[h]
  BY <1>2 DEF DocumentType, GameStatus
<1> HIDE DEF next
<1>4. /\ \A r : IsDecided(next, r) <=> IsDecided(mid, r)
      /\ \A h \in Games : DecidedOf(next, h) = DecidedOf(mid, h)
  BY <1>3 DEF IsDecided, DecidedOf, Records
<1>5. Entered(next) /\ Once(next)
  BY <1>2, <1>3, <1>4 DEF Entered, Filed, Once
<1>6. Ruled(next)
  BY <1>2, <1>3, <1>4 DEF Sound, Ruled
<1>7. d.game[g] = "accepted"
  BY <1>1 DEF Withdraws
<1> QED
  BY <1>2, <1>3, <1>4, <1>5, <1>6, <1>7 DEF Sound, next, mid, Reopened

RoundWritten(d, r, status, game) == [d EXCEPT !.round[r] = status, !.game = game]

SetsRound(d, r, status, game) ==
  /\ Sound(d) /\ r \in Rounds /\ status \in {"released", "closed"}
  /\ game \in [Games -> GameStatus]
  /\ \A g \in Games : d.game[g] # game[g] => d.game[g] = "scheduled" /\ game[g] = "released"

RoundIsSet(d, next, r, status) ==
  /\ Sound(next) /\ Keeps(d, next)
  /\ next.round = [d.round EXCEPT ![r] = status]
  /\ \A g \in Games : /\ DecidedOf(d, g) \subseteq DecidedOf(next, g)
                      /\ d.game[g] = "cancelled" => next.game[g] = "cancelled"
                      /\ Resolved(next, g) <=> Resolved(d, g)

\* A round is released or closed: no result changes, and no game is resolved or
\* taken up again (releaseRound, closeRound).
LEMMA RoundSet ==
  ASSUME NEW d, NEW r, NEW status, NEW game, SetsRound(d, r, status, game)
  PROVE  RoundIsSet(d, RoundWritten(d, r, status, game), r, status)
<1> USE DEF SetsRound
<1> DEFINE next == [d EXCEPT !.round[r] = status, !.game = game]
<1>1. d \in DocumentType
  BY DEF Sound, Entered, Filed
<1>2. /\ next \in DocumentType /\ next.records = d.records /\ next.entries = d.entries
      /\ next.game = game /\ next.round = [d.round EXCEPT ![r] = status]
  BY <1>1 DEF DocumentType
<1> HIDE DEF next
<1>3. \A g \in Games : /\ next.game[g] = "accepted" <=> d.game[g] = "accepted"
                       /\ next.game[g] = "cancelled" <=> d.game[g] = "cancelled"
  BY <1>2
<1>4. /\ Sound(next) /\ Keeps(d, next)
      /\ \A g \in Games : DecidedOf(next, g) = DecidedOf(d, g)
  BY <1>2, <1>3, SameResults
<1> QED
  BY <1>2, <1>3, <1>4 DEF next, Resolved, RoundWritten, RoundIsSet

\* Everything but the document is as the invariant wants it.
Around ==
  /\ \A f \in flights : f \in [kind : Settlements, game : Games, room : Rooms,
                               left : SUBSET Sessions]
  /\ poll # None => poll \in Snapshots /\ Len(poll.results) <= MaxResults
  /\ moving # None => /\ moving \in [rooms : SUBSET Rooms, doc : DocumentType]
                      /\ Sound(moving.doc)
  /\ HostTypes

\* The first document is empty.
LEMMA Initially == Init => Inv
<1> SUFFICES ASSUME Init PROVE Inv
  OBVIOUS
<1>1. doc \in DocumentType
  BY SettlementAssumption DEF Init, DocumentType, NoRound, GameStatus, SessionType, Unseen
<1>2. doc.records = <<>> /\ doc.entries = <<>> /\ \A g \in Games : doc.game[g] = "scheduled"
  BY DEF Init
<1>3. \A g \in Games : DecidedOf(doc, g) = {}
  BY <1>2 DEF DecidedOf, Records
<1>4. Sound(doc)
  BY <1>1, <1>2, <1>3 DEF Sound, Entered, Filed, Ruled, Once
<1>5. \A d : Offers(d) \in [Rooms -> [play : SUBSET Games, games : SUBSET Games]]
  BY DEF Offers, Offer, Operational, InRoom
<1>6. HostTypes
  <2>1. retained = <<>> /\ MaxResults \in Nat
    BY SettlementAssumption DEF Init
  <2>2. retained \in Seq(ResultType) /\ Len(retained) <= MaxResults
    BY <2>1
  <2>3. offered \in [Rooms -> [play : SUBSET Games, games : SUBSET Games]]
    BY <1>5 DEF Init
  <2> QED
    BY <2>2, <2>3 DEF Init, HostTypes
<1> QED
  BY <1>4, <1>6 DEF Inv, Init

\* The Director's commands that only follow: settlements, reviews, corrections.
LEMMA DirectorFollows ==
  ASSUME Inv,
         \/ \E g \in Games : Edit(g)
         \/ \E g \in Games, kind \in Settlements : Start(kind, g)
         \/ \E f \in flights : Settle(f)
         \/ \E e \in Waiting : Accept(e) \/ Reject(e)
         \/ \E e \in Waiting, g \in Games : Associate(e, g)
         \/ \E g \in Games, print \in Scores : Drive(g, print)
  PROVE  Follows(doc, doc') /\ Around'
<1>1. Sound(doc) /\ Around
  BY DEF Inv, Around
<1>2. ASSUME UNCHANGED <<flights, poll, moving, host>> PROVE Around'
  BY <1>1, <1>2 DEF Around, host, HostTypes
<1>3. ASSUME NEW g \in Games, Edit(g) PROVE Follows(doc, doc') /\ Around'
  BY <1>1, <1>2, <1>3, EditFollows DEF Edit, Commit
<1>4. ASSUME NEW g \in Games, NEW kind \in Settlements, Start(kind, g)
      PROVE  Follows(doc, doc') /\ Around'
  <2> DEFINE found == {s \in SessionsOf(doc, g) :
                        doc.session[s].state # "abandoned" /\ UnresolvedSession(doc, s)}
             flight == [kind |-> kind, game |-> g, room |-> doc.room[g], left |-> found]
  <2>1. flight \in [kind : Settlements, game : Games, room : Rooms, left : SUBSET Sessions]
    <3>1. doc.room[g] \in Rooms
      BY <1>1 DEF Sound, Entered, Filed, DocumentType
    <3>2. found \subseteq Sessions
      BY DEF SessionsOf
    <3> HIDE DEF found
    <3> QED
      BY <3>1, <3>2
  <2>2. IF found = {} THEN Commit(Settled(doc, flight))
        ELSE flights' = flights \cup {flight} /\ UNCHANGED <<doc, poll, moving, host>>
    BY <1>4 DEF Start
  <2> HIDE DEF found, flight
  <2>3. CASE Commit(Settled(doc, flight))
    <3>1. flight.kind \in Settlements /\ flight.game \in Games
      BY <2>1
    <3> QED
      BY <1>1, <1>2, <2>3, <3>1, SettledFollows DEF Commit
  <2>4. CASE flights' = flights \cup {flight} /\ UNCHANGED <<doc, poll, moving, host>>
    BY <1>1, <2>1, <2>4, FollowsItself DEF Around, host, HostTypes
  <2> QED
    BY <2>2, <2>3, <2>4
<1>5. ASSUME NEW f \in flights, Settle(f) PROVE Follows(doc, doc') /\ Around'
  <2>1. f.kind \in Settlements /\ f.game \in Games
    BY <1>1 DEF Around
  <2>2. Follows(doc, doc')
    BY <1>1, <1>5, <2>1, SettledFollows DEF Settle
  <2> QED
    BY <1>1, <1>5, <2>2 DEF Settle, Around, host, HostTypes
<1>6. ASSUME NEW e \in Waiting, Accept(e) \/ Reject(e) PROVE Follows(doc, doc') /\ Around'
  <2>1. e \in DOMAIN doc.entries /\ doc.entries[e].status = "pending" /\ GameOf(doc, e) \in Games
    BY <1>1, WaitingGame DEF Waiting
  <2>2. CASE Accept(e)
    <3>1. Follows(doc, doc')
      BY <1>1, <2>1, <2>2, AcceptReviews, ReviewFollows DEF Accept, Accepting, Commit
    <3> QED
      BY <1>2, <2>2, <3>1 DEF Accept, Commit
  <2>3. CASE Reject(e)
    <3>1. Follows(doc, doc')
      BY <1>1, <2>1, <2>3, RejectReviews, ReviewFollows DEF Reject, Rejected, Rejecting, Commit
    <3> QED
      BY <1>2, <2>3, <3>1 DEF Reject, Commit
  <2> QED
    BY <1>6, <2>2, <2>3
<1>7. ASSUME NEW e \in Waiting, NEW g \in Games, Associate(e, g)
      PROVE  Follows(doc, doc') /\ Around'
  <2>1. e \in DOMAIN doc.entries /\ doc.entries[e].status = "pending" /\ GameOf(doc, e) \in Games
    BY <1>1, WaitingGame DEF Waiting
  <2>2. Follows(doc, doc')
    BY <1>1, <1>7, <2>1, AssociateReviews, ReviewFollows DEF Associate, Associating, Commit
  <2> QED
    BY <1>2, <1>7, <2>2 DEF Associate, Commit
<1>8. ASSUME NEW g \in Games, NEW print \in Scores, Drive(g, print)
      PROVE  Follows(doc, doc') /\ Around'
  <2>1. 0 \in 0..MaxResults
    BY SettlementAssumption
  <2>2. Follows(doc, Ingested(doc, g, print, 0))
    BY <1>1, <2>1, IngestedFollows
  <2> QED
    BY <1>2, <1>8, <2>2 DEF Drive, Commit
<1> QED
  BY <1>3, <1>4, <1>5, <1>6, <1>7, <1>8

\* A poll, and a room move as it is planned (syncQbtcp, moveReleasedGame).
LEMMA PollFollows ==
  ASSUME Inv, PollApply \/ \E g \in Games, to \in Rooms : PlanMove(g, to)
  PROVE  /\ Follows(doc, doc') /\ Around'
         /\ moving' # None => \/ moving' = moving
                              \/ /\ moving'.doc.round = doc.round
                                 /\ \A g \in Games : Resolved(doc, g) => Resolved(moving'.doc, g)
<1>1. Sound(doc) /\ Around
  BY DEF Inv, Around
<1>2. CASE PollApply
  <2>0. PICK refused \in Refusals(poll.results) :
          LET applied == PollApplied(doc, poll, refused)
          IN \E quiet \in SUBSET {s \in Sessions : applied.session[s].state = "open"} :
               doc' = Silent(applied, quiet)
    BY <1>2 DEF PollApply
  <2> DEFINE applied == PollApplied(doc, poll, refused)
  <2>1. PICK quiet \in SUBSET {s \in Sessions : applied.session[s].state = "open"} :
          doc' = Silent(applied, quiet)
    BY <2>0
  <2>2. poll \in Snapshots /\ Len(poll.results) <= MaxResults
    BY <1>1, <1>2 DEF PollApply, Around
  <2>3. Follows(doc, applied)
    BY <1>1, <2>2, PollAppliedFollows
  <2> HIDE DEF applied
  <2>4. Follows(applied, doc')
    BY <2>1, <2>3, SilentFollows DEF Follows
  <2>5. Around'
    BY <1>1, <1>2 DEF PollApply, Around, host, HostTypes
  <2> QED
    BY <1>2, <2>3, <2>4, <2>5, FollowsOn DEF PollApply
<1>3. ASSUME NEW g \in Games, NEW to \in Rooms, PlanMove(g, to)
      PROVE  /\ Follows(doc, doc') /\ Around'
             /\ moving'.doc.round = doc.round
             /\ \A h \in Games : Resolved(doc, h) => Resolved(moving'.doc, h)
  <2> DEFINE next == [doc' EXCEPT !.room[g] = to]
  <2>1. HostSnapshot \in Snapshots /\ Len(HostSnapshot.results) <= MaxResults
    BY <1>1 DEF HostSnapshot, Snapshots, Around, HostTypes
  <2>2. Follows(doc, doc')
    <3>1. CASE doc' = doc
      BY <1>1, <3>1, FollowsItself
    <3>2. CASE \E refused \in Refusals(retained) :
                 doc' = PollApplied(doc, HostSnapshot, refused)
      <4>1. PICK refused : doc' = PollApplied(doc, HostSnapshot, refused)
        BY <3>2
      <4> HIDE DEF HostSnapshot
      <4> QED
        BY <1>1, <2>1, <4>1, PollAppliedFollows
    <3> QED
      BY <1>3, <3>1, <3>2 DEF PlanMove
  <2>3. doc' \in DocumentType /\ Sound(doc')
    BY <2>2 DEF Follows, Sound, Entered, Filed
  <2>4. /\ next \in DocumentType /\ next.records = doc'.records
        /\ next.entries = doc'.entries /\ next.game = doc'.game /\ next.round = doc'.round
    BY <2>3 DEF DocumentType
  <2>5. moving' = [rooms |-> {doc'.room[g], to}, doc |-> next]
    BY <1>3 DEF PlanMove
  <2> HIDE DEF next
  <2>6. Sound(next)
    BY <2>3, <2>4, SameResults
  <2>7. moving' \in [rooms : SUBSET Rooms, doc : DocumentType] /\ moving'.doc = next
    <3>1. doc'.room[g] \in Rooms
      BY <2>3 DEF DocumentType
    <3> QED
      BY <2>4, <2>5, <3>1
  <2>8. Around'
    BY <1>1, <1>3, <2>6, <2>7 DEF PlanMove, Around, host, HostTypes
  <2>9. next.round = doc.round
    BY <2>2, <2>4 DEF Follows
  <2>10. \A h \in Games : Resolved(doc, h) => Resolved(next, h)
    BY <1>1, <2>2, <2>4, FollowerKeeps DEF Resolved
  <2> QED
    BY <2>2, <2>7, <2>8, <2>9, <2>10
<1> QED
  BY <1>2, <1>3

\* The host, the scorers, and what is awaited of them, leave the document alone.
LEMMA HostSteps ==
  ASSUME Inv,
         \/ \E f \in flights : Retire(f) \/ RetireFails(f)
         \/ PollRead \/ PollFails
         \/ \E s \in Sessions, rm \in Rooms, g \in Games : Open(s, rm, g)
         \/ \E s \in Sessions, print \in Scores : Post(s, print)
         \/ \E s \in Sessions : Expire(s)
         \/ Refresh
         \/ UNCHANGED vars
  PROVE  doc' = doc /\ moving' = moving /\ Around'
<1>1. Around
  BY DEF Inv, Around
<1> DEFINE States == {"none", "open", "abandoned", "final"}
           Runtime == [state : States, game : Games \cup {None}, room : Rooms \cup {None}]
           Shown == [status : States, match : Games \cup {None}, room : Rooms \cup {None}]
<1>2. /\ runtime \in [Sessions -> Runtime] /\ shown \in [Sessions -> Shown]
      /\ \A s \in Sessions : runtime[s].state # "none" => runtime[s].game \in Games
      /\ retained \in Seq(ResultType) /\ Len(retained) <= MaxResults
      /\ offered \in [Rooms -> [play : SUBSET Games, games : SUBSET Games]]
  BY <1>1 DEF Around, HostTypes
<1>3. ASSUME NEW f \in flights, Retire(f) PROVE doc' = doc /\ moving' = moving /\ Around'
  <2>1. PICK s \in f.left : Retire(f)!(s)
    BY <1>3 DEF Retire
  <2>2. /\ f \in [kind : Settlements, game : Games, room : Rooms, left : SUBSET Sessions]
        /\ s \in Sessions
    BY <1>1 DEF Around
  <2>3. [f EXCEPT !.left = @ \ {s}]
           \in [kind : Settlements, game : Games, room : Rooms, left : SUBSET Sessions]
    BY <2>2
  <2>4. \A k \in flights' : k \in [kind : Settlements, game : Games, room : Rooms,
                                   left : SUBSET Sessions]
    BY <1>1, <2>1, <2>3 DEF Around
  <2>5. HostTypes'
    <3>1. CASE runtime[s].state = "open"
      <4>1. runtime' \in [Sessions -> Runtime]
            /\ \A k \in Sessions : runtime'[k].state # "none" => runtime'[k].game \in Games
        <5> DEFINE row == [runtime[s] EXCEPT !.state = "abandoned"]
        <5>1. row \in Runtime /\ row.game = runtime[s].game
          BY <1>2, <2>2
        <5>2. runtime' = [runtime EXCEPT ![s] = row] /\ runtime[s].game \in Games
          BY <1>2, <2>1, <2>2, <3>1
        <5> HIDE DEF row, Runtime
        <5> QED
          BY <1>2, <2>2, <5>1, <5>2
      <4>2. shown' \in [Sessions -> Shown]
        <5>1. [status |-> "abandoned", match |-> None, room |-> runtime[s].room] \in Shown
              /\ [shown[s] EXCEPT !.status = "abandoned"] \in Shown
          BY <1>2, <2>2
        <5>2. PICK row \in Shown : shown' = [shown EXCEPT ![s] = row]
          <6> HIDE DEF Shown
          <6> QED
            BY <2>1, <3>1, <5>1
        <5> HIDE DEF Shown
        <5> QED
          BY <1>2, <5>2
      <4> QED
        BY <1>2, <2>1, <4>1, <4>2 DEF HostTypes
    <3>2. CASE runtime[s].state # "open"
      BY <1>1, <2>1, <3>2 DEF HostTypes, Around
    <3> QED
      BY <3>1, <3>2
  <2> QED
    BY <1>1, <2>1, <2>4, <2>5 DEF Around
<1>4. ASSUME NEW f \in flights, RetireFails(f) PROVE doc' = doc /\ moving' = moving /\ Around'
  BY <1>1, <1>4 DEF RetireFails, Around, host, HostTypes
<1>5. ASSUME PollRead \/ PollFails PROVE doc' = doc /\ moving' = moving /\ Around'
  <2>1. CASE PollRead
    BY <1>1, <1>2, <2>1 DEF PollRead, Around, host, HostTypes, HostSnapshot, Snapshots
  <2>2. CASE PollFails
    BY <1>1, <1>2, <2>2 DEF PollFails, Around, host, HostTypes
  <2> QED
    BY <1>5, <2>1, <2>2
<1>6. ASSUME NEW s \in Sessions, NEW rm \in Rooms, NEW g \in Games, Open(s, rm, g)
      PROVE  doc' = doc /\ moving' = moving /\ Around'
  BY <1>1, <1>2, <1>6 DEF Open, UnchangedDirector, Around, HostTypes
<1>7. ASSUME NEW s \in Sessions, NEW print \in Scores, Post(s, print)
      PROVE  doc' = doc /\ moving' = moving /\ Around'
  <2> DEFINE result == [session |-> s, game |-> runtime[s].game, print |-> print]
  <2>1. result \in ResultType
    BY <1>2, <1>7 DEF Post, ResultType
  <2>2. retained' = Append(retained, result) /\ Len(retained) < MaxResults
    BY <1>7 DEF Post
  <2> HIDE DEF result
  <2>3. retained' \in Seq(ResultType) /\ Len(retained') <= MaxResults
    BY <1>2, <2>1, <2>2, SettlementAssumption
  <2>4. /\ runtime' \in [Sessions -> Runtime] /\ shown' \in [Sessions -> Shown]
        /\ \A k \in Sessions : runtime'[k].state # "none" => runtime'[k].game \in Games
    <3> DEFINE row == [runtime[s] EXCEPT !.state = IF @ = "open" THEN "final" ELSE @]
               line == [shown[s] EXCEPT !.status = "final"]
    <3>1. row \in Runtime /\ row.game = runtime[s].game /\ line \in Shown
      BY <1>2
    <3>2. runtime' = [runtime EXCEPT ![s] = row] /\ shown' = [shown EXCEPT ![s] = line]
          /\ runtime[s].game \in Games
      BY <1>2, <1>7 DEF Post
    <3> HIDE DEF row, line, Runtime, Shown
    <3> QED
      BY <1>2, <3>1, <3>2
  <2> QED
    BY <1>1, <1>7, <2>3, <2>4 DEF Post, UnchangedDirector, Around, HostTypes
<1>8. ASSUME NEW s \in Sessions, Expire(s) PROVE doc' = doc /\ moving' = moving /\ Around'
  <2>1. /\ runtime' \in [Sessions -> Runtime] /\ shown' \in [Sessions -> Shown]
        /\ \A k \in Sessions : runtime'[k].state # "none" => runtime'[k].game \in Games
    <3> DEFINE row == [runtime[s] EXCEPT !.state = "abandoned"]
               line == [shown[s] EXCEPT !.status = "abandoned"]
    <3>1. row \in Runtime /\ row.game = runtime[s].game /\ line \in Shown
      BY <1>2
    <3>2. runtime' = [runtime EXCEPT ![s] = row] /\ shown' = [shown EXCEPT ![s] = line]
          /\ runtime[s].game \in Games
      BY <1>2, <1>8 DEF Expire
    <3> HIDE DEF row, line, Runtime, Shown
    <3> QED
      BY <1>2, <3>1, <3>2
  <2> QED
    BY <1>1, <1>8, <2>1 DEF Expire, UnchangedDirector, Around, HostTypes
<1>9. ASSUME Refresh PROVE doc' = doc /\ moving' = moving /\ Around'
  <2> DEFINE changed == {rm \in Rooms : offered[rm] # offered'[rm]}
             closed == {s \in Sessions : /\ runtime[s].state = "open"
                                         /\ runtime[s].game \notin offered'[runtime[s].room].play}
             forgotten == {s \in Sessions : shown[s].room \in changed /\ shown[s].status # "final"}
  <2>1. /\ runtime' = [s \in Sessions |->
             IF s \in closed THEN [runtime[s] EXCEPT !.state = "abandoned"] ELSE runtime[s]]
        /\ shown' = [s \in Sessions |->
             CASE s \in closed \cap forgotten ->
                    [status |-> "abandoned", match |-> None, room |-> runtime[s].room]
               [] s \in closed \ forgotten -> [shown[s] EXCEPT !.status = "abandoned"]
               [] s \in forgotten \ closed -> [status |-> "none", match |-> None, room |-> None]
               [] OTHER -> shown[s]]
    BY <1>9 DEF Refresh
  <2>2. \A s \in closed : runtime[s].state = "open"
    OBVIOUS
  <2> HIDE DEF closed, forgotten, changed
  <2>3. /\ runtime' \in [Sessions -> Runtime]
        /\ \A s \in Sessions : runtime'[s].state # "none" => runtime'[s].game \in Games
    BY <1>2, <2>1, <2>2
  <2>4. shown' \in [Sessions -> Shown]
    <3>1. \A s \in Sessions :
            /\ [status |-> "abandoned", match |-> None, room |-> runtime[s].room] \in Shown
            /\ [shown[s] EXCEPT !.status = "abandoned"] \in Shown
            /\ [status |-> "none", match |-> None, room |-> None] \in Shown
            /\ shown[s] \in Shown
      BY <1>2
    <3>2. \A s \in Sessions : shown'[s] \in Shown
      <4> SUFFICES ASSUME NEW s \in Sessions PROVE shown'[s] \in Shown
        OBVIOUS
      <4> HIDE DEF Shown
      <4>1. CASE s \in closed \cap forgotten
        BY <2>1, <3>1, <4>1
      <4>2. CASE s \in closed \ forgotten
        BY <2>1, <3>1, <4>2
      <4>3. CASE s \in forgotten \ closed
        BY <2>1, <3>1, <4>3
      <4>4. CASE s \notin closed \cup forgotten
        BY <2>1, <3>1, <4>4
      <4> QED
        BY <4>1, <4>2, <4>3, <4>4
    <3> HIDE DEF Shown
    <3> QED
      BY <2>1, <3>2
  <2>5. offered' \in [Rooms -> [play : SUBSET Games, games : SUBSET Games]]
    BY <1>9 DEF Refresh, Offers, Offer, Operational, InRoom
  <2> QED
    BY <1>1, <1>2, <1>9, <2>3, <2>4, <2>5 DEF Refresh, UnchangedDirector, Around, HostTypes
<1>10. ASSUME UNCHANGED vars PROVE doc' = doc /\ moving' = moving /\ Around'
  BY <1>1, <1>10 DEF vars, host, Around, HostTypes
<1> QED
  BY <1>3, <1>4, <1>5, <1>6, <1>7, <1>8, <1>9, <1>10

\* A step keeps a game's results, unless it is a correction of that game, and keeps
\* it cancelled.
KeepsResults(g) ==
  /\ Correction(g) \/ DecidedOf(doc, g) \subseteq DecidedOf(doc', g)
  /\ doc.game[g] = "cancelled" => doc'.game[g] = "cancelled"

\* The invariant holds after a step; and what only a room move may lose.
LEMMA Step ==
  ASSUME Inv, [Next]_vars
  PROVE  Inv' /\ (Move \/ \A g \in Games : KeepsResults(g))
<1>1. Sound(doc) /\ Around
  BY DEF Inv, Around
<1>2. ASSUME Around', Sound(doc') PROVE Inv'
  BY <1>2 DEF Inv, Around
<1>3. ASSUME Follows(doc, doc'), Around' PROVE Inv' /\ \A g \in Games : KeepsResults(g)
  BY <1>1, <1>2, <1>3, FollowerKeeps DEF KeepsResults, Follows
<1>4. ASSUME Commit(doc') PROVE Around'
  BY <1>1, <1>4 DEF Commit, Around, host, HostTypes
<1>5. ASSUME NEW r \in Rounds, Release(r) \/ Close(r)
      PROVE  Inv' /\ \A g \in Games : KeepsResults(g)
  <2>1. PICK status \in {"released", "closed"}, game \in [Games -> GameStatus] :
          /\ doc' = [doc EXCEPT !.round[r] = status, !.game = game]
          /\ \A g \in Games : doc.game[g] # game[g] => /\ doc.game[g] = "scheduled"
                                                       /\ game[g] = "released"
    <3>1. doc \in DocumentType /\ doc.game \in [Games -> GameStatus]
      BY <1>1 DEF Sound, Entered, Filed, DocumentType
    <3>2. CASE Release(r)
      <4> DEFINE game == [g \in Games |->
                   IF g \in GamesOf(r) /\ doc.game[g] = "scheduled"
                   THEN "released" ELSE doc.game[g]]
      <4>1. game \in [Games -> GameStatus]
        BY <3>1 DEF GameStatus
      <4>2. doc' = [doc EXCEPT !.round[r] = "released", !.game = game]
        BY <3>2 DEF Release, Commit
      <4>3. \A g \in Games : doc.game[g] # game[g] => /\ doc.game[g] = "scheduled"
                                                      /\ game[g] = "released"
        OBVIOUS
      <4> HIDE DEF game
      <4> QED
        BY <4>1, <4>2, <4>3
    <3>3. CASE Close(r)
      <4>1. doc' = [doc EXCEPT !.round[r] = "closed"]
        BY <3>3 DEF Close, Commit
      <4>2. doc' = [doc EXCEPT !.round[r] = "closed", !.game = doc.game]
        BY <3>1, <4>1 DEF DocumentType
      <4> QED
        BY <3>1, <4>2
    <3> QED
      BY <1>5, <3>2, <3>3
  <2>2. Sound(doc') /\ \A g \in Games : KeepsResults(g)
    <3> DEFINE next == RoundWritten(doc, r, status, game)
    <3>1. doc' = next
      BY <2>1 DEF RoundWritten
    <3>2. SetsRound(doc, r, status, game)
      BY <1>1, <2>1 DEF SetsRound
    <3>3. RoundIsSet(doc, next, r, status)
      BY <3>2, RoundSet
    <3> HIDE DEF next
    <3> QED
      BY <3>1, <3>3 DEF KeepsResults, RoundIsSet
  <2>3. Commit(doc')
    BY <1>5 DEF Release, Close, Commit
  <2> QED
    BY <1>2, <1>4, <2>2, <2>3
<1>6. ASSUME NEW g \in Games, Reopen(g) PROVE Inv' /\ \A h \in Games : KeepsResults(h)
  <2> DEFINE sessions == [s \in Sessions |->
                 IF doc.session[s].match = g
                 THEN [doc.session[s] EXCEPT !.state = "abandoned", !.resumable = FALSE]
                 ELSE doc.session[s]]
             status == IF Released(doc, g) THEN "released" ELSE "scheduled"
  <2>1. sessions \in [Sessions -> SessionType]
    <3>1. doc.session \in [Sessions -> SessionType]
      BY <1>1 DEF Sound, Entered, Filed, DocumentType
    <3> QED
      BY <3>1 DEF SessionType
  <2>2. doc' = [Withdrawn(doc, g) EXCEPT !.game[g] = status, !.session = sessions]
    BY <1>6 DEF Reopen, Commit
  <2>3. Canonical(doc, g) # None /\ status \in {"released", "scheduled"}
    BY <1>6 DEF Reopen, CanonicalForfeit
  <2> HIDE DEF sessions, status
  <2>4. /\ Sound(doc')
        /\ \A h \in Games :
              /\ h # g => DecidedOf(doc, h) \subseteq DecidedOf(doc', h)
              /\ doc.game[h] = "cancelled" => doc'.game[h] = "cancelled"
    <3> DEFINE next == Reopened(doc, g, status, sessions)
    <3>1. doc' = next
      BY <2>2 DEF Reopened
    <3>2. /\ Sound(next)
          /\ \A h \in Games :
                /\ h # g => DecidedOf(doc, h) \subseteq DecidedOf(next, h)
                /\ doc.game[h] = "cancelled" => next.game[h] = "cancelled"
      BY <1>1, <2>1, <2>3, ReopenKeeps
    <3> HIDE DEF next
    <3> QED
      BY <3>1, <3>2
  <2>5. Commit(doc')
    BY <1>6 DEF Reopen, Commit
  <2>6. Correction(g)
    BY <1>6 DEF Correction
  <2> QED
    BY <1>2, <1>4, <2>4, <2>5, <2>6 DEF KeepsResults
<1>7. ASSUME NEW g \in Games, NEW status \in {"accepted", "forfeit"}, Replace(g, status)
      PROVE  Inv' /\ \A h \in Games : KeepsResults(h)
  <2>1. Canonical(doc, g) # None /\ doc' = Decided(Withdrawn(doc, g), g, status)
    BY <1>7 DEF Replace, CanonicalForfeit, Commit
  <2>2. /\ Sound(doc')
        /\ \A h \in Games :
              /\ h # g => DecidedOf(doc, h) \subseteq DecidedOf(doc', h)
              /\ doc.game[h] = "cancelled" => doc'.game[h] = "cancelled"
    BY <1>1, <2>1, ReplaceKeeps
  <2>3. Commit(doc')
    BY <1>7 DEF Replace, Commit
  <2>4. Correction(g)
    BY <1>7 DEF Correction
  <2> QED
    BY <1>2, <1>4, <2>2, <2>3, <2>4 DEF KeepsResults
<1>8. ASSUME Move PROVE Inv'
  <2>1. Sound(doc')
    BY <1>1, <1>8 DEF Move, Around
  <2>2. Around'
    BY <1>1, <1>8 DEF Move, Around, host, HostTypes
  <2> QED
    BY <1>2, <2>1, <2>2
<1>9. CASE \/ \E g \in Games : Edit(g)
           \/ \E g \in Games, kind \in Settlements : Start(kind, g)
           \/ \E f \in flights : Settle(f)
           \/ \E e \in Waiting : Accept(e) \/ Reject(e)
           \/ \E e \in Waiting, g \in Games : Associate(e, g)
           \/ \E g \in Games, print \in Scores : Drive(g, print)
  BY <1>3, <1>9, DirectorFollows
<1>10. CASE PollApply \/ \E g \in Games, to \in Rooms : PlanMove(g, to)
  BY <1>3, <1>10, PollFollows
<1>11. CASE \/ \E f \in flights : Retire(f) \/ RetireFails(f)
            \/ PollRead \/ PollFails
            \/ \E s \in Sessions, rm \in Rooms, g \in Games : Open(s, rm, g)
            \/ \E s \in Sessions, print \in Scores : Post(s, print)
            \/ \E s \in Sessions : Expire(s)
            \/ Refresh
            \/ UNCHANGED vars
  <2>1. doc' = doc /\ Around'
    BY <1>11, HostSteps
  <2> QED
    BY <1>1, <1>3, <2>1, FollowsItself
<1> QED
  BY <1>5, <1>6, <1>7, <1>8, <1>9, <1>10, <1>11 DEF Next

\* The inductive invariant: the document is sound, whoever wrote it, and so is the
\* one a room move is about to write.
THEOREM Types == Spec => []Inv
<1>1. Inv /\ [Next]_vars => Inv'
  BY Step
<1> QED
  BY <1>1, Initially, PTL DEF Spec

\* Whatever was staged, moved and replaced in whatever order, every submission is
\* about a record of the document (the types of state.qbtcp and its inbox).
THEOREM TypeCorrect == Spec => []TypeOK
<1>1. Inv => TypeOK
  <2> SUFFICES ASSUME Inv PROVE TypeOK
    OBVIOUS
  <2>1. ASSUME NEW d, Filed(d) PROVE Documents(d)
    <3>1. /\ d \in DocumentType /\ d.records \in Seq(RecordType)
          /\ d.entries \in Seq(EntryType)
      BY <2>1 DEF Filed, DocumentType
    <3>2. \A r \in DOMAIN d.records : d.records[r] \in [game : Games, status : RecordStatus]
      <4>1. \A r \in DOMAIN d.records : d.records[r] \in RecordType
        BY <3>1
      <4> QED
        BY <4>1 DEF RecordType
    <3>3. \A e \in DOMAIN d.entries : d.entries[e] \in
            [record : DOMAIN d.records, status : EntryStatus,
             print : Scores \cup {Typed}, result : 0..MaxResults]
      <4> SUFFICES ASSUME NEW e \in DOMAIN d.entries
                   PROVE  d.entries[e] \in
                            [record : DOMAIN d.records, status : EntryStatus,
                             print : Scores \cup {Typed}, result : 0..MaxResults]
        OBVIOUS
      <4>1. d.entries[e] \in EntryType /\ d.entries[e].record \in DOMAIN d.records
        BY <2>1, <3>1 DEF Filed
      <4> QED
        BY <4>1 DEF EntryType
    <3> QED
      BY <3>1, <3>2, <3>3 DEF Documents, DocumentType, SessionType
  <2>2. Documents(doc) /\ (moving # None => Documents(moving.doc))
    BY <2>1 DEF Inv, Sound, Entered
  <2>3. /\ \A s \in Sessions : runtime[s].state \in {"none", "open", "abandoned", "final"}
        /\ \A s \in Sessions : shown[s].status \in {"none", "open", "abandoned", "final"}
        /\ Len(retained) <= MaxResults
    BY DEF Inv, HostTypes
  <2> QED
    BY <2>2, <2>3 DEF Inv, TypeOK
<1> QED
  BY <1>1, Types, PTL

\* A game has at most one result that counts and one accepted submission, about
\* that result, and is accepted exactly when it has one (canonicalAcceptedGame).
THEOREM ResultUnique == Spec => []OneResult
<1>1. Inv => OneResult
  <2> SUFFICES ASSUME Inv, NEW g \in Games
               PROVE  LET accepted == {e \in Entries(doc, g) : doc.entries[e].status = "accepted"}
                      IN /\ Cardinality(DecidedRecords(g)) <= 1 /\ Cardinality(accepted) <= 1
                         /\ {doc.entries[e].record : e \in accepted} = DecidedRecords(g)
                         /\ doc.game[g] = "accepted" <=> DecidedRecords(g) # {}
    BY DEF OneResult
  <2> DEFINE accepted == {e \in Entries(doc, g) : doc.entries[e].status = "accepted"}
  <2>1. Entered(doc) /\ Ruled(doc) /\ Filed(doc)
    BY DEF Inv, Sound, Entered
  <2>2. DecidedRecords(g) = DecidedOf(doc, g)
    BY DEF DecidedRecords, DecidedOf, IsDecided
  <2>3. {doc.entries[e].record : e \in accepted} = DecidedOf(doc, g)
    <3>1. ASSUME NEW e \in accepted PROVE doc.entries[e].record \in DecidedOf(doc, g)
      BY <2>1, <3>1 DEF Entered, Filed, Entries, DecidedOf
    <3>2. ASSUME NEW r \in DecidedOf(doc, g)
          PROVE  \E e \in accepted : doc.entries[e].record = r
      <4>1. r \in DOMAIN doc.records /\ IsDecided(doc, r) /\ r \in Records(doc, g)
        BY DEF DecidedOf, Records
      <4>2. PICK e \in DOMAIN doc.entries : doc.entries[e].status = "accepted"
                                            /\ doc.entries[e].record = r
        BY <2>1, <4>1 DEF Entered
      <4> QED
        BY <4>1, <4>2 DEF Entries
    <3> QED
      BY <3>1, <3>2
  <2>4. \A r, q \in DecidedOf(doc, g) : r = q
    BY <2>1 DEF Entered
  <2>5. \A e, f \in accepted : e = f
    <3> SUFFICES ASSUME NEW e \in accepted, NEW f \in accepted PROVE e = f
      OBVIOUS
    <3>1. doc.entries[e].record = doc.entries[f].record
      BY <2>3, <2>4
    <3> QED
      BY <2>1, <3>1 DEF Entered, Entries
  <2>6. ASSUME NEW T, \A a, b \in T : a = b PROVE Cardinality(T) <= 1
    <3>1. CASE T = {}
      BY <3>1, FS_EmptySet
    <3>2. CASE T # {}
      <4>1. PICK a : T = {a}
        BY <2>6, <3>2
      <4>2. Cardinality({a}) = 1
        BY FS_Singleton
      <4> QED
        BY <4>1, <4>2
    <3> QED
      BY <3>1, <3>2
  <2>7. Cardinality(DecidedRecords(g)) <= 1 /\ Cardinality(accepted) <= 1
    <3> HIDE DEF accepted
    <3> QED
      BY <2>2, <2>4, <2>5, <2>6
  <2>8. doc.game[g] = "accepted" <=> DecidedRecords(g) # {}
    BY <2>1, <2>2 DEF Ruled
  <2> QED
    BY <2>2, <2>3, <2>7, <2>8
<1> QED
  BY <1>1, Types, PTL

\* However often a poll shows it and whatever was staged meanwhile, a result the
\* host retained is one submission (applyNativeResults).
THEOREM StagedOnce == Spec => []ExactlyOnce
<1>1. Inv => ExactlyOnce
  BY DEF Inv, Sound, Once, ExactlyOnce
<1> QED
  BY <1>1, Types, PTL

NotMoving == moving = None

\* Without the command no room move is ever under way.
LEMMA NoMoves ==
  ASSUME "move" \notin Commands
  PROVE  Spec => []NotMoving
<1>1. Init => NotMoving
  BY DEF Init, NotMoving
<1>2. NotMoving /\ [Next]_vars => NotMoving'
  <2> SUFFICES ASSUME moving = None, [Next]_vars PROVE moving' = None
    BY DEF NotMoving
  <2> USE DEF Commit
  <2>1. ASSUME NEW r \in Rounds, Release(r) \/ Close(r) PROVE moving' = None
    BY <2>1 DEF Release, Close
  <2>2. ASSUME NEW g \in Games, Edit(g) \/ Reopen(g) PROVE moving' = None
    BY <2>2 DEF Edit, Reopen
  <2>3. ASSUME NEW g \in Games, NEW kind \in Settlements, Start(kind, g) PROVE moving' = None
    BY <2>3 DEF Start
  <2>4. ASSUME NEW f \in flights, Retire(f) \/ RetireFails(f) \/ Settle(f) PROVE moving' = None
    BY <2>4 DEF Retire, RetireFails, Settle
  <2>5. ASSUME NEW e \in Waiting, Accept(e) \/ Reject(e) PROVE moving' = None
    BY <2>5 DEF Accept, Reject
  <2>6. ASSUME NEW e \in Waiting, NEW g \in Games, Associate(e, g) PROVE moving' = None
    BY <2>6 DEF Associate
  <2>7. ASSUME NEW g \in Games, NEW print \in Scores, Drive(g, print) PROVE moving' = None
    BY <2>7 DEF Drive
  <2>8. ASSUME NEW g \in Games, NEW status \in {"accepted", "forfeit"}, Replace(g, status)
        PROVE  moving' = None
    BY <2>8 DEF Replace
  <2>9. ASSUME NEW g \in Games, NEW to \in Rooms, PlanMove(g, to) PROVE moving' = None
    BY <2>9 DEF PlanMove
  <2>10. CASE Move \/ PollRead \/ PollFails \/ PollApply
    BY <2>10 DEF Move, PollRead, PollFails, PollApply
  <2>11. ASSUME NEW s \in Sessions, NEW rm \in Rooms, NEW g \in Games, Open(s, rm, g)
         PROVE  moving' = None
    BY <2>11 DEF Open, UnchangedDirector
  <2>12. ASSUME NEW s \in Sessions, NEW print \in Scores, Post(s, print) PROVE moving' = None
    BY <2>12 DEF Post, UnchangedDirector
  <2>13. ASSUME NEW s \in Sessions, Expire(s) PROVE moving' = None
    BY <2>13 DEF Expire, UnchangedDirector
  <2>14. CASE Refresh
    BY <2>14 DEF Refresh, UnchangedDirector
  <2>15. CASE UNCHANGED vars
    BY <2>15 DEF vars
  <2> QED
    BY <2>1, <2>2, <2>3, <2>4, <2>5, <2>6, <2>7, <2>8, <2>9, <2>10, <2>11, <2>12, <2>13,
       <2>14, <2>15 DEF Next
<1> QED
  BY <1>1, <1>2, PTL DEF Spec

\* A game's result stays unless a step corrects that game.
LEMMA ResultStays ==
  ASSUME Inv, Inv', NEW g \in Games, KeepsResults(g), Canonical(doc, g) # None,
         Canonical(doc', g) # Canonical(doc, g)
  PROVE  Correction(g)
<1> SUFFICES ASSUME DecidedOf(doc, g) \subseteq DecidedOf(doc', g) PROVE FALSE
  BY DEF KeepsResults
<1>1. Entered(doc) /\ Entered(doc')
  BY DEF Inv, Sound
<1>2. PICK r : r \in DecidedOf(doc, g)
  BY <1>1, CanonicalIs
<1>3. Canonical(doc, g) = r
  BY <1>1, <1>2, CanonicalIs
<1>4. Canonical(doc', g) = r
  BY <1>1, <1>2, CanonicalIs
<1> QED
  BY <1>3, <1>4

\* A result that counts is withdrawn only by an explicit correction, unless a room
\* move writes the document it was planned on (moveReleasedGame).
THEOREM ResultsStayButForMoves ==
  Spec => [][\A g \in Games : Canonical(doc, g) # None /\ Canonical(doc', g) # Canonical(doc, g)
                              => Correction(g) \/ Move]_vars
<1>1. Inv /\ [Next]_vars => \A g \in Games :
        Canonical(doc, g) # None /\ Canonical(doc', g) # Canonical(doc, g)
          => Correction(g) \/ Move
  BY Step, ResultStays
<1> QED
  BY <1>1, Types, PTL DEF Spec

\* Without room moves a poll, a rejection or another settlement leaves a result that
\* counts alone.
THEOREM ResultsStay ==
  ASSUME "move" \notin Commands
  PROVE  Spec => ResultKept
<1>1. Inv /\ NotMoving /\ [Next]_vars => \A g \in Games :
        Canonical(doc, g) # None /\ Canonical(doc', g) # Canonical(doc, g) => Correction(g)
  BY Step, ResultStays DEF Move, NotMoving
<1>2. Spec => []NotMoving
  BY NoMoves
<1> QED
  BY <1>1, <1>2, Types, PTL DEF Spec, ResultKept

\* A cancelled game stays cancelled, whatever arrives for it
\* (reconcileScheduledGameResultState).
THEOREM CancelledStays ==
  ASSUME "move" \notin Commands
  PROVE  Spec => CancelledIsFinal
<1>1. Inv /\ NotMoving /\ [Next]_vars => \A g \in Games :
        doc.game[g] = "cancelled" => doc'.game[g] = "cancelled"
  BY Step DEF Move, KeepsResults, NotMoving
<1>2. Spec => []NotMoving
  BY NoMoves
<1> QED
  BY <1>1, <1>2, Types, PTL DEF Spec, CancelledIsFinal

-----------------------------------------------------------------------------
(* One round at a time.                                                    *)

\* Of two released rounds one is resolved.
RoundsApart(d) ==
  \A q, r \in Rounds :
    /\ q # r /\ d.round[q] = "released" /\ d.round[r] = "released"
    => (\A g \in GamesOf(q) : Resolved(d, g)) \/ (\A g \in GamesOf(r) : Resolved(d, g))

RoundInv == RoundsApart(doc) /\ (moving # None => RoundsApart(moving.doc))

Advances(d, next) ==
  next.round = d.round /\ \A g \in Games : Resolved(d, g) => Resolved(next, g)

\* Resolving games does not bring a second round into play.
LEMMA AdvancesApart ==
  ASSUME NEW d, NEW next, RoundsApart(d), Advances(d, next)
  PROVE  RoundsApart(next)
  BY DEF RoundsApart, Advances, GamesOf

\* A round is released only when the other released rounds are resolved, and a
\* game that is resolved is not taken up again except by reopening a forfeit.
LEMMA RoundStep ==
  ASSUME Inv, RoundInv, [Next]_vars, "reopen" \notin Commands
  PROVE  RoundInv'
<1>1. Sound(doc) /\ doc.round \in [Rounds -> {"planned", "released", "closed"}]
      /\ doc \in DocumentType /\ doc.game \in [Games -> GameStatus]
  BY DEF Inv, Sound, Entered, Filed, DocumentType
<1>2. RoundsApart(doc) /\ (moving # None => RoundsApart(moving.doc))
  BY DEF RoundInv
<1>3. ASSUME Follows(doc, doc') PROVE RoundsApart(doc')
  <2>1. Advances(doc, doc')
    BY <1>1, <1>3, FollowerKeeps DEF Advances, Follows
  <2> QED
    BY <1>2, <2>1, AdvancesApart
<1>4. ASSUME RoundsApart(doc'), moving' = moving PROVE RoundInv'
  BY <1>2, <1>4 DEF RoundInv
<1>5. ASSUME NEW r \in Rounds, Release(r) PROVE RoundInv'
  <2> DEFINE game == [g \in Games |->
               IF g \in GamesOf(r) /\ doc.game[g] = "scheduled"
               THEN "released" ELSE doc.game[g]]
             next == RoundWritten(doc, r, "released", game)
  <2>1. doc' = next /\ moving' = moving
    BY <1>5 DEF Release, Commit, RoundWritten
  <2>2. SetsRound(doc, r, "released", game)
    BY <1>1 DEF SetsRound, GameStatus
  <2> HIDE DEF game
  <2>3. RoundIsSet(doc, next, r, "released")
    BY <2>2, RoundSet
  <2> HIDE DEF next
  <2>4. \A q \in Rounds \ {r} : doc.round[q] = "released"
          => \A g \in GamesOf(q) : Resolved(doc, g)
    BY <1>5 DEF Release, ReleaseBlocked
  <2>5. /\ \A q \in Rounds : next.round[q] = IF q = r THEN "released" ELSE doc.round[q]
        /\ \A g \in Games : Resolved(next, g) <=> Resolved(doc, g)
    BY <1>1, <2>3 DEF RoundIsSet
  <2>6. RoundsApart(next)
    BY <1>2, <2>4, <2>5 DEF RoundsApart, GamesOf
  <2> QED
    BY <1>4, <2>1, <2>6
<1>6. ASSUME NEW r \in Rounds, Close(r) PROVE RoundInv'
  <2> DEFINE next == RoundWritten(doc, r, "closed", doc.game)
  <2>1. doc' = next /\ moving' = moving
    BY <1>1, <1>6 DEF Close, Commit, RoundWritten, DocumentType
  <2>2. SetsRound(doc, r, "closed", doc.game)
    BY <1>1 DEF SetsRound
  <2>3. RoundIsSet(doc, next, r, "closed")
    BY <2>2, RoundSet
  <2> HIDE DEF next
  <2>4. /\ \A q \in Rounds : next.round[q] = IF q = r THEN "closed" ELSE doc.round[q]
        /\ \A g \in Games : Resolved(next, g) <=> Resolved(doc, g)
    BY <1>1, <2>3 DEF RoundIsSet
  <2>5. RoundsApart(next)
    BY <1>2, <2>4 DEF RoundsApart, GamesOf
  <2> QED
    BY <1>4, <2>1, <2>5
<1>7. ASSUME NEW g \in Games, NEW status \in {"accepted", "forfeit"}, Replace(g, status)
      PROVE  RoundInv'
  <2>1. /\ Canonical(doc, g) # None /\ doc' = Decided(Withdrawn(doc, g), g, status)
        /\ moving' = moving
    BY <1>7 DEF Replace, CanonicalForfeit, Commit
  <2>2. Advances(doc, doc')
    BY <1>1, <2>1, ReplaceKeeps DEF Advances
  <2> QED
    BY <1>2, <1>4, <2>1, <2>2, AdvancesApart
<1>8. CASE Move
  BY <1>2, <1>8 DEF Move, RoundInv
<1>9. CASE \/ \E g \in Games : Edit(g)
           \/ \E g \in Games, kind \in Settlements : Start(kind, g)
           \/ \E f \in flights : Settle(f)
           \/ \E e \in Waiting : Accept(e) \/ Reject(e)
           \/ \E e \in Waiting, g \in Games : Associate(e, g)
           \/ \E g \in Games, print \in Scores : Drive(g, print)
  <2>1. moving' = moving
    BY <1>9 DEF Edit, Start, Settle, Accept, Reject, Associate, Drive, Commit
  <2> QED
    BY <1>3, <1>4, <1>9, <2>1, DirectorFollows
<1>10. CASE PollApply \/ \E g \in Games, to \in Rooms : PlanMove(g, to)
  <2>1. Follows(doc, doc')
    BY <1>10, PollFollows
  <2>2. moving' # None => \/ moving' = moving
                          \/ Advances(doc, moving'.doc)
    BY <1>10, PollFollows DEF Advances
  <2>3. moving' # None => RoundsApart(moving'.doc)
    BY <1>2, <2>2, AdvancesApart
  <2> QED
    BY <1>3, <2>1, <2>3 DEF RoundInv
<1>11. CASE \/ \E f \in flights : Retire(f) \/ RetireFails(f)
            \/ PollRead \/ PollFails
            \/ \E s \in Sessions, rm \in Rooms, g \in Games : Open(s, rm, g)
            \/ \E s \in Sessions, print \in Scores : Post(s, print)
            \/ \E s \in Sessions : Expire(s)
            \/ Refresh
            \/ UNCHANGED vars
  <2>1. doc' = doc /\ moving' = moving
    BY <1>11, HostSteps
  <2> QED
    BY <1>2, <2>1 DEF RoundInv
<1>12. ~\E g \in Games : Reopen(g)
  BY DEF Reopen
<1> QED
  BY <1>5, <1>6, <1>7, <1>8, <1>9, <1>10, <1>11, <1>12 DEF Next

\* Unless forfeits are reopened, one released round has unresolved play at a time
\* (roundReleaseBlocker, tournamentSafety.ts:28).
THEOREM OneRound ==
  ASSUME "reopen" \notin Commands
  PROVE  Spec => []OneRoundAtATime
<1>1. Init => RoundInv
  BY DEF Init, NoRound, RoundInv, RoundsApart
<1>2. Inv /\ RoundInv /\ [Next]_vars => RoundInv'
  BY RoundStep
<1>3. RoundInv => OneRoundAtATime
  BY DEF RoundInv, RoundsApart, OneRoundAtATime
<1> QED
  BY <1>1, <1>2, <1>3, Types, PTL DEF Spec

-----------------------------------------------------------------------------
(* One game in a room.                                                     *)

Begun(d, g) == d.round[RoundOf[g]] # "planned"
Occupies(d, g) == d.game[g] \in {"released", "live", "submitted"}

\* A game of a planned round is not played and has no results and no sessions, a
\* game of a closed round is resolved, one of a released round not left scheduled;
\* and two games that occupy a room have a room each.
Sits(d) ==
  /\ \A g \in Games : \/ Begun(d, g)
                      \/ d.game[g] \in {"scheduled", "cancelled"}
  /\ \A g \in Games : /\ d.round[RoundOf[g]] = "closed" => Resolved(d, g)
                      /\ d.round[RoundOf[g]] = "released" => d.game[g] # "scheduled"
  /\ \A r \in DOMAIN d.records : Begun(d, d.records[r].game)
  /\ \A s \in Sessions : d.session[s].match # None => Begun(d, d.session[s].match)
  /\ \A g, h \in Games : Occupies(d, g) /\ Occupies(d, h) /\ d.room[g] = d.room[h] => g = h

\* What a snapshot of the host tells is about games that were begun.
Tells(d, snapshot) ==
  /\ \A s \in Sessions : snapshot.sessions[s].match # None
                           => Begun(d, snapshot.sessions[s].match)
  /\ \A i \in DOMAIN snapshot.results : Begun(d, snapshot.results[i].game)

\* The host offers, tracks and retains only games that were begun, and so is what a
\* settlement that gives a result found.
Told ==
  /\ \A f \in flights : f.kind # "cancel" => Begun(doc, f.game)
  /\ poll # None => Tells(doc, poll)
  /\ Tells(doc, HostSnapshot)
  /\ \A rm \in Rooms : \A g \in offered[rm].play : Begun(doc, g)
  /\ \A s \in Sessions : runtime[s].game # None => Begun(doc, runtime[s].game)

SeatInv == Sits(doc) /\ Told

\* A change of a document that keeps it so: games are resolved, or submitted, live
\* and released in turn, and what is new is about games that were begun.
Seats(d, next) ==
  /\ Sound(d) /\ Sits(d) /\ Sound(next)
  /\ next.round = d.round /\ next.room = d.room
  /\ \A g \in Games : \/ next.game[g] = d.game[g]
                      \/ next.game[g] = "cancelled"
                      \/ Begun(d, g) /\ next.game[g] = "accepted"
                      \/ Begun(d, g) /\ ~Resolved(d, g) /\ Occupies(next, g)
  /\ \A r \in DOMAIN next.records : Begun(d, next.records[r].game)
  /\ \A s \in Sessions : next.session[s].match # None => Begun(d, next.session[s].match)

\* Such a change leaves every game its room and every round its games.
LEMMA SitsOn ==
  ASSUME NEW d, NEW next, Seats(d, next)
  PROVE  Sits(next)
<1>1. /\ d.round \in [Rounds -> {"planned", "released", "closed"}]
      /\ d.game \in [Games -> GameStatus] /\ RoundOf \in [Games -> Rounds]
  BY SettlementAssumption DEF Seats, Sound, Entered, Filed, DocumentType
<1>2. \A g : Begun(next, g) <=> Begun(d, g)
  BY DEF Seats, Begun
<1>3. ASSUME NEW g \in Games, Occupies(next, g) PROVE Occupies(d, g)
  <2>1. CASE next.game[g] = d.game[g]
    BY <1>3, <2>1 DEF Occupies
  <2>2. CASE Begun(d, g) /\ ~Resolved(d, g)
    <3>1. d.round[RoundOf[g]] = "released"
      BY <1>1, <2>2 DEF Begun, Seats, Sits
    <3>2. d.game[g] # "scheduled"
      BY <3>1 DEF Seats, Sits
    <3> QED
      BY <1>1, <2>2, <3>2 DEF Occupies, Resolved, GameStatus
  <2> QED
    BY <1>3, <2>1, <2>2 DEF Seats, Occupies
<1>4. ASSUME NEW g \in Games
      PROVE  /\ Begun(d, g) \/ next.game[g] \in {"scheduled", "cancelled"}
             /\ d.round[RoundOf[g]] = "closed" => Resolved(next, g)
             /\ d.round[RoundOf[g]] = "released" => next.game[g] # "scheduled"
  <2>1. /\ Begun(d, g) \/ d.game[g] \in {"scheduled", "cancelled"}
        /\ d.round[RoundOf[g]] = "closed" => Resolved(d, g)
        /\ d.round[RoundOf[g]] = "released" => d.game[g] # "scheduled"
    BY DEF Seats, Sits
  <2>2. \/ next.game[g] = d.game[g]
        \/ next.game[g] = "cancelled"
        \/ Begun(d, g) /\ next.game[g] = "accepted"
        \/ Begun(d, g) /\ ~Resolved(d, g) /\ Occupies(next, g)
    BY DEF Seats
  <2> QED
    BY <2>1, <2>2 DEF Resolved, Occupies
<1>5. \A g, h \in Games : Occupies(next, g) /\ Occupies(next, h) /\ next.room[g] = next.room[h]
                          => g = h
  BY <1>3 DEF Seats, Sits
<1> QED
  BY <1>2, <1>4, <1>5 DEF Seats, Sits

\* What the operators on documents do to who sits where.
LEMMA ReconciledSits ==
  ASSUME NEW d, Sound(d), Sits(d), NEW g \in Games, Begun(d, g)
  PROVE  Sits(Reconciled(d, g))
<1>1. CASE d.game[g] = "cancelled"
  BY <1>1 DEF Reconciled
<1>2. CASE d.game[g] # "cancelled"
  <2> DEFINE status ==
          IF Canonical(d, g) # None THEN "accepted"
          ELSE IF \E s \in SessionsOf(d, g) : Writing(d, s) THEN "live"
          ELSE IF Pending(d, g) # {} \/ Active(d, g) THEN "submitted"
          ELSE IF d.round[RoundOf[g]] = "released" THEN "released" ELSE "scheduled"
             next == [d EXCEPT !.game[g] = status]
  <2>1. Reconciled(d, g) = next
    BY <1>2 DEF Reconciled
  <2>2. d \in DocumentType /\ d.round[RoundOf[g]] \in {"planned", "released", "closed"}
    BY SettlementAssumption DEF Sound, Entered, Filed, DocumentType
  <2>3. status = "accepted" <=> d.game[g] = "accepted"
    BY CanonicalIs DEF Sound, Ruled
  <2>4. status = "accepted" \/ (status \in {"live", "submitted", "released"} /\ ~Resolved(d, g))
    <3>1. Resolved(d, g) => status = "accepted"
      BY <1>2, <2>3 DEF Resolved
    <3>2. status = "scheduled" => d.round[RoundOf[g]] = "closed"
      BY <2>2 DEF Begun
    <3>3. d.round[RoundOf[g]] = "closed" => Resolved(d, g)
      BY DEF Sits
    <3>4. status \in {"accepted", "live", "submitted", "released", "scheduled"}
      OBVIOUS
    <3> QED
      BY <3>1, <3>2, <3>3, <3>4
  <2> HIDE DEF status
  <2>5. /\ next.round = d.round /\ next.room = d.room /\ next.records = d.records
        /\ next.session = d.session
        /\ \A h \in Games : next.game[h] = IF h = g THEN status ELSE d.game[h]
    BY <2>2 DEF DocumentType
  <2>6. Sound(next)
    BY <2>1, ReconciledFollows DEF Follows
  <2> HIDE DEF next
  <2>7. Seats(d, next)
    BY <2>4, <2>5, <2>6 DEF Seats, Sits, Occupies
  <2> QED
    BY <2>1, <2>7, SitsOn
<1> QED
  BY <1>1, <1>2

\* A document with other sessions, of games that were begun.
LEMMA SessionsSit ==
  ASSUME NEW d, Sound(d), Sits(d), NEW sessions \in [Sessions -> SessionType],
         \A s \in Sessions : sessions[s].match # None => Begun(d, sessions[s].match)
  PROVE  Sits([d EXCEPT !.session = sessions])
<1> DEFINE next == [d EXCEPT !.session = sessions]
<1>1. d \in DocumentType
  BY DEF Sound, Entered, Filed
<1>2. /\ next.round = d.round /\ next.room = d.room /\ next.records = d.records
      /\ next.session = sessions /\ next.game = d.game
  BY <1>1 DEF DocumentType
<1> HIDE DEF next
<1> QED
  BY <1>2 DEF Sits, Begun, Resolved, Occupies, next

\* Sessions that a settlement closes belong to the games they belonged to
\* (cancelScheduledGame, recordForfeit, addManualResult).
LEMMA AbandonedSits ==
  ASSUME NEW d, Sound(d), Sits(d), NEW g \in Games
  PROVE  Sits(SessionsAbandoned(d, g))
<1>1. d.session \in [Sessions -> SessionType]
  BY DEF Sound, Entered, Filed, DocumentType
<1> DEFINE sessions == [s \in Sessions |->
              IF s \in SessionsOf(d, g)
              THEN [d.session[s] EXCEPT !.state = "abandoned", !.resumable = FALSE]
              ELSE d.session[s]]
<1>2. /\ sessions \in [Sessions -> SessionType]
      /\ \A s \in Sessions : sessions[s].match = d.session[s].match
  BY <1>1 DEF SessionType
<1>3. SessionsAbandoned(d, g) = [d EXCEPT !.session = sessions]
  BY DEF SessionsAbandoned
<1> HIDE DEF sessions
<1>4. \A s \in Sessions : sessions[s].match # None => Begun(d, sessions[s].match)
  BY <1>2 DEF Sits
<1> QED
  BY <1>2, <1>3, <1>4, SessionsSit

\* A session given up for its silence keeps its game (expireQbtcpSessions).
LEMMA SilentSits ==
  ASSUME NEW d, Sound(d), Sits(d), NEW quiet \in SUBSET Sessions
  PROVE  Sits(Silent(d, quiet))
<1>1. d.session \in [Sessions -> SessionType]
  BY DEF Sound, Entered, Filed, DocumentType
<1> DEFINE sessions == [s \in Sessions |->
     IF s \in quiet THEN [d.session[s] EXCEPT !.state = "abandoned", !.resumable = TRUE]
     ELSE d.session[s]]
<1>2. /\ sessions \in [Sessions -> SessionType]
      /\ \A s \in Sessions : sessions[s].match = d.session[s].match
  BY <1>1 DEF SessionType
<1>3. Silent(d, quiet) = [d EXCEPT !.session = sessions]
  BY DEF Silent
<1> HIDE DEF sessions
<1>4. \A s \in Sessions : sessions[s].match # None => Begun(d, sessions[s].match)
  BY <1>2 DEF Sits
<1> QED
  BY <1>2, <1>3, <1>4, SessionsSit

\* A poll shows sessions of games that were begun (applyNativeSessions).
LEMMA SessionsAppliedSit ==
  ASSUME NEW d, Sound(d), Sits(d), NEW snapshot \in Snapshots, Tells(d, snapshot)
  PROVE  Sits(SessionsApplied(d, snapshot.sessions))
<1>1. d.session \in [Sessions -> SessionType]
  BY DEF Sound, Entered, Filed, DocumentType
<1> DEFINE Next1(s) == NextState(snapshot.sessions[s].status, d.session[s].state)
           sessions == [s \in Sessions |->
             IF snapshot.sessions[s].status = "none" THEN d.session[s]
             ELSE [state |-> Next1(s), resumable |-> Next1(s) # "received",
                   match |-> IF snapshot.sessions[s].match # None THEN snapshot.sessions[s].match
                             ELSE d.session[s].match,
                   room |-> IF snapshot.sessions[s].room # None THEN snapshot.sessions[s].room
                            ELSE d.session[s].room]]
<1>2. \A s \in Sessions : Next1(s) \in {"absent", "open", "received", "abandoned"}
  BY <1>1 DEF NextState, SessionType
<1>3. sessions \in [Sessions -> SessionType]
  <2> HIDE DEF Next1
  <2> QED
    BY <1>1, <1>2 DEF SessionType, Snapshots
<1>4. SessionsApplied(d, snapshot.sessions) = [d EXCEPT !.session = sessions]
  BY DEF SessionsApplied
<1>5. \A s \in Sessions : \/ sessions[s].match = d.session[s].match
                          \/ sessions[s].match = snapshot.sessions[s].match
  <2> HIDE DEF Next1
  <2> QED
    OBVIOUS
<1> HIDE DEF sessions
<1>6. \A s \in Sessions : sessions[s].match # None => Begun(d, sessions[s].match)
  BY <1>5 DEF Sits, Tells
<1> QED
  BY <1>3, <1>4, <1>6, SessionsSit

\* A document that arrives leaves its game submitted in the room it had
\* (stageIncomingDocument).
LEMMA IngestedSits ==
  ASSUME NEW d, Sound(d), Sits(d), NEW g \in Games, NEW print \in Scores,
         NEW result \in 0..MaxResults, result # 0 => ~Holds(d, result), Begun(d, g)
  PROVE  Sits(Ingested(d, g, print, result))
<1> DEFINE same == {e \in Entries(d, g) :
                     d.entries[e].status # "rejected" /\ d.entries[e].print = print}
           entry == [record |-> IF same # {} THEN d.entries[Min(same)].record
                                ELSE Len(d.records) + 1,
                     status |-> IF same # {} THEN "duplicate" ELSE "pending",
                     print |-> print, result |-> result]
           next == Ingested(d, g, print, result)
<1>1. d \in DocumentType /\ d.records \in Seq(RecordType)
  BY DEF Sound, Entered, Filed, DocumentType
<1>2. next = IF same # {} THEN [d EXCEPT !.entries = Append(@, entry)]
             ELSE [d EXCEPT !.entries = Append(@, entry),
                            !.records = Append(@, [game |-> g, status |-> "submitted"]),
                            !.game[g] = IF Resolved(d, g) THEN @ ELSE "submitted"]
  BY DEF Ingested
<1> HIDE DEF entry
<1>3. /\ next.round = d.round /\ next.room = d.room /\ next.session = d.session
      /\ \/ next.records = d.records
         \/ next.records = Append(d.records, [game |-> g, status |-> "submitted"])
      /\ \A h \in Games : \/ next.game[h] = d.game[h]
                          \/ h = g /\ ~Resolved(d, g) /\ next.game[h] = "submitted"
  <2>1. CASE same # {}
    BY <1>1, <1>2, <2>1 DEF DocumentType
  <2>2. CASE same = {}
    <3> HIDE DEF next, same
    <3> QED
      BY <1>1, <1>2, <2>2 DEF DocumentType
  <2> QED
    BY <2>1, <2>2
<1>4. \A r \in DOMAIN next.records : Begun(d, next.records[r].game)
  <2>1. \A r \in DOMAIN d.records : Begun(d, d.records[r].game)
    BY DEF Sits
  <2>2. \A r \in DOMAIN next.records :
          \/ r \in DOMAIN d.records /\ next.records[r] = d.records[r]
          \/ next.records[r].game = g
    BY <1>1, <1>3
  <2> QED
    BY <2>1, <2>2
<1>5. Sound(next)
  BY IngestedFollows DEF Follows
<1> HIDE DEF next
<1>6. Seats(d, next)
  BY <1>3, <1>4, <1>5 DEF Seats, Sits, Occupies
<1>7. Sits(next)
  BY <1>6, SitsOn
<1> QED
  BY <1>7 DEF next

\* A retained result, and the session it came from, belong to a game that was
\* begun (applyNativeResults).
LEMMA ResultAppliedSits ==
  ASSUME NEW d, Sound(d), Sits(d), NEW result \in ResultType, NEW i \in 1..MaxResults,
         Begun(d, result.game), NEW refused
  PROVE  Sits(ResultApplied(d, result, i, refused))
<1>1. CASE Holds(d, i)
  BY <1>1 DEF ResultApplied
<1>2. CASE ~Holds(d, i)
  <2> DEFINE staged == IF i \in refused THEN d ELSE Ingested(d, result.game, result.print, i)
  <2>1. /\ result.game \in Games /\ result.print \in Scores /\ result.session \in Sessions
        /\ i \in 0..MaxResults /\ i # 0
    BY SettlementAssumption DEF ResultType
  <2>2. Sound(staged) /\ Sits(staged)
    BY <1>2, <2>1, IngestedFollows, IngestedSits DEF Follows
  <2>3. ResultApplied(d, result, i, refused) =
          [staged EXCEPT !.session[result.session] =
             [@ EXCEPT !.state = "received", !.resumable = FALSE]]
    BY <1>2 DEF ResultApplied
  <2> HIDE DEF staged
  <2> DEFINE sessions == [staged.session EXCEPT ![result.session] =
               [staged.session[result.session] EXCEPT !.state = "received", !.resumable = FALSE]]
  <2>4. staged \in DocumentType /\ staged.session \in [Sessions -> SessionType]
    BY <2>2 DEF Sound, Entered, Filed, DocumentType
  <2>5. /\ sessions \in [Sessions -> SessionType]
        /\ \A s \in Sessions : sessions[s].match = staged.session[s].match
    BY <2>1, <2>4 DEF SessionType
  <2>6. ResultApplied(d, result, i, refused) = [staged EXCEPT !.session = sessions]
    BY <2>3, <2>4 DEF DocumentType
  <2> HIDE DEF sessions
  <2>7. \A s \in Sessions : sessions[s].match # None => Begun(staged, sessions[s].match)
    BY <2>2, <2>5 DEF Sits
  <2> QED
    BY <2>2, <2>5, <2>6, <2>7, SessionsSit
<1> QED
  BY <1>1, <1>2

\* So do all retained results that a poll shows, staged in turn.
LEMMA ResultsAppliedSit ==
  ASSUME NEW d, Sound(d), Sits(d), NEW results \in Seq(ResultType),
         Len(results) <= MaxResults, \A i \in DOMAIN results : Begun(d, results[i].game),
         NEW refused
  PROVE  Sits(ResultsApplied(d, results, refused))
<1>1. PICK after : /\ after[0] = d /\ ResultsApplied(d, results, refused) = after[Len(results)]
                   /\ \A n \in 1..Len(results) :
                         after[n] = ResultApplied(after[n - 1], results[n], n, refused)
  BY ONLY AppliedInTurn, results \in Seq(ResultType)
<1> DEFINE Reached == {n \in 0..Len(results) : Follows(d, after[n]) /\ Sits(after[n])}
<1>2. Len(results) \in Nat /\ MaxResults \in Nat
  BY SettlementAssumption
<1>3. 0..Len(results) \subseteq Reached
  <2>1. 0 \in Reached
    BY <1>1, <1>2, FollowsItself
  <2>2. ASSUME NEW n \in 1..Len(results), n - 1 \in Reached PROVE n \in Reached
    <3>1. n \in 1..MaxResults /\ results[n] \in ResultType /\ Begun(d, results[n].game)
      BY <1>2
    <3>2. Follows(d, after[n - 1]) /\ Sits(after[n - 1])
      BY <2>2
    <3>3. Sound(after[n - 1]) /\ Begun(after[n - 1], results[n].game)
      BY <3>1, <3>2 DEF Follows, Begun
    <3>4. Follows(after[n - 1], after[n])
      BY <1>1, <3>1, <3>3, ResultAppliedFollows
    <3>5. Sits(after[n])
      BY <1>1, <3>1, <3>2, <3>3, ResultAppliedSits
    <3> QED
      BY <3>2, <3>4, <3>5, FollowsOn
  <2> HIDE DEF Reached
  <2> QED
    BY <1>2, <2>1, <2>2, UpTo
<1> QED
  BY <1>1, <1>2, <1>3

\* A poll brings nobody into a room that is taken.
LEMMA PollSits ==
  ASSUME NEW d, Sound(d), Sits(d), NEW snapshot \in Snapshots,
         Len(snapshot.results) <= MaxResults, Tells(d, snapshot), NEW refused
  PROVE  Sits(PollApplied(d, snapshot, refused))
<1> DEFINE seen == SessionsApplied(d, snapshot.sessions)
<1>1. Follows(d, seen) /\ Sits(seen)
  BY SessionsAppliedFollows, SessionsAppliedSit
<1>2. PollApplied(d, snapshot, refused) = ResultsApplied(seen, snapshot.results, refused)
  BY DEF PollApplied
<1> HIDE DEF seen
<1>3. Sound(seen) /\ \A g : Begun(seen, g) <=> Begun(d, g)
  BY <1>1 DEF Follows, Begun
<1>4. snapshot.results \in Seq(ResultType)
  BY DEF Snapshots
<1>5. \A i \in DOMAIN snapshot.results : Begun(seen, snapshot.results[i].game)
  BY <1>3 DEF Tells
<1> QED
  BY <1>1, <1>2, <1>3, <1>4, <1>5, ResultsAppliedSit

\* Records and games as they were, but for some that are resolved.
LEMMA ResolvingSits ==
  ASSUME NEW d, Sound(d), Sits(d), NEW next, Sound(next), NEW g \in Games,
         next.round = d.round, next.room = d.room, next.session = d.session,
         DOMAIN next.records = DOMAIN d.records,
         \A r \in DOMAIN d.records : next.records[r].game \in {d.records[r].game, g},
         Begun(d, g) \/ \A r \in DOMAIN d.records : next.records[r].game = d.records[r].game,
         \A h \in Games : \/ next.game[h] = d.game[h]
                          \/ next.game[h] = "cancelled"
                          \/ Begun(d, h) /\ next.game[h] = "accepted"
  PROVE  Sits(next)
<1>1. Seats(d, next)
  BY DEF Seats, Sits
<1> QED
  BY <1>1, SitsOn

\* Results that are given up still belong to games that were begun
\* (cancelScheduledGame, recordForfeit).
LEMMA DiscardedSits ==
  ASSUME NEW d, Sound(d), Sits(d), NEW g \in Games, NEW status \in {"cancelled", "rejected"}
  PROVE  Sits(Discarded(d, g, status))
<1> DEFINE next == Discarded(d, g, status)
<1>1. d \in DocumentType /\ d.records \in Seq(RecordType)
  BY DEF Sound, Entered, Filed, DocumentType
<1>2. \A r \in DOMAIN d.records : d.records[r] \in RecordType
  BY <1>1
<1>3. /\ next.round = d.round /\ next.room = d.room /\ next.session = d.session
      /\ next.game = d.game
      /\ next.records = [r \in DOMAIN d.records |->
            IF r \in Records(d, g) /\ d.records[r].status \notin {"accepted", "forfeit"}
            THEN [d.records[r] EXCEPT !.status = status] ELSE d.records[r]]
  BY <1>1 DEF Discarded, DocumentType
<1>4. DOMAIN next.records = DOMAIN d.records
      /\ \A r \in DOMAIN d.records : next.records[r].game = d.records[r].game
  BY <1>2, <1>3 DEF RecordType
<1>5. Sound(next)
  BY DiscardedFollows DEF Follows
<1> HIDE DEF next
<1>6. Sits(next)
  BY <1>3, <1>4, <1>5, ResolvingSits
<1> QED
  BY <1>6 DEF next

\* A result of the Director's goes to a game that was begun (recordForfeit,
\* addManualResult).
LEMMA DecidedSits ==
  ASSUME NEW d, Sound(d), Sits(d), NEW g \in Games, NEW status, Begun(d, g),
         Sound(Decided(d, g, status))
  PROVE  Sits(Decided(d, g, status))
<1> DEFINE next == Decided(d, g, status)
           y == [game |-> g, status |-> status]
<1>1. d \in DocumentType /\ d.records \in Seq(RecordType)
  BY DEF Sound, Entered, Filed, DocumentType
<1>2. /\ next.round = d.round /\ next.room = d.room /\ next.session = d.session
      /\ next.records = Append(d.records, y)
      /\ \A h \in Games : next.game[h] = IF h = g THEN "accepted" ELSE d.game[h]
  BY <1>1 DEF Decided, DocumentType
<1>3. \A r \in DOMAIN next.records :
        \/ r \in DOMAIN d.records /\ next.records[r] = d.records[r]
        \/ next.records[r].game = g
  <2> HIDE DEF next
  <2> QED
    BY <1>1, <1>2
<1> HIDE DEF next
<1>4. Sound(next)
  BY DEF next
<1>5. Seats(d, next)
  BY <1>2, <1>3, <1>4 DEF Seats, Sits
<1>6. Sits(next)
  BY <1>5, SitsOn
<1> QED
  BY <1>6 DEF next

\* A settlement that gives a result is of a game that was begun, a cancellation of any
\* (cancelScheduledGame, recordForfeit, addManualResult).
LEMMA SettledSits ==
  ASSUME NEW d, Sound(d), Sits(d), NEW f, f.kind \in Settlements, f.game \in Games,
         f.kind # "cancel" => Begun(d, f.game)
  PROVE  Sits(Settled(d, f))
<1> DEFINE g == f.game
           abandoned == SessionsAbandoned(d, g)
           untouched == ~Resolved(d, g)
<1>1. Sound(Settled(d, f))
  BY SettledFollows DEF Follows
<1>2. Follows(d, abandoned) /\ Sits(abandoned) /\ abandoned.game = d.game
  <2>1. d \in DocumentType
    BY DEF Sound, Entered, Filed
  <2>2. abandoned.game = d.game
    BY <2>1 DEF SessionsAbandoned, DocumentType
  <2> HIDE DEF abandoned
  <2>3. Follows(d, abandoned) /\ Sits(abandoned)
    BY SessionsAbandonedFollows, AbandonedSits DEF abandoned
  <2> QED
    BY <2>2, <2>3
<1> HIDE DEF abandoned
<1>3. Sound(abandoned) /\ \A h : Begun(abandoned, h) <=> Begun(d, h)
  BY <1>2 DEF Follows, Begun
<1>4. CASE f.kind = "cancel" /\ untouched
  <2> DEFINE mid == Discarded(abandoned, g, "cancelled")
             next == [mid EXCEPT !.game[g] = "cancelled"]
  <2>1. Settled(d, f) = next
    BY <1>4 DEF Settled, abandoned
  <2>2. Sound(mid) /\ Sits(mid)
    BY <1>2, <1>3, DiscardedFollows, DiscardedSits DEF Follows
  <2> HIDE DEF mid
  <2>3. /\ next.round = mid.round /\ next.room = mid.room /\ next.session = mid.session
        /\ next.records = mid.records
        /\ \A h \in Games : next.game[h] = IF h = g THEN "cancelled" ELSE mid.game[h]
    BY <2>2 DEF Sound, Entered, Filed, DocumentType
  <2>4. Sound(next)
    BY <1>1, <2>1
  <2> HIDE DEF next
  <2>5. Sits(next)
    BY <2>2, <2>3, <2>4, ResolvingSits
  <2> QED
    BY <2>1, <2>5
<1>5. CASE f.kind = "forfeit" /\ untouched /\ Canonical(d, g) = None
  <2> DEFINE mid == Discarded(abandoned, g, "rejected")
  <2>1. Settled(d, f) = Decided(mid, g, "forfeit")
    BY <1>5 DEF Settled, abandoned
  <2>2. Sound(mid) /\ Sits(mid) /\ Begun(mid, g)
    BY <1>2, <1>3, <1>5, DiscardedFollows, DiscardedSits DEF Follows, Begun
  <2> HIDE DEF mid
  <2> QED
    BY <1>1, <2>1, <2>2, DecidedSits
<1>6. CASE /\ f.kind = "manual" /\ untouched /\ Canonical(d, g) = None
           /\ Released(d, g) /\ d.room[g] = f.room
  <2> DEFINE next == Decided(abandoned, g, "accepted")
  <2>1. Settled(d, f) = Reconciled(next, g)
    BY <1>6 DEF Settled, abandoned
  <2>2. abandoned.game[g] \notin {"accepted", "cancelled"}
    BY <1>2, <1>6 DEF Resolved
  <2>3. /\ DecidedOf(abandoned, g) = {} /\ Entered(abandoned) /\ Once(abandoned)
        /\ \A h \in Games \ {g} : abandoned.game[h] = "accepted"
                                    <=> DecidedOf(abandoned, h) # {}
    BY <1>3, <2>2 DEF Sound, Ruled
  <2>4. Sound(next) /\ next.round = abandoned.round
    BY <2>2, <2>3, DecidedFollows DEF Follows
  <2>5. Begun(next, g)
    BY <1>3, <1>6, <2>4 DEF Begun
  <2>6. Sits(next)
    BY <1>2, <1>3, <1>6, <2>4, DecidedSits
  <2> HIDE DEF next
  <2> QED
    BY <2>1, <2>4, <2>5, <2>6, ReconciledSits
<1>7. CASE /\ ~(f.kind = "cancel" /\ untouched)
           /\ ~(f.kind = "forfeit" /\ untouched /\ Canonical(d, g) = None)
           /\ ~(/\ f.kind = "manual" /\ untouched /\ Canonical(d, g) = None
                /\ Released(d, g) /\ d.room[g] = f.room)
  <2>1. Settled(d, f) = d
    BY <1>7 DEF Settled
  <2> QED
    BY <2>1
<1> QED
  BY <1>4, <1>5, <1>6, <1>7

\* A review is of a game that was begun, or gives a submission to one
\* (acceptIncomingResult, rejectIncomingResult, associateIncomingResult).
LEMMA ReviewSits ==
  ASSUME NEW d, Sound(d), Sits(d), NEW next, NEW e, NEW g \in Games, Begun(d, g),
         ReviewedFor(d, next, e, g), NEW h \in Games, Begun(d, h)
  PROVE  Sits(Reconciled(next, h)) /\ Sits(Reconciled(Reconciled(next, h), g))
<1>1. /\ Follows(d, next) /\ Follows(d, Reconciled(next, h))
  BY ReviewFollows
<1>2. Sits(next)
  <2>1. PICK x, y : Reviews(d, next, e, x, y) /\ y.game = g
    BY DEF ReviewedFor
  <2>2. d.records \in Seq(RecordType) /\ d.entries[e].record \in DOMAIN d.records
        /\ d.game \in [Games -> GameStatus]
    <3>1. e \in DOMAIN d.entries /\ d \in DocumentType
      BY <2>1 DEF Reviews, Sound, Entered, Filed
    <3> QED
      BY <3>1, WaitingGame DEF DocumentType
  <2>3. /\ next.round = d.round /\ next.room = d.room /\ next.session = d.session
        /\ DOMAIN next.records = DOMAIN d.records
        /\ \A r \in DOMAIN d.records :
             next.records[r] = IF r = d.entries[e].record THEN y ELSE d.records[r]
        /\ \A k \in Games : next.game[k] = d.game[k] \/ (k = g /\ next.game[k] = "accepted")
    <3>1. /\ next.round = d.round /\ next.room = d.room /\ next.session = d.session
          /\ next.records = [d.records EXCEPT ![d.entries[e].record] = y]
          /\ next.game = d.game \/ next.game = [d.game EXCEPT ![g] = "accepted"]
      BY <2>1 DEF Reviews
    <3>2. /\ DOMAIN next.records = DOMAIN d.records
          /\ \A r \in DOMAIN d.records :
               next.records[r] = IF r = d.entries[e].record THEN y ELSE d.records[r]
      BY <2>2, <3>1
    <3>3. \A k \in Games : next.game[k] = d.game[k] \/ (k = g /\ next.game[k] = "accepted")
      <4>1. CASE next.game = d.game
        BY <4>1
      <4>2. CASE next.game = [d.game EXCEPT ![g] = "accepted"]
        BY <2>2, <4>2
      <4> QED
        BY <3>1, <4>1, <4>2
    <3> QED
      BY <3>1, <3>2, <3>3
  <2>4. \A r \in DOMAIN d.records : next.records[r].game \in {d.records[r].game, g}
    BY <2>1, <2>3
  <2> QED
    BY <1>1, <2>3, <2>4, ResolvingSits DEF Follows
<1>3. Sits(Reconciled(next, h))
  <2>1. Sound(next) /\ Begun(next, h)
    BY <1>1 DEF Follows, Begun
  <2> QED
    BY <1>2, <2>1, ReconciledSits
<1>4. Sits(Reconciled(Reconciled(next, h), g))
  <2>1. Sound(Reconciled(next, h)) /\ Begun(Reconciled(next, h), g)
    BY <1>1 DEF Follows, Begun
  <2> QED
    BY <1>3, <2>1, ReconciledSits
<1> QED
  BY <1>3, <1>4

\* A game whose result is corrected stays accepted (editAcceptedResult).
LEMMA EditSits ==
  ASSUME NEW d, Sound(d), Sits(d), NEW g \in Games, NEW r, r = Canonical(d, g), r # None
  PROVE  Sits([Superseded(d, r) EXCEPT
                 !.entries = Append(@, [record |-> r, status |-> "accepted",
                                        print |-> Typed, result |-> 0]),
                 !.game[g] = "accepted"])
<1> DEFINE x == [record |-> r, status |-> "accepted", print |-> Typed, result |-> 0]
           mid == Superseded(d, r)
           next == [mid EXCEPT !.entries = Append(@, x), !.game[g] = "accepted"]
<1>1. Sound(next)
  BY EditFollows DEF Follows
<1>2. r \in DecidedOf(d, g)
  BY CanonicalIs DEF Sound
<1>3. r \in DOMAIN d.records /\ d.game[g] = "accepted"
  BY <1>2 DEF DecidedOf, Records, Sound, Ruled
<1>4. /\ mid \in DocumentType /\ mid.records = d.records /\ mid.game = d.game
      /\ mid.round = d.round /\ mid.room = d.room /\ mid.session = d.session
  BY <1>3, SupersededIs
<1> HIDE DEF mid, x
<1>5. /\ next.records = d.records /\ next.round = d.round /\ next.room = d.room
      /\ next.session = d.session /\ \A h \in Games : next.game[h] = d.game[h]
  BY <1>3, <1>4 DEF DocumentType
<1> HIDE DEF next
<1>6. Sits(next)
  BY <1>1, <1>5, ResolvingSits
<1> QED
  BY <1>6 DEF next, mid, x

\* A forfeit is replaced where it stood (replaceForfeit).
LEMMA ReplaceSits ==
  ASSUME NEW d, Sound(d), Sits(d), NEW g \in Games, Canonical(d, g) # None,
         NEW status \in {"accepted", "forfeit"}
  PROVE  Sits(Decided(Withdrawn(d, g), g, status))
<1> DEFINE mid == Withdrawn(d, g)
           next == Decided(mid, g, status)
           y == [game |-> g, status |-> status]
<1>1. Sound(next)
  BY ReplaceKeeps
<1>2. Withdraws(d, mid, g)
  BY WithdrawnIs
<1>3. Begun(d, g)
  <2>1. PICK r : r \in DecidedOf(d, g)
    BY CanonicalIs DEF Sound
  <2>2. r \in DOMAIN d.records /\ d.records[r].game = g
    BY <2>1 DEF DecidedOf, Records
  <2> QED
    BY <2>2 DEF Sits
<1> HIDE DEF mid
<1>4. mid \in DocumentType /\ mid.records \in Seq(RecordType)
  BY <1>2 DEF Withdraws, DocumentType
<1>5. /\ next.round = d.round /\ next.room = d.room /\ next.session = d.session
      /\ next.records = Append(mid.records, y)
      /\ \A h \in Games : next.game[h] = IF h = g THEN "accepted" ELSE d.game[h]
  BY <1>2, <1>4 DEF Decided, DocumentType, Withdraws
<1> HIDE DEF next
<1>6. \A r \in DOMAIN next.records : Begun(d, next.records[r].game)
  <2>1. \A r \in DOMAIN mid.records : Begun(d, mid.records[r].game)
    BY <1>2 DEF Withdraws, Sits
  <2>2. \A r \in DOMAIN next.records :
          \/ r \in DOMAIN mid.records /\ next.records[r] = mid.records[r]
          \/ next.records[r].game = g
    BY <1>4, <1>5
  <2> QED
    BY <1>3, <2>1, <2>2
<1>7. Seats(d, next)
  BY <1>1, <1>3, <1>5, <1>6 DEF Seats, Sits
<1> QED
  BY <1>7, SitsOn DEF next, mid

\* Records and sessions are about games of the schedule.
LEMMA NamedGames ==
  ASSUME NEW d, Sound(d)
  PROVE  /\ \A k \in DOMAIN d.records : d.records[k].game \in Games
         /\ \A s \in Sessions : d.session[s].match # None => d.session[s].match \in Games
<1>1. /\ d.records \in Seq(RecordType) /\ d.session \in [Sessions -> SessionType]
  BY DEF Sound, Entered, Filed, DocumentType
<1>2. \A k \in DOMAIN d.records : d.records[k] \in RecordType
  BY <1>1
<1> QED
  BY <1>1, <1>2 DEF RecordType, SessionType

\* A round is released into rooms that are free, with a room for every game of its
\* own (releaseRound, roundReleaseBlocker, roundDeliveryBlocker).
LEMMA ReleaseSits ==
  ASSUME NEW d, Sound(d), Sits(d), NEW r \in Rounds, ~ReleaseBlocked(d, r), NEW game,
         game = [g \in Games |-> IF g \in GamesOf(r) /\ d.game[g] = "scheduled"
                                 THEN "released" ELSE d.game[g]],
         NEW next, next = RoundWritten(d, r, "released", game)
  PROVE  Sits(next) /\ \A g \in Games : Begun(d, g) => Begun(next, g)
<1>1. /\ d \in DocumentType /\ d.round \in [Rounds -> {"planned", "released", "closed"}]
      /\ d.game \in [Games -> GameStatus] /\ RoundOf \in [Games -> Rounds]
  BY SettlementAssumption DEF Sound, Entered, Filed, DocumentType
<1>2. /\ next.game = game /\ next.room = d.room /\ next.records = d.records
      /\ next.session = d.session
      /\ \A q \in Rounds : next.round[q] = IF q = r THEN "released" ELSE d.round[q]
  BY <1>1 DEF RoundWritten, DocumentType
<1>3. d.round[r] = "planned"
  BY DEF ReleaseBlocked
<1>4. \A g \in Games : /\ Begun(next, g) <=> (Begun(d, g) \/ g \in GamesOf(r))
                       /\ g \notin GamesOf(r) => next.round[RoundOf[g]] = d.round[RoundOf[g]]
                       /\ g \in GamesOf(r) => next.round[RoundOf[g]] = "released"
  BY <1>1, <1>2, <1>3 DEF Begun, GamesOf
<1>5. \A g \in GamesOf(r) : d.game[g] \in {"scheduled", "cancelled"}
  BY <1>3 DEF Sits, Begun, GamesOf
<1>6. \A g \in Games : IF g \in GamesOf(r)
                       THEN /\ d.game[g] = "scheduled" => next.game[g] = "released"
                            /\ d.game[g] = "cancelled" => next.game[g] = "cancelled"
                       ELSE next.game[g] = d.game[g]
  BY <1>2
<1>7. ASSUME NEW g \in Games
      PROVE  /\ Begun(next, g) \/ next.game[g] \in {"scheduled", "cancelled"}
             /\ next.round[RoundOf[g]] = "closed" => Resolved(next, g)
             /\ next.round[RoundOf[g]] = "released" => next.game[g] # "scheduled"
  <2>1. CASE g \in GamesOf(r)
    BY <1>4, <1>5, <1>6, <2>1
  <2>2. CASE g \notin GamesOf(r)
    BY <1>4, <1>6, <2>2 DEF Sits, Resolved
  <2> QED
    BY <2>1, <2>2
<1>8. /\ \A k \in DOMAIN d.records : Begun(next, d.records[k].game)
      /\ \A s \in Sessions : d.session[s].match # None => Begun(next, d.session[s].match)
  BY <1>4, NamedGames DEF Sits
<1>9. ASSUME NEW g \in GamesOf(r), NEW h \in Games, Occupies(next, g), Occupies(next, h),
             next.room[g] = next.room[h]
      PROVE  g = h
  <2>1. g \in Games /\ d.game[g] = "scheduled" /\ d.room[g] = d.room[h]
    BY <1>2, <1>5, <1>6, <1>9 DEF Occupies, GamesOf
  <2>2. CASE h \in GamesOf(r)
    <3>1. d.game[h] = "scheduled"
      BY <1>5, <1>6, <1>9, <2>2 DEF Occupies
    <3> QED
      BY <2>1, <2>2, <3>1 DEF ReleaseBlocked
  <2>3. CASE h \notin GamesOf(r)
    <3>1. Occupies(d, h) /\ h # g
      BY <1>6, <1>9, <2>3 DEF Occupies
    <3>2. RoomFree(d, g)
      BY <2>1 DEF ReleaseBlocked
    <3>3. ~UnresolvedGame(d, h)
      BY <2>1, <3>1, <3>2 DEF RoomFree
    <3> QED
      BY <3>1, <3>3 DEF UnresolvedGame, Occupies
  <2> QED
    BY <2>2, <2>3
<1>10. \A g, h \in Games : Occupies(next, g) /\ Occupies(next, h) /\ next.room[g] = next.room[h]
                           => g = h
  <2> SUFFICES ASSUME NEW g \in Games, NEW h \in Games, Occupies(next, g), Occupies(next, h),
                      next.room[g] = next.room[h]
               PROVE  g = h
    OBVIOUS
  <2>1. CASE g \in GamesOf(r)
    BY <1>9, <2>1
  <2>2. CASE h \in GamesOf(r)
    BY <1>9, <2>2
  <2>3. CASE g \notin GamesOf(r) /\ h \notin GamesOf(r)
    BY <1>2, <1>6, <2>3 DEF Sits, Occupies
  <2> QED
    BY <2>1, <2>2, <2>3
<1> QED
  BY <1>2, <1>4, <1>7, <1>8, <1>10 DEF Sits

\* A round is closed with its games resolved (closeRound, roundCloseBlockers).
LEMMA CloseSits ==
  ASSUME NEW d, Sound(d), Sits(d), NEW r \in Rounds, ~CloseBlocked(d, r),
         NEW next, next = RoundWritten(d, r, "closed", d.game)
  PROVE  Sits(next) /\ \A g \in Games : Begun(d, g) => Begun(next, g)
<1>1. /\ d \in DocumentType /\ d.round \in [Rounds -> {"planned", "released", "closed"}]
      /\ RoundOf \in [Games -> Rounds]
  BY SettlementAssumption DEF Sound, Entered, Filed, DocumentType
<1>2. /\ next.game = d.game /\ next.room = d.room /\ next.records = d.records
      /\ next.session = d.session
      /\ \A q \in Rounds : next.round[q] = IF q = r THEN "closed" ELSE d.round[q]
  BY <1>1 DEF RoundWritten, DocumentType
<1>3. \A g \in Games : /\ Begun(d, g) => Begun(next, g)
                       /\ RoundOf[g] = r => Resolved(d, g)
  BY <1>1, <1>2 DEF Begun, CloseBlocked, GamesOf
<1>4. /\ \A k \in DOMAIN d.records : Begun(next, d.records[k].game)
      /\ \A s \in Sessions : d.session[s].match # None => Begun(next, d.session[s].match)
  BY <1>3, NamedGames DEF Sits
<1>5. \A g \in Games :
        /\ Begun(next, g) \/ next.game[g] \in {"scheduled", "cancelled"}
        /\ next.round[RoundOf[g]] = "closed" => Resolved(next, g)
        /\ next.round[RoundOf[g]] = "released" => next.game[g] # "scheduled"
  BY <1>1, <1>2, <1>3 DEF Sits, Resolved
<1> QED
  BY <1>2, <1>3, <1>4, <1>5 DEF Sits, Occupies

\* What the host offers to play is of games that were begun (assignments_from_document).
LEMMA OffersBegun ==
  ASSUME NEW d, Sits(d)
  PROVE  \A rm \in Rooms : \A g \in Offers(d)[rm].play : Begun(d, g)
<1> SUFFICES ASSUME NEW rm \in Rooms, NEW g \in Offer(d, rm).play PROVE Begun(d, g)
  BY DEF Offers
<1>1. /\ g \in Operational(d, rm) \cup {h \in InRoom(d, rm) : PendingAtHost(d, h)}
      /\ ~PendingAtHost(d, g)
  BY DEF Offer
<1>2. g \in Operational(d, rm)
  BY <1>1
<1> QED
  BY <1>2 DEF Operational, InRoom, Sits

\* What is on its way is still of games that were begun when the document has changed
\* and nothing else has.
LEMMA ToldOn ==
  ASSUME Inv, Told, UNCHANGED <<poll, offered, runtime, shown, retained>>,
         \A f \in flights' : f \in flights \/ (f.kind # "cancel" => Begun(doc', f.game)),
         \A g \in Games : Begun(doc, g) => Begun(doc', g)
  PROVE  Told'
<1>1. /\ HostTypes
      /\ \A f \in flights : f \in [kind : Settlements, game : Games, room : Rooms,
                                   left : SUBSET Sessions]
      /\ poll # None => poll \in Snapshots
  BY DEF Inv
<1>2. ASSUME NEW snapshot \in Snapshots, Tells(doc, snapshot) PROVE Tells(doc', snapshot)
  <2>1. /\ \A i \in DOMAIN snapshot.results : snapshot.results[i] \in ResultType
        /\ \A s \in Sessions : snapshot.sessions[s].match \in Games \cup {None}
    BY DEF Snapshots
  <2> QED
    BY <1>2, <2>1 DEF Tells, ResultType
<1>3. HostSnapshot \in Snapshots /\ HostSnapshot' = HostSnapshot
  BY <1>1 DEF HostSnapshot, Snapshots, HostTypes
<1>4. Tells(doc', HostSnapshot') /\ (poll' # None => Tells(doc', poll'))
  BY <1>1, <1>2, <1>3 DEF Told
<1>5. \A f \in flights' : f.kind # "cancel" => Begun(doc', f.game)
  BY <1>1 DEF Told
<1>6. \A rm \in Rooms : \A g \in offered'[rm].play : Begun(doc', g)
  <2>1. \A rm \in Rooms : offered[rm].play \subseteq Games
    BY <1>1 DEF HostTypes
  <2> QED
    BY <2>1 DEF Told
<1>7. \A s \in Sessions : runtime'[s].game # None => Begun(doc', runtime'[s].game)
  <2>1. \A s \in Sessions : runtime[s].game \in Games \cup {None}
    BY <1>1 DEF HostTypes
  <2> QED
    BY <2>1 DEF Told
<1> QED
  BY <1>4, <1>5, <1>6, <1>7 DEF Told

\* The Director's commands seat no game where another one is (roundDeliveryBlocker,
\* roundReleaseBlocker).
LEMMA DirectorSits ==
  ASSUME Inv, SeatInv, "reopen" \notin Commands,
         \/ \E r \in Rounds : Release(r) \/ Close(r)
         \/ \E g \in Games : Edit(g)
         \/ \E g \in Games, kind \in Settlements : Start(kind, g)
         \/ \E f \in flights : Settle(f)
         \/ \E e \in Waiting : Accept(e) \/ Reject(e)
         \/ \E e \in Waiting, g \in Games : Associate(e, g)
         \/ \E g \in Games, status \in {"accepted", "forfeit"} : Replace(g, status)
  PROVE  SeatInv'
<1>1. Sound(doc) /\ Sits(doc) /\ Told
  BY DEF Inv, SeatInv
<1>2. ASSUME Follows(doc, doc') PROVE \A g \in Games : Begun(doc, g) => Begun(doc', g)
  BY <1>2 DEF Follows, Begun
<1>3. ASSUME Commit(doc'), Sits(doc'), \A g \in Games : Begun(doc, g) => Begun(doc', g)
      PROVE  SeatInv'
  <2>1. UNCHANGED <<poll, offered, runtime, shown, retained>> /\ flights' = flights
    BY <1>3 DEF Commit, host
  <2>2. Told'
    BY <1>1, <1>3, <2>1, ToldOn
  <2> QED
    BY <1>3, <2>2 DEF SeatInv
<1>4. \A e \in Waiting : /\ e \in DOMAIN doc.entries /\ doc.entries[e].status = "pending"
                         /\ GameOf(doc, e) \in Games /\ Begun(doc, GameOf(doc, e))
  <2> SUFFICES ASSUME NEW e \in Waiting
               PROVE  /\ e \in DOMAIN doc.entries /\ doc.entries[e].status = "pending"
                      /\ GameOf(doc, e) \in Games /\ Begun(doc, GameOf(doc, e))
    OBVIOUS
  <2>1. e \in DOMAIN doc.entries /\ doc.entries[e].status = "pending"
    BY DEF Waiting
  <2>2. /\ doc.entries[e].record \in DOMAIN doc.records /\ GameOf(doc, e) \in Games
        /\ GameOf(doc, e) = doc.records[doc.entries[e].record].game
    BY <1>1, <2>1, WaitingGame
  <2> QED
    BY <1>1, <2>1, <2>2 DEF Sits
<1>5. ASSUME NEW r \in Rounds, Release(r) PROVE SeatInv'
  <2> DEFINE game == [g \in Games |-> IF g \in GamesOf(r) /\ doc.game[g] = "scheduled"
                                      THEN "released" ELSE doc.game[g]]
             next == RoundWritten(doc, r, "released", game)
  <2>1. ~ReleaseBlocked(doc, r) /\ doc' = next /\ Commit(doc')
    BY <1>5 DEF Release, Commit, RoundWritten
  <2> HIDE DEF next
  <2>2. Sits(next) /\ \A g \in Games : Begun(doc, g) => Begun(next, g)
    BY <1>1, <2>1, ReleaseSits DEF next
  <2> QED
    BY <1>3, <2>1, <2>2
<1>6. ASSUME NEW r \in Rounds, Close(r) PROVE SeatInv'
  <2> DEFINE next == RoundWritten(doc, r, "closed", doc.game)
  <2>1. ~CloseBlocked(doc, r) /\ doc' = next /\ Commit(doc')
    <3>1. doc \in DocumentType
      BY <1>1 DEF Sound, Entered, Filed
    <3> QED
      BY <1>6, <3>1 DEF Close, Commit, RoundWritten, DocumentType
  <2> HIDE DEF next
  <2>2. Sits(next) /\ \A g \in Games : Begun(doc, g) => Begun(next, g)
    BY <1>1, <2>1, CloseSits DEF next
  <2> QED
    BY <1>3, <2>1, <2>2
<1>7. ASSUME NEW g \in Games, Edit(g) PROVE SeatInv'
  <2>1. Follows(doc, doc') /\ Sits(doc') /\ Commit(doc')
    BY <1>1, <1>7, EditFollows, EditSits DEF Edit, Commit
  <2> QED
    BY <1>2, <1>3, <2>1
<1>8. ASSUME NEW g \in Games, NEW kind \in Settlements, Start(kind, g) PROVE SeatInv'
  <2> DEFINE found == {s \in SessionsOf(doc, g) :
                        doc.session[s].state # "abandoned" /\ UnresolvedSession(doc, s)}
             flight == [kind |-> kind, game |-> g, room |-> doc.room[g], left |-> found]
  <2>1. kind # "cancel" => Begun(doc, g)
    BY <1>8 DEF Start, MayStart, Released, Begun
  <2>2. IF found = {} THEN Commit(Settled(doc, flight))
        ELSE flights' = flights \cup {flight} /\ UNCHANGED <<doc, poll, moving, host>>
    BY <1>8 DEF Start
  <2>3. flight.kind = kind /\ flight.game = g
    OBVIOUS
  <2> HIDE DEF found, flight
  <2>4. CASE Commit(Settled(doc, flight))
    <3>1. doc' = Settled(doc, flight) /\ Commit(doc')
      BY <2>4 DEF Commit
    <3>2. Follows(doc, doc') /\ Sits(doc')
      BY <1>1, <2>1, <2>3, <3>1, SettledFollows, SettledSits
    <3> QED
      BY <1>2, <1>3, <3>1, <3>2
  <2>5. CASE flights' = flights \cup {flight} /\ UNCHANGED <<doc, poll, moving, host>>
    <3>1. UNCHANGED <<doc, poll, offered, runtime, shown, retained>>
      BY <2>5 DEF host
    <3>2. \A f \in flights' : f \in flights \/ (f.kind # "cancel" => Begun(doc', f.game))
      BY <2>1, <2>3, <2>5, <3>1
    <3>3. Told'
      BY <1>1, <3>1, <3>2, ToldOn
    <3> QED
      BY <1>1, <3>1, <3>3 DEF SeatInv
  <2> QED
    BY <2>2, <2>4, <2>5
<1>9. ASSUME NEW f \in flights, Settle(f) PROVE SeatInv'
  <2>1. /\ f.kind \in Settlements /\ f.game \in Games
        /\ f.kind # "cancel" => Begun(doc, f.game)
    BY <1>1 DEF Inv, Told
  <2>2. Follows(doc, doc') /\ Sits(doc')
    BY <1>1, <1>9, <2>1, SettledFollows, SettledSits DEF Settle
  <2>3. /\ UNCHANGED <<poll, offered, runtime, shown, retained>>
        /\ \A k \in flights' : k \in flights
    BY <1>9 DEF Settle, host
  <2>4. Told'
    BY <1>1, <1>2, <2>2, <2>3, ToldOn
  <2> QED
    BY <2>2, <2>4 DEF SeatInv
<1>10. ASSUME NEW e \in Waiting, Accept(e) PROVE SeatInv'
  <2>1. ReviewedFor(doc, Accepting(doc, e), e, GameOf(doc, e))
    BY <1>1, <1>4, <1>10, AcceptReviews DEF Accept
  <2>2. doc' = Reconciled(Accepting(doc, e), GameOf(doc, e)) /\ Commit(doc')
    BY <1>10 DEF Accept, Accepting, Commit
  <2>3. Follows(doc, doc') /\ Sits(doc')
    BY <1>1, <1>4, <2>1, <2>2, ReviewFollows, ReviewSits
  <2> QED
    BY <1>2, <1>3, <2>2, <2>3
<1>11. ASSUME NEW e \in Waiting, Reject(e) PROVE SeatInv'
  <2>1. ReviewedFor(doc, Rejecting(doc, e), e, GameOf(doc, e))
    BY <1>1, <1>4, RejectReviews
  <2>2. doc' = Reconciled(Rejecting(doc, e), GameOf(doc, e)) /\ Commit(doc')
    BY <1>11 DEF Reject, Rejected, Rejecting, Commit
  <2>3. Follows(doc, doc') /\ Sits(doc')
    BY <1>1, <1>4, <2>1, <2>2, ReviewFollows, ReviewSits
  <2> QED
    BY <1>2, <1>3, <2>2, <2>3
<1>12. ASSUME NEW e \in Waiting, NEW g \in Games, Associate(e, g) PROVE SeatInv'
  <2>1. ReviewedFor(doc, Associating(doc, e, g), e, g) /\ Begun(doc, g)
    BY <1>1, <1>4, <1>12, AssociateReviews DEF Associate, Released, Begun
  <2>2. doc' = Reconciled(Reconciled(Associating(doc, e, g), GameOf(doc, e)), g)
        /\ Commit(doc')
    BY <1>12 DEF Associate, Associating, Commit
  <2>3. Follows(doc, doc') /\ Sits(doc')
    BY <1>1, <1>4, <2>1, <2>2, ReviewFollows, ReviewSits
  <2> QED
    BY <1>2, <1>3, <2>2, <2>3
<1>13. ASSUME NEW g \in Games, NEW status \in {"accepted", "forfeit"}, Replace(g, status)
       PROVE  SeatInv'
  <2>1. /\ Canonical(doc, g) # None /\ doc' = Decided(Withdrawn(doc, g), g, status)
        /\ Commit(doc')
    BY <1>13 DEF Replace, CanonicalForfeit, Commit
  <2>2. Sits(doc') /\ doc'.round = doc.round
    BY <1>1, <2>1, ReplaceKeeps, ReplaceSits
  <2> QED
    BY <1>3, <2>1, <2>2 DEF Begun
<1> QED
  BY <1>5, <1>6, <1>7, <1>8, <1>9, <1>10, <1>11, <1>12, <1>13

\* What the host and the scorers do, and what is awaited of them, is about games that
\* were begun, since only those were offered (open_session, refresh_from_document).
LEMMA HostTold ==
  ASSUME Inv, SeatInv,
         \/ \E f \in flights : Retire(f) \/ RetireFails(f)
         \/ PollRead \/ PollFails
         \/ \E s \in Sessions, rm \in Rooms, g \in Games : Open(s, rm, g)
         \/ \E s \in Sessions, print \in Scores : Post(s, print)
         \/ \E s \in Sessions : Expire(s)
         \/ Refresh
         \/ UNCHANGED vars
  PROVE  SeatInv'
<1>1. doc' = doc /\ HostTypes /\ HostTypes' /\ Sits(doc) /\ Told
  BY HostSteps DEF Inv, Around, SeatInv
<1>2. \A g : Begun(doc', g) <=> Begun(doc, g)
  BY <1>1
<1>3. /\ \A s \in Sessions : runtime[s].game # None => Begun(doc, runtime[s].game)
      /\ \A s \in Sessions : shown[s].match # None => Begun(doc, shown[s].match)
      /\ \A i \in DOMAIN retained : Begun(doc, retained[i].game)
  BY <1>1 DEF Told, Tells, HostSnapshot
<1>4. DOMAIN runtime = Sessions /\ DOMAIN shown = Sessions
  BY <1>1 DEF HostTypes
<1>5. SUFFICES /\ \A f \in flights' : f.kind # "cancel" => Begun(doc, f.game)
               /\ poll' # None => poll' = poll \/ poll' = HostSnapshot
               /\ \A s \in Sessions : runtime'[s].game # None => Begun(doc, runtime'[s].game)
               /\ \A s \in Sessions : shown'[s].match # None => Begun(doc, shown'[s].match)
               /\ \A i \in DOMAIN retained' : Begun(doc, retained'[i].game)
               /\ offered' = offered \/ offered' = Offers(doc)
  <2>1. Tells(doc', HostSnapshot')
    BY <1>2, <1>5 DEF Tells, HostSnapshot
  <2>2. poll' # None => Tells(doc', poll')
    BY <1>1, <1>5 DEF Told
  <2>3. \A rm \in Rooms : \A g \in offered'[rm].play : Begun(doc', g)
    BY <1>1, <1>5, OffersBegun DEF Told
  <2> QED
    BY <1>1, <1>2, <1>5, <2>1, <2>2, <2>3 DEF SeatInv, Told
<1>6. ASSUME NEW f \in flights, Retire(f)
      PROVE  /\ \A k \in flights' : k.kind # "cancel" => Begun(doc, k.game)
             /\ poll' = poll /\ offered' = offered /\ retained' = retained
             /\ \A s \in Sessions : runtime'[s].game = runtime[s].game
             /\ \A s \in Sessions : shown'[s].match \in {shown[s].match, None}
  <2>1. PICK s \in f.left : Retire(f)!(s)
    BY <1>6 DEF Retire
  <2>2. f \in [kind : Settlements, game : Games, room : Rooms, left : SUBSET Sessions]
        /\ s \in Sessions
    BY DEF Inv
  <2> DEFINE less == [f EXCEPT !.left = @ \ {s}]
  <2>3. less.kind = f.kind /\ less.game = f.game
    BY <2>2
  <2>4. flights' = (flights \ {f}) \cup {less}
    BY <2>1
  <2> HIDE DEF less
  <2>5. \A k \in flights' : k.kind # "cancel" => Begun(doc, k.game)
    BY <1>1, <2>3, <2>4 DEF Told
  <2>6. /\ \A k \in Sessions : runtime'[k].game = runtime[k].game
        /\ \A k \in Sessions : shown'[k].match \in {shown[k].match, None}
    <3>1. CASE runtime[s].state = "open"
      <4> DEFINE row == [runtime[s] EXCEPT !.state = "abandoned"]
                 line == IF shown[s].status = "none"
                         THEN [status |-> "abandoned", match |-> None, room |-> runtime[s].room]
                         ELSE [shown[s] EXCEPT !.status = "abandoned"]
      <4>1. row.game = runtime[s].game /\ line.match \in {shown[s].match, None}
        BY <1>1, <2>2 DEF HostTypes
      <4>2. runtime' = [runtime EXCEPT ![s] = row] /\ shown' = [shown EXCEPT ![s] = line]
        BY <1>4, <2>1, <2>2, <3>1
      <4> HIDE DEF row, line
      <4> QED
        BY <1>4, <2>2, <4>1, <4>2
    <3>2. CASE runtime[s].state # "open"
      BY <2>1, <3>2
    <3> QED
      BY <3>1, <3>2
  <2> QED
    BY <2>1, <2>5, <2>6
<1>7. ASSUME NEW s \in Sessions, NEW rm \in Rooms, NEW g \in Games, Open(s, rm, g)
      PROVE  /\ UNCHANGED <<flights, poll, offered, retained>>
             /\ \A k \in Sessions : runtime'[k].game # None => Begun(doc, runtime'[k].game)
             /\ \A k \in Sessions : shown'[k].match # None => Begun(doc, shown'[k].match)
  <2>1. /\ UNCHANGED <<flights, poll, offered, retained>> /\ Begun(doc, g)
        /\ runtime' = [runtime EXCEPT ![s] = [state |-> "open", game |-> g, room |-> rm]]
        /\ shown' = [shown EXCEPT ![s] = [status |-> "open", match |-> g, room |-> rm]]
    BY <1>1, <1>7 DEF Open, UnchangedDirector, Told
  <2> QED
    BY <1>3, <1>4, <2>1
<1>8. ASSUME NEW s \in Sessions, NEW print \in Scores, Post(s, print)
      PROVE  /\ UNCHANGED <<flights, poll, offered>>
             /\ \A k \in Sessions : runtime'[k].game = runtime[k].game
             /\ \A k \in Sessions : shown'[k].match = shown[k].match
             /\ \A i \in DOMAIN retained' : Begun(doc, retained'[i].game)
  <2> DEFINE result == [session |-> s, game |-> runtime[s].game, print |-> print]
             row == [runtime[s] EXCEPT !.state = IF @ = "open" THEN "final" ELSE @]
             line == [shown[s] EXCEPT !.status = "final"]
  <2>1. /\ UNCHANGED <<flights, poll, offered>> /\ runtime[s].state # "none"
        /\ retained' = Append(retained, result)
        /\ runtime' = [runtime EXCEPT ![s] = row] /\ shown' = [shown EXCEPT ![s] = line]
    BY <1>4, <1>8 DEF Post, UnchangedDirector
  <2>2. row.game = runtime[s].game /\ line.match = shown[s].match
    BY <1>1 DEF HostTypes
  <2>3. result.game = runtime[s].game /\ Begun(doc, runtime[s].game)
    <3>1. runtime[s].game \in Games
      BY <1>1, <2>1 DEF HostTypes
    <3> QED
      BY <1>3, <3>1, SettlementAssumption
  <2> HIDE DEF result, row, line
  <2>4. /\ \A k \in Sessions : runtime'[k].game = runtime[k].game
        /\ \A k \in Sessions : shown'[k].match = shown[k].match
    BY <1>4, <2>1, <2>2
  <2>5. \A i \in DOMAIN retained' : \/ i \in DOMAIN retained /\ retained'[i] = retained[i]
                                    \/ retained'[i] = result
    BY <1>1, <2>1 DEF HostTypes
  <2> QED
    BY <1>3, <2>1, <2>3, <2>4, <2>5
<1>9. ASSUME NEW s \in Sessions, Expire(s)
      PROVE  /\ UNCHANGED <<flights, poll, offered, retained>>
             /\ \A k \in Sessions : runtime'[k].game = runtime[k].game
             /\ \A k \in Sessions : shown'[k].match = shown[k].match
  <2> DEFINE row == [runtime[s] EXCEPT !.state = "abandoned"]
             line == [shown[s] EXCEPT !.status = "abandoned"]
  <2>1. /\ UNCHANGED <<flights, poll, offered, retained>>
        /\ runtime' = [runtime EXCEPT ![s] = row] /\ shown' = [shown EXCEPT ![s] = line]
    BY <1>4, <1>9 DEF Expire, UnchangedDirector
  <2>2. row.game = runtime[s].game /\ line.match = shown[s].match
    BY <1>1 DEF HostTypes
  <2> HIDE DEF row, line
  <2> QED
    BY <1>4, <2>1, <2>2
<1>10. ASSUME Refresh
       PROVE  /\ UNCHANGED <<flights, poll, retained>> /\ offered' = Offers(doc)
              /\ \A k \in Sessions : runtime'[k].game = runtime[k].game
              /\ \A k \in Sessions : shown'[k].match \in {shown[k].match, None}
  <2> DEFINE changed == {rm \in Rooms : offered[rm] # offered'[rm]}
             closed == {s \in Sessions : /\ runtime[s].state = "open"
                                         /\ runtime[s].game \notin offered'[runtime[s].room].play}
             forgotten == {s \in Sessions : shown[s].room \in changed /\ shown[s].status # "final"}
  <2>1. /\ UNCHANGED <<flights, poll, retained>> /\ offered' = Offers(doc)
        /\ runtime' = [s \in Sessions |->
             IF s \in closed THEN [runtime[s] EXCEPT !.state = "abandoned"] ELSE runtime[s]]
        /\ shown' = [s \in Sessions |->
             CASE s \in closed \cap forgotten ->
                    [status |-> "abandoned", match |-> None, room |-> runtime[s].room]
               [] s \in closed \ forgotten -> [shown[s] EXCEPT !.status = "abandoned"]
               [] s \in forgotten \ closed -> [status |-> "none", match |-> None, room |-> None]
               [] OTHER -> shown[s]]
    BY <1>10 DEF Refresh, UnchangedDirector
  <2> HIDE DEF closed, forgotten, changed
  <2>2. \A k \in Sessions : [runtime[k] EXCEPT !.state = "abandoned"].game = runtime[k].game
    BY <1>1 DEF HostTypes
  <2>3. \A k \in Sessions : runtime'[k].game = runtime[k].game
    BY <2>1, <2>2
  <2>4. \A k \in Sessions :
          /\ [shown[k] EXCEPT !.status = "abandoned"].match = shown[k].match
          /\ [status |-> "abandoned", match |-> None, room |-> runtime[k].room].match = None
          /\ [status |-> "none", match |-> None, room |-> None].match = None
    BY <1>1 DEF HostTypes
  <2>5. \A k \in Sessions : shown'[k].match \in {shown[k].match, None}
    <3> SUFFICES ASSUME NEW k \in Sessions PROVE shown'[k].match \in {shown[k].match, None}
      OBVIOUS
    <3>1. CASE k \in closed \cap forgotten
      BY <2>1, <2>4, <3>1
    <3>2. CASE k \in closed \ forgotten
      BY <2>1, <2>4, <3>2
    <3>3. CASE k \in forgotten \ closed
      BY <2>1, <2>4, <3>3
    <3>4. CASE k \notin closed \cup forgotten
      BY <2>1, <3>4
    <3> QED
      BY <3>1, <3>2, <3>3, <3>4
  <2> QED
    BY <2>1, <2>3, <2>5
<1>11. CASE UNCHANGED vars
  BY <1>1, <1>3, <1>11 DEF vars, host, Told
<1>12. CASE PollRead \/ PollFails
  BY <1>1, <1>3, <1>12 DEF PollRead, PollFails, host, Told
<1>13. ASSUME NEW f \in flights, RetireFails(f)
       PROVE  /\ UNCHANGED <<poll, offered, runtime, shown, retained>>
              /\ flights' \subseteq flights
  BY <1>13 DEF RetireFails, host
<1>14. \A f \in flights : f.kind # "cancel" => Begun(doc, f.game)
  BY <1>1 DEF Told
<1>15. CASE \E f \in flights : Retire(f) \/ RetireFails(f)
  BY <1>3, <1>6, <1>13, <1>14, <1>15
<1>16. CASE \E s \in Sessions, rm \in Rooms, g \in Games : Open(s, rm, g)
  BY <1>3, <1>7, <1>14, <1>16
<1>17. CASE \E s \in Sessions, print \in Scores : Post(s, print)
  BY <1>3, <1>8, <1>14, <1>17
<1>18. CASE (\E s \in Sessions : Expire(s)) \/ Refresh
  BY <1>3, <1>9, <1>10, <1>14, <1>18
<1> QED
  BY <1>11, <1>12, <1>15, <1>16, <1>17, <1>18

\* A poll is of what the host told, also when it is applied late (syncQbtcp).
LEMMA PollTold ==
  ASSUME Inv, SeatInv, PollApply
  PROVE  SeatInv'
<1>1. Sound(doc) /\ Sits(doc) /\ Told /\ poll # None
  BY DEF Inv, SeatInv, PollApply
<1>2. poll \in Snapshots /\ Len(poll.results) <= MaxResults /\ Tells(doc, poll)
  BY <1>1 DEF Inv, Told
<1>0. PICK refused \in Refusals(poll.results) :
        LET applied == PollApplied(doc, poll, refused)
        IN \E quiet \in SUBSET {s \in Sessions : applied.session[s].state = "open"} :
             doc' = Silent(applied, quiet)
  BY DEF PollApply
<1> DEFINE applied == PollApplied(doc, poll, refused)
<1>3. PICK quiet \in SUBSET {s \in Sessions : applied.session[s].state = "open"} :
        doc' = Silent(applied, quiet)
  BY <1>0
<1>4. Follows(doc, applied) /\ Sits(applied)
  BY <1>1, <1>2, PollAppliedFollows, PollSits
<1> HIDE DEF applied
<1>5. Sits(doc') /\ Follows(applied, doc')
  BY <1>3, <1>4, SilentFollows, SilentSits DEF Follows
<1>6. \A g : Begun(doc', g) <=> Begun(doc, g)
  BY <1>4, <1>5 DEF Follows, Begun
<1>7. UNCHANGED <<flights, offered, runtime, shown, retained>> /\ poll' = None
  BY DEF PollApply, host
<1>8. Told'
  <2>1. HostSnapshot' = HostSnapshot
    BY <1>7 DEF HostSnapshot
  <2>2. Tells(doc', HostSnapshot')
    BY <1>1, <1>6, <2>1 DEF Told, Tells
  <2>3. /\ \A rm \in Rooms : \A g \in offered'[rm].play : Begun(doc', g)
        /\ \A s \in Sessions : runtime'[s].game # None => Begun(doc', runtime'[s].game)
        /\ \A f \in flights' : f.kind # "cancel" => Begun(doc', f.game)
    BY <1>1, <1>6, <1>7 DEF Told
  <2> QED
    BY <1>7, <2>2, <2>3 DEF Told
<1> QED
  BY <1>5, <1>8 DEF SeatInv

\* While no room move, no drive and no reopened forfeit interferes, two games that may
\* be played never share a room (roundDeliveryBlocker, roundReleaseBlocker): a poll
\* that is applied late and a settlement that waited put no game in a taken room.
THEOREM RoomsApart ==
  ASSUME {"move", "drive", "reopen"} \cap Commands = {}
  PROVE  Spec => []OneGamePerRoom
<1>1. Init => SeatInv
  <2> SUFFICES ASSUME Init PROVE SeatInv
    OBVIOUS
  <2>1. /\ doc.round = [r \in Rounds |-> "planned"] /\ doc.records = <<>>
        /\ \A g \in Games : doc.game[g] = "scheduled"
        /\ \A s \in Sessions : doc.session[s].match = None
    BY DEF Init, NoRound, Unseen
  <2>2. Sits(doc)
    BY <2>1, SettlementAssumption DEF Sits, Occupies
  <2>3. \A rm \in Rooms : \A g \in offered[rm].play : Begun(doc, g)
    BY <2>2, OffersBegun DEF Init
  <2>4. Told
    BY <2>3 DEF Init, Told, Tells, HostSnapshot
  <2> QED
    BY <2>2, <2>4 DEF SeatInv
<1>2. Inv /\ NotMoving /\ SeatInv /\ [Next]_vars => SeatInv'
  <2> SUFFICES ASSUME Inv, NotMoving, SeatInv, [Next]_vars PROVE SeatInv'
    OBVIOUS
  <2>1. /\ ~Move /\ ~\E g \in Games : Reopen(g)
        /\ ~\E g \in Games, print \in Scores : Drive(g, print)
        /\ ~\E g \in Games, to \in Rooms : PlanMove(g, to)
    BY DEF NotMoving, Move, Reopen, Drive, PlanMove
  <2>2. "reopen" \notin Commands
    OBVIOUS
  <2>3. CASE \/ \E r \in Rounds : Release(r) \/ Close(r)
             \/ \E g \in Games : Edit(g)
             \/ \E g \in Games, kind \in Settlements : Start(kind, g)
             \/ \E f \in flights : Settle(f)
             \/ \E e \in Waiting : Accept(e) \/ Reject(e)
             \/ \E e \in Waiting, g \in Games : Associate(e, g)
             \/ \E g \in Games, status \in {"accepted", "forfeit"} : Replace(g, status)
    BY <2>2, <2>3, DirectorSits
  <2>4. CASE \/ \E f \in flights : Retire(f) \/ RetireFails(f)
             \/ PollRead \/ PollFails
             \/ \E s \in Sessions, rm \in Rooms, g \in Games : Open(s, rm, g)
             \/ \E s \in Sessions, print \in Scores : Post(s, print)
             \/ \E s \in Sessions : Expire(s)
             \/ Refresh
             \/ UNCHANGED vars
    BY <2>4, HostTold
  <2>5. CASE PollApply
    BY <2>5, PollTold
  <2> QED
    BY <2>1, <2>3, <2>4, <2>5 DEF Next
<1>3. SeatInv => OneGamePerRoom
  BY DEF SeatInv, Sits, Occupies, OneGamePerRoom
<1>4. Spec => []NotMoving
  BY NoMoves
<1> QED
  BY <1>1, <1>2, <1>3, <1>4, Types, PTL DEF Spec
=============================================================================
