---------------------------- MODULE ScorerSession ----------------------------
(***************************************************************************)
(* The scorer's side of a connected game: progress snapshots, the repair   *)
(* of a refused session, the take-over of another device's, the final      *)
(* result and its delivery until control has it (useConnectedRuntime.ts,   *)
(* ResultDelivery.ts, useAutomaticResultDelivery.ts).  Control is one      *)
(* session of QbtcpServer, reduced to what it answers.                     *)
(*                                                                         *)
(* A scoresheet is the number of things scored on its device, a snapshot   *)
(* the time it was sent.  A request is served at any time after it was     *)
(* sent and its sender may have stopped waiting.  Polls are atomic, and    *)
(* control keeps the game assigned to the room, so opening it succeeds.    *)
(* Every fault strikes at most once.                                       *)
(***************************************************************************)
EXTENDS Integers, FiniteSetsExt

CONSTANTS
  Devices,    \* the room's devices
  Faults,     \* what may go wrong
  MaxScores,  \* bound: how often each device scores
  MaxFaults,  \* bound: how many faults strike in one behaviour
  MaxSends,   \* bound: snapshots sent; also how far a clock may be set back
  None

AllFaults == {"answer lost", "clock set back", "clocks differ", "session forgotten",
              "tab reloaded", "started again", "second device", "slow store", "corrected",
              "token expired"}

ASSUME SessionAssumption ==
  /\ Faults \subseteq AllFaults
  /\ MaxScores \in [Devices -> Nat]
  /\ MaxFaults \in Nat /\ MaxSends \in Nat
  /\ None \notin Devices \union {"ok", "unknown", "closed", "taken", "writer", "reader"}

VARIABLES
  session,   \* control's session: generation, status, tokens, writer, last sequence, snapshot
  received,  \* finals control retained
  sends,     \* snapshots sent so far, which is also the time
  offset,    \* how far each device's clock is off
  screen,    \* what each device shows
  scored,    \* each device's scoresheet
  waiting,   \* devices whose progress sender holds a snapshot
  stored,    \* each device's connection: session token, highest sequence used
  runtime,   \* refused: the token failed; tried: the one repair is spent; conflict
  record,    \* each device's game record: final, delivery, whether a retry makes sense
  token,     \* the token kept to deliver each device's final, or 0
  writing,   \* outcomes about to be written to a record
  net,       \* requests under way
  told,      \* history: the last snapshot each device was told control has
  spent      \* the faults that struck

control == <<session, received>>
clocks == <<sends, offset>>
scorer == <<screen, scored, waiting, stored, runtime>>
outbox == <<record, token, writing>>
vars == <<control, clocks, scorer, outbox, net, told, spent>>

Mounted == {d \in Devices : screen[d] \in {"scoring", "submitting"}}
Joined == {d \in Devices : screen[d] # "out"}
Fresh == [refused |-> FALSE, tried |-> FALSE, conflict |-> "none"]

Init ==
  /\ session = [generation |-> 0, status |-> "none", tokens |-> {}, writer |-> None,
                sequence |-> 0, snapshot |-> 0]
  /\ received = {}
  /\ sends = 0 /\ offset = [d \in Devices |-> 0]
  /\ screen = [d \in Devices |-> "out"]
  /\ scored = [d \in Devices |-> 0]
  /\ waiting = {}
  /\ stored = [d \in Devices |-> [token |-> 0, sequence |-> 0]]
  /\ runtime = [d \in Devices |-> Fresh]
  /\ record = [d \in Devices |-> [final |-> 0, delivery |-> "pending", retry |-> "unknown"]]
  /\ token = [d \in Devices |-> 0]
  /\ writing = {} /\ net = {}
  /\ told = [d \in Devices |-> [generation |-> 0, snapshot |-> 0]]
  /\ spent = {}

Strikes(fault) ==
  /\ fault \in Faults \ spent /\ Cardinality(spent) < MaxFaults
  /\ spent' = spent \union {fault}

-----------------------------------------------------------------------------
(* Requests.                                                               *)

Request(d, kind, t, sequence, body) ==
  [device |-> d, kind |-> kind, token |-> t, sequence |-> sequence, body |-> body,
   answer |-> None, heard |-> TRUE]

Awaited(d, kind) == \E r \in net : r.device = d /\ r.kind = kind /\ r.heard

\* Nobody waits any more for requests of these kinds; those not served yet still may be.
Deaf(d, kinds) ==
  {IF r.device = d /\ r.kind \in kinds THEN [r EXCEPT !.heard = FALSE] ELSE r :
     r \in {q \in net : ~(q.device = d /\ q.kind \in kinds /\ q.answer # None)}}

AnsweredBy(r, answer, t) ==
  (net \ {r}) \union
  (IF r.heard THEN {[r EXCEPT !.answer = answer, !.token = t]} ELSE {})

-----------------------------------------------------------------------------
(* Control.                                                                *)

Known(r) == r.token = session.generation /\ r.device \in session.tokens

Opened(s, d) ==
  IF s.status = "none"
    THEN [generation |-> s.generation + 1, status |-> "open", tokens |-> {d}, writer |-> d,
          sequence |-> 0, snapshot |-> 0]
    ELSE [s EXCEPT !.tokens = @ \union {d}]

ServeProgress(r) ==
  LET answer == CASE ~Known(r) -> "unknown"
                  [] Known(r) /\ session.status # "open" -> "closed"
                  [] Known(r) /\ session.status = "open" /\ session.writer # r.device -> "taken"
                  [] OTHER -> "ok"
  IN /\ r.kind = "progress"
     /\ net' = AnsweredBy(r, answer, r.token)
     /\ session' = IF answer = "ok" /\ r.sequence > session.sequence
                     THEN [session EXCEPT !.sequence = r.sequence, !.snapshot = r.body]
                     ELSE session
     /\ UNCHANGED received

ServeOpen(r) ==
  /\ r.kind = "open"
  /\ session' = Opened(session, r.device)
  /\ net' = AnsweredBy(r, IF session'.writer = r.device THEN "writer" ELSE "reader",
                       session'.generation)
  /\ UNCHANGED received

ServeTakeOver(r) ==
  LET answer == CASE ~Known(r) -> "unknown"
                  [] Known(r) /\ session.status # "open" -> "closed"
                  [] OTHER -> "ok"
  IN /\ r.kind = "take over"
     /\ session' = IF answer = "ok" THEN [session EXCEPT !.writer = r.device] ELSE session
     /\ net' = AnsweredBy(r, answer, r.token)
     /\ UNCHANGED received

\* A session that has its final takes further ones from any of its devices.
ServeFinal(r) ==
  LET answer == CASE ~Known(r) -> "unknown"
                  [] Known(r) /\ session.status = "open" /\ session.writer # r.device -> "taken"
                  [] OTHER -> "ok"
  IN /\ r.kind \in {"final", "retry"}
     /\ net' = AnsweredBy(r, answer, r.token)
     /\ IF answer = "ok"
          THEN /\ received' = received \union {[device |-> r.device, sheet |-> r.body]}
               /\ session' = [session EXCEPT !.status = "final", !.writer = None,
                                             !.snapshot = sends]
          ELSE UNCHANGED control

Serve(r) ==
  /\ r.answer = None
  /\ ServeProgress(r) \/ ServeOpen(r) \/ ServeTakeOver(r) \/ ServeFinal(r)
  /\ UNCHANGED <<clocks, scorer, outbox, told, spent>>

\* Control loses its sessions and their tokens, not the results.
Forget ==
  /\ session.status # "none"
  /\ Strikes("session forgotten")
  /\ session' = [session EXCEPT !.status = "none", !.tokens = {}, !.writer = None]
  /\ UNCHANGED <<received, clocks, scorer, outbox, net, told>>

-----------------------------------------------------------------------------
(* Starting a game, and the tab.                                           *)

\* The scorer's screen comes up with a new runtime, which offers the scoresheet
\* at once and does not hear the answers to its predecessor.
Mount(d) ==
  /\ runtime' = [runtime EXCEPT ![d] = Fresh]
  /\ waiting' = waiting \union {d}
  /\ net' = Deaf(d, {"progress", "open", "take over", "final"})

\* Clocks of one room are together, unless they are said to differ.
ClocksTogether(d) ==
  "clocks differ" \in Faults \/ Joined \subseteq {d} \/ \A e \in Devices : offset[e] = 0

\* The game is started from the room: the session is opened and the connection
\* written anew, without the sequence of the old one.
Start(d) ==
  /\ \/ Joined = {} /\ UNCHANGED spent
     \/ screen[d] = "out" /\ Joined # {} /\ Strikes("second device")
     \/ screen[d] = "scoring" /\ record[d].final = 0 /\ Strikes("started again")
  /\ session.status # "final"
  /\ ClocksTogether(d)
  /\ session' = Opened(session, d)
  /\ stored' = [stored EXCEPT ![d] = [token |-> session'.generation, sequence |-> 0]]
  /\ screen' = [screen EXCEPT ![d] = "scoring"]
  /\ Mount(d)
  /\ UNCHANGED <<received, clocks, scored, outbox, told>>

\* A game that has its final is not resumed but listed.
Reload(d) ==
  /\ screen[d] # "out"
  /\ Strikes("tab reloaded")
  /\ screen' = [screen EXCEPT ![d] = IF record[d].final > 0 THEN "done" ELSE @]
  /\ runtime' = [runtime EXCEPT ![d] = Fresh]
  /\ waiting' = IF screen'[d] = "scoring" THEN waiting \union {d} ELSE waiting \ {d}
  /\ net' = Deaf(d, {"progress", "open", "take over", "final", "retry"})
  /\ writing' = {w \in writing : w.device # d}
  /\ UNCHANGED <<control, clocks, scored, stored, record, token, told>>

\* A finished result is opened in the scorer again, to be corrected.
Correct(d) ==
  /\ screen[d] = "done"
  /\ Strikes("corrected")
  /\ screen' = [screen EXCEPT ![d] = "scoring"]
  /\ Mount(d)
  /\ UNCHANGED <<control, clocks, scored, stored, outbox, told>>

SetClockBack(d) ==
  /\ "clocks differ" \in Faults \/ Joined = {d}
  /\ Strikes("clock set back")
  /\ offset' = [offset EXCEPT ![d] = -MaxSends]
  /\ UNCHANGED <<control, sends, scorer, outbox, net, told>>

-----------------------------------------------------------------------------
(* Progress.                                                               *)

WritesAllowed(d) ==
  stored[d].token > 0 /\ ~runtime[d].refused /\ runtime[d].conflict = "none"

Score(d) ==
  /\ screen[d] = "scoring" /\ scored[d] < MaxScores[d]
  /\ scored' = [scored EXCEPT ![d] = @ + 1]
  /\ waiting' = waiting \union {d}
  /\ UNCHANGED <<control, clocks, screen, stored, runtime, outbox, net, told, spent>>

\* Slip: the clock alone.
ClockAlone(d) == sends + 1 + offset[d]

NextSequence(d) == Max({stored[d].sequence + 1, sends + 1 + offset[d]})

\* The sender's timer.  Using a sequence persists it and so replaces the sender:
\* the next one does not wait for the answer to this request.
Flush(d) ==
  /\ d \in Mounted \cap waiting /\ sends < MaxSends
  /\ waiting' = waiting \ {d}
  /\ IF WritesAllowed(d)
       THEN /\ sends' = sends + 1
            /\ stored' = [stored EXCEPT ![d].sequence = NextSequence(d)]
            /\ net' = net \union
                 {Request(d, "progress", stored[d].token, NextSequence(d), sends + 1)}
       ELSE UNCHANGED <<sends, stored, net>>
  /\ UNCHANGED <<control, offset, screen, scored, runtime, outbox, told, spent>>

\* A poll that reaches control offers the newest snapshot again.
Poll(d) ==
  /\ d \in Mounted \ waiting
  /\ waiting' = waiting \union {d}
  /\ UNCHANGED <<control, clocks, screen, scored, stored, runtime, outbox, net, told, spent>>

\* What a refused write changes, whichever request it was.
Noted(state, answer) ==
  [state EXCEPT
     !.refused = @ \/ answer = "unknown",
     !.conflict = IF answer = "taken" THEN "offer" ELSE IF answer = "closed" THEN "held" ELSE @]

HearProgress(r) ==
  /\ r.kind = "progress" /\ r.heard /\ r.answer # None
  /\ net' = net \ {r}
  /\ runtime' = [runtime EXCEPT ![r.device] = Noted(@, r.answer)]
  /\ told' = IF r.answer # "ok" THEN told
             ELSE [told EXCEPT ![r.device] =
                     [generation |-> r.token,
                      snapshot |-> Max({r.body, IF @.generation = r.token THEN @.snapshot ELSE 0})]]
  /\ UNCHANGED <<control, clocks, screen, scored, waiting, stored, outbox, spent>>

-----------------------------------------------------------------------------
(* Repair and take-over.                                                   *)

AskOpen(d) == net' = net \union {Request(d, "open", 0, 0, 0)}

\* One unattended reopening of a refused session; after it a person has to ask.
Repair(d) ==
  /\ d \in Mounted /\ runtime[d].refused /\ ~runtime[d].tried
  /\ AskOpen(d)
  /\ runtime' = [runtime EXCEPT ![d].tried = TRUE]
  /\ UNCHANGED <<control, clocks, screen, scored, waiting, stored, outbox, told, spent>>

Reconnect(d) ==
  /\ d \in Mounted /\ runtime[d].refused /\ runtime[d].tried /\ ~Awaited(d, "open")
  /\ AskOpen(d)
  /\ UNCHANGED <<control, clocks, scorer, outbox, told, spent>>

HearOpen(r) ==
  /\ r.kind = "open" /\ r.heard /\ r.answer # None
  /\ net' = net \ {r}
  /\ runtime' = [runtime EXCEPT ![r.device] =
       [Fresh EXCEPT !.conflict = IF r.answer = "writer" THEN "none" ELSE "held"]]
  /\ stored' = [stored EXCEPT ![r.device].token = r.token]
  /\ UNCHANGED <<control, clocks, screen, scored, waiting, outbox, told, spent>>

TakeOver(d) ==
  /\ d \in Mounted /\ runtime[d].conflict = "offer" /\ ~Awaited(d, "take over")
  /\ net' = net \union {Request(d, "take over", stored[d].token, 0, 0)}
  /\ UNCHANGED <<control, clocks, scorer, outbox, told, spent>>

HearTakeOver(r) ==
  /\ r.kind = "take over" /\ r.heard /\ r.answer # None
  /\ net' = net \ {r}
  /\ runtime' = [runtime EXCEPT ![r.device] =
       IF r.answer = "ok" THEN [@ EXCEPT !.conflict = "none"] ELSE Noted(@, r.answer)]
  /\ UNCHANGED <<control, clocks, screen, scored, waiting, stored, outbox, told, spent>>

-----------------------------------------------------------------------------
(* The final and its delivery.                                             *)

Outcome(delivery, retry) == [delivery |-> delivery, retry |-> retry]

\* What an answer means to the record; None is a request nobody answered.
Classify(answer) ==
  CASE answer = "ok" -> Outcome("sent", "no")
    [] answer = None -> Outcome("pending", "yes")
    [] answer \in {"taken", "closed"} -> Outcome("rejected", "yes")
    [] answer = "unknown" -> Outcome("rejected", "no")

\* A room that may not write is told so without a request; only a conflict makes
\* it worth another try.
Refusal(d) == Outcome("rejected", IF runtime[d].conflict = "none" THEN "no" ELSE "yes")

\* The record is read, to be written behind whatever is queued for it.
Writing(d, kind, outcome) ==
  writing \union {[device |-> d, kind |-> kind, outcome |-> outcome, seen |-> record[d].delivery]}

\* The final is in the record, and the token put by, before it is sent.
Submit(d) ==
  /\ screen[d] = "scoring" /\ scored[d] > 0
  /\ screen' = [screen EXCEPT ![d] = "submitting"]
  /\ record' = [record EXCEPT ![d].final = scored[d]]
  /\ token' = [token EXCEPT ![d] = stored[d].token]
  /\ IF WritesAllowed(d)
       THEN /\ net' = net \union {Request(d, "final", stored[d].token, 0, scored[d])}
            /\ UNCHANGED writing
       ELSE writing' = Writing(d, "final", Refusal(d)) /\ UNCHANGED net
  /\ UNCHANGED <<control, clocks, scored, waiting, stored, runtime, told, spent>>

HearFinal(r) ==
  /\ r.kind \in {"final", "retry"} /\ r.heard /\ r.answer # None
  /\ net' = net \ {r}
  /\ runtime' = IF r.kind = "final" THEN [runtime EXCEPT ![r.device] = Noted(@, r.answer)]
                                    ELSE runtime
  /\ writing' = Writing(r.device, r.kind, Classify(r.answer))
  /\ UNCHANGED <<control, clocks, screen, scored, waiting, stored, record, token, told, spent>>

\* A request fails for its sender, whether control serves it or not.
GiveUp(r) ==
  /\ r.heard
  /\ Strikes("answer lost")
  /\ net' = (net \ {r}) \union (IF r.answer = None THEN {[r EXCEPT !.heard = FALSE]} ELSE {})
  /\ writing' = IF r.kind \in {"final", "retry"} THEN Writing(r.device, r.kind, Classify(None))
                                                 ELSE writing
  /\ UNCHANGED <<control, clocks, scorer, record, token, told>>

\* Slip: a receipt is overwritten by a late failure.
RecordedLast(old, outcome, seen) ==
  [old EXCEPT !.delivery = outcome.delivery, !.retry = outcome.retry]

Recorded(old, outcome, seen) ==
  IF seen = "sent" /\ outcome.delivery # "sent" THEN old
  ELSE [old EXCEPT !.delivery = outcome.delivery, !.retry = outcome.retry]

TokenAfter(old, outcome) == IF outcome.retry = "no" THEN 0 ELSE old

Record(w) ==
  LET seen == IF "slow store" \in Faults THEN w.seen ELSE record[w.device].delivery
  IN /\ writing' = writing \ {w}
     /\ record' = [record EXCEPT ![w.device] = Recorded(@, w.outcome, seen)]
     /\ token' = [token EXCEPT ![w.device] = TokenAfter(@, w.outcome)]
     /\ screen' = IF w.kind = "final" THEN [screen EXCEPT ![w.device] = "done"] ELSE screen
     /\ waiting' = IF w.kind = "final" THEN waiting \ {w.device} ELSE waiting
     /\ UNCHANGED <<control, clocks, scored, stored, runtime, net, told, spent>>

\* The retention window is over, or the browser's storage was cleared.
Expire(d) ==
  /\ token[d] > 0
  /\ Strikes("token expired")
  /\ token' = [token EXCEPT ![d] = 0]
  /\ UNCHANGED <<control, clocks, scorer, record, writing, net, told>>

CanRetry(d) ==
  /\ record[d].final > 0 /\ record[d].delivery # "sent"
  /\ record[d].retry # "no" /\ token[d] > 0

\* Slip: only what was never attempted.
CanAutoFirst(d) == CanRetry(d) /\ record[d].delivery = "pending" /\ record[d].retry = "unknown"

\* What was left pending by an attempt, and not what was never attempted.
CanAutoRetry(d) == CanRetry(d) /\ record[d].delivery = "pending" /\ record[d].retry = "yes"

Retrying(d) ==
  Awaited(d, "retry") \/ \E w \in writing : w.device = d /\ w.kind = "retry"

Send(d) ==
  /\ ~Retrying(d)
  /\ net' = net \union {Request(d, "retry", token[d], 0, record[d].final)}
  /\ UNCHANGED <<control, clocks, scorer, outbox, told, spent>>

\* The timer of the unattended delivery, whatever the screen.
AutoRetry(d) == screen[d] # "out" /\ CanAutoRetry(d) /\ Send(d)

\* Recent Games offers it to a person.
ManualRetry(d) == screen[d] = "done" /\ CanRetry(d) /\ Send(d)

-----------------------------------------------------------------------------

Next ==
  \/ Forget
  \/ \E r \in net : \/ Serve(r) \/ GiveUp(r)
                    \/ HearProgress(r) \/ HearOpen(r) \/ HearTakeOver(r) \/ HearFinal(r)
  \/ \E w \in writing : Record(w)
  \/ \E d \in Devices :
       \/ Start(d) \/ Reload(d) \/ Correct(d) \/ SetClockBack(d)
       \/ Score(d) \/ Flush(d) \/ Poll(d)
       \/ Repair(d) \/ Reconnect(d) \/ TakeOver(d)
       \/ Submit(d) \/ Expire(d) \/ AutoRetry(d) \/ ManualRetry(d)

Spec == Init /\ [][Next]_vars

\* Finals are answered and the answers recorded, and the timer of the unattended
\* delivery fires; nothing is asked of snapshots or of people.
FairSpec ==
  /\ Spec
  /\ WF_vars(\E r \in net : r.kind \in {"final", "retry"} /\ Serve(r))
  /\ WF_vars(\E r \in net : HearFinal(r))
  /\ WF_vars(\E w \in writing : Record(w))
  /\ \A d \in Devices : WF_vars(AutoRetry(d))

-----------------------------------------------------------------------------

Sheets == Nat
Answers == {None, "ok", "unknown", "closed", "taken", "writer", "reader"}
Deliveries == {"pending", "sent", "rejected"}
Outcomes == [delivery : Deliveries, retry : {"yes", "no"}]

\* Types: sequences are never negative, whatever the clock, and a final is a
\* scoresheet the device had.
TypeOK ==
  /\ session.status \in {"none", "open", "final"} /\ session.generation \in 0..2
  /\ session.tokens \subseteq Devices /\ session.writer \in Devices \union {None}
  /\ session.sequence \in Nat /\ session.snapshot \in 0..MaxSends
  /\ received \subseteq [device : Devices, sheet : Sheets]
  /\ sends \in 0..MaxSends /\ offset \in [Devices -> {0, -MaxSends}]
  /\ screen \in [Devices -> {"out", "scoring", "submitting", "done"}]
  /\ scored \in [Devices -> Sheets] /\ waiting \subseteq Devices
  /\ \A d \in Devices : record[d].final <= scored[d] /\ scored[d] <= MaxScores[d]
  /\ stored \in [Devices -> [token : 0..2, sequence : Nat]]
  /\ runtime \in [Devices -> [refused : BOOLEAN, tried : BOOLEAN,
                              conflict : {"none", "offer", "held"}]]
  /\ record \in [Devices -> [final : Sheets, delivery : Deliveries,
                             retry : {"unknown", "yes", "no"}]]
  /\ token \in [Devices -> 0..2]
  /\ writing \subseteq [device : Devices, kind : {"final", "retry"}, outcome : Outcomes,
                        seen : Deliveries]
  /\ net \subseteq [device : Devices, kind : {"progress", "open", "take over", "final", "retry"},
                    token : 0..2, sequence : Nat, body : Nat, answer : Answers,
                    heard : BOOLEAN]
  /\ told \in [Devices -> [generation : 0..2, snapshot : 0..MaxSends]]
  /\ spent \subseteq Faults

\* The snapshot control holds was sent no earlier than any it acknowledged: none is
\* acknowledged and dropped in silence in favour of an older one, whatever the clock
\* of its device does and in whatever order snapshots arrive (nextSequence, progress).
AcknowledgedIsKept ==
  \A d \in Devices :
    told[d].generation = session.generation => told[d].snapshot <= session.snapshot

Received(d) == {f.sheet : f \in {g \in received : g.device = d}}

\* A receipt is true and stands: a result becomes sent only if control received a
\* final of this record, itself or the one it corrects, and no later failure and no
\* attempt that overlaps with it makes it one to be sent again (recordFinalDelivery,
\* classifyFinalDelivery).
ReceiptStands ==
  [][\A d \in Devices :
       /\ record[d].delivery = "sent" => record'[d].delivery = "sent"
       /\ record'[d].delivery = "sent" => \E sheet \in Received(d) : sheet <= record'[d].final]_vars

\* A result that could not be delivered for want of an answer is delivered or
\* refused in the end, with nobody attending, unless the token kept for it is
\* gone (useAutomaticResultDelivery).
PendingIsRetried ==
  \A d \in Devices :
    (record[d].delivery = "pending" /\ record[d].retry = "yes" /\ token[d] > 0)
      ~> record[d].delivery # "pending" \/ token[d] = 0

-----------------------------------------------------------------------------
(* What the code does not promise.                                         *)

\* Control has the very final of a completed record that is shown as sent.
FinalIsReceived ==
  \A d \in Devices :
    screen[d] = "done" /\ record[d].delivery = "sent" => record[d].final \in Received(d)

\* Every completed result is delivered or refused in the end.
CompletedIsDelivered ==
  \A d \in Devices : record[d].final > 0 ~> record[d].delivery # "pending"

\* A take-over that was granted is not undone by an answer from before it.
ConflictIsReal ==
  [][\A d \in Devices : runtime[d].conflict = "none" /\ runtime'[d].conflict = "offer"
       => session.writer # d]_vars
=============================================================================
