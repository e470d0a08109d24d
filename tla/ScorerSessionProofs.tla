------------------------ MODULE ScorerSessionProofs ------------------------
(***************************************************************************)
(* Theorems about ScorerSession for any devices, bounds and faults: a      *)
(* receipt is true and stands, and no snapshot control acknowledged is     *)
(* dropped for an older one.                                               *)
(***************************************************************************)
EXTENDS ScorerSession, TLAPS

Generations == 0..2
Requests == [device : Devices, kind : {"progress", "open", "take over", "final", "retry"},
             token : Generations, sequence : Nat, body : Nat, answer : Answers,
             heard : BOOLEAN]

ControlTypes ==
  /\ session \in [generation : Generations, status : {"none", "open", "final"},
                  tokens : SUBSET Devices, writer : Devices \union {None},
                  sequence : Nat, snapshot : 0..MaxSends]
  /\ received \subseteq [device : Devices, sheet : Nat]

\* A session is lost once, so there are two at most.
Lost == "session forgotten" \in spent
Generated ==
  /\ session.generation = 0 => session.status = "none"
  /\ session.status = "none" => session.tokens = {}
  /\ session.generation > 0 /\ session.status = "none" => Lost
  /\ session.generation = 2 => Lost /\ session.status # "none"

ClockTypes == sends \in 0..MaxSends /\ offset \in [Devices -> {0, -MaxSends}]

ScorerTypes ==
  /\ screen \in [Devices -> {"out", "scoring", "submitting", "done"}]
  /\ scored \in [Devices -> Nat] /\ waiting \subseteq Devices
  /\ \A d \in Devices : scored[d] <= MaxScores[d]
  /\ stored \in [Devices -> [token : Generations, sequence : Nat]]
  /\ runtime \in [Devices -> [refused : BOOLEAN, tried : BOOLEAN,
                              conflict : {"none", "offer", "held"}]]

OutboxTypes ==
  /\ record \in [Devices -> [final : Nat, delivery : Deliveries,
                             retry : {"unknown", "yes", "no"}]]
  /\ \A d \in Devices : record[d].final <= scored[d]
  /\ token \in [Devices -> Generations]
  /\ writing \subseteq [device : Devices, kind : {"final", "retry"}, outcome : Outcomes,
                        seen : Deliveries]

Finals == {"final", "retry"}
FinalAnswers == {None, "ok", "taken", "unknown"}

\* A snapshot's time is one that has been, and a final is never "closed".
NetTypes ==
  /\ net \subseteq Requests
  /\ \A r \in net : r.kind = "progress" => r.body <= sends
  /\ \A r \in net : r.kind \in Finals => r.answer \in FinalAnswers

ToldTypes ==
  /\ told \in [Devices -> [generation : Generations, snapshot : 0..MaxSends]]
  /\ spent \subseteq Faults

TypeInv ==
  /\ ControlTypes /\ Generated /\ ClockTypes /\ ScorerTypes
  /\ OutboxTypes /\ NetTypes /\ ToldTypes

-----------------------------------------------------------------------------
(* The operators.                                                          *)

\* The bounds are natural numbers (SessionAssumption).
LEMMA Bounds == MaxSends \in Nat /\ MaxScores \in [Devices -> Nat]
BY SessionAssumption

\* Generations are numbers.
LEMMA GenerationsAreNumbers == \A g \in Generations : g \in Nat
BY DEF Generations

\* The larger of two numbers (nextSequence).
LEMMA MaxOfTwo ==
  ASSUME NEW a \in Int, NEW b \in Int
  PROVE  /\ Max({a, b}) \in {a, b}
         /\ Max({a, b}) >= a /\ Max({a, b}) >= b
<1>1. CASE a >= b
  <2>1. a \in {a, b} /\ \A y \in {a, b} : a >= y
    BY <1>1
  <2> QED
    BY <2>1 DEF Max
<1>2. CASE b >= a
  <2>1. b \in {a, b} /\ \A y \in {a, b} : b >= y
    BY <1>2
  <2> QED
    BY <2>1 DEF Max
<1>3. a >= b \/ b >= a
  OBVIOUS
<1> QED
  BY <1>1, <1>2, <1>3

\* A sequence is above the last one of its device (nextSequence).
LEMMA NextSequenceGrows ==
  ASSUME ClockTypes, ScorerTypes, NEW d \in Devices
  PROVE  /\ NextSequence(d) \in Nat /\ NextSequence(d) > stored[d].sequence
         /\ NextSequence(d) >= sends + 1 + offset[d]
         /\ NextSequence(d) \in {stored[d].sequence + 1, sends + 1 + offset[d]}
<1> DEFINE own == stored[d].sequence + 1
           time == sends + 1 + offset[d]
<1>1. own \in Nat /\ own \in Int /\ time \in Int /\ stored[d].sequence \in Nat
  BY Bounds DEF ClockTypes, ScorerTypes
<1> HIDE DEF own, time
<1>2. /\ Max({own, time}) \in {own, time}
      /\ Max({own, time}) >= own /\ Max({own, time}) >= time
  BY <1>1, MaxOfTwo
<1>3. NextSequence(d) = Max({own, time})
  BY DEF NextSequence, own, time
<1>4. NextSequence(d) \in {own, time} /\ NextSequence(d) >= own /\ NextSequence(d) >= time
  BY <1>2, <1>3
<1>5. own > stored[d].sequence
  BY <1>1 DEF own
<1> QED
  BY <1>1, <1>4, <1>5 DEF own, time

\* What a request says and was answered does not change while its sender stops
\* waiting.
SaidIn(r, old) ==
  \E q \in old :
    /\ q.device = r.device /\ q.kind = r.kind /\ q.token = r.token
    /\ q.sequence = r.sequence /\ q.body = r.body /\ q.answer = r.answer

\* No request says anything new.
Quieter == \A r \in net' : r \in Requests /\ SaidIn(r, net)

\* A request is answered, and nothing else is new.
AnswerOnly(r, answer, t) ==
  \A q \in net' :
    \/ q \in net
    \/ q \in Requests /\ q = [r EXCEPT !.answer = answer, !.token = t]

\* A sender that stops waiting says nothing (Deaf).
LEMMA DeafSays ==
  ASSUME NetTypes, NEW d, NEW kinds, net' = Deaf(d, kinds)
  PROVE  Quieter
<1> SUFFICES ASSUME NEW r \in net' PROVE r \in Requests /\ SaidIn(r, net)
  BY DEF Quieter
<1>1. PICK q \in net :
        r = IF q.device = d /\ q.kind \in kinds THEN [q EXCEPT !.heard = FALSE] ELSE q
  BY DEF Deaf
<1>2. q \in Requests
  BY DEF NetTypes
<1>3. CASE r = q
  BY <1>2, <1>3 DEF SaidIn
<1>4. CASE r = [q EXCEPT !.heard = FALSE]
  <2>1. /\ r.device = q.device /\ r.kind = q.kind /\ r.token = q.token
        /\ r.sequence = q.sequence /\ r.body = q.body /\ r.answer = q.answer
    BY <1>2, <1>4 DEF Requests
  <2>2. r \in Requests
    BY <1>2, <1>4 DEF Requests
  <2> QED
    BY <2>1, <2>2 DEF SaidIn
<1> QED
  BY <1>1, <1>3, <1>4

\* Requests that are taken away say nothing (HearProgress, HearOpen, HearTakeOver,
\* HearFinal).
LEMMA FewerSay ==
  ASSUME NetTypes, net' \subseteq net
  PROVE  Quieter
BY DEF Quieter, NetTypes, SaidIn

\* A request that fails for its sender says nothing (GiveUp).
LEMMA GivenUpSays ==
  ASSUME NetTypes, NEW r \in net, GiveUp(r)
  PROVE  Quieter
<1>1. \A q \in net' : q \in net \/ q = [r EXCEPT !.heard = FALSE]
  BY DEF GiveUp
<1>2. r \in Requests /\ net \subseteq Requests
  BY DEF NetTypes
<1>3. [r EXCEPT !.heard = FALSE] \in Requests
  BY <1>2 DEF Requests
<1>4. SaidIn([r EXCEPT !.heard = FALSE], net)
  <2> DEFINE q == [r EXCEPT !.heard = FALSE]
  <2>1. /\ r.device = q.device /\ r.kind = q.kind /\ r.token = q.token
        /\ r.sequence = q.sequence /\ r.body = q.body /\ r.answer = q.answer
    BY <1>2 DEF Requests
  <2> HIDE DEF q
  <2>2. SaidIn(q, net)
    BY <2>1 DEF SaidIn
  <2> QED
    BY <2>2 DEF q
<1>5. \A q \in net : SaidIn(q, net)
  BY DEF SaidIn
<1> QED
  BY <1>1, <1>2, <1>3, <1>4, <1>5 DEF Quieter

\* An answer is given to one request (AnsweredBy).
LEMMA AnswerSays ==
  ASSUME NetTypes, NEW r \in net, NEW answer \in Answers, NEW t \in Generations,
         net' = AnsweredBy(r, answer, t)
  PROVE  AnswerOnly(r, answer, t) /\ net' \subseteq Requests
<1>1. r \in Requests /\ net \subseteq Requests
  BY DEF NetTypes
<1>2. [r EXCEPT !.answer = answer, !.token = t] \in Requests
  BY <1>1 DEF Requests
<1> QED
  BY <1>1, <1>2 DEF AnswerOnly, AnsweredBy

\* A request is well formed (Request).
LEMMA RequestTypes ==
  ASSUME NEW d \in Devices, NEW t \in Generations, NEW sequence \in Nat, NEW body \in Nat,
         NEW kind \in {"progress", "open", "take over", "final", "retry"}
  PROVE  Request(d, kind, t, sequence, body) \in Requests
BY DEF Request, Requests, Answers

\* The network's types when nothing new is said and when something is answered.
LEMMA QuieterTypes ==
  ASSUME NetTypes, Quieter, UNCHANGED sends
  PROVE  NetTypes'
<1>1. net' \subseteq Requests
  BY DEF Quieter
<1>2. ASSUME NEW r \in net', r.kind = "progress" PROVE r.body <= sends'
  <2>1. PICK q \in net : q.kind = r.kind /\ q.body = r.body
    BY DEF Quieter, SaidIn
  <2>2. q.body <= sends
    BY <1>2, <2>1 DEF NetTypes
  <2> QED
    BY <2>1, <2>2
<1>3. ASSUME NEW r \in net', r.kind \in Finals PROVE r.answer \in FinalAnswers
  <2>1. PICK q \in net : q.kind = r.kind /\ q.answer = r.answer
    BY DEF Quieter, SaidIn
  <2> QED
    BY <1>3, <2>1 DEF NetTypes
<1> QED
  BY <1>1, <1>2, <1>3 DEF NetTypes

\* Control answers no progress that was not sent (AnsweredBy).
LEMMA AnswerTypes ==
  ASSUME NetTypes, NEW r \in net, NEW answer \in Answers, NEW t \in Generations,
         net' = AnsweredBy(r, answer, t), UNCHANGED sends,
         r.kind \in Finals => answer \in FinalAnswers
  PROVE  NetTypes'
<1>1. AnswerOnly(r, answer, t) /\ net' \subseteq Requests
  BY AnswerSays
<1>2. ASSUME NEW q \in net', q.kind = "progress" PROVE q.body <= sends'
  <2>1. CASE q \in net
    BY <1>2, <2>1 DEF NetTypes
  <2>2. CASE q = [r EXCEPT !.answer = answer, !.token = t]
    BY <1>2, <2>2 DEF NetTypes, Requests
  <2> QED
    BY <1>1, <2>1, <2>2 DEF AnswerOnly
<1>3. ASSUME NEW q \in net', q.kind \in Finals PROVE q.answer \in FinalAnswers
  <2>1. CASE q \in net
    BY <1>3, <2>1 DEF NetTypes
  <2>2. CASE q = [r EXCEPT !.answer = answer, !.token = t]
    BY <1>3, <2>2 DEF NetTypes, Requests
  <2> QED
    BY <1>1, <2>1, <2>2 DEF AnswerOnly
<1> QED
  BY <1>1, <1>2, <1>3 DEF NetTypes

\* Asking adds one request (Repair, Reconnect, TakeOver, Send, Submit).
LEMMA AskTypes ==
  ASSUME NetTypes, NEW d \in Devices, NEW t \in Generations, NEW body \in Nat,
         NEW kind \in {"open", "take over", "final", "retry"},
         net' = net \union {Request(d, kind, t, 0, body)}, UNCHANGED sends
  PROVE  NetTypes'
<1> DEFINE q == Request(d, kind, t, 0, body)
<1>1. q \in Requests
  BY RequestTypes
<1>2. q.kind # "progress" /\ q.answer = None
  BY DEF Request
<1> QED
  BY <1>1, <1>2 DEF NetTypes, FinalAnswers

-----------------------------------------------------------------------------
(* Types.                                                                  *)

\* A session that is opened is a new one, or one more device's (Opened).
LEMMA OpenedTypes ==
  ASSUME ControlTypes, Generated, NEW d \in Devices, session' = Opened(session, d),
         UNCHANGED received, Lost => Lost'
  PROVE  /\ ControlTypes' /\ Generated'
         /\ session'.generation > 0 /\ session'.generation >= session.generation
<1>1. session.generation \in Generations /\ session.status \in {"none", "open", "final"}
  BY DEF ControlTypes
<1>2. CASE session.status = "none"
  <2>1. session.generation + 1 \in Generations
    BY <1>1, <1>2 DEF Generated, Generations
  <2>2. session' = [generation |-> session.generation + 1, status |-> "open", tokens |-> {d},
                    writer |-> d, sequence |-> 0, snapshot |-> 0]
    BY <1>2 DEF Opened
  <2>3. ControlTypes'
    BY <2>1, <2>2, Bounds DEF ControlTypes
  <2>4. session.generation = 1 => Lost
    BY <1>2 DEF Generated
  <2>5. Generated'
    <3>1. session'.generation = session.generation + 1 /\ session'.status = "open"
      BY <2>2
    <3>2. session.generation \in {0, 1}
      BY <1>1, <1>2 DEF Generated, Generations
    <3> QED
      BY <3>1, <3>2, <2>4 DEF Generated
  <2> QED
    BY <1>1, <2>2, <2>3, <2>5 DEF Generations
<1>3. CASE session.status # "none"
  <2>1. session' = [session EXCEPT !.tokens = @ \union {d}]
    BY <1>3 DEF Opened
  <2>2. ControlTypes'
    BY <2>1 DEF ControlTypes
  <2>3. session'.generation = session.generation /\ session'.status = session.status
    BY <2>1 DEF ControlTypes
  <2>4. Generated'
    BY <1>3, <2>3 DEF Generated
  <2> QED
    BY <1>1, <1>3, <2>2, <2>3, <2>4 DEF Generated, Generations
<1> QED
  BY <1>2, <1>3

\* Control serves what it is asked (Serve).
LEMMA ServeTypes ==
  ASSUME TypeInv, NEW r \in net, Serve(r)
  PROVE  TypeInv'
<1>1. /\ ControlTypes /\ Generated /\ ClockTypes /\ ScorerTypes
      /\ OutboxTypes /\ NetTypes /\ ToldTypes
  BY DEF TypeInv
<1>2. r \in Requests
  BY <1>1 DEF NetTypes
<1>3. /\ UNCHANGED <<clocks, scorer, outbox, told, spent>>
      /\ ClockTypes' /\ ScorerTypes' /\ OutboxTypes' /\ ToldTypes'
  BY <1>1 DEF Serve, clocks, scorer, outbox, ClockTypes, ScorerTypes, OutboxTypes, ToldTypes
<1>4. /\ r.device \in Devices /\ r.token \in Generations
      /\ r.sequence \in Nat /\ r.body \in Nat
  BY <1>2 DEF Requests
<1>5. CASE ServeProgress(r)
  <2>1. \E answer \in Answers :
          /\ net' = AnsweredBy(r, answer, r.token)
          /\ session' \in {session, [session EXCEPT !.sequence = r.sequence,
                                                   !.snapshot = r.body]}
    BY <1>5 DEF ServeProgress, Answers
  <2>2. r.body \in 0..MaxSends
    BY <1>1, <1>4, <1>5, Bounds DEF ServeProgress, NetTypes, ClockTypes
  <2>3. ControlTypes'
    BY <1>1, <1>4, <1>5, <2>1, <2>2 DEF ControlTypes, ServeProgress
  <2>4. /\ session'.generation = session.generation /\ session'.status = session.status
        /\ session'.tokens = session.tokens
    BY <1>1, <2>1 DEF ControlTypes
  <2>5. Generated'
    BY <1>1, <1>3, <2>4 DEF Generated, Lost
  <2>6. NetTypes'
    <3>1. UNCHANGED sends /\ r.kind \notin Finals
      BY <1>3, <1>5 DEF ServeProgress, clocks, Finals
    <3> QED
      BY <1>1, <1>4, <2>1, <3>1, AnswerTypes
  <2> QED
    BY <1>3, <2>3, <2>5, <2>6 DEF TypeInv
<1>6. CASE ServeOpen(r)
  <2>1. session' = Opened(session, r.device) /\ UNCHANGED received
    BY <1>6 DEF ServeOpen
  <2>2. ControlTypes' /\ Generated'
    <3>1. Lost => Lost'
      BY <1>3 DEF Lost
    <3> QED
      BY <1>1, <1>4, <2>1, <3>1, OpenedTypes
  <2>3. session'.generation \in Generations
    BY <2>2 DEF ControlTypes
  <2>4. \E answer \in Answers : net' = AnsweredBy(r, answer, session'.generation)
    BY <1>6 DEF ServeOpen, Answers
  <2>5. NetTypes'
    <3>1. UNCHANGED sends /\ r.kind \notin Finals
      BY <1>3, <1>6 DEF ServeOpen, clocks, Finals
    <3> QED
      BY <1>1, <2>3, <2>4, <3>1, AnswerTypes
  <2> QED
    BY <1>3, <2>2, <2>5 DEF TypeInv
<1>7. CASE ServeTakeOver(r)
  <2>1. \E answer \in Answers : net' = AnsweredBy(r, answer, r.token)
    BY <1>7 DEF ServeTakeOver, Answers
  <2>2. /\ session' \in {session, [session EXCEPT !.writer = r.device]}
        /\ UNCHANGED received
    BY <1>7 DEF ServeTakeOver
  <2>3. ControlTypes'
    BY <1>1, <1>4, <2>2 DEF ControlTypes
  <2>4. /\ session'.generation = session.generation /\ session'.status = session.status
        /\ session'.tokens = session.tokens
    BY <1>1, <2>2 DEF ControlTypes
  <2>5. Generated'
    BY <1>1, <1>3, <2>4 DEF Generated, Lost
  <2>6. NetTypes'
    <3>1. UNCHANGED sends /\ r.kind \notin Finals
      BY <1>3, <1>7 DEF ServeTakeOver, clocks, Finals
    <3> QED
      BY <1>1, <1>4, <2>1, <3>1, AnswerTypes
  <2> QED
    BY <1>3, <2>3, <2>5, <2>6 DEF TypeInv
<1>8. CASE ServeFinal(r)
  <2>1. \E answer \in Answers :
          answer \in FinalAnswers /\ net' = AnsweredBy(r, answer, r.token)
    BY <1>8 DEF ServeFinal, Answers, FinalAnswers
  <2>2. CASE UNCHANGED control
    <3>1. ControlTypes' /\ Generated'
      BY <1>1, <1>3, <2>2 DEF control, ControlTypes, Generated, Lost
    <3>2. NetTypes'
      <4>1. UNCHANGED sends
        BY <1>3 DEF clocks
      <4> QED
        BY <1>1, <1>4, <2>1, <4>1, AnswerTypes
    <3> QED
      BY <1>3, <3>1, <3>2 DEF TypeInv
  <2>3. CASE /\ Known(r)
             /\ received' = received \union {[device |-> r.device, sheet |-> r.body]}
             /\ session' = [session EXCEPT !.status = "final", !.writer = None,
                                           !.snapshot = sends]
    <3>1. ControlTypes'
      <4>1. received' \subseteq [device : Devices, sheet : Nat]
        BY <1>1, <1>4, <2>3 DEF ControlTypes
      <4>2. sends \in 0..MaxSends
        BY <1>1 DEF ClockTypes
      <4> QED
        BY <1>1, <2>3, <4>1, <4>2 DEF ControlTypes
    <3>2. session'.generation = session.generation /\ session'.status = "final"
      BY <1>1, <2>3 DEF ControlTypes
    <3>3. session.generation # 0
      BY <1>1, <2>3 DEF Known, Generated
    <3>4. Generated'
      BY <1>1, <1>3, <3>2, <3>3 DEF Generated, Lost
    <3>5. NetTypes'
      <4>1. UNCHANGED sends
        BY <1>3 DEF clocks
      <4> QED
        BY <1>1, <1>4, <2>1, <4>1, AnswerTypes
    <3> QED
      BY <1>3, <3>1, <3>4, <3>5 DEF TypeInv
  <2>4. UNCHANGED control \/ Known(r)
    BY <1>8 DEF ServeFinal
  <2> QED
    BY <1>8, <2>2, <2>3, <2>4 DEF ServeFinal
<1> QED
  BY <1>5, <1>6, <1>7, <1>8 DEF Serve

\* A device is in the room, and control loses its session, once (Strikes).
LEMMA StrikesTypes ==
  ASSUME ToldTypes, NEW fault, Strikes(fault), UNCHANGED told
  PROVE  ToldTypes' /\ (Lost => Lost')
BY DEF ToldTypes, Strikes, Lost

\* Control loses its session (Forget).
LEMMA ForgetTypes ==
  ASSUME TypeInv, Forget
  PROVE  TypeInv'
<1>1. /\ ControlTypes /\ Generated /\ ClockTypes /\ ScorerTypes
      /\ OutboxTypes /\ NetTypes /\ ToldTypes
  BY DEF TypeInv
<1>2. /\ session' = [session EXCEPT !.status = "none", !.tokens = {}, !.writer = None]
      /\ session.status # "none" /\ ~Lost /\ Lost' /\ ToldTypes'
      /\ UNCHANGED <<received, clocks, scorer, outbox, net, told>>
  BY <1>1, StrikesTypes DEF Forget, Strikes, Lost
<1>3. ClockTypes' /\ ScorerTypes' /\ OutboxTypes' /\ NetTypes'
  BY <1>1, <1>2 DEF clocks, scorer, outbox, ClockTypes, ScorerTypes, OutboxTypes, NetTypes
<1>4. ControlTypes'
  BY <1>1, <1>2 DEF ControlTypes
<1>5. /\ session'.generation = session.generation /\ session'.status = "none"
      /\ session'.tokens = {}
  BY <1>1, <1>2 DEF ControlTypes
<1>6. Generated'
  BY <1>1, <1>2, <1>5 DEF Generated
<1> QED
  BY <1>2, <1>3, <1>4, <1>6 DEF TypeInv

\* A new screen (Mount).
LEMMA MountTypes ==
  ASSUME ScorerTypes, NetTypes, ClockTypes, NEW d \in Devices, Mount(d), UNCHANGED clocks
  PROVE  /\ runtime' \in [Devices -> [refused : BOOLEAN, tried : BOOLEAN,
                                      conflict : {"none", "offer", "held"}]]
         /\ waiting' \subseteq Devices
         /\ NetTypes' /\ ClockTypes'
<1>1. runtime' \in [Devices -> [refused : BOOLEAN, tried : BOOLEAN,
                                conflict : {"none", "offer", "held"}]]
  BY DEF Mount, ScorerTypes, Fresh
<1>2. waiting' \subseteq Devices
  BY DEF Mount, ScorerTypes
<1>3. ClockTypes' /\ sends' = sends
  BY DEF ClockTypes, clocks
<1>4. Quieter
  BY DeafSays DEF Mount
<1> QED
  BY <1>1, <1>2, <1>3, <1>4, QuieterTypes

\* A game is started from the room (Start).
LEMMA StartTypes ==
  ASSUME TypeInv, NEW d \in Devices, Start(d)
  PROVE  TypeInv'
<1>1. /\ ControlTypes /\ Generated /\ ClockTypes /\ ScorerTypes
      /\ OutboxTypes /\ NetTypes /\ ToldTypes
  BY DEF TypeInv
<1>2. /\ session' = Opened(session, d)
      /\ stored' = [stored EXCEPT ![d] = [token |-> session'.generation, sequence |-> 0]]
      /\ screen' = [screen EXCEPT ![d] = "scoring"]
      /\ Mount(d)
      /\ UNCHANGED <<received, clocks, scored, outbox, told>>
  BY DEF Start
<1>3. ToldTypes' /\ (Lost => Lost')
  BY <1>1, <1>2, StrikesTypes DEF Start, ToldTypes, Lost
<1>4. ControlTypes' /\ Generated'
  BY <1>1, <1>2, <1>3, OpenedTypes
<1>5. session'.generation \in Generations
  BY <1>4 DEF ControlTypes
<1>6. ScorerTypes' /\ NetTypes' /\ ClockTypes'
  <2>1. /\ runtime' \in [Devices -> [refused : BOOLEAN, tried : BOOLEAN,
                                     conflict : {"none", "offer", "held"}]]
        /\ waiting' \subseteq Devices
        /\ NetTypes' /\ ClockTypes'
    BY <1>1, <1>2, MountTypes
  <2>2. stored' \in [Devices -> [token : Generations, sequence : Nat]]
    BY <1>1, <1>2, <1>5 DEF ScorerTypes
  <2>3. screen' \in [Devices -> {"out", "scoring", "submitting", "done"}]
    BY <1>1, <1>2 DEF ScorerTypes
  <2>4. scored' = scored
    BY <1>2
  <2> QED
    BY <1>1, <2>1, <2>2, <2>3, <2>4 DEF ScorerTypes
<1>7. OutboxTypes'
  BY <1>1, <1>2 DEF outbox, OutboxTypes
<1> QED
  BY <1>3, <1>4, <1>6, <1>7 DEF TypeInv

\* The tab is reloaded (Reload).
LEMMA ReloadTypes ==
  ASSUME TypeInv, NEW d \in Devices, Reload(d)
  PROVE  TypeInv'
<1>1. /\ ControlTypes /\ Generated /\ ClockTypes /\ ScorerTypes
      /\ OutboxTypes /\ NetTypes /\ ToldTypes
  BY DEF TypeInv
<1>2. /\ screen' = [screen EXCEPT ![d] = IF record[d].final > 0 THEN "done" ELSE @]
      /\ runtime' = [runtime EXCEPT ![d] = Fresh]
      /\ waiting' \subseteq waiting \union {d}
      /\ net' = Deaf(d, {"progress", "open", "take over", "final", "retry"})
      /\ writing' \subseteq writing
      /\ UNCHANGED <<control, clocks, scored, stored, record, token, told>>
  BY DEF Reload
<1>3. ToldTypes' /\ (Lost => Lost')
  BY <1>1, <1>2, StrikesTypes DEF Reload
<1>4. ControlTypes' /\ Generated' /\ ClockTypes'
  BY <1>1, <1>2, <1>3 DEF control, clocks, ControlTypes, Generated, ClockTypes
<1>5. ScorerTypes'
  <2>1. runtime' \in [Devices -> [refused : BOOLEAN, tried : BOOLEAN,
                                  conflict : {"none", "offer", "held"}]]
    BY <1>1, <1>2 DEF ScorerTypes, Fresh
  <2>2. screen' \in [Devices -> {"out", "scoring", "submitting", "done"}]
    BY <1>1, <1>2 DEF ScorerTypes
  <2> QED
    BY <1>1, <1>2, <2>1, <2>2 DEF ScorerTypes
<1>6. OutboxTypes'
  BY <1>1, <1>2 DEF OutboxTypes
<1>7. NetTypes'
  <2>1. Quieter
    BY <1>1, <1>2, DeafSays
  <2>2. sends' = sends
    BY <1>2 DEF clocks
  <2> QED
    BY <1>1, <2>1, <2>2, QuieterTypes
<1> QED
  BY <1>3, <1>4, <1>5, <1>6, <1>7 DEF TypeInv

\* A result is corrected, or a clock set back (Correct, SetClockBack).
LEMMA CorrectTypes ==
  ASSUME TypeInv, NEW d \in Devices, Correct(d) \/ SetClockBack(d)
  PROVE  TypeInv'
<1>1. /\ ControlTypes /\ Generated /\ ClockTypes /\ ScorerTypes
      /\ OutboxTypes /\ NetTypes /\ ToldTypes
  BY DEF TypeInv
<1>2. ToldTypes' /\ (Lost => Lost')
  BY <1>1, StrikesTypes DEF Correct, SetClockBack
<1>3. ControlTypes' /\ Generated'
  BY <1>1, <1>2 DEF Correct, SetClockBack, control, ControlTypes, Generated
<1>4. OutboxTypes'
  BY <1>1 DEF Correct, SetClockBack, outbox, scorer, OutboxTypes
<1>5. CASE Correct(d)
  <2>1. /\ Mount(d) /\ screen' = [screen EXCEPT ![d] = "scoring"]
        /\ UNCHANGED <<clocks, scored, stored>>
    BY <1>5 DEF Correct
  <2>2. /\ runtime' \in [Devices -> [refused : BOOLEAN, tried : BOOLEAN,
                                     conflict : {"none", "offer", "held"}]]
        /\ waiting' \subseteq Devices
        /\ NetTypes' /\ ClockTypes'
    BY <1>1, <2>1, MountTypes
  <2>3. ScorerTypes'
    BY <1>1, <2>1, <2>2 DEF ScorerTypes
  <2> QED
    BY <1>2, <1>3, <1>4, <2>2, <2>3 DEF TypeInv
<1>6. CASE SetClockBack(d)
  <2>1. /\ offset' = [offset EXCEPT ![d] = -MaxSends]
        /\ UNCHANGED <<sends, scorer, net>>
    BY <1>6 DEF SetClockBack
  <2>2. ClockTypes'
    BY <1>1, <2>1 DEF ClockTypes
  <2>3. ScorerTypes' /\ NetTypes'
    BY <1>1, <2>1 DEF scorer, ScorerTypes, NetTypes
  <2> QED
    BY <1>2, <1>3, <1>4, <2>2, <2>3 DEF TypeInv
<1> QED
  BY <1>5, <1>6

\* The scorer scores, a poll offers the newest snapshot again, and a snapshot is
\* sent (Score, Poll, Flush).
LEMMA ProgressTypes ==
  ASSUME TypeInv, NEW d \in Devices, Score(d) \/ Poll(d) \/ Flush(d)
  PROVE  TypeInv'
<1>1. /\ ControlTypes /\ Generated /\ ClockTypes /\ ScorerTypes
      /\ OutboxTypes /\ NetTypes /\ ToldTypes
  BY DEF TypeInv
<1>2. UNCHANGED <<control, told, spent>>
  BY DEF Score, Poll, Flush
<1>3. ControlTypes' /\ Generated' /\ ToldTypes'
  BY <1>1, <1>2 DEF control, ControlTypes, Generated, Lost, ToldTypes
<1>4. CASE Score(d)
  <2>1. /\ scored' = [scored EXCEPT ![d] = @ + 1] /\ scored[d] < MaxScores[d]
        /\ waiting' = waiting \union {d}
        /\ UNCHANGED <<clocks, screen, stored, runtime, outbox, net>>
    BY <1>4 DEF Score
  <2>2. \A e \in Devices : scored[e] \in Nat /\ MaxScores[e] \in Nat
    BY <1>1, Bounds DEF ScorerTypes
  <2>3. /\ scored' \in [Devices -> Nat]
        /\ \A e \in Devices : scored'[e] <= MaxScores[e] /\ scored[e] <= scored'[e]
    BY <1>1, <2>1, <2>2 DEF ScorerTypes
  <2>4. ScorerTypes'
    BY <1>1, <2>1, <2>3 DEF ScorerTypes
  <2>5. OutboxTypes'
    <3>1. \A e \in Devices : record'[e].final <= scored'[e]
      <4> SUFFICES ASSUME NEW e \in Devices PROVE record[e].final <= scored'[e]
        BY <2>1 DEF outbox
      <4>1. record[e].final \in Nat /\ record[e].final <= scored[e]
        BY <1>1 DEF OutboxTypes
      <4>2. scored'[e] \in Nat /\ scored[e] <= scored'[e]
        BY <2>3
      <4> QED
        BY <2>2, <4>1, <4>2
    <3> QED
      BY <1>1, <2>1, <3>1 DEF outbox, OutboxTypes
  <2>6. ClockTypes' /\ NetTypes'
    BY <1>1, <2>1 DEF clocks, ClockTypes, NetTypes
  <2> QED
    BY <1>3, <2>4, <2>5, <2>6 DEF TypeInv
<1>5. CASE Poll(d)
  <2>1. /\ waiting' = waiting \union {d}
        /\ UNCHANGED <<clocks, screen, scored, stored, runtime, outbox, net>>
    BY <1>5 DEF Poll
  <2>2. ScorerTypes' /\ OutboxTypes'
    BY <1>1, <2>1 DEF ScorerTypes, outbox, OutboxTypes
  <2>3. ClockTypes' /\ NetTypes'
    BY <1>1, <2>1 DEF clocks, ClockTypes, NetTypes
  <2> QED
    BY <1>3, <2>2, <2>3 DEF TypeInv
<1>6. CASE Flush(d)
  <2>1. /\ sends < MaxSends /\ waiting' = waiting \ {d}
        /\ UNCHANGED <<offset, screen, scored, runtime, outbox>>
    BY <1>6 DEF Flush
  <2>2. OutboxTypes'
    BY <1>1, <2>1 DEF outbox, OutboxTypes
  <2>3. CASE UNCHANGED <<sends, stored, net>>
    <3>1. ScorerTypes' /\ ClockTypes' /\ NetTypes'
      BY <1>1, <2>1, <2>3 DEF ScorerTypes, ClockTypes, NetTypes
    <3> QED
      BY <1>3, <2>2, <3>1 DEF TypeInv
  <2>4. CASE /\ sends' = sends + 1
             /\ stored' = [stored EXCEPT ![d].sequence = NextSequence(d)]
             /\ net' = net \union {Request(d, "progress", stored[d].token,
                                           NextSequence(d), sends + 1)}
    <3> DEFINE q == Request(d, "progress", stored[d].token, NextSequence(d), sends + 1)
    <3>1. NextSequence(d) \in Nat /\ sends \in Nat
      BY <1>1, Bounds, NextSequenceGrows DEF ClockTypes
    <3>2. ClockTypes'
      BY <1>1, <2>1, <2>4, <3>1, Bounds DEF ClockTypes
    <3>3. ScorerTypes'
      BY <1>1, <2>1, <2>4, <3>1 DEF ScorerTypes
    <3>4. q \in Requests
      <4>1. stored[d].token \in Generations /\ sends + 1 \in Nat
        BY <1>1, <3>1 DEF ScorerTypes
      <4> QED
        BY <3>1, <4>1, RequestTypes
    <3>5. q.body = sends'
      BY <2>4 DEF Request
    <3> HIDE DEF q
    <3>6. \A r \in net' : r \in net \/ r = q
      BY <2>4 DEF q
    <3>7. net' \subseteq Requests
      BY <1>1, <3>4, <3>6 DEF NetTypes
    <3>8. ASSUME NEW r \in net', r.kind = "progress" PROVE r.body <= sends'
      <4>1. CASE r = q
        BY <2>4, <3>1, <3>5, <4>1
      <4>2. CASE r \in net
        <5>1. r.body <= sends /\ r.body \in Nat
          BY <1>1, <3>8, <4>2 DEF NetTypes, Requests
        <5> QED
          BY <2>4, <3>1, <5>1
      <4> QED
        BY <3>6, <4>1, <4>2
    <3>9. q.kind \notin Finals
      BY DEF q, Request, Finals
    <3>10. \A r \in net' : r.kind \in Finals => r.answer \in FinalAnswers
      BY <1>1, <3>6, <3>9 DEF NetTypes
    <3>11. NetTypes'
      BY <3>7, <3>8, <3>10 DEF NetTypes
    <3> QED
      BY <1>3, <2>2, <3>2, <3>3, <3>11 DEF TypeInv
  <2> QED
    BY <1>6, <2>3, <2>4 DEF Flush
<1> QED
  BY <1>4, <1>5, <1>6

\* What a refused write changes (Noted).
LEMMA NotedTypes ==
  ASSUME NEW state \in [refused : BOOLEAN, tried : BOOLEAN,
                        conflict : {"none", "offer", "held"}],
         NEW answer
  PROVE  Noted(state, answer) \in [refused : BOOLEAN, tried : BOOLEAN,
                                   conflict : {"none", "offer", "held"}]
<1>1. state.refused \in BOOLEAN /\ (answer = "unknown") \in BOOLEAN
  OBVIOUS
<1>2. (state.refused \/ answer = "unknown") \in BOOLEAN
  BY <1>1
<1> QED
  BY <1>2 DEF Noted

\* A device hears an answer (HearProgress, HearOpen, HearTakeOver).
LEMMA HearTypes ==
  ASSUME TypeInv, NEW r \in net, HearProgress(r) \/ HearOpen(r) \/ HearTakeOver(r)
  PROVE  TypeInv'
<1>1. /\ ControlTypes /\ Generated /\ ClockTypes /\ ScorerTypes
      /\ OutboxTypes /\ NetTypes /\ ToldTypes
  BY DEF TypeInv
<1>2. /\ net' = net \ {r}
      /\ UNCHANGED <<control, clocks, screen, scored, waiting, outbox, spent>>
  BY DEF HearProgress, HearOpen, HearTakeOver
<1>3. r \in Requests /\ r.device \in Devices /\ r.token \in Generations
  BY <1>1 DEF NetTypes, Requests
<1>4. ControlTypes' /\ Generated' /\ ClockTypes' /\ OutboxTypes' /\ NetTypes'
  BY <1>1, <1>2 DEF control, ControlTypes, Generated, Lost, clocks, ClockTypes, outbox,
     OutboxTypes, NetTypes
<1> DEFINE States == [refused : BOOLEAN, tried : BOOLEAN, conflict : {"none", "offer", "held"}]
<1>5. runtime \in [Devices -> States] /\ runtime[r.device] \in States
  BY <1>1, <1>3 DEF ScorerTypes
<1>6. Noted(runtime[r.device], r.answer) \in States
  BY <1>5, NotedTypes
<1>7. CASE HearProgress(r)
  <2>1. /\ runtime' = [runtime EXCEPT ![r.device] = Noted(runtime[r.device], r.answer)]
        /\ UNCHANGED stored
    BY <1>7 DEF HearProgress
  <2>2. runtime' \in [Devices -> States]
    BY <1>3, <1>5, <1>6, <2>1
  <2>3. ScorerTypes'
    BY <1>1, <1>2, <2>1, <2>2 DEF ScorerTypes
  <2>4. ToldTypes'
    <3>1. CASE r.answer # "ok"
      BY <1>1, <1>2, <1>7, <3>1 DEF HearProgress, ToldTypes
    <3>2. CASE r.answer = "ok"
      <4> DEFINE before == IF told[r.device].generation = r.token
                           THEN told[r.device].snapshot ELSE 0
                 said == [generation |-> r.token, snapshot |-> Max({r.body, before})]
      <4>1. told' = [told EXCEPT ![r.device] = said]
        BY <1>7, <3>2 DEF HearProgress
      <4>2. /\ r.body \in 0..MaxSends /\ before \in 0..MaxSends
            /\ r.body \in Int /\ before \in Int
        <5>1. r.body \in Nat /\ r.body <= sends /\ sends \in 0..MaxSends
          BY <1>1, <1>3, <1>7 DEF HearProgress, NetTypes, Requests, ClockTypes
        <5>2. told[r.device].snapshot \in 0..MaxSends
          BY <1>1, <1>3 DEF ToldTypes
        <5> QED
          BY <5>1, <5>2, Bounds
      <4> HIDE DEF before
      <4>3. Max({r.body, before}) \in {r.body, before}
        BY <4>2, MaxOfTwo
      <4>4. said \in [generation : Generations, snapshot : 0..MaxSends]
        BY <1>3, <4>2, <4>3
      <4> HIDE DEF said
      <4> QED
        BY <1>1, <1>2, <1>3, <4>1, <4>4 DEF ToldTypes
    <3> QED
      BY <3>1, <3>2
  <2> QED
    BY <1>4, <2>3, <2>4 DEF TypeInv
<1>8. CASE HearOpen(r)
  <2>1. /\ runtime' = [runtime EXCEPT ![r.device] =
                 [Fresh EXCEPT !.conflict = IF r.answer = "writer" THEN "none" ELSE "held"]]
        /\ stored' = [stored EXCEPT ![r.device].token = r.token]
        /\ UNCHANGED told
    BY <1>8 DEF HearOpen
  <2>2. runtime' \in [Devices -> States]
    BY <1>3, <1>5, <2>1 DEF Fresh
  <2>3. stored' \in [Devices -> [token : Generations, sequence : Nat]]
    BY <1>1, <1>3, <2>1 DEF ScorerTypes
  <2>4. ScorerTypes'
    BY <1>1, <1>2, <2>2, <2>3 DEF ScorerTypes
  <2>5. ToldTypes'
    BY <1>1, <1>2, <2>1 DEF ToldTypes
  <2> QED
    BY <1>4, <2>4, <2>5 DEF TypeInv
<1>9. CASE HearTakeOver(r)
  <2> DEFINE state == IF r.answer = "ok" THEN [runtime[r.device] EXCEPT !.conflict = "none"]
                      ELSE Noted(runtime[r.device], r.answer)
  <2>1. runtime' = [runtime EXCEPT ![r.device] = state] /\ UNCHANGED <<stored, told>>
    BY <1>9 DEF HearTakeOver
  <2>2. state \in States
    BY <1>5, <1>6
  <2> HIDE DEF state
  <2>3. runtime' \in [Devices -> States]
    BY <1>3, <1>5, <2>1, <2>2
  <2>4. ScorerTypes'
    BY <1>1, <1>2, <2>1, <2>3 DEF ScorerTypes
  <2>5. ToldTypes'
    BY <1>1, <1>2, <2>1 DEF ToldTypes
  <2> QED
    BY <1>4, <2>4, <2>5 DEF TypeInv
<1> QED
  BY <1>7, <1>8, <1>9

\* A refused session is reopened, and a session taken over (Repair, Reconnect,
\* TakeOver).
LEMMA AskingTypes ==
  ASSUME TypeInv, NEW d \in Devices, Repair(d) \/ Reconnect(d) \/ TakeOver(d)
  PROVE  TypeInv'
<1>1. /\ ControlTypes /\ Generated /\ ClockTypes /\ ScorerTypes
      /\ OutboxTypes /\ NetTypes /\ ToldTypes
  BY DEF TypeInv
<1>2. /\ runtime' \in {runtime, [runtime EXCEPT ![d].tried = TRUE]}
      /\ UNCHANGED <<control, clocks, screen, scored, waiting, stored, outbox, told, spent>>
  BY DEF Repair, Reconnect, TakeOver, scorer
<1>3. /\ ControlTypes' /\ Generated' /\ ClockTypes' /\ OutboxTypes' /\ ToldTypes'
  BY <1>1, <1>2 DEF control, ControlTypes, Generated, Lost, clocks, ClockTypes, outbox,
     OutboxTypes, ToldTypes
<1>4. ScorerTypes'
  BY <1>1, <1>2 DEF ScorerTypes
<1>5. NetTypes'
  <2>1. \E t \in Generations, kind \in {"open", "take over"} :
          net' = net \union {Request(d, kind, t, 0, 0)}
    <3>1. 0 \in Generations /\ stored[d].token \in Generations
      BY <1>1 DEF ScorerTypes, Generations
    <3> QED
      BY <3>1 DEF Repair, Reconnect, TakeOver, AskOpen
  <2>2. UNCHANGED sends
    BY <1>2 DEF clocks
  <2> QED
    BY <1>1, <2>1, <2>2, AskTypes
<1> QED
  BY <1>3, <1>4, <1>5 DEF TypeInv

Writes == [device : Devices, kind : {"final", "retry"}, outcome : Outcomes, seen : Deliveries]

\* An outcome is written behind what is queued for the record (Writing).
LEMMA WritingTypes ==
  ASSUME OutboxTypes, NEW d \in Devices, NEW kind \in {"final", "retry"},
         NEW outcome \in Outcomes
  PROVE  /\ Writing(d, kind, outcome) \subseteq Writes
         /\ \A w \in Writing(d, kind, outcome) :
              w \in writing \/ (w \in Writes /\ w.device = d /\ w.outcome = outcome)
<1>1. record[d].delivery \in Deliveries
  BY DEF OutboxTypes
<1> QED
  BY <1>1 DEF OutboxTypes, Writing, Writes

\* The result is submitted (Submit).
LEMMA SubmitTypes ==
  ASSUME TypeInv, NEW d \in Devices, Submit(d)
  PROVE  TypeInv'
<1>1. /\ ControlTypes /\ Generated /\ ClockTypes /\ ScorerTypes
      /\ OutboxTypes /\ NetTypes /\ ToldTypes
  BY DEF TypeInv
<1>2. /\ screen' = [screen EXCEPT ![d] = "submitting"]
      /\ record' = [record EXCEPT ![d].final = scored[d]]
      /\ token' = [token EXCEPT ![d] = stored[d].token]
      /\ UNCHANGED <<control, clocks, scored, waiting, stored, runtime, told, spent>>
  BY DEF Submit
<1>3. ControlTypes' /\ Generated' /\ ClockTypes' /\ ToldTypes'
  BY <1>1, <1>2 DEF control, ControlTypes, Generated, Lost, clocks, ClockTypes, ToldTypes
<1>4. ScorerTypes'
  BY <1>1, <1>2 DEF ScorerTypes
<1>5. scored[d] \in Nat /\ stored[d].token \in Generations /\ UNCHANGED sends
  BY <1>1, <1>2 DEF ScorerTypes, clocks
<1>6. NetTypes'
  <2>1. CASE UNCHANGED net
    BY <1>1, <1>5, <2>1 DEF NetTypes
  <2>2. CASE net' = net \union {Request(d, "final", stored[d].token, 0, scored[d])}
    BY <1>1, <1>5, <2>2, AskTypes
  <2> QED
    BY <2>1, <2>2 DEF Submit
<1>7. writing' \subseteq Writes
  <2>1. Refusal(d) \in Outcomes
    BY DEF Refusal, Outcome, Outcomes, Deliveries
  <2>2. writing' \in {writing, Writing(d, "final", Refusal(d))}
    BY DEF Submit
  <2>3. Writing(d, "final", Refusal(d)) \subseteq Writes
    BY <1>1, <2>1, WritingTypes
  <2> QED
    BY <1>1, <2>2, <2>3 DEF OutboxTypes, Writes
<1>8. /\ record' \in [Devices -> [final : Nat, delivery : Deliveries,
                                  retry : {"unknown", "yes", "no"}]]
      /\ \A e \in Devices : record'[e].final <= scored'[e]
  <2>1. record \in [Devices -> [final : Nat, delivery : Deliveries,
                                retry : {"unknown", "yes", "no"}]]
    BY <1>1 DEF OutboxTypes
  <2>2. record' \in [Devices -> [final : Nat, delivery : Deliveries,
                                 retry : {"unknown", "yes", "no"}]]
    BY <1>2, <1>5, <2>1
  <2>3. record'[d].final = scored[d] /\ scored[d] <= scored[d]
    BY <1>2, <1>5, <2>1
  <2>4. \A e \in Devices \ {d} : record'[e] = record[e]
    BY <1>2, <2>1
  <2> QED
    BY <1>1, <1>2, <2>2, <2>3, <2>4 DEF OutboxTypes
<1>9. token' \in [Devices -> Generations]
  BY <1>1, <1>2, <1>5 DEF OutboxTypes
<1>10. OutboxTypes'
  BY <1>7, <1>8, <1>9 DEF OutboxTypes, Writes
<1> QED
  BY <1>3, <1>4, <1>6, <1>10 DEF TypeInv

\* What an answer means to the record (Classify).
LEMMA ClassifyTypes ==
  ASSUME NEW answer \in FinalAnswers
  PROVE  /\ Classify(answer) \in Outcomes
         /\ Classify(answer).delivery = "sent" => answer = "ok"
BY SessionAssumption DEF FinalAnswers, Classify, Outcome, Outcomes, Deliveries

\* The answer to a final is heard, or a request given up (HearFinal, GiveUp).
LEMMA OutcomeTypes ==
  ASSUME TypeInv, NEW r \in net, HearFinal(r) \/ GiveUp(r)
  PROVE  TypeInv'
<1>1. /\ ControlTypes /\ Generated /\ ClockTypes /\ ScorerTypes
      /\ OutboxTypes /\ NetTypes /\ ToldTypes
  BY DEF TypeInv
<1>2. UNCHANGED <<control, clocks, screen, scored, waiting, stored, record, token, told>>
  BY DEF HearFinal, GiveUp, scorer
<1>3. r \in Requests /\ r.device \in Devices
  BY <1>1 DEF NetTypes, Requests
<1>4. ToldTypes' /\ (Lost => Lost')
  <2>1. CASE HearFinal(r)
    BY <1>1, <2>1 DEF HearFinal, ToldTypes, Lost
  <2>2. CASE GiveUp(r)
    BY <1>1, <1>2, <2>2, StrikesTypes DEF GiveUp
  <2> QED
    BY <2>1, <2>2
<1>5. ControlTypes' /\ Generated' /\ ClockTypes'
  BY <1>1, <1>2, <1>4 DEF control, ControlTypes, Generated, clocks, ClockTypes
<1>6. ScorerTypes'
  <2> DEFINE States == [refused : BOOLEAN, tried : BOOLEAN,
                        conflict : {"none", "offer", "held"}]
  <2>1. runtime \in [Devices -> States] /\ runtime[r.device] \in States
    BY <1>1, <1>3 DEF ScorerTypes
  <2>2. Noted(runtime[r.device], r.answer) \in States
    BY <2>1, NotedTypes
  <2>3. runtime' \in {runtime, [runtime EXCEPT ![r.device] =
                                  Noted(runtime[r.device], r.answer)]}
    BY DEF HearFinal, GiveUp, scorer
  <2>4. runtime' \in [Devices -> States]
    BY <1>3, <2>1, <2>2, <2>3
  <2> QED
    BY <1>1, <1>2, <2>4 DEF ScorerTypes
<1>7. OutboxTypes'
  <2>1. PICK outcome \in Outcomes :
          \/ UNCHANGED writing
          \/ r.kind \in Finals /\ writing' = Writing(r.device, r.kind, outcome)
    <3>1. CASE HearFinal(r)
      <4>1. r.kind \in Finals /\ writing' = Writing(r.device, r.kind, Classify(r.answer))
        BY <3>1 DEF HearFinal, Finals
      <4>2. Classify(r.answer) \in Outcomes
        BY <1>1, <4>1, ClassifyTypes DEF NetTypes
      <4> QED
        BY <4>1, <4>2
    <3>2. CASE GiveUp(r)
      <4>1. Classify(None) \in Outcomes
        BY ClassifyTypes DEF FinalAnswers
      <4> QED
        BY <3>2, <4>1 DEF GiveUp, Finals
    <3> QED
      BY <3>1, <3>2
  <2>2. writing' \subseteq Writes
    <3>1. r.kind \in Finals => Writing(r.device, r.kind, outcome) \subseteq Writes
      BY <1>1, <1>3, WritingTypes DEF Finals
    <3> QED
      BY <1>1, <2>1, <3>1 DEF OutboxTypes, Writes
  <2> QED
    BY <1>1, <1>2, <2>2 DEF OutboxTypes, Writes
<1>8. NetTypes'
  <2>1. Quieter
    BY <1>1, FewerSay, GivenUpSays DEF HearFinal
  <2>2. UNCHANGED sends
    BY <1>2 DEF clocks
  <2> QED
    BY <1>1, <2>1, <2>2, QuieterTypes
<1> QED
  BY <1>4, <1>5, <1>6, <1>7, <1>8 DEF TypeInv

\* An outcome is written to the record (Record).
LEMMA RecordTypes ==
  ASSUME TypeInv, NEW w \in writing, Record(w)
  PROVE  /\ TypeInv'
         /\ w \in Writes /\ writing' \subseteq writing
         /\ \A d \in Devices : record'[d].final = record[d].final
         /\ \A d \in Devices :
              record'[d].delivery = "sent" => \/ record[d].delivery = "sent"
                                              \/ w.device = d /\ w.outcome.delivery = "sent"
<1>1. /\ ControlTypes /\ Generated /\ ClockTypes /\ ScorerTypes
      /\ OutboxTypes /\ NetTypes /\ ToldTypes
  BY DEF TypeInv
<1>2. w \in Writes /\ w.device \in Devices /\ w.outcome \in Outcomes
  BY <1>1 DEF OutboxTypes, Writes
<1> DEFINE old == record[w.device]
           Records == [final : Nat, delivery : Deliveries, retry : {"unknown", "yes", "no"}]
<1>3. PICK seen :
        /\ writing' = writing \ {w}
        /\ record' = [record EXCEPT ![w.device] = Recorded(old, w.outcome, seen)]
        /\ token' = [token EXCEPT ![w.device] = TokenAfter(token[w.device], w.outcome)]
  BY DEF Record
<1>4. /\ screen' \in {screen, [screen EXCEPT ![w.device] = "done"]}
      /\ waiting' \subseteq waiting
      /\ UNCHANGED <<control, clocks, scored, stored, runtime, net, told, spent>>
  BY DEF Record
<1>5. ControlTypes' /\ Generated' /\ ClockTypes' /\ NetTypes' /\ ToldTypes'
  BY <1>1, <1>4 DEF control, ControlTypes, Generated, Lost, clocks, ClockTypes, NetTypes,
     ToldTypes
<1>6. ScorerTypes'
  BY <1>1, <1>4 DEF ScorerTypes
<1>7. record \in [Devices -> Records] /\ old \in Records
  BY <1>1, <1>2 DEF OutboxTypes
<1>8. /\ Recorded(old, w.outcome, seen) \in Records
      /\ Recorded(old, w.outcome, seen).final = old.final
      /\ Recorded(old, w.outcome, seen).delivery \in {old.delivery, w.outcome.delivery}
  <2>1. w.outcome.delivery \in Deliveries /\ w.outcome.retry \in {"yes", "no"}
    BY <1>2 DEF Outcomes
  <2> QED
    BY <1>7, <2>1 DEF Recorded
<1> HIDE DEF Records
<1>9. record' \in [Devices -> Records]
  BY <1>3, <1>7, <1>8
<1>10. /\ record'[w.device] = Recorded(old, w.outcome, seen)
       /\ \A d \in Devices \ {w.device} : record'[d] = record[d]
  BY <1>2, <1>3, <1>7
<1>11. \A d \in Devices : record'[d].final = record[d].final
  BY <1>8, <1>10
<1>12. \A d \in Devices :
         record'[d].delivery = "sent" => \/ record[d].delivery = "sent"
                                         \/ w.device = d /\ w.outcome.delivery = "sent"
  BY <1>8, <1>10
<1>13. token' \in [Devices -> Generations]
  <2>1. TokenAfter(token[w.device], w.outcome) \in Generations
    BY <1>1, <1>2 DEF OutboxTypes, TokenAfter, Generations
  <2> QED
    BY <1>1, <1>3, <2>1 DEF OutboxTypes
<1>14. OutboxTypes'
  <2>1. \A d \in Devices : record'[d].final <= scored'[d]
    BY <1>1, <1>4, <1>11 DEF OutboxTypes
  <2> QED
    BY <1>1, <1>3, <1>9, <1>13, <2>1 DEF OutboxTypes, Records
<1> QED
  BY <1>2, <1>3, <1>5, <1>6, <1>11, <1>12, <1>14 DEF TypeInv

\* The token for a retry expires, and a retry is sent (Expire, Send).
LEMMA RetryTypes ==
  ASSUME TypeInv, NEW d \in Devices, Expire(d) \/ Send(d)
  PROVE  TypeInv'
<1>1. /\ ControlTypes /\ Generated /\ ClockTypes /\ ScorerTypes
      /\ OutboxTypes /\ NetTypes /\ ToldTypes
  BY DEF TypeInv
<1>2. /\ token' \in {token, [token EXCEPT ![d] = 0]}
      /\ UNCHANGED <<control, clocks, scorer, record, writing, told>>
  BY DEF Expire, Send, outbox
<1>3. ToldTypes' /\ (Lost => Lost')
  <2>1. CASE Send(d)
    BY <1>1, <2>1 DEF Send, ToldTypes, Lost
  <2>2. CASE Expire(d)
    BY <1>1, <1>2, <2>2, StrikesTypes DEF Expire
  <2> QED
    BY <2>1, <2>2
<1>4. ControlTypes' /\ Generated' /\ ClockTypes' /\ ScorerTypes'
  BY <1>1, <1>2, <1>3 DEF control, ControlTypes, Generated, clocks, ClockTypes, scorer,
     ScorerTypes
<1>5. OutboxTypes'
  <2>1. scored' = scored /\ 0 \in Generations
    BY <1>2 DEF scorer, Generations
  <2> QED
    BY <1>1, <1>2, <2>1 DEF OutboxTypes
<1>6. NetTypes'
  <2>1. CASE Expire(d)
    BY <1>1, <2>1 DEF Expire, NetTypes, clocks
  <2>2. CASE Send(d)
    <3>1. net' = net \union {Request(d, "retry", token[d], 0, record[d].final)}
      BY <2>2 DEF Send
    <3>2. token[d] \in Generations /\ record[d].final \in Nat
      BY <1>1 DEF OutboxTypes
    <3>3. UNCHANGED sends
      BY <1>2 DEF clocks
    <3> QED
      BY <1>1, <3>1, <3>2, <3>3, AskTypes
  <2> QED
    BY <2>1, <2>2
<1> QED
  BY <1>3, <1>4, <1>5, <1>6 DEF TypeInv

\* The invariant holds initially (Init).
LEMMA InitTypes == Init => TypeInv
<1> SUFFICES ASSUME Init PROVE TypeInv
  OBVIOUS
<1>1. MaxSends \in Nat /\ \A d \in Devices : MaxScores[d] \in Nat
  BY Bounds
<1>2. ControlTypes /\ Generated
  BY <1>1 DEF Init, ControlTypes, Generated, Generations
<1>3. ClockTypes
  BY <1>1 DEF Init, ClockTypes
<1>4. ScorerTypes
  BY <1>1 DEF Init, ScorerTypes, Fresh, Generations
<1>5. OutboxTypes
  BY DEF Init, OutboxTypes, Generations, Deliveries
<1>6. NetTypes /\ ToldTypes
  BY <1>1 DEF Init, NetTypes, ToldTypes, Generations
<1> QED
  BY <1>2, <1>3, <1>4, <1>5, <1>6 DEF TypeInv

\* Every step keeps the invariant (Next).
LEMMA StepTypes == TypeInv /\ [Next]_vars => TypeInv'
<1> SUFFICES ASSUME TypeInv, [Next]_vars PROVE TypeInv'
  OBVIOUS
<1>1. CASE Forget
  BY <1>1, ForgetTypes
<1>2. ASSUME NEW r \in net, Serve(r) PROVE TypeInv'
  BY <1>2, ServeTypes
<1>3. ASSUME NEW r \in net, GiveUp(r) \/ HearFinal(r) PROVE TypeInv'
  BY <1>3, OutcomeTypes
<1>4. ASSUME NEW r \in net, HearProgress(r) \/ HearOpen(r) \/ HearTakeOver(r) PROVE TypeInv'
  BY <1>4, HearTypes
<1>5. ASSUME NEW w \in writing, Record(w) PROVE TypeInv'
  BY <1>5, RecordTypes
<1>6. ASSUME NEW d \in Devices, Start(d) \/ Reload(d) \/ Correct(d) \/ SetClockBack(d)
      PROVE  TypeInv'
  BY <1>6, StartTypes, ReloadTypes, CorrectTypes
<1>7. ASSUME NEW d \in Devices, Score(d) \/ Flush(d) \/ Poll(d) PROVE TypeInv'
  BY <1>7, ProgressTypes
<1>8. ASSUME NEW d \in Devices, Repair(d) \/ Reconnect(d) \/ TakeOver(d) PROVE TypeInv'
  BY <1>8, AskingTypes
<1>9. ASSUME NEW d \in Devices, Submit(d) PROVE TypeInv'
  BY <1>9, SubmitTypes
<1>10. ASSUME NEW d \in Devices, Expire(d) \/ AutoRetry(d) \/ ManualRetry(d) PROVE TypeInv'
  BY <1>10, RetryTypes DEF AutoRetry, ManualRetry
<1>11. CASE UNCHANGED vars
  BY <1>11 DEF vars, control, clocks, scorer, outbox, TypeInv, ControlTypes, Generated, Lost,
     ClockTypes, ScorerTypes, OutboxTypes, NetTypes, ToldTypes
<1> QED
  BY <1>1, <1>2, <1>3, <1>4, <1>5, <1>6, <1>7, <1>8, <1>9, <1>10, <1>11 DEF Next

\* Types, for any devices and bounds: sequences are never negative, a session is
\* lost once and so has two generations at most, a snapshot's time has been and
\* a final is a scoresheet its device had.
THEOREM Types == Spec => []TypeInv
<1> QED
  BY InitTypes, StepTypes, PTL DEF Spec

\* The type invariant that TLC checks follows.
THEOREM TypeCorrect == Spec => []TypeOK
<1>1. TypeInv => TypeOK
  <2> SUFFICES ASSUME TypeInv PROVE TypeOK
    OBVIOUS
  <2>1. /\ ControlTypes /\ Generated /\ ClockTypes /\ ScorerTypes
        /\ OutboxTypes /\ NetTypes /\ ToldTypes
    BY DEF TypeInv
  <2>2. /\ session.status \in {"none", "open", "final"} /\ session.generation \in 0..2
        /\ session.tokens \subseteq Devices /\ session.writer \in Devices \union {None}
        /\ session.sequence \in Nat /\ session.snapshot \in 0..MaxSends
        /\ received \subseteq [device : Devices, sheet : Sheets]
    BY <2>1 DEF ControlTypes, Generations, Sheets
  <2>3. net \subseteq Requests
    BY <2>1 DEF NetTypes
  <2> QED
    BY <2>1, <2>2, <2>3 DEF TypeOK, ClockTypes, ScorerTypes, OutboxTypes, ToldTypes,
       Generations, Sheets, Requests
<1> QED
  BY <1>1, Types, PTL
-----------------------------------------------------------------------------
(* Receipts.                                                               *)

\* Control received a final of the device's record, itself or one it corrects.
HasFinal(d) == \E f \in received : f.device = d /\ f.sheet <= record[d].final

FinalsSent ==
  \A r \in net : r.kind \in Finals =>
    /\ r.body <= record[r.device].final
    /\ r.answer = "ok" => [device |-> r.device, sheet |-> r.body] \in received

ReceiptsTrue ==
  /\ \A w \in writing : w.outcome.delivery = "sent" => HasFinal(w.device)
  /\ \A d \in Devices : record[d].delivery = "sent" => HasFinal(d)

ReceiptInv == FinalsSent /\ ReceiptsTrue

\* A final that is sent or answered says nothing else.
NoNewFinals == \A r \in net' : r.kind \in Finals => SaidIn(r, net)

\* Control keeps its results and the records their finals, or get newer ones.
Grows ==
  /\ received \subseteq received'
  /\ \A d \in Devices : record[d].final <= record'[d].final

\* A final control received stays one of the record.
LEMMA HasFinalGrows ==
  ASSUME TypeInv, TypeInv', Grows, NEW d \in Devices, HasFinal(d)
  PROVE  HasFinal(d)'
<1>1. PICK f \in received : f.device = d /\ f.sheet <= record[d].final
  BY DEF HasFinal
<1>2. f \in received' /\ record[d].final <= record'[d].final
  BY DEF Grows
<1>3. f.sheet \in Nat /\ record[d].final \in Nat /\ record'[d].final \in Nat
  BY DEF TypeInv, ControlTypes, OutboxTypes
<1>4. f.sheet <= record'[d].final
  BY <1>1, <1>2, <1>3
<1> QED
  BY <1>1, <1>2, <1>4 DEF HasFinal

\* The finals under way when none is added.
LEMMA FinalsKept ==
  ASSUME TypeInv, TypeInv', FinalsSent, Grows, NEW r, SaidIn(r, net), r.kind \in Finals
  PROVE  /\ r.body <= record'[r.device].final
         /\ r.answer = "ok" => [device |-> r.device, sheet |-> r.body] \in received'
<1>1. PICK q \in net : /\ q.device = r.device /\ q.kind = r.kind
                       /\ q.body = r.body /\ q.answer = r.answer
  BY DEF SaidIn
<1>2. /\ q.body <= record[q.device].final
      /\ q.answer = "ok" => [device |-> q.device, sheet |-> q.body] \in received
  BY <1>1 DEF FinalsSent
<1>3. q.device \in Devices /\ q.body \in Nat
  BY DEF TypeInv, NetTypes, Requests
<1>4. record[q.device].final \in Nat /\ record'[q.device].final \in Nat
  BY <1>3 DEF TypeInv, OutboxTypes
<1>5. record[q.device].final <= record'[q.device].final
  BY <1>3 DEF Grows
<1>6. q.body <= record'[q.device].final
  BY <1>2, <1>3, <1>4, <1>5
<1> QED
  BY <1>1, <1>2, <1>6 DEF Grows

\* Steps that touch neither results nor records (Forget, Start, Reload, progress,
\* repair and take-over).
LEMMA QuietReceipts ==
  ASSUME TypeInv, TypeInv', ReceiptInv, UNCHANGED <<received, record>>,
         writing' \subseteq writing, NoNewFinals
  PROVE  ReceiptInv'
<1>1. \A d \in Devices : record[d].final \in Nat
  BY DEF TypeInv, OutboxTypes
<1>2. Grows
  BY <1>1 DEF Grows
<1>3. FinalsSent'
  BY <1>2, FinalsKept DEF NoNewFinals, FinalsSent, ReceiptInv
<1>4. \A d \in Devices : HasFinal(d)' <=> HasFinal(d)
  BY DEF HasFinal
<1>5. \A w \in writing : w.device \in Devices
  BY DEF TypeInv, OutboxTypes
<1>6. ReceiptsTrue'
  BY <1>4, <1>5 DEF ReceiptInv, ReceiptsTrue
<1> QED
  BY <1>3, <1>6 DEF ReceiptInv

\* One more final is sent, with what its record has (Submit, Send).
LEMMA AskedFinal ==
  ASSUME TypeInv, TypeInv', FinalsSent, Grows, NEW d \in Devices, NEW kind, NEW t,
         net' = net \union {Request(d, kind, t, 0, record'[d].final)}
  PROVE  FinalsSent'
<1> SUFFICES ASSUME NEW r \in net', r.kind \in Finals
             PROVE  /\ r.body <= record'[r.device].final
                    /\ r.answer = "ok" => [device |-> r.device, sheet |-> r.body] \in received'
  BY DEF FinalsSent
<1>1. CASE r \in net
  <2>1. SaidIn(r, net)
    BY <1>1 DEF SaidIn
  <2> QED
    BY <2>1, FinalsKept
<1>2. CASE r = Request(d, kind, t, 0, record'[d].final)
  <2>1. /\ r.body = record'[d].final /\ r.device = d /\ r.answer = None
    BY <1>2 DEF Request
  <2>2. record'[d].final \in Nat
    BY DEF TypeInv, OutboxTypes
  <2>3. None # "ok"
    BY SessionAssumption
  <2> QED
    BY <2>1, <2>2, <2>3
<1> QED
  BY <1>1, <1>2

\* Control answers "ok" to the finals it retains (ServeFinal).
LEMMA ServeReceipts ==
  ASSUME TypeInv, TypeInv', ReceiptInv, NEW r \in net, Serve(r)
  PROVE  ReceiptInv'
<1>1. UNCHANGED <<record, writing>> /\ \A d \in Devices : record[d].final \in Nat
  BY DEF Serve, outbox, TypeInv, OutboxTypes
<1>2. received \subseteq received'
  BY DEF Serve, ServeProgress, ServeOpen, ServeTakeOver, ServeFinal, control
<1>3. Grows
  BY <1>1, <1>2 DEF Grows
<1>4. r \in Requests /\ NetTypes
  BY DEF TypeInv, NetTypes
<1>5. PICK answer \in Answers, t \in Generations :
        /\ net' = AnsweredBy(r, answer, t)
        /\ r.kind \in Finals /\ answer = "ok" =>
             [device |-> r.device, sheet |-> r.body] \in received'
  <2>1. r.token \in Generations /\ session'.generation \in Generations
    BY <1>4 DEF Requests, TypeInv, ControlTypes
  <2>2. CASE ServeProgress(r) \/ ServeTakeOver(r)
    BY <2>1, <2>2 DEF ServeProgress, ServeTakeOver, Finals, Answers
  <2>3. CASE ServeOpen(r)
    BY <2>1, <2>3 DEF ServeOpen, Finals, Answers
  <2>4. CASE ServeFinal(r)
    BY <2>1, <2>4 DEF ServeFinal, Finals, Answers
  <2> QED
    BY <2>2, <2>3, <2>4 DEF Serve
<1>6. AnswerOnly(r, answer, t)
  BY <1>4, <1>5, AnswerSays
<1>7. FinalsSent'
  <2> SUFFICES ASSUME NEW q \in net', q.kind \in Finals
               PROVE  /\ q.body <= record'[q.device].final
                      /\ q.answer = "ok" =>
                           [device |-> q.device, sheet |-> q.body] \in received'
    BY DEF FinalsSent
  <2>1. CASE q \in net
    <3>1. SaidIn(q, net)
      BY <2>1 DEF SaidIn
    <3> QED
      BY <1>3, <3>1, FinalsKept DEF ReceiptInv
  <2>2. CASE q = [r EXCEPT !.answer = answer, !.token = t]
    <3>1. /\ q.body = r.body /\ q.device = r.device /\ q.kind = r.kind /\ q.answer = answer
      BY <1>4, <2>2 DEF Requests
    <3> QED
      BY <1>1, <1>5, <3>1 DEF ReceiptInv, FinalsSent
  <2> QED
    BY <1>6, <2>1, <2>2 DEF AnswerOnly
<1>8. \A d \in Devices : HasFinal(d) => HasFinal(d)'
  BY <1>3, HasFinalGrows
<1>9. \A w \in writing : w.device \in Devices
  BY DEF TypeInv, OutboxTypes
<1>10. ReceiptsTrue'
  BY <1>1, <1>8, <1>9 DEF ReceiptInv, ReceiptsTrue
<1> QED
  BY <1>7, <1>10 DEF ReceiptInv

\* The result is submitted (Submit).
LEMMA SubmitReceipts ==
  ASSUME TypeInv, TypeInv', ReceiptInv, NEW d \in Devices, Submit(d)
  PROVE  ReceiptInv'
<1>1. /\ record' = [record EXCEPT ![d].final = scored[d]]
      /\ UNCHANGED <<received, scored>>
  BY DEF Submit, control
<1>2. \A e \in Devices : record[e].final \in Nat /\ record[e].final <= scored[e]
  BY DEF TypeInv, OutboxTypes
<1>3. /\ \A e \in Devices : record'[e].delivery = record[e].delivery
      /\ record'[d].final = scored[d] /\ \A e \in Devices \ {d} : record'[e] = record[e]
  BY <1>1 DEF TypeInv, OutboxTypes
<1>4. Grows
  BY <1>1, <1>2, <1>3 DEF Grows
<1>5. FinalsSent'
  <2>1. CASE UNCHANGED net
    <3>1. \A r \in net : SaidIn(r, net)
      BY DEF SaidIn
    <3> QED
      BY <1>4, <2>1, <3>1, FinalsKept DEF FinalsSent, ReceiptInv
  <2>2. CASE net' = net \union {Request(d, "final", stored[d].token, 0, scored[d])}
    BY <1>3, <1>4, <2>2, AskedFinal DEF ReceiptInv
  <2> QED
    BY <2>1, <2>2 DEF Submit
<1>6. \A e \in Devices : HasFinal(e) => HasFinal(e)'
  BY <1>4, HasFinalGrows
<1>7. \A w \in writing' : w \in writing \/ w.outcome.delivery # "sent"
  BY DEF Submit, Writing, Refusal, Outcome
<1>8. \A w \in writing : w.device \in Devices
  BY DEF TypeInv, OutboxTypes
<1>9. ReceiptsTrue'
  BY <1>3, <1>6, <1>7, <1>8 DEF ReceiptInv, ReceiptsTrue
<1> QED
  BY <1>5, <1>9 DEF ReceiptInv

\* An answer "ok" is a receipt, and no other outcome is (HearFinal, GiveUp).
LEMMA OutcomeReceipts ==
  ASSUME TypeInv, TypeInv', ReceiptInv, NEW r \in net, HearFinal(r) \/ GiveUp(r)
  PROVE  ReceiptInv'
<1>1. UNCHANGED <<received, record>>
  BY DEF HearFinal, GiveUp, control
<1>2. Quieter
  BY FewerSay, GivenUpSays DEF HearFinal, TypeInv
<1>3. \A d \in Devices : record[d].final \in Nat
  BY DEF TypeInv, OutboxTypes
<1>4. Grows
  BY <1>1, <1>3 DEF Grows
<1>5. FinalsSent'
  BY <1>2, <1>4, FinalsKept DEF Quieter, FinalsSent, ReceiptInv
<1>6. r.device \in Devices
  BY DEF TypeInv, NetTypes, Requests
<1>7. \A w \in writing' : w \in writing \/ (w.device = r.device /\ r.kind \in Finals
                                            /\ (w.outcome.delivery = "sent" => r.answer = "ok"))
  <2>1. CASE HearFinal(r)
    <3>1. r.kind \in Finals /\ writing' = Writing(r.device, r.kind, Classify(r.answer))
      BY <2>1 DEF HearFinal, Finals
    <3>2. Classify(r.answer).delivery = "sent" => r.answer = "ok"
      BY <3>1, ClassifyTypes DEF TypeInv, NetTypes
    <3> QED
      BY <3>1, <3>2 DEF Writing
  <2>2. CASE GiveUp(r)
    <3>1. None # "ok" /\ None \in FinalAnswers
      BY SessionAssumption DEF FinalAnswers
    <3>2. Classify(None).delivery # "sent"
      BY <3>1, ClassifyTypes
    <3>3. \/ writing' = writing
          \/ r.kind \in Finals /\ writing' = Writing(r.device, r.kind, Classify(None))
      BY <2>2 DEF GiveUp, Finals
    <3> QED
      BY <3>2, <3>3 DEF Writing
  <2> QED
    BY <2>1, <2>2
<1>8. r.kind \in Finals /\ r.answer = "ok" => HasFinal(r.device)
  <2>1. SUFFICES ASSUME r.kind \in Finals, r.answer = "ok" PROVE HasFinal(r.device)
    OBVIOUS
  <2>2. /\ r.body <= record[r.device].final
        /\ [device |-> r.device, sheet |-> r.body] \in received
    BY <2>1 DEF ReceiptInv, FinalsSent
  <2> QED
    BY <2>2 DEF HasFinal
<1>9. \A d \in Devices : HasFinal(d)' <=> HasFinal(d)
  BY <1>1 DEF HasFinal
<1>10. \A w \in writing : w.device \in Devices
  BY DEF TypeInv, OutboxTypes
<1>11. ReceiptsTrue'
  <2>1. \A w \in writing' : w.outcome.delivery = "sent" => HasFinal(w.device)'
    BY <1>6, <1>7, <1>8, <1>9, <1>10 DEF ReceiptInv, ReceiptsTrue
  <2> QED
    BY <1>1, <1>9, <2>1 DEF ReceiptInv, ReceiptsTrue
<1> QED
  BY <1>5, <1>11 DEF ReceiptInv

\* An outcome is written to the record (Record).
LEMMA RecordReceipts ==
  ASSUME TypeInv, TypeInv', ReceiptInv, NEW w \in writing, Record(w)
  PROVE  ReceiptInv'
<1>1. /\ w.device \in Devices /\ writing' \subseteq writing
      /\ \A d \in Devices : record'[d].final = record[d].final
      /\ \A d \in Devices :
           record'[d].delivery = "sent" => \/ record[d].delivery = "sent"
                                           \/ w.device = d /\ w.outcome.delivery = "sent"
  BY RecordTypes DEF Writes
<1>2. UNCHANGED <<received, net>>
  BY DEF Record, control
<1>3. \A d \in Devices : record[d].final \in Nat
  BY DEF TypeInv, OutboxTypes
<1>4. Grows
  BY <1>1, <1>2, <1>3 DEF Grows
<1>5. \A r \in net : SaidIn(r, net)
  BY DEF SaidIn
<1>6. FinalsSent'
  BY <1>2, <1>4, <1>5, FinalsKept DEF FinalsSent, ReceiptInv
<1>7. \A d \in Devices : HasFinal(d) => HasFinal(d)'
  BY <1>4, HasFinalGrows
<1>8. \A x \in writing : x.device \in Devices
  BY DEF TypeInv, OutboxTypes
<1>9. ReceiptsTrue'
  BY <1>1, <1>7, <1>8 DEF ReceiptInv, ReceiptsTrue
<1> QED
  BY <1>6, <1>9 DEF ReceiptInv

\* A retry is sent (Send).
LEMMA SendReceipts ==
  ASSUME TypeInv, TypeInv', ReceiptInv, NEW d \in Devices, Send(d)
  PROVE  ReceiptInv'
<1>1. /\ UNCHANGED <<received, record, writing>>
      /\ net' = net \union {Request(d, "retry", token[d], 0, record'[d].final)}
  BY DEF Send, control, outbox
<1>2. \A e \in Devices : record[e].final \in Nat
  BY DEF TypeInv, OutboxTypes
<1>3. Grows
  BY <1>1, <1>2 DEF Grows
<1>4. FinalsSent'
  BY <1>1, <1>3, AskedFinal DEF ReceiptInv
<1>5. ReceiptsTrue'
  BY <1>1 DEF ReceiptInv, ReceiptsTrue, HasFinal
<1> QED
  BY <1>4, <1>5 DEF ReceiptInv

\* Every step keeps the receipts true (Next).
LEMMA StepReceipts == TypeInv /\ TypeInv' /\ ReceiptInv /\ [Next]_vars => ReceiptInv'
<1> SUFFICES ASSUME TypeInv, TypeInv', ReceiptInv, [Next]_vars PROVE ReceiptInv'
  OBVIOUS
<1>1. ASSUME UNCHANGED <<received, record, net>>, writing' \subseteq writing
      PROVE  ReceiptInv'
  <2>1. NoNewFinals
    BY <1>1 DEF NoNewFinals, SaidIn
  <2> QED
    BY <1>1, <2>1, QuietReceipts
<1>2. ASSUME UNCHANGED <<received, record>>, writing' \subseteq writing, Quieter
      PROVE  ReceiptInv'
  <2>1. NoNewFinals
    BY <1>2 DEF NoNewFinals, Quieter
  <2> QED
    BY <1>2, <2>1, QuietReceipts
<1>3. ASSUME UNCHANGED <<received, record, writing>>, NEW d, NEW t, NEW sequence, NEW body,
             NEW kind \in {"progress", "open", "take over"},
             net' = net \union {Request(d, kind, t, sequence, body)}
      PROVE  ReceiptInv'
  <2>1. Request(d, kind, t, sequence, body).kind \notin Finals
    BY DEF Request, Finals
  <2>2. NoNewFinals
    BY <1>3, <2>1 DEF NoNewFinals, SaidIn
  <2> QED
    BY <1>3, <2>2, QuietReceipts
<1>4. NetTypes
  BY DEF TypeInv
<1>5. CASE Forget
  BY <1>1, <1>5 DEF Forget, outbox
<1>6. ASSUME NEW r \in net, Serve(r) PROVE ReceiptInv'
  BY <1>6, ServeReceipts
<1>7. ASSUME NEW r \in net, GiveUp(r) \/ HearFinal(r) PROVE ReceiptInv'
  BY <1>7, OutcomeReceipts
<1>8. ASSUME NEW r \in net, HearProgress(r) \/ HearOpen(r) \/ HearTakeOver(r)
      PROVE  ReceiptInv'
  <2>1. net' \subseteq net /\ UNCHANGED <<received, record, writing>>
    BY <1>8 DEF HearProgress, HearOpen, HearTakeOver, control, outbox
  <2>2. Quieter
    BY <1>4, <2>1, FewerSay
  <2> QED
    BY <1>2, <2>1, <2>2
<1>9. ASSUME NEW w \in writing, Record(w) PROVE ReceiptInv'
  BY <1>9, RecordReceipts
<1>10. ASSUME NEW d \in Devices, Start(d) \/ Correct(d) PROVE ReceiptInv'
  <2>1. UNCHANGED <<received, record, writing>> /\ Mount(d)
    BY <1>10 DEF Start, Correct, control, outbox
  <2>2. Quieter
    BY <1>4, <2>1, DeafSays DEF Mount
  <2> QED
    BY <1>2, <2>1, <2>2
<1>11. ASSUME NEW d \in Devices, Reload(d) PROVE ReceiptInv'
  <2>1. UNCHANGED <<received, record>> /\ writing' \subseteq writing
    BY <1>11 DEF Reload, control
  <2>2. Quieter
    BY <1>4, <1>11, DeafSays DEF Reload
  <2> QED
    BY <1>2, <2>1, <2>2
<1>12. ASSUME NEW d \in Devices, SetClockBack(d) \/ Score(d) \/ Poll(d) \/ Expire(d)
       PROVE  ReceiptInv'
  BY <1>1, <1>12 DEF SetClockBack, Score, Poll, Expire, control, outbox
<1>13. ASSUME NEW d \in Devices, Flush(d) PROVE ReceiptInv'
  <2>1. UNCHANGED <<received, record, writing>>
    BY <1>13 DEF Flush, control, outbox
  <2>2. \/ UNCHANGED net
        \/ net' = net \union {Request(d, "progress", stored[d].token, NextSequence(d), sends + 1)}
    BY <1>13 DEF Flush
  <2> QED
    BY <1>1, <1>3, <2>1, <2>2
<1>14. ASSUME NEW d \in Devices, Repair(d) \/ Reconnect(d) PROVE ReceiptInv'
  BY <1>3, <1>14 DEF Repair, Reconnect, AskOpen, control, outbox
<1>15. ASSUME NEW d \in Devices, TakeOver(d) PROVE ReceiptInv'
  BY <1>3, <1>15 DEF TakeOver, control, outbox
<1>16. ASSUME NEW d \in Devices, Submit(d) PROVE ReceiptInv'
  BY <1>16, SubmitReceipts
<1>17. ASSUME NEW d \in Devices, AutoRetry(d) \/ ManualRetry(d) PROVE ReceiptInv'
  BY <1>17, SendReceipts DEF AutoRetry, ManualRetry
<1>18. CASE UNCHANGED vars
  BY <1>1, <1>18 DEF vars, control, outbox
<1> QED
  BY <1>5, <1>6, <1>7, <1>8, <1>9, <1>10, <1>11, <1>12, <1>13, <1>14, <1>15, <1>16, <1>17,
     <1>18 DEF Next

\* A record is changed by submitting a result and by writing an outcome to it only
\* (Submit, Record).
LEMMA RecordChanges ==
  ASSUME [Next]_vars
  PROVE  \/ UNCHANGED record
         \/ \E d \in Devices : Submit(d)
         \/ \E w \in writing : Record(w)
<1>1. CASE Forget
  BY <1>1 DEF Forget, outbox
<1>2. ASSUME NEW r \in net, \/ Serve(r) \/ GiveUp(r)
                            \/ HearProgress(r) \/ HearOpen(r) \/ HearTakeOver(r) \/ HearFinal(r)
      PROVE  UNCHANGED record
  BY <1>2 DEF Serve, GiveUp, HearProgress, HearOpen, HearTakeOver, HearFinal, outbox
<1>3. ASSUME NEW d \in Devices, \/ Start(d) \/ Reload(d) \/ Correct(d) \/ SetClockBack(d)
                                \/ Score(d) \/ Flush(d) \/ Poll(d)
      PROVE  UNCHANGED record
  BY <1>3 DEF Start, Reload, Correct, SetClockBack, Score, Flush, Poll, outbox
<1>4. ASSUME NEW d \in Devices, \/ Repair(d) \/ Reconnect(d) \/ TakeOver(d)
                                \/ Expire(d) \/ AutoRetry(d) \/ ManualRetry(d)
      PROVE  UNCHANGED record
  BY <1>4 DEF Repair, Reconnect, TakeOver, Expire, AutoRetry, ManualRetry, Send, outbox
<1>5. CASE UNCHANGED vars
  BY <1>5 DEF vars, outbox
<1> QED
  BY <1>1, <1>2, <1>3, <1>4, <1>5 DEF Next

\* What a record says of its delivery is written by Record only.
LEMMA DeliveryChanges ==
  ASSUME TypeInv, [Next]_vars
  PROVE  \/ \E w \in writing : Record(w)
         \/ \A d \in Devices : record'[d].delivery = record[d].delivery
<1>1. ASSUME NEW d \in Devices, Submit(d)
      PROVE  \A e \in Devices : record'[e].delivery = record[e].delivery
  <2>1. record' = [record EXCEPT ![d].final = scored[d]]
    BY <1>1 DEF Submit
  <2> QED
    BY <2>1 DEF TypeInv, OutboxTypes
<1> QED
  BY <1>1, RecordChanges

\* A record's final is only replaced by a later one (Submit).
LEMMA FinalsOnlyGrow ==
  ASSUME TypeInv, [Next]_vars, NEW e \in Devices
  PROVE  record[e].final <= record'[e].final
<1>1. \A d \in Devices : record[d].final \in Nat /\ record[d].final <= scored[d]
  BY DEF TypeInv, OutboxTypes
<1>2. CASE UNCHANGED record
  BY <1>1, <1>2
<1>3. ASSUME NEW d \in Devices, Submit(d) PROVE record[e].final <= record'[e].final
  <2>1. record' = [record EXCEPT ![d].final = scored[d]]
    BY <1>3 DEF Submit
  <2>2. record'[e] = IF e = d THEN [record[d] EXCEPT !.final = scored[d]] ELSE record[e]
    BY <2>1 DEF TypeInv, OutboxTypes
  <2> QED
    BY <1>1, <2>2 DEF TypeInv, OutboxTypes
<1>4. ASSUME NEW w \in writing, Record(w) PROVE record[e].final <= record'[e].final
  BY <1>1, <1>4, RecordTypes
<1> QED
  BY <1>2, <1>3, <1>4, RecordChanges

\* A record is written when what it says is read: no other write overlaps (Record).
PromptStore == "slow store" \notin Faults

\* Receipts are true and stand, for any devices, bounds and faults but a store
\* that writes behind what it read: a record shown as sent stays so, and control
\* received a final of it first (recordFinalDelivery, classifyFinalDelivery).
THEOREM Receipts ==
  ASSUME PromptStore
  PROVE  Spec => ReceiptStands
<1>1. Init => ReceiptInv
  BY DEF Init, ReceiptInv, FinalsSent, ReceiptsTrue
<1> DEFINE Stands ==
      \A d \in Devices :
        /\ record[d].delivery = "sent" => record'[d].delivery = "sent"
        /\ record'[d].delivery = "sent" => \E sheet \in Received(d) : sheet <= record'[d].final
<1>2. ASSUME TypeInv, TypeInv', ReceiptInv, ReceiptInv', [Next]_vars
      PROVE  Stands
  <2> SUFFICES ASSUME NEW d \in Devices
               PROVE  /\ record[d].delivery = "sent" => record'[d].delivery = "sent"
                      /\ record'[d].delivery = "sent" =>
                           \E sheet \in Received(d) : sheet <= record'[d].final
    OBVIOUS
  <2>1. CASE \E w \in writing : Record(w)
    <3>1. PICK w \in writing : Record(w)
      BY <2>1
    <3> DEFINE old == record[w.device]
    <3>2. /\ record' = [record EXCEPT ![w.device] = Recorded(old, w.outcome, old.delivery)]
          /\ UNCHANGED received
      BY <1>2, <3>1 DEF Record, PromptStore, control
    <3>3. /\ record \in [Devices -> [final : Nat, delivery : Deliveries,
                                     retry : {"unknown", "yes", "no"}]]
          /\ w.device \in Devices
      BY <1>2 DEF TypeInv, OutboxTypes
    <3>4. old.delivery = "sent" => Recorded(old, w.outcome, old.delivery).delivery = "sent"
      BY <3>3 DEF Recorded
    <3>5. record[d].delivery = "sent" => record'[d].delivery = "sent"
      BY <3>2, <3>3, <3>4
    <3>6. record'[d].delivery = "sent" => \E f \in received : f.device = d
                                                             /\ f.sheet <= record'[d].final
      BY <1>2, <3>2 DEF ReceiptInv, ReceiptsTrue, HasFinal
    <3> QED
      BY <3>5, <3>6 DEF Received
  <2>2. CASE \A e \in Devices : record'[e].delivery = record[e].delivery
    <3>1. ASSUME record[d].delivery = "sent"
          PROVE  \E f \in received : f.device = d /\ f.sheet <= record'[d].final
      <4>1. PICK f \in received : f.device = d /\ f.sheet <= record[d].final
        BY <1>2, <3>1 DEF ReceiptInv, ReceiptsTrue, HasFinal
      <4>2. record[d].final <= record'[d].final
        BY <1>2, FinalsOnlyGrow
      <4>3. f.sheet \in Nat /\ record[d].final \in Nat /\ record'[d].final \in Nat
        BY <1>2 DEF TypeInv, ControlTypes, OutboxTypes
      <4> QED
        BY <4>1, <4>2, <4>3
    <3> QED
      BY <2>2, <3>1 DEF Received
  <2> QED
    BY <1>2, <2>1, <2>2, DeliveryChanges
<1>3. ReceiptInv /\ TypeInv /\ TypeInv' /\ [Next]_vars => ReceiptInv' /\ [Stands]_vars
  BY <1>2, StepReceipts
<1> QED
  BY <1>1, <1>3, Types, PTL DEF Spec, ReceiptStands
-----------------------------------------------------------------------------
(* Snapshots.                                                              *)

\* The faults that put the order of the snapshots out of the room's hands.
SteadyClocks == {"clocks differ", "started again"} \intersect Faults = {}

Sent == {r \in net : r.kind = "progress"}
NoOffset == \A d \in Devices : offset[d] = 0

\* Who asks, and whose outcomes are written, has joined the room.
JoinedInv ==
  /\ \A r \in net : r.device \in Joined
  /\ \A w \in writing : w.device \in Joined

\* One device is in the room, or the clocks of all are together; sequences are
\* times while clocks are right.
ClockInv ==
  /\ NoOffset \/ \E d \in Devices : Joined \subseteq {d}
  /\ NoOffset => \A d \in Devices : stored[d].sequence <= sends

\* Every sequence used is below the next one of a device in the room.
SequenceInv ==
  /\ \A r \in Sent : /\ 0 < r.sequence /\ r.sequence <= stored[r.device].sequence
                     /\ 0 < r.body
  /\ session.sequence = 0 \/ \E d \in Joined : session.sequence <= stored[d].sequence
  /\ session.snapshot <= sends

\* Sequences are in the order of the snapshots, and control's is one of them.
OrderInv ==
  /\ \A r, q \in Sent : r.sequence < q.sequence <=> r.body < q.body
  /\ session.status = "open" =>
       \A r \in Sent : session.sequence < r.sequence <=> session.snapshot < r.body

\* No token is of a session to come.
GenerationInv ==
  /\ \A r \in net : r.token <= session.generation
  /\ \A d \in Devices : /\ stored[d].token <= session.generation
                        /\ token[d] <= session.generation
                        /\ told[d].generation <= session.generation

\* What control acknowledged, heard or not, it has or has a later one of.
AnswerInv ==
  \A r \in Sent : r.answer = "ok" /\ r.token = session.generation
                    => r.body <= session.snapshot

SnapshotInv ==
  /\ JoinedInv /\ ClockInv /\ SequenceInv /\ OrderInv
  /\ GenerationInv /\ AnswerInv /\ AcknowledgedIsKept

-----------------------------------------------------------------------------
(* Steps that send no snapshot and answer none.                            *)

\* The session stays, closes, or is replaced by a new one.
SessionMoves ==
  \/ /\ session'.generation = session.generation /\ session'.sequence = session.sequence
     /\ session.snapshot <= session'.snapshot /\ session'.snapshot <= sends
     /\ session'.status = "open" =>
          session.status = "open" /\ session'.snapshot = session.snapshot
  \/ /\ session'.generation = session.generation + 1
     /\ session'.sequence = 0 /\ session'.snapshot = 0

\* No snapshot is new or newly answered.
NoNewSnapshots ==
  \A r \in net' :
    /\ r.device \in Joined' /\ r.token <= session'.generation
    /\ r.kind = "progress" => SaidIn(r, net)

\* The devices hold tokens of sessions there are, and know of no more snapshots.
TokensMove ==
  \A d \in Devices :
    /\ stored'[d].token <= session'.generation /\ token'[d] <= session'.generation
    /\ told'[d].generation <= session.generation
    /\ told'[d].generation = session.generation => told'[d].snapshot <= session.snapshot

RoomMoves ==
  /\ Joined \subseteq Joined'
  /\ \A d \in Joined : stored'[d].sequence = stored[d].sequence
  /\ \A w \in writing' : w.device \in Joined'

\* A snapshot under way is one that was, unless it is new (NoNewSnapshots).
LEMMA SentBefore ==
  ASSUME NoNewSnapshots, NEW r \in Sent'
  PROVE  \E q \in Sent : /\ q.device = r.device /\ q.token = r.token /\ q.sequence = r.sequence
                         /\ q.body = r.body /\ q.answer = r.answer
<1>1. r \in net' /\ r.kind = "progress"
  BY DEF Sent
<1> QED
  BY <1>1 DEF NoNewSnapshots, SaidIn, Sent

\* What is said of snapshots is said of numbers (Request).
LEMMA SentTypes ==
  ASSUME TypeInv
  PROVE  /\ \A r \in Sent : /\ r \in Requests /\ r.device \in Devices /\ r.token \in Generations
                            /\ r.sequence \in Nat /\ r.body \in Nat /\ r.body <= sends
         /\ session.generation \in Generations /\ session.sequence \in Nat
         /\ session.snapshot \in Nat /\ sends \in Nat
         /\ \A d \in Devices : stored[d].token \in Generations /\ stored[d].sequence \in Nat
<1>1. \A r \in Sent : r \in Requests /\ r.body <= sends
  BY DEF TypeInv, NetTypes, Sent
<1>2. session.generation \in Generations /\ session.sequence \in Nat /\ session.snapshot \in Nat
  BY Bounds DEF TypeInv, ControlTypes
<1>3. sends \in Nat
  BY Bounds DEF TypeInv, ClockTypes
<1>4. \A d \in Devices : stored[d].token \in Generations /\ stored[d].sequence \in Nat
  BY DEF TypeInv, ScorerTypes
<1> QED
  BY <1>1, <1>2, <1>3, <1>4 DEF Requests

\* Such a step keeps what is acknowledged.
LEMMA QuietSnapshots ==
  ASSUME TypeInv, TypeInv', SnapshotInv, ClockInv', UNCHANGED sends,
         SessionMoves, NoNewSnapshots, TokensMove, RoomMoves
  PROVE  SnapshotInv'
<1>1. /\ JoinedInv /\ ClockInv /\ SequenceInv /\ OrderInv
      /\ GenerationInv /\ AnswerInv /\ AcknowledgedIsKept
  BY DEF SnapshotInv
<1>2. /\ \A r \in Sent : /\ r.device \in Devices /\ r.token \in Generations
                         /\ r.sequence \in Nat /\ r.body \in Nat
      /\ session.generation \in Nat /\ session.sequence \in Nat
      /\ session.snapshot \in Nat /\ sends \in Nat
  BY SentTypes DEF Generations
<1>3. /\ session'.generation \in Nat /\ session'.sequence \in Nat /\ session'.snapshot \in Nat
  BY Bounds DEF TypeInv, ControlTypes, Generations
<1>4. JoinedInv'
  BY DEF JoinedInv, NoNewSnapshots, RoomMoves
<1>5. SequenceInv'
  <2>1. ASSUME NEW r \in Sent'
        PROVE  0 < r.sequence /\ r.sequence <= stored'[r.device].sequence /\ 0 < r.body
    <3>1. PICK q \in Sent : q.device = r.device /\ q.sequence = r.sequence /\ q.body = r.body
      BY <2>1, SentBefore
    <3>2. q.device \in Joined
      BY <1>1 DEF JoinedInv, Sent
    <3> QED
      BY <1>1, <3>1, <3>2 DEF SequenceInv, RoomMoves
  <2>2. session'.sequence = 0 \/ \E d \in Joined' : session'.sequence <= stored'[d].sequence
    <3>1. session'.sequence \in {session.sequence, 0}
      BY DEF SessionMoves
    <3> QED
      BY <1>1, <3>1 DEF SequenceInv, RoomMoves
  <2>3. session'.snapshot <= sends
    BY <1>2 DEF SessionMoves
  <2> QED
    BY <2>1, <2>2, <2>3 DEF SequenceInv
<1>6. OrderInv'
  <2>1. ASSUME NEW r \in Sent', NEW q \in Sent'
        PROVE  r.sequence < q.sequence <=> r.body < q.body
    <3>1. PICK r0 \in Sent : r0.sequence = r.sequence /\ r0.body = r.body
      BY <2>1, SentBefore
    <3>2. PICK q0 \in Sent : q0.sequence = q.sequence /\ q0.body = q.body
      BY <2>1, SentBefore
    <3> QED
      BY <1>1, <3>1, <3>2 DEF OrderInv
  <2>2. ASSUME session'.status = "open", NEW r \in Sent'
        PROVE  session'.sequence < r.sequence <=> session'.snapshot < r.body
    <3>1. PICK q \in Sent : q.sequence = r.sequence /\ q.body = r.body
      BY <2>2, SentBefore
    <3>2. CASE session'.generation = session.generation
      <4>1. /\ session'.sequence = session.sequence /\ session'.snapshot = session.snapshot
            /\ session.status = "open"
        BY <1>2, <2>2, <3>2 DEF SessionMoves
      <4> QED
        BY <1>1, <3>1, <4>1 DEF OrderInv
    <3>3. CASE session'.sequence = 0 /\ session'.snapshot = 0
      BY <1>1, <3>1, <3>3 DEF SequenceInv
    <3> QED
      BY <3>2, <3>3 DEF SessionMoves
  <2> QED
    BY <2>1, <2>2 DEF OrderInv
<1>7. session.generation <= session'.generation
  BY <1>2 DEF SessionMoves
<1>8. GenerationInv'
  <2>1. \A d \in Devices : told'[d].generation <= session'.generation
    <3> SUFFICES ASSUME NEW d \in Devices PROVE told'[d].generation <= session'.generation
      OBVIOUS
    <3>1. told'[d].generation \in Nat
      BY DEF TypeInv, ToldTypes, Generations
    <3>2. told'[d].generation <= session.generation
      BY DEF TokensMove
    <3> QED
      BY <1>2, <1>3, <1>7, <3>1, <3>2
  <2> QED
    BY <2>1 DEF GenerationInv, NoNewSnapshots, TokensMove
<1>9. AnswerInv'
  <2> SUFFICES ASSUME NEW r \in Sent', r.answer = "ok", r.token = session'.generation
               PROVE  r.body <= session'.snapshot
    BY DEF AnswerInv
  <2>1. PICK q \in Sent : q.token = r.token /\ q.body = r.body /\ q.answer = r.answer
    BY SentBefore
  <2>2. q.token <= session.generation
    BY <1>1 DEF GenerationInv, Sent
  <2>3. session'.generation = session.generation /\ session.snapshot <= session'.snapshot
    BY <1>2, <2>1, <2>2 DEF SessionMoves
  <2>4. q.body <= session.snapshot
    BY <1>1, <2>1, <2>3 DEF AnswerInv
  <2> QED
    BY <1>2, <1>3, <2>1, <2>3, <2>4
<1>10. AcknowledgedIsKept'
  <2> SUFFICES ASSUME NEW d \in Devices, told'[d].generation = session'.generation
               PROVE  told'[d].snapshot <= session'.snapshot
    BY DEF AcknowledgedIsKept
  <2>1. /\ told'[d].generation <= session.generation
        /\ told'[d].generation = session.generation => told'[d].snapshot <= session.snapshot
    BY DEF TokensMove
  <2>2. session'.generation = session.generation /\ session.snapshot <= session'.snapshot
    BY <1>2, <2>1 DEF SessionMoves
  <2>3. told'[d].snapshot \in Nat
    BY Bounds DEF TypeInv, ToldTypes
  <2> QED
    BY <1>2, <1>3, <2>1, <2>2, <2>3
<1> QED
  BY <1>4, <1>5, <1>6, <1>8, <1>9, <1>10 DEF SnapshotInv

\* Nothing is said, and nobody leaves.
LEMMA QuieterIsOld ==
  ASSUME TypeInv, TypeInv', SnapshotInv, Quieter, Joined \subseteq Joined',
         session.generation <= session'.generation
  PROVE  NoNewSnapshots
<1> SUFFICES ASSUME NEW r \in net'
             PROVE  /\ r.device \in Joined' /\ r.token <= session'.generation
                    /\ r.kind = "progress" => SaidIn(r, net)
  BY DEF NoNewSnapshots
<1>1. SaidIn(r, net)
  BY DEF Quieter
<1>2. PICK q \in net : q.device = r.device /\ q.token = r.token
  BY <1>1 DEF SaidIn
<1>3. q.device \in Joined /\ q.token <= session.generation
  BY DEF SnapshotInv, JoinedInv, GenerationInv
<1>4. q.token \in Nat
  <2>1. q \in Requests
    BY <1>2 DEF TypeInv, NetTypes
  <2>2. q.token \in Generations
    BY <2>1 DEF Requests
  <2> QED
    BY <2>2, GenerationsAreNumbers
<1>5. session.generation \in Nat /\ session'.generation \in Nat
  BY DEF TypeInv, ControlTypes, Generations
<1> QED
  BY <1>1, <1>2, <1>3, <1>4, <1>5

\* A request that is no snapshot is added (Repair, Reconnect, TakeOver, Submit, Send).
LEMMA AskedIsOld ==
  ASSUME TypeInv, SnapshotInv, UNCHANGED session, Joined' = Joined, NEW d \in Joined,
         NEW kind, kind # "progress", NEW t, t <= session.generation, NEW body,
         net' = net \union {Request(d, kind, t, 0, body)}
  PROVE  NoNewSnapshots
<1>1. ASSUME NEW r \in net
      PROVE  r.device \in Joined' /\ r.token <= session'.generation /\ SaidIn(r, net)
  BY DEF SnapshotInv, JoinedInv, GenerationInv, SaidIn
<1> DEFINE q == Request(d, kind, t, 0, body)
<1>2. q.device = d /\ q.kind = kind /\ q.token = t
  BY DEF Request
<1> HIDE DEF q
<1>3. \A r \in net' : r \in net \/ r = q
  BY DEF q
<1> QED
  BY <1>1, <1>2, <1>3 DEF NoNewSnapshots

\* The session stays as it is.
LEMMA SessionStays ==
  ASSUME TypeInv, SnapshotInv, UNCHANGED session
  PROVE  SessionMoves /\ session.generation <= session'.generation
<1>1. session.snapshot <= sends /\ session.snapshot \in Nat /\ session.generation \in Nat
  BY SentTypes DEF SnapshotInv, SequenceInv, Generations
<1> QED
  BY <1>1 DEF SessionMoves

\* The clocks and the sequences stay as they are.
LEMMA ClocksStay ==
  ASSUME ClockInv, UNCHANGED clocks, Joined' = Joined,
         \A d \in Devices : stored'[d].sequence = stored[d].sequence
  PROVE  ClockInv'
<1>1. (NoOffset' <=> NoOffset) /\ sends' = sends
  BY DEF NoOffset, clocks
<1> QED
  BY <1>1 DEF ClockInv

\* A device of the room shows something else (Reload, Correct, Submit, Record).
LEMMA StillJoined ==
  ASSUME TypeInv, NEW d \in Joined, NEW shows, shows # "out",
         screen' = [screen EXCEPT ![d] = shows]
  PROVE  Joined' = Joined
<1>1. d \in Devices /\ screen \in [Devices -> {"out", "scoring", "submitting", "done"}]
  BY DEF Joined, TypeInv, ScorerTypes
<1>2. \A e \in Devices : screen'[e] = IF e = d THEN shows ELSE screen[e]
  BY <1>1
<1>3. \A e \in Devices : screen'[e] # "out" <=> screen[e] # "out"
  BY <1>2 DEF Joined
<1> QED
  BY <1>3 DEF Joined

\* Steps that leave the session, the clocks and what the devices know of them.
LEMMA SameSession ==
  ASSUME TypeInv, TypeInv', SnapshotInv, UNCHANGED <<session, clocks, stored, told>>,
         Joined' = Joined, NoNewSnapshots,
         \A d \in Devices : token'[d] <= session.generation,
         \A w \in writing' : w.device \in Joined
  PROVE  SnapshotInv'
<1>1. ClockInv'
  BY ClocksStay DEF SnapshotInv
<1>2. SessionMoves
  BY SessionStays
<1>3. UNCHANGED sends
  BY DEF clocks
<1>4. TokensMove
  BY DEF TokensMove, SnapshotInv, GenerationInv, AcknowledgedIsKept
<1>5. RoomMoves
  BY DEF RoomMoves
<1> QED
  BY <1>1, <1>2, <1>3, <1>4, <1>5, QuietSnapshots

\* The tab is reloaded, or a result corrected (Reload, Correct).
LEMMA ReloadSnapshots ==
  ASSUME TypeInv, TypeInv', SnapshotInv, NEW d \in Devices, Reload(d) \/ Correct(d)
  PROVE  SnapshotInv'
<1>1. /\ UNCHANGED <<session, clocks, stored, token, told>>
      /\ writing' \subseteq writing
  BY DEF Reload, Correct, control, outbox
<1>2. Joined' = Joined
  <2>1. d \in Joined
    BY DEF Reload, Correct, Joined
  <2>2. CASE Reload(d)
    <3>1. PICK shows : shows # "out" /\ screen' = [screen EXCEPT ![d] = shows]
      BY <2>2 DEF Reload
    <3> QED
      BY <2>1, <3>1, StillJoined
  <2>3. CASE Correct(d)
    <3>1. screen' = [screen EXCEPT ![d] = "scoring"]
      BY <2>3 DEF Correct
    <3> QED
      BY <2>1, <3>1, StillJoined
  <2> QED
    BY <2>2, <2>3
<1>3. Quieter
  BY DeafSays DEF TypeInv, Reload, Correct, Mount
<1>4. NoNewSnapshots
  BY <1>1, <1>2, <1>3, QuieterIsOld, SessionStays
<1>5. /\ \A e \in Devices : token'[e] <= session.generation
      /\ \A w \in writing' : w.device \in Joined
  BY <1>1 DEF SnapshotInv, GenerationInv, JoinedInv
<1> QED
  BY <1>1, <1>2, <1>4, <1>5, SameSession

\* A device asks to open or to take over its session (Repair, Reconnect, TakeOver).
LEMMA AskingSnapshots ==
  ASSUME TypeInv, TypeInv', SnapshotInv, NEW d \in Devices,
         Repair(d) \/ Reconnect(d) \/ TakeOver(d)
  PROVE  SnapshotInv'
<1>1. /\ UNCHANGED <<session, clocks, stored, screen, token, writing, told>>
      /\ d \in Joined /\ Joined' = Joined
  BY DEF Repair, Reconnect, TakeOver, control, scorer, outbox, Mounted, Joined
<1>2. \E t, kind : /\ kind # "progress" /\ t <= session.generation
                   /\ net' = net \union {Request(d, kind, t, 0, 0)}
  <2>1. 0 <= session.generation
    BY DEF TypeInv, ControlTypes, Generations
  <2>2. stored[d].token <= session.generation
    BY DEF SnapshotInv, GenerationInv
  <2> QED
    BY <2>1, <2>2 DEF Repair, Reconnect, TakeOver, AskOpen
<1>3. NoNewSnapshots
  BY <1>1, <1>2, AskedIsOld
<1>4. /\ \A e \in Devices : token'[e] <= session.generation
      /\ \A w \in writing' : w.device \in Joined
  BY <1>1 DEF SnapshotInv, GenerationInv, JoinedInv
<1> QED
  BY <1>1, <1>3, <1>4, SameSession

\* The result is submitted (Submit).
LEMMA SubmitSnapshots ==
  ASSUME TypeInv, TypeInv', SnapshotInv, NEW d \in Devices, Submit(d)
  PROVE  SnapshotInv'
<1>1. /\ UNCHANGED <<session, clocks, stored, told>>
      /\ token' = [token EXCEPT ![d] = stored[d].token]
      /\ screen' = [screen EXCEPT ![d] = "submitting"]
      /\ d \in Joined
  BY DEF Submit, control, Joined
<1>2. Joined' = Joined
  BY <1>1, StillJoined
<1>3. stored[d].token <= session.generation
  BY DEF SnapshotInv, GenerationInv
<1>4. NoNewSnapshots
  <2>1. CASE UNCHANGED net
    BY <1>1, <1>2, <2>1 DEF NoNewSnapshots, SnapshotInv, JoinedInv, GenerationInv, SaidIn
  <2>2. CASE net' = net \union {Request(d, "final", stored[d].token, 0, scored[d])}
    BY <1>1, <1>2, <1>3, <2>2, AskedIsOld
  <2> QED
    BY <2>1, <2>2 DEF Submit
<1>5. \A e \in Devices : token'[e] <= session.generation
  BY <1>1, <1>3 DEF SnapshotInv, GenerationInv, TypeInv, OutboxTypes
<1>6. \A w \in writing' : w.device \in Joined
  <2>1. \A w \in writing' : w \in writing \/ w.device = d
    BY DEF Submit, Writing
  <2> QED
    BY <1>1, <2>1 DEF SnapshotInv, JoinedInv
<1> QED
  BY <1>1, <1>2, <1>4, <1>5, <1>6, SameSession

\* The answer to a final or to a take-over is heard, or a request given up
\* (HearFinal, HearTakeOver, GiveUp).
LEMMA OutcomeSnapshots ==
  ASSUME TypeInv, TypeInv', SnapshotInv, NEW r \in net,
         HearFinal(r) \/ HearTakeOver(r) \/ GiveUp(r)
  PROVE  SnapshotInv'
<1>1. UNCHANGED <<session, clocks, stored, screen, token, told>>
  BY DEF HearFinal, HearTakeOver, GiveUp, control, scorer, outbox
<1>2. Joined' = Joined
  BY <1>1 DEF Joined
<1>3. Quieter
  BY FewerSay, GivenUpSays DEF HearFinal, HearTakeOver, TypeInv
<1>4. NoNewSnapshots
  BY <1>1, <1>2, <1>3, QuieterIsOld, SessionStays
<1>5. \A w \in writing' : w.device \in Joined
  <2>1. \A w \in writing' : w \in writing \/ w.device = r.device
    <3>1. CASE HearFinal(r)
      BY <3>1 DEF HearFinal, Writing
    <3>2. CASE HearTakeOver(r)
      BY <3>2 DEF HearTakeOver, outbox
    <3>3. CASE GiveUp(r)
      <4>1. writing' \in {writing, Writing(r.device, r.kind, Classify(None))}
        BY <3>3 DEF GiveUp
      <4> QED
        BY <4>1 DEF Writing
    <3> QED
      BY <3>1, <3>2, <3>3
  <2> QED
    BY <2>1 DEF SnapshotInv, JoinedInv
<1>6. \A e \in Devices : token'[e] <= session.generation
  BY <1>1 DEF SnapshotInv, GenerationInv
<1> QED
  BY <1>1, <1>2, <1>4, <1>5, <1>6, SameSession

\* An outcome is written to a record (Record).
LEMMA RecordSnapshots ==
  ASSUME TypeInv, TypeInv', SnapshotInv, NEW w \in writing, Record(w)
  PROVE  SnapshotInv'
<1>1. /\ UNCHANGED <<session, clocks, stored, net, told>>
      /\ writing' = writing \ {w}
      /\ token' = [token EXCEPT ![w.device] = TokenAfter(token[w.device], w.outcome)]
      /\ screen' \in {screen, [screen EXCEPT ![w.device] = "done"]}
  BY DEF Record, control
<1>2. w.device \in Joined /\ w.device \in Devices
  BY DEF SnapshotInv, JoinedInv, Joined
<1>3. Joined' = Joined
  <2>1. CASE screen' = screen
    BY <2>1 DEF Joined
  <2>2. CASE screen' = [screen EXCEPT ![w.device] = "done"]
    BY <1>2, <2>2, StillJoined
  <2> QED
    BY <1>1, <2>1, <2>2
<1>4. NoNewSnapshots
  BY <1>1, <1>3 DEF NoNewSnapshots, SnapshotInv, JoinedInv, GenerationInv, SaidIn
<1>5. \A e \in Devices : token'[e] <= session.generation
  <2>1. \A e \in Devices : token[e] <= session.generation
    BY DEF SnapshotInv, GenerationInv
  <2>2. 0 <= session.generation
    BY DEF TypeInv, ControlTypes, Generations
  <2>3. TokenAfter(token[w.device], w.outcome) <= session.generation
    BY <1>2, <2>1, <2>2 DEF TokenAfter
  <2> QED
    BY <1>1, <2>1, <2>3 DEF TypeInv, OutboxTypes
<1>6. \A x \in writing' : x.device \in Joined
  BY <1>1 DEF SnapshotInv, JoinedInv
<1> QED
  BY <1>1, <1>3, <1>4, <1>5, <1>6, SameSession

\* The scorer scores, a poll offers a snapshot, a token expires, a retry is sent
\* (Score, Poll, Expire, Send).
LEMMA OtherSnapshots ==
  ASSUME TypeInv, TypeInv', SnapshotInv, NEW d \in Devices,
         Score(d) \/ Poll(d) \/ Expire(d) \/ (d \in Joined /\ Send(d))
  PROVE  SnapshotInv'
<1>1. /\ UNCHANGED <<session, clocks, stored, screen, writing, told>>
      /\ Joined' = Joined
  BY DEF Score, Poll, Expire, Send, control, scorer, outbox, Joined
<1>2. token' \in {token, [token EXCEPT ![d] = 0]}
  BY DEF Score, Poll, Expire, Send, outbox
<1>3. NoNewSnapshots
  <2>1. CASE UNCHANGED net
    BY <1>1, <2>1 DEF NoNewSnapshots, SnapshotInv, JoinedInv, GenerationInv, SaidIn
  <2>2. CASE d \in Joined /\ Send(d)
    <3>1. net' = net \union {Request(d, "retry", token[d], 0, record[d].final)}
      BY <2>2 DEF Send
    <3>2. token[d] <= session.generation
      BY DEF SnapshotInv, GenerationInv
    <3> QED
      BY <1>1, <2>2, <3>1, <3>2, AskedIsOld
  <2> QED
    BY <2>1, <2>2 DEF Score, Poll, Expire
<1>4. \A e \in Devices : token'[e] <= session.generation
  <2>1. \A e \in Devices : token[e] <= session.generation
    BY DEF SnapshotInv, GenerationInv
  <2>2. 0 <= session.generation
    BY DEF TypeInv, ControlTypes, Generations
  <2> QED
    BY <1>2, <2>1, <2>2 DEF TypeInv, OutboxTypes
<1>5. \A w \in writing' : w.device \in Joined
  BY <1>1 DEF SnapshotInv, JoinedInv
<1> QED
  BY <1>1, <1>3, <1>4, <1>5, SameSession

-----------------------------------------------------------------------------
(* Steps that open, lose, take over or answer.                             *)

\* A clock is set back by the one device in the room (SetClockBack).
LEMMA ClockSnapshots ==
  ASSUME SteadyClocks, TypeInv, TypeInv', SnapshotInv, NEW d \in Devices, SetClockBack(d)
  PROVE  SnapshotInv'
<1>1. /\ UNCHANGED <<session, sends, screen, stored, token, writing, net, told>>
      /\ offset' = [offset EXCEPT ![d] = -MaxSends]
  BY DEF SetClockBack, control, scorer, outbox
<1>2. Joined = {d} /\ Joined' = Joined
  BY <1>1 DEF SetClockBack, SteadyClocks, Joined
<1>3. offset \in [Devices -> {0, -MaxSends}] /\ MaxSends \in Nat
  BY Bounds DEF TypeInv, ClockTypes
<1>4. NoOffset' => NoOffset
  <2> SUFFICES ASSUME NoOffset', NEW e \in Devices PROVE offset[e] = 0
    BY DEF NoOffset
  <2>1. offset'[d] = -MaxSends /\ offset'[d] = 0
    BY <1>1, <1>3 DEF NoOffset
  <2>2. -MaxSends = 0
    BY <2>1
  <2> QED
    BY <1>3, <2>2
<1>5. ClockInv'
  BY <1>1, <1>2, <1>4 DEF ClockInv, SnapshotInv
<1>6. SessionMoves
  BY <1>1, SessionStays
<1>7. NoNewSnapshots
  BY <1>1, <1>2 DEF NoNewSnapshots, SnapshotInv, JoinedInv, GenerationInv, SaidIn
<1>8. TokensMove
  BY <1>1 DEF TokensMove, SnapshotInv, GenerationInv, AcknowledgedIsKept
<1>9. RoomMoves
  BY <1>1, <1>2 DEF RoomMoves, SnapshotInv, JoinedInv
<1> QED
  BY <1>1, <1>5, <1>6, <1>7, <1>8, <1>9, QuietSnapshots

\* Control loses its session (Forget).
LEMMA ForgetSnapshots ==
  ASSUME TypeInv, TypeInv', SnapshotInv, Forget
  PROVE  SnapshotInv'
<1>1. /\ session' = [session EXCEPT !.status = "none", !.tokens = {}, !.writer = None]
      /\ UNCHANGED <<clocks, screen, stored, token, writing, net, told>>
  BY DEF Forget, scorer, outbox
<1>2. /\ session'.generation = session.generation /\ session'.sequence = session.sequence
      /\ session'.snapshot = session.snapshot /\ session'.status = "none"
  BY <1>1 DEF TypeInv, ControlTypes
<1>3. Joined' = Joined
  BY <1>1 DEF Joined
<1>4. ClockInv' /\ UNCHANGED sends
  BY <1>1, <1>3, ClocksStay DEF SnapshotInv, clocks
<1>5. SessionMoves
  <2>1. session.snapshot <= sends /\ session.snapshot \in Nat
    BY SentTypes DEF SnapshotInv, SequenceInv
  <2> QED
    BY <1>2, <2>1 DEF SessionMoves
<1>6. NoNewSnapshots
  BY <1>1, <1>2, <1>3 DEF NoNewSnapshots, SnapshotInv, JoinedInv, GenerationInv, SaidIn
<1>7. TokensMove
  BY <1>1, <1>2 DEF TokensMove, SnapshotInv, GenerationInv, AcknowledgedIsKept
<1>8. RoomMoves
  BY <1>1, <1>3 DEF RoomMoves, SnapshotInv, JoinedInv
<1> QED
  BY <1>4, <1>5, <1>6, <1>7, <1>8, QuietSnapshots

\* Opening leaves the snapshots of a session or begins another one (Opened).
LEMMA OpenedMoves ==
  ASSUME TypeInv, SnapshotInv, NEW d \in Devices, session' = Opened(session, d)
  PROVE  /\ SessionMoves /\ session.generation <= session'.generation
<1>1. session.snapshot <= sends /\ session.snapshot \in Nat /\ session.generation \in Nat
  BY SentTypes DEF SnapshotInv, SequenceInv, Generations
<1>2. CASE session.status = "none"
  <2>1. session' = [generation |-> session.generation + 1, status |-> "open", tokens |-> {d},
                    writer |-> d, sequence |-> 0, snapshot |-> 0]
    BY <1>2 DEF Opened
  <2> QED
    BY <1>1, <2>1 DEF SessionMoves
<1>3. CASE session.status # "none"
  <2>1. session' = [session EXCEPT !.tokens = @ \union {d}]
    BY <1>3 DEF Opened
  <2>2. /\ session'.generation = session.generation /\ session'.sequence = session.sequence
        /\ session'.snapshot = session.snapshot /\ session'.status = session.status
    BY <2>1 DEF TypeInv, ControlTypes
  <2> QED
    BY <1>1, <2>2 DEF SessionMoves
<1> QED
  BY <1>2, <1>3

\* A game is started from the room by its first or by another device (Start).
LEMMA StartSnapshots ==
  ASSUME SteadyClocks, TypeInv, TypeInv', SnapshotInv, NEW d \in Devices, Start(d)
  PROVE  SnapshotInv'
<1>1. /\ session' = Opened(session, d)
      /\ stored' = [stored EXCEPT ![d] = [token |-> session'.generation, sequence |-> 0]]
      /\ screen' = [screen EXCEPT ![d] = "scoring"]
      /\ Mount(d) /\ ClocksTogether(d)
      /\ UNCHANGED <<clocks, token, writing, told>>
  BY DEF Start, outbox
<1>2. d \notin Joined
  BY DEF Start, SteadyClocks, Strikes, Joined
<1>3. Joined' = Joined \union {d}
  <2>1. \A e \in Devices : screen'[e] = IF e = d THEN "scoring" ELSE screen[e]
    BY <1>1 DEF TypeInv, ScorerTypes
  <2> QED
    BY <2>1 DEF Joined
<1>4. /\ \A e \in Devices \ {d} : stored'[e] = stored[e]
      /\ stored'[d].sequence = 0 /\ stored'[d].token = session'.generation
  BY <1>1 DEF TypeInv, ScorerTypes
<1>5. SessionMoves /\ session.generation <= session'.generation
  BY <1>1, OpenedMoves
<1>6. ClockInv'
  <2>1. offset' = offset /\ sends' = sends
    BY <1>1 DEF clocks
  <2>2. NoOffset \/ Joined \subseteq {d}
    BY <1>1 DEF ClocksTogether, SteadyClocks, NoOffset
  <2>3. NoOffset' \/ \E e \in Devices : Joined' \subseteq {e}
    BY <1>3, <2>1, <2>2 DEF NoOffset
  <2>4. sends \in Nat
    BY SentTypes
  <2>5. NoOffset => \A e \in Devices : stored'[e].sequence <= sends
    BY <1>4, <2>4 DEF SnapshotInv, ClockInv
  <2> QED
    BY <2>1, <2>3, <2>5 DEF ClockInv, NoOffset
<1>7. NoNewSnapshots
  <2>1. Quieter
    BY <1>1, DeafSays DEF TypeInv, Mount
  <2> QED
    BY <1>3, <1>5, <2>1, QuieterIsOld
<1>8. TokensMove
  <2> SUFFICES ASSUME NEW e \in Devices
               PROVE  /\ stored'[e].token <= session'.generation
                      /\ token'[e] <= session'.generation
                      /\ told'[e].generation <= session.generation
                      /\ told'[e].generation = session.generation
                           => told'[e].snapshot <= session.snapshot
    BY DEF TokensMove
  <2>1. stored[e].token \in Nat /\ token[e] \in Nat /\ session.generation \in Nat
    <3>1. stored[e].token \in Generations
      BY DEF TypeInv, ScorerTypes
    <3>2. token[e] \in Generations
      BY DEF TypeInv, OutboxTypes
    <3>3. session.generation \in Generations
      BY DEF TypeInv, ControlTypes
    <3> QED
      BY <3>1, <3>2, <3>3, GenerationsAreNumbers
  <2>2. session'.generation \in Nat
    BY DEF TypeInv, ControlTypes, Generations
  <2>3. stored[e].token <= session.generation /\ token[e] <= session.generation
    BY DEF SnapshotInv, GenerationInv
  <2>4. stored'[e].token <= session'.generation
    BY <1>4, <1>5, <2>1, <2>2, <2>3
  <2>5. token'[e] <= session'.generation
    BY <1>1, <1>5, <2>1, <2>2, <2>3
  <2> QED
    BY <1>1, <2>4, <2>5 DEF SnapshotInv, GenerationInv, AcknowledgedIsKept
<1>9. RoomMoves
  BY <1>1, <1>2, <1>3, <1>4 DEF RoomMoves, SnapshotInv, JoinedInv, Joined
<1>10. UNCHANGED sends
  BY <1>1 DEF clocks
<1> QED
  BY <1>5, <1>6, <1>7, <1>8, <1>9, <1>10, QuietSnapshots

\* The answers to a snapshot and to an opening are heard (HearProgress, HearOpen).
LEMMA HearSnapshots ==
  ASSUME TypeInv, TypeInv', SnapshotInv, NEW r \in net, HearProgress(r) \/ HearOpen(r)
  PROVE  SnapshotInv'
<1>1. /\ UNCHANGED <<session, clocks, screen, token, writing>>
      /\ net' \subseteq net
  BY DEF HearProgress, HearOpen, control, outbox
<1>2. Joined' = Joined
  BY <1>1 DEF Joined
<1>3. r.device \in Devices /\ r.token \in Generations /\ r.body \in Nat
  BY DEF TypeInv, NetTypes, Requests
<1>4. r.token <= session.generation
  BY DEF SnapshotInv, GenerationInv
<1>5. \A d \in Devices : /\ stored'[d].sequence = stored[d].sequence
                         /\ stored'[d].token <= session.generation
  <2>1. CASE HearProgress(r)
    BY <2>1 DEF HearProgress, SnapshotInv, GenerationInv
  <2>2. CASE HearOpen(r)
    <3>1. stored' = [stored EXCEPT ![r.device].token = r.token]
      BY <2>2 DEF HearOpen
    <3> QED
      BY <1>3, <1>4, <3>1 DEF TypeInv, ScorerTypes, SnapshotInv, GenerationInv
  <2> QED
    BY <2>1, <2>2
<1>6. ClockInv'
  BY <1>1, <1>2, <1>5, ClocksStay DEF SnapshotInv
<1>7. SessionMoves /\ session.generation <= session'.generation
  BY <1>1, SessionStays
<1>8. NoNewSnapshots
  <2>1. Quieter
    BY <1>1, FewerSay DEF TypeInv
  <2> QED
    BY <1>2, <1>7, <2>1, QuieterIsOld
<1> DEFINE Right(t) == /\ t.generation <= session.generation
                       /\ t.generation = session.generation => t.snapshot <= session.snapshot
<1>9. \A d \in Devices : Right(told[d])
  BY DEF SnapshotInv, GenerationInv, AcknowledgedIsKept
<1>10. \A d \in Devices : Right(told'[d])
  <2>1. CASE UNCHANGED told
    BY <1>9, <2>1
  <2>2. CASE ~UNCHANGED told
    <3> DEFINE before == IF told[r.device].generation = r.token
                         THEN told[r.device].snapshot ELSE 0
               said == [generation |-> r.token, snapshot |-> Max({r.body, before})]
    <3>1. HearProgress(r) /\ r.answer = "ok" /\ told' = [told EXCEPT ![r.device] = said]
      BY <2>2 DEF HearProgress, HearOpen
    <3>2. r \in Sent
      BY <3>1 DEF HearProgress, Sent
    <3>3. r.token = session.generation => r.body <= session.snapshot
      BY <3>1, <3>2 DEF SnapshotInv, AnswerInv
    <3>4. told[r.device].snapshot \in Nat /\ session.snapshot \in Nat
      BY <1>3, Bounds DEF TypeInv, ToldTypes, ControlTypes
    <3>5. before \in Int /\ r.body \in Int
      BY <1>3, <3>4
    <3>6. r.token = session.generation => before <= session.snapshot
      BY <1>3, <1>9, <3>4
    <3> HIDE DEF before
    <3>7. Max({r.body, before}) \in {r.body, before}
      BY <3>5, MaxOfTwo
    <3>8. Right(said)
      BY <1>4, <3>3, <3>6, <3>7
    <3> HIDE DEF said, Right
    <3>9. \A d \in Devices : told'[d] = IF d = r.device THEN said ELSE told[d]
      BY <3>1 DEF TypeInv, ToldTypes
    <3> QED
      BY <1>9, <3>8, <3>9
  <2> QED
    BY <2>1, <2>2
<1>11. TokensMove
  BY <1>1, <1>5, <1>10 DEF TokensMove, SnapshotInv, GenerationInv
<1>12. RoomMoves
  BY <1>1, <1>2, <1>5 DEF RoomMoves, SnapshotInv, JoinedInv, Joined
<1>13. UNCHANGED sends
  BY <1>1 DEF clocks
<1> QED
  BY <1>6, <1>7, <1>8, <1>11, <1>12, <1>13, QuietSnapshots

\* Control opens a session, gives it another writer, or takes its final (ServeOpen,
\* ServeTakeOver, ServeFinal).
LEMMA ServeSnapshots ==
  ASSUME TypeInv, TypeInv', SnapshotInv, NEW r \in net, Serve(r), r.kind # "progress"
  PROVE  SnapshotInv'
<1>1. UNCHANGED <<clocks, screen, stored, token, writing, told>>
  BY DEF Serve, scorer, outbox
<1>2. Joined' = Joined /\ UNCHANGED sends
  BY <1>1 DEF Joined, clocks
<1>3. ClockInv'
  BY <1>1, <1>2, ClocksStay DEF SnapshotInv
<1>4. r \in Requests /\ NetTypes
  BY DEF TypeInv, NetTypes
<1>5. r.device \in Devices /\ r.token \in Generations
  BY <1>4 DEF Requests
<1>6. session.snapshot <= sends /\ session.snapshot \in Nat /\ sends \in Nat
  BY SentTypes DEF SnapshotInv, SequenceInv
<1>7. session.generation \in Nat /\ session'.generation \in Nat
  <2>1. session.generation \in Generations /\ session'.generation \in Generations
    BY DEF TypeInv, ControlTypes
  <2> QED
    BY <2>1, GenerationsAreNumbers
<1>8. SessionMoves /\ session.generation <= session'.generation
  <2>1. CASE ServeOpen(r)
    BY <1>5, <2>1, OpenedMoves DEF ServeOpen
  <2>2. CASE ServeTakeOver(r)
    <3>1. session' \in {session, [session EXCEPT !.writer = r.device]}
      BY <2>2 DEF ServeTakeOver
    <3>2. /\ session'.generation = session.generation /\ session'.sequence = session.sequence
          /\ session'.snapshot = session.snapshot /\ session'.status = session.status
      BY <3>1 DEF TypeInv, ControlTypes
    <3> QED
      BY <1>6, <1>7, <3>2 DEF SessionMoves
  <2>3. CASE ServeFinal(r)
    <3>1. CASE UNCHANGED session
      BY <3>1, SessionStays
    <3>2. CASE session' = [session EXCEPT !.status = "final", !.writer = None,
                                          !.snapshot = sends]
      <4>1. /\ session'.generation = session.generation /\ session'.sequence = session.sequence
            /\ session'.snapshot = sends /\ session'.status = "final"
        BY <3>2 DEF TypeInv, ControlTypes
      <4> QED
        BY <1>6, <1>7, <4>1 DEF SessionMoves
    <3> QED
      BY <2>3, <3>1, <3>2 DEF ServeFinal, control
  <2> QED
    BY <2>1, <2>2, <2>3 DEF Serve, ServeProgress
<1>9. NoNewSnapshots
  <2>1. PICK answer \in Answers, t \in Generations :
          net' = AnsweredBy(r, answer, t) /\ t <= session'.generation
    <3>1. r.token <= session.generation /\ r.token \in Nat
      BY <1>5, GenerationsAreNumbers DEF SnapshotInv, GenerationInv
    <3>2. r.token <= session'.generation
      BY <1>7, <1>8, <3>1
    <3>3. session'.generation \in Generations /\ session'.generation <= session'.generation
      BY <1>7 DEF TypeInv, ControlTypes
    <3>4. CASE ServeOpen(r)
      BY <3>3, <3>4 DEF ServeOpen, Answers
    <3>5. CASE ServeTakeOver(r) \/ ServeFinal(r)
      BY <1>5, <3>2, <3>5 DEF ServeTakeOver, ServeFinal, Answers
    <3> QED
      BY <3>4, <3>5 DEF Serve, ServeProgress
  <2>2. AnswerOnly(r, answer, t)
    BY <1>4, <2>1, AnswerSays
  <2> SUFFICES ASSUME NEW q \in net'
               PROVE  /\ q.device \in Joined' /\ q.token <= session'.generation
                      /\ q.kind = "progress" => SaidIn(q, net)
    BY DEF NoNewSnapshots
  <2>3. CASE q \in net
    <3>1. q.device \in Joined /\ q.token <= session.generation /\ SaidIn(q, net)
      BY <2>3 DEF SnapshotInv, JoinedInv, GenerationInv, SaidIn
    <3>2. q.token \in Generations
      BY <1>4, <2>3 DEF NetTypes, Requests
    <3>3. q.token \in Nat
      BY <3>2, GenerationsAreNumbers
    <3>4. q.token <= session'.generation
      BY <1>7, <1>8, <3>1, <3>3
    <3> QED
      BY <1>2, <3>1, <3>4
  <2>4. CASE q = [r EXCEPT !.answer = answer, !.token = t]
    <3>1. q.device = r.device /\ q.kind = r.kind /\ q.token = t
      BY <1>4, <2>4 DEF Requests
    <3>2. r.device \in Joined
      BY DEF SnapshotInv, JoinedInv
    <3> QED
      BY <1>2, <2>1, <3>1, <3>2
  <2> QED
    BY <2>2, <2>3, <2>4 DEF AnswerOnly
<1>10. TokensMove
  <2> SUFFICES ASSUME NEW e \in Devices
               PROVE  /\ stored'[e].token <= session'.generation
                      /\ token'[e] <= session'.generation
                      /\ told'[e].generation <= session.generation
                      /\ told'[e].generation = session.generation
                           => told'[e].snapshot <= session.snapshot
    BY DEF TokensMove
  <2>1. stored[e].token \in Nat /\ token[e] \in Nat
    <3>1. stored[e].token \in Generations
      BY DEF TypeInv, ScorerTypes
    <3>2. token[e] \in Generations
      BY DEF TypeInv, OutboxTypes
    <3> QED
      BY <3>1, <3>2, GenerationsAreNumbers
  <2>2. stored[e].token <= session.generation /\ token[e] <= session.generation
    BY DEF SnapshotInv, GenerationInv
  <2>3. stored[e].token <= session'.generation /\ token[e] <= session'.generation
    BY <1>7, <1>8, <2>1, <2>2
  <2> QED
    BY <1>1, <2>3 DEF SnapshotInv, GenerationInv, AcknowledgedIsKept
<1>11. RoomMoves
  BY <1>1, <1>2 DEF RoomMoves, SnapshotInv, JoinedInv
<1> QED
  BY <1>2, <1>3, <1>8, <1>9, <1>10, <1>11, QuietSnapshots

-----------------------------------------------------------------------------
(* Sending a snapshot, and answering one.                                  *)

\* The next sequence is above every one used so far (nextSequence).
LEMMA NextSequenceIsNew ==
  ASSUME TypeInv, SnapshotInv, NEW d \in Joined
  PROVE  /\ \A r \in Sent : r.sequence < NextSequence(d)
         /\ session.sequence < NextSequence(d)
         /\ NoOffset => NextSequence(d) <= sends + 1
<1>1. d \in Devices
  BY DEF Joined
<1>2. ClockTypes /\ ScorerTypes
  BY DEF TypeInv
<1>3. /\ NextSequence(d) \in Nat /\ NextSequence(d) > stored[d].sequence
      /\ NextSequence(d) >= sends + 1 + offset[d]
      /\ NextSequence(d) \in {stored[d].sequence + 1, sends + 1 + offset[d]}
  BY <1>1, <1>2, NextSequenceGrows
<1>4. /\ \A e \in Devices : stored[e].sequence \in Nat
      /\ \A r \in Sent : r.sequence \in Nat
      /\ session.sequence \in Nat /\ sends \in Nat
  BY SentTypes
<1>5. \A e \in Joined : stored[e].sequence < NextSequence(d)
  <2> SUFFICES ASSUME NEW e \in Joined PROVE stored[e].sequence < NextSequence(d)
    OBVIOUS
  <2>1. e \in Devices
    BY DEF Joined
  <2>2. CASE NoOffset
    <3>1. stored[e].sequence <= sends /\ offset[d] = 0
      BY <1>1, <2>1, <2>2 DEF SnapshotInv, ClockInv, NoOffset
    <3>2. NextSequence(d) >= sends + 1
      BY <1>3, <1>4, <3>1
    <3> QED
      BY <1>3, <1>4, <2>1, <3>1, <3>2
  <2>3. CASE ~NoOffset
    <3>1. e = d
      BY <2>3 DEF SnapshotInv, ClockInv
    <3> QED
      BY <1>1, <1>3, <1>4, <3>1
  <2> QED
    BY <2>2, <2>3
<1>6. \A r \in Sent : r.sequence < NextSequence(d)
  <2> SUFFICES ASSUME NEW r \in Sent PROVE r.sequence < NextSequence(d)
    OBVIOUS
  <2>1. r.device \in Joined /\ r.device \in Devices
    BY DEF SnapshotInv, JoinedInv, Sent, Joined
  <2>2. r.sequence <= stored[r.device].sequence
    BY DEF SnapshotInv, SequenceInv
  <2>3. stored[r.device].sequence < NextSequence(d) /\ stored[r.device].sequence \in Nat
    BY <1>4, <1>5, <2>1
  <2> QED
    BY <1>3, <1>4, <2>2, <2>3
<1>7. session.sequence < NextSequence(d)
  <2>1. CASE session.sequence = 0
    BY <1>1, <1>3, <1>4, <2>1
  <2>2. CASE \E e \in Joined : session.sequence <= stored[e].sequence
    <3>1. PICK e \in Joined : session.sequence <= stored[e].sequence
      BY <2>2
    <3>2. e \in Devices
      BY DEF Joined
    <3>3. stored[e].sequence < NextSequence(d) /\ stored[e].sequence \in Nat
      BY <1>4, <1>5, <3>2
    <3> QED
      BY <1>3, <1>4, <3>1, <3>3
  <2> QED
    BY <2>1, <2>2 DEF SnapshotInv, SequenceInv
<1>8. ASSUME NoOffset PROVE NextSequence(d) <= sends + 1
  <2>1. stored[d].sequence <= sends /\ offset[d] = 0
    BY <1>1, <1>8 DEF SnapshotInv, ClockInv, NoOffset
  <2> QED
    BY <1>1, <1>3, <1>4, <2>1
<1> QED
  BY <1>6, <1>7, <1>8

\* A snapshot is sent with the next sequence (Flush).
LEMMA FlushSnapshots ==
  ASSUME TypeInv, TypeInv', SnapshotInv, NEW d \in Devices, Flush(d)
  PROVE  SnapshotInv'
<1>1. /\ UNCHANGED <<session, offset, screen, token, writing, told>>
      /\ d \in Joined /\ Joined' = Joined
  BY DEF Flush, control, outbox, Mounted, Joined
<1>2. /\ \A w \in writing' : w.device \in Joined
      /\ \A e \in Devices : token'[e] <= session.generation
  BY <1>1 DEF SnapshotInv, JoinedInv, GenerationInv
<1>3. CASE UNCHANGED <<sends, stored, net>>
  <2>1. NoNewSnapshots
    BY <1>1, <1>3 DEF NoNewSnapshots, SnapshotInv, JoinedInv, GenerationInv, SaidIn
  <2> QED
    BY <1>1, <1>2, <1>3, <2>1, SameSession DEF clocks
<1>4. CASE ~UNCHANGED <<sends, stored, net>>
  <2> DEFINE next == NextSequence(d)
             q == Request(d, "progress", stored[d].token, next, sends + 1)
  <2>1. /\ sends' = sends + 1
        /\ stored' = [stored EXCEPT ![d].sequence = next]
        /\ net' = net \union {q}
    BY <1>4 DEF Flush
  <2>2. /\ \A r \in Sent : r.sequence < next
        /\ session.sequence < next
        /\ NoOffset => next <= sends + 1
    BY <1>1, NextSequenceIsNew
  <2>3. next \in Nat /\ next > stored[d].sequence
    BY NextSequenceGrows DEF TypeInv
  <2>4. /\ q.device = d /\ q.kind = "progress" /\ q.token = stored[d].token
        /\ q.sequence = next /\ q.body = sends + 1 /\ q.answer = None
    BY DEF Request
  <2> HIDE DEF q, next
  <2>5. /\ \A r \in Sent : /\ r.device \in Devices /\ r.sequence \in Nat /\ r.body \in Nat
                           /\ r.body <= sends
        /\ session.sequence \in Nat /\ session.snapshot \in Nat /\ sends \in Nat
        /\ \A e \in Devices : stored[e].sequence \in Nat
    BY SentTypes
  <2>6. /\ \A e \in Devices \ {d} : stored'[e] = stored[e]
        /\ stored'[d].sequence = next /\ stored'[d].token = stored[d].token
    BY <2>1 DEF TypeInv, ScorerTypes
  <2>7. \A r \in net' : r \in net \/ r = q
    BY <2>1
  <2>8. \A r \in Sent' : r \in Sent \/ r = q
    BY <2>7 DEF Sent
  <2>9. JoinedInv'
    BY <1>1, <1>2, <2>4, <2>7 DEF JoinedInv, SnapshotInv
  <2>10. ClockInv'
    <3>1. NoOffset' <=> NoOffset
      BY <1>1 DEF NoOffset
    <3>2. ASSUME NoOffset, NEW e \in Devices PROVE stored'[e].sequence <= sends'
      <4>1. stored[e].sequence <= sends
        BY <3>2 DEF SnapshotInv, ClockInv
      <4>2. CASE e = d
        BY <2>1, <2>2, <2>6, <3>2, <4>2
      <4>3. CASE e # d
        BY <2>1, <2>5, <2>6, <4>1, <4>3
      <4> QED
        BY <4>2, <4>3
    <3> QED
      BY <1>1, <3>1, <3>2 DEF ClockInv, SnapshotInv
  <2>11. \A e \in Devices : stored[e].sequence <= stored'[e].sequence
                            /\ stored'[e].sequence \in Nat
    BY <2>3, <2>5, <2>6
  <2>12. SequenceInv'
    <3>1. ASSUME NEW r \in Sent'
          PROVE  0 < r.sequence /\ r.sequence <= stored'[r.device].sequence /\ 0 < r.body
      <4>1. CASE r = q
        <5>1. 0 < next
          BY <2>3, <2>5
        <5> QED
          BY <2>3, <2>4, <2>5, <2>6, <4>1, <5>1
      <4>2. CASE r \in Sent
        <5>1. 0 < r.sequence /\ r.sequence <= stored[r.device].sequence /\ 0 < r.body
          BY <4>2 DEF SnapshotInv, SequenceInv
        <5>2. /\ stored[r.device].sequence <= stored'[r.device].sequence
              /\ stored[r.device].sequence \in Nat /\ stored'[r.device].sequence \in Nat
              /\ r.sequence \in Nat
          BY <2>5, <2>11, <4>2
        <5> QED
          BY <5>1, <5>2
      <4> QED
        BY <2>8, <3>1, <4>1, <4>2
    <3>2. session.sequence = 0 \/ \E e \in Joined : session.sequence <= stored'[e].sequence
      <4>1. CASE session.sequence = 0
        BY <4>1
      <4>2. CASE \E e \in Joined : session.sequence <= stored[e].sequence
        <5>1. PICK e \in Joined : session.sequence <= stored[e].sequence
          BY <4>2
        <5>2. e \in Devices
          BY DEF Joined
        <5>3. session.sequence <= stored'[e].sequence
          BY <2>5, <2>11, <5>1, <5>2
        <5> QED
          BY <5>3
      <4> QED
        BY <4>1, <4>2 DEF SnapshotInv, SequenceInv
    <3>3. session.snapshot <= sends'
      BY <2>1, <2>5 DEF SnapshotInv, SequenceInv
    <3> QED
      BY <1>1, <3>1, <3>2, <3>3 DEF SequenceInv
  <2>13. OrderInv'
    <3>1. ASSUME NEW r \in Sent PROVE r.sequence < q.sequence /\ r.body < q.body
      BY <2>2, <2>4, <2>5, <3>1
    <3>2. /\ q.sequence \in Nat /\ q.body \in Nat
          /\ session.sequence < q.sequence /\ session.snapshot < q.body
      BY <2>2, <2>3, <2>4, <2>5 DEF SnapshotInv, SequenceInv
    <3>3. ASSUME NEW r \in Sent', NEW p \in Sent'
          PROVE  r.sequence < p.sequence <=> r.body < p.body
      <4>1. CASE r \in Sent /\ p \in Sent
        BY <4>1 DEF SnapshotInv, OrderInv
      <4>2. CASE r \in Sent /\ p = q
        BY <3>1, <4>2
      <4>3. CASE r = q /\ p \in Sent
        <5>1. p.sequence < q.sequence /\ p.body < q.body /\ p.sequence \in Nat /\ p.body \in Nat
          BY <2>5, <3>1, <4>3
        <5> QED
          BY <3>2, <4>3, <5>1
      <4>4. CASE r = q /\ p = q
        BY <3>2, <4>4
      <4> QED
        BY <2>8, <3>3, <4>1, <4>2, <4>3, <4>4
    <3>4. ASSUME session.status = "open", NEW r \in Sent'
          PROVE  session.sequence < r.sequence <=> session.snapshot < r.body
      <4>1. CASE r \in Sent
        BY <3>4, <4>1 DEF SnapshotInv, OrderInv
      <4>2. CASE r = q
        BY <3>2, <4>2
      <4> QED
        BY <2>8, <3>4, <4>1, <4>2
    <3> QED
      BY <1>1, <3>3, <3>4 DEF OrderInv
  <2>14. GenerationInv'
    BY <1>1, <2>4, <2>6, <2>7 DEF GenerationInv, SnapshotInv
  <2>15. AnswerInv'
    <3>1. None # "ok"
      BY SessionAssumption
    <3> QED
      BY <1>1, <2>4, <2>8, <3>1 DEF AnswerInv, SnapshotInv
  <2>16. AcknowledgedIsKept'
    BY <1>1 DEF AcknowledgedIsKept, SnapshotInv
  <2> QED
    BY <2>9, <2>10, <2>12, <2>13, <2>14, <2>15, <2>16 DEF SnapshotInv
<1> QED
  BY <1>3, <1>4

\* Control takes a snapshot with a higher sequence than its own, and answers "ok"
\* to any other too (ServeProgress).
LEMMA ProgressSnapshots ==
  ASSUME TypeInv, TypeInv', SnapshotInv, NEW r \in net, Serve(r), r.kind = "progress"
  PROVE  SnapshotInv'
<1>1. UNCHANGED <<clocks, screen, stored, token, writing, told>> /\ ServeProgress(r)
  BY DEF Serve, scorer, outbox, ServeOpen, ServeTakeOver, ServeFinal
<1>2. Joined' = Joined /\ UNCHANGED sends
  BY <1>1 DEF Joined, clocks
<1>3. ClockInv'
  BY <1>1, <1>2, ClocksStay DEF SnapshotInv
<1>4. r \in Sent /\ r \in Requests /\ NetTypes
  BY DEF TypeInv, NetTypes, Sent
<1>5. PICK answer \in Answers :
        /\ net' = AnsweredBy(r, answer, r.token)
        /\ answer = "ok" => r.token = session.generation /\ session.status = "open"
        /\ session' = IF answer = "ok" /\ r.sequence > session.sequence
                      THEN [session EXCEPT !.sequence = r.sequence, !.snapshot = r.body]
                      ELSE session
  BY <1>1 DEF ServeProgress, Answers, Known
<1> DEFINE new == [r EXCEPT !.answer = answer, !.token = r.token]
<1>6. \A q \in net' : q \in net \/ q = new
  <2>1. r.token \in Generations
    BY <1>4 DEF Requests
  <2>2. AnswerOnly(r, answer, r.token)
    BY <1>4, <1>5, <2>1, AnswerSays
  <2> QED
    BY <2>2 DEF AnswerOnly
<1>7. /\ new.device = r.device /\ new.kind = "progress" /\ new.token = r.token
      /\ new.sequence = r.sequence /\ new.body = r.body /\ new.answer = answer
  BY <1>4 DEF Requests
<1> HIDE DEF new
<1>8. /\ \A q \in Sent : /\ q.device \in Devices /\ q.token \in Generations
                         /\ q.sequence \in Nat /\ q.body \in Nat /\ q.body <= sends
      /\ session.sequence \in Nat /\ session.snapshot \in Nat /\ sends \in Nat
  BY SentTypes
<1>9. \A q \in Sent' : \E p \in Sent :
        /\ p.device = q.device /\ p.token = q.token /\ p.sequence = q.sequence
        /\ p.body = q.body /\ (p.answer = q.answer \/ (q = new /\ p = r))
  <2> SUFFICES ASSUME NEW q \in Sent'
               PROVE  \E p \in Sent :
                        /\ p.device = q.device /\ p.token = q.token /\ p.sequence = q.sequence
                        /\ p.body = q.body /\ (p.answer = q.answer \/ (q = new /\ p = r))
    OBVIOUS
  <2>1. q \in net' /\ q.kind = "progress"
    BY DEF Sent
  <2>2. CASE q \in net
    <3>1. q \in Sent
      BY <2>1, <2>2 DEF Sent
    <3> WITNESS q \in Sent
    <3> QED
      OBVIOUS
  <2>3. CASE q = new
    BY <1>4, <1>7, <2>3
  <2> QED
    BY <1>6, <2>1, <2>2, <2>3
<1> DEFINE Taken == /\ session'.sequence = r.sequence /\ session'.snapshot = r.body
                    /\ session.sequence < r.sequence /\ session.snapshot < r.body
<1>10. /\ session'.generation = session.generation /\ session'.status = session.status
       /\ \/ Taken
          \/ session'.sequence = session.sequence /\ session'.snapshot = session.snapshot
  <2>1. CASE answer = "ok" /\ r.sequence > session.sequence
    <3>1. session' = [session EXCEPT !.sequence = r.sequence, !.snapshot = r.body]
      BY <1>5, <2>1
    <3>2. /\ session'.generation = session.generation /\ session'.status = session.status
          /\ session'.sequence = r.sequence /\ session'.snapshot = r.body
      BY <3>1 DEF TypeInv, ControlTypes
    <3>3. session.sequence < r.sequence
      BY <1>4, <1>8, <2>1
    <3>4. session.snapshot < r.body
      BY <1>4, <1>5, <2>1, <3>3 DEF SnapshotInv, OrderInv
    <3> QED
      BY <3>2, <3>3, <3>4
  <2>2. CASE ~(answer = "ok" /\ r.sequence > session.sequence)
    BY <1>5, <2>2
  <2> QED
    BY <2>1, <2>2
<1>11. session.snapshot <= session'.snapshot /\ session'.snapshot \in Nat
  BY <1>4, <1>8, <1>10
<1> HIDE DEF Taken
<1>12. JoinedInv'
  BY <1>1, <1>2, <1>6, <1>7 DEF JoinedInv, SnapshotInv
<1>13. SequenceInv'
  <2>1. \A q \in Sent' :
          0 < q.sequence /\ q.sequence <= stored'[q.device].sequence /\ 0 < q.body
    BY <1>1, <1>9 DEF SnapshotInv, SequenceInv
  <2>2. session'.sequence = 0 \/ \E e \in Joined' : session'.sequence <= stored'[e].sequence
    <3>1. r.sequence <= stored[r.device].sequence /\ r.device \in Joined
      BY <1>4 DEF SnapshotInv, SequenceInv, JoinedInv
    <3> QED
      BY <1>1, <1>2, <1>10, <3>1 DEF Taken, SnapshotInv, SequenceInv
  <2>3. session'.snapshot <= sends'
    BY <1>2, <1>4, <1>8, <1>10 DEF Taken, SnapshotInv, SequenceInv
  <2> QED
    BY <2>1, <2>2, <2>3 DEF SequenceInv
<1>14. OrderInv'
  <2>1. ASSUME NEW q \in Sent', NEW p \in Sent'
        PROVE  q.sequence < p.sequence <=> q.body < p.body
    <3>1. PICK q0 \in Sent : q0.sequence = q.sequence /\ q0.body = q.body
      BY <1>9, <2>1
    <3>2. PICK p0 \in Sent : p0.sequence = p.sequence /\ p0.body = p.body
      BY <1>9, <2>1
    <3> QED
      BY <3>1, <3>2 DEF SnapshotInv, OrderInv
  <2>2. ASSUME session'.status = "open", NEW q \in Sent'
        PROVE  session'.sequence < q.sequence <=> session'.snapshot < q.body
    <3>1. PICK q0 \in Sent : q0.sequence = q.sequence /\ q0.body = q.body
      BY <1>9, <2>2
    <3>2. CASE Taken
      <4>1. r.sequence < q0.sequence <=> r.body < q0.body
        BY <1>4, <3>1 DEF SnapshotInv, OrderInv
      <4> QED
        BY <3>1, <3>2, <4>1 DEF Taken
    <3>3. CASE session'.sequence = session.sequence /\ session'.snapshot = session.snapshot
      BY <1>10, <2>2, <3>1, <3>3 DEF SnapshotInv, OrderInv
    <3> QED
      BY <1>10, <3>2, <3>3
  <2> QED
    BY <2>1, <2>2 DEF OrderInv
<1>15. GenerationInv'
  BY <1>1, <1>6, <1>7, <1>10 DEF GenerationInv, SnapshotInv
<1>16. AnswerInv'
  <2> SUFFICES ASSUME NEW q \in Sent', q.answer = "ok", q.token = session'.generation
               PROVE  q.body <= session'.snapshot
    BY DEF AnswerInv
  <2>1. PICK p \in Sent : /\ p.token = q.token /\ p.body = q.body
                          /\ (p.answer = q.answer \/ (q = new /\ p = r))
    BY <1>9
  <2>2. CASE p.answer = q.answer
    <3>1. p.body <= session.snapshot
      BY <1>10, <2>1, <2>2 DEF SnapshotInv, AnswerInv
    <3> QED
      BY <1>8, <1>11, <2>1, <3>1
  <2>3. CASE q = new /\ p = r
    <3>1. answer = "ok" /\ session.status = "open"
      BY <1>5, <1>7, <2>3
    <3>2. CASE Taken
      BY <1>8, <2>1, <2>3, <3>2 DEF Taken
    <3>3. CASE ~Taken
      <4>1. ~(session.sequence < r.sequence)
        <5>1. r.sequence > session.sequence =>
                session' = [session EXCEPT !.sequence = r.sequence, !.snapshot = r.body]
          BY <1>5, <3>1
        <5>2. r.sequence > session.sequence => session'.sequence = r.sequence
          BY <5>1 DEF TypeInv, ControlTypes
        <5> QED
          BY <1>4, <1>8, <1>10, <3>3, <5>2
      <4>2. ~(session.snapshot < r.body)
        BY <1>4, <3>1, <4>1 DEF SnapshotInv, OrderInv
      <4> QED
        BY <1>4, <1>8, <1>11, <2>1, <2>3, <4>2
    <3> QED
      BY <3>2, <3>3
  <2> QED
    BY <2>1, <2>2, <2>3
<1>17. AcknowledgedIsKept'
  <2> SUFFICES ASSUME NEW d \in Devices, told[d].generation = session.generation
               PROVE  told[d].snapshot <= session'.snapshot
    BY <1>1, <1>10 DEF AcknowledgedIsKept
  <2>1. told[d].snapshot <= session.snapshot
    BY DEF SnapshotInv, AcknowledgedIsKept
  <2>2. told[d].snapshot \in Nat
    BY Bounds DEF TypeInv, ToldTypes
  <2> QED
    BY <1>8, <1>11, <2>1, <2>2
<1> QED
  BY <1>3, <1>12, <1>13, <1>14, <1>15, <1>16, <1>17 DEF SnapshotInv

\* Every step keeps the invariant of the snapshots (Next).
LEMMA StepSnapshots ==
  ASSUME SteadyClocks, TypeInv, TypeInv', SnapshotInv, [Next]_vars
  PROVE  SnapshotInv'
<1>1. CASE Forget
  BY <1>1, ForgetSnapshots
<1>2. ASSUME NEW r \in net, Serve(r) PROVE SnapshotInv'
  BY <1>2, ServeSnapshots, ProgressSnapshots
<1>3. ASSUME NEW r \in net, HearProgress(r) \/ HearOpen(r) PROVE SnapshotInv'
  BY <1>3, HearSnapshots
<1>4. ASSUME NEW r \in net, HearFinal(r) \/ HearTakeOver(r) \/ GiveUp(r) PROVE SnapshotInv'
  BY <1>4, OutcomeSnapshots
<1>5. ASSUME NEW w \in writing, Record(w) PROVE SnapshotInv'
  BY <1>5, RecordSnapshots
<1>6. ASSUME NEW d \in Devices, Start(d) PROVE SnapshotInv'
  BY <1>6, StartSnapshots
<1>7. ASSUME NEW d \in Devices, Reload(d) \/ Correct(d) PROVE SnapshotInv'
  BY <1>7, ReloadSnapshots
<1>8. ASSUME NEW d \in Devices, SetClockBack(d) PROVE SnapshotInv'
  BY <1>8, ClockSnapshots
<1>9. ASSUME NEW d \in Devices, Flush(d) PROVE SnapshotInv'
  BY <1>9, FlushSnapshots
<1>10. ASSUME NEW d \in Devices, Repair(d) \/ Reconnect(d) \/ TakeOver(d) PROVE SnapshotInv'
  BY <1>10, AskingSnapshots
<1>11. ASSUME NEW d \in Devices, Submit(d) PROVE SnapshotInv'
  BY <1>11, SubmitSnapshots
<1>12. ASSUME NEW d \in Devices, Score(d) \/ Poll(d) \/ Expire(d) PROVE SnapshotInv'
  BY <1>12, OtherSnapshots
<1>13. ASSUME NEW d \in Devices, AutoRetry(d) \/ ManualRetry(d) PROVE SnapshotInv'
  <2>1. d \in Joined /\ Send(d)
    BY <1>13 DEF AutoRetry, ManualRetry, Joined
  <2> QED
    BY <2>1, OtherSnapshots
<1>14. CASE UNCHANGED vars
  <2>1. /\ UNCHANGED <<session, clocks, screen, stored, token, writing, net, told>>
        /\ Joined' = Joined
    BY <1>14 DEF vars, control, scorer, outbox, Joined
  <2>2. NoNewSnapshots
    BY <2>1 DEF NoNewSnapshots, SnapshotInv, JoinedInv, GenerationInv, SaidIn
  <2>3. /\ \A d \in Devices : token'[d] <= session.generation
        /\ \A w \in writing' : w.device \in Joined
    BY <2>1 DEF SnapshotInv, GenerationInv, JoinedInv
  <2> QED
    BY <2>1, <2>2, <2>3, SameSession
<1> QED
  BY <1>1, <1>2, <1>3, <1>4, <1>5, <1>6, <1>7, <1>8, <1>9, <1>10, <1>11, <1>12, <1>13, <1>14
     DEF Next

\* Nothing acknowledged is dropped for something older, for any devices, bounds and
\* faults, one device's clock set back included: all it takes is that the clocks of
\* devices that share a room are together and that a game is not started again on
\* the device that scores it (nextSequence, progress).
THEOREM AcknowledgedKept ==
  ASSUME SteadyClocks
  PROVE  Spec => []AcknowledgedIsKept
<1>1. Init => SnapshotInv
  <2> SUFFICES ASSUME Init PROVE SnapshotInv
    OBVIOUS
  <2>1. /\ net = {} /\ writing = {} /\ NoOffset /\ sends = 0
        /\ session.sequence = 0 /\ session.snapshot = 0 /\ session.generation = 0
        /\ \A d \in Devices : /\ stored[d].sequence = 0 /\ stored[d].token = 0
                              /\ token[d] = 0
                              /\ told[d].generation = 0 /\ told[d].snapshot = 0
    BY DEF Init, NoOffset
  <2>2. Sent = {}
    BY <2>1 DEF Sent
  <2> QED
    BY <2>1, <2>2 DEF SnapshotInv, JoinedInv, ClockInv, SequenceInv, OrderInv, GenerationInv,
       AnswerInv, AcknowledgedIsKept
<1>2. TypeInv /\ TypeInv' /\ SnapshotInv /\ [Next]_vars => SnapshotInv'
  BY StepSnapshots
<1>3. SnapshotInv => AcknowledgedIsKept
  BY DEF SnapshotInv
<1> QED
  BY <1>1, <1>2, <1>3, Types, PTL DEF Spec
=============================================================================
