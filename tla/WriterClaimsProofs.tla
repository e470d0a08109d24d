------------------------- MODULE WriterClaimsProofs -------------------------
(***************************************************************************)
(* Theorems about WriterClaims for every number of contenders: once every  *)
(* message is read one contender holds the claim; a contest that nobody    *)
(* left has a holder; a holder that answers in time keeps a young claim;   *)
(* and, while the claims exclude each other, a change of the catalog       *)
(* overwrites only what was put after its claim had ended.                 *)
(***************************************************************************)
EXTENDS WriterClaims, FiniteSetTheorems, TLAPS

Phases == {"idle", "opened", "electing", "holding", "locked", "refused", "lost", "released"}
Contested == {"electing", "holding", "refused", "lost", "released"}
EverHeld == {"holding", "locked", "lost", "released"}
Lasting == {"holding", "locked", "released"}
Kinds == {"probe", "candidate", "claim", "holding"}
Message == [kind : Kinds, from : Contenders]
Rivalry == {"claim", "holding"}

\* What waits to be read.
Said(queue) == {queue[i] : i \in DOMAIN queue}
Heard(c) == Said(inbox[c])
Word(kind, c) == [kind |-> kind, from |-> c]

ElectionTypes ==
  /\ world \in [scope : Scopes, punctual : BOOLEAN]
  /\ phase \in [Contenders -> Phases]
  /\ outvoted \subseteq Contenders /\ aged \subseteq Contenders /\ mute \subseteq Contenders
  /\ inbox \in [Contenders -> Seq(Message)]
  /\ \A c \in Contenders : c \notin Listening => inbox[c] = <<>>

DocumentTypes ==
  /\ edits \in Nat /\ early \subseteq Contenders /\ unsaved \subseteq Contenders
  /\ disk \subseteq 1..edits /\ late \subseteq 1..edits
  /\ copy \in [Contenders -> {None} \cup SUBSET (1..edits)]
  /\ writing \in [Contenders -> {None} \cup SUBSET (1..edits)]
  /\ \A c \in unsaved : copy[c] \subseteq 1..edits

\* Nobody speaks before it contests, and only who has held the claim says so.
Origins ==
  /\ \A c \in Contenders : \A m \in Heard(c) :
       /\ m.from # c /\ phase[m.from] \in Contested
       /\ m.kind \in Rivalry => phase[m.from] \in EverHeld
  /\ \A c \in aged : phase[c] \in EverHeld
  /\ \A c \in outvoted : phase[c] \in Contested

\* A browser lock is given to one tab; one that fails nobody leaves nothing to elect.
LockGiven ==
  /\ \A c, d \in Locked : c = d
  /\ world.scope \in {"game", "document"} => Locked = {}
  /\ world.scope = "lock" =>
       /\ \A c \in Contenders : phase[c] \notin {"electing", "holding", "lost"}
       /\ \A c \in Contenders : inbox[c] = <<>>
       /\ \A c \in Contenders : phase[c] = "refused"
            => \E d \in Contenders : phase[d] \in {"locked", "released"}
       /\ aged = {}

TypeInv == ElectionTypes /\ DocumentTypes /\ Origins /\ LockGiven

-----------------------------------------------------------------------------
(* What holds between contenders.                                          *)

\* Of two holders one is about to hear of the other.
Audible == IF Lease THEN Elected ELSE Elected \ mute
Converging ==
  \A c, d \in Audible :
    c # d => \/ \E m \in Heard(c) : m.kind \in Rivalry /\ m.from = d
             \/ \E m \in Heard(d) : m.kind \in Rivalry /\ m.from = c

\* While timers are never early: whoever is elected next to a holder that can speak
\* hears of it, unless it has the lower id and the holder's claim is old.
Warned ==
  \A c, d \in Contenders :
    /\ phase[c] = "holding" /\ c \notin mute
    /\ phase[d] = "electing" /\ d \notin outvoted
    /\ c < d \/ c \notin aged
    => \/ \E m \in Heard(c) : m.kind = "probe" /\ m.from = d
       \/ \E m \in Heard(d) : m.kind = "holding" /\ m.from = c

\* Of two holders the higher one has an old claim, and next reads of a lower one.
Superseded ==
  \A c, d \in Elected \ mute :
    c < d => /\ d \in aged /\ inbox[d] # <<>>
             /\ Head(inbox[d]).kind = "claim" /\ Head(inbox[d]).from < d

\* What a holder hears of a rival is the lower one's, and its own claim is old.
Displacing ==
  \A c \in Elected \ mute : \A m \in Heard(c) :
    m.kind \in Rivalry => c \in aged /\ m.from < c

Timely ==
  world.punctual => Warned /\ Superseded /\ Displacing

\* Whoever stood down, stood down for another.
Somebody == \E c \in Contenders : phase[c] \in Lasting
Reasons ==
  /\ \A c \in Contenders : phase[c] = "lost"
       => \E d \in Contenders : d < c /\ phase[d] \in Lasting
  /\ \A c \in Contenders : phase[c] = "refused" => c \in outvoted \/ Somebody
  /\ \A c \in outvoted :
       Somebody \/ \E d \in Contenders : d < c /\ phase[d] = "electing" /\ d \notin outvoted

Justified ==
  mute = {} /\ (aged = {} \/ world.punctual) => Reasons

\* Who reads under a claim has read all that was saved under one.
Exclusive == world.punctual /\ aged = {} /\ mute = {} /\ world.scope # "mixed"
UpToDate ==
  /\ \A c \in Contenders :
       c \notin early /\ phase[c] \notin EverHeld => copy[c] = None /\ writing[c] = None
  /\ \A c \in unsaved : phase[c] \in EverHeld
  /\ Exclusive =>
       \A c \in Holders \ early :
         /\ copy[c] = None \/ disk \ late \subseteq copy[c]
         /\ c \in unsaved => disk \ late \subseteq copy[c]
         /\ writing[c] = None \/ disk \ late \subseteq writing[c]

-----------------------------------------------------------------------------
(* Messages.                                                               *)

\* What is read leaves the queue.
LEMMA SaidTail ==
  ASSUME NEW S, NEW q \in Seq(S), q # <<>>
  PROVE  /\ Head(q) \in S /\ Tail(q) \in Seq(S)
         /\ Said(q) = Said(Tail(q)) \cup {Head(q)}
<1> DEFINE n == Len(q)
           rest == Tail(q)
<1>1. /\ n \in Nat /\ n > 0 /\ DOMAIN q = 1..n /\ Head(q) = q[1] /\ Head(q) \in S
      /\ rest \in Seq(S) /\ DOMAIN rest = 1..(n - 1)
      /\ \A i \in 1..(n - 1) : rest[i] = q[i + 1]
  <2>1. n \in Nat /\ DOMAIN q = 1..n /\ \A i \in 1..n : q[i] \in S
    OBVIOUS
  <2> QED
    BY <2>1
<1> HIDE DEF n, rest
<1>2. /\ \A i \in 2..n : i - 1 \in 1..(n - 1) /\ q[i] = rest[i - 1]
      /\ \A i \in 1..(n - 1) : i + 1 \in 2..n /\ i + 1 \in 1..n
      /\ \A i \in 1..n : i = 1 \/ i \in 2..n
      /\ 1 \in 1..n
  BY <1>1 DEF rest
<1>3. ASSUME NEW m \in Said(q)
      PROVE  m \in Said(rest) \cup {q[1]}
  <2>1. PICK i \in 1..n : m = q[i]
    BY <1>1 DEF Said
  <2>2. CASE i \in 2..n
    <3>1. m = rest[i - 1] /\ i - 1 \in DOMAIN rest
      BY <1>1, <1>2, <2>1, <2>2
    <3> QED
      BY <3>1 DEF Said
  <2> QED
    BY <1>2, <2>1, <2>2
<1>4. ASSUME NEW m \in Said(rest)
      PROVE  m \in Said(q)
  <2>1. PICK i \in 1..(n - 1) : m = rest[i]
    BY <1>1, <1>4 DEF Said
  <2>2. m = q[i + 1] /\ i + 1 \in DOMAIN q
    BY <1>1, <1>2, <2>1
  <2> QED
    BY <2>2 DEF Said
<1>5. q[1] \in Said(q)
  BY <1>1, <1>2 DEF Said
<1> QED
  BY <1>1, <1>3, <1>4, <1>5 DEF rest

\* What is posted joins the end.
LEMMA SaidJoined ==
  ASSUME NEW S, NEW q \in Seq(S), NEW r \in Seq(S), r # <<>>
  PROVE  /\ q \o r \in Seq(S) /\ q \o r # <<>>
         /\ Said(q \o r) = Said(q) \cup Said(r)
         /\ Head(q \o r) = IF q = <<>> THEN Head(r) ELSE Head(q)
<1> DEFINE n == Len(q)
           k == Len(r)
           joined == q \o r
<1>1. /\ n \in Nat /\ k \in Nat /\ k > 0 /\ DOMAIN q = 1..n /\ DOMAIN r = 1..k
      /\ joined \in Seq(S) /\ DOMAIN joined = 1..(n + k)
      /\ \A i \in 1..n : joined[i] = q[i]
      /\ \A i \in 1..k : joined[n + i] = r[i]
      /\ q = <<>> => n = 0
      /\ q # <<>> => n > 0
  <2>1. n \in Nat /\ k \in Nat /\ DOMAIN q = 1..n /\ DOMAIN r = 1..k
    OBVIOUS
  <2>2. k > 0
    BY <2>1
  <2>3. /\ joined \in Seq(S) /\ Len(joined) = n + k
        /\ \A i \in 1..n : joined[i] = q[i]
        /\ \A i \in 1..k : joined[n + i] = r[i]
    OBVIOUS
  <2>4. (q = <<>> => n = 0) /\ (q # <<>> => n > 0)
    BY <2>1
  <2> QED
    BY <2>1, <2>2, <2>3, <2>4
<1>2. joined # <<>> /\ Head(joined) = joined[1] /\ Head(r) = r[1] /\ (q # <<>> => Head(q) = q[1])
  BY <1>1
<1> HIDE DEF n, k, joined
<1>3. /\ \A i \in 1..(n + k) : i \in 1..n \/ (i - n \in 1..k /\ joined[i] = r[i - n])
      /\ \A i \in 1..n : i \in 1..(n + k)
      /\ \A i \in 1..k : n + i \in 1..(n + k)
  <2>1. \A i \in 1..(n + k) : i \in 1..n \/ (i - n \in 1..k /\ i = n + (i - n))
    BY <1>1
  <2> QED
    BY <1>1, <2>1
<1>4. ASSUME NEW m \in Said(joined)
      PROVE  m \in Said(q) \cup Said(r)
  <2>1. PICK i \in 1..(n + k) : m = joined[i]
    BY <1>1 DEF Said
  <2>2. CASE i \in 1..n
    BY <1>1, <2>1, <2>2 DEF Said
  <2>3. CASE i - n \in 1..k /\ joined[i] = r[i - n]
    BY <1>1, <2>1, <2>3 DEF Said
  <2> QED
    BY <1>3, <2>1, <2>2, <2>3
<1>5. ASSUME NEW m \in Said(q) \cup Said(r)
      PROVE  m \in Said(joined)
  <2>1. CASE m \in Said(q)
    BY <1>1, <1>3, <2>1 DEF Said
  <2>2. CASE m \in Said(r)
    <3>1. PICK i \in 1..k : m = r[i]
      BY <1>1, <2>2 DEF Said
    <3> QED
      BY <1>1, <1>3, <3>1 DEF Said
  <2> QED
    BY <1>5, <2>1, <2>2
<1>6. Head(joined) = IF q = <<>> THEN Head(r) ELSE Head(q)
  <2>1. CASE q = <<>>
    <3>1. 1 \in 1..k /\ n + 1 = 1
      BY <1>1, <2>1
    <3> QED
      BY <1>1, <1>2, <2>1, <3>1
  <2>2. CASE q # <<>>
    <3>1. 1 \in 1..n
      BY <1>1, <2>2
    <3> QED
      BY <1>1, <1>2, <2>2, <3>1
  <2> QED
    BY <2>1, <2>2
<1> QED
  BY <1>1, <1>2, <1>4, <1>5, <1>6 DEF joined

\* The new queues are the old ones, with what c says of these kinds for whoever
\* listens.
Spread(new, old, c, kinds) ==
  \A d \in Contenders :
    IF d = c \/ d \notin Listening
    THEN new[d] = old[d]
    ELSE /\ Said(new[d]) = Said(old[d]) \cup {Word(k, c) : k \in kinds}
         /\ new[d] # <<>> /\ (old[d] # <<>> => Head(new[d]) = Head(old[d]))

\* postMessage reaches every other tab that listens.
LEMMA PostedSpread ==
  ASSUME NEW queues \in [Contenders -> Seq(Message)], NEW c \in Contenders,
         NEW kinds \in Seq(Kinds), kinds # <<>>
  PROVE  /\ Posted(queues, c, kinds) \in [Contenders -> Seq(Message)]
         /\ Spread(Posted(queues, c, kinds), queues, c, Said(kinds))
         /\ \A d \in Listening \ {c} : queues[d] = <<>> =>
              Head(Posted(queues, c, kinds)[d]) = Word(kinds[1], c)
<1> DEFINE words == [i \in DOMAIN kinds |-> Word(kinds[i], c)]
           new == Posted(queues, c, kinds)
<1>1. /\ words \in Seq(Message) /\ words # <<>> /\ Head(words) = Word(kinds[1], c)
      /\ Said(words) = {Word(k, c) : k \in Said(kinds)}
  <2>1. DOMAIN kinds = 1..Len(kinds) /\ Len(kinds) \in Nat /\ Len(kinds) > 0
        /\ \A i \in 1..Len(kinds) : kinds[i] \in Kinds
    <3>1. DOMAIN kinds = 1..Len(kinds) /\ Len(kinds) \in Nat
      OBVIOUS
    <3> QED
      BY <3>1
  <2>2. \A k \in Kinds : Word(k, c) \in Message
    BY DEF Word, Message
  <2> DEFINE n == Len(kinds)
  <2>3. words = [i \in 1..n |-> Word(kinds[i], c)] /\ \A i \in 1..n : words[i] \in Message
    BY <2>1, <2>2
  <2>4. words \in Seq(Message) /\ DOMAIN words = 1..n /\ Len(words) = n
    BY <2>1, <2>2, <2>3
  <2>5. Said(words) = {Word(k, c) : k \in Said(kinds)}
    BY <2>1, <2>4 DEF Said
  <2>6. 1 \in 1..n /\ words[1] = Word(kinds[1], c)
    BY <2>1, <2>3
  <2> HIDE DEF words
  <2>7. words # <<>> /\ Head(words) = words[1]
    BY <2>1, <2>4
  <2> QED
    BY <2>4, <2>5, <2>6, <2>7
<1>2. ASSUME NEW d \in Contenders
      PROVE  new[d] = IF d = c \/ d \notin Listening THEN queues[d] ELSE queues[d] \o words
  BY DEF Posted, Word
<1> HIDE DEF words, new
<1>3. ASSUME NEW d \in Contenders
      PROVE  /\ new[d] \in Seq(Message)
             /\ d # c /\ d \in Listening =>
                  /\ Said(new[d]) = Said(queues[d]) \cup Said(words) /\ new[d] # <<>>
                  /\ Head(new[d]) = IF queues[d] = <<>> THEN Head(words) ELSE Head(queues[d])
  <2>1. CASE d = c \/ d \notin Listening
    BY <1>2, <2>1
  <2>2. CASE d # c /\ d \in Listening
    <3>1. new[d] = queues[d] \o words
      BY <1>2, <2>2
    <3> QED
      BY <1>1, <3>1, SaidJoined
  <2> QED
    BY <2>1, <2>2
<1>4. new \in [Contenders -> Seq(Message)]
  <2>1. new = [d \in Contenders |-> new[d]]
    BY DEF new, Posted
  <2> QED
    BY <1>3, <2>1
<1>5. Spread(new, queues, c, Said(kinds))
  BY <1>1, <1>2, <1>3 DEF Spread
<1>6. \A d \in Listening \ {c} : queues[d] = <<>> => Head(new[d]) = Word(kinds[1], c)
  BY <1>1, <1>3 DEF Listening
<1> QED
  BY <1>4, <1>5, <1>6 DEF new

\* The messages that are posted.
LEMMA Words ==
  /\ <<"probe", "candidate">> \in Seq(Kinds) /\ <<"probe", "candidate">> # <<>>
  /\ Said(<<"probe", "candidate">>) = {"probe", "candidate"}
  /\ <<"claim", "holding">> \in Seq(Kinds) /\ <<"claim", "holding">> # <<>>
  /\ Said(<<"claim", "holding">>) = {"claim", "holding"} /\ <<"claim", "holding">>[1] = "claim"
  /\ <<"holding">> \in Seq(Kinds) /\ <<"holding">> # <<>>
  /\ Said(<<"holding">>) = {"holding"}
<1>1. \A k \in {"probe", "candidate", "claim", "holding"} : k \in Kinds
  BY DEF Kinds
<1>2. \A k, l \in Kinds : /\ <<k, l>> \in Seq(Kinds) /\ <<k, l>> # <<>>
                          /\ Said(<<k, l>>) = {k, l} /\ <<k, l>>[1] = k
  <2> SUFFICES ASSUME NEW k \in Kinds, NEW l \in Kinds
               PROVE  /\ <<k, l>> \in Seq(Kinds) /\ <<k, l>> # <<>>
                      /\ Said(<<k, l>>) = {k, l} /\ <<k, l>>[1] = k
    OBVIOUS
  <2>1. DOMAIN <<k, l>> = {1, 2}
    OBVIOUS
  <2> QED
    BY <2>1 DEF Said
<1>3. \A k \in Kinds : /\ <<k>> \in Seq(Kinds) /\ <<k>> # <<>> /\ Said(<<k>>) = {k}
  <2> SUFFICES ASSUME NEW k \in Kinds
               PROVE  /\ <<k>> \in Seq(Kinds) /\ <<k>> # <<>> /\ Said(<<k>>) = {k}
    OBVIOUS
  <2>1. DOMAIN <<k>> = {1}
    OBVIOUS
  <2> QED
    BY <2>1 DEF Said
<1> QED
  BY <1>1, <1>2, <1>3

\* A contest (Contest).
LEMMA PostedContest ==
  ASSUME NEW queues \in [Contenders -> Seq(Message)], NEW c \in Contenders
  PROVE  /\ Posted(queues, c, <<"probe", "candidate">>) \in [Contenders -> Seq(Message)]
         /\ Spread(Posted(queues, c, <<"probe", "candidate">>), queues, c, {"probe", "candidate"})
<1> DEFINE kinds == <<"probe", "candidate">>
<1>1. kinds \in Seq(Kinds) /\ kinds # <<>> /\ Said(kinds) = {"probe", "candidate"}
  BY Words
<1> HIDE DEF kinds
<1>2. /\ Posted(queues, c, kinds) \in [Contenders -> Seq(Message)]
      /\ Spread(Posted(queues, c, kinds), queues, c, Said(kinds))
      /\ \A d \in Listening \ {c} : queues[d] = <<>> =>
           Head(Posted(queues, c, kinds)[d]) = Word(kinds[1], c)
  BY <1>1, PostedSpread
<1> QED
  BY <1>1, <1>2 DEF kinds

\* A victory: whoever has read everything reads of it next (Decide).
LEMMA PostedVictory ==
  ASSUME NEW queues \in [Contenders -> Seq(Message)], NEW c \in Contenders
  PROVE  /\ Posted(queues, c, <<"claim", "holding">>) \in [Contenders -> Seq(Message)]
         /\ Spread(Posted(queues, c, <<"claim", "holding">>), queues, c, {"claim", "holding"})
         /\ \A d \in Listening \ {c} : queues[d] = <<>> =>
              Head(Posted(queues, c, <<"claim", "holding">>)[d]) = Word("claim", c)
<1> DEFINE kinds == <<"claim", "holding">>
<1>1. kinds \in Seq(Kinds) /\ kinds # <<>> /\ Said(kinds) = {"claim", "holding"} /\ kinds[1] = "claim"
  BY Words
<1> HIDE DEF kinds
<1>2. /\ Posted(queues, c, kinds) \in [Contenders -> Seq(Message)]
      /\ Spread(Posted(queues, c, kinds), queues, c, Said(kinds))
      /\ \A d \in Listening \ {c} : queues[d] = <<>> =>
           Head(Posted(queues, c, kinds)[d]) = Word(kinds[1], c)
  BY <1>1, PostedSpread
<1> QED
  BY <1>1, <1>2 DEF kinds

\* A heartbeat or an answer (SayHolding).
LEMMA PostedHolding ==
  ASSUME NEW queues \in [Contenders -> Seq(Message)], NEW c \in Contenders
  PROVE  /\ Posted(queues, c, <<"holding">>) \in [Contenders -> Seq(Message)]
         /\ Spread(Posted(queues, c, <<"holding">>), queues, c, {"holding"})
<1> DEFINE kinds == <<"holding">>
<1>1. kinds \in Seq(Kinds) /\ kinds # <<>> /\ Said(kinds) = {"holding"}
  BY Words
<1> HIDE DEF kinds
<1>2. /\ Posted(queues, c, kinds) \in [Contenders -> Seq(Message)]
      /\ Spread(Posted(queues, c, kinds), queues, c, Said(kinds))
      /\ \A d \in Listening \ {c} : queues[d] = <<>> =>
           Head(Posted(queues, c, kinds)[d]) = Word(kinds[1], c)
  BY <1>1, PostedSpread
<1> QED
  BY <1>1, <1>2 DEF kinds

-----------------------------------------------------------------------------
(* What a step does to an election.                                        *)

\* c does not touch the others, but they may hear words of these kinds from it.
Others(c, kinds) ==
  \A d \in Contenders \ {c} :
    /\ phase'[d] = phase[d]
    /\ \A m \in Said(inbox'[d]) :
         m \in Heard(d) \/ (d \in Listening /\ m.from = c /\ m.kind \in kinds)
    /\ Heard(d) \subseteq Said(inbox'[d])
    /\ d \in Listening => \A k \in kinds : \E m \in Said(inbox'[d]) : m.kind = k /\ m.from = c
    /\ inbox[d] # <<>> => inbox'[d] # <<>> /\ Head(inbox'[d]) = Head(inbox[d])
    /\ d \notin Listening => inbox'[d] = inbox[d]

Still == UNCHANGED <<world, outvoted, aged, mute>>

Opens(c) ==
  /\ phase[c] = "idle" /\ phase'[c] = "opened" /\ inbox' = inbox
  /\ Others(c, {}) /\ Still

Requests(c) ==
  /\ world.scope \in {"lock", "mixed"} /\ phase[c] \in {"idle", "opened"}
  /\ phase'[c] = IF Locked = {} THEN "locked" ELSE "refused"
  /\ inbox' = inbox /\ Others(c, {}) /\ Still

Contests(c) ==
  /\ world.scope # "lock" /\ phase[c] \in {"idle", "opened"} /\ phase'[c] = "electing"
  /\ inbox'[c] = inbox[c] /\ Others(c, {"probe", "candidate"}) /\ Still

Wins(c) ==
  /\ phase[c] = "electing" /\ phase'[c] = "holding" /\ InTime
  /\ c \notin outvoted /\ (Lease => c \notin mute)
  /\ inbox'[c] = inbox[c] /\ Still
  /\ c \in mute => Others(c, {})
  /\ c \notin mute =>
       /\ Others(c, Rivalry)
       /\ \A d \in Listening \ {c} :
            inbox[d] = <<>> => Head(inbox'[d]) = Word("claim", c) /\ inbox'[d] # <<>>

\* What makes a contender leave, and what it is afterwards.
Refusal(c) == phase[c] = "electing" /\ (c \in outvoted \/ (Lease /\ c \in mute))
Defeat(c) ==
  /\ phase[c] = "holding"
  /\ \/ Lease /\ c \in mute
     \/ inbox[c] # <<>> /\ Head(inbox[c]) \in Heard(c) /\ Displaces(Head(inbox[c]), c)
Leaves(c) ==
  /\ \/ phase'[c] = "refused" /\ Refusal(c)
     \/ phase'[c] = "lost" /\ Defeat(c)
     \/ phase'[c] = "released" /\ c \in Listening \cup Locked
  /\ inbox'[c] = <<>> /\ Others(c, {}) /\ Still

\* c has read m.
HasRead(c, m) ==
  /\ inbox[c] # <<>> /\ m = Head(inbox[c]) /\ m \in Message
  /\ Heard(c) = Said(inbox'[c]) \cup {m}

Learns(c) ==
  \E m \in Message :
    /\ phase[c] = "electing" /\ phase'[c] = "electing" /\ HasRead(c, m)
    /\ outvoted' = IF Outvotes(m, c) THEN outvoted \cup {c} ELSE outvoted
    /\ Others(c, {}) /\ UNCHANGED <<world, aged, mute>>

Replies(c) ==
  \E m \in Message :
    /\ phase[c] = "holding" /\ phase'[c] = "holding" /\ HasRead(c, m)
    /\ ~Displaces(m, c)
    /\ Answers(m) => ~(Lease /\ c \in mute)
    /\ IF Answers(m) /\ c \notin mute THEN Others(c, {"holding"}) ELSE Others(c, {})
    /\ Still

Beats(c) ==
  /\ phase[c] = "holding" /\ phase'[c] = "holding" /\ InTime
  /\ inbox[c] = <<>> /\ inbox'[c] = inbox[c]
  /\ IF c \in mute THEN Others(c, {}) ELSE Others(c, {"holding"})
  /\ Still

Ages(c) ==
  /\ Lease /\ c \in Elected /\ InTime /\ aged' = aged \cup {c}
  /\ UNCHANGED <<world, phase, outvoted, mute, inbox>>

Breaks(c) ==
  /\ c \in Listening /\ mute' = mute \cup {c}
  /\ UNCHANGED <<world, phase, outvoted, aged, inbox>>

ElectionStep(c) ==
  \/ Opens(c) \/ Requests(c) \/ Contests(c) \/ Wins(c) \/ Leaves(c)
  \/ Learns(c) \/ Replies(c) \/ Beats(c) \/ Ages(c) \/ Breaks(c)
  \/ UNCHANGED <<world, election>>

\* Whoever only changes its own phase and queue leaves the others alone.
LEMMA LeftAlone ==
  ASSUME ElectionTypes, NEW c \in Contenders,
         \A d \in Contenders \ {c} : phase'[d] = phase[d] /\ inbox'[d] = inbox[d]
  PROVE  Others(c, {})
BY DEF Others, Heard

\* What is posted reaches the others, and nothing else does.
LEMMA SpreadOthers ==
  ASSUME ElectionTypes, NEW c \in Contenders, NEW kinds, NEW old,
         \A d \in Contenders \ {c} : phase'[d] = phase[d] /\ old[d] = inbox[d],
         Spread(inbox', old, c, kinds)
  PROVE  Others(c, kinds) /\ inbox'[c] = old[c]
<1>1. inbox'[c] = old[c]
  BY DEF Spread
<1>2. ASSUME NEW d \in Contenders \ {c}, d \notin Listening
      PROVE  inbox'[d] = inbox[d]
  BY <1>2 DEF Spread
<1>3. ASSUME NEW d \in Contenders \ {c}, d \in Listening
      PROVE  /\ Said(inbox'[d]) = Heard(d) \cup {Word(k, c) : k \in kinds}
             /\ inbox'[d] # <<>> /\ (inbox[d] # <<>> => Head(inbox'[d]) = Head(inbox[d]))
  BY <1>3 DEF Spread, Heard
<1>4. \A k : Word(k, c).kind = k /\ Word(k, c).from = c
  BY DEF Word
<1>5. ASSUME NEW d \in Contenders \ {c}
      PROVE  /\ \A m \in Said(inbox'[d]) :
                  m \in Heard(d) \/ (d \in Listening /\ m.from = c /\ m.kind \in kinds)
             /\ Heard(d) \subseteq Said(inbox'[d])
             /\ d \in Listening
                  => \A k \in kinds : \E m \in Said(inbox'[d]) : m.kind = k /\ m.from = c
  <2>1. CASE d \in Listening
    BY <1>3, <1>4, <2>1
  <2>2. CASE d \notin Listening
    BY <1>2, <2>2 DEF Heard
  <2> QED
    BY <2>1, <2>2
<1> QED
  BY <1>1, <1>2, <1>3, <1>5 DEF Others

\* An action of the module is a step of an election (Contest).
LEMMA ContestStep ==
  ASSUME ElectionTypes, NEW c \in Contenders, Contest(c)
  PROVE  Contests(c) /\ inbox' \in [Contenders -> Seq(Message)]
<1>1. /\ inbox \in [Contenders -> Seq(Message)] /\ phase \in [Contenders -> Phases]
      /\ phase' = [phase EXCEPT ![c] = "electing"]
      /\ inbox' = Posted(inbox, c, <<"probe", "candidate">>)
      /\ world.scope # "lock" /\ phase[c] \in {"idle", "opened"} /\ Still
  BY DEF Contest, ElectionTypes, Still
<1>2. /\ inbox' \in [Contenders -> Seq(Message)]
      /\ Spread(inbox', inbox, c, {"probe", "candidate"})
  BY <1>1, PostedContest
<1>3. phase'[c] = "electing" /\ \A d \in Contenders \ {c} : phase'[d] = phase[d]
  BY <1>1
<1>4. Others(c, {"probe", "candidate"}) /\ inbox'[c] = inbox[c]
  BY <1>2, <1>3, SpreadOthers
<1> QED
  BY <1>1, <1>2, <1>3, <1>4 DEF Contests

\* The response timeout (Decide).
LEMMA DecideStep ==
  ASSUME ElectionTypes, NEW c \in Contenders, Decide(c)
  PROVE  (Wins(c) \/ Leaves(c)) /\ inbox' \in [Contenders -> Seq(Message)]
<1> DEFINE wins == c \notin outvoted /\ (Lease => c \notin mute)
<1>1. /\ inbox \in [Contenders -> Seq(Message)] /\ phase \in [Contenders -> Phases]
      /\ phase[c] = "electing" /\ InTime /\ Still
      /\ phase' = [phase EXCEPT ![c] = IF wins THEN "holding" ELSE "refused"]
      /\ inbox' = IF ~wins THEN Closed(inbox, c)
                  ELSE IF c \in mute THEN inbox ELSE Posted(inbox, c, <<"claim", "holding">>)
  BY DEF Decide, ElectionTypes, Still
<1>2. \A d \in Contenders \ {c} : phase'[d] = phase[d]
  BY <1>1
<1>3. CASE ~wins
  <2>1. /\ phase'[c] = "refused" /\ inbox' = [inbox EXCEPT ![c] = <<>>]
        /\ Refusal(c)
    BY <1>1, <1>3 DEF Closed, Refusal
  <2>2. /\ inbox'[c] = <<>> /\ \A d \in Contenders \ {c} : inbox'[d] = inbox[d]
        /\ inbox' \in [Contenders -> Seq(Message)]
    <3>1. inbox \in [Contenders -> Seq(Message)] /\ <<>> \in Seq(Message)
      BY <1>1
    <3> QED
      BY <2>1, <3>1
  <2> QED
    BY <1>1, <1>2, <2>1, <2>2, LeftAlone DEF Leaves
<1>4. CASE wins /\ c \in mute
  <2>1. phase'[c] = "holding" /\ inbox' = inbox
    BY <1>1, <1>4
  <2> QED
    BY <1>1, <1>2, <1>4, <2>1, LeftAlone DEF Wins
<1>5. CASE wins /\ c \notin mute
  <2>1. phase'[c] = "holding" /\ inbox' = Posted(inbox, c, <<"claim", "holding">>)
    BY <1>1, <1>5
  <2>2. /\ inbox' \in [Contenders -> Seq(Message)] /\ Spread(inbox', inbox, c, Rivalry)
        /\ \A d \in Listening \ {c} : inbox[d] = <<>> => Head(inbox'[d]) = Word("claim", c)
    BY <1>1, <2>1, PostedVictory DEF Rivalry
  <2>3. \A d \in Listening \ {c} : inbox'[d] # <<>>
    BY <2>2 DEF Spread, Listening
  <2>4. Others(c, Rivalry) /\ inbox'[c] = inbox[c]
    BY <1>2, <2>2, SpreadOthers
  <2> QED
    BY <1>1, <1>5, <2>1, <2>2, <2>3, <2>4 DEF Wins
<1> QED
  BY <1>3, <1>4, <1>5

\* A holder that is heard says so; a Director's that is not yields (SayHolding).
LEMMA SayHoldingStep ==
  ASSUME ElectionTypes, NEW c \in Contenders, phase[c] = "holding",
         NEW old \in [Contenders -> Seq(Message)],
         \A d \in Contenders \ {c} : old[d] = inbox[d],
         SayHolding(c, old)
  PROVE  /\ inbox' \in [Contenders -> Seq(Message)]
         /\ Lease /\ c \in mute => /\ phase' = [phase EXCEPT ![c] = "lost"]
                                  /\ inbox'[c] = <<>> /\ Others(c, {})
         /\ ~(Lease /\ c \in mute) =>
              /\ phase' = phase /\ inbox'[c] = old[c]
              /\ IF c \in mute THEN Others(c, {}) ELSE Others(c, {"holding"})
<1>1. phase \in [Contenders -> Phases]
  BY DEF ElectionTypes
<1>2. CASE Lease /\ c \in mute
  <2>1. phase' = [phase EXCEPT ![c] = "lost"] /\ inbox' = [old EXCEPT ![c] = <<>>]
    BY <1>2 DEF SayHolding, Closed
  <2>2. /\ inbox'[c] = <<>> /\ inbox' \in [Contenders -> Seq(Message)]
        /\ \A d \in Contenders \ {c} : phase'[d] = phase[d] /\ inbox'[d] = inbox[d]
    BY <1>1, <2>1
  <2> QED
    BY <1>2, <2>1, <2>2, LeftAlone
<1>3. CASE ~(Lease /\ c \in mute) /\ c \in mute
  <2>1. phase' = phase /\ inbox' = old
    BY <1>3 DEF SayHolding
  <2> QED
    BY <1>3, <2>1, LeftAlone
<1>4. CASE ~(Lease /\ c \in mute) /\ c \notin mute
  <2>1. phase' = phase /\ inbox' = Posted(old, c, <<"holding">>)
    BY <1>4 DEF SayHolding
  <2>2. inbox' \in [Contenders -> Seq(Message)] /\ Spread(inbox', old, c, {"holding"})
    BY <2>1, PostedHolding
  <2>3. Others(c, {"holding"}) /\ inbox'[c] = old[c]
    BY <2>1, <2>2, SpreadOthers
  <2> QED
    BY <1>4, <2>1, <2>2, <2>3
<1> QED
  BY <1>2, <1>3, <1>4

\* A message is read (Hear).
LEMMA HearStep ==
  ASSUME ElectionTypes, NEW c \in Contenders, Hear(c)
  PROVE  (Learns(c) \/ Leaves(c) \/ Replies(c)) /\ inbox' \in [Contenders -> Seq(Message)]
<1> DEFINE m == Head(inbox[c])
           rest == Read(c)
<1>1. /\ inbox \in [Contenders -> Seq(Message)] /\ phase \in [Contenders -> Phases]
      /\ phase[c] \in {"electing", "holding"} /\ inbox[c] # <<>>
      /\ UNCHANGED <<world, aged, mute>>
  BY DEF Hear, ElectionTypes, Listening
<1>2. /\ m \in Message /\ Tail(inbox[c]) \in Seq(Message)
      /\ Heard(c) = Said(Tail(inbox[c])) \cup {m}
  BY <1>1, SaidTail DEF Heard
<1>3. /\ rest \in [Contenders -> Seq(Message)] /\ rest[c] = Tail(inbox[c])
      /\ \A d \in Contenders \ {c} : rest[d] = inbox[d]
  BY <1>1, <1>2 DEF Read
<1>4. IF phase[c] = "electing"
      THEN /\ outvoted' = IF Outvotes(m, c) THEN outvoted \cup {c} ELSE outvoted
           /\ inbox' = rest /\ UNCHANGED phase
      ELSE /\ CASE Displaces(m, c) -> /\ phase' = [phase EXCEPT ![c] = "lost"]
                                      /\ inbox' = Closed(inbox, c)
                [] ~Displaces(m, c) /\ Answers(m) -> SayHolding(c, rest)
                [] OTHER -> inbox' = rest /\ UNCHANGED phase
           /\ UNCHANGED outvoted
  BY DEF Hear
<1> HIDE DEF m, rest
<1>5. CASE phase[c] = "electing"
  <2>1. /\ outvoted' = IF Outvotes(m, c) THEN outvoted \cup {c} ELSE outvoted
        /\ inbox' = rest /\ phase' = phase
    BY <1>4, <1>5
  <2>2. HasRead(c, m)
    BY <1>1, <1>2, <1>3, <2>1 DEF HasRead, m
  <2>3. Others(c, {})
    BY <1>3, <2>1, LeftAlone
  <2> QED
    BY <1>1, <1>2, <1>3, <1>5, <2>1, <2>2, <2>3 DEF Learns
<1>6. CASE phase[c] = "holding" /\ Displaces(m, c)
  <2>1. phase' = [phase EXCEPT ![c] = "lost"] /\ inbox' = [inbox EXCEPT ![c] = <<>>]
        /\ outvoted' = outvoted
    BY <1>4, <1>6 DEF Closed
  <2>2. /\ inbox'[c] = <<>> /\ inbox' \in [Contenders -> Seq(Message)] /\ phase'[c] = "lost"
        /\ \A d \in Contenders \ {c} : phase'[d] = phase[d] /\ inbox'[d] = inbox[d]
    BY <1>1, <2>1
  <2>3. Defeat(c)
    BY <1>1, <1>2, <1>6 DEF Defeat, m
  <2> QED
    BY <1>1, <2>1, <2>2, <2>3, LeftAlone DEF Leaves, Still
<1>7. CASE phase[c] = "holding" /\ ~Displaces(m, c) /\ Answers(m)
  <2>1. SayHolding(c, rest) /\ outvoted' = outvoted
    BY <1>4, <1>7
  <2>2. /\ inbox' \in [Contenders -> Seq(Message)]
        /\ Lease /\ c \in mute => /\ phase' = [phase EXCEPT ![c] = "lost"]
                                 /\ inbox'[c] = <<>> /\ Others(c, {})
        /\ ~(Lease /\ c \in mute) =>
             /\ phase' = phase /\ inbox'[c] = rest[c]
             /\ IF c \in mute THEN Others(c, {}) ELSE Others(c, {"holding"})
    BY <1>3, <1>7, <2>1, SayHoldingStep
  <2>3. CASE Lease /\ c \in mute
    <3>1. phase'[c] = "lost"
      BY <1>1, <2>2, <2>3
    <3>2. Defeat(c)
      BY <1>7, <2>3 DEF Defeat
    <3> QED
      BY <1>1, <2>1, <2>2, <2>3, <3>1, <3>2 DEF Leaves, Still
  <2>4. CASE ~(Lease /\ c \in mute)
    <3>1. HasRead(c, m)
      BY <1>1, <1>2, <1>3, <2>2, <2>4 DEF HasRead, m
    <3> QED
      BY <1>1, <1>2, <1>7, <2>1, <2>2, <2>4, <3>1 DEF Replies, Still
  <2> QED
    BY <2>3, <2>4
<1>8. CASE phase[c] = "holding" /\ ~Displaces(m, c) /\ ~Answers(m)
  <2>1. inbox' = rest /\ phase' = phase /\ outvoted' = outvoted
    BY <1>4, <1>8
  <2>2. HasRead(c, m)
    BY <1>1, <1>2, <1>3, <2>1 DEF HasRead, m
  <2>3. Others(c, {})
    BY <1>3, <2>1, LeftAlone
  <2> QED
    BY <1>1, <1>2, <1>3, <1>8, <2>1, <2>2, <2>3 DEF Replies, Still
<1> QED
  BY <1>1, <1>5, <1>6, <1>7, <1>8

\* A heartbeat (Beat).
LEMMA BeatStep ==
  ASSUME ElectionTypes, NEW c \in Contenders, Beat(c)
  PROVE  (Beats(c) \/ Leaves(c)) /\ inbox' \in [Contenders -> Seq(Message)]
<1>1. /\ inbox \in [Contenders -> Seq(Message)] /\ phase \in [Contenders -> Phases]
      /\ phase[c] = "holding" /\ InTime /\ inbox[c] = <<>>
      /\ SayHolding(c, inbox) /\ Still
  BY DEF Beat, ElectionTypes, Still
<1>2. /\ inbox' \in [Contenders -> Seq(Message)]
      /\ Lease /\ c \in mute => /\ phase' = [phase EXCEPT ![c] = "lost"]
                               /\ inbox'[c] = <<>> /\ Others(c, {})
      /\ ~(Lease /\ c \in mute) =>
           /\ phase' = phase /\ inbox'[c] = inbox[c]
           /\ IF c \in mute THEN Others(c, {}) ELSE Others(c, {"holding"})
  BY <1>1, SayHoldingStep
<1>3. CASE Lease /\ c \in mute
  <2>1. phase'[c] = "lost" /\ Defeat(c)
    BY <1>1, <1>2, <1>3 DEF Defeat
  <2> QED
    BY <1>1, <1>2, <1>3, <2>1 DEF Leaves
<1>4. CASE ~(Lease /\ c \in mute)
  BY <1>1, <1>2, <1>4 DEF Beats
<1> QED
  BY <1>3, <1>4

\* A contender closes, or a change of the catalog is done (Release, Put).
LEMMA ReleaseStep ==
  ASSUME ElectionTypes, NEW c \in Contenders, c \in Listening \cup Locked,
         phase' = [phase EXCEPT ![c] = "released"], inbox' = Closed(inbox, c), Still
  PROVE  Leaves(c) /\ inbox' \in [Contenders -> Seq(Message)]
<1>1. /\ inbox \in [Contenders -> Seq(Message)] /\ phase \in [Contenders -> Phases]
      /\ <<>> \in Seq(Message) /\ inbox' = [inbox EXCEPT ![c] = <<>>]
  BY DEF ElectionTypes, Closed
<1>2. /\ inbox'[c] = <<>> /\ inbox' \in [Contenders -> Seq(Message)]
      /\ phase'[c] = "released"
      /\ \A d \in Contenders \ {c} : phase'[d] = phase[d] /\ inbox'[d] = inbox[d]
  BY <1>1
<1> QED
  BY <1>2, LeftAlone DEF Leaves

\* Every action is a step of one contender in the election, or no step of it.
LEMMA EveryStep ==
  ASSUME ElectionTypes, NEW c \in Contenders,
         \/ Open(c) \/ Request(c) \/ Contest(c) \/ Decide(c) \/ Hear(c) \/ Beat(c)
         \/ Age(c) \/ Break(c) \/ Release(c) \/ ReadClaimed(c) \/ Edit(c) \/ Save(c) \/ Put(c)
  PROVE  ElectionStep(c) /\ inbox' \in [Contenders -> Seq(Message)]
<1>1. inbox \in [Contenders -> Seq(Message)] /\ phase \in [Contenders -> Phases]
  BY DEF ElectionTypes
<1>2. ASSUME Open(c)
      PROVE  Opens(c) /\ inbox' = inbox
  <2>1. /\ phase'[c] = "opened" /\ inbox' = inbox /\ phase[c] = "idle"
        /\ \A d \in Contenders \ {c} : phase'[d] = phase[d] /\ inbox'[d] = inbox[d]
    BY <1>1, <1>2 DEF Open
  <2> QED
    BY <1>2, <2>1, LeftAlone DEF Open, Opens, Still
<1>3. ASSUME Request(c)
      PROVE  Requests(c) /\ inbox' = inbox
  <2>1. /\ phase' = [phase EXCEPT ![c] = IF Locked = {} THEN "locked" ELSE "refused"]
        /\ inbox' = inbox /\ world.scope \in {"lock", "mixed"} /\ phase[c] \in {"idle", "opened"}
        /\ Still
    BY <1>3 DEF Request, Still
  <2>2. /\ phase'[c] = IF Locked = {} THEN "locked" ELSE "refused"
        /\ \A d \in Contenders \ {c} : phase'[d] = phase[d] /\ inbox'[d] = inbox[d]
    BY <1>1, <2>1
  <2> QED
    BY <2>1, <2>2, LeftAlone DEF Requests
<1>4. ASSUME Release(c)
      PROVE  Leaves(c) /\ inbox' \in [Contenders -> Seq(Message)]
  BY <1>4, ReleaseStep DEF Release, Still
<1>5. ASSUME Put(c)
      PROVE  ElectionStep(c) /\ inbox' \in [Contenders -> Seq(Message)]
  <2>1. CASE c \notin Holders \ early
    <3>1. phase' = phase /\ inbox' = inbox
      BY <1>5, <2>1 DEF Put
    <3> QED
      BY <1>1, <1>5, <3>1 DEF Put, ElectionStep, election
  <2>2. CASE c \in Holders \ early
    <3>1. phase' = [phase EXCEPT ![c] = "released"] /\ inbox' = Closed(inbox, c) /\ Still
      BY <1>5, <2>2 DEF Put, Still
    <3>2. c \in Listening \cup Locked
      BY <2>2 DEF Holders, Elected, Listening
    <3> QED
      BY <3>1, <3>2, ReleaseStep DEF ElectionStep
  <2> QED
    BY <2>1, <2>2
<1>6. ASSUME Age(c) \/ Break(c) \/ ReadClaimed(c) \/ Edit(c) \/ Save(c)
      PROVE  ElectionStep(c) /\ inbox' = inbox
  BY <1>6 DEF Age, Break, ReadClaimed, Edit, Save, Ages, Breaks, ElectionStep, election
<1> QED
  BY <1>1, <1>2, <1>3, <1>4, <1>5, <1>6, ContestStep, DecideStep, HearStep, BeatStep
     DEF ElectionStep

-----------------------------------------------------------------------------
(* The type invariant.                                                     *)

\* A phase is one of the phases.
LEMMA PhaseTypes ==
  ASSUME ElectionTypes, NEW c \in Contenders,
         \/ Open(c) \/ Request(c) \/ Contest(c) \/ Decide(c) \/ Hear(c) \/ Beat(c)
         \/ Age(c) \/ Break(c) \/ Release(c) \/ ReadClaimed(c) \/ Edit(c) \/ Save(c) \/ Put(c)
  PROVE  phase' \in [Contenders -> Phases]
<1>1. phase \in [Contenders -> Phases]
  BY DEF ElectionTypes
<1>2. \/ phase' = phase
      \/ \E p \in Phases : phase' = [phase EXCEPT ![c] = p]
  <2>1. ASSUME Open(c) \/ Contest(c) \/ Release(c)
        PROVE  \E p \in Phases : phase' = [phase EXCEPT ![c] = p]
    BY <2>1 DEF Open, Contest, Release, Phases
  <2>2. ASSUME Request(c)
        PROVE  \E p \in Phases : phase' = [phase EXCEPT ![c] = p]
    BY <2>2 DEF Request, Phases
  <2>3. ASSUME Decide(c)
        PROVE  \E p \in Phases : phase' = [phase EXCEPT ![c] = p]
    BY <2>3 DEF Decide, Phases
  <2>4. ASSUME NEW queues, SayHolding(c, queues)
        PROVE  phase' = phase \/ phase' = [phase EXCEPT ![c] = "lost"]
    BY <2>4 DEF SayHolding
  <2>5. ASSUME Hear(c)
        PROVE  phase' = phase \/ phase' = [phase EXCEPT ![c] = "lost"]
    <3> DEFINE m == Head(inbox[c])
    <3>1. \/ phase' = phase \/ phase' = [phase EXCEPT ![c] = "lost"] \/ SayHolding(c, Read(c))
      BY <2>5 DEF Hear
    <3> QED
      BY <2>4, <3>1
  <2>6. ASSUME Beat(c)
        PROVE  phase' = phase \/ phase' = [phase EXCEPT ![c] = "lost"]
    BY <2>4, <2>6 DEF Beat
  <2>7. ASSUME Age(c) \/ Break(c) \/ ReadClaimed(c) \/ Edit(c) \/ Save(c)
        PROVE  phase' = phase
    BY <2>7 DEF Age, Break, ReadClaimed, Edit, Save, election
  <2>8. ASSUME Put(c)
        PROVE  phase' = phase \/ phase' = [phase EXCEPT ![c] = "released"]
    BY <2>8 DEF Put
  <2>9. "lost" \in Phases /\ "released" \in Phases
    BY DEF Phases
  <2> QED
    BY <2>1, <2>2, <2>3, <2>5, <2>6, <2>7, <2>8, <2>9
<1> QED
  BY <1>1, <1>2

\* The state of an election keeps its shape (Listening: a closed channel is empty).
LEMMA ElectionTypesStep ==
  ASSUME ElectionTypes, NEW c \in Contenders, ElectionStep(c),
         phase' \in [Contenders -> Phases], inbox' \in [Contenders -> Seq(Message)]
  PROVE  ElectionTypes'
<1>1. /\ world' = world /\ outvoted' \subseteq Contenders /\ aged' \subseteq Contenders
      /\ mute' \subseteq Contenders
  BY DEF ElectionTypes, ElectionStep, Opens, Requests, Contests, Wins, Leaves, Learns, Replies,
     Beats, Ages, Breaks, Still, election, Elected, Listening
<1>2. ASSUME NEW d \in Contenders, phase'[d] \notin {"electing", "holding"}
      PROVE  inbox'[d] = <<>>
  <2>1. \A e \in Contenders : phase[e] \notin {"electing", "holding"} => inbox[e] = <<>>
    BY DEF ElectionTypes, Listening
  <2>2. CASE d # c /\ \E kinds : Others(c, kinds)
    BY <1>2, <2>1, <2>2 DEF Others, Listening
  <2>3. CASE d # c /\ ~\E kinds : Others(c, kinds)
    BY <1>2, <2>1, <2>3 DEF ElectionStep, Opens, Requests, Contests, Wins, Leaves, Learns,
       Replies, Beats, Ages, Breaks, election
  <2>4. CASE d = c
    BY <1>2, <2>1, <2>4 DEF ElectionStep, Opens, Requests, Contests, Wins, Leaves, Learns,
       Replies, Beats, Ages, Breaks, election
  <2> QED
    BY <2>2, <2>3, <2>4
<1> QED
  BY <1>1, <1>2 DEF ElectionTypes, Listening

\* The document keeps its shape: what is saved are edits that were made.
LEMMA DocumentTypesStep ==
  ASSUME DocumentTypes, NEW c \in Contenders,
         \/ Open(c) \/ Request(c) \/ Contest(c) \/ Decide(c) \/ Hear(c) \/ Beat(c)
         \/ Age(c) \/ Break(c) \/ Release(c) \/ ReadClaimed(c) \/ Edit(c) \/ Save(c) \/ Put(c)
  PROVE  DocumentTypes'
<1>1. /\ edits \in Nat /\ early \subseteq Contenders /\ unsaved \subseteq Contenders
      /\ disk \subseteq 1..edits /\ late \subseteq 1..edits
      /\ copy \in [Contenders -> {None} \cup SUBSET (1..edits)]
      /\ writing \in [Contenders -> {None} \cup SUBSET (1..edits)]
      /\ \A d \in unsaved : copy[d] \subseteq 1..edits
  BY DEF DocumentTypes
<1>2. CASE Open(c) \/ ReadClaimed(c)
  <2>1. /\ copy' = [copy EXCEPT ![c] = disk] /\ early' \subseteq early \cup {c}
        /\ UNCHANGED <<edits, unsaved, writing, disk, late>>
    BY <1>2 DEF Open, ReadClaimed
  <2>2. copy' \in [Contenders -> {None} \cup SUBSET (1..edits)]
    BY <1>1, <2>1
  <2>3. \A d \in unsaved : copy'[d] \subseteq 1..edits
    BY <1>1, <2>1
  <2> QED
    BY <1>1, <2>1, <2>2, <2>3 DEF DocumentTypes
<1>3. CASE Edit(c)
  <2>1. /\ edits' = edits + 1 /\ copy' = [copy EXCEPT ![c] = copy[c] \cup {edits'}]
        /\ copy[c] # None /\ unsaved' = unsaved \cup {c}
        /\ UNCHANGED <<early, writing, disk, late>>
    BY <1>3 DEF Edit
  <2>2. 1..edits \subseteq 1..edits' /\ edits' \in 1..edits' /\ edits' \in Nat
    BY <1>1, <2>1
  <2>3. copy[c] \subseteq 1..edits
    BY <1>1, <2>1
  <2>4. copy[c] \cup {edits'} \in SUBSET (1..edits')
    BY <2>2, <2>3
  <2>5. /\ copy' \in [Contenders -> {None} \cup SUBSET (1..edits')]
        /\ copy'[c] \subseteq 1..edits' /\ \A d \in Contenders \ {c} : copy'[d] = copy[d]
    <3>1. \A d \in Contenders : copy[d] \in {None} \cup SUBSET (1..edits')
      BY <1>1, <2>2
    <3> QED
      BY <1>1, <2>1, <2>4, <3>1
  <2>6. \A d \in unsaved' : copy'[d] \subseteq 1..edits'
    BY <1>1, <2>1, <2>2, <2>5
  <2>7. /\ writing' \in [Contenders -> {None} \cup SUBSET (1..edits')]
        /\ disk' \subseteq 1..edits' /\ late' \subseteq 1..edits'
    <3>1. \A d \in Contenders : writing[d] \in {None} \cup SUBSET (1..edits')
      BY <1>1, <2>2
    <3> QED
      BY <1>1, <2>1, <2>2, <3>1
  <2> QED
    BY <1>1, <2>1, <2>2, <2>5, <2>6, <2>7 DEF DocumentTypes
<1>4. CASE Save(c)
  <2>1. /\ writing' = [writing EXCEPT ![c] = copy[c]] /\ c \in unsaved /\ unsaved' \subseteq unsaved
        /\ UNCHANGED <<edits, copy, early, disk, late>>
    BY <1>4 DEF Save
  <2>2. writing' \in [Contenders -> {None} \cup SUBSET (1..edits)]
    BY <1>1, <2>1
  <2> QED
    BY <1>1, <2>1, <2>2 DEF DocumentTypes
<1>5. CASE Put(c)
  <2>1. /\ disk' = writing[c] /\ writing[c] # None
        /\ writing' = [writing EXCEPT ![c] = None] /\ late' \subseteq late \cup writing[c]
        /\ UNCHANGED <<edits, copy, early, unsaved>>
    BY <1>5 DEF Put
  <2>2. /\ writing' \in [Contenders -> {None} \cup SUBSET (1..edits)]
        /\ writing[c] \subseteq 1..edits
    BY <1>1, <2>1
  <2> QED
    BY <1>1, <2>1, <2>2 DEF DocumentTypes
<1>6. CASE UNCHANGED document
  BY <1>1, <1>6 DEF DocumentTypes, document
<1> QED
  BY <1>2, <1>3, <1>4, <1>5, <1>6 DEF Request, Contest, Decide, Hear, Beat, Age, Break, Release

\* How far phases, and what they depend on, may go: no phase returns.
LEMMA PhasesAdvance ==
  ASSUME ElectionTypes, NEW c \in Contenders, ElectionStep(c), NEW d \in Contenders
  PROVE  /\ phase[d] \in Contested => phase'[d] \in Contested
         /\ phase[d] \in EverHeld => phase'[d] \in EverHeld
         /\ phase[d] = "released" => phase'[d] = "released"
         /\ phase[d] = "refused" => phase'[d] = "refused"
         /\ d # c => phase'[d] = phase[d]
         /\ outvoted \subseteq outvoted' /\ aged \subseteq aged' /\ mute \subseteq mute'
         /\ world' = world
<1>1. d # c => phase'[d] = phase[d]
  BY DEF ElectionStep, Others, Opens, Requests, Contests, Wins, Leaves, Learns, Replies, Beats,
     Ages, Breaks, election
<1>2. \/ phase'[c] = phase[c]
      \/ phase[c] = "idle" /\ phase'[c] = "opened"
      \/ phase[c] \in {"idle", "opened"} /\ phase'[c] \in {"electing", "locked", "refused"}
      \/ phase[c] = "electing" /\ phase'[c] \in {"holding", "refused", "released"}
      \/ phase[c] = "holding" /\ phase'[c] \in {"lost", "released"}
      \/ phase[c] = "locked" /\ phase'[c] = "released"
  <2>1. CASE Opens(c) \/ Requests(c) \/ Contests(c) \/ Wins(c)
    BY <2>1 DEF Opens, Requests, Contests, Wins
  <2>2. CASE Leaves(c)
    BY <2>2 DEF Leaves, Refusal, Defeat, Listening, Locked
  <2>3. CASE Learns(c) \/ Replies(c) \/ Beats(c)
    BY <2>3 DEF Learns, Replies, Beats
  <2> QED
    BY <2>1, <2>2, <2>3 DEF ElectionStep, Ages, Breaks, election
<1>3. outvoted \subseteq outvoted' /\ aged \subseteq aged' /\ mute \subseteq mute' /\ world' = world
  BY DEF ElectionStep, Opens, Requests, Contests, Wins, Leaves, Learns, Replies, Beats, Ages,
     Breaks, Still, election
<1> QED
  BY <1>1, <1>2, <1>3 DEF Contested, EverHeld

\* What a step adds to what others hear, and what is left of what c hears.
LEMMA HeardStep ==
  ASSUME ElectionTypes, NEW c \in Contenders, ElectionStep(c), NEW d \in Contenders,
         NEW m \in Said(inbox'[d])
  PROVE  \/ m \in Heard(d)
         \/ /\ d # c /\ d \in Listening /\ m.from = c
            /\ \/ m.kind \in {"probe", "candidate"} /\ Contests(c)
               \/ m.kind \in Rivalry /\ c \notin mute /\ Wins(c)
               \/ m.kind = "holding" /\ c \notin mute /\ Replies(c)
               \/ m.kind = "holding" /\ c \notin mute /\ Beats(c)
<1>1. CASE d = c
  <2>1. Said(inbox'[c]) \subseteq Heard(c) \/ inbox'[c] = <<>> \/ inbox'[c] = inbox[c]
    BY DEF ElectionStep, Opens, Requests, Contests, Wins, Leaves, Learns, HasRead, Replies,
       Beats, Ages, Breaks, election
  <2> QED
    BY <1>1, <2>1 DEF Said, Heard
<1>2. CASE d # c
  <2>1. CASE Contests(c)
    BY <1>2, <2>1 DEF Contests, Others
  <2>2. CASE Wins(c)
    BY <1>2, <2>2 DEF Wins, Others
  <2>3. CASE Replies(c)
    BY <1>2, <2>3 DEF Replies, Others
  <2>4. CASE Beats(c)
    BY <1>2, <2>4 DEF Beats, Others
  <2>5. CASE Others(c, {}) \/ inbox' = inbox
    BY <1>2, <2>5 DEF Others, Heard
  <2> QED
    BY <2>1, <2>2, <2>3, <2>4, <2>5 DEF ElectionStep, Opens, Requests, Leaves, Learns, Ages,
       Breaks, election
<1> QED
  BY <1>1, <1>2

\* What waits to be read are messages, and an empty queue holds none.
LEMMA SaidTypes ==
  ASSUME NEW q \in Seq(Message)
  PROVE  /\ Said(q) \subseteq Message
         /\ \A m \in Said(q) : m.from \in Contenders /\ m.kind \in Kinds
         /\ q = <<>> <=> Said(q) = {}
<1>1. DOMAIN q = 1..Len(q) /\ Len(q) \in Nat /\ \A i \in 1..Len(q) : q[i] \in Message
  OBVIOUS
<1>2. ASSUME q # <<>>
      PROVE  q[1] \in Said(q)
  <2>1. 1 \in 1..Len(q)
    BY <1>1, <1>2
  <2> QED
    BY <1>1, <2>1 DEF Said
<1>3. q = <<>> => Said(q) = {}
  BY <1>1 DEF Said
<1>4. Said(q) \subseteq Message
  BY <1>1 DEF Said
<1>5. \A m \in Message : m.from \in Contenders /\ m.kind \in Kinds
  BY DEF Message
<1> QED
  BY <1>2, <1>3, <1>4, <1>5

\* The same of what a contender hears.
LEMMA HeardTypes ==
  ASSUME ElectionTypes, NEW c \in Contenders
  PROVE  /\ Heard(c) \subseteq Message
         /\ \A m \in Heard(c) : m.from \in Contenders /\ m.kind \in Kinds
         /\ inbox[c] = <<>> <=> Heard(c) = {}
<1>1. inbox[c] \in Seq(Message)
  BY DEF ElectionTypes
<1> QED
  BY <1>1, SaidTypes DEF Heard

\* Who is heard of contested, and who is heard of as a rival held the claim.
LEMMA OriginsStep ==
  ASSUME ElectionTypes, Origins, NEW c \in Contenders, ElectionStep(c)
  PROVE  Origins'
<1>1. \A d \in Contenders : /\ phase[d] \in Contested => phase'[d] \in Contested
                            /\ phase[d] \in EverHeld => phase'[d] \in EverHeld
  BY PhasesAdvance
<1>2. ASSUME NEW d \in Contenders, NEW m \in Said(inbox'[d])
      PROVE  /\ m.from # d /\ phase'[m.from] \in Contested
             /\ m.kind \in Rivalry => phase'[m.from] \in EverHeld
  <2>1. CASE m \in Heard(d)
    BY <1>1, <2>1, HeardTypes DEF Origins
  <2>2. CASE d # c /\ m.from = c /\ m.kind \in {"probe", "candidate"} /\ Contests(c)
    BY <2>2 DEF Contests, Contested, Rivalry
  <2>3. CASE d # c /\ m.from = c /\ (Wins(c) \/ Replies(c) \/ Beats(c))
    BY <2>3 DEF Wins, Replies, Beats, Contested, EverHeld
  <2> QED
    BY <2>1, <2>2, <2>3, HeardStep
<1>3. ASSUME NEW d \in aged'
      PROVE  phase'[d] \in EverHeld
  <2>1. d \in Contenders /\ (d \in aged \/ (d = c /\ Ages(c)))
    BY <1>3 DEF ElectionStep, ElectionTypes, Opens, Requests, Contests, Wins, Leaves, Learns,
       Replies, Beats, Ages, Breaks, Still, election
  <2> QED
    BY <1>1, <2>1 DEF Origins, Ages, Elected, EverHeld
<1>4. ASSUME NEW d \in outvoted'
      PROVE  phase'[d] \in Contested
  <2>1. d \in Contenders /\ (d \in outvoted \/ (d = c /\ Learns(c)))
    BY <1>4 DEF ElectionStep, ElectionTypes, Opens, Requests, Contests, Wins, Leaves, Learns,
       Replies, Beats, Ages, Breaks, Still, election
  <2> QED
    BY <1>1, <2>1 DEF Origins, Learns, Contested
<1> QED
  BY <1>2, <1>3, <1>4 DEF Origins, Heard

\* A browser lock is given to one tab at a time (Request); where it fails nobody,
\* nothing else decides.
LEMMA LockGivenStep ==
  ASSUME ElectionTypes, Origins, LockGiven, NEW c \in Contenders, ElectionStep(c), ElectionTypes'
  PROVE  LockGiven'
<1>1. world' = world /\ \A d \in Contenders \ {c} : phase'[d] = phase[d]
  BY PhasesAdvance
<1>2. /\ \A d, e \in Locked : d = e
      /\ world.scope \in {"game", "document"} => Locked = {}
  BY DEF LockGiven
<1>3. phase'[c] = "locked" => phase[c] = "locked" \/ (Requests(c) /\ Locked = {})
  BY DEF ElectionStep, Opens, Requests, Contests, Wins, Leaves, Learns, Replies, Beats, Ages,
     Breaks, election
<1>4. /\ \A d, e \in Locked' : d = e
      /\ world.scope \in {"game", "document"} => Locked' = {}
  <2>1. CASE Requests(c) /\ Locked = {}
    BY <1>1, <2>1 DEF Locked, Requests
  <2>2. CASE ~(Requests(c) /\ Locked = {})
    <3>1. Locked' \subseteq Locked
      BY <1>1, <1>3, <2>2 DEF Locked
    <3> QED
      BY <1>2, <3>1
  <2> QED
    BY <2>1, <2>2
<1> SUFFICES ASSUME world.scope = "lock"
             PROVE  /\ \A d \in Contenders : phase'[d] \notin {"electing", "holding", "lost"}
                    /\ \A d \in Contenders : inbox'[d] = <<>>
                    /\ \A d \in Contenders : phase'[d] = "refused"
                         => \E e \in Contenders : phase'[e] \in {"locked", "released"}
                    /\ aged' = {}
  BY <1>1, <1>4 DEF LockGiven
<1>5. /\ \A d \in Contenders : phase[d] \notin {"electing", "holding", "lost"}
      /\ \A d \in Contenders : inbox[d] = <<>>
      /\ \A d \in Contenders : phase[d] = "refused"
           => \E e \in Contenders : phase[e] \in {"locked", "released"}
      /\ aged = {}
  BY DEF LockGiven
<1>6. \/ Opens(c) \/ Requests(c) \/ Breaks(c) \/ UNCHANGED <<world, election>>
      \/ Leaves(c) /\ phase'[c] = "released" /\ c \in Locked
  BY <1>5 DEF ElectionStep, Contests, Wins, Leaves, Refusal, Defeat, Learns, Replies, HasRead,
     Beats, Ages, Listening, Elected
<1>7. ASSUME NEW d \in Contenders
      PROVE  inbox'[d] = <<>>
  <2>1. CASE d = c
    BY <1>5, <1>6, <2>1 DEF Opens, Requests, Breaks, Leaves, election
  <2>2. CASE d # c
    <3>1. \A m \in Said(inbox'[d]) : m \in Heard(d)
      BY <1>6, <2>2 DEF Opens, Requests, Breaks, Leaves, Others, Heard, election
    <3>2. inbox'[d] \in Seq(Message)
      BY DEF ElectionTypes
    <3>3. Heard(d) = {} /\ (inbox'[d] = <<>> <=> Said(inbox'[d]) = {})
      BY <1>5, <3>2, HeardTypes, SaidTypes
    <3> QED
      BY <3>1, <3>3
  <2> QED
    BY <2>1, <2>2
<1>8. aged' = {}
  BY <1>5, <1>6 DEF Opens, Requests, Breaks, Leaves, Still, election
<1>9. phase'[c] \notin {"electing", "holding", "lost"}
  BY <1>5, <1>6 DEF Opens, Requests, Breaks, Leaves, election
<1>10. ASSUME NEW d \in Contenders, phase'[d] = "refused"
       PROVE  \E e \in Contenders : phase'[e] \in {"locked", "released"}
  <2>1. \E e \in Contenders : phase[e] \in {"locked", "released"}
    <3>1. CASE phase[d] = "refused"
      BY <1>5, <3>1
    <3>2. CASE phase[d] # "refused"
      BY <1>1, <1>6, <1>10, <3>2 DEF Opens, Requests, Breaks, Leaves, Locked, election
    <3> QED
      BY <3>1, <3>2
  <2>2. PICK e \in Contenders : phase[e] \in {"locked", "released"}
    BY <2>1
  <2>3. phase'[e] \in {"locked", "released"}
    BY <1>1, <1>6, <2>2 DEF Opens, Requests, Breaks, Leaves, election
  <2> QED
    BY <2>3
<1> QED
  BY <1>1, <1>5, <1>7, <1>8, <1>9, <1>10

\* No step leaves the type invariant.
LEMMA TypesStep ==
  ASSUME TypeInv, NEW c \in Contenders,
         \/ Open(c) \/ Request(c) \/ Contest(c) \/ Decide(c) \/ Hear(c) \/ Beat(c)
         \/ Age(c) \/ Break(c) \/ Release(c) \/ ReadClaimed(c) \/ Edit(c) \/ Save(c) \/ Put(c)
  PROVE  TypeInv' /\ ElectionStep(c)
<1>1. ElectionTypes /\ DocumentTypes /\ Origins /\ LockGiven
  BY DEF TypeInv
<1>2. ElectionStep(c) /\ inbox' \in [Contenders -> Seq(Message)]
  BY <1>1, EveryStep
<1>3. phase' \in [Contenders -> Phases]
  BY <1>1, PhaseTypes
<1>4. ElectionTypes'
  BY <1>1, <1>2, <1>3, ElectionTypesStep
<1>5. DocumentTypes'
  BY <1>1, DocumentTypesStep
<1>6. Origins'
  BY <1>1, <1>2, OriginsStep
<1>7. LockGiven'
  BY <1>1, <1>2, <1>4, LockGivenStep
<1> QED
  BY <1>2, <1>4, <1>5, <1>6, <1>7 DEF TypeInv

\* A tab starts with nothing heard, nothing read and nothing claimed.
LEMMA InitTypes ==
  ASSUME Init
  PROVE  TypeInv
<1>1. Scopes \subseteq {"game", "document", "lock", "mixed"} /\ Punctual \subseteq BOOLEAN
  BY ClaimsAssumption DEF ClaimsAssumption
<1>2. ElectionTypes
  <2>1. <<>> \in Seq(Message)
    OBVIOUS
  <2> QED
    BY <1>1, <2>1 DEF Init, ElectionTypes, Phases, Listening
<1>3. DocumentTypes
  BY DEF Init, DocumentTypes
<1>4. \A c \in Contenders : Heard(c) = {} /\ inbox[c] = <<>> /\ phase[c] = "idle"
  <2>1. \A c \in Contenders : inbox[c] = <<>> /\ phase[c] = "idle"
    BY DEF Init
  <2> QED
    BY <1>2, <2>1, HeardTypes
<1>5. Origins /\ LockGiven
  BY <1>4 DEF Init, Origins, LockGiven, Locked
<1> QED
  BY <1>2, <1>3, <1>5 DEF TypeInv

\* Nothing happens while a step of something else is taken.
LEMMA TypesStay ==
  ASSUME TypeInv, UNCHANGED vars
  PROVE  TypeInv'
BY DEF TypeInv, ElectionTypes, DocumentTypes, Origins, LockGiven, Heard, Listening, Locked,
   vars, election, document

\* Every claim, every queue and every document keeps its shape, whatever the tabs
\* and the timers do (TabClaim.ts, DirectorWriterClaim.ts).
THEOREM Types == Spec => []TypeInv
<1>1. TypeInv /\ [Next]_vars => TypeInv'
  <2> SUFFICES ASSUME TypeInv, [Next]_vars
               PROVE  TypeInv'
    OBVIOUS
  <2>1. CASE Next
    BY <2>1, TypesStep DEF Next
  <2>2. CASE UNCHANGED vars
    BY <2>2, TypesStay
  <2> QED
    BY <2>1, <2>2
<1> QED
  BY <1>1, InitTypes, PTL DEF Spec

\* The type invariant of the model follows.
LEMMA TypeInvTypes ==
  ASSUME TypeInv
  PROVE  TypeOK
<1>1. ElectionTypes /\ DocumentTypes
  BY DEF TypeInv
<1>2. ASSUME NEW c \in Contenders, NEW i \in DOMAIN inbox[c]
      PROVE  inbox[c][i] \in [kind : {"probe", "candidate", "claim", "holding"}, from : Contenders]
  <2>1. inbox[c] \in Seq(Message)
    BY <1>1 DEF ElectionTypes
  <2>2. inbox[c][i] \in Message
    BY <2>1
  <2> QED
    BY <2>2 DEF Message, Kinds
<1>3. ASSUME NEW c \in Contenders
      PROVE  \A held \in {copy[c], writing[c]} : held = None \/ held \subseteq 1..edits
  BY <1>1 DEF DocumentTypes
<1> QED
  BY <1>1, <1>2, <1>3 DEF TypeOK, ElectionTypes, DocumentTypes, Phases

\* What a claim is made of: its phase, its queue, its copy of the document.
THEOREM TypeCorrect == Spec => []TypeOK
BY Types, TypeInvTypes, PTL

-----------------------------------------------------------------------------
(* One holder.                                                             *)

\* What c's step leaves of what another contender heard.
LEMMA HeardStays ==
  ASSUME ElectionTypes, NEW c \in Contenders, ElectionStep(c), NEW d \in Contenders, d # c
  PROVE  /\ Heard(d) \subseteq Said(inbox'[d])
         /\ inbox[d] # <<>> => inbox'[d] # <<>> /\ Head(inbox'[d]) = Head(inbox[d])
BY DEF ElectionStep, Others, Opens, Requests, Contests, Wins, Leaves, Learns, Replies, Beats,
   Ages, Breaks, election, Heard

\* Two holders of which one takes a step: it tells the other, or still has to hear
\* of it (Decide, Hear: a holder answers a rival it does not yield to).
LEMMA RivalsStep ==
  ASSUME ElectionTypes, Converging,
         NEW c \in Contenders, ElectionStep(c), NEW d \in Contenders, d # c,
         phase'[c] = "holding", phase'[d] = "holding",
         Lease \/ (c \notin mute' /\ d \notin mute')
  PROVE  \/ \E m \in Said(inbox'[c]) : m.kind \in Rivalry /\ m.from = d
         \/ \E m \in Said(inbox'[d]) : m.kind \in Rivalry /\ m.from = c
<1>1. phase[d] = "holding" /\ mute \subseteq mute' /\ Heard(d) \subseteq Said(inbox'[d])
  BY PhasesAdvance, HeardStays
<1>2. d \in Listening
  BY <1>1 DEF Listening
<1>3. CASE Wins(c)
  <2>1. c \notin mute
    BY <1>1, <1>3 DEF Wins
  <2> QED
    BY <1>2, <1>3, <2>1 DEF Wins, Others, Rivalry
<1>4. CASE phase[c] = "holding"
  <2>1. \/ \E m \in Heard(c) : m.kind \in Rivalry /\ m.from = d
        \/ \E m \in Heard(d) : m.kind \in Rivalry /\ m.from = c
    BY <1>1, <1>4 DEF Converging, Audible, Elected
  <2>2. CASE \E m \in Heard(d) : m.kind \in Rivalry /\ m.from = c
    BY <1>1, <2>2
  <2>3. CASE Heard(c) \subseteq Said(inbox'[c])
    BY <2>1, <2>2, <2>3
  <2>4. CASE Replies(c)
    <3>1. PICK r \in Message :
            /\ HasRead(c, r) /\ ~Displaces(r, c) /\ (Answers(r) => ~(Lease /\ c \in mute))
            /\ IF Answers(r) /\ c \notin mute THEN Others(c, {"holding"}) ELSE Others(c, {})
      BY <2>4 DEF Replies
    <3>2. CASE r.kind \in Rivalry
      <4>1. Answers(r)
        BY <3>2 DEF Answers, Rivalry
      <4>2. c \notin mute
        BY <1>1, <3>1, <4>1
      <4> QED
        BY <1>2, <3>1, <4>1, <4>2 DEF Others, Rivalry
    <3>3. CASE r.kind \notin Rivalry
      BY <2>1, <2>2, <3>1, <3>3 DEF HasRead
    <3> QED
      BY <3>2, <3>3
  <2> QED
    BY <1>4, <2>3, <2>4
       DEF ElectionStep, Opens, Requests, Contests, Wins, Leaves, Refusal, Defeat, Learns,
           Beats, Ages, Breaks, election, Heard
<1> QED
  BY <1>3, <1>4 DEF ElectionStep, Opens, Requests, Contests, Leaves, Learns, Replies, Beats,
     Ages, Breaks, Elected, election

\* No step leaves two holders that will not hear of each other.
LEMMA ConvergingStep ==
  ASSUME ElectionTypes, Converging, NEW c \in Contenders, ElectionStep(c)
  PROVE  Converging'
<1>1. world' = world /\ mute \subseteq mute' /\ \A d \in Contenders \ {c} : phase'[d] = phase[d]
  BY PhasesAdvance
<1> SUFFICES ASSUME NEW a \in Contenders, NEW b \in Contenders, a # b,
                    phase'[a] = "holding", phase'[b] = "holding",
                    Lease \/ (a \notin mute' /\ b \notin mute')
             PROVE  \/ \E m \in Said(inbox'[a]) : m.kind \in Rivalry /\ m.from = b
                    \/ \E m \in Said(inbox'[b]) : m.kind \in Rivalry /\ m.from = a
  BY <1>1 DEF Converging, Audible, Elected, Lease, Heard
<1>2. CASE c \notin {a, b}
  <2>1. a \in Audible /\ b \in Audible
    BY <1>1, <1>2 DEF Audible, Elected
  <2> QED
    BY <1>2, <2>1, HeardStays DEF Converging
<1>3. CASE c = a
  BY <1>3, RivalsStep
<1>4. CASE c = b
  BY <1>4, RivalsStep
<1> QED
  BY <1>2, <1>3, <1>4

\* A set of which no two members differ.
LEMMA AtMostOne ==
  ASSUME NEW S, \A c, d \in S : c = d
  PROVE  Cardinality(S) <= 1
<1>1. CASE S = {}
  BY <1>1, FS_EmptySet
<1>2. CASE S # {}
  <2>1. PICK c : S = {c}
    BY <1>2
  <2>2. Cardinality({c}) = 1
    BY FS_Singleton
  <2> QED
    BY <2>1, <2>2
<1> QED
  BY <1>1, <1>2

\* However late timers and messages are, once every message is read there is one
\* writer ("Two tabs that crossed the election boundary still converge",
\* TabClaim.ts:178), for every number of tabs.
THEOREM OneHolder == Spec => []OneHolderWhenSettled
<1>1. Init => Converging
  BY DEF Init, Converging, Audible, Elected
<1>2. TypeInv /\ Converging /\ [Next]_vars => Converging'
  <2> SUFFICES ASSUME TypeInv, Converging, [Next]_vars
               PROVE  Converging'
    OBVIOUS
  <2>1. ElectionTypes
    BY DEF TypeInv
  <2>2. CASE Next
    <3>1. PICK c \in Contenders : ElectionStep(c)
      BY <2>2, TypesStep DEF Next
    <3> QED
      BY <2>1, <3>1, ConvergingStep
  <2>3. CASE UNCHANGED vars
    BY <2>3 DEF vars, election, Converging, Audible, Elected, Lease, Heard
  <2> QED
    BY <2>2, <2>3
<1>3. TypeInv /\ Converging => OneHolderWhenSettled
  <2> SUFFICES ASSUME TypeInv, Converging, Settled
               PROVE  Cardinality(Audible) <= 1 /\ Cardinality(Locked) <= 1
    BY DEF OneHolderWhenSettled, Audible
  <2>1. \A c, d \in Audible : c = d
    <3>1. \A c \in Contenders : Heard(c) = {}
      BY HeardTypes DEF TypeInv, Settled
    <3> QED
      BY <3>1 DEF Converging, Audible, Elected
  <2>2. \A c, d \in Locked : c = d
    BY DEF TypeInv, LockGiven
  <2> QED
    BY <2>1, <2>2, AtMostOne
<1> QED
  BY <1>1, <1>2, <1>3, Types, PTL DEF Spec

-----------------------------------------------------------------------------
(* Timers that are never early.                                            *)

\* When a timer fires everything has been read, and so whoever is elected next to a
\* holder that can speak has the lower id, and the holder's claim is old.
LEMMA Victory ==
  ASSUME ElectionTypes, world.punctual, Warned, NEW c \in Contenders, Wins(c),
         NEW d \in Contenders, phase[d] = "holding", d \notin mute
  PROVE  d \in aged /\ ~(d < c) /\ inbox[d] = <<>>
<1>1. inbox[c] = <<>> /\ inbox[d] = <<>>
  BY DEF Wins, InTime
<1>2. Heard(c) = {} /\ Heard(d) = {}
  BY <1>1, HeardTypes
<1> QED
  BY <1>1, <1>2 DEF Warned, Wins

\* A holder that can speak is asked by, or has answered, whoever contests.
LEMMA WarnedStep ==
  ASSUME ElectionTypes, Warned, NEW x \in Contenders, ElectionStep(x)
  PROVE  Warned'
<1>1. /\ outvoted \subseteq outvoted' /\ aged \subseteq aged' /\ mute \subseteq mute'
      /\ \A d \in Contenders \ {x} : phase'[d] = phase[d]
  BY PhasesAdvance
<1>2. \A d \in Contenders \ {x} : Heard(d) \subseteq Said(inbox'[d])
  BY HeardStays
<1> SUFFICES ASSUME NEW c \in Contenders, NEW d \in Contenders,
                    phase'[c] = "holding", c \notin mute',
                    phase'[d] = "electing", d \notin outvoted',
                    c < d \/ c \notin aged'
             PROVE  \/ \E m \in Said(inbox'[c]) : m.kind = "probe" /\ m.from = d
                    \/ \E m \in Said(inbox'[d]) : m.kind = "holding" /\ m.from = c
  BY DEF Warned, Heard
<1>3. c # d /\ c \notin mute /\ d \notin outvoted /\ (c < d \/ c \notin aged)
  BY <1>1
<1>4. ASSUME phase[c] = "holding", phase[d] = "electing"
      PROVE  \/ \E m \in Heard(c) : m.kind = "probe" /\ m.from = d
             \/ \E m \in Heard(d) : m.kind = "holding" /\ m.from = c
  BY <1>3, <1>4 DEF Warned
<1>5. CASE x \notin {c, d}
  BY <1>1, <1>2, <1>4, <1>5
<1>6. CASE x = c
  <2>1. phase[d] = "electing" /\ d \in Listening /\ Heard(d) \subseteq Said(inbox'[d])
    BY <1>1, <1>2, <1>3, <1>6 DEF Listening
  <2>2. CASE Wins(c)
    BY <1>3, <2>1, <2>2 DEF Wins, Others, Rivalry
  <2>3. CASE Replies(c)
    <3>1. PICK r \in Message :
            /\ phase[c] = "holding" /\ HasRead(c, r)
            /\ IF Answers(r) /\ c \notin mute THEN Others(c, {"holding"}) ELSE Others(c, {})
      BY <2>3 DEF Replies
    <3>2. CASE r.kind = "probe"
      <4>1. Answers(r)
        BY <3>2 DEF Answers
      <4> QED
        BY <1>3, <2>1, <3>1, <4>1 DEF Others
    <3>3. CASE r.kind # "probe"
      BY <1>4, <2>1, <3>1, <3>3 DEF HasRead
    <3> QED
      BY <3>2, <3>3
  <2>4. CASE phase[c] = "holding" /\ inbox'[c] = inbox[c]
    BY <1>4, <2>1, <2>4 DEF Heard
  <2> QED
    BY <1>6, <2>2, <2>3, <2>4
       DEF ElectionStep, Opens, Requests, Contests, Leaves, Learns, Beats, Ages, Breaks,
           Elected, election
<1>7. CASE x = d
  <2>1. phase[c] = "holding" /\ c \in Listening /\ Heard(c) \subseteq Said(inbox'[c])
    BY <1>1, <1>2, <1>3, <1>7 DEF Listening
  <2>2. CASE Contests(d)
    BY <1>3, <2>1, <2>2 DEF Contests, Others
  <2>3. CASE Learns(d)
    <3>1. PICK r \in Message :
            /\ phase[d] = "electing" /\ HasRead(d, r)
            /\ outvoted' = IF Outvotes(r, d) THEN outvoted \cup {d} ELSE outvoted
      BY <2>3 DEF Learns
    <3>2. ~(r.kind = "holding" /\ r.from = c)
      BY <1>3, <3>1 DEF Outvotes
    <3> QED
      BY <1>4, <2>1, <3>1, <3>2 DEF HasRead
  <2>4. CASE phase[d] = "electing" /\ inbox'[d] = inbox[d]
    BY <1>4, <2>1, <2>4 DEF Heard
  <2> QED
    BY <1>7, <2>2, <2>3, <2>4
       DEF ElectionStep, Opens, Requests, Wins, Leaves, Replies, Beats, Ages, Breaks, election
<1> QED
  BY <1>5, <1>6, <1>7

\* A holder that is superseded reads of it before it speaks again.
LEMMA SupersededStep ==
  ASSUME ElectionTypes, world.punctual, Warned, Superseded,
         NEW x \in Contenders, ElectionStep(x)
  PROVE  Superseded'
<1>1. /\ aged \subseteq aged' /\ mute \subseteq mute'
      /\ \A d \in Contenders \ {x} : phase'[d] = phase[d]
  BY PhasesAdvance
<1> SUFFICES ASSUME NEW c \in Contenders, NEW d \in Contenders, c < d,
                    phase'[c] = "holding", phase'[d] = "holding",
                    c \notin mute', d \notin mute'
             PROVE  /\ d \in aged' /\ inbox'[d] # <<>>
                    /\ Head(inbox'[d]).kind = "claim" /\ Head(inbox'[d]).from < d
  BY DEF Superseded, Elected
<1>2. /\ c \in Nat /\ d \in Nat /\ c # d /\ c \notin mute /\ d \notin mute /\ ~(d < c)
  <2>1. c \in Nat /\ d \in Nat
    BY ClaimsAssumption DEF ClaimsAssumption
  <2> QED
    BY <1>1, <2>1
<1>3. ASSUME phase[c] = "holding", phase[d] = "holding"
      PROVE  /\ d \in aged /\ inbox[d] # <<>>
             /\ Head(inbox[d]).kind = "claim" /\ Head(inbox[d]).from < d
  BY <1>2, <1>3 DEF Superseded, Elected
<1>4. CASE x # d /\ phase[c] = "holding"
  BY <1>1, <1>3, <1>4, HeardStays
<1>5. CASE x = c /\ Wins(c)
  <2>1. phase[d] = "holding" /\ d \in Listening
    BY <1>1, <1>2, <1>5 DEF Listening
  <2>2. d \in aged /\ inbox[d] = <<>>
    BY <1>2, <1>5, <2>1, Victory
  <2>3. Head(inbox'[d]) = Word("claim", c) /\ inbox'[d] # <<>>
    BY <1>2, <1>5, <2>1, <2>2 DEF Wins
  <2> QED
    BY <1>1, <2>2, <2>3 DEF Word
<1>6. CASE x = d
  <2>1. phase[c] = "holding"
    BY <1>1, <1>2, <1>6
  <2>2. ~Wins(d)
    BY <1>2, <2>1, Victory
  <2>3. ASSUME Replies(d)
        PROVE  FALSE
    <3>1. phase[d] = "holding" /\ ~Displaces(Head(inbox[d]), d)
      BY <2>3 DEF Replies, HasRead
    <3> QED
      BY <1>3, <2>1, <3>1 DEF Displaces
  <2>4. ~Beats(d)
    BY <1>3, <2>1 DEF Beats
  <2>5. phase[d] = "holding" /\ inbox' = inbox
    BY <1>6, <2>2, <2>3, <2>4 DEF ElectionStep, Opens, Requests, Contests, Leaves, Learns, Ages,
       Breaks, Elected, election
  <2> QED
    BY <1>1, <1>3, <2>1, <2>5
<1>7. CASE x = c
  <2>1. Wins(c) \/ phase[c] = "holding"
    BY <1>7 DEF ElectionStep, Opens, Requests, Contests, Leaves, Learns, Replies, Beats, Ages,
       Breaks, Elected, election
  <2> QED
    BY <1>2, <1>4, <1>5, <1>7, <2>1
<1> QED
  BY <1>1, <1>4, <1>6, <1>7

\* A holder is told of a rival only by a lower one, and only when its own claim is
\* old.
LEMMA DisplacingStep ==
  ASSUME ElectionTypes, world.punctual, Warned, Superseded, Displacing,
         NEW x \in Contenders, ElectionStep(x)
  PROVE  Displacing'
<1>1. /\ aged \subseteq aged' /\ mute \subseteq mute'
      /\ \A d \in Contenders \ {x} : phase'[d] = phase[d]
  BY PhasesAdvance
<1> SUFFICES ASSUME NEW c \in Contenders, phase'[c] = "holding", c \notin mute',
                    NEW m \in Said(inbox'[c]), m.kind \in Rivalry
             PROVE  c \in aged /\ m.from < c
  BY <1>1 DEF Displacing, Elected, Heard
<1>2. c \notin mute /\ c \in Nat /\ x \in Nat
  BY <1>1, ClaimsAssumption DEF ClaimsAssumption
<1>3. CASE m \in Heard(c) /\ phase[c] = "holding"
  BY <1>2, <1>3 DEF Displacing, Elected
<1>4. CASE m \in Heard(c) /\ phase[c] # "holding"
  <2>1. Wins(c)
    BY <1>1, <1>4 DEF ElectionStep, Opens, Requests, Contests, Leaves, Learns, Replies, Beats,
       Ages, Breaks, election
  <2>2. inbox[c] = <<>>
    BY <2>1 DEF Wins, InTime
  <2> QED
    BY <1>4, <2>2, HeardTypes
<1>5. CASE c # x /\ m.from = x /\ x \notin mute /\ (Wins(x) \/ Replies(x) \/ Beats(x))
  <2>1. phase[c] = "holding"
    BY <1>1, <1>5
  <2>2. CASE Wins(x)
    <3>1. c \in aged /\ ~(c < x)
      BY <1>2, <2>1, <2>2, Victory
    <3> QED
      BY <1>2, <1>5, <3>1
  <2>3. CASE Replies(x) \/ Beats(x)
    <3>1. phase[x] = "holding"
      BY <2>3 DEF Replies, Beats
    <3>2. x < c => c \in aged
      BY <1>2, <1>5, <2>1, <3>1 DEF Superseded, Elected
    <3>3. ~(c < x)
      <4>1. SUFFICES ASSUME c < x
                     PROVE  FALSE
        OBVIOUS
      <4>2. /\ inbox[x] # <<>> /\ Head(inbox[x]).kind = "claim" /\ Head(inbox[x]).from < x
        BY <1>2, <1>5, <2>1, <3>1, <4>1 DEF Superseded, Elected
      <4>3. CASE Replies(x)
        BY <4>2, <4>3 DEF Replies, HasRead, Displaces
      <4>4. CASE Beats(x)
        BY <4>2, <4>4 DEF Beats
      <4> QED
        BY <2>3, <4>3, <4>4
    <3> QED
      BY <1>2, <1>5, <3>2, <3>3
  <2> QED
    BY <1>5, <2>2, <2>3
<1>6. \/ m \in Heard(c)
      \/ c # x /\ m.from = x /\ x \notin mute /\ (Wins(x) \/ Replies(x) \/ Beats(x))
  <2>1. m.kind \notin {"probe", "candidate"}
    BY DEF Rivalry
  <2>2. \/ m \in Heard(c)
        \/ /\ c # x /\ c \in Listening /\ m.from = x
           /\ \/ m.kind \in {"probe", "candidate"} /\ Contests(x)
              \/ m.kind \in Rivalry /\ x \notin mute /\ Wins(x)
              \/ m.kind = "holding" /\ x \notin mute /\ Replies(x)
              \/ m.kind = "holding" /\ x \notin mute /\ Beats(x)
    BY HeardStep
  <2> QED
    BY <2>1, <2>2
<1> QED
  BY <1>3, <1>4, <1>5, <1>6

\* The three facts about punctual timers hold together.
LEMMA TimelyStep ==
  ASSUME ElectionTypes, Timely, NEW x \in Contenders, ElectionStep(x)
  PROVE  Timely'
<1>1. world' = world
  BY PhasesAdvance
<1>2. CASE world.punctual
  <2>1. Warned /\ Superseded /\ Displacing
    BY <1>2 DEF Timely
  <2>2. Warned' /\ Superseded' /\ Displacing'
    BY <1>2, <2>1, WarnedStep, SupersededStep, DisplacingStep
  <2> QED
    BY <2>2 DEF Timely
<1>3. CASE ~world.punctual
  BY <1>1, <1>3 DEF Timely
<1> QED
  BY <1>2, <1>3

\* Nobody has contested yet.
LEMMA InitTimely ==
  ASSUME Init
  PROVE  Timely
BY DEF Init, Timely, Warned, Superseded, Displacing, Elected

\* Nothing happens to an election in a step of something else.
LEMMA TimelyStays ==
  ASSUME Timely, UNCHANGED vars
  PROVE  Timely'
BY DEF vars, election, Timely, Warned, Superseded, Displacing, Elected, Heard

\* A holder that can be heard is displaced only when its claim is old.
LEMMA DefeatIsLate ==
  ASSUME ElectionTypes, LockGiven, Timely, world.punctual, NEW c \in Contenders, Defeat(c),
         c \notin mute
  PROVE  c \in aged /\ Head(inbox[c]).from < c
<1>1. /\ phase[c] = "holding" /\ inbox[c] # <<>> /\ Head(inbox[c]) \in Heard(c)
      /\ Head(inbox[c]).kind \in Rivalry
  BY DEF Defeat, Displaces, Rivalry
<1> QED
  BY <1>1 DEF Timely, Displacing, Elected

\* When timers are never early for a message, a holder that can be heard keeps its
\* claim while the claim is young, whoever contests it (DirectorWriterClaim.ts,
\* TabClaim.ts: a live holder answers a probe, and a rival that heard it stands down).
THEOREM YoungHolderKept == Spec => HolderKept
<1> DEFINE Kept == \A c \in Contenders :
                     world.punctual /\ phase[c] = "holding" /\ c \notin aged \cup mute
                     => phase'[c] # "lost"
<1>1. TypeInv /\ Timely /\ [Next]_vars => Timely' /\ [Kept]_vars
  <2> SUFFICES ASSUME TypeInv, Timely, [Next]_vars
               PROVE  Timely' /\ [Kept]_vars
    OBVIOUS
  <2>1. CASE Next
    <3>1. PICK x \in Contenders : ElectionStep(x)
      BY <2>1, TypesStep DEF Next
    <3>2. ElectionTypes /\ LockGiven
      BY DEF TypeInv
    <3>3. ASSUME NEW c \in Contenders, world.punctual, phase[c] = "holding",
                 c \notin aged \cup mute
          PROVE  phase'[c] # "lost"
      <4>1. CASE c = x /\ Leaves(c)
        BY <3>2, <3>3, <4>1, DefeatIsLate DEF Leaves
      <4>2. CASE c = x /\ ~Leaves(c)
        BY <3>1, <3>3, <4>2 DEF ElectionStep, Opens, Requests, Contests, Wins, Learns, Replies,
           Beats, Ages, Breaks, election
      <4>3. CASE c # x
        BY <3>1, <3>2, <3>3, <4>3, PhasesAdvance
      <4> QED
        BY <4>1, <4>2, <4>3
    <3> QED
      BY <3>1, <3>2, <3>3, TimelyStep
  <2>2. CASE UNCHANGED vars
    BY <2>2, TimelyStays
  <2> QED
    BY <2>1, <2>2
<1>2. Init => Timely
  BY InitTimely
<1> QED
  BY <1>1, <1>2, Types, PTL DEF Spec, HolderKept

-----------------------------------------------------------------------------
(* Standing down is never mutual.                                          *)

\* Whoever was displaced heard of a lower contender that had held the claim.
LEMMA DefeatByLower ==
  ASSUME ElectionTypes, Origins, LockGiven, Timely, Reasons,
         mute = {}, aged = {} \/ world.punctual,
         NEW c \in Contenders, Defeat(c)
  PROVE  \E d \in Contenders : d < c /\ phase[d] \in Lasting
<1>1. /\ Head(inbox[c]) \in Heard(c) /\ Head(inbox[c]).kind \in Rivalry
      /\ Head(inbox[c]).from < c \/ c \in aged
  BY DEF Defeat, Displaces, Rivalry
<1>2. Head(inbox[c]).from < c
  BY <1>1, DefeatIsLate
<1>3. PICK e \in Contenders : e = Head(inbox[c]).from
  BY <1>1, HeardTypes
<1>4. phase[e] \in EverHeld /\ e < c
  BY <1>1, <1>2, <1>3 DEF Origins
<1>5. CASE phase[e] = "lost"
  <2>1. PICK f \in Contenders : f < e /\ phase[f] \in Lasting
    BY <1>5 DEF Reasons
  <2>2. f < c
    <3>1. c \in Nat /\ e \in Nat /\ f \in Nat
      BY ClaimsAssumption DEF ClaimsAssumption
    <3> QED
      BY <1>4, <2>1, <3>1
  <2> QED
    BY <2>1, <2>2
<1> QED
  BY <1>4, <1>5 DEF EverHeld, Lasting

\* Whoever is outvoted heard of a holder, or of a lower contender that still stands.
LEMMA OutvotedBySomebody ==
  ASSUME ElectionTypes, Origins, Reasons, NEW c \in Contenders, phase[c] = "electing",
         NEW m \in Heard(c), Outvotes(m, c)
  PROVE  Somebody \/ \E d \in Contenders : d < c /\ phase[d] = "electing" /\ d \notin outvoted
<1>1. /\ m.from \in Contenders /\ m.from # c /\ phase[m.from] \in Contested
      /\ m.kind \in Rivalry => phase[m.from] \in EverHeld
  BY HeardTypes DEF Origins
<1>2. PICK e \in Contenders : e = m.from
  BY <1>1
<1>3. ASSUME NEW d \in Contenders, phase[d] = "lost"
      PROVE  Somebody
  BY <1>3 DEF Reasons, Somebody
<1>4. CASE phase[e] \in EverHeld
  BY <1>3, <1>4 DEF EverHeld, Somebody, Lasting
<1>5. CASE phase[e] \notin EverHeld
  <2>1. e < c /\ phase[e] \in {"electing", "refused"}
    BY <1>1, <1>2, <1>5 DEF Outvotes, Rivalry, EverHeld, Contested
  <2>2. CASE e \notin outvoted
    BY <2>1, <2>2 DEF Reasons
  <2>3. CASE e \in outvoted
    <3>1. CASE ~Somebody
      <4>1. PICK f \in Contenders : f < e /\ phase[f] = "electing" /\ f \notin outvoted
        BY <2>3, <3>1 DEF Reasons
      <4>2. f < c
        <5>1. c \in Nat /\ e \in Nat /\ f \in Nat
          BY ClaimsAssumption DEF ClaimsAssumption
        <5> QED
          BY <2>1, <4>1, <5>1
      <4> QED
        BY <4>1, <4>2
    <3> QED
      BY <3>1
  <2> QED
    BY <2>2, <2>3
<1> QED
  BY <1>4, <1>5

\* Who stands down does so for a lower contender, who does not stand down for it.
LEMMA ReasonsStep ==
  ASSUME ElectionTypes, Origins, LockGiven, Timely, Reasons,
         mute = {}, aged = {} \/ world.punctual,
         NEW x \in Contenders, ElectionStep(x)
  PROVE  Reasons'
<1> DEFINE Below(c) == \E d \in Contenders : d < c /\ phase[d] \in Lasting
           BelowNext(c) == \E d \in Contenders : d < c /\ phase'[d] \in Lasting
           Standing(c) ==
             \E d \in Contenders : d < c /\ phase[d] = "electing" /\ d \notin outvoted
           StandingNext(c) ==
             \E d \in Contenders : d < c /\ phase'[d] = "electing" /\ d \notin outvoted'
           SomebodyNext == \E d \in Contenders : phase'[d] \in Lasting
<1>1. /\ \A d \in Contenders \ {x} : phase'[d] = phase[d]
      /\ outvoted \subseteq outvoted'
  BY PhasesAdvance
<1>2. \A d \in Contenders : d \in Nat /\ ~(d < d)
  BY ClaimsAssumption DEF ClaimsAssumption
<1>3. ASSUME NEW c \in Contenders, NEW d \in Contenders, NEW e \in Contenders, d < c, e < d
      PROVE  e < c
  BY <1>2, <1>3
<1>4. Defeat(x) => Below(x)
  BY DefeatByLower
<1>5. Leaves(x) =>
        \/ phase'[x] = "refused" /\ phase[x] = "electing" /\ x \in outvoted
        \/ phase'[x] = "lost" /\ phase[x] = "holding" /\ Below(x)
        \/ phase'[x] = "released"
  BY <1>4 DEF Leaves, Refusal, Defeat
<1>6. \/ phase'[x] = phase[x]
      \/ phase'[x] \in {"opened", "electing", "holding"} /\ phase[x] \in {"idle", "opened", "electing"}
      \/ Requests(x)
      \/ Leaves(x)
  BY DEF ElectionStep, Opens, Contests, Wins, Learns, Replies, Beats, Ages, Breaks, election
<1>7. \/ outvoted' = outvoted
      \/ /\ Learns(x) /\ outvoted' = outvoted \cup {x} /\ phase[x] = "electing"
         /\ \E m \in Heard(x) : Outvotes(m, x)
  <2>1. CASE Learns(x)
    <3>1. PICK m \in Message :
            /\ HasRead(x, m) /\ phase[x] = "electing"
            /\ outvoted' = IF Outvotes(m, x) THEN outvoted \cup {x} ELSE outvoted
      BY <2>1 DEF Learns
    <3>2. m \in Heard(x)
      BY <3>1 DEF HasRead
    <3> QED
      BY <2>1, <3>1, <3>2
  <2> QED
    BY <2>1 DEF ElectionStep, Opens, Requests, Contests, Wins, Leaves, Replies, Beats, Ages,
       Breaks, Still, election
<1>8. ASSUME NEW c \in Contenders, Below(c)
      PROVE  BelowNext(c)
  <2>1. PICK d \in Contenders : d < c /\ phase[d] \in Lasting
    BY <1>8
  <2>2. CASE phase'[d] \in Lasting
    BY <2>1, <2>2
  <2>3. CASE phase'[d] \notin Lasting
    <3>1. d = x /\ Leaves(x) /\ Below(x)
      BY <1>1, <1>5, <1>6, <2>1, <2>3 DEF Lasting, Requests
    <3>2. PICK e \in Contenders : e < d /\ phase[e] \in Lasting
      BY <3>1
    <3>3. e # x /\ e < c
      BY <1>2, <1>3, <2>1, <3>1, <3>2
    <3> QED
      BY <1>1, <3>2, <3>3
  <2> QED
    BY <2>2, <2>3
<1>9. Somebody => SomebodyNext
  <2>1. SUFFICES ASSUME NEW d \in Contenders, phase[d] \in Lasting,
                        phase'[d] \notin Lasting
                 PROVE  SomebodyNext
    BY DEF Somebody
  <2>2. d = x /\ Below(x)
    BY <1>1, <1>5, <1>6, <2>1 DEF Lasting, Requests
  <2> QED
    BY <1>8, <2>2
<1>10. \A c \in Contenders : phase'[c] = "lost" => BelowNext(c)
  <2> SUFFICES ASSUME NEW c \in Contenders, phase'[c] = "lost"
               PROVE  Below(c)
    BY <1>8
  <2>1. CASE phase[c] = "lost"
    BY <2>1 DEF Reasons
  <2>2. CASE c = x /\ phase[x] # "lost"
    <3>1. phase'[x] = "lost"
      BY <2>2
    <3>2. ~Requests(x)
      BY <3>1 DEF Requests
    <3> QED
      BY <1>5, <1>6, <2>2, <3>1, <3>2
  <2> QED
    BY <1>1, <2>1, <2>2
<1>11. \A c \in Contenders : phase'[c] = "refused" => c \in outvoted' \/ SomebodyNext
  <2> SUFFICES ASSUME NEW c \in Contenders, phase'[c] = "refused"
               PROVE  c \in outvoted \/ Somebody
    BY <1>1, <1>9
  <2>1. CASE phase[c] = "refused"
    BY <2>1 DEF Reasons
  <2>2. CASE c = x /\ Requests(x)
    BY <2>2 DEF Requests, Locked, Somebody, Lasting
  <2>3. CASE c = x /\ ~Requests(x)
    BY <1>5, <1>6, <2>3, <2>1
  <2> QED
    BY <1>1, <2>1, <2>2, <2>3
<1>12. \A m \in Heard(x) : phase[x] = "electing" /\ Outvotes(m, x) => Somebody \/ Standing(x)
  BY OutvotedBySomebody
<1>13. ASSUME NEW c \in Contenders, Standing(c)
       PROVE  SomebodyNext \/ StandingNext(c)
  <2>1. PICK d \in Contenders : d < c /\ phase[d] = "electing" /\ d \notin outvoted
    BY <1>13
  <2>2. CASE phase'[d] = "electing" /\ d \notin outvoted'
    BY <2>1, <2>2
  <2>3. CASE phase'[d] # "electing"
    <3>1. d = x
      BY <1>1, <2>1, <2>3
    <3>2. phase'[x] \in {"opened", "holding", "released"}
      BY <1>5, <1>6, <2>1, <2>3, <3>1 DEF Requests
    <3>3. phase'[x] # "opened"
      BY <2>1, <3>1 DEF ElectionStep, Opens, Requests, Contests, Wins, Leaves, Learns, Replies,
         Beats, Ages, Breaks, election
    <3> QED
      BY <3>2, <3>3 DEF Lasting
  <2>4. CASE d \in outvoted'
    <3>1. d = x /\ outvoted' = outvoted \cup {x} /\ (Somebody \/ Standing(x))
      BY <1>7, <1>12, <2>1, <2>4
    <3>2. CASE Somebody
      BY <1>9, <3>2
    <3>3. CASE Standing(x)
      <4>1. PICK e \in Contenders : e < x /\ phase[e] = "electing" /\ e \notin outvoted
        BY <3>3
      <4>2. e # x /\ e < c
        BY <1>2, <1>3, <2>1, <3>1, <4>1
      <4> QED
        BY <1>1, <3>1, <4>1, <4>2
    <3> QED
      BY <3>1, <3>2, <3>3
  <2> QED
    BY <2>2, <2>3, <2>4
<1>14. ASSUME NEW c \in outvoted'
       PROVE  SomebodyNext \/ StandingNext(c)
  <2>1. Somebody \/ Standing(c)
    BY <1>7, <1>12, <1>14 DEF Reasons
  <2>2. c \in Contenders
    BY <1>7, <1>14 DEF ElectionTypes
  <2> QED
    BY <1>9, <1>13, <2>1, <2>2
<1> QED
  BY <1>10, <1>11, <1>14 DEF Reasons, Somebody

\* The same while every channel works and no claim is old or no timer is early.
LEMMA JustifiedStep ==
  ASSUME ElectionTypes, Origins, LockGiven, Timely, Justified, NEW x \in Contenders,
         ElectionStep(x)
  PROVE  Justified'
<1>1. world' = world /\ aged \subseteq aged' /\ mute \subseteq mute'
  BY PhasesAdvance
<1> SUFFICES ASSUME mute' = {}, aged' = {} \/ world.punctual
             PROVE  Reasons'
  BY <1>1 DEF Justified
<1>2. mute = {} /\ (aged = {} \/ world.punctual)
  BY <1>1
<1> QED
  BY <1>2, ReasonsStep DEF Justified

\* Standing down is never mutual (TabClaim.ts, DirectorWriterClaim.ts: the lower id
\* wins): if contenders contested and none of them went away, one of them writes.
THEOREM SomeoneWrites == Spec => []SomeoneHolds
<1>1. Init => Timely /\ Justified
  <2>1. ASSUME Init
        PROVE  Justified
    BY <2>1 DEF Init, Justified, Reasons
  <2> QED
    BY <2>1, InitTimely
<1>2. TypeInv /\ Timely /\ Justified /\ [Next]_vars => Timely' /\ Justified'
  <2> SUFFICES ASSUME TypeInv, Timely, Justified, [Next]_vars
               PROVE  Timely' /\ Justified'
    OBVIOUS
  <2>1. CASE Next
    <3>1. PICK x \in Contenders : ElectionStep(x)
      BY <2>1, TypesStep DEF Next
    <3> QED
      BY <3>1, TimelyStep, JustifiedStep DEF TypeInv
  <2>2. CASE UNCHANGED vars
    BY <2>2, TimelyStays DEF Justified, Reasons, Somebody, vars, election
  <2> QED
    BY <2>1, <2>2
<1>3. TypeInv /\ Justified => SomeoneHolds
  <2> SUFFICES ASSUME TypeInv, Justified, mute = {}, aged = {} \/ world.punctual,
                      \A c \in Contenders : phase[c] \notin {"electing", "released"},
                      NEW c \in Contenders, phase[c] \in {"refused", "lost"}
               PROVE  \E d \in Contenders : phase[d] \in {"holding", "locked"}
    BY DEF SomeoneHolds, Holders, Elected, Locked
  <2>1. Reasons
    BY DEF Justified
  <2>2. Somebody
    BY <2>1 DEF Reasons, Somebody
  <2> QED
    BY <2>2 DEF Somebody, Lasting
<1> QED
  BY <1>1, <1>2, <1>3, Types, PTL DEF Spec

-----------------------------------------------------------------------------
(* The document.                                                           *)

\* While timers are never early, no claim is old and every channel works there is one
\* holder at a time.
LEMMA OneAtATime ==
  ASSUME ElectionTypes, LockGiven, Timely, Exclusive, NEW c \in Holders, NEW d \in Holders
  PROVE  c = d
<1>1. c \in Nat /\ d \in Nat
  BY ClaimsAssumption DEF ClaimsAssumption, Holders, Elected, Locked
<1>2. CASE world.scope = "lock"
  <2>1. Elected = {}
    BY <1>2 DEF LockGiven, Elected
  <2> QED
    BY <2>1 DEF LockGiven, Holders
<1>3. CASE world.scope # "lock"
  <2>1. Locked = {}
    BY <1>3, ClaimsAssumption DEF LockGiven, ElectionTypes, Exclusive, ClaimsAssumption
  <2>2. ~(c < d) /\ ~(d < c)
    BY <2>1 DEF Timely, Superseded, Holders, Exclusive
  <2> QED
    BY <1>1, <2>2
<1> QED
  BY <1>2, <1>3

\* Whoever changes the document has its claim (ReadClaimed, Edit, Save, Put; Open is a
\* tab that reads before it claims, and a put may outlast its claim).
LEMMA UpToDateStep ==
  ASSUME TypeInv, Timely, UpToDate, NEW x \in Contenders,
         \/ Open(x) \/ Request(x) \/ Contest(x) \/ Decide(x) \/ Hear(x) \/ Beat(x)
         \/ Age(x) \/ Break(x) \/ Release(x) \/ ReadClaimed(x) \/ Edit(x) \/ Save(x) \/ Put(x)
  PROVE  UpToDate'
<1> DEFINE Fresh(c) == /\ copy[c] = None \/ disk \ late \subseteq copy[c]
                       /\ c \in unsaved => disk \ late \subseteq copy[c]
                       /\ writing[c] = None \/ disk \ late \subseteq writing[c]
           Blank(c) == copy[c] = None /\ writing[c] = None
<1>1. ElectionTypes /\ DocumentTypes /\ LockGiven /\ ElectionStep(x)
  BY TypesStep DEF TypeInv
<1>2. /\ world' = world /\ aged \subseteq aged' /\ mute \subseteq mute'
      /\ \A d \in Contenders : /\ d # x => phase'[d] = phase[d]
                               /\ phase[d] \in EverHeld => phase'[d] \in EverHeld
  BY <1>1, PhasesAdvance
<1>3. \A c \in Contenders : c \in Holders' => c \in Holders \/ phase[c] \notin EverHeld
  <2>1. phase'[x] \in {"holding", "locked"}
          => phase[x] \in {"holding", "locked"} \/ phase[x] \notin EverHeld
    BY <1>1 DEF ElectionStep, Opens, Requests, Contests, Wins, Leaves, Learns, Replies, Beats,
       Ages, Breaks, election, EverHeld
  <2> QED
    BY <1>2, <2>1 DEF Holders, Elected, Locked
<1>4. /\ \A c \in Contenders : c \notin early /\ phase[c] \notin EverHeld => Blank(c)
      /\ \A c \in unsaved : phase[c] \in EverHeld
      /\ copy \in [Contenders -> {None} \cup SUBSET (1..edits)] /\ unsaved \subseteq Contenders
      /\ writing \in [Contenders -> {None} \cup SUBSET (1..edits)]
  BY <1>1 DEF UpToDate, DocumentTypes
<1>5. Exclusive' => Exclusive
  BY <1>2 DEF Exclusive
<1>6. \A c \in Contenders \ early : Exclusive /\ c \in Holders' => Fresh(c)
  <2> SUFFICES ASSUME NEW c \in Contenders \ early, Exclusive, c \in Holders'
               PROVE  Fresh(c)
    OBVIOUS
  <2>1. CASE c \in Holders
    BY <2>1 DEF UpToDate
  <2>2. CASE phase[c] \notin EverHeld
    BY <1>4, <2>2
  <2> QED
    BY <1>3, <2>1, <2>2
<1>7. \A c \in Holders : c \in Contenders /\ phase[c] \in EverHeld
  BY DEF Holders, Elected, Locked, EverHeld
<1> HIDE DEF Fresh
<1>8. CASE UNCHANGED document
  BY <1>2, <1>4, <1>5, <1>6, <1>8 DEF UpToDate, document, Fresh, Holders, Elected, Locked
<1>9. CASE Open(x)
  <2>1. /\ copy' = [copy EXCEPT ![x] = disk] /\ early' = early \cup {x}
        /\ UNCHANGED <<disk, unsaved, writing, late>>
    BY <1>9 DEF Open
  <2>2. \A c \in Contenders \ early' : c \notin early /\ copy'[c] = copy[c]
    BY <1>4, <2>1
  <2> QED
    BY <1>2, <1>4, <1>5, <1>6, <2>1, <2>2 DEF UpToDate, Fresh, Holders, Elected, Locked
<1>10. CASE ReadClaimed(x)
  <2>1. /\ copy' = [copy EXCEPT ![x] = disk] /\ x \in Holders
        /\ phase' = phase /\ UNCHANGED <<disk, unsaved, early, writing, late>>
    BY <1>10 DEF ReadClaimed, election
  <2>2. copy'[x] = disk /\ \A c \in Contenders \ {x} : copy'[c] = copy[c]
    BY <1>4, <2>1
  <2> QED
    BY <1>2, <1>4, <1>5, <1>6, <1>7, <2>1, <2>2
       DEF UpToDate, Fresh, Holders, Elected, Locked
<1>11. CASE Edit(x)
  <2>1. /\ copy' = [copy EXCEPT ![x] = copy[x] \cup {edits'}] /\ x \in Holders
        /\ copy[x] # None /\ phase' = phase /\ unsaved' = unsaved \cup {x}
        /\ UNCHANGED <<disk, early, writing, late>>
    BY <1>11 DEF Edit, election
  <2>2. /\ copy'[x] = copy[x] \cup {edits'}
        /\ \A c \in Contenders \ {x} : copy'[c] = copy[c]
    BY <1>4, <2>1
  <2> QED
    BY <1>2, <1>4, <1>5, <1>6, <1>7, <2>1, <2>2
       DEF UpToDate, Fresh, Holders, Elected, Locked
<1>12. CASE Save(x)
  <2>1. /\ writing' = [writing EXCEPT ![x] = copy[x]] /\ x \in Holders /\ x \in unsaved
        /\ phase' = phase /\ unsaved' = unsaved \ {x}
        /\ UNCHANGED <<disk, early, copy, late>>
    BY <1>12 DEF Save, election
  <2>2. /\ writing'[x] = copy[x]
        /\ \A c \in Contenders \ {x} : writing'[c] = writing[c]
    BY <1>4, <2>1
  <2> QED
    BY <1>2, <1>4, <1>5, <1>6, <1>7, <2>1, <2>2
       DEF UpToDate, Fresh, Holders, Elected, Locked
<1>13. CASE Put(x)
  <2>1. /\ writing[x] # None /\ disk' = writing[x] /\ writing' = [writing EXCEPT ![x] = None]
        /\ late' = IF x \in Holders THEN late ELSE late \cup (writing[x] \ disk)
        /\ x \in Holders \ early => phase' = [phase EXCEPT ![x] = "released"]
        /\ UNCHANGED <<unsaved, copy, early>>
    BY <1>13 DEF Put
  <2>2. /\ writing'[x] = None
        /\ \A c \in Contenders \ {x} : writing'[c] = writing[c]
    BY <1>4, <2>1
  <2>3. ASSUME NEW c \in Contenders \ early, Exclusive, c \in Holders'
        PROVE  x \notin Holders
    <3> SUFFICES ASSUME x \in Holders
                 PROVE  FALSE
      OBVIOUS
    <3>1. CASE c = x
      <4>1. phase'[x] = "released"
        BY <1>1, <2>1, <2>3, <3>1 DEF ElectionTypes
      <4> QED
        BY <2>3, <3>1, <4>1 DEF Holders, Elected, Locked
    <3>2. CASE c # x
      <4>1. c \in Holders
        BY <1>2, <2>3, <3>2 DEF Holders, Elected, Locked
      <4> QED
        BY <1>1, <2>3, <3>2, <4>1, OneAtATime
    <3> QED
      BY <3>1, <3>2
  <2>4. ASSUME NEW c \in Contenders \ early, Exclusive, c \in Holders'
        PROVE  Fresh(c)'
    <3>1. late' = late \cup (writing[x] \ disk)
      BY <2>1, <2>3, <2>4
    <3>2. disk' \ late' \subseteq disk \ late
      BY <2>1, <3>1
    <3>3. writing'[c] = None \/ writing'[c] = writing[c]
      BY <2>2
    <3> QED
      BY <1>6, <2>1, <2>4, <3>2, <3>3 DEF Fresh
  <2>5. \A c \in Contenders : c \notin early /\ phase[c] \notin EverHeld =>
          copy'[c] = None /\ writing'[c] = None
    BY <1>4, <2>1, <2>2
  <2> QED
    BY <1>2, <1>4, <1>5, <2>1, <2>4, <2>5 DEF UpToDate, Fresh, Holders, Elected, Locked
<1> QED
  BY <1>8, <1>9, <1>10, <1>11, <1>12, <1>13
     DEF Request, Contest, Decide, Hear, Beat, Age, Break, Release, document

\* A change of the catalog, which reads the document under its claim, overwrites only
\* what was put by a tab whose claim had ended (assertCatalogClaim), for every number of
\* tabs and edits, while the claims exclude each other: timers are punctual, no claim
\* is a lease old, the channels work, and the lock fails nobody.
THEOREM CatalogSafe == Spec => CatalogKeepsEdits
<1> DEFINE Kept == \A c \in Holders \ early :
                     /\ world.punctual /\ aged = {} /\ mute = {} /\ world.scope # "mixed"
                     /\ Put(c)
                     => disk \ disk' \subseteq late
<1>1. Init => Timely /\ UpToDate
  <2>1. ASSUME Init
        PROVE  UpToDate
    BY <2>1 DEF Init, UpToDate, Holders, Elected, Locked
  <2> QED
    BY <2>1, InitTimely
<1>2. TypeInv /\ Timely /\ UpToDate /\ [Next]_vars => Timely' /\ UpToDate'
  <2> SUFFICES ASSUME TypeInv, Timely, UpToDate, [Next]_vars
               PROVE  Timely' /\ UpToDate'
    OBVIOUS
  <2>1. CASE Next
    <3>1. PICK x \in Contenders :
            \/ Open(x) \/ Request(x) \/ Contest(x) \/ Decide(x) \/ Hear(x) \/ Beat(x)
            \/ Age(x) \/ Break(x) \/ Release(x) \/ ReadClaimed(x) \/ Edit(x) \/ Save(x) \/ Put(x)
      BY <2>1 DEF Next
    <3>2. ElectionStep(x)
      BY <3>1, TypesStep
    <3> QED
      BY <3>1, <3>2, TimelyStep, UpToDateStep DEF TypeInv
  <2>2. CASE UNCHANGED vars
    BY <2>2, TimelyStays
       DEF UpToDate, Exclusive, Holders, Elected, Locked, vars, election, document
  <2> QED
    BY <2>1, <2>2
<1>3. UpToDate /\ [Next]_vars => [Kept]_vars
  <2>1. ASSUME UpToDate, NEW c \in Holders \ early, Exclusive, Put(c)
        PROVE  disk \ disk' \subseteq late
    <3>1. disk' = writing[c] /\ writing[c] # None
      BY <2>1 DEF Put
    <3> QED
      BY <2>1, <3>1 DEF UpToDate
  <2> QED
    BY <2>1 DEF Exclusive
<1> QED
  BY <1>1, <1>2, <1>3, Types, PTL DEF Spec, CatalogKeepsEdits

=============================================================================
