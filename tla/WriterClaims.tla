----------------------------- MODULE WriterClaims -----------------------------
(***************************************************************************)
(* How browser tabs agree on the one that may write: the tab that scores a *)
(* game (TabClaim.ts) and the tab that edits a tournament                  *)
(* (DirectorWriterClaim.ts).  Both prefer a browser lock and elect by      *)
(* broadcast messages and timeouts where there is none; a Director's tab   *)
(* does so too, alone, when its request of the lock fails.                 *)
(*                                                                         *)
(* A contender is one claim, made under a fresh id, and the order of the   *)
(* ids decides elections; a tab that is reloaded is another contender.     *)
(* A Director's tab loads the tournament and then claims it; a change of   *)
(* the catalog claims first and then reads (updateCatalogTournamentStatus).*)
(***************************************************************************)
EXTENDS Integers, Sequences, FiniteSets

CONSTANTS
  Contenders,  \* the ids claims are made with
  Scopes,      \* what may be contested: a "game" or a "document" by election, either
               \* by "lock", or a document by a lock that fails some: "mixed"
  Punctual,    \* whether every message is read before a timer fires: a set of Booleans
  Faults,      \* what may go wrong
  MaxEdits,    \* bound: edits of the tournament
  None

AllFaults == {"claim ages", "channel breaks", "tab closes"}

ASSUME ClaimsAssumption ==
  /\ Contenders \subseteq Nat
  /\ Scopes \subseteq {"game", "document", "lock", "mixed"}
  /\ Punctual \subseteq BOOLEAN
  /\ Faults \subseteq AllFaults
  /\ MaxEdits \in Nat

VARIABLES
  world,     \* what is contested, and whether every message is read before a timer fires
  phase,     \* where each claim is
  outvoted,  \* electing contenders that heard of a holder or of a lower id
  aged,      \* holders whose claim was issued a lease ago
  mute,      \* contenders whose channel refuses what they post
  inbox,     \* messages posted to each contender and not yet read
  edits,     \* how many edits were made
  copy,      \* the edits in each contender's document, or None before it is read
  early,     \* contenders that read the document before they claimed it
  unsaved,   \* contenders with an edit to save
  writing,   \* what each contender is about to put, checked already, or None
  disk,      \* the edits in the stored document
  late       \* the edits that were put by a contender whose claim had ended

election == <<phase, outvoted, aged, mute, inbox>>
document == <<edits, copy, early, unsaved, writing, disk, late>>
vars == <<world, election, document>>

\* A tab that is not kept from running reads what it was sent before its timers
\* fire.
InTime == world.punctual => \A d \in Contenders : inbox[d] = <<>>

Elected == {c \in Contenders : phase[c] = "holding"}
Locked == {c \in Contenders : phase[c] = "locked"}
Holders == Elected \cup Locked
Listening == {c \in Contenders : phase[c] \in {"electing", "holding"}}

Init ==
  /\ world \in [scope : Scopes, punctual : Punctual]
  /\ phase = [c \in Contenders |-> "idle"]
  /\ outvoted = {} /\ aged = {} /\ mute = {}
  /\ inbox = [c \in Contenders |-> <<>>]
  /\ edits = 0 /\ copy = [c \in Contenders |-> None] /\ early = {}
  /\ unsaved = {} /\ writing = [c \in Contenders |-> None]
  /\ disk = {} /\ late = {}

-----------------------------------------------------------------------------
(* Messages.  "probe" is the Director's probe and the scorer's who-holds,  *)
(* "holding" the Director's heartbeat.                                     *)

Lease == world.scope # "game"
Read(c) == [inbox EXCEPT ![c] = Tail(@)]

\* What c posts reaches every other tab that listens.
Posted(queues, c, kinds) ==
  [d \in Contenders |->
     IF d = c \/ d \notin Listening THEN queues[d]
     ELSE queues[d] \o [i \in DOMAIN kinds |-> [kind |-> kinds[i], from |-> c]]]

\* Slip: the listener stays when the channel is given up.
ClosedListening(queues, c) == queues

Closed(queues, c) == [queues EXCEPT ![c] = <<>>]

\* What an electing contender learns.  A Director's holder whose claim is a
\* lease old is a candidate like any other.
Outvotes(m, c) ==
  \/ m.kind # "probe" /\ m.from < c
  \/ (m.kind = "holding" \/ (m.kind = "claim" /\ Lease)) /\ m.from \notin aged

\* Slip: a holder yields to any rival.
DisplacesAnyone(m, c) == m.kind \in {"claim", "holding"}

\* Slip: a holder yields only when its claim is a lease old.
DisplacesAged(m, c) == m.kind \in {"claim", "holding"} /\ Lease /\ c \in aged

\* What makes a holder yield.
Displaces(m, c) ==
  /\ m.kind \in {"claim", "holding"}
  /\ m.from < c \/ (Lease /\ c \in aged)

\* Slip: a holder answers its rivals only, not those who ask.
AnswersRivals(m) == m.kind \in {"claim", "holding"}

\* What a holder answers; a scorer's does not answer a mere candidate.
Answers(m) == Lease \/ m.kind # "candidate"

-----------------------------------------------------------------------------
(* A claim.                                                                *)

\* A Director's tab shows the stored tournament, and then claims it.
Open(c) ==
  /\ world.scope # "game" /\ phase[c] = "idle"
  /\ phase' = [phase EXCEPT ![c] = "opened"]
  /\ copy' = [copy EXCEPT ![c] = disk] /\ early' = early \cup {c}
  /\ UNCHANGED <<world, outvoted, aged, mute, inbox, edits, unsaved, writing, disk, late>>

\* Slip: the callback does not look whether it was given the lock.
RequestUnchecked(c) ==
  /\ world.scope \in {"lock", "mixed"} /\ phase[c] \in {"idle", "opened"}
  /\ phase' = [phase EXCEPT ![c] = "locked"]
  /\ UNCHANGED <<world, outvoted, aged, mute, inbox, document>>

\* navigator.locks, ifAvailable: granted or refused at once.
Request(c) ==
  /\ world.scope \in {"lock", "mixed"} /\ phase[c] \in {"idle", "opened"}
  /\ phase' = [phase EXCEPT ![c] = IF Locked = {} THEN "locked" ELSE "refused"]
  /\ UNCHANGED <<world, outvoted, aged, mute, inbox, document>>

\* There are no locks, or the request of this one throws or is rejected.
Contest(c) ==
  /\ world.scope # "lock" /\ phase[c] \in {"idle", "opened"}
  /\ phase' = [phase EXCEPT ![c] = "electing"]
  /\ inbox' = Posted(inbox, c, <<"probe", "candidate">>)
  /\ UNCHANGED <<world, outvoted, aged, mute, document>>

\* The response timeout.  A Director's tab that cannot post gives up.
Decide(c) ==
  /\ phase[c] = "electing" /\ InTime
  /\ LET wins == c \notin outvoted /\ (Lease => c \notin mute)
     IN /\ phase' = [phase EXCEPT ![c] = IF wins THEN "holding" ELSE "refused"]
        /\ inbox' = IF ~wins THEN Closed(inbox, c)
                    ELSE IF c \in mute THEN inbox ELSE Posted(inbox, c, <<"claim", "holding">>)
  /\ UNCHANGED <<world, outvoted, aged, mute, document>>

\* Slip: a holder that cannot post goes on.
SayHoldingRegardless(c, queues) ==
  /\ inbox' = IF c \in mute THEN queues ELSE Posted(queues, c, <<"holding">>)
  /\ UNCHANGED phase

\* A Director's holder that cannot be heard yields; a scorer's goes on.
SayHolding(c, queues) ==
  IF Lease /\ c \in mute
  THEN phase' = [phase EXCEPT ![c] = "lost"] /\ inbox' = Closed(queues, c)
  ELSE /\ inbox' = IF c \in mute THEN queues ELSE Posted(queues, c, <<"holding">>)
       /\ UNCHANGED phase

Hear(c) ==
  /\ c \in Listening /\ inbox[c] # <<>>
  /\ LET m == Head(inbox[c])
     IN IF phase[c] = "electing"
        THEN /\ outvoted' = IF Outvotes(m, c) THEN outvoted \cup {c} ELSE outvoted
             /\ inbox' = Read(c) /\ UNCHANGED phase
        ELSE /\ CASE Displaces(m, c) -> /\ phase' = [phase EXCEPT ![c] = "lost"]
                                        /\ inbox' = Closed(inbox, c)
                  [] ~Displaces(m, c) /\ Answers(m) -> SayHolding(c, Read(c))
                  [] OTHER -> inbox' = Read(c) /\ UNCHANGED phase
             /\ UNCHANGED outvoted
  /\ UNCHANGED <<world, aged, mute, document>>

\* Bound: a holder that has read everything has one heartbeat under way.
Beat(c) ==
  /\ phase[c] = "holding" /\ InTime
  /\ inbox[c] = <<>> /\ \A d \in Contenders : \A i \in DOMAIN inbox[d] : inbox[d][i].from # c
  /\ SayHolding(c, inbox)
  /\ UNCHANGED <<world, outvoted, aged, mute, document>>

Age(c) ==
  /\ "claim ages" \in Faults /\ Lease /\ c \in Elected \ aged /\ InTime
  /\ aged' = aged \cup {c}
  /\ UNCHANGED <<world, phase, outvoted, mute, inbox, document>>

Break(c) ==
  /\ "channel breaks" \in Faults /\ c \in Listening \ mute
  /\ mute' = mute \cup {c}
  /\ UNCHANGED <<world, phase, outvoted, aged, inbox, document>>

\* release, an aborted election, or a tab that is gone.  A write under way may go on.
Release(c) ==
  /\ "tab closes" \in Faults /\ c \in Listening \cup Locked
  /\ phase' = [phase EXCEPT ![c] = "released"] /\ inbox' = Closed(inbox, c)
  /\ UNCHANGED <<world, outvoted, aged, mute, document>>

-----------------------------------------------------------------------------
(* The document of the Director.                                           *)

\* A change of the catalog reads the document under its claim.
ReadClaimed(c) ==
  /\ world.scope # "game" /\ c \in Holders /\ copy[c] = None
  /\ copy' = [copy EXCEPT ![c] = disk]
  /\ UNCHANGED <<world, election, edits, early, unsaved, writing, disk, late>>

\* A change of the catalog is one edit.
Edit(c) ==
  /\ c \in Holders /\ copy[c] # None /\ edits < MaxEdits
  /\ c \in early \/ (c \notin unsaved /\ writing[c] = None)
  /\ edits' = edits + 1 /\ copy' = [copy EXCEPT ![c] = @ \cup {edits'}]
  /\ unsaved' = unsaved \cup {c}
  /\ UNCHANGED <<world, election, early, writing, disk, late>>

\* assertWriteAuthority or assertCatalogClaim, in the queue of a tab's writes.
Save(c) ==
  /\ c \in Holders \cap unsaved /\ writing[c] = None
  /\ writing' = [writing EXCEPT ![c] = copy[c]] /\ unsaved' = unsaved \ {c}
  /\ UNCHANGED <<world, election, edits, copy, early, disk, late>>

\* The put, which comes some awaits later and compares nothing.  A change of the
\* catalog then releases its claim.
Put(c) ==
  /\ writing[c] # None
  /\ disk' = writing[c] /\ writing' = [writing EXCEPT ![c] = None]
  /\ late' = IF c \in Holders THEN late ELSE late \cup (writing[c] \ disk)
  /\ IF c \in Holders \ early
     THEN phase' = [phase EXCEPT ![c] = "released"] /\ inbox' = Closed(inbox, c)
     ELSE UNCHANGED <<phase, inbox>>
  /\ UNCHANGED <<world, outvoted, aged, mute, edits, copy, early, unsaved>>

Next ==
  \E c \in Contenders :
    \/ Open(c) \/ Request(c) \/ Contest(c) \/ Decide(c) \/ Hear(c) \/ Beat(c)
    \/ Age(c) \/ Break(c) \/ Release(c)
    \/ ReadClaimed(c) \/ Edit(c) \/ Save(c) \/ Put(c)

Spec == Init /\ [][Next]_vars

\* A tab reads its messages.
Fairness == \A c \in Contenders : WF_vars(Hear(c))

FairSpec == Spec /\ Fairness

-----------------------------------------------------------------------------
(* Properties.                                                             *)

TypeOK ==
  /\ world \in [scope : Scopes, punctual : BOOLEAN]
  /\ phase \in [Contenders ->
       {"idle", "opened", "electing", "holding", "locked", "refused", "lost", "released"}]
  /\ {outvoted, aged, mute, early, unsaved} \subseteq SUBSET Contenders
  /\ late \subseteq 1..edits
  /\ \A c \in Contenders :
       /\ \A i \in DOMAIN inbox[c] :
            inbox[c][i] \in [kind : {"probe", "candidate", "claim", "holding"}, from : Contenders]
       /\ \A held \in {copy[c], writing[c]} : held = None \/ held \subseteq 1..edits
       /\ c \notin Listening => inbox[c] = <<>>

Settled == \A c \in Contenders : inbox[c] = <<>>

\* However late timers and messages are, once every message is read there is one
\* writer: "Two tabs that crossed the election boundary still converge on one
\* deterministic winner" (TabClaim.ts:178).  Only a scorer's tab that cannot be
\* heard is not found out.  A lock has one holder too, but a tab that was elected
\* because the lock failed it and the one that has the lock do not know of each
\* other (OneWriter).
OneHolderWhenSettled ==
  Settled => /\ Cardinality(IF Lease THEN Elected ELSE Elected \ mute) <= 1
             /\ Cardinality(Locked) <= 1

\* "Web Locks is authoritative when it exists" (DirectorWriterClaim.ts:5): one
\* tab writes, however it came to its claim.
OneWriter == Settled /\ mute = {} => Cardinality(Holders) <= 1

\* Standing down is never mutual: if contenders contested and none of them went
\* away, one of them writes.
SomeoneHolds ==
  /\ Settled /\ mute = {} /\ (aged = {} \/ world.punctual)
  /\ \A c \in Contenders : phase[c] \notin {"electing", "released"}
  /\ \E c \in Contenders : phase[c] \in {"refused", "lost"}
  => Holders # {}

\* A holder that answers in time keeps its claim while the claim is young.
HolderKept ==
  [][\A c \in Contenders :
       world.punctual /\ phase[c] = "holding" /\ c \notin aged \cup mute
       => phase'[c] # "lost"]_vars

\* "a live holder keeps ownership when a lower-id contender probes it"
\* (DirectorWriterClaim.test.ts:107), however long it has been the holder.
LiveHolderKept ==
  [][\A c \in Contenders :
       world.punctual /\ phase[c] = "holding" /\ c \notin mute => phase'[c] # "lost"]_vars

\* Two writers at a time are found out, without anything new happening.
TwoHoldersEnd ==
  \A c, d \in Contenders :
    c < d /\ {c, d} \subseteq Elected \ mute ~> ~({c, d} \subseteq Elected \ mute)

\* A change of the catalog, which reads under its claim, overwrites only what was
\* put by a tab whose claim had ended (assertCatalogClaim), or after its own has.
\* This is so while the claims exclude each other: timers are punctual, no claim
\* is a lease old, the channels work, and the lock fails nobody.
CatalogKeepsEdits ==
  [][\A c \in Holders \ early :
       /\ world.punctual /\ aged = {} /\ mute = {} /\ world.scope # "mixed"
       /\ Put(c)
       => disk \ disk' \subseteq late]_vars

\* The same however old the claims are: "Another Director tab took the write lock
\* before this catalog change was saved" (useDirectorController.ts:1849).
CatalogAlwaysKeepsEdits ==
  [][\A c \in Holders \ early :
       /\ world.punctual /\ mute = {} /\ world.scope # "mixed"
       /\ Put(c)
       => disk \ disk' \subseteq late]_vars

\* No save of a tab that holds its claim overwrites what another saved under its
\* own, the tab that opened the document before it claimed it included.
SavedEditsStay == [][\A c \in Holders : Put(c) => disk \ disk' \subseteq late]_vars
=============================================================================
