---------------------------- MODULE ResultLedger ----------------------------
(***************************************************************************)
(* What Director is promised about the retained results, whatever servers, *)
(* retries and restarts stand behind them (crates/qbtcp-server/src/state.rs*)
(* on QbtcpState::record_result: the durable deduplication and review      *)
(* disposition): results are only ever added, one at a time; a retry adds  *)
(* nothing; and of the results of a match at most one can be used without  *)
(* a person having looked at it.                                           *)
(***************************************************************************)
CONSTANTS Results,  \* records with the fields id, session, match, body, review
          NoMatch

VARIABLE ledger

\* The same document again, from its session or for its match.
Repeats(r, q) ==
  /\ r.match = q.match /\ r.body = q.body
  /\ r.match # NoMatch \/ r.session = q.session

\* The new result may be left unreviewed only if its match has no such result.
Retain(r) ==
  /\ \A q \in ledger : q.id # r.id /\ ~Repeats(r, q)
  /\ ~r.review => \A q \in ledger : q.match = r.match => q.review \/ r.match = NoMatch
  /\ ledger' = ledger \cup {r}

Init == ledger = {}
Next == \E r \in Results : Retain(r)
Spec == Init /\ [][Next]_ledger
=============================================================================
