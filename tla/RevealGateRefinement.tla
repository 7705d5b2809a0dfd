------------------------ MODULE RevealGateRefinement ------------------------
(***************************************************************************)
(* RevealGate implements GateLedger: what each of its states means there.  *)
(***************************************************************************)
EXTENDS RevealGateInvariant

\* A request has drawn session s and not stored it yet.
Opening(s) == \E w \in Workers : req[w].pc \in OpeningPCs /\ req[w].ses = s

SessionPhase(s) ==
  IF s \notin drawn \/ Opening(s) THEN "new"
  ELSE IF Alive(sess[s])          THEN "open"
  ELSE                                 "over"

\* The reveals that took ticket t and have not answered.
Payers(t) == {w \in Workers : req[w].pc \in PaidPCs /\ req[w].tkt = t}

TicketPhase(t) ==
  IF ticket[t].ses = None          THEN "unissued"
  ELSE IF Alive(ticket[t].exp)     THEN "issued"
  ELSE IF Payers(t) # {}           THEN "redeemed"
  ELSE                                  "spent"

\* What the owner of ticket t had been given when it was taken.
KnownAt(t) == UNION {req[w].past : w \in Payers(t)}

SessionPhases == [s \in Sessions |-> SessionPhase(s)]
TicketPhases == [t \in Tickets |-> TicketPhase(t)]
Owners == [t \in Tickets |-> ticket[t].ses]
Known == [t \in Tickets |-> KnownAt(t)]
Paid == [t \in Tickets |-> {d.acc : d \in {e \in delivered : e.tkt = t}}]
Locked == {p \in claimed : SessionPhase(p[1]) = "open" /\ Alive(once[p[1]][p[2]])}

Ledger == INSTANCE GateLedger WITH
  session <- SessionPhases, phase <- TicketPhases, owner <- Owners,
  known <- Known, paid <- Paid, locked <- Locked

\* What the mapping rests on beside IInv: a token that was not drawn, or is yet to be
\* stored by the request that drew it, has left nothing in Redis.
Unstored ==
  /\ \A s \in Sessions \ drawn : sess[s] = Absent
  /\ \A t \in Tickets \ drawn : ticket[t].ses = None
  /\ \A w \in Workers : req[w].pc \in OpeningPCs => sess[req[w].ses] = Absent
  /\ \A w \in Workers : req[w].pc = "t_store" => ticket[req[w].tkt].ses = None

\* Whatever the requests, crashes and restarts, the gate keeps the ledger: a step of
\* app/api.py over Redis is one of its steps or leaves it as it is.
KeepsLedger == Ledger!Spec
=============================================================================
