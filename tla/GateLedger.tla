----------------------------- MODULE GateLedger -----------------------------
(***************************************************************************)
(* What the session gate promises, without keys, clocks or requests.       *)
(*                                                                         *)
(* A session opens once and is over once.  A ticket is issued to one       *)
(* session, is redeemed at most once, and pays at most one account; the    *)
(* account it pays is none that its session, still open, had been paid     *)
(* when the ticket was redeemed.  An account a session has reported on is  *)
(* locked until the session is over.  Sessions and tickets may lapse at    *)
(* any moment, several together.                                           *)
(*                                                                         *)
(* RevealGate implements this module: see RevealGateRefinement.            *)
(***************************************************************************)

CONSTANTS
  Sessions,
  Tickets,
  Accounts,
  None       \* the owner of a ticket that was never issued

VARIABLES
  session,   \* session -> "new", "open" or "over"
  phase,     \* ticket -> "unissued", "issued", "redeemed" or "spent"
  owner,     \* ticket -> the session it was issued to
  known,     \* redeemed ticket -> accounts its owner had been paid by then
  paid,      \* ticket -> the accounts it paid
  locked     \* <<session, account>>: what open sessions have reported on

vars == <<session, phase, owner, known, paid, locked>>

Init ==
  /\ session = [s \in Sessions |-> "new"]
  /\ phase = [t \in Tickets |-> "unissued"]
  /\ owner = [t \in Tickets |-> None]
  /\ known = [t \in Tickets |-> {}]
  /\ paid = [t \in Tickets |-> {}]
  /\ locked = {}

\* The accounts session s has been paid by all its tickets.
PaidTo(s) == UNION {paid[t] : t \in {u \in Tickets : owner[u] = s}}

Open(s) ==
  /\ session[s] = "new"
  /\ session' = [session EXCEPT ![s] = "open"]
  /\ UNCHANGED <<phase, owner, known, paid, locked>>

\* A ticket may still be issued to a session that has just lapsed.
Issue(t, s) ==
  /\ phase[t] = "unissued"
  /\ session[s] # "new"
  /\ phase' = [phase EXCEPT ![t] = "issued"]
  /\ owner' = [owner EXCEPT ![t] = s]
  /\ UNCHANGED <<session, known, paid, locked>>

Redeem(t) ==
  /\ phase[t] = "issued"
  /\ phase' = [phase EXCEPT ![t] = "redeemed"]
  /\ known' = [known EXCEPT ![t] = PaidTo(owner[t])]
  /\ UNCHANGED <<session, owner, paid, locked>>

Pay(t, a) ==
  /\ phase[t] = "redeemed"
  /\ session[owner[t]] = "open" => a \notin known[t]
  /\ phase' = [phase EXCEPT ![t] = "spent"]
  /\ known' = [known EXCEPT ![t] = {}]
  /\ paid' = [paid EXCEPT ![t] = {a}]
  /\ UNCHANGED <<session, owner, locked>>

Report(s, a) ==
  /\ session[s] = "open"
  /\ <<s, a>> \notin locked
  /\ locked' = locked \cup {<<s, a>>}
  /\ UNCHANGED <<session, phase, owner, known, paid>>

\* Sessions that are over and tickets that nothing will come of any more.
Lapse(ss, ts) ==
  /\ ts \subseteq {t \in Tickets : phase[t] \in {"issued", "redeemed"}}
  /\ session' = [s \in Sessions |-> IF s \in ss THEN "over" ELSE session[s]]
  /\ phase' = [t \in Tickets |-> IF t \in ts THEN "spent" ELSE phase[t]]
  /\ known' = [t \in Tickets |-> IF t \in ts THEN {} ELSE known[t]]
  /\ locked' = {p \in locked : p[1] \notin ss}
  /\ UNCHANGED <<owner, paid>>

Next ==
  \/ \E s \in Sessions : Open(s)
  \/ \E t \in Tickets, s \in Sessions : Issue(t, s)
  \/ \E t \in Tickets : Redeem(t)
  \/ \E t \in Tickets, a \in Accounts : Pay(t, a)
  \/ \E s \in Sessions, a \in Accounts : Report(s, a)
  \/ \E ss \in SUBSET Sessions, ts \in SUBSET Tickets : Lapse(ss, ts)

Spec == Init /\ [][Next]_vars
=============================================================================
