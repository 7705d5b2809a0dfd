------------------------- MODULE RevealGateInvariant -------------------------
(***************************************************************************)
(* The inductive invariant of RevealGate.  None of the promises of that    *)
(* module is inductive as stated: each rests on who may hold a token, on   *)
(* how long a key lives compared with its session, and on what a request   *)
(* in flight has already read.                                             *)
(***************************************************************************)
EXTENDS RevealGate

OpeningPCs == {"v_store", "t_open"}
ScanPCs    == {"r_scan", "r_quality", "r_mark", "r_expire"}
PaidPCs    == ScanPCs \cup {"r_pool"}
RevealPCs  == PaidPCs \cup {"r_consume"}
ReportPCs  == {"f_shown", "f_claim", "f_record"}

\* What the fields of a request hold at each of its steps; tokens are the ones drawn.
WellShaped(r, tokens) ==
  /\ r.pc # "idle" => r.ses \in Sessions \cap tokens
  /\ r.pc \in RevealPCs \cup {"t_store"} => r.tkt \in Tickets \cap tokens
  /\ r.pc \in {"r_quality", "r_mark", "r_expire"} \cup ReportPCs => r.acc \in Accounts
  /\ r.pc \in ReportPCs => r.verdict \in Verdicts
  /\ r.pc \notin ScanPCs => r.found = {}

RequestShape == \A w \in Workers : WellShaped(req[w], drawn)

\* A session being opened is nobody else's, and no client holds it yet; a client
\* holds every session that reveals or reports.
SessionCustody ==
  /\ \A w \in Workers : req[w].pc \in OpeningPCs =>
       /\ req[w].ses \notin held
       /\ \A v \in Workers \ {w} : req[v].pc # "idle" => req[v].ses # req[w].ses
  /\ \A w \in Workers : req[w].pc \in RevealPCs \cup ReportPCs => req[w].ses \in held
  /\ \A d \in delivered : d.ses \in held
  /\ \A p \in claimed : p[1] \in held
  /\ \A s \in Sessions : shown[s].exp # Absent => s \in held

\* A ticket being stored is nobody else's; a ticket that has paid is gone from Redis
\* for good, and belongs to one request or to one delivery.
TicketCustody ==
  /\ \A w \in Workers : req[w].pc = "t_store" =>
       /\ req[w].tkt \notin held
       /\ \A v \in Workers \ {w} : req[v].pc = "t_store" => req[v].tkt # req[w].tkt
  /\ \A w \in Workers : req[w].pc \in RevealPCs => req[w].tkt \in held
  /\ \A w \in Workers : req[w].pc \in PaidPCs =>
       /\ ticket[req[w].tkt].exp = Absent
       /\ ticket[req[w].tkt].ses = req[w].ses
       /\ \A v \in Workers \ {w} : req[v].pc \in PaidPCs => req[v].tkt # req[w].tkt
       /\ \A d \in delivered : d.tkt # req[w].tkt
  /\ \A d \in delivered : /\ d.tkt \in held
                          /\ ticket[d.tkt].exp = Absent
                          /\ ticket[d.tkt].ses = d.ses
  /\ \A d, e \in delivered : d.tkt = e.tkt => d = e

\* The session-shown key of s does not die before the session.
Durable(s) == shown[s].exp = NoExpiry \/ sess[s] <= shown[s].exp

\* Redis knows, for the rest of the session's life, that s was shown a.
Remembers(s, a) == Alive(sess[s]) => a \in shown[s].members /\ Durable(s)

\* No session lives longer than its TTL from now on, and none outlives the
\* session-shown key it has.
SessionLives ==
  /\ \A s \in Sessions : sess[s] <= now + SessionTTL
  /\ \A s \in Sessions : shown[s].exp # Absent /\ Alive(sess[s]) => Durable(s)

\* Redis remembers what was delivered, what is about to be, and what was reported on.
DeliveriesKept == \A d \in delivered : Remembers(d.ses, d.acc)

RequestsKept ==
  \A w \in Workers : req[w].pc \in {"r_expire", "f_claim", "f_record"} =>
    Remembers(req[w].ses, req[w].acc)

ClaimsKept ==
  \A p \in claimed : /\ Remembers(p[1], p[2])
                     /\ Alive(sess[p[1]]) => sess[p[1]] <= once[p[1]][p[2]]

KeyLives == SessionLives /\ DeliveriesKept /\ RequestsKept /\ ClaimsKept

\* What request r has established about the accounts its scan went through.
ScanFact(r) ==
  /\ r.pc \in RevealPCs => \A a \in r.past : Remembers(r.ses, a)
  /\ r.pc \in ScanPCs /\ Alive(sess[r.ses]) => \A c \in r.found : c.acc \notin r.past
  /\ r.pc \in {"r_quality", "r_mark", "r_expire"} /\ Alive(sess[r.ses])
       => r.acc \notin r.past
  /\ r.pc \in {"r_scan", "r_quality"} => \A a \in r.pool :
       \/ a \in r.todo
       \/ \E c \in r.found : c.acc = a
       \/ r.pc = "r_quality" /\ r.acc = a
       \/ Remembers(r.ses, a)

ScanFacts == \A w \in Workers : ScanFact(req[w])

\* A scan keeps one candidate per account, and the choice is one of the best.
Ordered(r) ==
  /\ \A c, d \in r.found : c.acc = d.acc => c = d
  /\ r.pc \in {"r_scan", "r_quality"} => \A c \in r.found : c.acc \notin r.todo
  /\ r.pc = "r_quality" => r.acc \notin r.todo /\ \A c \in r.found : c.acc # r.acc
  /\ r.pc \in {"r_mark", "r_expire"} =>
       \E c \in BestOf(r.intent, r.found) : c.acc = r.acc

ScanOrder == \A w \in Workers : Ordered(req[w])

IInv ==
  /\ TypeOK
  /\ RequestShape
  /\ SessionCustody
  /\ TicketCustody
  /\ KeyLives
  /\ ScanFacts
  /\ ScanOrder
=============================================================================
