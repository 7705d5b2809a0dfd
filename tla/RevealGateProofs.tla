-------------------------- MODULE RevealGateProofs --------------------------
(***************************************************************************)
(* Proofs of what RevealGate promises, for any sets of sessions, tickets,  *)
(* accounts and requests in flight, and any TTLs; then that it implements  *)
(* GateLedger: lemmas say which parts of the ledger a step leaves alone,   *)
(* and each action is shown to be a step of the ledger or to leave it.     *)
(***************************************************************************)
EXTENDS RevealGateRefinement, TLAPS

-----------------------------------------------------------------------------
(* Types *)

\* An idle worker is well shaped whatever was drawn.
LEMMA IdleShape == Idle \in Request /\ \A tokens : WellShaped(Idle, tokens)
BY DEF Idle, Request, PCs, Candidate, WellShaped, RevealPCs, PaidPCs, ScanPCs, ReportPCs

\* The program counters, one by one.
LEMMA PCsListed ==
  /\ "idle" \in PCs /\ "v_store" \in PCs /\ "t_open" \in PCs /\ "t_admit" \in PCs
  /\ "t_store" \in PCs /\ "r_consume" \in PCs /\ "r_pool" \in PCs /\ "r_scan" \in PCs
  /\ "r_quality" \in PCs /\ "r_mark" \in PCs /\ "r_expire" \in PCs
  /\ "f_shown" \in PCs /\ "f_claim" \in PCs /\ "f_record" \in PCs
BY DEF PCs

\* The initial state satisfies every part of the invariant.
LEMMA InitInvariant == Init => IInv
<1> SUFFICES ASSUME Init PROVE IInv
  OBVIOUS
<1> USE DEF Init
<1>1. TypeOK
  BY NoneAssumption DEF TypeOK, Idle, Request, PCs, NoTicket, NoShown, Absent, Candidate
<1>2. RequestShape
  BY IdleShape DEF RequestShape
<1>3. SessionCustody
  BY DEF SessionCustody, Idle, OpeningPCs, RevealPCs, PaidPCs, ScanPCs, ReportPCs, NoShown
<1>4. TicketCustody
  BY DEF TicketCustody, Idle, RevealPCs, PaidPCs, ScanPCs
<1>5. KeyLives
  BY TTLAssumption DEF KeyLives, SessionLives, DeliveriesKept, RequestsKept, ClaimsKept,
     Idle, Alive, Absent, NoExpiry, NoShown
<1>6. ScanFacts
  BY DEF ScanFacts, ScanFact, Idle, RevealPCs, PaidPCs, ScanPCs
<1>7. ScanOrder
  BY DEF ScanOrder, Ordered, Idle
<1>8. QED
  BY <1>1, <1>2, <1>3, <1>4, <1>5, <1>6, <1>7 DEF IInv

\* A function stays in its function set when one value is replaced by one of the range.
LEMMA OneReplaced ==
  ASSUME NEW S, NEW T, NEW f \in [S -> T], NEW y \in T, NEW x
  PROVE  [f EXCEPT ![x] = y] \in [S -> T]
OBVIOUS

\* Replacing one value of a table changes that value only.
LEMMA OneCellReplaced ==
  ASSUME NEW S, NEW T, NEW V, NEW f \in [S -> [T -> V]], NEW s \in S, NEW t \in T, NEW y,
         NEW g, g = [f EXCEPT ![s][t] = y]
  PROVE  g[s][t] = y /\ \A u \in S, v \in T : u # s \/ v # t => g[u][v] = f[u][v]
OBVIOUS

\* A request in flight has the type and the shape the invariant gives it.
LEMMA RequestFacts ==
  ASSUME TypeOK, RequestShape, NEW w \in Workers
  PROVE  req[w] \in Request /\ WellShaped(req[w], drawn)
BY DEF TypeOK, RequestShape

\* A worker that goes on with a well-shaped request keeps all requests well shaped.
LEMMA RequestUpdate ==
  ASSUME TypeOK, RequestShape, drawn \subseteq drawn',
         NEW w \in Workers, NEW r \in Request, Goto(w, r), WellShaped(r, drawn')
  PROVE  req' \in [Workers -> Request] /\ RequestShape'
BY DEF Goto, TypeOK, RequestShape, WellShaped

\* Every step keeps the types, and the shape of the requests that they rest on.
LEMMA TypeStep ==
  ASSUME TypeOK, RequestShape, [Next]_vars
  PROVE  TypeOK' /\ RequestShape'
<1>1. ASSUME NEW w \in Workers, StartVerify(w) PROVE TypeOK' /\ RequestShape'
  <2>1. req[w] \in Request /\ WellShaped(req[w], drawn)
    BY RequestFacts
  <2>2. PICK s \in Sessions \ drawn :
          Goto(w, [Idle EXCEPT !.pc = "v_store", !.ses = s]) /\ drawn' = drawn \cup {s}
    BY <1>1 DEF StartVerify
  <2>3. drawn \subseteq drawn' /\ drawn' \subseteq Sessions \cup Tickets /\ held' \subseteq drawn'
    BY <1>1, <2>2 DEF StartVerify, TypeOK
  <2> DEFINE r == [Idle EXCEPT !.pc = "v_store", !.ses = s]
  <2>4. r \in Request /\ WellShaped(r, drawn')
    <3>1. r \in Request
      BY <2>2, <2>3, IdleShape, PCsListed DEF Request
    <3>2. r.pc = "v_store" /\ r.ses = s /\ r.found = {}
      BY DEF Idle
    <3>3. s \in Sessions \cap drawn'
      BY <1>1, <2>2, <2>3
    <3> HIDE DEF r
    <3>4. QED
      BY <2>2, <2>3, <3>1, <3>2, <3>3 DEF WellShaped, RevealPCs, PaidPCs, ScanPCs, ReportPCs
  <2>5. Goto(w, r)
    BY <1>1, <2>2 DEF StartVerify
  <2> HIDE DEF r
  <2>6. req' \in [Workers -> Request] /\ RequestShape'
    BY <1>1, <2>4, <2>5, <2>3, RequestUpdate DEF StartVerify, history
  <2>7. QED
    BY <1>1, <2>6, <2>3 DEF StartVerify, TypeOK, redis, history
<1>2. ASSUME NEW w \in Workers, StoreVerified(w) PROVE TypeOK' /\ RequestShape'
  <2>1. req[w] \in Request /\ WellShaped(req[w], drawn)
    BY RequestFacts
  <2>2. req' \in [Workers -> Request] /\ RequestShape'
    BY <1>2, IdleShape, RequestUpdate DEF StoreVerified, history
  <2>3. req[w].ses \in Sessions \cap drawn
    BY <1>2, <2>1 DEF StoreVerified, WellShaped
  <2>4. SessionDeath \in Nat
    BY <1>2, TTLAssumption DEF SessionDeath, TypeOK
  <2>5. sess' \in [Sessions -> Nat]
    BY <1>2, <2>4 DEF StoreVerified, TypeOK
  <2>6. held' \subseteq drawn'
    BY <1>2, <2>3 DEF StoreVerified, TypeOK
  <2>7. QED
    BY <1>2, <2>2, <2>5, <2>6 DEF StoreVerified, TypeOK, redis, history
<1>3. ASSUME NEW w \in Workers, StartTicket(w) PROVE TypeOK' /\ RequestShape'
  <2>1. req[w] \in Request /\ WellShaped(req[w], drawn)
    BY RequestFacts
  <2>2. PICK s \in Sessions \cap held :
          Goto(w, [Idle EXCEPT !.pc = "t_admit", !.ses = s])
    BY <1>3 DEF StartTicket
  <2>3. held \subseteq drawn
    BY DEF TypeOK
  <2> DEFINE r == [Idle EXCEPT !.pc = "t_admit", !.ses = s]
  <2>4. r \in Request /\ WellShaped(r, drawn)
    <3>1. r \in Request
      BY <2>2, <2>3, IdleShape, PCsListed DEF Request
    <3>2. r.pc = "t_admit" /\ r.ses = s /\ r.found = {}
      BY DEF Idle
    <3>3. s \in Sessions \cap drawn
      BY <1>3, <2>2, <2>3
    <3> HIDE DEF r
    <3>4. QED
      BY <2>2, <2>3, <3>1, <3>2, <3>3 DEF WellShaped, RevealPCs, PaidPCs, ScanPCs, ReportPCs
  <2>5. Goto(w, r)
    BY <1>3, <2>2 DEF StartTicket
  <2> HIDE DEF r
  <2>6. req' \in [Workers -> Request] /\ RequestShape'
    BY <1>3, <2>4, <2>5, RequestUpdate DEF StartTicket, history
  <2>7. QED
    BY <1>3, <2>6 DEF StartTicket, TypeOK, redis, history
<1>4. ASSUME NEW w \in Workers, StartTicketWithoutCookie(w) PROVE TypeOK' /\ RequestShape'
  <2>1. req[w] \in Request /\ WellShaped(req[w], drawn)
    BY RequestFacts
  <2>2. PICK s \in Sessions \ drawn :
          Goto(w, [Idle EXCEPT !.pc = "t_open", !.ses = s]) /\ drawn' = drawn \cup {s}
    BY <1>4 DEF StartTicketWithoutCookie
  <2>3. drawn \subseteq drawn' /\ drawn' \subseteq Sessions \cup Tickets /\ held' \subseteq drawn'
    BY <1>4, <2>2 DEF StartTicketWithoutCookie, TypeOK
  <2> DEFINE r == [Idle EXCEPT !.pc = "t_open", !.ses = s]
  <2>4. r \in Request /\ WellShaped(r, drawn')
    <3>1. r \in Request
      BY <2>2, <2>3, IdleShape, PCsListed DEF Request
    <3>2. r.pc = "t_open" /\ r.ses = s /\ r.found = {}
      BY DEF Idle
    <3>3. s \in Sessions \cap drawn'
      BY <1>4, <2>2, <2>3
    <3> HIDE DEF r
    <3>4. QED
      BY <2>2, <2>3, <3>1, <3>2, <3>3 DEF WellShaped, RevealPCs, PaidPCs, ScanPCs, ReportPCs
  <2>5. Goto(w, r)
    BY <1>4, <2>2 DEF StartTicketWithoutCookie
  <2> HIDE DEF r
  <2>6. req' \in [Workers -> Request] /\ RequestShape'
    BY <1>4, <2>4, <2>5, <2>3, RequestUpdate DEF StartTicketWithoutCookie, history
  <2>7. QED
    BY <1>4, <2>6, <2>3 DEF StartTicketWithoutCookie, TypeOK, redis, history
<1>5. ASSUME NEW w \in Workers, OpenSession(w) PROVE TypeOK' /\ RequestShape'
  <2>1. req[w] \in Request /\ WellShaped(req[w], drawn)
    BY RequestFacts
  <2> DEFINE r == [req[w] EXCEPT !.pc = "t_admit"]
  <2>2. r \in Request /\ WellShaped(r, drawn)
    BY <1>5, <2>1, NoneAssumption, PCsListed DEF OpenSession, Request, Candidate, WellShaped, RevealPCs, PaidPCs, ScanPCs, ReportPCs
  <2>3. Goto(w, r)
    BY <1>5 DEF OpenSession
  <2> HIDE DEF r
  <2>4. req' \in [Workers -> Request] /\ RequestShape'
    BY <1>5, <2>2, <2>3, RequestUpdate DEF OpenSession, history
  <2>5. SessionDeath \in Nat
    BY <1>5, TTLAssumption DEF SessionDeath, TypeOK
  <2>6. sess' \in [Sessions -> Nat]
    BY <1>5, <2>5 DEF OpenSession, TypeOK
  <2>7. QED
    BY <1>5, <2>4, <2>6 DEF OpenSession, TypeOK, redis, history
<1>6. ASSUME NEW w \in Workers, AdmitTicket(w) PROVE TypeOK' /\ RequestShape'
  <2>1. req[w] \in Request /\ WellShaped(req[w], drawn)
    BY RequestFacts
  <2>2. PICK t \in Tickets \ drawn :
          Goto(w, [req[w] EXCEPT !.pc = "t_store", !.tkt = t, !.clk = now]) /\ drawn' = drawn \cup {t}
    BY <1>6 DEF AdmitTicket
  <2>3. drawn \subseteq drawn' /\ drawn' \subseteq Sessions \cup Tickets /\ held' \subseteq drawn'
    BY <1>6, <2>2 DEF AdmitTicket, TypeOK
  <2>4. now \in Nat
    BY DEF TypeOK
  <2> DEFINE r == [req[w] EXCEPT !.pc = "t_store", !.tkt = t, !.clk = now]
  <2>5. r \in Request /\ WellShaped(r, drawn')
    BY <1>6, <2>2, <2>1, <2>3, <2>4, NoneAssumption, PCsListed DEF AdmitTicket, Request, Candidate, WellShaped, RevealPCs, PaidPCs, ScanPCs, ReportPCs
  <2>6. Goto(w, r)
    BY <1>6, <2>2 DEF AdmitTicket
  <2> HIDE DEF r
  <2>7. req' \in [Workers -> Request] /\ RequestShape'
    BY <1>6, <2>5, <2>6, <2>3, RequestUpdate DEF AdmitTicket, history
  <2>8. QED
    BY <1>6, <2>7, <2>3 DEF AdmitTicket, TypeOK, redis, history
<1>7. ASSUME NEW w \in Workers, StoreTicket(w) PROVE TypeOK' /\ RequestShape'
  <2>1. req[w] \in Request /\ WellShaped(req[w], drawn)
    BY RequestFacts
  <2>2. req' \in [Workers -> Request] /\ RequestShape'
    BY <1>7, IdleShape, RequestUpdate DEF StoreTicket, history
  <2>3. req[w].clk \in Nat /\ req[w].ses \in Sessions \cap drawn
        /\ req[w].tkt \in Tickets \cap drawn
    BY <1>7, <2>1 DEF StoreTicket, WellShaped, Request
  <2>4. now + TicketTTL \in Nat
    BY <1>7, TTLAssumption DEF TypeOK
  <2>5. ticket' \in [Tickets -> [exp : Nat, ses : Sessions \cup {None}, clk : Nat]]
    <3>1. [exp |-> now + TicketTTL, ses |-> req[w].ses, clk |-> req[w].clk]
              \in [exp : Nat, ses : Sessions \cup {None}, clk : Nat]
      BY <2>3, <2>4
    <3>2. ticket' = [ticket EXCEPT ![req[w].tkt] =
                       [exp |-> now + TicketTTL, ses |-> req[w].ses, clk |-> req[w].clk]]
      BY <1>7 DEF StoreTicket
    <3>3. QED
      BY <3>1, <3>2, OneReplaced DEF TypeOK
  <2>6. held' \subseteq drawn'
    BY <1>7, <2>3 DEF StoreTicket, TypeOK
  <2>7. QED
    BY <1>7, <2>2, <2>5, <2>6 DEF StoreTicket, TypeOK, redis, history
<1>8. ASSUME NEW w \in Workers, StartReveal(w) PROVE TypeOK' /\ RequestShape'
  <2>1. req[w] \in Request /\ WellShaped(req[w], drawn)
    BY RequestFacts
  <2>2. PICK s \in Sessions \cap held, t \in Tickets \cap held, i \in Intents :
          Goto(w, [Idle EXCEPT !.pc = "r_consume", !.ses = s, !.tkt = t, !.clk = now,
                           !.intent = i])
    BY <1>8 DEF StartReveal
  <2>3. now \in Nat /\ held \subseteq drawn
    BY DEF TypeOK
  <2> DEFINE r == [Idle EXCEPT !.pc = "r_consume", !.ses = s, !.tkt = t, !.clk = now,
                           !.intent = i]
  <2>4. r \in Request /\ WellShaped(r, drawn)
    <3>1. r \in Request
      BY <2>2, <2>3, IdleShape, PCsListed DEF Request
    <3>2. r.pc = "r_consume" /\ r.ses = s /\ r.found = {} /\ r.tkt = t
      BY DEF Idle
    <3>3. s \in Sessions \cap drawn
      BY <1>8, <2>2, <2>3
    <3> HIDE DEF r
    <3>4. QED
      BY <2>2, <2>3, <3>1, <3>2, <3>3 DEF WellShaped, RevealPCs, PaidPCs, ScanPCs, ReportPCs
  <2>5. Goto(w, r)
    BY <1>8, <2>2 DEF StartReveal
  <2> HIDE DEF r
  <2>6. req' \in [Workers -> Request] /\ RequestShape'
    BY <1>8, <2>4, <2>5, RequestUpdate DEF StartReveal, history
  <2>7. QED
    BY <1>8, <2>6 DEF StartReveal, TypeOK, redis, history
<1>9. ASSUME NEW w \in Workers, ConsumeTicket(w) PROVE TypeOK' /\ RequestShape'
  <2>1. req[w] \in Request /\ WellShaped(req[w], drawn)
    BY RequestFacts
  <2> DEFINE r == [req[w] EXCEPT !.pc = "r_pool", !.past = DeliveredTo(req[w].ses)]
  <2>2. DeliveredTo(req[w].ses) \subseteq Accounts
    BY DEF TypeOK, DeliveredTo
  <2>3. r \in Request /\ WellShaped(r, drawn)
    BY <1>9, <2>1, <2>2, NoneAssumption, PCsListed DEF ConsumeTicket, Request, Candidate, WellShaped, RevealPCs, PaidPCs, ScanPCs, ReportPCs
  <2>4. Goto(w, r) \/ Goto(w, Idle)
    BY <1>9 DEF ConsumeTicket
  <2> HIDE DEF r
  <2>5. req' \in [Workers -> Request] /\ RequestShape'
    BY <1>9, <2>3, <2>4, IdleShape, RequestUpdate DEF ConsumeTicket, history
  <2>6. ticket' \in [Tickets -> [exp : Nat, ses : Sessions \cup {None}, clk : Nat]]
    <3>1. req[w].tkt \in Tickets
      BY <1>9, <2>1 DEF ConsumeTicket, WellShaped, RevealPCs
    <3>2. ticket[req[w].tkt] \in [exp : Nat, ses : Sessions \cup {None}, clk : Nat]
      BY <3>1 DEF TypeOK
    <3>3. TakeTicket(ticket[req[w].tkt]) \in [exp : Nat, ses : Sessions \cup {None}, clk : Nat]
      BY <3>2 DEF TakeTicket, Absent
    <3>4. ticket' = [ticket EXCEPT ![req[w].tkt] = TakeTicket(ticket[req[w].tkt])]
      BY <1>9 DEF ConsumeTicket
    <3>5. QED
      BY <3>3, <3>4, OneReplaced DEF TypeOK
  <2>7. QED
    BY <1>9, <2>5, <2>6 DEF ConsumeTicket, TypeOK, redis, history
<1>10. ASSUME NEW w \in Workers, ReadPool(w) PROVE TypeOK' /\ RequestShape'
  <2>1. req[w] \in Request /\ WellShaped(req[w], drawn)
    BY RequestFacts
  <2>2. PICK p \in SUBSET Accounts \ {{}} :
          Goto(w, [req[w] EXCEPT !.pc = "r_scan", !.pool = p, !.todo = p])
    BY <1>10 DEF ReadPool
  <2> DEFINE r == [req[w] EXCEPT !.pc = "r_scan", !.pool = p, !.todo = p]
  <2>3. r \in Request /\ WellShaped(r, drawn)
    BY <1>10, <2>2, <2>1, NoneAssumption, PCsListed DEF ReadPool, Request, Candidate, WellShaped, RevealPCs, PaidPCs, ScanPCs, ReportPCs
  <2>4. Goto(w, r)
    BY <1>10, <2>2 DEF ReadPool
  <2> HIDE DEF r
  <2>5. req' \in [Workers -> Request] /\ RequestShape'
    BY <1>10, <2>3, <2>4, RequestUpdate DEF ReadPool, history
  <2>6. QED
    BY <1>10, <2>5 DEF ReadPool, TypeOK, redis, history
<1>11. ASSUME NEW w \in Workers, ScanShown(w) PROVE TypeOK' /\ RequestShape'
  <2>1. req[w] \in Request /\ WellShaped(req[w], drawn)
    BY RequestFacts
  <2>2. PICK a \in req[w].todo :
          Goto(w, IF Seen(req[w].ses, a)
                  THEN [req[w] EXCEPT !.todo = @ \ {a}]
                  ELSE [req[w] EXCEPT !.pc = "r_quality", !.acc = a, !.todo = @ \ {a}])
    BY <1>11 DEF ScanShown
  <2> DEFINE r == IF Seen(req[w].ses, a)
                  THEN [req[w] EXCEPT !.todo = @ \ {a}]
                  ELSE [req[w] EXCEPT !.pc = "r_quality", !.acc = a, !.todo = @ \ {a}]
  <2>3. r \in Request /\ WellShaped(r, drawn)
    BY <1>11, <2>2, <2>1, NoneAssumption, PCsListed DEF ScanShown, Request, Candidate, WellShaped, RevealPCs, PaidPCs, ScanPCs, ReportPCs
  <2>4. Goto(w, r)
    BY <1>11, <2>2 DEF ScanShown
  <2> HIDE DEF r
  <2>5. req' \in [Workers -> Request] /\ RequestShape'
    BY <1>11, <2>3, <2>4, RequestUpdate DEF ScanShown, history
  <2>6. QED
    BY <1>11, <2>5 DEF ScanShown, TypeOK, redis, history
<1>12. ASSUME NEW w \in Workers, ScanQuality(w) PROVE TypeOK' /\ RequestShape'
  <2>1. req[w] \in Request /\ WellShaped(req[w], drawn)
    BY RequestFacts
  <2>2. req[w].acc \in Accounts /\ quality[req[w].acc] \in Verdicts \cup {Unrated}
    BY <1>12, <2>1 DEF ScanQuality, WellShaped, RevealPCs, PaidPCs, ScanPCs, ReportPCs, TypeOK
  <2> DEFINE new == req[w].found \cup {[acc |-> req[w].acc, quality |-> quality[req[w].acc]]}
             r   == [req[w] EXCEPT !.pc = "r_scan", !.acc = None, !.found = new]
  <2>3. new \subseteq Candidate
    BY <2>1, <2>2 DEF Request, Candidate
  <2>4. Goto(w, r)
    BY <1>12 DEF ScanQuality
  <2> HIDE DEF new
  <2>5. r \in Request /\ WellShaped(r, drawn)
    BY <1>12, <2>1, <2>3, PCsListed DEF ScanQuality, Request, WellShaped, RevealPCs, PaidPCs, ScanPCs, ReportPCs
  <2> HIDE DEF r
  <2>6. req' \in [Workers -> Request] /\ RequestShape'
    BY <1>12, <2>4, <2>5, RequestUpdate DEF ScanQuality, history
  <2>7. QED
    BY <1>12, <2>6 DEF ScanQuality, TypeOK, redis, history
<1>13. ASSUME NEW w \in Workers, Choose(w) PROVE TypeOK' /\ RequestShape'
  <2>1. req[w] \in Request /\ WellShaped(req[w], drawn)
    BY RequestFacts
  <2>2. ASSUME Goto(w, Idle) PROVE req' \in [Workers -> Request] /\ RequestShape'
    BY <1>13, <2>2, IdleShape, RequestUpdate DEF Choose, history
  <2>3. ASSUME NEW c \in BestOf(req[w].intent, req[w].found),
               Goto(w, [req[w] EXCEPT !.pc = "r_mark", !.acc = c.acc])
        PROVE  req' \in [Workers -> Request] /\ RequestShape'
    <3> DEFINE r == [req[w] EXCEPT !.pc = "r_mark", !.acc = c.acc]
    <3>1. c.acc \in Accounts
      BY <2>1 DEF BestOf, Request, Candidate
    <3>2. r \in Request /\ WellShaped(r, drawn)
      BY <1>13, <2>1, <3>1, PCsListed DEF Choose, Request, WellShaped, RevealPCs, PaidPCs, ScanPCs, ReportPCs
    <3> HIDE DEF r
    <3>3. QED
      BY <1>13, <2>3, <3>2, RequestUpdate DEF r, Choose, history
  <2>4. QED
    BY <1>13, <2>2, <2>3 DEF Choose, TypeOK, redis, history
<1>14. ASSUME NEW w \in Workers, MarkShown(w) PROVE TypeOK' /\ RequestShape'
  <2>1. req[w] \in Request /\ WellShaped(req[w], drawn)
    BY RequestFacts
  <2> DEFINE r == [req[w] EXCEPT !.pc = "r_expire"]
  <2>2. r \in Request /\ WellShaped(r, drawn)
    BY <1>14, <2>1, NoneAssumption, PCsListed DEF MarkShown, Request, Candidate, WellShaped, RevealPCs, PaidPCs, ScanPCs, ReportPCs
  <2>3. Goto(w, r)
    BY <1>14 DEF MarkShown
  <2> HIDE DEF r
  <2>4. req' \in [Workers -> Request] /\ RequestShape'
    BY <1>14, <2>2, <2>3, RequestUpdate DEF MarkShown, history
  <2>5. req[w].acc \in Accounts /\ req[w].ses \in Sessions
    BY <1>14, <2>1 DEF MarkShown, WellShaped, RevealPCs, PaidPCs, ScanPCs, ReportPCs
  <2>6. AddShown(shown[req[w].ses], req[w].acc)
            \in [exp : Nat \cup {NoExpiry}, members : SUBSET Accounts]
    BY <1>14, <2>5 DEF AddShown, TypeOK
  <2>7. shown' \in [Sessions -> [exp : Nat \cup {NoExpiry}, members : SUBSET Accounts]]
    BY <1>14, <2>6 DEF MarkShown, TypeOK
  <2>8. QED
    BY <1>14, <2>4, <2>7 DEF MarkShown, TypeOK, redis, history
<1>15. ASSUME NEW w \in Workers, ExpireShown(w) PROVE TypeOK' /\ RequestShape'
  <2>1. req[w] \in Request /\ WellShaped(req[w], drawn)
    BY RequestFacts
  <2>2. req' \in [Workers -> Request] /\ RequestShape'
    BY <1>15, IdleShape, RequestUpdate DEF ExpireShown, history
  <2>3. req[w].acc \in Accounts /\ req[w].ses \in Sessions /\ req[w].tkt \in Tickets
    BY <1>15, <2>1 DEF ExpireShown, WellShaped, RevealPCs, PaidPCs, ScanPCs, ReportPCs
  <2>4. ShownDeath(shown[req[w].ses]) \in Nat \cup {NoExpiry}
    BY <1>15, <2>3, TTLAssumption DEF TypeOK, ShownDeath
  <2>5. shown' \in [Sessions -> [exp : Nat \cup {NoExpiry}, members : SUBSET Accounts]]
    <3>1. shown[req[w].ses] \in [exp : Nat \cup {NoExpiry}, members : SUBSET Accounts]
      BY <2>3 DEF TypeOK
    <3>2. [shown[req[w].ses] EXCEPT !.exp = ShownDeath(shown[req[w].ses])]
              \in [exp : Nat \cup {NoExpiry}, members : SUBSET Accounts]
      BY <2>4, <3>1
    <3>3. shown' = [shown EXCEPT ![req[w].ses] =
                      [shown[req[w].ses] EXCEPT !.exp = ShownDeath(shown[req[w].ses])]]
      BY <1>15 DEF ExpireShown
    <3>4. QED
      BY <3>2, <3>3, OneReplaced DEF TypeOK
  <2>6. delivered' \subseteq [ses : Sessions, acc : Accounts, tkt : Tickets]
    <3>1. [ses |-> req[w].ses, acc |-> req[w].acc, tkt |-> req[w].tkt]
              \in [ses : Sessions, acc : Accounts, tkt : Tickets]
      BY <2>3
    <3>2. delivered' \subseteq
              delivered \cup {[ses |-> req[w].ses, acc |-> req[w].acc, tkt |-> req[w].tkt]}
      BY <1>15 DEF ExpireShown
    <3>3. QED
      BY <3>1, <3>2 DEF TypeOK
  <2>7. QED
    BY <1>15, <2>2, <2>5, <2>6 DEF ExpireShown, TypeOK, redis, history
<1>16. ASSUME NEW w \in Workers, StartFeedback(w) PROVE TypeOK' /\ RequestShape'
  <2>1. req[w] \in Request /\ WellShaped(req[w], drawn)
    BY RequestFacts
  <2>2. PICK s \in Sessions \cap held, a \in Accounts, v \in Verdicts :
          Goto(w, [Idle EXCEPT !.pc = "f_shown", !.ses = s, !.acc = a, !.verdict = v])
    BY <1>16 DEF StartFeedback
  <2>3. held \subseteq drawn
    BY DEF TypeOK
  <2> DEFINE r == [Idle EXCEPT !.pc = "f_shown", !.ses = s, !.acc = a, !.verdict = v]
  <2>4. r \in Request /\ WellShaped(r, drawn)
    <3>1. r \in Request
      BY <2>2, <2>3, IdleShape, PCsListed DEF Request
    <3>2. r.pc = "f_shown" /\ r.ses = s /\ r.found = {} /\ r.acc = a /\ r.verdict = v
      BY DEF Idle
    <3>3. s \in Sessions \cap drawn
      BY <1>16, <2>2, <2>3
    <3> HIDE DEF r
    <3>4. QED
      BY <2>2, <2>3, <3>1, <3>2, <3>3 DEF WellShaped, RevealPCs, PaidPCs, ScanPCs, ReportPCs
  <2>5. Goto(w, r)
    BY <1>16, <2>2 DEF StartFeedback
  <2> HIDE DEF r
  <2>6. req' \in [Workers -> Request] /\ RequestShape'
    BY <1>16, <2>4, <2>5, RequestUpdate DEF StartFeedback, history
  <2>7. QED
    BY <1>16, <2>6 DEF StartFeedback, TypeOK, redis, history
<1>17. ASSUME NEW w \in Workers, CheckShown(w) PROVE TypeOK' /\ RequestShape'
  <2>1. req[w] \in Request /\ WellShaped(req[w], drawn)
    BY RequestFacts
  <2> DEFINE r == [req[w] EXCEPT !.pc = "f_claim"]
  <2>2. r \in Request /\ WellShaped(r, drawn)
    BY <1>17, <2>1, NoneAssumption, PCsListed DEF CheckShown, Request, Candidate, WellShaped, RevealPCs, PaidPCs, ScanPCs, ReportPCs
  <2>3. Goto(w, r) \/ Goto(w, Idle)
    BY <1>17 DEF CheckShown
  <2> HIDE DEF r
  <2>4. req' \in [Workers -> Request] /\ RequestShape'
    BY <1>17, <2>2, <2>3, IdleShape, RequestUpdate DEF CheckShown, history
  <2>5. QED
    BY <1>17, <2>4 DEF CheckShown, TypeOK, redis, history
<1>18. ASSUME NEW w \in Workers, ClaimOnce(w) PROVE TypeOK' /\ RequestShape'
  <2>1. req[w] \in Request /\ WellShaped(req[w], drawn)
    BY RequestFacts
  <2> DEFINE r == [req[w] EXCEPT !.pc = "f_record"]
  <2>2. r \in Request /\ WellShaped(r, drawn)
    BY <1>18, <2>1, NoneAssumption, PCsListed DEF ClaimOnce, Request, Candidate, WellShaped, RevealPCs, PaidPCs, ScanPCs, ReportPCs
  <2>3. Goto(w, r) \/ Goto(w, Idle)
    BY <1>18 DEF ClaimOnce
  <2> HIDE DEF r
  <2>4. req' \in [Workers -> Request] /\ RequestShape'
    BY <1>18, <2>2, <2>3, IdleShape, RequestUpdate DEF ClaimOnce, history
  <2>5. req[w].acc \in Accounts /\ req[w].ses \in Sessions
    BY <1>18, <2>1 DEF ClaimOnce, WellShaped, RevealPCs, PaidPCs, ScanPCs, ReportPCs
  <2>6. OnceDeath \in Nat
    BY <1>18, TTLAssumption DEF TypeOK, OnceDeath
  <2>7. [once[req[w].ses] EXCEPT ![req[w].acc] = OnceDeath] \in [Accounts -> Nat]
    BY <1>18, <2>5, <2>6 DEF TypeOK
  <2>8. once' \in [Sessions -> [Accounts -> Nat]]
    BY <1>18, <2>5, <2>7 DEF ClaimOnce, TypeOK
  <2>9. /\ claimed' \subseteq Sessions \X Accounts
        /\ refused' \subseteq Sessions \X Accounts
    BY <1>18, <2>5 DEF ClaimOnce, TypeOK
  <2>10. QED
    BY <1>18, <2>4, <2>8, <2>9 DEF ClaimOnce, TypeOK, redis, history
<1>19. ASSUME NEW w \in Workers, RecordQuality(w) PROVE TypeOK' /\ RequestShape'
  <2>1. req[w] \in Request /\ WellShaped(req[w], drawn)
    BY RequestFacts
  <2>2. req' \in [Workers -> Request] /\ RequestShape'
    BY <1>19, IdleShape, RequestUpdate DEF RecordQuality, history
  <2>3. req[w].acc \in Accounts /\ req[w].ses \in Sessions /\ req[w].verdict \in Verdicts
    BY <1>19, <2>1 DEF RecordQuality, WellShaped, RevealPCs, PaidPCs, ScanPCs, ReportPCs
  <2>4. /\ quality' \in [Accounts -> Verdicts \cup {Unrated}]
        /\ recorded' \subseteq Sessions \X Accounts
    BY <1>19, <2>3 DEF RecordQuality, TypeOK
  <2>5. QED
    BY <1>19, <2>2, <2>4 DEF RecordQuality, TypeOK, redis, history
<1>20. ASSUME NEW w \in Workers, Abort(w) PROVE TypeOK' /\ RequestShape'
  <2>1. req[w] \in Request /\ WellShaped(req[w], drawn)
    BY RequestFacts
  <2>2. req' \in [Workers -> Request] /\ RequestShape'
    BY <1>20, IdleShape, RequestUpdate DEF Abort, history
  <2>3. QED
    BY <1>20, <2>2 DEF Abort, TypeOK, redis, history
<1>21. CASE RedisRestart
  <2>1. req' \in [Workers -> Request] /\ RequestShape'
    BY <1>21 DEF RedisRestart, RequestShape, TypeOK, history
  <2>2. ticket' \in [Tickets -> [exp : Nat, ses : Sessions \cup {None}, clk : Nat]]
    <3>1. \A t \in Tickets : [ticket[t] EXCEPT !.exp = Absent]
                               \in [exp : Nat, ses : Sessions \cup {None}, clk : Nat]
      <4>1. \A t \in Tickets : ticket[t] \in [exp : Nat, ses : Sessions \cup {None}, clk : Nat]
        BY DEF TypeOK
      <4>2. QED
        BY <4>1 DEF Absent
    <3>2. QED
      BY <1>21, <3>1 DEF RedisRestart
  <2>3. /\ sess' \in [Sessions -> Nat]
        /\ once' \in [Sessions -> [Accounts -> Nat]]
        /\ quality' \in [Accounts -> Verdicts \cup {Unrated}]
    BY <1>21 DEF RedisRestart, Absent
  <2>4. shown' \in [Sessions -> [exp : Nat \cup {NoExpiry}, members : SUBSET Accounts]]
    BY <1>21 DEF RedisRestart, NoShown, Absent
  <2>5. QED
    BY <1>21, <2>1, <2>2, <2>3, <2>4 DEF RedisRestart, TypeOK, history
<1>22. CASE Tick
  BY <1>22 DEF Tick, TypeOK, RequestShape, redis, history
<1>23. CASE UNCHANGED vars
  BY <1>23 DEF vars, TypeOK, RequestShape, redis, history
<1>24. QED
  BY <1>1, <1>2, <1>3, <1>4, <1>5, <1>6, <1>7, <1>8, <1>9, <1>10, <1>11, <1>12,
     <1>13, <1>14, <1>15, <1>16, <1>17, <1>18, <1>19, <1>20, <1>21, <1>22, <1>23
     DEF Next, Handler, Reveal

-----------------------------------------------------------------------------
(* Who holds sessions and tickets *)

\* Every step keeps sessions in the hands the invariant says.
LEMMA SessionCustodyStep ==
  ASSUME TypeOK, RequestShape, SessionCustody, [Next]_vars
  PROVE  SessionCustody'
<1> USE RequestFacts DEF TypeOK, Goto, Idle, Request, redis, history, RequestShape,
         WellShaped, SessionCustody, OpeningPCs, RevealPCs, PaidPCs, ScanPCs, ReportPCs
<1>1. ASSUME NEW w \in Workers, StartVerify(w) PROVE SessionCustody'
  BY <1>1 DEF StartVerify
<1>2. ASSUME NEW w \in Workers, StoreVerified(w) PROVE SessionCustody'
  BY <1>2 DEF StoreVerified
<1>3. ASSUME NEW w \in Workers, StartTicket(w) PROVE SessionCustody'
  BY <1>3 DEF StartTicket
<1>4. ASSUME NEW w \in Workers, StartTicketWithoutCookie(w) PROVE SessionCustody'
  BY <1>4 DEF StartTicketWithoutCookie
<1>5. ASSUME NEW w \in Workers, OpenSession(w) PROVE SessionCustody'
  BY <1>5 DEF OpenSession
<1>6. ASSUME NEW w \in Workers, AdmitTicket(w) PROVE SessionCustody'
  BY <1>6 DEF AdmitTicket
<1>7. ASSUME NEW w \in Workers, StoreTicket(w) PROVE SessionCustody'
  <2>1. req[w].pc = "t_store" /\ req[w].tkt \in Tickets /\ req[w].ses \in Sessions
    BY <1>7 DEF StoreTicket
  <2>2. held \subseteq held' /\ held' \subseteq held \cup {req[w].ses, req[w].tkt}
    BY <1>7 DEF StoreTicket
  <2>3. ASSUME NEW v \in Workers, req[v].pc \in OpeningPCs PROVE req[v].ses \notin held'
    <3>1. req[v].ses \in Sessions /\ req[v].ses # req[w].ses /\ req[v].ses \notin held
      BY <2>1, <2>3
    <3>2. QED
      BY <2>1, <2>2, <3>1, TokenAssumption
  <2>4. QED
    BY <1>7, <2>2, <2>3 DEF StoreTicket
<1>8. ASSUME NEW w \in Workers, StartReveal(w) PROVE SessionCustody'
  BY <1>8 DEF StartReveal
<1>9. ASSUME NEW w \in Workers, ConsumeTicket(w) PROVE SessionCustody'
  <2>1. UNCHANGED <<shown, history>> /\ req[w].pc = "r_consume"
    BY <1>9 DEF ConsumeTicket
  <2>2. CASE Goto(w, [req[w] EXCEPT !.pc = "r_pool", !.past = DeliveredTo(req[w].ses)])
    BY <2>1, <2>2
  <2>3. CASE Goto(w, Idle)
    BY <2>1, <2>3
  <2>4. QED
    BY <1>9, <2>2, <2>3 DEF ConsumeTicket
<1>10. ASSUME NEW w \in Workers, ReadPool(w) PROVE SessionCustody'
  BY <1>10 DEF ReadPool
<1>11. ASSUME NEW w \in Workers, ScanShown(w) PROVE SessionCustody'
  BY <1>11 DEF ScanShown
<1>12. ASSUME NEW w \in Workers, ScanQuality(w) PROVE SessionCustody'
  BY <1>12 DEF ScanQuality
<1>13. ASSUME NEW w \in Workers, Choose(w) PROVE SessionCustody'
  <2>1. UNCHANGED <<shown, history>> /\ req[w].pc = "r_scan"
    BY <1>13 DEF Choose
  <2>2. ASSUME NEW a, Goto(w, [req[w] EXCEPT !.pc = "r_mark", !.acc = a]) PROVE SessionCustody'
    BY <2>1, <2>2
  <2>3. CASE Goto(w, Idle)
    BY <2>1, <2>3
  <2>4. QED
    BY <1>13, <2>2, <2>3 DEF Choose
<1>14. ASSUME NEW w \in Workers, MarkShown(w) PROVE SessionCustody'
  BY <1>14 DEF MarkShown
<1>15. ASSUME NEW w \in Workers, ExpireShown(w) PROVE SessionCustody'
  BY <1>15 DEF ExpireShown
<1>16. ASSUME NEW w \in Workers, StartFeedback(w) PROVE SessionCustody'
  BY <1>16 DEF StartFeedback
<1>17. ASSUME NEW w \in Workers, CheckShown(w) PROVE SessionCustody'
  BY <1>17 DEF CheckShown
<1>18. ASSUME NEW w \in Workers, ClaimOnce(w) PROVE SessionCustody'
  <2>1. /\ UNCHANGED <<shown, held, drawn, delivered>>
        /\ req[w].pc = "f_claim" /\ req[w].ses \in held
    BY <1>18 DEF ClaimOnce
  <2>2. \A p \in claimed' : p[1] \in held
    BY <1>18, <2>1 DEF ClaimOnce
  <2>3. CASE Goto(w, [req[w] EXCEPT !.pc = "f_record"])
    BY <2>1, <2>2, <2>3
  <2>4. CASE Goto(w, Idle)
    BY <2>1, <2>2, <2>4
  <2>5. QED
    BY <1>18, <2>3, <2>4 DEF ClaimOnce
<1>19. ASSUME NEW w \in Workers, RecordQuality(w) PROVE SessionCustody'
  BY <1>19 DEF RecordQuality
<1>20. ASSUME NEW w \in Workers, Abort(w) PROVE SessionCustody'
  BY <1>20 DEF Abort
<1>21. CASE RedisRestart
  BY <1>21 DEF RedisRestart, NoShown
<1>22. CASE Tick
  BY <1>22 DEF Tick
<1>23. CASE UNCHANGED vars
  BY <1>23 DEF vars
<1>24. QED
  BY <1>1, <1>2, <1>3, <1>4, <1>5, <1>6, <1>7, <1>8, <1>9, <1>10, <1>11, <1>12,
     <1>13, <1>14, <1>15, <1>16, <1>17, <1>18, <1>19, <1>20, <1>21, <1>22, <1>23
     DEF Next, Handler, Reveal

\* A consumed ticket is gone from Redis for good; only the request that took it may
\* have been admitted with it.
LEMMA ConsumeCustody ==
  ASSUME TypeOK, RequestShape, TicketCustody, NEW w \in Workers, ConsumeTicket(w)
  PROVE  TicketCustody'
<1> DEFINE t == req[w].tkt
<1>1. /\ UNCHANGED <<held, delivered>> /\ req[w].pc = "r_consume" /\ t \in held
      /\ ticket' = [ticket EXCEPT ![t] = TakeTicket(ticket[t])]
  BY DEF ConsumeTicket, history, TicketCustody, RevealPCs
<1>2. t \in Tickets
  BY <1>1, RequestFacts DEF WellShaped, RevealPCs
<1>3. ticket[t] \in [exp : Nat, ses : Sessions \cup {None}, clk : Nat]
  BY <1>2 DEF TypeOK
<1>4. /\ \A u \in Tickets \ {t} : ticket'[u] = ticket[u]
      /\ ticket'[t] = TakeTicket(ticket[t])
  BY <1>1, <1>2 DEF TypeOK
<1>5. TakeTicket(ticket[t]).exp = Absent /\ TakeTicket(ticket[t]).ses = ticket[t].ses
  BY <1>3 DEF TakeTicket
<1> DEFINE taken == [req[w] EXCEPT !.pc = "r_pool", !.past = DeliveredTo(req[w].ses)]
           r == IF Admits(ticket[t], req[w].ses, req[w].clk) THEN taken ELSE Idle
<1>6. /\ Goto(w, r)
      /\ r = Idle \/ /\ r.pc = "r_pool" /\ r.tkt = t /\ r.ses = req[w].ses
                     /\ Admits(ticket[t], req[w].ses, req[w].clk)
  <2>1. taken.pc = "r_pool" /\ taken.tkt = t /\ taken.ses = req[w].ses
    BY RequestFacts DEF Request
  <2>2. Goto(w, r)
    BY DEF ConsumeTicket
  <2> HIDE DEF taken, t
  <2>3. CASE Admits(ticket[t], req[w].ses, req[w].clk)
    <3>1. r = taken
      BY <2>3
    <3>2. QED
      BY <2>1, <2>2, <2>3, <3>1
  <2>4. CASE ~ Admits(ticket[t], req[w].ses, req[w].clk)
    <3>1. r = Idle
      BY <2>4
    <3> HIDE DEF r
    <3>2. QED
      BY <2>2, <3>1
  <2>5. QED
    BY <2>3, <2>4
<1> HIDE DEF taken, r
<1>7. req'[w] = r /\ \A v \in Workers \ {w} : req'[v] = req[v]
  BY <1>6 DEF Goto, TypeOK
<1>8. /\ \A v \in Workers : req[v].pc \in PaidPCs => req[v].tkt \in Tickets
      /\ \A d \in delivered : d.tkt \in Tickets
  BY RequestFacts DEF TypeOK, WellShaped, RevealPCs
<1>9. /\ r.pc \in {"idle", "r_pool"} /\ (r.pc \in RevealPCs => r.tkt = t)
      /\ r.pc \in PaidPCs => /\ r.ses = req[w].ses /\ r.tkt = t
                             /\ Admits(ticket[t], req[w].ses, req[w].clk)
  BY <1>6 DEF Idle, RevealPCs, PaidPCs, ScanPCs
<1>10. ASSUME r.pc \in PaidPCs
       PROVE  /\ ticket[t].ses = req[w].ses /\ \A d \in delivered : d.tkt # t
              /\ \A v \in Workers : req[v].pc \in PaidPCs => req[v].tkt # t
  <2>1. ticket[t].exp # Absent /\ ticket[t].ses = req[w].ses
    BY <1>3, <1>9, <1>10 DEF Admits, Alive, Absent, NoExpiry, TypeOK
  <2>2. QED
    BY <2>1 DEF TicketCustody
<1> HIDE DEF t
<1>11. \A v \in Workers : req'[v].pc = "t_store" =>
          /\ v # w /\ req'[v] = req[v] /\ req'[v].tkt \notin held'
          /\ \A u \in Workers \ {v} : req'[u].pc = "t_store" => req'[u].tkt # req'[v].tkt
  BY <1>1, <1>7, <1>9 DEF TicketCustody
<1>12. \A v \in Workers : req'[v].pc \in RevealPCs => req'[v].tkt \in held'
  BY <1>1, <1>7, <1>9 DEF TicketCustody
<1>13. \A d \in delivered' : /\ d.tkt \in held' /\ ticket'[d.tkt].exp = Absent
                            /\ ticket'[d.tkt].ses = d.ses
  BY <1>1, <1>4, <1>5, <1>8 DEF TicketCustody
<1>14. \A v \in Workers : req'[v].pc \in PaidPCs =>
          /\ ticket'[req'[v].tkt].exp = Absent
          /\ ticket'[req'[v].tkt].ses = req'[v].ses
          /\ \A d \in delivered' : d.tkt # req'[v].tkt
  <2>1. ASSUME NEW v \in Workers \ {w}, req[v].pc \in PaidPCs
        PROVE  /\ ticket'[req[v].tkt].exp = Absent
               /\ ticket'[req[v].tkt].ses = req[v].ses
               /\ \A d \in delivered : d.tkt # req[v].tkt
    BY <2>1, <1>4, <1>5, <1>8 DEF TicketCustody
  <2>2. QED
    BY <2>1, <1>1, <1>4, <1>5, <1>7, <1>9, <1>10
<1>15. \A v \in Workers : req'[v].pc \in PaidPCs =>
          \A u \in Workers \ {v} : req'[u].pc \in PaidPCs => req'[u].tkt # req'[v].tkt
  <2>1. \A v, u \in Workers : req[v].pc \in PaidPCs /\ req[u].pc \in PaidPCs /\ u # v
                             => req[u].tkt # req[v].tkt
    BY DEF TicketCustody
  <2>2. QED
    BY <2>1, <1>7, <1>9, <1>10
<1>16. \A d, e \in delivered' : d.tkt = e.tkt => d = e
  BY <1>1 DEF TicketCustody
<1>17. QED
  BY <1>11, <1>12, <1>13, <1>14, <1>15, <1>16 DEF TicketCustody

\* Only the worker that steps moves.
LEMMA GotoWorker ==
  ASSUME TypeOK, NEW w \in Workers, NEW r, Goto(w, r)
  PROVE  req'[w] = r /\ \A v \in Workers \ {w} : req'[v] = req[v]
BY DEF Goto, TypeOK

\* A request that goes on outside the reveal, or with the ticket that it paid with, leaves
\* all tickets in the same hands.
LEMMA TicketsUntouched ==
  ASSUME TypeOK, RequestShape, TicketCustody, NEW w \in Workers, NEW r, Goto(w, r),
         UNCHANGED <<ticket, delivered>>, held' \cap Tickets = held \cap Tickets,
         \/ r.pc \notin RevealPCs \cup {"t_store"}
         \/ /\ r.pc \in PaidPCs /\ req[w].pc \in PaidPCs
            /\ r.tkt = req[w].tkt /\ r.ses = req[w].ses
  PROVE  TicketCustody'
<1>1. req'[w] = r /\ \A v \in Workers \ {w} : req'[v] = req[v]
  BY DEF Goto, TypeOK
<1>2. /\ \A v \in Workers : req[v].pc \in RevealPCs \cup {"t_store"} => req[v].tkt \in Tickets
      /\ \A d \in delivered : d.tkt \in Tickets
  BY RequestFacts DEF TypeOK, WellShaped
<1>3. PaidPCs \subseteq RevealPCs /\ "t_store" \notin PaidPCs
  BY DEF RevealPCs, PaidPCs, ScanPCs
<1>4. \A v \in Workers : req'[v].pc = "t_store" =>
         /\ v # w /\ req'[v] = req[v] /\ req'[v].tkt \notin held'
         /\ \A u \in Workers \ {v} : req'[u].pc = "t_store" => req'[u].tkt # req'[v].tkt
  BY <1>1, <1>2, <1>3 DEF TicketCustody
<1>5. \A v \in Workers : req'[v].pc \in RevealPCs => req'[v].tkt \in held'
  BY <1>1, <1>2, <1>3 DEF TicketCustody
<1>6. \A v \in Workers : req'[v].pc \in PaidPCs =>
         /\ req[v].pc \in PaidPCs /\ req'[v].tkt = req[v].tkt /\ req'[v].ses = req[v].ses
  BY <1>1, <1>3
<1>7. \A v \in Workers : req'[v].pc \in PaidPCs =>
         /\ ticket'[req'[v].tkt].exp = Absent
         /\ ticket'[req'[v].tkt].ses = req'[v].ses
         /\ \A u \in Workers \ {v} : req'[u].pc \in PaidPCs => req'[u].tkt # req'[v].tkt
         /\ \A d \in delivered' : d.tkt # req'[v].tkt
  BY <1>6 DEF TicketCustody
<1>8. /\ \A d \in delivered' : /\ d.tkt \in held'
                              /\ ticket'[d.tkt].exp = Absent
                              /\ ticket'[d.tkt].ses = d.ses
      /\ \A d, e \in delivered' : d.tkt = e.tkt => d = e
  BY <1>2 DEF TicketCustody
<1>9. QED
  BY <1>4, <1>5, <1>7, <1>8 DEF TicketCustody

\* Every step keeps tickets in the hands the invariant says.
LEMMA TicketCustodyStep ==
  ASSUME TypeOK, RequestShape, TicketCustody, [Next]_vars
  PROVE  TicketCustody'
<1>1. ASSUME NEW w \in Workers, StartVerify(w) PROVE TicketCustody'
  <2>1. PICK s \in Sessions \ drawn :
          Goto(w, [Idle EXCEPT !.pc = "v_store", !.ses = s])
    BY <1>1 DEF StartVerify
  <2> DEFINE r == [Idle EXCEPT !.pc = "v_store", !.ses = s]
  <2>2. r.pc \in {"idle", "v_store", "t_open", "t_admit"} \cup ReportPCs
    BY DEF Idle, ReportPCs
  <2>3. Goto(w, r) /\ UNCHANGED <<ticket, delivered, held>>
    BY <1>1, <2>1 DEF StartVerify, redis
  <2> HIDE DEF r
  <2>4. QED
    BY <2>2, <2>3, TicketsUntouched DEF RevealPCs, PaidPCs, ScanPCs, ReportPCs
<1>2. ASSUME NEW w \in Workers, StoreVerified(w) PROVE TicketCustody'
  <2>1. Goto(w, Idle) /\ UNCHANGED <<ticket, delivered>>
    BY <1>2 DEF StoreVerified
  <2>2. held' \cap Tickets = held \cap Tickets
    BY <1>2, RequestFacts, TokenAssumption DEF StoreVerified, WellShaped
  <2>3. Idle.pc \notin RevealPCs \cup {"t_store"}
    BY DEF Idle, RevealPCs, PaidPCs, ScanPCs
  <2>4. QED
    BY <2>1, <2>2, <2>3, TicketsUntouched
<1>3. ASSUME NEW w \in Workers, StartTicket(w) PROVE TicketCustody'
  <2>1. PICK s \in Sessions \cap held :
          Goto(w, [Idle EXCEPT !.pc = "t_admit", !.ses = s])
    BY <1>3 DEF StartTicket
  <2> DEFINE r == [Idle EXCEPT !.pc = "t_admit", !.ses = s]
  <2>2. r.pc \in {"idle", "v_store", "t_open", "t_admit"} \cup ReportPCs
    BY DEF Idle, ReportPCs
  <2>3. Goto(w, r) /\ UNCHANGED <<ticket, delivered, held>>
    BY <1>3, <2>1 DEF StartTicket, redis, history
  <2> HIDE DEF r
  <2>4. QED
    BY <2>2, <2>3, TicketsUntouched DEF RevealPCs, PaidPCs, ScanPCs, ReportPCs
<1>4. ASSUME NEW w \in Workers, StartTicketWithoutCookie(w) PROVE TicketCustody'
  <2>1. PICK s \in Sessions \ drawn :
          Goto(w, [Idle EXCEPT !.pc = "t_open", !.ses = s])
    BY <1>4 DEF StartTicketWithoutCookie
  <2> DEFINE r == [Idle EXCEPT !.pc = "t_open", !.ses = s]
  <2>2. r.pc \in {"idle", "v_store", "t_open", "t_admit"} \cup ReportPCs
    BY DEF Idle, ReportPCs
  <2>3. Goto(w, r) /\ UNCHANGED <<ticket, delivered, held>>
    BY <1>4, <2>1 DEF StartTicketWithoutCookie, redis
  <2> HIDE DEF r
  <2>4. QED
    BY <2>2, <2>3, TicketsUntouched DEF RevealPCs, PaidPCs, ScanPCs, ReportPCs
<1>5. ASSUME NEW w \in Workers, OpenSession(w) PROVE TicketCustody'
  <2> DEFINE r == [req[w] EXCEPT !.pc = "t_admit"]
  <2>1. r.pc \in {"idle", "v_store", "t_open", "t_admit"} \cup ReportPCs
    BY RequestFacts DEF Idle, Request, ReportPCs
  <2>2. Goto(w, r) /\ UNCHANGED <<ticket, delivered, held>>
    BY <1>5 DEF OpenSession, history
  <2> HIDE DEF r
  <2>3. QED
    BY <2>1, <2>2, TicketsUntouched DEF RevealPCs, PaidPCs, ScanPCs, ReportPCs
<1>6. ASSUME NEW w \in Workers, AdmitTicket(w) PROVE TicketCustody'
  <2>1. PICK t \in Tickets \ drawn :
          Goto(w, [req[w] EXCEPT !.pc = "t_store", !.tkt = t, !.clk = now])
    BY <1>6 DEF AdmitTicket
  <2>2. UNCHANGED <<ticket, held, delivered>>
    BY <1>6 DEF AdmitTicket, redis
  <2>3. /\ req'[w].pc = "t_store" /\ req'[w].tkt = t
        /\ \A v \in Workers \ {w} : req'[v] = req[v]
    BY <2>1, RequestFacts DEF Goto, TypeOK, Request
  <2>4. t \notin held /\ \A v \in Workers : req[v].pc = "t_store" => req[v].tkt # t
    BY <2>1, RequestFacts DEF TypeOK, WellShaped
  <2>5. "t_store" \notin RevealPCs /\ PaidPCs \subseteq RevealPCs
    BY DEF RevealPCs, PaidPCs, ScanPCs
  <2>6. QED
    BY <2>2, <2>3, <2>4, <2>5 DEF TicketCustody
<1>7. ASSUME NEW w \in Workers, StoreTicket(w) PROVE TicketCustody'
  <2>1. /\ req[w].pc = "t_store" /\ UNCHANGED delivered
        /\ held' \in {held, held \cup {req[w].ses, req[w].tkt}}
    BY <1>7 DEF StoreTicket
  <2>2. req'[w].pc = "idle" /\ \A v \in Workers \ {w} : req'[v] = req[v]
    <3>1. Goto(w, Idle) /\ Idle.pc = "idle"
      BY <1>7 DEF StoreTicket, Idle
    <3>2. QED
      BY <3>1, GotoWorker
  <2>3. /\ req[w].ses \notin Tickets /\ req[w].tkt \in Tickets /\ req[w].tkt \notin held
    BY <2>1, RequestFacts, TokenAssumption DEF WellShaped, TicketCustody
  <2>4. /\ \A v \in Workers : req[v].pc = "t_store" => req[v].tkt \in Tickets
        /\ \A v \in Workers : req[v].pc \in RevealPCs => req[v].tkt \in Tickets \ {req[w].tkt}
        /\ \A d \in delivered : d.tkt \in Tickets \ {req[w].tkt}
    BY <2>3, RequestFacts DEF WellShaped, TypeOK, TicketCustody
  <2>5. \A t \in Tickets \ {req[w].tkt} : ticket'[t] = ticket[t]
    BY <1>7 DEF StoreTicket, TypeOK
  <2>6. "idle" \notin RevealPCs /\ PaidPCs \subseteq RevealPCs
    BY DEF RevealPCs, PaidPCs, ScanPCs
  <2>7. \A v \in Workers : req'[v].pc = "t_store" =>
           /\ req'[v].tkt \notin held'
           /\ \A u \in Workers \ {v} : req'[u].pc = "t_store" => req'[u].tkt # req'[v].tkt
    BY <2>1, <2>2, <2>3, <2>4 DEF TicketCustody
  <2>8. \A v \in Workers : req'[v].pc \in RevealPCs => req'[v].tkt \in held'
    BY <2>1, <2>2, <2>6 DEF TicketCustody
  <2>9. \A v \in Workers : req'[v].pc \in PaidPCs =>
           /\ ticket'[req'[v].tkt].exp = Absent
           /\ ticket'[req'[v].tkt].ses = req'[v].ses
           /\ \A u \in Workers \ {v} : req'[u].pc \in PaidPCs => req'[u].tkt # req'[v].tkt
           /\ \A d \in delivered' : d.tkt # req'[v].tkt
    BY <2>1, <2>2, <2>4, <2>5, <2>6 DEF TicketCustody
  <2>10. \A d \in delivered' : /\ d.tkt \in held'
                               /\ ticket'[d.tkt].exp = Absent
                               /\ ticket'[d.tkt].ses = d.ses
    BY <2>1, <2>4, <2>5 DEF TicketCustody
  <2>11. \A d, e \in delivered' : d.tkt = e.tkt => d = e
    BY <2>1 DEF TicketCustody
  <2>12. QED
    BY <2>7, <2>8, <2>9, <2>10, <2>11 DEF TicketCustody
<1>8. ASSUME NEW w \in Workers, StartReveal(w) PROVE TicketCustody'
  <2>1. UNCHANGED <<ticket, held, delivered>>
    BY <1>8 DEF StartReveal, redis, history
  <2>2. PICK s \in Sessions \cap held, t \in Tickets \cap held, i \in Intents :
          Goto(w, [Idle EXCEPT !.pc = "r_consume", !.ses = s, !.tkt = t, !.clk = now,
                               !.intent = i])
    BY <1>8 DEF StartReveal
  <2> DEFINE r == [Idle EXCEPT !.pc = "r_consume", !.ses = s, !.tkt = t, !.clk = now,
                               !.intent = i]
  <2>3. r.pc = "r_consume" /\ r.tkt \in held
    BY <2>2 DEF Idle
  <2>4. Goto(w, r)
    BY <2>2
  <2> HIDE DEF r
  <2>5. req'[w] = r /\ \A v \in Workers \ {w} : req'[v] = req[v]
    BY <2>4, GotoWorker
  <2>6. "r_consume" \notin PaidPCs /\ "r_consume" # "t_store"
    BY DEF PaidPCs, ScanPCs
  <2>7. QED
    BY <2>1, <2>3, <2>5, <2>6 DEF TicketCustody
<1>9. ASSUME NEW w \in Workers, ConsumeTicket(w) PROVE TicketCustody'
  BY <1>9, ConsumeCustody
<1>10. ASSUME NEW w \in Workers, ReadPool(w) PROVE TicketCustody'
  <2>1. req[w] \in Request /\ req[w].pc \in PaidPCs /\ UNCHANGED <<ticket, delivered, held>>
    BY <1>10, RequestFacts DEF ReadPool, redis, history, PaidPCs, ScanPCs
  <2>2. PICK p \in SUBSET Accounts :
          Goto(w, [req[w] EXCEPT !.pc = "r_scan", !.pool = p, !.todo = p])
    BY <1>10 DEF ReadPool
  <2> DEFINE r == [req[w] EXCEPT !.pc = "r_scan", !.pool = p, !.todo = p]
  <2>3. Goto(w, r)
    BY <2>2
  <2>4. r.pc \in PaidPCs /\ r.tkt = req[w].tkt /\ r.ses = req[w].ses
    BY <2>1 DEF Request, PaidPCs, ScanPCs
  <2> HIDE DEF r
  <2>5. QED
    BY <2>1, <2>3, <2>4, TicketsUntouched
<1>11. ASSUME NEW w \in Workers, ScanShown(w) PROVE TicketCustody'
  <2>1. req[w] \in Request /\ req[w].pc \in PaidPCs /\ UNCHANGED <<ticket, delivered, held>>
    BY <1>11, RequestFacts DEF ScanShown, redis, history, PaidPCs, ScanPCs
  <2>2. PICK a \in req[w].todo :
          Goto(w, IF Seen(req[w].ses, a) THEN [req[w] EXCEPT !.todo = @ \ {a}]
                 ELSE [req[w] EXCEPT !.pc = "r_quality", !.acc = a, !.todo = @ \ {a}])
    BY <1>11 DEF ScanShown
  <2> DEFINE r == IF Seen(req[w].ses, a) THEN [req[w] EXCEPT !.todo = @ \ {a}]
                 ELSE [req[w] EXCEPT !.pc = "r_quality", !.acc = a, !.todo = @ \ {a}]
  <2>3. Goto(w, r)
    BY <2>2
  <2>4. r.pc \in PaidPCs /\ r.tkt = req[w].tkt /\ r.ses = req[w].ses
    BY <2>1 DEF Request, PaidPCs, ScanPCs
  <2> HIDE DEF r
  <2>5. QED
    BY <2>1, <2>3, <2>4, TicketsUntouched
<1>12. ASSUME NEW w \in Workers, ScanQuality(w) PROVE TicketCustody'
  <2>1. req[w] \in Request /\ req[w].pc \in PaidPCs /\ UNCHANGED <<ticket, delivered, held>>
    BY <1>12, RequestFacts DEF ScanQuality, redis, history, PaidPCs, ScanPCs
  <2> DEFINE r == [req[w] EXCEPT !.pc = "r_scan", !.acc = None,
                             !.found = @ \cup {[acc |-> req[w].acc,
                                               quality |-> quality[req[w].acc]]}]
  <2>2. Goto(w, r)
    BY <1>12 DEF ScanQuality
  <2>3. r.pc \in PaidPCs /\ r.tkt = req[w].tkt /\ r.ses = req[w].ses
    BY <2>1 DEF Request, PaidPCs, ScanPCs
  <2> HIDE DEF r
  <2>4. QED
    BY <2>1, <2>2, <2>3, TicketsUntouched
<1>13. ASSUME NEW w \in Workers, Choose(w) PROVE TicketCustody'
  <2>1. req[w] \in Request /\ req[w].pc \in PaidPCs /\ UNCHANGED <<ticket, delivered, held>>
    BY <1>13, RequestFacts DEF Choose, redis, history, PaidPCs, ScanPCs
  <2>2. ASSUME NEW a, Goto(w, [req[w] EXCEPT !.pc = "r_mark", !.acc = a]) PROVE TicketCustody'
    <3> DEFINE r == [req[w] EXCEPT !.pc = "r_mark", !.acc = a]
    <3>1. r.pc \in PaidPCs /\ r.tkt = req[w].tkt /\ r.ses = req[w].ses
      BY <2>1 DEF Request, PaidPCs, ScanPCs
    <3>2. Goto(w, r)
      BY <2>2
    <3> HIDE DEF r
    <3>3. QED
      BY <2>1, <3>1, <3>2, TicketsUntouched
  <2>3. CASE Goto(w, Idle)
    <3>1. Idle.pc \notin RevealPCs \cup {"t_store"}
      BY DEF Idle, RevealPCs, PaidPCs, ScanPCs
    <3>2. QED
      BY <2>1, <2>3, <3>1, TicketsUntouched
  <2>4. QED
    BY <1>13, <2>2, <2>3 DEF Choose
<1>14. ASSUME NEW w \in Workers, MarkShown(w) PROVE TicketCustody'
  <2>1. req[w] \in Request /\ req[w].pc \in PaidPCs /\ UNCHANGED <<ticket, delivered, held>>
    BY <1>14, RequestFacts DEF MarkShown, history, PaidPCs, ScanPCs
  <2> DEFINE r == [req[w] EXCEPT !.pc = "r_expire"]
  <2>2. Goto(w, r)
    BY <1>14 DEF MarkShown
  <2>3. r.pc \in PaidPCs /\ r.tkt = req[w].tkt /\ r.ses = req[w].ses
    BY <2>1 DEF Request, PaidPCs, ScanPCs
  <2> HIDE DEF r
  <2>4. QED
    BY <2>1, <2>2, <2>3, TicketsUntouched
<1>15. ASSUME NEW w \in Workers, ExpireShown(w) PROVE TicketCustody'
  <2> DEFINE d0 == [ses |-> req[w].ses, acc |-> req[w].acc, tkt |-> req[w].tkt]
  <2>1. /\ req[w].pc \in PaidPCs /\ UNCHANGED <<ticket, held>>
        /\ delivered' \in {delivered, delivered \cup {d0}}
    BY <1>15 DEF ExpireShown, PaidPCs, ScanPCs
  <2>2. req'[w].pc = "idle" /\ \A v \in Workers \ {w} : req'[v] = req[v]
    <3>1. Goto(w, Idle) /\ Idle.pc = "idle"
      BY <1>15 DEF ExpireShown, Idle
    <3>2. QED
      BY <3>1, GotoWorker
  <2>3. d0.ses = req[w].ses /\ d0.tkt = req[w].tkt
    OBVIOUS
  <2> HIDE DEF d0
  <2>4. "idle" \notin RevealPCs /\ PaidPCs \subseteq RevealPCs
    BY DEF RevealPCs, PaidPCs, ScanPCs
  <2>5. \A v \in Workers : req'[v].pc = "t_store" =>
           /\ req'[v].tkt \notin held'
           /\ \A u \in Workers \ {v} : req'[u].pc = "t_store" => req'[u].tkt # req'[v].tkt
    BY <2>1, <2>2 DEF TicketCustody
  <2>6. \A v \in Workers : req'[v].pc \in RevealPCs => req'[v].tkt \in held'
    BY <2>1, <2>2, <2>4 DEF TicketCustody
  <2>7. \A v \in Workers : req'[v].pc \in PaidPCs =>
           /\ v # w /\ req'[v] = req[v] /\ req[v].tkt # req[w].tkt
           /\ ticket'[req'[v].tkt].exp = Absent
           /\ ticket'[req'[v].tkt].ses = req'[v].ses
           /\ \A u \in Workers \ {v} : req'[u].pc \in PaidPCs => req'[u].tkt # req'[v].tkt
    BY <2>1, <2>2, <2>4 DEF TicketCustody
  <2>8. \A v \in Workers : req'[v].pc \in PaidPCs => \A d \in delivered' : d.tkt # req'[v].tkt
    BY <2>1, <2>3, <2>7 DEF TicketCustody
  <2>9. /\ d0.tkt \in held /\ ticket[d0.tkt].exp = Absent /\ ticket[d0.tkt].ses = d0.ses
        /\ \A d \in delivered : d.tkt # d0.tkt
    BY <2>1, <2>3, <2>4 DEF TicketCustody
  <2>10. \A d \in delivered' : /\ d.tkt \in held'
                               /\ ticket'[d.tkt].exp = Absent
                               /\ ticket'[d.tkt].ses = d.ses
    BY <2>1, <2>9 DEF TicketCustody
  <2>11. \A d, e \in delivered' : d.tkt = e.tkt => d = e
    BY <2>1, <2>9 DEF TicketCustody
  <2>12. QED
    BY <2>5, <2>6, <2>7, <2>8, <2>10, <2>11 DEF TicketCustody
<1>16. ASSUME NEW w \in Workers, StartFeedback(w) PROVE TicketCustody'
  <2>1. PICK s \in Sessions \cap held, a \in Accounts, v \in Verdicts :
          Goto(w, [Idle EXCEPT !.pc = "f_shown", !.ses = s, !.acc = a, !.verdict = v])
    BY <1>16 DEF StartFeedback
  <2> DEFINE r == [Idle EXCEPT !.pc = "f_shown", !.ses = s, !.acc = a, !.verdict = v]
  <2>2. r.pc \in {"idle", "v_store", "t_open", "t_admit"} \cup ReportPCs
    BY DEF Idle, ReportPCs
  <2>3. Goto(w, r) /\ UNCHANGED <<ticket, delivered, held>>
    BY <1>16, <2>1 DEF StartFeedback, redis, history
  <2> HIDE DEF r
  <2>4. QED
    BY <2>2, <2>3, TicketsUntouched DEF RevealPCs, PaidPCs, ScanPCs, ReportPCs
<1>17. ASSUME NEW w \in Workers, CheckShown(w) PROVE TicketCustody'
  <2> DEFINE r == IF Seen(req[w].ses, req[w].acc) THEN [req[w] EXCEPT !.pc = "f_claim"] ELSE Idle
  <2>1. r.pc \in {"idle", "v_store", "t_open", "t_admit"} \cup ReportPCs
    BY RequestFacts DEF Idle, Request, ReportPCs
  <2>2. Goto(w, r) /\ UNCHANGED <<ticket, delivered, held>>
    BY <1>17 DEF CheckShown, redis, history
  <2> HIDE DEF r
  <2>3. QED
    BY <2>1, <2>2, TicketsUntouched DEF RevealPCs, PaidPCs, ScanPCs, ReportPCs
<1>18. ASSUME NEW w \in Workers, ClaimOnce(w) PROVE TicketCustody'
  <2> DEFINE m == [req[w] EXCEPT !.pc = "f_record"]
  <2>1. m.pc = "f_record" /\ Idle.pc = "idle"
    BY RequestFacts DEF Idle, Request
  <2>2. (Goto(w, Idle) \/ Goto(w, m)) /\ UNCHANGED <<ticket, delivered, held>>
    BY <1>18 DEF ClaimOnce
  <2> HIDE DEF m
  <2>3. QED
    BY <2>1, <2>2, TicketsUntouched DEF RevealPCs, PaidPCs, ScanPCs
<1>19. ASSUME NEW w \in Workers, RecordQuality(w) PROVE TicketCustody'
  <2> DEFINE r == Idle
  <2>1. r.pc \in {"idle", "v_store", "t_open", "t_admit"} \cup ReportPCs
    BY RequestFacts DEF Idle, Request, ReportPCs
  <2>2. Goto(w, r) /\ UNCHANGED <<ticket, delivered, held>>
    BY <1>19 DEF RecordQuality
  <2> HIDE DEF r
  <2>3. QED
    BY <2>1, <2>2, TicketsUntouched DEF RevealPCs, PaidPCs, ScanPCs, ReportPCs
<1>20. ASSUME NEW w \in Workers, Abort(w) PROVE TicketCustody'
  <2> DEFINE r == Idle
  <2>1. r.pc \in {"idle", "v_store", "t_open", "t_admit"} \cup ReportPCs
    BY RequestFacts DEF Idle, Request, ReportPCs
  <2>2. Goto(w, r) /\ UNCHANGED <<ticket, delivered, held>>
    BY <1>20 DEF Abort, redis, history
  <2> HIDE DEF r
  <2>3. QED
    BY <2>1, <2>2, TicketsUntouched DEF RevealPCs, PaidPCs, ScanPCs, ReportPCs
<1>21. CASE RedisRestart
  <2>1. UNCHANGED <<req, held, delivered>>
    BY <1>21 DEF RedisRestart, history
  <2>2. \A t \in Tickets : ticket'[t].exp = Absent /\ ticket'[t].ses = ticket[t].ses
    <3>1. \A t \in Tickets : ticket[t] \in [exp : Nat, ses : Sessions \cup {None}, clk : Nat]
      BY DEF TypeOK
    <3>2. QED
      BY <1>21, <3>1 DEF RedisRestart
  <2>3. /\ \A v \in Workers : req[v].pc \in PaidPCs => req[v].tkt \in Tickets
        /\ \A d \in delivered : d.tkt \in Tickets
    BY RequestFacts DEF TypeOK, WellShaped, RevealPCs
  <2>4. QED
    BY <2>1, <2>2, <2>3 DEF TicketCustody
<1>22. CASE Tick
  BY <1>22 DEF Tick, TicketCustody, redis, history
<1>23. CASE UNCHANGED vars
  BY <1>23 DEF vars, TicketCustody, redis, history
<1>24. QED
  BY <1>1, <1>2, <1>3, <1>4, <1>5, <1>6, <1>7, <1>8, <1>9, <1>10, <1>11, <1>12,
     <1>13, <1>14, <1>15, <1>16, <1>17, <1>18, <1>19, <1>20, <1>21, <1>22, <1>23
     DEF Next, Handler, Reveal

-----------------------------------------------------------------------------
(* What Redis remembers *)

\* The only steps that change the clock, a session key or a session-shown key.
LEMMA WhoTouchesKeys ==
  ASSUME [Next]_vars
  PROVE  \/ UNCHANGED <<now, sess, shown>>
         \/ \E w \in Workers : \/ StoreVerified(w) \/ OpenSession(w)
                               \/ MarkShown(w) \/ ExpireShown(w)
         \/ RedisRestart
         \/ Tick
<1> DEFINE Same == UNCHANGED <<now, sess, shown>>
<1>1. ASSUME NEW w \in Workers,
             StartVerify(w) \/ StartTicket(w) \/ StartTicketWithoutCookie(w)
               \/ AdmitTicket(w) \/ StoreTicket(w)
      PROVE  Same
  BY <1>1 DEF StartVerify, StartTicket, StartTicketWithoutCookie, AdmitTicket, StoreTicket, redis
<1>2. ASSUME NEW w \in Workers,
             StartReveal(w) \/ ConsumeTicket(w) \/ ReadPool(w) \/ ScanShown(w)
               \/ ScanQuality(w) \/ Choose(w)
      PROVE  Same
  BY <1>2 DEF StartReveal, ConsumeTicket, ReadPool, ScanShown, ScanQuality, Choose, redis
<1>3. ASSUME NEW w \in Workers,
             StartFeedback(w) \/ CheckShown(w) \/ ClaimOnce(w) \/ RecordQuality(w) \/ Abort(w)
      PROVE  Same
  BY <1>3 DEF StartFeedback, CheckShown, ClaimOnce, RecordQuality, Abort, redis
<1>4. CASE UNCHANGED vars
  BY <1>4 DEF vars, redis
<1>5. QED
  BY <1>1, <1>2, <1>3, <1>4 DEF Next, Handler, Reveal

\* A session a client holds never gains life.
LEMMA HeldSessionsOnlyDie ==
  ASSUME TypeOK, RequestShape, SessionCustody, [Next]_vars, NEW s \in Sessions \cap held
  PROVE  /\ sess'[s] <= sess[s]
         /\ Alive(sess[s])' => Alive(sess[s])
<1> USE DEF TypeOK, Alive, NoExpiry
<1>1. ASSUME NEW w \in Workers, StoreVerified(w) \/ OpenSession(w)
      PROVE  sess'[s] = sess[s] /\ now' = now
  BY <1>1 DEF StoreVerified, OpenSession, SessionCustody, OpeningPCs
<1>2. ASSUME NEW w \in Workers, MarkShown(w) \/ ExpireShown(w)
      PROVE  sess'[s] = sess[s] /\ now' = now
  BY <1>2 DEF MarkShown, ExpireShown
<1>3. CASE RedisRestart
  BY <1>3 DEF RedisRestart, Absent
<1>4. CASE Tick
  BY <1>4 DEF Tick, redis
<1>5. QED
  BY <1>1, <1>2, <1>3, <1>4, WhoTouchesKeys

\* What Redis remembers of a session a client holds, it remembers after any step.
LEMMA MemoryPersists ==
  ASSUME TypeOK, RequestShape, SessionCustody, KeyLives, [Next]_vars,
         NEW s \in Sessions \cap held, NEW a \in Accounts, Remembers(s, a)
  PROVE  Remembers(s, a)'
<1> SUFFICES ASSUME Alive(sess[s])' PROVE (a \in shown[s].members /\ Durable(s))'
  BY DEF Remembers
<1>1. sess'[s] <= sess[s] /\ Alive(sess[s])
  BY HeldSessionsOnlyDie
<1>2. a \in shown[s].members /\ Durable(s)
  BY <1>1 DEF Remembers
<1>3. /\ sess[s] \in Nat /\ sess'[s] \in Nat /\ now \in Nat
      /\ shown[s] \in [exp : Nat \cup {NoExpiry}, members : SUBSET Accounts]
  BY TypeStep DEF TypeOK
<1>4. Alive(shown[s].exp)
  BY <1>1, <1>2, <1>3 DEF Durable, Alive, NoExpiry
<1>5. CASE shown'[s] = shown[s]
  BY <1>1, <1>2, <1>3, <1>5 DEF Durable, NoExpiry
<1>6. ASSUME NEW w \in Workers, MarkShown(w), req[w].ses = s
      PROVE  (a \in shown[s].members /\ Durable(s))'
  <2>1. shown'[s] = AddShown(shown[s], req[w].acc)
    BY <1>6 DEF MarkShown, TypeOK
  <2>2. shown'[s] = [shown[s] EXCEPT !.members = @ \cup {req[w].acc}]
    BY <2>1, <1>4 DEF AddShown
  <2>3. shown'[s].exp = shown[s].exp /\ a \in shown'[s].members
    BY <2>2, <1>2, <1>3
  <2>4. QED
    BY <2>3, <1>1, <1>2, <1>3 DEF Durable, NoExpiry
<1>7. ASSUME NEW w \in Workers, ExpireShown(w), req[w].ses = s
      PROVE  (a \in shown[s].members /\ Durable(s))'
  <2>1. shown'[s] = [shown[s] EXCEPT !.exp = now + SessionTTL]
    BY <1>4, <1>7 DEF ExpireShown, ShownDeath, TypeOK
  <2>2. shown'[s].members = shown[s].members /\ shown'[s].exp = now + SessionTTL
    BY <2>1, <1>3
  <2>3. sess[s] <= now + SessionTTL
    BY DEF KeyLives, SessionLives
  <2>4. QED
    BY <2>2, <2>3, <1>1, <1>2, <1>3, TTLAssumption DEF Durable, NoExpiry
<1>8. CASE RedisRestart
  BY <1>1, <1>3, <1>8 DEF RedisRestart, Alive, Absent, NoExpiry
<1>9. ASSUME NEW w \in Workers, MarkShown(w) \/ ExpireShown(w), req[w].ses # s
      PROVE  shown'[s] = shown[s]
  BY <1>9 DEF MarkShown, ExpireShown, TypeOK
<1>10. ASSUME NEW w \in Workers, StoreVerified(w) \/ OpenSession(w)
       PROVE  shown'[s] = shown[s]
  BY <1>10 DEF StoreVerified, OpenSession
<1>11. CASE Tick
  BY <1>5, <1>11 DEF Tick, redis
<1>12. QED
  BY <1>5, <1>6, <1>7, <1>8, <1>9, <1>10, <1>11, WhoTouchesKeys

\* Every step keeps the lives of sessions and of their shown keys in order.
LEMMA SessionLivesStep ==
  ASSUME TypeOK, RequestShape, SessionCustody, SessionLives, [Next]_vars
  PROVE  SessionLives'
<1> SUFFICES ASSUME NEW s \in Sessions
             PROVE  /\ (sess[s] <= now + SessionTTL)'
                    /\ (shown[s].exp # Absent /\ Alive(sess[s]) => Durable(s))'
  BY DEF SessionLives
<1>1. /\ sess[s] \in Nat /\ now \in Nat /\ SessionTTL \in Nat
      /\ shown[s] \in [exp : Nat \cup {NoExpiry}, members : SUBSET Accounts]
      /\ sess[s] <= now + SessionTTL
      /\ shown[s].exp # Absent /\ Alive(sess[s]) => Durable(s)
      /\ s \notin held => shown[s].exp = Absent
  BY TTLAssumption DEF TypeOK, SessionLives, SessionCustody
<1>2. CASE now' = now /\ sess'[s] = sess[s] /\ shown'[s] = shown[s]
  BY <1>1, <1>2 DEF Durable, Alive
<1>3. ASSUME NEW w \in Workers, StoreVerified(w) \/ OpenSession(w), req[w].ses = s
      PROVE  now' = now /\ sess'[s] = now + SessionTTL /\ shown'[s].exp = Absent
  BY <1>1, <1>3 DEF StoreVerified, OpenSession, SessionDeath, SessionCustody, OpeningPCs, TypeOK
<1>4. ASSUME NEW w \in Workers, StoreVerified(w) \/ OpenSession(w), req[w].ses # s
      PROVE  now' = now /\ sess'[s] = sess[s] /\ shown'[s] = shown[s]
  BY <1>4 DEF StoreVerified, OpenSession, TypeOK
<1>5. ASSUME NEW w \in Workers, MarkShown(w), req[w].ses = s
      PROVE  /\ now' = now /\ sess'[s] = sess[s]
             /\ shown'[s].exp \in {shown[s].exp, NoExpiry}
  <2>1. now' = now /\ sess'[s] = sess[s] /\ shown'[s] = AddShown(shown[s], req[w].acc)
    BY <1>5 DEF MarkShown, TypeOK
  <2>2. QED
    BY <1>1, <2>1 DEF AddShown
<1>6. ASSUME NEW w \in Workers, ExpireShown(w), req[w].ses = s
      PROVE  /\ now' = now /\ sess'[s] = sess[s]
             /\ shown'[s].exp \in {shown[s].exp, now + SessionTTL}
  BY <1>1, <1>6 DEF ExpireShown, ShownDeath, TypeOK
<1>7. ASSUME NEW w \in Workers, MarkShown(w) \/ ExpireShown(w), req[w].ses # s
      PROVE  now' = now /\ sess'[s] = sess[s] /\ shown'[s] = shown[s]
  BY <1>7 DEF MarkShown, ExpireShown, TypeOK
<1>8. CASE RedisRestart
  BY <1>1, <1>8 DEF RedisRestart, NoShown, Absent
<1>9. CASE Tick
  <2>1. now' = now + 1 /\ sess'[s] = sess[s] /\ shown'[s] = shown[s]
    BY <1>9 DEF Tick, redis
  <2>2. QED
    BY <1>1, <2>1 DEF Durable, Alive, NoExpiry
<1>10. QED
  BY <1>1, <1>2, <1>3, <1>4, <1>5, <1>6, <1>7, <1>8, <1>9, WhoTouchesKeys
     DEF Durable, Alive, NoExpiry, Absent

\* Every step keeps in Redis what was delivered to living sessions.
LEMMA DeliveriesKeptStep ==
  ASSUME TypeOK, RequestShape, SessionCustody, KeyLives, [Next]_vars
  PROVE  DeliveriesKept'
<1> SUFFICES ASSUME NEW d \in delivered' PROVE Remembers(d.ses, d.acc)'
  BY DEF DeliveriesKept
<1>1. CASE d \in delivered
  <2>1. d.ses \in Sessions \cap held /\ d.acc \in Accounts /\ Remembers(d.ses, d.acc)
    BY <1>1 DEF TypeOK, SessionCustody, KeyLives, DeliveriesKept
  <2>2. QED
    BY <2>1, MemoryPersists
<1>2. ASSUME NEW w \in Workers, ExpireShown(w), d = [ses |-> req[w].ses, acc |-> req[w].acc, tkt |-> req[w].tkt]
      PROVE  Remembers(d.ses, d.acc)'
  <2>1. /\ req[w].ses \in Sessions \cap held /\ req[w].acc \in Accounts
        /\ Remembers(req[w].ses, req[w].acc)
    BY <1>2, RequestFacts DEF ExpireShown, SessionCustody, KeyLives, RequestsKept,
       WellShaped, RevealPCs, PaidPCs, ScanPCs, ReportPCs
  <2>2. QED
    BY <1>2, <2>1, MemoryPersists
<1>3. d \in delivered \/ \E w \in Workers : ExpireShown(w) /\ d = [ses |-> req[w].ses, acc |-> req[w].acc, tkt |-> req[w].tkt]
  <2>1. delivered' = delivered \/ \E w \in Workers : ExpireShown(w)
    BY DEF Next, Handler, Reveal, vars, history, StartVerify, StoreVerified, StartTicket,
       StartTicketWithoutCookie, OpenSession, AdmitTicket, StoreTicket, StartReveal,
       ConsumeTicket, ReadPool, ScanShown, ScanQuality, Choose, MarkShown,
       StartFeedback, CheckShown, ClaimOnce, RecordQuality, Abort, RedisRestart, Tick
  <2>2. QED
    BY <2>1 DEF ExpireShown
<1>4. QED
  BY <1>1, <1>2, <1>3


\* A step of worker w leaves the other requests alone.
LEMMA OthersWait ==
  ASSUME TypeOK, NEW w \in Workers, NEW v \in Workers \ {w}, Handler(w)
  PROVE  req'[v] = req[v]
BY DEF TypeOK, Goto, Handler, Reveal, StartVerify, StoreVerified, StartTicket,
   StartTicketWithoutCookie, OpenSession, AdmitTicket, StoreTicket, StartReveal,
   ConsumeTicket, ReadPool, ScanShown, ScanQuality, Choose, MarkShown, ExpireShown,
   StartFeedback, CheckShown, ClaimOnce, RecordQuality, Abort

\* The step a request is at after each action.
LEMMA WhereTo ==
  ASSUME TypeOK, NEW w \in Workers
  PROVE  /\ StartVerify(w) => req'[w].pc = "v_store"
         /\ StoreVerified(w) \/ StoreTicket(w) \/ ExpireShown(w) => req'[w].pc = "idle"
         /\ RecordQuality(w) \/ Abort(w) => req'[w].pc = "idle"
         /\ StartTicket(w) \/ OpenSession(w) => req'[w].pc = "t_admit"
         /\ StartTicketWithoutCookie(w) => req'[w].pc = "t_open"
         /\ AdmitTicket(w) => req'[w].pc = "t_store"
         /\ StartReveal(w) => req'[w].pc = "r_consume"
         /\ ConsumeTicket(w) => req'[w].pc \in {"idle", "r_pool"}
         /\ ReadPool(w) => req'[w].pc = "r_scan"
         /\ ScanShown(w) => req'[w].pc \in {"r_scan", "r_quality"}
         /\ ScanQuality(w) => req'[w].pc = "r_scan"
         /\ Choose(w) => req'[w].pc \in {"idle", "r_mark"}
         /\ MarkShown(w) => req'[w].pc = "r_expire"
         /\ StartFeedback(w) => req'[w].pc = "f_shown"
         /\ CheckShown(w) => req'[w].pc \in {"idle", "f_claim"}
         /\ ClaimOnce(w) => req'[w].pc \in {"idle", "f_record"}
<1> USE DEF TypeOK, Goto, Idle, Request
<1>1. StartVerify(w) => req'[w].pc = "v_store"
  BY DEF StartVerify
<1>2. StoreVerified(w) => req'[w].pc = "idle"
  BY DEF StoreVerified
<1>3. StoreTicket(w) => req'[w].pc = "idle"
  BY DEF StoreTicket
<1>4. ExpireShown(w) => req'[w].pc = "idle"
  BY DEF ExpireShown
<1>5. RecordQuality(w) \/ Abort(w) => req'[w].pc = "idle"
  BY DEF RecordQuality, Abort
<1>6. StartTicket(w) \/ OpenSession(w) => req'[w].pc = "t_admit"
  <2>1. StartTicket(w) => req'[w].pc = "t_admit"
    BY DEF StartTicket
  <2>2. OpenSession(w) => req'[w].pc = "t_admit"
    BY DEF OpenSession
  <2>3. QED
    BY <2>1, <2>2
<1>7. StartTicketWithoutCookie(w) => req'[w].pc = "t_open"
  BY DEF StartTicketWithoutCookie
<1>8. AdmitTicket(w) => req'[w].pc = "t_store"
  BY DEF AdmitTicket
<1>9. StartReveal(w) => req'[w].pc = "r_consume"
  BY DEF StartReveal
<1>10. ConsumeTicket(w) => req'[w].pc \in {"idle", "r_pool"}
  <2>1. ConsumeTicket(w) =>
          Goto(w, Idle) \/ \E past : Goto(w, [req[w] EXCEPT !.pc = "r_pool", !.past = past])
    BY DEF ConsumeTicket
  <2>2. Goto(w, Idle) => req'[w].pc = "idle"
    OBVIOUS
  <2>3. ASSUME NEW past, Goto(w, [req[w] EXCEPT !.pc = "r_pool", !.past = past])
        PROVE  req'[w].pc = "r_pool"
    BY <2>3
  <2>4. QED
    BY <2>1, <2>2, <2>3
<1>11. ReadPool(w) => req'[w].pc = "r_scan"
  BY DEF ReadPool
<1>12. ScanShown(w) => req'[w].pc \in {"r_scan", "r_quality"}
  BY DEF ScanShown
<1>13. ScanQuality(w) => req'[w].pc = "r_scan"
  BY DEF ScanQuality
<1>14. Choose(w) => req'[w].pc \in {"idle", "r_mark"}
  <2>1. Goto(w, Idle) => req'[w].pc = "idle"
    OBVIOUS
  <2>2. ASSUME NEW a, Goto(w, [req[w] EXCEPT !.pc = "r_mark", !.acc = a])
        PROVE  req'[w].pc = "r_mark"
    BY <2>2
  <2>3. QED
    BY <2>1, <2>2 DEF Choose
<1>15. MarkShown(w) => req'[w].pc = "r_expire"
  BY DEF MarkShown
<1>16. StartFeedback(w) => req'[w].pc = "f_shown"
  BY DEF StartFeedback
<1>17. CheckShown(w) => req'[w].pc \in {"idle", "f_claim"}
  BY DEF CheckShown
<1>18. ClaimOnce(w) => req'[w].pc \in {"idle", "f_record"}
  BY DEF ClaimOnce
<1>19. QED
  BY <1>1, <1>2, <1>3, <1>4, <1>5, <1>6, <1>7, <1>8, <1>9, <1>10, <1>11, <1>12,
     <1>13, <1>14, <1>15, <1>16, <1>17, <1>18

\* How a request comes to a step at which Redis must remember its account.
LEMMA WhoMustRemember ==
  ASSUME TypeOK, [Next]_vars, NEW v \in Workers,
         req'[v].pc \in {"r_expire", "f_claim", "f_record"}
  PROVE  req'[v] = req[v] \/ MarkShown(v) \/ CheckShown(v) \/ ClaimOnce(v)
<1>1. CASE Handler(v)
  BY <1>1, WhereTo DEF Handler, Reveal
<1>2. ASSUME NEW w \in Workers \ {v}, Handler(w) PROVE req'[v] = req[v]
  BY <1>2, OthersWait
<1>3. CASE RedisRestart \/ Tick \/ UNCHANGED vars
  BY <1>3 DEF RedisRestart, Tick, vars
<1>4. QED
  BY <1>1, <1>2, <1>3 DEF Next

\* Every step keeps in Redis what requests are about to deliver or to record.
LEMMA RequestsKeptStep ==
  ASSUME TypeOK, RequestShape, SessionCustody, KeyLives, [Next]_vars
  PROVE  RequestsKept'
<1> SUFFICES ASSUME NEW v \in Workers, req'[v].pc \in {"r_expire", "f_claim", "f_record"},
                    NEW s, NEW a, s = req'[v].ses, a = req'[v].acc
             PROVE  Remembers(s, a)'
  BY DEF RequestsKept, Remembers, Durable
<1>1. req[v] \in Request /\ WellShaped(req[v], drawn)
  BY RequestFacts
<1> USE DEF WellShaped, RevealPCs, PaidPCs, ScanPCs, ReportPCs
<1>2. ASSUME req[v].pc \in {"r_expire", "f_claim", "f_record"}, s = req[v].ses, a = req[v].acc
      PROVE  Remembers(s, a)'
  <2>1. s \in Sessions \cap held /\ a \in Accounts /\ Remembers(s, a)
    BY <1>1, <1>2 DEF SessionCustody, KeyLives, RequestsKept
  <2>2. QED
    BY <2>1, MemoryPersists
<1>3. CASE MarkShown(v)
  <2>1. s = req[v].ses /\ a = req[v].acc /\ s \in Sessions \cap held /\ a \in Accounts
    BY <1>1, <1>3 DEF MarkShown, Goto, SessionCustody, Request, TypeOK
  <2>2. shown'[s] = AddShown(shown[s], a) /\ sess' = sess /\ now' = now
    BY <1>3, <2>1 DEF MarkShown, TypeOK
  <2>3. shown[s] \in [exp : Nat \cup {NoExpiry}, members : SUBSET Accounts]
    BY <2>1 DEF TypeOK
  <2>4. a \in shown'[s].members
    BY <2>2, <2>3 DEF AddShown
  <2>5. CASE Alive(shown[s].exp)
    <3>1. shown'[s].exp = shown[s].exp
      BY <2>2, <2>3, <2>5 DEF AddShown
    <3>2. shown[s].exp # Absent
      BY <2>3, <2>5 DEF Alive, Absent, NoExpiry, TypeOK
    <3>3. Alive(sess[s]) => Durable(s)
      BY <2>1, <3>2 DEF KeyLives, SessionLives
    <3>4. QED
      BY <2>2, <2>4, <3>1, <3>3 DEF Remembers, Durable, Alive
  <2>6. CASE ~Alive(shown[s].exp)
    <3>1. shown'[s].exp = NoExpiry
      BY <2>2, <2>6 DEF AddShown
    <3>2. QED
      BY <2>4, <3>1 DEF Remembers, Durable
  <2>7. QED
    BY <2>5, <2>6
<1>4. CASE CheckShown(v)
  <2>1. s = req[v].ses /\ a = req[v].acc /\ s \in Sessions \cap held /\ a \in Accounts
    BY <1>1, <1>4 DEF CheckShown, Goto, SessionCustody, Request, TypeOK, Idle
  <2>2. a \in shown[s].members /\ Alive(shown[s].exp)
    BY <1>4, <2>1 DEF CheckShown, Goto, Seen, ShownTo, Idle, TypeOK
  <2>3. shown[s].exp # Absent
    BY <2>1, <2>2 DEF Alive, Absent, NoExpiry, TypeOK
  <2>4. Remembers(s, a)
    BY <2>1, <2>2, <2>3 DEF Remembers, KeyLives, SessionLives
  <2>5. QED
    BY <2>1, <2>4, MemoryPersists
<1>5. CASE ClaimOnce(v)
  <2>1. Goto(v, Idle) \/ Goto(v, [req[v] EXCEPT !.pc = "f_record"])
    BY <1>5 DEF ClaimOnce
  <2>2. req[v].pc = "f_claim" /\ s = req[v].ses /\ a = req[v].acc
    BY <1>1, <1>5, <2>1 DEF ClaimOnce, Goto, Idle, Request, TypeOK
  <2>3. QED
    BY <1>2, <2>2
<1>6. QED
  BY <1>2, <1>3, <1>4, <1>5, WhoMustRemember

\* Every step keeps the locks of the reports made by living sessions.
LEMMA ClaimsKeptStep ==
  ASSUME TypeOK, RequestShape, SessionCustody, KeyLives, [Next]_vars
  PROVE  ClaimsKept'
<1> SUFFICES ASSUME NEW p \in claimed'
             PROVE  /\ Remembers(p[1], p[2])'
                    /\ (Alive(sess[p[1]]) => sess[p[1]] <= once[p[1]][p[2]])'
  BY DEF ClaimsKept
<1>1. \/ p \in claimed
      \/ \E w \in Workers : ClaimOnce(w) /\ p = <<req[w].ses, req[w].acc>>
  <2>1. claimed' = claimed \/ \E w \in Workers : ClaimOnce(w)
    BY DEF Next, Handler, Reveal, vars, history, StartVerify, StoreVerified, StartTicket,
       StartTicketWithoutCookie, OpenSession, AdmitTicket, StoreTicket, StartReveal,
       ConsumeTicket, ReadPool, ScanShown, ScanQuality, Choose, MarkShown, ExpireShown,
       StartFeedback, CheckShown, RecordQuality, Abort, RedisRestart, Tick
  <2>2. QED
    BY <2>1 DEF ClaimOnce
<1>2. ASSUME NEW w \in Workers, ClaimOnce(w)
      PROVE  /\ req[w].ses \in Sessions \cap held /\ req[w].acc \in Accounts
             /\ Remembers(req[w].ses, req[w].acc)
             /\ <<req[w].ses, req[w].acc>> \in claimed' =>
                  <<req[w].ses, req[w].acc>> \in claimed \/ once'[req[w].ses][req[w].acc] = OnceDeath
  <2>1. /\ req[w].ses \in Sessions \cap held /\ req[w].acc \in Accounts
        /\ Remembers(req[w].ses, req[w].acc)
    BY <1>2, RequestFacts DEF ClaimOnce, SessionCustody, KeyLives, RequestsKept,
       WellShaped, RevealPCs, PaidPCs, ScanPCs, ReportPCs
  <2>2. QED
    BY <1>2, <2>1 DEF ClaimOnce, TypeOK
<1>3. p[1] \in Sessions \cap held /\ p[2] \in Accounts /\ Remembers(p[1], p[2])
  BY <1>1, <1>2 DEF TypeOK, SessionCustody, KeyLives, ClaimsKept
<1>4. Remembers(p[1], p[2])'
  BY <1>3, MemoryPersists
<1>5. sess'[p[1]] <= sess[p[1]] /\ (Alive(sess[p[1]])' => Alive(sess[p[1]]))
  BY <1>3, HeldSessionsOnlyDie
<1>6. sess[p[1]] \in Nat /\ sess'[p[1]] \in Nat /\ once[p[1]][p[2]] \in Nat /\ once'[p[1]][p[2]] \in Nat /\ now \in Nat
  BY <1>3, TypeStep DEF TypeOK
<1>7. sess[p[1]] <= now + SessionTTL
  BY <1>3 DEF KeyLives, SessionLives
<1>8. ASSUME Alive(sess[p[1]])' PROVE sess'[p[1]] <= once'[p[1]][p[2]]
  <2>1. CASE once'[p[1]][p[2]] = OnceDeath
    BY <2>1, <1>5, <1>6, <1>7, TTLAssumption DEF OnceDeath
  <2>2. CASE once'[p[1]][p[2]] = once[p[1]][p[2]] /\ p \in claimed
    BY <2>2, <1>5, <1>6, <1>8 DEF KeyLives, ClaimsKept
  <2>3. CASE RedisRestart
    BY <2>3, <1>3, <1>6, <1>8 DEF RedisRestart, Alive, Absent, NoExpiry
  <2>4. once' = once \/ RedisRestart \/ \E w \in Workers : ClaimOnce(w)
    BY DEF Next, Handler, Reveal, vars, redis, StartVerify, StoreVerified, StartTicket,
       StartTicketWithoutCookie, OpenSession, AdmitTicket, StoreTicket, StartReveal,
       ConsumeTicket, ReadPool, ScanShown, ScanQuality, Choose, MarkShown, ExpireShown,
       StartFeedback, CheckShown, RecordQuality, Abort, Tick
  <2>5. ASSUME NEW w \in Workers, ClaimOnce(w), p # <<req[w].ses, req[w].acc>>
        PROVE  once'[p[1]][p[2]] = once[p[1]][p[2]]
    <3>1. p = <<p[1], p[2]>> /\ p[1] \in Sessions /\ p[2] \in Accounts
      BY <1>1, <1>3 DEF TypeOK
    <3>2. p[1] # req[w].ses \/ p[2] # req[w].acc
      BY <2>5, <3>1
    <3>3. once' = once \/ once' = [once EXCEPT ![req[w].ses][req[w].acc] = OnceDeath]
      BY <2>5 DEF ClaimOnce
    <3>4. req[w].ses \in Sessions /\ req[w].acc \in Accounts
          /\ once \in [Sessions -> [Accounts -> Nat]]
      BY <1>2, <2>5 DEF TypeOK
    <3>5. QED
      BY <3>1, <3>2, <3>3, <3>4, OneCellReplaced
  <2>6. ASSUME NEW w \in Workers, ClaimOnce(w), p = <<req[w].ses, req[w].acc>>
        PROVE  \/ once'[p[1]][p[2]] = OnceDeath
               \/ once'[p[1]][p[2]] = once[p[1]][p[2]] /\ p \in claimed
    <3>1. /\ req[w].ses \in Sessions /\ req[w].acc \in Accounts
          /\ once \in [Sessions -> [Accounts -> Nat]]
      BY <1>2, <2>6 DEF TypeOK
    <3>2. p[1] = req[w].ses /\ p[2] = req[w].acc
      BY <2>6
    <3>3. CASE once' = once /\ claimed' = claimed
      BY <3>3
    <3>4. CASE once' = [once EXCEPT ![req[w].ses][req[w].acc] = OnceDeath]
      BY <3>1, <3>2, <3>4, OneCellReplaced
    <3>5. QED
      BY <2>6, <3>3, <3>4 DEF ClaimOnce
  <2>7. QED
    BY <2>1, <2>2, <2>3, <2>4, <2>5, <2>6, <1>1
<1>9. QED
  BY <1>4, <1>8

-----------------------------------------------------------------------------
(* What a scan establishes *)

\* A request's knowledge of its session survives any step of the system.
LEMMA ScanFactPersists ==
  ASSUME TypeOK, RequestShape, SessionCustody, KeyLives, [Next]_vars,
         NEW r \in Request, r.pc \in RevealPCs => r.ses \in Sessions \cap held,
         ScanFact(r)
  PROVE  ScanFact(r)'
<1> SUFFICES ASSUME r.pc \in RevealPCs PROVE ScanFact(r)'
  BY DEF ScanFact, RevealPCs, PaidPCs, ScanPCs
<1>1. r.past \subseteq Accounts /\ r.pool \subseteq Accounts
  BY DEF Request
<1>2. \A a \in Accounts : Remembers(r.ses, a) => Remembers(r.ses, a)'
  BY MemoryPersists
<1>3. Alive(sess[r.ses])' => Alive(sess[r.ses])
  BY HeldSessionsOnlyDie
<1>4. QED
  BY <1>1, <1>2, <1>3 DEF ScanFact

\* An account in the session's shown set stays known for as long as the session lives,
\* and an account known is in the set.
LEMMA SeenIsRemembered ==
  ASSUME TypeOK, SessionLives, NEW s \in Sessions, NEW a \in Accounts
  PROVE  /\ Seen(s, a) => Remembers(s, a)
         /\ Remembers(s, a) /\ Alive(sess[s]) => Seen(s, a)
<1>1. /\ sess[s] \in Nat /\ now \in Nat
      /\ shown[s] \in [exp : Nat \cup {NoExpiry}, members : SUBSET Accounts]
  BY DEF TypeOK
<1>2. Alive(shown[s].exp) => shown[s].exp # Absent
  BY <1>1 DEF Alive, Absent, NoExpiry
<1>3. Durable(s) /\ Alive(sess[s]) => Alive(shown[s].exp)
  BY <1>1 DEF Durable, Alive, NoExpiry
<1>4. QED
  BY <1>2, <1>3 DEF Seen, ShownTo, Remembers, SessionLives

\* The reveal steps hand on a request whose scan facts hold in the state they read.
LEMMA ScanFactsHandedOn ==
  ASSUME TypeOK, RequestShape, SessionCustody, KeyLives, ScanFacts,
         NEW w \in Workers, Handler(w), NEW r, r = req'[w]
  PROVE  ScanFact(r)
<1> USE DEF RevealPCs, PaidPCs, ScanPCs
<1>1. /\ req[w] \in Request /\ WellShaped(req[w], drawn) /\ ScanFact(req[w])
      /\ req[w].pc \in RevealPCs => req[w].ses \in Sessions \cap held
  BY RequestFacts DEF ScanFacts, SessionCustody, WellShaped
<1>2. CASE r.pc \notin RevealPCs
  BY <1>2 DEF ScanFact
<1>3. CASE StartReveal(w)
  <2>1. PICK s \in Sessions \cap held, t \in Tickets \cap held, i \in Intents :
          Goto(w, [Idle EXCEPT !.pc = "r_consume", !.ses = s, !.tkt = t, !.clk = now,
                               !.intent = i])
    BY <1>3 DEF StartReveal
  <2>2. r.pc = "r_consume" /\ r.ses = s /\ r.past = {}
    BY <2>1 DEF Goto, Idle, TypeOK
  <2>3. QED
    BY <2>2 DEF ScanFact
<1>4. CASE ConsumeTicket(w)
  <2>1. req[w].pc = "r_consume" /\ (Goto(w, Idle) \/ Goto(w, [req[w] EXCEPT !.pc = "r_pool", !.past = DeliveredTo(req[w].ses)]))
    BY <1>4 DEF ConsumeTicket
  <2>2. CASE Goto(w, Idle)
    BY <2>2 DEF Goto, Idle, TypeOK, ScanFact
  <2>3. CASE Goto(w, [req[w] EXCEPT !.pc = "r_pool", !.past = DeliveredTo(req[w].ses)])
    <3>1. /\ r.pc = "r_pool" /\ r.past = DeliveredTo(req[w].ses)
          /\ r.ses = req[w].ses
      BY <1>1, <2>3 DEF Goto, Request, TypeOK
    <3>2. \A a \in DeliveredTo(req[w].ses) : Remembers(req[w].ses, a)
      BY DEF DeliveredTo, KeyLives, DeliveriesKept
    <3>3. QED
      BY <3>1, <3>2 DEF ScanFact
  <2>4. QED
    BY <2>1, <2>2, <2>3
<1>5. CASE ReadPool(w)
  <2>1. req[w].pc = "r_pool" /\ req[w].found = {}
    BY <1>1, <1>5 DEF ReadPool, WellShaped
  <2>2. /\ r.pc = "r_scan" /\ r.past = req[w].past /\ r.ses = req[w].ses
        /\ r.pool = r.todo /\ r.found = req[w].found
    BY <1>1, <1>5 DEF ReadPool, Goto, Request, TypeOK
  <2>3. QED
    BY <1>1, <2>1, <2>2 DEF ScanFact
<1>6. CASE ScanShown(w)
  <2>1. PICK a \in req[w].todo :
          Goto(w, IF Seen(req[w].ses, a)
                    THEN [req[w] EXCEPT !.todo = @ \ {a}]
                    ELSE [req[w] EXCEPT !.pc = "r_quality", !.acc = a, !.todo = @ \ {a}])
    BY <1>6 DEF ScanShown
  <2>2. req[w].pc = "r_scan" /\ a \in Accounts /\ req[w].past \subseteq Accounts
    BY <1>1, <1>6 DEF ScanShown, Request
  <2>3. /\ r.past = req[w].past /\ r.ses = req[w].ses /\ r.pool = req[w].pool
        /\ r.found = req[w].found /\ r.todo = req[w].todo \ {a}
    BY <1>1, <2>1 DEF Goto, Request, TypeOK
  <2>4. CASE Seen(req[w].ses, a)
    <3>1. r.pc = "r_scan"
      BY <1>1, <2>1, <2>2, <2>4 DEF Goto, Request, TypeOK
    <3>2. Remembers(r.ses, a)
      BY <1>1, <2>2, <2>3, <2>4, SeenIsRemembered DEF KeyLives
    <3>3. QED
      BY <1>1, <2>2, <2>3, <3>1, <3>2 DEF ScanFact
  <2>5. CASE ~Seen(req[w].ses, a)
    <3>1. r.pc = "r_quality" /\ r.acc = a
      BY <1>1, <2>1, <2>2, <2>5 DEF Goto, Request, TypeOK
    <3>2. ~(Remembers(r.ses, a) /\ Alive(sess[r.ses]))
      BY <1>1, <2>2, <2>3, <2>5, SeenIsRemembered DEF KeyLives
    <3>3. QED
      BY <1>1, <2>2, <2>3, <3>1, <3>2 DEF ScanFact
  <2>6. QED
    BY <2>4, <2>5
<1>7. CASE ScanQuality(w)
  <2>1. req[w].pc = "r_quality"
    BY <1>7 DEF ScanQuality
  <2>2. /\ r.pc = "r_scan" /\ r.past = req[w].past /\ r.ses = req[w].ses
        /\ r.pool = req[w].pool /\ r.todo = req[w].todo
        /\ r.found = req[w].found \cup {[acc |-> req[w].acc, quality |-> quality[req[w].acc]]}
    BY <1>1, <1>7 DEF ScanQuality, Goto, Request, TypeOK
  <2> DEFINE new == [acc |-> req[w].acc, quality |-> quality[req[w].acc]]
  <2>3. /\ new.acc = req[w].acc /\ new \in r.found /\ req[w].found \subseteq r.found
        /\ \A c \in r.found : c \in req[w].found \/ c = new
    BY <2>2
  <2> HIDE DEF new
  <2>4. QED
    BY <1>1, <2>1, <2>2, <2>3 DEF ScanFact
<1>8. CASE Choose(w)
  <2>1. req[w].pc = "r_scan"
    BY <1>8 DEF Choose
  <2>2. CASE Goto(w, Idle)
    BY <2>2 DEF Goto, Idle, TypeOK, ScanFact
  <2>3. ASSUME NEW c \in BestOf(req[w].intent, req[w].found),
               Goto(w, [req[w] EXCEPT !.pc = "r_mark", !.acc = c.acc])
        PROVE  ScanFact(r)
    <3>1. /\ r.pc = "r_mark" /\ r.past = req[w].past /\ r.ses = req[w].ses
          /\ r.found = req[w].found /\ r.acc = c.acc
      BY <1>1, <2>3 DEF Goto, Request, TypeOK
    <3>2. c \in req[w].found
      BY DEF BestOf
    <3>3. QED
      BY <1>1, <2>1, <3>1, <3>2 DEF ScanFact
  <2>4. QED
    BY <1>8, <2>2, <2>3 DEF Choose
<1>9. CASE MarkShown(w)
  <2>1. req[w].pc = "r_mark"
    BY <1>9 DEF MarkShown
  <2>2. /\ r.pc = "r_expire" /\ r.past = req[w].past /\ r.ses = req[w].ses
        /\ r.found = req[w].found /\ r.acc = req[w].acc
    BY <1>1, <1>9 DEF MarkShown, Goto, Request, TypeOK
  <2>3. QED
    BY <1>1, <2>1, <2>2 DEF ScanFact
<1>10. QED
  BY <1>2, <1>3, <1>4, <1>5, <1>6, <1>7, <1>8, <1>9, WhereTo DEF Handler, Reveal

\* Every step keeps what the scans have established.
LEMMA ScanFactsStep ==
  ASSUME TypeOK, RequestShape, SessionCustody, KeyLives, ScanFacts, [Next]_vars,
         SessionCustody'
  PROVE  ScanFacts'
<1> SUFFICES ASSUME NEW v \in Workers, NEW r, r = req'[v] PROVE ScanFact(r)'
  BY DEF ScanFacts, ScanFact, Remembers, Durable
<1>1. r \in Request
  BY TypeStep DEF TypeOK
<1>2. ScanFact(r) /\ (r.pc \in RevealPCs => r.ses \in Sessions \cap held)
  <2>1. CASE req'[v] = req[v]
    BY <2>1, RequestFacts DEF ScanFacts, SessionCustody, WellShaped,
       RevealPCs, PaidPCs, ScanPCs
  <2>2. CASE Handler(v)
    <3>1. ScanFact(r)
      BY <2>2, ScanFactsHandedOn
    <3>2. ASSUME r.pc \in RevealPCs PROVE r.ses \in Sessions \cap held
      <4>1. Reveal(v)
        BY <2>2, <3>2, WhereTo DEF Handler, RevealPCs, PaidPCs, ScanPCs
      <4>2. held' = held
        BY <4>1 DEF Reveal, StartReveal, ConsumeTicket, ReadPool, ScanShown, ScanQuality,
           Choose, MarkShown, ExpireShown, history
      <4>3. r.ses \in held' /\ r.ses \in Sessions
        BY <3>2, TypeStep DEF SessionCustody, RequestShape, WellShaped, RevealPCs, PaidPCs, ScanPCs
      <4>4. QED
        BY <4>2, <4>3
    <3>3. QED
      BY <3>1, <3>2
  <2>3. ASSUME NEW w \in Workers \ {v}, Handler(w) PROVE req'[v] = req[v]
    BY <2>3, OthersWait
  <2>4. CASE RedisRestart \/ Tick \/ UNCHANGED vars
    BY <2>1, <2>4 DEF RedisRestart, Tick, vars
  <2>5. QED
    BY <2>1, <2>2, <2>3, <2>4 DEF Next
<1>3. QED
  BY <1>1, <1>2, ScanFactPersists

\* Every step keeps the candidates of the scans in order.
LEMMA ScanOrderStep ==
  ASSUME TypeOK, RequestShape, ScanOrder, [Next]_vars
  PROVE  ScanOrder'
<1> USE RequestFacts DEF TypeOK, Goto, Idle, Request, redis, history, RequestShape,
         WellShaped, ScanOrder, Ordered, ScanPCs
<1>1. ASSUME NEW w \in Workers, StartVerify(w) PROVE ScanOrder'
  BY <1>1 DEF StartVerify
<1>2. ASSUME NEW w \in Workers, StoreVerified(w) PROVE ScanOrder'
  BY <1>2 DEF StoreVerified
<1>3. ASSUME NEW w \in Workers, StartTicket(w) PROVE ScanOrder'
  BY <1>3 DEF StartTicket
<1>4. ASSUME NEW w \in Workers, StartTicketWithoutCookie(w) PROVE ScanOrder'
  BY <1>4 DEF StartTicketWithoutCookie
<1>5. ASSUME NEW w \in Workers, OpenSession(w) PROVE ScanOrder'
  BY <1>5 DEF OpenSession
<1>6. ASSUME NEW w \in Workers, AdmitTicket(w) PROVE ScanOrder'
  BY <1>6 DEF AdmitTicket
<1>7. ASSUME NEW w \in Workers, StoreTicket(w) PROVE ScanOrder'
  BY <1>7 DEF StoreTicket
<1>8. ASSUME NEW w \in Workers, StartReveal(w) PROVE ScanOrder'
  BY <1>8 DEF StartReveal
<1>9. ASSUME NEW w \in Workers, ConsumeTicket(w) PROVE ScanOrder'
  <2>1. req[w].pc = "r_consume" /\ req[w].found = {}
    BY <1>9 DEF ConsumeTicket
  <2>2. CASE Goto(w, [req[w] EXCEPT !.pc = "r_pool", !.past = DeliveredTo(req[w].ses)])
    BY <2>1, <2>2
  <2>3. CASE Goto(w, Idle)
    BY <2>3
  <2>4. QED
    BY <1>9, <2>2, <2>3 DEF ConsumeTicket
<1>10. ASSUME NEW w \in Workers, ReadPool(w) PROVE ScanOrder'
  BY <1>10 DEF ReadPool
<1>11. ASSUME NEW w \in Workers, ScanShown(w) PROVE ScanOrder'
  BY <1>11 DEF ScanShown
<1>12. ASSUME NEW w \in Workers, ScanQuality(w) PROVE ScanOrder'
  BY <1>12 DEF ScanQuality
<1>13. ASSUME NEW w \in Workers, Choose(w) PROVE ScanOrder'
  <2>1. req[w].pc = "r_scan"
    BY <1>13 DEF Choose
  <2>2. ASSUME NEW c \in BestOf(req[w].intent, req[w].found),
               Goto(w, [req[w] EXCEPT !.pc = "r_mark", !.acc = c.acc])
        PROVE  ScanOrder'
    BY <2>1, <2>2
  <2>3. CASE Goto(w, Idle)
    BY <2>3
  <2>4. QED
    BY <1>13, <2>2, <2>3 DEF Choose
<1>14. ASSUME NEW w \in Workers, MarkShown(w) PROVE ScanOrder'
  BY <1>14 DEF MarkShown
<1>15. ASSUME NEW w \in Workers, ExpireShown(w) PROVE ScanOrder'
  BY <1>15 DEF ExpireShown
<1>16. ASSUME NEW w \in Workers, StartFeedback(w) PROVE ScanOrder'
  BY <1>16 DEF StartFeedback
<1>17. ASSUME NEW w \in Workers, CheckShown(w) PROVE ScanOrder'
  BY <1>17 DEF CheckShown
<1>18. ASSUME NEW w \in Workers, ClaimOnce(w) PROVE ScanOrder'
  <2>1. req[w].pc = "f_claim"
    BY <1>18 DEF ClaimOnce
  <2>2. CASE Goto(w, [req[w] EXCEPT !.pc = "f_record"])
    BY <2>1, <2>2
  <2>3. CASE Goto(w, Idle)
    BY <2>3
  <2>4. QED
    BY <1>18, <2>2, <2>3 DEF ClaimOnce
<1>19. ASSUME NEW w \in Workers, RecordQuality(w) PROVE ScanOrder'
  BY <1>19 DEF RecordQuality
<1>20. ASSUME NEW w \in Workers, Abort(w) PROVE ScanOrder'
  BY <1>20 DEF Abort
<1>21. CASE RedisRestart
  BY <1>21 DEF RedisRestart, NoShown
<1>22. CASE Tick
  BY <1>22 DEF Tick
<1>23. CASE UNCHANGED vars
  BY <1>23 DEF vars
<1>24. QED
  BY <1>1, <1>2, <1>3, <1>4, <1>5, <1>6, <1>7, <1>8, <1>9, <1>10, <1>11, <1>12,
     <1>13, <1>14, <1>15, <1>16, <1>17, <1>18, <1>19, <1>20, <1>21, <1>22, <1>23
     DEF Next, Handler, Reveal

-----------------------------------------------------------------------------
(* The invariant, and what follows from it *)

\* Every step keeps the whole invariant.
LEMMA InvariantStep ==
  ASSUME IInv, [Next]_vars
  PROVE  IInv'
<1> USE DEF IInv
<1>1. TypeOK' /\ RequestShape'
  BY TypeStep
<1>2. SessionCustody'
  BY SessionCustodyStep
<1>3. TicketCustody'
  BY TicketCustodyStep
<1>4. KeyLives'
  BY SessionLivesStep, DeliveriesKeptStep, RequestsKeptStep, ClaimsKeptStep DEF KeyLives
<1>5. ScanFacts'
  BY <1>2, ScanFactsStep
<1>6. ScanOrder'
  BY ScanOrderStep
<1>7. QED
  BY <1>1, <1>2, <1>3, <1>4, <1>5, <1>6

\* The inductive invariant holds in every reachable state.
THEOREM Invariance == Spec => []IInv
<1>1. Init => IInv
  BY InitInvariant
<1>2. IInv /\ [Next]_vars => IInv'
  BY InvariantStep
<1>3. QED
  BY <1>1, <1>2, PTL DEF Spec

\* The variables keep their types.
THEOREM TypeCorrect == Spec => []TypeOK
BY Invariance, PTL DEF IInv

\* One ticket never pays for two deliveries, and pays only its owner.
THEOREM TicketSafety == Spec => []TicketPaysOneReveal
<1>1. IInv => TicketPaysOneReveal
  BY DEF IInv, TicketCustody, TicketPaysOneReveal
<1>2. QED
  BY <1>1, Invariance, PTL

\* A living session's deliveries are all in its session-shown key.
THEOREM DeliverySafety == Spec => []DeliveredIsShown
<1>1. ASSUME IInv PROVE DeliveredIsShown
  <2>1. SUFFICES ASSUME NEW d \in delivered, Alive(sess[d.ses])
                 PROVE  d.acc \in ShownTo(d.ses)
    BY DEF DeliveredIsShown
  <2>2. d.ses \in Sessions /\ d.acc \in Accounts /\ Remembers(d.ses, d.acc)
    BY <1>1 DEF IInv, TypeOK, KeyLives, DeliveriesKept
  <2>3. QED
    BY <1>1, <2>1, <2>2, SeenIsRemembered DEF IInv, KeyLives, Seen
<1>2. QED
  BY <1>1, Invariance, PTL

\* A reveal never repeats to a living session what it got before the reveal began.
THEOREM NoRepeatSafety == Spec => []NoRepeatAfterDelivery
<1>1. IInv => NoRepeatAfterDelivery
  BY DEF IInv, ScanFacts, ScanFact, NoRepeatAfterDelivery
<1>2. QED
  BY <1>1, Invariance, PTL

\* "Exhausted" is only said to a living session that has seen the whole pool.
THEOREM ExhaustedSafety == Spec => []ExhaustedMeansShown
<1>1. ASSUME IInv PROVE ExhaustedMeansShown
  <2>1. SUFFICES ASSUME NEW w \in Workers,
                        req[w].pc = "r_scan", req[w].todo = {}, req[w].found = {},
                        Alive(sess[req[w].ses]),
                        NEW a \in req[w].pool
                 PROVE  a \in ShownTo(req[w].ses)
    BY DEF ExhaustedMeansShown
  <2>2. req[w].ses \in Sessions /\ a \in Accounts
    BY <1>1, <2>1, RequestFacts DEF IInv, WellShaped, Request
  <2>3. Remembers(req[w].ses, a)
    BY <1>1, <2>1 DEF IInv, ScanFacts, ScanFact
  <2>4. QED
    BY <1>1, <2>1, <2>2, <2>3, SeenIsRemembered DEF IInv, KeyLives, Seen
<1>2. QED
  BY <1>1, Invariance, PTL

\* An account a living session reported on stays locked against another report.
THEOREM ReportSafety == Spec => [](ReportLocksAccount /\ ReportedIsShown)
<1>1. ASSUME IInv PROVE ReportLocksAccount /\ ReportedIsShown
  <2>1. SUFFICES ASSUME NEW p \in claimed, Alive(sess[p[1]])
                 PROVE  Alive(once[p[1]][p[2]]) /\ p[2] \in ShownTo(p[1])
    BY DEF ReportLocksAccount, ReportedIsShown
  <2>2. p[1] \in Sessions /\ p[2] \in Accounts
    BY <1>1 DEF IInv, TypeOK
  <2>3. Remembers(p[1], p[2]) /\ sess[p[1]] <= once[p[1]][p[2]]
    BY <1>1, <2>1 DEF IInv, KeyLives, ClaimsKept
  <2>4. sess[p[1]] \in Nat /\ once[p[1]][p[2]] \in Nat /\ now \in Nat
    BY <1>1, <2>2 DEF IInv, TypeOK
  <2>5. Alive(once[p[1]][p[2]])
    BY <2>1, <2>3, <2>4 DEF Alive, NoExpiry
  <2>6. p[2] \in ShownTo(p[1])
    BY <1>1, <2>1, <2>2, <2>3, SeenIsRemembered DEF IInv, KeyLives, Seen
  <2>7. QED
    BY <2>5, <2>6
<1>2. QED
  BY <1>1, Invariance, PTL

\* The best of a set that holds a better verdict than a failed login is no failed login.
LEMMA FailedRanksLast ==
  ASSUME NEW intent, NEW found, NEW c \in BestOf(intent, found), c.quality = Failed,
         NEW d \in found, d.quality \in AllVerdicts \cup {Unrated}
  PROVE  d.quality = Failed
<1>1. ~Beats(intent, d.quality, c.quality)
  BY DEF BestOf
<1>2. QED
  BY <1>1 DEF Beats, IntentRank, QualityRank, FrontGroup, AllVerdicts,
     Available, Missing, LoginOk, Failed, Unrated

\* A failed login is chosen only when the scan found nothing else.
THEOREM RankingSafety == Spec => []FailedIsLastResort
<1>1. ASSUME IInv PROVE FailedIsLastResort
  <2>1. SUFFICES ASSUME NEW w \in Workers, req[w].pc \in {"r_mark", "r_expire"},
                        [acc |-> req[w].acc, quality |-> Failed] \in req[w].found,
                        NEW d \in req[w].found
                 PROVE  d.quality = Failed
    BY DEF FailedIsLastResort
  <2>2. PICK c \in BestOf(req[w].intent, req[w].found) : c.acc = req[w].acc
    BY <1>1, <2>1 DEF IInv, ScanOrder, Ordered
  <2>3. c = [acc |-> req[w].acc, quality |-> Failed]
    BY <1>1, <2>1, <2>2 DEF IInv, ScanOrder, Ordered, BestOf
  <2>4. d.quality \in AllVerdicts \cup {Unrated}
    BY <1>1, <2>1, RequestFacts, InputAssumption DEF IInv, Request, Candidate
  <2>5. c.quality = Failed
    BY <2>3
  <2>6. QED
    BY <2>4, <2>5, FailedRanksLast
<1>2. QED
  BY <1>1, Invariance, PTL

-----------------------------------------------------------------------------
(* What leaves the ledger alone *)

\* Who is opening a session, and who has taken a ticket, after worker w went on with r.
LEMMA WorkersAfter ==
  ASSUME TypeOK, NEW w \in Workers, NEW r, Goto(w, r)
  PROVE  /\ req'[w] = r
         /\ \A v \in Workers \ {w} : req'[v] = req[v]
BY DEF Goto, TypeOK

\* Sessions keep their phase while no session is stored or drawn, no time passes and
\* the request is not opening one.
LEMMA SessionsStay ==
  ASSUME TypeOK, NEW w \in Workers, NEW r, Goto(w, r), UNCHANGED <<now, sess>>,
         drawn \cap Sessions = drawn' \cap Sessions,
         req[w].pc \notin OpeningPCs, r.pc \notin OpeningPCs
  PROVE  SessionPhases' = SessionPhases
<1>1. \A s \in Sessions : Opening(s)' <=> Opening(s)
  BY WorkersAfter DEF Opening
<1>2. \A s \in Sessions : SessionPhase(s)' = SessionPhase(s)
  BY <1>1 DEF SessionPhase, Alive
<1>3. QED
  BY <1>2 DEF SessionPhases

\* Who took which ticket, and what was known by then, stays while the request neither
\* takes a ticket nor gives one up.
LEMMA KnownStays ==
  ASSUME TypeOK, NEW w \in Workers, NEW r, Goto(w, r),
         req[w].pc \in PaidPCs <=> r.pc \in PaidPCs,
         r.pc \in PaidPCs => r.tkt = req[w].tkt /\ r.past = req[w].past
  PROVE  /\ \A t \in Tickets : Payers(t)' = Payers(t)
         /\ Known' = Known
<1>1. \A t \in Tickets : Payers(t)' = Payers(t)
  BY WorkersAfter DEF Payers
<1>2. \A v \in Workers : req[v].pc \in PaidPCs => req'[v].past = req[v].past
  BY WorkersAfter
<1>3. \A t \in Tickets : KnownAt(t)' = KnownAt(t)
  BY <1>1, <1>2 DEF KnownAt, Payers
<1>4. QED
  BY <1>1, <1>3 DEF Known

\* Nor does such a request change a ticket's phase, if no ticket is written.
LEMMA TicketsStay ==
  ASSUME TypeOK, NEW w \in Workers, NEW r, Goto(w, r), UNCHANGED <<now, ticket>>,
         req[w].pc \in PaidPCs <=> r.pc \in PaidPCs,
         r.pc \in PaidPCs => r.tkt = req[w].tkt /\ r.past = req[w].past
  PROVE  UNCHANGED <<TicketPhases, Owners, Known>>
<1>1. /\ \A t \in Tickets : Payers(t)' = Payers(t)
      /\ Known' = Known
  BY KnownStays
<1>2. \A t \in Tickets : TicketPhase(t)' = TicketPhase(t)
  BY <1>1 DEF TicketPhase, Alive
<1>3. QED
  BY <1>1, <1>2 DEF TicketPhases, Owners

\* A lock stays where its session keeps its phase and no report is claimed.
LEMMA LocksStay ==
  ASSUME TypeOK, SessionPhases' = SessionPhases, UNCHANGED <<now, once, claimed>>
  PROVE  Locked' = Locked
<1>1. \A s \in Sessions : SessionPhase(s)' = SessionPhase(s)
  BY DEF SessionPhases
<1>2. \A p \in claimed : p[1] \in Sessions
  BY DEF TypeOK
<1>3. QED
  BY <1>1, <1>2 DEF Locked, Alive

\* A step of a request that touches no key the ledger is about leaves it alone.
LEMMA QuietStep ==
  ASSUME TypeOK, NEW w \in Workers, NEW r, Goto(w, r),
         UNCHANGED <<now, sess, ticket, once, delivered, claimed>>,
         drawn \cap Sessions = drawn' \cap Sessions,
         req[w].pc \notin OpeningPCs, r.pc \notin OpeningPCs,
         req[w].pc \in PaidPCs <=> r.pc \in PaidPCs,
         r.pc \in PaidPCs => r.tkt = req[w].tkt /\ r.past = req[w].past
  PROVE  UNCHANGED Ledger!vars
<1>1. SessionPhases' = SessionPhases
  BY SessionsStay
<1>2. UNCHANGED <<TicketPhases, Owners, Known>>
  BY TicketsStay
<1>3. Locked' = Locked
  BY <1>1, LocksStay
<1>4. Paid' = Paid
  BY DEF Paid
<1>5. QED
  BY <1>1, <1>2, <1>3, <1>4 DEF Ledger!vars

-----------------------------------------------------------------------------
(* What moves it *)

\* A session token that is drawn is still new to the ledger.
LEMMA DrawStep ==
  ASSUME TypeOK, RequestShape, NEW w \in Workers,
         StartVerify(w) \/ StartTicketWithoutCookie(w)
  PROVE  UNCHANGED Ledger!vars
<1>1. PICK s \in Sessions \ drawn :
        /\ drawn' = drawn \cup {s}
        /\ \/ Goto(w, [Idle EXCEPT !.pc = "v_store", !.ses = s])
           \/ Goto(w, [Idle EXCEPT !.pc = "t_open", !.ses = s])
  BY DEF StartVerify, StartTicketWithoutCookie
<1>2. /\ req[w].pc = "idle"
      /\ UNCHANGED <<now, sess, ticket, once, delivered, claimed>>
  BY DEF StartVerify, StartTicketWithoutCookie, redis
<1>3. PICK r : Goto(w, r) /\ r.pc \in OpeningPCs /\ r.ses = s
  <2>1. /\ [Idle EXCEPT !.pc = "v_store", !.ses = s].pc \in OpeningPCs
        /\ [Idle EXCEPT !.pc = "v_store", !.ses = s].ses = s
    BY DEF Idle, OpeningPCs
  <2>2. /\ [Idle EXCEPT !.pc = "t_open", !.ses = s].pc \in OpeningPCs
        /\ [Idle EXCEPT !.pc = "t_open", !.ses = s].ses = s
    BY DEF Idle, OpeningPCs
  <2>3. QED
    BY <1>1, <2>1, <2>2
<1>4. r.pc \notin PaidPCs /\ req[w].pc \notin PaidPCs /\ req[w].pc \notin OpeningPCs
  BY <1>2, <1>3 DEF OpeningPCs, PaidPCs, ScanPCs
<1>5. \A u \in Sessions : Opening(u)' <=> Opening(u) \/ u = s
  BY <1>3, <1>4, WorkersAfter DEF Opening
<1>6. \A u \in Sessions : SessionPhase(u)' = SessionPhase(u)
  BY <1>1, <1>2, <1>5 DEF SessionPhase, Alive
<1>7. SessionPhases' = SessionPhases
  BY <1>6 DEF SessionPhases
<1>8. UNCHANGED <<TicketPhases, Owners, Known>>
  BY <1>2, <1>3, <1>4, TicketsStay
<1>9. Locked' = Locked
  BY <1>2, <1>7, LocksStay
<1>10. QED
  BY <1>2, <1>7, <1>8, <1>9 DEF Ledger!vars, Paid

\* The opening request is the only one that knows its session.
LEMMA OpenStep ==
  ASSUME IInv, NEW w \in Workers, StoreVerified(w) \/ OpenSession(w),
         NEW s, s = req[w].ses
  PROVE  s \in Sessions /\ Ledger!Open(s)
<1> USE DEF IInv
<1>1. PICK r : /\ Goto(w, r) /\ r.pc \notin OpeningPCs
               /\ r.pc \notin PaidPCs
  BY RequestFacts DEF StoreVerified, OpenSession, Idle, Request, OpeningPCs, PaidPCs, ScanPCs
<1>2. /\ req[w].pc \in OpeningPCs /\ req[w].pc \notin PaidPCs /\ req[w].pc # "idle"
      /\ sess' = [sess EXCEPT ![s] = now + SessionTTL]
      /\ UNCHANGED <<now, ticket, once, drawn, delivered, claimed>>
  BY DEF StoreVerified, OpenSession, SessionDeath, OpeningPCs, PaidPCs, ScanPCs, history
<1>3. /\ s \in Sessions \cap drawn /\ s \notin held
      /\ \A v \in Workers \ {w} : req[v].pc \in OpeningPCs => req[v].ses # s
  BY <1>2, RequestFacts DEF WellShaped, SessionCustody, OpeningPCs
<1>4. Opening(s) /\ ~Opening(s)'
  <2>1. Opening(s)
    BY <1>2 DEF Opening
  <2>2. \A v \in Workers : ~(req'[v].pc \in OpeningPCs /\ req'[v].ses = s)
    BY <1>1, <1>3, WorkersAfter
  <2>3. QED
    BY <2>1, <2>2 DEF Opening
<1>5. \A u \in Sessions \ {s} : Opening(u)' <=> Opening(u)
  BY <1>1, <1>2, WorkersAfter DEF Opening
<1>6. SessionPhase(s) = "new"
  BY <1>4 DEF SessionPhase
<1>7. sess'[s] = now + SessionTTL /\ now \in Nat
  BY <1>2, <1>3 DEF TypeOK
<1>8. SessionPhase(s)' = "open"
  <2>1. Alive(sess[s])'
    BY <1>2, <1>7, TTLAssumption DEF Alive
  <2>2. QED
    BY <1>2, <1>3, <1>4, <2>1 DEF SessionPhase
<1>9. \A u \in Sessions \ {s} : SessionPhase(u)' = SessionPhase(u)
  BY <1>2, <1>3, <1>5 DEF SessionPhase, Alive, TypeOK
<1>10. SessionPhases' = [SessionPhases EXCEPT ![s] = "open"]
  <2>1. SessionPhases' = [u \in Sessions |-> IF u = s THEN "open" ELSE SessionPhase(u)]
    BY <1>8, <1>9 DEF SessionPhases
  <2>2. QED
    BY <1>3, <2>1 DEF SessionPhases
<1>11. UNCHANGED <<TicketPhases, Owners, Known>>
  BY <1>1, <1>2, TicketsStay
<1>12. \A p \in claimed : p[1] \in Sessions \ {s}
  BY <1>3 DEF SessionCustody, TypeOK
<1>13. Locked' = Locked
  BY <1>2, <1>9, <1>12 DEF Locked, Alive
<1>14. Paid' = Paid
  BY <1>2 DEF Paid
<1>15. SessionPhases[s] = "new"
  BY <1>3, <1>6 DEF SessionPhases
<1>16. QED
  BY <1>3, <1>10, <1>11, <1>13, <1>14, <1>15 DEF Ledger!Open

\* A ticket is stored once, by the only request that drew it.
LEMMA IssueStep ==
  ASSUME IInv, Unstored, NEW w \in Workers, StoreTicket(w),
         NEW t, t = req[w].tkt, NEW s, s = req[w].ses
  PROVE  t \in Tickets /\ s \in Sessions /\ Ledger!Issue(t, s)
<1> USE DEF IInv
<1>1. /\ Goto(w, Idle) /\ req[w].pc = "t_store"
      /\ UNCHANGED <<now, sess, once, drawn, delivered, claimed>>
      /\ ticket' = [ticket EXCEPT ![t] = [exp |-> now + TicketTTL, ses |-> s, clk |-> req[w].clk]]
  BY DEF StoreTicket
<1>2. t \in Tickets /\ s \in Sessions \cap drawn /\ ticket[t].ses = None
  BY <1>1, RequestFacts DEF WellShaped, Unstored
<1>3. /\ req[w].pc \notin PaidPCs \cup OpeningPCs /\ Idle.pc \notin PaidPCs \cup OpeningPCs
  BY <1>1 DEF PaidPCs, ScanPCs, OpeningPCs, Idle
<1>4. SessionPhases' = SessionPhases
  BY <1>1, <1>3, SessionsStay
<1>5. SessionPhases[s] # "new"
  <2>1. ~Opening(s)
    BY <1>1, <1>3 DEF Opening, SessionCustody
  <2>2. QED
    BY <1>2, <2>1 DEF SessionPhases, SessionPhase
<1>6. /\ \A u \in Tickets : Payers(u)' = Payers(u)
      /\ Known' = Known
  BY <1>1, <1>3, KnownStays
<1>7. /\ ticket'[t].ses = s /\ ticket'[t].exp = now + TicketTTL
      /\ \A u \in Tickets \ {t} : ticket'[u] = ticket[u]
      /\ now \in Nat
  BY <1>1, <1>2 DEF TypeOK
<1>8. TicketPhase(t)' = "issued"
  BY <1>1, <1>2, <1>7, TTLAssumption, NoneAssumption DEF TicketPhase, Alive
<1>9. \A u \in Tickets \ {t} : TicketPhase(u)' = TicketPhase(u)
  BY <1>1, <1>6, <1>7 DEF TicketPhase, Alive
<1>10. TicketPhases' = [TicketPhases EXCEPT ![t] = "issued"]
  BY <1>8, <1>9 DEF TicketPhases
<1>11. Owners' = [Owners EXCEPT ![t] = s]
  BY <1>7 DEF Owners
<1>12. Locked' = Locked /\ Paid' = Paid
  BY <1>1, <1>4, LocksStay DEF Paid
<1>13. TicketPhases[t] = "unissued"
  BY <1>2 DEF TicketPhases, TicketPhase
<1>14. QED
  BY <1>2, <1>4, <1>5, <1>6, <1>10, <1>11, <1>12, <1>13 DEF Ledger!Issue

\* What the tickets of a session paid is what was delivered to it.
LEMMA PaidToIsDeliveredTo ==
  ASSUME TypeOK, TicketCustody, NEW s \in Sessions
  PROVE  Ledger!PaidTo(s) = DeliveredTo(s)
<1>1. \A d \in delivered : d.tkt \in Tickets /\ ticket[d.tkt].ses = d.ses
  BY DEF TypeOK, TicketCustody
<1>2. ASSUME NEW a
      PROVE  a \in Ledger!PaidTo(s) <=> \E d \in delivered : d.ses = s /\ d.acc = a
  <2>1. a \in Ledger!PaidTo(s) <=> \E t \in Tickets : Owners[t] = s /\ a \in Paid[t]
    BY DEF Ledger!PaidTo
  <2>2. \A t \in Tickets : /\ Owners[t] = ticket[t].ses
                           /\ a \in Paid[t] <=> \E d \in delivered : d.tkt = t /\ d.acc = a
    BY DEF Owners, Paid
  <2>3. QED
    BY <1>1, <2>1, <2>2
<1>3. QED
  BY <1>2 DEF DeliveredTo

\* While a ticket is alive, no reveal has taken it.
LEMMA LiveTicketsAreFree ==
  ASSUME TypeOK, TicketCustody, NEW t \in Tickets, Alive(ticket[t].exp)
  PROVE  Payers(t) = {}
<1>1. ~Alive(Absent)
  BY DEF Alive, Absent, NoExpiry, TypeOK
<1>2. QED
  BY <1>1 DEF Payers, TicketCustody

\* GETDEL of a ticket that admits the session redeems it.
LEMMA RedeemStep ==
  ASSUME IInv, NEW w \in Workers, ConsumeTicket(w), NEW t, t = req[w].tkt,
         Admits(ticket[t], req[w].ses, req[w].clk)
  PROVE  t \in Tickets /\ Ledger!Redeem(t)
<1> USE DEF IInv
<1> DEFINE r == [req[w] EXCEPT !.pc = "r_pool", !.past = DeliveredTo(req[w].ses)]
<1>1. /\ Goto(w, r) /\ req[w].pc = "r_consume"
      /\ UNCHANGED <<now, sess, once, drawn, delivered, claimed>>
      /\ ticket' = [ticket EXCEPT ![t] = [@ EXCEPT !.exp = Absent]]
  BY DEF ConsumeTicket, TakeTicket, history
<1>2. /\ t \in Tickets /\ req[w].ses \in Sessions
      /\ ticket[t].ses = req[w].ses /\ Alive(ticket[t].exp) /\ ~Alive(Absent)
  BY <1>1, RequestFacts DEF WellShaped, Admits, RevealPCs, Alive, Absent, NoExpiry, TypeOK
<1>3. /\ r.pc = "r_pool" /\ r.tkt = t /\ r.past = DeliveredTo(req[w].ses)
      /\ req[w] \in Request
  BY <1>1 DEF TypeOK, Request
<1> HIDE DEF r
<1>4. /\ r.pc \in PaidPCs /\ req[w].pc \notin PaidPCs
      /\ r.pc \notin OpeningPCs /\ req[w].pc \notin OpeningPCs
  BY <1>1, <1>3 DEF PaidPCs, ScanPCs, OpeningPCs
<1>5. SessionPhases' = SessionPhases
  BY <1>1, <1>4, SessionsStay
<1>6. Payers(t) = {}
  BY <1>2, LiveTicketsAreFree
<1>7. Payers(t)' = {w} /\ \A u \in Tickets \ {t} : Payers(u)' = Payers(u)
  BY <1>1, <1>3, <1>4, <1>6, WorkersAfter DEF Payers
<1>8. KnownAt(t)' = DeliveredTo(req[w].ses)
  <2>1. req'[w].past = DeliveredTo(req[w].ses)
    BY <1>1, <1>3, WorkersAfter
  <2>2. QED
    BY <1>7, <2>1 DEF KnownAt
<1>9. \A u \in Tickets \ {t} : KnownAt(u)' = KnownAt(u)
  <2>1. \A v \in Workers \ {w} : req'[v] = req[v]
    BY <1>1, WorkersAfter
  <2>2. \A u \in Tickets : w \notin Payers(u)
    BY <1>4 DEF Payers
  <2>3. QED
    BY <1>7, <2>1, <2>2 DEF KnownAt, Payers
<1>10. Known' = [Known EXCEPT ![t] = Ledger!PaidTo(Owners[t])]
  <2>1. Ledger!PaidTo(Owners[t]) = DeliveredTo(req[w].ses)
    BY <1>2, PaidToIsDeliveredTo DEF Owners
  <2>2. QED
    BY <1>8, <1>9, <2>1 DEF Known
<1>11. /\ ticket'[t].ses = ticket[t].ses /\ ticket'[t].exp = Absent
       /\ \A u \in Tickets \ {t} : ticket'[u] = ticket[u]
  BY <1>1, <1>2 DEF TypeOK
<1>12. TicketPhase(t) = "issued" /\ TicketPhase(t)' = "redeemed"
  <2>1. ticket[t].ses # None
    BY <1>2, NoneAssumption
  <2>2. ~Alive(ticket[t].exp)'
    BY <1>1, <1>2, <1>11 DEF Alive
  <2>3. QED
    BY <1>2, <1>7, <1>11, <2>1, <2>2 DEF TicketPhase
<1>13. \A u \in Tickets \ {t} : TicketPhase(u)' = TicketPhase(u)
  BY <1>1, <1>7, <1>11 DEF TicketPhase, Alive
<1>14. /\ TicketPhases[t] = "issued"
       /\ TicketPhases' = [TicketPhases EXCEPT ![t] = "redeemed"]
  BY <1>2, <1>12, <1>13 DEF TicketPhases
<1>15. Owners' = Owners
  BY <1>11 DEF Owners
<1>16. Locked' = Locked /\ Paid' = Paid
  BY <1>1, <1>5, LocksStay DEF Paid
<1>17. QED
  BY <1>2, <1>5, <1>10, <1>14, <1>15, <1>16 DEF Ledger!Redeem

\* The ticket of a reveal under way is its own, and dead in Redis.
LEMMA PayersAlone ==
  ASSUME IInv, NEW w \in Workers, req[w].pc \in PaidPCs, NEW t, t = req[w].tkt
  PROVE  /\ t \in Tickets /\ ticket[t].ses = req[w].ses /\ ticket[t].exp = Absent
         /\ req[w].ses \in Sessions
         /\ Payers(t) = {w}
         /\ \A d \in delivered : d.tkt # t
         /\ TicketPhase(t) = "redeemed" /\ KnownAt(t) = req[w].past
<1> USE DEF IInv
<1>1. t \in Tickets /\ req[w].ses \in Sessions
  BY RequestFacts DEF WellShaped, RevealPCs, PaidPCs, ScanPCs
<1>2. /\ ticket[t].ses = req[w].ses /\ ticket[t].exp = Absent
      /\ \A v \in Workers \ {w} : req[v].pc \in PaidPCs => req[v].tkt # t
      /\ \A d \in delivered : d.tkt # t
  BY DEF TicketCustody
<1>3. Payers(t) = {w}
  BY <1>2 DEF Payers
<1>4. ~Alive(ticket[t].exp)
  BY <1>2 DEF Alive, Absent, NoExpiry, TypeOK
<1>5. TicketPhase(t) = "redeemed"
  BY <1>1, <1>2, <1>3, <1>4, NoneAssumption DEF TicketPhase
<1>6. KnownAt(t) = req[w].past
  BY <1>3 DEF KnownAt
<1>7. QED
  BY <1>1, <1>2, <1>3, <1>5, <1>6

\* When the reveal that took ticket t is over, t is spent and nothing of it is known.
LEMMA RevealOver ==
  ASSUME IInv, NEW w \in Workers, req[w].pc \in PaidPCs, NEW t, t = req[w].tkt,
         Goto(w, Idle), UNCHANGED <<now, sess, ticket, drawn>>
  PROVE  /\ SessionPhases' = SessionPhases /\ Owners' = Owners
         /\ TicketPhases' = [TicketPhases EXCEPT ![t] = "spent"]
         /\ Known' = [Known EXCEPT ![t] = {}]
<1> USE DEF IInv
<1>1. /\ t \in Tickets /\ ticket[t].ses # None /\ ticket[t].exp = Absent /\ Payers(t) = {w}
  BY PayersAlone, NoneAssumption
<1>2. Idle.pc \notin PaidPCs \cup OpeningPCs /\ req[w].pc \notin OpeningPCs
  BY DEF PaidPCs, ScanPCs, OpeningPCs, Idle
<1>3. Payers(t)' = {} /\ \A u \in Tickets \ {t} : Payers(u)' = Payers(u)
  BY <1>1, <1>2, WorkersAfter DEF Payers
<1>4. KnownAt(t)' = {}
  BY <1>3 DEF KnownAt
<1>5. \A u \in Tickets \ {t} : KnownAt(u)' = KnownAt(u)
  <2>1. \A u \in Tickets \ {t} : w \notin Payers(u)
    BY DEF Payers
  <2>2. QED
    BY <1>3, <2>1, WorkersAfter DEF KnownAt, Payers
<1>6. ~Alive(ticket[t].exp)'
  BY <1>1 DEF Alive, Absent, NoExpiry, TypeOK
<1>7. TicketPhase(t)' = "spent"
  BY <1>1, <1>3, <1>6 DEF TicketPhase
<1>8. \A u \in Tickets \ {t} : TicketPhase(u)' = TicketPhase(u)
  BY <1>3 DEF TicketPhase, Alive
<1>9. TicketPhases' = [TicketPhases EXCEPT ![t] = "spent"]
  BY <1>7, <1>8 DEF TicketPhases
<1>10. Known' = [Known EXCEPT ![t] = {}]
  BY <1>4, <1>5 DEF Known
<1>11. SessionPhases' = SessionPhases
  BY <1>2, SessionsStay
<1>12. QED
  BY <1>9, <1>10, <1>11 DEF Owners

\* A reveal that ends without an account, or whose answer is lost, lets its ticket lapse.
LEMMA GiveUpStep ==
  ASSUME IInv, NEW w \in Workers, req[w].pc \in PaidPCs, NEW t, t = req[w].tkt,
         Goto(w, Idle), UNCHANGED <<now, sess, ticket, once, drawn, delivered, claimed>>
  PROVE  t \in Tickets /\ Ledger!Lapse({}, {t})
<1> USE DEF IInv
<1>1. t \in Tickets /\ TicketPhase(t) = "redeemed"
  BY PayersAlone
<1>2. /\ SessionPhases' = SessionPhases /\ Owners' = Owners
      /\ TicketPhases' = [TicketPhases EXCEPT ![t] = "spent"]
      /\ Known' = [Known EXCEPT ![t] = {}]
  BY RevealOver
<1>3. Locked' = Locked /\ Paid' = Paid
  BY <1>2, LocksStay DEF Paid
<1>4. {t} \subseteq {u \in Tickets : TicketPhases[u] \in {"issued", "redeemed"}}
  BY <1>1 DEF TicketPhases
<1>5. /\ SessionPhases' = [u \in Sessions |-> IF u \in {} THEN "over" ELSE SessionPhases[u]]
      /\ TicketPhases' = [u \in Tickets |-> IF u \in {t} THEN "spent" ELSE TicketPhases[u]]
      /\ Known' = [u \in Tickets |-> IF u \in {t} THEN {} ELSE Known[u]]
  BY <1>1, <1>2 DEF SessionPhases, TicketPhases, Known
<1>6. QED
  BY <1>1, <1>2, <1>3, <1>4, <1>5 DEF Ledger!Lapse

\* The answer that carries an account is what the ticket pays.
LEMMA PayStep ==
  ASSUME IInv, NEW w \in Workers, ExpireShown(w), delivered' # delivered,
         NEW t, t = req[w].tkt, NEW a, a = req[w].acc
  PROVE  t \in Tickets /\ a \in Accounts /\ Ledger!Pay(t, a)
<1> USE DEF IInv
<1>1. /\ Goto(w, Idle) /\ req[w].pc = "r_expire"
      /\ UNCHANGED <<now, sess, ticket, once, drawn, claimed>>
      /\ delivered' = delivered \cup {[ses |-> req[w].ses, acc |-> a, tkt |-> t]}
  BY DEF ExpireShown
<1>2. req[w].pc \in PaidPCs /\ a \in Accounts
  BY <1>1, RequestFacts DEF PaidPCs, ScanPCs, WellShaped
<1>3. /\ t \in Tickets /\ TicketPhase(t) = "redeemed" /\ KnownAt(t) = req[w].past
      /\ ticket[t].ses = req[w].ses /\ req[w].ses \in Sessions
      /\ \A d \in delivered : d.tkt # t
  BY <1>2, PayersAlone
<1>4. /\ SessionPhases' = SessionPhases /\ Owners' = Owners
      /\ TicketPhases' = [TicketPhases EXCEPT ![t] = "spent"]
      /\ Known' = [Known EXCEPT ![t] = {}]
  BY <1>1, <1>2, RevealOver
<1>5. Locked' = Locked
  BY <1>1, <1>4, LocksStay
<1>6. Paid' = [Paid EXCEPT ![t] = {a}]
  <2>1. Paid'[t] = {a}
    BY <1>1, <1>3 DEF Paid
  <2>2. \A u \in Tickets \ {t} : Paid'[u] = Paid[u]
    BY <1>1 DEF Paid
  <2>3. QED
    BY <1>3, <2>1, <2>2 DEF Paid
<1>7. SessionPhases[Owners[t]] = "open" => a \notin Known[t]
  <2>1. Owners[t] = req[w].ses /\ Known[t] = req[w].past
    BY <1>3 DEF Owners, Known
  <2>2. SessionPhases[req[w].ses] = "open" => Alive(sess[req[w].ses])
    BY <1>3 DEF SessionPhases, SessionPhase
  <2>3. Alive(sess[req[w].ses]) => a \notin req[w].past
    BY <1>1 DEF ScanFacts, ScanFact
  <2>4. QED
    BY <2>1, <2>2, <2>3
<1>8. TicketPhases[t] = "redeemed"
  BY <1>3 DEF TicketPhases
<1>9. QED
  BY <1>2, <1>3, <1>4, <1>5, <1>6, <1>7, <1>8 DEF Ledger!Pay

\* GETDEL of a ticket that does not admit the session spoils it, if it was alive.
LEMMA RefuseStep ==
  ASSUME IInv, NEW w \in Workers, ConsumeTicket(w), NEW t, t = req[w].tkt,
         ~Admits(ticket[t], req[w].ses, req[w].clk)
  PROVE  t \in Tickets /\ (Ledger!Lapse({}, {t}) \/ UNCHANGED Ledger!vars)
<1> USE DEF IInv
<1>1. /\ Goto(w, Idle) /\ req[w].pc = "r_consume"
      /\ UNCHANGED <<now, sess, once, drawn, delivered, claimed>>
      /\ ticket' = [ticket EXCEPT ![t] = [@ EXCEPT !.exp = Absent]]
  BY DEF ConsumeTicket, TakeTicket, history
<1>2. t \in Tickets /\ ~Alive(Absent)
  BY <1>1, RequestFacts DEF WellShaped, RevealPCs, Alive, Absent, NoExpiry, TypeOK
<1>3. /\ req[w].pc \notin PaidPCs \cup OpeningPCs /\ Idle.pc \notin PaidPCs \cup OpeningPCs
  BY <1>1 DEF PaidPCs, ScanPCs, OpeningPCs, Idle
<1>4. SessionPhases' = SessionPhases
  BY <1>1, <1>3, SessionsStay
<1>5. /\ \A u \in Tickets : Payers(u)' = Payers(u)
      /\ Known' = Known
  BY <1>1, <1>3, KnownStays
<1>6. Locked' = Locked /\ Paid' = Paid
  BY <1>1, <1>4, LocksStay DEF Paid
<1>7. /\ ticket'[t].ses = ticket[t].ses /\ ticket'[t].exp = Absent
      /\ \A u \in Tickets \ {t} : ticket'[u] = ticket[u]
  BY <1>1, <1>2 DEF TypeOK
<1>8. ~Alive(ticket[t].exp)'
  BY <1>1, <1>2, <1>7 DEF Alive
<1>9. Owners' = Owners
  BY <1>7 DEF Owners
<1>10. \A u \in Tickets \ {t} : TicketPhase(u)' = TicketPhase(u)
  BY <1>1, <1>5, <1>7 DEF TicketPhase, Alive
<1>11. CASE TicketPhase(t) = "issued"
  <2>1. ticket[t].ses # None /\ Payers(t) = {}
    BY <1>2, <1>11, LiveTicketsAreFree DEF TicketPhase
  <2>2. TicketPhase(t)' = "spent"
    BY <1>2, <1>5, <1>7, <1>8, <2>1 DEF TicketPhase
  <2>3. KnownAt(t) = {}
    BY <2>1 DEF KnownAt
  <2>4. /\ SessionPhases' = [u \in Sessions |-> IF u \in {} THEN "over" ELSE SessionPhases[u]]
        /\ TicketPhases' = [u \in Tickets |-> IF u \in {t} THEN "spent" ELSE TicketPhases[u]]
        /\ Known' = [u \in Tickets |-> IF u \in {t} THEN {} ELSE Known[u]]
    BY <1>4, <1>5, <1>10, <2>2, <2>3 DEF SessionPhases, TicketPhases, Known
  <2>5. {t} \subseteq {u \in Tickets : TicketPhases[u] \in {"issued", "redeemed"}}
    BY <1>2, <1>11 DEF TicketPhases
  <2>6. QED
    BY <1>2, <1>6, <1>9, <2>4, <2>5 DEF Ledger!Lapse
<1>12. CASE TicketPhase(t) # "issued"
  <2>1. TicketPhase(t)' = TicketPhase(t)
    BY <1>2, <1>5, <1>7, <1>8, <1>12 DEF TicketPhase
  <2>2. TicketPhases' = TicketPhases
    BY <1>10, <2>1 DEF TicketPhases
  <2>3. QED
    BY <1>2, <1>4, <1>5, <1>6, <1>9, <2>2 DEF Ledger!vars
<1>13. QED
  BY <1>11, <1>12

\* A request that dies before it stored its session leaves a session nobody will have.
LEMMA AbandonStep ==
  ASSUME IInv, Unstored, NEW w \in Workers, Abort(w), req[w].pc \in OpeningPCs,
         NEW s, s = req[w].ses
  PROVE  s \in Sessions /\ Ledger!Lapse({s}, {})
<1> USE DEF IInv
<1>1. /\ Goto(w, Idle) /\ req[w].pc # "idle"
      /\ UNCHANGED <<now, sess, ticket, once, drawn, delivered, claimed>>
  BY DEF Abort, redis, history
<1>2. /\ s \in Sessions \cap drawn /\ s \notin held /\ sess[s] = Absent
      /\ \A v \in Workers \ {w} : req[v].pc \in OpeningPCs => req[v].ses # s
  BY <1>1, RequestFacts DEF WellShaped, SessionCustody, OpeningPCs, Unstored
<1>3. /\ req[w].pc \notin PaidPCs /\ Idle.pc \notin PaidPCs \cup OpeningPCs
  BY DEF PaidPCs, ScanPCs, OpeningPCs, Idle
<1>4. ~Opening(s)'
  <2>1. \A v \in Workers : ~(req'[v].pc \in OpeningPCs /\ req'[v].ses = s)
    BY <1>1, <1>2, <1>3, WorkersAfter
  <2>2. QED
    BY <2>1 DEF Opening
<1>5. \A u \in Sessions \ {s} : Opening(u)' <=> Opening(u)
  BY <1>1, <1>3, WorkersAfter DEF Opening
<1>6. ~Alive(sess[s])'
  BY <1>1, <1>2 DEF Alive, Absent, NoExpiry, TypeOK
<1>7. SessionPhase(s)' = "over"
  BY <1>1, <1>2, <1>4, <1>6 DEF SessionPhase
<1>8. \A u \in Sessions \ {s} : SessionPhase(u)' = SessionPhase(u)
  BY <1>1, <1>5 DEF SessionPhase, Alive
<1>9. UNCHANGED <<TicketPhases, Owners, Known>>
  BY <1>1, <1>3, TicketsStay
<1>10. \A p \in claimed : p[1] \in Sessions \ {s}
  BY <1>2 DEF SessionCustody, TypeOK
<1>11. Locked' = {p \in Locked : p[1] \notin {s}}
  BY <1>1, <1>8, <1>10 DEF Locked, Alive
<1>12. /\ SessionPhases' = [u \in Sessions |-> IF u \in {s} THEN "over" ELSE SessionPhases[u]]
       /\ TicketPhases' = [u \in Tickets |-> IF u \in {} THEN "spent" ELSE TicketPhases[u]]
       /\ Known' = [u \in Tickets |-> IF u \in {} THEN {} ELSE Known[u]]
  BY <1>7, <1>8, <1>9 DEF SessionPhases, TicketPhases, Known
<1>13. Paid' = Paid
  BY <1>1 DEF Paid
<1>14. QED
  BY <1>2, <1>9, <1>11, <1>12, <1>13 DEF Ledger!Lapse

\* A claim that succeeds locks the account, if the session is still there.
LEMMA ReportStep ==
  ASSUME IInv, NEW w \in Workers, ClaimOnce(w), NEW s, s = req[w].ses, NEW a, a = req[w].acc
  PROVE  /\ s \in Sessions /\ a \in Accounts
         /\ Ledger!Report(s, a) \/ UNCHANGED Ledger!vars
<1> USE DEF IInv
<1>1. /\ req[w].pc = "f_claim"
      /\ UNCHANGED <<now, sess, ticket, drawn, delivered>>
  BY DEF ClaimOnce
<1>2. s \in Sessions /\ a \in Accounts /\ req[w] \in Request
  BY <1>1, RequestFacts DEF WellShaped, ReportPCs
<1>3. PICK r : /\ Goto(w, r) /\ r.pc \in {"idle", "f_record"}
  BY <1>2 DEF ClaimOnce, Idle, Request
<1>4. /\ req[w].pc \notin PaidPCs \cup OpeningPCs /\ r.pc \notin PaidPCs \cup OpeningPCs
  BY <1>1, <1>3 DEF PaidPCs, ScanPCs, OpeningPCs
<1>5. SessionPhases' = SessionPhases
  BY <1>1, <1>3, <1>4, SessionsStay
<1>6. UNCHANGED <<TicketPhases, Owners, Known>>
  BY <1>1, <1>3, <1>4, TicketsStay
<1>7. Paid' = Paid
  BY <1>1 DEF Paid
<1>8. CASE UNCHANGED <<once, claimed>>
  <2>1. Locked' = Locked
    BY <1>1, <1>5, <1>8, LocksStay
  <2>2. QED
    BY <1>2, <1>5, <1>6, <1>7, <2>1 DEF Ledger!vars
<1>9. CASE /\ ~Alive(once[s][a])
           /\ once' = [once EXCEPT ![s][a] = OnceDeath]
           /\ claimed' = claimed \cup {<<s, a>>}
  <2>1. \A u \in Sessions : SessionPhase(u)' = SessionPhase(u)
    BY <1>5 DEF SessionPhases
  <2>2. <<s, a>> \notin Locked
    BY <1>9 DEF Locked
  <2>3. Alive(once[s][a])'
    BY <1>1, <1>2, <1>9, TTLAssumption DEF Alive, OnceDeath, TypeOK
  <2>4. \A p \in claimed : /\ p[1] \in Sessions /\ p[2] \in Accounts
                           /\ p = <<p[1], p[2]>>
    BY DEF TypeOK
  <2>5. \A p \in claimed \ {<<s, a>>} : Alive(once[p[1]][p[2]])' <=> Alive(once[p[1]][p[2]])
    BY <1>1, <1>2, <1>9, <2>4 DEF Alive, TypeOK
  <2>6. CASE SessionPhase(s) = "open"
    <3>1. Locked' = Locked \cup {<<s, a>>}
      <4>1. <<s, a>> \in Locked'
        BY <1>2, <1>9, <2>1, <2>3, <2>6 DEF Locked
      <4>2. \A p \in claimed \ {<<s, a>>} : p \in Locked' <=> p \in Locked
        BY <1>9, <2>1, <2>4, <2>5 DEF Locked
      <4>3. Locked \subseteq claimed /\ Locked' \subseteq claimed \cup {<<s, a>>}
        BY <1>9 DEF Locked
      <4>4. QED
        BY <2>2, <4>1, <4>2, <4>3
    <3>2. SessionPhases[s] = "open"
      BY <1>2, <2>6 DEF SessionPhases
    <3>3. QED
      BY <1>2, <1>5, <1>6, <1>7, <2>2, <3>1, <3>2 DEF Ledger!Report
  <2>7. CASE SessionPhase(s) # "open"
    <3>1. Locked' = Locked
      <4>1. <<s, a>> \notin Locked'
        BY <1>2, <2>1, <2>7 DEF Locked
      <4>2. \A p \in claimed \ {<<s, a>>} : p \in Locked' <=> p \in Locked
        BY <1>9, <2>1, <2>4, <2>5 DEF Locked
      <4>3. Locked \subseteq claimed /\ Locked' \subseteq claimed \cup {<<s, a>>}
        BY <1>9 DEF Locked
      <4>4. QED
        BY <2>2, <4>1, <4>2, <4>3
    <3>2. QED
      BY <1>2, <1>5, <1>6, <1>7, <3>1 DEF Ledger!vars
  <2>8. QED
    BY <2>6, <2>7
<1>10. QED
  BY <1>8, <1>9 DEF ClaimOnce

\* Time and a restart of Redis end sessions and tickets, and unlock nothing that a
\* session still open has reported on.
LEMMA FadeStep ==
  ASSUME IInv, IInv', RedisRestart \/ Tick
  PROVE  \E ss \in SUBSET Sessions, ts \in SUBSET Tickets : Ledger!Lapse(ss, ts)
<1> USE DEF IInv
<1>1. /\ UNCHANGED <<req, drawn, delivered, claimed>>
      /\ \A t \in Tickets : ticket'[t].ses = ticket[t].ses
  BY DEF RedisRestart, Tick, redis, history, TypeOK
<1>2. /\ \A s \in Sessions : Alive(sess[s])' => Alive(sess[s])
      /\ \A t \in Tickets : Alive(ticket[t].exp)' => Alive(ticket[t].exp)
      /\ \A s \in Sessions, a \in Accounts : Alive(once[s][a])' => Alive(once[s][a])
  <2>1. CASE RedisRestart
    BY <2>1 DEF RedisRestart, Alive, Absent, NoExpiry, TypeOK
  <2>2. CASE Tick
    BY <2>2 DEF Tick, redis, Alive, NoExpiry, TypeOK
  <2>3. QED
    BY <2>1, <2>2
<1> DEFINE gone  == {s \in Sessions : SessionPhases[s] = "open" /\ ~Alive(sess[s])'}
           spent == {t \in Tickets : TicketPhases[t] = "issued" /\ ~Alive(ticket[t].exp)'}
<1>3. \A s \in Sessions : SessionPhase(s)' = IF s \in gone THEN "over" ELSE SessionPhase(s)
  <2>1. \A s \in Sessions : Opening(s)' <=> Opening(s)
    BY <1>1 DEF Opening
  <2>2. QED
    BY <1>1, <1>2, <2>1 DEF SessionPhases, SessionPhase
<1>4. \A t \in Tickets : Payers(t)' = Payers(t) /\ KnownAt(t)' = KnownAt(t)
  BY <1>1 DEF Payers, KnownAt
<1>5. \A t \in spent : Payers(t) = {} /\ KnownAt(t) = {}
  <2>1. \A t \in spent : t \in Tickets /\ Alive(ticket[t].exp)
    BY DEF TicketPhases, TicketPhase
  <2>2. QED
    BY <2>1, LiveTicketsAreFree DEF KnownAt
<1>6. \A t \in Tickets : TicketPhase(t)' = IF t \in spent THEN "spent" ELSE TicketPhase(t)
  BY <1>1, <1>2, <1>4, <1>5 DEF TicketPhases, TicketPhase
<1>7. Locked' = {p \in Locked : p[1] \notin gone}
  <2>1. \A p \in claimed : p[1] \in Sessions /\ p[2] \in Accounts
    BY DEF TypeOK
  <2>2. \A p \in claimed : SessionPhase(p[1])' = "open" => Alive(once[p[1]][p[2]])'
    <3>1. ASSUME NEW p \in claimed, SessionPhase(p[1])' = "open"
          PROVE  Alive(once[p[1]][p[2]])'
      <4>1. Alive(sess[p[1]])'
        BY <3>1 DEF SessionPhase
      <4>2. (Alive(sess[p[1]]) => sess[p[1]] <= once[p[1]][p[2]])' /\ p \in claimed'
        BY <1>1 DEF KeyLives, ClaimsKept
      <4>3. /\ sess'[p[1]] \in Nat /\ once'[p[1]][p[2]] \in Nat /\ now' \in Nat
        BY <2>1 DEF TypeOK
      <4>4. QED
        BY <4>1, <4>2, <4>3 DEF Alive, NoExpiry
    <3>2. QED
      BY <3>1
  <2>3. \A p \in claimed : SessionPhase(p[1])' = "open"
                             <=> SessionPhase(p[1]) = "open" /\ p[1] \notin gone
    BY <1>3, <2>1
  <2> HIDE DEF gone
  <2>4. QED
    BY <1>1, <1>2, <2>1, <2>2, <2>3 DEF Locked
<1>8. /\ SessionPhases' = [s \in Sessions |-> IF s \in gone THEN "over" ELSE SessionPhases[s]]
      /\ TicketPhases' = [t \in Tickets |-> IF t \in spent THEN "spent" ELSE TicketPhases[t]]
      /\ Known' = [t \in Tickets |-> IF t \in spent THEN {} ELSE Known[t]]
  BY <1>3, <1>4, <1>5, <1>6 DEF SessionPhases, TicketPhases, Known
<1>9. Owners' = Owners /\ Paid' = Paid
  BY <1>1 DEF Owners, Paid
<1>10. /\ gone \in SUBSET Sessions /\ spent \in SUBSET Tickets
       /\ spent \subseteq {t \in Tickets : TicketPhases[t] \in {"issued", "redeemed"}}
  OBVIOUS
<1> HIDE DEF gone, spent
<1>11. Ledger!Lapse(gone, spent)
  BY <1>7, <1>8, <1>9, <1>10 DEF Ledger!Lapse
<1>12. QED
  BY <1>10, <1>11

-----------------------------------------------------------------------------
(* Tokens yet to be stored *)

\* What was not drawn, or not stored yet, has left nothing in Redis.
LEMMA UnstoredStep ==
  ASSUME IInv, Unstored, [Next]_vars
  PROVE  Unstored'
<1> USE DEF IInv
<1>1. \A w \in Workers : /\ req[w].pc \in OpeningPCs => req[w].ses \in drawn
                         /\ req[w].pc = "t_store" => req[w].tkt \in Tickets \cap drawn
  BY RequestFacts DEF WellShaped, OpeningPCs
<1>2. ASSUME NEW w \in Workers, StartVerify(w) \/ StartTicketWithoutCookie(w)
      PROVE  Unstored'
  <2>1. PICK s \in Sessions \ drawn :
          /\ drawn' = drawn \cup {s}
          /\ \/ Goto(w, [Idle EXCEPT !.pc = "v_store", !.ses = s])
             \/ Goto(w, [Idle EXCEPT !.pc = "t_open", !.ses = s])
    BY <1>2 DEF StartVerify, StartTicketWithoutCookie
  <2>2. req'[w].ses = s /\ req'[w].pc # "t_store"
    <3>1. PICK pc \in {"v_store", "t_open"} : Goto(w, [Idle EXCEPT !.pc = pc, !.ses = s])
      BY <2>1
    <3>2. req'[w] = [Idle EXCEPT !.pc = pc, !.ses = s]
      BY <3>1, WorkersAfter
    <3>3. QED
      BY <3>2 DEF Idle
  <2>3. UNCHANGED <<sess, ticket>> /\ \A v \in Workers \ {w} : req'[v] = req[v]
    BY <1>2, OthersWait DEF Handler, StartVerify, StartTicketWithoutCookie, redis
  <2>4. \A v \in Workers : req'[v].pc \in OpeningPCs => sess'[req'[v].ses] = Absent
    BY <2>1, <2>2, <2>3 DEF Unstored
  <2>5. \A v \in Workers : req'[v].pc = "t_store" => ticket'[req'[v].tkt].ses = None
    BY <2>2, <2>3 DEF Unstored
  <2>6. drawn \subseteq drawn'
    BY <2>1
  <2>7. QED
    BY <2>3, <2>4, <2>5, <2>6 DEF Unstored
<1>3. ASSUME NEW w \in Workers, StoreVerified(w) \/ OpenSession(w) PROVE Unstored'
  <2>1. /\ req[w].pc \in OpeningPCs /\ UNCHANGED <<ticket, drawn>>
        /\ sess' = [sess EXCEPT ![req[w].ses] = SessionDeath]
    BY <1>3 DEF StoreVerified, OpenSession, OpeningPCs, history
  <2>2. req'[w].pc \notin OpeningPCs \cup {"t_store"}
    BY <1>3, WhereTo DEF OpeningPCs
  <2>3. \A v \in Workers \ {w} : /\ req'[v] = req[v]
                                 /\ req[v].pc \in OpeningPCs => req[v].ses # req[w].ses
    BY <1>3, <2>1, OthersWait DEF Handler, SessionCustody, OpeningPCs
  <2>4. \A v \in Workers : req[v].pc \in OpeningPCs => req[v].ses \in Sessions
    BY RequestFacts DEF WellShaped, OpeningPCs
  <2>5. \A s \in Sessions \ {req[w].ses} : sess'[s] = sess[s]
    BY <2>1 DEF TypeOK
  <2>6. \A v \in Workers : req'[v].pc \in OpeningPCs => sess'[req'[v].ses] = Absent
    BY <2>2, <2>3, <2>4, <2>5 DEF Unstored
  <2>7. \A v \in Workers : req'[v].pc = "t_store" => ticket'[req'[v].tkt].ses = None
    BY <2>1, <2>2, <2>3 DEF Unstored
  <2>8. \A s \in Sessions \ drawn : sess'[s] = Absent
    BY <1>1, <2>1, <2>5 DEF Unstored
  <2>9. QED
    BY <2>1, <2>6, <2>7, <2>8 DEF Unstored
<1>4. ASSUME NEW w \in Workers, AdmitTicket(w) PROVE Unstored'
  <2>1. PICK t \in Tickets \ drawn :
          /\ drawn' = drawn \cup {t}
          /\ Goto(w, [req[w] EXCEPT !.pc = "t_store", !.tkt = t, !.clk = now])
    BY <1>4 DEF AdmitTicket
  <2>2. req'[w].tkt = t /\ req'[w].pc = "t_store"
    BY <2>1 DEF Goto, Request, TypeOK
  <2>3. UNCHANGED <<sess, ticket>> /\ \A v \in Workers \ {w} : req'[v] = req[v]
    BY <1>4, OthersWait DEF Handler, AdmitTicket, redis
  <2>4. QED
    BY <1>1, <2>1, <2>2, <2>3 DEF Unstored, OpeningPCs
<1>5. ASSUME NEW w \in Workers, StoreTicket(w) PROVE Unstored'
  <2>1. /\ req[w].pc = "t_store" /\ UNCHANGED <<sess, drawn>>
        /\ \A t \in Tickets \ {req[w].tkt} : ticket'[t] = ticket[t]
    BY <1>5 DEF StoreTicket, TypeOK
  <2>2. req'[w].pc \notin OpeningPCs \cup {"t_store"}
    BY <1>5, WhereTo DEF OpeningPCs
  <2>3. \A v \in Workers \ {w} : /\ req'[v] = req[v]
                                 /\ req[v].pc = "t_store" => req[v].tkt # req[w].tkt
    BY <1>5, <2>1, OthersWait DEF Handler, TicketCustody
  <2>4. QED
    BY <1>1, <2>1, <2>2, <2>3 DEF Unstored
<1>6. ASSUME NEW w \in Workers,
             \/ Reveal(w) \/ StartTicket(w) \/ Abort(w)
             \/ StartFeedback(w) \/ CheckShown(w) \/ ClaimOnce(w) \/ RecordQuality(w)
      PROVE  Unstored'
  <2>1. UNCHANGED <<sess, drawn>>
    BY <1>6 DEF Reveal, StartReveal, ConsumeTicket, ReadPool, ScanShown, ScanQuality, Choose,
       MarkShown, ExpireShown, StartTicket, Abort, StartFeedback, CheckShown, ClaimOnce,
       RecordQuality, redis, history
  <2>2. \A t \in Tickets : ticket'[t].ses = ticket[t].ses
    <3>1. CASE ConsumeTicket(w)
      BY <3>1 DEF ConsumeTicket, TakeTicket, TypeOK
    <3>2. CASE ticket' = ticket
      BY <3>2
    <3>3. QED
      BY <1>6, <3>1, <3>2 DEF Reveal, StartReveal, ReadPool, ScanShown, ScanQuality, Choose,
         MarkShown, ExpireShown, StartTicket, Abort, StartFeedback, CheckShown, ClaimOnce,
         RecordQuality, redis
  <2>3. req'[w].pc \notin OpeningPCs \cup {"t_store"}
    BY <1>6, WhereTo DEF Reveal, OpeningPCs
  <2>4. \A v \in Workers \ {w} : req'[v] = req[v]
    BY <1>6, OthersWait DEF Handler
  <2>5. QED
    BY <1>1, <2>1, <2>2, <2>3, <2>4 DEF Unstored
<1>7. CASE RedisRestart
  <2>1. /\ UNCHANGED <<req, drawn>>
        /\ \A s \in Sessions : sess'[s] = Absent
        /\ \A t \in Tickets : ticket'[t].ses = ticket[t].ses
    BY <1>7 DEF RedisRestart, history, TypeOK
  <2>2. \A w \in Workers : req[w].pc \in OpeningPCs => req[w].ses \in Sessions
    BY RequestFacts DEF WellShaped, OpeningPCs
  <2>3. QED
    BY <1>1, <2>1, <2>2 DEF Unstored
<1>8. CASE Tick \/ UNCHANGED vars
  BY <1>8 DEF Tick, vars, redis, history, Unstored
<1>9. QED
  BY <1>2, <1>3, <1>4, <1>5, <1>6, <1>7, <1>8 DEF Next, Handler

LEMMA InitUnstored == Init => Unstored
BY TokenAssumption DEF Init, Unstored, NoTicket, Idle, OpeningPCs

-----------------------------------------------------------------------------
(* The refinement *)

\* The first state has an empty ledger.
LEMMA InitLedger == Init => Ledger!Init
<1> SUFFICES ASSUME Init PROVE Ledger!Init
  OBVIOUS
<1>1. /\ \A s \in Sessions : SessionPhase(s) = "new"
      /\ \A t \in Tickets : /\ Payers(t) = {} /\ ticket[t].ses = None
                            /\ TicketPhase(t) = "unissued"
  BY DEF Init, SessionPhase, TicketPhase, Payers, NoTicket, Idle, PaidPCs, ScanPCs
<1>2. \A t \in Tickets : KnownAt(t) = {}
  BY <1>1 DEF KnownAt
<1>3. Locked = {} /\ \A t \in Tickets : Paid[t] = {}
  BY DEF Init, Locked, Paid
<1>4. QED
  BY <1>1, <1>2, <1>3 DEF Ledger!Init, SessionPhases, TicketPhases, Owners, Known, Paid

\* A step of a reveal redeems, spends or pays its ticket, or is quiet.
LEMMA RevealLedger ==
  ASSUME IInv, NEW w \in Workers, Reveal(w)
  PROVE  [Ledger!Next]_(Ledger!vars)
<1> USE DEF IInv
<1>1. req[w] \in Request
  BY RequestFacts
<1>2. CASE ConsumeTicket(w)
  <2>1. CASE Admits(ticket[req[w].tkt], req[w].ses, req[w].clk)
    BY <1>2, <2>1, RedeemStep DEF Ledger!Next
  <2>2. CASE ~Admits(ticket[req[w].tkt], req[w].ses, req[w].clk)
    BY <1>2, <2>2, RefuseStep DEF Ledger!Next
  <2>3. QED
    BY <2>1, <2>2
<1>3. CASE ExpireShown(w)
  <2>1. /\ req[w].pc \in PaidPCs /\ Goto(w, Idle)
        /\ UNCHANGED <<now, sess, ticket, once, drawn, claimed>>
    BY <1>3 DEF ExpireShown, PaidPCs, ScanPCs
  <2>2. CASE delivered' = delivered
    BY <2>1, <2>2, GiveUpStep DEF Ledger!Next
  <2>3. CASE delivered' # delivered
    BY <1>3, <2>3, PayStep DEF Ledger!Next
  <2>4. QED
    BY <2>2, <2>3
<1>4. CASE Choose(w) /\ req[w].found = {}
  <2>1. /\ req[w].pc \in PaidPCs /\ Goto(w, Idle)
        /\ UNCHANGED <<now, sess, ticket, once, drawn, delivered, claimed>>
    BY <1>4 DEF Choose, BestOf, PaidPCs, ScanPCs, redis, history
  <2>2. QED
    BY <2>1, GiveUpStep DEF Ledger!Next
<1>5. CASE \/ StartReveal(w) \/ ReadPool(w) \/ ScanShown(w) \/ ScanQuality(w)
           \/ Choose(w) /\ req[w].found # {}
           \/ MarkShown(w)
  <2>1. UNCHANGED <<now, sess, ticket, once, drawn, delivered, claimed>>
    BY <1>5 DEF StartReveal, ReadPool, ScanShown, ScanQuality, Choose, MarkShown, redis, history
  <2>2. PICK r : Goto(w, r)
    BY <1>5 DEF StartReveal, ReadPool, ScanShown, ScanQuality, Choose, MarkShown
  <2>3. r = req'[w]
    BY <2>2, WorkersAfter
  <2>4. /\ req[w].pc \in PaidPCs <=> r.pc \in PaidPCs
        /\ req[w].pc \notin OpeningPCs /\ r.pc \notin OpeningPCs
        /\ r.pc \in PaidPCs => r.tkt = req[w].tkt /\ r.past = req[w].past
    <3>1. CASE StartReveal(w)
      BY <2>3, <3>1, WhereTo DEF StartReveal, PaidPCs, ScanPCs, OpeningPCs
    <3>2. CASE ReadPool(w)
      BY <1>1, <2>3, <3>2 DEF ReadPool, Goto, Request, TypeOK, PaidPCs, ScanPCs, OpeningPCs
    <3>3. CASE ScanShown(w)
      BY <1>1, <2>3, <3>3 DEF ScanShown, Goto, Request, TypeOK, PaidPCs, ScanPCs, OpeningPCs
    <3>4. CASE ScanQuality(w)
      BY <1>1, <2>3, <3>4 DEF ScanQuality, Goto, Request, TypeOK, PaidPCs, ScanPCs, OpeningPCs
    <3>5. CASE Choose(w) /\ req[w].found # {}
      <4>1. PICK a : Goto(w, [req[w] EXCEPT !.pc = "r_mark", !.acc = a])
        BY <3>5 DEF Choose
      <4>2. r = [req[w] EXCEPT !.pc = "r_mark", !.acc = a]
        BY <2>3, <4>1, WorkersAfter
      <4>3. req[w].pc = "r_scan" /\ r.pc = "r_mark" /\ r.tkt = req[w].tkt /\ r.past = req[w].past
        BY <1>1, <3>5, <4>2 DEF Choose, Request
      <4>4. QED
        BY <4>3 DEF PaidPCs, ScanPCs, OpeningPCs
    <3>6. CASE MarkShown(w)
      BY <1>1, <2>3, <3>6 DEF MarkShown, Goto, Request, TypeOK, PaidPCs, ScanPCs, OpeningPCs
    <3>7. QED
      BY <1>5, <3>1, <3>2, <3>3, <3>4, <3>5, <3>6
  <2>5. QED
    BY <2>1, <2>2, <2>4, QuietStep
<1>6. QED
  BY <1>2, <1>3, <1>4, <1>5 DEF Reveal

\* Every step of the gate is a step of the ledger or leaves it alone.
LEMMA LedgerStep ==
  ASSUME IInv, IInv', Unstored, [Next]_vars
  PROVE  [Ledger!Next]_(Ledger!vars)
<1> USE DEF IInv
<1>1. ASSUME NEW w \in Workers, StartVerify(w) \/ StartTicketWithoutCookie(w)
      PROVE  UNCHANGED Ledger!vars
  BY <1>1, DrawStep
<1>2. ASSUME NEW w \in Workers, StoreVerified(w) \/ OpenSession(w)
      PROVE  Ledger!Next
  BY <1>2, OpenStep DEF Ledger!Next
<1>3. ASSUME NEW w \in Workers, StoreTicket(w) PROVE Ledger!Next
  BY <1>3, IssueStep DEF Ledger!Next
<1>4. ASSUME NEW w \in Workers, ClaimOnce(w) PROVE [Ledger!Next]_(Ledger!vars)
  BY <1>4, ReportStep DEF Ledger!Next
<1>5. ASSUME NEW w \in Workers,
             \/ StartTicket(w) \/ AdmitTicket(w)
             \/ StartFeedback(w) \/ CheckShown(w) \/ RecordQuality(w)
             \/ Abort(w) /\ req[w].pc \notin PaidPCs \cup OpeningPCs
      PROVE  UNCHANGED Ledger!vars
  <2>1. /\ UNCHANGED <<now, sess, ticket, once, delivered, claimed>>
        /\ drawn \cap Sessions = drawn' \cap Sessions
    BY <1>5, TokenAssumption DEF StartTicket, AdmitTicket, StartFeedback, CheckShown,
       RecordQuality, Abort, redis, history
  <2>2. PICK r : Goto(w, r)
    BY <1>5 DEF StartTicket, AdmitTicket, StartFeedback, CheckShown, RecordQuality, Abort
  <2>3. r = req'[w]
    BY <2>2, WorkersAfter
  <2>4. req[w].pc \notin PaidPCs \cup OpeningPCs
    BY <1>5 DEF StartTicket, AdmitTicket, StartFeedback, CheckShown, RecordQuality,
       PaidPCs, ScanPCs, OpeningPCs
  <2>5. r.pc \notin PaidPCs \cup OpeningPCs
    BY <1>5, <2>3, WhereTo DEF PaidPCs, ScanPCs, OpeningPCs
  <2>6. QED
    BY <2>1, <2>2, <2>4, <2>5, QuietStep
<1>6. ASSUME NEW w \in Workers, Abort(w), req[w].pc \in PaidPCs \cup OpeningPCs
      PROVE  Ledger!Next
  <2>1. Goto(w, Idle) /\ UNCHANGED <<now, sess, ticket, once, drawn, delivered, claimed>>
    BY <1>6 DEF Abort, redis, history
  <2>2. CASE req[w].pc \in PaidPCs
    BY <2>1, <2>2, GiveUpStep DEF Ledger!Next
  <2>3. CASE req[w].pc \in OpeningPCs
    BY <1>6, <2>3, AbandonStep DEF Ledger!Next
  <2>4. QED
    BY <1>6, <2>2, <2>3
<1>7. CASE RedisRestart \/ Tick
  BY <1>7, FadeStep DEF Ledger!Next
<1>8. CASE UNCHANGED vars
  <2>1. /\ \A s \in Sessions : Opening(s)' <=> Opening(s)
        /\ \A t \in Tickets : Payers(t)' = Payers(t) /\ KnownAt(t)' = KnownAt(t)
    BY <1>8 DEF vars, Opening, Payers, KnownAt
  <2>2. UNCHANGED <<SessionPhases, TicketPhases, Owners, Known, Paid>>
    BY <1>8, <2>1 DEF vars, redis, history, SessionPhases, SessionPhase, TicketPhases,
       TicketPhase, Owners, Known, Paid, Alive
  <2>3. Locked' = Locked
    BY <1>8, <2>2, LocksStay DEF vars, redis, history
  <2>4. QED
    BY <2>2, <2>3 DEF Ledger!vars
<1>9. QED
  BY <1>1, <1>2, <1>3, <1>4, <1>5, <1>6, <1>7, <1>8, RevealLedger DEF Next, Handler

\* Every behaviour of the gate is one of the ledger: whatever the number of requests in
\* flight, and whatever dies, expires or restarts, sessions open once, tickets pay once
\* and only what their session did not have, and reports lock until their session is over.
THEOREM Refinement == Spec => KeepsLedger
<1>1. Spec => []Unstored
  <2>1. IInv /\ Unstored /\ [Next]_vars => Unstored'
    BY UnstoredStep
  <2>2. QED
    BY <2>1, InitUnstored, Invariance, PTL DEF Spec
<1>2. IInv /\ IInv' /\ Unstored /\ [Next]_vars => [Ledger!Next]_(Ledger!vars)
  BY LedgerStep
<1>3. QED
  BY <1>1, <1>2, InitLedger, Invariance, PTL DEF Spec, KeepsLedger, Ledger!Spec
=============================================================================
