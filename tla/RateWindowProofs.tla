-------------------------- MODULE RateWindowProofs --------------------------
(***************************************************************************)
(* Proofs of what RateWindow promises, for any addresses, sessions and     *)
(* requests, any limits and any window.                                    *)
(***************************************************************************)
EXTENDS RateWindow, FiniteSetTheorems, TLAPS

-----------------------------------------------------------------------------
(* The inductive invariant *)

\* A request under way read its clock not in the future and Latency seconds ago at most, and
\* who is admitted was within both limits.
InTime(r) ==
  /\ \A stage \in {"ip", "session"} :
       r.pc = stage => r.at[stage] <= now /\ now <= r.at[stage] + Latency
  /\ r.pc # "new" => r.at["ip"] <= now
  /\ r.at["session"] <= now
  /\ r.pc = "admitted" => r.ok

OpenInTime == \A n \in Requests : InTime(req[n])

\* If charges are punctual, a counter that counts lives until the end of the window after
\* its own.
CountersLive ==
  Punctual =>
    \A b \in Buckets, k \in Windows :
      counter[b][k].count > 0 => counter[b][k].exp >= (k + 2) * Window

\* The requests let pass by bucket b in window k.
Passed(b, k) ==
  {n \in Requests :
     \/ /\ req[n].ip = b /\ req[n].at["ip"] \div Window = k
        /\ req[n].pc \in {"session", "admitted"} /\ req[n].ok
     \/ /\ req[n].ses = b /\ req[n].at["session"] \div Window = k
        /\ req[n].pc = "admitted"}

\* Then it counts the requests it let pass, unless Redis lost it, and never lets more of
\* them pass than its limit.
PassedAreCounted ==
  Punctual =>
    \A b \in Buckets, k \in Windows :
      <<b, k>> \notin wiped =>
        /\ Cardinality(Passed(b, k)) <= counter[b][k].count
        /\ Cardinality(Passed(b, k)) <= Limit[b]

\* A counter counts nobody who did not charge it, however late charges are.
CountedAreCharged ==
  \A b \in Buckets, k \in Windows : counter[b][k].count <= Cardinality(Chargers(b, k))

\* A limit a request was beyond had been used up.
Crowded(b, k) == Cardinality(Chargers(b, k)) > Limit[b]

BeyondMeansCrowded ==
  \A n \in Requests :
    LET byAddress == Crowded(req[n].ip, req[n].at["ip"] \div Window)
        bySession == Crowded(req[n].ses, req[n].at["session"] \div Window)
    IN /\ req[n].pc = "session" /\ ~ req[n].ok => byAddress
       /\ req[n].pc = "refused" => byAddress \/ bySession

IInv ==
  /\ TypeOK /\ OpenInTime /\ CountersLive
  /\ PassedAreCounted /\ CountedAreCharged /\ BeyondMeansCrowded

-----------------------------------------------------------------------------
(* Windows and counters *)

\* An instant is in its window.
LEMMA WindowBounds ==
  ASSUME NEW t \in Nat
  PROVE  /\ t \div Window \in Nat
         /\ (t \div Window) * Window <= t
         /\ t < (t \div Window + 1) * Window
BY RateAssumption

\* An instant of the clock is in one of the windows of the model.
LEMMA WindowExists ==
  ASSUME NEW t \in Nat, t <= MaxTime
  PROVE  WindowOf(t) \in Windows
<1> DEFINE k == t \div Window
           last == MaxTime \div Window
<1>1. k \in Nat /\ last \in Nat /\ k * Window <= t /\ MaxTime < (last + 1) * Window
  BY WindowBounds, RateAssumption
<1>2. k * Window < (last + 1) * Window
  BY <1>1, RateAssumption
<1> HIDE DEF k, last
<1>3. k < last + 1
  BY <1>1, <1>2, RateAssumption
<1>4. QED
  BY <1>1, <1>3 DEF WindowOf, Windows, k, last

\* A charge counts on from one or from what was counted; a punctual one meets a living
\* counter, which goes up by one and lives past the next window.
Counts(b, k) ==
  /\ NextCount(b, k) \in 1..counter[b][k].count + 1
  /\ Punctual => NextCount(b, k) = counter[b][k].count + 1 /\ now + Life >= (k + 2) * Window

LEMMA ChargeCounts ==
  ASSUME TypeOK, CountersLive, NEW b \in Buckets,
         NEW t \in Nat, t <= now, now <= t + Latency
  PROVE  WindowOf(t) \in Windows /\ Counts(b, WindowOf(t))
<1> DEFINE k == WindowOf(t)
<1>1. now \in Nat /\ now <= MaxTime /\ MaxTime \in Nat
  BY RateAssumption DEF TypeOK
<1>2. k \in Windows
  BY <1>1, WindowExists
<1>3. k \in Nat /\ k * Window <= t /\ t < (k + 1) * Window
  BY WindowBounds DEF WindowOf
<1> HIDE DEF k
<1>4. (k + 1) * Window = k * Window + Window /\ (k + 2) * Window = k * Window + 2 * Window
  BY <1>3, RateAssumption
<1>5. k * Window \in Nat
  BY <1>3, RateAssumption
<1>6. Punctual => now < (k + 2) * Window
  BY <1>1, <1>3, <1>4, <1>5, RateAssumption DEF Punctual
<1>7. now + Life >= (k + 2) * Window
  BY <1>1, <1>3, <1>4, <1>5, RateAssumption DEF Life
<1>8. counter[b][k] \in [count : Nat, exp : Nat]
  BY <1>2 DEF TypeOK
<1>9. Punctual /\ counter[b][k].count > 0 => now < counter[b][k].exp
  BY <1>1, <1>2, <1>4, <1>5, <1>6, <1>8, RateAssumption DEF CountersLive
<1>10. /\ NextCount(b, k) \in 1..counter[b][k].count + 1
       /\ Punctual => NextCount(b, k) = counter[b][k].count + 1
  BY <1>8, <1>9 DEF NextCount
<1>11. QED
  BY <1>2, <1>7, <1>10 DEF k, Counts

-----------------------------------------------------------------------------
(* Sets of requests *)

LEMMA FiniteRequests ==
  ASSUME NEW S \in SUBSET Requests
  PROVE  IsFiniteSet(S) /\ Cardinality(S) \in Nat
BY FS_Subset, FS_CardinalityType, RateAssumption

LEMMA FewerRequests ==
  ASSUME NEW S \in SUBSET Requests, NEW T \in SUBSET S
  PROVE  Cardinality(T) <= Cardinality(S)
BY FS_Subset, FiniteRequests

LEMMA OneMoreRequest ==
  ASSUME NEW S \in SUBSET Requests, NEW T \in SUBSET Requests, NEW n \in Requests
  PROVE  /\ T \subseteq S \cup {n} => Cardinality(T) <= Cardinality(S) + 1
         /\ S \cup {n} \subseteq T /\ n \notin S => Cardinality(T) >= Cardinality(S) + 1
<1>1. /\ IsFiniteSet(S \cup {n})
      /\ Cardinality(S \cup {n}) = IF n \in S THEN Cardinality(S) ELSE Cardinality(S) + 1
  BY FS_AddElement, FiniteRequests
<1>2. Cardinality(S) \in Nat /\ Cardinality(T) \in Nat /\ Cardinality(S \cup {n}) \in Nat
  BY FiniteRequests
<1>3. T \subseteq S \cup {n} => Cardinality(T) <= Cardinality(S \cup {n})
  BY <1>1, FS_Subset
<1>4. S \cup {n} \subseteq T => Cardinality(S \cup {n}) <= Cardinality(T)
  BY FewerRequests
<1>5. QED
  BY <1>1, <1>2, <1>3, <1>4

LEMMA SetsOfRequests ==
  ASSUME NEW b, NEW k
  PROVE  /\ Passed(b, k) \in SUBSET Requests /\ Passed(b, k)' \in SUBSET Requests
         /\ Chargers(b, k) \in SUBSET Requests /\ Chargers(b, k)' \in SUBSET Requests
BY DEF Passed, Chargers

-----------------------------------------------------------------------------
(* What a step does to the counters *)

\* Whether a request may pass and who has charged, as far as a step that charges nothing
\* can change it.
Settled ==
  \A b \in Buckets, k \in Windows :
    Passed(b, k)' \subseteq Passed(b, k) /\ Chargers(b, k) \subseteq Chargers(b, k)'

LEMMA UnchargedStep ==
  ASSUME CountersLive, PassedAreCounted, CountedAreCharged, TypeOK,
         UNCHANGED <<counter, wiped>>, Settled
  PROVE  CountersLive' /\ PassedAreCounted' /\ CountedAreCharged'
<1>1. CountersLive'
  BY DEF CountersLive
<1>2. \A b \in Buckets, k \in Windows :
        /\ Cardinality(Passed(b, k)') <= Cardinality(Passed(b, k))
        /\ Cardinality(Chargers(b, k)) <= Cardinality(Chargers(b, k)')
        /\ Cardinality(Passed(b, k)) \in Nat /\ Cardinality(Passed(b, k)') \in Nat
        /\ Cardinality(Chargers(b, k)) \in Nat /\ Cardinality(Chargers(b, k)') \in Nat
        /\ counter[b][k].count \in Nat /\ Limit[b] \in Nat
  BY SetsOfRequests, FiniteRequests, FewerRequests, RateAssumption DEF Settled, TypeOK
<1>3. PassedAreCounted'
  BY <1>2 DEF PassedAreCounted
<1>4. CountedAreCharged'
  BY <1>2 DEF CountedAreCharged
<1>5. QED
  BY <1>1, <1>3, <1>4

\* Request n is charged to bucket b in window k and passes at most if it is within the limit.
LEMMA ChargedStep ==
  ASSUME CountersLive, PassedAreCounted, CountedAreCharged, TypeOK,
         NEW n \in Requests, NEW b \in Buckets, NEW k \in Windows,
         Counts(b, k), Charge(b, k), UNCHANGED wiped,
         \A c \in Buckets, j \in Windows :
           /\ Passed(c, j)' \subseteq
                IF c = b /\ j = k /\ Within(b, NextCount(b, k)) THEN Passed(c, j) \cup {n}
                                                               ELSE Passed(c, j)
           /\ Chargers(c, j) \subseteq Chargers(c, j)',
         n \in Chargers(b, k)', n \notin Chargers(b, k)
  PROVE  CountersLive' /\ PassedAreCounted' /\ CountedAreCharged'
<1>1. \A c \in Buckets, j \in Windows :
        counter'[c][j] = IF c = b /\ j = k
                           THEN [count |-> NextCount(b, k), exp |-> now + Life]
                           ELSE counter[c][j]
  BY DEF Charge, TypeOK
<1>0. /\ NextCount(b, k) \in Nat /\ NextCount(b, k) <= counter[b][k].count + 1
      /\ Punctual => NextCount(b, k) = counter[b][k].count + 1
  BY DEF Counts, TypeOK
<1>2. \A c \in Buckets, j \in Windows :
        /\ Cardinality(Passed(c, j)) \in Nat /\ Cardinality(Passed(c, j)') \in Nat
        /\ Cardinality(Chargers(c, j)) \in Nat /\ Cardinality(Chargers(c, j)') \in Nat
        /\ counter[c][j].count \in Nat /\ Limit[c] \in Nat
  BY SetsOfRequests, FiniteRequests, RateAssumption DEF TypeOK
<1>3. CountersLive'
  <2> SUFFICES ASSUME Punctual, NEW c \in Buckets, NEW j \in Windows, counter'[c][j].count > 0
               PROVE  counter'[c][j].exp >= (j + 2) * Window
    BY DEF CountersLive, Punctual
  <2> QED
    BY <1>1 DEF CountersLive, Counts
<1>4. PassedAreCounted'
  <2> SUFFICES ASSUME Punctual, NEW c \in Buckets, NEW j \in Windows, <<c, j>> \notin wiped
               PROVE  /\ Cardinality(Passed(c, j)') <= counter'[c][j].count
                      /\ Cardinality(Passed(c, j)') <= Limit[c]
    BY DEF PassedAreCounted, Punctual
  <2>1. Cardinality(Passed(c, j)) <= counter[c][j].count /\ Cardinality(Passed(c, j)) <= Limit[c]
    BY DEF PassedAreCounted
  <2>2. CASE c = b /\ j = k /\ Within(b, NextCount(b, k))
    <3>1. Passed(c, j)' \subseteq Passed(c, j) \cup {n}
      BY <2>2
    <3>2. Cardinality(Passed(c, j)') <= Cardinality(Passed(c, j)) + 1
      BY <3>1, OneMoreRequest, SetsOfRequests
    <3>3. counter[c][j].count + 1 <= Limit[c]
      BY <1>0, <2>2 DEF Within
    <3>4. counter'[c][j].count = counter[c][j].count + 1
      BY <1>0, <1>1, <2>2
    <3>5. QED
      BY <1>2, <2>1, <3>2, <3>3, <3>4
  <2>3. CASE ~ (c = b /\ j = k /\ Within(b, NextCount(b, k)))
    <3>1. Passed(c, j)' \subseteq Passed(c, j)
      BY <2>3
    <3>2. Cardinality(Passed(c, j)') <= Cardinality(Passed(c, j))
      BY <3>1, FewerRequests, SetsOfRequests
    <3>3. counter[c][j].count <= counter'[c][j].count
      BY <1>0, <1>1, <1>2
    <3>4. counter'[c][j].count \in Nat
      BY <1>0, <1>1, <1>2
    <3>5. QED
      BY <1>2, <2>1, <3>2, <3>3, <3>4
  <2>4. QED
    BY <2>2, <2>3
<1>5. CountedAreCharged'
  <2> SUFFICES ASSUME NEW c \in Buckets, NEW j \in Windows
               PROVE  counter'[c][j].count <= Cardinality(Chargers(c, j)')
    BY DEF CountedAreCharged
  <2>1. counter[c][j].count <= Cardinality(Chargers(c, j))
    BY DEF CountedAreCharged
  <2>2. Chargers(c, j) \subseteq Chargers(c, j)'
    OBVIOUS
  <2>3. CASE c = b /\ j = k
    <3>1. Cardinality(Chargers(c, j)') >= Cardinality(Chargers(c, j)) + 1
      BY <2>2, <2>3, OneMoreRequest, SetsOfRequests
    <3>2. counter'[c][j].count \in Nat /\ counter'[c][j].count <= counter[c][j].count + 1
      BY <1>0, <1>1, <2>3
    <3>3. QED
      BY <1>2, <2>1, <3>1, <3>2
  <2>4. CASE ~ (c = b /\ j = k)
    <3>1. Cardinality(Chargers(c, j)) <= Cardinality(Chargers(c, j)')
      BY <2>2, FewerRequests, SetsOfRequests
    <3>2. counter'[c][j] = counter[c][j]
      BY <1>1, <2>4
    <3>3. QED
      BY <1>2, <2>1, <3>1, <3>2
  <2>5. QED
    BY <2>3, <2>4
<1>6. QED
  BY <1>3, <1>4, <1>5

-----------------------------------------------------------------------------
(* What a step does to the requests *)

\* Request n becomes r, the others stay.
Becomes(n, r) == req'[n] = r /\ \A m \in Requests \ {n} : req'[m] = req[m]

\* A request as it goes on to pc.
Moved(r, pc, at, ok) == [pc |-> pc, ip |-> r.ip, ses |-> r.ses, at |-> at, ok |-> ok]

Failure(n, stage) ==
  LET b == IF stage = "ip" THEN req[n].ip ELSE req[n].ses IN
  /\ req[n].pc = stage
  /\ Charge(b, WindowOf(req[n].at[stage])) \/ UNCHANGED counter
  /\ req' = [req EXCEPT ![n].pc = "failed"]
  /\ UNCHANGED <<now, wiped>>

LEMMA RequestMoves ==
  ASSUME TypeOK, NEW n \in Requests
  PROVE  /\ Arrive(n) => Becomes(n, Moved(req[n], "ip", [req[n].at EXCEPT !["ip"] = now], req[n].ok))
         /\ ChargeIP(n) =>
              Becomes(n, Moved(req[n], "session", [req[n].at EXCEPT !["session"] = now],
                               Within(req[n].ip, NextCount(req[n].ip, WindowOf(req[n].at["ip"])))))
         /\ ChargeSession(n) =>
              LET ok == /\ req[n].ok
                        /\ Within(req[n].ses,
                                  NextCount(req[n].ses, WindowOf(req[n].at["session"])))
              IN Becomes(n, Moved(req[n], IF ok THEN "admitted" ELSE "refused", req[n].at, ok))
         /\ \A stage \in {"ip", "session"} :
              Failure(n, stage) => Becomes(n, Moved(req[n], "failed", req[n].at, req[n].ok))
<1>1. req \in [Requests -> Request]
  BY DEF TypeOK
<1>2. req[n] = Moved(req[n], req[n].pc, req[n].at, req[n].ok)
  BY <1>1 DEF Moved, Request
<1>3. ASSUME Arrive(n)
      PROVE  Becomes(n, Moved(req[n], "ip", [req[n].at EXCEPT !["ip"] = now], req[n].ok))
  BY <1>1, <1>3 DEF Arrive, Becomes, Moved, Request
<1>4. ASSUME ChargeIP(n)
      PROVE  Becomes(n, Moved(req[n], "session", [req[n].at EXCEPT !["session"] = now],
                              Within(req[n].ip, NextCount(req[n].ip, WindowOf(req[n].at["ip"])))))
  BY <1>1, <1>4 DEF ChargeIP, Becomes, Moved, Request
<1>5. ASSUME ChargeSession(n)
      PROVE  LET ok == /\ req[n].ok
                       /\ Within(req[n].ses,
                                 NextCount(req[n].ses, WindowOf(req[n].at["session"])))
             IN Becomes(n, Moved(req[n], IF ok THEN "admitted" ELSE "refused", req[n].at, ok))
  BY <1>1, <1>5 DEF ChargeSession, Becomes, Moved, Request
<1>6. ASSUME NEW stage \in {"ip", "session"}, Failure(n, stage)
      PROVE  Becomes(n, Moved(req[n], "failed", req[n].at, req[n].ok))
  BY <1>1, <1>6 DEF Failure, Becomes, Moved, Request
<1>7. QED
  BY <1>3, <1>4, <1>5, <1>6

\* What a request in flight is made of.
LEMMA RequestParts ==
  ASSUME TypeOK, NEW n \in Requests
  PROVE  /\ req[n].ip \in IPs /\ req[n].ses \in Sessions /\ req[n].ok \in BOOLEAN
         /\ req[n].ip \in Buckets /\ req[n].ses \in Buckets /\ req[n].ip # req[n].ses
         /\ req[n].at \in [{"ip", "session"} -> Nat]
         /\ req[n].at["ip"] \in Nat /\ req[n].at["session"] \in Nat
         /\ req[n].pc \in {"new", "ip", "session", "admitted", "refused", "failed"}
         /\ now \in Nat /\ now <= MaxTime
<1>1. req[n] \in Request
  BY DEF TypeOK
<1>2. req[n].at \in [{"ip", "session"} -> Nat]
  BY <1>1 DEF Request
<1>3. QED
  BY <1>1, <1>2, RateAssumption DEF TypeOK, Request, Buckets

\* The buckets a request charges, and the windows it charges them in.
LEMMA ChargeIsTyped ==
  ASSUME TypeOK, OpenInTime, CountersLive, NEW b \in Buckets,
         NEW t \in Nat, t <= now, now <= t + Latency, Charge(b, WindowOf(t))
  PROVE  counter' \in [Buckets -> [Windows -> [count : Nat, exp : Nat]]]
<1>1. WindowOf(t) \in Windows /\ NextCount(b, WindowOf(t)) \in Nat
  BY ChargeCounts DEF Counts
<1>2. now + Life \in Nat
  BY RateAssumption DEF TypeOK, Life
<1>3. [count |-> NextCount(b, WindowOf(t)), exp |-> now + Life] \in [count : Nat, exp : Nat]
  BY <1>1, <1>2
<1>4. QED
  BY <1>3 DEF Charge, TypeOK

LEMMA TypeStep ==
  ASSUME TypeOK, OpenInTime, CountersLive, [Next]_vars
  PROVE  TypeOK'
<1>1. ASSUME NEW n \in Requests, Arrive(n) PROVE TypeOK'
  <2>1. Moved(req[n], "ip", [req[n].at EXCEPT !["ip"] = now], req[n].ok) \in Request
    BY RequestParts DEF Moved, Request
  <2>2. \A m \in Requests : req'[m] \in Request
    BY <1>1, <2>1, RequestMoves DEF Becomes, TypeOK
  <2>3. req' \in [Requests -> Request]
    BY <1>1, <2>2 DEF Arrive, TypeOK
  <2>4. QED
    BY <1>1, <2>3 DEF Arrive, TypeOK
<1>2. ASSUME NEW n \in Requests, ChargeIP(n) PROVE TypeOK'
  <2>1. Moved(req[n], "session", [req[n].at EXCEPT !["session"] = now],
              Within(req[n].ip, NextCount(req[n].ip, WindowOf(req[n].at["ip"])))) \in Request
    BY RequestParts DEF Moved, Request, Within
  <2>2. \A m \in Requests : req'[m] \in Request
    BY <1>2, <2>1, RequestMoves DEF Becomes, TypeOK
  <2>3. req' \in [Requests -> Request]
    BY <1>2, <2>2 DEF ChargeIP, TypeOK
  <2>4. counter' \in [Buckets -> [Windows -> [count : Nat, exp : Nat]]]
    BY <1>2, RequestParts, ChargeIsTyped DEF ChargeIP, OpenInTime, InTime
  <2>5. QED
    BY <1>2, <2>3, <2>4 DEF ChargeIP, TypeOK
<1>3. ASSUME NEW n \in Requests, ChargeSession(n) PROVE TypeOK'
  <2> DEFINE ok == /\ req[n].ok
                   /\ Within(req[n].ses, NextCount(req[n].ses, WindowOf(req[n].at["session"])))
  <2>1. Moved(req[n], IF ok THEN "admitted" ELSE "refused", req[n].at, ok) \in Request
    BY RequestParts DEF Moved, Request, Within
  <2>2. \A m \in Requests : req'[m] \in Request
    BY <1>3, <2>1, RequestMoves DEF Becomes, TypeOK
  <2>3. req' \in [Requests -> Request]
    BY <1>3, <2>2 DEF ChargeSession, TypeOK
  <2>4. counter' \in [Buckets -> [Windows -> [count : Nat, exp : Nat]]]
    BY <1>3, RequestParts, ChargeIsTyped DEF ChargeSession, OpenInTime, InTime
  <2>5. QED
    BY <1>3, <2>3, <2>4 DEF ChargeSession, TypeOK
<1>4. ASSUME NEW n \in Requests, NEW stage \in {"ip", "session"}, Failure(n, stage)
      PROVE  TypeOK'
  <2>1. Moved(req[n], "failed", req[n].at, req[n].ok) \in Request
    BY RequestParts DEF Moved, Request
  <2>2. \A m \in Requests : req'[m] \in Request
    BY <1>4, <2>1, RequestMoves DEF Becomes, TypeOK
  <2>3. req' \in [Requests -> Request]
    BY <1>4, <2>2 DEF Failure, TypeOK
  <2>4. req[n].at[stage] \in Nat /\ req[n].at[stage] <= now /\ now <= req[n].at[stage] + Latency
    BY <1>4, RequestParts DEF Failure, OpenInTime, InTime
  <2>5. counter' \in [Buckets -> [Windows -> [count : Nat, exp : Nat]]]
    BY <1>4, <2>4, RequestParts, ChargeIsTyped DEF Failure, TypeOK
  <2>6. QED
    BY <1>4, <2>3, <2>5 DEF Failure, TypeOK
<1>5. CASE RedisRestart
  BY <1>5 DEF RedisRestart, TypeOK
<1>6. CASE Tick
  BY <1>6, RateAssumption DEF Tick, TypeOK
<1>7. CASE UNCHANGED vars
  BY <1>7 DEF vars, TypeOK
<1>8. QED
  BY <1>1, <1>2, <1>3, <1>4, <1>5, <1>6, <1>7 DEF Next, Fail, Failure

\* Time stands still while a request moves.
LEMMA MoveInTime ==
  ASSUME OpenInTime, NEW n \in Requests, NEW r, Becomes(n, r), UNCHANGED now, InTime(r)
  PROVE  OpenInTime'
<1>1. \A m \in Requests : InTime(req'[m])
  BY DEF Becomes, OpenInTime
<1>2. \A x : InTime(x)' <=> InTime(x)
  BY DEF InTime
<1>3. QED
  BY <1>1 DEF OpenInTime, InTime

LEMMA OpenInTimeStep ==
  ASSUME TypeOK, OpenInTime, [Next]_vars
  PROVE  OpenInTime'
<1>1. ASSUME NEW n \in Requests, Arrive(n) PROVE OpenInTime'
  <2>1. InTime(Moved(req[n], "ip", [req[n].at EXCEPT !["ip"] = now], req[n].ok))
    BY RequestParts, RateAssumption DEF InTime, Moved, OpenInTime
  <2>2. QED
    BY <1>1, <2>1, RequestMoves, MoveInTime DEF Arrive
<1>2. ASSUME NEW n \in Requests, ChargeIP(n) PROVE OpenInTime'
  <2>1. \A ok : InTime(Moved(req[n], "session", [req[n].at EXCEPT !["session"] = now], ok))
    BY <1>2, RequestParts, RateAssumption DEF ChargeIP, InTime, Moved, OpenInTime
  <2>2. QED
    BY <1>2, <2>1, RequestMoves, MoveInTime DEF ChargeIP
<1>3. ASSUME NEW n \in Requests, ChargeSession(n) PROVE OpenInTime'
  <2>1. \A ok : InTime(Moved(req[n], IF ok THEN "admitted" ELSE "refused", req[n].at, ok))
    BY <1>3, RequestParts DEF ChargeSession, InTime, Moved, OpenInTime
  <2>2. QED
    BY <1>3, <2>1, RequestMoves, MoveInTime DEF ChargeSession
<1>4. ASSUME NEW n \in Requests, NEW stage \in {"ip", "session"}, Failure(n, stage)
      PROVE  OpenInTime'
  <2>1. InTime(Moved(req[n], "failed", req[n].at, req[n].ok))
    BY <1>4, RequestParts DEF Failure, InTime, Moved, OpenInTime
  <2>2. QED
    BY <1>4, <2>1, RequestMoves, MoveInTime DEF Failure
<1>5. CASE RedisRestart
  BY <1>5 DEF RedisRestart, OpenInTime, InTime
<1>6. CASE Tick
  <2> SUFFICES ASSUME NEW n \in Requests PROVE InTime(req[n])'
    BY DEF OpenInTime
  <2>1. \A stage \in {"ip", "session"} :
          req[n].pc = stage => now + 1 <= req[n].at[stage] + Latency
    BY <1>6, RequestParts, RateAssumption DEF Tick
  <2>2. QED
    BY <1>6, <2>1, RequestParts DEF Tick, InTime, OpenInTime
<1>7. CASE UNCHANGED vars
  BY <1>7 DEF vars, OpenInTime, InTime
<1>8. QED
  BY <1>1, <1>2, <1>3, <1>4, <1>5, <1>6, <1>7 DEF Next, Fail, Failure

-----------------------------------------------------------------------------
(* Counting *)

\* Where a request is among those let pass and those that have charged.
LetsPass(r, b, k) ==
  \/ /\ r.ip = b /\ r.at["ip"] \div Window = k
     /\ r.pc \in {"session", "admitted"} /\ r.ok
  \/ /\ r.ses = b /\ r.at["session"] \div Window = k
     /\ r.pc = "admitted"

Charged(r, b, k) ==
  \/ /\ r.ip = b /\ r.at["ip"] \div Window = k
     /\ r.pc \in {"session", "admitted", "refused", "failed"}
  \/ /\ r.ses = b /\ r.at["session"] \div Window = k
     /\ r.pc \in {"admitted", "refused", "failed"}

LEMMA Membership ==
  ASSUME NEW b, NEW k
  PROVE  /\ Passed(b, k) = {m \in Requests : LetsPass(req[m], b, k)}
         /\ Passed(b, k)' = {m \in Requests : LetsPass(req'[m], b, k)}
         /\ Chargers(b, k) = {m \in Requests : Charged(req[m], b, k)}
         /\ Chargers(b, k)' = {m \in Requests : Charged(req'[m], b, k)}
BY DEF Passed, Chargers, LetsPass, Charged

\* Only the request that moves can come or go.
LEMMA MoveSets ==
  ASSUME NEW n \in Requests, NEW r, Becomes(n, r), NEW b, NEW k
  PROVE  /\ Passed(b, k)' \subseteq Passed(b, k) \cup {n}
         /\ (LetsPass(r, b, k) => LetsPass(req[n], b, k))
              => Passed(b, k)' \subseteq Passed(b, k)
         /\ (Charged(req[n], b, k) => Charged(r, b, k))
              => Chargers(b, k) \subseteq Chargers(b, k)'
         /\ n \in Chargers(b, k) <=> Charged(req[n], b, k)
         /\ n \in Chargers(b, k)' <=> Charged(r, b, k)
BY Membership DEF Becomes

Counting == CountersLive /\ PassedAreCounted /\ CountedAreCharged

\* Who has charged stays so.
ChargersStay == \A b, k : Chargers(b, k) \subseteq Chargers(b, k)'

LEMMA CountingStep ==
  ASSUME TypeOK, OpenInTime, Counting, [Next]_vars
  PROVE  Counting' /\ ChargersStay
<1> USE DEF Counting
<1>1. ASSUME NEW n \in Requests, Arrive(n) PROVE Counting' /\ ChargersStay
  <2> DEFINE r == Moved(req[n], "ip", [req[n].at EXCEPT !["ip"] = now], req[n].ok)
  <2>1. Becomes(n, r)
    BY <1>1, RequestMoves
  <2>2. \A b, k : ~ LetsPass(r, b, k) /\ ~ Charged(req[n], b, k)
    BY <1>1 DEF Arrive, Moved, LetsPass, Charged
  <2> HIDE DEF r
  <2>3. Settled /\ ChargersStay
    BY <2>1, <2>2, MoveSets DEF Settled, ChargersStay
  <2>4. QED
    BY <1>1, <2>3, UnchargedStep DEF Arrive
<1>2. ASSUME NEW n \in Requests, ChargeIP(n) PROVE Counting' /\ ChargersStay
  <2>0. PICK b, k : b = req[n].ip /\ k = WindowOf(req[n].at["ip"])
    OBVIOUS
  <2> DEFINE ok == Within(b, NextCount(b, k))
             r == Moved(req[n], "session", [req[n].at EXCEPT !["session"] = now], ok)
  <2>1. Becomes(n, r)
    BY <1>2, <2>0, RequestMoves
  <2>2. k \in Windows /\ b \in Buckets /\ Counts(b, k)
    BY <1>2, <2>0, ChargeCounts, RequestParts DEF ChargeIP, OpenInTime, InTime
  <2>3. /\ \A c, j : LetsPass(r, c, j) => c = b /\ j = k /\ ok
        /\ \A c, j : ~ Charged(req[n], c, j)
        /\ Charged(r, b, k)
    BY <1>2, <2>0, RequestParts DEF ChargeIP, Moved, LetsPass, Charged, WindowOf
  <2>4. Charge(b, k) /\ UNCHANGED wiped
    BY <1>2, <2>0 DEF ChargeIP
  <2> HIDE DEF r
  <2>5. \A c, j : /\ Passed(c, j)' \subseteq IF c = b /\ j = k /\ ok THEN Passed(c, j) \cup {n}
                                                                  ELSE Passed(c, j)
                  /\ Chargers(c, j) \subseteq Chargers(c, j)'
    BY <2>1, <2>3, MoveSets
  <2>6. n \in Chargers(b, k)' /\ n \notin Chargers(b, k)
    BY <2>1, <2>3, MoveSets
  <2>7. Counting'
    BY <2>2, <2>4, <2>5, <2>6, ChargedStep
  <2>8. QED
    BY <2>5, <2>7 DEF ChargersStay
<1>3. ASSUME NEW n \in Requests, ChargeSession(n) PROVE Counting' /\ ChargersStay
  <2>0. PICK b, k : b = req[n].ses /\ k = WindowOf(req[n].at["session"])
    OBVIOUS
  <2> DEFINE ok == req[n].ok /\ Within(b, NextCount(b, k))
             r == Moved(req[n], IF ok THEN "admitted" ELSE "refused", req[n].at, ok)
  <2>1. Becomes(n, r)
    BY <1>3, <2>0, RequestMoves
  <2>2. k \in Windows /\ b \in Buckets /\ Counts(b, k)
    BY <1>3, <2>0, ChargeCounts, RequestParts DEF ChargeSession, OpenInTime, InTime
  <2>3. /\ \A c, j : LetsPass(r, c, j) =>
             LetsPass(req[n], c, j) \/ (c = b /\ j = k /\ Within(b, NextCount(b, k)))
        /\ \A c, j : Charged(req[n], c, j) => Charged(r, c, j)
        /\ Charged(r, b, k) /\ ~ Charged(req[n], b, k)
    BY <1>3, <2>0, RequestParts DEF ChargeSession, Moved, LetsPass, Charged, WindowOf
  <2>4. Charge(b, k) /\ UNCHANGED wiped
    BY <1>3, <2>0 DEF ChargeSession
  <2> HIDE DEF r
  <2>5. \A c, j : /\ Passed(c, j)' \subseteq
                       IF c = b /\ j = k /\ Within(b, NextCount(b, k)) THEN Passed(c, j) \cup {n}
                                                                      ELSE Passed(c, j)
                  /\ Chargers(c, j) \subseteq Chargers(c, j)'
    BY <2>1, <2>3, MoveSets
  <2>6. n \in Chargers(b, k)' /\ n \notin Chargers(b, k)
    BY <2>1, <2>3, MoveSets
  <2>7. Counting'
    BY <2>2, <2>4, <2>5, <2>6, ChargedStep
  <2>8. QED
    BY <2>5, <2>7 DEF ChargersStay
<1>4. ASSUME NEW n \in Requests, NEW stage \in {"ip", "session"}, Failure(n, stage)
      PROVE  Counting' /\ ChargersStay
  <2>0. PICK b, k : /\ b = IF stage = "ip" THEN req[n].ip ELSE req[n].ses
                    /\ k = WindowOf(req[n].at[stage])
    OBVIOUS
  <2> DEFINE r == Moved(req[n], "failed", req[n].at, req[n].ok)
  <2>1. Becomes(n, r)
    BY <1>4, RequestMoves
  <2>2. req[n].at[stage] \in Nat /\ b \in Buckets
    BY <2>0, RequestParts
  <2>3. k \in Windows /\ Counts(b, k)
    BY <1>4, <2>0, <2>2, ChargeCounts DEF Failure, OpenInTime, InTime
  <2>4. /\ \A c, j : ~ LetsPass(r, c, j)
        /\ \A c, j : Charged(req[n], c, j) => Charged(r, c, j)
        /\ Charged(r, b, k) /\ ~ Charged(req[n], b, k)
    BY <1>4, <2>0, RequestParts DEF Failure, Moved, LetsPass, Charged, WindowOf
  <2>5. (Charge(b, k) \/ UNCHANGED counter) /\ UNCHANGED wiped
    BY <1>4, <2>0 DEF Failure
  <2> HIDE DEF r
  <2>6. \A c, j : /\ Passed(c, j)' \subseteq Passed(c, j)
                  /\ Chargers(c, j) \subseteq Chargers(c, j)'
    BY <2>1, <2>4, MoveSets
  <2>7. n \in Chargers(b, k)' /\ n \notin Chargers(b, k)
    BY <2>1, <2>4, MoveSets
  <2>8. CASE UNCHANGED counter
    BY <2>5, <2>6, <2>8, UnchargedStep DEF Settled, ChargersStay
  <2>9. CASE Charge(b, k)
    <3>1. \A c, j : Passed(c, j)' \subseteq
                      IF c = b /\ j = k /\ Within(b, NextCount(b, k)) THEN Passed(c, j) \cup {n}
                                                                     ELSE Passed(c, j)
      BY <2>6
    <3>2. Counting'
      BY <2>2, <2>3, <2>5, <2>6, <2>7, <2>9, <3>1, ChargedStep
    <3>3. QED
      BY <2>6, <3>2 DEF ChargersStay
  <2>10. QED
    BY <2>5, <2>8, <2>9
<1>5. CASE RedisRestart
  <2>1. \A b, k : Passed(b, k)' = Passed(b, k) /\ Chargers(b, k)' = Chargers(b, k)
    BY <1>5 DEF RedisRestart, Passed, Chargers
  <2>2. \A b \in Buckets, k \in Windows :
          /\ counter'[b][k].count = 0 /\ counter[b][k].count \in Nat
          /\ <<b, k>> \notin wiped' => <<b, k>> \notin wiped /\ ~ (counter[b][k].count > 0)
    BY <1>5 DEF RedisRestart, TypeOK
  <2>3. \A b \in Buckets, k \in Windows :
          /\ Cardinality(Passed(b, k)) \in Nat /\ Cardinality(Chargers(b, k)) \in Nat
    BY SetsOfRequests, FiniteRequests
  <2>4. CountersLive'
    <3> SUFFICES ASSUME NEW b \in Buckets, NEW k \in Windows, counter'[b][k].count > 0
                 PROVE  FALSE
      BY DEF CountersLive
    <3>1. counter'[b][k].count = 0
      BY <2>2
    <3>2. QED
      BY <3>1
  <2>5. PassedAreCounted'
    BY <2>1, <2>2, <2>3 DEF PassedAreCounted
  <2>6. CountedAreCharged'
    <3> SUFFICES ASSUME NEW b \in Buckets, NEW k \in Windows
                 PROVE  counter'[b][k].count <= Cardinality(Chargers(b, k)')
      BY DEF CountedAreCharged
    <3>1. counter'[b][k].count = 0 /\ Chargers(b, k)' = Chargers(b, k)
      BY <2>1, <2>2
    <3>2. QED
      BY <2>3, <3>1
  <2>7. QED
    BY <2>1, <2>4, <2>5, <2>6 DEF ChargersStay
<1>6. CASE Tick \/ UNCHANGED vars
  <2>1. UNCHANGED <<counter, wiped, req>>
    BY <1>6 DEF Tick, vars
  <2>2. Settled /\ ChargersStay
    BY <2>1 DEF Settled, ChargersStay, Passed, Chargers
  <2>3. QED
    BY <2>1, <2>2, UnchargedStep
<1>7. QED
  BY <1>1, <1>2, <1>3, <1>4, <1>5, <1>6 DEF Next, Fail, Failure

\* A limit once used up stays so.
LEMMA StaysCrowded ==
  ASSUME ChargersStay, NEW b \in Buckets, NEW k, Crowded(b, k)
  PROVE  Crowded(b, k)'
<1>1. Cardinality(Chargers(b, k)) <= Cardinality(Chargers(b, k)')
  BY FewerRequests, SetsOfRequests DEF ChargersStay
<1>2. /\ Cardinality(Chargers(b, k)) \in Nat /\ Cardinality(Chargers(b, k)') \in Nat
      /\ Limit[b] \in Nat
  BY SetsOfRequests, FiniteRequests, RateAssumption
<1>3. QED
  BY <1>1, <1>2 DEF Crowded

\* A charge beyond the limit finds the counter's window crowded.
LEMMA BeyondIsCrowded ==
  ASSUME TypeOK, Counting', NEW b \in Buckets, NEW k \in Windows,
         Charge(b, k), ~ Within(b, NextCount(b, k))
  PROVE  Crowded(b, k)'
<1>1. counter'[b][k].count = NextCount(b, k)
  BY DEF Charge, TypeOK
<1>2. counter[b][k] \in [count : Nat, exp : Nat] /\ now \in Nat
  BY DEF TypeOK
<1>3. NextCount(b, k) \in Nat /\ Limit[b] \in Nat
  BY <1>2, RateAssumption DEF NextCount
<1>4. counter'[b][k].count <= Cardinality(Chargers(b, k)')
  BY DEF Counting, CountedAreCharged
<1>5. Cardinality(Chargers(b, k)') \in Nat
  BY SetsOfRequests, FiniteRequests
<1>6. QED
  BY <1>1, <1>3, <1>4, <1>5 DEF Within, Crowded

LEMMA BeyondStep ==
  ASSUME TypeOK, OpenInTime, CountersLive, Counting', ChargersStay, BeyondMeansCrowded, [Next]_vars
  PROVE  BeyondMeansCrowded'
<1> SUFFICES ASSUME NEW m \in Requests, NEW i, NEW j, NEW s, NEW l,
                    i = req'[m].ip, j = req'[m].at["ip"] \div Window,
                    s = req'[m].ses, l = req'[m].at["session"] \div Window
             PROVE  /\ req'[m].pc = "session" /\ ~ req'[m].ok => Crowded(i, j)'
                    /\ req'[m].pc = "refused" => Crowded(i, j)' \/ Crowded(s, l)'
  BY DEF BeyondMeansCrowded

<1>1. CASE req'[m] = req[m]
  <2>1. i \in Buckets /\ s \in Buckets
    BY <1>1, RequestParts
  <2>2. /\ req[m].pc = "session" /\ ~ req[m].ok => Crowded(i, j)
        /\ req[m].pc = "refused" => Crowded(i, j) \/ Crowded(s, l)
    BY <1>1 DEF BeyondMeansCrowded
  <2>3. QED
    BY <1>1, <2>1, <2>2, StaysCrowded
<1>2. CASE Arrive(m)
  <2>1. req'[m] = Moved(req[m], "ip", [req[m].at EXCEPT !["ip"] = now], req[m].ok)
    BY <1>2, RequestMoves DEF Becomes
  <2>2. QED
    BY <2>1 DEF Moved
<1>3. CASE ChargeIP(m)
  <2>0. req'[m] = Moved(req[m], "session", [req[m].at EXCEPT !["session"] = now],
                        Within(req[m].ip, NextCount(req[m].ip, WindowOf(req[m].at["ip"]))))
    BY <1>3, RequestMoves DEF Becomes
  <2>1. /\ i = req[m].ip /\ j = WindowOf(req[m].at["ip"])
        /\ req'[m].pc = "session" /\ req'[m].ok = Within(i, NextCount(i, j))
    BY <2>0, RequestParts DEF Moved, WindowOf
  <2>2. i \in Buckets /\ j \in Windows
    BY <1>3, <2>1, RequestParts, ChargeCounts DEF ChargeIP, OpenInTime, InTime
  <2>3. Charge(i, j)
    BY <1>3, <2>1 DEF ChargeIP
  <2>4. QED
    BY <2>1, <2>2, <2>3, BeyondIsCrowded
<1>4. CASE ChargeSession(m)
  <2>1. /\ i = req[m].ip /\ j = req[m].at["ip"] \div Window
        /\ s = req[m].ses /\ l = WindowOf(req[m].at["session"])
        /\ req[m].pc = "session" /\ req'[m].pc \in {"admitted", "refused"}
        /\ req'[m].pc = "refused" => ~ req[m].ok \/ ~ Within(s, NextCount(s, l))
    <3> DEFINE ok == /\ req[m].ok
                     /\ Within(req[m].ses,
                               NextCount(req[m].ses, WindowOf(req[m].at["session"])))
    <3>1. req'[m] = Moved(req[m], IF ok THEN "admitted" ELSE "refused", req[m].at, ok)
      BY <1>4, RequestMoves DEF Becomes
    <3>2. req[m].pc = "session"
      BY <1>4 DEF ChargeSession
    <3>3. QED
      BY <3>1, <3>2 DEF Moved, WindowOf
  <2>2. i \in Buckets /\ s \in Buckets /\ l \in Windows
    BY <1>4, <2>1, RequestParts, ChargeCounts DEF ChargeSession, OpenInTime, InTime
  <2>3. Charge(s, l)
    BY <1>4, <2>1 DEF ChargeSession
  <2>4. ~ req[m].ok => Crowded(i, j)
    BY <2>1 DEF BeyondMeansCrowded
  <2>5. QED
    BY <2>1, <2>2, <2>3, <2>4, StaysCrowded, BeyondIsCrowded
<1>5. ASSUME NEW stage \in {"ip", "session"}, Failure(m, stage)
      PROVE  req'[m].pc = "failed"
  <2>1. req'[m] = Moved(req[m], "failed", req[m].at, req[m].ok)
    BY <1>5, RequestMoves DEF Becomes
  <2>2. QED
    BY <2>1 DEF Moved
<1>6. ASSUME NEW n \in Requests \ {m}, Arrive(n) \/ ChargeIP(n) \/ ChargeSession(n) \/ Fail(n)
      PROVE  req'[m] = req[m]
  BY <1>6, RequestMoves DEF Becomes, Fail, Failure
<1>7. CASE RedisRestart \/ Tick \/ UNCHANGED vars
  BY <1>1, <1>7 DEF RedisRestart, Tick, vars
<1>8. QED
  BY <1>1, <1>2, <1>3, <1>4, <1>5, <1>6, <1>7 DEF Next, Fail, Failure

-----------------------------------------------------------------------------
(* Theorems *)

LEMMA InitInvariant == Init => IInv
<1> SUFFICES ASSUME Init PROVE IInv
  OBVIOUS
<1>1. PICK ip \in [Requests -> IPs], ses \in [Requests -> Sessions] :
        req = [n \in Requests |->
                 [pc |-> "new", ip |-> ip[n], ses |-> ses[n],
                  at |-> [stage \in {"ip", "session"} |-> 0], ok |-> TRUE]]
  BY DEF Init
<1>2. TypeOK
  BY <1>1, RateAssumption DEF Init, TypeOK, Request
<1>3. OpenInTime
  BY <1>1, RateAssumption DEF Init, OpenInTime, InTime
<1>4. CountersLive
  BY DEF Init, CountersLive
<1>5. \A b, k : Passed(b, k) = {} /\ Chargers(b, k) = {}
  BY <1>1 DEF Passed, Chargers
<1>6. Cardinality({}) = 0
  BY FS_EmptySet
<1>7. PassedAreCounted
  <2>1. \A b \in Buckets, k \in Windows : counter[b][k].count = 0 /\ Limit[b] \in Nat
    BY RateAssumption DEF Init
  <2>2. \A b, k : Cardinality(Passed(b, k)) = 0
    BY <1>5, <1>6
  <2>3. QED
    BY <2>1, <2>2 DEF PassedAreCounted
<1>8. CountedAreCharged
  <2>1. \A b \in Buckets, k \in Windows : counter[b][k].count = 0
    BY DEF Init
  <2>2. QED
    BY <1>5, <1>6, <2>1 DEF CountedAreCharged
<1>9. BeyondMeansCrowded
  BY <1>1 DEF BeyondMeansCrowded
<1>10. QED
  BY <1>2, <1>3, <1>4, <1>7, <1>8, <1>9 DEF IInv

\* The invariant holds for any addresses, sessions and requests, any limits and any window.
THEOREM Invariance == Spec => []IInv
<1>1. IInv /\ [Next]_vars => IInv'
  BY TypeStep, OpenInTimeStep, CountingStep, BeyondStep DEF IInv, Counting
<1>2. QED
  BY InitInvariant, <1>1, PTL DEF Spec

\* The variables keep their types.
THEOREM TypeCorrect == Spec => []TypeOK
<1>1. IInv => TypeOK
  BY DEF IInv
<1>2. QED
  BY Invariance, <1>1, PTL

\* allow_request lets no more requests of an address or a session pass in a window than its
\* limit, if no charge takes longer than a window: a counter outlives the last charge of its
\* window.
THEOREM LimitSafety == Spec => []WindowLimit
<1>1. IInv => WindowLimit
  <2> SUFFICES ASSUME IInv, Punctual, NEW b \in Buckets, NEW k \in Windows, <<b, k>> \notin wiped
               PROVE  Cardinality({n \in Chargers(b, k) : req[n].pc = "admitted"}) <= Limit[b]
    BY DEF WindowLimit
  <2> DEFINE admitted == {n \in Chargers(b, k) : req[n].pc = "admitted"}
  <2>1. admitted \subseteq Passed(b, k)
    BY DEF IInv, OpenInTime, InTime, Chargers, Passed
  <2>2. Cardinality(Passed(b, k)) <= Limit[b]
    BY DEF IInv, PassedAreCounted
  <2>3. Cardinality(admitted) <= Cardinality(Passed(b, k))
    BY <2>1, FewerRequests, SetsOfRequests
  <2>4. /\ Cardinality(admitted) \in Nat /\ Cardinality(Passed(b, k)) \in Nat
        /\ Limit[b] \in Nat
    BY <2>1, SetsOfRequests, FiniteRequests, RateAssumption
  <2>5. QED
    BY <2>2, <2>3, <2>4
<1>2. QED
  BY Invariance, <1>1, PTL

\* A 429 of reveal_ticket or reveal_accounts comes only when the limit of the address or of
\* the session was used up in the window the request belongs to.
THEOREM RefusalSafety == Spec => []RefusalEarned
<1>1. IInv => RefusalEarned
  BY DEF IInv, BeyondMeansCrowded, Crowded, RefusalEarned
<1>2. QED
  BY Invariance, <1>1, PTL
=============================================================================
