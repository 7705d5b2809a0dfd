----------------------------- MODULE RateWindow -----------------------------
(***************************************************************************)
(* The fixed-window limits of one endpoint: RedisStore.allow_request       *)
(* (app/services/store.py) called for the client's address and then for    *)
(* its session by reveal_ticket and reveal_accounts (app/api.py).  Every   *)
(* request charges both, even if the first one already refuses it.         *)
(*                                                                         *)
(* Each call reads the clock, then sends INCR and EXPIRE in one MULTI, so  *)
(* a window may be over when its counter is charged.                       *)
(***************************************************************************)
EXTENDS Integers, FiniteSets

CONSTANTS
  Requests,  \* the requests of a run
  IPs,       \* client addresses
  Sessions,  \* session digests
  Limit,     \* the address limit and the session limit, by bucket
  Window,    \* settings.rate_window_seconds
  Latency,   \* the longest the charge of a counter takes
  MaxTime    \* bound on the clock

Buckets == IPs \cup Sessions

\* Settings.validated demands positive limits and a positive window.  It relates the
\* window to nothing: a charge may take longer than one.
ASSUME RateAssumption ==
  /\ IsFiniteSet(Requests)
  /\ IPs \cap Sessions = {}
  /\ Limit \in [Buckets -> Nat \ {0}]
  /\ Window \in Nat \ {0}
  /\ Latency \in Nat
  /\ MaxTime \in Nat

VARIABLES
  now,      \* the clock, in seconds
  counter,  \* bucket -> window number -> [count, exp]: the rate key
  req,      \* request -> its progress
  wiped     \* history: <<bucket, window>> whose counter a Redis restart lost

vars == <<now, counter, req, wiped>>

Windows == 0..MaxTime \div Window

OneWindow(t) == 0      \* mutant: the window number is left out of the key
WindowOf(t) == t \div Window

ShortLife == Window \div 2   \* mutant: half a window
Life == 2 * Window

\* A request: the address and session it comes from, the instants it read before
\* each charge, and whether each charge was within the limit.
Request == [pc : {"new", "ip", "session", "admitted", "refused", "failed"},
            ip : IPs, ses : Sessions, at : [{"ip", "session"} -> Nat], ok : BOOLEAN]

TypeOK ==
  /\ now \in 0..MaxTime
  /\ counter \in [Buckets -> [Windows -> [count : Nat, exp : Nat]]]
  /\ req \in [Requests -> Request]
  /\ wiped \subseteq Buckets \X Windows

Init ==
  /\ now = 0
  /\ counter = [b \in Buckets |-> [k \in Windows |-> [count |-> 0, exp |-> 0]]]
  /\ \E ip \in [Requests -> IPs], ses \in [Requests -> Sessions] :
       req = [n \in Requests |->
                [pc |-> "new", ip |-> ip[n], ses |-> ses[n],
                 at |-> [stage \in {"ip", "session"} |-> 0], ok |-> TRUE]]
  /\ wiped = {}

-----------------------------------------------------------------------------
\* The count INCR returns: a key that died starts over.
NextCount(b, k) == (IF now < counter[b][k].exp THEN counter[b][k].count ELSE 0) + 1

StrictlyWithin(b, count) == count < Limit[b]      \* mutant: off by one
Within(b, count) == count <= Limit[b]

\* MULTI INCR, EXPIRE: the life of the key starts anew.
Charge(b, k) ==
  counter' = [counter EXCEPT ![b][k] = [count |-> NextCount(b, k), exp |-> now + Life]]

\* The request is in the handler and reads the clock for the address limit.
Arrive(n) ==
  /\ req[n].pc = "new"
  /\ req' = [req EXCEPT ![n].pc = "ip", ![n].at["ip"] = now]
  /\ UNCHANGED <<now, counter, wiped>>

\* The address is charged; the clock is read again for the session limit.
ChargeIP(n) ==
  LET b == req[n].ip
      k == WindowOf(req[n].at["ip"])
  IN
  /\ req[n].pc = "ip"
  /\ Charge(b, k)
  /\ req' = [req EXCEPT ![n].pc = "session", ![n].at["session"] = now,
                        ![n].ok = Within(b, NextCount(b, k))]
  /\ UNCHANGED <<now, wiped>>

\* The session is charged; 429 unless both were within their limits.
ChargeSession(n) ==
  LET b == req[n].ses
      k == WindowOf(req[n].at["session"])
      ok == req[n].ok /\ Within(b, NextCount(b, k))
  IN
  /\ req[n].pc = "session"
  /\ Charge(b, k)
  /\ req' = [req EXCEPT ![n].pc = IF ok THEN "admitted" ELSE "refused", ![n].ok = ok]
  /\ UNCHANGED <<now, wiped>>

\* Redis fails a charge, before or after it took effect: 503.
Fail(n) ==
  \E stage \in {"ip", "session"} :
    LET b == IF stage = "ip" THEN req[n].ip ELSE req[n].ses IN
    /\ req[n].pc = stage
    /\ \/ Charge(b, WindowOf(req[n].at[stage]))
       \/ UNCHANGED counter
    /\ req' = [req EXCEPT ![n].pc = "failed"]
    /\ UNCHANGED <<now, wiped>>

\* Redis keeps nothing on disk.
RedisRestart ==
  /\ counter' = [b \in Buckets |-> [k \in Windows |-> [count |-> 0, exp |-> 0]]]
  /\ wiped' = wiped \cup {bk \in Buckets \X Windows : counter[bk[1]][bk[2]].count > 0}
  /\ wiped' # wiped
  /\ UNCHANGED <<now, req>>

\* A second passes; no charge is open for longer than Latency.
Tick ==
  /\ now < MaxTime
  /\ \A n \in Requests : req[n].pc \in {"ip", "session"} =>
                           now < req[n].at[req[n].pc] + Latency
  /\ now' = now + 1
  /\ UNCHANGED <<counter, req, wiped>>

Next ==
  \/ \E n \in Requests : Arrive(n) \/ ChargeIP(n) \/ ChargeSession(n) \/ Fail(n)
  \/ RedisRestart
  \/ Tick

Spec == Init /\ [][Next]_vars

-----------------------------------------------------------------------------
(* Properties *)

\* The requests that charged bucket b in window k, the window being that of the
\* clock each read (a request that failed may or may not have).
Chargers(b, k) ==
  {n \in Requests :
     \/ /\ req[n].ip = b /\ req[n].at["ip"] \div Window = k
        /\ req[n].pc \in {"session", "admitted", "refused", "failed"}
     \/ /\ req[n].ses = b /\ req[n].at["session"] \div Window = k
        /\ req[n].pc \in {"admitted", "refused", "failed"}}

\* Charges take no longer than a window: the client timeouts and the default window of
\* 60 seconds give that, a window of a second does not.
Punctual == Latency <= Window

\* If charges are punctual, no address and no session has more requests admitted in a
\* window than its limit, whatever overlaps: a counter never dies before the last charge
\* of its window.  Only a Redis restart forgets.
WindowLimit ==
  Punctual =>
    \A b \in Buckets, k \in Windows :
      <<b, k>> \notin wiped =>
        Cardinality({n \in Chargers(b, k) : req[n].pc = "admitted"}) <= Limit[b]

\* A 429 is earned, however late charges are: in the window of the address or of the
\* session, that many requests and more had been charged.  (The life of the key is renewed by
\* every refused request, so a key without the window number would never let a
\* client that keeps trying in again.)
RefusalEarned ==
  \A n \in Requests : req[n].pc = "refused" =>
    \/ Cardinality(Chargers(req[n].ip, req[n].at["ip"] \div Window)) > Limit[req[n].ip]
    \/ Cardinality(Chargers(req[n].ses, req[n].at["session"] \div Window))
         > Limit[req[n].ses]
=============================================================================
