----------------------------- MODULE RevealGate -----------------------------
(***************************************************************************)
(* The request handlers of app/api.py over the Redis keys of               *)
(* app/services/store.py: session verification, reveal tickets, account    *)
(* reveal and account feedback.                                            *)
(*                                                                         *)
(* A handler awaits Redis once per command, and the event loop may run any *)
(* other handler meanwhile, so one action is one Redis command with the    *)
(* straight-line code up to the next one.  A worker is one request in      *)
(* flight.  An answer that refuses or reports an error puts the worker     *)
(* back to Idle.                                                           *)
(*                                                                         *)
(* Redis expires keys by itself: a key holds the instant it dies at, and   *)
(* is there while Alive.                                                   *)
(***************************************************************************)
EXTENDS Integers, FiniteSets, AccountRanking

CONSTANTS
  Sessions,    \* session tokens, each drawn at most once (secrets.token_urlsafe)
  Tickets,     \* reveal tickets, each drawn at most once
  Accounts,    \* public account ids
  Workers,     \* requests that can be in flight together
  Verdicts,    \* the feedback results clients send
  Intents,     \* the intents clients send
  None,        \* no value in a field of a request or of a ticket
  SessionTTL,  \* settings.session_ttl_seconds
  TicketTTL,   \* settings.ticket_ttl_seconds
  MaxTime      \* bound on the clock

\* Settings.validated (app/config.py) demands positive TTLs.
ASSUME TTLAssumption ==
  /\ SessionTTL \in Nat \ {0}
  /\ TicketTTL \in Nat \ {0}
  /\ MaxTime \in Nat

ASSUME InputAssumption == Verdicts \subseteq AllVerdicts /\ Intents \subseteq AllIntents

\* Keys of the two kinds never meet: their digests are taken in different namespaces.
ASSUME TokenAssumption == Sessions \cap Tickets = {}

ASSUME NoneAssumption == None \notin Sessions \cup Tickets \cup Accounts

VARIABLES
  now,        \* the clock of the host, which Redis and the app share
  sess,       \* session -> instant its key dies at
  ticket,     \* ticket -> [exp, ses, clk]: death of its key, owner, issued_at
  shown,      \* session -> [exp, members]: the session-shown set and its death
  once,       \* session -> account -> death of its session-feedback key
  quality,    \* account -> account-quality verdict, Unrated when there is none
  req,        \* worker -> the request it handles
  drawn,      \* history: sessions and tickets drawn so far
  held,       \* history: sessions and tickets some client received
  delivered,  \* history: the reveals that were answered with an account
  claimed,    \* history: <<session, account>> whose session-feedback key was set
  recorded,   \* history: <<session, account>> whose verdict reached account-quality
  refused     \* history: <<session, account>> answered 409 as already reported

redis   == <<sess, ticket, shown, once, quality>>
history == <<drawn, held, delivered, claimed, recorded, refused>>
vars    == <<now, redis, req, history>>

-----------------------------------------------------------------------------
(* Keys that expire *)

Absent   == 0    \* no such key
NoExpiry == -1   \* a key on which EXPIRE was not called

Alive(e) == e = NoExpiry \/ now < e

NoTicket == [exp |-> Absent, ses |-> None, clk |-> 0]
NoShown  == [exp |-> Absent, members |-> {}]

\* SMEMBERS of the session's shown set.
ShownTo(s) == IF Alive(shown[s].exp) THEN shown[s].members ELSE {}

LongSessionDeath == now + SessionTTL + TicketTTL      \* mutant: outlives its keys
SessionDeath == now + SessionTTL

ShortShownDeath(key) == IF Alive(key.exp) THEN now + TicketTTL ELSE key.exp   \* mutant
\* EXPIRE session-shown: does nothing to a key that is gone.
ShownDeath(key) == IF Alive(key.exp) THEN now + SessionTTL ELSE key.exp

ShortOnceDeath == now + TicketTTL      \* mutant: the TTL of a ticket
OnceDeath == now + SessionTTL

\* SADD session-shown: creates the key without a death.
AddShown(key, a) ==
  IF Alive(key.exp) THEN [key EXCEPT !.members = @ \cup {a}]
                    ELSE [exp |-> NoExpiry, members |-> {a}]

ReadTicket(tk) == tk                   \* mutant: GET
\* GETDEL: the value is returned and the key is gone.
TakeTicket(tk) == [tk EXCEPT !.exp = Absent]

-----------------------------------------------------------------------------
(* Requests *)

PCs == {"idle", "v_store", "t_open", "t_admit", "t_store", "r_consume", "r_pool",
        "r_scan", "r_quality", "r_mark", "r_expire", "f_shown", "f_claim", "f_record"}

Candidate == [acc : Accounts, quality : Verdicts \cup {Unrated}]

Request == [pc : PCs,
            ses : Sessions \cup {None},      \* the cookie, or the session drawn
            tkt : Tickets \cup {None},       \* the ticket presented or drawn
            clk : Nat,                       \* the `now` the handler passes on
            intent : Intents \cup {None},
            verdict : Verdicts \cup {None},
            acc : Accounts \cup {None},      \* the account being looked at or chosen
            pool : SUBSET Accounts,          \* the pool the reveal read
            todo : SUBSET Accounts,          \* the accounts its scan has yet to read
            found : SUBSET Candidate,        \* the unseen accounts its scan collected
            past : SUBSET Accounts]          \* history: delivered when it took its ticket

Idle == [pc |-> "idle", ses |-> None, tkt |-> None, clk |-> 0, intent |-> None,
         verdict |-> None, acc |-> None, pool |-> {}, todo |-> {}, found |-> {},
         past |-> {}]

\* Worker w goes on with request r.
Goto(w, r) == req' = [req EXCEPT ![w] = r]

\* The accounts delivered to session s so far.
DeliveredTo(s) == {d.acc : d \in {e \in delivered : e.ses = s}}

TypeOK ==
  /\ now \in Nat
  /\ sess \in [Sessions -> Nat]
  /\ ticket \in [Tickets -> [exp : Nat, ses : Sessions \cup {None}, clk : Nat]]
  /\ shown \in [Sessions -> [exp : Nat \cup {NoExpiry}, members : SUBSET Accounts]]
  /\ once \in [Sessions -> [Accounts -> Nat]]
  /\ quality \in [Accounts -> Verdicts \cup {Unrated}]
  /\ req \in [Workers -> Request]
  /\ drawn \subseteq Sessions \cup Tickets
  /\ held \subseteq drawn
  /\ delivered \subseteq [ses : Sessions, acc : Accounts, tkt : Tickets]
  /\ claimed \subseteq Sessions \X Accounts
  /\ recorded \subseteq Sessions \X Accounts
  /\ refused \subseteq Sessions \X Accounts

Init ==
  /\ now = 0
  /\ sess = [s \in Sessions |-> Absent]
  /\ ticket = [t \in Tickets |-> NoTicket]
  /\ shown = [s \in Sessions |-> NoShown]
  /\ once = [s \in Sessions |-> [a \in Accounts |-> Absent]]
  /\ quality = [a \in Accounts |-> Unrated]
  /\ req = [w \in Workers |-> Idle]
  /\ drawn = {}
  /\ held = {}
  /\ delivered = {}
  /\ claimed = {}
  /\ recorded = {}
  /\ refused = {}

-----------------------------------------------------------------------------
(* POST /api/v2/session/verify *)

\* The verify-ip limit and Turnstile let the request through (a refusal changes
\* nothing here) and a session token is drawn.
StartVerify(w) ==
  /\ req[w].pc = "idle"
  /\ \E s \in Sessions \ drawn :
       /\ Goto(w, [Idle EXCEPT !.pc = "v_store", !.ses = s])
       /\ drawn' = drawn \cup {s}
  /\ UNCHANGED <<now, redis, held, delivered, claimed, recorded, refused>>

\* SET session EX session_ttl_seconds; the 204 with its cookie may get lost.
StoreVerified(w) ==
  LET s == req[w].ses IN
  /\ req[w].pc = "v_store"
  /\ sess' = [sess EXCEPT ![s] = SessionDeath]
  /\ held' \in {held, held \cup {s}}
  /\ Goto(w, Idle)
  /\ UNCHANGED <<now, ticket, shown, once, quality,
                 drawn, delivered, claimed, recorded, refused>>

-----------------------------------------------------------------------------
(* POST /api/v2/reveal-ticket *)

\* With a cookie: EXISTS session, 403 when it is gone.
StartTicket(w) ==
  /\ req[w].pc = "idle"
  /\ \E s \in Sessions \cap held :
       /\ Alive(sess[s])
       /\ Goto(w, [Idle EXCEPT !.pc = "t_admit", !.ses = s])
  /\ UNCHANGED <<now, redis, history>>

\* Without a cookie: a session token is drawn on the spot.
StartTicketWithoutCookie(w) ==
  /\ req[w].pc = "idle"
  /\ \E s \in Sessions \ drawn :
       /\ Goto(w, [Idle EXCEPT !.pc = "t_open", !.ses = s])
       /\ drawn' = drawn \cup {s}
  /\ UNCHANGED <<now, redis, held, delivered, claimed, recorded, refused>>

\* SET session EX session_ttl_seconds; the cookie travels with the final answer.
OpenSession(w) ==
  /\ req[w].pc = "t_open"
  /\ sess' = [sess EXCEPT ![req[w].ses] = SessionDeath]
  /\ Goto(w, [req[w] EXCEPT !.pc = "t_admit"])
  /\ UNCHANGED <<now, ticket, shown, once, quality, history>>

\* Both limits passed (Abort is the 429): the clock is read and a ticket drawn.
AdmitTicket(w) ==
  /\ req[w].pc = "t_admit"
  /\ \E t \in Tickets \ drawn :
       /\ Goto(w, [req[w] EXCEPT !.pc = "t_store", !.tkt = t, !.clk = now])
       /\ drawn' = drawn \cup {t}
  /\ UNCHANGED <<now, redis, held, delivered, claimed, recorded, refused>>

\* SET ticket EX ticket_ttl_seconds; the answer may get lost.
StoreTicket(w) ==
  LET r == req[w] IN
  /\ r.pc = "t_store"
  /\ ticket' = [ticket EXCEPT ![r.tkt] =
                  [exp |-> now + TicketTTL, ses |-> r.ses, clk |-> r.clk]]
  /\ held' \in {held, held \cup {r.ses, r.tkt}}
  /\ Goto(w, Idle)
  /\ UNCHANGED <<now, sess, shown, once, quality,
                 drawn, delivered, claimed, recorded, refused>>

-----------------------------------------------------------------------------
(* POST /api/v2/accounts/reveal *)

\* EXISTS session (403 when it is gone), then the clock is read.
StartReveal(w) ==
  /\ req[w].pc = "idle"
  /\ \E s \in Sessions \cap held, t \in Tickets \cap held, i \in Intents :
       /\ Alive(sess[s])
       /\ Goto(w, [Idle EXCEPT !.pc = "r_consume", !.ses = s, !.tkt = t, !.clk = now,
                               !.intent = i])
  /\ UNCHANGED <<now, redis, history>>

\* The ticket's payload admits session s at clock clk.
Admits(tk, s, clk) ==
  /\ Alive(tk.exp)
  /\ tk.ses = s
  /\ tk.clk <= clk
  /\ clk <= tk.clk + TicketTTL

\* GETDEL ticket: gone whether or not it admits; 403 when it does not.
ConsumeTicket(w) ==
  LET r == req[w] IN
  /\ r.pc = "r_consume"
  /\ ticket' = [ticket EXCEPT ![r.tkt] = TakeTicket(@)]
  /\ IF Admits(ticket[r.tkt], r.ses, r.clk)
       THEN Goto(w, [r EXCEPT !.pc = "r_pool", !.past = DeliveredTo(r.ses)])
       ELSE Goto(w, Idle)
  /\ UNCHANGED <<now, sess, shown, once, quality, history>>

\* The source slices are read (module SourcePool says which pool comes out) and
\* both limits passed; no pool is answered "exhausted" at once.
ReadPool(w) ==
  /\ req[w].pc = "r_pool"
  /\ \E p \in SUBSET Accounts \ {{}} :
       Goto(w, [req[w] EXCEPT !.pc = "r_scan", !.pool = p, !.todo = p])
  /\ UNCHANGED <<now, redis, history>>

SeenOrFailed(s, a) == a \in ShownTo(s) \/ quality[a] = Failed   \* mutant
\* SISMEMBER session-shown for the next account of the pool.
Seen(s, a) == a \in ShownTo(s)

ScanShown(w) ==
  LET r == req[w] IN
  /\ r.pc = "r_scan"
  /\ \E a \in r.todo :
       Goto(w, IF Seen(r.ses, a)
                 THEN [r EXCEPT !.todo = @ \ {a}]
                 ELSE [r EXCEPT !.pc = "r_quality", !.acc = a, !.todo = @ \ {a}])
  /\ UNCHANGED <<now, redis, history>>

\* GET account-quality of an account not seen.
ScanQuality(w) ==
  LET r == req[w] IN
  /\ r.pc = "r_quality"
  /\ Goto(w, [r EXCEPT !.pc = "r_scan", !.acc = None,
                       !.found = @ \cup {[acc |-> r.acc, quality |-> quality[r.acc]]}])
  /\ UNCHANGED <<now, redis, history>>

\* The scan is over: the best candidate, or an "exhausted" answer if there is none.
Choose(w) ==
  LET r == req[w] IN
  /\ r.pc = "r_scan"
  /\ r.todo = {}
  /\ \/ /\ r.found = {}
        /\ Goto(w, Idle)
     \/ \E c \in BestOf(r.intent, r.found) :
          Goto(w, [r EXCEPT !.pc = "r_mark", !.acc = c.acc])
  /\ UNCHANGED <<now, redis, history>>

\* SADD session-shown.
MarkShown(w) ==
  LET r == req[w] IN
  /\ r.pc = "r_mark"
  /\ shown' = [shown EXCEPT ![r.ses] = AddShown(@, r.acc)]
  /\ Goto(w, [r EXCEPT !.pc = "r_expire"])
  /\ UNCHANGED <<now, sess, ticket, once, quality, history>>

\* EXPIRE session-shown, then the 200 that carries the account.
ExpireShown(w) ==
  LET r == req[w] IN
  /\ r.pc = "r_expire"
  /\ shown' = [shown EXCEPT ![r.ses].exp = ShownDeath(shown[r.ses])]
  /\ delivered' \in {delivered,
                     delivered \cup {[ses |-> r.ses, acc |-> r.acc, tkt |-> r.tkt]}}
  /\ Goto(w, Idle)
  /\ UNCHANGED <<now, sess, ticket, once, quality,
                 drawn, held, claimed, recorded, refused>>

-----------------------------------------------------------------------------
(* POST /api/v2/accounts/feedback *)

\* EXISTS session, 403 when it is gone.
StartFeedback(w) ==
  /\ req[w].pc = "idle"
  /\ \E s \in Sessions \cap held, a \in Accounts, v \in Verdicts :
       /\ Alive(sess[s])
       /\ Goto(w, [Idle EXCEPT !.pc = "f_shown", !.ses = s, !.acc = a, !.verdict = v])
  /\ UNCHANGED <<now, redis, history>>

\* SISMEMBER session-shown, 409 when the account was not shown.
CheckShown(w) ==
  LET r == req[w] IN
  /\ r.pc = "f_shown"
  /\ Goto(w, IF Seen(r.ses, r.acc) THEN [r EXCEPT !.pc = "f_claim"] ELSE Idle)
  /\ UNCHANGED <<now, redis, history>>

\* SET session-feedback NX EX session_ttl_seconds, 409 when the key is there.
ClaimOnce(w) ==
  LET r == req[w]
      taken == Alive(once[r.ses][r.acc])
  IN
  /\ r.pc = "f_claim"
  /\ \/ /\ taken
        /\ refused' = refused \cup {<<r.ses, r.acc>>}
        /\ Goto(w, Idle)
        /\ UNCHANGED <<once, claimed>>
     \/ /\ ~taken
        /\ once' = [once EXCEPT ![r.ses][r.acc] = OnceDeath]
        /\ claimed' = claimed \cup {<<r.ses, r.acc>>}
        /\ Goto(w, [r EXCEPT !.pc = "f_record"])
        /\ UNCHANGED refused
  /\ UNCHANGED <<now, sess, ticket, shown, quality, drawn, held, delivered, recorded>>

\* SET account-quality, which never expires, then the 204.
RecordQuality(w) ==
  LET r == req[w] IN
  /\ r.pc = "f_record"
  /\ quality' = [quality EXCEPT ![r.acc] = r.verdict]
  /\ recorded' = recorded \cup {<<r.ses, r.acc>>}
  /\ Goto(w, Idle)
  /\ UNCHANGED <<now, sess, ticket, shown, once, drawn, held, delivered, claimed, refused>>

-----------------------------------------------------------------------------
(* Faults and time *)

\* The request ends early: a 429, a Redis error or timeout turned into a 503, the
\* pool that is None, or the process dying.  A command Redis had executed keeps its
\* effect; one that Redis executes late is a later step of a client gone away.
Abort(w) ==
  /\ req[w].pc # "idle"
  /\ Goto(w, Idle)
  /\ UNCHANGED <<now, redis, history>>

\* Redis restarts; docker-compose.yml runs it without a snapshot and without a log.
RedisRestart ==
  /\ sess' = [s \in Sessions |-> Absent]
  /\ ticket' = [t \in Tickets |-> [ticket[t] EXCEPT !.exp = Absent]]
  /\ shown' = [s \in Sessions |-> NoShown]
  /\ once' = [s \in Sessions |-> [a \in Accounts |-> Absent]]
  /\ quality' = [a \in Accounts |-> Unrated]
  /\ UNCHANGED <<now, req, history>>

Tick ==
  /\ now < MaxTime
  /\ now' = now + 1
  /\ UNCHANGED <<redis, req, history>>

Reveal(w) ==
  \/ StartReveal(w) \/ ConsumeTicket(w) \/ ReadPool(w) \/ ScanShown(w)
  \/ ScanQuality(w) \/ Choose(w) \/ MarkShown(w) \/ ExpireShown(w)

Handler(w) ==
  \/ StartVerify(w) \/ StoreVerified(w)
  \/ StartTicket(w) \/ StartTicketWithoutCookie(w) \/ OpenSession(w)
  \/ AdmitTicket(w) \/ StoreTicket(w)
  \/ Reveal(w)
  \/ StartFeedback(w) \/ CheckShown(w) \/ ClaimOnce(w) \/ RecordQuality(w)
  \/ Abort(w)

Next == (\E w \in Workers : Handler(w)) \/ RedisRestart \/ Tick

Spec == Init /\ [][Next]_vars

-----------------------------------------------------------------------------
(* What the gate promises *)

\* A ticket pays for at most one account, delivered to the session the ticket was
\* issued to, whatever the interleaving of reveals that present it (the GETDEL of
\* consume_ticket is the only guard).
TicketPaysOneReveal ==
  /\ \A d, e \in delivered : d.tkt = e.tkt => d = e
  /\ \A d \in delivered : ticket[d.tkt].ses = d.ses

\* While a session lives, Redis remembers every account that was delivered to it:
\* the session-shown key outlives the session, though it starts without a death, is
\* given one by a second command, and the session's own life is fixed.
DeliveredIsShown ==
  \A d \in delivered : Alive(sess[d.ses]) => d.acc \in ShownTo(d.ses)

\* A reveal never brings an account that had been delivered to the living session
\* before it took its ticket, although selecting and marking are separate commands.
NoRepeatAfterDelivery ==
  \A w \in Workers :
    /\ req[w].pc \in {"r_mark", "r_expire"}
    /\ Alive(sess[req[w].ses])
    => req[w].acc \notin req[w].past

\* "Exhausted" is answered to a living session only if each account of the pool it
\* was computed from has been shown to that session.
ExhaustedMeansShown ==
  \A w \in Workers :
    /\ req[w].pc = "r_scan" /\ req[w].todo = {} /\ req[w].found = {}
    /\ Alive(sess[req[w].ses])
    => req[w].pool \subseteq ShownTo(req[w].ses)

\* While a session lives, the account it reported on stays locked against a second
\* report: the session-feedback key outlives the session.
ReportLocksAccount ==
  \A p \in claimed : Alive(sess[p[1]]) => Alive(once[p[1]][p[2]])

\* Verdicts come only from sessions the account was shown to, and the evidence is
\* still there while the session lives.
ReportedIsShown ==
  \A p \in claimed : Alive(sess[p[1]]) => p[2] \in ShownTo(p[1])

\* An account whose login was reported failed is only chosen when the scan met
\* nothing else, for either intent.
FailedIsLastResort ==
  \A w \in Workers :
    /\ req[w].pc \in {"r_mark", "r_expire"}
    /\ [acc |-> req[w].acc, quality |-> Failed] \in req[w].found
    => \A c \in req[w].found : c.quality = Failed

\* README.md:25 and test_same_session_never_receives_same_account_twice: a living
\* session is never given the same account twice.
NoRepeatInSession ==
  \A d, e \in delivered :
    d.ses = e.ses /\ d.acc = e.acc /\ Alive(sess[d.ses]) => d = e

\* FRONTEND_API.md:181: 409 says that the account's report is already in, so the
\* verdict is recorded or about to be by the request that holds the claim.
ConflictMeansRecorded ==
  \A p \in refused :
    \/ p \in recorded
    \/ \E w \in Workers : /\ req[w].pc = "f_record"
                          /\ <<req[w].ses, req[w].acc>> = p
=============================================================================
