---------------------------- MODULE GateSettings ----------------------------
(***************************************************************************)
(* Which settings the relay starts with (app/config.py), and how the gate  *)
(* then treats a request: the browser checks of app/api.py, the cookie it  *)
(* sets, the address it charges and the answer of Turnstile it believes    *)
(* (app/security.py, app/services/turnstile.py).                           *)
(***************************************************************************)
EXTENDS Naturals

(* Settings *)

\* A number from the environment that Python's float accepts though it is none: every
\* comparison with it is false.
NaN == [nan |-> TRUE]
Seconds(n) == [nan |-> FALSE, n |-> n]

AtMost(x, y) == ~ x.nan /\ ~ y.nan /\ x.n <= y.n

\* Urls: not given, https without credentials, or anything else.
Urls == {"none", "https", "other"}

\* _https_url
UrlOk(url, required) == url = "https" \/ (url = "none" /\ ~ required)

\* PUBLIC_ORIGIN as it was written: the way browsers write the origin of the page, with
\* the default port, in capitals, with a path, not https, or not at all.
Origins == {"plain", "port", "capitals", "path", "other", "none"}

Hour == 3600    \* seconds

TimesOk(s) ==
  /\ \A interval \in {s.intervalA, s.intervalB} :
       /\ interval \in 1..Hour
       /\ ~ AtMost(Seconds(interval), s.timeout)
  /\ s.freshness \in 1..60
  /\ s.poolTTL \in 1..60
  /\ s.sliceTTL > s.freshness
  /\ ~ AtMost(s.timeout, Seconds(0))
  /\ s.sessionTTL > 0 /\ s.ticketTTL > 0

\* The least of the rate limits stands for all of them, and poolTTL above for the life and
\* the freshness of the pool.
LimitsOk(s) == s.window > 0 /\ s.limit > 0 /\ s.accounts \in 1..20 /\ s.bytes >= 1024

\* Redis' address, key prefix and the name of the proxy header are well formed.
NamesOk(s) == s.names

Production(s) == s.env = "production"

OriginOk(s) ==
  Production(s) => s.origin \in {"plain", "port", "capitals"} /\ s.hostCookie

SourcesOk(s) ==
  UrlOk(s.sources, s.pollers) /\ UrlOk(s.store, FALSE) /\ UrlOk(s.referer, FALSE)

TestModeAnywhere(s) ==    \* mutant: production may use test mode
  IF s.testMode THEN s.longToken
  ELSE /\ Production(s) => s.keys /\ s.hostname # "none" /\ s.action # "none"
       /\ UrlOk(s.verifyUrl, Production(s))
       /\ UrlOk(s.scriptUrl, Production(s))

\* Outside production only the form of the urls matters.  A blank hostname is a text
\* with something in it.
TurnstileOk(s) ==
  IF s.testMode
    THEN ~ Production(s) /\ s.longToken
    ELSE /\ Production(s) => s.keys /\ s.hostname # "none" /\ s.action # "none"
         /\ UrlOk(s.verifyUrl, Production(s))
         /\ UrlOk(s.scriptUrl, Production(s))

SecretsOk(s) == Production(s) => s.longSecrets /\ s.secureCookie

\* Settings.validated
Accepted(s) ==
  /\ s.env \in {"production", "development", "test"}
  /\ TimesOk(s)
  /\ LimitsOk(s)
  /\ NamesOk(s)
  /\ OriginOk(s)
  /\ SourcesOk(s)
  /\ TurnstileOk(s)
  /\ SecretsOk(s)

-----------------------------------------------------------------------------
(* Requests *)

\* What a browser sends: whether its script set X-Requested-With or X-CSRF-Token,
\* Sec-Fetch-Site, and Origin, which is always in the plain form.
Requests == [script : BOOLEAN, site : {"none", "same-origin", "same-site", "cross-site"},
             origin : {"none", "plain", "foreign"}]

\* _require_browser_request
Admitted(s, r) ==
  /\ r.script
  /\ r.site # "cross-site"
  /\ s.origin = "none" \/ r.origin = s.origin

\* A browser keeps a __Host- cookie only if it is secure and for the whole host.
CookieKept(s) == s.hostCookie => s.secureCookie

\* client_ip: the peer, or what the proxy says; what is no address is one for all.
NoAddress == "0.0.0.0"

ClientIp(s, peer, forwarded) ==
  IF ~ s.trustProxy \/ forwarded = "absent" THEN peer
  ELSE IF forwarded = "garbled" THEN NoAddress ELSE forwarded

\* The origins a page may load scripts from, and the origin of its Turnstile script.
ScriptOrigin(s) == IF s.scriptUrl = "none" THEN "none" ELSE s.scriptUrl
ScriptSources(s) == {"self"} \cup ({ScriptOrigin(s)} \ {"none"})

-----------------------------------------------------------------------------
(* Turnstile *)

\* Its answer: usable is one that arrives with status 200, not too large, as an object;
\* "near" is a value that differs in case and blanks only, "like" one that counts as
\* true without being True.
Replies == [usable : BOOLEAN, success : {"true", "like", "false"},
            hostname : {"exact", "near", "other"}, action : {"exact", "near", "other"}]

\* TurnstileVerifier.verify, for a token the client made up or the one of test mode.
Verified(s, token, reply) ==
  IF s.testMode THEN token = "test"
  ELSE /\ s.verifyUrl # "none"
       /\ reply.usable /\ reply.success = "true"
       /\ s.hostname = "given" => reply.hostname # "other"
       /\ s.action # "none" => reply.action = "exact"

-----------------------------------------------------------------------------
(* What accepted settings promise *)

\* What SourcePool, RevealGate and RateWindow assume of the constants that are settings:
\* TimingAssumption, TTLAssumption and RateAssumption.  (Their other constants are inputs,
\* bounds of the clock or the latency of Redis, none of which is limited by a setting.)
AssumptionsHold(s) ==
  /\ s.intervalA > 0 /\ s.intervalB > 0 /\ s.freshness > 0 /\ s.sliceTTL > s.freshness
  /\ s.sessionTTL > 0 /\ s.ticketTTL > 0 /\ s.window > 0 /\ s.limit > 0

\* In production, a request that does not come from a page of the public origin is
\* refused, whatever its other headers are.
ClosedToOthers(s) == \A r \in Requests : r.origin # "plain" => ~ Admitted(s, r)

\* The page's own requests are admitted if the origin is written the way browsers do,
\* and its cookie is kept.
OpenToItsPage(s) ==
  /\ CookieKept(s)
  /\ s.origin = "plain" =>
       Admitted(s, [script |-> TRUE, site |-> "same-origin", origin |-> "plain"])
  /\ ScriptOrigin(s) \in ScriptSources(s)

\* In production a session takes an answer of Turnstile that says True, for this action
\* and, unless the hostname is blank, for this host.
TurnstileDecides(s) ==
  \A token \in {"test", "drawn"}, reply \in Replies :
    Verified(s, token, reply) =>
      /\ reply.success = "true" /\ reply.action = "exact"
      /\ reply.hostname # "other" \/ s.hostname = "blank"

\* Addresses are told apart: a header counts only behind a proxy that is trusted, and
\* then no two clients it names are charged as one.
AddressesApart(s) ==
  \A f, g \in {"client1", "client2", "absent"} :
    ClientIp(s, "peer", f) = ClientIp(s, "peer", g) <=> (f = g \/ ~ s.trustProxy)

GateSound(s) ==
  Accepted(s) =>
    /\ AssumptionsHold(s)
    /\ AddressesApart(s)
    /\ Production(s) => ClosedToOthers(s) /\ OpenToItsPage(s) /\ TurnstileDecides(s)
=============================================================================
