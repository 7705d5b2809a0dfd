----------------------------- MODULE RelayClient -----------------------------
(***************************************************************************)
(* The page of the relay (static/app.js): what is on the screen, what it   *)
(* keeps in sessionStorage, its requests in flight, and the session at the *)
(* server as far as their answers tell.  RevealGate has what the server    *)
(* does with requests that overlap; here each takes effect at once.        *)
(*                                                                         *)
(* A function that awaits is a task: it runs from one answer to the next,  *)
(* the server's or the clipboard's, and whatever the visitor does in       *)
(* between acts on the same state.  How things look, sounds, timers that   *)
(* only animate, and which wording a step has are left out; a button can   *)
(* be pressed when it is shown and enabled.                                *)
(***************************************************************************)
EXTENDS Naturals, FiniteSets

CONSTANTS
  Accounts,  \* ids of shared accounts
  None,      \* no account, nothing saved
  MaxTasks,  \* bound on the requests and copies in flight at once
  MaxCopies, \* bound on the copies among them
  Unticks    \* bound: whether a ticked box is unticked again

ASSUME ClientAssumption ==
  None \notin Accounts /\ MaxTasks \in Nat \ {0} /\ MaxCopies \in Nat /\ Unticks \in BOOLEAN

Tasks == 1..MaxTasks

Verdicts == {"shadowrocket_available", "shadowrocket_missing", "login_success", "login_failed"}
Intents == {"unset", "target_app", "other_app", "expert"}

VARIABLES
  page,      \* what the page holds in memory: state, and what is shown of it
  saved,     \* the sessionStorage item, or None
  tasks,     \* task -> its progress
  server     \* the session, and whether the browser has its cookie: see NoSession

vars == <<page, saved, tasks, server>>

-----------------------------------------------------------------------------
(* The page *)

Expert(p) == p.intent = "expert"

\* Steps of the account on the screen that are taken.
Unstarted == [username |-> FALSE, password |-> FALSE, preflight |-> FALSE, security |-> FALSE,
              login |-> FALSE, results |-> FALSE, exit |-> "unset"]

\* A page just loaded that found nothing to restore.
Blank(intent) ==
  [view |-> "boot", widget |-> "config", token |-> "unset", intent |-> intent, account |-> None,
   steps |-> Unstarted, panel |-> "steps", signedOut |-> FALSE, locked |-> FALSE,
   busy |-> FALSE, recovery |-> "unset"]

SaveUnlocked(p) ==    \* mutant: the lock is not kept
  IF p.account = None THEN None
  ELSE [account |-> p.account, intent |-> p.intent, steps |-> p.steps, locked |-> FALSE]

\* saveSession
Save(p) ==
  IF p.account = None THEN None
  ELSE [account |-> p.account, intent |-> p.intent, steps |-> p.steps, locked |-> p.locked]

\* updateCopyUI: the buttons it shows below the account.
Panel(p) ==
  CASE Expert(p)       -> IF p.steps.password /\ ~ p.steps.login THEN "results" ELSE "steps"
    [] p.steps.login   -> "target"
    [] p.steps.results -> "results"
    [] OTHER           -> "steps"

Redrawn(p) == [p EXCEPT !.panel = Panel(p)]

ShowStillRetry(p, account, locked, results) ==    \* mutant: the recovery is not hidden
  Redrawn([p EXCEPT !.view = "account", !.token = "unset", !.widget = "absent", !.account = account,
                    !.locked = locked, !.steps.results = results])

\* showAccount.  The widget has done its service and is forgotten here: its errors are
\* among those of Overlay.
ShowAccount(p, account, locked, results) ==
  Redrawn([p EXCEPT !.view = "account", !.token = "unset", !.widget = "absent", !.account = account,
                    !.locked = locked, !.steps.results = results, !.recovery = "unset"])

\* showResultChoices
ShowResults(p) == [p EXCEPT !.steps.results = TRUE, !.panel = "results"]

\* showNoviceExitGate
ShowGate(p, verdict) ==
  [p EXCEPT !.steps.exit = verdict, !.signedOut = FALSE, !.panel = "none"]

\* restoreSession
Restored(s) ==
  LET intent == IF s.intent = "unset" THEN "target_app" ELSE s.intent
      shown == ShowAccount([Blank(intent) EXCEPT !.widget = "absent", !.steps = s.steps],
                           s.account, s.locked, s.steps.results)
  IN CASE s.steps.exit # "unset" /\ intent # "expert" -> ShowGate(shown, s.steps.exit)
       [] s.steps.results                        -> ShowResults(shown)
       [] OTHER                                  -> shown

\* showVerify
ShowVerify(p) == [p EXCEPT !.view = "verify", !.account = None]

\* showSuccess and showExhausted
Leave(p, view) ==
  [p EXCEPT !.view = view, !.account = None, !.steps = Unstarted, !.signedOut = FALSE,
            !.recovery = "unset"]

-----------------------------------------------------------------------------
(* Tasks *)

Idle == [pc |-> "off", by |-> "unset", again |-> FALSE, verdict |-> "unset",
         account |-> None, answer |-> "unset"]

\* The buttons that copy: one each by the name and the password, and the one between them.
CopyButtons == {"username", "password", "entered"}

\* pc names what is awaited and answer the server's reply; by tells who began the task, and
\* again whether it replaces an account.
Task ==
  [pc : {"off", "copy", "verify", "ticket", "reveal", "feedback"},
   by : {"unset", "verify", "feedback", "exit", "retry"} \cup CopyButtons, again : BOOLEAN,
   verdict : Verdicts \cup {"unset"}, account : Accounts \cup {None},
   answer : {"unset", "ok", "refused", "exhausted"}]

Steps ==
  [username : BOOLEAN, password : BOOLEAN, preflight : BOOLEAN, security : BOOLEAN,
   login : BOOLEAN, results : BOOLEAN, exit : Verdicts \cup {"unset"}]

Views == {"boot", "verify", "account", "success", "empty"}
Widgets == {"config", "script", "ready", "absent"}
Panels == {"steps", "results", "target", "none"}
Recoveries == {"unset", "reload", "reveal", "replace"} \cup Verdicts

Page ==
  [view : Views, widget : Widgets, token : {"unset", "fresh"}, intent : Intents,
   account : Accounts \cup {None}, steps : Steps, panel : Panels, signedOut : BOOLEAN,
   locked : BOOLEAN, busy : BOOLEAN, recovery : Recoveries]

Item == [account : Accounts, intent : Intents, steps : Steps, locked : BOOLEAN]

\* JSON.stringify never makes what sessionStorage answers for a missing item.
ASSUME ItemAssumption == None \notin Item

TypeOK ==
  /\ page \in Page
  /\ saved \in Item \cup {None}
  /\ tasks \in [Tasks -> Task]
  /\ server \in [cookie : BOOLEAN, alive : BOOLEAN,
                 shown : SUBSET Accounts, claimed : SUBSET Accounts]

\* The requests in flight.
InFlight == {t \in Tasks : tasks[t].pc \notin {"off", "copy"}}

\* The next free task.
Free(t) == tasks[t] = Idle /\ \A u \in Tasks : u < t => tasks[u] # Idle

Begin(t, task) ==
  /\ Free(t)
  /\ tasks' = [tasks EXCEPT ![t] = task]

\* What the callers of a task do when it is over, whichever way.
Finally(p, by) ==
  LET done == IF by = "retry" THEN p ELSE [p EXCEPT !.busy = FALSE]
  IN IF by = "exit" THEN [done EXCEPT !.steps.exit = "unset", !.signedOut = FALSE] ELSE done

\* The page becomes p, and that is saved before its callers go on.
End(t, p, s) ==
  /\ page' = Finally(p, tasks[t].by)
  /\ saved' = s
  /\ tasks' = [tasks EXCEPT ![t] = Idle]

\* revealOne: it hides the recovery and asks for a ticket.
RevealView(p, again) ==
  [p EXCEPT !.view = IF again THEN "account" ELSE "boot", !.recovery = "unset"]
Reveal(by, again) == [Idle EXCEPT !.pc = "ticket", !.by = by, !.again = again]

\* The accounts a session has been shown, and those of them it has given a verdict on.
NoSession == [cookie |-> FALSE, alive |-> FALSE, shown |-> {}, claimed |-> {}]
NewSession == [NoSession EXCEPT !.cookie = TRUE, !.alive = TRUE]

Init ==
  /\ page \in {Blank("unset"), Blank("expert")}
  /\ saved = None
  /\ tasks = [t \in Tasks |-> Idle]
  /\ server = NoSession

-----------------------------------------------------------------------------
(* The server *)

\* Turnstile accepts a token once, if at all.
ServeVerify(t) ==
  /\ tasks[t].pc = "verify"
  /\ \/ server' = NewSession /\ tasks' = [tasks EXCEPT ![t].answer = "ok"]
     \/ server' = server /\ tasks' = [tasks EXCEPT ![t].answer = "refused"]

\* Who comes without a cookie gets a session; the cookie of one that is over gets a 403.
ServeTicket(t) ==
  /\ tasks[t].pc = "ticket"
  /\ \/ ~ server.cookie /\ server' = NewSession
     \/ server.cookie /\ server' = server
  /\ tasks' = [tasks EXCEPT ![t].answer = IF server'.alive THEN "ok" ELSE "refused"]

\* An account the session has not been shown, or none (the pool may be empty).
ServeReveal(t) ==
  /\ tasks[t].pc = "reveal"
  /\ \/ /\ server.alive
        /\ \E a \in Accounts \ server.shown :
             /\ server' = [server EXCEPT !.shown = @ \cup {a}]
             /\ tasks' = [tasks EXCEPT ![t].answer = "ok", ![t].account = a]
     \/ /\ tasks' = [tasks EXCEPT ![t].answer = IF server.alive THEN "exhausted" ELSE "refused"]
        /\ server' = server

\* The verdict is recorded once per session and account, 403 or 409 otherwise.
ServeFeedback(t) ==
  LET a == tasks[t].account
      accepted == server.alive /\ a \in server.shown \ server.claimed
  IN
  /\ tasks[t].pc = "feedback"
  /\ tasks' = [tasks EXCEPT ![t].answer = IF accepted THEN "ok" ELSE "refused"]
  /\ server' = IF accepted THEN [server EXCEPT !.claimed = @ \cup {a}] ELSE server

Serve(t) ==
  /\ tasks[t].answer = "unset"
  /\ ServeVerify(t) \/ ServeTicket(t) \/ ServeReveal(t) \/ ServeFeedback(t)
  /\ UNCHANGED <<page, saved>>

\* The session's life ends, or Redis restarts; the cookie was set later and dies later.
Expire ==
  /\ server.cookie
  /\ server' = [NoSession EXCEPT !.cookie = server.alive]
  /\ UNCHANGED <<page, saved, tasks>>

-----------------------------------------------------------------------------
(* Answers *)

\* verifyAndReveal goes on with revealOne.
Verified(t) ==
  /\ tasks[t].pc = "verify" /\ tasks[t].answer = "ok"
  /\ page' = RevealView(page, FALSE)
  /\ tasks' = [tasks EXCEPT ![t] = Reveal("verify", FALSE)]
  /\ UNCHANGED <<saved, server>>

\* 403: the widget is reset.
VerifyRefused(t) ==
  /\ tasks[t].pc = "verify" /\ tasks[t].answer = "refused"
  /\ End(t, ShowVerify([page EXCEPT !.token = "unset"]), None)
  /\ UNCHANGED server

VerifyHangs(t) ==    \* mutant: busy is only reset after an answer
  /\ tasks[t].pc = "verify"
  /\ tasks' = [tasks EXCEPT ![t] = Idle]
  /\ UNCHANGED <<page, saved, server>>

\* Any other failure is passed over in silence.
VerifyFails(t) ==
  /\ tasks[t].pc = "verify"
  /\ End(t, page, saved)
  /\ UNCHANGED server

\* The reveal is sent with the intent as it is now; without one the server refuses it.
GotTicket(t) ==
  /\ tasks[t].pc = "ticket" /\ tasks[t].answer = "ok"
  /\ page.intent # "unset"
  /\ tasks' = [tasks EXCEPT ![t].pc = "reveal", ![t].answer = "unset"]
  /\ UNCHANGED <<page, saved, server>>

KeepSteps(p) == [p EXCEPT !.steps.exit = "unset"]    \* mutant: the steps are not reset
\* revealOne before it shows the account that replaces another.
StartOver(p) == [p EXCEPT !.steps = Unstarted, !.signedOut = FALSE]

GotAccount(t) ==
  LET p == ShowAccount(IF tasks[t].again THEN StartOver(page) ELSE page,
                       tasks[t].account, FALSE, FALSE)
  IN
  /\ tasks[t].pc = "reveal" /\ tasks[t].answer = "ok"
  /\ End(t, p, Save(p))
  /\ UNCHANGED server

GotNone(t) ==
  /\ tasks[t].pc = "reveal" /\ tasks[t].answer = "exhausted"
  /\ End(t, Leave(page, "empty"), None)
  /\ UNCHANGED server

\* revealOne's catch.
RevealFails(t) ==
  LET kept == [ShowAccount(page, page.account, page.locked, FALSE) EXCEPT !.recovery = "replace"]
  IN
  /\ tasks[t].pc \in {"ticket", "reveal"}
  /\ IF page.account # None               THEN End(t, kept, Save(kept))
     ELSE IF tasks[t].answer = "refused"  THEN End(t, ShowVerify(page), None)
     ELSE End(t, [page EXCEPT !.view = "boot", !.recovery = "reveal"], saved)
  /\ UNCHANGED server

\* submitFeedback: the visitor is done, or gets another account.
FeedbackTaken(t) ==
  LET p == [page EXCEPT !.locked = TRUE] IN
  /\ tasks[t].pc = "feedback" /\ tasks[t].answer = "ok"
  /\ IF tasks[t].verdict \in {"shadowrocket_available", "login_success"}
       THEN End(t, Leave(p, "success"), None)
       ELSE /\ page' = RevealView(p, TRUE)
            /\ tasks' = [tasks EXCEPT ![t] = Reveal(tasks[t].by, TRUE)]
            /\ UNCHANGED saved
  /\ UNCHANGED server

\* submitFeedback's catch, for a 403 and a 409 as for a lost connection.
FeedbackFails(t) ==
  LET kept == [ShowAccount(page, page.account, page.locked, FALSE)
                 EXCEPT !.recovery = IF page.locked THEN "replace" ELSE tasks[t].verdict]
  IN
  /\ tasks[t].pc = "feedback"
  /\ IF page.account = tasks[t].account
       THEN End(t, kept, Save(kept))
       ELSE End(t, page, saved)
  /\ UNCHANGED server

\* What happens next to a request: it is served, it is answered, or it fails (429, 503, a
\* lost connection), whether or not the server saw it.
Proceed(t) ==
  \/ Serve(t)
  \/ Verified(t) \/ VerifyRefused(t) \/ VerifyFails(t)
  \/ GotTicket(t) \/ GotAccount(t) \/ GotNone(t) \/ RevealFails(t)
  \/ FeedbackTaken(t) \/ FeedbackFails(t)

-----------------------------------------------------------------------------
(* Loading the page, and Turnstile *)

\* A page loads: it restores the account saved, or begins with the configuration.
Load ==
  /\ IF saved # None THEN page' = Restored(saved)
                     ELSE \E intent \in {"unset", "expert"} : page' = Blank(intent)
  /\ tasks' = [t \in Tasks |-> Idle]
  /\ UNCHANGED <<saved, server>>

ConfigLoaded ==
  /\ page.widget = "config"
  /\ page' = ShowVerify([page EXCEPT !.widget = "script"])
  /\ saved' = None
  /\ UNCHANGED <<tasks, server>>

WidgetReady ==
  /\ page.widget = "script"
  /\ page' = [page EXCEPT !.widget = "ready"]
  /\ UNCHANGED <<saved, tasks, server>>

BootFails ==
  /\ page.widget \in {"config", "script"}
  /\ page' = [page EXCEPT !.widget = "absent", !.view = "boot", !.recovery = "reload"]
  /\ UNCHANGED <<saved, tasks, server>>

\* The widget calls back: a token, its expiry, or an error.
Callback ==
  /\ page.widget = "ready"
  /\ \/ page' = [page EXCEPT !.token = "fresh"]
     \/ page' = [page EXCEPT !.token = "unset"]
     \/ page' = [page EXCEPT !.token = "unset", !.recovery = "reload"]
  /\ UNCHANGED <<saved, tasks, server>>

-----------------------------------------------------------------------------
(* The visitor *)

\* selectMode and selectIntent: their buttons stay while nothing is shown.
Choose(intent) ==
  /\ page.account = None /\ ~ page.busy
  /\ page.view \in {"boot", "verify"}
  /\ page' = [page EXCEPT !.intent = intent]
  /\ UNCHANGED <<saved, tasks, server>>

\* verifyAndReveal
Verify(t) ==
  /\ page.view = "verify" /\ ~ page.busy
  /\ page.token # "unset" /\ page.intent # "unset"
  /\ Begin(t, [Idle EXCEPT !.pc = "verify", !.by = "verify"])
  /\ page' = [page EXCEPT !.view = "boot", !.busy = TRUE]
  /\ UNCHANGED <<saved, server>>

\* The visitor's steps with an account; each is saved.
Step(p) ==
  /\ page.account # None
  /\ page' = p
  /\ saved' = Save(p)
  /\ UNCHANGED <<tasks, server>>

\* requireAccountPreflightAcknowledgement, requireSecurityAcknowledgement
Acknowledged ==
  Expert(page) \/ (page.steps.preflight /\ (page.steps.security \/ page.steps.password))

\* The instruction between the two copies.
Instructed == ~ Expert(page) /\ page.steps.username /\ ~ page.steps.password /\ ~ page.steps.results

\* The clipboard is asked.
BeginCopy(t, button) ==
  /\ page.account # None
  /\ Cardinality({u \in Tasks : tasks[u].pc = "copy"}) < MaxCopies
  /\ Begin(t, [Idle EXCEPT !.pc = "copy", !.by = button])

CopyUsername(t) ==
  /\ ~ page.busy
  /\ BeginCopy(t, "username")
  /\ UNCHANGED <<page, saved, server>>

CopyPassword(t) ==
  /\ ~ page.busy
  /\ page.steps.username \/ Expert(page)
  /\ Acknowledged
  /\ BeginCopy(t, "password")
  /\ UNCHANGED <<page, saved, server>>

\* The button of the instruction, busy or not.  (It hides itself until the next account; that
\* it may be pressed again here only widens the model.)
AccountEntered(t) ==
  /\ Instructed /\ Acknowledged
  /\ BeginCopy(t, "entered")
  /\ page' = Redrawn(page) /\ saved' = Save(page')
  /\ UNCHANGED server

\* The clipboard has it, whenever that is: the step is taken by the page as it is then,
\* whichever account it shows, or none.  The choice of results is left alone once it is there.
CopyDone(t) ==
  LET key == IF tasks[t].by = "username" THEN "username" ELSE "password"
      taken == [page EXCEPT !.steps[key] = TRUE]
      hidden == [taken EXCEPT !.recovery = "unset"]
  IN
  /\ tasks[t].pc = "copy"
  /\ page' = IF tasks[t].by = "entered" THEN Redrawn(taken)
             ELSE IF page.steps.results THEN hidden ELSE Redrawn(hidden)
  /\ saved' = Save(page')
  /\ tasks' = [tasks EXCEPT ![t] = Idle]
  /\ UNCHANGED server

\* The clipboard refuses: what the recovery offered gives way to nothing.
CopyFails(t) ==
  /\ tasks[t].pc = "copy"
  /\ page' = [page EXCEPT !.recovery = "unset"]
  /\ tasks' = [tasks EXCEPT ![t] = Idle]
  /\ UNCHANGED <<saved, server>>

\* The password is asked for first, or the widget has an error: what the recovery offered
\* gives way to nothing, or to loading the page.
Overlay ==
  /\ page.account # None
  /\ page' = [page EXCEPT !.recovery = "unset"]
  /\ UNCHANGED <<saved, tasks, server>>

\* The check boxes stand with the step between the two copies.
Acknowledge(what) ==
  /\ Instructed
  /\ page.steps[what] => Unticks
  /\ Step(Redrawn([page EXCEPT !.steps[what] = ~ @]))

\* The button, or coming back to the page.
AskResult ==
  /\ page.steps.password /\ ~ page.steps.results
  /\ Step(ShowResults(page))

\* Buttons that give a verdict.
CanJudge == page.account # None /\ page.steps.password /\ ~ page.busy /\ ~ page.locked

SubmitTwice(t, by, verdict) ==    \* mutant: busy is not looked at
  /\ page.account # None
  /\ Begin(t, [Idle EXCEPT !.pc = "feedback", !.by = by, !.verdict = verdict,
                           !.account = page.account])
  /\ page' = [page EXCEPT !.busy = TRUE, !.recovery = "unset"]
  /\ UNCHANGED <<saved, server>>

Submit(t, by, verdict) ==
  /\ page.account # None /\ ~ page.busy
  /\ Begin(t, [Idle EXCEPT !.pc = "feedback", !.by = by, !.verdict = verdict,
                           !.account = page.account])
  /\ page' = [page EXCEPT !.busy = TRUE, !.recovery = "unset"]
  /\ UNCHANGED <<saved, server>>

JudgeLogin(t) ==
  /\ CanJudge /\ page.panel = "results"
  /\ \/ Submit(t, "feedback", "login_failed")
     \/ Expert(page) /\ Submit(t, "feedback", "login_success")

SuccessMeansTarget(p) ==
  Redrawn([p EXCEPT !.steps.login = TRUE, !.steps.results = TRUE])

\* showTargetAppCheck, or the gate for other apps.
LoggedIn ==
  /\ CanJudge /\ page.panel = "results" /\ ~ Expert(page)
  /\ Step(IF page.intent = "target_app" THEN SuccessMeansTarget(page)
                                        ELSE ShowGate(page, "login_success"))

JudgeTarget(verdict) ==
  /\ CanJudge /\ page.panel = "target"
  /\ Step(ShowGate(page, verdict))

\* The guide opened and the box ticked.
SignOut ==
  /\ page.account # None /\ page.steps.exit # "unset"
  /\ page' = [page EXCEPT !.signedOut = ~ @]
  /\ UNCHANGED <<saved, tasks, server>>

\* completeNoviceExit
FinishExit(t) ==
  /\ page.steps.exit # "unset" /\ page.signedOut
  /\ Submit(t, "exit", page.steps.exit)

\* It is pressed while another task is busy: submitFeedback returns at once.
FinishExitTwice ==
  /\ page.account # None /\ page.busy
  /\ page.steps.exit # "unset" /\ page.signedOut
  /\ page' = [page EXCEPT !.steps.exit = "unset", !.signedOut = FALSE]
  /\ UNCHANGED <<saved, tasks, server>>

\* The button of the recovery panel.
RetryReveal(t) ==
  LET again == page.recovery = "replace" IN
  /\ page.recovery \in {"reveal", "replace"} /\ ~ page.busy
  /\ Begin(t, Reveal("retry", again))
  /\ page' = RevealView(page, again)
  /\ UNCHANGED <<saved, server>>

RetryFeedback(t) ==
  /\ page.recovery \in Verdicts
  /\ Submit(t, "feedback", page.recovery)

-----------------------------------------------------------------------------
Next ==
  \/ \E t \in Tasks : Proceed(t)
  \/ Expire
  \/ Load \/ ConfigLoaded \/ WidgetReady \/ BootFails \/ Callback
  \/ \E intent \in Intents : Choose(intent)
  \/ Overlay
  \/ \E what \in {"preflight", "security"} : Acknowledge(what)
  \/ AskResult \/ LoggedIn \/ SignOut \/ FinishExitTwice
  \/ \E verdict \in {"shadowrocket_available", "shadowrocket_missing"} : JudgeTarget(verdict)
  \/ \E t \in Tasks : \/ Verify(t) \/ JudgeLogin(t) \/ FinishExit(t)
                      \/ RetryReveal(t) \/ RetryFeedback(t)
                      \/ CopyUsername(t) \/ CopyPassword(t) \/ AccountEntered(t)
                      \/ CopyDone(t) \/ CopyFails(t)

Spec == Init /\ [][Next]_vars

\* A request ends: the browser answers or breaks off each fetch.  (The weak fairness of
\* Proceed(t), written out: a request in flight can always proceed, and only that or a load
\* changes it.)  The clipboard may keep a copy waiting for ever.
FairSpec ==
  Spec /\ \A t \in Tasks : []<>(t \notin InFlight) \/ []<><<tasks'[t] # tasks[t]>>_vars

-----------------------------------------------------------------------------
(* Properties *)

\* Buttons look at the busy flag, retries run without it: whatever fails, is retried, answers
\* late or is pressed twice, the flag is up exactly while a task of the buttons runs, and
\* never two of them run, so that no two verdicts of one visitor cross.
Busies(t) == t \in InFlight /\ tasks[t].by # "retry"
OneAtATime ==
  /\ page.busy <=> \E t \in Tasks : Busies(t)
  /\ \A t, u \in Tasks : Busies(t) /\ Busies(u) => t = u

\* A verdict that could not be sent is kept, and the retry sends it for whichever account is
\* on the screen then.  So it must come up with the account it was given on and go with it,
\* whatever is replaced, answers late or comes back in between.
OfferedBy(t) ==
  /\ tasks[t].pc = "feedback" /\ tasks'[t] = Idle
  /\ tasks[t].account = page'.account /\ tasks[t].verdict = page'.recovery
RetriesSameAccount ==
  [][page'.account # None /\ page'.recovery \in Verdicts =>
       \/ page'.account = page.account /\ page'.recovery = page.recovery
       \/ \E t \in Tasks : OfferedBy(t)]_vars

\* RELEASE_NOTES.md: account and progress survive a restore.  Whenever no request is in
\* flight, loading the page again would bring back what is on the screen.
ReloadKeepsProgress ==
  InFlight = {} =>
    IF page.account = None THEN saved = None
    ELSE /\ saved # None
         /\ saved.account = page.account /\ saved.locked = page.locked
         /\ [saved.steps EXCEPT !.exit = "unset"] = [page.steps EXCEPT !.exit = "unset"]

\* The page does not stay busy: whatever fails in between, what a button began comes to its
\* end, and the buttons work again.
Settles == page.busy ~> ~ page.busy

\* PRODUCT.md: "Errors identify the failed operation and offer a direct retry."  The loading
\* view is left when its requests are over, or something to retry stands below it.
FailureOffersRetry ==
  page.view = "boot" /\ InFlight = {} => page.widget = "config" \/ page.recovery # "unset"

\* PRODUCT.md: a verdict that does not end the flow leads to another account.  An account
\* whose verdict is in is being replaced, or the page offers to.
RecordedMovesOn ==
  page.account # None /\ page.locked /\ InFlight = {} =>
    page.recovery = "replace" \/ page.steps.exit # "unset"
=============================================================================
