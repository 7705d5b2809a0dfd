------------------------- MODULE RelayClientProofs -------------------------
(***************************************************************************)
(* For any accounts and any number of requests and copies in flight: the   *)
(* page's variables keep their types, what it keeps in sessionStorage      *)
(* follows what it holds in memory, the busy flag admits one task of the   *)
(* buttons at a time, and a verdict is offered again only with the account *)
(* it was given on.                                                        *)
(***************************************************************************)
EXTENDS RelayClient, TLAPS

-----------------------------------------------------------------------------
(* What is kept follows what is on the screen *)

\* The requests for the account that replaces another.
Replacing == \E t \in Tasks : tasks[t].again /\ tasks[t].pc \in {"ticket", "reveal"}

\* The exit step is saved later or never; see ReloadKeepsProgress.
Progress(steps) == [steps EXCEPT !.exit = "unset"]

\* What is saved is the account on the screen and its steps.  Only the lock is behind, from the
\* answer to a verdict until its account is replaced.
SavedTracks ==
  /\ (saved = None) <=> (page.account = None)
  /\ saved # None => /\ saved.account = page.account
                     /\ Progress(saved.steps) = Progress(page.steps)
                     /\ saved.locked = page.locked \/ Replacing

IInv == TypeOK /\ SavedTracks

-----------------------------------------------------------------------------
(* The page's helpers *)

\* What there is to show.
LEMMA Drawn ==
  /\ {"boot", "verify", "account", "success", "empty"} \subseteq Views
  /\ {"config", "script", "ready", "absent"} \subseteq Widgets
  /\ {"steps", "results", "target", "none"} \subseteq Panels
  /\ {"unset", "reload", "reveal", "replace"} \subseteq Recoveries /\ Verdicts \subseteq Recoveries
BY DEF Views, Widgets, Panels, Recoveries

LEMMA RedrawnType ==
  ASSUME NEW p \in Page
  PROVE  /\ Redrawn(p) \in Page
         /\ Redrawn(p).account = p.account
         /\ Redrawn(p).locked = p.locked
         /\ Redrawn(p).steps = p.steps
         /\ Redrawn(p).intent = p.intent
<1>1. Panel(p) \in {"steps", "results", "target", "none"}
  BY DEF Panel
<1>2. QED
  BY <1>1, Drawn DEF Redrawn, Page

LEMMA ShowAccountType ==
  ASSUME NEW p \in Page, NEW a \in Accounts \cup {None},
         NEW locked \in BOOLEAN, NEW results \in BOOLEAN
  PROVE  /\ ShowAccount(p, a, locked, results) \in Page
         /\ ShowAccount(p, a, locked, results).account = a
         /\ ShowAccount(p, a, locked, results).locked = locked
         /\ ShowAccount(p, a, locked, results).steps = [p.steps EXCEPT !.results = results]
<1> DEFINE q == [p EXCEPT !.view = "account", !.token = "unset", !.widget = "absent", !.account = a,
                          !.locked = locked, !.steps.results = results, !.recovery = "unset"]
<1>1. /\ q \in Page
      /\ q.account = a
      /\ q.locked = locked
      /\ q.steps = [p.steps EXCEPT !.results = results]
  <2>1. p.steps \in Steps
    BY DEF Page
  <2>2. [p.steps EXCEPT !.results = results] \in Steps
    BY <2>1 DEF Steps
  <2>3. QED
    BY <2>2, Drawn DEF Page
<1>2. ShowAccount(p, a, locked, results) = Redrawn(q)
  BY DEF ShowAccount
<1> HIDE DEF q
<1>3. QED
  BY <1>1, <1>2, RedrawnType

\* saveSession keeps the account with its steps and its lock, or nothing.
LEMMA SaveTracks ==
  ASSUME NEW p \in Page
  PROVE  /\ Save(p) \in Item \cup {None}
         /\ Save(p) = None <=> p.account = None
         /\ p.account # None => /\ Save(p).account = p.account
                                /\ Save(p).steps = p.steps
                                /\ Save(p).locked = p.locked
<1>1. p.account # None => p.account \in Accounts
  BY DEF Page
<1>2. p.account # None =>
        Save(p) = [account |-> p.account, intent |-> p.intent,
                   steps |-> p.steps, locked |-> p.locked]
  BY DEF Save
<1>3. p.account = None => Save(p) = None
  BY DEF Save
<1>4. p.intent \in Intents /\ p.steps \in Steps /\ p.locked \in BOOLEAN
  BY DEF Page
<1>5. p.account # None => Save(p) \in Item
  BY <1>1, <1>2, <1>4 DEF Item
<1>6. QED
  BY <1>2, <1>3, <1>5, ItemAssumption

\* A page that restores what was saved shows it as it was.
LEMMA RestoredType ==
  ASSUME NEW s \in Item
  PROVE  /\ Restored(s) \in Page
         /\ Restored(s).account = s.account
         /\ Restored(s).locked = s.locked
         /\ Progress(Restored(s).steps) = Progress(s.steps)
<1> DEFINE intent == IF s.intent = "unset" THEN "target_app" ELSE s.intent
           empty(i) == [Blank(i) EXCEPT !.widget = "absent", !.steps = s.steps]
<1>1. /\ s.account \in Accounts \cup {None} /\ s.locked \in BOOLEAN /\ s.intent \in Intents
      /\ s.steps \in Steps /\ s.steps.results \in BOOLEAN
      /\ s.steps.exit \in Verdicts \cup {"unset"}
  BY DEF Item, Steps
<1>2. PICK i \in Intents : i = intent
  BY <1>1 DEF Intents
<1>3. PICK e \in Page : e = empty(i) /\ e.steps = s.steps
  <2>1. Blank(i) \in Page
    BY Drawn DEF Blank, Unstarted, Page, Steps
  <2>2. empty(i) \in Page /\ empty(i).steps = s.steps
    BY <1>1, <2>1, Drawn DEF Page
  <2> HIDE DEF empty
  <2>3. QED
    BY <2>2
<1>4. PICK shown \in Page :
        /\ shown = ShowAccount(e, s.account, s.locked, s.steps.results)
        /\ shown.account = s.account /\ shown.locked = s.locked
        /\ shown.steps = [e.steps EXCEPT !.results = s.steps.results]
  <2>1. PICK l \in BOOLEAN, r \in BOOLEAN : l = s.locked /\ r = s.steps.results
    BY <1>1
  <2>2. PICK a \in Accounts \cup {None} : a = s.account
    BY <1>1
  <2>3. /\ ShowAccount(e, a, l, r) \in Page
        /\ ShowAccount(e, a, l, r).account = a
        /\ ShowAccount(e, a, l, r).locked = l
        /\ ShowAccount(e, a, l, r).steps = [e.steps EXCEPT !.results = r]
    BY ShowAccountType
  <2>4. QED
    BY <2>1, <2>2, <2>3, Zenon
<1>5. shown.steps = s.steps
  BY <1>1, <1>3, <1>4 DEF Steps
<1>6. Restored(s) = CASE s.steps.exit # "unset" /\ i # "expert" -> ShowGate(shown, s.steps.exit)
                      [] s.steps.results                   -> ShowResults(shown)
                      [] OTHER                             -> shown
  BY <1>2, <1>3, <1>4, Zenon DEF Restored
<1>7. \/ Restored(s) = shown
      \/ Restored(s) = ShowGate(shown, s.steps.exit)
      \/ s.steps.results /\ Restored(s) = ShowResults(shown)
  BY <1>6
<1>8. ASSUME NEW v \in Verdicts \cup {"unset"}
      PROVE  /\ ShowGate(shown, v) \in Page
             /\ ShowGate(shown, v).account = s.account
             /\ ShowGate(shown, v).locked = s.locked
             /\ Progress(ShowGate(shown, v).steps) = Progress(s.steps)
  <2>1. ShowGate(shown, v) \in Page
    <3>1. [shown.steps EXCEPT !.exit = v] \in Steps
      BY DEF Page, Steps
    <3>2. QED
      BY <3>1, Drawn DEF ShowGate, Page
  <2>2. /\ ShowGate(shown, v).account = shown.account
        /\ ShowGate(shown, v).locked = shown.locked
        /\ ShowGate(shown, v).steps = [shown.steps EXCEPT !.exit = v]
    BY <1>4 DEF ShowGate, Page
  <2>3. Progress([s.steps EXCEPT !.exit = v]) = Progress(s.steps)
    BY <1>1 DEF Progress, Steps
  <2>4. QED
    BY <1>4, <1>5, <2>1, <2>2, <2>3
<1>9. s.steps.results => /\ ShowResults(shown) \in Page
                         /\ ShowResults(shown).account = s.account
                         /\ ShowResults(shown).locked = s.locked
                         /\ Progress(ShowResults(shown).steps) = Progress(s.steps)
  <2> SUFFICES ASSUME s.steps.results PROVE ShowResults(shown) \in Page
                      /\ ShowResults(shown).account = shown.account
                      /\ ShowResults(shown).locked = shown.locked
                      /\ ShowResults(shown).steps = shown.steps
    BY <1>4, <1>5
  <2>1. ShowResults(shown) \in Page
    <3>1. [shown.steps EXCEPT !.results = TRUE] \in Steps
      BY DEF Page, Steps
    <3>2. QED
      BY <3>1, Drawn DEF ShowResults, Page
  <2>2. /\ ShowResults(shown).account = shown.account
        /\ ShowResults(shown).locked = shown.locked
        /\ ShowResults(shown).steps = [shown.steps EXCEPT !.results = TRUE]
    BY <1>4 DEF ShowResults, Page
  <2>3. [s.steps EXCEPT !.results = TRUE] = s.steps
    BY <1>1 DEF Steps
  <2>4. QED
    BY <1>5, <2>1, <2>2, <2>3
<1>10. QED
  BY <1>1, <1>4, <1>5, <1>7, <1>8, <1>9

\* Nothing of the account is touched when a task is over.
LEMMA FinallyType ==
  ASSUME NEW p \in Page, NEW by
  PROVE  /\ Finally(p, by) \in Page
         /\ Finally(p, by).account = p.account
         /\ Finally(p, by).locked = p.locked
         /\ Progress(Finally(p, by).steps) = Progress(p.steps)
<1> DEFINE done == IF by = "retry" THEN p ELSE [p EXCEPT !.busy = FALSE]
<1>1. done \in Page
  <2>1. [p EXCEPT !.busy = FALSE] \in Page
    BY DEF Page
  <2>2. QED
    BY <2>1
<1>4. done.account = p.account /\ done.locked = p.locked /\ done.steps = p.steps
  BY DEF Page
<1>2. Finally(p, by) = IF by = "exit" THEN [done EXCEPT !.steps.exit = "unset", !.signedOut = FALSE]
                                      ELSE done
  BY DEF Finally
<1> HIDE DEF done
<1>3. CASE by = "exit"
  <2> DEFINE q == [done EXCEPT !.steps.exit = "unset", !.signedOut = FALSE]
  <2>1. q \in Page
    <3>1. done.steps \in Steps
      BY <1>1 DEF Page
    <3>2. [done.steps EXCEPT !.exit = "unset"] \in Steps
      BY <3>1 DEF Steps
    <3>3. QED
      BY <1>1, <3>2 DEF Page
  <2>2. q.account = done.account /\ q.locked = done.locked
    BY <1>1 DEF Page
  <2>3. q.steps = [done.steps EXCEPT !.exit = "unset"]
    BY <1>1 DEF Page
  <2>4. Progress(q.steps) = Progress(done.steps)
    BY <1>1, <2>3 DEF Page, Steps, Progress
  <2>5. QED
    BY <1>2, <1>3, <1>4, <2>1, <2>2, <2>4
<1>5. QED
  BY <1>1, <1>2, <1>3, <1>4

LEMMA RevealViewType ==
  ASSUME NEW p \in Page, NEW again
  PROVE  /\ RevealView(p, again) \in Page
         /\ RevealView(p, again).account = p.account
         /\ RevealView(p, again).locked = p.locked
         /\ RevealView(p, again).steps = p.steps
<1>1. CASE again
  BY <1>1, Drawn DEF RevealView, Page
<1>2. CASE ~ again
  BY <1>2, Drawn DEF RevealView, Page
<1>3. QED
  BY <1>1, <1>2

LEMMA LeaveType ==
  ASSUME NEW p \in Page, NEW view \in {"success", "empty"}
  PROVE  Leave(p, view) \in Page /\ Leave(p, view).account = None
<1>1. Unstarted \in Steps
  BY DEF Unstarted, Steps
<1>2. QED
  BY <1>1, Drawn DEF Leave, Page

LEMMA ShowVerifyType ==
  ASSUME NEW p \in Page
  PROVE  ShowVerify(p) \in Page /\ ShowVerify(p).account = None
BY Drawn DEF ShowVerify, Page

-----------------------------------------------------------------------------
(* The three ways in which a step changes page and item *)

\* Page, item and tasks keep their types.
Held == page \in Page /\ saved \in Item \cup {None} /\ tasks \in [Tasks -> Task]

\* The step shows the same account with the same progress, and saves nothing.
LEMMA PageMoves ==
  ASSUME SavedTracks, page' \in Page, saved' = saved, Replacing => Replacing',
         page'.account = page.account, page'.locked = page.locked,
         Progress(page'.steps) = Progress(page.steps)
  PROVE  SavedTracks'
BY DEF SavedTracks

\* The step saves the page as it becomes.
LEMMA PageSaved ==
  ASSUME NEW p \in Page, page' \in Page, saved' = Save(p),
         page'.account = p.account, page'.locked = p.locked,
         Progress(page'.steps) = Progress(p.steps)
  PROVE  saved' \in Item \cup {None} /\ SavedTracks'
BY SaveTracks DEF SavedTracks

\* The step leaves no account on the screen and nothing saved.
LEMMA PageLeft ==
  ASSUME page'.account = None, saved' = None
  PROVE  SavedTracks'
BY DEF SavedTracks

LEMMA IdleType == Idle \in Task
BY DEF Idle, Task

\* A task that ends leaves the others as they are.
LEMMA EndTasks ==
  ASSUME Held, NEW t \in Tasks, NEW p \in Page, NEW s, End(t, p, s)
  PROVE  /\ tasks' \in [Tasks -> Task]
         /\ page' \in Page
         /\ page'.account = p.account
         /\ page'.locked = p.locked
         /\ Progress(page'.steps) = Progress(p.steps)
         /\ saved' = s
         /\ tasks[t].pc \notin {"ticket", "reveal"} /\ Replacing => Replacing'
<1>1. tasks' = [tasks EXCEPT ![t] = Idle] /\ page' = Finally(p, tasks[t].by) /\ saved' = s
  BY DEF End
<1>2. tasks' \in [Tasks -> Task]
  BY <1>1, IdleType DEF Held
<1>3. ASSUME tasks[t].pc \notin {"ticket", "reveal"}, Replacing PROVE Replacing'
  <2>1. PICK u \in Tasks : tasks[u].again /\ tasks[u].pc \in {"ticket", "reveal"}
    BY <1>3 DEF Replacing
  <2>2. tasks'[u] = tasks[u]
    BY <1>1, <1>3, <2>1 DEF Held
  <2>3. QED
    BY <2>1, <2>2 DEF Replacing
<1>4. QED
  BY <1>1, <1>2, <1>3, FinallyType

\* A task that ends by saving the page it leaves.
LEMMA EndSaved ==
  ASSUME Held, NEW t \in Tasks, NEW p \in Page, End(t, p, Save(p))
  PROVE  Held' /\ SavedTracks'
BY EndTasks, PageSaved DEF Held

\* A task that ends with no account shown.
LEMMA EndLeft ==
  ASSUME Held, NEW t \in Tasks, NEW p \in Page, End(t, p, None), p.account = None
  PROVE  Held' /\ SavedTracks'
BY EndTasks, PageLeft DEF Held

\* A new task takes a free place.
LEMMA BeginTasks ==
  ASSUME Held, NEW t \in Tasks, NEW task \in Task, Begin(t, task)
  PROVE  tasks' \in [Tasks -> Task] /\ (Replacing => Replacing')
<1>1. tasks[t] = Idle /\ tasks' = [tasks EXCEPT ![t] = task]
  BY DEF Begin, Free
<1>2. ASSUME Replacing PROVE Replacing'
  <2>1. PICK u \in Tasks : tasks[u].again /\ tasks[u].pc \in {"ticket", "reveal"}
    BY <1>2 DEF Replacing
  <2>2. u # t
    <3>1. Idle.pc = "off"
      BY DEF Idle
    <3>2. QED
      BY <1>1, <2>1, <3>1
  <2>3. tasks'[u] = tasks[u]
    BY <1>1, <2>2 DEF Held
  <2>4. QED
    BY <2>1, <2>3 DEF Replacing
<1>3. QED
  BY <1>1, <1>2 DEF Held

-----------------------------------------------------------------------------
(* The actions *)

LEMMA InitInvariant == Init => Held /\ SavedTracks
<1> SUFFICES ASSUME Init PROVE Held /\ SavedTracks
  OBVIOUS
<1>1. PICK intent \in {"unset", "expert"} : page = Blank(intent)
  BY DEF Init
<1>2. page \in Page /\ page.account = None
  BY <1>1, Drawn DEF Blank, Unstarted, Page, Steps, Intents
<1>3. tasks \in [Tasks -> Task]
  BY IdleType DEF Init
<1>4. QED
  BY <1>2, <1>3 DEF Init, Held, SavedTracks

\* The server answers a request, or gives it an account.
LEMMA ServeTasks ==
  ASSUME Held, NEW t \in Tasks, Serve(t)
  PROVE  \E task \in Task : /\ tasks' = [tasks EXCEPT ![t] = task]
                            /\ task.again = tasks[t].again /\ task.pc = tasks[t].pc
                            /\ task.by = tasks[t].by
                            /\ task.pc # "reveal" => task.account = tasks[t].account
<1> DEFINE Replies == {"ok", "refused", "exhausted"}
<1>1. \/ \E r \in Replies : tasks' = [tasks EXCEPT ![t].answer = r]
      \/ /\ tasks[t].pc = "reveal"
         /\ \E a \in Accounts : tasks' = [tasks EXCEPT ![t].answer = "ok", ![t].account = a]
  <2>1. CASE ServeVerify(t)
    BY <2>1, Zenon DEF ServeVerify
  <2>2. CASE ServeTicket(t)
    <3>1. PICK r : r = IF server'.alive THEN "ok" ELSE "refused"
      OBVIOUS
    <3>2. r \in Replies /\ tasks' = [tasks EXCEPT ![t].answer = r]
      BY <2>2, <3>1, Zenon DEF ServeTicket
    <3>3. QED
      BY <3>2
  <2>3. CASE ServeReveal(t)
    <3>1. CASE \E a \in Accounts : tasks' = [tasks EXCEPT ![t].answer = "ok", ![t].account = a]
      BY <2>3, <3>1 DEF ServeReveal
    <3>2. CASE tasks' = [tasks EXCEPT ![t].answer = IF server.alive THEN "exhausted" ELSE "refused"]
      <4>1. PICK r : r = IF server.alive THEN "exhausted" ELSE "refused"
        OBVIOUS
      <4>2. r \in Replies /\ tasks' = [tasks EXCEPT ![t].answer = r]
        BY <3>2, <4>1, Zenon
      <4>3. QED
        BY <4>2
    <3>3. QED
      BY <2>3, <3>1, <3>2, Zenon DEF ServeReveal
  <2>4. CASE ServeFeedback(t)
    <3>1. PICK r \in {"ok", "refused"} : tasks' = [tasks EXCEPT ![t].answer = r]
      BY <2>4, Zenon DEF ServeFeedback
    <3>2. QED
      BY <3>1
  <2>5. QED
    BY <2>1, <2>2, <2>3, <2>4 DEF Serve
<1>2. CASE \E r \in Replies : tasks' = [tasks EXCEPT ![t].answer = r]
  <2>1. PICK r \in Replies : tasks' = [tasks EXCEPT ![t] = [@ EXCEPT !.answer = r]]
    BY <1>2
  <2> DEFINE task == [tasks[t] EXCEPT !.answer = r]
  <2>2. tasks[t] \in Task
    BY DEF Held
  <2>3. /\ task.again = tasks[t].again /\ task.pc = tasks[t].pc
        /\ task.by = tasks[t].by /\ task.account = tasks[t].account
    BY <2>2 DEF Task
  <2>4. task \in Task
    BY <2>2, Zenon DEF Task
  <2>5. tasks' = [tasks EXCEPT ![t] = task]
    BY <2>1
  <2> HIDE DEF task
  <2>6. QED
    BY <2>3, <2>4, <2>5
<1>3. CASE /\ tasks[t].pc = "reveal"
           /\ \E a \in Accounts : tasks' = [tasks EXCEPT ![t].answer = "ok", ![t].account = a]
  <2>1. PICK a \in Accounts :
          tasks' = [tasks EXCEPT ![t] = [@ EXCEPT !.answer = "ok", !.account = a]]
    BY <1>3 DEF Held
  <2> DEFINE task == [tasks[t] EXCEPT !.answer = "ok", !.account = a]
  <2>2. tasks[t] \in Task
    BY DEF Held
  <2>3. /\ task.again = tasks[t].again /\ task.pc = tasks[t].pc
        /\ task.by = tasks[t].by
    BY <2>2 DEF Task
  <2>4. task \in Task
    BY <2>2, Zenon DEF Task
  <2>5. tasks' = [tasks EXCEPT ![t] = task]
    BY <2>1
  <2> HIDE DEF task
  <2>6. QED
    BY <1>3, <2>3, <2>4, <2>5
<1>4. QED
  BY <1>1, <1>2, <1>3

\* The page waits for the answer.
LEMMA ServeStep ==
  ASSUME Held, SavedTracks, NEW t \in Tasks, Serve(t)
  PROVE  Held' /\ SavedTracks'
<1>1. PICK task \in Task : /\ tasks' = [tasks EXCEPT ![t] = task]
                           /\ task.again = tasks[t].again /\ task.pc = tasks[t].pc
  BY ServeTasks
<1>2. /\ tasks' \in [Tasks -> Task]
      /\ \A u \in Tasks : tasks'[u].again = tasks[u].again /\ tasks'[u].pc = tasks[u].pc
  BY <1>1 DEF Held
<1>3. UNCHANGED <<page, saved>>
  BY DEF Serve
<1>4. QED
  BY <1>2, <1>3, PageMoves DEF Held, Replacing

\* The answers to a verification.
LEMMA VerifyStep ==
  ASSUME Held, SavedTracks, NEW t \in Tasks, Verified(t) \/ VerifyRefused(t) \/ VerifyFails(t)
  PROVE  Held' /\ SavedTracks'
<1>1. CASE Verified(t)
  <2>1. /\ page' = RevealView(page, FALSE) /\ saved' = saved
        /\ tasks' = [tasks EXCEPT ![t] = Reveal("verify", FALSE)] /\ tasks[t].pc = "verify"
    BY <1>1 DEF Verified
  <2>2. Reveal("verify", FALSE) \in Task
    BY DEF Reveal, Idle, Task
  <2>3. tasks' \in [Tasks -> Task] /\ (\A u \in Tasks \ {t} : tasks'[u] = tasks[u])
    BY <2>1, <2>2 DEF Held
  <2>4. Replacing => Replacing'
    BY <2>1, <2>3 DEF Replacing
  <2>5. QED
    BY <2>1, <2>3, <2>4, RevealViewType, PageMoves DEF Held
<1>2. CASE VerifyRefused(t)
  <2>1. [page EXCEPT !.token = "unset"] \in Page
    BY DEF Held, Page
  <2>2. QED
    BY <1>2, <2>1, ShowVerifyType, EndLeft DEF VerifyRefused
<1>3. CASE VerifyFails(t)
  BY <1>3, EndTasks, PageMoves DEF VerifyFails, Held
<1>4. QED
  BY <1>1, <1>2, <1>3

\* The answers to the two requests of a reveal.
LEMMA RevealStep ==
  ASSUME Held, SavedTracks, NEW t \in Tasks,
         GotTicket(t) \/ GotAccount(t) \/ GotNone(t) \/ RevealFails(t)
  PROVE  Held' /\ SavedTracks'
<1>1. CASE GotTicket(t)
  <2>1. /\ UNCHANGED <<page, saved>> /\ tasks[t].pc = "ticket"
        /\ tasks' = [tasks EXCEPT ![t] = [@ EXCEPT !.pc = "reveal", !.answer = "unset"]]
    BY <1>1 DEF GotTicket, Held, Task
  <2>2. tasks' \in [Tasks -> Task]
    <3>1. tasks[t] \in Task
      BY DEF Held
    <3>2. [tasks[t] EXCEPT !.pc = "reveal", !.answer = "unset"] \in Task
      BY <3>1 DEF Task
    <3>3. tasks' = [tasks EXCEPT ![t] = [tasks[t] EXCEPT !.pc = "reveal", !.answer = "unset"]]
      BY <2>1
    <3>4. QED
      BY <3>2, <3>3 DEF Held
  <2>3. \A u \in Tasks : tasks'[u].again = tasks[u].again
    BY <2>1 DEF Held, Task
  <2>4. tasks'[t].pc = "reveal" /\ \A u \in Tasks \ {t} : tasks'[u].pc = tasks[u].pc
    BY <2>1 DEF Held, Task
  <2>5. Replacing => Replacing'
    BY <2>3, <2>4 DEF Replacing
  <2>6. QED
    BY <2>1, <2>2, <2>5, PageMoves DEF Held
<1>2. CASE GotAccount(t)
  <2>1. tasks[t].account \in Accounts \cup {None} /\ page \in Page
    BY DEF Held, Task
  <2>2. StartOver(page) \in Page
    BY <2>1 DEF StartOver, Page, Unstarted, Steps
  <2>3. PICK q \in Page : q = IF tasks[t].again THEN StartOver(page) ELSE page
    BY <2>1, <2>2
  <2>4. ShowAccount(q, tasks[t].account, FALSE, FALSE) \in Page
    BY <2>1, ShowAccountType
  <2>5. End(t, ShowAccount(q, tasks[t].account, FALSE, FALSE),
            Save(ShowAccount(q, tasks[t].account, FALSE, FALSE)))
    BY <1>2, <2>3, Zenon DEF GotAccount
  <2>6. QED
    BY <2>4, <2>5, EndSaved
<1>3. CASE GotNone(t)
  BY <1>3, LeaveType, EndLeft DEF GotNone, Held
<1>4. CASE RevealFails(t)
  <2>1. CASE page.account # None
    <3> DEFINE shown == ShowAccount(page, page.account, page.locked, FALSE)
               kept == [shown EXCEPT !.recovery = "replace"]
    <3>1. page \in Page /\ page.account \in Accounts \cup {None} /\ page.locked \in BOOLEAN
      BY DEF Held, Page
    <3>2. shown \in Page
      BY <3>1, ShowAccountType
    <3>3. End(t, kept, Save(kept))
      BY <1>4, <2>1, Zenon DEF RevealFails
    <3> HIDE DEF shown
    <3>4. kept \in Page
      BY <3>2, Drawn DEF Page
    <3> HIDE DEF kept
    <3>5. QED
      BY <3>3, <3>4, EndSaved
  <2>2. CASE page.account = None /\ tasks[t].answer = "refused"
    BY <1>4, <2>2, ShowVerifyType, EndLeft DEF RevealFails, Held
  <2>3. CASE page.account = None /\ tasks[t].answer # "refused"
    <3> DEFINE p == [page EXCEPT !.view = "boot", !.recovery = "reveal"]
    <3>1. End(t, p, None)
      BY <1>4, <2>3 DEF RevealFails, SavedTracks
    <3>2. p \in Page /\ p.account = None
      BY <2>3, Drawn DEF Held, Page
    <3> HIDE DEF p
    <3>3. QED
      BY <3>1, <3>2, EndLeft
  <2>4. QED
    BY <2>1, <2>2, <2>3
<1>5. QED
  BY <1>1, <1>2, <1>3, <1>4

\* The answers to a verdict.
LEMMA FeedbackStep ==
  ASSUME Held, SavedTracks, NEW t \in Tasks, FeedbackTaken(t) \/ FeedbackFails(t)
  PROVE  Held' /\ SavedTracks'
<1> USE DEF Held
<1>1. CASE FeedbackTaken(t)
  <2>1. PICK p \in Page : /\ p = [page EXCEPT !.locked = TRUE]
                          /\ p.account = page.account /\ p.steps = page.steps
    <3>1. /\ [page EXCEPT !.locked = TRUE] \in Page
          /\ [page EXCEPT !.locked = TRUE].account = page.account
          /\ [page EXCEPT !.locked = TRUE].steps = page.steps
      BY DEF Page
    <3>2. QED
      BY <3>1, Zenon
  <2>2. CASE tasks[t].verdict \in {"shadowrocket_available", "login_success"}
    BY <1>1, <2>1, <2>2, LeaveType, EndLeft DEF FeedbackTaken
  <2>3. CASE tasks[t].verdict \notin {"shadowrocket_available", "login_success"}
    <3>1. /\ page' = RevealView(p, TRUE) /\ saved' = saved
          /\ tasks' = [tasks EXCEPT ![t] = Reveal(tasks[t].by, TRUE)]
      BY <1>1, <2>1, <2>3 DEF FeedbackTaken
    <3>2. Reveal(tasks[t].by, TRUE) \in Task /\ Reveal(tasks[t].by, TRUE).again
          /\ Reveal(tasks[t].by, TRUE).pc = "ticket"
      BY DEF Reveal, Idle, Task
    <3>3. tasks' \in [Tasks -> Task] /\ Replacing'
      BY <3>1, <3>2 DEF Replacing
    <3>4. page' \in Page /\ page'.account = page.account /\ page'.steps = page.steps
      BY <2>1, <3>1, RevealViewType
    <3>5. QED
      BY <3>1, <3>3, <3>4 DEF SavedTracks
  <2>4. QED
    BY <2>2, <2>3
<1>2. CASE FeedbackFails(t)
  <2>1. CASE page.account # tasks[t].account
    BY <1>2, <2>1, EndTasks, PageMoves DEF FeedbackFails
  <2>2. CASE page.account = tasks[t].account
    <3> DEFINE shown == ShowAccount(page, page.account, page.locked, FALSE)
               kept == [shown EXCEPT !.recovery = IF page.locked THEN "replace"
                                                                 ELSE tasks[t].verdict]
    <3>1. page \in Page /\ page.account \in Accounts \cup {None} /\ page.locked \in BOOLEAN
      BY DEF Page
    <3>2. shown \in Page
      BY <3>1, ShowAccountType
    <3>3. End(t, kept, Save(kept))
      BY <1>2, <2>2, Zenon DEF FeedbackFails
    <3> HIDE DEF shown
    <3>4. tasks[t].verdict \in Verdicts \cup {"unset"}
      BY DEF Task
    <3>5. kept \in Page
      BY <3>2, <3>4, Drawn DEF Page
    <3> HIDE DEF kept
    <3>6. QED
      BY <3>3, <3>5, EndSaved
  <2>3. QED
    BY <2>1, <2>2
<1>3. QED
  BY <1>1, <1>2

\* A page loads, and Turnstile with it.
LEMMA LoadStep ==
  ASSUME Held, SavedTracks,
         Load \/ ConfigLoaded \/ WidgetReady \/ BootFails \/ Callback
  PROVE  Held' /\ SavedTracks'
<1> USE DEF Held
<1>1. CASE Load
  <2>1. tasks' \in [Tasks -> Task] /\ saved' = saved
    BY <1>1, IdleType DEF Load
  <2>2. CASE saved # None
    <3>1. page' = Restored(saved) /\ saved \in Item
      BY <1>1, <2>2 DEF Load
    <3>2. /\ Restored(saved) \in Page
          /\ Restored(saved).account = saved.account
          /\ Restored(saved).locked = saved.locked
          /\ Progress(Restored(saved).steps) = Progress(saved.steps)
      BY <3>1, RestoredType
    <3>3. saved.account # None
      BY <2>2 DEF SavedTracks
    <3>4. QED
      BY <2>1, <2>2, <3>1, <3>2, <3>3 DEF SavedTracks
  <2>3. CASE saved = None
    <3>1. PICK intent \in {"unset", "expert"} : page' = Blank(intent)
      BY <1>1, <2>3 DEF Load
    <3>2. page' \in Page /\ page'.account = None
      BY <3>1, Drawn DEF Blank, Unstarted, Page, Steps, Intents
    <3>3. QED
      BY <2>1, <2>3, <3>2 DEF SavedTracks
  <2>4. QED
    BY <2>2, <2>3
<1>2. CASE ConfigLoaded
  <2>1. [page EXCEPT !.widget = "script"] \in Page
    BY Drawn DEF Page
  <2>2. QED
    BY <1>2, <2>1, ShowVerifyType, PageLeft DEF ConfigLoaded
<1>3. ASSUME UNCHANGED <<saved, tasks>>, page' \in Page,
             page'.account = page.account, page'.locked = page.locked, page'.steps = page.steps
      PROVE  Held' /\ SavedTracks'
  BY <1>3, PageMoves DEF Replacing
<1>4. CASE WidgetReady
  BY <1>3, <1>4, Drawn DEF WidgetReady, Page
<1>5. CASE BootFails
  BY <1>3, <1>5, Drawn DEF BootFails, Page
<1>6. CASE Callback
  <2> DEFINE r == [page EXCEPT !.token = "fresh"]
             s == [page EXCEPT !.token = "unset"]
             q == [page EXCEPT !.token = "unset", !.recovery = "reload"]
  <2>1. /\ r \in Page /\ r.account = page.account
        /\ r.locked = page.locked /\ r.steps = page.steps
    BY DEF Page
  <2>2. /\ s \in Page /\ s.account = page.account
        /\ s.locked = page.locked /\ s.steps = page.steps
    BY DEF Page
  <2>3. /\ q \in Page /\ q.account = page.account
        /\ q.locked = page.locked /\ q.steps = page.steps
    BY Drawn DEF Page
  <2>4. page' \in {r, s, q} /\ UNCHANGED <<saved, tasks>>
    BY <1>6 DEF Callback
  <2> HIDE DEF r, s, q
  <2>5. QED
    BY <1>3, <2>1, <2>2, <2>3, <2>4
<1>7. QED
  BY <1>1, <1>2, <1>4, <1>5, <1>6

\* What the visitor does with the account on the screen is saved.
LEMMA StepSaved ==
  ASSUME Held, NEW p \in Page, Step(p)
  PROVE  Held' /\ SavedTracks'
BY PageSaved DEF Step, Held

LEMMA StepsStep ==
  ASSUME Held, SavedTracks,
         \/ AskResult \/ LoggedIn
         \/ \E what \in {"preflight", "security"} : Acknowledge(what)
         \/ \E verdict \in {"shadowrocket_available", "shadowrocket_missing"} : JudgeTarget(verdict)
  PROVE  Held' /\ SavedTracks'
<1>1. page \in Page /\ page.steps \in Steps
  BY DEF Held, Page
<1>5. CASE AskResult
  <2>1. ShowResults(page) \in Page
    <3>1. [page.steps EXCEPT !.results = TRUE] \in Steps
      BY <1>1 DEF Steps
    <3>2. QED
      BY <1>1, <3>1, Drawn DEF ShowResults, Page
  <2>2. QED
    BY <1>5, <2>1, StepSaved DEF AskResult
<1>6. ASSUME NEW verdict \in Verdicts PROVE ShowGate(page, verdict) \in Page
  <2>1. [page.steps EXCEPT !.exit = verdict] \in Steps
    BY <1>1 DEF Steps
  <2>2. QED
    BY <1>1, <2>1, Drawn DEF ShowGate, Page
<1>7. CASE LoggedIn
  <2>1. CASE page.intent = "target_app"
    <3> DEFINE p == [page EXCEPT !.steps.login = TRUE, !.steps.results = TRUE]
    <3>1. p \in Page
      BY <1>1 DEF Page, Steps
    <3>2. Step(Redrawn(p))
      BY <1>7, <2>1 DEF LoggedIn, SuccessMeansTarget
    <3> HIDE DEF p
    <3>3. QED
      BY <3>1, <3>2, RedrawnType, StepSaved
  <2>2. CASE page.intent # "target_app"
    BY <1>6, <1>7, <2>2, StepSaved DEF LoggedIn, Verdicts
  <2>3. QED
    BY <2>1, <2>2
<1>8. ASSUME NEW what \in {"preflight", "security"}, Acknowledge(what)
      PROVE  Held' /\ SavedTracks'
  <2> DEFINE p == [page EXCEPT !.steps[what] = ~ @]
  <2>1. page.steps[what] \in BOOLEAN
    BY <1>1 DEF Steps
  <2>2. p.steps \in Steps
    BY <1>1, <2>1 DEF Page, Steps
  <2>3. p \in Page
    BY <1>1, <2>2 DEF Page
  <2>4. Step(Redrawn(p))
    BY <1>8 DEF Acknowledge
  <2> HIDE DEF p
  <2>5. QED
    BY <2>3, <2>4, RedrawnType, StepSaved
<1>9. ASSUME NEW verdict \in {"shadowrocket_available", "shadowrocket_missing"}, JudgeTarget(verdict)
      PROVE  Held' /\ SavedTracks'
  BY <1>6, <1>9, StepSaved DEF JudgeTarget, Verdicts
<1>10. QED
  BY <1>5, <1>7, <1>8, <1>9

\* A copy changes one task and no request.
LEMMA CopyTasks ==
  ASSUME Held, NEW t \in Tasks,
         \/ CopyUsername(t) \/ CopyPassword(t) \/ AccountEntered(t) \/ CopyDone(t) \/ CopyFails(t)
  PROVE  \E task \in Task : /\ tasks' = [tasks EXCEPT ![t] = task]
                            /\ tasks[t].pc \in {"off", "copy"} /\ task.pc \in {"off", "copy"}
<1>1. Idle \in Task /\ Idle.pc = "off"
  BY IdleType DEF Idle
<1>2. ASSUME NEW button \in CopyButtons, BeginCopy(t, button)
      PROVE  \E task \in Task : /\ tasks' = [tasks EXCEPT ![t] = task]
                                /\ tasks[t].pc = "off" /\ task.pc = "copy"
  <2> DEFINE task == [Idle EXCEPT !.pc = "copy", !.by = button]
  <2>1. task \in Task /\ task.pc = "copy"
    BY DEF Idle, Task
  <2>2. tasks[t] = Idle /\ tasks' = [tasks EXCEPT ![t] = task]
    BY <1>2 DEF BeginCopy, Begin, Free
  <2> HIDE DEF task
  <2>3. QED
    BY <1>1, <2>1, <2>2
<1>3. CASE CopyUsername(t) \/ CopyPassword(t) \/ AccountEntered(t)
  BY <1>2, <1>3 DEF CopyUsername, CopyPassword, AccountEntered, CopyButtons
<1>4. CASE CopyDone(t) \/ CopyFails(t)
  BY <1>1, <1>4 DEF CopyDone, CopyFails
<1>5. QED
  BY <1>3, <1>4

\* The page a copy leaves: the account on it is the same.
LEMMA CopyPage ==
  ASSUME Held, NEW t \in Tasks, CopyDone(t)
  PROVE  /\ page' \in Page
         /\ page'.account = page.account /\ page'.locked = page.locked
         /\ page'.busy = page.busy
         /\ page'.recovery \in {page.recovery, "unset"}
<1> DEFINE key == IF tasks[t].by = "username" THEN "username" ELSE "password"
           taken == [page EXCEPT !.steps[key] = TRUE]
           hidden == [taken EXCEPT !.recovery = "unset"]
<1>1. page \in Page /\ page.steps \in Steps
  BY DEF Held, Page
<1>2. [page.steps EXCEPT ![key] = TRUE] \in Steps
  BY <1>1 DEF Steps
<1>3. /\ taken \in Page
      /\ taken.account = page.account /\ taken.locked = page.locked
      /\ taken.busy = page.busy /\ taken.recovery = page.recovery
  BY <1>1, <1>2 DEF Page
<1>4. /\ hidden \in Page
      /\ hidden.account = page.account /\ hidden.locked = page.locked
      /\ hidden.busy = page.busy /\ hidden.recovery = "unset"
  BY <1>1, <1>3, Drawn DEF Page
<1>5. page' \in {Redrawn(taken), hidden, Redrawn(hidden)}
  BY DEF CopyDone
<1> HIDE DEF taken, hidden
<1>6. ASSUME NEW p \in Page
      PROVE  Redrawn(p).busy = p.busy /\ Redrawn(p).recovery = p.recovery
  BY <1>6 DEF Redrawn, Page
<1>7. QED
  BY <1>3, <1>4, <1>5, <1>6, RedrawnType

LEMMA CopyStep ==
  ASSUME Held, SavedTracks, NEW t \in Tasks,
         \/ CopyUsername(t) \/ CopyPassword(t) \/ AccountEntered(t) \/ CopyDone(t) \/ CopyFails(t)
  PROVE  Held' /\ SavedTracks'
<1>1. PICK task \in Task :
        /\ tasks' = [tasks EXCEPT ![t] = task]
        /\ tasks[t].pc \in {"off", "copy"} /\ task.pc \in {"off", "copy"}
  BY CopyTasks
<1>2. tasks' \in [Tasks -> Task] /\ (Replacing => Replacing')
  <2>1. tasks' \in [Tasks -> Task] /\ \A u \in Tasks : u # t => tasks'[u] = tasks[u]
    BY <1>1 DEF Held
  <2>2. QED
    BY <1>1, <2>1 DEF Replacing
<1>3. CASE CopyUsername(t) \/ CopyPassword(t)
  BY <1>2, <1>3, PageMoves DEF CopyUsername, CopyPassword, Held
<1>4. CASE AccountEntered(t)
  <2>1. Redrawn(page) \in Page /\ page' = Redrawn(page) /\ saved' = Save(page')
    BY <1>4, RedrawnType DEF AccountEntered, Held
  <2>2. QED
    BY <1>2, <2>1, PageSaved DEF Held
<1>5. CASE CopyDone(t)
  <2>1. page' \in Page /\ saved' = Save(page')
    BY <1>5, CopyPage DEF CopyDone
  <2>2. QED
    BY <1>2, <2>1, PageSaved DEF Held
<1>6. CASE CopyFails(t)
  <2>1. /\ page' \in Page /\ page'.account = page.account /\ page'.locked = page.locked
        /\ page'.steps = page.steps /\ saved' = saved
    BY <1>6, Drawn DEF CopyFails, Held, Page
  <2>2. QED
    BY <1>2, <2>1, PageMoves DEF Held
<1>7. QED
  BY <1>3, <1>4, <1>5, <1>6

\* What the visitor does to the page alone.
LEMMA PageStep ==
  ASSUME Held, SavedTracks,
         Overlay \/ SignOut \/ FinishExitTwice \/ \E intent \in Intents : Choose(intent)
  PROVE  Held' /\ SavedTracks'
<1> USE DEF Held
<1>1. ASSUME UNCHANGED <<saved, tasks>>, page' \in Page,
             page'.account = page.account, page'.locked = page.locked,
             Progress(page'.steps) = Progress(page.steps)
      PROVE  Held' /\ SavedTracks'
  BY <1>1, PageMoves DEF Replacing
<1>2. CASE Overlay
  BY <1>1, <1>2, Drawn DEF Overlay, Page
<1>3. CASE SignOut
  BY <1>1, <1>3 DEF SignOut, Page
<1>4. CASE FinishExitTwice
  <2>1. page' \in Page /\ page'.account = page.account /\ page'.locked = page.locked
    BY <1>4 DEF FinishExitTwice, Page, Steps
  <2>2. page.steps \in Steps /\ page'.steps = [page.steps EXCEPT !.exit = "unset"]
    BY <1>4 DEF FinishExitTwice, Page
  <2>3. Progress(page'.steps) = Progress(page.steps)
    BY <2>2 DEF Progress, Steps
  <2>4. QED
    BY <1>1, <1>4, <2>1, <2>3 DEF FinishExitTwice
<1>5. ASSUME NEW intent \in Intents, Choose(intent)
      PROVE  Held' /\ SavedTracks'
  BY <1>1, <1>5 DEF Choose, Page
<1>6. QED
  BY <1>2, <1>3, <1>4, <1>5

\* What the visitor does that sends a request.
LEMMA RequestStep ==
  ASSUME Held, SavedTracks, NEW t \in Tasks,
         Verify(t) \/ JudgeLogin(t) \/ FinishExit(t) \/ RetryReveal(t) \/ RetryFeedback(t)
  PROVE  Held' /\ SavedTracks'
<1>1. ASSUME NEW task \in Task, Begin(t, task), saved' = saved, page' \in Page,
             page'.account = page.account, page'.locked = page.locked, page'.steps = page.steps
      PROVE  Held' /\ SavedTracks'
  BY <1>1, BeginTasks, PageMoves DEF Held
<1>2. /\ page \in Page /\ page.account \in Accounts \cup {None}
      /\ page.steps.exit \in Verdicts \cup {"unset"}
  BY DEF Held, Page, Steps
<1>3. CASE Verify(t)
  <2>1. [Idle EXCEPT !.pc = "verify", !.by = "verify"] \in Task
    BY DEF Idle, Task
  <2>2. /\ [page EXCEPT !.view = "boot", !.busy = TRUE] \in Page
        /\ [page EXCEPT !.view = "boot", !.busy = TRUE].account = page.account
        /\ [page EXCEPT !.view = "boot", !.busy = TRUE].locked = page.locked
        /\ [page EXCEPT !.view = "boot", !.busy = TRUE].steps = page.steps
    BY <1>2, Drawn DEF Page
  <2>3. QED
    BY <1>1, <1>3, <2>1, <2>2 DEF Verify
<1>4. ASSUME NEW by \in {"feedback", "exit"}, NEW verdict \in Verdicts \cup {"unset"},
             Submit(t, by, verdict)
      PROVE  Held' /\ SavedTracks'
  <2> DEFINE task == [Idle EXCEPT !.pc = "feedback", !.by = by, !.verdict = verdict,
                                  !.account = page.account]
             p == [page EXCEPT !.busy = TRUE, !.recovery = "unset"]
  <2>1. task \in Task
    BY <1>2 DEF Idle, Task
  <2>2. p \in Page /\ p.account = page.account /\ p.locked = page.locked /\ p.steps = page.steps
    BY <1>2, Drawn DEF Page
  <2>3. Begin(t, task) /\ page' = p /\ saved' = saved
    BY <1>4 DEF Submit
  <2> HIDE DEF task, p
  <2>4. QED
    BY <1>1, <2>1, <2>2, <2>3
<1>5. CASE JudgeLogin(t)
  BY <1>4, <1>5 DEF JudgeLogin, Verdicts
<1>6. CASE FinishExit(t)
  BY <1>2, <1>4, <1>6 DEF FinishExit
<1>7. CASE RetryFeedback(t)
  BY <1>4, <1>7 DEF RetryFeedback
<1>8. CASE RetryReveal(t)
  <2>1. PICK again \in BOOLEAN : /\ again = (page.recovery = "replace")
                                 /\ Begin(t, Reveal("retry", again))
                                 /\ page' = RevealView(page, again) /\ saved' = saved
    BY <1>8 DEF RetryReveal
  <2>2. Reveal("retry", again) \in Task
    BY DEF Reveal, Idle, Task
  <2>3. QED
    BY <1>1, <1>2, <2>1, <2>2, RevealViewType
<1>9. QED
  BY <1>3, <1>5, <1>6, <1>7, <1>8

-----------------------------------------------------------------------------
(* The server *)

ServerHeld ==
  server \in [cookie : BOOLEAN, alive : BOOLEAN,
              shown : SUBSET Accounts, claimed : SUBSET Accounts]

LEMMA ServerStep ==
  ASSUME Held, ServerHeld, [Next]_vars
  PROVE  ServerHeld'
<1> USE DEF ServerHeld
<1>1. NoSession \in [cookie : BOOLEAN, alive : BOOLEAN,
                     shown : SUBSET Accounts, claimed : SUBSET Accounts]
  BY DEF NoSession
<1>2. NewSession \in [cookie : BOOLEAN, alive : BOOLEAN,
                      shown : SUBSET Accounts, claimed : SUBSET Accounts]
  BY DEF NewSession, NoSession
<1>3. ASSUME NEW t \in Tasks, Serve(t) PROVE ServerHeld'
  <2>1. tasks[t] \in Task
    BY DEF Held
  <2>2. CASE ServeVerify(t)
    BY <1>2, <1>3, <2>2 DEF ServeVerify, Serve
  <2>3. CASE ServeTicket(t)
    BY <1>2, <1>3, <2>3 DEF ServeTicket, Serve
  <2>4. CASE ServeReveal(t)
    <3>2. \/ server' = server
          \/ \E a \in Accounts : server' = [server EXCEPT !.shown = @ \cup {a}]
      BY <2>4, Zenon DEF ServeReveal
    <3>3. ASSUME NEW a \in Accounts, server' = [server EXCEPT !.shown = @ \cup {a}]
          PROVE  ServerHeld'
      <4>1. server.shown \cup {a} \in SUBSET Accounts
        OBVIOUS
      <4>2. QED
        BY <3>3, <4>1
    <3>4. QED
      BY <3>2, <3>3
  <2>5. CASE ServeFeedback(t)
    <3>2. \/ server' = server
          \/ /\ tasks[t].account \in server.shown
             /\ server' = [server EXCEPT !.claimed = @ \cup {tasks[t].account}]
      BY <2>5, Zenon DEF ServeFeedback
    <3>3. server' \in [cookie : BOOLEAN, alive : BOOLEAN,
                       shown : SUBSET Accounts, claimed : SUBSET Accounts]
      <4>1. CASE server' = server
        BY <4>1
      <4>2. CASE /\ tasks[t].account \in server.shown
                 /\ server' = [server EXCEPT !.claimed = @ \cup {tasks[t].account}]
        <5>1. server.claimed \cup {tasks[t].account} \in SUBSET Accounts
          BY <4>2
        <5>2. QED
          BY <4>2, <5>1
      <4>3. QED
        BY <3>2, <4>1, <4>2
    <3>4. QED
      BY <3>3
  <2>6. QED
    BY <1>3, <2>2, <2>3, <2>4, <2>5 DEF Serve
<1>4. ASSUME NEW t \in Tasks,
             \/ Verified(t) \/ VerifyRefused(t) \/ VerifyFails(t)
             \/ GotTicket(t) \/ GotAccount(t) \/ GotNone(t) \/ RevealFails(t)
             \/ FeedbackTaken(t) \/ FeedbackFails(t)
      PROVE  ServerHeld'
  <2>1. server' = server
    BY <1>4 DEF Verified, VerifyRefused, VerifyFails, GotTicket, GotAccount, GotNone, RevealFails,
                FeedbackTaken, FeedbackFails
  <2>2. QED
    BY <2>1
<1>6. CASE Expire
  BY <1>1, <1>6 DEF Expire
<1>7. CASE Load \/ ConfigLoaded \/ WidgetReady \/ BootFails \/ Callback \/ Overlay \/ SignOut
           \/ FinishExitTwice \/ \E intent \in Intents : Choose(intent)
  BY <1>7 DEF Load, ConfigLoaded, WidgetReady, BootFails, Callback, Overlay, SignOut,
              FinishExitTwice, Choose
<1>8. CASE \E t \in Tasks :
             Verify(t) \/ JudgeLogin(t) \/ FinishExit(t) \/ RetryReveal(t) \/ RetryFeedback(t)
  BY <1>8 DEF Verify, JudgeLogin, FinishExit, RetryReveal, RetryFeedback, Submit
<1>9. CASE \/ AskResult \/ LoggedIn
           \/ \E what \in {"preflight", "security"} : Acknowledge(what)
           \/ \E verdict \in {"shadowrocket_available", "shadowrocket_missing"} : JudgeTarget(verdict)
  BY <1>9 DEF Step, AskResult, LoggedIn, Acknowledge, JudgeTarget
<1>10. CASE \E t \in Tasks : \/ CopyUsername(t) \/ CopyPassword(t) \/ AccountEntered(t)
                            \/ CopyDone(t) \/ CopyFails(t)
  BY <1>10 DEF CopyUsername, CopyPassword, AccountEntered, CopyDone, CopyFails
<1>12. CASE UNCHANGED vars
  BY <1>12 DEF vars
<1>13. QED
  BY <1>3, <1>4, <1>6, <1>7, <1>8, <1>9, <1>10, <1>12 DEF Next, Proceed

-----------------------------------------------------------------------------
(* Theorems *)

\* The invariant holds for any accounts and any number of requests in flight.
THEOREM Invariance == Spec => []IInv
<1> USE DEF IInv
<1>1. TypeOK <=> Held /\ ServerHeld
  BY DEF TypeOK, Held, ServerHeld
<1>2. Init => IInv
  <2>1. Init => ServerHeld
    <3>1. NoSession \in [cookie : BOOLEAN, alive : BOOLEAN,
                         shown : SUBSET Accounts, claimed : SUBSET Accounts]
      BY DEF NoSession
    <3>2. QED
      BY <3>1 DEF Init, ServerHeld
  <2>2. QED
    BY <1>1, <2>1, InitInvariant
<1>3. ASSUME IInv, [Next]_vars PROVE IInv'
  <2> SUFFICES Held' /\ SavedTracks'
    BY <1>1, <1>3, ServerStep DEF TypeOK, Held, ServerHeld
  <2>1. ASSUME NEW t \in Tasks, Proceed(t) PROVE Held' /\ SavedTracks'
    BY <1>1, <1>3, <2>1, ServeStep, VerifyStep, RevealStep, FeedbackStep DEF Proceed
  <2>2. CASE Expire \/ UNCHANGED vars
    <3>1. UNCHANGED <<page, saved, tasks>>
      BY <2>2 DEF Expire, vars
    <3>2. QED
      BY <1>1, <1>3, <3>1, PageMoves DEF Held, Replacing
  <2>3. CASE Load \/ ConfigLoaded \/ WidgetReady \/ BootFails \/ Callback
    BY <1>1, <1>3, <2>3, LoadStep
  <2>4. CASE \/ AskResult \/ LoggedIn
             \/ \E what \in {"preflight", "security"} : Acknowledge(what)
             \/ \E verdict \in {"shadowrocket_available", "shadowrocket_missing"} :
                  JudgeTarget(verdict)
    BY <1>1, <1>3, <2>4, StepsStep
  <2>5. CASE Overlay \/ SignOut \/ FinishExitTwice \/ \E intent \in Intents : Choose(intent)
    BY <1>1, <1>3, <2>5, PageStep
  <2>6. CASE \E t \in Tasks :
               Verify(t) \/ JudgeLogin(t) \/ FinishExit(t) \/ RetryReveal(t) \/ RetryFeedback(t)
    BY <1>1, <1>3, <2>6, RequestStep
  <2>7. CASE \E t \in Tasks : \/ CopyUsername(t) \/ CopyPassword(t) \/ AccountEntered(t)
                            \/ CopyDone(t) \/ CopyFails(t)
    BY <1>1, <1>3, <2>7, CopyStep
  <2>8. QED
    BY <1>3, <2>1, <2>2, <2>3, <2>4, <2>5, <2>6, <2>7 DEF Next
<1>4. QED
  BY <1>2, <1>3, PTL DEF Spec

\* The variables keep their types.
THEOREM TypeCorrect == Spec => []TypeOK
<1>1. IInv => TypeOK
  BY DEF IInv
<1>2. QED
  BY Invariance, <1>1, PTL

\* RELEASE_NOTES.md: account and progress survive a restore.  Every handler of app.js has
\* called saveSession with what it changed by the time no request is in flight.
THEOREM ReloadSafety == Spec => []ReloadKeepsProgress
<1>1. IInv => ReloadKeepsProgress
  <2> SUFFICES ASSUME IInv, InFlight = {} PROVE ReloadKeepsProgress
    BY DEF ReloadKeepsProgress
  <2>1. ~ Replacing
    BY DEF InFlight, Replacing
  <2>2. QED
    BY <2>1 DEF IInv, SavedTracks, ReloadKeepsProgress, Progress
<1>2. QED
  BY Invariance, <1>1, PTL

-----------------------------------------------------------------------------
(* What the page's helpers do to the busy flag and the offer *)

LEMMA RedrawnRest ==
  ASSUME NEW p \in Page
  PROVE  Redrawn(p).busy = p.busy /\ Redrawn(p).recovery = p.recovery
BY DEF Redrawn, Page

LEMMA ShowAccountRest ==
  ASSUME NEW p \in Page, NEW a \in Accounts \cup {None},
         NEW locked \in BOOLEAN, NEW results \in BOOLEAN
  PROVE  /\ ShowAccount(p, a, locked, results).busy = p.busy
         /\ ShowAccount(p, a, locked, results).recovery = "unset"
<1> DEFINE q == [p EXCEPT !.view = "account", !.token = "unset", !.widget = "absent", !.account = a,
                          !.locked = locked, !.steps.results = results, !.recovery = "unset"]
<1>1. q.recovery = "unset" /\ q.busy = p.busy
  BY DEF Page
<1>2. q \in Page
  <2>1. p.steps \in Steps
    BY DEF Page
  <2>2. [p.steps EXCEPT !.results = results] \in Steps
    BY <2>1 DEF Steps
  <2>3. QED
    BY <2>2, Drawn DEF Page
<1>3. ShowAccount(p, a, locked, results) = Redrawn(q)
  BY DEF ShowAccount
<1> HIDE DEF q
<1>4. QED
  BY <1>1, <1>2, <1>3, RedrawnRest

\* The account is shown again, with something to retry.
LEMMA ShownAgain ==
  ASSUME NEW p \in Page, NEW r \in Recoveries
  PROVE  LET kept == [ShowAccount(p, p.account, p.locked, FALSE) EXCEPT !.recovery = r]
         IN  /\ kept \in Page /\ kept.account = p.account
             /\ kept.busy = p.busy /\ kept.recovery = r
<1> DEFINE shown == ShowAccount(p, p.account, p.locked, FALSE)
<1>1. shown \in Page /\ shown.account = p.account /\ shown.busy = p.busy
  <2>1. PICK no \in BOOLEAN, l \in BOOLEAN, a \in Accounts \cup {None} :
          no = FALSE /\ l = p.locked /\ a = p.account
    BY DEF Page
  <2> DEFINE q == ShowAccount(p, a, l, no)
  <2>2. q \in Page /\ q.account = a /\ q.locked = l /\ q.steps = [p.steps EXCEPT !.results = no]
    BY ShowAccountType
  <2>3. q.busy = p.busy
    BY ShowAccountRest
  <2>4. shown = q
    BY <2>1, Zenon
  <2> HIDE DEF shown, q
  <2>5. QED
    BY <2>1, <2>2, <2>3, <2>4
<1> HIDE DEF shown
<1>2. /\ [shown EXCEPT !.recovery = r] \in Page
      /\ [shown EXCEPT !.recovery = r].account = shown.account
      /\ [shown EXCEPT !.recovery = r].busy = shown.busy
      /\ [shown EXCEPT !.recovery = r].recovery = r
  BY <1>1 DEF Page
<1>3. QED
  BY <1>1, <1>2 DEF shown

LEMMA FinallyRest ==
  ASSUME NEW p \in Page, NEW by
  PROVE  /\ Finally(p, by).busy = IF by = "retry" THEN p.busy ELSE FALSE
         /\ Finally(p, by).recovery = p.recovery
<1> DEFINE done == IF by = "retry" THEN p ELSE [p EXCEPT !.busy = FALSE]
<1>1. /\ done \in Page /\ done.recovery = p.recovery
      /\ done.busy = IF by = "retry" THEN p.busy ELSE FALSE
  <2>1. /\ [p EXCEPT !.busy = FALSE] \in Page
        /\ [p EXCEPT !.busy = FALSE].busy = FALSE
        /\ [p EXCEPT !.busy = FALSE].recovery = p.recovery
    BY DEF Page
  <2>2. QED
    BY <2>1
<1>2. Finally(p, by) = IF by = "exit" THEN [done EXCEPT !.steps.exit = "unset", !.signedOut = FALSE]
                                      ELSE done
  BY DEF Finally
<1> HIDE DEF done
<1>3. QED
  BY <1>1, <1>2 DEF Page

\* A page that restores what was saved begins nothing.
LEMMA RestoredRest ==
  ASSUME NEW s \in Item
  PROVE  Restored(s).busy = FALSE /\ Restored(s).recovery = "unset"
<1> DEFINE intent == IF s.intent = "unset" THEN "target_app" ELSE s.intent
           empty(i) == [Blank(i) EXCEPT !.widget = "absent", !.steps = s.steps]
<1>1. /\ s.account \in Accounts \cup {None} /\ s.locked \in BOOLEAN /\ s.intent \in Intents
      /\ s.steps \in Steps /\ s.steps.results \in BOOLEAN
  BY DEF Item, Steps
<1>2. PICK i \in Intents : i = intent
  BY <1>1 DEF Intents
<1>3. PICK e \in Page : e = empty(i) /\ e.busy = FALSE
  <2>1. Blank(i) \in Page /\ Blank(i).busy = FALSE
    BY Drawn DEF Blank, Unstarted, Page, Steps
  <2>2. empty(i) \in Page /\ empty(i).busy = FALSE
    BY <1>1, <2>1, Drawn DEF Page
  <2> HIDE DEF empty
  <2>3. QED
    BY <2>2
<1>4. PICK shown \in Page :
        /\ shown = ShowAccount(e, s.account, s.locked, s.steps.results)
        /\ shown.busy = FALSE /\ shown.recovery = "unset"
  <2>1. PICK l \in BOOLEAN, r \in BOOLEAN : l = s.locked /\ r = s.steps.results
    BY <1>1
  <2>2. PICK a \in Accounts \cup {None} : a = s.account
    BY <1>1
  <2>3. ShowAccount(e, a, l, r) \in Page
    BY ShowAccountType
  <2>4. ShowAccount(e, a, l, r).busy = e.busy /\ ShowAccount(e, a, l, r).recovery = "unset"
    BY ShowAccountRest
  <2>5. QED
    BY <1>3, <2>1, <2>2, <2>3, <2>4
<1>5. Restored(s) = CASE s.steps.exit # "unset" /\ i # "expert" -> ShowGate(shown, s.steps.exit)
                      [] s.steps.results                   -> ShowResults(shown)
                      [] OTHER                             -> shown
  BY <1>2, <1>3, <1>4, Zenon DEF Restored
<1>6. \/ Restored(s) = shown
      \/ Restored(s) = ShowGate(shown, s.steps.exit)
      \/ Restored(s) = ShowResults(shown)
  BY <1>5
<1>7. /\ ShowGate(shown, s.steps.exit).busy = FALSE
      /\ ShowGate(shown, s.steps.exit).recovery = "unset"
  BY <1>4 DEF ShowGate, Page
<1>8. ShowResults(shown).busy = FALSE /\ ShowResults(shown).recovery = "unset"
  BY <1>4 DEF ShowResults, Page
<1>9. QED
  BY <1>4, <1>6, <1>7, <1>8

LEMMA RevealViewRest ==
  ASSUME NEW p \in Page, NEW again
  PROVE  RevealView(p, again).busy = p.busy /\ RevealView(p, again).recovery = "unset"
BY DEF RevealView, Page

LEMMA LeaveRest ==
  ASSUME NEW p \in Page, NEW view
  PROVE  Leave(p, view).busy = p.busy
BY DEF Leave, Page

LEMMA ShowVerifyRest ==
  ASSUME NEW p \in Page
  PROVE  ShowVerify(p).busy = p.busy
BY DEF ShowVerify, Page

-----------------------------------------------------------------------------
(* The busy flag and the offer *)

\* A task of the buttons that has a request in flight.
Working(task) == task.pc \notin {"off", "copy"} /\ task.by # "retry"

\* OneAtATime is inductive once a verification is known to be a button's.
Alone ==
  /\ OneAtATime
  /\ \A t \in Tasks : tasks[t].pc = "verify" => tasks[t].by = "verify"

\* What RetriesSameAccount says of a step.
SameOffer == page'.account = page.account /\ page'.recovery = page.recovery
Offers ==
  page'.account # None /\ page'.recovery \in Verdicts =>
    SameOffer \/ \E t \in Tasks : OfferedBy(t)

LEMMA NoVerdict == /\ Verdicts \cap {"unset", "reload", "reveal", "replace"} = {}
BY DEF Verdicts

LEMMA AloneWorking ==
  OneAtATime <=> /\ page.busy <=> \E t \in Tasks : Working(tasks[t])
                 /\ \A t, u \in Tasks : Working(tasks[t]) /\ Working(tasks[u]) => t = u
<1>1. \A t \in Tasks : Busies(t) <=> Working(tasks[t])
  BY DEF Busies, Working, InFlight
<1>2. QED
  BY <1>1, Zenon DEF OneAtATime

LEMMA AloneWorkingNext ==
  OneAtATime' <=> /\ page'.busy <=> \E t \in Tasks : Working(tasks'[t])
                  /\ \A t, u \in Tasks : Working(tasks'[t]) /\ Working(tasks'[u]) => t = u
<1>1. \A t \in Tasks : Busies(t)' <=> Working(tasks'[t])
  BY DEF Busies, Working, InFlight
<1>2. QED
  BY <1>1, Zenon DEF OneAtATime

\* The step leaves tasks and flag alone.
LEMMA Stays ==
  ASSUME Alone, tasks' = tasks, page'.busy = page.busy
  PROVE  Alone'
BY AloneWorking, AloneWorkingNext DEF Alone

\* The step moves one task and begins or ends none of the buttons'.
LEMMA Moves ==
  ASSUME Held, Alone, NEW t \in Tasks, NEW task, tasks' = [tasks EXCEPT ![t] = task],
         Working(task) <=> Working(tasks[t]), page'.busy = page.busy,
         task.pc = "verify" => task.by = "verify"
  PROVE  Alone'
<1>1. tasks'[t] = task /\ \A u \in Tasks : u # t => tasks'[u] = tasks[u]
  BY DEF Held
<1>2. \A u \in Tasks : Working(tasks'[u]) <=> Working(tasks[u])
  BY <1>1
<1>3. OneAtATime'
  BY <1>2, AloneWorking, AloneWorkingNext DEF Alone
<1>4. QED
  BY <1>1, <1>3 DEF Alone

\* A button begins a task.
LEMMA Starts ==
  ASSUME Held, Alone, NEW t \in Tasks, NEW task, tasks' = [tasks EXCEPT ![t] = task],
         ~ page.busy, Working(task), page'.busy = TRUE,
         task.pc = "verify" => task.by = "verify"
  PROVE  Alone'
<1>1. tasks'[t] = task /\ \A u \in Tasks : u # t => tasks'[u] = tasks[u]
  BY DEF Held
<1>2. \A u \in Tasks : ~ Working(tasks[u])
  BY AloneWorking DEF Alone
<1>3. \A u \in Tasks : Working(tasks'[u]) <=> u = t
  BY <1>1, <1>2
<1>4. OneAtATime'
  BY <1>3, AloneWorkingNext
<1>5. QED
  BY <1>1, <1>4 DEF Alone

\* A task is over: a button's gives the flag back, a retry leaves it as it is.
LEMMA Ends ==
  ASSUME Held, Alone, NEW t \in Tasks, NEW p \in Page, NEW s, End(t, p, s),
         tasks[t].pc \notin {"off", "copy"}, p.busy = page.busy
  PROVE  /\ Alone'
         /\ page'.account = p.account /\ page'.recovery = p.recovery
         /\ tasks'[t] = Idle
<1>1. page' = Finally(p, tasks[t].by) /\ tasks' = [tasks EXCEPT ![t] = Idle]
  BY DEF End
<1>2. /\ page'.busy = IF tasks[t].by = "retry" THEN page.busy ELSE FALSE
      /\ page'.recovery = p.recovery /\ page'.account = p.account
  BY <1>1, FinallyRest, FinallyType
<1>3. ~ Working(Idle) /\ Idle.pc # "verify"
  BY DEF Idle, Working
<1>4. tasks'[t] = Idle /\ \A u \in Tasks : u # t => tasks'[u] = tasks[u]
  BY <1>1 DEF Held
<1>5. CASE tasks[t].by = "retry"
  <2>1. ~ Working(tasks[t])
    BY <1>5 DEF Working
  <2>2. QED
    BY <1>1, <1>2, <1>3, <1>4, <1>5, <2>1, Moves
<1>6. CASE tasks[t].by # "retry"
  <2>1. Working(tasks[t])
    BY <1>6 DEF Working
  <2>2. \A u \in Tasks : ~ Working(tasks'[u])
    BY <1>3, <1>4, <2>1, AloneWorking DEF Alone
  <2>3. OneAtATime'
    BY <1>2, <1>6, <2>2, AloneWorkingNext
  <2>4. QED
    BY <1>2, <1>3, <1>4, <2>3 DEF Alone
<1>7. QED
  BY <1>5, <1>6

-----------------------------------------------------------------------------
(* The actions again *)

\* A step that shows what it showed offers what it offered; one that offers nothing, nothing.
LEMMA OffersNone ==
  ASSUME page'.account = None \/ page'.recovery \in {"unset", "reload", "reveal", "replace"}
  PROVE  Offers
BY NoVerdict DEF Offers

LEMMA OffersSame ==
  ASSUME SameOffer
  PROVE  Offers
BY DEF Offers

LEMMA ServeAlone ==
  ASSUME Held, Alone, NEW t \in Tasks, Serve(t)
  PROVE  Alone' /\ Offers
<1>1. PICK task \in Task : /\ tasks' = [tasks EXCEPT ![t] = task]
                           /\ task.pc = tasks[t].pc /\ task.by = tasks[t].by
  BY ServeTasks
<1>2. page' = page
  BY DEF Serve
<1>3. (Working(task) <=> Working(tasks[t])) /\ (task.pc = "verify" => task.by = "verify")
  BY <1>1 DEF Working, Alone
<1>4. QED
  BY <1>1, <1>2, <1>3, Moves, OffersSame DEF SameOffer

LEMMA VerifyAlone ==
  ASSUME Held, Alone, NEW t \in Tasks, Verified(t) \/ VerifyRefused(t) \/ VerifyFails(t)
  PROVE  Alone' /\ Offers
<1>1. page \in Page /\ tasks[t].pc = "verify" /\ tasks[t].by = "verify"
  BY DEF Held, Alone, Verified, VerifyRefused, VerifyFails
<1>2. CASE Verified(t)
  <2>1. page' = RevealView(page, FALSE) /\ tasks' = [tasks EXCEPT ![t] = Reveal("verify", FALSE)]
    BY <1>2 DEF Verified
  <2>2. Reveal("verify", FALSE).pc = "ticket" /\ Reveal("verify", FALSE).by = "verify"
    BY DEF Reveal, Idle
  <2>3. Working(Reveal("verify", FALSE)) /\ Working(tasks[t])
    BY <1>1, <2>2 DEF Working
  <2>4. QED
    BY <1>1, <2>1, <2>2, <2>3, RevealViewRest, Moves, OffersNone
<1>3. CASE VerifyRefused(t)
  <2> DEFINE p == [page EXCEPT !.token = "unset"]
  <2>1. p \in Page /\ p.busy = page.busy
    BY <1>1 DEF Page
  <2>2. End(t, ShowVerify(p), None)
    BY <1>3 DEF VerifyRefused
  <2> HIDE DEF p
  <2>3. QED
    BY <1>1, <2>1, <2>2, ShowVerifyType, ShowVerifyRest, Ends, OffersNone
<1>4. CASE VerifyFails(t)
  BY <1>1, <1>4, Ends, OffersSame DEF VerifyFails, SameOffer
<1>5. QED
  BY <1>2, <1>3, <1>4

LEMMA RevealAlone ==
  ASSUME Held, Alone, NEW t \in Tasks,
         GotTicket(t) \/ GotAccount(t) \/ GotNone(t) \/ RevealFails(t)
  PROVE  Alone' /\ Offers
<1>1. page \in Page /\ tasks[t] \in Task /\ tasks[t].pc \in {"ticket", "reveal"}
  BY DEF Held, GotTicket, GotAccount, GotNone, RevealFails
<1>2. CASE GotTicket(t)
  <2> DEFINE task == [tasks[t] EXCEPT !.pc = "reveal", !.answer = "unset"]
  <2>1. tasks' = [tasks EXCEPT ![t] = task] /\ page' = page
    BY <1>2 DEF GotTicket, Held
  <2>2. task.pc = "reveal" /\ task.by = tasks[t].by
    BY <1>1 DEF Task
  <2> HIDE DEF task
  <2>3. Working(task) <=> Working(tasks[t])
    BY <1>1, <2>2 DEF Working
  <2>4. QED
    BY <2>1, <2>2, <2>3, Moves, OffersSame DEF SameOffer
<1>3. CASE GotAccount(t)
  <2>1. StartOver(page) \in Page /\ StartOver(page).busy = page.busy
    BY <1>1 DEF StartOver, Page, Unstarted, Steps
  <2>2. PICK q \in Page : /\ q = IF tasks[t].again THEN StartOver(page) ELSE page
                          /\ q.busy = page.busy
    BY <1>1, <2>1
  <2>3. PICK a \in Accounts \cup {None} : a = tasks[t].account
    BY <1>1 DEF Task
  <2> DEFINE p == ShowAccount(q, a, FALSE, FALSE)
  <2>4. End(t, p, Save(p))
    BY <1>3, <2>2, <2>3, Zenon DEF GotAccount
  <2>5. p \in Page /\ p.busy = page.busy /\ p.recovery = "unset"
    <3>1. PICK no \in BOOLEAN : no = FALSE
      OBVIOUS
    <3>2. /\ ShowAccount(q, a, no, no) \in Page
          /\ ShowAccount(q, a, no, no).account = a
          /\ ShowAccount(q, a, no, no).locked = no
          /\ ShowAccount(q, a, no, no).steps = [q.steps EXCEPT !.results = no]
      BY ShowAccountType
    <3>3. /\ ShowAccount(q, a, no, no).busy = q.busy
          /\ ShowAccount(q, a, no, no).recovery = "unset"
      BY ShowAccountRest
    <3>4. QED
      BY <2>2, <3>1, <3>2, <3>3
  <2> HIDE DEF p
  <2>6. QED
    BY <1>1, <2>4, <2>5, Ends, OffersNone
<1>4. CASE GotNone(t)
  <2>1. End(t, Leave(page, "empty"), None)
    BY <1>4 DEF GotNone
  <2>2. QED
    BY <1>1, <2>1, LeaveType, LeaveRest, Ends, OffersNone
<1>5. CASE RevealFails(t)
  <2>1. CASE page.account # None
    <3>1. PICK r \in Recoveries : r = "replace"
      BY Drawn
    <3> DEFINE kept == [ShowAccount(page, page.account, page.locked, FALSE) EXCEPT !.recovery = r]
    <3>2. End(t, kept, Save(kept))
      BY <1>5, <2>1, <3>1, Zenon DEF RevealFails
    <3>3. kept \in Page /\ kept.busy = page.busy /\ kept.recovery = "replace"
      BY <1>1, <3>1, ShownAgain
    <3> HIDE DEF kept
    <3>4. QED
      BY <1>1, <3>2, <3>3, Ends, OffersNone
  <2>2. CASE page.account = None /\ tasks[t].answer = "refused"
    <3>1. End(t, ShowVerify(page), None)
      BY <1>5, <2>2 DEF RevealFails
    <3>2. QED
      BY <1>1, <3>1, ShowVerifyType, ShowVerifyRest, Ends, OffersNone
  <2>3. CASE page.account = None /\ tasks[t].answer # "refused"
    <3> DEFINE p == [page EXCEPT !.view = "boot", !.recovery = "reveal"]
    <3>1. End(t, p, saved)
      BY <1>5, <2>3 DEF RevealFails
    <3>2. p \in Page /\ p.account = None /\ p.busy = page.busy
      BY <1>1, <2>3, Drawn DEF Page
    <3> HIDE DEF p
    <3>3. QED
      BY <1>1, <3>1, <3>2, Ends, OffersNone
  <2>4. QED
    BY <2>1, <2>2, <2>3
<1>6. QED
  BY <1>2, <1>3, <1>4, <1>5

LEMMA FeedbackAlone ==
  ASSUME Held, Alone, NEW t \in Tasks, FeedbackTaken(t) \/ FeedbackFails(t)
  PROVE  Alone' /\ Offers
<1>1. /\ page \in Page /\ tasks[t].pc = "feedback"
      /\ tasks[t].verdict \in Verdicts \cup {"unset"}
  BY DEF Held, Task, FeedbackTaken, FeedbackFails
<1>2. CASE FeedbackTaken(t)
  <2>1. PICK p \in Page : p = [page EXCEPT !.locked = TRUE] /\ p.busy = page.busy
    <3>1. /\ [page EXCEPT !.locked = TRUE] \in Page
          /\ [page EXCEPT !.locked = TRUE].busy = page.busy
      BY <1>1 DEF Page
    <3>2. QED
      BY <3>1, Zenon
  <2>2. CASE tasks[t].verdict \in {"shadowrocket_available", "login_success"}
    <3>1. End(t, Leave(p, "success"), None)
      BY <1>2, <2>1, <2>2 DEF FeedbackTaken
    <3>2. Leave(p, "success") \in Page /\ Leave(p, "success").account = None
      BY LeaveType
    <3>3. QED
      BY <1>1, <2>1, <3>1, <3>2, LeaveRest, Ends, OffersNone
  <2>3. CASE tasks[t].verdict \notin {"shadowrocket_available", "login_success"}
    <3>1. /\ page' = RevealView(p, TRUE)
          /\ tasks' = [tasks EXCEPT ![t] = Reveal(tasks[t].by, TRUE)]
      BY <1>2, <2>1, <2>3 DEF FeedbackTaken
    <3>2. Reveal(tasks[t].by, TRUE).pc = "ticket" /\ Reveal(tasks[t].by, TRUE).by = tasks[t].by
      BY DEF Reveal, Idle
    <3>3. Working(Reveal(tasks[t].by, TRUE)) <=> Working(tasks[t])
      BY <1>1, <3>2 DEF Working
    <3>4. QED
      BY <2>1, <3>1, <3>2, <3>3, RevealViewRest, Moves, OffersNone
  <2>4. QED
    BY <2>2, <2>3
<1>3. CASE FeedbackFails(t)
  <2>1. CASE page.account # tasks[t].account
    <3>1. End(t, page, saved)
      BY <1>3, <2>1 DEF FeedbackFails
    <3>2. QED
      BY <1>1, <3>1, Ends, OffersSame DEF SameOffer
  <2>2. CASE page.account = tasks[t].account
    <3>1. PICK r \in Recoveries : r = IF page.locked THEN "replace" ELSE tasks[t].verdict
      BY <1>1, Drawn
    <3> DEFINE kept == [ShowAccount(page, page.account, page.locked, FALSE) EXCEPT !.recovery = r]
    <3>2. End(t, kept, Save(kept))
      BY <1>3, <2>2, <3>1, Zenon DEF FeedbackFails
    <3>3. kept \in Page /\ kept.busy = page.busy /\ kept.account = page.account /\ kept.recovery = r
      BY <1>1, ShownAgain
    <3> HIDE DEF kept
    <3>4. /\ Alone' /\ page'.account = page.account /\ tasks'[t] = Idle
          /\ page'.recovery = IF page.locked THEN "replace" ELSE tasks[t].verdict
      BY <1>1, <3>1, <3>2, <3>3, Ends
    <3>5. page.locked \/ OfferedBy(t)
      BY <1>1, <2>2, <3>4 DEF OfferedBy
    <3>6. Offers
      BY <3>4, <3>5, NoVerdict DEF Offers
    <3>7. QED
      BY <3>4, <3>6
  <2>3. QED
    BY <2>1, <2>2
<1>4. QED
  BY <1>2, <1>3

LEMMA LoadAlone ==
  ASSUME Held, Alone, Load \/ ConfigLoaded \/ WidgetReady \/ BootFails \/ Callback
  PROVE  Alone' /\ Offers
<1>1. page \in Page
  BY DEF Held
<1>2. CASE Load
  <2>1. page'.busy = FALSE /\ (page'.account = None \/ page'.recovery = "unset")
    <3>1. CASE saved # None
      BY <1>2, <3>1, RestoredRest DEF Load, Held
    <3>2. CASE saved = None
      BY <1>2, <3>2 DEF Load, Blank
    <3>3. QED
      BY <3>1, <3>2
  <2>2. \A t \in Tasks : tasks'[t].pc = "off"
    BY <1>2 DEF Load, Idle
  <2>3. \A t \in Tasks : ~ Working(tasks'[t])
    BY <2>2 DEF Working
  <2>4. OneAtATime'
    BY <2>1, <2>3, AloneWorkingNext
  <2>5. Alone'
    BY <2>2, <2>4 DEF Alone
  <2>6. QED
    BY <2>1, <2>5, OffersNone
<1>3. CASE ConfigLoaded
  <2> DEFINE p == [page EXCEPT !.widget = "script"]
  <2>1. p \in Page /\ p.busy = page.busy
    BY <1>1, Drawn DEF Page
  <2>2. page' = ShowVerify(p) /\ tasks' = tasks
    BY <1>3 DEF ConfigLoaded
  <2> HIDE DEF p
  <2>3. QED
    BY <2>1, <2>2, ShowVerifyType, ShowVerifyRest, Stays, OffersNone
<1>4. CASE WidgetReady
  <2>1. /\ page'.busy = page.busy /\ tasks' = tasks /\ page'.account = page.account
        /\ page'.recovery = page.recovery
    BY <1>1, <1>4 DEF WidgetReady, Page
  <2>2. QED
    BY <2>1, Stays, OffersSame DEF SameOffer
<1>5. CASE BootFails
  <2>1. page'.busy = page.busy /\ tasks' = tasks /\ page'.recovery = "reload"
    BY <1>1, <1>5 DEF BootFails, Page
  <2>2. QED
    BY <2>1, Stays, OffersNone
<1>6. CASE Callback
  <2> DEFINE r == [page EXCEPT !.token = "fresh"]
             s == [page EXCEPT !.token = "unset"]
             q == [page EXCEPT !.token = "unset", !.recovery = "reload"]
  <2>1. r.busy = page.busy /\ r.account = page.account /\ r.recovery = page.recovery
    BY <1>1 DEF Page
  <2>2. s.busy = page.busy /\ s.account = page.account /\ s.recovery = page.recovery
    BY <1>1 DEF Page
  <2>3. q.busy = page.busy /\ q.recovery = "reload"
    BY <1>1 DEF Page
  <2>4. page' \in {r, s, q} /\ tasks' = tasks
    BY <1>6 DEF Callback
  <2> HIDE DEF r, s, q
  <2>5. QED
    BY <2>1, <2>2, <2>3, <2>4, Stays, OffersSame, OffersNone DEF SameOffer
<1>7. QED
  BY <1>2, <1>3, <1>4, <1>5, <1>6

LEMMA StepsAlone ==
  ASSUME Held, Alone,
         \/ AskResult \/ LoggedIn
         \/ \E what \in {"preflight", "security"} : Acknowledge(what)
         \/ \E verdict \in {"shadowrocket_available", "shadowrocket_missing"} : JudgeTarget(verdict)
  PROVE  Alone' /\ Offers
<1> DEFINE Plain(p) == /\ p.busy = page.busy /\ p.account = page.account
                       /\ p.recovery = page.recovery
<1>1. page \in Page /\ page.steps \in Steps
  BY DEF Held, Page
<1>2. ASSUME NEW p, Step(p), Plain(p)
      PROVE  Alone' /\ Offers
  BY <1>2, Stays, OffersSame DEF Step, SameOffer
<1>3. ASSUME NEW p \in Page, Step(Redrawn(p)), Plain(p)
      PROVE  Alone' /\ Offers
  BY <1>2, <1>3, RedrawnType, RedrawnRest
<1>4. ASSUME NEW verdict PROVE Plain(ShowGate(page, verdict))
  BY <1>1 DEF ShowGate, Page
<1>5. CASE AskResult
  <2>1. Plain(ShowResults(page))
    BY <1>1 DEF ShowResults, Page
  <2>2. QED
    BY <1>2, <1>5, <2>1 DEF AskResult
<1>6. CASE LoggedIn
  <2>1. CASE page.intent = "target_app"
    <3> DEFINE p == [page EXCEPT !.steps.login = TRUE, !.steps.results = TRUE]
    <3>1. p \in Page /\ Plain(p)
      BY <1>1 DEF Page, Steps
    <3>2. Step(Redrawn(p))
      BY <1>6, <2>1 DEF LoggedIn, SuccessMeansTarget
    <3> HIDE DEF p
    <3>3. QED
      BY <1>3, <3>1, <3>2
  <2>2. CASE page.intent # "target_app"
    BY <1>2, <1>4, <1>6, <2>2 DEF LoggedIn
  <2>3. QED
    BY <2>1, <2>2
<1>7. ASSUME NEW what \in {"preflight", "security"}, Acknowledge(what)
      PROVE  Alone' /\ Offers
  <2> DEFINE p == [page EXCEPT !.steps[what] = ~ @]
  <2>1. p.steps \in Steps
    BY <1>1 DEF Page, Steps
  <2>2. p \in Page /\ Plain(p)
    BY <1>1, <2>1 DEF Page
  <2>3. Step(Redrawn(p))
    BY <1>7 DEF Acknowledge
  <2> HIDE DEF p
  <2>4. QED
    BY <1>3, <2>2, <2>3
<1>8. ASSUME NEW verdict \in {"shadowrocket_available", "shadowrocket_missing"}, JudgeTarget(verdict)
      PROVE  Alone' /\ Offers
  BY <1>2, <1>4, <1>8 DEF JudgeTarget
<1>9. QED
  BY <1>5, <1>6, <1>7, <1>8

LEMMA PageAlone ==
  ASSUME Held, Alone,
         Overlay \/ SignOut \/ FinishExitTwice \/ \E intent \in Intents : Choose(intent)
  PROVE  Alone' /\ Offers
<1>1. page \in Page
  BY DEF Held
<1>2. tasks' = tasks /\ page'.busy = page.busy
  BY <1>1 DEF Overlay, SignOut, FinishExitTwice, Choose, Page
<1>3. page'.recovery = "unset" \/ SameOffer
  BY <1>1 DEF Overlay, SignOut, FinishExitTwice, Choose, Page, SameOffer
<1>4. QED
  BY <1>2, <1>3, Stays, OffersSame, OffersNone

LEMMA RequestAlone ==
  ASSUME Held, Alone, NEW t \in Tasks,
         Verify(t) \/ JudgeLogin(t) \/ FinishExit(t) \/ RetryReveal(t) \/ RetryFeedback(t)
  PROVE  Alone' /\ Offers
<1>1. page \in Page
  BY DEF Held
<1>2. ASSUME NEW task, Begin(t, task)
      PROVE  tasks' = [tasks EXCEPT ![t] = task] /\ ~ Working(tasks[t])
  BY <1>2 DEF Begin, Free, Idle, Working
<1>3. CASE Verify(t)
  <2> DEFINE task == [Idle EXCEPT !.pc = "verify", !.by = "verify"]
  <2>1. task.pc = "verify" /\ task.by = "verify"
    BY DEF Idle
  <2>2. Begin(t, task) /\ ~ page.busy
    BY <1>3 DEF Verify
  <2>3. page'.busy = TRUE /\ page'.account = page.account /\ page'.recovery = page.recovery
    BY <1>1, <1>3 DEF Verify, Page
  <2> HIDE DEF task
  <2>4. Working(task)
    BY <2>1 DEF Working
  <2>5. Alone'
    BY <1>2, <2>1, <2>2, <2>3, <2>4, Starts
  <2>6. QED
    BY <2>3, <2>5, OffersSame DEF SameOffer
<1>4. ASSUME NEW by \in {"feedback", "exit"}, NEW verdict, Submit(t, by, verdict)
      PROVE  Alone' /\ Offers
  <2> DEFINE task == [Idle EXCEPT !.pc = "feedback", !.by = by, !.verdict = verdict,
                                  !.account = page.account]
  <2>1. task.pc = "feedback" /\ task.by = by
    BY DEF Idle
  <2>2. Begin(t, task) /\ ~ page.busy
    BY <1>4 DEF Submit
  <2>3. page'.busy = TRUE /\ page'.recovery = "unset"
    BY <1>1, <1>4 DEF Submit, Page
  <2> HIDE DEF task
  <2>4. Working(task)
    BY <2>1 DEF Working
  <2>5. Alone'
    BY <1>2, <2>1, <2>2, <2>3, <2>4, Starts
  <2>6. QED
    BY <2>3, <2>5, OffersNone
<1>5. CASE RetryReveal(t)
  <2>1. PICK again : Begin(t, Reveal("retry", again)) /\ page' = RevealView(page, again)
    BY <1>5 DEF RetryReveal
  <2>2. Reveal("retry", again).pc = "ticket" /\ Reveal("retry", again).by = "retry"
    BY DEF Reveal, Idle
  <2>3. ~ Working(Reveal("retry", again))
    BY <2>2 DEF Working
  <2>4. Alone'
    BY <1>1, <1>2, <2>1, <2>2, <2>3, RevealViewRest, Moves
  <2>5. QED
    BY <1>1, <2>1, <2>4, RevealViewRest, OffersNone
<1>6. QED
  BY <1>3, <1>4, <1>5 DEF JudgeLogin, FinishExit, RetryFeedback

LEMMA CopyAlone ==
  ASSUME Held, Alone, NEW t \in Tasks,
         \/ CopyUsername(t) \/ CopyPassword(t) \/ AccountEntered(t) \/ CopyDone(t) \/ CopyFails(t)
  PROVE  Alone' /\ Offers
<1>1. PICK task \in Task :
        /\ tasks' = [tasks EXCEPT ![t] = task]
        /\ tasks[t].pc \in {"off", "copy"} /\ task.pc \in {"off", "copy"}
  BY CopyTasks
<1>2. /\ page'.busy = page.busy /\ page'.account = page.account
      /\ page'.recovery \in {page.recovery, "unset"}
  <2>1. CASE CopyUsername(t) \/ CopyPassword(t)
    BY <2>1 DEF CopyUsername, CopyPassword
  <2>2. CASE AccountEntered(t)
    BY <2>2, RedrawnType, RedrawnRest DEF AccountEntered, Held
  <2>3. CASE CopyDone(t)
    BY <2>3, CopyPage
  <2>4. CASE CopyFails(t)
    BY <2>4 DEF CopyFails, Held, Page
  <2>5. QED
    BY <2>1, <2>2, <2>3, <2>4
<1>3. ~ Working(task) /\ ~ Working(tasks[t]) /\ task.pc # "verify"
  BY <1>1 DEF Working
<1>4. Alone'
  BY <1>1, <1>2, <1>3, Moves
<1>5. QED
  BY <1>2, <1>4, OffersSame, OffersNone DEF SameOffer

LEMMA NextAlone ==
  ASSUME Held, Alone, [Next]_vars
  PROVE  Alone' /\ Offers
<1>1. ASSUME NEW t \in Tasks, Proceed(t) PROVE Alone' /\ Offers
  BY <1>1, ServeAlone, VerifyAlone, RevealAlone, FeedbackAlone DEF Proceed
<1>2. CASE Expire \/ UNCHANGED vars
  <2>1. page' = page /\ tasks' = tasks
    BY <1>2 DEF Expire, vars
  <2>2. QED
    BY <2>1, Stays, OffersSame DEF SameOffer
<1>3. CASE Load \/ ConfigLoaded \/ WidgetReady \/ BootFails \/ Callback
  BY <1>3, LoadAlone
<1>4. CASE \/ AskResult \/ LoggedIn
           \/ \E what \in {"preflight", "security"} : Acknowledge(what)
           \/ \E verdict \in {"shadowrocket_available", "shadowrocket_missing"} : JudgeTarget(verdict)
  BY <1>4, StepsAlone
<1>5. CASE Overlay \/ SignOut \/ FinishExitTwice \/ \E intent \in Intents : Choose(intent)
  BY <1>5, PageAlone
<1>6. CASE \E t \in Tasks :
             Verify(t) \/ JudgeLogin(t) \/ FinishExit(t) \/ RetryReveal(t) \/ RetryFeedback(t)
  BY <1>6, RequestAlone
<1>7. CASE \E t \in Tasks : \/ CopyUsername(t) \/ CopyPassword(t) \/ AccountEntered(t)
                            \/ CopyDone(t) \/ CopyFails(t)
  BY <1>7, CopyAlone
<1>8. QED
  BY <1>1, <1>2, <1>3, <1>4, <1>5, <1>6, <1>7 DEF Next

LEMMA InitAlone == Init => Alone
<1> SUFFICES ASSUME Init PROVE Alone
  OBVIOUS
<1>1. page.busy = FALSE /\ \A t \in Tasks : tasks[t].pc = "off"
  BY DEF Init, Blank, Idle
<1>2. \A t \in Tasks : ~ Working(tasks[t])
  BY <1>1 DEF Working
<1>3. OneAtATime
  BY <1>1, <1>2, AloneWorking
<1>4. QED
  BY <1>1, <1>3 DEF Alone

LEMMA AlwaysHeld == IInv => Held
BY DEF IInv, TypeOK, Held

-----------------------------------------------------------------------------
(* Theorems about the buttons *)

\* state.busy: the flag is up exactly while a task of the buttons runs, and never two of them
\* run, however many retries and copies run beside it.
THEOREM OneTask == Spec => []OneAtATime
<1>1. IInv /\ Alone /\ [Next]_vars => Alone'
  BY NextAlone, AlwaysHeld
<1>2. Alone => OneAtATime
  BY DEF Alone
<1>3. QED
  BY <1>1, <1>2, InitAlone, Invariance, PTL DEF Spec

\* submitFeedback: a verdict to be sent again is offered with the account it was given on, and
\* goes with it, for any number of requests and copies in flight.
THEOREM RetrySafety == Spec => RetriesSameAccount
<1>1. IInv /\ Alone /\ [Next]_vars => Alone'
  BY NextAlone, AlwaysHeld
<1>2. IInv /\ Alone /\ [Next]_vars =>
        [page'.account # None /\ page'.recovery \in Verdicts =>
           \/ page'.account = page.account /\ page'.recovery = page.recovery
           \/ \E t \in Tasks : OfferedBy(t)]_vars
  BY NextAlone, AlwaysHeld DEF Offers, SameOffer
<1>3. QED
  BY <1>1, <1>2, InitAlone, Invariance, PTL DEF Spec, RetriesSameAccount
=============================================================================
