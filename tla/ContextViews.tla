----------------------------- MODULE ContextViews -----------------------------
(***************************************************************************)
(* What the agent is told of a project: the four views get_context.py      *)
(* prints (common/session_context.py), the summary of the hook             *)
(* session-start.py, the repositories that are looked into and the branch  *)
(* a session is recorded under (add_session.py).  The views count, filter  *)
(* and follow the same task.json files on their own.                       *)
(***************************************************************************)
EXTENDS Naturals, Sequences, FiniteSets, Functions

CONSTANTS Limit,      \* lines of a journal above which the agent is warned
          Depth       \* levels of directories that are searched for repositories

None == "none"

\* What a pointer may name instead of a task: a directory that is gone, and one whose
\* task.json cannot be read.
Gone == "gone"
Torn == "torn"

\* A project: its developer or none; the active tasks with a readable task.json, each
\* with its status, assignee, parent and children; the pointer of the session, if there is
\* one; the lines of its newest journal, 0 without one.
Project(developer, tasks, pointer, journal) ==
  [developer |-> developer, tasks |-> tasks, pointer |-> pointer, journal |-> journal]

Task(status, assignee, parent, children) ==
  [status |-> status, assignee |-> assignee, parent |-> parent, children |-> children]

Active(p) == DOMAIN p.tasks

Finished(status) == status \in {"completed", "done"}

DoneAmongActive(p, t) ==    \* mutant: an archived child counts for nothing
  Cardinality({c \in p.tasks[t].children : c \in Active(p) /\ Finished(p.tasks[c].status)})

\* children_progress: what is not among the active tasks has been archived.
Progress(p, t) ==
  Cardinality({c \in p.tasks[t].children : c \in Active(p) => Finished(p.tasks[c].status)})

\* childrenDone of the record, which asks for the status only.
ChildrenDone(p, t) ==
  Cardinality({c \in p.tasks[t].children \cap Active(p) : Finished(p.tasks[c].status)})

\* _print_task_tree, from the tasks without a parent: how often each task is printed at
\* each level of indentation.
Printed(p) ==
  LET level[n \in 0..Cardinality(Active(p))] ==
        [t \in Active(p) |->
          IF n = 0 THEN IF p.tasks[t].parent = None THEN 1 ELSE 0
          ELSE LET above == {a \in Active(p) : t \in p.tasks[a].children} IN
               SumFunctionOnSet(level[n - 1], above)]
  IN level

\* The recursion has no bound of its own: it never ends if it goes deeper than there are
\* tasks.
Endless(p) == \E t \in Active(p) : Printed(p)[Cardinality(Active(p))][t] > 0

Times(p, t) == SumFunction([n \in 0..Cardinality(Active(p)) |-> Printed(p)[n][t]])

NearLimit(lines) == lines > Limit

-----------------------------------------------------------------------------
(* The views *)

\* load_task of the current task.
Current(p) == IF p.pointer \in Active(p) THEN p.pointer ELSE None

Mine(p) == {t \in Active(p) : p.tasks[t].assignee = p.developer}

\* get_context_json
Json(p) ==
  LET lines == IF p.developer = None THEN 0 ELSE p.journal IN
  [tasks |-> Active(p), lines |-> lines, nearLimit |-> NearLimit(lines)]

NoView == [developer |-> None]

\* get_context_text; without a developer there is an error instead.
Text(p) ==
  IF p.developer = None THEN NoView
  ELSE [developer |-> p.developer,
        printed |-> {t \in Active(p) : Times(p, t) > 0},
        total |-> SumFunction([t \in Active(p) |-> Times(p, t)]),
        mine |-> {t \in Mine(p) : p.tasks[t].status # "done"},
        path |-> p.pointer, named |-> Current(p),
        warns |-> NearLimit(p.journal)]

\* get_context_record_json
RecordJson(p) ==
  [mine |-> [t \in Mine(p) |-> ChildrenDone(p, t)], current |-> Current(p)]

\* get_context_text_record
RecordText(p) ==
  IF p.developer = None THEN NoView
  ELSE [developer |-> p.developer, mine |-> [t \in Mine(p) |-> Progress(p, t)],
        path |-> p.pointer, named |-> Current(p)]

\* _build_compact_current_state of the hook.
Compact(p) ==
  [total |-> Cardinality(Active(p)), path |-> p.pointer,
   status |-> IF Current(p) = None THEN "unknown" ELSE p.tasks[p.pointer].status]

\* _get_task_status of the hook, which also asks for the files of a task.
TaskStatus(p, files) ==
  LET status == IF Current(p) = None THEN "unknown" ELSE p.tasks[p.pointer].status IN
  IF p.pointer = None THEN "no task"
  ELSE IF p.pointer = Gone THEN "stale"
  ELSE IF status = "completed" THEN "completed"
  ELSE IF "prd.md" \notin files THEN "planning"
  ELSE status

-----------------------------------------------------------------------------
(* Repositories *)

\* A layout: whether the root is in a work tree, the directories below it as paths, those
\* that hold a .git, the names that are passed over, and the packages configured with
\* git: true, as paths.
Parent(d) == [n \in 1..(Len(d) - 1) |-> d[n]]

\* _discover_child_git_repos: not below a repository, not deeper than Depth, and not at
\* all when there is only one.
Discovered(l) ==
  LET repos == {d \in l.dirs :
                  /\ Len(d) <= Depth
                  /\ \A n \in 1..Len(d) : d[n] \notin l.ignored
                  /\ d \in l.git
                  /\ \A n \in 1..(Len(d) - 1) : [i \in 1..n |-> d[i]] \notin l.git}
  IN IF Cardinality(repos) < 2 THEN {} ELSE repos

\* _collect_git_repo_info, for each package; then for what is discovered, if the root
\* is no work tree and no package has a repository.
PackageRepos(l) ==
  LET configured == l.packages \cap l.git IN
  IF configured # {} \/ l.isRepo THEN configured ELSE Discovered(l)

\* _collect_root_git_info
RootClean(l) == l.isRepo /\ l.changes = 0

-----------------------------------------------------------------------------
(* The branch of a session *)

\* resolve_session_branch: the one asked for, the task's if there is such a branch here
\* or at origin, else the one checked out, none when detached.
SessionBranch(asked, task, current, branches) ==
  IF asked # None THEN asked
  ELSE IF task # None /\ task \in branches THEN task
  ELSE current

-----------------------------------------------------------------------------
(* What the views promise *)

\* The links of the tasks agree, both ways; a child may have been archived.
LinksAgree(p) ==
  \A t \in Active(p) :
    /\ p.tasks[t].parent # None =>
         p.tasks[t].parent \in Active(p) /\ t \in p.tasks[p.tasks[t].parent].children
    /\ \A c \in p.tasks[t].children \cap Active(p) : p.tasks[c].parent = t

\* The tasks of rings and what is below them: from them no task without a parent is met.
Hidden(p) ==
  LET up[n \in 0..Cardinality(Active(p))] ==
        [t \in Active(p) |->
          IF n = 0 \/ p.tasks[t].parent = None THEN t ELSE up[n - 1][p.tasks[t].parent]]
  IN {t \in Active(p) : p.tasks[up[Cardinality(Active(p))][t]].parent # None}

\* Every task the JSON view lists is printed once by the text view, unless a ring hides
\* it, and the totals say so.
PrintedOnce(p) ==
  LinksAgree(p) =>
    /\ ~ Endless(p)
    /\ \A t \in Active(p) : Times(p, t) <= 1
    /\ p.developer # None =>
         /\ Text(p).printed = Json(p).tasks \ Hidden(p)
         /\ Text(p).total + Cardinality(Hidden(p)) = Compact(p).total

\* Of a developer's own tasks the views differ by those with status done, and on how far
\* each one is by its archived children.
SameTasks(p) ==
  p.developer # None =>
    LET text == RecordText(p).mine
        json == RecordJson(p).mine
        gone(t) == Cardinality(p.tasks[t].children \ Active(p))
    IN /\ DOMAIN text = DOMAIN json
       /\ \A t \in DOMAIN text : text[t] = json[t] + gone(t) /\ text[t] <= Cardinality(p.tasks[t].children)
       /\ DOMAIN text \ Text(p).mine = {t \in Mine(p) : p.tasks[t].status = "done"}

\* The current task is named by all or by none, all warn of a journal or none does, and
\* the hook calls a task stale, planned, or what the other views call it.
SameState(p, files) ==
  p.developer # None =>
    /\ Text(p).named = RecordJson(p).current /\ RecordText(p).named = Text(p).named
    /\ Text(p).warns = Json(p).nearLimit
    /\ Text(p).path # None /\ Text(p).named = None <=> p.pointer \in {Gone, Torn}
    /\ TaskStatus(p, files) = "stale" => Text(p).named = None
    /\ TaskStatus(p, files) \in {"stale", "no task", "planning", Compact(p).status}

\* Repositories that are discovered lie in no other one and are at least two; a root
\* that is no work tree is never called clean.
ReposSound(l) ==
  /\ \A d \in PackageRepos(l) : d \in l.git
  /\ ~ l.isRepo => ~ RootClean(l)
  /\ l.packages \cap l.git = {} /\ PackageRepos(l) # {} =>
       /\ Cardinality(PackageRepos(l)) > 1
       /\ \A d \in PackageRepos(l) : Parent(d) \notin PackageRepos(l)

\* A session is recorded under the branch asked for, under one that exists or is checked
\* out, or under none.
BranchExists(asked, task, current, branches) ==
  SessionBranch(asked, task, current, branches) \in branches \cup {asked, current}
=============================================================================
