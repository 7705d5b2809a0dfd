----------------------------- MODULE AutoCommit -----------------------------
(***************************************************************************)
(* How archive and add_session commit what they wrote: the paths they      *)
(* choose (common/safe_commit.py) and the git commands they run on them    *)
(* (_auto_commit_archive of common/task_store.py, _auto_commit_workspace   *)
(* of add_session.py).  Git is its three trees: the files, the index and   *)
(* the last commit.  Each git command is one step, and the commands of     *)
(* several windows interleave between them.                                *)
(***************************************************************************)
EXTENDS Naturals, FiniteSets

CONSTANTS
  Tasks,
  None,
  Procs,       \* the commands that may run at a time
  MaxEdits,    \* bound on the contents ever written
  Uses         \* the ways in which the commands are used

\* Which commands run, a bound on the contents they write, whether .gitignore lists
\* .trellis/, whether archive may be called with --no-commit, and the git commands that
\* may fail: lock held, hook, no identity.
Use == [procs : SUBSET Procs, edits : 1..MaxEdits, ignored : BOOLEAN, manual : BOOLEAN,
        faults : SUBSET {"list", "add", "rm", "commit"}]

\* What is assumed of the constants, where the module is instantiated.
AutoCommitAssumption ==
  /\ MaxEdits \in Nat \ {0}
  /\ None \notin Tasks \cup {"ok", "failed", "archive", "session"}
  /\ Uses \subseteq Use

\* A path stands for a whole task directory, or for the journal with its index.
Active(t) == <<"tasks", t>>
Archived(t) == <<"archive", t>>
Journal == <<"workspace", None>>

Paths == {Active(t) : t \in Tasks} \cup {Archived(t) : t \in Tasks} \cup {Journal}

\* A tree maps a path to the version of its contents.
Absent == 0
Trees == [Paths -> 0..MaxEdits]

VARIABLES
  use,      \* the way this behaviour uses them
  work,     \* the files
  index,    \* git's index
  head,     \* the last commit
  edits,    \* versions written so far
  proc,     \* process -> the command it runs
  told      \* task -> what its archive returned: None, "ok" or "failed"

vars == <<use, work, index, head, edits, proc, told>>

Process == [pc : {"idle", "list", "add", "rm", "diff", "commit"},
            cmd : {"archive", "session", None},
            t : Tasks \cup {None},        \* the archived task, or the current one
            kids : SUBSET Tasks,          \* the children archive wrote
            tracked : BOOLEAN,            \* source_was_tracked
            paths : SUBSET Paths]         \* paths, as the files they stand for

Idle == [pc |-> "idle", cmd |-> None, t |-> None, kids |-> {}, tracked |-> FALSE, paths |-> {}]

TypeOK ==
  /\ use \in Uses
  /\ work \in Trees /\ index \in Trees /\ head \in Trees
  /\ edits \in 1..MaxEdits
  /\ proc \in [Procs -> Process]
  /\ told \in [Tasks -> {None, "ok", "failed"}]

\* Any of the active tasks may be committed, and the rest be untracked.
Init ==
  /\ use \in Uses
  /\ edits = 1
  /\ work = [q \in Paths |-> IF \E t \in Tasks : q = Archived(t) THEN Absent ELSE 1]
  /\ \E known \in SUBSET {Active(t) : t \in Tasks} :
       head = [q \in Paths |-> IF q \in known \cup {Journal} THEN 1 ELSE Absent]
  /\ index = head
  /\ proc = [p \in Procs |-> Idle]
  /\ told = [t \in Tasks |-> None]

Step(p, pc) == proc' = [proc EXCEPT ![p].pc = pc]
Return(p) == proc' = [proc EXCEPT ![p] = Idle]

\* archive returns; only its result is kept.
Tell(p, ok) ==
  LET r == proc[p] IN
  told' = IF r.cmd = "archive" THEN [told EXCEPT ![r.t] = IF ok THEN "ok" ELSE "failed"]
                               ELSE told

-----------------------------------------------------------------------------
(* What is staged *)

ArchiveDir == {Archived(t) : t \in Tasks}

WidePaths(r) ==    \* mutant: the wide scope of before
  {ArchiveDir} \cup {{Active(t)} : t \in {u \in Tasks : work[Active(u)] # Absent}}

\* safe_archive_paths_to_add: the archive as a whole, and the children.
ArchivePaths(r) == {ArchiveDir} \cup {{Active(c)} : c \in r.kids}

\* safe_trellis_paths_to_add: the journal, and the current task while it is active.
\* An archived task is looked for in archive/ and not in its month: it is not found.
SessionPaths(r) ==
  {{Journal}} \cup {{Active(t)} : t \in {u \in {r.t} \ {None} : work[Active(u)] # Absent}}

Asked(r) == IF r.cmd = "archive" THEN ArchivePaths(r) ELSE SessionPaths(r)

\* What a command may put in its commit.
Own(r) ==
  IF r.cmd = "archive"
    THEN ArchiveDir \cup {Active(t) : t \in r.kids \cup {r.t}}
    ELSE {Journal} \cup {Active(t) : t \in {r.t} \ {None}}

-----------------------------------------------------------------------------
(* git *)

\* A path that is neither in the files nor in the index is a fatal error.
Matches(S) == \E q \in S : work[q] # Absent \/ index[q] # Absent

\* Under an ignored directory a directory is refused, and a file unless it is tracked.
Refused(S) == use.ignored /\ (S # {Journal} \/ index[Journal] = Absent)

\* git add: what is ignored and untracked is left out, the rest is staged.
Staged(S) ==
  [q \in Paths |->
     IF q \in S /\ ~ (use.ignored /\ index[q] = Absent) THEN work[q] ELSE index[q]]

Quiet(S) == \A q \in S : index[q] = head[q]

-----------------------------------------------------------------------------
(* The files change *)

\* Somebody edits a task in another window.
Edit(t) ==
  /\ edits < use.edits
  /\ work[Active(t)] # Absent
  /\ edits' = edits + 1
  /\ work' = [work EXCEPT ![Active(t)] = edits + 1]
  /\ UNCHANGED <<use, index, head, proc, told>>

\* archive has marked and moved the task and written its children (TaskStore).
Archive(p) ==
  \E t \in Tasks, C \in SUBSET Tasks :
    /\ proc[p].pc = "idle"
    /\ edits < use.edits
    /\ t \notin C
    /\ \A u \in C \cup {t} : work[Active(u)] # Absent
    /\ edits' = edits + 1
    /\ work' = [q \in Paths |->
                  IF q = Active(t) THEN Absent
                  ELSE IF q = Archived(t) \/ \E c \in C : q = Active(c) THEN edits + 1
                  ELSE work[q]]
    /\ proc' = [proc EXCEPT ![p] = [Idle EXCEPT !.pc = "list", !.cmd = "archive",
                                                !.t = t, !.kids = C]]
    /\ UNCHANGED <<use, index, head, told>>

\* With --no-commit, or session_auto_commit: false, archive ends here.
LeaveAlone(p) ==
  /\ use.manual
  /\ proc[p].pc = "list"
  /\ Return(p)
  /\ UNCHANGED <<use, work, index, head, edits, told>>

\* add_session has written the journal; the current task may not be known.
AddSession(p) ==
  \E t \in Tasks \cup {None} :
    /\ proc[p].pc = "idle"
    /\ edits < use.edits
    /\ edits' = edits + 1
    /\ work' = [work EXCEPT ![Journal] = edits + 1]
    /\ proc' = [proc EXCEPT ![p] = [Idle EXCEPT !.pc = "add", !.cmd = "session", !.t = t]]
    /\ UNCHANGED <<use, index, head, told>>

-----------------------------------------------------------------------------
(* The git commands *)

SkipList(p) ==    \* mutant: nothing is asked, as if the source had been untracked
  /\ proc[p].pc = "list"
  /\ Step(p, "add")
  /\ UNCHANGED <<use, work, index, head, edits, told>>

\* git ls-files: was the source tracked?  When it fails that counts as no.
ListFiles(p) ==
  LET r == proc[p] IN
  /\ r.pc = "list"
  /\ \/ proc' = [proc EXCEPT ![p] = [r EXCEPT !.pc = "add",
                                              !.tracked = index[Active(r.t)] # Absent]]
     \/ "list" \in use.faults /\ Step(p, "add")
  /\ UNCHANGED <<use, work, index, head, edits, told>>

\* git add on the chosen paths.
Add(p) ==
  LET r == proc[p] IN
  /\ r.pc = "add"
  /\ \A S \in Asked(r) : Matches(S)
  /\ \A S \in Asked(r) : ~ Refused(S)
  /\ index' = Staged(UNION Asked(r))
  /\ proc' = [proc EXCEPT ![p] = [r EXCEPT !.pc = IF r.cmd = "archive" THEN "rm" ELSE "diff",
                                           !.paths = UNION Asked(r)]]
  /\ UNCHANGED <<use, work, head, edits, told>>

\* A failed add ends the command; archive fails if there was a source to delete.
AddFails(p) ==
  LET r == proc[p] IN
  /\ r.pc = "add"
  /\ \/ /\ "add" \in use.faults \/ \E S \in Asked(r) : ~ Matches(S)
        /\ UNCHANGED index
     \/ /\ \A S \in Asked(r) : Matches(S)
        /\ \E S \in Asked(r) : Refused(S)
        /\ index' = Staged(UNION Asked(r))
  /\ Tell(p, ~ r.tracked)
  /\ Return(p)
  /\ UNCHANGED <<use, work, head, edits>>

KeepSource(p) ==    \* mutant: no git rm
  /\ proc[p].pc = "rm"
  /\ Step(p, "diff")
  /\ UNCHANGED <<use, work, index, head, edits, told>>

\* git rm --cached of the source.  Its result is not looked at.
Remove(p) ==
  /\ proc[p].pc = "rm"
  /\ \/ index' = [index EXCEPT ![Active(proc[p].t)] = Absent]
     \/ "rm" \in use.faults /\ UNCHANGED index
  /\ Step(p, "diff")
  /\ UNCHANGED <<use, work, head, edits, told>>

\* git diff --cached --quiet: nothing to commit for these paths is a success.
Diff(p) ==
  LET r == proc[p]
      looked == r.paths \cup (IF r.cmd = "archive" THEN {Active(r.t)} ELSE {}) IN
  /\ r.pc = "diff"
  /\ IF Quiet(looked) THEN Return(p) /\ Tell(p, TRUE)
                      ELSE Step(p, "commit") /\ UNCHANGED told
  /\ UNCHANGED <<use, work, index, head, edits>>

\* git commit, of everything in the index.
Commit(p) ==
  /\ proc[p].pc = "commit"
  /\ index # head
  /\ head' = index
  /\ Tell(p, TRUE)
  /\ Return(p)
  /\ UNCHANGED <<use, work, index, edits>>

\* A commit also fails when there is nothing left to commit.
CommitFails(p) ==
  /\ proc[p].pc = "commit"
  /\ "commit" \in use.faults \/ index = head
  /\ Tell(p, ~ proc[p].tracked)
  /\ Return(p)
  /\ UNCHANGED <<use, work, index, head, edits>>

Next ==
  \/ \E t \in Tasks : Edit(t)
  \/ \E p \in use.procs :
       \/ Archive(p) \/ LeaveAlone(p) \/ AddSession(p)
       \/ ListFiles(p) \/ Add(p) \/ AddFails(p) \/ Remove(p)
       \/ Diff(p) \/ Commit(p) \/ CommitFails(p)

Spec == Init /\ [][Next]_vars

-----------------------------------------------------------------------------
(* What the commits promise *)

OneAtATime == \A p, q \in use.procs : p = q
AtMostTwo == \A p, q, o \in use.procs : p = q \/ q = o \/ o = p

\* An archive that returned success has left nothing of the task's old directory in
\* the last commit: when two of them commit for each other and, one command at a time,
\* when add or commit fails, or ls-files alone does.  (After a failed ls-files a failed
\* add or commit is a success too, and a failed git rm always: nobody looks at it.)
OkMeansSourceGone ==
  (\/ OneAtATime /\ use.faults \subseteq {"add", "commit"}
   \/ OneAtATime /\ use.faults \subseteq {"list"} /\ ~ use.ignored
   \/ AtMostTwo /\ use.faults = {} /\ ~ use.ignored)
  => \A t \in Tasks : told[t] = "ok" => head[Active(t)] = Absent

\* "stage the deletions in this same commit": no commit holds a task both in tasks/
\* and in the archive, where its deletion would be left for something later.
HeadHasTaskOnce ==
  OneAtATime /\ use.faults \subseteq {"list", "commit"} /\ ~ use.ignored /\ ~ use.manual =>
    \A t \in Tasks : head[Active(t)] = Absent \/ head[Archived(t)] = Absent

\* safe_commit.py: what other windows changed in their tasks is not bundled into the
\* commit: it changes only the paths of the command that made it.
KeepsToItsScope ==
  OneAtATime /\ "commit" \notin use.faults /\ ~ use.ignored =>
    \A p \in use.procs :
      proc[p].pc = "commit" /\ head' # head /\ proc'[p] = Idle
        => \A q \in Paths \ Own(proc[p]) : head'[q] = head[q]

=============================================================================
