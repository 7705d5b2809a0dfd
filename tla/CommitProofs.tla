---------------------------- MODULE CommitProofs ----------------------------
(***************************************************************************)
(* What archive and add_session commit, for any number of tasks and of     *)
(* commands: no commit has a task in two places, a commit changes the      *)
(* paths of its own command only, and an archive that reported success     *)
(* left nothing of its source behind (common/safe_commit.py,               *)
(* common/task_store.py).  The module AutoCommit is reached through its    *)
(* instance in MCWorkflow, whose variables for it are way, work, index,    *)
(* head, edits, git and told.                                              *)
(***************************************************************************)
EXTENDS MCWorkflow, TLAPS

-----------------------------------------------------------------------------
(* Paths and types *)

\* The two places of a task, and what they hold when they are not there.
Src(t) == Commit!Active(t)
Dst(t) == Commit!Archived(t)
Absent == Commit!Absent

\* Different tasks have different paths, and each has two.
LEMMA PathsApart ==
  /\ Absent = 0
  /\ \A t \in Tasks : Src(t) \in Commit!Paths /\ Dst(t) \in Commit!Paths
  /\ Commit!Journal \in Commit!Paths
  /\ \A t, u \in Tasks : (Src(t) = Src(u) => t = u) /\ (Dst(t) = Dst(u) => t = u)
  /\ \A t, u \in Tasks : Src(t) # Dst(u)
  /\ \A t \in Tasks : Src(t) # Commit!Journal /\ Dst(t) # Commit!Journal
  BY DEF Absent, Src, Dst, Commit!Absent, Commit!Active, Commit!Archived, Commit!Journal,
     Commit!Paths

\* There are no other paths.
LEMMA PathKinds ==
  ASSUME NEW q \in Commit!Paths
  PROVE  (\E t \in Tasks : q = Src(t)) \/ (\E t \in Tasks : q = Dst(t)) \/ q = Commit!Journal
  BY DEF Src, Dst, Commit!Paths

Typed == Commit!TypeOK

\* What the type invariant says of each variable.
LEMMA TypedFacts ==
  ASSUME Typed
  PROVE  /\ way.procs \subseteq Pairs /\ way.edits \in 1..MaxEdits /\ way \in CommitUses
         /\ way.faults \subseteq {"list", "add", "rm", "commit"}
         /\ work \in [Commit!Paths -> 0..MaxEdits]
         /\ index \in [Commit!Paths -> 0..MaxEdits]
         /\ head \in [Commit!Paths -> 0..MaxEdits]
         /\ edits \in 1..MaxEdits /\ MaxEdits \in Nat \ {0}
         /\ told \in [Tasks -> {None, "ok", "failed"}]
         /\ git \in [Pairs -> Commit!Process]
         /\ \A p \in Pairs : git[p] \in Commit!Process
         /\ None \notin Tasks \cup {"ok", "failed", "archive", "session"}
  BY CommitAssumption DEF Typed, Commit!TypeOK, Commit!Use, Commit!Trees, Commit!AutoCommitAssumption

\* A command that does not run.
LEMMA IdleTyped == /\ Commit!Idle \in Commit!Process
                   /\ Commit!Idle.pc = "idle" /\ Commit!Idle.cmd = None /\ Commit!Idle.paths = {}
  BY DEF Commit!Idle, Commit!Process

\* What a step of the command p to the record r leaves to be shown for the types.
LEMMA MoveTyped ==
  ASSUME Typed, NEW p \in way.procs, NEW r \in Commit!Process, git' = [git EXCEPT ![p] = r],
         UNCHANGED way, work' \in Commit!Trees, index' \in Commit!Trees, head' \in Commit!Trees,
         edits' \in 1..MaxEdits, told' \in [Tasks -> {None, "ok", "failed"}]
  PROVE  Typed' /\ git'[p] = r /\ \A q \in Pairs : q # p => git'[q] = git[q]
  BY TypedFacts DEF Typed, Commit!TypeOK

\* A step of p ends at r, and leaves the other commands alone.
Moves(p, r) ==
  /\ r \in Commit!Process
  /\ git'[p] = r
  /\ \A q \in Pairs : q # p => git'[q] = git[q]
  /\ UNCHANGED way

\* The three trees are trees.
LEMMA SameTrees ==
  ASSUME Typed
  PROVE  work \in Commit!Trees /\ index \in Commit!Trees /\ head \in Commit!Trees
  BY DEF Typed, Commit!TypeOK

\* What archive returns changes only what is told of its task.
LEMMA ToldTyped ==
  ASSUME Typed, NEW p \in way.procs, NEW ok, Commit!Tell(p, ok),
         git[p].cmd = "archive" => git[p].t \in Tasks
  PROVE  /\ told' \in [Tasks -> {None, "ok", "failed"}]
         /\ \A t \in Tasks : told'[t] = "ok" =>
              told[t] = "ok" \/ (ok /\ git[p].cmd = "archive" /\ git[p].t = t)
  BY TypedFacts DEF Commit!Tell

\* git add: the index has for a path what it had, or what the files have.
LEMMA StagedTyped ==
  ASSUME Typed, NEW S
  PROVE  /\ Commit!Staged(S) \in Commit!Trees
         /\ \A q \in Commit!Paths : Commit!Staged(S)[q] \in {index[q], work[q]}
         /\ \A q \in Commit!Paths \ S : Commit!Staged(S)[q] = index[q]
         /\ ~ way.ignored => \A q \in Commit!Paths \cap S : Commit!Staged(S)[q] = work[q]
  BY TypedFacts DEF Commit!Staged, Commit!Trees

\* What a command asks git to add is its own.
LEMMA AskedPaths ==
  ASSUME Typed, NEW r \in Commit!Process, r.cmd = "archive" => r.t \in Tasks
  PROVE  /\ UNION Commit!Asked(r) \subseteq Commit!Own(r) \cap Commit!Paths
         /\ r.cmd = "archive" => UNION Commit!Asked(r) = Commit!ArchiveDir \cup {Src(c) : c \in r.kids}
         /\ r.cmd # "archive" => \A t \in Tasks : Src(t) \in UNION Commit!Asked(r) => work[Src(t)] # Absent
  <1>1. CASE r.cmd = "archive"
    <2>1. Commit!Asked(r) = {Commit!ArchiveDir} \cup {{Src(c)} : c \in r.kids}
      BY <1>1 DEF Commit!Asked, Commit!ArchivePaths, Src
    <2>2. UNION Commit!Asked(r) = Commit!ArchiveDir \cup {Src(c) : c \in r.kids}
      BY <2>1
    <2>3. r.kids \subseteq Tasks
      BY DEF Commit!Process
    <2> QED
      BY <1>1, <2>2, <2>3 DEF Commit!Own, Commit!ArchiveDir, Commit!Paths, Src
  <1>2. CASE r.cmd # "archive"
    <2>1. UNION Commit!Asked(r) = {Commit!Journal} \cup {Src(t) : t \in {u \in {r.t} \ {None} : work[Src(u)] # Absent}}
      BY <1>2 DEF Commit!Asked, Commit!SessionPaths, Src, Absent
    <2>2. r.t \in Tasks \cup {None}
      BY DEF Commit!Process
    <2> QED
      BY <1>2, <2>1, <2>2, PathsApart DEF Commit!Own, Src
  <1> QED
    BY <1>1, <1>2

-----------------------------------------------------------------------------
(* What the steps do *)

\* What a command has at each of its steps.
Fit(r) ==
  /\ r.pc = "idle" => r.cmd = None
  /\ r.pc \in {"list", "rm"} => r.cmd = "archive"
  /\ r.cmd = "archive" => r.t \in Tasks /\ r.t \notin r.kids
  /\ r.paths \subseteq Commit!Own(r)
  /\ r.cmd = "archive" /\ r.pc \in {"rm", "diff", "commit"} =>
       r.paths = Commit!ArchiveDir \cup {Src(c) : c \in r.kids}

IdleNow(p) == Moves(p, Commit!Idle)

\* p goes on to pc, its other fields being kept.
Goes(p, pc) ==
  \E r : /\ Moves(p, r) /\ r.pc = pc /\ r.cmd = git[p].cmd /\ r.t = git[p].t
         /\ r.kids = git[p].kids /\ r.tracked = git[p].tracked /\ r.paths = git[p].paths

\* A step that changes nothing of its command but where it is.
LEMMA GoesOn ==
  ASSUME Typed, NEW p \in way.procs, NEW pc \in {"idle", "list", "add", "rm", "diff", "commit"},
         Commit!Step(p, pc), UNCHANGED <<way, work, head, edits, told>>, index' \in Commit!Trees
  PROVE  Typed' /\ Goes(p, pc)
  <1>1. p \in Pairs /\ git[p] \in Commit!Process
    BY TypedFacts
  <1>2. PICK r : r = [git[p] EXCEPT !.pc = pc]
    OBVIOUS
  <1>3. r \in Commit!Process
    BY <1>1, <1>2 DEF Commit!Process
  <1>4. git' = [git EXCEPT ![p] = r]
    BY <1>1, <1>2, TypedFacts DEF Commit!Step
  <1>5. work' \in Commit!Trees /\ head' \in Commit!Trees /\ edits' \in 1..MaxEdits
        /\ told' \in [Tasks -> {None, "ok", "failed"}]
    BY SameTrees, TypedFacts
  <1>6. Typed' /\ Moves(p, r)
    BY <1>1, <1>3, <1>4, <1>5, MoveTyped DEF Moves
  <1>7. /\ r.pc = pc /\ r.cmd = git[p].cmd /\ r.t = git[p].t
        /\ r.kids = git[p].kids /\ r.tracked = git[p].tracked /\ r.paths = git[p].paths
    BY <1>1, <1>2 DEF Commit!Process
  <1> QED
    BY <1>6, <1>7 DEF Goes

\* A step with which a command ends.
LEMMA Returns ==
  ASSUME Typed, NEW p \in way.procs, Commit!Return(p), UNCHANGED <<way, work, edits>>,
         index' \in Commit!Trees, head' \in Commit!Trees,
         told' \in [Tasks -> {None, "ok", "failed"}]
  PROVE  Typed' /\ IdleNow(p)
  <1>1. git' = [git EXCEPT ![p] = Commit!Idle] /\ work' \in Commit!Trees /\ edits' \in 1..MaxEdits
    BY SameTrees, TypedFacts DEF Commit!Return
  <1> QED
    BY <1>1, IdleTyped, MoveTyped DEF Moves, IdleNow

\* An edit of another window changes the files of one active task.
LEMMA EditFacts ==
  ASSUME Typed, NEW t \in Tasks, Commit!Edit(t)
  PROVE  /\ Typed' /\ UNCHANGED <<way, index, head, git, told>>
         /\ work[Src(t)] # Absent /\ work'[Src(t)] # Absent
         /\ \A q \in Commit!Paths : q # Src(t) => work'[q] = work[q]
  <1>1. edits' \in 1..MaxEdits /\ edits' = edits + 1 /\ edits' # 0
    BY TypedFacts DEF Commit!Edit
  <1>2. work' = [work EXCEPT ![Src(t)] = edits'] /\ Src(t) \in Commit!Paths
    BY <1>1, PathsApart DEF Commit!Edit, Src
  <1>3. work' \in Commit!Trees
    BY <1>1, <1>2, TypedFacts DEF Commit!Trees
  <1>4. UNCHANGED <<way, index, head, git, told>> /\ work[Src(t)] # Absent
    BY DEF Commit!Edit, Src, Absent
  <1> QED
    BY <1>1, <1>2, <1>3, <1>4, TypedFacts, PathsApart DEF Typed, Commit!TypeOK

\* archive has moved its task and written the children.
MovedAway(p, r) ==
  /\ Moves(p, r) /\ r.pc = "list" /\ r.cmd = "archive" /\ r.t \in Tasks
  /\ r.kids \subseteq Tasks /\ r.t \notin r.kids /\ ~ r.tracked /\ r.paths = {}
  /\ \A u \in r.kids \cup {r.t} : work[Src(u)] # Absent
  /\ work'[Src(r.t)] = Absent /\ work'[Dst(r.t)] # Absent
  /\ \A u \in r.kids : work'[Src(u)] # Absent
  /\ \A q \in Commit!Paths : q \notin {Src(r.t), Dst(r.t)} \cup {Src(u) : u \in r.kids} =>
       work'[q] = work[q]

\* archive has moved its task before the first git command.
LEMMA ArchiveFacts ==
  ASSUME Typed, NEW p \in way.procs, Commit!Archive(p)
  PROVE  /\ Typed' /\ UNCHANGED <<way, index, head, told>> /\ git[p].pc = "idle"
         /\ \E r : MovedAway(p, r)
  <1>1. PICK t \in Tasks, C \in SUBSET Tasks :
          /\ git[p].pc = "idle" /\ edits < way.edits /\ t \notin C
          /\ \A u \in C \cup {t} : work[Src(u)] # Absent
          /\ edits' = edits + 1
          /\ work' = [q \in Commit!Paths |->
                        IF q = Src(t) THEN Absent
                        ELSE IF q = Dst(t) \/ \E c \in C : q = Src(c) THEN edits + 1
                        ELSE work[q]]
          /\ git' = [git EXCEPT ![p] = [Commit!Idle EXCEPT !.pc = "list", !.cmd = "archive",
                                                            !.t = t, !.kids = C]]
          /\ UNCHANGED <<way, index, head, told>>
    BY DEF Commit!Archive, Src, Dst, Absent
  <1>2. edits' \in 1..MaxEdits /\ edits' # 0
    BY <1>1, TypedFacts
  <1>3. work' \in Commit!Trees
    BY <1>1, <1>2, TypedFacts, PathsApart DEF Commit!Trees
  <1>4. work'[Src(t)] = Absent /\ work'[Dst(t)] # Absent
    BY <1>1, <1>2, PathsApart
  <1>5. \A u \in C : work'[Src(u)] # Absent
    BY <1>1, <1>2, PathsApart
  <1>6. \A q \in Commit!Paths : q \notin {Src(t), Dst(t)} \cup {Src(u) : u \in C} => work'[q] = work[q]
    BY <1>1
  <1>7. PICK r : r = [Commit!Idle EXCEPT !.pc = "list", !.cmd = "archive", !.t = t, !.kids = C]
    OBVIOUS
  <1>8. r \in Commit!Process
    BY <1>7 DEF Commit!Idle, Commit!Process
  <1>9. r.pc = "list" /\ r.cmd = "archive" /\ r.t = t /\ r.kids = C /\ ~ r.tracked /\ r.paths = {}
    BY <1>7 DEF Commit!Idle
  <1>10. Typed' /\ Moves(p, r)
    BY <1>1, <1>2, <1>3, <1>7, <1>8, MoveTyped, SameTrees, TypedFacts DEF Moves
  <1>11. MovedAway(p, r)
    BY <1>1, <1>4, <1>5, <1>6, <1>9, <1>10 DEF MovedAway
  <1> QED
    BY <1>1, <1>10, <1>11

\* An archive that is not committed changes nothing.
LEMMA LeaveAloneFacts ==
  ASSUME Typed, NEW p \in way.procs, Commit!LeaveAlone(p)
  PROVE  /\ Typed' /\ IdleNow(p) /\ UNCHANGED <<way, work, index, head, told>>
         /\ way.manual /\ git[p].pc = "list"
  BY Returns, SameTrees, TypedFacts DEF Commit!LeaveAlone

\* add_session has written the journal, and no task.
LEMMA AddSessionFacts ==
  ASSUME Typed, NEW p \in way.procs, Commit!AddSession(p)
  PROVE  /\ Typed' /\ UNCHANGED <<way, index, head, told>> /\ git[p].pc = "idle"
         /\ \A q \in Commit!Paths : q # Commit!Journal => work'[q] = work[q]
         /\ \E r : Moves(p, r) /\ r.pc = "add" /\ r.cmd = "session" /\ r.paths = {}
  <1>1. PICK t \in Tasks \cup {None} :
          /\ git[p].pc = "idle" /\ edits < way.edits /\ edits' = edits + 1
          /\ work' = [work EXCEPT ![Commit!Journal] = edits + 1]
          /\ git' = [git EXCEPT ![p] = [Commit!Idle EXCEPT !.pc = "add", !.cmd = "session", !.t = t]]
          /\ UNCHANGED <<way, index, head, told>>
    BY DEF Commit!AddSession
  <1>2. edits' \in 1..MaxEdits /\ work' = [work EXCEPT ![Commit!Journal] = edits']
    BY <1>1, TypedFacts
  <1>3. work' \in Commit!Trees
    BY <1>2, TypedFacts, PathsApart DEF Commit!Trees
  <1>4. PICK r : r = [Commit!Idle EXCEPT !.pc = "add", !.cmd = "session", !.t = t]
    OBVIOUS
  <1>5. r \in Commit!Process
    BY <1>4 DEF Commit!Idle, Commit!Process
  <1>6. r.pc = "add" /\ r.cmd = "session" /\ r.paths = {}
    BY <1>4 DEF Commit!Idle
  <1>7. Typed' /\ Moves(p, r)
    BY <1>1, <1>2, <1>3, <1>4, <1>5, MoveTyped, SameTrees, TypedFacts DEF Moves
  <1>8. \A q \in Commit!Paths : q # Commit!Journal => work'[q] = work[q]
    BY <1>1, TypedFacts
  <1> QED
    BY <1>1, <1>6, <1>7, <1>8

\* git ls-files tells whether the index has the source, unless it fails.
LEMMA ListFilesFacts ==
  ASSUME Typed, NEW p \in way.procs, Commit!ListFiles(p)
  PROVE  /\ Typed' /\ UNCHANGED <<way, work, index, head, told>> /\ git[p].pc = "list"
         /\ \E r : /\ Moves(p, r) /\ r.pc = "add" /\ r.cmd = git[p].cmd /\ r.t = git[p].t
                   /\ r.kids = git[p].kids /\ r.paths = git[p].paths
                   /\ "list" \notin way.faults => (r.tracked <=> index[Src(git[p].t)] # Absent)
  <1>1. /\ p \in Pairs /\ git[p] \in Commit!Process
        /\ UNCHANGED <<way, work, index, head, edits, told>> /\ git[p].pc = "list"
    BY TypedFacts DEF Commit!ListFiles
  <1>0. CASE Commit!Step(p, "add") /\ "list" \in way.faults
    <2>1. Typed' /\ Goes(p, "add")
      BY <1>0, <1>1, GoesOn, SameTrees
    <2> QED
      BY <1>0, <1>1, <2>1 DEF Goes
  <1>2. PICK tracked \in BOOLEAN : tracked <=> index[Src(git[p].t)] # Absent
    <2>1. (index[Src(git[p].t)] # Absent) \in BOOLEAN
      OBVIOUS
    <2> QED
      BY <2>1
  <1>3. PICK r : r = [git[p] EXCEPT !.pc = "add", !.tracked = tracked]
    OBVIOUS
  <1>4. r \in Commit!Process
    BY <1>1, <1>3 DEF Commit!Process
  <1>5. r.pc = "add" /\ r.cmd = git[p].cmd /\ r.t = git[p].t /\ r.kids = git[p].kids
        /\ r.paths = git[p].paths
    BY <1>1, <1>3 DEF Commit!Process
  <1>6. r.tracked <=> index[Src(git[p].t)] # Absent
    BY <1>1, <1>2, <1>3 DEF Commit!Process
  <1>7. \/ git' = [git EXCEPT ![p] = r]
        \/ Commit!Step(p, "add") /\ "list" \in way.faults
    BY <1>2, <1>3 DEF Commit!ListFiles, Src, Absent
  <1>8. CASE git' = [git EXCEPT ![p] = r]
    <2>1. Typed' /\ Moves(p, r)
      BY <1>1, <1>4, <1>8, MoveTyped, SameTrees, TypedFacts DEF Moves
    <2> QED
      BY <1>1, <1>5, <1>6, <2>1
  <1> QED
    BY <1>0, <1>7, <1>8

\* The index after git add.
Restaged(p) ==
  /\ \A q \in Commit!Paths : index'[q] \in {index[q], work[q]}
  /\ \A q \in Commit!Paths \ UNION Commit!Asked(git[p]) : index'[q] = index[q]
  /\ ~ way.ignored => \A q \in UNION Commit!Asked(git[p]) : index'[q] = work[q]

\* The index that git add leaves has its type.
LEMMA StagingFacts ==
  ASSUME Typed, NEW p \in way.procs, Fit(git[p]), index' = Commit!Staged(UNION Commit!Asked(git[p]))
  PROVE  index' \in Commit!Trees /\ Restaged(p)
  BY StagedTyped, AskedPaths, TypedFacts DEF Restaged, Fit

\* git add stages what was asked for, and the command remembers the paths.
LEMMA AddFacts ==
  ASSUME Typed, NEW p \in way.procs, Fit(git[p]), Commit!Add(p)
  PROVE  /\ Typed' /\ UNCHANGED <<way, work, head, told>> /\ git[p].pc = "add" /\ Restaged(p)
         /\ \E r : /\ Moves(p, r) /\ r.pc = IF git[p].cmd = "archive" THEN "rm" ELSE "diff"
                   /\ r.cmd = git[p].cmd /\ r.t = git[p].t /\ r.kids = git[p].kids
                   /\ r.tracked = git[p].tracked /\ r.paths = UNION Commit!Asked(git[p])
  <1>1. p \in Pairs /\ git[p] \in Commit!Process
    BY TypedFacts
  <1>2. index' \in Commit!Trees /\ Restaged(p)
    BY StagingFacts DEF Commit!Add
  <1>3. PICK pc \in {"rm", "diff"} : pc = IF git[p].cmd = "archive" THEN "rm" ELSE "diff"
    OBVIOUS
  <1>4. PICK paths \in SUBSET Commit!Paths : paths = UNION Commit!Asked(git[p])
    BY <1>1, AskedPaths DEF Fit
  <1>5. PICK r : r = [git[p] EXCEPT !.pc = pc, !.paths = paths]
    OBVIOUS
  <1>6. r \in Commit!Process
    BY <1>1, <1>5 DEF Commit!Process
  <1>7. /\ r.pc = pc /\ r.cmd = git[p].cmd /\ r.t = git[p].t /\ r.kids = git[p].kids
        /\ r.tracked = git[p].tracked /\ r.paths = paths
    BY <1>1, <1>5 DEF Commit!Process
  <1>8. git' = [git EXCEPT ![p] = r] /\ git[p].pc = "add" /\ UNCHANGED <<way, work, head, edits, told>>
    BY <1>3, <1>4, <1>5 DEF Commit!Add
  <1>9. Typed' /\ Moves(p, r)
    BY <1>2, <1>6, <1>8, MoveTyped, SameTrees, TypedFacts DEF Moves
  <1> QED
    BY <1>2, <1>3, <1>4, <1>7, <1>8, <1>9

\* What an archive command that ends tells.
Tells(p, ok) ==
  \A t \in Tasks : told'[t] = "ok" =>
    told[t] = "ok" \/ (ok /\ git[p].cmd = "archive" /\ git[p].t = t)

\* When git add fails, either nothing matched or the paths are ignored.
LEMMA AddFailsFacts ==
  ASSUME Typed, NEW p \in way.procs, Fit(git[p]), Commit!AddFails(p)
  PROVE  /\ Typed' /\ IdleNow(p) /\ UNCHANGED <<way, work, head>> /\ git[p].pc = "add"
         /\ Tells(p, ~ git[p].tracked)
         /\ \/ /\ UNCHANGED index
               /\ "add" \in way.faults \/ \E S \in Commit!Asked(git[p]) : ~ Commit!Matches(S)
            \/ Restaged(p) /\ way.ignored
  <1>1. UNCHANGED <<way, work, head, edits>> /\ git[p].pc = "add"
        /\ Commit!Tell(p, ~ git[p].tracked) /\ Commit!Return(p)
    BY DEF Commit!AddFails
  <1>2. told' \in [Tasks -> {None, "ok", "failed"}] /\ Tells(p, ~ git[p].tracked)
    BY <1>1, ToldTyped DEF Fit, Tells
  <1>3. CASE UNCHANGED index /\ ("add" \in way.faults \/ \E S \in Commit!Asked(git[p]) : ~ Commit!Matches(S))
    BY <1>1, <1>2, <1>3, Returns, SameTrees
  <1>4. CASE index' = Commit!Staged(UNION Commit!Asked(git[p])) /\ way.ignored
    BY <1>1, <1>2, <1>4, Returns, SameTrees, StagingFacts
  <1> QED
    BY <1>3, <1>4 DEF Commit!AddFails, Commit!Refused

\* git rm takes the source out of the index, or fails unnoticed.
LEMMA RemoveFacts ==
  ASSUME Typed, NEW p \in way.procs, Fit(git[p]), Commit!Remove(p)
  PROVE  /\ Typed' /\ Goes(p, "diff") /\ UNCHANGED <<way, work, head, told>> /\ git[p].pc = "rm"
         /\ \/ "rm" \in way.faults /\ UNCHANGED index
            \/ /\ index'[Src(git[p].t)] = Absent
               /\ \A q \in Commit!Paths : q # Src(git[p].t) => index'[q] = index[q]
  <1>1. /\ Commit!Step(p, "diff") /\ UNCHANGED <<way, work, head, edits, told>> /\ git[p].pc = "rm"
        /\ index' = [index EXCEPT ![Src(git[p].t)] = Absent] \/ ("rm" \in way.faults /\ UNCHANGED index)
    BY DEF Commit!Remove, Src, Absent
  <1>2. Src(git[p].t) \in Commit!Paths /\ Absent \in 0..MaxEdits
    BY <1>1, PathsApart, TypedFacts DEF Fit
  <1>3. index' \in Commit!Trees
    BY <1>1, <1>2, SameTrees, TypedFacts DEF Commit!Trees
  <1> QED
    BY <1>1, <1>2, <1>3, GoesOn, TypedFacts

\* git diff: the command ends only when its paths are as in the last commit.
LEMMA DiffFacts ==
  ASSUME Typed, NEW p \in way.procs, Fit(git[p]), Commit!Diff(p)
  PROVE  /\ Typed' /\ UNCHANGED <<way, work, index, head>> /\ git[p].pc = "diff"
         /\ \/ Goes(p, "commit") /\ UNCHANGED told
            \/ /\ IdleNow(p) /\ Tells(p, TRUE)
               /\ \A q \in git[p].paths : index[q] = head[q]
               /\ git[p].cmd = "archive" => index[Src(git[p].t)] = head[Src(git[p].t)]
  <1>1. UNCHANGED <<way, work, index, head, edits>> /\ git[p].pc = "diff"
    BY DEF Commit!Diff
  <1>2. \/ Commit!Step(p, "commit") /\ UNCHANGED told
        \/ /\ Commit!Return(p) /\ Commit!Tell(p, TRUE)
           /\ Commit!Quiet(git[p].paths \cup (IF git[p].cmd = "archive" THEN {Src(git[p].t)} ELSE {}))
    BY DEF Commit!Diff, Src
  <1>3. CASE Commit!Step(p, "commit") /\ UNCHANGED told
    BY <1>1, <1>3, GoesOn, SameTrees
  <1>4. CASE /\ Commit!Return(p) /\ Commit!Tell(p, TRUE)
             /\ Commit!Quiet(git[p].paths \cup (IF git[p].cmd = "archive" THEN {Src(git[p].t)} ELSE {}))
    <2>1. told' \in [Tasks -> {None, "ok", "failed"}] /\ Tells(p, TRUE)
      BY <1>4, ToldTyped DEF Fit, Tells
    <2>2. Typed' /\ IdleNow(p)
      BY <1>1, <1>4, <2>1, Returns, SameTrees
    <2> QED
      BY <1>1, <1>4, <2>1, <2>2 DEF Commit!Quiet
  <1> QED
    BY <1>2, <1>3, <1>4

\* It goes on only when some path differs from the last commit.
LEMMA LooksAtPaths ==
  ASSUME Typed, NEW p \in way.procs, Fit(git[p]), Commit!Diff(p), Goes(p, "commit")
  PROVE  index # head
  <1>1. CASE Commit!Return(p)
    <2>1. git'[p] = Commit!Idle
      BY <1>1, TypedFacts DEF Commit!Return
    <2>2. git'[p].pc = "commit"
      BY DEF Goes, Moves
    <2> QED
      BY <2>1, <2>2, IdleTyped
  <1>2. CASE ~ Commit!Quiet(git[p].paths \cup
                             (IF git[p].cmd = "archive" THEN {Src(git[p].t)} ELSE {}))
    BY <1>2 DEF Commit!Quiet
  <1> QED
    BY <1>1, <1>2 DEF Commit!Diff, Src

\* A commit takes the index as it is.
LEMMA CommitFacts ==
  ASSUME Typed, NEW p \in way.procs, Fit(git[p]), Commit!Commit(p)
  PROVE  /\ Typed' /\ IdleNow(p) /\ UNCHANGED <<way, work, index>> /\ git[p].pc = "commit"
         /\ head' = index /\ Tells(p, TRUE)
  <1>1. UNCHANGED <<way, work, index, edits>> /\ git[p].pc = "commit" /\ head' = index
        /\ Commit!Tell(p, TRUE) /\ Commit!Return(p)
    BY DEF Commit!Commit
  <1>2. told' \in [Tasks -> {None, "ok", "failed"}] /\ Tells(p, TRUE)
    BY <1>1, ToldTyped DEF Fit, Tells
  <1> QED
    BY <1>1, <1>2, Returns, SameTrees

\* A commit fails for a fault, or because there is nothing left to commit.
LEMMA CommitFailsFacts ==
  ASSUME Typed, NEW p \in way.procs, Fit(git[p]), Commit!CommitFails(p)
  PROVE  /\ Typed' /\ IdleNow(p) /\ UNCHANGED <<way, work, index, head>> /\ git[p].pc = "commit"
         /\ Tells(p, ~ git[p].tracked)
         /\ ("commit" \in way.faults \/ index = head)
  <1>1. UNCHANGED <<way, work, index, head, edits>> /\ git[p].pc = "commit"
        /\ Commit!Tell(p, ~ git[p].tracked) /\ Commit!Return(p)
        /\ ("commit" \in way.faults \/ index = head)
    BY DEF Commit!CommitFails
  <1>2. told' \in [Tasks -> {None, "ok", "failed"}] /\ Tells(p, ~ git[p].tracked)
    BY <1>1, ToldTyped DEF Fit, Tells
  <1> QED
    BY <1>1, <1>2, Returns, SameTrees

-----------------------------------------------------------------------------
(* Files, index and commit *)

\* archive has moved its task before it calls git.
Away(r) == r.cmd = "archive" => work[Src(r.t)] = Absent /\ work[Dst(r.t)] # Absent

CommitBase == Typed /\ \A p \in Pairs : Fit(git[p]) /\ Away(git[p])

\* What no step does: bring a task back, take one out of the archive, stage what is not
\* in the files, or commit what is not in the index.
Effects ==
  /\ UNCHANGED way
  /\ \A t \in Tasks : work[Src(t)] = Absent => work'[Src(t)] = Absent
  /\ \A t \in Tasks : work[Dst(t)] # Absent => work'[Dst(t)] # Absent
  /\ \A q \in Commit!Paths : index'[q] \in {index[q], work[q]}
  /\ UNCHANGED index \/ UNCHANGED work
  /\ UNCHANGED head \/ (head' = index /\ UNCHANGED index)

\* A command that does not run has nothing to keep.
LEMMA IdleBase == Fit(Commit!Idle) /\ Away(Commit!Idle) /\ Away(Commit!Idle)'
  BY CommitAssumption, IdleTyped DEF Fit, Away, Commit!AutoCommitAssumption

\* What a step of one command has to show for the invariant of all of them.
LEMMA BaseMoves ==
  ASSUME CommitBase, Typed', Effects, NEW p \in way.procs, NEW r, Moves(p, r), Fit(r), Away(r)'
  PROVE  CommitBase'
  <1>1. \A q \in Pairs : q # p => Fit(git[q]) /\ Away(git[q])'
    BY DEF CommitBase, Effects, Away, Fit, Moves
  <1> QED
    BY <1>1 DEF CommitBase, Moves, Away

\* A step of p that neither brings a new record nor changes the files.
LEMMA BaseGoes ==
  ASSUME CommitBase, Typed', Effects, NEW p \in way.procs, NEW r, Moves(p, r), Fit(r), UNCHANGED work,
         (r.cmd = git[p].cmd /\ r.t = git[p].t) \/ r = Commit!Idle
  PROVE  CommitBase'
  <1>1. Away(git[p])
    BY TypedFacts DEF CommitBase
  <1>2. Away(r)'
    BY <1>1, IdleBase DEF Away
  <1> QED
    BY <1>2, BaseMoves

BaseKept == CommitBase' /\ Effects

\* Each step keeps that invariant and has no other effects.
LEMMA EditBase == ASSUME CommitBase, NEW t \in Tasks, Commit!Edit(t) PROVE BaseKept
  <1>1. Typed' /\ Effects /\ UNCHANGED git
    BY EditFacts, PathsApart DEF CommitBase, Effects
  <1>2. \A p \in Pairs : Fit(git[p]) /\ Away(git[p])'
    BY <1>1 DEF CommitBase, Effects, Away, Fit
  <1> QED
    BY <1>1, <1>2 DEF BaseKept, CommitBase, Away

LEMMA ArchiveBase == ASSUME CommitBase, NEW p \in way.procs, Commit!Archive(p) PROVE BaseKept
  <1>1. Typed' /\ UNCHANGED <<way, index, head, told>>
    BY ArchiveFacts DEF CommitBase
  <1>2. PICK r : MovedAway(p, r)
    BY ArchiveFacts DEF CommitBase
  <1>3. ASSUME NEW t \in Tasks, work[Src(t)] = Absent PROVE work'[Src(t)] = Absent
    BY <1>2, <1>3, PathsApart DEF MovedAway
  <1>4. ASSUME NEW t \in Tasks, work[Dst(t)] # Absent PROVE work'[Dst(t)] # Absent
    BY <1>2, <1>4, PathsApart DEF MovedAway
  <1>5. Effects
    BY <1>1, <1>3, <1>4 DEF Effects
  <1>6. Fit(r) /\ Away(r)' /\ Moves(p, r)
    BY <1>2 DEF MovedAway, Fit, Away
  <1> QED
    BY <1>1, <1>5, <1>6, BaseMoves DEF BaseKept

LEMMA LeaveAloneBase == ASSUME CommitBase, NEW p \in way.procs, Commit!LeaveAlone(p) PROVE BaseKept
  <1>1. Typed' /\ IdleNow(p) /\ UNCHANGED <<way, work, index, head, told>>
    BY LeaveAloneFacts DEF CommitBase
  <1>2. Effects
    BY <1>1 DEF Effects
  <1> QED
    BY <1>1, <1>2, BaseGoes, IdleBase DEF IdleNow, BaseKept

LEMMA AddSessionBase == ASSUME CommitBase, NEW p \in way.procs, Commit!AddSession(p) PROVE BaseKept
  <1>1. Typed' /\ UNCHANGED <<way, index, head, told>>
        /\ \A q \in Commit!Paths : q # Commit!Journal => work'[q] = work[q]
    BY AddSessionFacts DEF CommitBase
  <1>2. PICK r : Moves(p, r) /\ r.pc = "add" /\ r.cmd = "session" /\ r.paths = {}
    BY AddSessionFacts DEF CommitBase
  <1>3. Effects
    BY <1>1, PathsApart DEF Effects
  <1>4. Fit(r) /\ Away(r)'
    BY <1>2 DEF Fit, Away
  <1> QED
    BY <1>1, <1>2, <1>3, <1>4, BaseMoves DEF BaseKept

LEMMA ListFilesBase == ASSUME CommitBase, NEW p \in way.procs, Commit!ListFiles(p) PROVE BaseKept
  <1>1. Typed' /\ UNCHANGED <<way, work, index, head, told>> /\ git[p].pc = "list" /\ Fit(git[p])
    BY ListFilesFacts, TypedFacts DEF CommitBase
  <1>2. PICK r : /\ Moves(p, r) /\ r.pc = "add" /\ r.cmd = git[p].cmd /\ r.t = git[p].t
                 /\ r.kids = git[p].kids /\ r.paths = git[p].paths
    BY ListFilesFacts DEF CommitBase
  <1>3. Effects
    BY <1>1 DEF Effects
  <1>4. Fit(r)
    BY <1>1, <1>2 DEF Fit, Commit!Own
  <1> QED
    BY <1>1, <1>2, <1>3, <1>4, BaseGoes DEF BaseKept

LEMMA AddBase == ASSUME CommitBase, NEW p \in way.procs, Commit!Add(p) PROVE BaseKept
  <1>1. Fit(git[p]) /\ git[p] \in Commit!Process
    BY TypedFacts DEF CommitBase
  <1>2. Typed' /\ UNCHANGED <<way, work, head, told>> /\ git[p].pc = "add" /\ Restaged(p)
    BY <1>1, AddFacts DEF CommitBase
  <1>3. PICK r : /\ Moves(p, r) /\ r.pc = IF git[p].cmd = "archive" THEN "rm" ELSE "diff"
                 /\ r.cmd = git[p].cmd /\ r.t = git[p].t /\ r.kids = git[p].kids
                 /\ r.tracked = git[p].tracked /\ r.paths = UNION Commit!Asked(git[p])
    BY <1>1, AddFacts DEF CommitBase
  <1>4. Effects
    BY <1>2 DEF Effects, Restaged
  <1>5. /\ r.paths \subseteq Commit!Own(git[p])
        /\ git[p].cmd = "archive" => r.paths = Commit!ArchiveDir \cup {Src(c) : c \in git[p].kids}
    BY <1>1, <1>3, AskedPaths DEF Fit, CommitBase
  <1>6. Commit!Own(r) = Commit!Own(git[p])
    BY <1>3 DEF Commit!Own
  <1>7. Fit(r)
    BY <1>1, <1>2, <1>3, <1>5, <1>6 DEF Fit
  <1> QED
    BY <1>2, <1>3, <1>4, <1>7, BaseGoes DEF BaseKept

LEMMA AddFailsBase == ASSUME CommitBase, NEW p \in way.procs, Commit!AddFails(p) PROVE BaseKept
  <1>1. Fit(git[p])
    BY TypedFacts DEF CommitBase
  <1>2. Typed' /\ IdleNow(p) /\ UNCHANGED <<way, work, head>> /\ (UNCHANGED index \/ Restaged(p))
    BY <1>1, AddFailsFacts DEF CommitBase
  <1>3. Effects
    BY <1>2 DEF Effects, Restaged
  <1> QED
    BY <1>2, <1>3, BaseGoes, IdleBase DEF IdleNow, BaseKept

LEMMA GoesBase ==
  ASSUME CommitBase, Typed', Effects, NEW p \in way.procs, NEW pc, Goes(p, pc), UNCHANGED work,
         (pc = "diff" /\ git[p].pc = "rm") \/ (pc = "commit" /\ git[p].pc = "diff")
  PROVE  CommitBase'
  <1>1. Fit(git[p])
    BY TypedFacts DEF CommitBase
  <1>2. PICK r : /\ Moves(p, r) /\ r.pc = pc /\ r.cmd = git[p].cmd /\ r.t = git[p].t
                 /\ r.kids = git[p].kids /\ r.tracked = git[p].tracked /\ r.paths = git[p].paths
    BY DEF Goes
  <1>3. Commit!Own(r) = Commit!Own(git[p])
    BY <1>2 DEF Commit!Own
  <1>4. Fit(r)
    BY <1>1, <1>2, <1>3 DEF Fit
  <1> QED
    BY <1>2, <1>4, BaseGoes

LEMMA RemoveBase == ASSUME CommitBase, NEW p \in way.procs, Commit!Remove(p) PROVE BaseKept
  <1>1. Fit(git[p]) /\ Away(git[p])
    BY TypedFacts DEF CommitBase
  <1>2. Typed' /\ Goes(p, "diff") /\ UNCHANGED <<way, work, head, told>> /\ git[p].pc = "rm"
    BY <1>1, RemoveFacts DEF CommitBase
  <1>3. \A q \in Commit!Paths : index'[q] \in {index[q], work[q]}
    <2>1. work[Src(git[p].t)] = Absent
      BY <1>1, <1>2 DEF Fit, Away
    <2>2. \/ UNCHANGED index
          \/ /\ index'[Src(git[p].t)] = Absent
             /\ \A q \in Commit!Paths : q # Src(git[p].t) => index'[q] = index[q]
      BY <1>1, RemoveFacts DEF CommitBase
    <2> QED
      BY <2>1, <2>2
  <1>4. Effects
    BY <1>2, <1>3 DEF Effects
  <1> QED
    BY <1>2, <1>4, GoesBase DEF BaseKept

LEMMA DiffBase == ASSUME CommitBase, NEW p \in way.procs, Commit!Diff(p) PROVE BaseKept
  <1>1. Fit(git[p])
    BY TypedFacts DEF CommitBase
  <1>2. /\ Typed' /\ UNCHANGED <<way, work, index, head>> /\ git[p].pc = "diff"
        /\ (Goes(p, "commit") \/ IdleNow(p))
    BY <1>1, DiffFacts DEF CommitBase
  <1>3. Effects
    BY <1>2 DEF Effects
  <1> QED
    BY <1>2, <1>3, GoesBase, BaseGoes, IdleBase DEF IdleNow, BaseKept

LEMMA CommitBoth ==
  ASSUME CommitBase, NEW p \in way.procs, Commit!Commit(p) \/ Commit!CommitFails(p) PROVE BaseKept
  <1>1. Fit(git[p])
    BY TypedFacts DEF CommitBase
  <1>2. Typed' /\ IdleNow(p) /\ UNCHANGED <<way, work, index>> /\ (head' = index \/ UNCHANGED head)
    BY <1>1, CommitFacts, CommitFailsFacts DEF CommitBase
  <1>3. Effects
    BY <1>2 DEF Effects
  <1> QED
    BY <1>2, <1>3, BaseGoes, IdleBase DEF IdleNow, BaseKept

\* So every step does.
LEMMA BaseStep == ASSUME CommitBase, Commit!Next PROVE BaseKept
  BY EditBase, ArchiveBase, LeaveAloneBase, AddSessionBase, ListFilesBase, AddBase, AddFailsBase,
     RemoveBase, DiffBase, CommitBoth DEF Commit!Next

\* A step of the command p.
Runs(p) ==
  \/ Commit!Archive(p) \/ Commit!LeaveAlone(p) \/ Commit!AddSession(p)
  \/ Commit!ListFiles(p) \/ Commit!Add(p) \/ Commit!AddFails(p) \/ Commit!Remove(p)
  \/ Commit!Diff(p) \/ Commit!Commit(p) \/ Commit!CommitFails(p)

\* It leaves the other commands alone.
LEMMA OtherCommands ==
  ASSUME CommitBase, NEW p \in way.procs, Runs(p)
  PROVE  UNCHANGED way /\ \A q \in Pairs : q # p => git'[q] = git[q]
  <1>1. git' = [git EXCEPT ![p] = git'[p]]
    BY TypedFacts DEF Runs, CommitBase, Commit!Archive, Commit!AddSession, Commit!LeaveAlone,
       Commit!ListFiles, Commit!Add, Commit!AddFails, Commit!Remove, Commit!Diff, Commit!Commit,
       Commit!CommitFails, Commit!Return, Commit!Step
  <1> QED
    BY <1>1, BaseStep, TypedFacts DEF CommitBase, BaseKept, Effects, Runs, Commit!Next

\* At first no command runs and no task is in the archive.
LEMMA BaseInit == ASSUME Commit!Init PROVE CommitBase
  <1>1. /\ way \in CommitUses /\ edits = 1
        /\ git = [p \in Pairs |-> Commit!Idle] /\ told = [t \in Tasks |-> None]
    BY DEF Commit!Init
  <1>2. work \in Commit!Trees /\ head \in Commit!Trees /\ index \in Commit!Trees
    <2>1. {0, 1} \subseteq 0..MaxEdits
      BY CommitAssumption DEF Commit!AutoCommitAssumption
    <2> QED
      BY <2>1 DEF Commit!Init, Commit!Trees, Commit!Absent
  <1>3. Typed
    BY <1>1, <1>2, IdleTyped, CommitAssumption DEF Typed, Commit!TypeOK, Commit!AutoCommitAssumption
  <1> QED
    BY <1>1, <1>3, IdleBase DEF CommitBase

-----------------------------------------------------------------------------
(* A task in the last commit, one command at a time *)

Solo == Commit!OneAtATime

\* Nothing but ls-files and commit fails, and every archive is committed.
Sound == Solo /\ way.faults \subseteq {"list", "commit"} /\ ~ way.ignored /\ ~ way.manual

\* What git add is asked for is there until it runs.
Asks(r) ==
  r.cmd = "archive" /\ r.pc \in {"list", "add"} => \A c \in r.kids : work[Src(c)] # Absent

\* The command still has to take the old place of t out of the index.
Leaving(r, t) == r.cmd = "archive" /\ r.t = t /\ r.pc \in {"list", "add", "rm"}

\* A task is in one place, and the index does not have it in the archive before it is.
Places ==
  /\ \A t \in Tasks : work[Src(t)] = Absent \/ work[Dst(t)] = Absent
  /\ \A t \in Tasks : index[Dst(t)] # Absent => work[Dst(t)] # Absent

\* The inductive invariant of HeadHasTaskOnce, for the one command.
OnceBy(r) ==
  /\ Asks(r)
  /\ \A t \in Tasks : work[Src(t)] = Absent /\ index[Src(t)] # Absent => Leaving(r, t)

OnceInv ==
  Places /\ (Sound => /\ Commit!HeadHasTaskOnce
                      /\ \A p \in way.procs : OnceBy(git[p]))

\* Only archive moves a task.
LEMMA PlacesStep ==
  ASSUME CommitBase, Places, Commit!Next, Effects
  PROVE  Places'
  <1>1. \A t \in Tasks : index'[Dst(t)] # Absent => work'[Dst(t)] # Absent
    BY PathsApart DEF Places, Effects
  <1>2. CASE \E p \in way.procs : Commit!Archive(p)
    <2>1. PICK p \in way.procs : Commit!Archive(p)
      BY <1>2
    <2>2. PICK r : MovedAway(p, r)
      BY <2>1, ArchiveFacts DEF CommitBase
    <2>3. ASSUME NEW t \in Tasks PROVE work'[Src(t)] = Absent \/ work'[Dst(t)] = Absent
      <3>1. CASE t = r.t
        BY <2>2, <3>1 DEF MovedAway
      <3>2. CASE t \in r.kids
        <4>1. work[Dst(t)] = Absent /\ t # r.t
          BY <2>2, <3>2 DEF MovedAway, Places
        <4>2. work'[Dst(t)] = work[Dst(t)]
          BY <2>2, <4>1, PathsApart DEF MovedAway
        <4> QED
          BY <4>1, <4>2
      <3>3. CASE t \notin r.kids \cup {r.t}
        <4>1. work'[Dst(t)] = work[Dst(t)] /\ work'[Src(t)] = work[Src(t)]
          BY <2>2, <3>3, PathsApart DEF MovedAway
        <4> QED
          BY <4>1 DEF Places
      <3> QED
        BY <3>1, <3>2, <3>3
    <2> QED
      BY <1>1, <2>3 DEF Places
  <1>3. CASE \E t \in Tasks : Commit!Edit(t)
    <2>1. PICK u \in Tasks : Commit!Edit(u)
      BY <1>3
    <2>2. /\ work[Src(u)] # Absent
          /\ \A q \in Commit!Paths : q # Src(u) => work'[q] = work[q]
      BY <2>1, EditFacts DEF CommitBase
    <2> QED
      BY <1>1, <2>2, PathsApart DEF Places
  <1>4. CASE \E p \in way.procs : Commit!AddSession(p)
    BY <1>1, <1>4, AddSessionFacts, PathsApart DEF CommitBase, Places
  <1>5. CASE UNCHANGED work
    BY <1>1, <1>5 DEF Places
  <1> QED
    BY <1>1, <1>2, <1>3, <1>4, <1>5 DEF Commit!Next, Commit!LeaveAlone, Commit!ListFiles, Commit!Add,
       Commit!AddFails, Commit!Remove, Commit!Diff, Commit!Commit, Commit!CommitFails

\* git add finds all that archive asks for.
LEMMA AllFound ==
  ASSUME Typed, NEW r, Fit(r), Away(r), r.cmd = "archive", \A c \in r.kids : work[Src(c)] # Absent
  PROVE  \A S \in Commit!Asked(r) : Commit!Matches(S)
  <1>1. Commit!Asked(r) = {Commit!ArchiveDir} \cup {{Src(c)} : c \in r.kids}
    BY DEF Commit!Asked, Commit!ArchivePaths, Src
  <1>2. Commit!Matches(Commit!ArchiveDir)
    BY DEF Commit!Matches, Commit!ArchiveDir, Fit, Away, Dst, Absent
  <1>3. \A c \in r.kids : Commit!Matches({Src(c)})
    BY DEF Commit!Matches, Absent
  <1> QED
    BY <1>1, <1>2, <1>3

\* A step that leaves the files and the index alone.
LEMMA OnceMoves ==
  ASSUME NEW r, NEW s, OnceBy(r), UNCHANGED <<work, index>>,
         s.cmd = "archive" => s.cmd = r.cmd /\ s.t = r.t /\ s.kids = r.kids,
         s.pc \in {"list", "add"} => s.cmd = r.cmd /\ r.pc \in {"list", "add"},
         \A t \in Tasks : Leaving(r, t) => Leaving(s, t)
  PROVE  OnceBy(s)'
  BY DEF OnceBy, Asks, Leaving

\* Each step of the one command: nothing it has archived is committed in the old place.
LEMMA OnceStep ==
  ASSUME CommitBase, OnceInv, Sound, NEW p \in way.procs, Effects, Runs(p)
  PROVE  /\ \A t \in Tasks : head'[Src(t)] = Absent \/ head'[Dst(t)] = Absent
         /\ OnceBy(git[p])'
  <1>1. /\ Typed /\ Fit(git[p]) /\ Away(git[p]) /\ OnceBy(git[p]) /\ Places
        /\ \A t \in Tasks : head[Src(t)] = Absent \/ head[Dst(t)] = Absent
    BY TypedFacts DEF CommitBase, OnceInv, Sound, Solo, Commit!HeadHasTaskOnce, Src, Dst, Absent
  <1>2. IdleNow(p) => git'[p] = Commit!Idle /\ git'[p].pc = "idle" /\ git'[p].cmd # "archive"
    BY IdleTyped, CommitAssumption DEF IdleNow, Moves, Commit!AutoCommitAssumption
  <1>3. ASSUME Commit!Archive(p) PROVE UNCHANGED head /\ OnceBy(git[p])'
    <2>1. PICK r : MovedAway(p, r)
      BY <1>1, <1>3, ArchiveFacts
    <2>2. UNCHANGED <<index, head>> /\ git[p].pc = "idle" /\ git'[p] = r
      BY <1>1, <1>3, <2>1, ArchiveFacts DEF MovedAway, Moves
    <2>3. Asks(r)'
      BY <2>1 DEF Asks, MovedAway
    <2>4. ASSUME NEW t \in Tasks, work'[Src(t)] = Absent, index'[Src(t)] # Absent PROVE Leaving(r, t)
      <3>1. work[Src(t)] # Absent
        BY <1>1, <2>2, <2>4 DEF OnceBy, Leaving
      <3>2. t = r.t
        BY <2>1, <2>4, <3>1, PathsApart DEF MovedAway
      <3> QED
        BY <2>1, <3>2 DEF Leaving, MovedAway
    <2> QED
      BY <2>2, <2>3, <2>4 DEF OnceBy, Leaving
  <1>4. ASSUME Commit!AddSession(p) PROVE UNCHANGED head /\ OnceBy(git[p])'
    <2>1. /\ UNCHANGED <<index, head>> /\ git[p].pc = "idle"
          /\ \A q \in Commit!Paths : q # Commit!Journal => work'[q] = work[q]
          /\ git'[p].cmd = "session"
      BY <1>1, <1>4, AddSessionFacts DEF Moves
    <2> QED
      BY <1>1, <2>1, PathsApart DEF OnceBy, Asks, Leaving
  <1>5. ~ Commit!LeaveAlone(p)
    BY DEF Sound, Commit!LeaveAlone
  <1>6. ASSUME Commit!ListFiles(p) PROVE UNCHANGED head /\ OnceBy(git[p])'
    <2>1. /\ UNCHANGED <<work, index, head>> /\ git[p].pc = "list"
          /\ git'[p].pc = "add" /\ git'[p].cmd = git[p].cmd /\ git'[p].t = git[p].t
          /\ git'[p].kids = git[p].kids
      BY <1>1, <1>6, ListFilesFacts DEF Moves
    <2>2. \A t \in Tasks : Leaving(git[p], t) => Leaving(git'[p], t)
      BY <2>1 DEF Leaving
    <2> QED
      BY <1>1, <2>1, <2>2 DEF OnceBy, Asks, Leaving
  <1>7. ASSUME Commit!Add(p) PROVE UNCHANGED head /\ OnceBy(git[p])'
    <2>1. /\ UNCHANGED <<work, head>> /\ git[p].pc = "add"
          /\ git'[p].pc = IF git[p].cmd = "archive" THEN "rm" ELSE "diff"
          /\ git'[p].cmd = git[p].cmd /\ git'[p].t = git[p].t
      BY <1>1, <1>7, AddFacts DEF Moves
    <2>2. ASSUME NEW t \in Tasks, work[Src(t)] = Absent, index'[Src(t)] # Absent PROVE Leaving(git'[p], t)
      <3>1. index[Src(t)] # Absent
        BY <2>2, PathsApart DEF Effects
      <3>2. Leaving(git[p], t)
        BY <1>1, <2>2, <3>1 DEF OnceBy
      <3> QED
        BY <2>1, <3>2 DEF Leaving
    <2> QED
      BY <2>1, <2>2 DEF OnceBy, Asks, Leaving
  <1>8. ASSUME Commit!AddFails(p) PROVE UNCHANGED head /\ OnceBy(git[p])'
    <2>1. IdleNow(p) /\ UNCHANGED <<work, head>> /\ git[p].pc = "add"
          /\ UNCHANGED index /\ \E S \in Commit!Asked(git[p]) : ~ Commit!Matches(S)
      BY <1>1, <1>8, AddFailsFacts DEF Sound
    <2>2. git[p].cmd # "archive"
      BY <1>1, <2>1, AllFound DEF OnceBy, Asks
    <2> QED
      BY <1>1, <1>2, <2>1, <2>2 DEF OnceBy, Asks, Leaving
  <1>9. ASSUME Commit!Remove(p) PROVE UNCHANGED head /\ OnceBy(git[p])'
    <2>1. /\ Goes(p, "diff") /\ UNCHANGED <<work, head>> /\ git[p].pc = "rm"
          /\ index'[Src(git[p].t)] = Absent
          /\ \A q \in Commit!Paths : q # Src(git[p].t) => index'[q] = index[q]
      BY <1>1, <1>9, RemoveFacts DEF Sound
    <2>2. git'[p].pc = "diff"
      BY <2>1 DEF Goes, Moves
    <2>3. ASSUME NEW t \in Tasks, work[Src(t)] = Absent, index'[Src(t)] # Absent PROVE FALSE
      <3>1. t # git[p].t
        BY <2>1, <2>3
      <3>2. index[Src(t)] # Absent
        BY <1>1, <2>1, <2>3, <3>1, PathsApart DEF Fit
      <3> QED
        BY <1>1, <2>3, <3>1, <3>2 DEF OnceBy, Leaving
    <2> QED
      BY <2>1, <2>2, <2>3 DEF OnceBy, Asks
  <1>10. ASSUME git[p].pc \in {"diff", "commit"} PROVE
           /\ \A t \in Tasks : work[Src(t)] = Absent => index[Src(t)] = Absent
           /\ \A t \in Tasks : index[Src(t)] = Absent \/ index[Dst(t)] = Absent
    BY <1>1, <1>10 DEF OnceBy, Leaving, Places
  <1>11. ASSUME Commit!Diff(p) PROVE UNCHANGED head /\ OnceBy(git[p])'
    <2>1. UNCHANGED <<work, index, head>> /\ git[p].pc = "diff" /\ git'[p].pc \in {"idle", "commit"}
      BY <1>1, <1>2, <1>11, DiffFacts DEF Goes, Moves
    <2> QED
      BY <1>10, <2>1 DEF OnceBy, Asks
  <1>12. ASSUME Commit!Commit(p) \/ Commit!CommitFails(p)
         PROVE  (UNCHANGED head \/ head' = index) /\ git[p].pc = "commit" /\ OnceBy(git[p])'
    <2>1. /\ IdleNow(p) /\ UNCHANGED <<work, index>> /\ git[p].pc = "commit"
          /\ (UNCHANGED head \/ head' = index)
      BY <1>1, <1>12, CommitFacts, CommitFailsFacts
    <2> QED
      BY <1>2, <1>10, <2>1 DEF OnceBy, Asks
  <1>13. CASE UNCHANGED head /\ OnceBy(git[p])'
    BY <1>1, <1>13
  <1> QED
    BY <1>3, <1>4, <1>5, <1>6, <1>7, <1>8, <1>9, <1>10, <1>11, <1>12, <1>13 DEF Runs

\* And so does an edit of another window.
LEMMA OnceNext == ASSUME CommitBase, OnceInv, Commit!Next PROVE OnceInv'
  <1>1. Effects /\ CommitBase' /\ Places'
    BY BaseStep, PlacesStep DEF BaseKept, OnceInv
  <1>2. SUFFICES ASSUME Sound'
                 PROVE  Commit!HeadHasTaskOnce' /\ (\A p \in way.procs : OnceBy(git[p]))'
    BY <1>1 DEF OnceInv, Effects
  <1>3. Sound /\ OnceInv
    BY <1>1, <1>2 DEF Sound, Solo, Commit!OneAtATime, Effects
  <1>4. \A p, q \in way.procs : p = q
    BY <1>3 DEF Sound, Solo, Commit!OneAtATime
  <1>5. ASSUME \A t \in Tasks : head'[Src(t)] = Absent \/ head'[Dst(t)] = Absent
        PROVE  Commit!HeadHasTaskOnce'
    BY <1>5 DEF Commit!HeadHasTaskOnce, Src, Dst, Absent
  <1>6. CASE \E t \in Tasks : Commit!Edit(t)
    <2>1. PICK u \in Tasks : Commit!Edit(u)
      BY <1>6
    <2>2. /\ UNCHANGED <<index, head, git>> /\ work[Src(u)] # Absent /\ work'[Src(u)] # Absent
          /\ \A q \in Commit!Paths : q # Src(u) => work'[q] = work[q]
      BY <2>1, EditFacts DEF CommitBase
    <2>3. \A t \in Tasks : work'[Src(t)] = Absent <=> work[Src(t)] = Absent
      BY <2>2, PathsApart
    <2>4. ASSUME NEW p \in way.procs PROVE OnceBy(git[p])'
      <3>1. OnceBy(git[p]) /\ git[p].kids \subseteq Tasks
        BY <1>3, TypedFacts DEF OnceInv, CommitBase, Commit!Process
      <3> QED
        BY <2>2, <2>3, <3>1 DEF OnceBy, Asks, Leaving
    <2>5. Commit!HeadHasTaskOnce
      BY <1>3 DEF OnceInv
    <2>6. Commit!HeadHasTaskOnce'
      BY <1>1, <2>1, <2>5 DEF Commit!HeadHasTaskOnce, Commit!OneAtATime, Commit!Edit
    <2> QED
      BY <1>1, <2>4, <2>6 DEF Effects
  <1>7. ASSUME NEW p \in way.procs, Runs(p)
        PROVE  Commit!HeadHasTaskOnce' /\ (\A q \in way.procs : OnceBy(git[q]))'
    <2>1. /\ \A t \in Tasks : head'[Src(t)] = Absent \/ head'[Dst(t)] = Absent
          /\ OnceBy(git[p])'
      BY <1>1, <1>3, <1>7, OnceStep
    <2>2. \A q \in way.procs : q = p
      BY <1>4
    <2>3. (\A q \in way.procs : OnceBy(git[q]))'
      BY <1>1, <2>1, <2>2 DEF Effects
    <2> QED
      BY <1>5, <2>1, <2>3
  <1> QED
    BY <1>6, <1>7 DEF Commit!Next, Runs

\* At first every task is active, and none is in a commit as archived.
LEMMA OnceInit == ASSUME Commit!Init PROVE OnceInv
  <1>1. \A t \in Tasks : work[Src(t)] # Absent /\ work[Dst(t)] = Absent
                         /\ head[Dst(t)] = Absent /\ index[Dst(t)] = Absent
    <2> SUFFICES ASSUME NEW t \in Tasks
                 PROVE  /\ work[Src(t)] # Absent /\ work[Dst(t)] = Absent
                        /\ head[Dst(t)] = Absent /\ index = head
      BY DEF Commit!Init
    <2>1. work = [q \in Commit!Paths |-> IF \E u \in Tasks : q = Dst(u) THEN Absent ELSE 1]
      BY DEF Commit!Init, Dst, Absent
    <2>2. PICK known \in SUBSET {Src(u) : u \in Tasks} :
            head = [q \in Commit!Paths |-> IF q \in known \cup {Commit!Journal} THEN 1 ELSE Absent]
      BY DEF Commit!Init, Src, Absent
    <2>3. Dst(t) \notin known \cup {Commit!Journal} /\ ~ \E u \in Tasks : Src(t) = Dst(u)
      BY PathsApart
    <2> QED
      BY <2>1, <2>2, <2>3, PathsApart DEF Commit!Init
  <1>2. Places
    BY <1>1 DEF Places
  <1>3. Commit!HeadHasTaskOnce
    BY <1>1 DEF Commit!HeadHasTaskOnce, Src, Dst, Absent
  <1>4. \A p \in way.procs : git[p] = Commit!Idle
    BY BaseInit, TypedFacts DEF Commit!Init, CommitBase
  <1>5. OnceBy(Commit!Idle)
    BY <1>1, IdleTyped DEF OnceBy, Asks
  <1> QED
    BY <1>2, <1>3, <1>4, <1>5 DEF OnceInv

-----------------------------------------------------------------------------
(* What a commit changes *)

Kept == Solo /\ "commit" \notin way.faults /\ ~ way.ignored

\* Between two commands everything in the index is committed, and what a command staged
\* is among the paths it chose and the old place of its task.
ScopeOf(r) ==
  /\ r.pc \in {"idle", "list", "add"} => index = head
  /\ \A q \in Commit!Paths : index[q] # head[q] =>
       q \in r.paths \/ (r.cmd = "archive" /\ q = Src(r.t))

\* The inductive invariant of KeepsToItsScope.
ScopeInv == Kept => \A p \in way.procs : ScopeOf(git[p])

\* Trees are equal when they are equal on every path.
LEMMA SameTree ==
  ASSUME Typed, \A q \in Commit!Paths : index[q] = head[q]
  PROVE  index = head
  BY TypedFacts

\* Before it commits, the index differs from the last commit on its own paths only.
LEMMA ScopeStep ==
  ASSUME CommitBase, ScopeInv, Kept, NEW p \in way.procs, Typed', Effects, Runs(p)
  PROVE  ScopeOf(git[p])'
  <1>1. Typed /\ Fit(git[p]) /\ ScopeOf(git[p])
    BY TypedFacts DEF CommitBase, ScopeInv
  <1>2. ASSUME IdleNow(p), index' = head' PROVE ScopeOf(git[p])'
    BY <1>2 DEF IdleNow, Moves, ScopeOf
  <1>3. ASSUME Commit!Archive(p) \/ Commit!AddSession(p) \/ Commit!ListFiles(p) PROVE ScopeOf(git[p])'
    <2>1. UNCHANGED <<index, head>> /\ git[p].pc \in {"idle", "list"}
      BY <1>1, <1>3, ArchiveFacts, AddSessionFacts, ListFilesFacts
    <2> QED
      BY <1>1, <2>1 DEF ScopeOf
  <1>4. ASSUME Commit!LeaveAlone(p) PROVE ScopeOf(git[p])'
    BY <1>1, <1>2, <1>4, LeaveAloneFacts DEF ScopeOf
  <1>5. ASSUME Commit!Add(p) PROVE ScopeOf(git[p])'
    <2>1. /\ UNCHANGED head /\ git[p].pc = "add" /\ Restaged(p)
          /\ git'[p].pc \in {"rm", "diff"} /\ git'[p].paths = UNION Commit!Asked(git[p])
      BY <1>1, <1>5, AddFacts DEF Moves
    <2>2. index = head
      BY <1>1, <2>1 DEF ScopeOf
    <2> QED
      BY <2>1, <2>2 DEF ScopeOf, Restaged
  <1>6. ASSUME Commit!AddFails(p) PROVE ScopeOf(git[p])'
    <2>1. IdleNow(p) /\ UNCHANGED <<index, head>> /\ git[p].pc = "add"
      BY <1>1, <1>6, AddFailsFacts DEF Kept
    <2> QED
      BY <1>1, <1>2, <2>1 DEF ScopeOf
  <1>7. ASSUME Commit!Remove(p) PROVE ScopeOf(git[p])'
    <2>1. /\ Goes(p, "diff") /\ UNCHANGED head /\ git[p].pc = "rm" /\ git[p].cmd = "archive"
          /\ \A q \in Commit!Paths : q # Src(git[p].t) => index'[q] = index[q]
      BY <1>1, <1>7, RemoveFacts DEF Fit
    <2>2. /\ git'[p].pc = "diff" /\ git'[p].cmd = git[p].cmd /\ git'[p].t = git[p].t
          /\ git'[p].paths = git[p].paths
      BY <2>1 DEF Goes, Moves
    <2> QED
      BY <1>1, <2>1, <2>2 DEF ScopeOf
  <1>8. ASSUME Commit!Diff(p) PROVE ScopeOf(git[p])'
    <2>1. UNCHANGED <<index, head>>
      BY <1>1, <1>8, DiffFacts
    <2>2. CASE Goes(p, "commit")
      <3>1. /\ git'[p].pc = "commit" /\ git'[p].cmd = git[p].cmd /\ git'[p].t = git[p].t
            /\ git'[p].paths = git[p].paths
        BY <2>2 DEF Goes, Moves
      <3> QED
        BY <1>1, <2>1, <3>1 DEF ScopeOf
    <2>3. CASE /\ IdleNow(p) /\ \A q \in git[p].paths : index[q] = head[q]
               /\ git[p].cmd = "archive" => index[Src(git[p].t)] = head[Src(git[p].t)]
      <3>1. \A q \in Commit!Paths : index[q] = head[q]
        BY <1>1, <2>3 DEF ScopeOf
      <3> QED
        BY <1>1, <1>2, <2>1, <2>3, <3>1, SameTree
    <2> QED
      BY <1>1, <1>8, <2>2, <2>3, DiffFacts
  <1>9. ASSUME Commit!Commit(p) PROVE ScopeOf(git[p])'
    BY <1>1, <1>2, <1>9, CommitFacts
  <1>10. ASSUME Commit!CommitFails(p) PROVE ScopeOf(git[p])'
    BY <1>1, <1>2, <1>10, CommitFailsFacts DEF Kept
  <1> QED
    BY <1>3, <1>4, <1>5, <1>6, <1>7, <1>8, <1>9, <1>10 DEF Runs

\* The index and the last commit stay apart on the paths of the one command only.
LEMMA ScopeNext == ASSUME CommitBase, ScopeInv, Commit!Next PROVE ScopeInv'
  <1>1. Effects /\ Typed'
    BY BaseStep DEF BaseKept, CommitBase
  <1>2. SUFFICES ASSUME Kept PROVE (\A p \in way.procs : ScopeOf(git[p]))'
    BY <1>1 DEF ScopeInv, Kept, Solo, Commit!OneAtATime, Effects
  <1>3. \A p \in way.procs : ScopeOf(git[p])
    BY <1>2 DEF ScopeInv
  <1>4. CASE \E t \in Tasks : Commit!Edit(t)
    <2>1. UNCHANGED <<way, index, head, git>>
      BY <1>4 DEF Commit!Edit
    <2> QED
      BY <1>3, <2>1 DEF ScopeOf
  <1>5. ASSUME NEW p \in way.procs, Runs(p)
        PROVE  (\A q \in way.procs : ScopeOf(git[q]))'
    <2>1. ScopeOf(git[p])'
      BY <1>1, <1>2, <1>5, ScopeStep
    <2>2. \A q \in way.procs : q = p
      BY <1>2 DEF Kept, Solo, Commit!OneAtATime
    <2> QED
      BY <1>1, <2>1, <2>2 DEF Effects
  <1> QED
    BY <1>4, <1>5 DEF Commit!Next, Runs

\* Only a commit moves the last commit on, to the index.
LEMMA ScopeHolds == ASSUME CommitBase, ScopeInv, Commit!Next PROVE Commit!KeepsToItsScope
  <1>1. Effects
    BY BaseStep DEF BaseKept
  <1>2. SUFFICES ASSUME Kept, NEW p \in way.procs, head' # head,
                        NEW q \in Commit!Paths \ Commit!Own(git[p])
                 PROVE  head'[q] = head[q]
    BY DEF Commit!KeepsToItsScope, Kept, Solo
  <1>3. head' = index
    BY <1>1, <1>2 DEF Effects
  <1>4. Fit(git[p]) /\ ScopeOf(git[p])
    BY <1>2, TypedFacts DEF CommitBase, ScopeInv
  <1>5. git[p].cmd = "archive" => Src(git[p].t) \in Commit!Own(git[p])
    BY <1>4 DEF Fit, Commit!Own, Src
  <1>6. q \notin git[p].paths /\ ~ (git[p].cmd = "archive" /\ q = Src(git[p].t))
    BY <1>2, <1>4, <1>5 DEF Fit
  <1> QED
    BY <1>2, <1>3, <1>4, <1>6 DEF ScopeOf

\* At first they are the same.
LEMMA ScopeInit == ASSUME Commit!Init PROVE ScopeInv
  BY DEF Commit!Init, ScopeInv, ScopeOf

-----------------------------------------------------------------------------
(* What "ok" means *)

\* Nothing of the task's old directory is left, and nothing brings it back.
Gone(t) == work[Src(t)] = Absent /\ index[Src(t)] = Absent /\ head[Src(t)] = Absent

\* Neither is in the index: a source that was removed, or one that had not been tracked.
OutOfIndex(r) ==
  r.cmd = "archive" /\ \/ r.pc \in {"diff", "commit"}
                       \/ r.pc # "list" /\ ~ r.tracked /\ "list" \notin way.faults
    => index[Src(r.t)] = Absent

OkGone == \A t \in Tasks : told[t] = "ok" => Gone(t)

\* A task that is gone stays gone.
LEMMA GoneStays == ASSUME Effects, NEW t \in Tasks, Gone(t) PROVE Gone(t)'
  BY PathsApart DEF Effects, Gone

\* A source that is out of the index stays out.
LEMMA OutStays ==
  ASSUME Effects, NEW r, Fit(r), Away(r), r.cmd = "archive", index[Src(r.t)] = Absent
  PROVE  index'[Src(r.t)] = Absent
  BY PathsApart DEF Effects, Fit, Away

\* The index of what a command has removed, if its git rm works.
OutInv == "rm" \notin way.faults => \A p \in way.procs : OutOfIndex(git[p])

\* git rm takes the source out, and one that was not tracked never was in.
LEMMA OutStep ==
  ASSUME CommitBase, Effects, "rm" \notin way.faults, NEW p \in way.procs, OutOfIndex(git[p]), Runs(p)
  PROVE  OutOfIndex(git[p])'
  <1>1. Typed /\ Fit(git[p]) /\ Away(git[p])
    BY TypedFacts DEF CommitBase
  <1>2. ASSUME IdleNow(p) PROVE OutOfIndex(git[p])'
    BY <1>2, IdleTyped, CommitAssumption DEF IdleNow, Moves, OutOfIndex, Commit!AutoCommitAssumption
  <1>3. ASSUME Commit!Archive(p) PROVE OutOfIndex(git[p])'
    <2>1. git'[p].pc = "list"
      BY <1>1, <1>3, ArchiveFacts DEF MovedAway, Moves
    <2> QED
      BY <2>1 DEF OutOfIndex
  <1>4. ASSUME Commit!AddSession(p) PROVE OutOfIndex(git[p])'
    <2>1. git'[p].cmd = "session"
      BY <1>1, <1>4, AddSessionFacts DEF Moves
    <2> QED
      BY <2>1 DEF OutOfIndex
  <1>5. ASSUME Commit!ListFiles(p) PROVE OutOfIndex(git[p])'
    <2>1. /\ UNCHANGED <<way, index>> /\ git'[p].pc = "add" /\ git'[p].t = git[p].t
          /\ "list" \notin way.faults => (git'[p].tracked <=> index[Src(git[p].t)] # Absent)
      BY <1>1, <1>5, ListFilesFacts DEF Moves
    <2> QED
      BY <2>1 DEF OutOfIndex
  <1>6. ASSUME Commit!Add(p) PROVE OutOfIndex(git[p])'
    <2>1. /\ git[p].pc = "add" /\ git'[p].pc = IF git[p].cmd = "archive" THEN "rm" ELSE "diff"
          /\ git'[p].cmd = git[p].cmd /\ git'[p].t = git[p].t /\ git'[p].tracked = git[p].tracked
      BY <1>1, <1>6, AddFacts DEF Moves
    <2> QED
      BY <1>1, <2>1, OutStays DEF OutOfIndex, Effects
  <1>7. ASSUME Commit!Remove(p) PROVE OutOfIndex(git[p])'
    <2>1. Goes(p, "diff") /\ index'[Src(git[p].t)] = Absent
      BY <1>1, <1>7, RemoveFacts
    <2>2. git'[p].t = git[p].t
      BY <2>1 DEF Goes, Moves
    <2> QED
      BY <2>1, <2>2 DEF OutOfIndex
  <1>8. ASSUME Commit!Diff(p) PROVE OutOfIndex(git[p])'
    <2>1. UNCHANGED index /\ git[p].pc = "diff" /\ (Goes(p, "commit") \/ IdleNow(p))
      BY <1>1, <1>8, DiffFacts
    <2>2. Goes(p, "commit") => git'[p].cmd = git[p].cmd /\ git'[p].t = git[p].t
      BY DEF Goes, Moves
    <2> QED
      BY <1>2, <2>1, <2>2 DEF OutOfIndex
  <1> QED
    BY <1>1, <1>2, <1>3, <1>4, <1>5, <1>6, <1>7, <1>8, LeaveAloneFacts, AddFailsFacts,
       CommitFacts, CommitFailsFacts DEF Runs

\* And other commands do not put it in again.
LEMMA OutNext == ASSUME CommitBase, OutInv, Commit!Next PROVE OutInv'
  <1>1. Effects
    BY BaseStep DEF BaseKept
  <1>2. SUFFICES ASSUME "rm" \notin way.faults PROVE (\A p \in way.procs : OutOfIndex(git[p]))'
    BY <1>1 DEF OutInv, Effects
  <1>3. CASE \E t \in Tasks : Commit!Edit(t)
    BY <1>2, <1>3 DEF Commit!Edit, OutInv, OutOfIndex
  <1>4. ASSUME NEW p \in way.procs, Runs(p)
        PROVE  (\A q \in way.procs : OutOfIndex(git[q]))'
    <2>1. OutOfIndex(git[p])'
      BY <1>1, <1>2, <1>4, OutStep DEF OutInv
    <2>2. \A q \in Pairs : q # p => git'[q] = git[q]
      BY <1>4, OtherCommands
    <2>3. ASSUME NEW q \in way.procs, q # p PROVE OutOfIndex(git[q])'
      <3>1. git'[q] = git[q] /\ OutOfIndex(git[q]) /\ Fit(git[q]) /\ Away(git[q])
        BY <1>2, <2>2, <2>3, TypedFacts DEF CommitBase, OutInv
      <3>2. (git[q].cmd = "archive" /\ index[Src(git[q].t)] = Absent) => index'[Src(git[q].t)] = Absent
        BY <1>1, <3>1, OutStays
      <3> QED
        BY <1>1, <3>1, <3>2 DEF OutOfIndex, Effects
    <2> QED
      BY <1>1, <2>1, <2>3 DEF Effects
  <1> QED
    BY <1>3, <1>4 DEF Commit!Next, Runs

\* One command at a time, whose git ls-files and git rm work.
Alone == Solo /\ "list" \notin way.faults /\ "rm" \notin way.faults

\* A source that was not tracked when the command began is not in the last commit.
Untracked(r) ==
  r.cmd = "archive" /\ (IF r.pc = "list" THEN index[Src(r.t)] = Absent ELSE ~ r.tracked) =>
    head[Src(r.t)] = Absent

\* A task that is not in the index is not in the last commit, until it is archived.
Staged0 == \A t \in Tasks : work[Src(t)] # Absent /\ index[Src(t)] = Absent => head[Src(t)] = Absent

AloneInv == Alone => Staged0 /\ OkGone /\ \A p \in way.procs : Untracked(git[p])

\* The two things a step of one command has to show.
AloneKept(p) == Staged0' /\ OkGone' /\ Untracked(git[p])'

\* No step makes it otherwise.
LEMMA Staged0Kept ==
  ASSUME Staged0, Effects PROVE Staged0'
  BY PathsApart DEF Staged0, Effects

\* The command ends, and what it tells is so.
LEMMA AloneEnds ==
  ASSUME Staged0, OkGone, Effects, NEW p \in way.procs, IdleNow(p), NEW ok, Tells(p, ok),
         NEW t, t = git[p].t, ok /\ git[p].cmd = "archive" => Gone(t)'
  PROVE  AloneKept(p)
  <1>1. OkGone'
    BY GoneStays DEF OkGone, Tells
  <1>2. git'[p].cmd # "archive"
    BY IdleTyped, CommitAssumption DEF IdleNow, Moves, Commit!AutoCommitAssumption
  <1> QED
    BY <1>1, <1>2, Staged0Kept DEF AloneKept, Untracked

\* Each step of the one command keeps what "ok" means.
LEMMA AloneStep ==
  ASSUME CommitBase, OutInv, AloneInv, Alone, NEW p \in way.procs, Effects, Runs(p)
  PROVE  AloneKept(p)
  <1>1. Typed /\ Fit(git[p]) /\ Away(git[p]) /\ OutOfIndex(git[p]) /\ Untracked(git[p])
        /\ Staged0 /\ OkGone
    BY TypedFacts DEF CommitBase, OutInv, AloneInv, Alone
  <1>2. Staged0' /\ (told' = told => OkGone')
    BY <1>1, Staged0Kept, GoneStays DEF OkGone
  <1> PICK t : t = git[p].t
    OBVIOUS
  <1>3. ASSUME Commit!Archive(p) PROVE AloneKept(p)
    <2>1. PICK r : MovedAway(p, r)
      BY <1>1, <1>3, ArchiveFacts
    <2>2. UNCHANGED <<index, head, told>> /\ git'[p] = r
      BY <1>1, <1>3, <2>1, ArchiveFacts DEF MovedAway, Moves
    <2>3. r.pc = "list" /\ r.t \in Tasks /\ work[Src(r.t)] # Absent
      BY <2>1 DEF MovedAway
    <2>4. index[Src(r.t)] = Absent => head[Src(r.t)] = Absent
      BY <1>1, <2>3 DEF Staged0
    <2> QED
      BY <1>2, <2>2, <2>3, <2>4 DEF AloneKept, Untracked
  <1>4. ASSUME Commit!AddSession(p) PROVE AloneKept(p)
    <2>1. UNCHANGED told /\ git'[p].cmd = "session"
      BY <1>1, <1>4, AddSessionFacts DEF Moves
    <2> QED
      BY <1>2, <2>1 DEF AloneKept, Untracked
  <1>5. ASSUME Commit!LeaveAlone(p) PROVE AloneKept(p)
    <2>1. IdleNow(p) /\ Tells(p, FALSE)
      BY <1>1, <1>5, LeaveAloneFacts DEF Tells
    <2> QED
      BY <1>1, <2>1, AloneEnds
  <1>6. ASSUME Commit!ListFiles(p) PROVE AloneKept(p)
    <2>1. /\ UNCHANGED <<index, head, told>> /\ git[p].pc = "list"
          /\ git'[p].pc = "add" /\ git'[p].cmd = git[p].cmd /\ git'[p].t = git[p].t
          /\ git'[p].tracked <=> index[Src(git[p].t)] # Absent
      BY <1>1, <1>6, ListFilesFacts DEF Moves, Alone
    <2> QED
      BY <1>1, <1>2, <2>1 DEF AloneKept, Untracked
  <1>7. ASSUME Commit!Add(p) PROVE AloneKept(p)
    <2>1. /\ UNCHANGED <<head, told>> /\ git[p].pc = "add"
          /\ git'[p].pc = IF git[p].cmd = "archive" THEN "rm" ELSE "diff"
          /\ git'[p].cmd = git[p].cmd /\ git'[p].t = git[p].t /\ git'[p].tracked = git[p].tracked
      BY <1>1, <1>7, AddFacts DEF Moves
    <2> QED
      BY <1>1, <1>2, <2>1 DEF AloneKept, Untracked
  <1>8. ASSUME Commit!AddFails(p) PROVE AloneKept(p)
    <2>1. IdleNow(p) /\ UNCHANGED <<work, head>> /\ git[p].pc = "add" /\ Tells(p, ~ git[p].tracked)
      BY <1>1, <1>8, AddFailsFacts
    <2>2. ASSUME ~ git[p].tracked, git[p].cmd = "archive" PROVE Gone(t)'
      <3>1. index[Src(git[p].t)] = Absent /\ head[Src(git[p].t)] = Absent
        BY <1>1, <2>1, <2>2 DEF OutOfIndex, Untracked, Alone
      <3>2. index'[Src(git[p].t)] = Absent
        BY <1>1, <2>2, <3>1, OutStays
      <3> QED
        BY <1>1, <2>1, <2>2, <3>1, <3>2 DEF Gone, Away
    <2> QED
      BY <1>1, <2>1, <2>2, AloneEnds
  <1>9. ASSUME Commit!Remove(p) PROVE AloneKept(p)
    <2>1. /\ Goes(p, "diff") /\ UNCHANGED <<head, told>> /\ git[p].pc = "rm"
          /\ index'[Src(git[p].t)] = Absent
      BY <1>1, <1>9, RemoveFacts DEF Alone
    <2>2. /\ git'[p].pc = "diff" /\ git'[p].cmd = git[p].cmd /\ git'[p].t = git[p].t
          /\ git'[p].tracked = git[p].tracked
      BY <2>1 DEF Goes, Moves
    <2> QED
      BY <1>1, <1>2, <2>1, <2>2 DEF AloneKept, Untracked
  <1>10. ASSUME git[p].pc \in {"diff", "commit"}, git[p].cmd = "archive"
         PROVE  work[Src(git[p].t)] = Absent /\ index[Src(git[p].t)] = Absent
    BY <1>1, <1>10 DEF Away, OutOfIndex
  <1>11. ASSUME Commit!Diff(p) PROVE AloneKept(p)
    <2>1. UNCHANGED <<work, index, head>> /\ git[p].pc = "diff"
      BY <1>1, <1>11, DiffFacts
    <2>2. CASE Goes(p, "commit") /\ UNCHANGED told
      <3>1. /\ git'[p].pc = "commit" /\ git'[p].cmd = git[p].cmd /\ git'[p].t = git[p].t
            /\ git'[p].tracked = git[p].tracked
        BY <2>2 DEF Goes, Moves
      <3> QED
        BY <1>1, <1>2, <2>1, <2>2, <3>1 DEF AloneKept, Untracked
    <2>3. CASE /\ IdleNow(p) /\ Tells(p, TRUE)
               /\ git[p].cmd = "archive" => index[Src(git[p].t)] = head[Src(git[p].t)]
      <3>1. git[p].cmd = "archive" => Gone(t)'
        BY <1>10, <2>1, <2>3 DEF Gone
      <3> QED
        BY <1>1, <2>3, <3>1, AloneEnds
    <2> QED
      BY <1>1, <1>11, <2>2, <2>3, DiffFacts
  <1>12. ASSUME Commit!Commit(p) PROVE AloneKept(p)
    <2>1. /\ IdleNow(p) /\ UNCHANGED <<work, index>> /\ git[p].pc = "commit"
          /\ head' = index /\ Tells(p, TRUE)
      BY <1>1, <1>12, CommitFacts
    <2>2. git[p].cmd = "archive" => Gone(t)'
      BY <1>10, <2>1 DEF Gone
    <2> QED
      BY <1>1, <2>1, <2>2, AloneEnds
  <1>13. ASSUME Commit!CommitFails(p) PROVE AloneKept(p)
    <2>1. /\ IdleNow(p) /\ UNCHANGED <<work, index, head>> /\ git[p].pc = "commit"
          /\ Tells(p, ~ git[p].tracked)
      BY <1>1, <1>13, CommitFailsFacts
    <2>2. ~ git[p].tracked /\ git[p].cmd = "archive" => Gone(t)'
      BY <1>1, <1>10, <2>1 DEF Gone, Untracked
    <2> QED
      BY <1>1, <2>1, <2>2, AloneEnds
  <1> QED
    BY <1>3, <1>4, <1>5, <1>6, <1>7, <1>8, <1>9, <1>11, <1>12, <1>13 DEF Runs

\* An edit of another window does too.
LEMMA AloneNext == ASSUME CommitBase, OutInv, AloneInv, Commit!Next PROVE AloneInv'
  <1>1. Effects
    BY BaseStep DEF BaseKept
  <1>2. SUFFICES ASSUME Alone PROVE Staged0' /\ OkGone' /\ (\A p \in way.procs : Untracked(git[p]))'
    BY <1>1 DEF AloneInv, Alone, Solo, Commit!OneAtATime, Effects
  <1>3. CASE \E t \in Tasks : Commit!Edit(t)
    <2>1. UNCHANGED <<way, index, head, git, told>>
      BY <1>3 DEF Commit!Edit
    <2>2. Staged0' /\ OkGone'
      BY <1>1, <1>2, <2>1, Staged0Kept, GoneStays DEF AloneInv, OkGone
    <2>3. (\A p \in way.procs : Untracked(git[p]))'
      BY <1>2, <2>1 DEF AloneInv, Untracked
    <2> QED
      BY <2>2, <2>3
  <1>4. ASSUME NEW p \in way.procs, Runs(p)
        PROVE  Staged0' /\ OkGone' /\ (\A q \in way.procs : Untracked(git[q]))'
    <2>1. AloneKept(p)
      BY <1>1, <1>2, <1>4, AloneStep
    <2>2. \A q \in way.procs : q = p
      BY <1>2 DEF Alone, Solo, Commit!OneAtATime
    <2> QED
      BY <1>1, <2>1, <2>2 DEF Effects, AloneKept
  <1> QED
    BY <1>3, <1>4 DEF Commit!Next, Runs

-----------------------------------------------------------------------------
(* Nothing but git ls-files fails *)

\* Then nobody knows whether the source was tracked, but nothing is left to fail.
ListsKept == Solo /\ way.faults \subseteq {"list"} /\ ~ way.ignored

\* The children are there until git add runs, and a commit has something to commit.
Sure(r) ==
  /\ Asks(r)
  /\ r.pc = "commit" => index # head

ListInv == ListsKept => OkGone /\ \A p \in way.procs : Sure(git[p])

\* Each step of the one command keeps what "ok" means.
LEMMA ListStep ==
  ASSUME CommitBase, OutInv, ListInv, ListsKept, NEW p \in way.procs, Effects, Runs(p)
  PROVE  OkGone' /\ Sure(git[p])'
  <1>1. Typed /\ Fit(git[p]) /\ Away(git[p]) /\ OutOfIndex(git[p]) /\ Sure(git[p]) /\ OkGone
    BY TypedFacts DEF CommitBase, OutInv, ListInv, ListsKept
  <1>2. told' = told => OkGone'
    BY <1>1, GoneStays DEF OkGone
  <1> PICK t : t = git[p].t
    OBVIOUS
  <1>3. ASSUME IdleNow(p), NEW ok, Tells(p, ok),
               ok /\ git[p].cmd = "archive" => Gone(t)'
        PROVE  OkGone' /\ Sure(git[p])'
    <2>1. git'[p].cmd # "archive" /\ git'[p].pc = "idle"
      BY <1>3, IdleTyped, CommitAssumption DEF IdleNow, Moves, Commit!AutoCommitAssumption
    <2>2. OkGone'
      BY <1>1, <1>3, GoneStays DEF OkGone, Tells
    <2> QED
      BY <2>1, <2>2 DEF Sure, Asks
  <1>4. ASSUME Commit!Archive(p) PROVE OkGone' /\ Sure(git[p])'
    <2>1. PICK r : MovedAway(p, r)
      BY <1>1, <1>4, ArchiveFacts
    <2>2. told' = told /\ git'[p] = r
      BY <1>1, <1>4, <2>1, ArchiveFacts DEF MovedAway, Moves
    <2> QED
      BY <1>2, <2>1, <2>2 DEF Sure, Asks, MovedAway
  <1>5. ASSUME Commit!AddSession(p) PROVE OkGone' /\ Sure(git[p])'
    <2>1. told' = told /\ git'[p].cmd = "session" /\ git'[p].pc = "add"
      BY <1>1, <1>5, AddSessionFacts DEF Moves
    <2> QED
      BY <1>2, <2>1 DEF Sure, Asks
  <1>6. ASSUME Commit!LeaveAlone(p) PROVE OkGone' /\ Sure(git[p])'
    BY <1>1, <1>3, <1>6, LeaveAloneFacts DEF Tells
  <1>7. ASSUME Commit!ListFiles(p) PROVE OkGone' /\ Sure(git[p])'
    <2>1. /\ UNCHANGED <<work, told>> /\ git[p].pc = "list" /\ git'[p].pc = "add"
          /\ git'[p].cmd = git[p].cmd /\ git'[p].kids = git[p].kids
      BY <1>1, <1>7, ListFilesFacts DEF Moves
    <2> QED
      BY <1>1, <1>2, <2>1 DEF Sure, Asks
  <1>8. ASSUME Commit!Add(p) PROVE OkGone' /\ Sure(git[p])'
    <2>1. told' = told /\ git'[p].pc \in {"rm", "diff"}
      BY <1>1, <1>8, AddFacts DEF Moves
    <2> QED
      BY <1>2, <2>1 DEF Sure, Asks
  <1>9. ASSUME Commit!AddFails(p) PROVE OkGone' /\ Sure(git[p])'
    <2>1. /\ IdleNow(p) /\ git[p].pc = "add" /\ Tells(p, ~ git[p].tracked)
          /\ \E S \in Commit!Asked(git[p]) : ~ Commit!Matches(S)
      BY <1>1, <1>9, AddFailsFacts DEF ListsKept
    <2>2. git[p].cmd # "archive"
      BY <1>1, <2>1, AllFound DEF Sure, Asks
    <2> QED
      BY <1>3, <2>1, <2>2
  <1>10. ASSUME Commit!Remove(p) PROVE OkGone' /\ Sure(git[p])'
    <2>1. told' = told /\ git'[p].pc = "diff"
      BY <1>1, <1>10, RemoveFacts DEF Goes, Moves
    <2> QED
      BY <1>2, <2>1 DEF Sure, Asks
  <1>11. ASSUME git[p].pc \in {"diff", "commit"}, git[p].cmd = "archive"
         PROVE  work[Src(t)] = Absent /\ index[Src(t)] = Absent
    BY <1>1, <1>11 DEF Away, OutOfIndex
  <1>12. ASSUME Commit!Diff(p) PROVE OkGone' /\ Sure(git[p])'
    <2>1. UNCHANGED <<work, index, head>> /\ git[p].pc = "diff"
      BY <1>1, <1>12, DiffFacts
    <2>2. CASE Goes(p, "commit") /\ UNCHANGED told
      <3>1. git'[p].pc = "commit" /\ index # head
        BY <1>1, <1>12, <2>2, DiffFacts, LooksAtPaths DEF Goes, Moves
      <3> QED
        BY <1>2, <2>1, <2>2, <3>1 DEF Sure, Asks
    <2>3. CASE /\ IdleNow(p) /\ Tells(p, TRUE)
               /\ git[p].cmd = "archive" => index[Src(git[p].t)] = head[Src(git[p].t)]
      <3>1. git[p].cmd = "archive" => Gone(t)'
        BY <1>11, <2>1, <2>3 DEF Gone
      <3> QED
        BY <1>3, <2>3, <3>1
    <2> QED
      BY <1>1, <1>12, <2>2, <2>3, DiffFacts
  <1>13. ASSUME Commit!Commit(p) PROVE OkGone' /\ Sure(git[p])'
    <2>1. /\ IdleNow(p) /\ UNCHANGED <<work, index>> /\ git[p].pc = "commit"
          /\ head' = index /\ Tells(p, TRUE)
      BY <1>1, <1>13, CommitFacts
    <2>2. git[p].cmd = "archive" => Gone(t)'
      BY <1>11, <2>1 DEF Gone
    <2> QED
      BY <1>3, <2>1, <2>2
  <1>14. ~ Commit!CommitFails(p)
    BY <1>1, CommitFailsFacts DEF Sure, ListsKept
  <1> QED
    BY <1>4, <1>5, <1>6, <1>7, <1>8, <1>9, <1>10, <1>12, <1>13, <1>14 DEF Runs

\* An edit of another window does too.
LEMMA ListNext == ASSUME CommitBase, OutInv, ListInv, Commit!Next PROVE ListInv'
  <1>1. Effects
    BY BaseStep DEF BaseKept
  <1>2. SUFFICES ASSUME ListsKept PROVE OkGone' /\ (\A p \in way.procs : Sure(git[p]))'
    BY <1>1 DEF ListInv, ListsKept, Solo, Commit!OneAtATime, Effects
  <1>3. CASE \E t \in Tasks : Commit!Edit(t)
    <2>1. PICK u \in Tasks : Commit!Edit(u)
      BY <1>3
    <2>2. /\ UNCHANGED <<way, index, head, git, told>> /\ work'[Src(u)] # Absent
          /\ \A q \in Commit!Paths : q # Src(u) => work'[q] = work[q]
      BY <2>1, EditFacts DEF CommitBase, Commit!Edit
    <2>3. \A t \in Tasks : work[Src(t)] # Absent => work'[Src(t)] # Absent
      BY <2>2, PathsApart
    <2>4. \A p \in way.procs : git[p].kids \subseteq Tasks
      BY TypedFacts DEF CommitBase, Commit!Process
    <2>5. OkGone'
      BY <1>1, <1>2, <2>2, GoneStays DEF ListInv, OkGone
    <2> QED
      BY <1>2, <2>2, <2>3, <2>4, <2>5 DEF ListInv, Sure, Asks
  <1>4. ASSUME NEW p \in way.procs, Runs(p)
        PROVE  OkGone' /\ (\A q \in way.procs : Sure(git[q]))'
    <2>1. OkGone' /\ Sure(git[p])'
      BY <1>1, <1>2, <1>4, ListStep
    <2>2. \A q \in way.procs : q = p
      BY <1>2 DEF ListsKept, Solo, Commit!OneAtATime
    <2> QED
      BY <1>1, <2>1, <2>2 DEF Effects
  <1> QED
    BY <1>3, <1>4 DEF Commit!Next, Runs

-----------------------------------------------------------------------------
(* Two commands at a time, which may commit for each other *)

Pair == Commit!AtMostTwo /\ way.faults = {} /\ ~ way.ignored

\* Two archives are of different tasks, and if one wrote the other's task, as a child,
\* then that other one still finds the children it wrote itself.
KeptApart(r, s) ==
  r.cmd = "archive" /\ s.cmd = "archive" =>
    r.t # s.t /\ (r.t \in s.kids => \A c \in r.kids : work[Src(c)] # Absent)

\* The deletion of the task's old directory is staged, and not committed.
Deleted(t) == index[Src(t)] = Absent /\ head[Src(t)] # Absent

\* The command will look at this path, and commit.
Unstaged(r, t) ==
  r.cmd = "archive" /\ \/ t = r.t /\ r.pc \in {"diff", "commit"}
                       \/ t \in r.kids /\ r.pc \in {"rm", "diff", "commit"}

PairsApart == \A p, q \in way.procs : p # q => KeptApart(git[p], git[q])

PairInv ==
  Pair => /\ OkGone
          /\ PairsApart
          /\ \A t \in Tasks : Deleted(t) => \E p \in way.procs : Unstaged(git[p], t)

\* A step of p after which it archives what it archived before, if it archives.
SameArchive(p) ==
  /\ git'[p].cmd = "archive" =>
       git[p].cmd = "archive" /\ git'[p].t = git[p].t /\ git'[p].kids = git[p].kids
  /\ \A t \in Tasks : work[Src(t)] # Absent => work'[Src(t)] # Absent

\* All but archive itself go on with what they archive, and delete no task.
LEMMA KeepsWork ==
  ASSUME CommitBase, NEW p \in way.procs, Runs(p)
  PROVE  SameArchive(p) \/ Commit!Archive(p)
  <1>1. Typed /\ Fit(git[p])
    BY TypedFacts DEF CommitBase
  <1>2. ASSUME IdleNow(p), UNCHANGED work PROVE SameArchive(p)
    BY <1>2, IdleTyped, CommitAssumption DEF IdleNow, Moves, SameArchive, Commit!AutoCommitAssumption
  <1>3. ASSUME NEW pc, Goes(p, pc), UNCHANGED work PROVE SameArchive(p)
    BY <1>3 DEF Goes, Moves, SameArchive
  <1>4. ASSUME Commit!AddSession(p) PROVE SameArchive(p)
    <2>1. git'[p].cmd = "session"
      BY <1>1, <1>4, AddSessionFacts DEF Moves
    <2>2. \A t \in Tasks : work'[Src(t)] = work[Src(t)]
      BY <1>1, <1>4, AddSessionFacts, PathsApart
    <2> QED
      BY <2>1, <2>2 DEF SameArchive
  <1>5. ASSUME Commit!ListFiles(p) PROVE SameArchive(p)
    BY <1>1, <1>5, ListFilesFacts DEF Moves, SameArchive
  <1>6. ASSUME Commit!Add(p) PROVE SameArchive(p)
    BY <1>1, <1>6, AddFacts DEF Moves, SameArchive
  <1>7. ASSUME Commit!LeaveAlone(p) PROVE SameArchive(p)
    BY <1>1, <1>2, <1>7, LeaveAloneFacts
  <1>8. ASSUME Commit!AddFails(p) PROVE SameArchive(p)
    BY <1>1, <1>2, <1>8, AddFailsFacts
  <1>9. ASSUME Commit!Remove(p) PROVE SameArchive(p)
    BY <1>1, <1>3, <1>9, RemoveFacts
  <1>10. ASSUME Commit!Diff(p) PROVE SameArchive(p)
    BY <1>1, <1>2, <1>3, <1>10, DiffFacts
  <1>11. ASSUME Commit!Commit(p) \/ Commit!CommitFails(p) PROVE SameArchive(p)
    BY <1>1, <1>2, <1>11, CommitFacts, CommitFailsFacts
  <1> QED
    BY <1>4, <1>5, <1>6, <1>7, <1>8, <1>9, <1>10, <1>11 DEF Runs

\* The two commands stay apart: a task is archived once, while it is active.
LEMMA ApartStep ==
  ASSUME CommitBase, PairsApart, Commit!AtMostTwo, NEW p \in way.procs, UNCHANGED way,
         \A q \in Pairs : q # p => git'[q] = git[q],
         SameArchive(p) \/ Commit!Archive(p)
  PROVE  PairsApart'
  <1>1. SUFFICES ASSUME NEW q \in way.procs, q # p
                 PROVE  KeptApart(git[p], git[q])' /\ KeptApart(git[q], git[p])'
    BY DEF PairsApart, Commit!AtMostTwo
  <1>2. /\ git'[q] = git[q] /\ KeptApart(git[p], git[q]) /\ KeptApart(git[q], git[p])
        /\ Away(git[q]) /\ Fit(git[p]) /\ Fit(git[q]) /\ git[p] \in Commit!Process
        /\ git[q] \in Commit!Process
    BY <1>1, TypedFacts DEF PairsApart, CommitBase
  <1>3. git[p].kids \subseteq Tasks /\ git[q].kids \subseteq Tasks
    BY <1>2 DEF Commit!Process
  <1>4. CASE SameArchive(p)
    BY <1>2, <1>3, <1>4 DEF SameArchive, KeptApart
  <1>5. CASE Commit!Archive(p)
    <2>1. PICK r : MovedAway(p, r)
      BY <1>5, ArchiveFacts DEF CommitBase
    <2>2. git'[p] = r /\ r.cmd = "archive"
      BY <2>1 DEF MovedAway, Moves
    <2>3. git[q].cmd = "archive" => r.t # git[q].t /\ git[q].t \notin r.kids
      BY <1>2, <2>1 DEF MovedAway, Away
    <2>4. \A c \in r.kids : work'[Src(c)] # Absent
      BY <2>1 DEF MovedAway
    <2> QED
      BY <1>2, <2>2, <2>3, <2>4 DEF KeptApart
  <1> QED
    BY <1>4, <1>5

\* What a step of p has to show: it takes no staged deletion from who commits it.
PairKept(p) ==
  /\ OkGone'
  /\ \A t \in Tasks : Deleted(t)' => Unstaged(git[p], t)' \/ (Deleted(t) /\ ~ Unstaged(git[p], t))

\* A staged deletion stays one while neither tree changes.
LEMMA SameDeleted ==
  ASSUME UNCHANGED <<index, head>>
  PROVE  \A t \in Tasks : Deleted(t)' => Deleted(t)
  BY DEF Deleted

\* A source that was not tracked has left the last commit: else the other command would
\* be committing its deletion, and would have let this one find all that it asks for.
LEMMA NotTracked ==
  ASSUME CommitBase, OutInv, PairInv, Pair, NEW p \in way.procs, Commit!AddFails(p),
         ~ git[p].tracked, git[p].cmd = "archive"
  PROVE  Gone(git[p].t)
  <1>1. Typed /\ Fit(git[p]) /\ Away(git[p]) /\ OutOfIndex(git[p]) /\ git[p].t \in Tasks
    BY TypedFacts DEF CommitBase, OutInv, Pair, Fit
  <1>2. git[p].pc = "add" /\ (\E S \in Commit!Asked(git[p]) : ~ Commit!Matches(S))
    BY <1>1, AddFailsFacts DEF Pair
  <1>3. work[Src(git[p].t)] = Absent /\ index[Src(git[p].t)] = Absent
    BY <1>1, <1>2 DEF Away, OutOfIndex, Pair
  <1>4. ASSUME head[Src(git[p].t)] # Absent PROVE FALSE
    <2>1. PICK q \in way.procs : Unstaged(git[q], git[p].t)
      BY <1>1, <1>3, <1>4 DEF PairInv, Deleted
    <2>2. q # p
      BY <1>2, <2>1 DEF Unstaged
    <2>3. \A c \in git[p].kids : work[Src(c)] # Absent
      BY <2>1, <2>2 DEF PairInv, PairsApart, KeptApart, Unstaged
    <2> QED
      BY <1>1, <1>2, <2>3, AllFound
  <1> QED
    BY <1>3, <1>4 DEF Gone

\* Each step of the two keeps what "ok" means.
LEMMA PairStep ==
  ASSUME CommitBase, OutInv, PairInv, Pair, NEW p \in way.procs, Effects, Runs(p)
  PROVE  PairKept(p)
  <1>1. Typed /\ Fit(git[p]) /\ Away(git[p]) /\ OutOfIndex(git[p]) /\ OkGone
        /\ git[p] \in Commit!Process
    BY TypedFacts DEF CommitBase, OutInv, PairInv, Pair
  <1>2. told' = told => OkGone'
    BY <1>1, GoneStays DEF OkGone
  <1>3. ASSUME NEW ok, Tells(p, ok), NEW t, t = git[p].t, ok /\ git[p].cmd = "archive" => Gone(t)'
        PROVE  OkGone'
    BY <1>1, <1>3, GoneStays DEF OkGone, Tells
  <1>4. ASSUME UNCHANGED <<index, head>>, git[p].pc \in {"idle", "list", "add"}
        PROVE  \A t \in Tasks : Deleted(t)' => Deleted(t) /\ ~ Unstaged(git[p], t)
    BY <1>4, SameDeleted DEF Unstaged
  <1> PICK t : t = git[p].t
    OBVIOUS
  <1>5. ASSUME Commit!Archive(p) PROVE PairKept(p)
    BY <1>1, <1>2, <1>4, <1>5, ArchiveFacts DEF PairKept
  <1>6. ASSUME Commit!AddSession(p) PROVE PairKept(p)
    BY <1>1, <1>2, <1>4, <1>6, AddSessionFacts DEF PairKept
  <1>7. ASSUME Commit!LeaveAlone(p) PROVE PairKept(p)
    BY <1>1, <1>2, <1>4, <1>7, LeaveAloneFacts DEF PairKept
  <1>8. ASSUME Commit!ListFiles(p) PROVE PairKept(p)
    BY <1>1, <1>2, <1>4, <1>8, ListFilesFacts DEF PairKept
  <1>9. ASSUME Commit!Add(p) PROVE PairKept(p)
    <2>1. /\ UNCHANGED <<work, head, told>> /\ git[p].pc = "add" /\ Restaged(p)
          /\ git'[p].pc = IF git[p].cmd = "archive" THEN "rm" ELSE "diff"
          /\ git'[p].cmd = git[p].cmd /\ git'[p].kids = git[p].kids
      BY <1>1, <1>9, AddFacts DEF Moves
    <2>2. ASSUME NEW u \in Tasks, Deleted(u)' PROVE Unstaged(git[p], u)' \/ Deleted(u)
      <3>1. CASE Src(u) \notin UNION Commit!Asked(git[p])
        BY <2>1, <2>2, <3>1, PathsApart DEF Restaged, Deleted
      <3>2. CASE Src(u) \in UNION Commit!Asked(git[p])
        <4>1. work[Src(u)] = Absent
          BY <2>1, <2>2, <3>2, PathsApart DEF Restaged, Deleted, Pair
        <4>2. git[p].cmd = "archive" /\ u \in git[p].kids
          <5>1. CASE git[p].cmd = "archive"
            BY <1>1, <3>2, <5>1, PathsApart DEF Commit!Asked, Commit!ArchivePaths, Commit!ArchiveDir, Src, Dst,
               Commit!Process
          <5>2. CASE git[p].cmd # "archive"
            BY <1>1, <3>2, <4>1, <5>2, PathsApart DEF Commit!Asked, Commit!SessionPaths, Src, Absent
          <5> QED
            BY <5>1, <5>2
        <4> QED
          BY <2>1, <4>2 DEF Unstaged
      <3> QED
        BY <3>1, <3>2
    <2>3. \A u \in Tasks : ~ Unstaged(git[p], u)
      BY <2>1 DEF Unstaged
    <2> QED
      BY <1>2, <2>1, <2>2, <2>3 DEF PairKept
  <1>10. ASSUME Commit!AddFails(p) PROVE PairKept(p)
    <2>1. /\ UNCHANGED <<work, index, head>> /\ git[p].pc = "add" /\ Tells(p, ~ git[p].tracked)
      BY <1>1, <1>10, AddFailsFacts DEF Pair
    <2>2. ~ git[p].tracked /\ git[p].cmd = "archive" => Gone(t)'
      BY <1>10, <2>1, NotTracked DEF Gone
    <2> QED
      BY <1>3, <1>4, <2>1, <2>2 DEF PairKept
  <1>11. ASSUME Commit!Remove(p) PROVE PairKept(p)
    <2>1. /\ Goes(p, "diff") /\ UNCHANGED <<head, told>> /\ git[p].pc = "rm"
          /\ \A q \in Commit!Paths : q # Src(git[p].t) => index'[q] = index[q]
      BY <1>1, <1>11, RemoveFacts DEF Pair
    <2>2. /\ git'[p].pc = "diff" /\ git'[p].cmd = git[p].cmd /\ git'[p].t = git[p].t
          /\ git'[p].kids = git[p].kids
      BY <2>1 DEF Goes, Moves
    <2>3. git[p].cmd = "archive"
      BY <1>1, <2>1 DEF Fit
    <2>4. ASSUME NEW u \in Tasks, Deleted(u)'
          PROVE  Unstaged(git[p], u)' \/ (Deleted(u) /\ ~ Unstaged(git[p], u))
      <3>1. CASE u = git[p].t \/ u \in git[p].kids
        BY <2>2, <2>3, <3>1 DEF Unstaged
      <3>2. CASE u # git[p].t /\ u \notin git[p].kids
        BY <1>1, <2>1, <2>3, <2>4, <3>2, PathsApart DEF Deleted, Unstaged, Fit
      <3> QED
        BY <3>1, <3>2
    <2> QED
      BY <1>2, <2>1, <2>4 DEF PairKept
  <1>12. ASSUME Commit!Diff(p) PROVE PairKept(p)
    <2>1. UNCHANGED <<work, index, head>> /\ git[p].pc = "diff"
      BY <1>1, <1>12, DiffFacts
    <2>2. CASE Goes(p, "commit") /\ UNCHANGED told
      <3>1. /\ git'[p].pc = "commit" /\ git'[p].cmd = git[p].cmd /\ git'[p].t = git[p].t
            /\ git'[p].kids = git[p].kids
        BY <2>2 DEF Goes, Moves
      <3>2. \A u \in Tasks : Unstaged(git[p], u) => Unstaged(git[p], u)'
        BY <2>1, <3>1 DEF Unstaged
      <3> QED
        BY <1>2, <2>1, <2>2, <3>2, SameDeleted DEF PairKept
    <2>3. CASE /\ IdleNow(p) /\ Tells(p, TRUE)
               /\ \A q \in git[p].paths : index[q] = head[q]
               /\ git[p].cmd = "archive" => index[Src(git[p].t)] = head[Src(git[p].t)]
      <3>1. git[p].cmd = "archive" => Gone(t)'
        BY <1>1, <2>1, <2>3 DEF Gone, Away, OutOfIndex
      <3>2. ASSUME NEW u \in Tasks, Unstaged(git[p], u) PROVE ~ Deleted(u)
        <4>1. git[p].cmd = "archive" /\ (u = git[p].t \/ Src(u) \in git[p].paths)
          BY <1>1, <2>1, <3>2 DEF Unstaged, Fit
        <4> QED
          BY <2>3, <4>1 DEF Deleted
      <3> QED
        BY <1>3, <2>1, <2>3, <3>1, <3>2, SameDeleted DEF PairKept
    <2> QED
      BY <1>1, <1>12, <2>2, <2>3, DiffFacts
  <1>13. ASSUME Commit!Commit(p) PROVE PairKept(p)
    <2>1. /\ UNCHANGED <<work, index>> /\ git[p].pc = "commit" /\ head' = index /\ Tells(p, TRUE)
      BY <1>1, <1>13, CommitFacts
    <2>2. git[p].cmd = "archive" => Gone(t)'
      BY <1>1, <2>1 DEF Gone, Away, OutOfIndex
    <2> QED
      BY <1>3, <2>1, <2>2 DEF PairKept, Deleted
  <1>14. ASSUME Commit!CommitFails(p) PROVE PairKept(p)
    <2>1. /\ UNCHANGED <<work, index, head>> /\ git[p].pc = "commit" /\ index = head
          /\ Tells(p, ~ git[p].tracked)
      BY <1>1, <1>14, CommitFailsFacts DEF Pair
    <2>2. git[p].cmd = "archive" => Gone(t)'
      BY <1>1, <2>1 DEF Gone, Away, OutOfIndex
    <2> QED
      BY <1>3, <2>1, <2>2 DEF PairKept, Deleted
  <1> QED
    BY <1>5, <1>6, <1>7, <1>8, <1>9, <1>10, <1>11, <1>12, <1>13, <1>14 DEF Runs

\* And every deletion that is staged still has a command that will commit it.
LEMMA PairNext == ASSUME CommitBase, OutInv, PairInv, Commit!Next PROVE PairInv'
  <1>1. Effects
    BY BaseStep DEF BaseKept
  <1>2. SUFFICES ASSUME Pair
                 PROVE  /\ OkGone' /\ PairsApart'
                        /\ \A t \in Tasks : Deleted(t)' => (\E p \in way.procs : Unstaged(git[p], t))'
    BY <1>1 DEF PairInv, Pair, Commit!AtMostTwo, Effects
  <1>3. CASE \E u \in Tasks : Commit!Edit(u)
    <2>1. PICK u \in Tasks : Commit!Edit(u)
      BY <1>3
    <2>2. UNCHANGED <<way, index, head, git, told>>
      BY <2>1 DEF Commit!Edit
    <2>3. OkGone'
      BY <1>1, <1>2, <2>2, GoneStays DEF PairInv, OkGone
    <2>4. \A t \in Tasks : work[Src(t)] # Absent => work'[Src(t)] # Absent
      BY <2>1, EditFacts, PathsApart DEF CommitBase
    <2>5. \A p \in way.procs : git[p].kids \subseteq Tasks
      BY TypedFacts DEF CommitBase, Commit!Process
    <2>6. PairsApart'
      BY <1>2, <2>2, <2>4, <2>5 DEF PairInv, PairsApart, KeptApart
    <2>7. \A t \in Tasks : Deleted(t)' => (\E p \in way.procs : Unstaged(git[p], t))'
      BY <1>2, <2>2 DEF PairInv, Deleted, Unstaged
    <2> QED
      BY <2>3, <2>6, <2>7
  <1>4. ASSUME NEW p \in way.procs, Runs(p)
        PROVE  /\ OkGone' /\ PairsApart'
               /\ \A t \in Tasks : Deleted(t)' => (\E q \in way.procs : Unstaged(git[q], t))'
    <2>1. PairKept(p)
      BY <1>1, <1>2, <1>4, PairStep
    <2>3. UNCHANGED way /\ \A q \in Pairs : q # p => git'[q] = git[q]
      BY <1>4, OtherCommands
    <2>4. SameArchive(p) \/ Commit!Archive(p)
      BY <1>4, KeepsWork
    <2>5. PairsApart'
      BY <1>2, <2>3, <2>4, ApartStep DEF PairInv, Pair
    <2>6. ASSUME NEW t \in Tasks, Deleted(t)' PROVE (\E q \in way.procs : Unstaged(git[q], t))'
      <3>1. CASE Unstaged(git[p], t)'
        BY <2>3, <3>1
      <3>2. CASE Deleted(t) /\ ~ Unstaged(git[p], t)
        <4>1. PICK q \in way.procs : Unstaged(git[q], t)
          BY <1>2, <3>2 DEF PairInv
        <4>2. git'[q] = git[q]
          BY <2>3, <3>2, <4>1, TypedFacts DEF CommitBase
        <4>3. Unstaged(git[q], t)'
          BY <4>1, <4>2 DEF Unstaged
        <4> QED
          BY <2>3, <4>3
      <3> QED
        BY <2>1, <2>6, <3>1, <3>2 DEF PairKept
    <2> QED
      BY <2>1, <2>5, <2>6 DEF PairKept
  <1> QED
    BY <1>3, <1>4 DEF Commit!Next, Runs

-----------------------------------------------------------------------------
(* The theorems *)

\* The inductive invariant.
Committing == CommitBase /\ OnceInv /\ ScopeInv /\ OutInv /\ AloneInv /\ ListInv /\ PairInv

CommitInv == part = "commit" => Committing

\* It holds at first,
LEMMA CommitStarts == ASSUME Commit!Init PROVE Committing
  <1>1. index = head /\ told = [t \in Tasks |-> None]
    BY DEF Commit!Init
  <1>2. \A p \in way.procs : git[p].cmd = None /\ git[p].pc = "idle"
    BY BaseInit, IdleTyped, TypedFacts DEF Commit!Init, CommitBase
  <1>3. None # "archive" /\ None # "ok"
    BY CommitAssumption DEF Commit!AutoCommitAssumption
  <1>4. OkGone
    BY <1>1, <1>3 DEF OkGone
  <1>5. OutInv
    BY <1>2, <1>3 DEF OutInv, OutOfIndex
  <1>6. AloneInv
    BY <1>1, <1>2, <1>3, <1>4 DEF AloneInv, Staged0, Untracked
  <1>7. ListInv
    BY <1>2, <1>3, <1>4 DEF ListInv, Sure, Asks
  <1>8. PairInv
    BY <1>1, <1>2, <1>3, <1>4 DEF PairInv, PairsApart, KeptApart, Deleted
  <1> QED
    BY <1>5, <1>6, <1>7, <1>8, BaseInit, OnceInit, ScopeInit DEF Committing

\* every step of the commands keeps it,
LEMMA CommitGoes == ASSUME Committing, Commit!Next PROVE Committing'
  BY BaseStep, OnceNext, ScopeNext, OutNext, AloneNext, ListNext, PairNext
  DEF Committing, BaseKept

\* and so does a step that leaves them alone.
LEMMA CommitStays == ASSUME Committing, UNCHANGED commit PROVE Committing'
  <1> USE DEF commit
  <1>1. CommitBase'
    BY DEF Committing, CommitBase, Typed, Commit!TypeOK, Fit, Away
  <1>2. OnceInv'
    BY DEF Committing, OnceInv, Places, Sound, Solo, Commit!OneAtATime, Commit!HeadHasTaskOnce,
       OnceBy, Asks, Leaving
  <1>3. ScopeInv'
    BY DEF Committing, ScopeInv, Kept, Solo, Commit!OneAtATime, ScopeOf
  <1>4. OutInv'
    BY DEF Committing, OutInv, OutOfIndex
  <1>5. AloneInv'
    BY DEF Committing, AloneInv, Alone, Solo, Commit!OneAtATime, Staged0, OkGone, Gone, Untracked
  <1>6. ListInv'
    BY DEF Committing, ListInv, ListsKept, Solo, Commit!OneAtATime, OkGone, Gone, Sure, Asks
  <1>7. PairInv'
    BY DEF Committing, PairInv, Pair, Commit!AtMostTwo, OkGone, Gone, PairsApart, KeptApart, Deleted,
       Unstaged
  <1> QED
    BY <1>1, <1>2, <1>3, <1>4, <1>5, <1>6, <1>7 DEF Committing

\* For the whole of the workflow.
LEMMA CommitStart == Start => CommitInv
  BY CommitStarts DEF Start, CommitInv

LEMMA CommitStep == CommitInv /\ [StepPart]_all => CommitInv'
  BY CommitGoes, CommitStays
  DEF CommitInv, StepPart, StepStore, StepCommit, StepJournal, StepIdentity, all

LEMMA CommitHolds == Workflow => []CommitInv
  BY CommitStart, CommitStep, PTL DEF Workflow

\* _auto_commit_archive: an archive that reported success has left nothing of its source
\* in the last commit.
THEOREM NothingLeft == Workflow => []ArchiveCommitted
  <1>1. CommitInv => ArchiveCommitted
    BY DEF CommitInv, Committing, ArchiveCommitted, Commit!OkMeansSourceGone, AloneInv, Alone, ListInv, ListsKept,
       Solo, PairInv, Pair, OkGone, Gone, Src, Absent
  <1> QED
    BY <1>1, CommitHolds, PTL

\* No commit of _auto_commit_archive has a task both in tasks/ and in the archive.
THEOREM InOnePlace == Workflow => []CommittedOnce
  <1>1. CommitInv => CommittedOnce
    <2> SUFFICES ASSUME CommitInv, part = "commit" PROVE Commit!HeadHasTaskOnce
      BY DEF CommittedOnce
    <2>1. CASE Sound
      BY <2>1 DEF CommitInv, Committing, OnceInv
    <2>2. CASE ~ Sound
      BY <2>2 DEF Sound, Solo, Commit!HeadHasTaskOnce
    <2> QED
      BY <2>1, <2>2
  <1> QED
    BY <1>1, CommitHolds, PTL

\* safe_commit.py: a commit changes the paths of the command that made it, and nothing
\* that another window wrote.
THEOREM ScopeKept == Workflow => NothingBundled
  <1>1. CommitInv /\ [StepPart]_all => [part = "commit" => Commit!KeepsToItsScope]_all
    <2> SUFFICES ASSUME CommitInv, StepPart, part = "commit" PROVE Commit!KeepsToItsScope
      OBVIOUS
    <2>1. Commit!Next
      BY DEF StepPart, StepStore, StepCommit, StepJournal, StepIdentity
    <2> QED
      BY <2>1, ScopeHolds DEF CommitInv, Committing
  <1> QED
    BY <1>1, CommitHolds, PTL DEF Workflow, NothingBundled
=============================================================================
