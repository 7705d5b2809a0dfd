----------------------------- MODULE TaskStore -----------------------------
(***************************************************************************)
(* The task directories of .trellis/tasks and the session pointers of      *)
(* .trellis/.runtime/sessions, as the commands of task.py change them:     *)
(* create, start, finish, archive, add-subtask, remove-subtask and the     *)
(* set-* commands (common/task_store.py, common/active_task.py, task.py).  *)
(*                                                                         *)
(* Every command is a process of its own, started from an editor window,   *)
(* and nothing is locked: a command reads task.json files, changes what it *)
(* read and writes it back.  One action is one such access to the disk.    *)
(***************************************************************************)
EXTENDS Naturals, FiniteSets

CONSTANTS
  Tasks,      \* names of task directories
  Windows,    \* windows that have a context key
  Procs,      \* the commands that may run at a time
  None,
  Uses        \* the ways in which the commands are used

Commands == {"create", "start", "finish", "archive", "link", "unlink", "set"}

\* Accesses to the disk that may fail and are passed over: writing a task.json, writing
\* a session file, deleting one.  (Where any other fails the command raises, and ends as
\* if it were killed there.)
Faults == {"json", "session", "unlink"}

\* Which tasks, windows and commands occur, whether a command may die half way, whether
\* create, link and unlink are only asked for what makes sense, and what may fail.
Use == [tasks : SUBSET Tasks, windows : SUBSET Windows, commands : SUBSET Commands,
        crashes : BOOLEAN, careful : BOOLEAN, faults : SUBSET Faults]

\* A session file whose rewrite was cut short: it is there but cannot be parsed.
Torn == "torn"

ASSUME TaskStoreAssumption ==
  /\ None \notin Tasks \cup Windows \cup {Torn}
  /\ Torn \notin Tasks
  /\ Uses \subseteq Use

VARIABLES
  use,       \* the way this behaviour uses them
  active,    \* the directories under tasks/
  archived,  \* the directories under tasks/archive/<month>/
  json,      \* task -> the task.json of its directory under tasks/
  shelved,   \* task -> the task.json that was moved to the archive
  ptr,       \* window -> its session file: the current_task, Torn, or None for no file
  proc       \* process -> the command it runs

vars == <<use, active, archived, json, shelved, ptr, proc>>
disk == <<use, active, archived, json, shelved, ptr>>

-----------------------------------------------------------------------------
(* Contents *)

\* Of a task.json the fields the commands decide by; extra stands for branch,
\* base_branch and scope, which are only ever set.
Json == [status : {"planning", "in_progress", "completed"},
         parent : Tasks \cup {None}, children : SUBSET Tasks, extra : BOOLEAN]

NoJson == [status |-> "none", parent |-> None, children |-> {}, extra |-> FALSE]

\* What create writes.
Fresh == [status |-> "planning", parent |-> None, children |-> {}, extra |-> FALSE]

Readable(t) == json[t] # NoJson

\* write_json: a temporary file next to the target replaces it.  When that fails, as it
\* does when the directory has gone, the target is as it was, and no caller goes by the
\* result.
WriteJson(t, new) ==
  \/ t \in active /\ json' = [json EXCEPT ![t] = new]
  \/ (t \notin active \/ "json" \in use.faults) /\ UNCHANGED json

\* A session file is truncated and rewritten: what fails or is killed leaves the old one,
\* or one without its contents.
CutShort(w) == UNCHANGED ptr \/ ptr' = [ptr EXCEPT ![w] = Torn]

\* _remove_file: no caller asks whether it succeeded.
RemoveFile(w) ==
  \/ ptr' = [ptr EXCEPT ![w] = None]
  \/ "unlink" \in use.faults /\ UNCHANGED ptr

-----------------------------------------------------------------------------
(* Processes *)

PCs == {"idle", "c_dir", "c_json", "c_read", "c_parent", "c_child", "c_point",
        "s_point", "s_read", "s_write", "f_unlink",
        "a_status", "a_child", "a_orphan", "a_clear", "a_unlink",
        "l_parent", "l_child", "u_parent", "u_child", "set"}

Process == [pc : PCs,
            win : Windows \cup {None},   \* the window, None without a context key
            t : Tasks \cup {None},       \* the task
            o : Tasks \cup {None},       \* the other one: a parent or a child
            data : Json \cup {NoJson},   \* what was read of t
            odata : Json \cup {NoJson},  \* what was read of o
            todo : SUBSET Tasks,         \* the children archive has yet to free
            wins : SUBSET Windows]       \* the session files it has yet to look at

Idle == [pc |-> "idle", win |-> None, t |-> None, o |-> None, data |-> NoJson,
         odata |-> NoJson, todo |-> {}, wins |-> {}]

Goto(p, r) == proc' = [proc EXCEPT ![p] = r]
Step(p, pc) == Goto(p, [proc[p] EXCEPT !.pc = pc])

TypeOK ==
  /\ use \in Uses
  /\ active \subseteq Tasks
  /\ archived \subseteq Tasks
  /\ json \in [Tasks -> Json \cup {NoJson}]
  /\ shelved \in [Tasks -> Json \cup {NoJson}]
  /\ ptr \in [Windows -> Tasks \cup {Torn, None}]
  /\ proc \in [Procs -> Process]
  /\ \A t \in Tasks \ active : json[t] = NoJson

Init ==
  /\ use \in Uses
  /\ active = {}
  /\ archived = {}
  /\ json = [t \in Tasks |-> NoJson]
  /\ shelved = [t \in Tasks |-> NoJson]
  /\ ptr = [w \in Windows |-> None]
  /\ proc = [p \in Procs |-> Idle]

Begin(p, command, r) ==
  /\ command \in use.commands
  /\ proc[p].pc = "idle"
  /\ Goto(p, r)
  /\ UNCHANGED disk

-----------------------------------------------------------------------------
(* task.py create *)

\* Refused for a name that was archived.  win is None with --no-start too.
BeginCreate(p) ==
  \E w \in use.windows \cup {None}, t \in use.tasks \ archived, o \in use.tasks \cup {None} :
    /\ use.careful => t \notin active /\ o # t
    /\ Begin(p, "create", [Idle EXCEPT !.pc = "c_dir", !.win = w, !.t = t, !.o = o])

\* An existing directory only draws a warning.
CreateDir(p) ==
  /\ proc[p].pc = "c_dir"
  /\ active' = active \cup {proc[p].t}
  /\ Step(p, "c_json")
  /\ UNCHANGED <<use, archived, json, shelved, ptr>>

\* task.json, whatever was there before; then prd.md and the jsonl seeds, which
\* raise when the directory has gone.
CreateJson(p) ==
  LET r == proc[p] IN
  /\ r.pc = "c_json"
  /\ WriteJson(r.t, Fresh)
  /\ IF r.t \in active
       THEN Step(p, IF r.o = None THEN "c_point" ELSE "c_read")
       ELSE Goto(p, Idle)
  /\ UNCHANGED <<use, active, archived, shelved, ptr>>

\* --parent: nothing is linked to a parent without a task.json.
CreateReadParent(p) ==
  LET r == proc[p] IN
  /\ r.pc = "c_read"
  /\ IF Readable(r.o)
       THEN Goto(p, [r EXCEPT !.pc = "c_parent", !.odata = json[r.o]])
       ELSE Step(p, "c_point")
  /\ UNCHANGED disk

CreateWriteParent(p) ==
  LET r == proc[p] IN
  /\ r.pc = "c_parent"
  /\ IF r.t \in r.odata.children
       THEN UNCHANGED json
       ELSE WriteJson(r.o, [r.odata EXCEPT !.children = @ \cup {r.t}])
  /\ Step(p, "c_child")
  /\ UNCHANGED <<use, active, archived, shelved, ptr>>

\* The record of the new task is written again, from memory.
CreateWriteChild(p) ==
  LET r == proc[p] IN
  /\ r.pc = "c_child"
  /\ WriteJson(r.t, [Fresh EXCEPT !.parent = r.o])
  /\ Step(p, "c_point")
  /\ UNCHANGED <<use, active, archived, shelved, ptr>>

\* set_active_task when there is a context key; the hooks run last.
CreatePoint(p) ==
  LET r == proc[p] IN
  /\ r.pc = "c_point"
  /\ IF r.win # None /\ r.t \in active
       THEN ptr' = [ptr EXCEPT ![r.win] = r.t] \/ ("session" \in use.faults /\ CutShort(r.win))
       ELSE UNCHANGED ptr
  /\ Goto(p, Idle)
  /\ UNCHANGED <<use, active, archived, json, shelved>>

-----------------------------------------------------------------------------
(* task.py start and finish *)

\* Without a context key the pointer is skipped and only the status moves on.
BeginStart(p) ==
  \E w \in use.windows \cup {None}, t \in active :
    Begin(p, "start", [Idle EXCEPT !.pc = IF w = None THEN "s_read" ELSE "s_point",
                                   !.win = w, !.t = t])

\* The command fails where the pointer cannot be written.
StartPoint(p) ==
  LET r == proc[p] IN
  /\ r.pc = "s_point"
  /\ \/ r.t \in active /\ ptr' = [ptr EXCEPT ![r.win] = r.t] /\ Step(p, "s_read")
     \/ r.t \in active /\ "session" \in use.faults /\ CutShort(r.win) /\ Goto(p, Idle)
     \/ r.t \notin active /\ UNCHANGED ptr /\ Goto(p, Idle)
  /\ UNCHANGED <<use, active, archived, json, shelved>>

StartRead(p) ==
  LET r == proc[p] IN
  /\ r.pc = "s_read"
  /\ Goto(p, IF json[r.t].status = "planning"
               THEN [r EXCEPT !.pc = "s_write", !.data = json[r.t]]
               ELSE Idle)
  /\ UNCHANGED disk

StartWrite(p) ==
  LET r == proc[p] IN
  /\ r.pc = "s_write"
  /\ WriteJson(r.t, [r.data EXCEPT !.status = "in_progress"])
  /\ Goto(p, Idle)
  /\ UNCHANGED <<use, active, archived, shelved, ptr>>

\* clear_active_task deletes the file of the command's own window, whatever task it
\* found (SessionIdentity) and says it cleared.  Without a context key it does nothing.
BeginFinish(p) ==
  \E w \in use.windows : Begin(p, "finish", [Idle EXCEPT !.pc = "f_unlink", !.win = w])

FinishUnlink(p) ==
  /\ proc[p].pc = "f_unlink"
  /\ RemoveFile(proc[p].win)
  /\ Goto(p, Idle)
  /\ UNCHANGED <<use, active, archived, json, shelved>>

-----------------------------------------------------------------------------
(* task.py archive *)

\* clear_task_from_sessions lists the session files first.
SessionFiles == {w \in Windows : ptr[w] # None}

\* The task.json is read; a directory without one is archived as it is.
BeginArchive(p) ==
  \E t \in active :
    Begin(p, "archive",
          IF Readable(t) THEN [Idle EXCEPT !.pc = "a_status", !.t = t, !.data = json[t]]
                         ELSE [Idle EXCEPT !.pc = "a_clear", !.t = t, !.wins = SessionFiles])

SkipStatus(p) ==    \* mutant: the record is moved as it is
  LET r == proc[p] IN
  /\ r.pc = "a_status"
  /\ Goto(p, [r EXCEPT !.pc = "a_child", !.todo = r.data.children])
  /\ UNCHANGED disk

ArchiveStatus(p) ==
  LET r == proc[p] IN
  /\ r.pc = "a_status"
  /\ WriteJson(r.t, [r.data EXCEPT !.status = "completed"])
  /\ Goto(p, [r EXCEPT !.pc = "a_child", !.todo = r.data.children])
  /\ UNCHANGED <<use, active, archived, shelved, ptr>>

\* The next child is read; one that is not active is passed over.
ArchiveReadChild(p) ==
  LET r == proc[p] IN
  /\ r.pc = "a_child"
  /\ \E c \in r.todo :
       Goto(p, IF Readable(c)
                THEN [r EXCEPT !.pc = "a_orphan", !.o = c, !.odata = json[c], !.todo = @ \ {c}]
                ELSE [r EXCEPT !.todo = @ \ {c}])
  /\ UNCHANGED disk

KeepParent(p) ==    \* mutant: the children keep their parent field
  LET r == proc[p] IN
  /\ r.pc = "a_orphan"
  /\ Goto(p, [r EXCEPT !.pc = "a_child", !.o = None, !.odata = NoJson])
  /\ UNCHANGED disk

ArchiveOrphan(p) ==
  LET r == proc[p] IN
  /\ r.pc = "a_orphan"
  /\ WriteJson(r.o, [r.odata EXCEPT !.parent = None])
  /\ Goto(p, [r EXCEPT !.pc = "a_child", !.o = None, !.odata = NoJson])
  /\ UNCHANGED <<use, active, archived, shelved, ptr>>

ArchiveChildrenDone(p) ==
  /\ proc[p].pc = "a_child"
  /\ proc[p].todo = {}
  /\ Goto(p, [proc[p] EXCEPT !.pc = "a_clear", !.wins = SessionFiles])
  /\ UNCHANGED disk

\* Each session file is read, and deleted if it names the task.
ArchiveLook(p) ==
  LET r == proc[p] IN
  /\ r.pc = "a_clear"
  /\ \E w \in r.wins :
       Goto(p, [r EXCEPT !.pc = IF ptr[w] = r.t THEN "a_unlink" ELSE "a_clear",
                         !.win = IF ptr[w] = r.t THEN w ELSE None,
                         !.wins = @ \ {w}])
  /\ UNCHANGED disk

KeepPointer(p) ==    \* mutant: the sessions are left alone
  LET r == proc[p] IN
  /\ r.pc = "a_unlink"
  /\ Goto(p, [r EXCEPT !.pc = "a_clear", !.win = None])
  /\ UNCHANGED disk

ArchiveUnlink(p) ==
  LET r == proc[p] IN
  /\ r.pc = "a_unlink"
  /\ RemoveFile(r.win)
  /\ Goto(p, [r EXCEPT !.pc = "a_clear", !.win = None])
  /\ UNCHANGED <<use, active, archived, json, shelved>>

\* shutil.move to archive/<month>/, into the directory of that name if there is one;
\* a directory that has gone is an error.
ArchiveMove(p) ==
  LET t == proc[p].t IN
  /\ proc[p].pc = "a_clear"
  /\ proc[p].wins = {}
  /\ Goto(p, Idle)
  /\ \/ /\ t \in active
        /\ active' = active \ {t}
        /\ archived' = archived \cup {t}
        /\ shelved' = IF t \in archived THEN shelved ELSE [shelved EXCEPT ![t] = json[t]]
        /\ json' = [json EXCEPT ![t] = NoJson]
     \/ /\ t \notin active
        /\ UNCHANGED <<active, archived, shelved, json>>
  /\ UNCHANGED <<use, ptr>>

-----------------------------------------------------------------------------
(* task.py add-subtask, remove-subtask, set-branch, set-base-branch, set-scope *)

StealChild(p) ==    \* mutant: a child that has a parent is taken over
  \E t, o \in active :
    /\ Readable(t) /\ Readable(o)
    /\ use.careful => t # o
    /\ Begin(p, "link", [Idle EXCEPT !.pc = "l_parent", !.t = t, !.o = o,
                                     !.data = json[t], !.odata = json[o]])

\* Both files are read; a child that has a parent is refused.
BeginLink(p) ==
  \E t, o \in active :
    /\ Readable(t) /\ Readable(o)
    /\ json[o].parent = None
    /\ use.careful => t # o
    /\ Begin(p, "link", [Idle EXCEPT !.pc = "l_parent", !.t = t, !.o = o,
                                     !.data = json[t], !.odata = json[o]])

LinkParent(p) ==
  LET r == proc[p] IN
  /\ r.pc = "l_parent"
  /\ WriteJson(r.t, [r.data EXCEPT !.children = @ \cup {r.o}])
  /\ Step(p, "l_child")
  /\ UNCHANGED <<use, active, archived, shelved, ptr>>

ForgetParent(p) ==    \* mutant: the child's record is written as it was read
  LET r == proc[p] IN
  /\ r.pc = "l_child"
  /\ WriteJson(r.o, r.odata)
  /\ Goto(p, Idle)
  /\ UNCHANGED <<use, active, archived, shelved, ptr>>

LinkChild(p) ==
  LET r == proc[p] IN
  /\ r.pc = "l_child"
  /\ WriteJson(r.o, [r.odata EXCEPT !.parent = r.t])
  /\ Goto(p, Idle)
  /\ UNCHANGED <<use, active, archived, shelved, ptr>>

\* Nobody checks that the child is linked to this parent.
BeginUnlink(p) ==
  \E t, o \in active :
    /\ Readable(t) /\ Readable(o)
    /\ use.careful => o \in json[t].children \/ json[o].parent = t
    /\ Begin(p, "unlink", [Idle EXCEPT !.pc = "u_parent", !.t = t, !.o = o,
                                       !.data = json[t], !.odata = json[o]])

UnlinkParent(p) ==
  LET r == proc[p] IN
  /\ r.pc = "u_parent"
  /\ WriteJson(r.t, [r.data EXCEPT !.children = @ \ {r.o}])
  /\ Step(p, "u_child")
  /\ UNCHANGED <<use, active, archived, shelved, ptr>>

UnlinkChild(p) ==
  LET r == proc[p] IN
  /\ r.pc = "u_child"
  /\ WriteJson(r.o, [r.odata EXCEPT !.parent = None])
  /\ Goto(p, Idle)
  /\ UNCHANGED <<use, active, archived, shelved, ptr>>

\* One of the three fields is set in what was read.
BeginSet(p) ==
  \E t \in active :
    /\ Readable(t)
    /\ Begin(p, "set", [Idle EXCEPT !.pc = "set", !.t = t, !.data = json[t]])

SetWrite(p) ==
  LET r == proc[p] IN
  /\ r.pc = "set"
  /\ WriteJson(r.t, [r.data EXCEPT !.extra = TRUE])
  /\ Goto(p, Idle)
  /\ UNCHANGED <<use, active, archived, shelved, ptr>>

-----------------------------------------------------------------------------
(* The command is killed, or raises.  A task.json is replaced at once, a session    *)
(* file is not.                                                                    *)
Crash(p) ==
  LET r == proc[p] IN
  /\ use.crashes
  /\ r.pc # "idle"
  /\ Goto(p, Idle)
  /\ \/ UNCHANGED ptr
     \/ /\ r.pc \in {"c_point", "s_point"}
        /\ r.win # None
        /\ CutShort(r.win)
  /\ UNCHANGED <<use, active, archived, json, shelved>>

Create(p) ==
  \/ BeginCreate(p) \/ CreateDir(p) \/ CreateJson(p) \/ CreateReadParent(p)
  \/ CreateWriteParent(p) \/ CreateWriteChild(p) \/ CreatePoint(p)

StartOrFinish(p) ==
  \/ BeginStart(p) \/ StartPoint(p) \/ StartRead(p) \/ StartWrite(p)
  \/ BeginFinish(p) \/ FinishUnlink(p)

Archive(p) ==
  \/ BeginArchive(p) \/ ArchiveStatus(p) \/ ArchiveReadChild(p) \/ ArchiveOrphan(p)
  \/ ArchiveChildrenDone(p) \/ ArchiveLook(p) \/ ArchiveUnlink(p) \/ ArchiveMove(p)

Edit(p) ==
  \/ BeginLink(p) \/ LinkParent(p) \/ LinkChild(p)
  \/ BeginUnlink(p) \/ UnlinkParent(p) \/ UnlinkChild(p)
  \/ BeginSet(p) \/ SetWrite(p)

Next == \E p \in Procs : Create(p) \/ StartOrFinish(p) \/ Archive(p) \/ Edit(p) \/ Crash(p)

Spec == Init /\ [][Next]_vars

-----------------------------------------------------------------------------
(* What the commands promise, one at a time *)

\* A session file only ever names a directory that is there: archive deletes the
\* files before it moves the directory, wherever it is killed, and start checks
\* the directory before it writes.  (Archive moves on from a file it could not delete.)
PointersLive ==
  "unlink" \notin use.faults => \A w \in Windows : ptr[w] \in Tasks => ptr[w] \in active

\* Links are asked for with care, every task.json is written, and no unlink is killed
\* between its two writes.
Tidy ==
  /\ use.careful
  /\ "json" \notin use.faults
  /\ ~ (use.crashes /\ "unlink" \in use.commands)

\* tasks.py counts a child that is not active as done.  So it has to be in the
\* archive, marked completed: archive writes the status before it moves, and a
\* parent never lists a child whose directory has yet to be made.
MissingChildIsDone ==
  Tidy => \A t \in active : \A c \in json[t].children \ active :
            c \in archived /\ shelved[c].status = "completed"

\* task_store.py, cmd_archive: "If this is a parent, clear parent field in all
\* children".  So no task names a parent that has left tasks/; such a task would
\* be neither a root of the listing nor below one.
ParentIsActive ==
  Tidy => \A t \in active : json[t].parent # None => json[t].parent \in active

\* "Establish bidirectional link": between commands that are not killed, a task names
\* its parent exactly if that parent lists it.
LinksAgree ==
  Tidy /\ ~ use.crashes /\ (\A p \in Procs : proc[p].pc = "idle") =>
    \A t, c \in active : json[c].parent = t <=> c \in json[t].children
=============================================================================
