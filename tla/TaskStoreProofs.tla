--------------------------- MODULE TaskStoreProofs ---------------------------
(***************************************************************************)
(* What the commands of task.py promise, for any number of tasks and       *)
(* windows: types; that a session file never names a directory that is     *)
(* gone; and, one command at a time, what archive and the links between    *)
(* tasks guarantee (common/task_store.py, common/active_task.py).          *)
(***************************************************************************)
EXTENDS TaskList, TLAPS

-----------------------------------------------------------------------------
(* Types *)

\* What a command knows of its task and of the other one at each of its steps.
FieldsSet(r) ==
  /\ r.pc \notin {"idle", "f_unlink"} => r.t \in Tasks
  /\ r.pc \in {"f_unlink", "s_point", "a_unlink"} => r.win \in Windows
  /\ r.pc \in {"c_read", "c_parent", "c_child", "a_orphan", "l_parent", "l_child",
               "u_parent", "u_child"} => r.o \in Tasks
  /\ r.pc \in {"s_write", "a_status", "l_parent", "l_child", "u_parent", "u_child", "set"}
       => r.data \in Json
  /\ r.pc \in {"c_parent", "a_orphan", "l_parent", "l_child", "u_parent", "u_child"}
       => r.odata \in Json

Shape == TypeOK /\ \A p \in Procs : FieldsSet(proc[p])

-----------------------------------------------------------------------------

LEMMA IdleShape == Idle \in Process /\ FieldsSet(Idle) /\ Idle.pc = "idle"
  BY DEF Idle, Process, PCs, NoJson, FieldsSet

LEMMA FreshJson == Fresh \in Json /\ NoJson \notin Json
  BY DEF Fresh, NoJson, Json

\* The program counters, one by one.
LEMMA PCsListed ==
  /\ "idle" \in PCs
  /\ "c_dir" \in PCs /\ "c_json" \in PCs /\ "c_read" \in PCs
  /\ "c_parent" \in PCs /\ "c_child" \in PCs /\ "c_point" \in PCs
  /\ "s_point" \in PCs /\ "s_read" \in PCs /\ "s_write" \in PCs
  /\ "f_unlink" \in PCs
  /\ "a_status" \in PCs /\ "a_child" \in PCs /\ "a_orphan" \in PCs
  /\ "a_clear" \in PCs /\ "a_unlink" \in PCs
  /\ "l_parent" \in PCs /\ "l_child" \in PCs /\ "u_parent" \in PCs
  /\ "u_child" \in PCs /\ "set" \in PCs
  BY DEF PCs

LEMMA GotoShape ==
  ASSUME Shape, NEW p \in Procs, NEW r \in Process, FieldsSet(r), Goto(p, r)
  PROVE  proc' \in [Procs -> Process] /\ \A q \in Procs : FieldsSet(proc'[q])
  BY DEF Shape, TypeOK, Goto

LEMMA WriteShape ==
  ASSUME TypeOK, NEW t \in Tasks, NEW new \in Json, WriteJson(t, new)
  PROVE  /\ json' \in [Tasks -> Json \cup {NoJson}]
         /\ \A u \in Tasks \ active : json'[u] = NoJson
  <1>1. CASE t \in active
    <2>1. json' = [json EXCEPT ![t] = new] \/ json' = json
      BY <1>1 DEF WriteJson
    <2> QED
      BY <2>1, <1>1 DEF TypeOK
  <1>2. CASE t \notin active
    <2>1. json' = json
      BY <1>2 DEF WriteJson
    <2> QED
      BY <2>1 DEF TypeOK
  <1> QED
    BY <1>1, <1>2

LEMMA ReadableShape ==
  ASSUME TypeOK, NEW t \in Tasks
  PROVE  /\ Readable(t) => json[t] \in Json /\ t \in active
         /\ json[t].status = "planning" => Readable(t)
         /\ json[t] \in Json \cup {NoJson}
  BY DEF TypeOK, Readable, NoJson

\* A step that only moves its own command on, from one well-shaped record to another.
LEMMA MoveShape ==
  ASSUME Shape, NEW p \in Procs, NEW r \in Process, FieldsSet(r), Goto(p, r), UNCHANGED disk
  PROVE  Shape'
  BY GotoShape DEF Shape, TypeOK, disk

LEMMA WriteStepShape ==
  ASSUME Shape, NEW p \in Procs, NEW r \in Process, FieldsSet(r), Goto(p, r),
         NEW t \in Tasks, NEW new \in Json, WriteJson(t, new),
         UNCHANGED <<use, active, archived, shelved, ptr>>
  PROVE  Shape'
  <1>1. TypeOK
    BY DEF Shape
  <1> QED
    BY <1>1, GotoShape, WriteShape DEF Shape, TypeOK

LEMMA PointStepShape ==
  ASSUME Shape, NEW p \in Procs, NEW r \in Process, FieldsSet(r), Goto(p, r),
         NEW w \in Windows, NEW x \in Tasks \cup {Torn, None}, 
         ptr' = [ptr EXCEPT ![w] = x] \/ ptr' = ptr,
         UNCHANGED <<use, active, archived, json, shelved>>
  PROVE  Shape'
  <1>1. ptr' \in [Windows -> Tasks \cup {Torn, None}]
    BY DEF Shape, TypeOK
  <1> QED
    BY <1>1, GotoShape DEF Shape, TypeOK

-----------------------------------------------------------------------------

LEMMA BeginCreateShape == ASSUME Shape, NEW p \in Procs, BeginCreate(p) PROVE Shape'
  <1>1. PICK w \in Windows \cup {None}, t \in Tasks, o \in Tasks \cup {None} :
          Begin(p, "create", [Idle EXCEPT !.pc = "c_dir", !.win = w, !.t = t, !.o = o])
    BY TaskStoreAssumption DEF BeginCreate, Use, Shape, TypeOK
  <1> DEFINE r == [Idle EXCEPT !.pc = "c_dir", !.win = w, !.t = t, !.o = o]
  <1>2. r \in Process /\ r.pc = "c_dir" /\ r.t = t
    BY <1>1, IdleShape, PCsListed DEF Process
  <1>3. FieldsSet(r)
    BY <1>1, <1>2 DEF FieldsSet
  <1> QED
    BY <1>1, <1>2, <1>3, MoveShape DEF Begin

LEMMA CreateDirShape == ASSUME Shape, NEW p \in Procs, CreateDir(p) PROVE Shape'
  <1>1. proc[p] \in Process /\ FieldsSet(proc[p]) /\ proc[p].pc = "c_dir"
    BY DEF Shape, TypeOK, CreateDir
  <1> DEFINE r == [proc[p] EXCEPT !.pc = "c_json"]
  <1>2. r \in Process /\ FieldsSet(r)
    BY <1>1, PCsListed DEF Process, FieldsSet
  <1>3. proc' \in [Procs -> Process] /\ \A q \in Procs : FieldsSet(proc'[q])
    BY <1>2, GotoShape DEF CreateDir, Step
  <1>4. proc[p].t \in Tasks
    BY <1>1 DEF FieldsSet
  <1> QED
    BY <1>3, <1>4 DEF CreateDir, Shape, TypeOK

LEMMA CreateJsonShape == ASSUME Shape, NEW p \in Procs, CreateJson(p) PROVE Shape'
  <1>1. proc[p] \in Process /\ FieldsSet(proc[p]) /\ proc[p].pc = "c_json"
    BY DEF Shape, TypeOK, CreateJson
  <1>2. PICK r : r = IF proc[p].t \in active
                      THEN [proc[p] EXCEPT !.pc = IF proc[p].o = None THEN "c_point" ELSE "c_read"]
                      ELSE Idle
    OBVIOUS
  <1>3. r \in Process /\ FieldsSet(r)
    BY <1>1, <1>2, IdleShape, PCsListed DEF Process, FieldsSet
  <1>4. proc[p].t \in Tasks
    BY <1>1 DEF FieldsSet
  <1>5. WriteJson(proc[p].t, Fresh) /\ Goto(p, r)
    BY <1>2 DEF CreateJson, Step
  <1> QED
    BY <1>3, <1>4, <1>5, FreshJson, WriteStepShape DEF CreateJson

LEMMA CreateReadParentShape == ASSUME Shape, NEW p \in Procs, CreateReadParent(p) PROVE Shape'
  <1>1. proc[p] \in Process /\ FieldsSet(proc[p]) /\ proc[p].pc = "c_read"
    BY DEF Shape, TypeOK, CreateReadParent
  <1>2. CASE Readable(proc[p].o)
    <2> DEFINE r == [proc[p] EXCEPT !.pc = "c_parent", !.odata = json[proc[p].o]]
    <2>1. r \in Process /\ FieldsSet(r)
      BY <1>1, <1>2, IdleShape, ReadableShape, PCsListed DEF Process, FieldsSet, Shape, TypeOK
    <2>2. Goto(p, r) /\ UNCHANGED disk
      BY <1>2 DEF CreateReadParent, Step
    <2> QED
      BY <2>1, <2>2, MoveShape
  <1>3. CASE ~ Readable(proc[p].o)
    <2> DEFINE r == [proc[p] EXCEPT !.pc = "c_point"]
    <2>1. r \in Process /\ FieldsSet(r)
      BY <1>1, <1>3, IdleShape, ReadableShape, PCsListed DEF Process, FieldsSet, Shape, TypeOK
    <2>2. Goto(p, r) /\ UNCHANGED disk
      BY <1>3 DEF CreateReadParent, Step
    <2> QED
      BY <2>1, <2>2, MoveShape
  <1> QED
    BY <1>2, <1>3

LEMMA CreateWriteParentShape == ASSUME Shape, NEW p \in Procs, CreateWriteParent(p) PROVE Shape'
  <1>1. proc[p] \in Process /\ FieldsSet(proc[p]) /\ proc[p].pc = "c_parent"
    BY DEF Shape, TypeOK, CreateWriteParent
  <1> DEFINE r == [proc[p] EXCEPT !.pc = "c_child"]
             new == [proc[p].odata EXCEPT !.children = @ \cup {proc[p].t}]
  <1>2. r \in Process /\ FieldsSet(r)
    BY <1>1, PCsListed DEF Process, FieldsSet
  <1>3. proc[p].o \in Tasks /\ new \in Json
    BY <1>1 DEF Process, FieldsSet, Json
  <1>4. Goto(p, r)
    BY DEF CreateWriteParent, Step
  <1>5. CASE proc[p].t \in proc[p].odata.children
    BY <1>2, <1>4, <1>5, MoveShape DEF CreateWriteParent, disk
  <1>6. CASE proc[p].t \notin proc[p].odata.children
    BY <1>2, <1>3, <1>4, <1>6, WriteStepShape DEF CreateWriteParent
  <1> QED
    BY <1>5, <1>6

LEMMA CreateWriteChildShape == ASSUME Shape, NEW p \in Procs, CreateWriteChild(p) PROVE Shape'
  <1>1. proc[p] \in Process /\ FieldsSet(proc[p]) /\ proc[p].pc = "c_child"
    BY DEF Shape, TypeOK, CreateWriteChild
  <1> DEFINE r == [proc[p] EXCEPT !.pc = "c_point"]
  <1>2. r \in Process /\ FieldsSet(r)
    BY <1>1, IdleShape, FreshJson, PCsListed DEF Process, FieldsSet
  <1>3. proc[p].t \in Tasks /\ [Fresh EXCEPT !.parent = proc[p].o] \in Json
    BY <1>1, FreshJson DEF Process, FieldsSet, Json, Fresh
  <1>4. WriteJson(proc[p].t, [Fresh EXCEPT !.parent = proc[p].o]) /\ Goto(p, r)
    BY DEF CreateWriteChild, Step
  <1> QED
    BY <1>2, <1>3, <1>4, WriteStepShape DEF CreateWriteChild

LEMMA CreatePointShape == ASSUME Shape, NEW p \in Procs, CreatePoint(p) PROVE Shape'
  <1>1. proc[p] \in Process /\ FieldsSet(proc[p]) /\ proc[p].pc = "c_point"
    BY DEF Shape, TypeOK, CreatePoint
  <1>2. Idle \in Process /\ FieldsSet(Idle) /\ Goto(p, Idle)
    BY IdleShape DEF CreatePoint
  <1>3. CASE proc[p].win # None /\ proc[p].t \in active
    <2>1. proc[p].win \in Windows /\ proc[p].t \in Tasks \cup {Torn, None}
      BY <1>1, <1>3 DEF Process
    <2>2. \/ ptr' = [ptr EXCEPT ![proc[p].win] = proc[p].t]
          \/ ptr' = [ptr EXCEPT ![proc[p].win] = Torn]
          \/ ptr' = ptr
      BY <1>3 DEF CreatePoint, CutShort
    <2> QED
      BY <1>2, <2>1, <2>2, PointStepShape DEF CreatePoint
  <1>4. CASE ~ (proc[p].win # None /\ proc[p].t \in active)
    BY <1>2, <1>4, MoveShape DEF CreatePoint, disk
  <1> QED
    BY <1>3, <1>4

LEMMA BeginStartShape == ASSUME Shape, NEW p \in Procs, BeginStart(p) PROVE Shape'
  <1>1. PICK w \in Windows \cup {None}, t \in Tasks :
          Begin(p, "start", [Idle EXCEPT !.pc = IF w = None THEN "s_read" ELSE "s_point",
                                         !.win = w, !.t = t])
    BY TaskStoreAssumption DEF BeginStart, Use, Shape, TypeOK
  <1>2. PICK pc : pc = IF w = None THEN "s_read" ELSE "s_point"
    OBVIOUS
  <1>3. pc \in {"s_read", "s_point"} /\ (pc = "s_point" => w \in Windows)
    BY <1>2
  <1> DEFINE r == [Idle EXCEPT !.pc = pc, !.win = w, !.t = t]
  <1>4. r \in Process /\ r.pc = pc /\ r.win = w /\ r.t = t
    BY <1>1, <1>3, IdleShape, PCsListed DEF Process
  <1>5. FieldsSet(r)
    BY <1>1, <1>3, <1>4 DEF FieldsSet
  <1>6. Begin(p, "start", r)
    BY <1>1, <1>2
  <1> QED
    BY <1>4, <1>5, <1>6, MoveShape DEF Begin

LEMMA StartPointShape == ASSUME Shape, NEW p \in Procs, StartPoint(p) PROVE Shape'
  <1>1. proc[p] \in Process /\ FieldsSet(proc[p]) /\ proc[p].pc = "s_point"
    BY DEF Shape, TypeOK, StartPoint
  <1>2. CASE proc[p].t \in active
    <2> DEFINE r == [proc[p] EXCEPT !.pc = "s_read"]
    <2>1. r \in Process /\ FieldsSet(r)
      BY <1>1, PCsListed DEF Process, FieldsSet
    <2>2. proc[p].win \in Windows /\ proc[p].t \in Tasks \cup {Torn, None}
      BY <1>1 DEF Process, FieldsSet
    <2>3. \/ ptr' = [ptr EXCEPT ![proc[p].win] = proc[p].t] /\ Goto(p, r)
          \/ (ptr' = [ptr EXCEPT ![proc[p].win] = Torn] \/ ptr' = ptr) /\ Goto(p, Idle)
      BY <1>2 DEF StartPoint, Step, CutShort
    <2> QED
      BY <2>1, <2>2, <2>3, IdleShape, PointStepShape DEF StartPoint
  <1>3. CASE proc[p].t \notin active
    BY <1>3, IdleShape, MoveShape DEF StartPoint, disk
  <1> QED
    BY <1>2, <1>3

LEMMA StartReadShape == ASSUME Shape, NEW p \in Procs, StartRead(p) PROVE Shape'
  <1>1. proc[p] \in Process /\ FieldsSet(proc[p]) /\ proc[p].pc = "s_read"
    BY DEF Shape, TypeOK, StartRead
  <1>2. CASE json[proc[p].t].status = "planning"
    <2> DEFINE r == [proc[p] EXCEPT !.pc = "s_write", !.data = json[proc[p].t]]
    <2>1. r \in Process /\ FieldsSet(r)
      BY <1>1, <1>2, IdleShape, ReadableShape, PCsListed DEF Process, FieldsSet, Shape, TypeOK
    <2>2. Goto(p, r) /\ UNCHANGED disk
      BY <1>2 DEF StartRead, Step
    <2> QED
      BY <2>1, <2>2, MoveShape
  <1>3. CASE json[proc[p].t].status # "planning"
    <2> DEFINE r == Idle
    <2>1. r \in Process /\ FieldsSet(r)
      BY <1>1, <1>3, IdleShape, ReadableShape, PCsListed DEF Process, FieldsSet, Shape, TypeOK
    <2>2. Goto(p, r) /\ UNCHANGED disk
      BY <1>3 DEF StartRead, Step
    <2> QED
      BY <2>1, <2>2, MoveShape
  <1> QED
    BY <1>2, <1>3

LEMMA StartWriteShape == ASSUME Shape, NEW p \in Procs, StartWrite(p) PROVE Shape'
  <1>1. proc[p] \in Process /\ FieldsSet(proc[p]) /\ proc[p].pc = "s_write"
    BY DEF Shape, TypeOK, StartWrite
  <1> DEFINE r == Idle
  <1>2. r \in Process /\ FieldsSet(r)
    BY <1>1, IdleShape, FreshJson, PCsListed DEF Process, FieldsSet
  <1>3. proc[p].t \in Tasks /\ [proc[p].data EXCEPT !.status = "in_progress"] \in Json
    BY <1>1, FreshJson DEF Process, FieldsSet, Json, Fresh
  <1>4. WriteJson(proc[p].t, [proc[p].data EXCEPT !.status = "in_progress"]) /\ Goto(p, r)
    BY DEF StartWrite, Step
  <1> QED
    BY <1>2, <1>3, <1>4, WriteStepShape DEF StartWrite

LEMMA BeginFinishShape == ASSUME Shape, NEW p \in Procs, BeginFinish(p) PROVE Shape'
  <1>1. PICK w \in Windows :
          Begin(p, "finish", [Idle EXCEPT !.pc = "f_unlink", !.win = w])
    BY TaskStoreAssumption DEF BeginFinish, Use, Shape, TypeOK
  <1> DEFINE r == [Idle EXCEPT !.pc = "f_unlink", !.win = w]
  <1>2. r \in Process /\ r.pc = "f_unlink" /\ r.win = w
    BY <1>1, IdleShape, PCsListed DEF Process
  <1>3. FieldsSet(r)
    BY <1>1, <1>2 DEF FieldsSet
  <1> QED
    BY <1>1, <1>2, <1>3, MoveShape DEF Begin

LEMMA FinishUnlinkShape == ASSUME Shape, NEW p \in Procs, FinishUnlink(p) PROVE Shape'
  <1>1. proc[p] \in Process /\ FieldsSet(proc[p]) /\ proc[p].pc = "f_unlink"
    BY DEF Shape, TypeOK, FinishUnlink
  <1>2. proc[p].win \in Windows
    BY <1>1 DEF FieldsSet
  <1> QED
    BY <1>2, IdleShape, PointStepShape DEF FinishUnlink, RemoveFile

LEMMA BeginArchiveShape == ASSUME Shape, NEW p \in Procs, BeginArchive(p) PROVE Shape'
  <1>1. PICK t \in active :
          Begin(p, "archive",
            IF Readable(t) THEN [Idle EXCEPT !.pc = "a_status", !.t = t, !.data = json[t]]
                           ELSE [Idle EXCEPT !.pc = "a_clear", !.t = t, !.wins = SessionFiles])
    BY DEF BeginArchive
  <1>2. t \in Tasks /\ SessionFiles \subseteq Windows
    BY DEF Shape, TypeOK, SessionFiles
  <1>3. CASE Readable(t)
    <2> DEFINE r == [Idle EXCEPT !.pc = "a_status", !.t = t, !.data = json[t]]
    <2>1. json[t] \in Json
      BY <1>2, <1>3, ReadableShape DEF Shape
    <2>2. r \in Process /\ r.pc = "a_status" /\ r.t = t /\ r.data = json[t]
      BY <1>2, <2>1, IdleShape, PCsListed DEF Process
    <2>3. FieldsSet(r)
      BY <1>2, <2>1, <2>2 DEF FieldsSet
    <2> QED
      BY <1>1, <1>3, <2>2, <2>3, MoveShape DEF Begin
  <1>4. CASE ~ Readable(t)
    <2> DEFINE r == [Idle EXCEPT !.pc = "a_clear", !.t = t, !.wins = SessionFiles]
    <2>1. r \in Process /\ r.pc = "a_clear" /\ r.t = t
      BY <1>2, IdleShape, PCsListed DEF Process
    <2>2. FieldsSet(r)
      BY <1>2, <2>1 DEF FieldsSet
    <2> QED
      BY <1>1, <1>4, <2>1, <2>2, MoveShape DEF Begin
  <1> QED
    BY <1>3, <1>4

LEMMA ArchiveStatusShape == ASSUME Shape, NEW p \in Procs, ArchiveStatus(p) PROVE Shape'
  <1>1. proc[p] \in Process /\ FieldsSet(proc[p]) /\ proc[p].pc = "a_status"
    BY DEF Shape, TypeOK, ArchiveStatus
  <1> DEFINE r == [proc[p] EXCEPT !.pc = "a_child", !.todo = proc[p].data.children]
             new == [proc[p].data EXCEPT !.status = "completed"]
  <1>2. proc[p].t \in Tasks /\ proc[p].data \in Json
    BY <1>1 DEF FieldsSet
  <1>3. new \in Json /\ proc[p].data.children \subseteq Tasks
    BY <1>2 DEF Json
  <1>4. r \in Process /\ FieldsSet(r)
    BY <1>1, <1>3, PCsListed DEF Process, FieldsSet
  <1> QED
    BY <1>2, <1>3, <1>4, WriteStepShape DEF ArchiveStatus

LEMMA ArchiveReadChildShape == ASSUME Shape, NEW p \in Procs, ArchiveReadChild(p) PROVE Shape'
  <1>1. proc[p] \in Process /\ FieldsSet(proc[p]) /\ proc[p].pc = "a_child"
    BY DEF Shape, TypeOK, ArchiveReadChild
  <1>2. PICK c \in proc[p].todo :
          Goto(p, IF Readable(c)
                    THEN [proc[p] EXCEPT !.pc = "a_orphan", !.o = c, !.odata = json[c],
                                         !.todo = @ \ {c}]
                    ELSE [proc[p] EXCEPT !.todo = @ \ {c}])
    BY DEF ArchiveReadChild
  <1>3. c \in Tasks /\ UNCHANGED disk
    BY <1>1, <1>2 DEF Process, ArchiveReadChild
  <1>4. CASE Readable(c)
    <2> DEFINE r == [proc[p] EXCEPT !.pc = "a_orphan", !.o = c, !.odata = json[c],
                                    !.todo = @ \ {c}]
    <2>1. json[c] \in Json
      BY <1>3, <1>4, ReadableShape DEF Shape
    <2>2. r \in Process /\ FieldsSet(r)
      BY <1>1, <1>3, <2>1, PCsListed DEF Process, FieldsSet
    <2> QED
      BY <1>2, <1>3, <1>4, <2>2, MoveShape
  <1>5. CASE ~ Readable(c)
    <2> DEFINE r == [proc[p] EXCEPT !.todo = @ \ {c}]
    <2>1. r \in Process /\ FieldsSet(r)
      BY <1>1 DEF Process, FieldsSet
    <2> QED
      BY <1>2, <1>3, <1>5, <2>1, MoveShape
  <1> QED
    BY <1>4, <1>5

LEMMA ArchiveOrphanShape == ASSUME Shape, NEW p \in Procs, ArchiveOrphan(p) PROVE Shape'
  <1>1. proc[p] \in Process /\ FieldsSet(proc[p]) /\ proc[p].pc = "a_orphan"
    BY DEF Shape, TypeOK, ArchiveOrphan
  <1> DEFINE r == [proc[p] EXCEPT !.pc = "a_child", !.o = None, !.odata = NoJson]
             new == [proc[p].odata EXCEPT !.parent = None]
  <1>2. proc[p].o \in Tasks /\ proc[p].odata \in Json
    BY <1>1 DEF FieldsSet
  <1>3. new \in Json
    BY <1>2 DEF Json
  <1>4. r \in Process /\ FieldsSet(r)
    BY <1>1, PCsListed DEF Process, FieldsSet
  <1> QED
    BY <1>2, <1>3, <1>4, WriteStepShape DEF ArchiveOrphan

LEMMA ArchiveChildrenDoneShape == ASSUME Shape, NEW p \in Procs, ArchiveChildrenDone(p) PROVE Shape'
  <1>1. proc[p] \in Process /\ FieldsSet(proc[p]) /\ proc[p].pc = "a_child"
    BY DEF Shape, TypeOK, ArchiveChildrenDone
  <1> DEFINE r == [proc[p] EXCEPT !.pc = "a_clear", !.wins = SessionFiles]
  <1>2. SessionFiles \subseteq Windows
    BY DEF SessionFiles
  <1>3. r \in Process /\ FieldsSet(r)
    BY <1>1, <1>2, PCsListed DEF Process, FieldsSet
  <1> QED
    BY <1>3, MoveShape DEF ArchiveChildrenDone

LEMMA ArchiveLookShape == ASSUME Shape, NEW p \in Procs, ArchiveLook(p) PROVE Shape'
  <1>1. proc[p] \in Process /\ FieldsSet(proc[p]) /\ proc[p].pc = "a_clear"
    BY DEF Shape, TypeOK, ArchiveLook
  <1>2. PICK w \in proc[p].wins :
          Goto(p, [proc[p] EXCEPT !.pc = IF ptr[w] = proc[p].t THEN "a_unlink" ELSE "a_clear",
                                  !.win = IF ptr[w] = proc[p].t THEN w ELSE None,
                                  !.wins = @ \ {w}])
    BY DEF ArchiveLook
  <1>3. PICK pc, win : /\ pc = IF ptr[w] = proc[p].t THEN "a_unlink" ELSE "a_clear"
                       /\ win = IF ptr[w] = proc[p].t THEN w ELSE None
    OBVIOUS
  <1> DEFINE r == [proc[p] EXCEPT !.pc = pc, !.win = win, !.wins = @ \ {w}]
  <1>4. w \in Windows
    BY <1>1 DEF Process
  <1>5. r \in Process /\ FieldsSet(r)
    BY <1>1, <1>3, <1>4, PCsListed DEF Process, FieldsSet
  <1>6. Goto(p, r)
    BY <1>2, <1>3
  <1> QED
    BY <1>5, <1>6, MoveShape DEF ArchiveLook

LEMMA ArchiveUnlinkShape == ASSUME Shape, NEW p \in Procs, ArchiveUnlink(p) PROVE Shape'
  <1>1. proc[p] \in Process /\ FieldsSet(proc[p]) /\ proc[p].pc = "a_unlink"
    BY DEF Shape, TypeOK, ArchiveUnlink
  <1> DEFINE r == [proc[p] EXCEPT !.pc = "a_clear", !.win = None]
  <1>2. proc[p].win \in Windows
    BY <1>1 DEF FieldsSet
  <1>3. r \in Process /\ FieldsSet(r)
    BY <1>1, PCsListed DEF Process, FieldsSet
  <1> QED
    BY <1>2, <1>3, PointStepShape DEF ArchiveUnlink, RemoveFile

LEMMA ArchiveMoveShape == ASSUME Shape, NEW p \in Procs, ArchiveMove(p) PROVE Shape'
  <1>1. proc[p] \in Process /\ FieldsSet(proc[p]) /\ proc[p].pc = "a_clear"
    BY DEF Shape, TypeOK, ArchiveMove
  <1>2. proc[p].t \in Tasks
    BY <1>1 DEF FieldsSet
  <1>3. proc' \in [Procs -> Process] /\ \A q \in Procs : FieldsSet(proc'[q])
    BY IdleShape, GotoShape DEF ArchiveMove
  <1>4. CASE proc[p].t \in active
    <2>1. json' = [json EXCEPT ![proc[p].t] = NoJson] /\ active' = active \ {proc[p].t}
      BY <1>4 DEF ArchiveMove
    <2>2. \/ shelved' = shelved
          \/ shelved' = [shelved EXCEPT ![proc[p].t] = json[proc[p].t]]
      BY <1>4 DEF ArchiveMove
    <2>3. shelved' \in [Tasks -> Json \cup {NoJson}] /\ json' \in [Tasks -> Json \cup {NoJson}]
      BY <1>2, <2>1, <2>2 DEF Shape, TypeOK
    <2>4. archived' \subseteq Tasks
      BY <1>2, <1>4 DEF ArchiveMove, Shape, TypeOK
    <2>5. \A u \in Tasks \ active' : json'[u] = NoJson
      BY <1>2, <2>1 DEF Shape, TypeOK
    <2> QED
      BY <1>2, <1>3, <2>1, <2>3, <2>4, <2>5 DEF ArchiveMove, Shape, TypeOK
  <1>5. CASE proc[p].t \notin active
    BY <1>3, <1>5 DEF ArchiveMove, Shape, TypeOK
  <1> QED
    BY <1>4, <1>5

LEMMA BeginLinkShape == ASSUME Shape, NEW p \in Procs, BeginLink(p) PROVE Shape'
  <1>1. PICK t, o \in active :
          /\ Readable(t) /\ Readable(o)
          /\ Begin(p, "link", [Idle EXCEPT !.pc = "l_parent", !.t = t, !.o = o,
                          !.data = json[t], !.odata = json[o]])
    BY DEF BeginLink
  <1> DEFINE r == [Idle EXCEPT !.pc = "l_parent", !.t = t, !.o = o,
                          !.data = json[t], !.odata = json[o]]
  <1>2. t \in Tasks /\ o \in Tasks /\ json[t] \in Json /\ json[o] \in Json
    BY <1>1, ReadableShape DEF Shape, TypeOK
  <1>3. r \in Process /\ r.pc = "l_parent" /\ r.t = t /\ r.o = o /\ r.data = json[t] /\ r.odata = json[o]
    BY <1>2, IdleShape, PCsListed DEF Process
  <1>4. FieldsSet(r)
    BY <1>2, <1>3 DEF FieldsSet
  <1> QED
    BY <1>1, <1>3, <1>4, MoveShape DEF Begin

LEMMA BeginUnlinkShape == ASSUME Shape, NEW p \in Procs, BeginUnlink(p) PROVE Shape'
  <1>1. PICK t, o \in active :
          /\ Readable(t) /\ Readable(o)
          /\ Begin(p, "unlink", [Idle EXCEPT !.pc = "u_parent", !.t = t, !.o = o,
                          !.data = json[t], !.odata = json[o]])
    BY DEF BeginUnlink
  <1> DEFINE r == [Idle EXCEPT !.pc = "u_parent", !.t = t, !.o = o,
                          !.data = json[t], !.odata = json[o]]
  <1>2. t \in Tasks /\ o \in Tasks /\ json[t] \in Json /\ json[o] \in Json
    BY <1>1, ReadableShape DEF Shape, TypeOK
  <1>3. r \in Process /\ r.pc = "u_parent" /\ r.t = t /\ r.o = o /\ r.data = json[t] /\ r.odata = json[o]
    BY <1>2, IdleShape, PCsListed DEF Process
  <1>4. FieldsSet(r)
    BY <1>2, <1>3 DEF FieldsSet
  <1> QED
    BY <1>1, <1>3, <1>4, MoveShape DEF Begin

LEMMA LinkParentShape == ASSUME Shape, NEW p \in Procs, LinkParent(p) PROVE Shape'
  <1>1. proc[p] \in Process /\ FieldsSet(proc[p]) /\ proc[p].pc = "l_parent"
    BY DEF Shape, TypeOK, LinkParent
  <1> DEFINE r == [proc[p] EXCEPT !.pc = "l_child"]
  <1>2. r \in Process /\ FieldsSet(r)
    BY <1>1, IdleShape, FreshJson, PCsListed DEF Process, FieldsSet
  <1>3. proc[p].t \in Tasks /\ [proc[p].data EXCEPT !.children = @ \cup {proc[p].o}] \in Json
    BY <1>1, FreshJson DEF Process, FieldsSet, Json, Fresh
  <1>4. WriteJson(proc[p].t, [proc[p].data EXCEPT !.children = @ \cup {proc[p].o}]) /\ Goto(p, r)
    BY DEF LinkParent, Step
  <1> QED
    BY <1>2, <1>3, <1>4, WriteStepShape DEF LinkParent

LEMMA LinkChildShape == ASSUME Shape, NEW p \in Procs, LinkChild(p) PROVE Shape'
  <1>1. proc[p] \in Process /\ FieldsSet(proc[p]) /\ proc[p].pc = "l_child"
    BY DEF Shape, TypeOK, LinkChild
  <1> DEFINE r == Idle
  <1>2. r \in Process /\ FieldsSet(r)
    BY <1>1, IdleShape, FreshJson, PCsListed DEF Process, FieldsSet
  <1>3. proc[p].o \in Tasks /\ [proc[p].odata EXCEPT !.parent = proc[p].t] \in Json
    BY <1>1, FreshJson DEF Process, FieldsSet, Json, Fresh
  <1>4. WriteJson(proc[p].o, [proc[p].odata EXCEPT !.parent = proc[p].t]) /\ Goto(p, r)
    BY DEF LinkChild, Step
  <1> QED
    BY <1>2, <1>3, <1>4, WriteStepShape DEF LinkChild

LEMMA UnlinkParentShape == ASSUME Shape, NEW p \in Procs, UnlinkParent(p) PROVE Shape'
  <1>1. proc[p] \in Process /\ FieldsSet(proc[p]) /\ proc[p].pc = "u_parent"
    BY DEF Shape, TypeOK, UnlinkParent
  <1> DEFINE r == [proc[p] EXCEPT !.pc = "u_child"]
  <1>2. r \in Process /\ FieldsSet(r)
    BY <1>1, IdleShape, FreshJson, PCsListed DEF Process, FieldsSet
  <1>3. proc[p].t \in Tasks /\ [proc[p].data EXCEPT !.children = @ \ {proc[p].o}] \in Json
    BY <1>1, FreshJson DEF Process, FieldsSet, Json, Fresh
  <1>4. WriteJson(proc[p].t, [proc[p].data EXCEPT !.children = @ \ {proc[p].o}]) /\ Goto(p, r)
    BY DEF UnlinkParent, Step
  <1> QED
    BY <1>2, <1>3, <1>4, WriteStepShape DEF UnlinkParent

LEMMA UnlinkChildShape == ASSUME Shape, NEW p \in Procs, UnlinkChild(p) PROVE Shape'
  <1>1. proc[p] \in Process /\ FieldsSet(proc[p]) /\ proc[p].pc = "u_child"
    BY DEF Shape, TypeOK, UnlinkChild
  <1> DEFINE r == Idle
  <1>2. r \in Process /\ FieldsSet(r)
    BY <1>1, IdleShape, FreshJson, PCsListed DEF Process, FieldsSet
  <1>3. proc[p].o \in Tasks /\ [proc[p].odata EXCEPT !.parent = None] \in Json
    BY <1>1, FreshJson DEF Process, FieldsSet, Json, Fresh
  <1>4. WriteJson(proc[p].o, [proc[p].odata EXCEPT !.parent = None]) /\ Goto(p, r)
    BY DEF UnlinkChild, Step
  <1> QED
    BY <1>2, <1>3, <1>4, WriteStepShape DEF UnlinkChild

LEMMA BeginSetShape == ASSUME Shape, NEW p \in Procs, BeginSet(p) PROVE Shape'
  <1>1. PICK t \in active :
          Readable(t) /\ Begin(p, "set", [Idle EXCEPT !.pc = "set", !.t = t, !.data = json[t]])
    BY DEF BeginSet
  <1> DEFINE r == [Idle EXCEPT !.pc = "set", !.t = t, !.data = json[t]]
  <1>2. t \in Tasks /\ json[t] \in Json
    BY <1>1, ReadableShape DEF Shape, TypeOK
  <1>3. r \in Process /\ r.pc = "set" /\ r.t = t /\ r.data = json[t]
    BY <1>2, IdleShape, PCsListed DEF Process
  <1>4. FieldsSet(r)
    BY <1>2, <1>3 DEF FieldsSet
  <1> QED
    BY <1>1, <1>3, <1>4, MoveShape DEF Begin

LEMMA SetWriteShape == ASSUME Shape, NEW p \in Procs, SetWrite(p) PROVE Shape'
  <1>1. proc[p] \in Process /\ FieldsSet(proc[p]) /\ proc[p].pc = "set"
    BY DEF Shape, TypeOK, SetWrite
  <1> DEFINE r == Idle
  <1>2. r \in Process /\ FieldsSet(r)
    BY <1>1, IdleShape, FreshJson, PCsListed DEF Process, FieldsSet
  <1>3. proc[p].t \in Tasks /\ [proc[p].data EXCEPT !.extra = TRUE] \in Json
    BY <1>1, FreshJson DEF Process, FieldsSet, Json, Fresh
  <1>4. WriteJson(proc[p].t, [proc[p].data EXCEPT !.extra = TRUE]) /\ Goto(p, r)
    BY DEF SetWrite, Step
  <1> QED
    BY <1>2, <1>3, <1>4, WriteStepShape DEF SetWrite

LEMMA CrashShape == ASSUME Shape, NEW p \in Procs, Crash(p) PROVE Shape'
  <1>1. Idle \in Process /\ FieldsSet(Idle) /\ Goto(p, Idle)
    BY IdleShape DEF Crash
  <1>2. CASE UNCHANGED ptr
    BY <1>1, <1>2, MoveShape DEF Crash, disk
  <1>3. CASE proc[p].win # None /\ ptr' = [ptr EXCEPT ![proc[p].win] = Torn]
    <2>1. proc[p].win \in Windows
      BY <1>3 DEF Shape, TypeOK, Process
    <2> QED
      BY <1>1, <1>3, <2>1, PointStepShape DEF Crash
  <1> QED
    BY <1>2, <1>3 DEF Crash, CutShort

\* A command that has read a task's record has one to write back: nothing is written that
\* is not a record.
THEOREM Shaped == Spec => []Shape
  <1>1. ASSUME Init PROVE Shape
    BY <1>1, IdleShape, TaskStoreAssumption DEF Init, Shape, TypeOK, Json
  <1>2. ASSUME Shape, [Next]_vars PROVE Shape'
    <2>1. CASE UNCHANGED vars
      BY <1>2, <2>1 DEF vars, Shape, TypeOK
    <2>2. ASSUME NEW p \in Procs, Create(p) PROVE Shape'
      BY <1>2, <2>2, BeginCreateShape, CreateDirShape, CreateJsonShape, CreateReadParentShape,
         CreateWriteParentShape, CreateWriteChildShape, CreatePointShape DEF Create
    <2>3. ASSUME NEW p \in Procs, StartOrFinish(p) PROVE Shape'
      BY <1>2, <2>3, BeginStartShape, StartPointShape, StartReadShape, StartWriteShape,
         BeginFinishShape, FinishUnlinkShape DEF StartOrFinish
    <2>4. ASSUME NEW p \in Procs, Archive(p) PROVE Shape'
      BY <1>2, <2>4, BeginArchiveShape, ArchiveStatusShape, ArchiveReadChildShape,
         ArchiveOrphanShape, ArchiveChildrenDoneShape, ArchiveLookShape, ArchiveUnlinkShape,
         ArchiveMoveShape DEF Archive
    <2>5. ASSUME NEW p \in Procs, Edit(p) PROVE Shape'
      BY <1>2, <2>5, BeginLinkShape, LinkParentShape, LinkChildShape, BeginUnlinkShape,
         UnlinkParentShape, UnlinkChildShape, BeginSetShape, SetWriteShape DEF Edit
    <2> QED
      BY <1>2, <2>1, <2>2, <2>3, <2>4, <2>5, CrashShape DEF Next
  <1> QED
    BY <1>1, <1>2, PTL DEF Spec

\* No command changes the way they are used.
LEMMA UseKept == ASSUME NEW p, Create(p) \/ StartOrFinish(p) \/ Archive(p) \/ Edit(p) \/ Crash(p)
                 PROVE  UNCHANGED use
  <1>1. CASE Create(p)
    BY <1>1 DEF Create, BeginCreate, CreateDir, CreateJson, CreateReadParent,
       CreateWriteParent, CreateWriteChild, CreatePoint, Begin, disk
  <1>2. CASE StartOrFinish(p)
    BY <1>2 DEF StartOrFinish, BeginStart, StartPoint, StartRead, StartWrite, BeginFinish,
       FinishUnlink, Begin, disk
  <1>3. CASE Archive(p)
    BY <1>3 DEF Archive, BeginArchive, ArchiveStatus, ArchiveReadChild, ArchiveOrphan,
       ArchiveChildrenDone, ArchiveLook, ArchiveUnlink, ArchiveMove, Begin, disk
  <1>4. CASE Edit(p)
    BY <1>4 DEF Edit, BeginLink, LinkParent, LinkChild, BeginUnlink, UnlinkParent, UnlinkChild,
       BeginSet, SetWrite, Begin, disk
  <1>5. CASE Crash(p)
    BY <1>5 DEF Crash
  <1> QED
    BY <1>1, <1>2, <1>3, <1>4, <1>5

-----------------------------------------------------------------------------
(* Pointers *)

\* One command at a time.  Of several the properties do not hold: archive may have listed
\* the session files when another window starts the task.
Single == \E p : Procs = {p}

\* Archive is clearing the session files.
ClearPCs == {"a_clear", "a_unlink"}

\* While archive clears the session files, those it has looked at do not name its task.
Cleared(r) ==
  r.pc \in ClearPCs =>
    \A w \in Windows \ r.wins : ptr[w] = r.t => r.pc = "a_unlink" /\ r.win = w

\* What is deleted is gone.
Deletes == "unlink" \notin use.faults

\* The pointers and the command, as long as that holds.
LiveOnes == \A w \in Windows : ptr[w] \in Tasks => ptr[w] \in active

\* The inductive invariant of PointersLive.
PointerInv == LiveOnes /\ \A p \in Procs : Cleared(proc[p])

\* A step that neither moves directories nor points to one, and ends outside archive's
\* clearing, keeps the invariant.
LEMMA QuietKeepsPointers ==
  ASSUME Single, Shape, Deletes, PointerInv, NEW p \in Procs, UNCHANGED ptr, active \subseteq active',
         proc'[p].pc \notin ClearPCs
  PROVE  PointerInv'
  BY DEF Single, PointerInv, LiveOnes, Cleared

\* The hypotheses of that lemma.
Quiet(p) == UNCHANGED ptr /\ active \subseteq active' /\ proc'[p].pc \notin ClearPCs

LEMMA BeginIsQuiet ==
  ASSUME Shape, NEW p \in Procs, NEW command, NEW r, Begin(p, command, r), r.pc \notin ClearPCs
  PROVE  Quiet(p)
  BY DEF Begin, Goto, disk, Quiet, Shape, TypeOK

LEMMA QuietCreate ==
  ASSUME Shape, NEW p \in Procs,
         BeginCreate(p) \/ CreateDir(p) \/ CreateJson(p) \/ CreateReadParent(p)
         \/ CreateWriteParent(p) \/ CreateWriteChild(p)
  PROVE  Quiet(p)
  <1>1. ASSUME BeginCreate(p) PROVE Quiet(p)
    <2>1. PICK w \in use.windows \cup {None}, t \in use.tasks, o \in use.tasks \cup {None} :
            Begin(p, "create", [Idle EXCEPT !.pc = "c_dir", !.win = w, !.t = t, !.o = o])
      BY <1>1 DEF BeginCreate
    <2> DEFINE r == [Idle EXCEPT !.pc = "c_dir", !.win = w, !.t = t, !.o = o]
    <2>2. r.pc \notin ClearPCs
      BY DEF Idle, ClearPCs
    <2> QED
      BY <2>1, <2>2, BeginIsQuiet
  <1>2. ASSUME CreateDir(p) PROVE Quiet(p)
    BY <1>2 DEF CreateDir, Begin, Goto, Step, disk, Quiet, ClearPCs, Idle, Shape, TypeOK, Process
  <1>3. ASSUME CreateJson(p) PROVE Quiet(p)
    BY <1>3 DEF CreateJson, Begin, Goto, Step, disk, Quiet, ClearPCs, Idle, Shape, TypeOK, Process
  <1>4. ASSUME CreateReadParent(p) PROVE Quiet(p)
    <2>1. /\ Step(p, "c_point") \/ Goto(p, [proc[p] EXCEPT !.pc = "c_parent", !.odata = json[proc[p].o]])
          /\ UNCHANGED disk
      BY <1>4 DEF CreateReadParent
    <2>2. proc[p] \in Process
      BY DEF Shape, TypeOK
    <2>3. CASE Step(p, "c_point")
      BY <2>1, <2>2, <2>3 DEF Goto, Step, disk, Quiet, ClearPCs, Shape, TypeOK, Process
    <2>4. CASE Goto(p, [proc[p] EXCEPT !.pc = "c_parent", !.odata = json[proc[p].o]])
      BY <2>1, <2>2, <2>4 DEF Goto, disk, Quiet, ClearPCs, Shape, TypeOK, Process
    <2> QED
      BY <2>1, <2>3, <2>4
  <1>5. ASSUME CreateWriteParent(p) PROVE Quiet(p)
    BY <1>5 DEF CreateWriteParent, Begin, Goto, Step, disk, Quiet, ClearPCs, Idle, Shape,
       TypeOK, Process
  <1>6. ASSUME CreateWriteChild(p) PROVE Quiet(p)
    BY <1>6 DEF CreateWriteChild, Begin, Goto, Step, disk, Quiet, ClearPCs, Idle, Shape,
       TypeOK, Process
  <1> QED
    BY <1>1, <1>2, <1>3, <1>4, <1>5, <1>6

LEMMA QuietStartOrFinish ==
  ASSUME Shape, NEW p \in Procs,
         BeginStart(p) \/ StartRead(p) \/ StartWrite(p) \/ BeginFinish(p)
  PROVE  Quiet(p)
  <1>1. ASSUME BeginStart(p) PROVE Quiet(p)
    <2>1. PICK w \in use.windows \cup {None}, t \in active :
            Begin(p, "start", [Idle EXCEPT !.pc = IF w = None THEN "s_read" ELSE "s_point",
                                          !.win = w, !.t = t])
      BY <1>1 DEF BeginStart
    <2> DEFINE r == [Idle EXCEPT !.pc = IF w = None THEN "s_read" ELSE "s_point",
                                          !.win = w, !.t = t]
    <2>2. r.pc \notin ClearPCs
      BY DEF Idle, ClearPCs
    <2> QED
      BY <2>1, <2>2, BeginIsQuiet
  <1>2. ASSUME StartRead(p) PROVE Quiet(p)
    BY <1>2 DEF StartRead, Begin, Goto, Step, disk, Quiet, ClearPCs, Idle, Shape, TypeOK, Process
  <1>3. ASSUME StartWrite(p) PROVE Quiet(p)
    BY <1>3 DEF StartWrite, Begin, Goto, Step, disk, Quiet, ClearPCs, Idle, Shape, TypeOK, Process
  <1>4. ASSUME BeginFinish(p) PROVE Quiet(p)
    <2>1. PICK w \in use.windows : Begin(p, "finish", [Idle EXCEPT !.pc = "f_unlink", !.win = w])
      BY <1>4 DEF BeginFinish
    <2> DEFINE r == [Idle EXCEPT !.pc = "f_unlink", !.win = w]
    <2>2. r.pc \notin ClearPCs
      BY DEF Idle, ClearPCs
    <2> QED
      BY <2>1, <2>2, BeginIsQuiet
  <1> QED
    BY <1>1, <1>2, <1>3, <1>4

LEMMA QuietArchive ==
  ASSUME Shape, NEW p \in Procs,
         ArchiveStatus(p) \/ ArchiveReadChild(p) \/ ArchiveOrphan(p)
  PROVE  Quiet(p)
  <1>1. ASSUME ArchiveStatus(p) PROVE Quiet(p)
    BY <1>1 DEF ArchiveStatus, Begin, Goto, Step, disk, Quiet, ClearPCs, Idle, Shape, TypeOK,
       Process
  <1>2. ASSUME ArchiveReadChild(p) PROVE Quiet(p)
    <2>1. PICK c \in proc[p].todo :
            Goto(p, IF Readable(c)
                      THEN [proc[p] EXCEPT !.pc = "a_orphan", !.o = c, !.odata = json[c],
                                           !.todo = @ \ {c}]
                      ELSE [proc[p] EXCEPT !.todo = @ \ {c}])
      BY <1>2 DEF ArchiveReadChild
    <2>2. proc[p] \in Process /\ proc[p].pc = "a_child" /\ UNCHANGED disk
      BY <1>2 DEF ArchiveReadChild, Shape, TypeOK
    <2>3. CASE Readable(c)
      BY <2>1, <2>2, <2>3 DEF Goto, disk, Quiet, ClearPCs, Shape, TypeOK, Process
    <2>4. CASE ~ Readable(c)
      BY <2>1, <2>2, <2>4 DEF Goto, disk, Quiet, ClearPCs, Shape, TypeOK, Process
    <2> QED
      BY <2>3, <2>4
  <1>3. ASSUME ArchiveOrphan(p) PROVE Quiet(p)
    BY <1>3 DEF ArchiveOrphan, Begin, Goto, Step, disk, Quiet, ClearPCs, Idle, Shape, TypeOK,
       Process
  <1> QED
    BY <1>1, <1>2, <1>3

LEMMA QuietEdit ==
  ASSUME Shape, NEW p \in Procs,
         BeginLink(p) \/ LinkParent(p) \/ LinkChild(p) \/ BeginUnlink(p) \/ UnlinkParent(p)
         \/ UnlinkChild(p) \/ BeginSet(p) \/ SetWrite(p)
  PROVE  Quiet(p)
  <1>1. ASSUME BeginLink(p) PROVE Quiet(p)
    <2>1. PICK t \in active, o \in active :
            Begin(p, "link", [Idle EXCEPT !.pc = "l_parent", !.t = t, !.o = o,
                                   !.data = json[t], !.odata = json[o]])
      BY <1>1 DEF BeginLink
    <2> DEFINE r == [Idle EXCEPT !.pc = "l_parent", !.t = t, !.o = o,
                                   !.data = json[t], !.odata = json[o]]
    <2>2. r.pc \notin ClearPCs
      BY DEF Idle, ClearPCs
    <2> QED
      BY <2>1, <2>2, BeginIsQuiet
  <1>2. ASSUME LinkParent(p) PROVE Quiet(p)
    BY <1>2 DEF LinkParent, Begin, Goto, Step, disk, Quiet, ClearPCs, Idle, Shape, TypeOK, Process
  <1>3. ASSUME LinkChild(p) PROVE Quiet(p)
    BY <1>3 DEF LinkChild, Begin, Goto, Step, disk, Quiet, ClearPCs, Idle, Shape, TypeOK, Process
  <1>4. ASSUME BeginUnlink(p) PROVE Quiet(p)
    <2>1. PICK t \in active, o \in active :
            Begin(p, "unlink", [Idle EXCEPT !.pc = "u_parent", !.t = t, !.o = o,
                                   !.data = json[t], !.odata = json[o]])
      BY <1>4 DEF BeginUnlink
    <2> DEFINE r == [Idle EXCEPT !.pc = "u_parent", !.t = t, !.o = o,
                                   !.data = json[t], !.odata = json[o]]
    <2>2. r.pc \notin ClearPCs
      BY DEF Idle, ClearPCs
    <2> QED
      BY <2>1, <2>2, BeginIsQuiet
  <1>5. ASSUME UnlinkParent(p) PROVE Quiet(p)
    BY <1>5 DEF UnlinkParent, Begin, Goto, Step, disk, Quiet, ClearPCs, Idle, Shape, TypeOK,
       Process
  <1>6. ASSUME UnlinkChild(p) PROVE Quiet(p)
    BY <1>6 DEF UnlinkChild, Begin, Goto, Step, disk, Quiet, ClearPCs, Idle, Shape, TypeOK,
       Process
  <1>7. ASSUME BeginSet(p) PROVE Quiet(p)
    <2>1. PICK t \in active :
            Begin(p, "set", [Idle EXCEPT !.pc = "set", !.t = t, !.data = json[t]])
      BY <1>7 DEF BeginSet
    <2> DEFINE r == [Idle EXCEPT !.pc = "set", !.t = t, !.data = json[t]]
    <2>2. r.pc \notin ClearPCs
      BY DEF Idle, ClearPCs
    <2> QED
      BY <2>1, <2>2, BeginIsQuiet
  <1>8. ASSUME SetWrite(p) PROVE Quiet(p)
    BY <1>8 DEF SetWrite, Begin, Goto, Step, disk, Quiet, ClearPCs, Idle, Shape, TypeOK, Process
  <1> QED
    BY <1>1, <1>2, <1>3, <1>4, <1>5, <1>6, <1>7, <1>8

\* A step that rewrites the pointer of one window keeps the invariant when it ends the
\* command, or goes on outside archive's clearing.
LEMMA PointingKeepsPointers ==
  ASSUME Single, Shape, Deletes, PointerInv, NEW p \in Procs, proc'[p].pc \notin ClearPCs,
         UNCHANGED active, NEW w, NEW x \in active \cup {Torn, None}, ptr' = [ptr EXCEPT ![w] = x]
  PROVE  PointerInv'
  <1>1. LiveOnes'
    BY TaskStoreAssumption DEF PointerInv, LiveOnes, Shape, TypeOK
  <1> QED
    BY <1>1 DEF Single, PointerInv, Cleared

LEMMA CreatePointPointers ==
  ASSUME Single, Shape, Deletes, PointerInv, NEW p \in Procs, CreatePoint(p) PROVE PointerInv'
  <1>1. proc'[p] = Idle /\ Idle.pc \notin ClearPCs
    BY IdleShape DEF CreatePoint, Goto, Shape, TypeOK, ClearPCs
  <1>2. CASE proc[p].win # None /\ proc[p].t \in active
    BY <1>1, <1>2, PointingKeepsPointers, QuietKeepsPointers DEF CreatePoint, CutShort
  <1>3. CASE ~ (proc[p].win # None /\ proc[p].t \in active)
    BY <1>1, <1>3, QuietKeepsPointers DEF CreatePoint
  <1> QED
    BY <1>2, <1>3

LEMMA StartPointPointers ==
  ASSUME Single, Shape, Deletes, PointerInv, NEW p \in Procs, StartPoint(p) PROVE PointerInv'
  <1>1. proc'[p].pc \notin ClearPCs
    BY IdleShape DEF StartPoint, Step, Goto, Shape, TypeOK, Process, ClearPCs
  <1>2. CASE proc[p].t \in active
    BY <1>1, <1>2, PointingKeepsPointers, QuietKeepsPointers DEF StartPoint, CutShort
  <1>3. CASE proc[p].t \notin active
    BY <1>1, <1>3, QuietKeepsPointers DEF StartPoint
  <1> QED
    BY <1>2, <1>3

LEMMA FinishUnlinkPointers ==
  ASSUME Single, Shape, Deletes, PointerInv, NEW p \in Procs, FinishUnlink(p) PROVE PointerInv'
  <1>1. proc'[p] = Idle /\ Idle.pc \notin ClearPCs
    BY IdleShape DEF FinishUnlink, Goto, Shape, TypeOK, ClearPCs
  <1> QED
    BY <1>1, PointingKeepsPointers, QuietKeepsPointers DEF FinishUnlink, RemoveFile

\* The clearing begins: a window that has no file names no task.
LEMMA BeginClearingPointers ==
  ASSUME Single, Shape, Deletes, PointerInv, NEW p \in Procs, NEW r \in Process, Goto(p, r),
         r.pc = "a_clear", r.wins = SessionFiles, r.t \in Tasks, UNCHANGED disk
  PROVE  PointerInv'
  <1>1. \A q \in Procs : proc'[q] = r
    BY DEF Single, Goto, Shape, TypeOK
  <1>2. \A w \in Windows \ r.wins : ptr[w] # r.t
    BY TaskStoreAssumption DEF SessionFiles
  <1>3. \A q \in Procs : Cleared(proc[q])'
    BY <1>1, <1>2 DEF Cleared, disk
  <1> QED
    BY <1>3 DEF PointerInv, LiveOnes, disk

LEMMA BeginArchivePointers ==
  ASSUME Single, Shape, Deletes, PointerInv, NEW p \in Procs, BeginArchive(p) PROVE PointerInv'
  <1>1. PICK t \in active :
          Begin(p, "archive",
            IF Readable(t) THEN [Idle EXCEPT !.pc = "a_status", !.t = t, !.data = json[t]]
                           ELSE [Idle EXCEPT !.pc = "a_clear", !.t = t, !.wins = SessionFiles])
    BY DEF BeginArchive
  <1>2. CASE Readable(t)
    <2> DEFINE r == [Idle EXCEPT !.pc = "a_status", !.t = t, !.data = json[t]]
    <2>1. r.pc \notin ClearPCs
      BY DEF Idle, ClearPCs
    <2>2. Quiet(p)
      BY <1>1, <1>2, <2>1, BeginIsQuiet
    <2> QED
      BY <2>2, QuietKeepsPointers DEF Quiet
  <1>3. CASE ~ Readable(t)
    <2> DEFINE r == [Idle EXCEPT !.pc = "a_clear", !.t = t, !.wins = SessionFiles]
    <2>1. t \in Tasks /\ SessionFiles \subseteq Windows
      BY DEF Shape, TypeOK, SessionFiles
    <2>2. r \in Process /\ r.pc = "a_clear" /\ r.wins = SessionFiles /\ r.t = t
      BY <2>1, IdleShape, PCsListed DEF Process
    <2>3. Goto(p, r) /\ UNCHANGED disk
      BY <1>1, <1>3 DEF Begin
    <2> QED
      BY <2>1, <2>2, <2>3, BeginClearingPointers
  <1> QED
    BY <1>2, <1>3

LEMMA ArchiveChildrenDonePointers ==
  ASSUME Single, Shape, Deletes, PointerInv, NEW p \in Procs, ArchiveChildrenDone(p) PROVE PointerInv'
  <1> DEFINE r == [proc[p] EXCEPT !.pc = "a_clear", !.wins = SessionFiles]
  <1>1. proc[p] \in Process /\ FieldsSet(proc[p]) /\ proc[p].pc = "a_child"
    BY DEF Shape, TypeOK, ArchiveChildrenDone
  <1>2. proc[p].t \in Tasks /\ SessionFiles \subseteq Windows
    BY <1>1 DEF FieldsSet, SessionFiles
  <1>3. r \in Process /\ r.pc = "a_clear" /\ r.wins = SessionFiles /\ r.t \in Tasks
    BY <1>1, <1>2, PCsListed DEF Process
  <1>4. Goto(p, r) /\ UNCHANGED disk
    BY DEF ArchiveChildrenDone
  <1> QED
    BY <1>3, <1>4, BeginClearingPointers

LEMMA ArchiveLookPointers ==
  ASSUME Single, Shape, Deletes, PointerInv, NEW p \in Procs, ArchiveLook(p) PROVE PointerInv'
  <1>1. PICK w \in proc[p].wins :
          Goto(p, [proc[p] EXCEPT !.pc = IF ptr[w] = proc[p].t THEN "a_unlink" ELSE "a_clear",
                                  !.win = IF ptr[w] = proc[p].t THEN w ELSE None,
                                  !.wins = @ \ {w}])
    BY DEF ArchiveLook
  <1>2. proc[p] \in Process /\ proc[p].pc = "a_clear" /\ Cleared(proc[p])
    BY DEF Shape, TypeOK, PointerInv, ArchiveLook
  <1>3. PICK pc, win : /\ pc = IF ptr[w] = proc[p].t THEN "a_unlink" ELSE "a_clear"
                       /\ win = IF ptr[w] = proc[p].t THEN w ELSE None
    OBVIOUS
  <1>4. PICK r : r = [proc[p] EXCEPT !.pc = pc, !.win = win, !.wins = @ \ {w}]
    OBVIOUS
  <1>5. \A q \in Procs : proc'[q] = r
    BY <1>1, <1>3, <1>4 DEF Single, Goto, Shape, TypeOK
  <1>6. r.pc = pc /\ r.win = win /\ r.t = proc[p].t /\ r.wins = proc[p].wins \ {w}
    BY <1>2, <1>4 DEF Process
  <1>7. UNCHANGED <<ptr, active>>
    BY DEF ArchiveLook, disk
  <1>8. \A v \in Windows \ r.wins : ptr[v] = r.t => r.pc = "a_unlink" /\ r.win = v
    <2> SUFFICES ASSUME NEW v \in Windows \ r.wins, ptr[v] = r.t
                 PROVE  r.pc = "a_unlink" /\ r.win = v
      OBVIOUS
    <2>1. CASE v = w
      BY <1>3, <1>6, <2>1
    <2>2. CASE v # w
      BY <1>2, <1>6, <2>2 DEF Cleared, ClearPCs
    <2> QED
      BY <2>1, <2>2
  <1> QED
    BY <1>5, <1>7, <1>8 DEF PointerInv, LiveOnes, Cleared

LEMMA ArchiveUnlinkPointers ==
  ASSUME Single, Shape, Deletes, PointerInv, NEW p \in Procs, ArchiveUnlink(p) PROVE PointerInv'
  <1>1. proc[p] \in Process /\ FieldsSet(proc[p]) /\ proc[p].pc = "a_unlink" /\ Cleared(proc[p])
    BY DEF Shape, TypeOK, PointerInv, ArchiveUnlink
  <1>2. PICK r : r = [proc[p] EXCEPT !.pc = "a_clear", !.win = None]
    OBVIOUS
  <1>3. \A q \in Procs : proc'[q] = r
    BY <1>2 DEF ArchiveUnlink, Single, Goto, Shape, TypeOK
  <1>4. r.pc = "a_clear" /\ r.t = proc[p].t /\ r.wins = proc[p].wins /\ r.t \in Tasks
    BY <1>1, <1>2 DEF Process, FieldsSet
  <1>5. \A w \in Windows : ptr'[w] = IF w = proc[p].win THEN None ELSE ptr[w]
    BY DEF ArchiveUnlink, RemoveFile, Deletes, Shape, TypeOK
  <1>6. \A w \in Windows \ r.wins : ptr'[w] # r.t
    BY <1>1, <1>4, <1>5, TaskStoreAssumption DEF Cleared, ClearPCs
  <1>7. LiveOnes'
    BY <1>5, TaskStoreAssumption DEF PointerInv, LiveOnes, ArchiveUnlink
  <1> QED
    BY <1>3, <1>6, <1>7 DEF PointerInv, Cleared

\* When all files have been looked at, none names the task that is moved.
LEMMA ArchiveMovePointers ==
  ASSUME Single, Shape, Deletes, PointerInv, NEW p \in Procs, ArchiveMove(p) PROVE PointerInv'
  <1>1. proc[p].pc = "a_clear" /\ proc[p].wins = {} /\ Cleared(proc[p])
    BY DEF PointerInv, ArchiveMove
  <1>2. \A w \in Windows : ptr[w] # proc[p].t
    BY <1>1 DEF Cleared, ClearPCs
  <1>3. active \ {proc[p].t} \subseteq active' /\ UNCHANGED ptr
    BY DEF ArchiveMove
  <1>4. LiveOnes'
    BY <1>2, <1>3 DEF PointerInv, LiveOnes
  <1>5. \A q \in Procs : proc'[q].pc \notin ClearPCs
    BY IdleShape DEF ArchiveMove, Single, Goto, Shape, TypeOK, ClearPCs
  <1> QED
    BY <1>4, <1>5 DEF PointerInv, Cleared

LEMMA CrashPointers ==
  ASSUME Single, Shape, Deletes, PointerInv, NEW p \in Procs, Crash(p) PROVE PointerInv'
  <1>1. proc'[p] = Idle /\ Idle.pc \notin ClearPCs
    BY IdleShape DEF Crash, Goto, Shape, TypeOK, ClearPCs
  <1>2. CASE UNCHANGED ptr
    BY <1>1, <1>2, QuietKeepsPointers DEF Crash
  <1>3. CASE ptr' = [ptr EXCEPT ![proc[p].win] = Torn]
    BY <1>1, <1>3, PointingKeepsPointers DEF Crash
  <1> QED
    BY <1>2, <1>3 DEF Crash, CutShort, CutShort

\* With one command at a time, a session file only ever names a directory that is there
\* (archive of task_store.py clears the files before it moves the directory, and start
\* looks for the directory before it writes), wherever a command is killed.
THEOREM PointerSafety == ASSUME Single PROVE Spec => []PointersLive
  <1> DEFINE Held == Deletes => PointerInv
  <1>1. ASSUME Init PROVE PointerInv
    BY <1>1, IdleShape, TaskStoreAssumption DEF Init, PointerInv, LiveOnes, Cleared, ClearPCs
  <1>2. ASSUME Shape, Deletes, PointerInv, [Next]_vars PROVE PointerInv'
    <2>1. CASE UNCHANGED vars
      BY <1>2, <2>1 DEF vars, PointerInv, LiveOnes, Cleared
    <2>2. ASSUME NEW p \in Procs, Create(p) PROVE PointerInv'
      BY <1>2, <2>2, QuietCreate, QuietKeepsPointers, CreatePointPointers DEF Create, Quiet
    <2>3. ASSUME NEW p \in Procs, StartOrFinish(p) PROVE PointerInv'
      BY <1>2, <2>3, QuietStartOrFinish, QuietKeepsPointers, StartPointPointers,
         FinishUnlinkPointers DEF StartOrFinish, Quiet
    <2>4. ASSUME NEW p \in Procs, Archive(p) PROVE PointerInv'
      BY <1>2, <2>4, QuietArchive, QuietKeepsPointers, BeginArchivePointers,
         ArchiveChildrenDonePointers, ArchiveLookPointers, ArchiveUnlinkPointers,
         ArchiveMovePointers DEF Archive, Quiet
    <2>5. ASSUME NEW p \in Procs, Edit(p) PROVE PointerInv'
      BY <1>2, <2>5, QuietEdit, QuietKeepsPointers DEF Edit, Quiet
    <2> QED
      BY <1>2, <2>1, <2>2, <2>3, <2>4, <2>5, CrashPointers DEF Next
  <1>3. [Next]_vars => UNCHANGED use
    BY UseKept DEF Next, vars
  <1>4. Shape /\ Held /\ [Next]_vars => Held'
    BY <1>2, <1>3 DEF Deletes
  <1>5. Init => Held
    BY <1>1
  <1>6. Held => PointersLive
    BY DEF PointerInv, LiveOnes, PointersLive, Deletes
  <1> QED
    BY <1>4, <1>5, <1>6, Shaped, PTL DEF Spec
-----------------------------------------------------------------------------
(* Links *)

\* What a command has in hand at each of its steps.  The records it read are still the
\* ones on the disk, since no other command runs.
NewTask(r) ==
  /\ r.pc = "c_dir" => r.t \notin active \cup archived
  /\ r.pc = "c_json" => r.t \in active /\ json[r.t] = NoJson
  /\ r.pc \in {"c_read", "c_parent", "c_child"} => r.t \in active /\ json[r.t] = Fresh
  /\ r.pc \in {"c_dir", "c_json", "c_read", "c_parent", "c_child"} => r.o # r.t
  /\ r.pc \in {"c_parent", "c_child"} => r.o \in active
  /\ r.pc = "c_parent" => r.odata = json[r.o]
  /\ r.pc = "c_child" => r.t \in json[r.o].children

Copied(r) ==
  /\ r.pc \in {"s_write", "a_status", "set", "l_parent", "u_parent"} =>
       r.t \in active /\ r.data = json[r.t]
  /\ r.pc \in {"l_parent", "l_child", "u_parent", "u_child"} =>
       /\ r.t \in active /\ r.o \in active /\ r.o # r.t
       /\ r.odata = json[r.o]

\* The parent is the one the link is made with, or is to be taken from.
LinkEnds(r) ==
  /\ r.pc \in {"l_parent", "l_child"} => json[r.o].parent = None
  /\ r.pc = "l_child" => r.o \in json[r.t].children
  /\ r.pc \in {"u_parent", "u_child"} => json[r.o].parent = r.t /\ ~ use.crashes
  /\ r.pc = "u_child" => r.o \notin json[r.t].children

\* Archive has written the status and not moved the directory yet.
ArchivePCs == {"a_child", "a_orphan", "a_clear", "a_unlink"}

\* The children archive still has to free, the one in hand included.
Left(r) == CASE r.pc = "a_child" -> r.todo
             [] r.pc = "a_orphan" -> r.todo \cup {r.o}
             [] OTHER -> {}

\* Archive has marked its task, and every task that names it as its parent is one it
\* still has to free.
Freeing(r) ==
  /\ r.pc \in ArchivePCs =>
       /\ r.t \in active
       /\ Readable(r.t) => json[r.t].status = "completed"
       /\ \A c \in active : json[c].parent = r.t => c \in Left(r)
       /\ Left(r) \subseteq json[r.t].children
       /\ ~ use.crashes => \A c \in Left(r) \cap active : json[c].parent = r.t
  /\ r.pc = "a_orphan" => r.o \in active /\ r.o # r.t /\ r.o \notin r.todo /\ r.odata = json[r.o]

\* All of it.
InHand(r) == NewTask(r) /\ Copied(r) /\ LinkEnds(r) /\ Freeing(r)

\* The two writes of an unlink, or of a link, are not both done.
Unlinking(r, c) == r.pc = "u_child" /\ r.o = c

Linking(r, t, c) ==
  \/ r.pc = "c_child" /\ r.o = t /\ r.t = c
  \/ r.pc = "l_child" /\ r.t = t /\ r.o = c
  \/ r.pc \in ArchivePCs /\ r.t = t

\* No task is in both places.
Apart == active \cap archived = {}

\* A listed child is there and has a record, or has been archived as completed.
ChildrenKnown ==
  \A t \in active : \A c \in json[t].children :
    /\ c # t
    /\ \/ c \in active /\ Readable(c)
       \/ c \in archived /\ shelved[c].status = "completed"

\* A parent that is named is there and lists the task.
ParentsKnown(r) ==
  \A c \in active : json[c].parent # None =>
    /\ json[c].parent \in active
    /\ c \in json[json[c].parent].children \/ Unlinking(r, c)

\* Unless something was killed, a listed child names its parent.
ChildrenAgree(r) ==
  ~ use.crashes => \A t, c \in active :
    c \in json[t].children => json[c].parent = t \/ Linking(r, t, c)

\* What holds of the links while the command r runs.
LinksKnown(r) == Apart /\ ChildrenKnown /\ ParentsKnown(r) /\ ChildrenAgree(r)

\* The inductive invariant of the three properties of links.
LinkInv == Tidy => \A p \in Procs : LinksKnown(proc[p]) /\ InHand(proc[p])


\* All of the disk but the session files.
Dirs == <<use, active, archived, json, shelved>>

\* Pcs at which nothing is in hand.
LEMMA EmptyHanded ==
  ASSUME NEW r, r.pc \in {"idle", "c_point", "s_point", "s_read", "f_unlink"}
  PROVE  InHand(r) /\ InHand(r)'
  BY DEF InHand, NewTask, Copied, LinkEnds, Freeing, ArchivePCs

\* What is to be shown of a step of the one command.
LEMMA LinkStep ==
  ASSUME Single, Shape, Tidy, NEW p \in Procs, NEW r, Goto(p, r), UNCHANGED use,
         LinksKnown(r)', InHand(r)'
  PROVE  LinkInv'
  BY DEF Single, Shape, TypeOK, Goto, Tidy, LinkInv

\* The command is between two commands of the same kind of work, as far as links go.
SameWork(s, r) ==
  /\ s.pc # "u_child"
  /\ \/ s.pc \notin {"c_child", "l_child"} \cup ArchivePCs
     \/ s.pc \in ArchivePCs /\ r.pc \in ArchivePCs /\ r.t = s.t

LEMMA MoveLinks ==
  ASSUME Single, Shape, Tidy, NEW p \in Procs, NEW s, NEW r, s = proc[p], LinksKnown(s),
         Goto(p, r), UNCHANGED Dirs, SameWork(s, r) \/ (use.crashes /\ s.pc # "u_child"), InHand(r)
  PROVE  LinkInv'
  <1>1. UNCHANGED <<use, active, archived, json, shelved>>
    BY DEF Dirs
  <1>2. InHand(r)'
    BY <1>1 DEF InHand, NewTask, Copied, LinkEnds, Freeing, Left, Readable
  <1>3. Apart' /\ ChildrenKnown'
    BY <1>1 DEF LinksKnown, Apart, ChildrenKnown, Readable
  <1>4. ParentsKnown(r)'
    BY <1>1 DEF LinksKnown, ParentsKnown, Unlinking, SameWork
  <1>5. \A t, c : Linking(s, t, c) => use.crashes \/ Linking(r, t, c)
    BY DEF Linking, SameWork, ArchivePCs
  <1>6. ChildrenAgree(r)'
    BY <1>1, <1>5 DEF LinksKnown, ChildrenAgree, Linking
  <1> QED
    BY <1>1, <1>2, <1>3, <1>4, <1>6, LinkStep DEF LinksKnown

\* A record is written again with the links it has.
LEMMA SameLinks ==
  ASSUME Single, Shape, Tidy, NEW p \in Procs, NEW s, NEW r, s = proc[p], LinksKnown(s),
         Goto(p, r), UNCHANGED <<use, active, archived, shelved>>, SameWork(s, r),
         NEW u \in active, NEW new \in Json, WriteJson(u, new),
         new.parent = json[u].parent, new.children = json[u].children, InHand(r)'
  PROVE  LinkInv'
  <1>1. /\ json' = [json EXCEPT ![u] = new]
        /\ json \in [Tasks -> Json \cup {NoJson}]
        /\ active \subseteq Tasks
    BY DEF WriteJson, Tidy, Shape, TypeOK
  <1>2. \A t \in active : json'[t].parent = json[t].parent /\ json'[t].children = json[t].children
    BY <1>1
  <1>3. \A t \in active : Readable(t) => Readable(t)'
    BY <1>1, FreshJson DEF Readable
  <1>4. Apart' /\ ChildrenKnown'
    BY <1>2, <1>3 DEF LinksKnown, Apart, ChildrenKnown
  <1>5. ParentsKnown(r)'
    BY <1>2 DEF LinksKnown, ParentsKnown, Unlinking, SameWork
  <1>6. \A t, c : Linking(s, t, c) => Linking(r, t, c)
    BY DEF Linking, SameWork, ArchivePCs
  <1>7. ChildrenAgree(r)'
    BY <1>2, <1>6 DEF LinksKnown, ChildrenAgree, Linking
  <1> QED
    BY <1>4, <1>5, <1>7, LinkStep DEF LinksKnown

\* What the action of a command at pc starts from.
At(p, s, pc) ==
  /\ s = proc[p] /\ s \in Process /\ s.pc = pc
  /\ FieldsSet(s) /\ LinksKnown(s) /\ InHand(s)

\* The parent of a task is written: None, or an active task that lists it.
LEMMA ParentWritten ==
  ASSUME Single, Shape, Tidy, NEW p \in Procs, NEW s, NEW r, s = proc[p], LinksKnown(s),
         Goto(p, r), UNCHANGED <<use, active, archived, shelved>>, r.pc # "u_child",
         NEW u \in active, NEW new \in Json, json[u] \in Json, WriteJson(u, new),
         new.children = json[u].children, s.pc = "u_child" => s.o = u,
         new.parent # None => new.parent \in active /\ u \in json[new.parent].children,
         ~ use.crashes => \A t \in active : u \in json[t].children =>
                            new.parent = t \/ Linking(r, t, u),
         \A t, c : c # u /\ Linking(s, t, c) => Linking(r, t, c), InHand(r)'
  PROVE  LinkInv'
  <1>1. /\ json' = [json EXCEPT ![u] = new]
        /\ json \in [Tasks -> Json \cup {NoJson}]
        /\ active \subseteq Tasks
    BY DEF WriteJson, Tidy, Shape, TypeOK
  <1>2. \A t \in active : json'[t].children = json[t].children /\ (t # u => json'[t] = json[t])
    BY <1>1
  <1>3. json'[u] = new
    BY <1>1
  <1>4. \A t \in active : Readable(t) => Readable(t)'
    BY <1>2, <1>3, FreshJson DEF Readable
  <1>5. Apart' /\ ChildrenKnown'
    BY <1>2, <1>4 DEF LinksKnown, Apart, ChildrenKnown
  <1>6. ParentsKnown(r)'
    BY <1>2, <1>3 DEF LinksKnown, ParentsKnown, Unlinking
  <1>7. ASSUME ~ use.crashes, NEW t \in active, NEW c \in active, c \in json[t].children
        PROVE  json'[c].parent = t \/ Linking(r, t, c)
    <2>1. CASE c = u
      BY <1>3, <1>7, <2>1
    <2>2. CASE c # u
      BY <1>2, <1>7, <2>2 DEF LinksKnown, ChildrenAgree
    <2> QED
      BY <2>1, <2>2
  <1>8. ChildrenAgree(r)'
    BY <1>2, <1>7 DEF ChildrenAgree, Linking
  <1> QED
    BY <1>5, <1>6, <1>8, LinkStep DEF LinksKnown

LEMMA BeginCreateLinks ==
  ASSUME Single, Shape, LinkInv, Tidy, NEW p \in Procs, BeginCreate(p) PROVE LinkInv'
  <1>1. PICK s : At(p, s, "idle")
    BY DEF At, Shape, TypeOK, LinkInv, BeginCreate, Begin
  <1>2. PICK w \in use.windows \cup {None}, t \in use.tasks \ archived, o \in use.tasks \cup {None} :
          /\ use.careful => t \notin active /\ o # t
          /\ Begin(p, "create", [Idle EXCEPT !.pc = "c_dir", !.win = w, !.t = t, !.o = o])
    BY DEF BeginCreate
  <1>3. PICK r : r = [Idle EXCEPT !.pc = "c_dir", !.win = w, !.t = t, !.o = o]
    OBVIOUS
  <1>4. r.pc = "c_dir" /\ r.t = t /\ r.o = o
    BY <1>3 DEF Idle
  <1>5. InHand(r)
    BY <1>2, <1>4 DEF InHand, NewTask, Copied, LinkEnds, Freeing, ArchivePCs, Tidy
  <1>6. SameWork(s, r)
    BY <1>1 DEF At, SameWork, ArchivePCs
  <1> QED
    BY <1>1, <1>2, <1>3, <1>5, <1>6, MoveLinks DEF At, Begin, disk, Dirs

LEMMA CreateDirLinks ==
  ASSUME Single, Shape, LinkInv, Tidy, NEW p \in Procs, CreateDir(p) PROVE LinkInv'
  <1>1. PICK s : At(p, s, "c_dir")
    BY DEF At, Shape, TypeOK, LinkInv, CreateDir
  <1>2. PICK r : r = [s EXCEPT !.pc = "c_json"]
    OBVIOUS
  <1>3. r.pc = "c_json" /\ r.t = s.t /\ r.o = s.o
    BY <1>1, <1>2 DEF At, Process
  <1>4. Goto(p, r) /\ active' = active \cup {s.t} /\ UNCHANGED <<use, archived, json, shelved>>
    BY <1>1, <1>2 DEF CreateDir, Step, At
  <1>5. s.t \in Tasks /\ s.t \notin active \cup archived /\ s.o # s.t
    BY <1>1 DEF At, FieldsSet, InHand, NewTask
  <1>6. json[s.t] = NoJson /\ NoJson.children = {} /\ NoJson.parent = None
    BY <1>5 DEF Shape, TypeOK, NoJson
  <1>7. InHand(r)'
    BY <1>3, <1>4, <1>5, <1>6 DEF InHand, NewTask, Copied, LinkEnds, Freeing, ArchivePCs
  <1>8. Apart' /\ ChildrenKnown'
    BY <1>1, <1>4, <1>5, <1>6 DEF At, LinksKnown, Apart, ChildrenKnown, Readable
  <1>9. ParentsKnown(r)'
    BY <1>1, <1>4, <1>5, <1>6 DEF At, LinksKnown, ParentsKnown, Unlinking
  <1>10. \A t \in active : s.t \notin json[t].children
    BY <1>1, <1>5 DEF At, LinksKnown, ChildrenKnown
  <1>11. ChildrenAgree(r)'
    BY <1>1, <1>4, <1>6, <1>10 DEF At, LinksKnown, ChildrenAgree, Linking, ArchivePCs
  <1> QED
    BY <1>4, <1>7, <1>8, <1>9, <1>11, LinkStep DEF LinksKnown

LEMMA CreateJsonLinks ==
  ASSUME Single, Shape, LinkInv, Tidy, NEW p \in Procs, CreateJson(p) PROVE LinkInv'
  <1>1. PICK s : At(p, s, "c_json")
    BY DEF At, Shape, TypeOK, LinkInv, CreateJson
  <1>2. s.t \in active /\ s.t \in Tasks /\ json[s.t] = NoJson /\ s.o # s.t
    BY <1>1 DEF At, InHand, NewTask, Shape, TypeOK
  <1>3. PICK pc \in {"c_point", "c_read"} : pc = IF s.o = None THEN "c_point" ELSE "c_read"
    OBVIOUS
  <1>4. PICK r : r = [s EXCEPT !.pc = pc]
    OBVIOUS
  <1>5. r.pc = pc /\ r.t = s.t /\ r.o = s.o
    BY <1>1, <1>4 DEF At, Process
  <1>6. Goto(p, r) /\ WriteJson(s.t, Fresh)
    BY <1>1, <1>2, <1>3, <1>4 DEF CreateJson, Step, At
  <1>7. UNCHANGED <<use, active, archived, shelved>>
    BY DEF CreateJson
  <1>8. json'[s.t] = Fresh
    BY <1>2, <1>6 DEF WriteJson, Tidy, Shape, TypeOK
  <1>9. InHand(r)'
    BY <1>2, <1>5, <1>7, <1>8 DEF InHand, NewTask, Copied, LinkEnds, Freeing, ArchivePCs
  <1>10. SameWork(s, r)
    BY <1>1 DEF At, SameWork, ArchivePCs
  <1>11. Fresh.parent = json[s.t].parent /\ Fresh.children = json[s.t].children
    BY <1>2 DEF Fresh, NoJson
  <1> QED
    BY <1>1, <1>2, <1>6, <1>7, <1>9, <1>10, <1>11, FreshJson, SameLinks DEF At

LEMMA CreateReadParentLinks ==
  ASSUME Single, Shape, LinkInv, Tidy, NEW p \in Procs, CreateReadParent(p) PROVE LinkInv'
  <1>1. PICK s : At(p, s, "c_read")
    BY DEF At, Shape, TypeOK, LinkInv, CreateReadParent
  <1>2. s.t \in active /\ json[s.t] = Fresh /\ s.o # s.t /\ s.o \in Tasks
    BY <1>1 DEF At, InHand, NewTask, FieldsSet
  <1>3. UNCHANGED Dirs
    BY DEF CreateReadParent, disk, Dirs
  <1>4. \A r : SameWork(s, r)
    BY <1>1 DEF At, SameWork, ArchivePCs
  <1>5. CASE Readable(s.o)
    <2>1. PICK r : r = [s EXCEPT !.pc = "c_parent", !.odata = json[s.o]]
      OBVIOUS
    <2>2. Goto(p, r)
      BY <1>1, <1>5, <2>1 DEF CreateReadParent, At
    <2>3. r.pc = "c_parent" /\ r.t = s.t /\ r.o = s.o /\ r.odata = json[s.o]
      BY <1>1, <2>1 DEF At, Process
    <2>4. s.o \in active
      BY <1>2, <1>5, ReadableShape DEF Shape
    <2>5. InHand(r)
      BY <1>2, <2>3, <2>4 DEF InHand, NewTask, Copied, LinkEnds, Freeing, ArchivePCs
    <2> QED
      BY <1>1, <1>3, <1>4, <2>2, <2>5, MoveLinks DEF At
  <1>6. CASE ~ Readable(s.o)
    <2>1. PICK r : r = [s EXCEPT !.pc = "c_point"]
      OBVIOUS
    <2>2. Goto(p, r)
      BY <1>1, <1>6, <2>1 DEF CreateReadParent, Step, At
    <2>3. r.pc = "c_point"
      BY <1>1, <2>1 DEF At, Process
    <2> QED
      BY <1>1, <1>3, <1>4, <2>2, <2>3, EmptyHanded, MoveLinks DEF At
  <1> QED
    BY <1>5, <1>6

LEMMA CreateWriteParentLinks ==
  ASSUME Single, Shape, LinkInv, Tidy, NEW p \in Procs, CreateWriteParent(p) PROVE LinkInv'
  <1>1. PICK s : At(p, s, "c_parent")
    BY DEF At, Shape, TypeOK, LinkInv, CreateWriteParent
  <1>2. s.t \in active /\ s.o \in active /\ json[s.t] = Fresh /\ s.o # s.t /\ s.odata = json[s.o]
    BY <1>1 DEF At, InHand, NewTask
  <1>3. s.t \in Tasks /\ s.o \in Tasks /\ json[s.o] \in Json
    BY <1>1, <1>2 DEF At, FieldsSet
  <1>4. PICK r : r = [s EXCEPT !.pc = "c_child"]
    OBVIOUS
  <1>5. r.pc = "c_child" /\ r.t = s.t /\ r.o = s.o
    BY <1>1, <1>4 DEF At, Process
  <1>6. Goto(p, r) /\ UNCHANGED <<use, active, archived, shelved>>
    BY <1>1, <1>4 DEF CreateWriteParent, Step, At
  <1>7. \A t \in Tasks : /\ t # s.o => json'[t] = json[t]
                         /\ json'[t].parent = json[t].parent /\ (Readable(t) => Readable(t)')
    <2>1. CASE s.t \in s.odata.children
      BY <1>1, <2>1 DEF CreateWriteParent, At, Readable
    <2>2. CASE s.t \notin s.odata.children
      <3>1. PICK new : new = [json[s.o] EXCEPT !.children = @ \cup {s.t}]
        OBVIOUS
      <3>2. json' = [json EXCEPT ![s.o] = new]
        BY <1>1, <1>2, <2>2, <3>1 DEF CreateWriteParent, WriteJson, Tidy, At
      <3>3. new \in Json /\ new.parent = json[s.o].parent
        BY <1>3, <3>1 DEF Json
      <3> QED
        BY <1>3, <3>2, <3>3, FreshJson DEF Readable, Shape, TypeOK
    <2> QED
      BY <2>1, <2>2
  <1>8. json'[s.o].children = json[s.o].children \cup {s.t}
    <2>1. CASE s.t \in s.odata.children
      BY <1>1, <1>2, <2>1 DEF CreateWriteParent, At
    <2>2. CASE s.t \notin s.odata.children
      <3>1. PICK new : new = [json[s.o] EXCEPT !.children = @ \cup {s.t}]
        OBVIOUS
      <3>2. json' = [json EXCEPT ![s.o] = new]
        BY <1>1, <1>2, <2>2, <3>1 DEF CreateWriteParent, WriteJson, Tidy, At
      <3>3. new.children = json[s.o].children \cup {s.t}
        BY <1>3, <3>1 DEF Json
      <3> QED
        BY <1>3, <3>2, <3>3 DEF Shape, TypeOK
    <2> QED
      BY <2>1, <2>2
  <1>9. Readable(s.t)
    BY <1>2, FreshJson DEF Readable
  <1>10. active \subseteq Tasks
    BY DEF Shape, TypeOK
  <1>11. InHand(r)'
    BY <1>2, <1>3, <1>5, <1>6, <1>7, <1>8 DEF InHand, NewTask, Copied, LinkEnds, Freeing,
       ArchivePCs
  <1>12. Apart' /\ ChildrenKnown'
    BY <1>1, <1>2, <1>6, <1>7, <1>8, <1>9, <1>10 DEF At, LinksKnown, Apart, ChildrenKnown
  <1>13. ParentsKnown(r)'
    BY <1>1, <1>2, <1>6, <1>7, <1>8, <1>10 DEF At, LinksKnown, ParentsKnown, Unlinking
  <1>14. ChildrenAgree(r)'
    BY <1>1, <1>5, <1>6, <1>7, <1>8, <1>10 DEF At, LinksKnown, ChildrenAgree, Linking, ArchivePCs
  <1> QED
    BY <1>6, <1>11, <1>12, <1>13, <1>14, LinkStep DEF LinksKnown

LEMMA CreateWriteChildLinks ==
  ASSUME Single, Shape, LinkInv, Tidy, NEW p \in Procs, CreateWriteChild(p) PROVE LinkInv'
  <1>1. PICK s : At(p, s, "c_child")
    BY DEF At, Shape, TypeOK, LinkInv, CreateWriteChild
  <1>2. s.t \in active /\ json[s.t] = Fresh /\ s.o # s.t /\ s.o \in active /\ s.t \in json[s.o].children
    BY <1>1 DEF At, InHand, NewTask
  <1>3. s.o \in Tasks
    BY <1>1 DEF At, FieldsSet
  <1>4. PICK r : r = [s EXCEPT !.pc = "c_point"]
    OBVIOUS
  <1>5. PICK new : new = [Fresh EXCEPT !.parent = s.o]
    OBVIOUS
  <1>6. r.pc = "c_point"
    BY <1>1, <1>4 DEF At, Process
  <1>7. Goto(p, r) /\ WriteJson(s.t, new) /\ UNCHANGED <<use, active, archived, shelved>>
    BY <1>1, <1>4, <1>5 DEF CreateWriteChild, Step, At
  <1>8. new \in Json
    BY <1>3, <1>5, FreshJson DEF Json
  <1>9. new.parent = s.o /\ new.children = json[s.t].children
    BY <1>2, <1>5 DEF Fresh
  <1>10. Fresh.parent = None /\ None \notin active
    BY TaskStoreAssumption DEF Fresh, Shape, TypeOK
  <1>11. ASSUME ~ use.crashes, NEW t \in active, s.t \in json[t].children PROVE s.o = t
    BY <1>1, <1>2, <1>10, <1>11 DEF At, LinksKnown, ChildrenAgree, Linking, ArchivePCs
  <1>12. \A t, c : c # s.t => ~ Linking(s, t, c)
    BY <1>1 DEF At, Linking, ArchivePCs
  <1> QED
    BY <1>1, <1>2, <1>6, <1>7, <1>8, <1>9, <1>11, <1>12, EmptyHanded, FreshJson,
       ParentWritten DEF At

LEMMA CreatePointLinks ==
  ASSUME Single, Shape, LinkInv, Tidy, NEW p \in Procs, CreatePoint(p) PROVE LinkInv'
  <1>1. PICK s : At(p, s, "c_point")
    BY DEF At, Shape, TypeOK, LinkInv, CreatePoint
  <1>2. Goto(p, Idle) /\ UNCHANGED Dirs
    BY DEF CreatePoint, Dirs
  <1>3. Idle.pc = "idle" /\ SameWork(s, Idle)
    BY <1>1 DEF At, SameWork, ArchivePCs, Idle
  <1> QED
    BY <1>1, <1>2, <1>3, EmptyHanded, MoveLinks DEF At

LEMMA BeginStartLinks ==
  ASSUME Single, Shape, LinkInv, Tidy, NEW p \in Procs, BeginStart(p) PROVE LinkInv'
  <1>1. PICK s : At(p, s, "idle")
    BY DEF At, Shape, TypeOK, LinkInv, BeginStart, Begin
  <1>2. PICK w \in use.windows \cup {None}, t \in active :
          Begin(p, "start", [Idle EXCEPT !.pc = IF w = None THEN "s_read" ELSE "s_point",
                                         !.win = w, !.t = t])
    BY DEF BeginStart
  <1>3. PICK pc \in {"s_read", "s_point"} : pc = IF w = None THEN "s_read" ELSE "s_point"
    OBVIOUS
  <1>4. PICK r : r = [Idle EXCEPT !.pc = pc, !.win = w, !.t = t]
    OBVIOUS
  <1>5. r.pc = pc
    BY <1>4 DEF Idle
  <1>6. Goto(p, r) /\ UNCHANGED Dirs
    BY <1>2, <1>3, <1>4 DEF Begin, disk, Dirs
  <1>7. SameWork(s, r)
    BY <1>1 DEF At, SameWork, ArchivePCs
  <1> QED
    BY <1>1, <1>5, <1>6, <1>7, EmptyHanded, MoveLinks DEF At

LEMMA StartPointLinks ==
  ASSUME Single, Shape, LinkInv, Tidy, NEW p \in Procs, StartPoint(p) PROVE LinkInv'
  <1>1. PICK s : At(p, s, "s_point")
    BY DEF At, Shape, TypeOK, LinkInv, StartPoint
  <1>2. UNCHANGED Dirs
    BY DEF StartPoint, Dirs
  <1>3. PICK r : r = [s EXCEPT !.pc = "s_read"]
    OBVIOUS
  <1>4. r.pc = "s_read" /\ Idle.pc = "idle"
    BY <1>1, <1>3 DEF At, Process, Idle
  <1>5. Goto(p, r) \/ Goto(p, Idle)
    BY <1>1, <1>3 DEF StartPoint, Step, At
  <1>6. \A x : SameWork(s, x)
    BY <1>1 DEF At, SameWork, ArchivePCs
  <1> QED
    BY <1>1, <1>2, <1>4, <1>5, <1>6, EmptyHanded, MoveLinks DEF At

LEMMA StartReadLinks ==
  ASSUME Single, Shape, LinkInv, Tidy, NEW p \in Procs, StartRead(p) PROVE LinkInv'
  <1>1. PICK s : At(p, s, "s_read")
    BY DEF At, Shape, TypeOK, LinkInv, StartRead
  <1>2. UNCHANGED Dirs
    BY DEF StartRead, disk, Dirs
  <1>3. \A x : SameWork(s, x)
    BY <1>1 DEF At, SameWork, ArchivePCs
  <1>4. CASE json[s.t].status = "planning"
    <2>1. PICK r : r = [s EXCEPT !.pc = "s_write", !.data = json[s.t]]
      OBVIOUS
    <2>2. Goto(p, r)
      BY <1>1, <1>4, <2>1 DEF StartRead, At
    <2>3. r.pc = "s_write" /\ r.t = s.t /\ r.data = json[s.t]
      BY <1>1, <2>1 DEF At, Process
    <2>4. s.t \in active
      BY <1>1, <1>4, ReadableShape DEF Shape, At, FieldsSet
    <2>5. InHand(r)
      BY <2>3, <2>4 DEF InHand, NewTask, Copied, LinkEnds, Freeing, ArchivePCs
    <2> QED
      BY <1>1, <1>2, <1>3, <2>2, <2>5, MoveLinks DEF At
  <1>5. CASE json[s.t].status # "planning"
    <2>1. Goto(p, Idle) /\ Idle.pc = "idle"
      BY <1>1, <1>5 DEF StartRead, At, Idle
    <2> QED
      BY <1>1, <1>2, <1>3, <2>1, EmptyHanded, MoveLinks DEF At
  <1> QED
    BY <1>4, <1>5

LEMMA StartWriteLinks ==
  ASSUME Single, Shape, LinkInv, Tidy, NEW p \in Procs, StartWrite(p) PROVE LinkInv'
  <1>1. PICK s : At(p, s, "s_write")
    BY DEF At, Shape, TypeOK, LinkInv, StartWrite
  <1>2. s.t \in active /\ s.data = json[s.t] /\ json[s.t] \in Json
    BY <1>1 DEF At, InHand, Copied, FieldsSet
  <1>3. PICK new : new = [json[s.t] EXCEPT !.status = "in_progress"]
    OBVIOUS
  <1>4. new \in Json /\ new.parent = json[s.t].parent /\ new.children = json[s.t].children
    BY <1>2, <1>3 DEF Json
  <1>5. Goto(p, Idle) /\ WriteJson(s.t, new) /\ UNCHANGED <<use, active, archived, shelved>>
    BY <1>1, <1>2, <1>3 DEF StartWrite, At
  <1>6. Idle.pc = "idle" /\ SameWork(s, Idle)
    BY <1>1 DEF At, SameWork, ArchivePCs, Idle
  <1> QED
    BY <1>1, <1>2, <1>4, <1>5, <1>6, EmptyHanded, SameLinks DEF At

LEMMA BeginFinishLinks ==
  ASSUME Single, Shape, LinkInv, Tidy, NEW p \in Procs, BeginFinish(p) PROVE LinkInv'
  <1>1. PICK s : At(p, s, "idle")
    BY DEF At, Shape, TypeOK, LinkInv, BeginFinish, Begin
  <1>2. PICK w \in use.windows : Begin(p, "finish", [Idle EXCEPT !.pc = "f_unlink", !.win = w])
    BY DEF BeginFinish
  <1>3. PICK r : r = [Idle EXCEPT !.pc = "f_unlink", !.win = w]
    OBVIOUS
  <1>4. r.pc = "f_unlink"
    BY <1>3 DEF Idle
  <1>5. Goto(p, r) /\ UNCHANGED Dirs
    BY <1>2, <1>3 DEF Begin, disk, Dirs
  <1>6. SameWork(s, r)
    BY <1>1 DEF At, SameWork, ArchivePCs
  <1> QED
    BY <1>1, <1>4, <1>5, <1>6, EmptyHanded, MoveLinks DEF At

LEMMA FinishUnlinkLinks ==
  ASSUME Single, Shape, LinkInv, Tidy, NEW p \in Procs, FinishUnlink(p) PROVE LinkInv'
  <1>1. PICK s : At(p, s, "f_unlink")
    BY DEF At, Shape, TypeOK, LinkInv, FinishUnlink
  <1>2. Goto(p, Idle) /\ UNCHANGED Dirs
    BY DEF FinishUnlink, Dirs
  <1>3. Idle.pc = "idle" /\ SameWork(s, Idle)
    BY <1>1 DEF At, SameWork, ArchivePCs, Idle
  <1> QED
    BY <1>1, <1>2, <1>3, EmptyHanded, MoveLinks DEF At

LEMMA BeginArchiveLinks ==
  ASSUME Single, Shape, LinkInv, Tidy, NEW p \in Procs, BeginArchive(p) PROVE LinkInv'
  <1>1. PICK s : At(p, s, "idle")
    BY DEF At, Shape, TypeOK, LinkInv, BeginArchive, Begin
  <1>2. PICK t \in active :
          Begin(p, "archive",
            IF Readable(t) THEN [Idle EXCEPT !.pc = "a_status", !.t = t, !.data = json[t]]
                           ELSE [Idle EXCEPT !.pc = "a_clear", !.t = t, !.wins = SessionFiles])
    BY DEF BeginArchive
  <1>3. \A x : SameWork(s, x)
    BY <1>1 DEF At, SameWork, ArchivePCs
  <1>4. UNCHANGED Dirs
    BY <1>2 DEF Begin, disk, Dirs
  <1>5. CASE Readable(t)
    <2>1. PICK r : r = [Idle EXCEPT !.pc = "a_status", !.t = t, !.data = json[t]]
      OBVIOUS
    <2>2. Goto(p, r)
      BY <1>2, <1>5, <2>1 DEF Begin
    <2>3. r.pc = "a_status" /\ r.t = t /\ r.data = json[t]
      BY <2>1 DEF Idle
    <2>4. InHand(r)
      BY <2>3 DEF InHand, NewTask, Copied, LinkEnds, Freeing, ArchivePCs
    <2> QED
      BY <1>1, <1>3, <1>4, <2>2, <2>4, MoveLinks DEF At
  <1>6. CASE ~ Readable(t)
    <2>1. PICK r : r = [Idle EXCEPT !.pc = "a_clear", !.t = t, !.wins = SessionFiles]
      OBVIOUS
    <2>2. Goto(p, r)
      BY <1>2, <1>6, <2>1 DEF Begin
    <2>3. r.pc = "a_clear" /\ r.t = t
      BY <2>1 DEF Idle
    <2>4. json[t].children = {} /\ t # None
      BY <1>6, TaskStoreAssumption DEF Readable, NoJson, Shape, TypeOK
    <2>5. \A c \in active : json[c].parent # t
      BY <1>1, <2>4 DEF At, LinksKnown, ParentsKnown, Unlinking
    <2>6. InHand(r)
      BY <1>6, <2>3, <2>5 DEF InHand, NewTask, Copied, LinkEnds, Freeing, ArchivePCs, Left
    <2> QED
      BY <1>1, <1>3, <1>4, <2>2, <2>6, MoveLinks DEF At
  <1> QED
    BY <1>5, <1>6

LEMMA ArchiveStatusLinks ==
  ASSUME Single, Shape, LinkInv, Tidy, NEW p \in Procs, ArchiveStatus(p) PROVE LinkInv'
  <1>1. PICK s : At(p, s, "a_status")
    BY DEF At, Shape, TypeOK, LinkInv, ArchiveStatus
  <1>2. s.t \in active /\ s.data = json[s.t] /\ json[s.t] \in Json /\ s.t # None
    BY <1>1, TaskStoreAssumption DEF At, InHand, Copied, FieldsSet, Shape, TypeOK
  <1>3. PICK new : new = [json[s.t] EXCEPT !.status = "completed"]
    OBVIOUS
  <1>4. new \in Json
    BY <1>2, <1>3 DEF Json
  <1>5. new.parent = json[s.t].parent /\ new.children = json[s.t].children /\ new.status = "completed"
    BY <1>2, <1>3 DEF Json
  <1>6. PICK r : r = [s EXCEPT !.pc = "a_child", !.todo = json[s.t].children]
    OBVIOUS
  <1>7. r.pc = "a_child" /\ r.t = s.t /\ r.todo = json[s.t].children
    BY <1>1, <1>6 DEF At, Process
  <1>8. Goto(p, r) /\ WriteJson(s.t, new) /\ UNCHANGED <<use, active, archived, shelved>>
    BY <1>1, <1>2, <1>3, <1>6 DEF ArchiveStatus, At
  <1>9. json'[s.t] = new /\ \A t \in active : t # s.t => json'[t] = json[t]
    BY <1>2, <1>8 DEF WriteJson, Tidy, Shape, TypeOK
  <1>10. \A t \in active : json'[t].parent = json[t].parent
    BY <1>5, <1>9
  <1>11. \A c \in active : json[c].parent = s.t => c \in json[s.t].children
    BY <1>1, <1>2 DEF At, LinksKnown, ParentsKnown, Unlinking
  <1>12. ~ use.crashes => \A c \in active : c \in json[s.t].children => json[c].parent = s.t
    BY <1>1, <1>2 DEF At, LinksKnown, ChildrenAgree, Linking, ArchivePCs
  <1>13. Freeing(r)'
    BY <1>2, <1>5, <1>7, <1>8, <1>9, <1>10, <1>11, <1>12 DEF Freeing, Left
  <1>14. InHand(r)'
    BY <1>7, <1>13 DEF InHand, NewTask, Copied, LinkEnds
  <1>15. SameWork(s, r)
    BY <1>1 DEF At, SameWork, ArchivePCs
  <1> QED
    BY <1>1, <1>2, <1>4, <1>5, <1>8, <1>14, <1>15, SameLinks DEF At

LEMMA ArchiveReadChildLinks ==
  ASSUME Single, Shape, LinkInv, Tidy, NEW p \in Procs, ArchiveReadChild(p) PROVE LinkInv'
  <1>1. PICK s : At(p, s, "a_child")
    BY DEF At, Shape, TypeOK, LinkInv, ArchiveReadChild
  <1>2. PICK c \in s.todo :
          Goto(p, IF Readable(c)
                    THEN [s EXCEPT !.pc = "a_orphan", !.o = c, !.odata = json[c], !.todo = @ \ {c}]
                    ELSE [s EXCEPT !.todo = @ \ {c}])
    BY <1>1 DEF ArchiveReadChild, At
  <1>3. UNCHANGED Dirs
    BY DEF ArchiveReadChild, disk, Dirs
  <1>4. Freeing(s) /\ Left(s) = s.todo /\ s.pc \in ArchivePCs
    BY <1>1 DEF At, InHand, Left, ArchivePCs
  <1>5. c \in Tasks /\ s.t \in Tasks /\ s.t # None
    BY <1>1, TaskStoreAssumption DEF At, Process, FieldsSet
  <1>6. s.t \in active /\ c \in json[s.t].children
    BY <1>4 DEF Freeing
  <1>7. c # s.t
    BY <1>1, <1>6 DEF At, LinksKnown, ChildrenKnown
  <1>8. CASE Readable(c)
    <2>1. PICK r : r = [s EXCEPT !.pc = "a_orphan", !.o = c, !.odata = json[c], !.todo = @ \ {c}]
      OBVIOUS
    <2>2. Goto(p, r)
      BY <1>2, <1>8, <2>1
    <2>3. r.pc = "a_orphan" /\ r.t = s.t /\ r.o = c /\ r.odata = json[c] /\ r.todo = s.todo \ {c}
      BY <1>1, <2>1 DEF At, Process
    <2>4. c \in active
      BY <1>5, <1>8, ReadableShape DEF Shape
    <2>5. Left(r) = Left(s) /\ r.pc \in ArchivePCs
      BY <1>2, <1>4, <2>3 DEF Left, ArchivePCs
    <2>6. Freeing(r)
      BY <1>4, <1>7, <2>3, <2>4, <2>5 DEF Freeing
    <2>7. InHand(r)
      BY <2>3, <2>6 DEF InHand, NewTask, Copied, LinkEnds
    <2>8. SameWork(s, r)
      BY <1>1, <1>4, <2>3, <2>5 DEF At, SameWork
    <2> QED
      BY <1>1, <1>3, <2>2, <2>7, <2>8, MoveLinks DEF At
  <1>9. CASE ~ Readable(c)
    <2>1. PICK r : r = [s EXCEPT !.todo = @ \ {c}]
      OBVIOUS
    <2>2. Goto(p, r)
      BY <1>2, <1>9, <2>1
    <2>3. r.pc = "a_child" /\ r.t = s.t /\ r.todo = s.todo \ {c}
      BY <1>1, <2>1 DEF At, Process
    <2>4. Left(r) = Left(s) \ {c} /\ r.pc \in ArchivePCs
      BY <1>4, <2>3 DEF Left, ArchivePCs
    <2>5. json[c].parent # s.t
      BY <1>5, <1>9 DEF Readable, NoJson
    <2>6. Freeing(r)
      BY <1>4, <2>3, <2>4, <2>5 DEF Freeing
    <2>7. InHand(r)
      BY <2>3, <2>6 DEF InHand, NewTask, Copied, LinkEnds
    <2>8. SameWork(s, r)
      BY <1>1, <1>4, <2>3, <2>4 DEF At, SameWork
    <2> QED
      BY <1>1, <1>3, <2>2, <2>7, <2>8, MoveLinks DEF At
  <1> QED
    BY <1>8, <1>9

LEMMA ArchiveOrphanLinks ==
  ASSUME Single, Shape, LinkInv, Tidy, NEW p \in Procs, ArchiveOrphan(p) PROVE LinkInv'
  <1>1. PICK s : At(p, s, "a_orphan")
    BY DEF At, Shape, TypeOK, LinkInv, ArchiveOrphan
  <1>2. Freeing(s) /\ Left(s) = s.todo \cup {s.o} /\ s.pc \in ArchivePCs
    BY <1>1 DEF At, InHand, Left, ArchivePCs
  <1>3. s.t \in active /\ s.o \in active /\ s.o # s.t /\ s.o \notin s.todo /\ s.odata = json[s.o]
    BY <1>1, <1>2 DEF At, Freeing
  <1>4. json[s.o] \in Json /\ s.t \in Tasks /\ s.t # None
    BY <1>1, <1>3, TaskStoreAssumption DEF At, FieldsSet
  <1>5. PICK new : new = [json[s.o] EXCEPT !.parent = None]
    OBVIOUS
  <1>6. new \in Json
    BY <1>4, <1>5 DEF Json
  <1>7. new.parent = None /\ new.children = json[s.o].children
    BY <1>4, <1>5 DEF Json
  <1>8. PICK r : r = [s EXCEPT !.pc = "a_child", !.o = None, !.odata = NoJson]
    OBVIOUS
  <1>9. r.pc = "a_child" /\ r.t = s.t /\ r.todo = s.todo
    BY <1>1, <1>8 DEF At, Process
  <1>10. Left(r) = s.todo /\ r.pc \in ArchivePCs
    BY <1>9 DEF Left, ArchivePCs
  <1>11. Goto(p, r) /\ WriteJson(s.o, new) /\ UNCHANGED <<use, active, archived, shelved>>
    BY <1>1, <1>3, <1>5, <1>8 DEF ArchiveOrphan, At
  <1>12. json'[s.o] = new /\ \A t \in active : t # s.o => json'[t] = json[t]
    BY <1>3, <1>11 DEF WriteJson, Tidy, Shape, TypeOK
  <1>13. Left(r)' = Left(r)
    BY DEF Left
  <1>14. Freeing(r)'
    <2>1. r.t \in active'
      BY <1>3, <1>9, <1>11
    <2>2. Readable(r.t)' => json'[r.t].status = "completed"
      BY <1>2, <1>3, <1>9, <1>12 DEF Freeing, Readable
    <2>3. \A c \in active' : json'[c].parent = r.t => c \in Left(r)
      BY <1>2, <1>4, <1>7, <1>9, <1>10, <1>11, <1>12 DEF Freeing
    <2>4. Left(r) \subseteq json'[r.t].children
      BY <1>2, <1>3, <1>9, <1>10, <1>12 DEF Freeing
    <2>5. ~ use.crashes => \A c \in Left(r) \cap active' : json'[c].parent = r.t
      BY <1>2, <1>3, <1>9, <1>10, <1>11, <1>12 DEF Freeing
    <2> QED
      BY <1>9, <1>11, <1>13, <2>1, <2>2, <2>3, <2>4, <2>5 DEF Freeing
  <1>15. InHand(r)'
    BY <1>9, <1>14 DEF InHand, NewTask, Copied, LinkEnds
  <1>16. ASSUME ~ use.crashes, NEW t \in active, s.o \in json[t].children
         PROVE  Linking(r, t, s.o)
    <2>1. json[s.o].parent = s.t
      BY <1>2, <1>3, <1>16 DEF Freeing
    <2>2. json[s.o].parent = t \/ Linking(s, t, s.o)
      BY <1>1, <1>3, <1>16 DEF At, LinksKnown, ChildrenAgree
    <2>3. t = s.t
      BY <1>1, <2>1, <2>2 DEF At, Linking
    <2> QED
      BY <1>9, <1>10, <2>3 DEF Linking
  <1>17. \A t, c : Linking(s, t, c) => Linking(r, t, c)
    BY <1>1, <1>9, <1>10 DEF At, Linking
  <1> QED
    BY <1>1, <1>3, <1>4, <1>6, <1>7, <1>9, <1>11, <1>15, <1>16, <1>17, ParentWritten DEF At

LEMMA ArchiveChildrenDoneLinks ==
  ASSUME Single, Shape, LinkInv, Tidy, NEW p \in Procs, ArchiveChildrenDone(p) PROVE LinkInv'
  <1>1. PICK s : At(p, s, "a_child")
    BY DEF At, Shape, TypeOK, LinkInv, ArchiveChildrenDone
  <1>3. PICK r : r = [s EXCEPT !.pc = "a_clear", !.wins = SessionFiles]
    OBVIOUS
  <1>2. Goto(p, r) /\ UNCHANGED Dirs
    BY <1>1, <1>3 DEF ArchiveChildrenDone, At, disk, Dirs
  <1>4. r.pc \in {"a_clear"} /\ r.t = s.t
    BY <1>1, <1>3 DEF At, Process
  <1>5. Freeing(s) /\ Left(s) = {} /\ s.pc \in ArchivePCs
    BY <1>1 DEF At, InHand, Left, ArchivePCs, ArchiveChildrenDone
  <1>6. Left(r) = {} /\ r.pc \in ArchivePCs
    BY <1>4 DEF Left, ArchivePCs
  <1>7. Freeing(r)
    BY <1>4, <1>5, <1>6 DEF Freeing
  <1>8. InHand(r)
    BY <1>4, <1>7 DEF InHand, NewTask, Copied, LinkEnds
  <1>9. SameWork(s, r)
    BY <1>1, <1>4, <1>5, <1>6 DEF At, SameWork
  <1> QED
    BY <1>1, <1>2, <1>8, <1>9, MoveLinks DEF At

LEMMA ArchiveLookLinks ==
  ASSUME Single, Shape, LinkInv, Tidy, NEW p \in Procs, ArchiveLook(p) PROVE LinkInv'
  <1>1. PICK s : At(p, s, "a_clear")
    BY DEF At, Shape, TypeOK, LinkInv, ArchiveLook
  <1>10. PICK w \in s.wins :
           Goto(p, [s EXCEPT !.pc = IF ptr[w] = s.t THEN "a_unlink" ELSE "a_clear",
                             !.win = IF ptr[w] = s.t THEN w ELSE None,
                             !.wins = @ \ {w}])
    BY <1>1 DEF ArchiveLook, At
  <1>11. PICK pc, win : /\ pc = IF ptr[w] = s.t THEN "a_unlink" ELSE "a_clear"
                        /\ win = IF ptr[w] = s.t THEN w ELSE None
    OBVIOUS
  <1>12. pc \in {"a_clear", "a_unlink"}
    BY <1>11
  <1>3. PICK r : r = [s EXCEPT !.pc = pc, !.win = win, !.wins = @ \ {w}]
    OBVIOUS
  <1>2. Goto(p, r) /\ UNCHANGED Dirs
    BY <1>3, <1>10, <1>11 DEF ArchiveLook, disk, Dirs
  <1>4. r.pc \in {"a_clear", "a_unlink"} /\ r.t = s.t
    BY <1>1, <1>3, <1>12 DEF At, Process
  <1>5. Freeing(s) /\ Left(s) = {} /\ s.pc \in ArchivePCs
    BY <1>1 DEF At, InHand, Left, ArchivePCs
  <1>6. Left(r) = {} /\ r.pc \in ArchivePCs
    BY <1>4 DEF Left, ArchivePCs
  <1>7. Freeing(r)
    BY <1>4, <1>5, <1>6 DEF Freeing
  <1>8. InHand(r)
    BY <1>4, <1>7 DEF InHand, NewTask, Copied, LinkEnds
  <1>9. SameWork(s, r)
    BY <1>1, <1>4, <1>5, <1>6 DEF At, SameWork
  <1> QED
    BY <1>1, <1>2, <1>8, <1>9, MoveLinks DEF At

LEMMA ArchiveUnlinkLinks ==
  ASSUME Single, Shape, LinkInv, Tidy, NEW p \in Procs, ArchiveUnlink(p) PROVE LinkInv'
  <1>1. PICK s : At(p, s, "a_unlink")
    BY DEF At, Shape, TypeOK, LinkInv, ArchiveUnlink
  <1>3. PICK r : r = [s EXCEPT !.pc = "a_clear", !.win = None]
    OBVIOUS
  <1>2. Goto(p, r) /\ UNCHANGED Dirs
    BY <1>1, <1>3 DEF ArchiveUnlink, At, Dirs
  <1>4. r.pc \in {"a_clear"} /\ r.t = s.t
    BY <1>1, <1>3 DEF At, Process
  <1>5. Freeing(s) /\ Left(s) = {} /\ s.pc \in ArchivePCs
    BY <1>1 DEF At, InHand, Left, ArchivePCs
  <1>6. Left(r) = {} /\ r.pc \in ArchivePCs
    BY <1>4 DEF Left, ArchivePCs
  <1>7. Freeing(r)
    BY <1>4, <1>5, <1>6 DEF Freeing
  <1>8. InHand(r)
    BY <1>4, <1>7 DEF InHand, NewTask, Copied, LinkEnds
  <1>9. SameWork(s, r)
    BY <1>1, <1>4, <1>5, <1>6 DEF At, SameWork
  <1> QED
    BY <1>1, <1>2, <1>8, <1>9, MoveLinks DEF At

LEMMA ArchiveMoveLinks ==
  ASSUME Single, Shape, LinkInv, Tidy, NEW p \in Procs, ArchiveMove(p) PROVE LinkInv'
  <1>1. PICK s : At(p, s, "a_clear")
    BY DEF At, Shape, TypeOK, LinkInv, ArchiveMove
  <1>2. Freeing(s) /\ Left(s) = {} /\ s.pc \in ArchivePCs
    BY <1>1 DEF At, InHand, Left, ArchivePCs
  <1>3. s.t \in active /\ s.t \notin archived /\ s.t \in Tasks
    BY <1>1, <1>2 DEF At, Freeing, LinksKnown, Apart, FieldsSet
  <1>4. Readable(s.t) => json[s.t].status = "completed"
    BY <1>2 DEF Freeing
  <1>5. \A c \in active : json[c].parent # s.t
    BY <1>2 DEF Freeing
  <1>6. /\ active' = active \ {s.t} /\ archived' = archived \cup {s.t}
        /\ shelved' = [shelved EXCEPT ![s.t] = json[s.t]] /\ json' = [json EXCEPT ![s.t] = NoJson]
        /\ Goto(p, Idle) /\ UNCHANGED use
    BY <1>1, <1>3 DEF ArchiveMove, At
  <1>7. \A t \in active' : t \in active /\ t # s.t /\ json'[t] = json[t]
    BY <1>6 DEF Shape, TypeOK
  <1>8. shelved'[s.t] = json[s.t] /\ \A t \in Tasks : t # s.t => shelved'[t] = shelved[t]
    BY <1>3, <1>6 DEF Shape, TypeOK
  <1>9. Apart'
    BY <1>1, <1>6 DEF At, LinksKnown, Apart
  <1>10. ASSUME NEW t \in active', NEW c \in json'[t].children
         PROVE  /\ c # t
                /\ (c \in active' /\ Readable(c)') \/ (c \in archived' /\ shelved'[c].status = "completed")
    <2>1. t \in active /\ c \in json[t].children
      BY <1>7, <1>10
    <2>2. c # t /\ ((c \in active /\ Readable(c)) \/ (c \in archived /\ shelved[c].status = "completed"))
      <3>1. ChildrenKnown
        BY <1>1 DEF At, LinksKnown
      <3> QED
        BY <2>1, <3>1, Zenon DEF ChildrenKnown
    <2>3. CASE c = s.t
      BY <1>3, <1>4, <1>6, <1>8, <2>2, <2>3
    <2>4. CASE c # s.t
      BY <1>6, <1>7, <1>8, <2>2, <2>4 DEF Readable, Shape, TypeOK
    <2> QED
      BY <2>2, <2>3, <2>4
  <1>11. ChildrenKnown'
    BY <1>10 DEF ChildrenKnown
  <1>12. ParentsKnown(Idle)'
    BY <1>1, <1>5, <1>6, <1>7 DEF At, LinksKnown, ParentsKnown, Unlinking
  <1>13. ChildrenAgree(Idle)'
    BY <1>1, <1>6, <1>7 DEF At, LinksKnown, ChildrenAgree, Linking
  <1>14. InHand(Idle)'
    BY IdleShape, EmptyHanded
  <1> QED
    BY <1>6, <1>9, <1>11, <1>12, <1>13, <1>14, LinkStep DEF LinksKnown

LEMMA BeginLinkLinks ==
  ASSUME Single, Shape, LinkInv, Tidy, NEW p \in Procs, BeginLink(p) PROVE LinkInv'
  <1>1. PICK s : At(p, s, "idle")
    BY DEF At, Shape, TypeOK, LinkInv, BeginLink, Begin
  <1>2. PICK t \in active, o \in active :
          /\ Readable(t) /\ Readable(o)
          /\ json[o].parent = None
          /\ use.careful => t # o
          /\ Begin(p, "link", [Idle EXCEPT !.pc = "l_parent", !.t = t, !.o = o,
                                           !.data = json[t], !.odata = json[o]])
    BY DEF BeginLink
  <1>3. PICK r : r = [Idle EXCEPT !.pc = "l_parent", !.t = t, !.o = o,
                                  !.data = json[t], !.odata = json[o]]
    OBVIOUS
  <1>4. r.pc = "l_parent" /\ r.t = t /\ r.o = o /\ r.data = json[t] /\ r.odata = json[o]
    BY <1>3 DEF Idle
  <1>8. InHand(r)
    BY <1>2, <1>4 DEF InHand, NewTask, Copied, LinkEnds, Freeing, ArchivePCs, Tidy
  <1>9. SameWork(s, r)
    BY <1>1 DEF At, SameWork, ArchivePCs
  <1>10. Goto(p, r) /\ UNCHANGED Dirs
    BY <1>2, <1>3 DEF Begin, disk, Dirs
  <1> QED
    BY <1>1, <1>8, <1>9, <1>10, MoveLinks DEF At

LEMMA LinkParentLinks ==
  ASSUME Single, Shape, LinkInv, Tidy, NEW p \in Procs, LinkParent(p) PROVE LinkInv'
  <1>1. PICK s : At(p, s, "l_parent")
    BY DEF At, Shape, TypeOK, LinkInv, LinkParent
  <1>2. /\ s.t \in active /\ s.o \in active /\ s.o # s.t
        /\ s.data = json[s.t] /\ s.odata = json[s.o] /\ json[s.o].parent = None
    BY <1>1 DEF At, InHand, Copied, LinkEnds
  <1>3. json[s.t] \in Json /\ json[s.o] \in Json /\ s.o \in Tasks
    BY <1>1, <1>2 DEF At, FieldsSet
  <1>4. Readable(s.o)
    BY <1>3, FreshJson DEF Readable
  <1>5. PICK new : new = [json[s.t] EXCEPT !.children = @ \cup {s.o}]
    OBVIOUS
  <1>6. new \in Json
    BY <1>3, <1>5 DEF Json
  <1>7. new.parent = json[s.t].parent /\ new.children = json[s.t].children \cup {s.o}
    BY <1>3, <1>5 DEF Json
  <1>8. PICK r : r = [s EXCEPT !.pc = "l_child"]
    OBVIOUS
  <1>9. r.pc = "l_child" /\ r.t = s.t /\ r.o = s.o /\ r.data = s.data /\ r.odata = s.odata
    BY <1>1, <1>8 DEF At, Process
  <1>10. Goto(p, r) /\ WriteJson(s.t, new) /\ UNCHANGED <<use, active, archived, shelved>>
    BY <1>1, <1>2, <1>5, <1>8 DEF LinkParent, Step, At
  <1>11. json'[s.t] = new /\ \A t \in active : t # s.t => json'[t] = json[t]
    BY <1>2, <1>10 DEF WriteJson, Tidy, Shape, TypeOK
  <1>12. \A t \in active : json'[t].parent = json[t].parent /\ (Readable(t) => Readable(t)')
    BY <1>6, <1>7, <1>11, FreshJson DEF Readable
  <1>13. InHand(r)'
    BY <1>2, <1>7, <1>9, <1>10, <1>11 DEF InHand, NewTask, Copied, LinkEnds, Freeing, ArchivePCs
  <1>14. Apart'
    BY <1>1, <1>10 DEF At, LinksKnown, Apart
  <1>15. ChildrenKnown'
    BY <1>1, <1>2, <1>4, <1>7, <1>10, <1>11, <1>12 DEF At, LinksKnown, ChildrenKnown
  <1>16. ParentsKnown(r)'
    BY <1>1, <1>7, <1>10, <1>11, <1>12 DEF At, LinksKnown, ParentsKnown, Unlinking
  <1>17. ChildrenAgree(r)'
    BY <1>1, <1>7, <1>9, <1>10, <1>11, <1>12 DEF At, LinksKnown, ChildrenAgree, Linking,
       ArchivePCs
  <1> QED
    BY <1>10, <1>13, <1>14, <1>15, <1>16, <1>17, LinkStep DEF LinksKnown

LEMMA LinkChildLinks ==
  ASSUME Single, Shape, LinkInv, Tidy, NEW p \in Procs, LinkChild(p) PROVE LinkInv'
  <1>1. PICK s : At(p, s, "l_child")
    BY DEF At, Shape, TypeOK, LinkInv, LinkChild
  <1>2. /\ s.t \in active /\ s.o \in active /\ s.o # s.t /\ s.odata = json[s.o]
        /\ json[s.o].parent = None /\ s.o \in json[s.t].children
    BY <1>1 DEF At, InHand, Copied, LinkEnds
  <1>3. json[s.o] \in Json /\ s.t \in Tasks /\ s.o \in Tasks /\ None \notin active
    BY <1>1, <1>2, TaskStoreAssumption DEF At, FieldsSet, Shape, TypeOK
  <1>4. PICK new : new = [json[s.o] EXCEPT !.parent = s.t]
    OBVIOUS
  <1>5. new \in Json
    BY <1>3, <1>4 DEF Json
  <1>6. new.parent = s.t /\ new.children = json[s.o].children
    BY <1>3, <1>4 DEF Json
  <1>7. Goto(p, Idle) /\ WriteJson(s.o, new) /\ UNCHANGED <<use, active, archived, shelved>>
    BY <1>1, <1>2, <1>4 DEF LinkChild, At
  <1>8. ASSUME ~ use.crashes, NEW t \in active, s.o \in json[t].children PROVE s.t = t
    BY <1>1, <1>2, <1>3, <1>8 DEF At, LinksKnown, ChildrenAgree, Linking, ArchivePCs
  <1>9. \A t, c : c # s.o => ~ Linking(s, t, c)
    BY <1>1 DEF At, Linking, ArchivePCs
  <1>10. Idle.pc = "idle" /\ InHand(Idle)'
    BY IdleShape, EmptyHanded
  <1>11. s.pc = "u_child" => s.o = s.o
    OBVIOUS
  <1> QED
    BY <1>1, <1>2, <1>3, <1>5, <1>6, <1>7, <1>8, <1>9, <1>10, <1>11, ParentWritten DEF At

LEMMA BeginUnlinkLinks ==
  ASSUME Single, Shape, LinkInv, Tidy, NEW p \in Procs, BeginUnlink(p) PROVE LinkInv'
  <1>1. PICK s : At(p, s, "idle")
    BY DEF At, Shape, TypeOK, LinkInv, BeginUnlink, Begin
  <1>2. PICK t \in active, o \in active :
          /\ Readable(t) /\ Readable(o)
          /\ use.careful => o \in json[t].children \/ json[o].parent = t
          /\ Begin(p, "unlink", [Idle EXCEPT !.pc = "u_parent", !.t = t, !.o = o,
                                           !.data = json[t], !.odata = json[o]])
    BY DEF BeginUnlink
  <1>3. PICK r : r = [Idle EXCEPT !.pc = "u_parent", !.t = t, !.o = o,
                                  !.data = json[t], !.odata = json[o]]
    OBVIOUS
  <1>4. r.pc = "u_parent" /\ r.t = t /\ r.o = o /\ r.data = json[t] /\ r.odata = json[o]
    BY <1>3 DEF Idle
  <1>5. ~ use.crashes /\ use.careful /\ t # None
    BY <1>2, TaskStoreAssumption DEF Begin, Tidy, Shape, TypeOK
  <1>6. json[o].parent = t
    BY <1>1, <1>2, <1>5 DEF At, LinksKnown, ChildrenAgree, Linking, ArchivePCs
  <1>7. o # t
    BY <1>1, <1>5, <1>6 DEF At, LinksKnown, ParentsKnown, ChildrenKnown, Unlinking
  <1>8. InHand(r)
    BY <1>2, <1>4, <1>5, <1>6, <1>7 DEF InHand, NewTask, Copied, LinkEnds, Freeing, ArchivePCs,
       Tidy
  <1>9. SameWork(s, r)
    BY <1>1 DEF At, SameWork, ArchivePCs
  <1>10. Goto(p, r) /\ UNCHANGED Dirs
    BY <1>2, <1>3 DEF Begin, disk, Dirs
  <1> QED
    BY <1>1, <1>8, <1>9, <1>10, MoveLinks DEF At

LEMMA UnlinkParentLinks ==
  ASSUME Single, Shape, LinkInv, Tidy, NEW p \in Procs, UnlinkParent(p) PROVE LinkInv'
  <1>1. PICK s : At(p, s, "u_parent")
    BY DEF At, Shape, TypeOK, LinkInv, UnlinkParent
  <1>2. /\ s.t \in active /\ s.o \in active /\ s.o # s.t
        /\ s.data = json[s.t] /\ s.odata = json[s.o]
        /\ json[s.o].parent = s.t /\ ~ use.crashes
    BY <1>1 DEF At, InHand, Copied, LinkEnds
  <1>3. json[s.t] \in Json
    BY <1>1, <1>2 DEF At, FieldsSet
  <1>4. PICK new : new = [json[s.t] EXCEPT !.children = @ \ {s.o}]
    OBVIOUS
  <1>5. new \in Json
    BY <1>3, <1>4 DEF Json
  <1>6. new.parent = json[s.t].parent /\ new.children = json[s.t].children \ {s.o}
    BY <1>3, <1>4 DEF Json
  <1>7. PICK r : r = [s EXCEPT !.pc = "u_child"]
    OBVIOUS
  <1>8. r.pc = "u_child" /\ r.t = s.t /\ r.o = s.o /\ r.data = s.data /\ r.odata = s.odata
    BY <1>1, <1>7 DEF At, Process
  <1>9. Goto(p, r) /\ WriteJson(s.t, new) /\ UNCHANGED <<use, active, archived, shelved>>
    BY <1>1, <1>2, <1>4, <1>7 DEF UnlinkParent, Step, At
  <1>10. json'[s.t] = new /\ \A t \in active : t # s.t => json'[t] = json[t]
    BY <1>2, <1>9 DEF WriteJson, Tidy, Shape, TypeOK
  <1>11. \A t \in active : json'[t].parent = json[t].parent /\ (Readable(t) => Readable(t)')
    BY <1>5, <1>6, <1>10, FreshJson DEF Readable
  <1>12. InHand(r)'
    BY <1>2, <1>6, <1>8, <1>9, <1>10 DEF InHand, NewTask, Copied, LinkEnds, Freeing, ArchivePCs
  <1>13. Apart'
    BY <1>1, <1>9 DEF At, LinksKnown, Apart
  <1>14. ChildrenKnown'
    BY <1>1, <1>6, <1>9, <1>10, <1>11 DEF At, LinksKnown, ChildrenKnown
  <1>15. ParentsKnown(r)'
    BY <1>1, <1>6, <1>8, <1>9, <1>10, <1>11 DEF At, LinksKnown, ParentsKnown, Unlinking
  <1>16. ChildrenAgree(r)'
    BY <1>1, <1>6, <1>9, <1>10, <1>11 DEF At, LinksKnown, ChildrenAgree, Linking, ArchivePCs
  <1> QED
    BY <1>9, <1>12, <1>13, <1>14, <1>15, <1>16, LinkStep DEF LinksKnown

LEMMA UnlinkChildLinks ==
  ASSUME Single, Shape, LinkInv, Tidy, NEW p \in Procs, UnlinkChild(p) PROVE LinkInv'
  <1>1. PICK s : At(p, s, "u_child")
    BY DEF At, Shape, TypeOK, LinkInv, UnlinkChild
  <1>2. /\ s.t \in active /\ s.o \in active /\ s.o # s.t /\ s.odata = json[s.o]
        /\ json[s.o].parent = s.t /\ s.o \notin json[s.t].children
    BY <1>1 DEF At, InHand, Copied, LinkEnds
  <1>3. json[s.o] \in Json /\ s.t \in Tasks /\ s.o \in Tasks /\ None \notin active
    BY <1>1, <1>2, TaskStoreAssumption DEF At, FieldsSet, Shape, TypeOK
  <1>4. PICK new : new = [json[s.o] EXCEPT !.parent = None]
    OBVIOUS
  <1>5. new \in Json
    BY <1>3, <1>4 DEF Json
  <1>6. new.parent = None /\ new.children = json[s.o].children
    BY <1>3, <1>4 DEF Json
  <1>7. Goto(p, Idle) /\ WriteJson(s.o, new) /\ UNCHANGED <<use, active, archived, shelved>>
    BY <1>1, <1>2, <1>4 DEF UnlinkChild, At
  <1>8. ASSUME ~ use.crashes, NEW t \in active, s.o \in json[t].children PROVE FALSE
    BY <1>1, <1>2, <1>3, <1>8 DEF At, LinksKnown, ChildrenAgree, Linking, ArchivePCs
  <1>9. \A t, c : c # s.o => ~ Linking(s, t, c)
    BY <1>1 DEF At, Linking, ArchivePCs
  <1>10. Idle.pc = "idle" /\ InHand(Idle)'
    BY IdleShape, EmptyHanded
  <1>11. s.pc = "u_child" => s.o = s.o
    OBVIOUS
  <1> QED
    BY <1>1, <1>2, <1>3, <1>5, <1>6, <1>7, <1>8, <1>9, <1>10, <1>11, ParentWritten DEF At

LEMMA BeginSetLinks ==
  ASSUME Single, Shape, LinkInv, Tidy, NEW p \in Procs, BeginSet(p) PROVE LinkInv'
  <1>1. PICK s : At(p, s, "idle")
    BY DEF At, Shape, TypeOK, LinkInv, BeginSet, Begin
  <1>2. PICK t \in active : Begin(p, "set", [Idle EXCEPT !.pc = "set", !.t = t, !.data = json[t]])
    BY DEF BeginSet
  <1>3. PICK r : r = [Idle EXCEPT !.pc = "set", !.t = t, !.data = json[t]]
    OBVIOUS
  <1>4. r.pc = "set" /\ r.t = t /\ r.data = json[t]
    BY <1>3 DEF Idle
  <1>5. InHand(r)
    BY <1>4 DEF InHand, NewTask, Copied, LinkEnds, Freeing, ArchivePCs
  <1>6. SameWork(s, r)
    BY <1>1 DEF At, SameWork, ArchivePCs
  <1> QED
    BY <1>1, <1>2, <1>3, <1>5, <1>6, MoveLinks DEF At, Begin, disk, Dirs

LEMMA SetWriteLinks ==
  ASSUME Single, Shape, LinkInv, Tidy, NEW p \in Procs, SetWrite(p) PROVE LinkInv'
  <1>1. PICK s : At(p, s, "set")
    BY DEF At, Shape, TypeOK, LinkInv, SetWrite
  <1>2. s.t \in active /\ s.data = json[s.t] /\ json[s.t] \in Json
    BY <1>1 DEF At, InHand, Copied, FieldsSet
  <1>3. PICK new : new = [json[s.t] EXCEPT !.extra = TRUE]
    OBVIOUS
  <1>4. new \in Json /\ new.parent = json[s.t].parent /\ new.children = json[s.t].children
    BY <1>2, <1>3 DEF Json
  <1>5. Goto(p, Idle) /\ WriteJson(s.t, new) /\ UNCHANGED <<use, active, archived, shelved>>
    BY <1>1, <1>2, <1>3 DEF SetWrite, At
  <1>6. Idle.pc = "idle" /\ SameWork(s, Idle)
    BY <1>1 DEF At, SameWork, ArchivePCs, Idle
  <1> QED
    BY <1>1, <1>2, <1>4, <1>5, <1>6, EmptyHanded, SameLinks DEF At

LEMMA CrashLinks ==
  ASSUME Single, Shape, LinkInv, Tidy, NEW p \in Procs, Crash(p) PROVE LinkInv'
  <1>1. use.crashes /\ Goto(p, Idle) /\ UNCHANGED Dirs /\ LinksKnown(proc[p]) /\ LinkEnds(proc[p])
    BY DEF Crash, Dirs, LinkInv, InHand
  <1>2. proc[p].pc # "u_child"
    BY <1>1 DEF LinkEnds
  <1>3. InHand(Idle)
    BY IdleShape, EmptyHanded
  <1> QED
    BY <1>1, <1>2, <1>3, MoveLinks

LEMMA LinksStep == ASSUME Single, Shape, LinkInv, [Next]_vars PROVE LinkInv'
  <1>1. CASE UNCHANGED vars
    <2>1. \A p \in Procs : LinksKnown(proc[p])' = LinksKnown(proc[p])
      BY <1>1 DEF vars, LinksKnown, Apart, ChildrenKnown, ParentsKnown, ChildrenAgree, Linking,
         Unlinking, Readable
    <2>2. \A p \in Procs : /\ NewTask(proc[p])' = NewTask(proc[p])
                           /\ Copied(proc[p])' = Copied(proc[p])
                           /\ LinkEnds(proc[p])' = LinkEnds(proc[p])
      BY <1>1 DEF vars, NewTask, Copied, LinkEnds
    <2>3. \A p \in Procs : Freeing(proc[p])' = Freeing(proc[p])
      BY <1>1 DEF vars, Freeing, Left, Readable
    <2>4. Tidy' = Tidy
      BY <1>1 DEF vars, Tidy
    <2> QED
      BY <2>1, <2>2, <2>3, <2>4 DEF LinkInv, InHand
  <1>2. ASSUME NEW p \in Procs, Tidy,
               Create(p) \/ StartOrFinish(p) \/ Archive(p) \/ Edit(p) \/ Crash(p)
        PROVE  LinkInv'
    <2>1. CASE Create(p)
      BY <1>2, <2>1, BeginCreateLinks, CreateDirLinks, CreateJsonLinks, CreateReadParentLinks,
         CreateWriteParentLinks, CreateWriteChildLinks, CreatePointLinks DEF Create
    <2>2. CASE StartOrFinish(p)
      BY <1>2, <2>2, BeginStartLinks, StartPointLinks, StartReadLinks, StartWriteLinks,
         BeginFinishLinks, FinishUnlinkLinks DEF StartOrFinish
    <2>3. CASE Archive(p)
      BY <1>2, <2>3, BeginArchiveLinks, ArchiveStatusLinks, ArchiveReadChildLinks,
         ArchiveOrphanLinks, ArchiveChildrenDoneLinks, ArchiveLookLinks, ArchiveUnlinkLinks, ArchiveMoveLinks DEF Archive
    <2>4. CASE Edit(p)
      BY <1>2, <2>4, BeginLinkLinks, LinkParentLinks, LinkChildLinks, BeginUnlinkLinks,
         UnlinkParentLinks, UnlinkChildLinks, BeginSetLinks, SetWriteLinks DEF Edit
    <2> QED
      BY <1>2, <2>1, <2>2, <2>3, <2>4, CrashLinks
  <1>3. ASSUME Next, ~ Tidy PROVE LinkInv'
    BY <1>3, UseKept DEF Next, Tidy, LinkInv
  <1> QED
    BY <1>1, <1>2, <1>3 DEF Next

LEMMA LinksInit == ASSUME Init PROVE LinkInv
  <1>1. \A p \in Procs : proc[p] = Idle /\ Idle.pc = "idle"
    BY IdleShape DEF Init
  <1>2. LinksKnown(Idle)
    BY DEF Init, LinksKnown, Apart, ChildrenKnown, ParentsKnown, ChildrenAgree
  <1> QED
    BY <1>1, <1>2, EmptyHanded DEF LinkInv

\* With one command at a time, used with care, a child that is listed and no longer active
\* is in the archive, marked completed, which is what tasks.py takes it for.
THEOREM MissingDone == ASSUME Single PROVE Spec => []MissingChildIsDone
  <1>1. Shape /\ LinkInv => MissingChildIsDone
    BY DEF Single, LinkInv, LinksKnown, ChildrenKnown, MissingChildIsDone
  <1> QED
    BY <1>1, LinksInit, LinksStep, Shaped, PTL DEF Spec

\* With one command at a time, used with care, no task names a parent that has left
\* tasks/: archive frees the children before it moves the directory.
THEOREM ParentsActive == ASSUME Single PROVE Spec => []ParentIsActive
  <1>1. Shape /\ LinkInv => ParentIsActive
    BY DEF Single, LinkInv, LinksKnown, ParentsKnown, ParentIsActive
  <1> QED
    BY <1>1, LinksInit, LinksStep, Shaped, PTL DEF Spec

\* Between two commands that were asked for with care and not killed, the two ends of
\* every link agree.
THEOREM LinksAgreed == ASSUME Single PROVE Spec => []LinksAgree
  <1>1. ASSUME Shape, LinkInv, Tidy, ~ use.crashes, \A p \in Procs : proc[p].pc = "idle",
               NEW t \in active, NEW c \in active
        PROVE  json[c].parent = t <=> c \in json[t].children
    <2>1. PICK p \in Procs : LinksKnown(proc[p]) /\ proc[p].pc = "idle"
      BY <1>1 DEF Single, LinkInv, Tidy
    <2>2. t # None
      BY <1>1, TaskStoreAssumption DEF Shape, TypeOK
    <2> QED
      BY <1>1, <2>1, <2>2 DEF LinksKnown, ParentsKnown, ChildrenAgree, Linking, Unlinking,
         ArchivePCs
  <1>2. Shape /\ LinkInv => LinksAgree
    BY <1>1 DEF LinksAgree
  <1> QED
    BY <1>2, LinksInit, LinksStep, Shaped, PTL DEF Spec

\* Every variable of the task store keeps its type: what is read and written back is a
\* record of its task, and a task.json is only there for a directory under tasks/.
THEOREM TypesKept == Spec => []TypeOK
  <1>1. Shape => TypeOK
    BY DEF Shape
  <1> QED
    BY <1>1, Shaped, PTL

-----------------------------------------------------------------------------
(* The listing *)

\* What is listed below a task: its children, what is below them, and no more.
LEMMA BelowFacts ==
  ASSUME NEW t
  PROVE  /\ Below(t) \subseteq Listed /\ Kids(t) \subseteq Below(t)
         /\ \A u \in Below(t) : Kids(u) \subseteq Below(t)
         /\ \A S \in SUBSET Listed :
              Kids(t) \subseteq S /\ (\A u \in S : Kids(u) \subseteq S) => Below(t) \subseteq S
  BY DEF Below, Kids

\* What is below a child is below the task too.
LEMMA BelowChild == ASSUME NEW t, NEW u, Kids(u) \subseteq Below(t) PROVE Below(u) \subseteq Below(t)
  BY BelowFacts

\* A task below another is a child of it, or of one that is below it.
LEMMA BelowHow ==
  ASSUME NEW t, NEW c \in Below(t) PROVE \E u \in Below(t) \cup {t} : c \in Kids(u)
  <1> DEFINE S == {d \in Below(t) : \E u \in Below(t) \cup {t} : d \in Kids(u)}
  <1>1. S \in SUBSET Listed /\ Kids(t) \subseteq S /\ \A u \in S : Kids(u) \subseteq S
    BY BelowFacts
  <1>2. Below(t) \subseteq S
    <2> HIDE DEF S
    <2> QED
      BY <1>1, BelowFacts
  <1> QED
    BY <1>2

\* Where a listed task has one parent at most, and the tasks at the top none, no task that
\* is printed is below itself: from the top the listing does not enter a ring.
LEMMA NoRingEntered ==
  ASSUME \A t, c \in Listed : c \in Kids(t) => json[c].parent = t, None \notin Listed
  PROVE  \A t \in Printed : t \notin Below(t)
  <1> DEFINE Free == {t \in Listed : t \notin Below(t)}
  <1>1. ASSUME NEW t \in Listed, json[t].parent = None PROVE t \in Free
    BY <1>1, BelowFacts, BelowHow
  <1>2. ASSUME NEW t \in Free, NEW c \in Kids(t) PROVE c \in Free
    <2> SUFFICES ASSUME c \in Below(c) PROVE FALSE
      BY DEF Kids
    <2>1. PICK u \in Below(c) \cup {c} : c \in Kids(u)
      BY BelowHow
    <2>2. u \in Listed /\ c \in Listed
      BY <2>1, BelowFacts DEF Kids
    <2>3. u = t
      BY <1>2, <2>1, <2>2
    <2>4. t \in Below(c)
      BY <2>1, <2>3
    <2>5. Kids(c) \subseteq Below(t)
      BY <1>2, BelowFacts
    <2>6. Below(c) \subseteq Below(t)
      BY <2>5, BelowChild
    <2> QED
      BY <2>4, <2>6
  <1>3. ASSUME NEW t \in Tops PROVE t \in Free /\ Below(t) \subseteq Free
    <2>1. t \in Free
      BY <1>1, <1>3 DEF Tops
    <2>2. Kids(t) \subseteq Free /\ \A u \in Free : Kids(u) \subseteq Free
      BY <1>2, <2>1
    <2>3. Free \in SUBSET Listed
      OBVIOUS
    <2> HIDE DEF Free
    <2> QED
      BY <2>1, <2>2, <2>3, BelowFacts
  <1> QED
    BY <1>3 DEF Printed

\* The recursion of task.py list ends, however tasks were linked with care: rings can be
\* made, but not entered from a task without a parent.
THEOREM ListingEnds == ASSUME Single PROVE Spec => []ListEnds
  <1>1. TypeOK /\ LinksAgree => ListEnds
    <2> SUFFICES ASSUME TypeOK, LinksAgree, Tidy /\ ~ use.crashes,
                        \A p \in Procs : proc[p].pc = "idle"
                 PROVE  \A t \in Printed : t \notin Below(t)
      BY DEF ListEnds
    <2>1. \A t, c \in active : c \in json[t].children => json[c].parent = t
      BY DEF LinksAgree
    <2>2. Listed \subseteq active /\ None \notin Listed
      BY TaskStoreAssumption DEF Listed, TypeOK
    <2>3. \A t, c \in Listed : c \in Kids(t) => json[c].parent = t
      BY <2>1, <2>2 DEF Kids
    <2> QED
      BY <2>2, <2>3, NoRingEntered
  <1> QED
    BY <1>1, LinksAgreed, TypesKept, PTL
=============================================================================
