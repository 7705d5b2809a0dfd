------------------------------- MODULE TaskRefs -------------------------------
(***************************************************************************)
(* How the agent's scripts turn what a user types, or what a session       *)
(* pointer holds, into a task directory (common/paths.py, active_task.py,  *)
(* task_utils.py, task.py start and the copy in hooks/session-start.py).   *)
(* Three of them read the same text in different ways.                     *)
(***************************************************************************)
EXTENDS Sequences, SequencesExt

CONSTANT Ends     \* the pairs <<d, n>> of names where d ends with "-" and n

\* A reference is what stands between its slashes; whole says that it is an absolute
\* path, of which the part after the repository's root is given.
Ref(whole, path) == [whole |-> whole, path |-> path]

Workflow == <<".trellis">>
Tasks == <<".trellis", "tasks">>

StartsWith(name, path) == Len(path) > 1 /\ Head(path) = name

\* Path: a "." means nothing, while ".." stays.
Plain(path) ==
  LET plain[n \in 0..Len(path)] ==
        IF n = 0 THEN <<>>
        ELSE IF path[n] = "." THEN plain[n - 1]
        ELSE Append(plain[n - 1], path[n])
  IN plain[Len(path)]

\* The leading "./" of a text.
Undotted(path) ==
  LET named == {n \in 1..Len(path) : path[n] # "."} IN
  IF named = {} THEN <<Last(path)>>
  ELSE SubSeq(path, CHOOSE n \in named : \A m \in named : n <= m, Len(path))

-----------------------------------------------------------------------------
(* Directories: a tree is the set of the paths that exist *)

Above == <<"..">>       \* the directory around the repository
Nowhere == <<"nowhere">>

\* Where the operating system ends up, following a path from the root.
Place(tree, path) ==
  LET at[n \in 0..Len(path)] ==
        IF n = 0 THEN <<>>
        ELSE LET here == at[n - 1] IN
             IF here \in {Above, Nowhere} THEN Nowhere
             ELSE IF path[n] = "." THEN here
             ELSE IF path[n] = ".." THEN IF here = <<>> THEN Above ELSE Front(here)
             ELSE IF Append(here, path[n]) \in tree THEN Append(here, path[n])
             ELSE Nowhere
  IN at[Len(path)]

IsDir(tree, path) == Place(tree, path) # Nowhere

-----------------------------------------------------------------------------
(* References to paths *)

\* normalize_task_ref, alike in paths.py and active_task.py and in the hook.
NormalizeTaskRef(ref) ==
  IF ref.whole THEN Ref(TRUE, Plain(ref.path))
  ELSE LET path == Undotted(ref.path) IN
       Ref(FALSE, IF StartsWith("tasks", path) THEN Workflow \o path ELSE path)

\* resolve_task_ref: what does not begin with .trellis is looked for among the tasks.
ResolveTaskRef(ref) ==
  LET path == NormalizeTaskRef(ref).path IN
  IF ref.whole \/ StartsWith(".trellis", path) THEN Plain(path) ELSE Tasks \o Plain(path)

\* find_task_by_name: the exact name, or some directory that ends with it.
FindTaskByName(tree, path) ==
  IF IsDir(tree, Tasks \o path) THEN {Tasks \o Plain(path)}
  ELSE {Append(Tasks, pair[1]) : pair \in
          {e \in Ends : path = <<e[2]>> /\ Append(Tasks, e[1]) \in tree}}

\* resolve_task_dir, for a command: what has a slash in it is looked for below the root,
\* a name among the tasks and then below the root.
ResolveTaskDir(tree, ref) ==
  LET path == Undotted(ref.path)
      found == FindTaskByName(tree, ref.path)
  IN IF ref.whole THEN {Plain(ref.path)}
     ELSE IF Len(path) > 1 \/ path = Workflow \/ found = {} THEN {Plain(path)}
     ELSE found

\* _canonical_task_ref: the text a pointer stores; full_path is inside the repository
\* unless a ".." leads out.
NoRef == Ref(FALSE, <<>>)

CanonicalTaskRef(tree, ref) ==
  LET path == ResolveTaskRef(ref) IN IF IsDir(tree, path) THEN Ref(FALSE, path) ELSE NoRef

\* cmd_start: the directory found and the pointer set_active_task then stores for it.
Started(tree, ref) ==
  LET written(path) == Ref(FALSE, IF path = <<>> THEN <<".">> ELSE path) IN
  {[found |-> path, pointer |-> CanonicalTaskRef(tree, written(path))] :
     path \in {d \in ResolveTaskDir(tree, ref) : IsDir(tree, d)}}

\* _resolve_task_dir of the hook, for a pointer.
ResolveInHook(ref) ==
  LET path == NormalizeTaskRef(ref).path IN
  IF ref.whole \/ StartsWith(".trellis", path) THEN path ELSE Tasks \o path

\* _task_refs_match
TaskRefsMatch(left, right) ==
  /\ NoRef \notin {left, right}
  /\ ResolveTaskRef(left) = ResolveTaskRef(right)

-----------------------------------------------------------------------------
(* Guards of the commands that move directories *)

ParentAsWritten(tree, path) ==    \* mutant: the parent of the path as it is written
  Len(path) > 2 /\ Front(path) = Tasks

\* is_within_tasks_dir: after ".." has been followed, the parent is the tasks directory.
IsWithinTasksDir(tree, path) ==
  LET place == Place(tree, path) IN
  place \notin {<<>>, Above, Nowhere} /\ Front(place) = Tasks

\* What cmd_archive would move for a reference.
Moved(tree, ref) ==
  {path \in ResolveTaskDir(tree, ref) : IsDir(tree, path) /\ IsWithinTasksDir(tree, path)}

\* is_safe_task_path, kept in the code for callers to come.
IsSafeTaskPath(ref) ==
  /\ ~ ref.whole
  /\ ".." \notin Range(ref.path)
  /\ Head(ref.path) # "."

-----------------------------------------------------------------------------
(* What the readings have in common *)

Upwards(ref) == ".." \in Range(ref.path)

InWorkflow(path) == path # <<>> /\ Head(path) = ".trellis"

\* The task that start finds below .trellis is the one its pointer names, to every
\* script that reads it and in the one form archive compares it with.
PointersHold(tree, ref) ==
  \A s \in Started(tree, ref) :
    LET place == Place(tree, s.found) IN
    ~ Upwards(ref) /\ InWorkflow(place) /\ s.pointer # NoRef =>
      /\ Place(tree, ResolveTaskRef(s.pointer)) = place
      /\ ResolveInHook(s.pointer) = ResolveTaskRef(s.pointer)
      /\ CanonicalTaskRef(tree, s.pointer) = s.pointer
      /\ TaskRefsMatch(s.pointer, Ref(TRUE, place))

\* A pointer is refused only for a directory that is in no .trellis path, and a directory
\* outside gets one only in place of a task with the same relative path.
PointersRefused(tree, ref) ==
  \A s \in Started(tree, ref) :
    /\ s.pointer = NoRef => s.found = Workflow \/ ~ InWorkflow(s.found)
    /\ ~ InWorkflow(s.found) /\ s.pointer # NoRef =>
         \/ Place(tree, Tasks \o s.found) # Nowhere
         \/ StartsWith("tasks", s.found) /\ Place(tree, Workflow \o s.found) # Nowhere

\* Whatever is typed, archive moves a directory that lies directly in the tasks
\* directory, and an exact name is never taken for the end of another task's.
MovesTasksOnly(tree, ref) ==
  \A path \in Moved(tree, ref) :
    LET place == Place(tree, path) IN
    /\ Len(place) = 3 /\ Front(place) = Tasks
    /\ Len(ref.path) = 1 /\ ~ ref.whole /\ Tasks \o ref.path \in tree =>
         place = Tasks \o ref.path

\* A path called safe leads to something inside the repository, never to its root.
SafePathsStayInside(tree, ref) ==
  IsSafeTaskPath(ref) => Place(tree, ref.path) \notin {<<>>, Above}

RefsSound(tree, ref) ==
  /\ PointersHold(tree, ref)
  /\ PointersRefused(tree, ref)
  /\ MovesTasksOnly(tree, ref)
  /\ SafePathsStayInside(tree, ref)
=============================================================================
