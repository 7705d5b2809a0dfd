------------------------------ MODULE TaskList ------------------------------
(***************************************************************************)
(* What task.py list makes of the task directories: the tasks without a    *)
(* parent, each followed by its children, their children and so on.        *)
(***************************************************************************)
EXTENDS TaskStore

\* iter_active_tasks: directories with a readable task.json.
Listed == {t \in active : Readable(t)}

\* _print_task goes from a task to those of its children that are listed,
Kids(t) == Listed \cap json[t].children

\* and from them to theirs: to the smallest set that has them all.
Below(t) ==
  {c \in Listed : \A S \in SUBSET Listed :
     Kids(t) \subseteq S /\ (\A u \in S : Kids(u) \subseteq S) => c \in S}

Tops == {t \in Listed : json[t].parent = None}

\* The tasks a list without filters prints.
Printed == Tops \cup UNION {Below(t) : t \in Tops}

-----------------------------------------------------------------------------
\* The recursion of _print_task, which has no guard of its own, ends: no task that
\* is printed is below itself.  It rests on add-subtask refusing a child that has
\* a parent, so that a ring of tasks cannot be entered from outside.
ListEnds ==
  Tidy /\ ~ use.crashes /\ (\A p \in Procs : proc[p].pc = "idle") =>
    \A t \in Printed : t \notin Below(t)
=============================================================================
