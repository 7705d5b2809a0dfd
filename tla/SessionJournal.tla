--------------------------- MODULE SessionJournal ---------------------------
(***************************************************************************)
(* The workspace of a developer: the numbered journal files, to which      *)
(* add_session.py appends, and index.md, which it rewrites; and how        *)
(* init_developer.py sets them up (common/developer.py).  Every run is a   *)
(* process of its own, nothing is locked, and each read and write of a     *)
(* file is one step.  index.md is written in place: truncated first.       *)
(***************************************************************************)
EXTENDS Naturals, Sequences, SequencesExt

CONSTANTS
  Procs,
  Sizes,         \* lines a session may have
  Header,        \* lines of a new journal file
  MaxLines,      \* max_journal_lines of config.yaml
  MaxSessions,   \* bound on the sessions appended
  MaxFiles,      \* bound on the journal files
  Crashes        \* may a process be killed?

\* What is assumed of the constants, where the module is instantiated.
SessionJournalAssumption ==
  /\ Sizes \subseteq Nat
  /\ Header \in Nat /\ MaxLines \in Nat /\ MaxSessions \in Nat
  /\ MaxFiles \in Nat \ {0}
  /\ Crashes \in BOOLEAN

Files == 1..MaxFiles

VARIABLES
  dev,      \* is there a .developer file?
  made,     \* numbers of the journal files
  log,      \* journal file -> its lines, and the sessions in it
  index,    \* what index.md holds
  proc,     \* process -> where it is
  killed    \* history: was a process ever killed?

vars == <<dev, made, log, index, proc, killed>>

-----------------------------------------------------------------------------
(* Contents *)

\* A journal file: how many lines it has, and the numbers of its sessions; number 0 is one
\* whose heading never reached the disk.
File == [lines : Nat, entries : Seq(0..MaxSessions)]

NoFile == [lines |-> 0, entries |-> <<>>]
NewFile == [lines |-> Header, entries |-> <<>>]

With(file, n, size) == [lines |-> file.lines + size, entries |-> Append(file.entries, n)]

\* index.md: whether it is there, whether the marker of the status section is, the
\* total below it, whether the history table is, and its rows, newest first.
NoIndex == [there |-> FALSE, marked |-> FALSE, total |-> 0, table |-> FALSE, rows |-> <<>>]
TornIndex == [NoIndex EXCEPT !.there = TRUE]
NewIndex == [there |-> TRUE, marked |-> TRUE, total |-> 0, table |-> TRUE, rows |-> <<>>]

\* What is left of index.md when its writing is cut short.
Cuts(idx) ==
  {TornIndex, [TornIndex EXCEPT !.marked = TRUE],
   [TornIndex EXCEPT !.marked = TRUE, !.total = idx.total]}
    \cup {[idx EXCEPT !.rows = SubSeq(@, 1, k)] : k \in 0..Len(idx.rows)}

Lines(k) == log[k].lines

Appended == FoldLeft(LAMBDA sum, k : sum + Len(log[k].entries), 0, [k \in Files |-> k])

\* get_latest_journal_info: the highest number, 0 when there is no journal.
Latest == CHOOSE k \in made \cup {0} : \A j \in made : j <= k

-----------------------------------------------------------------------------
(* Processes *)

Process == [pc : {"idle", "i_journal", "i_index",
                  "count", "create", "append", "read", "truncate", "write"},
            n : 0..MaxSessions,         \* the number of the session
            size : {0} \cup Sizes,      \* its lines
            file : 0..MaxFiles,         \* the journal file it goes to, 0 for none
            index : {TornIndex} \cup    \* the index.md it read
                    [there : {TRUE}, marked : {TRUE}, total : 0..MaxSessions,
                     table : BOOLEAN, rows : Seq(1..MaxSessions)]]

Idle == [pc |-> "idle", n |-> 0, size |-> 0, file |-> 0, index |-> TornIndex]

TypeOK ==
  /\ dev \in BOOLEAN
  /\ made \subseteq Files
  /\ log \in [Files -> File]
  /\ index.rows \in Seq(1..MaxSessions) /\ index.total \in 0..MaxSessions
  /\ {index.there, index.marked, index.table} \subseteq BOOLEAN
  /\ proc \in [Procs -> Process]
  /\ killed \in BOOLEAN
  /\ \A k \in Files \ made : log[k] = NoFile

Init ==
  /\ dev = FALSE
  /\ made = {}
  /\ log = [k \in Files |-> NoFile]
  /\ index = NoIndex
  /\ proc = [p \in Procs |-> Idle]
  /\ killed = FALSE

Goto(p, r) == proc' = [proc EXCEPT ![p] = r]
Step(p, pc) == proc' = [proc EXCEPT ![p].pc = pc]
Return(p) == Goto(p, Idle)

-----------------------------------------------------------------------------
(* init_developer.py *)

\* Nothing is done when there is a .developer file; otherwise it is written first, and
\* then the directory is made.
BeginInit(p) ==
  /\ proc[p].pc = "idle"
  /\ ~ dev
  /\ dev' = TRUE
  /\ Step(p, "i_journal")
  /\ UNCHANGED <<made, log, index, killed>>

InitFromZero(p) ==    \* mutant: the first file has number 0
  /\ proc[p].pc = "i_journal"
  /\ made' = made \cup {0}
  /\ Step(p, "i_index")
  /\ UNCHANGED <<dev, log, index, killed>>

InitJournal(p) ==
  /\ proc[p].pc = "i_journal"
  /\ IF 1 \in made THEN UNCHANGED <<made, log>>
                 ELSE made' = made \cup {1} /\ log' = [log EXCEPT ![1] = NewFile]
  /\ Step(p, "i_index")
  /\ UNCHANGED <<dev, index, killed>>

InitIndex(p) ==
  /\ proc[p].pc = "i_index"
  /\ index' = IF index.there THEN index ELSE NewIndex
  /\ Return(p)
  /\ UNCHANGED <<dev, made, log, killed>>

\* "To reinitialize, remove .trellis/.developer first": the user does.
RemoveDeveloper ==
  /\ dev
  /\ Crashes
  /\ dev' = FALSE
  /\ UNCHANGED <<made, log, index, proc, killed>>

-----------------------------------------------------------------------------
(* add_session.py *)

\* The latest journal file and its lines are read, and compared with the limit.
FitsWithoutContent(size) ==    \* mutant: the new lines are not counted
  (IF Latest = 0 THEN 0 ELSE Lines(Latest)) <= MaxLines

Fits(size) == (IF Latest = 0 THEN 0 ELSE Lines(Latest)) + size <= MaxLines

BeginAdd(p) ==
  \E size \in Sizes :
    /\ proc[p].pc = "idle"
    /\ dev
    /\ \A q \in Procs : Appended + (IF proc[q].pc = "idle" THEN 0 ELSE 1) < MaxSessions
    /\ Latest < MaxFiles
    /\ Goto(p, [Idle EXCEPT !.pc = "count", !.size = size,
                            !.file = IF Fits(size) THEN Latest ELSE Latest + 1])
    /\ UNCHANGED <<dev, made, log, index, killed>>

\* get_current_session: the total of index.md, 0 when it is not to be found.
CountSessions(p) ==
  LET r == proc[p] IN
  /\ r.pc = "count"
  /\ index.total < MaxSessions
  /\ Goto(p, [r EXCEPT !.n = index.total + 1,
                       !.pc = IF r.file \in made \cup {0} THEN "append" ELSE "create"])
  /\ UNCHANGED <<dev, made, log, index, killed>>

\* create_new_journal_file writes the header, whatever was there.
CreateJournal(p) ==
  LET r == proc[p] IN
  /\ r.pc = "create"
  /\ made' = made \cup {r.file}
  /\ log' = [log EXCEPT ![r.file] = NewFile]
  /\ Step(p, "append")
  /\ UNCHANGED <<dev, index, killed>>

\* Without a journal file nothing is appended, and the run goes on.
AppendSession(p) ==
  LET r == proc[p] IN
  /\ r.pc = "append"
  /\ log' = IF r.file = 0 THEN log
            ELSE [log EXCEPT ![r.file] = With(@, r.n, r.size)]
  /\ Step(p, "read")
  /\ UNCHANGED <<dev, made, index, killed>>

\* update_index: a missing file raises, one without the marker is refused.
ReadIndex(p) ==
  LET r == proc[p] IN
  /\ r.pc = "read"
  /\ IF index.marked THEN Goto(p, [r EXCEPT !.pc = "truncate", !.index = index]) ELSE Return(p)
  /\ UNCHANGED <<dev, made, log, index, killed>>

\* The row goes below the header of the table; without one it goes nowhere.
Updated(r) ==
  [r.index EXCEPT !.total = r.n,
                  !.rows = IF r.index.table THEN <<r.n>> \o @ ELSE @]

TruncateIndex(p) ==
  /\ proc[p].pc = "truncate"
  /\ index' = TornIndex
  /\ Step(p, "write")
  /\ UNCHANGED <<dev, made, log, killed>>

WriteIndex(p) ==
  LET r == proc[p] IN
  /\ r.pc = "write"
  /\ index' = Updated(r)
  /\ Return(p)
  /\ UNCHANGED <<dev, made, log, killed>>

-----------------------------------------------------------------------------
(* The process is killed: before its next write, or in the middle of it.  A write  *)
(* of several lines may be cut anywhere.                                           *)
Crash(p) ==
  LET r == proc[p] IN
  /\ Crashes
  /\ r.pc # "idle"
  /\ killed' = TRUE
  /\ Return(p)
  /\ \/ UNCHANGED <<log, index>>
     \/ /\ r.pc = "append" /\ r.file # 0
        /\ \E n \in {0, r.n}, size \in 1..r.size - 1 :
             log' = [log EXCEPT ![r.file] = With(@, n, size)]
        /\ UNCHANGED index
     \/ /\ r.pc = "write"
        /\ index' \in Cuts(Updated(r))
        /\ UNCHANGED log
     \/ /\ r.pc = "i_index" /\ ~ index.there
        /\ index' \in Cuts(NewIndex)
        /\ UNCHANGED log
  /\ UNCHANGED <<dev, made>>

Next ==
  \/ RemoveDeveloper
  \/ \E p \in Procs :
       \/ BeginInit(p) \/ InitJournal(p) \/ InitIndex(p)
       \/ BeginAdd(p) \/ CountSessions(p) \/ CreateJournal(p) \/ AppendSession(p)
       \/ ReadIndex(p) \/ TruncateIndex(p) \/ WriteIndex(p)
       \/ Crash(p)

Spec == Init /\ [][Next]_vars

-----------------------------------------------------------------------------
(* What the journal promises *)

\* workflow.md:82: "Max 2000 lines per file; a new journal-(N+1).md is auto-created when
\* exceeded".  A file grows beyond the limit only if one session alone does.
WithinLimit == \A k \in made : Len(log[k].entries) >= 2 => Lines(k) <= MaxLines

\* The session of every row of the index can be read in a journal file: the journal is
\* written first, wherever a run is killed.
RowHasEntry ==
  \A i \in 1..Len(index.rows) : \E k \in made : \E j \in 1..Len(log[k].entries) :
    log[k].entries[j] = index.rows[i]

\* Entry n of a journal file.
Entry(k, n) == log[k].entries[n]

\* The sessions of the journal files are those from 1 to m, each once and in order.
Numbered(m) ==
  /\ \A n \in 1..m : \E k \in made : \E j \in 1..Len(log[k].entries) : Entry(k, j) = n
  /\ \A k \in made : \A j \in 1..Len(log[k].entries) :
       /\ Entry(k, j) \in 1..m
       /\ \A l \in made : \A i \in 1..Len(log[l].entries) :
            k < l \/ (k = l /\ j < i) => Entry(k, j) < Entry(l, i)

\* The rows of an index, newest first, are those of all its sessions.
RowsOfAll(idx) ==
  Len(idx.rows) = idx.total /\ \A i \in 1..idx.total : idx.rows[i] = idx.total + 1 - i

\* As long as no run was killed, after each run the journal files, the rows of the index
\* and its total tell of the same sessions: the number read from the index before the
\* session is appended is still the next one when the index is written.
Complete ==
  ~ killed /\ (\A p \in Procs : proc[p].pc = "idle") => RowsOfAll(index) /\ Numbered(index.total)

JournalSound == WithinLimit /\ RowHasEntry /\ Complete
=============================================================================
