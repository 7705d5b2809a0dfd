----------------------------- MODULE MCWorkflow -----------------------------
(***************************************************************************)
(* The commands of .trellis/scripts for TLC.  The task directories, git,   *)
(* the journal and the context keys share no variable, so instead of the   *)
(* product of their states a behaviour takes one part; the task store then *)
(* stays empty, and what the others would hold is Off.                     *)
(***************************************************************************)
EXTENDS TaskList, TLC

CONSTANTS
  Off,
  Pairs,         \* pairs of commands that commit at a time
  CommitUses,    \* the ways in which they commit
  MaxEdits,
  Sizes, Header, MaxLines, MaxSessions, MaxFiles,
  Errands,       \* the tasks that the context keys lead to
  TTL, MaxTickets

VARIABLES
  part,
  way, work, index, head, edits, git, told,                           \* AutoCommit
  dev, made, log, pages, writer, killed,                              \* SessionJournal
  kind, host, exports, sess, tickets, wanted, last              \* SessionIdentity

store == vars
commit == <<way, work, index, head, edits, git, told>>
journal == <<dev, made, log, pages, writer, killed>>
identity == <<kind, host, exports, sess, tickets, wanted, last>>
all == <<part, store, commit, journal, identity>>

-----------------------------------------------------------------------------
(* The parts *)

Commit == INSTANCE AutoCommit WITH Procs <- Pairs, Uses <- CommitUses, use <- way, proc <- git

Journal == INSTANCE SessionJournal WITH Crashes <- TRUE, index <- pages, proc <- writer

Identity == INSTANCE SessionIdentity WITH Tasks <- Errands

ASSUME CommitAssumption == Commit!AutoCommitAssumption
ASSUME JournalAssumption == Journal!SessionJournalAssumption
ASSUME IdentityAssumption == Identity!SessionIdentityAssumption

Parts == {"store", "commit", "journal", "identity"}

\* The store of the other parts, in which no command runs.
NoUse == [tasks |-> {}, windows |-> {}, commands |-> {}, crashes |-> FALSE, careful |-> FALSE,
          faults |-> {}]

CommitOff ==
  /\ way = Off
  /\ work = Off
  /\ index = Off
  /\ head = Off
  /\ edits = Off
  /\ git = Off
  /\ told = Off

JournalOff ==
  /\ dev = Off
  /\ made = Off
  /\ log = Off
  /\ pages = Off
  /\ writer = Off
  /\ killed = Off

IdentityOff ==
  /\ kind = Off
  /\ host = Off
  /\ exports = Off
  /\ sess = Off
  /\ tickets = Off
  /\ wanted = Off
  /\ last = Off

Start ==
  /\ Init
  /\ \/ part = "store" /\ use # NoUse /\ CommitOff /\ JournalOff /\ IdentityOff
     \/ part = "commit" /\ use = NoUse /\ Commit!Init /\ JournalOff /\ IdentityOff
     \/ part = "journal" /\ use = NoUse /\ CommitOff /\ Journal!Init /\ IdentityOff
     \/ part = "identity" /\ use = NoUse /\ CommitOff /\ JournalOff /\ Identity!Init

StepStore == part = "store" /\ Next /\ UNCHANGED <<part, commit, journal, identity>>
StepCommit == part = "commit" /\ Commit!Next /\ UNCHANGED <<part, store, journal, identity>>
StepJournal == part = "journal" /\ Journal!Next /\ UNCHANGED <<part, store, commit, identity>>
StepIdentity == part = "identity" /\ Identity!Next /\ UNCHANGED <<part, store, commit, journal>>

StepPart == StepStore \/ StepCommit \/ StepJournal \/ StepIdentity

Workflow == Start /\ [][StepPart]_all

-----------------------------------------------------------------------------
(* The values of the constants *)

\* Two tasks and two windows, anything is asked for and commands are killed; one window,
\* and a session file may not be written either; one task and two windows, and no file may;
\* one of each, and a file may not be deleted; three tasks and no windows, linked and
\* archived with care, and commands are killed; or linked and unlinked, and nothing is
\* killed.
StoreUses ==
  {NoUse} \cup
  UNION {{[tasks |-> T, windows |-> Windows, commands |-> {"create", "start", "finish", "archive"},
           crashes |-> TRUE, careful |-> FALSE, faults |-> {}],
          [tasks |-> T, windows |-> {w}, commands |-> {"create", "start", "finish", "archive"},
           crashes |-> TRUE, careful |-> FALSE, faults |-> {"session"}],
          [tasks |-> {t}, windows |-> Windows, commands |-> {"create", "start", "finish", "archive"},
           crashes |-> TRUE, careful |-> FALSE, faults |-> {"json", "session"}],
          [tasks |-> {t}, windows |-> {w}, commands |-> {"create", "start", "finish", "archive"},
           crashes |-> TRUE, careful |-> FALSE, faults |-> {"unlink"}]} :
         T \in {U \in SUBSET Tasks : Cardinality(U) = 2}, t \in Tasks, w \in Windows} \cup
  {[tasks |-> Tasks, windows |-> {}, commands |-> {"create", "start", "archive", "link"},
    crashes |-> TRUE, careful |-> TRUE, faults |-> {}],
   [tasks |-> Tasks, windows |-> {}, commands |-> {"create", "archive", "link", "unlink", "set"},
    crashes |-> FALSE, careful |-> TRUE, faults |-> {}]}

\* Two commands at a time and nothing fails; one at a time below an ignored directory,
\* or where commits fail, or where ls-files does, or where add and rm fail and archives may
\* not commit.
TheCommitUses ==
  {[procs |-> Pairs, edits |-> 4, ignored |-> FALSE, manual |-> FALSE, faults |-> {}]} \cup
  UNION {{[procs |-> {p}, edits |-> 4, ignored |-> TRUE, manual |-> FALSE,
           faults |-> {"add", "commit"}],
          [procs |-> {p}, edits |-> 5, ignored |-> FALSE, manual |-> FALSE, faults |-> {"commit"}],
          [procs |-> {p}, edits |-> 4, ignored |-> FALSE, manual |-> FALSE, faults |-> {"list"}],
          [procs |-> {p}, edits |-> 4, ignored |-> FALSE, manual |-> TRUE, faults |-> {"add", "rm"}]} :
         p \in Pairs}

Symmetry == Permutations(Tasks) \cup Permutations(Windows) \cup Permutations(Errands)

-----------------------------------------------------------------------------
(* The properties of the parts; those of TaskStore and TaskList stand there *)

\* Every variable of a module keeps its type.
PartTypes ==
  /\ TypeOK
  /\ part = "commit" => Commit!TypeOK
  /\ part = "journal" => Journal!TypeOK
  /\ part = "identity" => Identity!TypeOK

\* AutoCommit: an archive reported as committed left nothing of its source.
ArchiveCommitted == part = "commit" => Commit!OkMeansSourceGone

\* AutoCommit: no commit has a task both active and archived.
CommittedOnce == part = "commit" => Commit!HeadHasTaskOnce

\* AutoCommit: a commit changes the paths of its own command only.
NothingBundled == [][part = "commit" => Commit!KeepsToItsScope]_all

\* SessionJournal: files keep the limit, rows of the index have their entries, and as
\* long as nothing was killed every session has its entry and its row.
JournalSound == part = "journal" => Journal!JournalSound

\* SessionIdentity: a command acts on the session of its own window.
RightSession == part = "identity" => Identity!ActsOnItsOwn

\* SessionIdentity: a hook does not announce another window's task.
RightTask == part = "identity" => Identity!NeverAnothers
=============================================================================
