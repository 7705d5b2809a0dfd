-------------------------- MODULE SessionIdentity --------------------------
(***************************************************************************)
(* Which window a command or a hook belongs to.  The pointer to the active *)
(* task is kept per context key (common/active_task.py).  A hook finds the *)
(* key in the payload it is given, a command run by the agent finds it in  *)
(* the environment of its shell or, under Cursor, in a ticket that a hook  *)
(* of the editor left just before; the two have to arrive at one key.      *)
(* The prompt hook is .codex/hooks/inject-workflow-state.py.               *)
(***************************************************************************)
EXTENDS Naturals, FiniteSets

CONSTANTS
  Windows,
  Tasks,
  None,
  TTL,         \* how long a ticket is good for
  MaxTickets   \* bound on the tickets lying about

\* Platforms in the order in which the environment is searched.
Platforms == <<"claude", "codex", "cursor">>
PlatformNames == {"claude", "codex", "cursor"}

VARIABLES
  kind,     \* window -> its platform
  host,     \* window -> the window in whose shell it was started, or None
  exports,  \* window -> does its platform export the session id to the shell?
  sess,     \* context key -> the task of its session file, or None for no file
  tickets,  \* the tickets of .runtime/cursor-shell
  wanted,   \* window -> the command its agent is about to run, or None
  last      \* history: the command or the prompt of the last step

setting == <<kind, host, exports>>
vars == <<kind, host, exports, sess, tickets, wanted, last>>

\* A key is made of a platform's name and a session's id; the id of a window's
\* session is the window.  Sanitizing and hashing keep ids apart.
Keys == PlatformNames \X Windows

Own(w) == <<kind[w], w>>

\* What is assumed of the constants, where the module is instantiated.
SessionIdentityAssumption ==
  /\ None \notin Windows \cup Tasks \cup Keys \cup PlatformNames
  /\ TTL \in Nat

TaskCommands == [name : {"start"}, task : Tasks] \cup [name : {"current", "finish"}, task : {None}]

Ticket == [key : Keys, command : TaskCommands, age : 0..TTL + 1]

\* A command: the key it found, whether a ticket of its own was among the fresh ones
\* that fit, and whether there was another.  A prompt: the task it announced, the tasks of
\* the session files of its own window and of its host, the number of session files,
\* and whether the payload was late and the platform the right one.
NoEvent == [of |-> "nothing"]

TypeOK ==
  /\ kind \in [Windows -> PlatformNames]
  /\ host \in [Windows -> Windows \cup {None}]
  /\ exports \in [Windows -> BOOLEAN]
  /\ sess \in [Keys -> Tasks \cup {None}]
  /\ tickets \subseteq Ticket
  /\ wanted \in [Windows -> TaskCommands \cup {None}]
  /\ last = NoEvent \/ last.win \in Windows

\* An agent may be started in the shell of another, which is started on its own.
\* Cursor exports no session; it is an editor of its own.
Init ==
  /\ kind \in [Windows -> PlatformNames]
  /\ host \in [Windows -> Windows \cup {None}]
  /\ exports \in [Windows -> BOOLEAN]
  /\ \A w \in Windows :
       /\ host[w] # None => host[w] # w /\ host[host[w]] = None
       /\ kind[w] = "cursor" => host[w] = None /\ ~ exports[w]
  /\ sess = [k \in Keys |-> None]
  /\ tickets = {}
  /\ wanted = [w \in Windows |-> None]
  /\ last = NoEvent

-----------------------------------------------------------------------------
(* The environment *)

\* The session variables a process of window w sees: platform -> session, and None.
\* What a window exports hides what its host exported under the same name.
Exported(w) == [p \in PlatformNames |-> IF p = kind[w] /\ exports[w] THEN w ELSE None]

Env(w) ==
  [p \in PlatformNames |->
     IF Exported(w)[p] # None \/ host[w] = None THEN Exported(w)[p]
     ELSE Exported(host[w])[p]]

\* _lookup_env_context_key: the first platform with a variable; only the named one
\* when the caller names a platform.
EnvKey(w, platform) ==
  LET found == {n \in DOMAIN Platforms :
                  /\ platform \in {None, Platforms[n]}
                  /\ Env(w)[Platforms[n]] # None}
      first == CHOOSE n \in found : \A other \in found : n <= other
  IN IF found = {} THEN None ELSE <<Platforms[first], Env(w)[Platforms[first]]>>

-----------------------------------------------------------------------------
(* The tickets *)

Fresh(ticket) == ticket.age <= TTL

\* A ticket is for a subcommand, and for start also for its task.
Candidates(command) == {ticket.key : ticket \in {k \in tickets : Fresh(k) /\ k.command = command}}

TakeAny(command) ==    \* mutant: the first ticket that fits
  IF Candidates(command) = {} THEN None ELSE CHOOSE k \in Candidates(command) : TRUE

\* Exactly one fresh key has to match.
TicketKey(command) ==
  IF Cardinality(Candidates(command)) = 1 THEN CHOOSE k \in Candidates(command) : TRUE
  ELSE None

\* A ticket that is looked at and found too old is deleted.
SweepTickets == tickets' = {ticket \in tickets : Fresh(ticket)}

\* resolve_context_key as task.py calls it, without a payload or a platform.
CommandKey(w, command) ==
  IF EnvKey(w, None) # None THEN EnvKey(w, None) ELSE TicketKey(command)

-----------------------------------------------------------------------------
(* The active task *)

Files == {k \in Keys : sess[k] # None}

SoleTask == IF Cardinality(Files) = 1 THEN sess[CHOOSE k \in Files : TRUE] ELSE None

AnyTask ==    \* mutant: the first of the session files
  IF Files = {} THEN None ELSE sess[CHOOSE k \in Files : TRUE]

\* _resolve_single_session_fallback
Fallback == SoleTask

\* resolve_active_task
ActiveTask(key) == IF key # None /\ sess[key] # None THEN sess[key] ELSE Fallback

-----------------------------------------------------------------------------
(* Commands of the agent *)

\* The agent of a window decides on a command; under Cursor the editor's hook leaves
\* a ticket for it first.
Decide(w, command) ==
  /\ wanted[w] = None
  /\ wanted' = [wanted EXCEPT ![w] = command]
  /\ IF kind[w] = "cursor"
       THEN /\ Cardinality(tickets) < MaxTickets
            /\ tickets' = tickets \cup {[key |-> Own(w), command |-> command, age |-> 0]}
       ELSE UNCHANGED tickets
  /\ last' = NoEvent
  /\ UNCHANGED <<setting, sess>>

\* What the command does with its key: start writes the session file, finish deletes
\* it, and without a key neither has one.  A command that stands in a line of others
\* may run long after its ticket was written.
Act(w, command) ==
  LET key == CommandKey(w, command) IN
  /\ sess' = IF key = None \/ command.name = "current" THEN sess
             ELSE [sess EXCEPT ![key] = command.task]
  /\ IF EnvKey(w, None) = None THEN SweepTickets ELSE UNCHANGED tickets
  /\ last' = [of |-> "command", win |-> w, key |-> key,
              owned |-> Own(w) \in Candidates(command),
              contested |-> Cardinality(Candidates(command)) > 1]

Run(w) ==
  /\ wanted[w] # None
  /\ Act(w, wanted[w])
  /\ wanted' = [wanted EXCEPT ![w] = None]
  /\ UNCHANGED setting

\* The developer types a command into the terminal of a window.  No ticket is written.
Type(w, command) ==
  /\ Act(w, command)
  /\ UNCHANGED <<setting, wanted>>

\* Time passes; tickets past their life stay until somebody looks.
Tick ==
  /\ tickets # {}
  /\ tickets' = {[k EXCEPT !.age = IF @ > TTL THEN @ ELSE @ + 1] : k \in tickets}
  /\ last' = NoEvent
  /\ UNCHANGED <<setting, sess, wanted>>

-----------------------------------------------------------------------------
(* The prompt hook *)

\* The windows whose *_PROJECT_DIR the hook of w may see, its own and its host's; Codex
\* has none.  Which of them are set is left open at every prompt.
Projects(w) == {v \in {w, host[w]} \cap Windows : kind[v] # "codex"}

\* _detect_platform: a payload of Cursor tells its version; then the first project
\* variable that is set speaks, Claude's before Cursor's, and then the hook's own directory.
DetectPlatform(w, inTime, dirs) ==
  LET seen == {kind[v] : v \in dirs} IN
  IF inTime /\ kind[w] = "cursor" THEN "cursor"
  ELSE IF "claude" \in seen THEN "claude"
  ELSE IF "cursor" \in seen THEN "cursor"
  ELSE kind[w]

Detected(w, inTime) == {DetectPlatform(w, inTime, dirs) : dirs \in SUBSET Projects(w)}

\* The session comes from the payload.  A payload that is not there within 0.2 s counts
\* as empty: then the environment speaks, for the detected platform alone, and under
\* Cursor the tickets, which the hook is not a task.py to match.
PromptKey(w, inTime, platform) == IF inTime THEN <<platform, w>> ELSE EnvKey(w, platform)

\* The hook announces the active task of the key it found.
Prompt(w) ==
  \E inTime \in BOOLEAN : \E platform \in Detected(w, inTime) :
    LET key == PromptKey(w, inTime, platform)
    IN /\ last' = [of |-> "prompt", win |-> w, task |-> ActiveTask(key),
                   held |-> sess[Own(w)],
                   hosts |-> IF host[w] = None THEN None ELSE sess[Own(host[w])],
                   files |-> Cardinality(Files), late |-> ~ inTime,
                   right |-> platform = kind[w]]
       /\ IF key = None /\ platform = "cursor" THEN SweepTickets ELSE UNCHANGED tickets
       /\ UNCHANGED <<setting, sess, wanted>>

Next ==
  \/ \E w \in Windows, command \in TaskCommands : Decide(w, command) \/ Type(w, command)
  \/ \E w \in Windows : Run(w) \/ Prompt(w)
  \/ Tick

Spec == Init /\ [][Next]_vars

-----------------------------------------------------------------------------
(* What the keys promise *)

\* active_task.py: exactly one matching ticket "avoids cross-window pointer
\* contamination".  A command whose own ticket is still good acts on the session of its
\* own window, or on none when another window wants the same at the same time; and
\* so does a command of an agent that exports its session and has no host.
ActsOnItsOwn ==
  last.of = "command" =>
    LET w == last.win IN
    /\ exports[w] /\ host[w] = None => last.key = Own(w)
    /\ last.owned /\ EnvKey(w, None) = None =>
         last.key = IF last.contested THEN None ELSE Own(w)

\* "refuses to guess across windows": the hook of a window that has an active task
\* announces it, unless the platform is mistaken for that of the host, or the payload is
\* late in an editor that exports no session.  Another window's task is announced only
\* where the window has none and that session is the only one, or where the payload is
\* late, and then it is the host's, whose variables the hook was left.
NeverAnothers ==
  last.of = "prompt" =>
    /\ last.held # None /\ last.right /\ (last.late => kind[last.win] # "cursor") =>
         last.task = last.held
    /\ last.task \notin {None, last.held} =>
         \/ last.held = None /\ last.files = 1
         \/ last.late /\ last.task = last.hosts /\ (last.held = None \/ ~ last.right)
=============================================================================
