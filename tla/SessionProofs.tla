--------------------------- MODULE SessionProofs ---------------------------
(***************************************************************************)
(* Whose session a command or a hook acts on, for any number of windows    *)
(* and tasks (common/active_task.py), and what the journal files and       *)
(* index.md hold when one run at a time adds to them and any may be killed *)
(* (add_session.py, common/developer.py); and the types of all four parts  *)
(* of MCWorkflow.  SessionIdentity and SessionJournal are reached through  *)
(* their instances there; index and proc of the journal are pages and      *)
(* writer.                                                                 *)
(***************************************************************************)
EXTENDS CommitProofs, TaskStoreProofs, FiniteSetTheorems, SequenceTheorems

-----------------------------------------------------------------------------
(* Context keys *)

\* What the windows are: no window hosts itself or its host, and Cursor exports nothing.
Setting ==
  /\ kind \in [Windows -> Identity!PlatformNames]
  /\ host \in [Windows -> Windows \cup {None}]
  /\ exports \in [Windows -> BOOLEAN]
  /\ \A w \in Windows :
       /\ host[w] # None => host[w] # w /\ host[host[w]] = None
       /\ kind[w] = "cursor" => host[w] = None /\ ~ exports[w]

\* A window has one key, and None is none.
LEMMA KeyFacts ==
  /\ None \notin Windows /\ None \notin Errands /\ None \notin Identity!Keys
  /\ None \notin Identity!PlatformNames
  /\ Setting => \A w \in Windows : Identity!Own(w) \in Identity!Keys
  /\ \A w, v \in Windows : Identity!Own(w) = Identity!Own(v) => w = v
  BY IdentityAssumption
  DEF Identity!SessionIdentityAssumption, Setting, Identity!Own, Identity!Keys

\* The session a process of w finds under the name of a platform: its own, or its host's.
LEMMA EnvFacts ==
  ASSUME Setting, NEW w \in Windows, NEW P \in Identity!PlatformNames
  PROVE  Identity!Env(w)[P] =
           IF kind[w] = P /\ exports[w] THEN w
           ELSE IF host[w] # None /\ kind[host[w]] = P /\ exports[host[w]] THEN host[w]
           ELSE None
  BY KeyFacts DEF Setting, Identity!Env, Identity!Exported

\* A session found in the environment is that of a window that exports it.
LEMMA EnvSession ==
  ASSUME Setting, NEW w \in Windows, NEW P \in Identity!PlatformNames, Identity!Env(w)[P] # None
  PROVE  \E v \in Windows : Identity!Env(w)[P] = v /\ <<P, v>> = Identity!Own(v) /\ exports[v]
                            /\ v \in {w, host[w]}
  <1>1. CASE kind[w] = P /\ exports[w]
    BY <1>1, EnvFacts DEF Identity!Own
  <1>2. CASE ~ (kind[w] = P /\ exports[w])
    BY <1>2, EnvFacts, KeyFacts DEF Setting, Identity!Own
  <1> QED
    BY <1>1, <1>2

\* The least of some of the three platforms.
LEMMA LeastOfThree ==
  ASSUME NEW S, S \subseteq {1, 2, 3}, S # {}
  PROVE  \E n \in S : \A m \in S : n <= m
  <1>1. CASE 1 \in S
    BY <1>1
  <1>2. CASE 1 \notin S /\ 2 \in S
    BY <1>2
  <1>3. CASE S = {3}
    BY <1>3
  <1> QED
    BY <1>1, <1>2, <1>3

\* _lookup_env_context_key finds a key if there is one to be found.
LEMMA EnvKeyFacts ==
  ASSUME Setting, NEW w \in Windows, NEW platform \in Identity!PlatformNames \cup {None}
  PROVE  \/ /\ Identity!EnvKey(w, platform) = None
            /\ \A P \in Identity!PlatformNames :
                 platform \in {None, P} => Identity!Env(w)[P] = None
         \/ \E P \in Identity!PlatformNames :
              /\ platform \in {None, P} /\ Identity!Env(w)[P] # None
              /\ Identity!EnvKey(w, platform) = <<P, Identity!Env(w)[P]>>
  <1> DEFINE E(n) == Identity!Env(w)[Identity!Platforms[n]]
             found == {n \in DOMAIN Identity!Platforms :
                         platform \in {None, Identity!Platforms[n]} /\ E(n) # None}
             first == CHOOSE n \in found : \A other \in found : n <= other
  <1>1. /\ DOMAIN Identity!Platforms = {1, 2, 3}
        /\ Identity!PlatformNames = {Identity!Platforms[n] : n \in {1, 2, 3}}
    BY DEF Identity!Platforms, Identity!PlatformNames
  <1>2. Identity!EnvKey(w, platform) =
          IF found = {} THEN None ELSE <<Identity!Platforms[first], E(first)>>
    BY DEF Identity!EnvKey
  <1>3. found \subseteq {1, 2, 3}
    BY <1>1
  <1>4. CASE found = {}
    BY <1>1, <1>2, <1>4
  <1>5. CASE found # {}
    <2>1. \E n \in found : \A other \in found : n <= other
      <3> HIDE DEF found
      <3> QED
        BY <1>3, <1>5, LeastOfThree
    <2>2. first \in found
      <3> HIDE DEF found
      <3> QED
        BY <2>1
    <2>3. PICK n \in found : n = first
      BY <2>2
    <2> HIDE DEF first
    <2> QED
      BY <1>1, <1>2, <1>5, <2>3
  <1> QED
    BY <1>4, <1>5

\* A key from the environment is the own key of a window that exports it: w or its host.
LEMMA EnvKeyOwn ==
  ASSUME Setting, NEW w \in Windows, NEW platform \in Identity!PlatformNames \cup {None},
         Identity!EnvKey(w, platform) # None
  PROVE  \E v \in Windows : /\ Identity!EnvKey(w, platform) = Identity!Own(v)
                            /\ exports[v] /\ v \in {w, host[w]}
  BY EnvKeyFacts, EnvSession

\* What a window of its own exports is what its commands find.
LEMMA EnvKeyExported ==
  ASSUME Setting, NEW w \in Windows, exports[w], host[w] = None
  PROVE  Identity!EnvKey(w, None) = Identity!Own(w)
  <1>1. Identity!Env(w)[kind[w]] = w /\ kind[w] \in Identity!PlatformNames /\ w # None
    BY EnvFacts, KeyFacts DEF Setting
  <1>2. Identity!EnvKey(w, None) # None
    BY <1>1, EnvKeyFacts, EnvSession, KeyFacts
  <1>3. PICK v \in Windows : Identity!EnvKey(w, None) = Identity!Own(v) /\ v \in {w, host[w]}
    BY <1>2, EnvKeyOwn
  <1> QED
    BY <1>3, KeyFacts

\* Without a variable in its environment a command has no key from there.
NoKey ==
  Setting => \A w \in Windows :
    Identity!EnvKey(w, None) = None <=> \A P \in Identity!PlatformNames : Identity!Env(w)[P] = None

\* Stated as a formula, so that it can be primed.
LEMMA NoKeyHolds == NoKey
  <1> SUFFICES ASSUME Setting, NEW w \in Windows
               PROVE  Identity!EnvKey(w, None) = None
                        <=> \A P \in Identity!PlatformNames : Identity!Env(w)[P] = None
    BY DEF NoKey
  <1>1. CASE \A P \in Identity!PlatformNames : Identity!Env(w)[P] = None
    BY <1>1, EnvKeyFacts
  <1>2. ASSUME NEW P \in Identity!PlatformNames, Identity!Env(w)[P] # None
        PROVE  Identity!EnvKey(w, None) # None
    BY <1>2, EnvKeyFacts, EnvSession, KeyFacts
  <1> QED
    BY <1>1, <1>2

\* The environment of a window does not change.
LEMMA EnvKeyStays ==
  ASSUME Setting, UNCHANGED Identity!setting, NEW w \in Windows
  PROVE  (Identity!EnvKey(w, None) = None)' <=> Identity!EnvKey(w, None) = None
  <1>1. NoKey'
    BY NoKeyHolds, PTL
  <1>2. Setting'
    BY DEF Setting, Identity!setting
  <1>3. \A P \in Identity!PlatformNames : (Identity!Env(w)[P])' = Identity!Env(w)[P]
    BY DEF Identity!setting, Identity!Env, Identity!Exported
  <1> QED
    BY <1>1, <1>2, <1>3, NoKeyHolds DEF NoKey

-----------------------------------------------------------------------------
(* Tickets and sessions *)

\* Only Cursor leaves tickets, with the keys of its windows.
TicketsOwn ==
  \A k \in tickets : \E v \in Windows : kind[v] = "cursor" /\ k.key = Identity!Own(v)

\* A session file is that of a window that can find its own key again.
SessionsOwn ==
  \A k \in Identity!Keys : sess[k] # None =>
    \E v \in Windows : k = Identity!Own(v) /\ (exports[v] \/ kind[v] = "cursor")

\* The inductive invariant.
IdentityInv ==
  /\ Identity!TypeOK
  /\ Setting
  /\ IsFiniteSet(tickets) /\ IsFiniteSet(Identity!Files)
  /\ TicketsOwn
  /\ SessionsOwn
  /\ Identity!ActsOnItsOwn
  /\ Identity!NeverAnothers

\* The instance has a Cardinality of its own.
LEMMA SameCardinality == ASSUME NEW S PROVE Identity!Cardinality(S) = Cardinality(S)
  BY DEF Identity!Cardinality, Cardinality

\* Finitely many tickets give finitely many keys.
LEMMA CandidatesFinite ==
  ASSUME IsFiniteSet(tickets), NEW command
  PROVE  IsFiniteSet(Identity!Candidates(command))
  <1> DEFINE fit == {k \in tickets : Identity!Fresh(k) /\ k.command = command}
             f == [k \in fit |-> k.key]
  <1>1. IsFiniteSet(fit)
    BY FS_Subset
  <1>2. Identity!Candidates(command) = {k.key : k \in fit}
    BY DEF Identity!Candidates
  <1>3. f \in Surjection(fit, Identity!Candidates(command))
    BY <1>2 DEF Surjection
  <1> QED
    BY <1>1, <1>3, FS_Surjection

\* One key that fits, and no other, or none at all.
LEMMA TicketKeyFacts ==
  ASSUME IsFiniteSet(tickets), NEW command
  PROVE  LET C == Identity!Candidates(command) IN
         /\ Identity!TicketKey(command) # None => Identity!TicketKey(command) \in C
         /\ \A k \in C : Identity!TicketKey(command) = IF Cardinality(C) > 1 THEN None ELSE k
  <1> DEFINE C == Identity!Candidates(command)
  <1>1. IsFiniteSet(C) /\ Cardinality(C) \in Nat
    BY CandidatesFinite, FS_CardinalityType
  <1>2. Cardinality(C) = 1 <=> \E k : C = {k}
    BY <1>1, FS_Singleton
  <1>3. Cardinality(C) = 0 <=> C = {}
    BY <1>1, FS_EmptySet
  <1>4. Identity!TicketKey(command) = IF Cardinality(C) = 1 THEN CHOOSE k \in C : TRUE ELSE None
    BY SameCardinality DEF Identity!TicketKey
  <1> HIDE DEF C
  <1>5. CASE Cardinality(C) = 1
    <2>1. PICK k : C = {k}
      BY <1>2, <1>5
    <2>2. (CHOOSE j \in C : TRUE) = k
      BY <2>1
    <2> QED
      BY <1>4, <1>5, <2>1, <2>2 DEF C
  <1>6. CASE Cardinality(C) # 1
    BY <1>1, <1>3, <1>4, <1>6 DEF C
  <1> QED
    BY <1>5, <1>6

\* The key a command finds is that of a window, which can find it again.
LEMMA CommandKeyOwn ==
  ASSUME IdentityInv, NEW w \in Windows, NEW command, Identity!CommandKey(w, command) # None
  PROVE  \E v \in Windows : /\ Identity!CommandKey(w, command) = Identity!Own(v)
                            /\ exports[v] \/ kind[v] = "cursor"
  <1>1. CASE Identity!EnvKey(w, None) # None
    BY <1>1, EnvKeyOwn DEF IdentityInv, Identity!CommandKey
  <1>2. CASE Identity!EnvKey(w, None) = None
    <2>1. Identity!CommandKey(w, command) = Identity!TicketKey(command)
      BY <1>2 DEF Identity!CommandKey
    <2>2. Identity!TicketKey(command) \in Identity!Candidates(command)
      BY <2>1, TicketKeyFacts DEF IdentityInv
    <2>3. PICK k \in tickets : k.key = Identity!TicketKey(command)
      BY <2>2 DEF Identity!Candidates
    <2> QED
      BY <2>1, <2>3 DEF IdentityInv, TicketsOwn
  <1> QED
    BY <1>1, <1>2

\* A command that can be told apart acts on its own session.
LEMMA CommandKeyRight ==
  ASSUME IdentityInv, NEW w \in Windows, NEW command
  PROVE  LET key == Identity!CommandKey(w, command)
             C == Identity!Candidates(command) IN
         /\ exports[w] /\ host[w] = None => key = Identity!Own(w)
         /\ Identity!Own(w) \in C /\ Identity!EnvKey(w, None) = None =>
              key = IF Cardinality(C) > 1 THEN None ELSE Identity!Own(w)
  <1>1. exports[w] /\ host[w] = None => Identity!CommandKey(w, command) = Identity!Own(w)
    BY EnvKeyExported, KeyFacts DEF IdentityInv, Identity!CommandKey
  <1>2. Identity!Own(w) \in Identity!Candidates(command) /\ Identity!EnvKey(w, None) = None =>
          Identity!CommandKey(w, command) =
            IF Cardinality(Identity!Candidates(command)) > 1 THEN None ELSE Identity!Own(w)
    BY TicketKeyFacts DEF IdentityInv, Identity!CommandKey
  <1> QED
    BY <1>1, <1>2

\* What start and finish do to the session files.
LEMMA SessionWritten ==
  ASSUME IdentityInv, NEW key \in Identity!Keys, NEW t \in Errands \cup {None},
         sess' = [sess EXCEPT ![key] = t], UNCHANGED Identity!setting,
         \E v \in Windows : key = Identity!Own(v) /\ (exports[v] \/ kind[v] = "cursor")
  PROVE  /\ sess' \in [Identity!Keys -> Errands \cup {None}]
         /\ IsFiniteSet(Identity!Files') /\ SessionsOwn'
  <1>1. sess \in [Identity!Keys -> Errands \cup {None}] /\ sess' \in [Identity!Keys -> Errands \cup {None}]
    BY DEF IdentityInv, Identity!TypeOK
  <1>2. Identity!Files' \subseteq Identity!Files \cup {key}
    BY <1>1 DEF Identity!Files
  <1>3. IsFiniteSet(Identity!Files \cup {key})
    BY FS_AddElement DEF IdentityInv
  <1>4. IsFiniteSet(Identity!Files')
    BY <1>2, <1>3, FS_Subset
  <1>5. ASSUME NEW k \in Identity!Keys, sess'[k] # None
        PROVE  \E v \in Windows : k = Identity!Own(v) /\ (exports[v] \/ kind[v] = "cursor")
    <2>1. CASE k = key
      BY <2>1
    <2>2. CASE k # key
      BY <1>1, <1>5, <2>2 DEF IdentityInv, SessionsOwn
    <2> QED
      BY <2>1, <2>2
  <1> QED
    BY <1>1, <1>4, <1>5 DEF SessionsOwn, Identity!setting, Identity!Own

\* A command: the key that it found decides what becomes of the session files.
LEMMA ActKeeps ==
  ASSUME IdentityInv, NEW w \in Windows, NEW command \in Identity!TaskCommands,
         Identity!Act(w, command), UNCHANGED Identity!setting,
         wanted' \in [Windows -> Identity!TaskCommands \cup {None}]
  PROVE  IdentityInv'
  <1> DEFINE key == Identity!CommandKey(w, command)
             C == Identity!Candidates(command)
  <1>1. /\ sess' = IF key = None \/ command.name = "current" THEN sess
                   ELSE [sess EXCEPT ![key] = command.task]
        /\ tickets' \subseteq tickets
        /\ last' = [of |-> "command", win |-> w, key |-> key, owned |-> Identity!Own(w) \in C,
                    contested |-> Cardinality(C) > 1]
    BY SameCardinality DEF Identity!Act, Identity!SweepTickets
  <1>2. command.task \in Errands \cup {None}
    BY DEF Identity!TaskCommands
  <1>3. key # None => key \in Identity!Keys
                      /\ \E v \in Windows : key = Identity!Own(v) /\ (exports[v] \/ kind[v] = "cursor")
    BY CommandKeyOwn, KeyFacts DEF IdentityInv
  <1>4. /\ sess' \in [Identity!Keys -> Errands \cup {None}]
        /\ IsFiniteSet(Identity!Files') /\ SessionsOwn'
    <2>1. CASE sess' = sess
      BY <2>1 DEF IdentityInv, Identity!TypeOK, Identity!Files, SessionsOwn, Identity!setting,
         Identity!Own
    <2>2. CASE key # None /\ sess' = [sess EXCEPT ![key] = command.task]
      BY <1>2, <1>3, <2>2, SessionWritten
    <2> QED
      BY <1>1, <2>1, <2>2
  <1>5. IsFiniteSet(tickets') /\ TicketsOwn'
    BY <1>1, FS_Subset DEF IdentityInv, TicketsOwn, Identity!setting, Identity!Own
  <1>6. Setting'
    BY DEF IdentityInv, Setting, Identity!setting
  <1>7. Identity!TypeOK'
    BY <1>1, <1>4 DEF IdentityInv, Identity!TypeOK, Identity!setting
  <1>8. /\ last'.of = "command" /\ last'.win = w /\ last'.key = key
        /\ last'.owned = (Identity!Own(w) \in C) /\ last'.contested = (Cardinality(C) > 1)
    BY <1>1
  <1>9. Identity!NeverAnothers'
    BY <1>8 DEF Identity!NeverAnothers
  <1>10. Identity!ActsOnItsOwn'
    <2>1. /\ exports[w] /\ host[w] = None => key = Identity!Own(w)
          /\ Identity!Own(w) \in C /\ Identity!EnvKey(w, None) = None =>
               key = IF Cardinality(C) > 1 THEN None ELSE Identity!Own(w)
      BY CommandKeyRight
    <2>2. (Identity!EnvKey(w, None) = None)' <=> Identity!EnvKey(w, None) = None
      BY EnvKeyStays DEF IdentityInv
    <2>3. (Identity!Own(w))' = Identity!Own(w) /\ UNCHANGED <<exports, host>>
      BY DEF Identity!setting, Identity!Own
    <2> HIDE DEF key, C
    <2> QED
      BY <1>8, <2>1, <2>2, <2>3 DEF Identity!ActsOnItsOwn
  <1> QED
    BY <1>4, <1>5, <1>6, <1>7, <1>9, <1>10 DEF IdentityInv

\* Without a session file of the key it found, a hook can announce the sole one.
LEMMA FallbackTask ==
  ASSUME IdentityInv, NEW w \in Windows, Identity!Fallback # None
  PROVE  /\ Cardinality(Identity!Files) = 1
         /\ sess[Identity!Own(w)] # None => Identity!Fallback = sess[Identity!Own(w)]
  <1> DEFINE Files == Identity!Files
  <1>1. Identity!Fallback = IF Cardinality(Files) = 1 THEN sess[CHOOSE k \in Files : TRUE] ELSE None
    BY SameCardinality DEF Identity!Fallback, Identity!SoleTask
  <1>2. PICK k : Files = {k}
    BY <1>1, FS_Singleton DEF IdentityInv
  <1>3. Identity!Fallback = sess[k]
    BY <1>1, <1>2
  <1>4. sess[Identity!Own(w)] # None => Identity!Own(w) = k
    BY <1>2, KeyFacts DEF IdentityInv, Identity!Files
  <1> QED
    BY <1>1, <1>3, <1>4

\* What a hook announces that took its platform for P.
LEMMA AnnouncedTask ==
  ASSUME IdentityInv, NEW w \in Windows, NEW inTime \in BOOLEAN, NEW P \in Identity!PlatformNames,
         NEW t, t = Identity!ActiveTask(Identity!PromptKey(w, inTime, P)),
         NEW held, held = sess[Identity!Own(w)]
  PROVE  /\ held # None /\ P = kind[w] /\ (~ inTime => kind[w] # "cursor") => t = held
         /\ t \notin {None, held} =>
              \/ held = None /\ Cardinality(Identity!Files) = 1
              \/ /\ ~ inTime /\ host[w] # None /\ t = sess[Identity!Own(host[w])]
                 /\ held = None \/ P # kind[w]
  <1> DEFINE key == Identity!PromptKey(w, inTime, P)
  <1>1. t = IF key # None /\ sess[key] # None THEN sess[key] ELSE Identity!Fallback
    BY DEF Identity!ActiveTask
  <1>2. /\ Identity!Own(w) \in Identity!Keys /\ Setting /\ P # None
        /\ Identity!Own(w) = <<kind[w], w>> /\ kind[w] \in Identity!PlatformNames
    BY KeyFacts DEF IdentityInv, Identity!Own, Setting
  <1>3. /\ inTime => key = <<P, w>>
        /\ ~ inTime => key = Identity!EnvKey(w, P)
    BY DEF Identity!PromptKey
  <1> HIDE DEF key
  <1>4. key = Identity!Own(w) => held = None \/ t = held
    BY <1>1, <1>2, KeyFacts
  <1>5. (key = None \/ sess[key] = None) /\ t \notin {None, held} =>
          held = None /\ Cardinality(Identity!Files) = 1
    BY <1>1, FallbackTask
  <1>6. ASSUME held # None, P = kind[w], ~ inTime => kind[w] # "cursor" PROVE t = held
    <2>1. CASE inTime
      BY <1>2, <1>3, <1>4, <1>6, <2>1
    <2>2. CASE ~ inTime
      <3>1. exports[w]
        <4>1. PICK v \in Windows : Identity!Own(w) = Identity!Own(v) /\ (exports[v] \/ kind[v] = "cursor")
          BY <1>2, <1>6 DEF IdentityInv, SessionsOwn
        <4> QED
          BY <1>6, <2>2, <4>1, KeyFacts
      <3>2. Identity!Env(w)[P] = w /\ w # None
        BY <1>2, <1>6, <3>1, EnvFacts, KeyFacts
      <3>3. key = <<P, w>>
        BY <1>2, <1>3, <2>2, <3>2, EnvKeyFacts
      <3> QED
        BY <1>2, <1>4, <1>6, <3>3
    <2> QED
      BY <2>1, <2>2
  <1>7. ASSUME t \notin {None, held}, key # None, sess[key] # None
        PROVE  /\ ~ inTime /\ host[w] # None /\ t = sess[Identity!Own(host[w])]
               /\ held = None \/ P # kind[w]
    <2>1. t = sess[key] /\ key # Identity!Own(w)
      BY <1>1, <1>7
    <2>2. ~ inTime
      <3> SUFFICES ASSUME inTime PROVE FALSE
        OBVIOUS
      <3>1. key = <<P, w>> /\ key \in Identity!Keys
        BY <1>3 DEF Identity!Keys
      <3>2. PICK v \in Windows : key = Identity!Own(v)
        BY <1>7, <3>1 DEF IdentityInv, SessionsOwn
      <3> QED
        BY <2>1, <3>1, <3>2 DEF Identity!Own
    <2>3. PICK v \in Windows : key = Identity!Own(v) /\ exports[v] /\ v \in {w, host[w]}
      BY <1>2, <1>3, <1>7, <2>2, EnvKeyOwn
    <2>4. host[w] = v /\ v # w /\ host[w] # None
      BY <2>1, <2>3, KeyFacts
    <2>5. held = None \/ P # kind[w]
      BY <1>2, <1>6, <2>1, <2>4, <1>7 DEF Setting
    <2> QED
      BY <2>1, <2>2, <2>3, <2>4, <2>5
  <1> QED
    BY <1>5, <1>6, <1>7

\* The platform a hook takes for its own is one of the three.
LEMMA DetectedPlatform ==
  ASSUME Setting, NEW w \in Windows, NEW inTime \in BOOLEAN, NEW dirs
  PROVE  Identity!DetectPlatform(w, inTime, dirs) \in Identity!PlatformNames
  BY DEF Setting, Identity!DetectPlatform, Identity!PlatformNames

\* A prompt changes nothing but what is announced, and sweeps old tickets at most.
LEMMA PromptKeeps == ASSUME IdentityInv, NEW w \in Windows, Identity!Prompt(w) PROVE IdentityInv'
  <1>0. PICK inTime \in BOOLEAN : \E platform \in Identity!Detected(w, inTime) :
          LET key == Identity!PromptKey(w, inTime, platform) IN
          /\ last' = [of |-> "prompt", win |-> w, task |-> Identity!ActiveTask(key),
                      held |-> sess[Identity!Own(w)],
                      hosts |-> IF host[w] = None THEN None ELSE sess[Identity!Own(host[w])],
                      files |-> Identity!Cardinality(Identity!Files), late |-> ~ inTime,
                      right |-> platform = kind[w]]
          /\ IF key = None /\ platform = "cursor" THEN Identity!SweepTickets ELSE UNCHANGED tickets
          /\ UNCHANGED <<Identity!setting, sess, wanted>>
    BY Zenon DEF Identity!Prompt
  <1>1. PICK platform \in Identity!Detected(w, inTime) :
          LET key == Identity!PromptKey(w, inTime, platform) IN
          /\ last' = [of |-> "prompt", win |-> w, task |-> Identity!ActiveTask(key),
                      held |-> sess[Identity!Own(w)],
                      hosts |-> IF host[w] = None THEN None ELSE sess[Identity!Own(host[w])],
                      files |-> Cardinality(Identity!Files), late |-> ~ inTime,
                      right |-> platform = kind[w]]
          /\ tickets' \subseteq tickets
          /\ UNCHANGED <<Identity!setting, sess, wanted>>
    BY <1>0, SameCardinality DEF Identity!SweepTickets
  <1>2. PICK P \in Identity!PlatformNames : P = platform
    BY DetectedPlatform DEF IdentityInv, Identity!Detected
  <1>3. PICK t : t = Identity!ActiveTask(Identity!PromptKey(w, inTime, P))
    OBVIOUS
  <1>4. PICK held : held = sess[Identity!Own(w)]
    OBVIOUS
  <1>5. /\ held # None /\ P = kind[w] /\ (~ inTime => kind[w] # "cursor") => t = held
        /\ t \notin {None, held} =>
             \/ held = None /\ Cardinality(Identity!Files) = 1
             \/ /\ ~ inTime /\ host[w] # None /\ t = sess[Identity!Own(host[w])]
                /\ held = None \/ P # kind[w]
    BY <1>3, <1>4, AnnouncedTask
  <1>6. /\ last'.of = "prompt" /\ last'.win = w /\ last'.task = t /\ last'.held = held
        /\ last'.hosts = IF host[w] = None THEN None ELSE sess[Identity!Own(host[w])]
        /\ last'.files = Cardinality(Identity!Files) /\ last'.late = (~ inTime)
        /\ last'.right = (P = kind[w])
    BY <1>1, <1>2, <1>3, <1>4
  <1>7. Identity!NeverAnothers'
    BY <1>5, <1>6, <1>1 DEF Identity!NeverAnothers, Identity!setting
  <1>8. Identity!ActsOnItsOwn'
    BY <1>6 DEF Identity!ActsOnItsOwn
  <1>9. Identity!TypeOK'
    BY <1>1, <1>6 DEF IdentityInv, Identity!TypeOK, Identity!setting
  <1>10. Setting' /\ IsFiniteSet(tickets') /\ IsFiniteSet(Identity!Files') /\ TicketsOwn' /\ SessionsOwn'
    BY <1>1, FS_Subset DEF IdentityInv, Identity!setting, Setting, Identity!Files, TicketsOwn,
       SessionsOwn, Identity!Own
  <1> QED
    BY <1>7, <1>8, <1>9, <1>10 DEF IdentityInv

\* A step after which no command or prompt is the last.
LEMMA QuietKeeps ==
  ASSUME IdentityInv, last' = Identity!NoEvent, UNCHANGED <<Identity!setting, sess>>,
         tickets' \subseteq Identity!Ticket, IsFiniteSet(tickets'),
         \A k \in tickets' : \E v \in Windows : kind[v] = "cursor" /\ k.key = Identity!Own(v),
         wanted' \in [Windows -> Identity!TaskCommands \cup {None}]
  PROVE  IdentityInv'
  <1>1. Identity!TypeOK' /\ Setting'
    BY DEF IdentityInv, Identity!TypeOK, Setting, Identity!setting
  <1>2. IsFiniteSet(Identity!Files') /\ TicketsOwn' /\ SessionsOwn'
    BY DEF IdentityInv, Identity!setting, Identity!Files, TicketsOwn, SessionsOwn, Identity!Own
  <1>3. last'.of = "nothing"
    BY DEF Identity!NoEvent
  <1>4. Identity!ActsOnItsOwn' /\ Identity!NeverAnothers'
    BY <1>3 DEF Identity!ActsOnItsOwn, Identity!NeverAnothers
  <1> QED
    BY <1>1, <1>2, <1>4 DEF IdentityInv

\* A decision leaves a ticket with the key of its own window.
LEMMA DecideKeeps ==
  ASSUME IdentityInv, NEW w \in Windows, NEW command \in Identity!TaskCommands,
         Identity!Decide(w, command)
  PROVE  IdentityInv'
  <1> DEFINE new == [key |-> Identity!Own(w), command |-> command, age |-> 0]
  <1>1. /\ wanted' = [wanted EXCEPT ![w] = command] /\ last' = Identity!NoEvent
        /\ UNCHANGED <<Identity!setting, sess>>
        /\ (kind[w] = "cursor" /\ tickets' = tickets \cup {new}) \/ UNCHANGED tickets
    BY DEF Identity!Decide
  <1>2. /\ wanted \in [Windows -> Identity!TaskCommands \cup {None}] /\ tickets \subseteq Identity!Ticket
        /\ IsFiniteSet(tickets) /\ Setting
        /\ \A k \in tickets : \E v \in Windows : kind[v] = "cursor" /\ k.key = Identity!Own(v)
    BY DEF IdentityInv, Identity!TypeOK, TicketsOwn
  <1>3. wanted' \in [Windows -> Identity!TaskCommands \cup {None}]
    BY <1>1, <1>2
  <1>4. new \in Identity!Ticket /\ new.key = Identity!Own(w)
    <2>1. Identity!Own(w) \in Identity!Keys /\ 0 \in 0..TTL + 1
      BY <1>2, KeyFacts, IdentityAssumption DEF Identity!SessionIdentityAssumption
    <2> QED
      BY <2>1 DEF Identity!Ticket
  <1>5. IsFiniteSet(tickets \cup {new})
    BY <1>2, FS_AddElement
  <1> HIDE DEF new
  <1>6. tickets' \subseteq Identity!Ticket /\ IsFiniteSet(tickets')
        /\ \A k \in tickets' : \E v \in Windows : kind[v] = "cursor" /\ k.key = Identity!Own(v)
    BY <1>1, <1>2, <1>4, <1>5
  <1> QED
    BY <1>1, <1>3, <1>6, QuietKeeps

\* Tickets only grow older.
LEMMA TickKeeps == ASSUME IdentityInv, Identity!Tick PROVE IdentityInv'
  <1> DEFINE older(k) == [k EXCEPT !.age = IF @ > TTL THEN @ ELSE @ + 1]
             f == [k \in tickets |-> older(k)]
  <1>1. /\ tickets' = {older(k) : k \in tickets} /\ last' = Identity!NoEvent
        /\ UNCHANGED <<Identity!setting, sess, wanted>>
    BY DEF Identity!Tick
  <1>2. /\ wanted \in [Windows -> Identity!TaskCommands \cup {None}] /\ tickets \subseteq Identity!Ticket
        /\ IsFiniteSet(tickets) /\ TTL \in Nat
        /\ \A k \in tickets : \E v \in Windows : kind[v] = "cursor" /\ k.key = Identity!Own(v)
    BY IdentityAssumption DEF IdentityInv, Identity!TypeOK, TicketsOwn,
       Identity!SessionIdentityAssumption
  <1>3. ASSUME NEW k \in tickets PROVE older(k) \in Identity!Ticket /\ older(k).key = k.key
    <2>1. k \in Identity!Ticket /\ k.age \in 0..TTL + 1
      BY <1>2, <1>3 DEF Identity!Ticket
    <2>2. PICK age \in 0..TTL + 1 : age = IF k.age > TTL THEN k.age ELSE k.age + 1
      BY <1>2, <2>1
    <2>3. older(k) = [k EXCEPT !.age = age]
      BY <2>2
    <2> QED
      BY <2>1, <2>3 DEF Identity!Ticket
  <1>4. f \in Surjection(tickets, tickets')
    BY <1>1 DEF Surjection
  <1>5. IsFiniteSet(tickets')
    BY <1>2, <1>4, FS_Surjection
  <1> HIDE DEF older
  <1>6. tickets' \subseteq Identity!Ticket
        /\ \A k \in tickets' : \E v \in Windows : kind[v] = "cursor" /\ k.key = Identity!Own(v)
    BY <1>1, <1>2, <1>3
  <1> QED
    BY <1>1, <1>2, <1>5, <1>6, QuietKeeps

\* Every step of a window keeps the invariant,
LEMMA IdentityStep == ASSUME IdentityInv, Identity!Next PROVE IdentityInv'
  <1>1. wanted \in [Windows -> Identity!TaskCommands \cup {None}]
    BY DEF IdentityInv, Identity!TypeOK
  <1>2. ASSUME NEW w \in Windows, Identity!Run(w) PROVE IdentityInv'
    <2>1. PICK command \in Identity!TaskCommands : command = wanted[w]
      BY <1>1, <1>2 DEF Identity!Run
    <2>2. /\ Identity!Act(w, command) /\ UNCHANGED Identity!setting
          /\ wanted' = [wanted EXCEPT ![w] = None]
      BY <1>2, <2>1 DEF Identity!Run
    <2>3. wanted' \in [Windows -> Identity!TaskCommands \cup {None}]
      BY <1>1, <2>2
    <2> QED
      BY <2>2, <2>3, ActKeeps
  <1>3. ASSUME NEW w \in Windows, NEW command \in Identity!TaskCommands, Identity!Type(w, command)
        PROVE  IdentityInv'
    BY <1>1, <1>3, ActKeeps DEF Identity!Type
  <1> QED
    BY <1>2, <1>3, DecideKeeps, PromptKeeps, TickKeeps DEF Identity!Next

\* it holds at first,
LEMMA IdentityInit == ASSUME Identity!Init PROVE IdentityInv
  <1>1. Setting /\ last.of = "nothing"
    BY DEF Identity!Init, Setting, Identity!NoEvent
  <1>2. /\ sess = [k \in Identity!Keys |-> None] /\ tickets = {}
        /\ wanted = [w \in Windows |-> None] /\ last = Identity!NoEvent
    BY DEF Identity!Init
  <1>3. Identity!TypeOK
    BY <1>1, <1>2 DEF Identity!TypeOK, Setting
  <1>4. Identity!Files = {} /\ IsFiniteSet(tickets)
    BY <1>2, FS_EmptySet DEF Identity!Files
  <1>5. TicketsOwn /\ SessionsOwn
    BY <1>1, <1>2, KeyFacts DEF TicketsOwn, SessionsOwn
  <1>6. Identity!ActsOnItsOwn /\ Identity!NeverAnothers
    BY <1>1 DEF Identity!ActsOnItsOwn, Identity!NeverAnothers
  <1> QED
    BY <1>1, <1>3, <1>4, <1>5, <1>6, FS_EmptySet DEF IdentityInv

\* and a step of another part of the workflow keeps it.
LEMMA IdentityStays == ASSUME IdentityInv, UNCHANGED identity PROVE IdentityInv'
  <1>1. UNCHANGED <<Identity!setting, kind, host, exports, sess, tickets, wanted, last>>
    BY DEF identity, Identity!setting
  <1>2. Identity!TypeOK' /\ Setting' /\ IsFiniteSet(tickets') /\ IsFiniteSet(Identity!Files')
    BY <1>1 DEF IdentityInv, Identity!TypeOK, Setting, Identity!Files
  <1>3. TicketsOwn' /\ SessionsOwn' /\ Identity!NeverAnothers'
    BY <1>1 DEF IdentityInv, TicketsOwn, SessionsOwn, Identity!NeverAnothers, Identity!Own
  <1>4. Identity!ActsOnItsOwn'
    <2>1. last = Identity!NoEvent \/ last.win \in Windows
      BY DEF IdentityInv, Identity!TypeOK
    <2>2. CASE last = Identity!NoEvent
      BY <1>1, <2>2 DEF Identity!NoEvent, Identity!ActsOnItsOwn
    <2>3. CASE last.win \in Windows
      <3> PICK w \in Windows : w = last.win
        BY <2>3
      <3>1. (Identity!EnvKey(w, None) = None)' <=> Identity!EnvKey(w, None) = None
        BY <1>1, EnvKeyStays DEF IdentityInv
      <3> QED
        BY <1>1, <3>1 DEF IdentityInv, Identity!ActsOnItsOwn, Identity!Own
    <2> QED
      BY <2>1, <2>2, <2>3
  <1> QED
    BY <1>2, <1>3, <1>4 DEF IdentityInv

-----------------------------------------------------------------------------
(* The journal *)

\* index.md as it may be found, and what is read of it.
Page == [there : BOOLEAN, marked : BOOLEAN, total : 0..MaxSessions, table : BOOLEAN,
         rows : Seq(1..MaxSessions)]

\* The session can be read in a journal file.
Held(n) == \E k \in made : \E j \in 1..Len(log[k].entries) : log[k].entries[j] = n

\* Each session of some rows can be read in a journal file.
RowsHeld(rows) == \A i \in 1..Len(rows) : Held(rows[i])

\* There is a highest number, or no file.
HasLatest == \E k \in made \cup {0} : \A j \in made : j <= k

\* What a run of add_session or init_developer knows at each of its steps: its file is
\* there or will be, and has room for the session, or nothing yet; once it is written,
\* the rows that are going to the index can be read in the journal.
Knows(r) ==
  /\ r.pc = "i_index" => made # {}
  /\ r.pc = "create" => r.file \in Journal!Files \ made
  /\ r.pc = "append" => r.file \in made \cup {0}
  /\ r.pc \in {"count", "append", "read"} /\ r.file = 0 => made = {}
  /\ r.pc \in {"count", "create", "append"} /\ r.file # 0 =>
       log[r.file].entries = <<>> \/ (r.file \in made /\ log[r.file].lines + r.size <= MaxLines)
  /\ r.pc \in {"create", "append", "read", "truncate", "write"} => r.n # 0
  /\ r.pc = "read" /\ r.file # 0 => Held(r.n)
  /\ r.pc \in {"truncate", "write"} => made # {} /\ Held(r.n) /\ RowsHeld(r.index.rows)

\* index.md has its marker only beside a journal file, and only rows that can be read there.
PageSound ==
  /\ pages \in Page
  /\ pages.marked => pages.there /\ made # {}
  /\ RowsHeld(pages.rows)

\* The inductive invariant, for one process at a time.
JournalInv ==
  /\ Journal!TypeOK
  /\ HasLatest
  /\ PageSound
  /\ Journal!WithinLimit
  /\ \A p \in Procs : Knows(writer[p])

\* No step takes away a file, or an entry of one.
Grows ==
  /\ made \subseteq made'
  /\ \A k \in Journal!Files :
       /\ Len(log[k].entries) <= Len(log'[k].entries)
       /\ \A i \in 1..Len(log[k].entries) : log'[k].entries[i] = log[k].entries[i]

\* What is shown of every step.
JournalKept == JournalInv' /\ Grows

\* What is assumed of the constants.
LEMMA JournalConstants ==
  /\ Sizes \subseteq Nat /\ Header \in Nat /\ MaxLines \in Nat /\ MaxSessions \in Nat
  /\ MaxFiles \in Nat \ {0} /\ Journal!Files = 1..MaxFiles
  BY JournalAssumption DEF Journal!SessionJournalAssumption, Journal!Files

\* A journal file that is not there is empty.
LEMMA FileFacts ==
  ASSUME Journal!TypeOK, NEW k \in Journal!Files
  PROVE  /\ log[k].lines \in Nat /\ log[k].entries \in Seq(0..MaxSessions)
         /\ Len(log[k].entries) \in Nat
         /\ k \notin made => log[k] = Journal!NoFile /\ log[k].entries = <<>>
  BY DEF Journal!TypeOK, Journal!File, Journal!NoFile

\* What can be read in a journal file can be read as long as files only grow.
LEMMA HeldStays ==
  ASSUME Journal!TypeOK, Journal!TypeOK', Grows, NEW n, Held(n) PROVE Held(n)'
  <1>1. PICK k \in made : \E j \in 1..Len(log[k].entries) : log[k].entries[j] = n
    BY DEF Held
  <1>2. PICK j \in 1..Len(log[k].entries) : log[k].entries[j] = n
    BY <1>1
  <1>3. k \in made' /\ k \in Journal!Files
    BY DEF Grows, Journal!TypeOK
  <1>4. Len(log[k].entries) \in Nat /\ Len(log'[k].entries) \in Nat
    BY <1>3, FileFacts DEF Journal!TypeOK, Journal!File
  <1>5. j \in 1..Len(log'[k].entries) /\ log'[k].entries[j] = n
    BY <1>2, <1>3, <1>4 DEF Grows
  <1> QED
    BY <1>3, <1>5 DEF Held

\* get_latest_journal_info gives the highest number, and the next one is free.
LEMMA LatestFacts ==
  ASSUME JournalInv
  PROVE  /\ Journal!Latest \in made \cup {0} /\ \A j \in made : j <= Journal!Latest
         /\ Journal!Latest \in 0..MaxFiles
         /\ Journal!Latest = 0 => made = {}
         /\ Journal!Latest + 1 \notin made
  <1>1. Journal!Latest \in made \cup {0} /\ \A j \in made : j <= Journal!Latest
    BY DEF JournalInv, HasLatest, Journal!Latest
  <1>2. made \subseteq 1..MaxFiles /\ MaxFiles \in Nat
    BY JournalConstants DEF JournalInv, Journal!TypeOK
  <1> QED
    BY <1>1, <1>2

\* A step of a run that leaves the files alone, or adds one, or adds to one.
LEMMA JournalMoves ==
  ASSUME JournalInv, NEW p, Procs = {p}, NEW r \in Journal!Process, writer' = [writer EXCEPT ![p] = r],
         killed' \in BOOLEAN, dev' \in BOOLEAN, made' \subseteq Journal!Files, log' \in [Journal!Files -> Journal!File],
         \A k \in Journal!Files \ made' : log'[k] = Journal!NoFile,
         Grows, HasLatest', Journal!WithinLimit', PageSound', Knows(r)'
  PROVE  JournalKept
  <1>1. writer \in [Procs -> Journal!Process]
    BY DEF JournalInv, Journal!TypeOK
  <1>2. writer' \in [Procs -> Journal!Process] /\ \A q \in Procs : writer'[q] = r
    BY <1>1
  <1>3. Journal!TypeOK'
    BY <1>2 DEF Journal!TypeOK, PageSound, Page
  <1>4. \A q \in Procs : Knows(writer[q])'
    BY <1>2 DEF Knows
  <1> QED
    BY <1>3, <1>4 DEF JournalKept, JournalInv

\* A step that changes neither the files nor the index.
LEMMA JournalRests ==
  ASSUME JournalInv, UNCHANGED <<made, log, pages>>
  PROVE  /\ made' \subseteq Journal!Files /\ log' \in [Journal!Files -> Journal!File]
         /\ \A k \in Journal!Files \ made' : log'[k] = Journal!NoFile
         /\ Grows /\ HasLatest' /\ Journal!WithinLimit' /\ PageSound'
         /\ \A n : Held(n) => Held(n)'
  <1>1. /\ made' \subseteq Journal!Files /\ log' \in [Journal!Files -> Journal!File]
        /\ \A k \in Journal!Files \ made' : log'[k] = Journal!NoFile
    BY DEF JournalInv, Journal!TypeOK
  <1>2. Grows
    BY FileFacts DEF JournalInv, Grows
  <1>3. HasLatest' /\ Journal!WithinLimit' /\ PageSound'
    BY DEF JournalInv, HasLatest, Journal!WithinLimit, Journal!Lines, PageSound, RowsHeld, Held
  <1>4. \A n : Held(n) => Held(n)'
    BY DEF Held
  <1> QED
    BY <1>1, <1>2, <1>3, <1>4

\* A process that does nothing.
LEMMA JournalIdle ==
  Journal!Idle \in Journal!Process /\ Journal!Idle.pc = "idle" /\ Knows(Journal!Idle) /\ Knows(Journal!Idle)'
  <1>1. Journal!Idle \in Journal!Process /\ Journal!Idle.pc = "idle"
    BY JournalConstants DEF Journal!Idle, Journal!Process
  <1> QED
    BY <1>1 DEF Knows

\* What is known of a process.
LEMMA WriterFacts ==
  ASSUME JournalInv, NEW p \in Procs
  PROVE  /\ writer[p] \in Journal!Process /\ Knows(writer[p]) /\ writer \in [Procs -> Journal!Process]
         /\ writer[p].n \in 0..MaxSessions /\ writer[p].size \in {0} \cup Sizes
         /\ writer[p].file \in 0..MaxFiles
         /\ dev \in BOOLEAN /\ made \subseteq Journal!Files /\ log \in [Journal!Files -> Journal!File]
         /\ \A k \in Journal!Files \ made : log[k] = Journal!NoFile
  BY DEF JournalInv, Journal!TypeOK, Journal!Process

\* A run that goes on, or ends, while files and index stay as they are.
LEMMA JournalGoes ==
  ASSUME JournalInv, NEW p, Procs = {p}, NEW r \in Journal!Process, writer' = [writer EXCEPT ![p] = r],
         killed' \in BOOLEAN, dev' \in BOOLEAN, UNCHANGED <<made, log, pages>>, Knows(r)'
  PROVE  JournalKept
  BY JournalRests, JournalMoves

\* init_developer begins.
LEMMA BeginInitKeeps ==
  ASSUME JournalInv, NEW p, Procs = {p}, Journal!BeginInit(p), killed' \in BOOLEAN PROVE JournalKept
  <1>1. PICK r : r = [writer[p] EXCEPT !.pc = "i_journal"]
    OBVIOUS
  <1>2. writer[p] \in Journal!Process
    BY WriterFacts
  <1>3. r \in Journal!Process /\ r.pc = "i_journal"
    BY <1>1, <1>2 DEF Journal!Process
  <1>4. Knows(r)'
    BY <1>3 DEF Knows
  <1>5. writer' = [writer EXCEPT ![p] = r] /\ dev' \in BOOLEAN /\ UNCHANGED <<made, log, pages>>
    BY <1>1, WriterFacts DEF Journal!BeginInit, Journal!Step
  <1> QED
    BY <1>3, <1>4, <1>5, JournalGoes

\* A new file, where none was.
LEMMA NewFileKeeps ==
  ASSUME JournalInv, NEW k \in Journal!Files \ made, made' = made \cup {k},
         log' = [log EXCEPT ![k] = Journal!NewFile], UNCHANGED pages
  PROVE  /\ made' \subseteq Journal!Files /\ log' \in [Journal!Files -> Journal!File]
         /\ \A j \in Journal!Files \ made' : log'[j] = Journal!NoFile
         /\ log'[k].entries = <<>>
         /\ Grows /\ HasLatest' /\ Journal!WithinLimit' /\ PageSound'
         /\ \A n : Held(n) => Held(n)'
  <1>1. Journal!NewFile \in Journal!File /\ Journal!NewFile.entries = <<>> /\ Journal!NewFile.lines = Header
    BY JournalConstants DEF Journal!NewFile, Journal!File
  <1>2. /\ made \subseteq Journal!Files /\ log \in [Journal!Files -> Journal!File]
        /\ \A j \in Journal!Files \ made : log[j] = Journal!NoFile
        /\ log[k].entries = <<>> /\ k # 0
    BY FileFacts, JournalConstants DEF JournalInv, Journal!TypeOK
  <1>3. /\ log' \in [Journal!Files -> Journal!File] /\ log'[k] = Journal!NewFile
        /\ \A j \in Journal!Files : j # k => log'[j] = log[j]
    BY <1>1, <1>2
  <1>4. Grows
    BY <1>1, <1>2, <1>3, FileFacts DEF JournalInv, Grows
  <1>5. \A n : Held(n) => Held(n)'
    <2>1. ASSUME NEW n, NEW j \in made, NEW i \in 1..Len(log[j].entries), log[j].entries[i] = n
          PROVE  Held(n)'
      <3>1. log'[j] = log[j] /\ j \in made'
        BY <1>2, <1>3
      <3> QED
        BY <2>1, <3>1 DEF Held
    <2> QED
      BY <2>1 DEF Held
  <1>6. HasLatest'
    <2>1. PICK j \in made \cup {0} : \A i \in made : i <= j
      BY DEF JournalInv, HasLatest
    <2>2. \A i \in made \cup {0, k} : i \in Nat
      BY <1>2, JournalConstants
    <2>3. CASE j <= k
      BY <2>1, <2>2, <2>3 DEF HasLatest
    <2>4. CASE ~ j <= k
      BY <2>1, <2>2, <2>4 DEF HasLatest
    <2> QED
      BY <2>3, <2>4
  <1>7. Journal!WithinLimit'
    <2>1. ASSUME NEW j \in made', Len(log'[j].entries) >= 2 PROVE log'[j].lines <= MaxLines
      <3>1. CASE j = k
        BY <1>1, <1>3, <2>1, <3>1
      <3>2. CASE j # k
        BY <1>2, <1>3, <2>1, <3>2 DEF JournalInv, Journal!WithinLimit, Journal!Lines
      <3> QED
        BY <3>1, <3>2
    <2> QED
      BY <2>1 DEF Journal!WithinLimit, Journal!Lines
  <1>8. PageSound'
    BY <1>5 DEF JournalInv, PageSound, RowsHeld
  <1> QED
    BY <1>1, <1>2, <1>3, <1>4, <1>5, <1>6, <1>7, <1>8

\* It makes the first journal file, unless it is there.
LEMMA InitJournalKeeps ==
  ASSUME JournalInv, NEW p, Procs = {p}, Journal!InitJournal(p), killed' \in BOOLEAN PROVE JournalKept
  <1>1. PICK r : r = [writer[p] EXCEPT !.pc = "i_index"]
    OBVIOUS
  <1>2. writer[p] \in Journal!Process
    BY WriterFacts
  <1>3. r \in Journal!Process /\ r.pc = "i_index"
    BY <1>1, <1>2 DEF Journal!Process
  <1>4. /\ writer' = [writer EXCEPT ![p] = r] /\ dev' \in BOOLEAN /\ UNCHANGED pages
        /\ IF 1 \in made THEN UNCHANGED <<made, log>>
           ELSE made' = made \cup {1} /\ log' = [log EXCEPT ![1] = Journal!NewFile]
    BY <1>1, WriterFacts DEF Journal!InitJournal, Journal!Step
  <1>5. 1 \in made'
    BY <1>4
  <1>6. Knows(r)'
    BY <1>3, <1>5 DEF Knows
  <1>7. CASE 1 \in made
    BY <1>3, <1>4, <1>6, <1>7, JournalGoes
  <1>8. CASE 1 \notin made
    <2>1. 1 \in Journal!Files \ made
      BY <1>8, JournalConstants
    <2> QED
      BY <1>3, <1>4, <1>6, <1>8, <2>1, NewFileKeeps, JournalMoves
  <1> QED
    BY <1>7, <1>8

\* The index changes.
LEMMA IndexKeeps ==
  ASSUME JournalInv, NEW p, Procs = {p}, NEW r \in Journal!Process, writer' = [writer EXCEPT ![p] = r],
         killed' \in BOOLEAN, UNCHANGED <<dev, made, log>>, PageSound', Knows(r)'
  PROVE  JournalKept
  <1>1. /\ made' \subseteq Journal!Files /\ log' \in [Journal!Files -> Journal!File] /\ dev' \in BOOLEAN
        /\ \A k \in Journal!Files \ made' : log'[k] = Journal!NoFile
    BY DEF JournalInv, Journal!TypeOK
  <1>2. Grows
    BY FileFacts DEF JournalInv, Grows
  <1>3. HasLatest' /\ Journal!WithinLimit'
    BY DEF JournalInv, HasLatest, Journal!WithinLimit, Journal!Lines
  <1> QED
    BY <1>1, <1>2, <1>3, JournalMoves

\* The pages that init_developer and a cut write leave.
LEMMA PageFacts ==
  /\ Journal!TornIndex \in Page /\ ~ Journal!TornIndex.marked /\ Journal!TornIndex.there
  /\ Journal!TornIndex.rows = <<>>
  /\ Journal!NewIndex \in Page /\ Journal!NewIndex.rows = <<>> /\ Journal!NewIndex.there
  /\ Journal!NoIndex \in Page /\ Journal!NoIndex.rows = <<>> /\ ~ Journal!NoIndex.marked
  <1>1. <<>> \in Seq(1..MaxSessions) /\ 0 \in 0..MaxSessions
    BY JournalConstants
  <1>2. Journal!NoIndex \in Page /\ Journal!NoIndex.rows = <<>> /\ ~ Journal!NoIndex.marked
    BY <1>1 DEF Journal!NoIndex, Page
  <1>3. Journal!NewIndex \in Page /\ Journal!NewIndex.rows = <<>> /\ Journal!NewIndex.there
    BY <1>1 DEF Journal!NewIndex, Page
  <1>4. /\ Journal!TornIndex \in Page /\ ~ Journal!TornIndex.marked /\ Journal!TornIndex.there
        /\ Journal!TornIndex.rows = <<>>
    BY <1>2 DEF Journal!TornIndex, Page
  <1> QED
    BY <1>2, <1>3, <1>4

\* It makes the index, when a journal file is there.
LEMMA InitIndexKeeps ==
  ASSUME JournalInv, NEW p, Procs = {p}, Journal!InitIndex(p), killed' \in BOOLEAN PROVE JournalKept
  <1>1. /\ writer' = [writer EXCEPT ![p] = Journal!Idle] /\ UNCHANGED <<dev, made, log>>
        /\ pages' = IF pages.there THEN pages ELSE Journal!NewIndex
        /\ writer[p].pc = "i_index"
    BY DEF Journal!InitIndex, Journal!Return, Journal!Goto
  <1>2. made # {}
    BY <1>1, WriterFacts DEF Knows
  <1>3. PageSound'
    BY <1>1, <1>2, PageFacts DEF JournalInv, PageSound, RowsHeld, Held
  <1> QED
    BY <1>1, <1>3, JournalIdle, IndexKeeps

\* add_session chooses a file with room for the session, or a new one.
LEMMA BeginAddKeeps ==
  ASSUME JournalInv, NEW p, Procs = {p}, Journal!BeginAdd(p), killed' \in BOOLEAN PROVE JournalKept
  <1>1. PICK size \in Sizes :
          /\ Journal!Latest < MaxFiles /\ UNCHANGED <<dev, made, log, pages, killed>>
          /\ writer' = [writer EXCEPT ![p] =
               [Journal!Idle EXCEPT !.pc = "count", !.size = size,
                  !.file = IF Journal!Fits(size) THEN Journal!Latest ELSE Journal!Latest + 1]]
    BY DEF Journal!BeginAdd, Journal!Goto
  <1>2. PICK file \in 0..MaxFiles :
          file = IF Journal!Fits(size) THEN Journal!Latest ELSE Journal!Latest + 1
    BY <1>1, LatestFacts, JournalConstants
  <1>3. PICK r : r = [Journal!Idle EXCEPT !.pc = "count", !.size = size, !.file = file]
    OBVIOUS
  <1>4. r \in Journal!Process /\ r.pc = "count" /\ r.file = file /\ r.size = size
    BY <1>3, JournalIdle DEF Journal!Idle, Journal!Process
  <1>5. writer' = [writer EXCEPT ![p] = r]
    BY <1>1, <1>2, <1>3
  <1>6. file = 0 => made = {}
    BY <1>2, LatestFacts, JournalConstants
  <1>7. file # 0 => log[file].entries = <<>> \/ (file \in made /\ log[file].lines + size <= MaxLines)
    <2>1. CASE Journal!Fits(size)
      BY <1>2, <2>1, LatestFacts DEF Journal!Fits, Journal!Lines
    <2>2. CASE ~ Journal!Fits(size)
      BY <1>2, <2>2, LatestFacts, FileFacts, JournalConstants DEF JournalInv
    <2> QED
      BY <2>1, <2>2
  <1>8. Knows(r)'
    BY <1>1, <1>4, <1>6, <1>7 DEF Knows
  <1> QED
    BY <1>1, <1>4, <1>5, <1>8, JournalGoes, WriterFacts

\* It reads the total; the file is still as it was.
LEMMA CountSessionsKeeps ==
  ASSUME JournalInv, NEW p, Procs = {p}, Journal!CountSessions(p), killed' \in BOOLEAN PROVE JournalKept
  <1>1. writer[p] \in Journal!Process /\ Knows(writer[p]) /\ made \subseteq Journal!Files
        /\ writer[p].file \in 0..MaxFiles /\ dev \in BOOLEAN
    BY WriterFacts
  <1>2. pages.total < MaxSessions /\ pages.total \in 0..MaxSessions
    BY DEF Journal!CountSessions, JournalInv, PageSound, Page
  <1>3. PICK n \in 1..MaxSessions : n = pages.total + 1
    BY <1>2, JournalConstants
  <1>4. PICK pc \in {"append", "create"} :
          pc = IF writer[p].file \in made \cup {0} THEN "append" ELSE "create"
    OBVIOUS
  <1>5. PICK r : r = [writer[p] EXCEPT !.n = n, !.pc = pc]
    OBVIOUS
  <1>6. n \in 0..MaxSessions
    OBVIOUS
  <1>11. r \in Journal!Process
    BY <1>1, <1>5, <1>6 DEF Journal!Process
  <1>12. r.pc = pc /\ r.n = n /\ r.file = writer[p].file /\ r.size = writer[p].size
    BY <1>1, <1>5 DEF Journal!Process
  <1>7. writer' = [writer EXCEPT ![p] = r] /\ UNCHANGED <<dev, made, log, pages>> /\ writer[p].pc = "count"
    BY <1>3, <1>4, <1>5 DEF Journal!CountSessions, Journal!Goto
  <1>8. pc = "create" => r.file \in Journal!Files \ made
    BY <1>1, <1>4, <1>12, JournalConstants
  <1>9. pc = "append" => r.file \in made \cup {0}
    BY <1>4, <1>12
  <1>10. Knows(r)'
    BY <1>1, <1>3, <1>7, <1>8, <1>9, <1>12 DEF Knows
  <1> QED
    BY <1>1, <1>7, <1>10, <1>11, JournalGoes

\* A new file is written where none was.
LEMMA CreateJournalKeeps ==
  ASSUME JournalInv, NEW p, Procs = {p}, Journal!CreateJournal(p), killed' \in BOOLEAN PROVE JournalKept
  <1>1. writer[p] \in Journal!Process /\ Knows(writer[p]) /\ dev \in BOOLEAN
    BY WriterFacts
  <1>2. PICK r : r = [writer[p] EXCEPT !.pc = "append"]
    OBVIOUS
  <1>3. PICK k : k = writer[p].file
    OBVIOUS
  <1>4. /\ r \in Journal!Process /\ r.pc = "append" /\ r.file = k /\ r.n = writer[p].n
    BY <1>1, <1>2, <1>3 DEF Journal!Process
  <1>5. /\ writer' = [writer EXCEPT ![p] = r] /\ UNCHANGED <<dev, pages>> /\ writer[p].pc = "create"
        /\ made' = made \cup {k} /\ log' = [log EXCEPT ![k] = Journal!NewFile]
    BY <1>2, <1>3 DEF Journal!CreateJournal, Journal!Step
  <1>6. k \in Journal!Files \ made /\ writer[p].n # 0
    BY <1>1, <1>3, <1>5 DEF Knows
  <1>7. log'[k].entries = <<>> /\ k \in made' /\ k # 0
    <2>1. log'[k].entries = <<>>
      BY <1>5, <1>6, NewFileKeeps
    <2> QED
      BY <1>5, <1>6, <2>1, JournalConstants
  <1>8. Knows(r)'
    BY <1>4, <1>6, <1>7 DEF Knows
  <1> QED
    BY <1>1, <1>4, <1>5, <1>6, <1>8, NewFileKeeps, JournalMoves

\* A session, or the beginning of one, goes to the end of a file that has room for it.
LEMMA AppendKeeps ==
  ASSUME JournalInv, NEW k \in made, NEW n \in 0..MaxSessions, NEW size \in Nat,
         log[k].entries = <<>> \/ log[k].lines + size <= MaxLines,
         log' = [log EXCEPT ![k] = Journal!With(log[k], n, size)], UNCHANGED <<made, pages>>
  PROVE  /\ made' \subseteq Journal!Files /\ log' \in [Journal!Files -> Journal!File]
         /\ \A j \in Journal!Files \ made' : log'[j] = Journal!NoFile
         /\ Grows /\ HasLatest' /\ Journal!WithinLimit' /\ PageSound'
         /\ Held(n)'
  <1>1. /\ made \subseteq Journal!Files /\ log \in [Journal!Files -> Journal!File]
        /\ \A j \in Journal!Files \ made : log[j] = Journal!NoFile
        /\ log[k].lines \in Nat /\ log[k].entries \in Seq(0..MaxSessions)
    BY FileFacts DEF JournalInv, Journal!TypeOK
  <1>2. PICK new : new = Journal!With(log[k], n, size)
    OBVIOUS
  <1>3. new.lines = log[k].lines + size /\ new.entries = Append(log[k].entries, n)
    BY <1>2 DEF Journal!With
  <1>4. Append(log[k].entries, n) \in Seq(0..MaxSessions) /\ log[k].lines + size \in Nat
    BY <1>1
  <1>5. new \in Journal!File
    BY <1>2, <1>4 DEF Journal!With, Journal!File
  <1>6. /\ log' \in [Journal!Files -> Journal!File] /\ log'[k] = new
        /\ \A j \in Journal!Files : j # k => log'[j] = log[j]
    BY <1>1, <1>2, <1>5
  <1>7. /\ Len(new.entries) = Len(log[k].entries) + 1 /\ new.entries[Len(log[k].entries) + 1] = n
        /\ \A i \in 1..Len(log[k].entries) : new.entries[i] = log[k].entries[i]
        /\ Len(log[k].entries) \in Nat
    BY <1>1, <1>3
  <1>8. Grows
    BY <1>1, <1>6, <1>7, FileFacts DEF JournalInv, Grows
  <1>9. Held(n)'
    <2>1. Len(log[k].entries) + 1 \in 1..Len(log'[k].entries)
      BY <1>6, <1>7
    <2>2. log'[k].entries[Len(log[k].entries) + 1] = n
      BY <1>6, <1>7
    <2> QED
      BY <2>1, <2>2 DEF Held
  <1>10. \A m : Held(m) => Held(m)'
    <2>1. ASSUME NEW m, NEW j \in made, NEW i \in 1..Len(log[j].entries), log[j].entries[i] = m
          PROVE  Held(m)'
      <3>1. j \in Journal!Files /\ Len(log[j].entries) \in Nat /\ Len(log'[j].entries) \in Nat
        BY <1>1, <1>6, <1>7, FileFacts DEF JournalInv
      <3>2. i \in 1..Len(log'[j].entries) /\ log'[j].entries[i] = m
        BY <1>8, <2>1, <3>1 DEF Grows
      <3> QED
        BY <3>2 DEF Held
    <2> QED
      BY <2>1 DEF Held
  <1>11. Journal!WithinLimit'
    <2>1. ASSUME NEW j \in made', Len(log'[j].entries) >= 2 PROVE log'[j].lines <= MaxLines
      <3>1. CASE j = k
        BY <1>3, <1>6, <1>7, <2>1, <3>1
      <3>2. CASE j # k
        BY <1>1, <1>6, <2>1, <3>2 DEF JournalInv, Journal!WithinLimit, Journal!Lines
      <3> QED
        BY <3>1, <3>2
    <2> QED
      BY <2>1 DEF Journal!WithinLimit, Journal!Lines
  <1>12. PageSound' /\ HasLatest'
    BY <1>10 DEF JournalInv, PageSound, RowsHeld, HasLatest
  <1>13. \A j \in Journal!Files \ made' : log'[j] = Journal!NoFile
    BY <1>1, <1>6
  <1> QED
    BY <1>1, <1>6, <1>8, <1>9, <1>11, <1>12, <1>13

\* After the session is appended it can be read.
LEMMA AppendSessionKeeps ==
  ASSUME JournalInv, NEW p, Procs = {p}, Journal!AppendSession(p), killed' \in BOOLEAN PROVE JournalKept
  <1>1. /\ writer[p] \in Journal!Process /\ Knows(writer[p]) /\ dev \in BOOLEAN
        /\ writer[p].n \in 0..MaxSessions /\ writer[p].size \in {0} \cup Sizes
    BY WriterFacts
  <1>2. PICK r : r = [writer[p] EXCEPT !.pc = "read"]
    OBVIOUS
  <1>3. PICK k : k = writer[p].file
    OBVIOUS
  <1>4. r \in Journal!Process /\ r.pc = "read" /\ r.file = k /\ r.n = writer[p].n
    BY <1>1, <1>2, <1>3 DEF Journal!Process
  <1>5. /\ writer' = [writer EXCEPT ![p] = r] /\ UNCHANGED <<dev, made, pages>> /\ writer[p].pc = "append"
        /\ log' = IF k = 0 THEN log
                  ELSE [log EXCEPT ![k] = Journal!With(log[k], writer[p].n, writer[p].size)]
    BY <1>2, <1>3 DEF Journal!AppendSession, Journal!Step
  <1>6. /\ k \in made \cup {0} /\ writer[p].n # 0
        /\ k = 0 => made = {}
        /\ k # 0 => log[k].entries = <<>> \/ log[k].lines + writer[p].size <= MaxLines
    BY <1>1, <1>3, <1>5 DEF Knows
  <1>7. CASE k = 0
    <2>1. Knows(r)'
      BY <1>4, <1>5, <1>6, <1>7 DEF Knows
    <2> QED
      BY <1>1, <1>4, <1>5, <1>7, <2>1, JournalGoes
  <1>8. CASE k # 0
    <2>1. PICK size : size = writer[p].size
      OBVIOUS
    <2>2. PICK n \in 0..MaxSessions : n = writer[p].n
      BY <1>1
    <2>3. size \in Nat
      <3>1. size \in {0} \cup Sizes /\ Sizes \subseteq Nat
        BY <1>1, <2>1, JournalConstants
      <3> QED
        BY <3>1
    <2>4. /\ k \in made /\ UNCHANGED <<made, pages>>
          /\ log[k].entries = <<>> \/ log[k].lines + size <= MaxLines
          /\ log' = [log EXCEPT ![k] = Journal!With(log[k], n, size)]
      BY <1>5, <1>6, <1>8, <2>1, <2>2
    <2>5. /\ made' \subseteq Journal!Files /\ log' \in [Journal!Files -> Journal!File]
          /\ \A j \in Journal!Files \ made' : log'[j] = Journal!NoFile
          /\ Grows /\ HasLatest' /\ Journal!WithinLimit' /\ PageSound'
          /\ Held(n)'
      BY <2>3, <2>4, AppendKeeps
    <2>6. Knows(r)'
      BY <1>4, <1>6, <1>8, <2>2, <2>5 DEF Knows
    <2> QED
      BY <1>1, <1>4, <1>5, <2>5, <2>6, JournalMoves
  <1> QED
    BY <1>7, <1>8

\* The rows that are read can be read in the journal files.
LEMMA ReadIndexKeeps ==
  ASSUME JournalInv, NEW p, Procs = {p}, Journal!ReadIndex(p), killed' \in BOOLEAN PROVE JournalKept
  <1>1. writer[p] \in Journal!Process /\ Knows(writer[p]) /\ dev \in BOOLEAN /\ PageSound
    BY WriterFacts DEF JournalInv
  <1>2. UNCHANGED <<dev, made, log, pages>> /\ writer[p].pc = "read"
    BY DEF Journal!ReadIndex
  <1>3. CASE pages.marked
    <2>1. pages \in [there : {TRUE}, marked : {TRUE}, total : 0..MaxSessions, table : BOOLEAN,
                     rows : Seq(1..MaxSessions)]
      BY <1>1, <1>3 DEF PageSound, Page
    <2>2. PICK r : r = [writer[p] EXCEPT !.pc = "truncate", !.index = pages]
      OBVIOUS
    <2>3. r \in Journal!Process
      BY <1>1, <2>1, <2>2 DEF Journal!Process
    <2>4. r.pc = "truncate" /\ r.index = pages /\ r.n = writer[p].n
      BY <1>1, <2>2 DEF Journal!Process
    <2>5. writer' = [writer EXCEPT ![p] = r]
      BY <1>3, <2>2 DEF Journal!ReadIndex, Journal!Goto
    <2>6. made # {} /\ Held(r.n) /\ RowsHeld(r.index.rows) /\ r.n # 0
      BY <1>1, <1>2, <1>3, <2>4 DEF Knows, PageSound
    <2>7. Knows(r)'
      BY <1>2, <2>4, <2>6 DEF Knows, Held, RowsHeld
    <2> QED
      BY <1>1, <1>2, <2>3, <2>5, <2>7, JournalGoes
  <1>4. CASE ~ pages.marked
    <2>1. writer' = [writer EXCEPT ![p] = Journal!Idle]
      BY <1>4 DEF Journal!ReadIndex, Journal!Return, Journal!Goto
    <2> QED
      BY <1>1, <1>2, <2>1, JournalIdle, JournalGoes
  <1> QED
    BY <1>3, <1>4

\* A truncated index has no rows.
LEMMA TruncateIndexKeeps ==
  ASSUME JournalInv, NEW p, Procs = {p}, Journal!TruncateIndex(p), killed' \in BOOLEAN PROVE JournalKept
  <1>1. writer[p] \in Journal!Process /\ Knows(writer[p])
    BY WriterFacts
  <1>2. PICK r : r = [writer[p] EXCEPT !.pc = "write"]
    OBVIOUS
  <1>3. r \in Journal!Process /\ r.pc = "write" /\ r.n = writer[p].n /\ r.index = writer[p].index
    BY <1>1, <1>2 DEF Journal!Process
  <1>4. /\ writer' = [writer EXCEPT ![p] = r] /\ UNCHANGED <<dev, made, log>>
        /\ writer[p].pc = "truncate" /\ pages' = Journal!TornIndex
    BY <1>2 DEF Journal!TruncateIndex, Journal!Step
  <1>5. Knows(r)'
    BY <1>1, <1>3, <1>4 DEF Knows, Held, RowsHeld
  <1>6. PageSound'
    BY <1>4, PageFacts DEF PageSound, RowsHeld
  <1> QED
    BY <1>3, <1>4, <1>5, <1>6, IndexKeeps

\* The index that a run writes, and what is left of one that is not written to its end.
LEMMA UpdatedFacts ==
  ASSUME NEW r \in Journal!Process, r.n # 0, Held(r.n), RowsHeld(r.index.rows)
  PROVE  /\ Journal!Updated(r) \in Page /\ Journal!Updated(r).there
         /\ RowsHeld(Journal!Updated(r).rows)
  <1>1. r.index \in Page /\ r.index.there /\ r.n \in 1..MaxSessions
    <2>1. /\ r.index \in {Journal!TornIndex} \cup
               [there : {TRUE}, marked : {TRUE}, total : 0..MaxSessions, table : BOOLEAN,
                rows : Seq(1..MaxSessions)]
          /\ r.n \in 0..MaxSessions
      BY DEF Journal!Process
    <2>2. CASE r.index = Journal!TornIndex
      BY <2>1, <2>2, PageFacts, JournalConstants
    <2>3. r.n \in 1..MaxSessions
      BY <2>1, JournalConstants
    <2>4. CASE r.index \in [there : {TRUE}, marked : {TRUE}, total : 0..MaxSessions, table : BOOLEAN,
                            rows : Seq(1..MaxSessions)]
      <3>1. PICK idx \in [there : {TRUE}, marked : {TRUE}, total : 0..MaxSessions, table : BOOLEAN,
                          rows : Seq(1..MaxSessions)] : idx = r.index
        BY <2>4
      <3>2. idx \in Page
        BY DEF Page
      <3>3. idx.there
        OBVIOUS
      <3> QED
        BY <2>3, <3>1, <3>2, <3>3
    <2> QED
      BY <2>1, <2>2, <2>3, <2>4
  <1>2. PICK n \in 1..MaxSessions : n = r.n
    BY <1>1
  <1>3. PICK old \in Seq(1..MaxSessions) : old = r.index.rows
    BY <1>1 DEF Page
  <1>4. PICK rows : rows = IF r.index.table THEN <<n>> \o old ELSE old
    OBVIOUS
  <1>5. /\ <<n>> \o old \in Seq(1..MaxSessions) /\ Len(<<n>> \o old) = Len(old) + 1
        /\ (<<n>> \o old)[1] = n /\ \A i \in 1..Len(old) : (<<n>> \o old)[i + 1] = old[i]
        /\ Len(old) \in Nat
    OBVIOUS
  <1>6. rows \in Seq(1..MaxSessions)
    BY <1>4, <1>5
  <1>7. RowsHeld(rows)
    <2>1. ASSUME NEW i \in 1..Len(<<n>> \o old) PROVE Held((<<n>> \o old)[i])
      <3>1. CASE i = 1
        BY <1>2, <1>5, <3>1
      <3>2. CASE i # 1
        <4>1. i - 1 \in 1..Len(old) /\ (i - 1) + 1 = i
          BY <1>5, <2>1, <3>2
        <4>2. (<<n>> \o old)[i] = old[i - 1]
          BY <1>5, <4>1
        <4> QED
          BY <1>3, <4>1, <4>2 DEF RowsHeld
      <3> QED
        BY <3>1, <3>2
    <2> QED
      BY <1>3, <1>4, <2>1 DEF RowsHeld
  <1>8. Journal!Updated(r) = [r.index EXCEPT !.total = n, !.rows = rows]
    BY <1>1, <1>2, <1>3, <1>4 DEF Journal!Updated
  <1>9. n \in 0..MaxSessions
    OBVIOUS
  <1> QED
    BY <1>1, <1>6, <1>7, <1>8, <1>9 DEF Page

\* The first elements of a sequence.
LEMMA PrefixFacts ==
  ASSUME NEW S, NEW s \in Seq(S), NEW k \in 0..Len(s)
  PROVE  /\ SubSeq(s, 1, k) \in Seq(S) /\ Len(SubSeq(s, 1, k)) = k
         /\ \A i \in 1..k : SubSeq(s, 1, k)[i] = s[i]
  <1>1. Len(s) \in Nat /\ k \in Nat /\ k <= Len(s) /\ \A i \in 1..k : s[i] \in S
    OBVIOUS
  <1>2. /\ Len(SubSeq(s, 1, k)) = (IF 1 <= k THEN k - 1 + 1 ELSE 0)
        /\ \A i \in 1..(k - 1 + 1) : SubSeq(s, 1, k)[i] = s[1 + i - 1]
    BY <1>1, SubSeqProperties
  <1>3. SubSeq(s, 1, k) \in Seq(S)
    BY <1>1, SubSeqProperties
  <1> QED
    BY <1>1, <1>2, <1>3

\* What is left of an index has some of its rows.
LEMMA CutFacts ==
  ASSUME NEW idx \in Page, idx.there, RowsHeld(idx.rows), NEW cut \in Journal!Cuts(idx)
  PROVE  cut \in Page /\ cut.there /\ RowsHeld(cut.rows)
  <1>1. /\ Journal!TornIndex \in Page /\ Journal!TornIndex.there /\ Journal!TornIndex.rows = <<>>
        /\ idx.total \in 0..MaxSessions /\ idx.rows \in Seq(1..MaxSessions)
    BY PageFacts DEF Page
  <1>2. RowsHeld(<<>>)
    BY DEF RowsHeld
  <1>3. CASE cut = Journal!TornIndex
    BY <1>1, <1>2, <1>3
  <1>4. CASE cut = [Journal!TornIndex EXCEPT !.marked = TRUE]
    BY <1>1, <1>2, <1>4 DEF Page
  <1>5. CASE cut = [Journal!TornIndex EXCEPT !.marked = TRUE, !.total = idx.total]
    <2>1. cut \in Page /\ cut.there /\ cut.rows = <<>>
      BY <1>1, <1>5 DEF Page
    <2> QED
      BY <1>2, <2>1
  <1>6. CASE \E k \in 0..Len(idx.rows) : cut = [idx EXCEPT !.rows = SubSeq(@, 1, k)]
    <2>1. PICK k \in 0..Len(idx.rows) : cut = [idx EXCEPT !.rows = SubSeq(idx.rows, 1, k)]
      BY <1>6
    <2>2. PICK rows : rows = SubSeq(idx.rows, 1, k)
      OBVIOUS
    <2>3. rows \in Seq(1..MaxSessions) /\ Len(rows) = k /\ \A i \in 1..k : rows[i] = idx.rows[i]
      <3>1. PICK S : S = 1..MaxSessions
        OBVIOUS
      <3>2. PICK s \in Seq(S) : s = idx.rows
        BY <1>1, <3>1
      <3>3. k \in 0..Len(s)
        BY <3>2
      <3>4. /\ SubSeq(s, 1, k) \in Seq(S) /\ Len(SubSeq(s, 1, k)) = k
            /\ \A i \in 1..k : SubSeq(s, 1, k)[i] = s[i]
        BY <3>3, PrefixFacts
      <3> QED
        BY <2>2, <3>1, <3>2, <3>4
    <2>4. cut = [idx EXCEPT !.rows = rows]
      BY <2>1, <2>2
    <2>5. RowsHeld(rows)
      BY <1>1, <2>3 DEF RowsHeld
    <2> QED
      BY <2>3, <2>4, <2>5 DEF Page
  <1> QED
    BY <1>3, <1>4, <1>5, <1>6 DEF Journal!Cuts

\* The index is written with the row of a session that is in its file.
LEMMA WriteIndexKeeps ==
  ASSUME JournalInv, NEW p, Procs = {p}, Journal!WriteIndex(p), killed' \in BOOLEAN PROVE JournalKept
  <1>1. PICK r \in Journal!Process : r = writer[p] /\ Knows(r)
    BY WriterFacts
  <1>2. /\ writer' = [writer EXCEPT ![p] = Journal!Idle] /\ UNCHANGED <<dev, made, log>>
        /\ pages' = Journal!Updated(r) /\ r.pc = "write"
    BY <1>1 DEF Journal!WriteIndex, Journal!Return, Journal!Goto
  <1>3. made # {} /\ r.n # 0 /\ Held(r.n) /\ RowsHeld(r.index.rows)
    BY <1>1, <1>2 DEF Knows
  <1>4. Journal!Updated(r) \in Page /\ Journal!Updated(r).there /\ RowsHeld(Journal!Updated(r).rows)
    BY <1>3, UpdatedFacts
  <1>5. PageSound'
    BY <1>2, <1>3, <1>4 DEF PageSound, RowsHeld, Held
  <1> QED
    BY <1>2, <1>5, JournalIdle, IndexKeeps

\* A run is killed: its file holds a part of the session, or the index a part of its rows.
LEMMA JournalCrashKeeps ==
  ASSUME JournalInv, NEW p, Procs = {p}, Journal!Crash(p), killed' \in BOOLEAN PROVE JournalKept
  <1>1. PICK r \in Journal!Process : r = writer[p] /\ Knows(r)
    BY WriterFacts
  <1>2. writer' = [writer EXCEPT ![p] = Journal!Idle] /\ UNCHANGED <<dev, made>> /\ dev \in BOOLEAN
    BY WriterFacts DEF Journal!Crash, Journal!Return, Journal!Goto
  <1>3. CASE UNCHANGED <<log, pages>>
    BY <1>2, <1>3, JournalIdle, JournalGoes
  <1>4. CASE /\ r.pc = "append" /\ r.file # 0 /\ UNCHANGED pages
             /\ \E n \in {0, r.n}, size \in 1..r.size - 1 :
                  log' = [log EXCEPT ![r.file] = Journal!With(@, n, size)]
    <2>1. PICK n \in {0, r.n}, size \in 1..r.size - 1 :
            log' = [log EXCEPT ![r.file] = Journal!With(log[r.file], n, size)]
      BY <1>4
    <2>2. PICK k : k = r.file
      OBVIOUS
    <2>3. PICK whole : whole = r.size
      OBVIOUS
    <2>4. n \in 0..MaxSessions /\ whole \in {0} \cup Sizes /\ Sizes \subseteq Nat
      BY <2>3, JournalConstants DEF Journal!Process
    <2>5. whole \in Nat
      BY <2>4
    <2>6. size \in Nat /\ size <= whole
      BY <2>3, <2>5
    <2>7. k \in made /\ (log[k].entries = <<>> \/ log[k].lines + whole <= MaxLines)
      BY <1>1, <1>4, <2>2, <2>3 DEF Knows
    <2>8. log[k].lines \in Nat /\ MaxLines \in Nat
      BY <2>7, FileFacts, JournalConstants DEF JournalInv, Journal!TypeOK
    <2>9. log[k].entries = <<>> \/ log[k].lines + size <= MaxLines
      BY <2>5, <2>6, <2>7, <2>8
    <2>10. log' = [log EXCEPT ![k] = Journal!With(log[k], n, size)] /\ UNCHANGED <<made, pages>>
      BY <1>2, <1>4, <2>1, <2>2
    <2>11. /\ made' \subseteq Journal!Files /\ log' \in [Journal!Files -> Journal!File]
           /\ \A j \in Journal!Files \ made' : log'[j] = Journal!NoFile
           /\ Grows /\ HasLatest' /\ Journal!WithinLimit' /\ PageSound'
      BY <2>4, <2>6, <2>7, <2>9, <2>10, AppendKeeps
    <2> QED
      BY <1>2, <2>11, JournalIdle, JournalMoves
  <1>5. CASE r.pc = "write" /\ pages' \in Journal!Cuts(Journal!Updated(r)) /\ UNCHANGED log
    <2>1. made # {} /\ r.n # 0 /\ Held(r.n) /\ RowsHeld(r.index.rows)
      BY <1>1, <1>5 DEF Knows
    <2>2. pages' \in Page /\ pages'.there /\ RowsHeld(pages'.rows)
      BY <1>5, <2>1, UpdatedFacts, CutFacts
    <2>3. PageSound'
      BY <1>2, <1>5, <2>1, <2>2 DEF PageSound, RowsHeld, Held
    <2> QED
      BY <1>2, <1>5, <2>3, JournalIdle, IndexKeeps
  <1>6. CASE r.pc = "i_index" /\ pages' \in Journal!Cuts(Journal!NewIndex) /\ UNCHANGED log
    <2>1. made # {}
      BY <1>1, <1>6 DEF Knows
    <2>2. RowsHeld(Journal!NewIndex.rows)
      BY PageFacts DEF RowsHeld
    <2>3. pages' \in Page /\ pages'.there /\ RowsHeld(pages'.rows)
      BY <1>6, <2>2, PageFacts, CutFacts
    <2>4. PageSound'
      BY <1>2, <1>6, <2>1, <2>3 DEF PageSound, RowsHeld, Held
    <2> QED
      BY <1>2, <1>6, <2>4, JournalIdle, IndexKeeps
  <1> QED
    BY <1>1, <1>3, <1>4, <1>5, <1>6 DEF Journal!Crash

\* The .developer file says nothing about the journal.
LEMMA RemoveDeveloperKeeps == ASSUME JournalInv, Journal!RemoveDeveloper PROVE JournalKept
  <1>1. UNCHANGED <<made, log, pages, writer, killed>> /\ dev' = FALSE
    BY DEF Journal!RemoveDeveloper
  <1>2. Journal!TypeOK'
    BY <1>1 DEF JournalInv, Journal!TypeOK
  <1>3. \A p \in Procs : Knows(writer[p])'
    BY <1>1 DEF JournalInv, Knows, Held, RowsHeld
  <1> QED
    BY <1>1, <1>2, <1>3, JournalRests DEF JournalKept, JournalInv

\* Only a crash is noted.
LEMMA CrashKills == ASSUME NEW p, Journal!Crash(p) PROVE killed' = TRUE
  BY Zenon DEF Journal!Crash

LEMMA KilledFacts == ASSUME Journal!Next PROVE killed' = killed \/ killed' = TRUE
  <1>1. ASSUME NEW p, Journal!BeginAdd(p) PROVE killed' = killed
    <2>1. UNCHANGED <<dev, made, log, pages, killed>>
      BY <1>1, Zenon DEF Journal!BeginAdd
    <2> QED
      BY <2>1
  <1>2. ASSUME NEW p, Journal!BeginInit(p) \/ Journal!InitJournal(p) \/ Journal!InitIndex(p)
        PROVE  killed' = killed
    BY <1>2 DEF Journal!BeginInit, Journal!InitJournal, Journal!InitIndex
  <1>3. ASSUME NEW p, \/ Journal!CountSessions(p) \/ Journal!CreateJournal(p)
                     \/ Journal!AppendSession(p) \/ Journal!ReadIndex(p)
                     \/ Journal!TruncateIndex(p) \/ Journal!WriteIndex(p)
        PROVE  killed' = killed
    BY <1>3 DEF Journal!CountSessions, Journal!CreateJournal, Journal!AppendSession,
       Journal!ReadIndex, Journal!TruncateIndex, Journal!WriteIndex
  <1>4. Journal!RemoveDeveloper => killed' = killed
    BY DEF Journal!RemoveDeveloper
  <1> QED
    BY <1>1, <1>2, <1>3, <1>4, CrashKills DEF Journal!Next

\* Every step of the journal keeps the invariant,
LEMMA JournalStep == ASSUME Single, JournalInv, Journal!Next PROVE JournalKept
  <1>1. PICK p : Procs = {p}
    BY DEF Single
  <1>2. CASE Journal!RemoveDeveloper
    BY <1>2, RemoveDeveloperKeeps
  <1>4. killed' \in BOOLEAN
    BY KilledFacts DEF JournalInv, Journal!TypeOK
  <1>3. CASE ~ Journal!RemoveDeveloper
    BY <1>1, <1>3, <1>4, BeginInitKeeps, InitJournalKeeps, InitIndexKeeps, BeginAddKeeps,
       CountSessionsKeeps,
       CreateJournalKeeps, AppendSessionKeeps, ReadIndexKeeps, TruncateIndexKeeps, WriteIndexKeeps,
       JournalCrashKeeps DEF Journal!Next
  <1> QED
    BY <1>2, <1>3

\* it holds at first,
LEMMA JournalInit == ASSUME Journal!Init PROVE JournalInv
  <1>1. /\ dev = FALSE /\ made = {} /\ log = [k \in Journal!Files |-> Journal!NoFile]
        /\ pages = Journal!NoIndex /\ writer = [p \in Procs |-> Journal!Idle] /\ killed = FALSE
    BY DEF Journal!Init
  <1>2. Journal!NoFile \in Journal!File
    BY DEF Journal!NoFile, Journal!File
  <1>3. pages \in Page /\ pages.rows = <<>> /\ ~ pages.marked
    BY <1>1, PageFacts
  <1>4. PageSound
    BY <1>3 DEF PageSound, RowsHeld
  <1>5. Journal!TypeOK
    BY <1>1, <1>2, <1>3, JournalIdle DEF Journal!TypeOK, Page
  <1>6. HasLatest /\ Journal!WithinLimit
    BY <1>1 DEF HasLatest, Journal!WithinLimit
  <1> QED
    BY <1>1, <1>4, <1>5, <1>6, JournalIdle DEF JournalInv

\* and a step of another part of the workflow keeps it.
LEMMA JournalStays == ASSUME JournalInv, UNCHANGED journal PROVE JournalInv'
  <1> USE DEF journal
  <1>1. Journal!TypeOK'
    BY DEF JournalInv, Journal!TypeOK
  <1>2. HasLatest' /\ Journal!WithinLimit'
    BY DEF JournalInv, HasLatest, Journal!WithinLimit, Journal!Lines
  <1>3. PageSound'
    BY DEF JournalInv, PageSound, Held, RowsHeld
  <1>4. \A p \in Procs : Knows(writer[p])'
    BY DEF JournalInv, Knows, Held, RowsHeld
  <1> QED
    BY <1>1, <1>2, <1>3, <1>4 DEF JournalInv

-----------------------------------------------------------------------------
(* The journal, as long as no run is killed *)

\* An index that is whole and has the row of every session.
Intact(idx) == idx.there /\ idx.marked /\ idx.table /\ Journal!RowsOfAll(idx)

\* The journal files hold the sessions that the index counts.
Counted == \E m \in Nat : pages.total = m /\ Journal!Numbered(m)

\* What files and index hold at each step of a run, when none was ever killed: while the
\* session is appended they still count the ones before it, and its file is the last.
Counts(r) ==
  /\ r.pc \in {"idle", "i_journal", "i_index"} => (pages = Journal!NoIndex \/ Intact(pages)) /\ Counted
  /\ r.pc = "idle" /\ dev => pages.there /\ made # {}
  /\ r.pc \in {"count", "create", "append", "read"} => Intact(pages) /\ r.file # 0
  /\ r.pc \in {"count", "create", "append"} => Counted /\ \A j \in made : j <= r.file
  /\ r.pc \in {"create", "append", "read"} => r.n = pages.total + 1
  /\ r.pc = "read" => Journal!Numbered(r.n)
  /\ r.pc \in {"truncate", "write"} =>
       Intact(r.index) /\ r.n = r.index.total + 1 /\ Journal!Numbered(r.n)

\* The inductive invariant, besides JournalInv.
WholeInv == ~ killed => \A p \in Procs : Counts(writer[p])

\* The only process of a workflow decides.
LEMMA WholeMoves ==
  ASSUME JournalInv, NEW p, Procs = {p}, NEW r, writer' = [writer EXCEPT ![p] = r], Counts(r)'
  PROVE  WholeInv'
  <1>1. \A q \in Procs : writer'[q] = r
    BY DEF JournalInv, Journal!TypeOK
  <1> QED
    BY <1>1 DEF WholeInv, Counts

\* Sessions stay numbered when a file without any is added, or nothing is.
LEMMA NumberedStays ==
  ASSUME made \subseteq made', \A k \in made : log'[k].entries = log[k].entries,
         \A k \in made' \ made : log'[k].entries = <<>>, NEW m, Journal!Numbered(m)
  PROVE  Journal!Numbered(m)'
  <1>1. \A k \in made' : \A j \in 1..Len(log'[k].entries) : k \in made
    OBVIOUS
  <1>2. ASSUME NEW n \in 1..m
        PROVE  \E k \in made' : \E j \in 1..Len(log'[k].entries) : log'[k].entries[j] = n
    <2>1. PICK k \in made : \E j \in 1..Len(log[k].entries) : log[k].entries[j] = n
      BY DEF Journal!Numbered, Journal!Entry
    <2> QED
      BY <2>1
  <1>3. ASSUME NEW k \in made', NEW j \in 1..Len(log'[k].entries)
        PROVE  /\ log'[k].entries[j] \in 1..m
               /\ \A l \in made' : \A i \in 1..Len(log'[l].entries) :
                    k < l \/ (k = l /\ j < i) => log'[k].entries[j] < log'[l].entries[i]
    BY <1>1, <1>3 DEF Journal!Numbered, Journal!Entry
  <1> QED
    BY <1>2, <1>3 DEF Journal!Numbered, Journal!Entry

\* What it takes to be numbered after a step.
LEMMA NumberedNext ==
  ASSUME NEW m,
         \A n \in 1..m : \E k \in made' : \E j \in 1..Len(log'[k].entries) : log'[k].entries[j] = n,
         \A k \in made' : \A j \in 1..Len(log'[k].entries) : log'[k].entries[j] \in 1..m,
         \A k \in made' : \A j \in 1..Len(log'[k].entries) :
           \A l \in made' : \A i \in 1..Len(log'[l].entries) :
             k < l \/ (k = l /\ j < i) => log'[k].entries[j] < log'[l].entries[i]
  PROVE  Journal!Numbered(m)'
  BY DEF Journal!Numbered, Journal!Entry

\* They stay so when the next one is appended to the last file.
LEMMA NumberedGrows ==
  ASSUME JournalInv, NEW m \in Nat, Journal!Numbered(m), NEW k \in made, \A j \in made : j <= k,
         NEW size, log' = [log EXCEPT ![k] = Journal!With(log[k], m + 1, size)], made' = made
  PROVE  Journal!Numbered(m + 1)'
  <1> DEFINE old(l) == log[l].entries
             new(l) == log'[l].entries
  <1>1. /\ made \subseteq Journal!Files /\ \A l \in made : l \in Nat
        /\ \A l \in made : old(l) \in Seq(0..MaxSessions)
    BY FileFacts, JournalConstants DEF JournalInv, Journal!TypeOK
  <1>2. PICK s \in Seq(0..MaxSessions) : s = old(k)
    BY <1>1
  <1>3. PICK t : t = Append(s, m + 1)
    OBVIOUS
  <1>4. new(k) = t /\ \A l \in made : l # k => new(l) = old(l)
    BY <1>1, <1>2, <1>3 DEF JournalInv, Journal!TypeOK, Journal!With
  <1>5. /\ Len(t) = Len(s) + 1 /\ t[Len(s) + 1] = m + 1 /\ Len(s) \in Nat
        /\ \A i \in 1..Len(s) : t[i] = s[i]
    BY <1>3
  <1>6. /\ \A n \in 1..m : \E l \in made : \E j \in 1..Len(old(l)) : old(l)[j] = n
        /\ \A l \in made : \A j \in 1..Len(old(l)) :
             /\ old(l)[j] \in 1..m
             /\ \A h \in made : \A i \in 1..Len(old(h)) :
                  l < h \/ (l = h /\ j < i) => old(l)[j] < old(h)[i]
    BY DEF Journal!Numbered, Journal!Entry
  <1> HIDE DEF old, new
  \* An entry is one of before, at its place, or the new one at the end of the last file.
  <1>7. ASSUME NEW l \in made, NEW j \in 1..Len(new(l))
        PROVE  \/ j \in 1..Len(old(l)) /\ new(l)[j] = old(l)[j]
               \/ l = k /\ j = Len(s) + 1 /\ new(l)[j] = m + 1
    <2>1. CASE l # k
      BY <1>4, <1>7, <2>1
    <2>2. CASE l = k
      <3>1. j \in 1..(Len(s) + 1)
        BY <1>4, <1>5, <1>7, <2>2
      <3> QED
        BY <1>2, <1>4, <1>5, <2>2, <3>1
    <2> QED
      BY <2>1, <2>2
  <1>8. ASSUME NEW l \in made, NEW j \in 1..Len(old(l))
        PROVE  j \in 1..Len(new(l)) /\ new(l)[j] = old(l)[j]
    <2>1. CASE l # k
      BY <1>4, <1>8, <2>1
    <2>2. CASE l = k
      <3>1. j \in 1..Len(s) /\ j \in 1..(Len(s) + 1)
        BY <1>2, <1>5, <1>8, <2>2
      <3> QED
        BY <1>2, <1>4, <1>5, <2>2, <3>1
    <2> QED
      BY <2>1, <2>2
  <1>9. ASSUME NEW n \in 1..(m + 1)
        PROVE  \E l \in made : \E j \in 1..Len(new(l)) : new(l)[j] = n
    <2>1. CASE n = m + 1
      BY <1>4, <1>5, <2>1
    <2>2. CASE n # m + 1
      <3>1. n \in 1..m
        BY <1>9, <2>2
      <3>2. PICK l \in made : \E j \in 1..Len(old(l)) : old(l)[j] = n
        BY <1>6, <3>1
      <3> QED
        BY <1>8, <3>2
    <2> QED
      BY <2>1, <2>2
  <1>10. ASSUME NEW l \in made, NEW j \in 1..Len(new(l)) PROVE new(l)[j] \in 1..(m + 1)
    <2>1. new(l)[j] \in 1..m \/ new(l)[j] = m + 1
      BY <1>6, <1>7, <1>10
    <2> QED
      BY <2>1
  <1>11. ASSUME NEW l \in made, NEW j \in 1..Len(new(l)),
                NEW h \in made, NEW i \in 1..Len(new(h)), l < h \/ (l = h /\ j < i)
         PROVE  new(l)[j] < new(h)[i]
    <2>1. CASE l = k /\ j = Len(s) + 1
      <3>1. h <= k /\ h \in Nat /\ k \in Nat
        BY <1>1
      <3>2. h = k /\ j < i
        BY <1>11, <2>1, <3>1
      <3>3. i \in 1..(Len(s) + 1)
        BY <1>4, <1>5, <1>11, <3>2
      <3> QED
        BY <1>5, <2>1, <3>2, <3>3
    <2>2. CASE j \in 1..Len(old(l)) /\ new(l)[j] = old(l)[j]
      <3>1. PICK x \in 1..m : x = new(l)[j]
        BY <1>6, <1>11, <2>2
      <3>2. CASE new(h)[i] = m + 1
        BY <3>1, <3>2
      <3>3. CASE i \in 1..Len(old(h)) /\ new(h)[i] = old(h)[i]
        BY <1>6, <1>11, <2>2, <3>3
      <3> QED
        BY <1>7, <1>11, <3>2, <3>3
    <2> QED
      BY <1>7, <1>11, <2>1, <2>2
  <1>12. \A n \in 1..(m + 1) : \E l \in made' : \E j \in 1..Len(log'[l].entries) : log'[l].entries[j] = n
    BY <1>9 DEF new
  <1>13. \A l \in made' : \A j \in 1..Len(log'[l].entries) : log'[l].entries[j] \in 1..(m + 1)
    BY <1>10 DEF new
  <1>14. \A l \in made' : \A j \in 1..Len(log'[l].entries) :
           \A h \in made' : \A i \in 1..Len(log'[h].entries) :
             l < h \/ (l = h /\ j < i) => log'[l].entries[j] < log'[h].entries[i]
    BY <1>11 DEF new
  <1> QED
    BY <1>12, <1>13, <1>14, NumberedNext

\* A step that leaves files and index alone leaves what they count alone.
LEMMA CountedStays ==
  ASSUME UNCHANGED <<made, log, pages>>
  PROVE  /\ Counted => Counted'
         /\ \A m : Journal!Numbered(m) => Journal!Numbered(m)'
         /\ Intact(pages) => Intact(pages)'
  <1>1. ASSUME NEW m, Journal!Numbered(m) PROVE Journal!Numbered(m)'
    BY <1>1, NumberedStays
  <1> QED
    BY <1>1 DEF Counted, Intact, Journal!RowsOfAll

\* init_developer begins, and makes the first file,
LEMMA BeginInitCounts ==
  ASSUME JournalInv, NEW p, Procs = {p}, Counts(writer[p]), Journal!BeginInit(p)
  PROVE  WholeInv'
  <1>1. PICK r : r = [writer[p] EXCEPT !.pc = "i_journal"]
    OBVIOUS
  <1>2. writer' = [writer EXCEPT ![p] = r] /\ UNCHANGED <<made, log, pages>> /\ writer[p].pc = "idle"
    BY <1>1 DEF Journal!BeginInit, Journal!Step
  <1>3. r.pc = "i_journal"
    BY <1>1, WriterFacts DEF Journal!Process
  <1>4. (pages = Journal!NoIndex \/ Intact(pages)) /\ Counted
    BY <1>2 DEF Counts
  <1>5. Counts(r)'
    BY <1>2, <1>3, <1>4, CountedStays DEF Counts
  <1> QED
    BY <1>2, <1>5, WholeMoves

LEMMA InitJournalCounts ==
  ASSUME JournalInv, NEW p, Procs = {p}, Counts(writer[p]), Journal!InitJournal(p)
  PROVE  WholeInv'
  <1>1. PICK r : r = [writer[p] EXCEPT !.pc = "i_index"]
    OBVIOUS
  <1>2. /\ writer' = [writer EXCEPT ![p] = r] /\ UNCHANGED <<dev, pages>> /\ writer[p].pc = "i_journal"
        /\ IF 1 \in made THEN UNCHANGED <<made, log>>
                         ELSE made' = made \cup {1} /\ log' = [log EXCEPT ![1] = Journal!NewFile]
    BY <1>1 DEF Journal!InitJournal, Journal!Step
  <1>3. r.pc = "i_index"
    BY <1>1, WriterFacts DEF Journal!Process
  <1>4. PICK m \in Nat : pages.total = m /\ Journal!Numbered(m)
    BY <1>2 DEF Counts, Counted
  <1>5. made \subseteq Journal!Files /\ log \in [Journal!Files -> Journal!File] /\ 1 \in Journal!Files
    BY WriterFacts, JournalConstants
  <1>6. /\ made \subseteq made' /\ \A k \in made : log'[k].entries = log[k].entries
        /\ \A k \in made' \ made : log'[k].entries = <<>>
    BY <1>2, <1>5 DEF Journal!NewFile
  <1>7. Journal!Numbered(m)'
    BY <1>4, <1>6, NumberedStays
  <1>8. Counted'
    BY <1>2, <1>4, <1>7 DEF Counted
  <1>9. (pages = Journal!NoIndex \/ Intact(pages))'
    BY <1>2 DEF Counts, Intact, Journal!RowsOfAll
  <1>10. Counts(r)'
    BY <1>3, <1>8, <1>9 DEF Counts
  <1> QED
    BY <1>2, <1>10, WholeMoves

\* and the index, which counts none.
LEMMA InitIndexCounts ==
  ASSUME JournalInv, NEW p, Procs = {p}, Counts(writer[p]), Journal!InitIndex(p)
  PROVE  WholeInv'
  <1>1. /\ writer' = [writer EXCEPT ![p] = Journal!Idle] /\ UNCHANGED <<dev, made, log>>
        /\ pages' = IF pages.there THEN pages ELSE Journal!NewIndex
        /\ writer[p].pc = "i_index"
    BY DEF Journal!InitIndex, Journal!Return, Journal!Goto
  <1>2. made # {}
    BY <1>1, WriterFacts DEF Knows
  <1>3. PICK m \in Nat : pages.total = m /\ Journal!Numbered(m)
    BY <1>1 DEF Counts, Counted
  <1>4. Journal!Numbered(m)'
    BY <1>1, <1>3, NumberedStays
  <1>5. pages = Journal!NoIndex \/ Intact(pages)
    BY <1>1 DEF Counts
  <1>6. CASE pages.there
    <2>1. pages' = pages /\ Intact(pages)
      BY <1>1, <1>5, <1>6 DEF Journal!NoIndex
    <2>2. Intact(pages)' /\ pages'.there /\ pages'.total = m
      BY <1>3, <1>6, <2>1 DEF Intact, Journal!RowsOfAll
    <2> QED
      BY <1>1, <1>2, <1>4, <2>2, JournalIdle, WholeMoves DEF Counts, Counted
  <1>7. CASE ~ pages.there
    <2>1. pages = Journal!NoIndex
      BY <1>5, <1>7 DEF Intact
    <2>2. m = 0 /\ pages' = Journal!NewIndex
      BY <1>1, <1>3, <1>7, <2>1 DEF Journal!NoIndex
    <2>3. /\ Journal!NewIndex.there /\ Journal!NewIndex.marked /\ Journal!NewIndex.table
          /\ Journal!NewIndex.total = 0 /\ Journal!NewIndex.rows = <<>>
      BY DEF Journal!NewIndex
    <2>4. Intact(pages)' /\ pages'.there /\ pages'.total = m
      BY <2>2, <2>3 DEF Intact, Journal!RowsOfAll
    <2> QED
      BY <1>1, <1>2, <1>4, <2>4, JournalIdle, WholeMoves DEF Counts, Counted
  <1> QED
    BY <1>6, <1>7

\* The last file, or one after it, is chosen,
LEMMA BeginAddCounts ==
  ASSUME JournalInv, NEW p, Procs = {p}, Counts(writer[p]), Journal!BeginAdd(p)
  PROVE  WholeInv'
  <1>1. PICK size \in Sizes :
          /\ writer[p].pc = "idle" /\ dev /\ UNCHANGED <<dev, made, log, pages, killed>>
          /\ writer' = [writer EXCEPT ![p] =
               [Journal!Idle EXCEPT !.pc = "count", !.size = size,
                  !.file = IF Journal!Fits(size) THEN Journal!Latest ELSE Journal!Latest + 1]]
    BY DEF Journal!BeginAdd, Journal!Goto
  <1>2. PICK file : file = IF Journal!Fits(size) THEN Journal!Latest ELSE Journal!Latest + 1
    OBVIOUS
  <1>3. PICK r : r = [Journal!Idle EXCEPT !.pc = "count", !.size = size, !.file = file]
    OBVIOUS
  <1>4. r.pc = "count" /\ r.file = file
    BY <1>3 DEF Journal!Idle
  <1>5. writer' = [writer EXCEPT ![p] = r]
    BY <1>1, <1>2, <1>3
  <1>6. made # {} /\ Intact(pages) /\ Counted
    BY <1>1 DEF Counts, Journal!NoIndex
  <1>7. PICK latest \in 0..MaxFiles : latest = Journal!Latest
    BY LatestFacts
  <1>10. /\ (latest = 0 => made = {}) /\ \A j \in made : j <= latest /\ j \in Nat
         /\ MaxFiles \in Nat
    BY <1>7, LatestFacts, WriterFacts, JournalConstants
  <1>11. file = latest \/ file = latest + 1
    BY <1>2, <1>7
  <1>12. latest \in Nat /\ latest # 0
    BY <1>6, <1>10
  <1>8. file # 0 /\ \A j \in made : j <= file
    BY <1>10, <1>11, <1>12
  <1>9. Counts(r)'
    BY <1>1, <1>4, <1>6, <1>8, CountedStays DEF Counts
  <1> QED
    BY <1>5, <1>9, WholeMoves

\* the number is one more than the index counts,
LEMMA CountSessionsCounts ==
  ASSUME JournalInv, NEW p, Procs = {p}, Counts(writer[p]), Journal!CountSessions(p)
  PROVE  WholeInv'
  <1>1. PICK pc \in {"append", "create"} :
          pc = IF writer[p].file \in made \cup {0} THEN "append" ELSE "create"
    OBVIOUS
  <1>2. PICK n : n = pages.total + 1
    OBVIOUS
  <1>3. PICK r : r = [writer[p] EXCEPT !.n = n, !.pc = pc]
    OBVIOUS
  <1>4. /\ writer' = [writer EXCEPT ![p] = r] /\ UNCHANGED <<dev, made, log, pages>>
        /\ writer[p].pc = "count"
    BY <1>1, <1>2, <1>3 DEF Journal!CountSessions, Journal!Goto
  <1>5. r.pc = pc /\ r.n = n /\ r.file = writer[p].file
    BY <1>3, WriterFacts DEF Journal!Process
  <1>6. Intact(pages) /\ writer[p].file # 0 /\ Counted /\ \A j \in made : j <= writer[p].file
    BY <1>4 DEF Counts
  <1>7. Counts(r)'
    BY <1>2, <1>4, <1>5, <1>6, CountedStays DEF Counts
  <1> QED
    BY <1>4, <1>7, WholeMoves

\* a new file becomes the last,
LEMMA CreateJournalCounts ==
  ASSUME JournalInv, NEW p, Procs = {p}, Counts(writer[p]), Journal!CreateJournal(p)
  PROVE  WholeInv'
  <1>1. PICK r : r = [writer[p] EXCEPT !.pc = "append"]
    OBVIOUS
  <1>2. PICK k : k = writer[p].file
    OBVIOUS
  <1>3. /\ writer' = [writer EXCEPT ![p] = r] /\ UNCHANGED <<dev, pages>> /\ writer[p].pc = "create"
        /\ made' = made \cup {k} /\ log' = [log EXCEPT ![k] = Journal!NewFile]
    BY <1>1, <1>2 DEF Journal!CreateJournal, Journal!Step
  <1>4. r.pc = "append" /\ r.file = k /\ r.n = writer[p].n
    BY <1>1, <1>2, WriterFacts DEF Journal!Process
  <1>5. k \in Journal!Files \ made
    BY <1>2, <1>3, WriterFacts DEF Knows
  <1>6. /\ Intact(pages) /\ k # 0 /\ \A j \in made : j <= k
        /\ writer[p].n = pages.total + 1
    BY <1>2, <1>3 DEF Counts
  <1>7. PICK m \in Nat : pages.total = m /\ Journal!Numbered(m)
    BY <1>3 DEF Counts, Counted
  <1>8. made \subseteq Journal!Files /\ log \in [Journal!Files -> Journal!File] /\ Journal!Files \subseteq Nat
    BY WriterFacts, JournalConstants
  <1>9. /\ made \subseteq made' /\ \A j \in made : log'[j].entries = log[j].entries
        /\ \A j \in made' \ made : log'[j].entries = <<>>
    BY <1>3, <1>5, <1>8 DEF Journal!NewFile
  <1>10. Journal!Numbered(m)'
    BY <1>7, <1>9, NumberedStays
  <1>11. Counted'
    BY <1>3, <1>7, <1>10 DEF Counted
  <1>12. Intact(pages)' /\ r.n = pages'.total + 1
    BY <1>3, <1>4, <1>6 DEF Intact, Journal!RowsOfAll
  <1>13. \A j \in made' : j <= k
    BY <1>3, <1>5, <1>6, <1>8
  <1>14. Counts(r)'
    BY <1>4, <1>6, <1>11, <1>12, <1>13 DEF Counts
  <1> QED
    BY <1>3, <1>14, WholeMoves

\* and the session goes to the end of it.
LEMMA AppendSessionCounts ==
  ASSUME JournalInv, NEW p, Procs = {p}, Counts(writer[p]), Journal!AppendSession(p)
  PROVE  WholeInv'
  <1>1. PICK r : r = [writer[p] EXCEPT !.pc = "read"]
    OBVIOUS
  <1>2. PICK k : k = writer[p].file
    OBVIOUS
  <1>3. PICK size : size = writer[p].size
    OBVIOUS
  <1>4. /\ writer' = [writer EXCEPT ![p] = r] /\ UNCHANGED <<dev, made, pages>> /\ writer[p].pc = "append"
        /\ log' = IF k = 0 THEN log
                  ELSE [log EXCEPT ![k] = Journal!With(log[k], writer[p].n, size)]
    BY <1>1, <1>2, <1>3 DEF Journal!AppendSession, Journal!Step
  <1>5. r.pc = "read" /\ r.file = k /\ r.n = writer[p].n
    BY <1>1, <1>2, WriterFacts DEF Journal!Process
  <1>6. /\ Intact(pages) /\ k # 0 /\ \A j \in made : j <= k
        /\ writer[p].n = pages.total + 1
    BY <1>2, <1>4 DEF Counts
  <1>7. k \in made
    BY <1>2, <1>4, <1>6, WriterFacts DEF Knows
  <1>8. PICK m \in Nat : pages.total = m /\ Journal!Numbered(m)
    BY <1>4 DEF Counts, Counted
  <1>9. log' = [log EXCEPT ![k] = Journal!With(log[k], m + 1, size)] /\ made' = made
    BY <1>4, <1>6, <1>8
  <1>10. Journal!Numbered(m + 1)'
    BY <1>6, <1>7, <1>8, <1>9, NumberedGrows
  <1>11. Intact(pages)' /\ r.n = pages'.total + 1 /\ r.n = m + 1
    BY <1>4, <1>5, <1>6, <1>8 DEF Intact, Journal!RowsOfAll
  <1>12. Journal!Numbered(r.n)'
    BY <1>10, <1>11
  <1>13. Counts(r)'
    BY <1>5, <1>6, <1>11, <1>12 DEF Counts
  <1> QED
    BY <1>4, <1>13, WholeMoves

\* The index that is read counts one less than there are,
LEMMA ReadIndexCounts ==
  ASSUME JournalInv, NEW p, Procs = {p}, Counts(writer[p]), Journal!ReadIndex(p)
  PROVE  WholeInv'
  <1>1. PICK r : r = [writer[p] EXCEPT !.pc = "truncate", !.index = pages]
    OBVIOUS
  <1>2. /\ UNCHANGED <<dev, made, log, pages>> /\ writer[p].pc = "read"
        /\ IF pages.marked THEN writer' = [writer EXCEPT ![p] = r]
                           ELSE writer' = [writer EXCEPT ![p] = Journal!Idle]
    BY <1>1 DEF Journal!ReadIndex, Journal!Goto, Journal!Return
  <1>3. Intact(pages) /\ writer[p].n = pages.total + 1 /\ Journal!Numbered(writer[p].n)
    BY <1>2 DEF Counts
  <1>4. writer' = [writer EXCEPT ![p] = r]
    BY <1>2, <1>3 DEF Intact
  <1>5. r.pc = "truncate" /\ r.index = pages /\ r.n = writer[p].n
    BY <1>1, WriterFacts DEF Journal!Process
  <1>6. PICK n : n = r.n /\ Journal!Numbered(n)
    BY <1>3, <1>5
  <1>7. Journal!Numbered(n)'
    BY <1>2, <1>6, CountedStays
  <1>8. Intact(r.index) /\ r.n = r.index.total + 1
    BY <1>3, <1>5
  <1>9. Counts(r)'
    BY <1>5, <1>6, <1>7, <1>8 DEF Counts, Intact, Journal!RowsOfAll
  <1> QED
    BY <1>4, <1>9, WholeMoves

\* and is written back with one more, and its row.
LEMMA TruncateIndexCounts ==
  ASSUME JournalInv, NEW p, Procs = {p}, Counts(writer[p]), Journal!TruncateIndex(p)
  PROVE  WholeInv'
  <1>1. PICK r : r = [writer[p] EXCEPT !.pc = "write"]
    OBVIOUS
  <1>2. /\ writer' = [writer EXCEPT ![p] = r] /\ UNCHANGED <<dev, made, log>>
        /\ writer[p].pc = "truncate"
    BY <1>1 DEF Journal!TruncateIndex, Journal!Step
  <1>3. r.pc = "write" /\ r.index = writer[p].index /\ r.n = writer[p].n
    BY <1>1, WriterFacts DEF Journal!Process
  <1>4. Intact(r.index) /\ r.n = r.index.total + 1 /\ Journal!Numbered(r.n)
    BY <1>2, <1>3 DEF Counts
  <1>5. PICK n : n = r.n /\ Journal!Numbered(n)
    BY <1>4
  <1>6. Journal!Numbered(n)'
    BY <1>2, <1>5, NumberedStays
  <1>7. Counts(r)'
    BY <1>3, <1>4, <1>5, <1>6 DEF Counts, Intact, Journal!RowsOfAll
  <1> QED
    BY <1>2, <1>7, WholeMoves

LEMMA WriteIndexCounts ==
  ASSUME JournalInv, NEW p, Procs = {p}, Counts(writer[p]), Journal!WriteIndex(p)
  PROVE  WholeInv'
  <1>1. PICK r \in Journal!Process : r = writer[p] /\ Knows(r)
    BY WriterFacts
  <1>2. /\ writer' = [writer EXCEPT ![p] = Journal!Idle] /\ UNCHANGED <<dev, made, log>>
        /\ pages' = Journal!Updated(r) /\ r.pc = "write"
    BY <1>1 DEF Journal!WriteIndex, Journal!Return, Journal!Goto
  <1>3. Intact(r.index) /\ r.n = r.index.total + 1 /\ Journal!Numbered(r.n) /\ made # {}
    BY <1>1, <1>2 DEF Counts, Knows
  <1>4. PICK total : total = r.index.total
    OBVIOUS
  <1>5. /\ r.index.rows \in Seq(1..MaxSessions) /\ total \in Nat /\ r.index.there /\ r.index.table
        /\ r.index \in Page /\ r.n = total + 1
    <2>1. r.index \in {Journal!TornIndex} \cup
            [there : {TRUE}, marked : {TRUE}, total : 0..MaxSessions, table : BOOLEAN,
             rows : Seq(1..MaxSessions)]
      BY DEF Journal!Process
    <2>2. r.index \in [there : {TRUE}, marked : {TRUE}, total : 0..MaxSessions, table : BOOLEAN,
                       rows : Seq(1..MaxSessions)]
      BY <1>3, <2>1, PageFacts DEF Intact
    <2>3. PICK idx \in [there : {TRUE}, marked : {TRUE}, total : 0..MaxSessions, table : BOOLEAN,
                        rows : Seq(1..MaxSessions)] : idx = r.index
      BY <2>2
    <2>4. idx \in Page
      BY DEF Page
    <2>5. idx.rows \in Seq(1..MaxSessions) /\ idx.total \in 0..MaxSessions
      OBVIOUS
    <2>6. idx.total \in Nat
      BY <2>5, JournalConstants
    <2> QED
      BY <1>3, <1>4, <2>3, <2>4, <2>5, <2>6 DEF Intact
  <1>6. PICK old \in Seq(1..MaxSessions) : old = r.index.rows
    BY <1>5
  <1>7. PICK n \in Nat : n = r.n
    BY <1>5
  <1>8. PICK rows : rows = <<n>> \o old
    OBVIOUS
  <1>9. /\ Len(old) = total /\ \A i \in 1..total : old[i] = total + 1 - i
    BY <1>3, <1>4, <1>6 DEF Intact, Journal!RowsOfAll
  <1>10. /\ Len(<<n>> \o old) = Len(old) + 1 /\ (<<n>> \o old)[1] = n
         /\ \A i \in 1..Len(old) : (<<n>> \o old)[i + 1] = old[i]
    OBVIOUS
  <1>11. ASSUME NEW i \in 1..n PROVE rows[i] = n + 1 - i
    <2>1. CASE i = 1
      BY <1>8, <1>10, <2>1
    <2>2. CASE i # 1
      <3>1. i - 1 \in 1..total /\ (i - 1) + 1 = i
        BY <1>5, <1>7, <2>2
      <3>2. rows[i] = old[i - 1]
        BY <1>8, <1>9, <1>10, <3>1
      <3> QED
        BY <1>5, <1>7, <1>9, <3>1, <3>2
    <2> QED
      BY <2>1, <2>2
  <1>12. Len(rows) = n
    BY <1>5, <1>7, <1>8, <1>9, <1>10
  <1>13. pages' = [r.index EXCEPT !.total = n, !.rows = rows]
    BY <1>2, <1>5, <1>6, <1>7, <1>8 DEF Journal!Updated
  <1>14. /\ pages'.there /\ pages'.marked /\ pages'.table /\ pages'.total = n /\ pages'.rows = rows
    BY <1>3, <1>5, <1>13 DEF Page, Intact
  <1>15. Intact(pages)'
    BY <1>11, <1>12, <1>14 DEF Intact, Journal!RowsOfAll
  <1>16. Journal!Numbered(n)'
    BY <1>2, <1>3, <1>7, NumberedStays
  <1>17. Counted'
    BY <1>14, <1>16 DEF Counted
  <1>18. Counts(Journal!Idle)'
    BY <1>2, <1>3, <1>14, <1>15, <1>17, JournalIdle DEF Counts
  <1> QED
    BY <1>2, <1>18, WholeMoves

\* Whether there is a .developer file is told only to a run that begins.
LEMMA RemoveDeveloperCounts ==
  ASSUME JournalInv, NEW p, Procs = {p}, Counts(writer[p]), Journal!RemoveDeveloper
  PROVE  WholeInv'
  <1>1. UNCHANGED <<made, log, pages, writer>> /\ dev' = FALSE
    BY DEF Journal!RemoveDeveloper
  <1>2. PICK r \in Journal!Process : r = writer[p]
    BY WriterFacts
  <1>3. writer' = [writer EXCEPT ![p] = r]
    BY <1>1, <1>2, WriterFacts
  <1>4. Counts(r)'
    BY <1>1, <1>2, CountedStays DEF Counts, Intact, Journal!RowsOfAll
  <1> QED
    BY <1>3, <1>4, WholeMoves

\* Every step keeps what is counted,
LEMMA WholeStep == ASSUME Single, JournalInv, WholeInv, Journal!Next PROVE WholeInv'
  <1>1. PICK p : Procs = {p}
    BY DEF Single
  <1>2. CASE killed' = TRUE
    BY <1>2 DEF WholeInv
  <1>3. CASE ~ killed /\ killed' # TRUE
    <2>1. Counts(writer[p])
      BY <1>1, <1>3 DEF WholeInv
    <2>2. ~ Journal!Crash(p)
      BY <1>3, CrashKills
    <2> QED
      BY <1>1, <2>1, <2>2, BeginInitCounts, InitJournalCounts, InitIndexCounts, BeginAddCounts,
         CountSessionsCounts, CreateJournalCounts, AppendSessionCounts, ReadIndexCounts,
         TruncateIndexCounts, WriteIndexCounts, RemoveDeveloperCounts DEF Journal!Next
  <1>4. killed' = killed \/ killed' = TRUE
    BY KilledFacts
  <1>5. killed \in BOOLEAN
    BY DEF JournalInv, Journal!TypeOK
  <1> QED
    BY <1>2, <1>3, <1>4, <1>5

\* nothing is counted at first,
LEMMA WholeInit == ASSUME Journal!Init PROVE WholeInv
  <1>1. /\ dev = FALSE /\ made = {} /\ pages = Journal!NoIndex
        /\ writer = [p \in Procs |-> Journal!Idle]
    BY DEF Journal!Init
  <1>2. pages.total = 0
    BY <1>1 DEF Journal!NoIndex
  <1>3. Journal!Numbered(0)
    BY <1>1 DEF Journal!Numbered
  <1>4. Counted
    BY <1>2, <1>3 DEF Counted
  <1>5. Counts(Journal!Idle)
    BY <1>1, <1>4, JournalIdle DEF Counts
  <1> QED
    BY <1>1, <1>5 DEF WholeInv

\* the other parts leave it alone,
LEMMA WholeStays == ASSUME JournalInv, WholeInv, UNCHANGED journal PROVE WholeInv'
  <1>1. UNCHANGED <<dev, made, log, pages, writer, killed>>
    BY DEF journal
  <1>2. ASSUME NEW p \in Procs, Counts(writer[p]) PROVE Counts(writer[p])'
    <2>1. PICK r : r = writer[p]
      OBVIOUS
    <2>2. Counts(r)'
      BY <1>1, <1>2, <2>1, CountedStays DEF Counts, Intact, Journal!RowsOfAll
    <2> QED
      BY <1>1, <2>1, <2>2 DEF Counts
  <1> QED
    BY <1>1, <1>2 DEF WholeInv

\* and between two runs it says that nothing is missing.
LEMMA WholeComplete == ASSUME Single, JournalInv, WholeInv PROVE Journal!Complete
  <1> SUFFICES ASSUME ~ killed, \A p \in Procs : writer[p].pc = "idle"
               PROVE  Journal!RowsOfAll(pages) /\ Journal!Numbered(pages.total)
    BY DEF Journal!Complete
  <1>1. PICK p : Procs = {p}
    BY DEF Single
  <1>2. (pages = Journal!NoIndex \/ Intact(pages)) /\ Counted
    BY <1>1 DEF WholeInv, Counts
  <1>3. Journal!RowsOfAll(Journal!NoIndex)
    BY DEF Journal!RowsOfAll, Journal!NoIndex
  <1> QED
    BY <1>2, <1>3 DEF Counted, Intact

-----------------------------------------------------------------------------
(* The parts in the workflow *)

\* The invariants, as those of a workflow that may take another part.
IdentityPart == part = "identity" => IdentityInv

\* The keys are sound in every workflow,
LEMMA IdentityPartHolds == Workflow => []IdentityPart
  <1>1. Start => IdentityPart
    BY IdentityInit DEF Start, IdentityPart
  <1>2. IdentityPart /\ [StepPart]_all => IdentityPart'
    BY IdentityStep, IdentityStays
    DEF IdentityPart, StepPart, StepStore, StepCommit, StepJournal, StepIdentity, all
  <1> QED
    BY <1>1, <1>2, PTL DEF Workflow

\* session_context.py: a command acts on the session of its own window.
THEOREM OwnSession == Workflow => []RightSession
  <1>1. IdentityPart => RightSession
    BY DEF IdentityPart, IdentityInv, RightSession
  <1> QED
    BY <1>1, IdentityPartHolds, PTL

\* inject-workflow-state.py: a hook does not announce another window's task.
THEOREM OwnTask == Workflow => []RightTask
  <1>1. IdentityPart => RightTask
    BY DEF IdentityPart, IdentityInv, RightTask
  <1> QED
    BY <1>1, IdentityPartHolds, PTL

JournalPart == part = "journal" => JournalInv

\* and the journal is in those with one run at a time.
LEMMA JournalPartHolds == ASSUME Single PROVE Workflow => []JournalPart
  <1>1. Start => JournalPart
    BY JournalInit DEF Start, JournalPart
  <1>2. JournalPart /\ [StepPart]_all => JournalPart'
    <2> SUFFICES ASSUME JournalPart, [StepPart]_all, part' = "journal" PROVE JournalInv'
      BY DEF JournalPart
    <2>1. CASE StepJournal
      BY <2>1, JournalStep DEF StepJournal, JournalPart, JournalKept
    <2>2. CASE ~ StepJournal
      <3>1. part = "journal" /\ UNCHANGED journal
        BY <2>2 DEF StepPart, StepStore, StepCommit, StepIdentity, all
      <3> QED
        BY <3>1, JournalStays DEF JournalPart
    <2> QED
      BY <2>1, <2>2
  <1> QED
    BY <1>1, <1>2, PTL DEF Workflow

\* Neither does what is counted, as long as nothing is killed.
WholePart == part = "journal" => WholeInv

LEMMA WholePartHolds == ASSUME Single PROVE Workflow => []WholePart
  <1>1. Start => WholePart
    BY WholeInit DEF Start, WholePart
  <1>2. JournalPart /\ WholePart /\ [StepPart]_all => WholePart'
    <2> SUFFICES ASSUME JournalPart, WholePart, [StepPart]_all, part' = "journal" PROVE WholeInv'
      BY DEF WholePart
    <2>1. CASE StepJournal
      BY <2>1, WholeStep DEF StepJournal, JournalPart, WholePart
    <2>2. CASE ~ StepJournal
      <3>1. part = "journal" /\ UNCHANGED journal
        BY <2>2 DEF StepPart, StepStore, StepCommit, StepIdentity, all
      <3> QED
        BY <3>1, WholeStays DEF JournalPart, WholePart
    <2> QED
      BY <2>1, <2>2
  <1> QED
    BY <1>1, <1>2, JournalPartHolds, PTL DEF Workflow

\* add_session.py, one run at a time: no journal file outgrows the limit but by a single
\* session, the session of every row of index.md can be read in a journal file, and as
\* long as no run was killed the files, the rows and the total tell of the same sessions.
THEOREM RowsHaveEntries == ASSUME Single PROVE Workflow => []JournalSound
  <1>1. JournalPart => (part = "journal" => Journal!WithinLimit /\ Journal!RowHasEntry)
    BY DEF JournalPart, Journal!RowHasEntry, JournalInv, PageSound, RowsHeld, Held
  <1>2. JournalPart /\ WholePart => (part = "journal" => Journal!Complete)
    BY WholeComplete DEF JournalPart, WholePart
  <1>3. JournalPart /\ WholePart => JournalSound
    BY <1>1, <1>2 DEF JournalSound, Journal!JournalSound
  <1> QED
    BY <1>3, JournalPartHolds, WholePartHolds, PTL

\* The task store runs by itself in the workflow: what is proved of its behaviours
\* holds there.
THEOREM StoreRuns == Workflow => Spec
  <1>1. Start => Init
    BY DEF Start
  <1>2. [StepPart]_all => [Next]_vars
    BY DEF StepPart, StepStore, StepCommit, StepJournal, StepIdentity, all, store
  <1> QED
    BY <1>1, <1>2, PTL DEF Workflow, Spec

\* Every variable of the four modules keeps its type, the journal's with one run at a time.
THEOREM PartsTyped == ASSUME Single PROVE Workflow => []PartTypes
  <1>1. TypeOK /\ CommitInv /\ JournalPart /\ IdentityPart => PartTypes
    BY DEF PartTypes, CommitInv, Committing, CommitBase, Typed, JournalPart, JournalInv,
       IdentityPart,
       IdentityInv
  <1> QED
    BY <1>1, StoreRuns, TypesKept, CommitHolds, JournalPartHolds, IdentityPartHolds, PTL
=============================================================================
