------------------------------- MODULE MCRules -------------------------------
(***************************************************************************)
(* The rules of the relay and of the scripts that decide without changing  *)
(* anything, over bounded inputs: a behaviour takes one input of one rule. *)
(***************************************************************************)
EXTENDS Rules, TLC

Config == INSTANCE ConfigYaml
Guide == INSTANCE AgentGuide

\* Three spellings of two names, and two directories that end alike.
FoldedNames == "anna" :> 2 @@ "Anna" :> 2 @@ "bert" :> 1
EndPairs == {<<"01-a", "a">>, <<"02-a", "a">>}

-----------------------------------------------------------------------------
(* Pages, grown element by element in document order *)

\* At most six elements, all inside one card since what is in no card or in another one
\* is not looked at, and of each kind so many.
Most == "card" :> 1 @@ "item" :> 1 @@ "flagged" :> 1 @@ "div" :> 1 @@ "normal" :> 1
          @@ "user" :> 2 @@ "pass" :> 2 @@ "odd" :> 1 @@ "marked" :> 1

Suffixes(kind) == CASE kind = "user" -> {1, 2} [] kind = "pass" -> {1, 2}
                    [] kind = "odd" -> {1} [] OTHER -> {0}

Count(page, kind) == Cardinality({e \in DOMAIN page : page[e].kind = kind})

OpenPage ==
  /\ input.of = "nothing"
  /\ input' = [of |-> "page", page |-> <<>>]

\* The new element goes into one that is still open: the last, or one around it.
GrowPage ==
  /\ input.of = "page"
  /\ Len(input.page) < 6
  /\ \E kind \in DOMAIN Most :
       /\ Count(input.page, kind) < Most[kind]
       /\ LET last == Len(input.page) IN
          \E suffix \in Suffixes(kind), up \in Pages!Around(input.page, last) \cup {last} :
            /\ IF up = 0 THEN kind \in Pages!CardKinds
                         ELSE input.page[up].kind \in Pages!Containers
            /\ input' = [input EXCEPT !.page = Append(@, Pages!Element(kind, suffix, up))]

Answer ==
  /\ input.of = "nothing"
  /\ \E answer \in Pages!Answers(0..3, 3) : input' = [of |-> "answer", answer |-> answer]

\* Two sources that list up to two users each, among them two spellings of one name,
\* fetched in either order or at once.
Listings == UNION {[1..n -> {"anna", "Anna", "bert"}] : n \in 0..2}

List ==
  /\ input.of = "nothing"
  /\ \E users \in [1..2 -> Listings], at \in [1..2 -> 1..2] :
       input' = [of |-> "listings",
                 slices |-> [n \in 1..2 |-> [users |-> users[n], at |-> at[n]]]]

-----------------------------------------------------------------------------
(* Settings: the defaults of a production server, with other times or limits, or with  *)
(* other protection                                                                    *)

Default ==
  [env |-> "production", intervalA |-> 45, intervalB |-> 90, timeout |-> Gate!Seconds(8),
   freshness |-> 60, poolTTL |-> 60, sliceTTL |-> 180, sessionTTL |-> 600, ticketTTL |-> 30,
   window |-> 60, limit |-> 10, accounts |-> 10, bytes |-> 1000000, names |-> TRUE,
   pollers |-> TRUE, sources |-> "https", store |-> "none", referer |-> "none", origin |-> "plain",
   hostCookie |-> TRUE, secureCookie |-> TRUE, trustProxy |-> FALSE, testMode |-> FALSE,
   longToken |-> FALSE, keys |-> TRUE, longSecrets |-> TRUE, hostname |-> "given",
   action |-> "given", verifyUrl |-> "https", scriptUrl |-> "https"]

OtherTimes ==
  {[Default EXCEPT !.intervalA = a, !.intervalB = b, !.timeout = timeout, !.freshness = fresh,
                   !.sliceTTL = life, !.sessionTTL = ttl, !.limit = limit] :
     a \in {0, 8, 9}, b \in {1, 90, 3601},
     timeout \in {Gate!Seconds(0), Gate!Seconds(8), Gate!NaN},
     fresh \in {0, 60, 61}, life \in {60, 61}, ttl \in {0, 1}, limit \in {0, 1}}

OtherProtection ==
  {[Default EXCEPT !.env = env, !.origin = origin, !.hostCookie = name, !.secureCookie = secure,
                   !.trustProxy = proxy, !.testMode = test, !.longToken = token,
                   !.keys = keys, !.hostname = host, !.action = action, !.verifyUrl = url,
                   !.scriptUrl = url, !.referer = url] :
     env \in {"production", "development", "staging"}, origin \in Gate!Origins,
     name \in BOOLEAN, secure \in BOOLEAN, proxy \in BOOLEAN, test \in BOOLEAN,
     token \in BOOLEAN, keys \in BOOLEAN, host \in {"none", "blank", "given"},
     action \in {"none", "given"}, url \in Gate!Urls}

Configure ==
  /\ input.of = "nothing"
  /\ \E s \in OtherTimes \cup OtherProtection : input' = [of |-> "settings", settings |-> s]

-----------------------------------------------------------------------------
(* Versions with up to two parts of prerelease, and hints that may concern odd ones *)

Parts == {Versions!Number(0, 0), Versions!Number(1, 0), Versions!Word(0), Versions!Word(1)}

Plain ==
  {Versions!Version(numbers, pre) :
     numbers \in {<<1>>, <<1, 0, 1>>}, pre \in UNION {[1..n -> Parts] : n \in 0..2}}

Odd ==
  {Versions!Garbled, Versions!Version(<<1, 0>>, <<Versions!Number(1, 1)>>),
   Versions!Version(<<1>>, <<Versions!Number(1, 1), Versions!Word(0)>>)}

Compare ==
  /\ input.of = "nothing"
  /\ \E x, y, z \in Plain : input' = [of |-> "versions", x |-> x, y |-> y, z |-> z]

Offer ==
  /\ input.of = "nothing"
  /\ \E project, offered \in Plain \cup Odd \cup {Versions!None}, announced, writable \in BOOLEAN,
        context, terminal \in {Versions!NoKey, "key"} :
       input' =
         [of |-> "offer", project |-> project, writable |-> writable,
          output |-> IF announced THEN Versions!Output(offered, <<project>>)
                     ELSE Versions!Output(Versions!None, <<project, offered>>),
          asker |-> Versions!Asker(context, terminal, "parent")]

-----------------------------------------------------------------------------
(* Projects: three tasks with any parents and archived children; then one task with any  *)
(* pointer, journal and files; directories and branches                                  *)

Dirs == {"a", "b", "c"}

Family(developer, parent, gone, status) ==
  Views!Project(developer,
    [t \in Dirs |->
       Views!Task(status[t], IF t = "c" THEN "other" ELSE "me", parent[t],
                  {c \in Dirs : parent[c] = t} \cup (IF t \in gone THEN {"old"} ELSE {}))],
    Views!None, 0)

Relate ==
  /\ input.of = "nothing"
  /\ \E developer \in {"me", Views!None}, parent \in [Dirs -> Dirs \cup {Views!None}],
        gone \in SUBSET Dirs, status \in [Dirs -> {"planning", "completed", "done"}] :
       input' = [of |-> "project", project |-> Family(developer, parent, gone, status), files |-> {}]

Work ==
  /\ input.of = "nothing"
  /\ \E developer \in {"me", Views!None}, files \in SUBSET {"prd.md"},
        status \in {"planning", "in_progress", "completed", "done", "unknown"},
        pointer \in {"a", Views!None, Views!Gone, Views!Torn}, journal \in {0, 2, 3} :
       input' = [of |-> "project", files |-> files,
                 project |-> Views!Project(developer, "a" :> Views!Task(status, "me", Views!None, {}),
                                           pointer, journal)]

Directories ==
  {<<"x">>, <<"y">>, <<"skip">>, <<"x", "x">>, <<"x", "y">>, <<"y", "x">>, <<"skip", "x">>,
   <<"x", "y", "x">>}

Look ==
  /\ input.of = "nothing"
  /\ \E git \in SUBSET Directories, packages \in SUBSET {<<"x">>, <<"x", "y", "x">>},
        isRepo \in BOOLEAN, changes \in 0..1 :
       input' = [of |-> "layout", layout |->
         [isRepo |-> isRepo, changes |-> changes, dirs |-> Directories, git |-> git,
          ignored |-> {"skip"}, packages |-> packages]]

Branch ==
  /\ input.of = "nothing"
  /\ \E asked, task, current \in {Views!None, "main", "old"}, branches \in SUBSET {"main", "old"} :
       input' = [of |-> "branch", asked |-> asked, task |-> task, current |-> current,
                 branches |-> branches]

-----------------------------------------------------------------------------
(* Documents of up to two keys, two levels deep; what may be read from a file; and a   *)
(* workflow.md of up to four parts                                                       *)

Word == Config!Text("word", TRUE)
Leaf == {Word, Config!List(<<Word>>), Config!List(<<Word, Config!Text("other", TRUE)>>)}
Keys(entries) == [is |-> "keys", entries |-> entries]

Inner ==
  {<<>>} \cup {<<<<"p", v>>>> : v \in Leaf \cup {Keys(<<>>)}}
    \cup {<<<<"p", v>>, <<"q", w>>>> : v, w \in Leaf \cup {Keys(<<>>), Keys(<<<<"p", Word>>>>)}}

Write ==
  /\ input.of = "nothing"
  /\ \E n \in 1..2, values \in [1..2 -> Leaf \cup {Keys(e) : e \in Inner}], step \in {0, 2},
        airy \in BOOLEAN :
       /\ \A k \in 1..2 : k > n => values[k] = Word
       /\ input' = [of |-> "document", step |-> step, airy |-> airy,
                    entries |-> [k \in 1..n |-> <<<<"a", "b">>[k], values[k]>>]]

Given == {Config!Missing, Config!Text("active_task", TRUE), Config!Text("a", TRUE),
          Config!List(<<Config!Text("a", TRUE)>>), Config!List(<<Config!Text("c", TRUE)>>),
          Config!List(<<Config!Text("c", TRUE), Config!Text("b", TRUE)>>)}

Declarations ==
  {Config!Missing, Word} \cup
    {Config!Dict([k \in names |->
        IF k = scalar THEN Word
        ELSE Config!Dict("type" :> Config!Text("submodule", k = "a") @@ "git" :> Config!Text("true", TRUE))]) :
       names \in SUBSET {"a", "b"}, scalar \in {"a", "none"}}

Read ==
  /\ input.of = "nothing"
  /\ \E packages \in Declarations, default \in Given, scope \in Given, mode \in
        {Config!Missing, Word} \cup {Config!Text(m, e) : m \in Config!Modes, e \in BOOLEAN},
        task \in {"a", "b", "c", Config!NoPackage} :
       input' = [of |-> "config", task |-> task, keys |->
         "packages" :> packages @@ "default_package" :> default
           @@ "session" :> Config!Dict("spec_scope" :> scope)
           @@ "codex" :> Config!Dict("dispatch_mode" :> mode)]

\* Parts of one or three lines; a text line is told by its place.
Plainly(kind, key) == <<Guide!Line(kind, key, {})>>
Enclosed(open, close, key, names, text) ==
  <<Guide!Line(open, key, names), text, Guide!Line(close, key, {})>>

PartsAt(n) ==
  LET text == Guide!Line("text", n + 1, {})
      blank == Guide!Line("blank", 0, {})
  IN {<<Guide!Line("text", n, {})>>} \cup {Plainly(kind, "") : kind \in {"blank", "index", "phase1", "end"}}
       \cup {Plainly("step", id) : id \in {"1.1", "1.2"}}
       \cup {Enclosed("tag", "endtag", Guide!Key("planning", inline), {}, body) :
                inline \in BOOLEAN, body \in {text, blank}}
       \cup {Enclosed("marker", "endmarker", 0, names, text) :
                names \in {{"codex-inline"}, {"codex-sub-agent", "other"}}}

Open ==
  /\ input.of = "nothing"
  /\ input' = [of |-> "workflow", lines |-> <<>>, parts |-> 0]

GrowWorkflow ==
  /\ input.of = "workflow"
  /\ input.parts < 4
  /\ \E part \in PartsAt(Len(input.lines) + 1) :
       input' = [input EXCEPT !.lines = @ \o part, !.parts = @ + 1]

-----------------------------------------------------------------------------
(* References of up to three names, in every tree of some directories: two tasks that  *)
(* end alike, one archived, and others of the same names outside the tasks directory   *)

Leaves == {Refs!Tasks \o <<"a">>, Refs!Tasks \o <<"01-a">>, Refs!Tasks \o <<"02-a">>,
           Refs!Tasks \o <<"archive", "01-a">>, Refs!Tasks \o <<"src", "a">>,
           <<"src", "a">>, <<"tasks", "01-a">>}

Trees ==
  {UNION {{SubSeq(path, 1, n) : n \in 1..Len(path)} : path \in leaves \cup {Refs!Tasks}} :
     leaves \in SUBSET Leaves}

Names == {".", "..", "tasks", ".trellis", "a", "01-a", "src", "archive"}

Refer ==
  /\ input.of = "nothing"
  /\ \E tree \in Trees, n \in 0..3, whole \in BOOLEAN :
       /\ n > 0 \/ whole
       /\ \E path \in [1..n -> Names] :
            input' = [of |-> "ref", tree |-> tree, ref |-> Refs!Ref(whole, path)]

Next == OpenPage \/ GrowPage \/ Answer \/ List \/ Configure \/ Refer \/ Compare \/ Offer
          \/ Relate \/ Work \/ Look \/ Branch
          \/ Write \/ Read \/ Open \/ GrowWorkflow

Spec == Start /\ [][Next]_input

-----------------------------------------------------------------------------
\* Config files are read the way they were written, the same wherever they are read, and
\* an agent is given the parts of workflow.md meant for its platform and state.
GuidesSound ==
  /\ input.of = "document" => Config!ReadAsMeant(input.entries, input.step, input.airy)
  /\ input.of = "config" => Config!OneMode(input.keys) /\ Config!ScopeSound(input.keys, input.task)
  /\ input.of = "workflow" =>
       \A id \in {"", "1.1"}, platform \in {"codex", "other"}, mode \in Config!Modes :
         Guide!GuideSound(input.lines, id, "planning", platform, mode)
=============================================================================
