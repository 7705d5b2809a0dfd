------------------------------ MODULE ConfigYaml ------------------------------
(***************************************************************************)
(* .trellis/config.yaml as the scripts read it: the parser of a small part *)
(* of YAML (common/config.py, again in common/trellis_config.py), the      *)
(* settings taken from what it returns, and the packages in scope          *)
(* (common/packages_context.py).                                           *)
(***************************************************************************)
EXTENDS Naturals, Sequences, SequencesExt, FiniteSets

(* Values: a text, a list of texts, or keys with values.  A text is a word and whether   *)
(* it is written in small letters and without quoted blanks around it.                   *)

Text(word, exact) == [is |-> "text", word |-> word, exact |-> exact]
List(items) == [is |-> "list", items |-> items]
Dict(of) == [is |-> "dict", of |-> of]

NoKeys == [key \in {} |-> Text(key, TRUE)]
Missing == [is |-> "missing"]

With(of, key, value) == [k \in DOMAIN of \cup {key} |-> IF k = key THEN value ELSE of[k]]

Get(of, key) == IF key \in DOMAIN of THEN of[key] ELSE Missing

(* Lines: empty ones and comments; "- item"; "key: value"; "key:"; and other texts.     *)

Line(kind, indent, key, value) ==
  [kind |-> kind, indent |-> indent, key |-> key, value |-> value]

Blank == Line("blank", 0, "", Missing)
Item(indent, value) == Line("item", indent, "", value)
Pair(indent, key, value) == Line("pair", indent, key, value)
Opening(indent, key) == Line("opening", indent, key, Missing)
Other(indent) == Line("other", indent, "", Missing)

-----------------------------------------------------------------------------
(* The parser *)

\* _next_content_line: one after the last if there is none.
NextContent(lines, start) ==
  LET contents == {i \in start..Len(lines) : lines[i].kind # "blank"} IN
  IF contents = {} THEN Len(lines) + 1 ELSE CHOOSE i \in contents : \A j \in contents : i <= j

FurtherIn(lines, i) ==    \* mutant: what follows is taken for the keys of this one, further in or not
  LET next == NextContent(lines, i + 1) IN
  IF next > Len(lines) THEN "end"
  ELSE IF lines[next].kind = "item" THEN "list"
  ELSE IF lines[next].indent >= lines[i].indent THEN "keys" ELSE "nothing"

\* Where a key without a value leads: to a list, to keys that are further in, or nowhere.
LeadsTo(lines, i) ==
  LET next == NextContent(lines, i + 1) IN
  IF next > Len(lines) THEN "end"
  ELSE IF lines[next].kind = "item" THEN "list"
  ELSE IF lines[next].indent > lines[i].indent THEN "keys" ELSE "nothing"

\* _parse_yaml_block from line i: target is what has been read of the block, open the key
\* whose list takes the items, "" for none.
RECURSIVE ParseBlock(_, _, _, _, _)
ParseBlock(lines, i, least, target, open) ==
  IF i > Len(lines) THEN [next |-> i, target |-> target]
  ELSE LET line == lines[i]
           next == NextContent(lines, i + 1)
           Continue(at, of, key) == ParseBlock(lines, at, least, of, key)
       IN
    IF line.kind = "blank" THEN Continue(i + 1, target, open)
    ELSE IF line.indent < least THEN [next |-> i, target |-> target]
    ELSE CASE line.kind = "other" -> Continue(i + 1, target, open)
           [] line.kind = "item" ->
                Continue(i + 1,
                  IF open = "" THEN target
                  ELSE With(target, open, List(Append(target[open].items, line.value))), open)
           [] line.kind = "pair" -> Continue(i + 1, With(target, line.key, line.value), "")
           [] line.kind = "opening" ->
                CASE LeadsTo(lines, i) = "end" ->
                       Continue(next, With(target, line.key, Dict(NoKeys)), "")
                  [] LeadsTo(lines, i) = "list" ->
                       Continue(i + 1, With(target, line.key, List(<<>>)), line.key)
                  [] LeadsTo(lines, i) = "nothing" ->
                       Continue(i + 1, With(target, line.key, Dict(NoKeys)), "")
                  [] LeadsTo(lines, i) = "keys" ->
                       LET nested == ParseBlock(lines, i + 1, lines[next].indent, NoKeys, "") IN
                       Continue(nested.next, With(target, line.key, Dict(nested.target)), "")

\* parse_simple_yaml
ParseSimpleYaml(lines) == ParseBlock(lines, 1, 0, NoKeys, "").target

\* The same document as one would write it: entries <<key, value>> at an indentation, lists
\* further in or not, blank lines anywhere.
RECURSIVE Written(_, _, _, _)
Written(entries, indent, step, airy) ==
  IF entries = <<>> THEN <<>>
  ELSE LET key == Head(entries)[1]
           value == Head(entries)[2]
           own == CASE value.is = "text" -> <<Pair(indent, key, value)>>
                    [] value.is = "list" ->
                         <<Opening(indent, key)>>
                           \o [n \in DOMAIN value.items |-> Item(indent + step, value.items[n])]
                    [] value.is = "keys" ->
                         <<Opening(indent, key)>> \o Written(value.entries, indent + 2, step, airy)
       IN own \o (IF airy THEN <<Blank>> ELSE <<>>) \o Written(Tail(entries), indent, step, airy)

RECURSIVE Meant(_)
Meant(entries) ==
  IF entries = <<>> THEN NoKeys
  ELSE LET last == Last(entries)
           value == last[2]
       IN With(Meant(Front(entries)), last[1],
               IF value.is = "keys" THEN Dict(Meant(value.entries)) ELSE value)

-----------------------------------------------------------------------------
(* Settings, from the keys of the file, none when it cannot be read *)

Words(value) == IF value.is = "text" THEN value.word ELSE "none"

Modes == {"inline", "sub-agent"}

DispatchMode(of) == LET codex == Get(of, "codex") IN
  IF codex.is = "dict" THEN Get(codex.of, "dispatch_mode") ELSE Missing

\* get_codex_dispatch_mode folds case and blanks.
ModeForSeeding(of) ==
  IF Words(DispatchMode(of)) \in Modes THEN Words(DispatchMode(of)) ELSE "inline"

\* resolve_effective_platform, resolve_breadcrumb_key and _codex_mode_banner do not.
ModeForGuiding(of) ==
  LET mode == DispatchMode(of) IN
  IF mode.is = "text" /\ mode.exact /\ mode.word \in Modes THEN mode.word ELSE "inline"

-----------------------------------------------------------------------------
(* Packages *)

NoPackage == "none"

\* get_packages: those with keys of their own; none at all means a single repository.
Packages(of) ==
  LET packages == Get(of, "packages") IN
  IF packages.is = "dict" THEN {k \in DOMAIN packages.of : packages.of[k].is = "dict"} ELSE {}

Declared(of, package) == Get(of, "packages").of[package].of

\* get_submodule_packages, get_git_packages
Submodules(of) ==
  {k \in Packages(of) : LET type == Get(Declared(of, k), "type") IN
                        type.is = "text" /\ type.exact /\ type.word = "submodule"}
GitPackages(of) == {k \in Packages(of) : Words(Get(Declared(of, k), "git")) = "true"}

\* get_default_package: a text; empty keys are no package.
DefaultPackage(of) == Words(Get(of, "default_package"))

\* validate_package
ValidPackage(of, package) == Packages(of) = {} \/ package \in Packages(of)

\* resolve_package: the task's if it is declared, else the default if that is.
ResolvePackage(of, taskPackage) ==
  IF taskPackage \in Packages(of) THEN taskPackage
  ELSE IF DefaultPackage(of) \in Packages(of) THEN DefaultPackage(of)
  ELSE NoPackage

\* get_spec_base
SpecBase(of, package) ==
  IF package # NoPackage /\ Packages(of) # {} THEN <<"spec", package>> ELSE <<"spec">>

\* get_spec_scope
SpecScope(of) ==
  LET session == Get(of, "session") IN
  IF session.is # "dict" \/ Get(session.of, "spec_scope").is = "dict" THEN Missing
  ELSE Get(session.of, "spec_scope")

All == {"all"}

\* _resolve_scope_set: the packages in scope, or All for no restriction.
ScopeSet(of, taskPackage) ==
  LET scope == SpecScope(of)
      listed == IF scope.is = "list"
                  THEN {scope.items[n].word : n \in DOMAIN scope.items} \cap Packages(of) ELSE {}
      one == ResolvePackage(of, taskPackage)
  IN IF scope.is = "missing" \/ (scope.is = "text" /\ ~ (scope.exact /\ scope.word = "active_task")) THEN All
     ELSE IF listed # {} THEN listed
     ELSE IF one # NoPackage THEN {one} ELSE All

\* get_packages_info and get_context_packages_text: what is said of each package.
PackageViews(of, taskPackage) ==
  [k \in Packages(of) |->
     [default |-> k = DefaultPackage(of), submodule |-> k \in Submodules(of),
      git |-> k \in GitPackages(of),
      outOfScope |-> ScopeSet(of, taskPackage) # All /\ k \notin ScopeSet(of, taskPackage)]]

-----------------------------------------------------------------------------
(* What reading promises *)

\* A document is read as it was meant, however its lists are indented and spaced.
ReadAsMeant(entries, step, airy) ==
  ParseSimpleYaml(Written(entries, 0, step, airy)) = Meant(entries)

\* The scripts that seed a task's context and those that guide the agent go by one mode if
\* it is written exactly; otherwise those that guide fall back to inline.
OneMode(of) ==
  ModeForSeeding(of) # ModeForGuiding(of) =>
    /\ ModeForGuiding(of) = "inline"
    /\ ~ DispatchMode(of).exact

\* Whatever the file says, a package that is resolved is declared, and a scope is of
\* declared packages, never empty, and holds the package of the task unless it lists
\* others.
ScopeSound(of, taskPackage) ==
  LET one == ResolvePackage(of, taskPackage)
      scope == ScopeSet(of, taskPackage)
  IN /\ one # NoPackage => ValidPackage(of, one) /\ SpecBase(of, one) = <<"spec", one>>
     /\ Packages(of) = {} => one = NoPackage /\ ValidPackage(of, taskPackage)
     /\ scope # All => scope # {} /\ scope \subseteq Packages(of)
     /\ Packages(of) # {} =>
          \E k \in Packages(of) : ~ PackageViews(of, taskPackage)[k].outOfScope
=============================================================================
