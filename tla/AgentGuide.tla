------------------------------ MODULE AgentGuide ------------------------------
(***************************************************************************)
(* What of .trellis/workflow.md the agent is given: the breadcrumb of each *)
(* turn (hooks/inject-workflow-state.py), the summary of a session's start *)
(* (hooks/session-start.py), and the phase index and the steps it asks for *)
(* (common/workflow_phase.py).  Four scans of one text, each by itself.    *)
(***************************************************************************)
EXTENDS Naturals, Sequences, SequencesExt

\* Lines: "text" and "blank"; "tag" and "endtag" around the breadcrumb of a status;
\* "marker" and "endmarker" around what is for some platforms only; "index" and "phase1",
\* the headings of the phase index and of what follows it; "step"; "end" for the other
\* headings and rules, at which a step ends.
Line(kind, key, names) == [kind |-> kind, key |-> key, names |-> names]

\* A status as it is, or the variant for work without sub-agents.
Key(status, inline) == <<status, inline>>

LeastOf(S) == CHOOSE n \in S : \A m \in S : n <= m
LargestOf(S) == CHOOSE n \in S : \A m \in S : m <= n

Lines(lines, kept) ==    \* the lines at the places kept, in order
  LET marked == [n \in DOMAIN lines |-> [line |-> lines[n], kept |-> n \in kept]]
      left == SelectSeq(marked, LAMBDA l : l.kept)
  IN [n \in DOMAIN left |-> left[n].line]

-----------------------------------------------------------------------------
(* Breadcrumbs *)

\* What the tag at i is closed by, with at least one line between, if anything.
Closing(lines, i) ==
  {j \in (i + 2)..Len(lines) : lines[j].kind = "endtag" /\ lines[j].key = lines[i].key}

\* finditer with _TAG_RE: from the first tag that is closed on after its end.
Blocks(lines) ==
  LET from[i \in 1..(Len(lines) + 1)] ==
        IF i > Len(lines) THEN {}
        ELSE IF lines[i].kind # "tag" \/ Closing(lines, i) = {} THEN from[i + 1]
        ELSE {<<i, LeastOf(Closing(lines, i))>>} \cup from[LeastOf(Closing(lines, i)) + 1]
  IN from[1]

Body(lines, block) == SubSeq(lines, block[1] + 1, block[2] - 1)

\* load_breadcrumbs: the last block of a key with something in it.
Templates(lines) ==
  LET filled == {b \in Blocks(lines) : \E n \in (b[1] + 1)..(b[2] - 1) : lines[n].kind # "blank"} IN
  [key \in {lines[b[1]].key : b \in filled} |->
     Body(lines, CHOOSE b \in filled :
       lines[b[1]].key = key /\ \A c \in filled : lines[c[1]].key = key => c[1] <= b[1])]

\* "Refer to workflow.md for current step."
Generic == <<Line("text", 0, {})>>

\* resolve_breadcrumb_key and build_breadcrumb: codex by its mode, the others as it is.
Breadcrumb(lines, status, platform, mode) ==
  LET templates == Templates(lines)
      key == Key(status, platform = "codex" /\ mode = "inline")
  IN IF key \in DOMAIN templates THEN templates[key]
     ELSE IF Key(status, FALSE) \in DOMAIN templates THEN templates[Key(status, FALSE)]
     ELSE Generic

-----------------------------------------------------------------------------
(* The phase index *)

\* tag_re.sub("", section)
Stripped(lines) ==
  Lines(lines, {n \in DOMAIN lines : \A b \in Blocks(lines) : ~ (b[1] <= n /\ n <= b[2])})

\* From the first line of one kind to the next of another.
Section(lines, first, last) ==
  LET starts == {n \in DOMAIN lines : lines[n].kind = first}
      ends == {n \in DOMAIN lines : lines[n].kind = last /\ n > LeastOf(starts)}
  IN IF starts = {} THEN <<>>
     ELSE SubSeq(lines, LeastOf(starts), IF ends = {} THEN Len(lines) ELSE LeastOf(ends) - 1)

\* get_phase_index
PhaseIndex(lines) == Stripped(Section(lines, "index", "phase1"))

Markers == {"marker", "endmarker"}

\* _build_workflow_toc: the same, without the markers but with what they enclose.
WorkflowToc(lines) == SelectSeq(PhaseIndex(lines), LAMBDA l : l.kind \notin Markers)

-----------------------------------------------------------------------------
(* Steps and platforms *)

\* get_step: "" names no step.
StepOf(lines, id) ==
  LET starts == {n \in DOMAIN lines : lines[n].kind = "step" /\ lines[n].key = id}
      ends == {n \in DOMAIN lines :
                 n > LeastOf(starts) /\ lines[n].kind \in {"step", "end", "index", "phase1"}}
  IN IF starts = {} THEN <<>>
     ELSE SubSeq(lines, LeastOf(starts), IF ends = {} THEN Len(lines) ELSE LeastOf(ends) - 1)

\* resolve_effective_platform
EffectivePlatform(platform, mode) ==
  IF platform # "codex" THEN platform
  ELSE IF mode = "inline" THEN "codex-inline" ELSE "codex-sub-agent"

\* _parse_marker takes tags for markers as well, of a platform that nobody has.
Opens(line) == line.kind \in {"marker", "tag"}
Closes(line) == line.kind \in {"endmarker", "endtag"}

\* filter_platform: the lines it keeps, going from marker to marker.
KeptLines(lines, platform) ==
  LET keep[n \in 0..Len(lines)] ==
        IF n = 0 THEN TRUE
        ELSE IF Opens(lines[n]) THEN platform \in lines[n].names
        ELSE IF Closes(lines[n]) THEN TRUE
        ELSE keep[n - 1]
  IN {n \in DOMAIN lines : keep[n] /\ ~ Opens(lines[n]) /\ ~ Closes(lines[n])}

FilterPlatform(lines, platform) == Lines(lines, KeptLines(lines, platform))

\* get_context.py --mode phase
PhaseGuide(lines, id, platform, mode) ==
  FilterPlatform(IF id = "" THEN PhaseIndex(lines) ELSE StepOf(lines, id),
                 EffectivePlatform(platform, mode))

-----------------------------------------------------------------------------
(* What the guides promise *)

\* Every marker and tag is closed before the next one opens or a section ends.
WellFormed(lines) ==
  /\ \A n \in DOMAIN lines : Opens(lines[n]) =>
       \E m \in (n + 2)..Len(lines) :
         /\ Closes(lines[m])
         /\ (lines[m].kind = "endtag") = (lines[n].kind = "tag") /\ lines[m].key = lines[n].key
         /\ \A k \in (n + 1)..(m - 1) : lines[k].kind \in {"text", "blank"}
  /\ \A m \in DOMAIN lines : Closes(lines[m]) =>
       \E n \in 1..(m - 2) :
         /\ Opens(lines[n])
         /\ \A k \in (n + 1)..(m - 1) : lines[k].kind \in {"text", "blank"}

\* The text lines between a marker or a tag and its end, for whom and for which status.
Enclosing(lines, n) ==
  LET opened == {k \in 1..n : Opens(lines[k]) /\ \A m \in k..n : ~ Closes(lines[m])} IN
  IF opened = {} THEN 0 ELSE LargestOf(opened)

\* Each text line is marked by its place, so that it can be told where it came from.
Places(view) == {view[n].key : n \in {m \in DOMAIN view : view[m].kind = "text"}}

\* The breadcrumb of a status holds nothing from outside its own block, and there is one
\* for codex working inline whenever there is one for the others.
OwnBreadcrumb(lines, status, platform, mode) ==
  LET view == Breadcrumb(lines, status, platform, mode) IN
  /\ view # Generic =>
       \A n \in DOMAIN lines : lines[n].kind = "text" /\ lines[n].key \in Places(view) =>
         LET k == Enclosing(lines, n) IN
         /\ k # 0 /\ lines[k].kind = "tag" /\ lines[k].key[1] = status
         /\ lines[k].key[2] => platform = "codex" /\ mode = "inline"
  /\ Breadcrumb(lines, status, "other", mode) # Generic => view # Generic

\* The guide of a phase holds a text line of its section if and only if the line is in
\* no breadcrumb and is for everybody or for this platform in its mode; to codex a line
\* for one mode is never shown in the other.
OwnGuide(lines, id, platform, mode) ==
  LET section == IF id = "" THEN Section(lines, "index", "phase1") ELSE StepOf(lines, id)
      view == PhaseGuide(lines, id, platform, mode)
  IN Places(view) =
       {lines[n].key : n \in {m \in DOMAIN lines :
          /\ lines[m].kind = "text" /\ lines[m].key \in Places(section)
          /\ LET k == Enclosing(lines, m) IN
             k # 0 => EffectivePlatform(platform, mode) \in lines[k].names}}

\* The session's summary has, of the phase index, what any platform may see.
WholeSummary(lines, platform, mode) ==
  Places(PhaseGuide(lines, "", platform, mode)) \subseteq Places(WorkflowToc(lines))

GuideSound(lines, id, status, platform, mode) ==
  WellFormed(lines) =>
    /\ OwnBreadcrumb(lines, status, platform, mode)
    /\ OwnGuide(lines, id, platform, mode)
    /\ WholeSummary(lines, platform, mode)
=============================================================================
