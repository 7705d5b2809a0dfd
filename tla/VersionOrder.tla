----------------------------- MODULE VersionOrder -----------------------------
(***************************************************************************)
(* The hint that a newer version of the agent's tooling is available       *)
(* (common/session_context.py): how two versions compare, which version    *)
(* the output of "trellis --version" offers, and when the hint is given.   *)
(***************************************************************************)
EXTENDS Integers, Sequences

(* Versions: one to three numbers and the parts of a prerelease, if there is one.  A     *)
(* part is a number, with the zeros written before it, or a word with its place in the    *)
(* order of texts.                                                                        *)

Number(n, zeros) == [number |-> TRUE, rank |-> n, zeros |-> zeros]
Word(rank) == [number |-> FALSE, rank |-> rank, zeros |-> 0]

Release == <<>>

Version(numbers, prerelease) == [numbers |-> numbers, prerelease |-> prerelease]

\* A text _parse_version makes nothing of, and no text at all: with too few numbers and
\* with too many for a version.
Garbled == Version(<<>>, Release)
None == Version(<<0, 0, 0, 0>>, Release)

Sign(x, y) == IF x > y THEN 1 ELSE IF x < y THEN -1 ELSE 0

\* Missing numbers are zeros.
Numbers(version) ==
  [n \in 1..3 |-> IF n <= Len(version.numbers) THEN version.numbers[n] ELSE 0]

\* The first place where two sequences have different entries, 0 for none.
FirstDifference(left, right) ==
  LET differ == {n \in 1..Len(left) : n \in 1..Len(right) /\ left[n] # right[n]} IN
  IF differ = {} THEN 0 ELSE CHOOSE n \in differ : \A m \in differ : n <= m

\* Numbers come before words; the zeros before a number make it another text, which ends
\* the comparison, but not another number.
ComparePart(left, right) ==
  IF left.number = right.number THEN Sign(left.rank, right.rank)
  ELSE IF left.number THEN -1 ELSE 1

\* _compare_prerelease
ComparePrerelease(left, right) ==
  LET n == FirstDifference(left, right) IN
  IF left = Release \/ right = Release
    THEN Sign(IF left = Release THEN 1 ELSE 0, IF right = Release THEN 1 ELSE 0)
  ELSE IF n = 0 THEN Sign(Len(left), Len(right))
  ELSE ComparePart(left[n], right[n])

CompareNumbersOnly(left, right) ==    \* mutant: prereleases are not looked at
  LET n == FirstDifference(Numbers(left), Numbers(right)) IN
  IF n = 0 THEN 0 ELSE Sign(Numbers(left)[n], Numbers(right)[n])

\* _compare_versions, of two versions that could be parsed.
CompareVersions(left, right) ==
  LET n == FirstDifference(Numbers(left), Numbers(right)) IN
  IF n = 0 THEN ComparePrerelease(left.prerelease, right.prerelease)
  ELSE Sign(Numbers(left)[n], Numbers(right)[n])

-----------------------------------------------------------------------------
(* The hint *)

\* The output of the command: the version it announces, which may be any text, and all
\* that look like versions in it; a command that failed has neither.
Output(announced, tokens) == [announced |-> announced, tokens |-> tokens]

\* _extract_available_update_version
Offered(output) ==
  IF output.announced # None THEN output.announced
  ELSE IF output.tokens # <<>> THEN output.tokens[Len(output.tokens)]
  ELSE None

NoKey == "no key"

\* _update_marker_path: who is taken to ask.
Asker(context, terminal, parent) ==
  IF context # NoKey THEN context ELSE IF terminal # NoKey THEN terminal ELSE parent

\* _get_update_hint: project is the version on record or none, marks the askers that have
\* a marker, output what the command said, writable whether a marker can be made.
UpdateHint(project, marks, asker, output, writable) ==
  LET asked == asker \notin marks /\ project # None /\ Offered(output) # None
      latest == Offered(output)
  IN [hint |-> IF /\ asked
                  /\ project # Garbled /\ latest # Garbled
                  /\ CompareVersions(project, latest) < 0
               THEN latest ELSE None,
      marks |-> IF asked /\ writable THEN marks \cup {asker} ELSE marks]

-----------------------------------------------------------------------------
(* What versions and hints promise *)

\* Versions that are written without superfluous zeros are in one total order: swapping
\* two turns the sign around, only equal ones tie, and the order is transitive.
Swapped(left, right) == CompareVersions(left, right) = - CompareVersions(right, left)

TotallyOrdered(x, y, z) ==
  /\ Swapped(x, y)
  /\ CompareVersions(x, y) = 0
       <=> Numbers(x) = Numbers(y) /\ x.prerelease = y.prerelease
  /\ CompareVersions(x, y) <= 0 /\ CompareVersions(y, z) <= 0 => CompareVersions(x, z) <= 0

\* A prerelease precedes its release.
BeforeItsRelease(version) ==
  version.prerelease # Release => CompareVersions(version, Version(version.numbers, Release)) = -1

\* A hint names a version that is newer than the project's; whoever follows it is not
\* told again by the same output, and neither is whoever has a marker.
HintIsNews(project, asker, output, writable) ==
  LET first == UpdateHint(project, {}, asker, output, writable)
      again == UpdateHint(project, first.marks, asker, output, writable)
      updated == UpdateHint(first.hint, {}, asker, output, writable)
  IN first.hint # None =>
       /\ project # Garbled /\ CompareVersions(first.hint, project) = 1
       /\ updated.hint = None
       /\ writable => again.hint = None
=============================================================================
