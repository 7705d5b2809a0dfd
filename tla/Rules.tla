-------------------------------- MODULE Rules --------------------------------
(***************************************************************************)
(* The rules of the relay and of the scripts that decide without changing  *)
(* anything: the variable is one input of one rule, and each property says *)
(* what the rule makes of it.                                              *)
(***************************************************************************)
EXTENDS Naturals, Sequences, FiniteSets

CONSTANTS MaxBytes,   \* limit of a source's answer
          Folded,     \* user name -> the number of its folded form
          Ends,       \* pairs <<d, n>> of directory names where d ends with "-" and n
          Limit,      \* lines of a journal above which the agent is warned
          Depth       \* levels of directories that are searched for repositories

ASSUME BytesAssumption == MaxBytes \in Nat

ASSUME FoldedAssumption == \A user \in DOMAIN Folded : Folded[user] \in Nat

VARIABLE input

Pages == INSTANCE SourcePages
Gate == INSTANCE GateSettings
Pool == INSTANCE PoolMerge
Views == INSTANCE ContextViews
Versions == INSTANCE VersionOrder
Refs == INSTANCE TaskRefs

Start == input = [of |-> "nothing"]

-----------------------------------------------------------------------------
\* What app/adapters accepts of a source: no body beyond the limit and none within it
\* refused for its size; no password paired with two usernames, no username with two.
PagesSound ==
  /\ input.of = "answer" => Pages!SizeIsBounded(input.answer, MaxBytes)
  /\ input.of = "page" => Pages!OnePasswordEach(input.page)

\* build_fresh_pool: of every pair of listings one account per id, the first of the
\* freshest, and the freshest on top.
PoolsMerged == input.of = "listings" => Pool!PoolSound(Pool!AllAccounts(input.slices))

\* Settings that app/config.py accepts make the assumptions of the other modules true, and
\* in production keep other sites out, the page in, and Turnstile decisive.
GateSound == input.of = "settings" => Gate!GateSound(input.settings)

\* A task reference leads the scripts and the hooks to one directory; archive moves only
\* tasks, the exact name before an ending; a path called safe stays in the repository.
RefsSound == input.of = "ref" => Refs!RefsSound(input.tree, input.ref)

\* _compare_versions orders versions, prereleases before their release, and the hint is
\* given once and only of a version that is newer than the project's.
VersionsOrdered ==
  /\ input.of = "versions" =>
       /\ Versions!TotallyOrdered(input.x, input.y, input.z)
       /\ Versions!BeforeItsRelease(input.x)
  /\ input.of = "offer" =>
       Versions!HintIsNews(input.project, input.asker, input.output, input.writable)

\* The views of session_context.py and the hook agree on tasks and state, show each task
\* once, and report on every repository and only on branches that exist.
ViewsSound ==
  /\ input.of = "project" =>
       /\ Views!PrintedOnce(input.project)
       /\ Views!SameTasks(input.project)
       /\ Views!SameState(input.project, input.files)
  /\ input.of = "layout" => Views!ReposSound(input.layout)
  /\ input.of = "branch" =>
       Views!BranchExists(input.asked, input.task, input.current, input.branches)
=============================================================================
