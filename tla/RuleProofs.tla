------------------------------ MODULE RuleProofs ------------------------------
(***************************************************************************)
(* What the rules promise, of every input: bodies in any number of chunks, *)
(* pages of any size, listings and slices of any length, any settings,     *)
(* versions, projects and trees of directories.  The recursive functions   *)
(* of the rules are first shown to have values, then followed element by   *)
(* element.                                                                *)
(***************************************************************************)
EXTENDS Rules, Integers, FiniteSetTheorems, SequenceTheorems, WellFoundedInduction, TLAPS

-----------------------------------------------------------------------------
(* The inputs *)

AllAnswers == [status : Nat, header : {"none", "number", "odd"}, length : Nat, chunks : Seq(Nat)]

\* Elements come after the element they stand in.
AllPages ==
  {page \in Seq([kind : STRING, suffix : Nat, up : Nat]) : \A e \in DOMAIN page : page[e].up < e}

\* The users of a slice are among those whose names can be folded.
AllSlices == Seq([users : Seq(DOMAIN Folded), at : Nat])

AllSettings ==
  [env : STRING, intervalA : Int, intervalB : Int,
   timeout : {Gate!NaN} \cup {Gate!Seconds(n) : n \in Int},
   freshness : Int, poolTTL : Int, sliceTTL : Int, sessionTTL : Int, ticketTTL : Int,
   window : Int, limit : Int, accounts : Int, bytes : Int, names : BOOLEAN,
   pollers : BOOLEAN, sources : Gate!Urls, store : Gate!Urls, referer : Gate!Urls,
   origin : Gate!Origins,
   hostCookie : BOOLEAN, secureCookie : BOOLEAN, trustProxy : BOOLEAN, testMode : BOOLEAN,
   longToken : BOOLEAN, keys : BOOLEAN, longSecrets : BOOLEAN,
   hostname : {"none", "blank", "given"}, action : {"none", "given"},
   verifyUrl : Gate!Urls, scriptUrl : Gate!Urls]

\* The parts of a prerelease, and those written without superfluous zeros.
Parts == [number : BOOLEAN, rank : Nat, zeros : Nat]

Written == [number : BOOLEAN, rank : Nat, zeros : {0}]

VersionsOf(parts) == [numbers : Seq(Nat), prerelease : Seq(parts)]

WrittenVersions == VersionsOf(Written)
AnyVersions == VersionsOf(Parts)

\* What the command may print.
Outputs == [announced : AnyVersions, tokens : Seq(AnyVersions)]

\* A status is none of the hook's own words.
AllTasks ==
  [status : STRING \ {"stale"}, assignee : STRING, parent : STRING,
   children : {c \in SUBSET STRING : IsFiniteSet(c)}]

NoNames == {Views!None, Views!Gone, Views!Torn}

\* A pointer names a task, one that is gone or torn, or there is none.
AllProjects ==
  {p \in [developer : STRING,
          tasks : UNION {[dirs -> AllTasks] : dirs \in {d \in SUBSET (STRING \ NoNames) : IsFiniteSet(d)}},
          pointer : STRING, journal : Nat] :
     p.pointer \in DOMAIN p.tasks \cup NoNames}

\* Directories below the root.
AllLayouts ==
  [isRepo : BOOLEAN, changes : Nat, dirs : {d \in SUBSET (Seq(STRING) \ {<<>>}) : IsFiniteSet(d)},
   git : SUBSET Seq(STRING), ignored : SUBSET STRING, packages : SUBSET Seq(STRING)]

\* All names; some are listed only because the provers do not see that they are strings.
Texts == STRING \cup {".", "..", ".trellis", "tasks", "nowhere"}

\* Directories by the path from the root, those of the agent among them; no task is called
\* ".trellis", and Nowhere is none.
AllTrees ==
  {tree \in SUBSET (Seq(Texts \ {".", ".."}) \ {<<>>, Refs!Nowhere}) :
     /\ Refs!Workflow \in tree /\ Refs!Tasks \in tree
     /\ Append(Refs!Tasks, ".trellis") \notin tree}

\* Only an absolute path may be that of the root itself.
AllRefs == {ref \in [whole : BOOLEAN, path : Seq(Texts)] : ref.whole \/ ref.path # <<>>}

Inputs ==
  [of : {"answer"}, answer : AllAnswers]
    \cup [of : {"page"}, page : AllPages]
    \cup [of : {"listings"}, slices : AllSlices]
    \cup [of : {"settings"}, settings : AllSettings]
    \cup [of : {"versions"}, x : WrittenVersions, y : WrittenVersions, z : WrittenVersions]
    \cup [of : {"offer"}, project : AnyVersions, asker : STRING, output : Outputs, writable : BOOLEAN]
    \cup [of : {"project"}, project : AllProjects, files : SUBSET STRING]
    \cup [of : {"layout"}, layout : AllLayouts]
    \cup [of : {"branch"}, asked : STRING, task : STRING, current : STRING, branches : SUBSET STRING]
    \cup [of : {"ref"}, tree : AllTrees, ref : AllRefs]

-----------------------------------------------------------------------------
(* Induction *)

\* A set of numbers has a least one.
LEMMA Least ==
  ASSUME NEW S, S \subseteq Nat, S # {}
  PROVE  \E n \in S : \A m \in S : n <= m
<1>1. PICK n \in S : \A m \in S : ~ (<<m, n>> \in OpToRel(<, Nat))
  BY WFMin, NatLessThanWellFounded
<1>2. \A m \in S : ~ (m < n)
  BY <1>1 DEF OpToRel
<1>3. n \in Nat /\ \A m \in S : m \in Nat
  OBVIOUS
<1> QED
  BY <1>2, <1>3

\* Induction, on a set in place of a predicate.
LEMMA Induction ==
  ASSUME NEW S, 0 \in S, \A n \in Nat : n \in S => n + 1 \in S
  PROVE  Nat \subseteq S
<1> SUFFICES ASSUME Nat \ S # {} PROVE FALSE
  OBVIOUS
<1>1. PICK n \in Nat \ S : \A m \in Nat \ S : n <= m
  BY Least
<1>2. n # 0
  OBVIOUS
<1>3. n - 1 \in Nat /\ n - 1 \notin Nat \ S
  BY <1>1, <1>2
<1> QED
  BY <1>1, <1>3

\* How a value and a number up to len give the next value.
Steps(len, V) == [(1..len) \X V -> V]

\* f begins with base and goes on as step says.
IsRun(f, len, base, step) ==
  f[0] = base /\ \A n \in 1..len : f[n] = step[<<n, f[n - 1]>>]

Runs(len, V, base, step) == {f \in [0..len -> V] : IsRun(f, len, base, step)}

\* So there is a function that is defined by recursion on the numbers up to len.
LEMMA Recursion ==
  ASSUME NEW V, NEW len \in Nat, NEW base \in V, NEW step \in Steps(len, V)
  PROVE  Runs(len, V, base, step) # {}
<1> DEFINE Begun(k, f) == f \in [0..k -> V] /\ IsRun(f, k, base, step)
           Good == {k \in Nat : k <= len => \E f : Begun(k, f)}
<1>1. 0 \in Good
  <2>1. Begun(0, [n \in 0..0 |-> base])
    BY DEF IsRun
  <2> QED
    BY <2>1
<1>2. ASSUME NEW k \in Nat, k \in Good PROVE k + 1 \in Good
  <2> SUFFICES ASSUME k + 1 <= len PROVE \E f : Begun(k + 1, f)
    OBVIOUS
  <2>1. PICK f \in [0..k -> V] : Begun(k, f)
    BY <1>2
  <2> DEFINE g == [n \in 0..(k + 1) |-> IF n = k + 1 THEN step[<<n, f[k]>>] ELSE f[n]]
  <2>2. step[<<k + 1, f[k]>>] \in V
    <3>1. f[k] \in V /\ k + 1 \in 1..len
      BY <2>1
    <3> QED
      BY <3>1 DEF Steps
  <2>3. g \in [0..(k + 1) -> V]
    BY <2>1, <2>2
  <2>4. g[0] = base
    BY <2>1 DEF IsRun
  <2>5. ASSUME NEW n \in 1..(k + 1) PROVE g[n] = step[<<n, g[n - 1]>>]
    <3>1. CASE n = k + 1
      <4>1. g[n - 1] = f[k]
        BY <3>1
      <4> QED
        BY <3>1, <4>1
    <3>2. CASE n # k + 1
      <4>1. n \in 1..k /\ n - 1 \in 0..k /\ n - 1 # k + 1
        BY <3>2
      <4>2. g[n] = f[n] /\ g[n - 1] = f[n - 1]
        BY <3>2, <4>1
      <4> QED
        BY <2>1, <4>1, <4>2 DEF IsRun
    <3> QED
      BY <3>1, <3>2
  <2>6. Begun(k + 1, g)
    BY <2>3, <2>4, <2>5 DEF IsRun
  <2> QED
    BY <2>6
<1>3. Nat \subseteq Good
  <2> HIDE DEF Good
  <2> QED
    BY <1>1, <1>2, Induction
<1>4. len \in Good
  BY <1>3
<1> QED
  BY <1>4 DEF Runs

\* Before an element of a row from 0 on there is another one.
LEMMA OneBefore ==
  ASSUME NEW V, NEW len \in Nat, NEW f \in [0..len -> V], NEW n \in 1..len
  PROVE  n - 1 \in 0..len /\ f[n - 1] \in V
<1>1. n - 1 \in 0..len
  OBVIOUS
<1> QED
  BY <1>1

-----------------------------------------------------------------------------
(* The bytes of an answer *)

\* What is a number at 0, and at n + 1 when it is one at n, is one everywhere.
LEMMA NumberedOn ==
  ASSUME NEW len \in Nat, NEW f, f[0] \in Nat, f = [n \in 0..len |-> f[n]],
         \A n \in Nat : n + 1 <= len /\ f[n] \in Nat => f[n + 1] \in Nat
  PROVE  f \in [0..len -> Nat]
<1> DEFINE Good == {n \in Nat : n <= len => f[n] \in Nat}
<1>1. 0 \in Good
  OBVIOUS
<1>2. ASSUME NEW n \in Nat, n \in Good PROVE n + 1 \in Good
  BY <1>2
<1>3. Nat \subseteq Good
  <2> HIDE DEF Good
  <2> QED
    BY <1>1, <1>2, Induction
<1>4. \A n \in 0..len : f[n] \in Nat
  BY <1>3
<1> QED
  BY <1>4

\* Total adds the chunks up.
LEMMA TotalIs ==
  ASSUME NEW chunks \in Seq(Nat)
  PROVE  \E sum \in [0..Len(chunks) -> Nat] :
           /\ sum[0] = 0 /\ \A n \in 1..Len(chunks) : sum[n] = sum[n - 1] + chunks[n]
           /\ Pages!Total(chunks) = sum[Len(chunks)]
<1> DEFINE len == Len(chunks)
           step == [p \in (1..len) \X Nat |-> p[2] + chunks[p[1]]]
           Sum(f) == f = [n \in 0..Len(chunks) |-> IF n = 0 THEN 0 ELSE f[n - 1] + chunks[n]]
           F == CHOOSE f : Sum(f)
<1>1. len \in Nat
  OBVIOUS
<1>2. step \in [(1..len) \X Nat -> Nat]
  OBVIOUS
<1>3. PICK f \in [0..len -> Nat] : f[0] = 0 /\ \A n \in 1..len : f[n] = step[<<n, f[n - 1]>>]
  <2>1. step \in Steps(len, Nat) /\ 0 \in Nat
    BY <1>2 DEF Steps
  <2> HIDE DEF len, step
  <2>2. Runs(len, Nat, 0, step) # {}
    BY <1>1, <2>1, Recursion
  <2> QED
    BY <2>2 DEF Runs, IsRun
<1>4. \A n \in 1..len : f[n] = f[n - 1] + chunks[n]
  <2> SUFFICES ASSUME NEW n \in 1..len PROVE f[n] = f[n - 1] + chunks[n]
    OBVIOUS
  <2>1. n - 1 \in 0..len /\ f[n - 1] \in Nat
    <3> HIDE DEF len, step
    <3> QED
      BY <1>1, OneBefore
  <2> QED
    BY <1>3, <2>1
<1>5. Sum(f)
  <2>1. \A n \in 0..len : f[n] = IF n = 0 THEN 0 ELSE f[n - 1] + chunks[n]
    BY <1>3, <1>4
  <2> QED
    BY <1>3, <2>1
<1>6. Sum(F)
  BY <1>5
<1>7. Pages!Total(chunks) = F[Len(chunks)]
  BY DEF Pages!Total
<1> HIDE DEF F
<1>8. F = [n \in 0..len |-> IF n = 0 THEN 0 ELSE F[n - 1] + chunks[n]]
  BY <1>6
<1>9. F[0] = 0 /\ \A n \in 1..len : F[n] = F[n - 1] + chunks[n]
  <2>1. 0 \in 0..len /\ \A n \in 1..len : n \in 0..len /\ n # 0
    BY <1>1
  <2> HIDE DEF len, Sum
  <2> QED
    BY <1>8, <2>1
<1>10. F \in [0..len -> Nat]
  <2>1. \A n \in 1..len : chunks[n] \in Nat
    OBVIOUS
  <2>2. F = [n \in 0..len |-> F[n]]
    BY <1>8
  <2> HIDE DEF len, Sum
  <2>3. ASSUME NEW n \in Nat, n + 1 <= len, F[n] \in Nat PROVE F[n + 1] \in Nat
    <3>1. n + 1 \in 1..len /\ (n + 1) - 1 = n
      BY <1>1, <2>3
    <3>2. F[n + 1] = F[n] + chunks[n + 1] /\ chunks[n + 1] \in Nat
      BY <1>9, <2>1, <3>1
    <3> QED
      BY <2>3, <3>2
  <2>4. F[0] \in Nat /\ \A n \in Nat : n + 1 <= len /\ F[n] \in Nat => F[n + 1] \in Nat
    BY <1>9, <2>3
  <2> QED
    BY <1>1, <2>2, <2>4, NumberedOn
<1> QED
  BY <1>7, <1>9, <1>10

\* Received does so until it is beyond the limit.
LEMMA ReceivedIs ==
  ASSUME NEW answer, NEW max \in Nat, answer.chunks \in Seq(Nat)
  PROVE  \E got \in [0..Len(answer.chunks) -> Nat] :
           /\ got[0] = 0
           /\ \A n \in 1..Len(answer.chunks) :
                got[n] = IF got[n - 1] > max THEN got[n - 1] ELSE got[n - 1] + answer.chunks[n]
           /\ Pages!Received(answer, max) = got[Len(answer.chunks)]
<1> DEFINE chunks == answer.chunks
           len == Len(chunks)
           step == [p \in (1..len) \X Nat |-> IF p[2] > max THEN p[2] ELSE p[2] + chunks[p[1]]]
           Sum(f) == f = [n \in 0..Len(chunks) |->
                            IF n = 0 THEN 0
                            ELSE IF f[n - 1] > max THEN f[n - 1]
                            ELSE f[n - 1] + chunks[n]]
           F == CHOOSE f : Sum(f)
<1>0. Pages!Received(answer, max) = F[len]
  BY DEF Pages!Received
<1>00. chunks \in Seq(Nat)
  OBVIOUS
<1> HIDE DEF chunks
<1>1. len \in Nat
  BY <1>00
<1>2. step \in [(1..len) \X Nat -> Nat]
  BY <1>00
<1>3. PICK f \in [0..len -> Nat] : f[0] = 0 /\ \A n \in 1..len : f[n] = step[<<n, f[n - 1]>>]
  <2>1. step \in Steps(len, Nat) /\ 0 \in Nat
    BY <1>2 DEF Steps
  <2> HIDE DEF len, step
  <2>2. Runs(len, Nat, 0, step) # {}
    BY <1>1, <2>1, Recursion
  <2> QED
    BY <2>2 DEF Runs, IsRun
<1>4. \A n \in 1..len : f[n] = IF f[n - 1] > max THEN f[n - 1] ELSE f[n - 1] + chunks[n]
  <2> SUFFICES ASSUME NEW n \in 1..len
               PROVE  f[n] = IF f[n - 1] > max THEN f[n - 1] ELSE f[n - 1] + chunks[n]
    OBVIOUS
  <2>1. n - 1 \in 0..len /\ f[n - 1] \in Nat
    <3> HIDE DEF len, step
    <3> QED
      BY <1>1, OneBefore
  <2> QED
    BY <1>3, <2>1
<1>5. Sum(f)
  <2>1. \A n \in 0..len : f[n] = IF n = 0 THEN 0 ELSE IF f[n - 1] > max THEN f[n - 1] ELSE f[n - 1] + chunks[n]
    BY <1>3, <1>4
  <2> QED
    BY <1>3, <2>1
<1>6. Sum(F)
  BY <1>5
<1> HIDE DEF F
<1>8. F[0] = 0 /\ \A n \in 1..len : F[n] = IF F[n - 1] > max THEN F[n - 1] ELSE F[n - 1] + chunks[n]
  <2>1. \A n \in 0..len : F[n] = IF n = 0 THEN 0 ELSE IF F[n - 1] > max THEN F[n - 1] ELSE F[n - 1] + chunks[n]
    BY <1>6
  <2>2. \A n \in 1..len : n \in 0..len /\ n # 0
    BY <1>1
  <2>3. 0 \in 0..len
    BY <1>1
  <2> HIDE DEF len
  <2> QED
    BY <2>1, <2>2, <2>3
<1>9. F \in [0..len -> Nat]
  <2>1. \A n \in 1..len : chunks[n] \in Nat
    BY <1>00
  <2>2. F = [n \in 0..len |-> F[n]]
    BY <1>6
  <2> HIDE DEF len, Sum
  <2>3. ASSUME NEW n \in Nat, n + 1 <= len, F[n] \in Nat PROVE F[n + 1] \in Nat
    <3>1. n + 1 \in 1..len /\ (n + 1) - 1 = n
      BY <1>1, <2>3
    <3>2. chunks[n + 1] \in Nat
      BY <2>1, <3>1
    <3>3. F[n + 1] = IF F[n] > max THEN F[n] ELSE F[n] + chunks[n + 1]
      BY <1>8, <3>1
    <3> QED
      BY <2>3, <3>2, <3>3
  <2>4. F[0] \in Nat /\ \A n \in Nat : n + 1 <= len /\ F[n] \in Nat => F[n + 1] \in Nat
    BY <1>8, <2>3
  <2> QED
    BY <1>1, <2>2, <2>4, NumberedOn
<1> QED
  BY <1>0, <1>8, <1>9 DEF chunks

\* Both agree on whether a body is within the limit: once beyond it, no chunk leads back.
LEMMA SizeOfAnyAnswer ==
  ASSUME NEW answer, NEW max \in Nat, answer.chunks \in Seq(Nat),
         answer.header \in {"none", "number", "odd"}
  PROVE  Pages!SizeIsBounded(answer, max)
<1> DEFINE chunks == answer.chunks
           len == Len(chunks)
<1>1. PICK sum \in [0..len -> Nat] :
        /\ sum[0] = 0 /\ \A n \in 1..len : sum[n] = sum[n - 1] + chunks[n]
        /\ Pages!Total(chunks) = sum[len]
  BY TotalIs
<1>2. PICK got \in [0..len -> Nat] :
        /\ got[0] = 0
        /\ \A n \in 1..len :
             got[n] = IF got[n - 1] > max THEN got[n - 1] ELSE got[n - 1] + chunks[n]
        /\ Pages!Received(answer, max) = got[len]
  BY ReceivedIs
<1>3. chunks \in Seq(Nat)
  OBVIOUS
<1>4. (got[len] <= max <=> sum[len] <= max) => Pages!SizeIsBounded(answer, max)
  BY <1>1, <1>2 DEF Pages!SizeIsBounded, Pages!Fetched
<1> HIDE DEF chunks
<1>5. len \in Nat /\ \A n \in 1..len : chunks[n] \in Nat
  BY <1>3
<1> DEFINE Good == {n \in Nat : n <= len =>
                      IF got[n] > max THEN sum[n] > max ELSE got[n] = sum[n]}
<1>6. 0 \in Good
  BY <1>1, <1>2
<1>7. ASSUME NEW n \in Nat, n \in Good PROVE n + 1 \in Good
  <2> SUFFICES ASSUME n + 1 <= len
               PROVE  IF got[n + 1] > max THEN sum[n + 1] > max ELSE got[n + 1] = sum[n + 1]
    OBVIOUS
  <2>1. n + 1 \in 1..len /\ n \in 0..len /\ (n + 1) - 1 = n
    BY <1>5
  <2>2. sum[n + 1] = sum[n] + chunks[n + 1]
    BY <1>1, <2>1
  <2>3. got[n + 1] = IF got[n] > max THEN got[n] ELSE got[n] + chunks[n + 1]
    BY <1>2, <2>1
  <2>4. sum[n] \in Nat /\ got[n] \in Nat /\ chunks[n + 1] \in Nat
    BY <1>5, <2>1
  <2>5. IF got[n] > max THEN sum[n] > max ELSE got[n] = sum[n]
    BY <1>7, <2>1
  <2> QED
    BY <2>2, <2>3, <2>4, <2>5
<1>8. Nat \subseteq Good
  <2> HIDE DEF Good
  <2> QED
    BY <1>6, <1>7, Induction
<1>9. got[len] \in Nat /\ sum[len] \in Nat
  BY <1>5
<1>10. IF got[len] > max THEN sum[len] > max ELSE got[len] = sum[len]
  BY <1>5, <1>8
<1> QED
  BY <1>4, <1>9, <1>10

-----------------------------------------------------------------------------
(* The elements of a page *)

\* An element stands in an earlier one, or in none.
LEMMA PageTypes ==
  ASSUME NEW page \in AllPages
  PROVE  /\ Len(page) \in Nat /\ DOMAIN page = 1..Len(page)
         /\ \A n \in 1..Len(page) : page[n].up \in Nat /\ page[n].up < n
<1>1. page \in Seq([kind : STRING, suffix : Nat, up : Nat]) /\ \A e \in DOMAIN page : page[e].up < e
  BY DEF AllPages
<1>2. Len(page) \in Nat /\ DOMAIN page = 1..Len(page)
  BY <1>1
<1> DEFINE Elements == [kind : STRING, suffix : Nat, up : Nat]
<1>3. \A n \in 1..Len(page) : page[n] \in Elements
  <2>1. page \in Seq(Elements)
    BY <1>1
  <2> HIDE DEF Elements
  <2> QED
    BY <2>1
<1> QED
  BY <1>1, <1>2, <1>3

\* What is around each of the first k elements.
Ups(k, page) == {f \in [0..k -> SUBSET Nat] :
    \A n \in 0..k : f[n] = IF n = 0 \/ page[n].up = 0 THEN {} ELSE {page[n].up} \cup f[page[n].up]}

\* There is such a function, since what is around an element comes before it.
LEMMA UpsExist ==
  ASSUME NEW page \in AllPages
  PROVE  Ups(Len(page), page) # {}
<1> DEFINE Bad == {k \in 0..Len(page) : Ups(k, page) = {}}
<1> SUFFICES ASSUME Bad # {} PROVE FALSE
  BY PageTypes
<1>1. PICK k \in Bad : \A m \in Bad : k <= m
  <2>1. Bad \subseteq Nat
    BY PageTypes
  <2> QED
    BY <2>1, Least
<1>2. k \in Nat /\ k <= Len(page) /\ Len(page) \in Nat
  BY PageTypes
<1>3. k # 0
  <2>1. [n \in 0..0 |-> {}] \in Ups(0, page)
    BY DEF Ups
  <2> QED
    BY <2>1
<1>4. k - 1 \in 0..Len(page) /\ k - 1 \notin Bad /\ k \in 1..Len(page)
  BY <1>1, <1>2, <1>3
<1>5. PICK f \in Ups(k - 1, page) : TRUE
  BY <1>4
<1>6. /\ f \in [0..(k - 1) -> SUBSET Nat]
      /\ \A n \in 0..(k - 1) : f[n] = IF n = 0 \/ page[n].up = 0 THEN {} ELSE {page[n].up} \cup f[page[n].up]
  BY <1>5 DEF Ups
<1>7. page[k].up \in Nat /\ page[k].up < k
  BY <1>4, PageTypes
<1> DEFINE last == IF page[k].up = 0 THEN {} ELSE {page[k].up} \cup f[page[k].up]
           g == [n \in 0..k |-> IF n = k THEN last ELSE f[n]]
<1>8. last \in SUBSET Nat
  BY <1>2, <1>6, <1>7
<1> HIDE DEF last
<1>9. g \in [0..k -> SUBSET Nat]
  BY <1>2, <1>6, <1>8
<1>10. ASSUME NEW n \in 0..k
       PROVE  g[n] = IF n = 0 \/ page[n].up = 0 THEN {} ELSE {page[n].up} \cup g[page[n].up]
  <2>1. CASE n = k
    <3>1. page[k].up \in 0..k /\ page[k].up # k
      BY <1>2, <1>7
    <3>2. g[page[k].up] = f[page[k].up]
      BY <3>1
    <3>3. g[n] = last
      BY <2>1
    <3> HIDE DEF g
    <3> QED
      BY <1>3, <2>1, <3>2, <3>3 DEF last
  <2>2. CASE n # k
    <3>1. n \in 0..(k - 1) /\ g[n] = f[n]
      BY <1>2, <2>2
    <3>2. CASE n = 0
      <4> HIDE DEF g
      <4> QED
        BY <1>6, <3>1, <3>2
    <3>3. CASE n # 0
      <4>1. n \in 1..Len(page)
        BY <1>2, <3>1, <3>3
      <4>2. page[n].up \in Nat /\ page[n].up < n
        BY <4>1, PageTypes
      <4>3. page[n].up \in 0..k /\ page[n].up # k
        BY <1>2, <3>1, <4>2
      <4>4. g[page[n].up] = f[page[n].up]
        BY <4>3
      <4> HIDE DEF g
      <4> QED
        BY <1>6, <3>1, <4>4
    <3> QED
      BY <3>2, <3>3
  <2> QED
    BY <2>1, <2>2
<1>11. g \in Ups(k, page)
  <2> HIDE DEF g
  <2> QED
    BY <1>9, <1>10 DEF Ups
<1> QED
  BY <1>11

\* Around an element are the one it stands in and what is around that.
LEMMA AroundIs ==
  ASSUME NEW page \in AllPages, NEW e \in 1..Len(page)
  PROVE  Pages!Around(page, e)
           = IF page[e].up = 0 THEN {} ELSE {page[e].up} \cup Pages!Around(page, page[e].up)
<1> DEFINE Sol(f) == f = [n \in 0..Len(page) |-> IF n = 0 \/ page[n].up = 0 THEN {} ELSE {page[n].up} \cup f[page[n].up]]
           F == CHOOSE f : Sol(f)
<1>1. PICK f \in Ups(Len(page), page) : TRUE
  BY UpsExist
<1>2. Sol(f)
  BY <1>1 DEF Ups
<1>3. Sol(F)
  BY <1>2
<1>4. Pages!Around(page, e) = F[e] /\ Pages!Around(page, page[e].up) = F[page[e].up]
  BY DEF Pages!Around
<1>5. e \in 0..Len(page) /\ e # 0
  BY PageTypes
<1> HIDE DEF F
<1> QED
  BY <1>3, <1>4, <1>5

\* What is around something around e is around e.
LEMMA AroundTransitive ==
  ASSUME NEW page \in AllPages, NEW c, NEW d
  PROVE  \A e \in DOMAIN page :
           c \in Pages!Around(page, d) /\ d \in Pages!Around(page, e) => c \in Pages!Around(page, e)
<1> DEFINE Bad == {e \in 1..Len(page) :
                     /\ c \in Pages!Around(page, d) /\ d \in Pages!Around(page, e)
                     /\ c \notin Pages!Around(page, e)}
<1> SUFFICES ASSUME Bad # {} PROVE FALSE
  BY PageTypes
<1>1. PICK e \in Bad : \A m \in Bad : e <= m
  <2>1. Bad \subseteq Nat
    BY PageTypes
  <2> QED
    BY <2>1, Least
<1> DEFINE up == page[e].up
<1>2. up \in Nat /\ up < e /\ e \in 1..Len(page) /\ Len(page) \in Nat
  BY <1>1, PageTypes
<1>3. up # 0 /\ Pages!Around(page, e) = {up} \cup Pages!Around(page, up)
  BY <1>1, AroundIs
<1> HIDE DEF up
<1>4. up \in 1..Len(page)
  BY <1>2, <1>3
<1>5. up \notin Bad
  <2> HIDE DEF Bad
  <2> QED
    BY <1>1, <1>2
<1> QED
  BY <1>1, <1>3, <1>4, <1>5

\* Of two elements around the same one, one is around the other.
LEMMA AroundNested ==
  ASSUME NEW page \in AllPages, NEW c, NEW d
  PROVE  \A e \in DOMAIN page :
           c \in Pages!Around(page, e) /\ d \in Pages!Around(page, e) =>
             c = d \/ c \in Pages!Around(page, d) \/ d \in Pages!Around(page, c)
<1> DEFINE Bad == {e \in 1..Len(page) :
                     /\ c \in Pages!Around(page, e) /\ d \in Pages!Around(page, e)
                     /\ c # d /\ c \notin Pages!Around(page, d) /\ d \notin Pages!Around(page, c)}
<1> SUFFICES ASSUME Bad # {} PROVE FALSE
  BY PageTypes
<1>1. PICK e \in Bad : \A m \in Bad : e <= m
  <2>1. Bad \subseteq Nat
    BY PageTypes
  <2> QED
    BY <2>1, Least
<1> DEFINE up == page[e].up
<1>2. up \in Nat /\ up < e /\ e \in 1..Len(page) /\ Len(page) \in Nat
  BY <1>1, PageTypes
<1>3. up # 0 /\ Pages!Around(page, e) = {up} \cup Pages!Around(page, up)
  BY <1>1, AroundIs
<1> HIDE DEF up
<1>4. up \in 1..Len(page)
  BY <1>2, <1>3
<1>5. up \notin Bad
  <2> HIDE DEF Bad
  <2> QED
    BY <1>1, <1>2
<1> QED
  BY <1>1, <1>3, <1>4, <1>5

\* So if two usernames share a password, the inner of their cards is in the outer one,
\* which then has both.
LEMMA PairsOfAnyPage ==
  ASSUME NEW page \in AllPages
  PROVE  Pages!OnePasswordEach(page)
<1> SUFFICES ASSUME NEW x \in Pages!ParseHtml(page), NEW y \in Pages!ParseHtml(page)
             PROVE  x[1] = y[1] <=> x[2] = y[2]
  BY DEF Pages!OnePasswordEach
<1> DEFINE In(c) == Pages!Inside(page, c)
           c == Pages!ClosestCard(page, x[1])
           d == Pages!ClosestCard(page, y[1])
           Users(card, n) == {e \in In(card) : page[e].kind \in {"user", "odd"} /\ page[e].suffix = n}
           Words(card, n) == {e \in In(card) : page[e].kind \in {"pass"} /\ page[e].suffix = n}
<1>1. /\ {x[1]} = Users(c, page[x[1]].suffix) /\ {x[2]} = Words(c, page[x[1]].suffix)
      /\ {y[1]} = Users(d, page[y[1]].suffix) /\ {y[2]} = Words(d, page[y[1]].suffix)
      /\ page[x[1]].kind = "user" /\ page[y[1]].kind = "user"
  BY DEF Pages!ParseHtml, Pages!Paired, Pages!Buttons
<1>2. ASSUME x[1] = y[1] PROVE x[2] = y[2]
  BY <1>1, <1>2
<1>3. ASSUME x[2] = y[2] PROVE x[1] = y[1]
  <2> DEFINE n == page[x[1]].suffix
  <2> HIDE DEF c, d
  <2>1. page[x[2]].suffix = n /\ page[y[1]].suffix = n
    BY <1>1, <1>3
  <2>2. x[1] \in In(c) /\ y[1] \in In(d) /\ x[2] \in In(c) /\ x[2] \in In(d)
    BY <1>1, <1>3
  <2>3. /\ x[1] \in DOMAIN page /\ y[1] \in DOMAIN page /\ x[2] \in DOMAIN page
        /\ c \in Pages!Around(page, x[1]) /\ d \in Pages!Around(page, y[1])
        /\ c \in Pages!Around(page, x[2]) /\ d \in Pages!Around(page, x[2])
    BY <2>2 DEF Pages!Inside
  <2>4. CASE c = d
    BY <1>1, <2>1, <2>4
  <2>5. CASE c \in Pages!Around(page, d)
    <3>1. c \in Pages!Around(page, y[1])
      BY <2>3, <2>5, AroundTransitive
    <3>2. y[1] \in Users(c, n)
      BY <1>1, <2>1, <2>3, <3>1 DEF Pages!Inside
    <3> QED
      BY <1>1, <3>2
  <2>6. CASE d \in Pages!Around(page, c)
    <3>1. d \in Pages!Around(page, x[1])
      BY <2>3, <2>6, AroundTransitive
    <3>2. x[1] \in Users(d, n)
      BY <1>1, <2>1, <2>3, <3>1 DEF Pages!Inside
    <3> QED
      BY <1>1, <2>1, <3>2
  <2> QED
    BY <2>3, <2>4, <2>5, <2>6, AroundNested
<1> QED
  BY <1>2, <1>3

\* PagesSound: of every answer the adapters accept a body exactly if it comes with status
\* 200, is within the limit and declares nothing beyond it, and they pair each username with
\* one password, in every page.
THEOREM PagesOfAnySource == input \in Inputs => PagesSound
<1>1. input \in Inputs /\ input.of = "answer" =>
        /\ input.answer.chunks \in Seq(Nat)
        /\ input.answer.header \in {"none", "number", "odd"}
  BY DEF Inputs, AllAnswers
<1>2. input \in Inputs /\ input.of = "page" => input.page \in AllPages
  BY DEF Inputs
<1>3. QED
  BY <1>1, <1>2, BytesAssumption, SizeOfAnyAnswer, PairsOfAnyPage DEF PagesSound

-----------------------------------------------------------------------------
(* Sorting *)

\* Cardinality is the same in the module of the merge.
LEMMA CardinalityIs ==
  ASSUME NEW S PROVE Pool!Cardinality(S) = Cardinality(S)
BY DEF Pool!Cardinality, Cardinality

\* SetToSeqs gives the sequences that have each element once.
LEMMA SeqsAre ==
  ASSUME NEW S
  PROVE  Pool!SetToSeqs(S) = {f \in [1..Cardinality(S) -> S] : \A i, j \in 1..Cardinality(S) : i # j => f[i] # f[j]}
BY CardinalityIs DEF Pool!SetToSeqs

\* What is compared when a pool is sorted.
Dated == [user : DOMAIN Folded, id : Nat, synced : Nat, row : Nat \X Nat]

\* A finite set has an account that comes before no other.
LEMMA LastOfAnySet ==
  ASSUME NEW S, S \subseteq Dated, IsFiniteSet(S), S # {}
  PROVE  \E x \in S : \A y \in S : ~ Pool!Before(x, y)
<1> DEFINE HasLast(T) == \E x \in T : \A y \in T : ~ Pool!Before(x, y)
           Good == {n \in Nat : \A T \in SUBSET S : IsFiniteSet(T) /\ Cardinality(T) = n + 1 => HasLast(T)}
<1>0. \A x, y, z \in Dated : ~ Pool!Before(x, y) /\ ~ Pool!Before(y, z) => ~ Pool!Before(x, z)
  BY DEF Dated, Pool!Before
<1>00. \A x \in Dated, y \in Dated : ~ Pool!Before(x, x) /\ ~ (Pool!Before(x, y) /\ Pool!Before(y, x))
  BY DEF Dated, Pool!Before
<1>1. 0 \in Good
  <2> SUFFICES ASSUME NEW T \in SUBSET S, IsFiniteSet(T), Cardinality(T) = 1 PROVE HasLast(T)
    OBVIOUS
  <2>1. PICK x : T = {x}
    BY FS_Singleton
  <2> QED
    BY <1>00, <2>1
<1>2. ASSUME NEW n \in Nat, n \in Good PROVE n + 1 \in Good
  <2> SUFFICES ASSUME NEW T \in SUBSET S, IsFiniteSet(T), Cardinality(T) = n + 2 PROVE HasLast(T)
    OBVIOUS
  <2>1. T # {}
    BY FS_EmptySet
  <2>2. PICK z \in T : TRUE
    BY <2>1
  <2>3. IsFiniteSet(T \ {z}) /\ Cardinality(T \ {z}) = n + 1
    BY <2>2, FS_RemoveElement
  <2>4. PICK x \in T \ {z} : \A y \in T \ {z} : ~ Pool!Before(x, y)
    BY <1>2, <2>3
  <2>5. CASE ~ Pool!Before(x, z)
    BY <2>4, <2>5
  <2>6. CASE Pool!Before(x, z)
    <3>1. ~ Pool!Before(z, x) /\ ~ Pool!Before(z, z)
      BY <1>00, <2>2, <2>4, <2>6
    <3>2. \A y \in T \ {z} : ~ Pool!Before(z, y)
      BY <1>0, <2>2, <2>4, <3>1
    <3> QED
      BY <2>2, <3>1, <3>2
  <2> QED
    BY <2>5, <2>6
<1>3. Nat \subseteq Good
  <2> HIDE DEF Good
  <2> QED
    BY <1>1, <1>2, Induction
<1>4. Cardinality(S) \in Nat /\ Cardinality(S) # 0
  BY FS_CardinalityType, FS_EmptySet
<1>5. Cardinality(S) - 1 \in Good
  BY <1>3, <1>4
<1> QED
  BY <1>4, <1>5

\* So it can be sorted: the last account goes to the end.
LEMMA SortingExists ==
  ASSUME NEW S, S \subseteq Dated, IsFiniteSet(S)
  PROVE  \E pool \in Pool!SetToSeqs(S) : Pool!Sorted(pool)
<1> DEFINE Sorts(T, f) ==
             /\ f \in [1..Cardinality(T) -> T]
             /\ \A i, j \in 1..Cardinality(T) : i # j => f[i] # f[j]
             /\ \A i, j \in 1..Cardinality(T) : i < j => ~ Pool!Before(f[j], f[i])
           Good == {n \in Nat : \A T \in SUBSET S :
                      IsFiniteSet(T) /\ Cardinality(T) = n => \E f : Sorts(T, f)}
<1>1. 0 \in Good
  <2> SUFFICES ASSUME NEW T \in SUBSET S, IsFiniteSet(T), Cardinality(T) = 0 PROVE \E f : Sorts(T, f)
    OBVIOUS
  <2>1. Sorts(T, [i \in 1..0 |-> i])
    OBVIOUS
  <2> QED
    BY <2>1
<1>2. ASSUME NEW n \in Nat, n \in Good PROVE n + 1 \in Good
  <2> SUFFICES ASSUME NEW T \in SUBSET S, IsFiniteSet(T), Cardinality(T) = n + 1
               PROVE  \E f : Sorts(T, f)
    OBVIOUS
  <2>1. T # {}
    BY FS_EmptySet
  <2>2. PICK x \in T : \A y \in T : ~ Pool!Before(x, y)
    BY <2>1, LastOfAnySet
  <2>3. IsFiniteSet(T \ {x}) /\ Cardinality(T \ {x}) = n
    <3>1. IsFiniteSet(T \ {x}) /\ Cardinality(T \ {x}) = Cardinality(T) - 1
      BY <2>2, FS_RemoveElement
    <3> QED
      BY <3>1
  <2>4. PICK f : Sorts(T \ {x}, f)
    BY <1>2, <2>3
  <2> DEFINE g == [i \in 1..(n + 1) |-> IF i = n + 1 THEN x ELSE f[i]]
  <2>5. /\ f \in [1..n -> T \ {x}]
        /\ \A i, j \in 1..n : i # j => f[i] # f[j]
        /\ \A i, j \in 1..n : i < j => ~ Pool!Before(f[j], f[i])
    BY <2>3, <2>4
  <2>6. ASSUME NEW i \in 1..(n + 1)
        PROVE  (i = n + 1 /\ g[i] = x) \/ (i \in 1..n /\ g[i] = f[i] /\ f[i] \in T \ {x})
    BY <2>5
  <2>7. g \in [1..(n + 1) -> T]
    BY <2>2, <2>6
  <2>8. ASSUME NEW i \in 1..(n + 1), NEW j \in 1..(n + 1), i # j PROVE g[i] # g[j]
    <3> HIDE DEF g
    <3> QED
      BY <2>5, <2>6, <2>8
  <2>9. ASSUME NEW i \in 1..(n + 1), NEW j \in 1..(n + 1), i < j PROVE ~ Pool!Before(g[j], g[i])
    <3> HIDE DEF g
    <3>1. i \in 1..n
      BY <2>9
    <3>2. g[i] = f[i] /\ f[i] \in T
      BY <2>6, <3>1
    <3> QED
      BY <2>2, <2>5, <2>6, <2>9, <3>1, <3>2
  <2>10. Sorts(T, g)
    <3> HIDE DEF g
    <3> QED
      BY <2>7, <2>8, <2>9
  <2> QED
    BY <2>10
<1>3. Nat \subseteq Good
  <2> HIDE DEF Good
  <2> QED
    BY <1>1, <1>2, Induction
<1>4. Cardinality(S) \in Nat
  BY FS_CardinalityType
<1>5. PICK f : Sorts(S, f)
  BY <1>3, <1>4
<1>6. f \in Pool!SetToSeqs(S)
  BY <1>5, SeqsAre
<1>7. Pool!Sorted(f)
  BY <1>5 DEF Pool!Sorted
<1> QED
  BY <1>6, <1>7

-----------------------------------------------------------------------------
(* The merge *)

\* The accounts of slices: ids are the numbers of folded names.
Accounts == {acc \in Dated : acc.id = Folded[acc.user]}

\* What the loop may keep.
Kept == UNION {[K -> Accounts] : K \in SUBSET Nat}

\* f has, of the first n accounts, the first of the freshest for each id.
KeepsFirst(f, all, n) ==
  /\ f \in Kept
  /\ \A j \in 1..n : all[j].id \in DOMAIN f
  /\ \A k \in DOMAIN f : \E m \in 1..n :
       /\ f[k] = all[m] /\ all[m].id = k
       /\ \A j \in 1..n : all[j].id = k =>
            /\ all[m].synced >= all[j].synced
            /\ all[m].synced = all[j].synced => m <= j

\* The loop's key is the id.
LEMMA AccountTypes ==
  \A acc \in Accounts : acc.id \in Nat /\ acc.synced \in Nat /\ Pool!Key(acc) = acc.id
BY DEF Accounts, Dated, Pool!Key

\* Members of Kept, without naming their domains.
LEMMA KeptIs ==
  \A f : f \in Kept <=> f = [k \in DOMAIN f |-> f[k]] /\ DOMAIN f \subseteq Nat /\ \A k \in DOMAIN f : f[k] \in Accounts
<1>1. ASSUME NEW f \in Kept
      PROVE  f = [k \in DOMAIN f |-> f[k]] /\ DOMAIN f \subseteq Nat /\ \A k \in DOMAIN f : f[k] \in Accounts
  <2>1. PICK K \in SUBSET Nat : f \in [K -> Accounts]
    BY DEF Kept
  <2> QED
    BY <2>1
<1>2. ASSUME NEW f, f = [k \in DOMAIN f |-> f[k]], DOMAIN f \subseteq Nat, \A k \in DOMAIN f : f[k] \in Accounts
      PROVE  f \in Kept
  <2>1. f \in [DOMAIN f -> Accounts]
    BY <1>2
  <2> QED
    BY <1>2, <2>1 DEF Kept
<1> QED
  BY <1>1, <1>2

\* One turn of the loop turns f into g.
Turns(f, acc, g) ==
  /\ g \in Kept
  /\ DOMAIN g = DOMAIN f \cup {acc.id}
  /\ \A k \in DOMAIN f : k # acc.id => g[k] = f[k]
  /\ acc.id \in DOMAIN f /\ f[acc.id].synced >= acc.synced => g[acc.id] = f[acc.id]
  /\ acc.id \notin DOMAIN f \/ acc.synced > f[acc.id].synced => g[acc.id] = acc

\* Keep does that.
LEMMA KeepIs ==
  ASSUME NEW f \in Kept, NEW acc \in Accounts
  PROVE  Turns(f, acc, Pool!Keep(f, acc))
<1> SUFFICES ASSUME NEW g, g = Pool!Keep(f, acc) PROVE Turns(f, acc, g)
  OBVIOUS
<1>1. acc.id \in Nat /\ acc.synced \in Nat /\ Pool!Key(acc) = acc.id
  BY AccountTypes
<1>2. f = [k \in DOMAIN f |-> f[k]] /\ DOMAIN f \subseteq Nat /\ \A k \in DOMAIN f : f[k] \in Accounts
  BY KeptIs
<1>3. acc.id \in DOMAIN f => f[acc.id].synced \in Nat
  BY <1>2, AccountTypes
<1>4. CASE acc.id \in DOMAIN f /\ ~ (acc.synced > f[acc.id].synced)
  <2>1. g = f
    BY <1>1, <1>4 DEF Pool!Keep, Pool!Replaces
  <2> QED
    BY <1>1, <1>3, <1>4, <2>1 DEF Turns
<1>5. CASE ~ (acc.id \in DOMAIN f /\ ~ (acc.synced > f[acc.id].synced))
  <2>1. g = [j \in DOMAIN f \cup {acc.id} |-> IF j = acc.id THEN acc ELSE f[j]]
    BY <1>1, <1>5 DEF Pool!Keep, Pool!Replaces
  <2>2. DOMAIN g = DOMAIN f \cup {acc.id} /\ \A j \in DOMAIN g : g[j] = IF j = acc.id THEN acc ELSE f[j]
    BY <2>1
  <2>3. g = [j \in DOMAIN g |-> g[j]]
    BY <2>1
  <2>4. g \in Kept
    BY <1>1, <1>2, <2>2, <2>3, KeptIs
  <2> QED
    BY <1>1, <1>3, <1>5, <2>2, <2>4 DEF Turns
<1> QED
  BY <1>4, <1>5

\* One more account: it replaces the one kept only if it is fresher.
LEMMA StepKeeps ==
  ASSUME NEW all \in Seq(Accounts), NEW n \in Nat, n + 1 <= Len(all), NEW f, KeepsFirst(f, all, n)
  PROVE  KeepsFirst(Pool!Keep(f, all[n + 1]), all, n + 1)
<1> DEFINE g == Pool!Keep(f, all[n + 1])
           acc == all[n + 1]
<1>1. Len(all) \in Nat /\ n + 1 \in 1..Len(all) /\ \A j \in 1..(n + 1) : all[j] \in Accounts
  OBVIOUS
<1>2. f \in Kept /\ acc \in Accounts
  BY <1>1 DEF KeepsFirst
<1>3. /\ g \in Kept
      /\ DOMAIN g = DOMAIN f \cup {acc.id}
      /\ \A k \in DOMAIN f : k # acc.id => g[k] = f[k]
      /\ acc.id \in DOMAIN f /\ f[acc.id].synced >= acc.synced => g[acc.id] = f[acc.id]
      /\ acc.id \notin DOMAIN f \/ acc.synced > f[acc.id].synced => g[acc.id] = acc
  BY <1>2, KeepIs DEF Turns
<1> HIDE DEF g
<1>4. \A j \in 1..(n + 1) : all[j].id \in Nat /\ all[j].synced \in Nat /\ (j \in 1..n \/ j = n + 1)
  BY <1>1, AccountTypes
<1>5. \A j \in 1..(n + 1) : all[j].id \in DOMAIN g
  BY <1>3, <1>4 DEF KeepsFirst
<1>6. ASSUME NEW k \in DOMAIN g
      PROVE  \E m \in 1..(n + 1) :
               /\ g[k] = all[m] /\ all[m].id = k
               /\ \A j \in 1..(n + 1) : all[j].id = k =>
                    /\ all[m].synced >= all[j].synced
                    /\ all[m].synced = all[j].synced => m <= j
  <2>1. CASE k \in DOMAIN f /\ ~ (k = acc.id /\ acc.synced > f[acc.id].synced)
    <3>1. PICK m \in 1..n :
            /\ f[k] = all[m] /\ all[m].id = k
            /\ \A j \in 1..n : all[j].id = k =>
                 /\ all[m].synced >= all[j].synced
                 /\ all[m].synced = all[j].synced => m <= j
      BY <2>1 DEF KeepsFirst
    <3>2. m \in 1..(n + 1) /\ m <= n + 1
      OBVIOUS
    <3>3. g[k] = f[k]
      BY <1>3, <1>4, <2>1, <3>1, <3>2
    <3>4. all[n + 1].id = k => all[m].synced >= all[n + 1].synced
      BY <1>4, <2>1, <3>1, <3>2
    <3> QED
      BY <1>4, <3>1, <3>2, <3>3, <3>4
  <2>2. CASE k = acc.id /\ (k \notin DOMAIN f \/ acc.synced > f[acc.id].synced)
    <3>1. g[k] = all[n + 1]
      BY <1>3, <2>2
    <3>2. ASSUME NEW j \in 1..n, all[j].id = k PROVE all[n + 1].synced > all[j].synced
      <4>1. k \in DOMAIN f
        BY <3>2 DEF KeepsFirst
      <4>2. PICK m \in 1..n :
              /\ f[k] = all[m] /\ all[m].id = k
              /\ \A i \in 1..n : all[i].id = k => all[m].synced >= all[i].synced
        BY <4>1 DEF KeepsFirst
      <4>3. all[m].synced \in Nat /\ all[j].synced \in Nat /\ all[n + 1].synced \in Nat
        <5>1. m \in 1..(n + 1) /\ j \in 1..(n + 1) /\ n + 1 \in 1..(n + 1)
          OBVIOUS
        <5> QED
          BY <1>4, <5>1
      <4>4. all[n + 1].synced > all[m].synced
        BY <2>2, <4>1, <4>2
      <4>5. all[m].synced >= all[j].synced
        BY <3>2, <4>2
      <4> QED
        BY <4>3, <4>4, <4>5
    <3>3. all[n + 1].id = k /\ n + 1 \in 1..(n + 1) /\ all[n + 1].synced \in Nat
      BY <1>4, <2>2
    <3>4. ASSUME NEW j \in 1..(n + 1), all[j].id = k
          PROVE  all[n + 1].synced >= all[j].synced /\ (all[n + 1].synced = all[j].synced => n + 1 <= j)
      BY <1>4, <3>2, <3>3, <3>4
    <3> QED
      BY <3>1, <3>3, <3>4
  <2> QED
    BY <1>3, <2>1, <2>2
<1>7. KeepsFirst(g, all, n + 1)
  BY <1>3, <1>5, <1>6 DEF KeepsFirst
<1> QED
  BY <1>7 DEF g

\* So the loop ends with the first of the freshest.
LEMMA UniqueIs ==
  ASSUME NEW all \in Seq(Accounts)
  PROVE  KeepsFirst(Pool!Unique(all), all, Len(all))
<1> DEFINE len == Len(all)
           step == [p \in (1..len) \X Kept |-> Pool!Keep(p[2], all[p[1]])]
           Sol(f) == f = [n \in 0..Len(all) |-> IF n = 0 THEN <<>> ELSE Pool!Keep(f[n - 1], all[n])]
           F == CHOOSE f : Sol(f)
<1>1. len \in Nat /\ \A n \in 1..len : all[n] \in Accounts
  OBVIOUS
<1>2. <<>> \in Kept
  <2>1. <<>> \in [{} -> Accounts]
    OBVIOUS
  <2> QED
    BY <2>1 DEF Kept
<1>3. \A f \in Kept, acc \in Accounts : Pool!Keep(f, acc) \in Kept
  BY KeepIs DEF Turns
<1>4. step \in Steps(len, Kept)
  BY <1>1, <1>3 DEF Steps
<1>5. PICK f \in [0..len -> Kept] : f[0] = <<>> /\ \A n \in 1..len : f[n] = step[<<n, f[n - 1]>>]
  <2> HIDE DEF len, step
  <2>1. Runs(len, Kept, <<>>, step) # {}
    BY <1>1, <1>2, <1>4, Recursion
  <2> QED
    BY <2>1 DEF Runs, IsRun
<1>6. \A n \in 1..len : f[n] = Pool!Keep(f[n - 1], all[n])
  <2> SUFFICES ASSUME NEW n \in 1..len PROVE f[n] = Pool!Keep(f[n - 1], all[n])
    OBVIOUS
  <2>1. n - 1 \in 0..len /\ f[n - 1] \in Kept
    BY <1>5
  <2> QED
    BY <1>5, <2>1
<1>7. Sol(f)
  <2>1. \A n \in 0..len : f[n] = IF n = 0 THEN <<>> ELSE Pool!Keep(f[n - 1], all[n])
    BY <1>5, <1>6
  <2> QED
    BY <1>5, <2>1
<1>8. Sol(F)
  BY <1>7
<1>9. Pool!Unique(all) = F[len]
  BY DEF Pool!Unique
<1> HIDE DEF F
<1> DEFINE Good == {n \in Nat : n <= len => KeepsFirst(F[n], all, n)}
<1>10. 0 \in Good
  <2>1. F[0] = <<>>
    BY <1>1, <1>8
  <2>2. KeepsFirst(<<>>, all, 0)
    BY <1>2 DEF KeepsFirst
  <2> QED
    BY <2>1, <2>2
<1>11. ASSUME NEW n \in Nat, n \in Good PROVE n + 1 \in Good
  <2> SUFFICES ASSUME n + 1 <= len PROVE KeepsFirst(F[n + 1], all, n + 1)
    OBVIOUS
  <2>1. n + 1 \in 0..Len(all) /\ n + 1 # 0 /\ (n + 1) - 1 = n /\ n <= len
    BY <1>1
  <2>2. F[n + 1] = Pool!Keep(F[n], all[n + 1])
    BY <1>8, <2>1
  <2>3. KeepsFirst(F[n], all, n)
    BY <1>11, <2>1
  <2> QED
    BY <2>2, <2>3, StepKeeps
<1>12. Nat \subseteq Good
  <2> HIDE DEF Good
  <2> QED
    BY <1>10, <1>11, Induction
<1> QED
  BY <1>1, <1>9, <1>12

\* What is taken from a sequence is finite.
LEMMA FiniteRange ==
  ASSUME NEW S, NEW s \in Seq(S), NEW T, T \subseteq {s[m] : m \in 1..Len(s)}
  PROVE  IsFiniteSet(T)
<1> DEFINE R == {s[m] : m \in 1..Len(s)}
<1>1. Len(s) \in Nat /\ IsFiniteSet(1..Len(s))
  BY FS_Interval
<1>2. [m \in 1..Len(s) |-> s[m]] \in Surjection(1..Len(s), R)
  BY DEF Surjection
<1>3. IsFiniteSet(R)
  <2> HIDE DEF R
  <2> QED
    BY <1>1, <1>2, FS_Surjection
<1> QED
  BY <1>3, FS_Subset

\* pool is a sorted sequence of the accounts kept, each once.
IsPool(pool, kept) ==
  /\ Len(pool) \in Nat /\ DOMAIN pool = 1..Len(pool)
  /\ \A i \in 1..Len(pool) : \E k \in DOMAIN kept : pool[i] = kept[k]
  /\ \A k \in DOMAIN kept : \E i \in 1..Len(pool) : pool[i] = kept[k]
  /\ \A i, j \in 1..Len(pool) : i # j => pool[i] # pool[j]
  /\ Pool!Sorted(pool)

\* The pool is one.
LEMMA PoolIs ==
  ASSUME NEW all \in Seq(Accounts)
  PROVE  IsPool(Pool!PoolOf(all), Pool!Unique(all))
<1> DEFINE kept == Pool!Unique(all)
           S == {kept[k] : k \in DOMAIN kept}
           pool == Pool!PoolOf(all)
           n == Cardinality(S)
<1>1. KeepsFirst(kept, all, Len(all))
  BY UniqueIs
<1>2. S \subseteq {all[m] : m \in 1..Len(all)}
  BY <1>1 DEF KeepsFirst
<1>3. S \subseteq Dated
  <2>1. \A m \in 1..Len(all) : all[m] \in Accounts
    OBVIOUS
  <2> QED
    BY <1>2, <2>1 DEF Accounts
<1>4. IsFiniteSet(S)
  BY <1>2, FiniteRange
<1>5. Pool!Range(kept) = S
  BY DEF Pool!Range
<1>6. pool = CHOOSE p \in Pool!SetToSeqs(S) : Pool!Sorted(p)
  BY <1>5 DEF Pool!PoolOf
<1> HIDE DEF S, pool
<1>7. pool \in Pool!SetToSeqs(S) /\ Pool!Sorted(pool)
  BY <1>3, <1>4, <1>6, SortingExists
<1>8. pool \in [1..n -> S] /\ \A i, j \in 1..n : i # j => pool[i] # pool[j]
  BY <1>7, SeqsAre
<1>9. n \in Nat
  BY <1>4, FS_CardinalityType
<1> HIDE DEF n
<1>10. Len(pool) = n /\ DOMAIN pool = 1..n
  BY <1>8, <1>9
<1>11. \A x \in S : \E i \in 1..n : pool[i] = x
  <2>1. IsFiniteSet(1..n) /\ Cardinality(1..n) = n
    BY <1>9, FS_Interval
  <2>2. pool \in Injection(1..n, S)
    BY <1>8 DEF Injection, IsInjective
  <2>3. pool \in Surjection(1..n, S)
    BY <1>4, <2>1, <2>2, FS_Injection DEF n
  <2> QED
    BY <2>3 DEF Surjection
<1>12. IsPool(pool, kept)
  <2> HIDE DEF kept
  <2> QED
    BY <1>7, <1>8, <1>9, <1>10, <1>11 DEF S, IsPool
<1> QED
  BY <1>12 DEF pool

\* What the pool promises, of any list of accounts.
LEMMA PoolOfAnyAccounts ==
  ASSUME NEW all \in Seq(Accounts)
  PROVE  Pool!PoolSound(all)
<1> DEFINE pool == Pool!PoolOf(all)
           kept == Pool!Unique(all)
<1>1. /\ Len(pool) \in Nat /\ DOMAIN pool = 1..Len(pool)
      /\ \A i \in 1..Len(pool) : \E k \in DOMAIN kept : pool[i] = kept[k]
      /\ \A k \in DOMAIN kept : \E i \in 1..Len(pool) : pool[i] = kept[k]
      /\ \A i, j \in 1..Len(pool) : i # j => pool[i] # pool[j]
      /\ Pool!Sorted(pool)
  BY PoolIs DEF IsPool
<1>2. KeepsFirst(kept, all, Len(all))
  BY UniqueIs
<1> HIDE DEF pool, kept
<1>3. \A m \in 1..Len(all) : all[m] \in Accounts /\ all[m].id \in Nat /\ all[m].synced \in Nat
  <2>1. \A m \in 1..Len(all) : all[m] \in Accounts
    OBVIOUS
  <2> QED
    BY <2>1, AccountTypes
<1>4. \A k \in DOMAIN kept : kept[k].id = k
  BY <1>2 DEF KeepsFirst
<1>5. \A i, j \in 1..Len(pool) : pool[i].id = pool[j].id => i = j
  BY <1>1, <1>4
<1>6. ASSUME NEW n \in 1..Len(all)
      PROVE  \E i \in 1..Len(pool), m \in 1..Len(all) :
               /\ pool[i] = all[m] /\ all[m].id = all[n].id
               /\ all[m].synced >= all[n].synced
               /\ all[m].synced = all[n].synced => m <= n
  <2>1. all[n].id \in DOMAIN kept
    BY <1>2 DEF KeepsFirst
  <2>2. PICK m \in 1..Len(all) :
          /\ kept[all[n].id] = all[m] /\ all[m].id = all[n].id
          /\ all[m].synced >= all[n].synced
          /\ all[m].synced = all[n].synced => m <= n
    BY <1>2, <2>1 DEF KeepsFirst
  <2>3. PICK i \in 1..Len(pool) : pool[i] = kept[all[n].id]
    BY <1>1, <2>1
  <2> QED
    BY <2>2, <2>3
<1>7. \A i \in 1..Len(pool) : pool[i].id \in Nat /\ pool[i].synced \in Nat
  <2>1. \A k \in DOMAIN kept : \E m \in 1..Len(all) : kept[k] = all[m]
    BY <1>2 DEF KeepsFirst
  <2> QED
    BY <1>1, <1>3, <2>1
<1>8. ASSUME NEW i \in 1..Len(pool), NEW j \in 1..Len(pool), i < j
      PROVE  \/ pool[i].synced > pool[j].synced
             \/ pool[i].synced = pool[j].synced /\ pool[i].id < pool[j].id
  <2>1. ~ Pool!Before(pool[j], pool[i])
    BY <1>1, <1>8 DEF Pool!Sorted
  <2>2. pool[i].id # pool[j].id
    BY <1>1, <1>5, <1>8
  <2> QED
    BY <1>7, <2>1, <2>2 DEF Pool!Before
<1>9. Pool!OneAccountPerId(all)
  BY <1>5 DEF Pool!OneAccountPerId, pool
<1>10. Pool!FreshestFirstListed(all)
  BY <1>6 DEF Pool!FreshestFirstListed, pool
<1>11. Pool!FreshestOnTop(all)
  BY <1>8 DEF Pool!FreshestOnTop, pool
<1> QED
  BY <1>9, <1>10, <1>11 DEF Pool!PoolSound

\* Concatenating sequences of S gives one.
LEMMA FlattenTypes ==
  ASSUME NEW S, NEW s \in Seq(Seq(S))
  PROVE  Pool!FlattenSeq(s) \in Seq(S)
<1> DEFINE len == Len(s)
<1>1. len \in Nat /\ s \in [1..len -> Seq(S)]
  OBVIOUS
<1>2. CASE len = 0
  <2>1. s = <<>>
    BY <1>1, <1>2
  <2> QED
    BY <1>2, <2>1 DEF Pool!FlattenSeq
<1>3. CASE len # 0
  <2> DEFINE Sol(f) == f = [i \in 1..Len(s) |-> IF i = 1 THEN s[i] ELSE f[i - 1] \o s[i]]
             F == CHOOSE f : Sol(f)
             step == [p \in (1..(len - 1)) \X Seq(S) |-> p[2] \o s[p[1] + 1]]
  <2>1. Pool!FlattenSeq(s) = F[len]
    BY <1>3 DEF Pool!FlattenSeq
  <2>2. \A n \in 1..(len - 1) : n + 1 \in 1..len /\ s[n + 1] \in Seq(S)
    BY <1>1
  <2>3. \A x, y \in Seq(S) : x \o y \in Seq(S)
    OBVIOUS
  <2>4. step \in Steps(len - 1, Seq(S))
    BY <2>2, <2>3 DEF Steps
  <2>5. len - 1 \in Nat /\ s[1] \in Seq(S)
    BY <1>1, <1>3
  <2>6. PICK f \in [0..(len - 1) -> Seq(S)] :
          f[0] = s[1] /\ \A n \in 1..(len - 1) : f[n] = step[<<n, f[n - 1]>>]
    <3> HIDE DEF len, step
    <3>1. Runs(len - 1, Seq(S), s[1], step) # {}
      BY <2>4, <2>5, Recursion
    <3> QED
      BY <3>1 DEF Runs, IsRun
  <2> DEFINE g == [i \in 1..len |-> f[i - 1]]
  <2>7. ASSUME NEW i \in 1..len PROVE g[i] = IF i = 1 THEN s[i] ELSE g[i - 1] \o s[i]
    <3>1. CASE i = 1
      BY <2>6, <3>1
    <3>2. CASE i # 1
      <4>1. i - 1 \in 1..(len - 1) /\ (i - 1) - 1 \in 0..(len - 1) /\ (i - 1) + 1 = i /\ i - 1 \in 1..len
        BY <1>1, <3>2
      <4>2. f[(i - 1) - 1] \in Seq(S)
        BY <2>6, <4>1
      <4>3. f[i - 1] = f[(i - 1) - 1] \o s[i]
        BY <2>6, <4>1, <4>2
      <4>4. g[i] = f[i - 1] /\ g[i - 1] = f[(i - 1) - 1]
        BY <4>1
      <4> QED
        BY <3>2, <4>3, <4>4
    <3> QED
      BY <3>1, <3>2
  <2>8. Sol(g)
    <3>1. g = [i \in 1..len |-> g[i]]
      OBVIOUS
    <3> HIDE DEF g
    <3> QED
      BY <2>7, <3>1
  <2>9. Sol(F)
    BY <2>8
  <2> HIDE DEF F
  <2> DEFINE Good == {n \in Nat : n + 1 <= len => F[n + 1] \in Seq(S)}
  <2>10. \A i \in 1..len : F[i] = IF i = 1 THEN s[i] ELSE F[i - 1] \o s[i]
    BY <2>9
  <2>11. 0 \in Good
    BY <1>1, <2>5, <2>10
  <2>12. ASSUME NEW n \in Nat, n \in Good PROVE n + 1 \in Good
    <3> SUFFICES ASSUME n + 2 <= len PROVE F[n + 2] \in Seq(S)
      OBVIOUS
    <3>1. n + 2 \in 1..len /\ n + 2 # 1 /\ (n + 2) - 1 = n + 1 /\ n + 1 <= len
      BY <1>1
    <3>2. F[n + 1] \in Seq(S) /\ s[n + 2] \in Seq(S)
      BY <1>1, <2>12, <3>1
    <3>3. F[n + 2] = F[n + 1] \o s[n + 2]
      BY <2>10, <3>1
    <3> QED
      BY <2>3, <3>2, <3>3
  <2>13. Nat \subseteq Good
    <3> HIDE DEF Good
    <3> QED
      BY <2>11, <2>12, Induction
  <2>14. len - 1 \in Good
    BY <2>5, <2>13
  <2>15. (len - 1) + 1 = len /\ len <= len
    BY <1>1
  <2> HIDE DEF len
  <2> QED
    BY <2>1, <2>14, <2>15
<1> QED
  BY <1>2, <1>3

\* The accounts of the slices have the ids of their users.
LEMMA AllAccountsTypes ==
  ASSUME NEW slices \in AllSlices
  PROVE  Pool!AllAccounts(slices) \in Seq(Accounts)
<1> DEFINE Slice == [users : Seq(DOMAIN Folded), at : Nat]
           lists == [n \in 1..Len(slices) |-> Pool!SliceOf(n, slices[n].users, slices[n].at)]
<1>1. Len(slices) \in Nat /\ \A n \in 1..Len(slices) : slices[n] \in Slice
  <2>1. slices \in Seq(Slice)
    BY DEF AllSlices
  <2> HIDE DEF Slice
  <2> QED
    BY <2>1
<1>2. ASSUME NEW n \in Nat, NEW users \in Seq(DOMAIN Folded), NEW at \in Nat
      PROVE  Pool!SliceOf(n, users, at) \in Seq(Accounts)
  <2>1. Len(users) \in Nat /\ \A i \in 1..Len(users) : users[i] \in DOMAIN Folded
    OBVIOUS
  <2>2. \A i \in 1..Len(users) :
          [user |-> users[i], id |-> Pool!PublicId(users[i]), synced |-> at, row |-> <<n, i>>] \in Accounts
    BY <2>1, FoldedAssumption DEF Accounts, Dated, Pool!PublicId
  <2> QED
    BY <2>1, <2>2 DEF Pool!SliceOf
<1>3. \A n \in 1..Len(slices) : lists[n] \in Seq(Accounts)
  BY <1>1, <1>2
<1>4. lists \in Seq(Seq(Accounts))
  <2>1. lists \in [1..Len(slices) -> Seq(Accounts)]
    BY <1>3
  <2> HIDE DEF lists
  <2> QED
    BY <1>1, <2>1
<1>5. Pool!FlattenSeq(lists) \in Seq(Accounts)
  <2> HIDE DEF lists
  <2> QED
    BY <1>4, FlattenTypes
<1> QED
  BY <1>5 DEF Pool!AllAccounts

\* PoolsMerged: build_fresh_pool makes one pool of any number of slices of any length.
THEOREM PoolOfAnyListings == input \in Inputs => PoolsMerged
<1>1. input \in Inputs /\ input.of = "listings" => input.slices \in AllSlices
  BY DEF Inputs
<1>2. QED
  BY <1>1, AllAccountsTypes, PoolOfAnyAccounts DEF PoolsMerged

-----------------------------------------------------------------------------
(* Settings *)

\* GateSound of one choice of settings, whatever their numbers.
LEMMA GateOfSettings ==
  ASSUME NEW s \in AllSettings
  PROVE  Gate!GateSound(s)
<1> SUFFICES ASSUME Gate!Accepted(s)
             PROVE  /\ Gate!AssumptionsHold(s)
                    /\ Gate!AddressesApart(s)
                    /\ Gate!Production(s) =>
                         Gate!ClosedToOthers(s) /\ Gate!OpenToItsPage(s) /\ Gate!TurnstileDecides(s)
  BY DEF Gate!GateSound
<1>1. Gate!AssumptionsHold(s)
  <2> DEFINE a == s.intervalA
             b == s.intervalB
             fresh == s.freshness
  <2>1. Gate!TimesOk(s) /\ Gate!LimitsOk(s)
    BY DEF Gate!Accepted
  <2>2. /\ a \in 1..Gate!Hour /\ b \in 1..Gate!Hour /\ fresh \in 1..60
        /\ s.sliceTTL > fresh /\ s.sessionTTL > 0 /\ s.ticketTTL > 0
    BY <2>1, Zenon DEF Gate!TimesOk
  <2>3. s.window > 0 /\ s.limit > 0
    BY <2>1, Zenon DEF Gate!LimitsOk
  <2>4. a > 0 /\ b > 0 /\ fresh > 0
    <3>1. Gate!Hour \in Nat
      BY DEF Gate!Hour
    <3> HIDE DEF a, b, fresh
    <3> QED
      BY <2>2, <3>1
  <2> QED
    BY <2>2, <2>3, <2>4, Zenon DEF Gate!AssumptionsHold
<1>2. Gate!AddressesApart(s)
  <2> SUFFICES ASSUME NEW f \in {"client1", "client2", "absent"}, NEW g \in {"client1", "client2", "absent"}
               PROVE  Gate!ClientIp(s, "peer", f) = Gate!ClientIp(s, "peer", g) <=> (f = g \/ ~ s.trustProxy)
    BY DEF Gate!AddressesApart
  <2> QED
    BY DEF Gate!ClientIp, Gate!NoAddress, AllSettings
<1>3. ASSUME Gate!Production(s) PROVE Gate!ClosedToOthers(s)
  BY <1>3 DEF Gate!Accepted, Gate!OriginOk, Gate!ClosedToOthers, Gate!Admitted, Gate!Requests
<1>4. ASSUME Gate!Production(s) PROVE Gate!OpenToItsPage(s)
  BY <1>4 DEF Gate!Accepted, Gate!OriginOk, Gate!SecretsOk, Gate!OpenToItsPage, Gate!CookieKept,
     Gate!Admitted, Gate!ScriptOrigin, Gate!ScriptSources, Gate!TurnstileOk, Gate!UrlOk, AllSettings
<1>5. ASSUME Gate!Production(s) PROVE Gate!TurnstileDecides(s)
  <2> SUFFICES ASSUME NEW token \in {"test", "drawn"}, NEW reply \in Gate!Replies,
                      Gate!Verified(s, token, reply)
               PROVE  /\ reply.success = "true" /\ reply.action = "exact"
                      /\ reply.hostname # "other" \/ s.hostname = "blank"
    BY DEF Gate!TurnstileDecides
  <2> QED
    BY <1>5 DEF Gate!Accepted, Gate!TurnstileOk, Gate!Verified, AllSettings
<1> QED
  BY <1>1, <1>2, <1>3, <1>4, <1>5

\* GateSound: accepted settings make the assumptions of the other modules true and, in
\* production, close the gate to other sites and open it to the page.
THEOREM GateOfAnySettings == input \in Inputs => GateSound
<1>1. input \in Inputs /\ input.of = "settings" => input.settings \in AllSettings
  BY DEF Inputs
<1>2. QED
  BY <1>1, GateOfSettings DEF GateSound

-----------------------------------------------------------------------------
(* Versions *)

\* The place that decides between two sequences.
Diff(l, r) == Versions!FirstDifference(l, r)

\* Sequences that agree wherever both have an entry.
LEMMA NoDifference ==
  ASSUME NEW l, NEW r, Len(l) \in Nat, Len(r) \in Nat,
         \A n \in 1..Len(l) : n \in 1..Len(r) => l[n] = r[n]
  PROVE  Diff(l, r) = 0
<1>1. {n \in 1..Len(l) : n \in 1..Len(r) /\ l[n] # r[n]} = {}
  OBVIOUS
<1> QED
  BY <1>1 DEF Diff, Versions!FirstDifference

\* Sequences that agree before n and differ there.
LEMMA DifferenceIs ==
  ASSUME NEW l, NEW r, Len(l) \in Nat, Len(r) \in Nat,
         NEW n \in 1..Len(l), n \in 1..Len(r), l[n] # r[n],
         \A m \in 1..(n - 1) : l[m] = r[m]
  PROVE  Diff(l, r) = n
<1> DEFINE differ == {k \in 1..Len(l) : k \in 1..Len(r) /\ l[k] # r[k]}
<1>1. n \in differ
  OBVIOUS
<1>2. \A m \in differ : n <= m
  OBVIOUS
<1>3. \A k \in differ : (\A m \in differ : k <= m) => k = n
  <2> SUFFICES ASSUME NEW k \in differ, \A m \in differ : k <= m PROVE k = n
    OBVIOUS
  <2>1. k <= n /\ n <= k
    BY <1>1, <1>2
  <2>2. k \in Nat /\ n \in Nat
    OBVIOUS
  <2> QED
    BY <2>1, <2>2
<1>4. Diff(l, r) = CHOOSE k \in differ : \A m \in differ : k <= m
  BY <1>1 DEF Diff, Versions!FirstDifference
<1> HIDE DEF differ
<1> QED
  BY <1>1, <1>2, <1>3, <1>4

\* One of these is the case.
LEMMA Difference ==
  ASSUME NEW l, NEW r, Len(l) \in Nat, Len(r) \in Nat
  PROVE  \/ /\ Diff(l, r) = 0
            /\ \A n \in 1..Len(l) : n \in 1..Len(r) => l[n] = r[n]
         \/ \E n \in 1..Len(l) :
              /\ Diff(l, r) = n /\ n \in 1..Len(r) /\ l[n] # r[n]
              /\ \A m \in 1..(n - 1) : l[m] = r[m]
<1> DEFINE differ == {k \in 1..Len(l) : k \in 1..Len(r) /\ l[k] # r[k]}
<1>1. CASE differ = {}
  <2>1. \A n \in 1..Len(l) : n \in 1..Len(r) => l[n] = r[n]
    BY <1>1
  <2> QED
    BY <2>1, NoDifference
<1>2. CASE differ # {}
  <2>1. PICK n \in differ : \A m \in differ : n <= m
    <3>1. differ \subseteq Nat
      OBVIOUS
    <3> HIDE DEF differ
    <3> QED
      BY <1>2, <3>1, Least
  <2>2. n \in 1..Len(l) /\ n \in 1..Len(r) /\ l[n] # r[n]
    OBVIOUS
  <2>3. ASSUME NEW m \in 1..(n - 1) PROVE l[m] = r[m]
    <3>1. m \in 1..Len(l) /\ m \in 1..Len(r) /\ ~ (n <= m)
      BY <2>2
    <3> QED
      BY <2>1, <3>1
  <2>4. Diff(l, r) = n
    BY <2>2, <2>3, DifferenceIs
  <2> QED
    BY <2>2, <2>3, <2>4
<1> QED
  BY <1>1, <1>2

\* Signs of numbers.
LEMMA SignValues ==
  ASSUME NEW x \in Int, NEW y \in Int
  PROVE  /\ Versions!Sign(x, y) \in {-1, 0, 1}
         /\ Versions!Sign(x, y) = - Versions!Sign(y, x)
         /\ Versions!Sign(x, y) = 0 <=> x = y
         /\ Versions!Sign(x, y) = -1 <=> x < y
         /\ Versions!Sign(x, y) = 1 <=> y < x
BY DEF Versions!Sign

\* Without superfluous zeros a part is its number or word.
LEMMA PartTypes ==
  /\ Written \subseteq Parts
  /\ \A p \in Parts : p.number \in BOOLEAN /\ p.rank \in Nat
  /\ \A p, q \in Written : p.number = q.number /\ p.rank = q.rank => p = q
<1>1. \A p, q \in Written : p.number = q.number /\ p.rank = q.rank => p = q
  <2> SUFFICES ASSUME NEW p \in Written, NEW q \in Written, p.number = q.number, p.rank = q.rank
               PROVE  p = q
    OBVIOUS
  <2>1. /\ p = [number |-> p.number, rank |-> p.rank, zeros |-> 0]
        /\ q = [number |-> q.number, rank |-> q.rank, zeros |-> 0]
    BY DEF Written
  <2> QED
    BY <2>1
<1> QED
  BY <1>1 DEF Parts, Written

\* Numbers come before words.
LEMMA PartsCompare ==
  ASSUME NEW p \in Parts, NEW q \in Parts
  PROVE  /\ Versions!ComparePart(p, q) \in {-1, 0, 1}
         /\ Versions!ComparePart(p, q) = - Versions!ComparePart(q, p)
         /\ Versions!ComparePart(p, q) = 0 <=> p.number = q.number /\ p.rank = q.rank
         /\ Versions!ComparePart(p, q) = -1 <=>
              \/ p.number = q.number /\ p.rank < q.rank
              \/ p.number # q.number /\ p.number
<1>1. p.number \in BOOLEAN /\ p.rank \in Nat /\ q.number \in BOOLEAN /\ q.rank \in Nat
  BY PartTypes
<1>2. CASE p.number = q.number
  <2>1. /\ Versions!ComparePart(p, q) = Versions!Sign(p.rank, q.rank)
        /\ Versions!ComparePart(q, p) = Versions!Sign(q.rank, p.rank)
    BY <1>2 DEF Versions!ComparePart
  <2> QED
    BY <1>1, <1>2, <2>1, SignValues
<1>3. CASE p.number # q.number
  BY <1>1, <1>3 DEF Versions!ComparePart
<1> QED
  BY <1>2, <1>3

\* Comparing two prereleases,
Pre(p, q) == Versions!ComparePrerelease(p, q)

\* and what it comes to.
LEMMA PreCases ==
  ASSUME NEW p \in Seq(Parts), NEW q \in Seq(Parts)
  PROVE  /\ Len(p) \in Nat /\ Len(q) \in Nat
         /\ p = <<>> /\ q = <<>> => Pre(p, q) = 0
         /\ p = <<>> /\ q # <<>> => Pre(p, q) = 1
         /\ p # <<>> /\ q = <<>> => Pre(p, q) = -1
         /\ p # <<>> /\ q # <<>> =>
              \/ /\ Pre(p, q) = Versions!Sign(Len(p), Len(q))
                 /\ \A n \in 1..Len(p) : n \in 1..Len(q) => p[n] = q[n]
              \/ \E n \in 1..Len(p) :
                   /\ n \in 1..Len(q) /\ p[n] # q[n]
                   /\ \A m \in 1..(n - 1) : p[m] = q[m]
                   /\ Pre(p, q) = Versions!ComparePart(p[n], q[n])
<1>1. Len(p) \in Nat /\ Len(q) \in Nat
  OBVIOUS
<1>2. Versions!Sign(1, 1) = 0 /\ Versions!Sign(1, 0) = 1 /\ Versions!Sign(0, 1) = -1
  BY DEF Versions!Sign
<1>3. /\ p = <<>> /\ q = <<>> => Pre(p, q) = 0
      /\ p = <<>> /\ q # <<>> => Pre(p, q) = 1
      /\ p # <<>> /\ q = <<>> => Pre(p, q) = -1
  BY <1>2 DEF Pre, Versions!ComparePrerelease, Versions!Release
<1>4. ASSUME p # <<>>, q # <<>>
      PROVE  Pre(p, q) = IF Diff(p, q) = 0 THEN Versions!Sign(Len(p), Len(q))
                         ELSE Versions!ComparePart(p[Diff(p, q)], q[Diff(p, q)])
  BY <1>4 DEF Pre, Diff, Versions!ComparePrerelease, Versions!Release
<1>5. ASSUME p # <<>>, q # <<>>
      PROVE  \/ /\ Pre(p, q) = Versions!Sign(Len(p), Len(q))
                /\ \A n \in 1..Len(p) : n \in 1..Len(q) => p[n] = q[n]
             \/ \E n \in 1..Len(p) :
                  /\ n \in 1..Len(q) /\ p[n] # q[n]
                  /\ \A m \in 1..(n - 1) : p[m] = q[m]
                  /\ Pre(p, q) = Versions!ComparePart(p[n], q[n])
  <2>1. CASE Diff(p, q) = 0 /\ \A n \in 1..Len(p) : n \in 1..Len(q) => p[n] = q[n]
    BY <1>4, <1>5, <2>1
  <2>2. ASSUME NEW n \in 1..Len(p), Diff(p, q) = n, n \in 1..Len(q), p[n] # q[n],
               \A m \in 1..(n - 1) : p[m] = q[m]
        PROVE  Pre(p, q) = Versions!ComparePart(p[n], q[n])
    <3>1. Diff(p, q) # 0
      BY <1>1, <2>2
    <3> QED
      BY <1>4, <1>5, <2>2, <3>1
  <2> QED
    BY <1>1, <2>1, <2>2, Difference
<1> QED
  BY <1>1, <1>3, <1>5

\* The other way round: what tells two prereleases apart decides.
LEMMA PreDecides ==
  ASSUME NEW p \in Seq(Parts), NEW q \in Seq(Parts), p # <<>>, q # <<>>
  PROVE  /\ (\A n \in 1..Len(p) : n \in 1..Len(q) => p[n] = q[n]) =>
              Pre(p, q) = Versions!Sign(Len(p), Len(q))
         /\ \A n \in 1..Len(p) :
              n \in 1..Len(q) /\ p[n] # q[n] /\ (\A m \in 1..(n - 1) : p[m] = q[m]) =>
                Pre(p, q) = Versions!ComparePart(p[n], q[n])
<1>1. Len(p) \in Nat /\ Len(q) \in Nat
  OBVIOUS
<1>2. Pre(p, q) = IF Diff(p, q) = 0 THEN Versions!Sign(Len(p), Len(q))
                  ELSE Versions!ComparePart(p[Diff(p, q)], q[Diff(p, q)])
  BY DEF Pre, Diff, Versions!ComparePrerelease, Versions!Release
<1>3. ASSUME \A n \in 1..Len(p) : n \in 1..Len(q) => p[n] = q[n]
      PROVE  Pre(p, q) = Versions!Sign(Len(p), Len(q))
  BY <1>1, <1>2, <1>3, NoDifference
<1>4. ASSUME NEW n \in 1..Len(p), n \in 1..Len(q), p[n] # q[n], \A m \in 1..(n - 1) : p[m] = q[m]
      PROVE  Pre(p, q) = Versions!ComparePart(p[n], q[n])
  <2>1. Diff(p, q) = n /\ n # 0
    BY <1>1, <1>4, DifferenceIs
  <2> QED
    BY <1>2, <2>1
<1> QED
  BY <1>3, <1>4

\* Swapping turns the sign around.
LEMMA PreSwapped ==
  ASSUME NEW p \in Seq(Parts), NEW q \in Seq(Parts)
  PROVE  Pre(p, q) \in {-1, 0, 1} /\ Pre(p, q) = - Pre(q, p)
<1>1. CASE p = <<>> \/ q = <<>>
  BY <1>1, PreCases
<1>2. CASE p # <<>> /\ q # <<>>
  <2>1. Len(p) \in Nat /\ Len(q) \in Nat
    OBVIOUS
  <2>2. CASE /\ Pre(p, q) = Versions!Sign(Len(p), Len(q))
             /\ \A n \in 1..Len(p) : n \in 1..Len(q) => p[n] = q[n]
    <3>1. \A n \in 1..Len(q) : n \in 1..Len(p) => q[n] = p[n]
      BY <2>2
    <3>2. Pre(q, p) = Versions!Sign(Len(q), Len(p))
      BY <1>2, <3>1, PreDecides
    <3> QED
      BY <2>1, <2>2, <3>2, SignValues
  <2>3. ASSUME NEW n \in 1..Len(p), n \in 1..Len(q), p[n] # q[n],
               \A m \in 1..(n - 1) : p[m] = q[m],
               Pre(p, q) = Versions!ComparePart(p[n], q[n])
        PROVE  Pre(p, q) \in {-1, 0, 1} /\ Pre(p, q) = - Pre(q, p)
    <3>1. \A m \in 1..(n - 1) : q[m] = p[m]
      BY <2>3
    <3>2. Pre(q, p) = Versions!ComparePart(q[n], p[n])
      BY <1>2, <2>3, <3>1, PreDecides
    <3>3. p[n] \in Parts /\ q[n] \in Parts
      BY <2>3
    <3> QED
      BY <2>3, <3>2, <3>3, PartsCompare
  <2> QED
    BY <1>2, <2>2, <2>3, PreCases
<1> QED
  BY <1>1, <1>2

\* Without superfluous zeros only equal prereleases tie.
LEMMA PreTies ==
  ASSUME NEW p \in Seq(Written), NEW q \in Seq(Written)
  PROVE  Pre(p, q) = 0 <=> p = q
<1>1. p \in Seq(Parts) /\ q \in Seq(Parts)
  <2>1. Written \subseteq Parts
    BY PartTypes
  <2> QED
    BY <2>1, SeqMonotonic
<1>2. CASE p = <<>> \/ q = <<>>
  BY <1>1, <1>2, PreCases
<1>3. CASE p # <<>> /\ q # <<>>
  <2>1. Len(p) \in Nat /\ Len(q) \in Nat
    OBVIOUS
  <2>2. CASE /\ Pre(p, q) = Versions!Sign(Len(p), Len(q))
             /\ \A n \in 1..Len(p) : n \in 1..Len(q) => p[n] = q[n]
    <3>1. Pre(p, q) = 0 <=> Len(p) = Len(q)
      BY <2>1, <2>2, SignValues
    <3>2. Len(p) = Len(q) => p = q
      BY <2>2, SeqEqual
    <3> QED
      BY <3>1, <3>2
  <2>3. ASSUME NEW n \in 1..Len(p), n \in 1..Len(q), p[n] # q[n],
               Pre(p, q) = Versions!ComparePart(p[n], q[n])
        PROVE  Pre(p, q) # 0 /\ p # q
    <3>1. p[n] \in Written /\ q[n] \in Written
      BY <2>3
    <3>2. p[n] \in Parts /\ q[n] \in Parts /\ ~ (p[n].number = q[n].number /\ p[n].rank = q[n].rank)
      BY <2>3, <3>1, PartTypes
    <3> QED
      BY <2>3, <3>2, PartsCompare
  <2> QED
    BY <1>1, <1>3, <2>2, <2>3, PreCases
<1> QED
  BY <1>2, <1>3

\* The order of parts is transitive.
LEMMA PartsTransitive ==
  ASSUME NEW p \in Parts, NEW q \in Parts, NEW r \in Parts,
         Versions!ComparePart(p, q) = -1, Versions!ComparePart(q, r) = -1
  PROVE  Versions!ComparePart(p, r) = -1
<1>1. /\ p.number \in BOOLEAN /\ p.rank \in Nat
      /\ q.number \in BOOLEAN /\ q.rank \in Nat
      /\ r.number \in BOOLEAN /\ r.rank \in Nat
  BY PartTypes
<1>2. /\ (p.number = q.number /\ p.rank < q.rank) \/ (p.number # q.number /\ p.number)
      /\ (q.number = r.number /\ q.rank < r.rank) \/ (q.number # r.number /\ q.number)
  BY PartsCompare
<1> DEFINE a == p.rank
           b == q.rank
           c == r.rank
<1>3. a \in Nat /\ b \in Nat /\ c \in Nat
  BY <1>1
<1>4. a < b /\ b < c => a < c
  <2> HIDE DEF a, b, c
  <2> QED
    BY <1>3
<1>5. (p.number = r.number /\ p.rank < r.rank) \/ (p.number # r.number /\ p.number)
  BY <1>1, <1>2, <1>4
<1> QED
  BY <1>5, PartsCompare

\* What "before" means for two prereleases.
LEMMA PreBefore ==
  ASSUME NEW p \in Seq(Parts), NEW q \in Seq(Parts), p # <<>>, q # <<>>
  PROVE  Pre(p, q) = -1 <=>
           \/ Len(p) < Len(q) /\ \A n \in 1..Len(p) : p[n] = q[n]
           \/ \E n \in 1..Len(p) :
                /\ n \in 1..Len(q) /\ Versions!ComparePart(p[n], q[n]) = -1
                /\ \A m \in 1..(n - 1) : p[m] = q[m]
<1>1. Len(p) \in Nat /\ Len(q) \in Nat
  OBVIOUS
<1>2. ASSUME Len(p) < Len(q), \A n \in 1..Len(p) : p[n] = q[n] PROVE Pre(p, q) = -1
  <2>1. Pre(p, q) = Versions!Sign(Len(p), Len(q))
    BY <1>2, PreDecides
  <2> QED
    BY <1>1, <1>2, <2>1, SignValues
<1>3. ASSUME NEW n \in 1..Len(p), n \in 1..Len(q), Versions!ComparePart(p[n], q[n]) = -1,
             \A m \in 1..(n - 1) : p[m] = q[m]
      PROVE  Pre(p, q) = -1
  <2>1. p[n] \in Parts /\ q[n] \in Parts
    BY <1>3
  <2>2. p[n] # q[n]
    <3>1. ~ (p[n].number = q[n].number /\ p[n].rank = q[n].rank)
      BY <1>3, <2>1, PartsCompare
    <3> QED
      BY <3>1
  <2> QED
    BY <1>3, <2>2, PreDecides
<1>4. ASSUME Pre(p, q) = -1
      PROVE  \/ Len(p) < Len(q) /\ \A n \in 1..Len(p) : p[n] = q[n]
             \/ \E n \in 1..Len(p) :
                  /\ n \in 1..Len(q) /\ Versions!ComparePart(p[n], q[n]) = -1
                  /\ \A m \in 1..(n - 1) : p[m] = q[m]
  <2>1. CASE /\ Pre(p, q) = Versions!Sign(Len(p), Len(q))
             /\ \A n \in 1..Len(p) : n \in 1..Len(q) => p[n] = q[n]
    <3>1. Len(p) < Len(q)
      BY <1>1, <1>4, <2>1, SignValues
    <3>2. \A n \in 1..Len(p) : n \in 1..Len(q)
      BY <1>1, <3>1
    <3> QED
      BY <2>1, <3>1, <3>2
  <2>2. ASSUME NEW n \in 1..Len(p), n \in 1..Len(q), \A m \in 1..(n - 1) : p[m] = q[m],
               Pre(p, q) = Versions!ComparePart(p[n], q[n])
        PROVE  \E k \in 1..Len(p) :
                 /\ k \in 1..Len(q) /\ Versions!ComparePart(p[k], q[k]) = -1
                 /\ \A m \in 1..(k - 1) : p[m] = q[m]
    BY <1>4, <2>2
  <2> QED
    BY <2>1, <2>2, PreCases
<1> QED
  BY <1>2, <1>3, <1>4

\* The order of prereleases is transitive.
LEMMA PreTransitive ==
  ASSUME NEW p \in Seq(Parts), NEW q \in Seq(Parts), NEW r \in Seq(Parts),
         Pre(p, q) = -1, Pre(q, r) = -1
  PROVE  Pre(p, r) = -1
<1>1. Len(p) \in Nat /\ Len(q) \in Nat /\ Len(r) \in Nat
  OBVIOUS
<1>2. p # <<>> /\ q # <<>>
  BY PreCases
<1>3. CASE r = <<>>
  BY <1>2, <1>3, PreCases
<1>4. CASE r # <<>>
  <2>1. \/ Len(p) < Len(q) /\ \A n \in 1..Len(p) : p[n] = q[n]
        \/ \E n \in 1..Len(p) :
             /\ n \in 1..Len(q) /\ Versions!ComparePart(p[n], q[n]) = -1
             /\ \A m \in 1..(n - 1) : p[m] = q[m]
    BY <1>2, PreBefore
  <2>2. \/ Len(q) < Len(r) /\ \A n \in 1..Len(q) : q[n] = r[n]
        \/ \E n \in 1..Len(q) :
             /\ n \in 1..Len(r) /\ Versions!ComparePart(q[n], r[n]) = -1
             /\ \A m \in 1..(n - 1) : q[m] = r[m]
    BY <1>2, <1>4, PreBefore
  <2> DEFINE Shorter == Len(p) < Len(r) /\ \A n \in 1..Len(p) : p[n] = r[n]
             Differ(n) == /\ n \in 1..Len(p) /\ n \in 1..Len(r)
                          /\ Versions!ComparePart(p[n], r[n]) = -1
                          /\ \A m \in 1..(n - 1) : p[m] = r[m]
  <2>3. Shorter \/ (\E n \in 1..Len(p) : Differ(n)) => Pre(p, r) = -1
    BY <1>2, <1>4, PreBefore
  <2>4. ASSUME Len(p) < Len(q), \A n \in 1..Len(p) : p[n] = q[n],
               Len(q) < Len(r), \A n \in 1..Len(q) : q[n] = r[n]
        PROVE  Shorter
    <3>1. \A n \in 1..Len(p) : n \in 1..Len(q)
      BY <1>1, <2>4
    <3> QED
      BY <1>1, <2>4, <3>1
  <2>5. ASSUME Len(p) < Len(q), \A n \in 1..Len(p) : p[n] = q[n],
               NEW k \in 1..Len(q), k \in 1..Len(r), Versions!ComparePart(q[k], r[k]) = -1,
               \A m \in 1..(k - 1) : q[m] = r[m]
        PROVE  Shorter \/ \E n \in 1..Len(p) : Differ(n)
    <3>1. CASE k \in 1..Len(p)
      <4>1. \A m \in 1..(k - 1) : m \in 1..Len(p)
        BY <1>1, <3>1
      <4>2. Differ(k)
        BY <2>5, <3>1, <4>1
      <4> QED
        BY <3>1, <4>2
    <3>2. CASE k \notin 1..Len(p)
      <4>1. Len(p) < k /\ k <= Len(r)
        BY <1>1, <2>5, <3>2
      <4>2. \A n \in 1..Len(p) : n \in 1..(k - 1)
        BY <1>1, <2>5, <4>1
      <4>3. Shorter
        BY <1>1, <2>5, <4>1, <4>2
      <4> QED
        BY <4>3
    <3> QED
      BY <3>1, <3>2
  <2>6. ASSUME NEW n \in 1..Len(p), n \in 1..Len(q), Versions!ComparePart(p[n], q[n]) = -1,
               \A m \in 1..(n - 1) : p[m] = q[m],
               Len(q) < Len(r), \A m \in 1..Len(q) : q[m] = r[m]
        PROVE  Differ(n)
    <3>1. n \in 1..Len(r) /\ \A m \in 1..(n - 1) : m \in 1..Len(q)
      BY <1>1, <2>6
    <3> QED
      BY <2>6, <3>1
  <2>7. ASSUME NEW n \in 1..Len(p), n \in 1..Len(q), Versions!ComparePart(p[n], q[n]) = -1,
               \A m \in 1..(n - 1) : p[m] = q[m],
               NEW k \in 1..Len(q), k \in 1..Len(r), Versions!ComparePart(q[k], r[k]) = -1,
               \A m \in 1..(k - 1) : q[m] = r[m]
        PROVE  \E i \in 1..Len(p) : Differ(i)
    <3>1. CASE n < k
      <4>1. n \in 1..(k - 1) /\ n \in 1..Len(r) /\ \A m \in 1..(n - 1) : m \in 1..(k - 1)
        BY <1>1, <2>7, <3>1
      <4>2. Differ(n)
        BY <2>7, <4>1
      <4> QED
        BY <4>2
    <3>2. CASE k < n
      <4>1. k \in 1..(n - 1) /\ k \in 1..Len(p) /\ \A m \in 1..(k - 1) : m \in 1..(n - 1)
        BY <1>1, <2>7, <3>2
      <4>2. Differ(k)
        BY <2>7, <4>1
      <4> QED
        BY <4>1, <4>2
    <3>3. CASE n = k
      <4>1. p[n] \in Parts /\ q[n] \in Parts /\ r[n] \in Parts
        BY <2>7, <3>3
      <4>2. Versions!ComparePart(p[n], r[n]) = -1
        BY <2>7, <3>3, <4>1, PartsTransitive
      <4>3. Differ(n)
        BY <2>7, <3>3, <4>2
      <4> QED
        BY <4>3
    <3>4. n < k \/ k < n \/ n = k
      BY <1>1
    <3> QED
      BY <3>1, <3>2, <3>3, <3>4
  <2> HIDE DEF Shorter, Differ
  <2>8. Shorter \/ \E n \in 1..Len(p) : Differ(n)
    BY <2>1, <2>2, <2>4, <2>5, <2>6, <2>7
  <2> QED
    BY <2>3, <2>8
<1> QED
  BY <1>3, <1>4

\* The three numbers of a version.
Num(v) == Versions!Numbers(v)

\* They are numbers.
LEMMA NumTypes ==
  ASSUME NEW v \in VersionsOf(Parts)
  PROVE  Num(v) \in [1..3 -> Nat] /\ Len(Num(v)) = 3 /\ v.prerelease \in Seq(Parts)
<1>1. v.numbers \in Seq(Nat) /\ v.prerelease \in Seq(Parts)
  BY DEF VersionsOf
<1>2. \A n \in 1..3 : (IF n <= Len(v.numbers) THEN v.numbers[n] ELSE 0) \in Nat
  <2> DEFINE s == v.numbers
  <2>1. s \in Seq(Nat)
    BY <1>1
  <2> HIDE DEF s
  <2>2. \A n \in 1..3 : n <= Len(s) => s[n] \in Nat
    BY <2>1
  <2>3. \A n \in 1..3 : n <= Len(v.numbers) => v.numbers[n] \in Nat
    BY <2>2 DEF s
  <2> QED
    BY <2>3
<1>3. Num(v) \in [1..3 -> Nat]
  BY <1>2 DEF Num, Versions!Numbers
<1>4. Len(Num(v)) = 3
  BY <1>3
<1> QED
  BY <1>1, <1>3, <1>4

\* What comparing two versions comes to.
LEMMA VersionCases ==
  ASSUME NEW x \in VersionsOf(Parts), NEW y \in VersionsOf(Parts)
  PROVE  \/ /\ Num(x) = Num(y)
            /\ Versions!CompareVersions(x, y) = Pre(x.prerelease, y.prerelease)
         \/ \E n \in 1..3 :
              /\ Num(x)[n] # Num(y)[n] /\ \A m \in 1..(n - 1) : Num(x)[m] = Num(y)[m]
              /\ Versions!CompareVersions(x, y) = Versions!Sign(Num(x)[n], Num(y)[n])
<1>1. /\ Num(x) \in [1..3 -> Nat] /\ Len(Num(x)) = 3
      /\ Num(y) \in [1..3 -> Nat] /\ Len(Num(y)) = 3
  BY NumTypes
<1>2. Versions!CompareVersions(x, y) =
        IF Diff(Num(x), Num(y)) = 0 THEN Pre(x.prerelease, y.prerelease)
        ELSE Versions!Sign(Num(x)[Diff(Num(x), Num(y))], Num(y)[Diff(Num(x), Num(y))])
  BY DEF Versions!CompareVersions, Diff, Num, Pre
<1>3. CASE Diff(Num(x), Num(y)) = 0 /\ \A n \in 1..3 : n \in 1..3 => Num(x)[n] = Num(y)[n]
  <2>1. Num(x) = Num(y)
    BY <1>1, <1>3
  <2> QED
    BY <1>2, <1>3, <2>1
<1>4. ASSUME NEW n \in 1..3, Diff(Num(x), Num(y)) = n, Num(x)[n] # Num(y)[n],
             \A m \in 1..(n - 1) : Num(x)[m] = Num(y)[m]
      PROVE  Versions!CompareVersions(x, y) = Versions!Sign(Num(x)[n], Num(y)[n])
  <2>1. n # 0
    OBVIOUS
  <2> QED
    BY <1>2, <1>4, <2>1
<1>5. \/ /\ Diff(Num(x), Num(y)) = 0
         /\ \A n \in 1..3 : n \in 1..3 => Num(x)[n] = Num(y)[n]
      \/ \E n \in 1..3 :
           /\ Diff(Num(x), Num(y)) = n /\ n \in 1..3 /\ Num(x)[n] # Num(y)[n]
           /\ \A m \in 1..(n - 1) : Num(x)[m] = Num(y)[m]
  <2> DEFINE l == Num(x)
             r == Num(y)
  <2> HIDE DEF l, r
  <2>1. Len(l) = 3 /\ Len(r) = 3 /\ 3 \in Nat
    BY <1>1 DEF l, r
  <2>2. \/ /\ Diff(l, r) = 0
           /\ \A n \in 1..Len(l) : n \in 1..Len(r) => l[n] = r[n]
        \/ \E n \in 1..Len(l) :
             /\ Diff(l, r) = n /\ n \in 1..Len(r) /\ l[n] # r[n]
             /\ \A m \in 1..(n - 1) : l[m] = r[m]
    BY <2>1, Difference
  <2> QED
    BY <2>1, <2>2 DEF l, r
<1> QED
  BY <1>3, <1>4, <1>5

\* The other way round: what tells two versions apart decides.
LEMMA VersionDecides ==
  ASSUME NEW x \in VersionsOf(Parts), NEW y \in VersionsOf(Parts)
  PROVE  /\ Num(x) = Num(y) =>
              Versions!CompareVersions(x, y) = Pre(x.prerelease, y.prerelease)
         /\ \A n \in 1..3 :
              Num(x)[n] # Num(y)[n] /\ (\A m \in 1..(n - 1) : Num(x)[m] = Num(y)[m]) =>
                Versions!CompareVersions(x, y) = Versions!Sign(Num(x)[n], Num(y)[n])
<1>1. /\ Num(x) \in [1..3 -> Nat] /\ Len(Num(x)) = 3
      /\ Num(y) \in [1..3 -> Nat] /\ Len(Num(y)) = 3
  BY NumTypes
<1>2. Versions!CompareVersions(x, y) =
        IF Diff(Num(x), Num(y)) = 0 THEN Pre(x.prerelease, y.prerelease)
        ELSE Versions!Sign(Num(x)[Diff(Num(x), Num(y))], Num(y)[Diff(Num(x), Num(y))])
  BY DEF Versions!CompareVersions, Diff, Num, Pre
<1>3. Num(x) = Num(y) => Diff(Num(x), Num(y)) = 0
  <2>1. Len(Num(x)) \in Nat /\ Len(Num(y)) \in Nat
    BY <1>1
  <2> QED
    BY <2>1, NoDifference
<1>4. ASSUME NEW n \in 1..3, Num(x)[n] # Num(y)[n],
             \A m \in 1..(n - 1) : Num(x)[m] = Num(y)[m]
      PROVE  Diff(Num(x), Num(y)) = n /\ n # 0
  <2>1. n \in 1..Len(Num(x)) /\ n \in 1..Len(Num(y))
    BY <1>1
  <2>2. Len(Num(x)) \in Nat /\ Len(Num(y)) \in Nat
    BY <1>1
  <2>3. Diff(Num(x), Num(y)) = n
    BY <1>4, <2>1, <2>2, DifferenceIs
  <2> QED
    BY <2>3
<1> QED
  BY <1>2, <1>3, <1>4

\* Two versions turn the sign around.
LEMMA VersionsSwapped ==
  ASSUME NEW x \in VersionsOf(Parts), NEW y \in VersionsOf(Parts)
  PROVE  Versions!CompareVersions(x, y) \in {-1, 0, 1} /\ Versions!Swapped(x, y)
<1>1. x.prerelease \in Seq(Parts) /\ y.prerelease \in Seq(Parts)
  BY NumTypes
<1>2. CASE /\ Num(x) = Num(y)
           /\ Versions!CompareVersions(x, y) = Pre(x.prerelease, y.prerelease)
  <2>1. Versions!CompareVersions(y, x) = Pre(y.prerelease, x.prerelease)
    BY <1>2, VersionDecides
  <2> QED
    BY <1>1, <1>2, <2>1, PreSwapped DEF Versions!Swapped
<1>3. ASSUME NEW n \in 1..3, Num(x)[n] # Num(y)[n], \A m \in 1..(n - 1) : Num(x)[m] = Num(y)[m],
             Versions!CompareVersions(x, y) = Versions!Sign(Num(x)[n], Num(y)[n])
      PROVE  Versions!CompareVersions(x, y) \in {-1, 0, 1} /\ Versions!Swapped(x, y)
  <2>1. Versions!CompareVersions(y, x) = Versions!Sign(Num(y)[n], Num(x)[n])
    BY <1>3, VersionDecides
  <2>2. Num(x)[n] \in Int /\ Num(y)[n] \in Int
    BY NumTypes
  <2> QED
    BY <1>3, <2>1, <2>2, SignValues DEF Versions!Swapped
<1> QED
  BY <1>2, <1>3, VersionCases

\* What "before" means for two versions.
LEMMA VersionBefore ==
  ASSUME NEW x \in VersionsOf(Parts), NEW y \in VersionsOf(Parts)
  PROVE  Versions!CompareVersions(x, y) = -1 <=>
           \/ Num(x) = Num(y) /\ Pre(x.prerelease, y.prerelease) = -1
           \/ \E n \in 1..3 :
                /\ Num(x)[n] < Num(y)[n] /\ \A m \in 1..(n - 1) : Num(x)[m] = Num(y)[m]
<1>1. \A n \in 1..3 : Num(x)[n] \in Int /\ Num(y)[n] \in Int
  BY NumTypes
<1>2. ASSUME NEW n \in 1..3, Num(x)[n] < Num(y)[n], \A m \in 1..(n - 1) : Num(x)[m] = Num(y)[m]
      PROVE  Versions!CompareVersions(x, y) = -1
  <2>1. Num(x)[n] # Num(y)[n]
    BY <1>1, <1>2
  <2>2. Versions!CompareVersions(x, y) = Versions!Sign(Num(x)[n], Num(y)[n])
    BY <1>2, <2>1, VersionDecides
  <2> QED
    BY <1>1, <1>2, <2>2, SignValues
<1>3. ASSUME NEW n \in 1..3, Versions!CompareVersions(x, y) = -1,
             Versions!CompareVersions(x, y) = Versions!Sign(Num(x)[n], Num(y)[n])
      PROVE  Num(x)[n] < Num(y)[n]
  BY <1>1, <1>3, SignValues
<1> QED
  BY <1>2, <1>3, VersionCases, VersionDecides

\* The order of versions is transitive.
LEMMA VersionsTransitive ==
  ASSUME NEW x \in VersionsOf(Parts), NEW y \in VersionsOf(Parts), NEW z \in VersionsOf(Parts),
         Versions!CompareVersions(x, y) = -1, Versions!CompareVersions(y, z) = -1
  PROVE  Versions!CompareVersions(x, z) = -1
<1>1. \A n \in 1..3 : Num(x)[n] \in Int /\ Num(y)[n] \in Int /\ Num(z)[n] \in Int
  BY NumTypes
<1>2. x.prerelease \in Seq(Parts) /\ y.prerelease \in Seq(Parts) /\ z.prerelease \in Seq(Parts)
  BY NumTypes
<1> DEFINE Less(u, v, n) == /\ Num(u)[n] < Num(v)[n]
                            /\ \A m \in 1..(n - 1) : Num(u)[m] = Num(v)[m]
<1>3. ASSUME Num(x) = Num(y), Pre(x.prerelease, y.prerelease) = -1,
             Num(y) = Num(z), Pre(y.prerelease, z.prerelease) = -1
      PROVE  Num(x) = Num(z) /\ Pre(x.prerelease, z.prerelease) = -1
  BY <1>2, <1>3, PreTransitive
<1>4. ASSUME NEW n \in 1..3, NEW k \in 1..3, Less(x, y, n), Less(y, z, k)
      PROVE  \E i \in 1..3 : Less(x, z, i)
  <2>1. CASE n <= k
    <3>1. Num(x)[n] < Num(z)[n]
      <4>1. CASE n = k
        BY <1>1, <1>4, <4>1
      <4>2. CASE n < k
        BY <1>4, <4>2
      <4> QED
        BY <2>1, <4>1, <4>2
    <3>2. \A m \in 1..(n - 1) : m \in 1..(k - 1)
      BY <2>1
    <3> QED
      BY <1>4, <3>1, <3>2
  <2>2. CASE k < n
    <3>1. k \in 1..(n - 1) /\ \A m \in 1..(k - 1) : m \in 1..(n - 1)
      BY <2>2
    <3> QED
      BY <1>4, <3>1
  <2> QED
    BY <2>1, <2>2
<1> QED
  BY <1>3, <1>4, VersionBefore

\* Zeros or none, they are versions.
LEMMA WrittenAreVersions == ASSUME NEW x \in WrittenVersions PROVE x \in AnyVersions
<1>1. Seq(Written) \subseteq Seq(Parts)
  <2>1. Written \subseteq Parts
    BY PartTypes
  <2> QED
    BY <2>1, SeqMonotonic
<1> QED
  BY <1>1 DEF WrittenVersions, AnyVersions, VersionsOf

\* _compare_versions is a total order.
LEMMA VersionsTotallyOrdered ==
  ASSUME NEW x \in WrittenVersions, NEW y \in WrittenVersions, NEW z \in WrittenVersions
  PROVE  Versions!TotallyOrdered(x, y, z)
<1>1. /\ x \in VersionsOf(Parts) /\ y \in VersionsOf(Parts) /\ z \in VersionsOf(Parts)
      /\ x.prerelease \in Seq(Written) /\ y.prerelease \in Seq(Written)
      /\ z.prerelease \in Seq(Written)
  BY WrittenAreVersions DEF WrittenVersions, VersionsOf, AnyVersions
<1>2. \A u, v \in {x, y, z} :
        Versions!CompareVersions(u, v) = 0 <=> Num(u) = Num(v) /\ u.prerelease = v.prerelease
  <2> SUFFICES ASSUME NEW u \in {x, y, z}, NEW v \in {x, y, z}
               PROVE  Versions!CompareVersions(u, v) = 0
                        <=> Num(u) = Num(v) /\ u.prerelease = v.prerelease
    OBVIOUS
  <2>1. /\ u \in VersionsOf(Parts) /\ v \in VersionsOf(Parts)
        /\ u.prerelease \in Seq(Written) /\ v.prerelease \in Seq(Written)
    BY <1>1
  <2>2. CASE Num(u) = Num(v) /\ Versions!CompareVersions(u, v) = Pre(u.prerelease, v.prerelease)
    BY <2>1, <2>2, PreTies
  <2>3. ASSUME NEW n \in 1..3, Num(u)[n] # Num(v)[n],
               Versions!CompareVersions(u, v) = Versions!Sign(Num(u)[n], Num(v)[n])
        PROVE  Versions!CompareVersions(u, v) # 0 /\ Num(u) # Num(v)
    <3>1. Num(u)[n] \in Int /\ Num(v)[n] \in Int
      BY <2>1, NumTypes
    <3> QED
      BY <2>3, <3>1, SignValues
  <2> QED
    BY <2>1, <2>2, <2>3, VersionCases
<1>3. ASSUME Versions!CompareVersions(x, y) <= 0, Versions!CompareVersions(y, z) <= 0
      PROVE  Versions!CompareVersions(x, z) <= 0
  <2>1. /\ Versions!CompareVersions(x, y) \in {-1, 0}
        /\ Versions!CompareVersions(y, z) \in {-1, 0}
        /\ Versions!CompareVersions(x, z) \in {-1, 0, 1}
    BY <1>1, <1>3, VersionsSwapped
  <2>2. CASE Versions!CompareVersions(x, y) = -1 /\ Versions!CompareVersions(y, z) = -1
    <3>1. Versions!CompareVersions(x, z) = -1
      BY <1>1, <2>2, VersionsTransitive
    <3> QED
      BY <3>1
  <2>3. CASE Versions!CompareVersions(x, y) = 0
    <3>1. Num(x) = Num(y) /\ x.prerelease = y.prerelease
      BY <1>2, <2>3
    <3>2. Versions!CompareVersions(x, z) = Versions!CompareVersions(y, z)
      BY <3>1 DEF Versions!CompareVersions, Num
    <3> QED
      BY <1>3, <3>2
  <2>4. CASE Versions!CompareVersions(y, z) = 0
    <3>1. Num(y) = Num(z) /\ y.prerelease = z.prerelease
      BY <1>2, <2>4
    <3>2. Versions!CompareVersions(x, z) = Versions!CompareVersions(x, y)
      BY <3>1 DEF Versions!CompareVersions, Num
    <3> QED
      BY <1>3, <3>2
  <2> QED
    BY <2>1, <2>2, <2>3, <2>4
<1>4. Versions!Swapped(x, y)
  BY <1>1, VersionsSwapped
<1>5. Versions!CompareVersions(x, y) = 0
        <=> Versions!Numbers(x) = Versions!Numbers(y) /\ x.prerelease = y.prerelease
  BY <1>2 DEF Num
<1> QED
  BY <1>3, <1>4, <1>5 DEF Versions!TotallyOrdered

\* A prerelease is before its release.
LEMMA PrereleaseIsBefore ==
  ASSUME NEW x \in AnyVersions PROVE Versions!BeforeItsRelease(x)
<1> SUFFICES ASSUME x.prerelease # <<>>
             PROVE  Versions!CompareVersions(x, Versions!Version(x.numbers, <<>>)) = -1
  BY DEF Versions!BeforeItsRelease, Versions!Release
<1> DEFINE y == Versions!Version(x.numbers, <<>>)
<1>1. y.numbers = x.numbers /\ y.prerelease = <<>>
  BY DEF Versions!Version
<1>2. y \in VersionsOf(Parts) /\ x \in VersionsOf(Parts)
  BY DEF AnyVersions, VersionsOf, Versions!Version
<1>3. Num(x) = Num(y)
  BY <1>1 DEF Num, Versions!Numbers
<1>4. x.prerelease \in Seq(Parts) /\ y.prerelease \in Seq(Parts)
  BY <1>2, NumTypes
<1>5. Pre(x.prerelease, y.prerelease) = -1
  BY <1>1, <1>4, PreCases
<1> HIDE DEF y
<1>6. Versions!CompareVersions(x, y) = -1
  BY <1>2, <1>3, <1>5, VersionDecides
<1> QED
  BY <1>6 DEF y

\* A hint names a later version, and is not repeated.
LEMMA HintIsNewer ==
  ASSUME NEW project \in AnyVersions, NEW asker, NEW output \in Outputs, NEW writable \in BOOLEAN
  PROVE  Versions!HintIsNews(project, asker, output, writable)
<1> DEFINE latest == Versions!Offered(output)
           None == Versions!None
           hint == Versions!UpdateHint(project, {}, asker, output, writable)
<1>1. None \in AnyVersions
  <2>1. <<0, 0, 0, 0>> \in Seq(Nat) /\ <<>> \in Seq(Parts)
    OBVIOUS
  <2> QED
    BY <2>1 DEF Versions!None, Versions!Version, Versions!Release, AnyVersions, VersionsOf
<1>2. latest \in AnyVersions
  <2>1. output.announced \in AnyVersions /\ output.tokens \in Seq(AnyVersions)
    BY DEF Outputs
  <2> DEFINE tokens == output.tokens
  <2>2. tokens # <<>> => tokens[Len(tokens)] \in AnyVersions
    <3>1. tokens \in Seq(AnyVersions)
      BY <2>1
    <3> HIDE DEF tokens
    <3> QED
      BY <3>1
  <2> QED
    BY <1>1, <2>1, <2>2 DEF Versions!Offered
<1> SUFFICES ASSUME hint.hint # None
             PROVE  /\ project # Versions!Garbled
                    /\ Versions!CompareVersions(hint.hint, project) = 1
                    /\ Versions!UpdateHint(hint.hint, {}, asker, output, writable).hint = None
                    /\ writable =>
                         Versions!UpdateHint(project, hint.marks, asker, output, writable).hint = None
  BY DEF Versions!HintIsNews
<1>3. /\ hint.hint = latest /\ project # None /\ project # Versions!Garbled
      /\ Versions!CompareVersions(project, latest) < 0
      /\ writable => asker \in hint.marks
  BY DEF Versions!UpdateHint
<1>4. Versions!CompareVersions(latest, project) = 1
  <2>1. /\ Versions!CompareVersions(project, latest) \in {-1, 0, 1}
        /\ Versions!CompareVersions(latest, project) = - Versions!CompareVersions(project, latest)
    BY <1>2, VersionsSwapped DEF AnyVersions, Versions!Swapped
  <2> QED
    BY <1>3, <2>1
<1>5. Versions!UpdateHint(latest, {}, asker, output, writable).hint = None
  <2>1. /\ Versions!CompareVersions(latest, latest) \in {-1, 0, 1}
        /\ Versions!CompareVersions(latest, latest) = - Versions!CompareVersions(latest, latest)
    BY <1>2, VersionsSwapped DEF AnyVersions, Versions!Swapped
  <2>2. ~ (Versions!CompareVersions(latest, latest) < 0)
    BY <2>1
  <2> QED
    BY <2>2 DEF Versions!UpdateHint
<1>6. writable => Versions!UpdateHint(project, hint.marks, asker, output, writable).hint = None
  <2> HIDE DEF hint
  <2> QED
    BY <1>3 DEF Versions!UpdateHint
<1> HIDE DEF hint, latest
<1> QED
  BY <1>3, <1>4, <1>5, <1>6

\* VersionsOrdered: _compare_versions orders all versions, and hints are of newer ones.
THEOREM OrderOfAnyVersions == input \in Inputs => VersionsOrdered
<1>1. input \in Inputs /\ input.of = "versions" =>
        input.x \in WrittenVersions /\ input.y \in WrittenVersions /\ input.z \in WrittenVersions
  BY DEF Inputs
<1>2. input \in Inputs /\ input.of = "offer" =>
        input.project \in AnyVersions /\ input.output \in Outputs /\ input.writable \in BOOLEAN
  BY DEF Inputs
<1>3. ASSUME input.x \in WrittenVersions, input.y \in WrittenVersions, input.z \in WrittenVersions
      PROVE  Versions!TotallyOrdered(input.x, input.y, input.z) /\ Versions!BeforeItsRelease(input.x)
  BY <1>3, VersionsTotallyOrdered, WrittenAreVersions, PrereleaseIsBefore
<1>4. ASSUME input.project \in AnyVersions, input.output \in Outputs, input.writable \in BOOLEAN
      PROVE  Versions!HintIsNews(input.project, input.asker, input.output, input.writable)
  BY <1>4, HintIsNewer
<1>5. QED
  BY <1>1, <1>2, <1>3, <1>4 DEF VersionsOrdered

-----------------------------------------------------------------------------
(* Sums *)

\* Cardinality is the same in the module of the views.
LEMMA ViewsCardinalityIs ==
  ASSUME NEW S
  PROVE  Views!Cardinality(S) = Cardinality(S)
BY DEF Views!Cardinality, Cardinality

\* The values of f at members of S.
Marks(f, S) == \A x \in S : f[x] \in {0, 1}
Marked(f, S) == {x \in S : f[x] = 1}

\* A sum of zeros and ones counts the ones.
LEMMA SumIs ==
  ASSUME NEW S, IsFiniteSet(S), NEW f, Marks(f, S)
  PROVE  Views!SumFunctionOnSet(f, S) = Cardinality(Marked(f, S))
<1> DEFINE Sum(it) == it = [s \in SUBSET S |-> IF s = {} THEN 0 ELSE f[CHOOSE x \in s : TRUE] + it[s \ {CHOOSE x \in s : TRUE}]]
           F == CHOOSE it : Sum(it)
           g == [s \in SUBSET S |-> Cardinality(Marked(f, s))]
<1>1. Views!SumFunctionOnSet(f, S) = F[S]
  BY DEF Views!SumFunctionOnSet, Views!FoldFunctionOnSet, Views!MapThenFoldSet
<1>2. ASSUME NEW s \in SUBSET S, s # {}
      PROVE  /\ (CHOOSE x \in s : TRUE) \in s
             /\ s \ {CHOOSE x \in s : TRUE} \in SUBSET S
             /\ Cardinality(s \ {CHOOSE x \in s : TRUE}) = Cardinality(s) - 1
             /\ Cardinality(s) \in Nat
             /\ g[s] = f[CHOOSE x \in s : TRUE] + g[s \ {CHOOSE x \in s : TRUE}]
  <2> DEFINE x == CHOOSE x \in s : TRUE
             r == s \ {x}
  <2>1. x \in s
    BY <1>2
  <2> HIDE DEF x
  <2>2. r \in SUBSET S /\ IsFiniteSet(s) /\ IsFiniteSet(Marked(f, s)) /\ IsFiniteSet(Marked(f, r))
    BY FS_Subset DEF Marked
  <2>3. Cardinality(r) = Cardinality(s) - 1 /\ Cardinality(s) \in Nat
    BY <2>1, <2>2, FS_RemoveElement, FS_CardinalityType
  <2>4. Cardinality(Marked(f, s)) \in Nat /\ Cardinality(Marked(f, r)) \in Nat
    BY <2>2, FS_CardinalityType
  <2>5. Cardinality(Marked(f, s)) = f[x] + Cardinality(Marked(f, r))
    <3>1. CASE f[x] = 1
      <4>1. Marked(f, r) = Marked(f, s) \ {x} /\ x \in Marked(f, s)
        BY <2>1, <3>1 DEF Marked
      <4>2. Cardinality(Marked(f, r)) = Cardinality(Marked(f, s)) - 1
        BY <2>2, <4>1, FS_RemoveElement
      <4> QED
        BY <2>4, <3>1, <4>2
    <3>2. CASE f[x] = 0
      <4>1. Marked(f, r) = Marked(f, s)
        BY <2>1, <3>2 DEF Marked
      <4> QED
        BY <2>4, <3>2, <4>1
    <3> QED
      BY <2>1, <3>1, <3>2 DEF Marks
  <2>6. g[s] = f[x] + g[r]
    BY <2>2, <2>5
  <2> QED
    BY <2>1, <2>2, <2>3, <2>6 DEF x
<1>3. g[{}] = 0
  <2>1. Marked(f, {}) = {}
    BY DEF Marked
  <2> QED
    BY <2>1, FS_EmptySet
<1>4. Sum(g)
  <2>1. ASSUME NEW s \in SUBSET S
        PROVE  g[s] = IF s = {} THEN 0 ELSE f[CHOOSE x \in s : TRUE] + g[s \ {CHOOSE x \in s : TRUE}]
    <3> HIDE DEF g
    <3> QED
      BY <1>2, <1>3
  <2>2. g = [s \in SUBSET S |-> g[s]]
    OBVIOUS
  <2> HIDE DEF g
  <2> QED
    BY <2>1, <2>2
<1>5. Sum(F)
  <2> HIDE DEF Sum, g
  <2> QED
    BY <1>4
<1> HIDE DEF F
<1> DEFINE Good == {n \in Nat : \A s \in SUBSET S : Cardinality(s) = n => F[s] = g[s]}
<1>6. F[{}] = 0
  BY <1>5
<1>7. ASSUME NEW s \in SUBSET S, s # {}
      PROVE  F[s] = f[CHOOSE x \in s : TRUE] + F[s \ {CHOOSE x \in s : TRUE}]
  BY <1>5, <1>7
<1> HIDE DEF g, Sum
<1>8. 0 \in Good
  <2>1. \A s \in SUBSET S : Cardinality(s) = 0 => s = {}
    BY FS_Subset, FS_EmptySet
  <2> QED
    BY <1>3, <1>6, <2>1
<1>9. ASSUME NEW n \in Nat, n \in Good PROVE n + 1 \in Good
  <2> SUFFICES ASSUME NEW s \in SUBSET S, Cardinality(s) = n + 1 PROVE F[s] = g[s]
    OBVIOUS
  <2>1. s # {}
    BY FS_EmptySet
  <2> DEFINE r == s \ {CHOOSE x \in s : TRUE}
  <2>2. r \in SUBSET S /\ Cardinality(r) = Cardinality(s) - 1
    BY <1>2, <2>1
  <2>3. Cardinality(r) = n
    BY <2>2
  <2>4. F[r] = g[r]
    BY <1>9, <2>2, <2>3
  <2> QED
    BY <1>2, <1>7, <2>1, <2>4
<1>10. Nat \subseteq Good
  <2> HIDE DEF Good
  <2> QED
    BY <1>8, <1>9, Induction
<1>11. F[S] = g[S]
  BY <1>10, FS_CardinalityType
<1> QED
  BY <1>1, <1>11 DEF g

-----------------------------------------------------------------------------
(* The tree of tasks *)


\* The tasks of a project are finitely many, and none has the name of something else.
LEMMA ProjectTypes ==
  ASSUME NEW p \in AllProjects
  PROVE  /\ IsFiniteSet(DOMAIN p.tasks) /\ Views!Active(p) = DOMAIN p.tasks
         /\ Views!Cardinality(DOMAIN p.tasks) = Cardinality(DOMAIN p.tasks)
         /\ Cardinality(DOMAIN p.tasks) \in Nat
         /\ \A x \in NoNames : x \notin DOMAIN p.tasks
         /\ \A t \in DOMAIN p.tasks : p.tasks[t] \in AllTasks
<1>1. PICK d \in {d \in SUBSET (STRING \ NoNames) : IsFiniteSet(d)} : p.tasks \in [d -> AllTasks]
  BY DEF AllProjects
<1>2. DOMAIN p.tasks = d /\ IsFiniteSet(d)
  BY <1>1
<1> QED
  BY <1>1, <1>2, FS_CardinalityType, ViewsCardinalityIs DEF Views!Active

\* How the text view goes through the tasks: on level n are those n steps below one
\* without a parent.
IsLevels(level, p) ==
  /\ level \in [0..Cardinality(DOMAIN p.tasks) -> [DOMAIN p.tasks -> {0, 1}]]
  /\ \A t \in DOMAIN p.tasks : level[0][t] = IF p.tasks[t].parent = Views!None THEN 1 ELSE 0
  /\ \A n \in 1..Cardinality(DOMAIN p.tasks), t \in DOMAIN p.tasks :
       level[n][t] = IF p.tasks[t].parent = Views!None THEN 0 ELSE level[n - 1][p.tasks[t].parent]

\* Where links agree a task is below its parent and nothing else.
LEMMA AboveIs ==
  ASSUME NEW p \in AllProjects, Views!LinksAgree(p), NEW t \in DOMAIN p.tasks
  PROVE  /\ p.tasks[t].parent # Views!None => p.tasks[t].parent \in DOMAIN p.tasks
         /\ {a \in DOMAIN p.tasks : t \in p.tasks[a].children}
              = IF p.tasks[t].parent = Views!None THEN {} ELSE {p.tasks[t].parent}
<1>1. Views!Active(p) = DOMAIN p.tasks /\ Views!None \notin DOMAIN p.tasks
  BY ProjectTypes DEF NoNames
<1>2. \A a \in DOMAIN p.tasks : t \in p.tasks[a].children => p.tasks[t].parent = a
  BY <1>1 DEF Views!LinksAgree
<1>3. p.tasks[t].parent # Views!None =>
        p.tasks[t].parent \in DOMAIN p.tasks /\ t \in p.tasks[p.tasks[t].parent].children
  BY <1>1 DEF Views!LinksAgree
<1> QED
  BY <1>1, <1>2, <1>3

\* So a row of marks is summed up to the mark of the parent.
LEMMA SumAbove ==
  ASSUME NEW p \in AllProjects, Views!LinksAgree(p), NEW t \in DOMAIN p.tasks,
         NEW row \in [DOMAIN p.tasks -> {0, 1}]
  PROVE  Views!SumFunctionOnSet(row, {a \in DOMAIN p.tasks : t \in p.tasks[a].children})
           = IF p.tasks[t].parent = Views!None THEN 0 ELSE row[p.tasks[t].parent]
<1> DEFINE above == {a \in DOMAIN p.tasks : t \in p.tasks[a].children}
           up == p.tasks[t].parent
<1>1. IsFiniteSet(above) /\ Marks(row, above)
  BY ProjectTypes, FS_Subset DEF Marks
<1>2. Views!SumFunctionOnSet(row, above) = Cardinality(Marked(row, above))
  BY <1>1, SumIs
<1>3. CASE up = Views!None
  <2>1. Marked(row, above) = {}
    BY <1>3, AboveIs DEF Marked
  <2> QED
    BY <1>2, <1>3, <2>1, FS_EmptySet
<1>4. CASE up # Views!None
  <2>1. above = {up} /\ up \in DOMAIN p.tasks
    BY <1>4, AboveIs
  <2> HIDE DEF above, up
  <2>2. row[up] \in {0, 1}
    BY <2>1
  <2>3. Marked(row, above) = IF row[up] = 1 THEN {up} ELSE {}
    BY <2>1 DEF Marked
  <2>4. Cardinality({up}) = 1 /\ Cardinality({}) = 0
    BY FS_Singleton, FS_EmptySet
  <2> QED
    BY <1>2, <1>4, <2>2, <2>3, <2>4 DEF above, up
<1> QED
  BY <1>3, <1>4

\* Printed is how the view goes through them.
LEMMA PrintedIs ==
  ASSUME NEW p \in AllProjects, Views!LinksAgree(p)
  PROVE  IsLevels(Views!Printed(p), p)
<1> DEFINE dirs == DOMAIN p.tasks
           len == Cardinality(dirs)
           above(t) == {a \in dirs : t \in p.tasks[a].children}
           Rows == [dirs -> {0, 1}]
           top == [t \in dirs |-> IF p.tasks[t].parent = Views!None THEN 1 ELSE 0]
           Summed(row) == [t \in dirs |-> Views!SumFunctionOnSet(row, above(t))]
           Level(f) == f = [n \in 0..len |-> [t \in dirs |->
                              IF n = 0 THEN IF p.tasks[t].parent = Views!None THEN 1 ELSE 0
                              ELSE Views!SumFunctionOnSet(f[n - 1], above(t))]]
           F == CHOOSE f : Level(f)
           step == [q \in (1..len) \X Rows |-> Summed(q[2])]
<1>1. len \in Nat /\ Views!Active(p) = dirs /\ Views!Cardinality(dirs) = len
  BY ProjectTypes
<1>2. Views!Printed(p) = F
  BY <1>1 DEF Views!Printed
<1>3. ASSUME NEW row \in Rows
      PROVE  /\ Summed(row) \in Rows
             /\ \A t \in dirs : Summed(row)[t] = IF p.tasks[t].parent = Views!None THEN 0 ELSE row[p.tasks[t].parent]
  <2>1. ASSUME NEW t \in dirs
        PROVE  /\ Summed(row)[t] = IF p.tasks[t].parent = Views!None THEN 0 ELSE row[p.tasks[t].parent]
               /\ Summed(row)[t] \in {0, 1}
    BY AboveIs, SumAbove
  <2> QED
    BY <2>1
<1>4. top \in Rows
  OBVIOUS
<1>5. step \in [(1..len) \X Rows -> Rows]
  <2> HIDE DEF Summed, Rows
  <2> QED
    BY <1>3
<1>6. PICK f \in [0..len -> Rows] : f[0] = top /\ \A n \in 1..len : f[n] = step[<<n, f[n - 1]>>]
  <2>1. step \in Steps(len, Rows)
    BY <1>5 DEF Steps
  <2> HIDE DEF len, step, Rows, top
  <2>2. Runs(len, Rows, top, step) # {}
    BY <1>1, <1>4, <2>1, Recursion
  <2> QED
    BY <2>2 DEF Runs, IsRun
<1>7. \A n \in 1..len : f[n] = Summed(f[n - 1])
  <2> SUFFICES ASSUME NEW n \in 1..len PROVE f[n] = Summed(f[n - 1])
    OBVIOUS
  <2>1. n - 1 \in 0..len
    BY <1>1
  <2>2. f[n - 1] \in Rows
    BY <1>6, <2>1
  <2> HIDE DEF Summed, Rows
  <2> QED
    BY <1>6, <2>2
<1>8. Level(f)
  <2>1. ASSUME NEW n \in 0..len
        PROVE f[n] = [t \in dirs |->
                              IF n = 0 THEN IF p.tasks[t].parent = Views!None THEN 1 ELSE 0
                              ELSE Views!SumFunctionOnSet(f[n - 1], above(t))]
    <3>1. CASE n = 0
      BY <1>6, <3>1
    <3>2. CASE n # 0
      <4>1. n \in 1..len
        BY <1>1, <3>2
      <4> QED
        BY <1>7, <3>2, <4>1
    <3> QED
      BY <3>1, <3>2
  <2>2. f = [n \in 0..len |-> f[n]]
    BY <1>6
  <2> QED
    BY <2>1, <2>2
<1>9. Level(F)
  <2> HIDE DEF Level
  <2> QED
    BY <1>8
<1> HIDE DEF F
<1>10. F = [n \in 0..len |-> F[n]] /\ F[0] = top /\ \A n \in 1..len : F[n] = Summed(F[n - 1])
  <2>1. F = [n \in 0..len |-> F[n]]
    BY <1>9
  <2>2. ASSUME NEW n \in 0..len
        PROVE  F[n] = [t \in dirs |->
                              IF n = 0 THEN IF p.tasks[t].parent = Views!None THEN 1 ELSE 0
                              ELSE Views!SumFunctionOnSet(F[n - 1], above(t))]
    BY <1>9
  <2>3. 0 \in 0..len /\ \A n \in 1..len : n \in 0..len /\ n # 0
    BY <1>1
  <2>4. F[0] = top
    <3>1. F[0] = [t \in dirs |->
                              IF 0 = 0 THEN IF p.tasks[t].parent = Views!None THEN 1 ELSE 0
                              ELSE Views!SumFunctionOnSet(F[0 - 1], above(t))]
      BY <2>2, <2>3
    <3> QED
      BY <3>1
  <2>5. ASSUME NEW n \in 1..len PROVE F[n] = Summed(F[n - 1])
    BY <2>2, <2>3
  <2> QED
    BY <2>1, <2>4, <2>5
<1> HIDE DEF Summed, Rows, Level
<1>11. \A n \in 0..len : F[n] \in Rows
  <2> DEFINE Good == {n \in Nat : n <= len => F[n] \in Rows}
  <2>1. 0 \in Good
    BY <1>4, <1>10
  <2>2. ASSUME NEW n \in Nat, n \in Good PROVE n + 1 \in Good
    <3> SUFFICES ASSUME n + 1 <= len PROVE F[n + 1] \in Rows
      OBVIOUS
    <3>1. n + 1 \in 1..len /\ (n + 1) - 1 = n /\ n <= len
      BY <1>1
    <3>2. F[n] \in Rows
      BY <2>2, <3>1
    <3>3. F[n + 1] = Summed(F[n])
      BY <1>10, <3>1
    <3> QED
      BY <1>3, <3>2, <3>3
  <2>3. Nat \subseteq Good
    <3> HIDE DEF Good
    <3> QED
      BY <2>1, <2>2, Induction
  <2> QED
    BY <1>1, <2>3
<1>12. ASSUME NEW n \in 1..len, NEW t \in dirs
       PROVE  F[n][t] = IF p.tasks[t].parent = Views!None THEN 0 ELSE F[n - 1][p.tasks[t].parent]
  <2>1. n - 1 \in 0..len
    BY <1>1
  <2>2. F[n - 1] \in Rows
    BY <1>11, <2>1
  <2>3. F[n] = Summed(F[n - 1])
    BY <1>10
  <2>4. Summed(F[n - 1])[t] = IF p.tasks[t].parent = Views!None THEN 0 ELSE F[n - 1][p.tasks[t].parent]
    BY <1>3, <2>2
  <2> QED
    BY <2>3, <2>4
<1>13. F \in [0..len -> Rows]
  BY <1>10, <1>11
<1> QED
  BY <1>2, <1>10, <1>12, <1>13 DEF IsLevels, Rows

\* What the levels have, without naming their domain.
LEMMA LevelsAre ==
  ASSUME NEW p \in AllProjects, NEW level, IsLevels(level, p),
         NEW n \in 0..Cardinality(DOMAIN p.tasks), NEW t \in DOMAIN p.tasks
  PROVE  /\ level[n][t] \in {0, 1}
         /\ n = 0 => level[n][t] = IF p.tasks[t].parent = Views!None THEN 1 ELSE 0
         /\ n # 0 => level[n][t] = IF p.tasks[t].parent = Views!None THEN 0 ELSE level[n - 1][p.tasks[t].parent]
<1>1. Cardinality(DOMAIN p.tasks) \in Nat
  BY ProjectTypes
<1>2. level[n] \in [DOMAIN p.tasks -> {0, 1}]
  BY DEF IsLevels
<1>3. n # 0 => n \in 1..Cardinality(DOMAIN p.tasks)
  BY <1>1
<1> QED
  BY <1>2, <1>3 DEF IsLevels

\* A task is on one level only.
LEMMA OneLevel ==
  ASSUME NEW p \in AllProjects, Views!LinksAgree(p), NEW level, IsLevels(level, p),
         NEW n \in 0..Cardinality(DOMAIN p.tasks), NEW m \in 0..Cardinality(DOMAIN p.tasks),
         NEW t \in DOMAIN p.tasks, level[n][t] = 1, level[m][t] = 1
  PROVE  n = m
<1> DEFINE len == Cardinality(DOMAIN p.tasks)
           Good == {k \in Nat : k <= len => \A j \in 0..len, s \in DOMAIN p.tasks :
                                   level[k][s] = 1 /\ level[j][s] = 1 => k = j}
<1>1. len \in Nat
  BY ProjectTypes
<1>2. 0 \in Good
  <2> SUFFICES ASSUME NEW j \in 0..len, NEW s \in DOMAIN p.tasks, level[0][s] = 1, level[j][s] = 1
               PROVE  0 = j
    OBVIOUS
  <2>1. 0 \in 0..len
    BY <1>1
  <2>2. p.tasks[s].parent = Views!None
    BY <2>1, LevelsAre
  <2> QED
    BY <2>2, LevelsAre
<1>3. ASSUME NEW k \in Nat, k \in Good PROVE k + 1 \in Good
  <2> SUFFICES ASSUME k + 1 <= len, NEW j \in 0..len, NEW s \in DOMAIN p.tasks,
                      level[k + 1][s] = 1, level[j][s] = 1
               PROVE  k + 1 = j
    OBVIOUS
  <2>1. k + 1 \in 0..len /\ (k + 1) - 1 = k /\ k + 1 # 0 /\ k \in 0..len
    BY <1>1
  <2>2. p.tasks[s].parent # Views!None /\ level[k][p.tasks[s].parent] = 1
    BY <2>1, LevelsAre
  <2>3. j # 0 /\ level[j - 1][p.tasks[s].parent] = 1
    BY <2>2, LevelsAre
  <2>4. p.tasks[s].parent \in DOMAIN p.tasks
    BY <2>2, AboveIs
  <2>5. j - 1 \in 0..len
    BY <1>1, <2>3
  <2>6. k = j - 1
    BY <1>3, <2>1, <2>2, <2>3, <2>4, <2>5
  <2> QED
    BY <1>1, <2>6
<1>4. Nat \subseteq Good
  <2> HIDE DEF Good
  <2> QED
    BY <1>2, <1>3, Induction
<1>5. n \in Good /\ n <= len
  BY <1>1, <1>4
<1> QED
  BY <1>5

\* There are more levels than tasks, so the last one is empty.
LEMMA LastLevelEmpty ==
  ASSUME NEW p \in AllProjects, Views!LinksAgree(p), NEW level, IsLevels(level, p),
         NEW t \in DOMAIN p.tasks
  PROVE  level[Cardinality(DOMAIN p.tasks)][t] = 0
<1> DEFINE dirs == DOMAIN p.tasks
           len == Cardinality(dirs)
           Good == {k \in Nat : k <= len => \E s \in dirs : level[len - k][s] = 1}
<1>1. len \in Nat /\ IsFiniteSet(dirs) /\ len \in 0..len
  BY ProjectTypes
<1> SUFFICES ASSUME level[len][t] = 1 PROVE FALSE
  BY <1>1, LevelsAre
<1>2. 0 \in Good
  <2>1. len - 0 = len
    BY <1>1
  <2> QED
    BY <2>1
<1>3. ASSUME NEW k \in Nat, k \in Good PROVE k + 1 \in Good
  <2> SUFFICES ASSUME k + 1 <= len PROVE \E s \in dirs : level[len - (k + 1)][s] = 1
    OBVIOUS
  <2>1. len - k \in 0..len /\ len - k # 0 /\ (len - k) - 1 = len - (k + 1) /\ k <= len
    BY <1>1
  <2>2. PICK s \in dirs : level[len - k][s] = 1
    BY <1>3, <2>1
  <2>3. p.tasks[s].parent # Views!None /\ level[len - (k + 1)][p.tasks[s].parent] = 1
    BY <2>1, <2>2, LevelsAre
  <2>4. p.tasks[s].parent \in dirs
    BY <2>3, AboveIs
  <2> QED
    BY <2>3, <2>4
<1>4. Nat \subseteq Good
  <2> HIDE DEF Good
  <2> QED
    BY <1>2, <1>3, Induction
<1>5. \A n \in 0..len : \E s \in dirs : level[n][s] = 1
  <2> SUFFICES ASSUME NEW n \in 0..len PROVE \E s \in dirs : level[n][s] = 1
    OBVIOUS
  <2>1. len - n \in Nat /\ len - n <= len /\ len - (len - n) = n
    BY <1>1
  <2>2. len - n \in Good
    BY <1>4, <2>1
  <2> QED
    BY <2>1, <2>2
<1> DEFINE on == [n \in 0..len |-> CHOOSE s \in dirs : level[n][s] = 1]
<1>6. on \in [0..len -> dirs] /\ \A n \in 0..len : level[n][on[n]] = 1
  BY <1>5
<1>7. IsFiniteSet(0..len) /\ Cardinality(0..len) = len + 1
  BY <1>1, FS_Interval
<1>8. Cardinality(dirs) < Cardinality(0..len)
  BY <1>1, <1>7
<1> HIDE DEF on
<1>9. \E n, m \in 0..len : n # m /\ on[n] = on[m]
  <2> HIDE DEF len, dirs
  <2>1. \E n, m \in 0..len : n # m /\ on[n] = on[m]
    BY <1>1, <1>6, <1>7, <1>8, FS_PigeonHole
  <2> QED
    BY <2>1
<1>10. PICK n \in 0..len, m \in 0..len : n # m /\ on[n] = on[m]
  BY <1>9
<1> QED
  BY <1>6, <1>10, OneLevel

\* The tasks that are on a level.
OnLevel(p) == {t \in DOMAIN p.tasks : \E n \in 0..Cardinality(DOMAIN p.tasks) : Views!Printed(p)[n][t] = 1}

\* Times adds up the levels a task is on.
LEMMA TimesIs ==
  ASSUME NEW p \in AllProjects, Views!LinksAgree(p), NEW t \in DOMAIN p.tasks
  PROVE  Views!Times(p, t) = IF t \in OnLevel(p) THEN 1 ELSE 0
<1> DEFINE levels == 0..Cardinality(DOMAIN p.tasks)
           row == [n \in levels |-> Views!Printed(p)[n][t]]
<1>1. IsLevels(Views!Printed(p), p) /\ Cardinality(DOMAIN p.tasks) \in Nat
  BY PrintedIs, ProjectTypes
<1>2. IsFiniteSet(levels)
  BY <1>1, FS_Interval
<1>3. \A n \in levels : row[n] \in {0, 1}
  BY <1>1, LevelsAre
<1>4. Views!Times(p, t) = Views!SumFunctionOnSet(row, levels)
  <2>1. Views!Active(p) = DOMAIN p.tasks /\ Views!Cardinality(DOMAIN p.tasks) = Cardinality(DOMAIN p.tasks)
    BY ProjectTypes
  <2>2. Views!Times(p, t) = Views!SumFunction(row)
    BY <2>1 DEF Views!Times
  <2> QED
    BY <2>2 DEF Views!SumFunction
<1> HIDE DEF levels
<1>5. Views!Times(p, t) = Cardinality(Marked(row, levels))
  <2> HIDE DEF row
  <2> QED
    BY <1>2, <1>3, <1>4, SumIs DEF Marks
<1>6. CASE t \in OnLevel(p)
  <2>1. PICK n \in levels : Views!Printed(p)[n][t] = 1
    BY <1>6 DEF OnLevel, levels
  <2>2. \A m \in levels : Views!Printed(p)[m][t] = 1 => m = n
    BY <1>1, <2>1, OneLevel DEF levels
  <2>3. Marked(row, levels) = {n}
    BY <2>1, <2>2 DEF Marked
  <2> QED
    BY <1>5, <1>6, <2>3, FS_Singleton
<1>7. CASE t \notin OnLevel(p)
  <2>1. Marked(row, levels) = {}
    BY <1>7 DEF OnLevel, levels, Marked
  <2> QED
    BY <1>5, <1>7, <2>1, FS_EmptySet
<1> QED
  BY <1>6, <1>7

\* Going up n steps from t, or to the top.
IsWay(up, p) ==
  \A n \in 0..Cardinality(DOMAIN p.tasks), t \in DOMAIN p.tasks :
    /\ up[n][t] \in DOMAIN p.tasks
    /\ up[n][t] = IF n = 0 \/ p.tasks[t].parent = Views!None THEN t ELSE up[n - 1][p.tasks[t].parent]

\* The hidden tasks are those from which the top is not reached.
LEMMA HiddenIs ==
  ASSUME NEW p \in AllProjects, Views!LinksAgree(p)
  PROVE  \E up : /\ IsWay(up, p)
                 /\ Views!Hidden(p) =
                      {t \in DOMAIN p.tasks :
                         p.tasks[up[Cardinality(DOMAIN p.tasks)][t]].parent # Views!None}
<1> DEFINE dirs == DOMAIN p.tasks
           len == Cardinality(dirs)
           top(t) == p.tasks[t].parent = Views!None
           Rows == [dirs -> dirs]
           id == [t \in dirs |-> t]
           Further(row) == [t \in dirs |-> IF top(t) THEN t ELSE row[p.tasks[t].parent]]
           Way(u) == u = [n \in 0..len |-> [t \in dirs |->
                            IF n = 0 \/ p.tasks[t].parent = Views!None THEN t ELSE u[n - 1][p.tasks[t].parent]]]
           F == CHOOSE u : Way(u)
           step == [q \in (1..len) \X Rows |-> Further(q[2])]
<1>1. len \in Nat /\ Views!Active(p) = dirs /\ Views!Cardinality(dirs) = len
  BY ProjectTypes
<1>2. \A t \in dirs : ~ top(t) => p.tasks[t].parent \in dirs
  BY AboveIs
<1>3. ASSUME NEW row \in Rows PROVE Further(row) \in Rows
  BY <1>2
<1>4. id \in Rows
  OBVIOUS
<1>5. step \in [(1..len) \X Rows -> Rows]
  <2> HIDE DEF Further, Rows
  <2> QED
    BY <1>3
<1>6. PICK f \in [0..len -> Rows] : f[0] = id /\ \A n \in 1..len : f[n] = step[<<n, f[n - 1]>>]
  <2>1. step \in Steps(len, Rows)
    BY <1>5 DEF Steps
  <2> HIDE DEF len, step, Rows, id
  <2>2. Runs(len, Rows, id, step) # {}
    BY <1>1, <1>4, <2>1, Recursion
  <2> QED
    BY <2>2 DEF Runs, IsRun
<1>7. \A n \in 1..len : f[n] = Further(f[n - 1])
  <2> SUFFICES ASSUME NEW n \in 1..len PROVE f[n] = Further(f[n - 1])
    OBVIOUS
  <2>1. n - 1 \in 0..len
    BY <1>1
  <2>2. f[n - 1] \in Rows
    BY <1>6, <2>1
  <2> HIDE DEF Further, Rows
  <2> QED
    BY <1>6, <2>2
<1>8. ASSUME NEW n \in 0..len
      PROVE  f[n] = [t \in dirs |-> IF n = 0 \/ top(t) THEN t ELSE f[n - 1][p.tasks[t].parent]]
  <2>1. CASE n = 0
    BY <1>6, <2>1
  <2>2. CASE n # 0
    <3>1. n \in 1..len
      BY <1>1, <2>2
    <3> QED
      BY <1>7, <2>2, <3>1
  <2> QED
    BY <2>1, <2>2
<1>9. f = [n \in 0..len |-> f[n]]
  BY <1>6
<1>10. Way(f)
  BY <1>8, <1>9
<1>11. Way(F)
  <2> HIDE DEF Way
  <2> QED
    BY <1>10
<1>12. Views!Hidden(p) = {t \in dirs : p.tasks[F[len][t]].parent # Views!None}
  <2> HIDE DEF len, dirs
  <2> QED
    BY <1>1 DEF Views!Hidden
<1> HIDE DEF F
<1>13. \A n \in 0..len, t \in dirs : F[n][t] = IF n = 0 \/ top(t) THEN t ELSE F[n - 1][p.tasks[t].parent]
  <2>1. ASSUME NEW n \in 0..len
        PROVE  F[n] = [t \in dirs |->
                 IF n = 0 \/ p.tasks[t].parent = Views!None THEN t ELSE F[n - 1][p.tasks[t].parent]]
    BY <1>11
  <2>2. ASSUME NEW n \in 0..len, NEW t \in dirs
        PROVE  F[n][t] = IF n = 0 \/ top(t) THEN t ELSE F[n - 1][p.tasks[t].parent]
    <3> DEFINE row == [s \in dirs |->
                 IF n = 0 \/ p.tasks[s].parent = Views!None THEN s ELSE F[n - 1][p.tasks[s].parent]]
    <3>1. F[n] = row
      BY <2>1
    <3>2. row[t] = IF n = 0 \/ top(t) THEN t ELSE F[n - 1][p.tasks[t].parent]
      OBVIOUS
    <3> HIDE DEF row
    <3> QED
      BY <3>1, <3>2
  <2> QED
    BY <2>2
<1> DEFINE Good == {n \in Nat : n <= len => \A t \in dirs : F[n][t] \in dirs}
<1>14. 0 \in Good
  BY <1>1, <1>13
<1>15. ASSUME NEW n \in Nat, n \in Good PROVE n + 1 \in Good
  <2> SUFFICES ASSUME n + 1 <= len, NEW t \in dirs PROVE F[n + 1][t] \in dirs
    OBVIOUS
  <2>1. n + 1 \in 0..len /\ (n + 1) - 1 = n /\ n + 1 # 0 /\ n <= len
    BY <1>1
  <2>2. F[n + 1][t] = IF top(t) THEN t ELSE F[n][p.tasks[t].parent]
    BY <1>13, <2>1
  <2> QED
    BY <1>2, <1>15, <2>1, <2>2
<1>16. Nat \subseteq Good
  <2> HIDE DEF Good
  <2> QED
    BY <1>14, <1>15, Induction
<1>17. \A n \in 0..len, t \in dirs : F[n][t] \in dirs
  BY <1>1, <1>16
<1>18. IsWay(F, p)
  BY <1>13, <1>17 DEF IsWay
<1> QED
  BY <1>12, <1>18

\* Those are the tasks on a level.
LEMMA HiddenAreOffLevels ==
  ASSUME NEW p \in AllProjects, Views!LinksAgree(p)
  PROVE  Views!Hidden(p) = DOMAIN p.tasks \ OnLevel(p)
<1> DEFINE dirs == DOMAIN p.tasks
           len == Cardinality(dirs)
           level == Views!Printed(p)
<1>1. PICK up : /\ IsWay(up, p)
                /\ Views!Hidden(p) = {t \in dirs : p.tasks[up[len][t]].parent # Views!None}
  BY HiddenIs
<1>2. IsLevels(level, p) /\ len \in Nat
  BY PrintedIs, ProjectTypes
<1> HIDE DEF level
<1> DEFINE Found(k, t) == \E n \in 0..k : level[n][t] = 1
           Good == {k \in Nat : k <= len => \A t \in dirs :
                       p.tasks[up[k][t]].parent = Views!None <=> Found(k, t)}
<1>3. 0 \in Good
  <2> SUFFICES ASSUME NEW t \in dirs PROVE p.tasks[up[0][t]].parent = Views!None <=> Found(0, t)
    OBVIOUS
  <2>1. 0 \in 0..len
    BY <1>2
  <2>2. up[0][t] = t
    BY <1>1, <2>1 DEF IsWay
  <2>3. level[0][t] = IF p.tasks[t].parent = Views!None THEN 1 ELSE 0
    BY <1>2, <2>1, LevelsAre
  <2>4. Found(0, t) <=> level[0][t] = 1
    OBVIOUS
  <2> QED
    BY <2>2, <2>3, <2>4
<1>4. ASSUME NEW k \in Nat, k \in Good PROVE k + 1 \in Good
  <2> SUFFICES ASSUME k + 1 <= len, NEW t \in dirs
               PROVE  p.tasks[up[k + 1][t]].parent = Views!None <=> Found(k + 1, t)
    OBVIOUS
  <2>1. k + 1 \in 0..len /\ (k + 1) - 1 = k /\ k + 1 # 0 /\ k <= len
    BY <1>2
  <2>2. up[k + 1][t] = IF p.tasks[t].parent = Views!None THEN t ELSE up[k][p.tasks[t].parent]
    <3>1. up[k + 1][t] =
            IF k + 1 = 0 \/ p.tasks[t].parent = Views!None THEN t ELSE up[(k + 1) - 1][p.tasks[t].parent]
      BY <1>1, <2>1 DEF IsWay
    <3> QED
      BY <2>1, <3>1
  <2>3. \A n \in 0..(k + 1) : n \in 0..len
    BY <1>2
  <2>4. CASE p.tasks[t].parent = Views!None
    <3>1. 0 \in 0..(k + 1) /\ level[0][t] = 1
      BY <1>2, <2>3, <2>4, LevelsAre
    <3> QED
      BY <2>2, <2>4, <3>1
  <2>5. CASE p.tasks[t].parent # Views!None
    <3> DEFINE s == p.tasks[t].parent
    <3>1. s \in dirs
      BY <2>5, AboveIs
    <3>2. p.tasks[up[k][s]].parent = Views!None <=> Found(k, s)
      BY <1>4, <2>1, <3>1
    <3>3. ASSUME NEW n \in 0..(k + 1), level[n][t] = 1 PROVE Found(k, s)
      <4>1. n # 0 /\ level[n - 1][s] = 1
        BY <1>2, <2>3, <2>5, <3>3, LevelsAre
      <4>2. n - 1 \in 0..k
        BY <4>1
      <4> QED
        BY <4>1, <4>2
    <3>4. ASSUME NEW n \in 0..k, level[n][s] = 1 PROVE Found(k + 1, t)
      <4>1. n + 1 \in 0..(k + 1) /\ (n + 1) - 1 = n /\ n + 1 # 0
        OBVIOUS
      <4>2. level[n + 1][t] = level[n][s]
        BY <1>2, <2>3, <2>5, <4>1, LevelsAre
      <4> QED
        BY <3>4, <4>1, <4>2
    <3> QED
      BY <2>2, <2>5, <3>2, <3>3, <3>4
  <2> QED
    BY <2>4, <2>5
<1>5. Nat \subseteq Good
  <2> HIDE DEF Good
  <2> QED
    BY <1>3, <1>4, Induction
<1>6. \A t \in dirs : p.tasks[up[len][t]].parent = Views!None <=> Found(len, t)
  BY <1>2, <1>5
<1> QED
  BY <1>1, <1>6 DEF OnLevel, level

\* PrintedOnce of any project.
LEMMA PrintedOnceOfAny ==
  ASSUME NEW p \in AllProjects
  PROVE  Views!PrintedOnce(p)
<1> SUFFICES ASSUME Views!LinksAgree(p)
             PROVE  /\ ~ Views!Endless(p)
                    /\ \A t \in Views!Active(p) : Views!Times(p, t) <= 1
                    /\ p.developer # Views!None =>
                         /\ Views!Text(p).printed = Views!Json(p).tasks \ Views!Hidden(p)
                         /\ Views!Text(p).total + Views!Cardinality(Views!Hidden(p)) = Views!Compact(p).total
  BY DEF Views!PrintedOnce
<1> DEFINE dirs == DOMAIN p.tasks
           row == [t \in dirs |-> Views!Times(p, t)]
<1>1. Views!Active(p) = dirs /\ IsFiniteSet(dirs) /\ Cardinality(dirs) \in Nat
      /\ Views!Cardinality(dirs) = Cardinality(dirs)
  BY ProjectTypes
<1>2. ~ Views!Endless(p)
  <2>1. \A t \in dirs : Views!Printed(p)[Cardinality(dirs)][t] = 0
    BY PrintedIs, LastLevelEmpty
  <2> QED
    BY <1>1, <2>1 DEF Views!Endless
<1>3. \A t \in dirs : Views!Times(p, t) = IF t \in OnLevel(p) THEN 1 ELSE 0
  BY TimesIs
<1>4. OnLevel(p) \subseteq dirs
  BY DEF OnLevel
<1>5. ASSUME p.developer # Views!None
      PROVE  /\ Views!Text(p).printed = OnLevel(p)
             /\ Views!Text(p).total = Views!SumFunctionOnSet(row, dirs)
  <2>1. Views!Text(p).printed = {t \in dirs : Views!Times(p, t) > 0}
    BY <1>1, <1>5 DEF Views!Text
  <2>2. Views!Text(p).total = Views!SumFunction(row)
    BY <1>1, <1>5 DEF Views!Text
  <2>3. Views!SumFunction(row) = Views!SumFunctionOnSet(row, dirs)
    BY DEF Views!SumFunction
  <2> QED
    BY <1>3, <1>4, <2>1, <2>2, <2>3
<1>6. Views!SumFunctionOnSet(row, dirs) = Cardinality(OnLevel(p))
  <2>1. Marks(row, dirs) /\ Marked(row, dirs) = OnLevel(p)
    BY <1>3, <1>4 DEF Marks, Marked
  <2> HIDE DEF row, dirs
  <2> QED
    BY <1>1, <2>1, SumIs
<1>7. Cardinality(OnLevel(p)) + Cardinality(dirs \ OnLevel(p)) = Cardinality(dirs)
  <2>1. IsFiniteSet(OnLevel(p)) /\ dirs \cap OnLevel(p) = OnLevel(p)
    BY <1>1, <1>4, FS_Subset
  <2>2. Cardinality(dirs \ OnLevel(p)) = Cardinality(dirs) - Cardinality(OnLevel(p))
    <3>1. Cardinality(dirs \ OnLevel(p)) = Cardinality(dirs) - Cardinality(dirs \cap OnLevel(p))
      <4> HIDE DEF dirs
      <4> QED
        BY <1>1, FS_Difference
    <3> QED
      BY <2>1, <3>1
  <2>3. Cardinality(OnLevel(p)) \in Nat
    BY <2>1, FS_CardinalityType
  <2> QED
    BY <1>1, <2>2, <2>3
<1>8. Views!Hidden(p) = dirs \ OnLevel(p)
  BY HiddenAreOffLevels
<1>9. Views!Json(p).tasks = dirs /\ Views!Compact(p).total = Cardinality(dirs)
  BY <1>1 DEF Views!Json, Views!Compact
<1>10. dirs \ (dirs \ OnLevel(p)) = OnLevel(p)
  BY <1>4
<1> HIDE DEF row, dirs
<1> QED
  BY <1>1, <1>2, <1>3, <1>5, <1>6, <1>7, <1>8, <1>9, <1>10, ViewsCardinalityIs

\* SameTasks of any project.
LEMMA SameTasksOfAny ==
  ASSUME NEW p \in AllProjects
  PROVE  Views!SameTasks(p)
<1> SUFFICES ASSUME p.developer # Views!None PROVE Views!SameTasks(p)
  BY DEF Views!SameTasks
<1> DEFINE text == Views!RecordText(p).mine
           json == Views!RecordJson(p).mine
           mine == Views!Mine(p)
<1>1. text = [t \in mine |-> Views!Progress(p, t)] /\ json = [t \in mine |-> Views!ChildrenDone(p, t)]
  BY DEF Views!RecordText, Views!RecordJson
<1>2. mine \subseteq DOMAIN p.tasks /\ Views!Active(p) = DOMAIN p.tasks
  BY ProjectTypes DEF Views!Mine
<1>3. ASSUME NEW t \in mine
      PROVE  /\ text[t] = json[t] + Views!Cardinality(p.tasks[t].children \ Views!Active(p))
             /\ text[t] <= Views!Cardinality(p.tasks[t].children)
  <2> DEFINE all == p.tasks[t].children
             gone == all \ DOMAIN p.tasks
             done == {c \in all \cap DOMAIN p.tasks : Views!Finished(p.tasks[c].status)}
             both == {c \in all : c \in DOMAIN p.tasks => Views!Finished(p.tasks[c].status)}
  <2>1. IsFiniteSet(all)
    <3>1. p.tasks[t] \in AllTasks
      BY <1>2, ProjectTypes
    <3> QED
      BY <3>1 DEF AllTasks
  <2>2. text[t] = Cardinality(both) /\ json[t] = Cardinality(done)
    <3>1. Views!Progress(p, t) = Cardinality(both)
      BY <1>2, ViewsCardinalityIs DEF Views!Progress
    <3>2. Views!ChildrenDone(p, t) = Cardinality(done)
      BY <1>2, ViewsCardinalityIs DEF Views!ChildrenDone
    <3> HIDE DEF mine, text, json, both, done
    <3> QED
      BY <1>1, <3>1, <3>2
  <2>3. gone \cup done = both /\ gone \cap done = {} /\ both \subseteq all /\ gone \subseteq all /\ done \subseteq all
    OBVIOUS
  <2> HIDE DEF text, json, mine, gone, done, both
  <2>4. /\ IsFiniteSet(gone) /\ IsFiniteSet(done) /\ IsFiniteSet(both)
        /\ Cardinality(both) <= Cardinality(all)
    BY <2>1, <2>3, FS_Subset
  <2>5. Cardinality(both) = Cardinality(gone) + Cardinality(done)
    <3>1. Cardinality(gone \cup done) = Cardinality(gone) + Cardinality(done) - Cardinality(gone \cap done)
      BY <2>4, FS_Union
    <3>2. Cardinality(gone) \in Nat /\ Cardinality(done) \in Nat /\ Cardinality(gone \cap done) = 0
      BY <2>3, <2>4, FS_CardinalityType, FS_EmptySet
    <3>3. Cardinality(both) = Cardinality(gone) + Cardinality(done) - Cardinality(gone \cap done)
      BY <2>3, <3>1
    <3> QED
      BY <3>2, <3>3
  <2>6. Cardinality(gone) \in Nat /\ Cardinality(done) \in Nat
    BY <2>4, FS_CardinalityType
  <2>7. Views!Cardinality(all \ Views!Active(p)) = Cardinality(gone) /\ Views!Cardinality(all) = Cardinality(all)
    BY <1>2, ViewsCardinalityIs DEF gone
  <2> QED
    BY <2>2, <2>4, <2>5, <2>6, <2>7
<1>4. DOMAIN text \ Views!Text(p).mine = {t \in mine : p.tasks[t].status = "done"}
  <2>1. Views!Text(p).mine = {t \in mine : p.tasks[t].status # "done"}
    BY DEF Views!Text
  <2>2. DOMAIN text = mine
    BY <1>1
  <2> HIDE DEF text, mine
  <2> QED
    BY <2>1, <2>2
<1>5. DOMAIN text = mine /\ DOMAIN json = mine
  BY <1>1
<1> HIDE DEF text, json, mine
<1>6. \A t \in DOMAIN text :
        /\ text[t] = json[t] + Views!Cardinality(p.tasks[t].children \ Views!Active(p))
        /\ text[t] <= Views!Cardinality(p.tasks[t].children)
  BY <1>3, <1>5
<1> QED
  BY <1>4, <1>5, <1>6 DEF Views!SameTasks, text, json, mine

\* SameState of any project.
LEMMA SameStateOfAny ==
  ASSUME NEW p \in AllProjects, NEW files
  PROVE  Views!SameState(p, files)
<1> SUFFICES ASSUME p.developer # Views!None PROVE Views!SameState(p, files)
  BY DEF Views!SameState
<1>1. /\ Views!Active(p) = DOMAIN p.tasks /\ \A x \in NoNames : x \notin DOMAIN p.tasks
      /\ p.pointer \in DOMAIN p.tasks \cup NoNames
      /\ \A t \in DOMAIN p.tasks : p.tasks[t].status # "stale"
  <2>1. p.pointer \in DOMAIN p.tasks \cup NoNames
    BY DEF AllProjects
  <2> QED
    BY <2>1, ProjectTypes DEF AllTasks
<1>2. Views!Text(p).named = Views!Current(p) /\ Views!RecordJson(p).current = Views!Current(p)
      /\ Views!RecordText(p).named = Views!Current(p) /\ Views!Text(p).path = p.pointer
  BY DEF Views!Text, Views!RecordJson, Views!RecordText
<1>3. Views!Text(p).warns = Views!NearLimit(p.journal) /\ Views!Json(p).nearLimit = Views!NearLimit(p.journal)
  BY DEF Views!Text, Views!Json
<1>4. Views!Current(p) = IF p.pointer \in DOMAIN p.tasks THEN p.pointer ELSE Views!None
  BY <1>1 DEF Views!Current
<1>5. (p.pointer # Views!None /\ Views!Current(p) = Views!None) <=> p.pointer \in {Views!Gone, Views!Torn}
  BY <1>1, <1>4 DEF NoNames, Views!None, Views!Gone, Views!Torn
<1>6. Views!Compact(p).status =
        IF Views!Current(p) = Views!None THEN "unknown" ELSE p.tasks[p.pointer].status
  BY DEF Views!Compact
<1>7. Views!TaskStatus(p, files) = "stale" => Views!Current(p) = Views!None
  BY <1>1, <1>4 DEF Views!TaskStatus, NoNames
<1>8. Views!TaskStatus(p, files) \in {"stale", "no task", "planning", Views!Compact(p).status}
  BY <1>6 DEF Views!TaskStatus
<1> QED
  BY <1>2, <1>3, <1>5, <1>7, <1>8 DEF Views!SameState

\* ReposSound of any layout.
LEMMA ReposOfAnyLayout ==
  ASSUME NEW l \in AllLayouts
  PROVE  Views!ReposSound(l)
<1> DEFINE repos == {d \in l.dirs :
                  /\ Len(d) <= Depth
                  /\ \A n \in 1..Len(d) : d[n] \notin l.ignored
                  /\ d \in l.git
                  /\ \A n \in 1..(Len(d) - 1) : [i \in 1..n |-> d[i]] \notin l.git}
<1>1. Views!Discovered(l) = IF Cardinality(repos) < 2 THEN {} ELSE repos
  BY ViewsCardinalityIs DEF Views!Discovered
<1>2. IsFiniteSet(repos) /\ Cardinality(repos) \in Nat
  <2>1. IsFiniteSet(l.dirs) /\ repos \subseteq l.dirs
    BY DEF AllLayouts
  <2> HIDE DEF repos
  <2> QED
    BY <2>1, FS_Subset, FS_CardinalityType
<1>3. \A d \in repos : d \in l.git
  OBVIOUS
<1>4. ASSUME NEW d \in repos PROVE Views!Parent(d) \notin repos
  <2>1. d \in Seq(STRING) /\ d # <<>>
    BY DEF AllLayouts
  <2>2. <<>> \notin repos
    BY DEF AllLayouts
  <2>3. Len(d) \in Nat /\ Len(d) # 0
    BY <2>1
  <2>4. Views!Parent(d) = [n \in 1..(Len(d) - 1) |-> d[n]]
    BY <2>3 DEF Views!Parent
  <2>5. CASE Len(d) = 1
    <3>1. Views!Parent(d) = <<>>
      BY <2>4, <2>5
    <3> QED
      BY <2>2, <3>1
  <2>6. CASE Len(d) # 1
    <3>1. Len(d) - 1 \in 1..(Len(d) - 1)
      <4> DEFINE k == Len(d)
      <4>1. k \in Nat /\ k # 0 /\ k # 1
        BY <2>3, <2>6
      <4> HIDE DEF k
      <4>2. k - 1 \in 1..(k - 1)
        BY <4>1
      <4> QED
        BY <4>2 DEF k
    <3>2. Views!Parent(d) \notin l.git
      BY <2>3, <2>4, <3>1
    <3> QED
      BY <1>3, <3>2
  <2> QED
    BY <2>5, <2>6
<1>5. Views!PackageRepos(l) =
        IF l.packages \cap l.git # {} \/ l.isRepo THEN l.packages \cap l.git ELSE Views!Discovered(l)
  BY DEF Views!PackageRepos
<1> HIDE DEF repos
<1>6. \A d \in Views!PackageRepos(l) : d \in l.git
  BY <1>1, <1>3, <1>5
<1>7. ~ l.isRepo => ~ Views!RootClean(l)
  BY DEF Views!RootClean
<1>8. ASSUME l.packages \cap l.git = {}, Views!PackageRepos(l) # {}
      PROVE  Views!PackageRepos(l) = repos /\ Cardinality(repos) > 1
  <2>1. Views!PackageRepos(l) = Views!Discovered(l)
    BY <1>5, <1>8
  <2> QED
    BY <1>1, <1>2, <1>8, <2>1
<1> QED
  BY <1>4, <1>6, <1>7, <1>8, ViewsCardinalityIs DEF Views!ReposSound

\* BranchExists of any branches.
LEMMA BranchOfAny ==
  ASSUME NEW asked, NEW task, NEW current, NEW branches
  PROVE  Views!BranchExists(asked, task, current, branches)
BY DEF Views!BranchExists, Views!SessionBranch

\* ViewsSound: the views agree on every project and task, show each task once, and report
\* on the right repositories and branches.
THEOREM ViewsOfAnyProject == input \in Inputs => ViewsSound
<1>1. input \in Inputs /\ input.of = "project" => input.project \in AllProjects
  BY DEF Inputs
<1>2. input \in Inputs /\ input.of = "layout" => input.layout \in AllLayouts
  BY DEF Inputs
<1>3. ASSUME input.project \in AllProjects
      PROVE  /\ Views!PrintedOnce(input.project) /\ Views!SameTasks(input.project)
             /\ Views!SameState(input.project, input.files)
  BY <1>3, PrintedOnceOfAny, SameTasksOfAny, SameStateOfAny
<1>4. Views!BranchExists(input.asked, input.task, input.current, input.branches)
  BY BranchOfAny
<1>5. QED
  BY <1>1, <1>2, <1>3, <1>4, ReposOfAnyLayout DEF ViewsSound

-----------------------------------------------------------------------------
(* Paths *)

\* A path without "." in it; and one whose names are all in another path.
Dotless(path) == path \in Seq(Texts) /\ \A n \in 1..Len(path) : path[n] # "."
From(path, other) == \A n \in 1..Len(path) : \E m \in 1..Len(other) : path[n] = other[m]

\* Appending a name.
LEMMA AppendIs ==
  ASSUME NEW S, NEW path \in Seq(S), NEW name \in S
  PROVE  /\ Append(path, name) \in Seq(S) /\ Len(Append(path, name)) = Len(path) + 1
         /\ \A n \in 1..Len(path) : Append(path, name)[n] = path[n]
         /\ Append(path, name)[Len(path) + 1] = name
BY AppendProperties

\* The first name of a path.
LEMMA FirstIs ==
  ASSUME NEW S, NEW path \in Seq(S), path # <<>>
  PROVE  Len(path) \in Nat /\ Len(path) # 0 /\ Head(path) = path[1]
<1>1. Len(path) \in Nat /\ Head(path) = path[1]
  OBVIOUS
<1>2. Len(path) # 0
  BY EmptySeq
<1> QED
  BY <1>1, <1>2

\* The front of a path is shorter by one.
LEMMA FrontIs ==
  ASSUME NEW S, NEW path \in Seq(S), Len(path) # 0
  PROVE  Len(SubSeq(path, 1, Len(path) - 1)) = Len(path) - 1
<1> DEFINE end == Len(path) - 1
<1>1. end \in Nat /\ Len(path) = end + 1
  BY LenProperties
<1>2. \A n \in 1..end : path[n] \in S
  <2>1. \A n \in 1..end : n \in 1..Len(path)
    BY <1>1
  <2> QED
    BY <2>1, ElementOfSeq
<1> HIDE DEF end
<1>3. 1 \in Int /\ end \in Int
  BY <1>1
<1>4. Len(SubSeq(path, 1, end)) = IF 1 <= end THEN end - 1 + 1 ELSE 0
  BY <1>2, <1>3, SubSeqProperties
<1>5. Len(SubSeq(path, 1, end)) = end
  BY <1>1, <1>4
<1> QED
  BY <1>5 DEF end

\* Plain leaves out the names that mean nothing.
LEMMA PlainIs ==
  ASSUME NEW path \in Seq(Texts)
  PROVE  /\ Dotless(Refs!Plain(path)) /\ From(Refs!Plain(path), path)
         /\ Dotless(path) => Refs!Plain(path) = path
<1> DEFINE len == Len(path)
           Paths == Seq(Texts)
           Turn(f, n) == IF path[n] = "." THEN f ELSE Append(f, path[n])
           Plainly(f) == f = [n \in 0..Len(path) |->
                                IF n = 0 THEN <<>>
                                ELSE IF path[n] = "." THEN f[n - 1] ELSE Append(f[n - 1], path[n])]
           F == CHOOSE f : Plainly(f)
           step == [q \in (1..len) \X Paths |-> Turn(q[2], q[1])]
<1>1. len \in Nat /\ \A n \in 1..len : path[n] \in Texts
  OBVIOUS
<1>2. ASSUME NEW f \in Paths, NEW n \in 1..len PROVE Turn(f, n) \in Paths
  BY <1>1, AppendIs
<1>3. step \in [(1..len) \X Paths -> Paths] /\ <<>> \in Paths
  <2>1. <<>> \in Paths
    OBVIOUS
  <2> HIDE DEF Turn, Paths, len
  <2> QED
    BY <1>2, <2>1
<1>4. PICK f \in [0..len -> Paths] : f[0] = <<>> /\ \A n \in 1..len : f[n] = step[<<n, f[n - 1]>>]
  <2>1. step \in Steps(len, Paths)
    BY <1>3 DEF Steps
  <2> HIDE DEF len, step, Paths
  <2>2. Runs(len, Paths, <<>>, step) # {}
    BY <1>1, <1>3, <2>1, Recursion
  <2> QED
    BY <2>2 DEF Runs, IsRun
<1>5. \A n \in 1..len : f[n] = Turn(f[n - 1], n)
  <2> SUFFICES ASSUME NEW n \in 1..len PROVE f[n] = Turn(f[n - 1], n)
    OBVIOUS
  <2>1. n - 1 \in 0..len
    BY <1>1
  <2>2. f[n - 1] \in Paths
    BY <1>4, <2>1
  <2> HIDE DEF Turn, Paths
  <2> QED
    BY <1>4, <2>2
<1>6. Plainly(f)
  <2>1. ASSUME NEW n \in 0..len
        PROVE f[n] = IF n = 0 THEN <<>>
                     ELSE IF path[n] = "." THEN f[n - 1] ELSE Append(f[n - 1], path[n])
    <3>1. CASE n = 0
      BY <1>4, <3>1
    <3>2. CASE n # 0
      <4>1. n \in 1..len
        BY <1>1, <3>2
      <4> QED
        BY <1>5, <3>2, <4>1
    <3> QED
      BY <3>1, <3>2
  <2>2. f = [n \in 0..len |-> f[n]]
    BY <1>4
  <2> QED
    BY <2>1, <2>2
<1>7. Plainly(F)
  <2> HIDE DEF Plainly
  <2> QED
    BY <1>6
<1>8. Refs!Plain(path) = F[len]
  BY DEF Refs!Plain
<1> HIDE DEF F
<1>9. F[0] = <<>> /\ \A n \in 1..len : F[n] = Turn(F[n - 1], n)
  <2>1. ASSUME NEW n \in 0..len
        PROVE F[n] = IF n = 0 THEN <<>>
                     ELSE IF path[n] = "." THEN F[n - 1] ELSE Append(F[n - 1], path[n])
    BY <1>7
  <2>2. 0 \in 0..len /\ \A n \in 1..len : n \in 0..len /\ n # 0
    BY <1>1
  <2> QED
    BY <2>1, <2>2
<1> DEFINE Fine(n) == /\ Dotless(F[n]) /\ From(F[n], path)
                      /\ Dotless(path) => Len(F[n]) = n /\ \A m \in 1..n : F[n][m] = path[m]
           Good == {n \in Nat : n <= len => Fine(n)}
<1>10. 0 \in Good
  <2>1. Fine(0)
    BY <1>9 DEF Dotless, From
  <2> QED
    BY <2>1
<1>11. ASSUME NEW n \in Nat, n \in Good PROVE n + 1 \in Good
  <2> SUFFICES ASSUME n + 1 <= len PROVE Fine(n + 1)
    OBVIOUS
  <2>1. n + 1 \in 1..len /\ (n + 1) - 1 = n /\ n <= len
    BY <1>1
  <2>2. Fine(n)
    BY <1>11, <2>1
  <2>3. F[n + 1] = Turn(F[n], n + 1)
    BY <1>9, <2>1
  <2>4. path[n + 1] \in Texts
    BY <1>1, <2>1
  <2>5. CASE path[n + 1] = "."
    <3>1. F[n + 1] = F[n] /\ ~ Dotless(path)
      BY <2>1, <2>3, <2>5 DEF Dotless
    <3> QED
      BY <2>2, <3>1
  <2>6. CASE path[n + 1] # "."
    <3> DEFINE old == F[n]
               new == F[n + 1]
    <3>1. /\ new \in Seq(Texts) /\ Len(new) = Len(old) + 1 /\ Len(old) \in Nat
          /\ \A m \in 1..Len(old) : new[m] = old[m]
          /\ new[Len(old) + 1] = path[n + 1]
      <4>1. new = Append(old, path[n + 1]) /\ old \in Seq(Texts)
        BY <2>2, <2>3, <2>6 DEF Dotless
      <4> HIDE DEF new, old
      <4> QED
        BY <2>4, <4>1, AppendIs
    <3>2. Dotless(old) /\ From(old, path)
      BY <2>2
    <3>3. Dotless(path) => Len(old) = n /\ \A m \in 1..n : old[m] = path[m]
      BY <2>2
    <3> HIDE DEF new, old
    <3>4. \A m \in 1..Len(new) : m \in 1..Len(old) \/ m = Len(old) + 1
      BY <3>1
    <3>5. Dotless(new)
      BY <2>6, <3>1, <3>2, <3>4 DEF Dotless
    <3>6. From(new, path)
      BY <2>1, <3>1, <3>2, <3>4 DEF From
    <3>7. ASSUME Dotless(path) PROVE Len(new) = n + 1 /\ \A m \in 1..(n + 1) : new[m] = path[m]
      <4>1. Len(old) = n /\ \A m \in 1..n : old[m] = path[m]
        BY <3>3, <3>7
      <4>2. \A m \in 1..(n + 1) : m \in 1..n \/ m = n + 1
        OBVIOUS
      <4> QED
        BY <3>1, <4>1, <4>2
    <3> QED
      BY <3>5, <3>6, <3>7 DEF new
  <2> QED
    BY <2>5, <2>6
<1>12. Nat \subseteq Good
  <2> HIDE DEF Good
  <2> QED
    BY <1>10, <1>11, Induction
<1>13. Fine(len)
  BY <1>1, <1>12
<1>14. ASSUME Dotless(path) PROVE F[len] = path
  <2>1. F[len] \in Seq(Texts) /\ Len(F[len]) = Len(path) /\ \A m \in 1..Len(path) : F[len][m] = path[m]
    BY <1>13, <1>14 DEF Dotless
  <2> HIDE DEF len
  <2> QED
    BY <2>1
<1> QED
  BY <1>8, <1>13, <1>14

\* Undotted leaves out the first names if they mean nothing, but for the last of all.
LEMMA UndottedIs ==
  ASSUME NEW path \in Seq(Texts), path # <<>>
  PROVE  /\ Refs!Undotted(path) \in Seq(Texts) /\ Refs!Undotted(path) # <<>>
         /\ From(Refs!Undotted(path), path)
         /\ path[1] # "." => Refs!Undotted(path) = path
<1> DEFINE len == Len(path)
           named == {n \in 1..len : path[n] # "."}
           k == CHOOSE n \in named : \A m \in named : n <= m
<1>1. len \in Nat /\ len # 0 /\ \A n \in 1..len : path[n] \in Texts
  OBVIOUS
<1>2. CASE named = {}
  <2>1. Refs!Undotted(path) = <<path[len]>>
    BY <1>2 DEF Refs!Undotted, Refs!Last
  <2>2. len \in 1..len /\ 1 \in 1..len
    BY <1>1
  <2>3. path[1] = "."
    BY <1>2, <2>2
  <2>4. <<path[len]>> \in Seq(Texts) /\ Len(<<path[len]>>) = 1 /\ <<path[len]>>[1] = path[len] /\ <<path[len]>> # <<>>
    BY <1>1, <2>2
  <2> HIDE DEF len
  <2>5. From(<<path[len]>>, path)
    BY <2>2, <2>4 DEF From, len
  <2> QED
    BY <2>1, <2>3, <2>4, <2>5
<1>3. CASE named # {}
  <2>1. k \in named /\ \A m \in named : k <= m
    <3>1. \E n \in named : \A m \in named : n <= m
      <4>1. named \subseteq Nat
        BY <1>1
      <4> HIDE DEF named
      <4> QED
        BY <1>3, <4>1, Least
    <3> HIDE DEF named
    <3> QED
      BY <3>1
  <2>2. Refs!Undotted(path) = SubSeq(path, k, len)
    BY <1>3 DEF Refs!Undotted
  <2> HIDE DEF k
  <2>3. k \in 1..len
    BY <2>1
  <2> DEFINE s == SubSeq(path, k, len)
  <2>4. s \in Seq(Texts) /\ Len(s) = len - k + 1 /\ \A n \in 1..(len - k + 1) : s[n] = path[k + n - 1]
    BY <1>1, <2>3
  <2> HIDE DEF s
  <2>5. \A n \in 1..(len - k + 1) : k + n - 1 \in 1..len
    BY <1>1, <2>3
  <2>6. From(s, path)
    BY <2>4, <2>5 DEF From
  <2>7. s # <<>>
    BY <1>1, <2>3, <2>4
  <2>8. ASSUME path[1] # "." PROVE s = path
    <3>1. 1 \in named
      BY <1>1, <2>8
    <3>2. k = 1
      BY <2>1, <2>3, <3>1
    <3>3. Len(s) = Len(path) /\ \A n \in 1..Len(path) : s[n] = path[n]
      BY <1>1, <2>4, <3>2
    <3> QED
      BY <2>4, <3>3
  <2> QED
    BY <2>2, <2>4, <2>6, <2>7, <2>8 DEF s
<1> QED
  BY <1>2, <1>3

-----------------------------------------------------------------------------
(* Places *)

\* Paths of one name and of two.
LEMMA ShortPaths ==
  ASSUME NEW S, NEW x \in S, NEW y \in S
  PROVE  /\ <<x>> \in Seq(S) /\ Len(<<x>>) = 1 /\ <<x>>[1] = x
         /\ <<x, y>> \in Seq(S) /\ Len(<<x, y>>) = 2 /\ <<x, y>>[1] = x /\ <<x, y>>[2] = y
         /\ Append(<<>>, x) = <<x>> /\ Append(<<x>>, y) = <<x, y>>
<1>1. /\ <<x>> \in Seq(S) /\ Len(<<x>>) = 1 /\ <<x>>[1] = x
      /\ <<x, y>> \in Seq(S) /\ Len(<<x, y>>) = 2 /\ <<x, y>>[1] = x /\ <<x, y>>[2] = y
  OBVIOUS
<1>2. Append(<<>>, x) = <<x>>
  <2>1. <<>> \in Seq(S) /\ Len(<<>>) = 0
    OBVIOUS
  <2>2. Append(<<>>, x) \in Seq(S) /\ Len(Append(<<>>, x)) = 1 /\ Append(<<>>, x)[1] = x
    BY <2>1, AppendIs
  <2> QED
    BY <1>1, <2>2, SeqEqual
<1>3. Append(<<x>>, y) = <<x, y>>
  <2> DEFINE s == Append(<<x>>, y)
  <2>1. s \in Seq(S) /\ Len(s) = 1 + 1 /\ s[1] = <<x>>[1] /\ s[1 + 1] = y
    BY <1>1, AppendIs
  <2> HIDE DEF s
  <2>2. Len(s) = 2 /\ s[1] = x /\ s[2] = y
    BY <1>1, <2>1
  <2>3. \A n \in 1..Len(s) : n = 1 \/ n = 2
    BY <2>2
  <2>4. \A n \in 1..Len(s) : s[n] = <<x, y>>[n]
    BY <1>1, <2>2, <2>3
  <2> QED
    BY <1>1, <2>1, <2>2, <2>4, SeqEqual DEF s
<1> QED
  BY <1>1, <1>2, <1>3

\* The paths that have names.
LEMMA NamedPaths ==
  /\ Refs!Above \in Seq(Texts) /\ Refs!Nowhere \in Seq(Texts)
  /\ Refs!Workflow \in Seq(Texts) /\ Len(Refs!Workflow) = 1 /\ Refs!Workflow[1] = ".trellis"
  /\ Refs!Tasks \in Seq(Texts) /\ Len(Refs!Tasks) = 2
  /\ Refs!Tasks[1] = ".trellis" /\ Refs!Tasks[2] = "tasks"
  /\ Append(<<>>, ".trellis") = Refs!Workflow /\ Append(Refs!Workflow, "tasks") = Refs!Tasks
<1>1. ".." \in Texts /\ "nowhere" \in Texts /\ ".trellis" \in Texts /\ "tasks" \in Texts
  BY DEF Texts
<1> QED
  BY <1>1, ShortPaths DEF Refs!Above, Refs!Nowhere, Refs!Workflow, Refs!Tasks

\* One name further.
Follow(tree, here, name) ==
  IF here \in {Refs!Above, Refs!Nowhere} THEN Refs!Nowhere
  ELSE IF name = "." THEN here
  ELSE IF name = ".." THEN IF here = <<>> THEN Refs!Above ELSE Refs!Front(here)
  ELSE IF Append(here, name) \in tree THEN Append(here, name)
  ELSE Refs!Nowhere

\* Where one is after each name of a path.
Walks(tree, path) ==
  {at \in [0..Len(path) -> Seq(Texts)] :
     at[0] = <<>> /\ \A n \in 1..Len(path) : at[n] = Follow(tree, at[n - 1], path[n])}

\* It is a path again.
LEMMA FollowTypes ==
  ASSUME NEW tree, NEW here \in Seq(Texts), NEW name \in Texts
  PROVE  Follow(tree, here, name) \in Seq(Texts)
<1>1. Refs!Above \in Seq(Texts) /\ Refs!Nowhere \in Seq(Texts)
  BY NamedPaths
<1>2. Append(here, name) \in Seq(Texts)
  BY AppendIs
<1>3. here # <<>> => Refs!Front(here) \in Seq(Texts)
  <2> SUFFICES ASSUME here # <<>> PROVE SubSeq(here, 1, Len(here) - 1) \in Seq(Texts)
    BY DEF Refs!Front
  <2> QED
    OBVIOUS
<1> QED
  BY <1>1, <1>2, <1>3 DEF Follow

\* Place is where a walk ends.
LEMMA PlaceIs ==
  ASSUME NEW tree, NEW path \in Seq(Texts)
  PROVE  \E at \in Walks(tree, path) : Refs!Place(tree, path) = at[Len(path)]
<1> DEFINE len == Len(path)
           Paths == Seq(Texts)
           Turn(f, n) == Follow(tree, f, path[n])
           Walk(f) == f = [n \in 0..Len(path) |->
             IF n = 0 THEN <<>>
             ELSE IF f[n - 1] \in {Refs!Above, Refs!Nowhere} THEN Refs!Nowhere
                  ELSE IF path[n] = "." THEN f[n - 1]
                  ELSE IF path[n] = ".." THEN IF f[n - 1] = <<>> THEN Refs!Above ELSE Refs!Front(f[n - 1])
                  ELSE IF Append(f[n - 1], path[n]) \in tree THEN Append(f[n - 1], path[n])
                  ELSE Refs!Nowhere]
           F == CHOOSE f : Walk(f)
           step == [q \in (1..len) \X Paths |-> Turn(q[2], q[1])]
<1>1. len \in Nat /\ \A n \in 1..len : path[n] \in Texts
  OBVIOUS
<1>2. ASSUME NEW f \in Paths, NEW n \in 1..len PROVE Turn(f, n) \in Paths
  BY <1>1, FollowTypes
<1>3. step \in [(1..len) \X Paths -> Paths] /\ <<>> \in Paths
  <2>1. <<>> \in Paths
    OBVIOUS
  <2> HIDE DEF Turn, Paths, len
  <2> QED
    BY <1>2, <2>1
<1>4. PICK f \in [0..len -> Paths] : f[0] = <<>> /\ \A n \in 1..len : f[n] = step[<<n, f[n - 1]>>]
  <2>1. step \in Steps(len, Paths)
    BY <1>3 DEF Steps
  <2> HIDE DEF len, step, Paths
  <2>2. Runs(len, Paths, <<>>, step) # {}
    BY <1>1, <1>3, <2>1, Recursion
  <2> QED
    BY <2>2 DEF Runs, IsRun
<1>5. \A n \in 1..len : f[n] = Turn(f[n - 1], n)
  <2> SUFFICES ASSUME NEW n \in 1..len PROVE f[n] = Turn(f[n - 1], n)
    OBVIOUS
  <2>1. n - 1 \in 0..len
    BY <1>1
  <2>2. f[n - 1] \in Paths
    BY <1>4, <2>1
  <2> HIDE DEF Turn, Paths
  <2> QED
    BY <1>4, <2>2
<1>6. Walk(f)
  <2> DEFINE Entry(n) ==
             IF n = 0 THEN <<>>
             ELSE IF f[n - 1] \in {Refs!Above, Refs!Nowhere} THEN Refs!Nowhere
                  ELSE IF path[n] = "." THEN f[n - 1]
                  ELSE IF path[n] = ".." THEN IF f[n - 1] = <<>> THEN Refs!Above ELSE Refs!Front(f[n - 1])
                  ELSE IF Append(f[n - 1], path[n]) \in tree THEN Append(f[n - 1], path[n])
                  ELSE Refs!Nowhere
  <2>1. ASSUME NEW n \in 0..len
        PROVE f[n] = Entry(n)
    <3>1. CASE n = 0
      BY <1>4, <3>1
    <3>2. CASE n # 0
      <4>1. n \in 1..len
        BY <1>1, <3>2
      <4>2. f[n] = Follow(tree, f[n - 1], path[n])
        BY <1>5, <4>1
      <4> QED
        BY <3>2, <4>2 DEF Follow
    <3> QED
      BY <3>1, <3>2
  <2>2. f = [n \in 0..len |-> f[n]]
    BY <1>4
  <2> HIDE DEF Entry
  <2>3. f = [n \in 0..len |-> Entry(n)]
    BY <2>1, <2>2
  <2> QED
    BY <2>3 DEF Entry
<1>7. Walk(F)
  <2> HIDE DEF Walk
  <2> QED
    BY <1>6
<1>8. Refs!Place(tree, path) = F[len]
  BY DEF Refs!Place
<1> HIDE DEF F
<1>9. F = [n \in 0..len |-> F[n]] /\ F[0] = <<>> /\ \A n \in 1..len : F[n] = Turn(F[n - 1], n)
  <2>1. F = [n \in 0..len |-> F[n]]
    BY <1>7
  <2>2. F[0] = <<>>
    <3>1. 0 \in 0..len
      BY <1>1
    <3> QED
      BY <1>7, <3>1
  <2>3. ASSUME NEW n \in 1..len PROVE F[n] = Turn(F[n - 1], n)
    <3>1. n \in 0..len /\ n # 0
      BY <1>1
    <3> DEFINE here == F[n - 1]
    <3>2. F[n] = IF here \in {Refs!Above, Refs!Nowhere} THEN Refs!Nowhere
                  ELSE IF path[n] = "." THEN here
                  ELSE IF path[n] = ".." THEN IF here = <<>> THEN Refs!Above ELSE Refs!Front(here)
                  ELSE IF Append(here, path[n]) \in tree THEN Append(here, path[n])
                  ELSE Refs!Nowhere
      BY <1>7, <3>1
    <3> HIDE DEF here
    <3>3. F[n] = Follow(tree, here, path[n])
      BY <3>2 DEF Follow
    <3> QED
      BY <3>3 DEF here
  <2> QED
    BY <2>1, <2>2, <2>3
<1> HIDE DEF Walk
<1>10. \A n \in 0..len : F[n] \in Paths
  <2> DEFINE Good == {n \in Nat : n <= len => F[n] \in Paths}
  <2>1. 0 \in Good
    BY <1>3, <1>9
  <2>2. ASSUME NEW n \in Nat, n \in Good PROVE n + 1 \in Good
    <3> SUFFICES ASSUME n + 1 <= len PROVE F[n + 1] \in Paths
      OBVIOUS
    <3>1. n + 1 \in 1..len /\ (n + 1) - 1 = n /\ n <= len
      BY <1>1
    <3>2. F[n] \in Paths
      BY <2>2, <3>1
    <3>3. F[n + 1] = Turn(F[n], n + 1)
      BY <1>9, <3>1
    <3> HIDE DEF Turn, Paths
    <3> QED
      BY <1>2, <3>1, <3>2, <3>3
  <2>3. Nat \subseteq Good
    <3> HIDE DEF Good
    <3> QED
      BY <2>1, <2>2, Induction
  <2> QED
    BY <1>1, <2>3
<1>11. F \in Walks(tree, path)
  <2>1. F \in [0..len -> Paths]
    BY <1>9, <1>10
  <2> QED
    BY <1>9, <2>1 DEF Walks
<1> QED
  BY <1>8, <1>11

\* What a walk has, without naming its domain.
LEMMA WalkIs ==
  ASSUME NEW tree, NEW path \in Seq(Texts), NEW at \in Walks(tree, path)
  PROVE  /\ at[0] = <<>>
         /\ \A n \in 0..Len(path) : at[n] \in Seq(Texts)
         /\ \A n \in Nat : n + 1 <= Len(path) =>
              at[n + 1] = Follow(tree, at[n], path[n + 1]) /\ path[n + 1] \in Texts
<1>1. at[0] = <<>> /\ \A n \in 0..Len(path) : at[n] \in Seq(Texts)
  BY DEF Walks
<1>2. ASSUME NEW n \in Nat, n + 1 <= Len(path)
      PROVE  at[n + 1] = Follow(tree, at[n], path[n + 1]) /\ path[n + 1] \in Texts
  <2>1. n + 1 \in 1..Len(path) /\ (n + 1) - 1 = n
    BY <1>2
  <2>2. at[n + 1] = Follow(tree, at[(n + 1) - 1], path[n + 1])
    BY <2>1 DEF Walks
  <2> QED
    BY <2>1, <2>2
<1> QED
  BY <1>1, <1>2

\* A path that neither goes up nor stands still leads to the directory of its name or to none.
LEMMA PlainPlace ==
  ASSUME NEW tree \in AllTrees, NEW path, Dotless(path), \A n \in 1..Len(path) : path[n] # ".."
  PROVE  Refs!Place(tree, path) \in {path, Refs!Nowhere}
<1> DEFINE len == Len(path)
<1>1. path \in Seq(Texts) /\ len \in Nat
  BY DEF Dotless
<1>2. PICK at \in Walks(tree, path) : Refs!Place(tree, path) = at[len]
  BY <1>1, PlaceIs
<1> DEFINE There(n) == Len(at[n]) = n /\ \A m \in 1..n : at[n][m] = path[m]
           Good == {n \in Nat : n <= len => at[n] = Refs!Nowhere \/ There(n)}
<1>3. 0 \in Good
  <2>1. at[0] = <<>>
    BY <1>1, WalkIs
  <2> QED
    BY <2>1
<1>4. ASSUME NEW n \in Nat, n \in Good PROVE n + 1 \in Good
  <2> SUFFICES ASSUME n + 1 <= len PROVE at[n + 1] = Refs!Nowhere \/ There(n + 1)
    OBVIOUS
  <2>1. n <= len /\ n + 1 \in 1..len
    BY <1>1
  <2> DEFINE here == at[n]
             name == path[n + 1]
  <2>2. at[n + 1] = Follow(tree, here, name) /\ name \in Texts /\ here \in Seq(Texts)
    BY <1>1, <2>1, WalkIs
  <2>3. name # "." /\ name # ".."
    BY <2>1 DEF Dotless
  <2>4. here = Refs!Nowhere \/ (Len(here) = n /\ \A m \in 1..n : here[m] = path[m])
    BY <1>4, <2>1
  <2> HIDE DEF here
  <2>5. CASE at[n + 1] = Append(here, name) /\ here # Refs!Nowhere
    <3>1. /\ Len(Append(here, name)) = n + 1
          /\ \A m \in 1..n : Append(here, name)[m] = path[m]
          /\ Append(here, name)[n + 1] = name
      <4> HIDE DEF name
      <4> QED
        BY <2>2, <2>4, <2>5, AppendIs
    <3>2. \A m \in 1..(n + 1) : m \in 1..n \/ m = n + 1
      OBVIOUS
    <3> QED
      BY <2>5, <3>1, <3>2
  <2> HIDE DEF name
  <2>6. at[n + 1] = Refs!Nowhere \/ (at[n + 1] = Append(here, name) /\ here # Refs!Nowhere)
    BY <2>2, <2>3 DEF Follow
  <2> QED
    BY <2>5, <2>6
<1>5. Nat \subseteq Good
  <2> HIDE DEF Good
  <2> QED
    BY <1>3, <1>4, Induction
<1>6. at[len] = Refs!Nowhere \/ There(len)
  BY <1>1, <1>5
<1>7. ASSUME There(len) PROVE at[len] = path
  <2>1. at[len] \in Seq(Texts)
    BY <1>1, WalkIs
  <2> QED
    BY <1>1, <1>7, <2>1, SeqEqual
<1> QED
  BY <1>2, <1>6, <1>7

\* A path into the tasks directory gets there with its second name.
LEMMA WalkToTasks ==
  ASSUME NEW tree \in AllTrees, NEW path \in Seq(Texts), NEW at \in Walks(tree, path),
         Len(path) >= 2, path[1] = ".trellis", path[2] = "tasks"
  PROVE  at[2] = Refs!Tasks
<1>1. at[0] = <<>> /\ at[1] = Follow(tree, <<>>, ".trellis") /\ at[2] = Follow(tree, at[1], "tasks")
  <2>1. Len(path) \in Nat /\ 0 + 1 = 1 /\ 1 + 1 = 2
    OBVIOUS
  <2>2. at[0] = <<>> /\ at[0 + 1] = Follow(tree, at[0], path[0 + 1]) /\ at[1 + 1] = Follow(tree, at[1], path[1 + 1])
    BY <2>1, WalkIs
  <2> QED
    BY <2>1, <2>2
<1>2. Append(<<>>, ".trellis") = Refs!Workflow /\ Append(Refs!Workflow, "tasks") = Refs!Tasks
  BY NamedPaths
<1>3. Refs!Workflow \in tree /\ Refs!Tasks \in tree
  BY DEF AllTrees
<1>4. Refs!Workflow # Refs!Above /\ Refs!Workflow # Refs!Nowhere /\ <<>> # Refs!Above /\ <<>> # Refs!Nowhere
  BY DEF Refs!Workflow, Refs!Above, Refs!Nowhere
<1>5. at[1] = Refs!Workflow
  BY <1>1, <1>2, <1>3, <1>4 DEF Follow
<1> QED
  BY <1>1, <1>2, <1>3, <1>4, <1>5 DEF Follow

\* The path of a task.
LEMMA TaskPath ==
  ASSUME NEW x \in Texts
  PROVE  LET task == Append(Refs!Tasks, x) IN
         /\ task \in Seq(Texts) /\ Len(task) = 3
         /\ task[1] = ".trellis" /\ task[2] = "tasks" /\ task[3] = x
<1> DEFINE tasks == Refs!Tasks
           task == Append(tasks, x)
<1>1. tasks \in Seq(Texts) /\ Len(tasks) = 2 /\ tasks[1] = ".trellis" /\ tasks[2] = "tasks"
  BY NamedPaths
<1> HIDE DEF tasks
<1>2. /\ task \in Seq(Texts) /\ Len(task) = Len(tasks) + 1
      /\ \A n \in 1..Len(tasks) : task[n] = tasks[n]
      /\ task[Len(tasks) + 1] = x
  BY <1>1, AppendIs, Zenon
<1> HIDE DEF task
<1>3. Len(task) = 3 /\ task[3] = x /\ task[1] = tasks[1] /\ task[2] = tasks[2]
  BY <1>1, <1>2
<1> QED
  BY <1>1, <1>2, <1>3 DEF task, tasks

\* The tasks directory and the tasks are where their paths say, or there is no such task.
LEMMA TaskPlaces ==
  ASSUME NEW tree \in AllTrees
  PROVE  /\ Refs!Place(tree, Refs!Tasks) = Refs!Tasks
         /\ \A x \in Texts \ {".", ".."} :
              Refs!Place(tree, Append(Refs!Tasks, x)) =
                IF Append(Refs!Tasks, x) \in tree THEN Append(Refs!Tasks, x) ELSE Refs!Nowhere
<1>1. Refs!Place(tree, Refs!Tasks) = Refs!Tasks
  <2>1. PICK at \in Walks(tree, Refs!Tasks) : Refs!Place(tree, Refs!Tasks) = at[2]
    <3>1. Refs!Tasks \in Seq(Texts) /\ Len(Refs!Tasks) = 2
      BY NamedPaths
    <3>2. \E at \in Walks(tree, Refs!Tasks) : Refs!Place(tree, Refs!Tasks) = at[Len(Refs!Tasks)]
      BY <3>1, PlaceIs
    <3> QED
      BY <3>1, <3>2
  <2>2. Refs!Tasks \in Seq(Texts) /\ Len(Refs!Tasks) >= 2
        /\ Refs!Tasks[1] = ".trellis" /\ Refs!Tasks[2] = "tasks"
    BY NamedPaths
  <2> QED
    BY <2>1, <2>2, WalkToTasks
<1>2. ASSUME NEW x \in Texts \ {".", ".."}
      PROVE  Refs!Place(tree, Append(Refs!Tasks, x)) =
                IF Append(Refs!Tasks, x) \in tree THEN Append(Refs!Tasks, x) ELSE Refs!Nowhere
  <2> DEFINE path == Append(Refs!Tasks, x)
  <2>1. path \in Seq(Texts) /\ Len(path) = 3 /\ path[1] = ".trellis" /\ path[2] = "tasks" /\ path[3] = x
    BY TaskPath
  <2> HIDE DEF path
  <2>2. PICK at \in Walks(tree, path) : Refs!Place(tree, path) = at[3]
    BY <2>1, PlaceIs
  <2>3. at[2] = Refs!Tasks
    BY <2>1, WalkToTasks
  <2>4. at[3] = Follow(tree, Refs!Tasks, x)
    <3>1. ASSUME NEW n \in Nat, n = 2 PROVE at[n + 1] = Follow(tree, at[n], path[n + 1])
      <4>1. n + 1 <= Len(path)
        BY <2>1, <3>1
      <4> QED
        BY <2>1, <4>1, WalkIs
    <3> QED
      BY <2>1, <2>3, <3>1
  <2>5. Refs!Tasks # Refs!Above /\ Refs!Tasks # Refs!Nowhere
    BY DEF Refs!Tasks, Refs!Above, Refs!Nowhere
  <2> QED
    BY <2>2, <2>4, <2>5 DEF Follow, path
<1> QED
  BY <1>1, <1>2

\* Without going up, a path that begins with a name ends below the root or nowhere.
LEMMA PlaceBelow ==
  ASSUME NEW tree \in AllTrees, NEW path \in Seq(Texts), path # <<>>, path[1] # ".",
         \A n \in 1..Len(path) : path[n] # ".."
  PROVE  Refs!Place(tree, path) \notin {<<>>, Refs!Above}
<1> DEFINE len == Len(path)
<1>1. len \in Nat /\ len # 0
  OBVIOUS
<1>2. PICK at \in Walks(tree, path) : Refs!Place(tree, path) = at[len]
  BY PlaceIs
<1>3. <<>> \notin tree /\ Refs!Above \notin tree
  <2>1. tree \subseteq Seq(Texts \ {".", ".."}) \ {<<>>, Refs!Nowhere}
    BY DEF AllTrees
  <2>2. ASSUME Refs!Above \in tree PROVE FALSE
    <3>1. Refs!Above \in Seq(Texts \ {".", ".."})
      BY <2>1, <2>2
    <3>2. Refs!Above[1] \in Texts \ {".", ".."}
      BY <3>1 DEF Refs!Above
    <3> QED
      BY <3>2 DEF Refs!Above
  <2> QED
    BY <2>1, <2>2
<1>4. Refs!Nowhere # <<>> /\ Refs!Nowhere # Refs!Above
  BY DEF Refs!Nowhere, Refs!Above
<1> DEFINE Good == {n \in Nat : n + 1 <= len => at[n + 1] \notin {<<>>, Refs!Above}}
<1>5. \A n \in Nat : n + 1 <= len => at[n + 1] = Follow(tree, at[n], path[n + 1]) /\ path[n + 1] # ".."
  <2> SUFFICES ASSUME NEW n \in Nat, n + 1 <= len
               PROVE  at[n + 1] = Follow(tree, at[n], path[n + 1]) /\ path[n + 1] # ".."
    OBVIOUS
  <2>1. n + 1 \in 1..len
    BY <1>1
  <2> QED
    BY <2>1, WalkIs
<1>6. 0 \in Good
  <2>1. at[0 + 1] = Follow(tree, at[0], path[0 + 1]) /\ path[0 + 1] # ".." /\ at[0] = <<>>
    BY <1>1, <1>5, WalkIs
  <2>2. at[1] = Follow(tree, <<>>, path[1]) /\ path[1] # ".."
    BY <2>1
  <2>3. at[1] \in tree \cup {Refs!Nowhere}
    BY <2>2 DEF Follow
  <2> QED
    BY <1>3, <1>4, <2>3
<1>7. ASSUME NEW n \in Nat, n \in Good PROVE n + 1 \in Good
  <2> SUFFICES ASSUME (n + 1) + 1 <= len PROVE at[(n + 1) + 1] \notin {<<>>, Refs!Above}
    OBVIOUS
  <2>1. at[n + 1] \notin {<<>>, Refs!Above}
    BY <1>1, <1>7
  <2>2. at[(n + 1) + 1] = Follow(tree, at[n + 1], path[(n + 1) + 1]) /\ path[(n + 1) + 1] # ".."
    BY <1>5
  <2>3. at[(n + 1) + 1] \in tree \cup {Refs!Nowhere, at[n + 1]}
    BY <2>2 DEF Follow
  <2> QED
    BY <1>3, <1>4, <2>1, <2>3
<1>8. Nat \subseteq Good
  <2> HIDE DEF Good
  <2> QED
    BY <1>6, <1>7, Induction
<1>9. len - 1 \in Good /\ (len - 1) + 1 = len
  BY <1>1, <1>8
<1> QED
  BY <1>2, <1>9

-----------------------------------------------------------------------------
(* References *)

\* Putting a path below another one.
LEMMA BelowIs ==
  ASSUME NEW top \in Seq(Texts), NEW path \in Seq(Texts), top # <<>>
  PROVE  /\ top \o path \in Seq(Texts) /\ top \o path # <<>> /\ (top \o path)[1] = top[1]
         /\ Len(top \o path) = Len(top) + Len(path)
         /\ Dotless(top) /\ Dotless(path) => Dotless(top \o path)
         /\ \A name : (\A n \in 1..Len(top) : top[n] # name) /\ (\A n \in 1..Len(path) : path[n] # name)
                        => \A n \in 1..Len(top \o path) : (top \o path)[n] # name
<1> DEFINE all == top \o path
<1>1. /\ all \in Seq(Texts) /\ Len(all) = Len(top) + Len(path)
      /\ \A n \in 1..Len(top) + Len(path) : all[n] = IF n <= Len(top) THEN top[n] ELSE path[n - Len(top)]
  BY ConcatProperties
<1>2. Len(top) \in Nat /\ Len(top) # 0 /\ Len(path) \in Nat
  OBVIOUS
<1> HIDE DEF all
<1>3. all # <<>> /\ all[1] = top[1]
  BY <1>1, <1>2
<1>4. ASSUME NEW n \in 1..Len(all)
      PROVE  (n \in 1..Len(top) /\ all[n] = top[n]) \/ (n - Len(top) \in 1..Len(path) /\ all[n] = path[n - Len(top)])
  BY <1>1, <1>2
<1>5. Dotless(top) /\ Dotless(path) => Dotless(all)
  BY <1>1, <1>4 DEF Dotless
<1>6. \A name : (\A n \in 1..Len(top) : top[n] # name) /\ (\A n \in 1..Len(path) : path[n] # name)
                  => \A n \in 1..Len(all) : all[n] # name
  BY <1>4
<1> QED
  BY <1>1, <1>3, <1>5, <1>6 DEF all

\* The directories of the agent.
LEMMA AgentPaths ==
  /\ Dotless(Refs!Workflow) /\ Dotless(Refs!Tasks)
  /\ \A n \in 1..Len(Refs!Workflow) : Refs!Workflow[n] # ".."
  /\ \A n \in 1..Len(Refs!Tasks) : Refs!Tasks[n] # ".."
  /\ Refs!Workflow # <<>> /\ Refs!Tasks # <<>>
<1>1. \A n \in 1..Len(Refs!Workflow) : n = 1
  BY NamedPaths
<1>2. \A n \in 1..Len(Refs!Tasks) : n = 1 \/ n = 2
  BY NamedPaths
<1>3. Refs!Workflow # <<>> /\ Refs!Tasks # <<>>
  BY DEF Refs!Workflow, Refs!Tasks
<1> QED
  BY <1>1, <1>2, <1>3, NamedPaths DEF Dotless

\* Where a path leads that start or a session file has written.
LEMMA ResolveIs ==
  ASSUME NEW path, Dotless(path), path # <<>>
  PROVE  LET ref == Refs!Ref(FALSE, path) IN
         /\ Refs!StartsWith(".trellis", path) =>
              Refs!ResolveTaskRef(ref) = path /\ Refs!ResolveInHook(ref) = path
         /\ path[1] = ".trellis" /\ Len(path) = 1 => Refs!ResolveTaskRef(ref) = Refs!Tasks \o path
         /\ path[1] # ".trellis" => Refs!ResolveTaskRef(ref) =
              IF Refs!StartsWith("tasks", path) THEN Refs!Workflow \o path ELSE Refs!Tasks \o path
<1> DEFINE ref == Refs!Ref(FALSE, path)
<1>1. path \in Seq(Texts) /\ Len(path) \in Nat /\ Len(path) # 0 /\ path[1] # "." /\ Head(path) = path[1]
  <2>1. path \in Seq(Texts)
    BY DEF Dotless
  <2>2. Len(path) \in Nat /\ Len(path) # 0 /\ Head(path) = path[1]
    BY <2>1
  <2> QED
    BY <2>1, <2>2 DEF Dotless
<1>2. Refs!Undotted(path) = path /\ Refs!Plain(path) = path
  BY <1>1, UndottedIs, PlainIs
<1>3. ~ ref.whole /\ ref.path = path
  BY DEF Refs!Ref
<1> HIDE DEF ref
<1>4. Refs!NormalizeTaskRef(ref).path =
        IF Refs!StartsWith("tasks", path) THEN Refs!Workflow \o path ELSE path
  BY <1>2, <1>3 DEF Refs!NormalizeTaskRef, Refs!Ref
<1>5. CASE Refs!StartsWith("tasks", path)
  <2> DEFINE all == Refs!Workflow \o path
  <2>1. all \in Seq(Texts) /\ Len(all) = 1 + Len(path) /\ all[1] = ".trellis" /\ all # <<>> /\ Dotless(all)
    BY <1>1, BelowIs, AgentPaths, NamedPaths
  <2> HIDE DEF all
  <2>2. Head(all) = all[1] /\ Len(all) > 1
    BY <1>1, <2>1
  <2>3. Refs!StartsWith(".trellis", all) /\ Refs!Plain(all) = all
    BY <2>1, <2>2, PlainIs DEF Refs!StartsWith
  <2>4. Refs!ResolveTaskRef(ref) = all
    BY <1>4, <1>5, <2>3 DEF Refs!ResolveTaskRef, all
  <2>5. path[1] = "tasks" /\ ~ Refs!StartsWith(".trellis", path)
    BY <1>1, <1>5 DEF Refs!StartsWith
  <2> QED
    BY <1>5, <2>4, <2>5 DEF all, ref
<1>6. CASE ~ Refs!StartsWith("tasks", path)
  <2>1. Refs!ResolveTaskRef(ref) = IF Refs!StartsWith(".trellis", path) THEN path ELSE Refs!Tasks \o path
    BY <1>2, <1>3, <1>4, <1>6 DEF Refs!ResolveTaskRef
  <2>2. Refs!StartsWith(".trellis", path) => Refs!ResolveInHook(ref) = path
    BY <1>4, <1>6 DEF Refs!ResolveInHook
  <2>3. Refs!StartsWith(".trellis", path) <=> Len(path) > 1 /\ path[1] = ".trellis"
    BY <1>1 DEF Refs!StartsWith
  <2>4. Refs!StartsWith(".trellis", path) =>
          Refs!ResolveTaskRef(ref) = path /\ Refs!ResolveInHook(ref) = path
    BY <2>1, <2>2
  <2>5. path[1] = ".trellis" /\ Len(path) = 1 => Refs!ResolveTaskRef(ref) = Refs!Tasks \o path
    BY <2>1, <2>3
  <2>6. path[1] # ".trellis" => Refs!ResolveTaskRef(ref) = Refs!Tasks \o path
    BY <2>1, <2>3
  <2> QED
    BY <1>6, <2>4, <2>5, <2>6 DEF ref
<1> QED
  BY <1>5, <1>6

\* A path no name of which leads up.
NotUp(path) == \A n \in 1..Len(path) : path[n] # ".."

\* Range has the names of a path.
LEMMA UpwardsIs ==
  ASSUME NEW ref \in AllRefs
  PROVE  ~ Refs!Upwards(ref) => NotUp(ref.path)
<1>1. DOMAIN ref.path = 1..Len(ref.path)
  BY DEF AllRefs
<1> QED
  BY <1>1 DEF Refs!Upwards, Refs!Range, NotUp

\* What resolve_task_dir finds has no "." in it, and no ".." unless it was typed.
LEMMA FoundIs ==
  ASSUME NEW tree \in AllTrees, NEW ref \in AllRefs, NEW path \in Refs!ResolveTaskDir(tree, ref)
  PROVE  Dotless(path) /\ (NotUp(ref.path) => NotUp(path))
<1>1. ref.path \in Seq(Texts) /\ (~ ref.whole => ref.path # <<>>)
  BY DEF AllRefs
<1>2. Dotless(Refs!Plain(ref.path)) /\ From(Refs!Plain(ref.path), ref.path)
  BY <1>1, PlainIs
<1>3. NotUp(ref.path) => NotUp(Refs!Plain(ref.path))
  BY <1>2 DEF From, NotUp
<1> DEFINE undotted == Refs!Undotted(ref.path)
<1>4. ASSUME ~ ref.whole
      PROVE  /\ Dotless(Refs!Plain(undotted))
             /\ NotUp(ref.path) => NotUp(Refs!Plain(undotted))
  <2>1. undotted \in Seq(Texts) /\ From(undotted, ref.path)
    BY <1>1, <1>4, UndottedIs
  <2> HIDE DEF undotted
  <2>2. Dotless(Refs!Plain(undotted)) /\ From(Refs!Plain(undotted), undotted)
    BY <2>1, PlainIs
  <2>3. NotUp(ref.path) => NotUp(undotted)
    BY <2>1 DEF From, NotUp
  <2>4. NotUp(undotted) => NotUp(Refs!Plain(undotted))
    BY <2>2 DEF From, NotUp
  <2> QED
    BY <2>2, <2>3, <2>4
<1>5. ASSUME NEW found \in Refs!FindTaskByName(tree, ref.path)
      PROVE  Dotless(found) /\ (NotUp(ref.path) => NotUp(found))
  <2>1. CASE found = Refs!Tasks \o Refs!Plain(ref.path)
    <3> DEFINE below == Refs!Plain(ref.path)
    <3>1. Dotless(Refs!Tasks) /\ NotUp(Refs!Tasks) /\ Refs!Tasks # <<>> /\ Refs!Tasks \in Seq(Texts)
      BY AgentPaths, NamedPaths DEF NotUp
    <3>2. Dotless(below) /\ below \in Seq(Texts) /\ (NotUp(ref.path) => NotUp(below))
      BY <1>2, <1>3 DEF Dotless
    <3> HIDE DEF below
    <3>3. Dotless(Refs!Tasks \o below)
      BY <3>1, <3>2, BelowIs
    <3>4. NotUp(below) => NotUp(Refs!Tasks \o below)
      BY <3>1, <3>2, BelowIs DEF NotUp
    <3> QED
      BY <2>1, <3>2, <3>3, <3>4 DEF below
  <2>2. CASE found # Refs!Tasks \o Refs!Plain(ref.path)
    <3>1. found \in tree
      BY <2>2 DEF Refs!FindTaskByName
    <3>2. found \in Seq(Texts \ {".", ".."})
      BY <3>1 DEF AllTrees
    <3>3. \A n \in 1..Len(found) : found[n] \in Texts \ {".", ".."}
      BY <3>2
    <3>4. found \in Seq(Texts)
      BY <3>2
    <3> QED
      BY <3>3, <3>4 DEF Dotless, NotUp
  <2> QED
    BY <2>1, <2>2
<1>6. \/ path = Refs!Plain(ref.path)
      \/ ~ ref.whole /\ path = Refs!Plain(undotted)
      \/ path \in Refs!FindTaskByName(tree, ref.path)
  BY DEF Refs!ResolveTaskDir
<1> HIDE DEF undotted
<1> QED
  BY <1>2, <1>3, <1>4, <1>5, <1>6

\* The pointer that start stores for the directory at a path.
PointerTo(tree, path) ==
  Refs!CanonicalTaskRef(tree, Refs!Ref(FALSE, IF path = <<>> THEN <<".">> ELSE path))

\* What start finds, and stores for it.
LEMMA StartedIs ==
  ASSUME NEW tree \in AllTrees, NEW ref \in AllRefs, NEW s \in Refs!Started(tree, ref)
  PROVE  /\ Dotless(s.found) /\ (NotUp(ref.path) => NotUp(s.found))
         /\ Refs!Place(tree, s.found) # Refs!Nowhere
         /\ s.pointer = PointerTo(tree, s.found)
<1>1. PICK path \in Refs!ResolveTaskDir(tree, ref) :
        /\ Refs!IsDir(tree, path)
        /\ s = [found |-> path, pointer |-> PointerTo(tree, path)]
  BY DEF Refs!Started, PointerTo
<1>2. s.found = path /\ s.pointer = PointerTo(tree, path)
  BY <1>1
<1> QED
  BY <1>1, <1>2, FoundIs DEF Refs!IsDir

\* The pointer is the path itself, below the agent's directory, and none for that one;
\* a path outside is taken for one of the same name inside.
LEMMA PointerIs ==
  ASSUME NEW tree \in AllTrees, NEW path, Dotless(path), Refs!Place(tree, path) # Refs!Nowhere
  PROVE  /\ Refs!StartsWith(".trellis", path) => PointerTo(tree, path) = Refs!Ref(FALSE, path)
         /\ path = Refs!Workflow => PointerTo(tree, path) = Refs!NoRef
         /\ ~ Refs!InWorkflow(path) /\ PointerTo(tree, path) # Refs!NoRef =>
              \/ Refs!Place(tree, Refs!Tasks \o path) # Refs!Nowhere
              \/ Refs!StartsWith("tasks", path) /\ Refs!Place(tree, Refs!Workflow \o path) # Refs!Nowhere
<1> DEFINE ref == Refs!Ref(FALSE, path)
           to == Refs!ResolveTaskRef(ref)
<1>1. path \in Seq(Texts)
  BY DEF Dotless
<1>2. path # <<>> =>
        PointerTo(tree, path) = IF Refs!Place(tree, to) # Refs!Nowhere THEN Refs!Ref(FALSE, to) ELSE Refs!NoRef
  BY DEF PointerTo, Refs!CanonicalTaskRef, Refs!IsDir
<1>3. path # <<>> =>
         /\ Refs!StartsWith(".trellis", path) => to = path
         /\ path[1] = ".trellis" /\ Len(path) = 1 => to = Refs!Tasks \o path
         /\ path[1] # ".trellis" => to =
              IF Refs!StartsWith("tasks", path) THEN Refs!Workflow \o path ELSE Refs!Tasks \o path
  BY ResolveIs
<1> HIDE DEF ref, to
<1>4. Refs!StartsWith(".trellis", path) => PointerTo(tree, path) = Refs!Ref(FALSE, path)
  <2>1. Refs!StartsWith(".trellis", path) => path # <<>>
    BY <1>1 DEF Refs!StartsWith
  <2> QED
    BY <1>2, <1>3, <2>1
<1>5. ASSUME path = Refs!Workflow PROVE PointerTo(tree, path) = Refs!NoRef
  <2>1. path # <<>> /\ path[1] = ".trellis" /\ Len(path) = 1 /\ path = <<".trellis">>
    BY <1>5, NamedPaths, AgentPaths DEF Refs!Workflow
  <2>2. to = Refs!Tasks \o <<".trellis">>
    BY <1>3, <2>1
  <2>3. ".trellis" \in Texts \ {".", ".."}
    BY DEF Texts
  <2>4. Refs!Tasks \o <<".trellis">> = Append(Refs!Tasks, ".trellis")
    <3>1. Refs!Tasks \in Seq(Texts) /\ ".trellis" \in Texts
      BY <2>3, NamedPaths
    <3> QED
      BY <3>1, AppendIsConcat
  <2>5. Append(Refs!Tasks, ".trellis") \notin tree
    BY DEF AllTrees
  <2>6. Refs!Place(tree, to) = Refs!Nowhere
    BY <2>2, <2>3, <2>4, <2>5, TaskPlaces
  <2> QED
    BY <1>2, <2>1, <2>6
<1>6. CASE path = <<>>
  <2>1. Refs!Tasks \o path = Refs!Tasks
    BY <1>6, NamedPaths, ConcatEmptySeq
  <2>2. Refs!Tasks # Refs!Nowhere
    BY DEF Refs!Tasks, Refs!Nowhere
  <2>3. path # Refs!Workflow
    BY <1>6 DEF Refs!Workflow
  <2> QED
    BY <1>4, <2>1, <2>2, <2>3, TaskPlaces
<1>7. CASE path # <<>>
  <2>1. Head(path) = path[1]
    BY <1>1, <1>7
  <2>2. ASSUME ~ Refs!InWorkflow(path), PointerTo(tree, path) # Refs!NoRef
        PROVE  \/ Refs!Place(tree, Refs!Tasks \o path) # Refs!Nowhere
               \/ Refs!StartsWith("tasks", path) /\ Refs!Place(tree, Refs!Workflow \o path) # Refs!Nowhere
    <3>1. path[1] # ".trellis"
      BY <1>7, <2>1, <2>2 DEF Refs!InWorkflow
    <3>2. Refs!Place(tree, to) # Refs!Nowhere
      BY <1>2, <1>7, <2>2
    <3> QED
      BY <1>3, <1>7, <3>1, <3>2
  <2> QED
    BY <1>4, <1>5, <2>2
<1> QED
  BY <1>6, <1>7

\* PointersHold of any reference in any tree.
LEMMA PointersHoldOfAny ==
  ASSUME NEW tree \in AllTrees, NEW ref \in AllRefs
  PROVE  Refs!PointersHold(tree, ref)
<1> SUFFICES ASSUME NEW s \in Refs!Started(tree, ref), ~ Refs!Upwards(ref),
                    Refs!InWorkflow(Refs!Place(tree, s.found)), s.pointer # Refs!NoRef
             PROVE  /\ Refs!Place(tree, Refs!ResolveTaskRef(s.pointer)) = Refs!Place(tree, s.found)
                    /\ Refs!ResolveInHook(s.pointer) = Refs!ResolveTaskRef(s.pointer)
                    /\ Refs!CanonicalTaskRef(tree, s.pointer) = s.pointer
                    /\ Refs!TaskRefsMatch(s.pointer, Refs!Ref(TRUE, Refs!Place(tree, s.found)))
  BY DEF Refs!PointersHold
<1> DEFINE path == s.found
<1>1. /\ Dotless(path) /\ NotUp(path) /\ Refs!Place(tree, path) # Refs!Nowhere
      /\ s.pointer = PointerTo(tree, path)
  BY StartedIs, UpwardsIs
<1> HIDE DEF path
<1>2. Refs!Place(tree, path) = path
  BY <1>1, PlainPlace DEF NotUp
<1>3. path \in Seq(Texts) /\ path # <<>> /\ Head(path) = ".trellis"
  BY <1>1, <1>2 DEF Dotless, Refs!InWorkflow, path
<1>4. Refs!StartsWith(".trellis", path)
  <2> SUFFICES ASSUME Len(path) <= 1 PROVE FALSE
    BY <1>3 DEF Refs!StartsWith
  <2>1. Len(path) = 1 /\ path[1] = ".trellis"
    <3>1. Len(path) \in Nat /\ Len(path) # 0 /\ Head(path) = path[1]
      BY <1>3, FirstIs
    <3>2. Head(path) = ".trellis"
      BY <1>3
    <3>3. \A len \in Nat : len <= 1 /\ len # 0 => len = 1
      OBVIOUS
    <3>4. Len(path) = 1
      BY <3>1, <3>3
    <3> QED
      BY <3>1, <3>2, <3>4
  <2>2. \A n \in 1..Len(path) : n = 1
    BY <2>1
  <2>3. path = Refs!Workflow
    BY <1>3, <2>1, <2>2, NamedPaths, SeqEqual
  <2> QED
    BY <1>1, <2>3, PointerIs
<1>5. s.pointer = Refs!Ref(FALSE, path)
  BY <1>1, <1>4, PointerIs
<1>6. Refs!ResolveTaskRef(s.pointer) = path /\ Refs!ResolveInHook(s.pointer) = path
  BY <1>1, <1>3, <1>4, <1>5, ResolveIs
<1>7. Refs!CanonicalTaskRef(tree, s.pointer) = s.pointer
  BY <1>1, <1>5, <1>6 DEF Refs!CanonicalTaskRef, Refs!IsDir
<1> DEFINE absolute == Refs!Ref(TRUE, path)
<1>8. Refs!ResolveTaskRef(absolute) = path
  <2>1. absolute.whole /\ absolute.path = path
    BY DEF Refs!Ref
  <2>2. Refs!Plain(path) = path
    BY <1>1, <1>3, PlainIs
  <2> HIDE DEF absolute
  <2>3. Refs!NormalizeTaskRef(absolute).path = path
    BY <2>1, <2>2 DEF Refs!NormalizeTaskRef, Refs!Ref
  <2> QED
    BY <2>1, <2>2, <2>3 DEF Refs!ResolveTaskRef
<1>9. Refs!NoRef # s.pointer /\ Refs!NoRef # absolute
  BY <1>3, <1>5 DEF Refs!NoRef, Refs!Ref
<1>10. Refs!TaskRefsMatch(s.pointer, absolute)
  BY <1>6, <1>8, <1>9 DEF Refs!TaskRefsMatch
<1> QED
  BY <1>2, <1>6, <1>7, <1>10 DEF path

\* PointersRefused of any reference in any tree.
LEMMA PointersRefusedOfAny ==
  ASSUME NEW tree \in AllTrees, NEW ref \in AllRefs
  PROVE  Refs!PointersRefused(tree, ref)
<1> SUFFICES ASSUME NEW s \in Refs!Started(tree, ref)
             PROVE  /\ s.pointer = Refs!NoRef => s.found = Refs!Workflow \/ ~ Refs!InWorkflow(s.found)
                    /\ ~ Refs!InWorkflow(s.found) /\ s.pointer # Refs!NoRef =>
                         \/ Refs!Place(tree, Refs!Tasks \o s.found) # Refs!Nowhere
                         \/ /\ Refs!StartsWith("tasks", s.found)
                            /\ Refs!Place(tree, Refs!Workflow \o s.found) # Refs!Nowhere
  BY DEF Refs!PointersRefused
<1> DEFINE path == s.found
<1>1. Dotless(path) /\ Refs!Place(tree, path) # Refs!Nowhere /\ s.pointer = PointerTo(tree, path)
  BY StartedIs
<1> HIDE DEF path
<1>2. ASSUME s.pointer = Refs!NoRef, path # Refs!Workflow, Refs!InWorkflow(path) PROVE FALSE
  <2>1. path \in Seq(Texts) /\ path # <<>> /\ Head(path) = ".trellis"
    BY <1>1, <1>2 DEF Dotless, Refs!InWorkflow
  <2>2. Refs!StartsWith(".trellis", path)
    <3> SUFFICES ASSUME Len(path) <= 1 PROVE FALSE
      BY <2>1 DEF Refs!StartsWith
    <3>1. Len(path) = 1 /\ path[1] = ".trellis"
      <4>1. Len(path) \in Nat /\ Len(path) # 0 /\ Head(path) = path[1]
        BY <2>1, FirstIs
      <4>2. Head(path) = ".trellis"
        BY <2>1
      <4>3. \A len \in Nat : len <= 1 /\ len # 0 => len = 1
        OBVIOUS
      <4>4. Len(path) = 1
        BY <4>1, <4>3
      <4> QED
        BY <4>1, <4>2, <4>4
    <3>2. \A n \in 1..Len(path) : n = 1
      BY <3>1
    <3>3. path = Refs!Workflow
      BY <2>1, <3>1, <3>2, NamedPaths, SeqEqual
    <3> QED
      BY <1>2, <3>3
  <2>3. s.pointer = Refs!Ref(FALSE, path)
    BY <1>1, <2>2, PointerIs
  <2> QED
    BY <1>2, <2>1, <2>3 DEF Refs!NoRef, Refs!Ref
<1> QED
  BY <1>1, <1>2, PointerIs DEF path

\* MovesTasksOnly of any reference in any tree.
LEMMA MovesTasksOnlyOfAny ==
  ASSUME NEW tree \in AllTrees, NEW ref \in AllRefs
  PROVE  Refs!MovesTasksOnly(tree, ref)
<1> SUFFICES ASSUME NEW path \in Refs!Moved(tree, ref)
             PROVE  LET place == Refs!Place(tree, path) IN
                    /\ Len(place) = 3 /\ Refs!Front(place) = Refs!Tasks
                    /\ Len(ref.path) = 1 /\ ~ ref.whole /\ Refs!Tasks \o ref.path \in tree =>
                         place = Refs!Tasks \o ref.path
  BY DEF Refs!MovesTasksOnly
<1> DEFINE place == Refs!Place(tree, path)
<1>1. path \in Refs!ResolveTaskDir(tree, ref) /\ place # <<>> /\ Refs!Front(place) = Refs!Tasks
  BY DEF Refs!Moved, Refs!IsWithinTasksDir
<1>2. path \in Seq(Texts)
  BY <1>1, FoundIs DEF Dotless
<1>3. place \in Seq(Texts)
  <2>1. PICK at \in Walks(tree, path) : place = at[Len(path)]
    BY <1>2, PlaceIs
  <2>2. Len(path) \in 0..Len(path)
    BY <1>2
  <2> QED
    BY <1>2, <2>1, <2>2, WalkIs
<1>4. ref.path \in Seq(Texts)
  BY DEF AllRefs
<1> HIDE DEF place
<1>5. Len(place) = 3
  <2>1. SubSeq(place, 1, Len(place) - 1) = Refs!Tasks
    BY <1>1 DEF Refs!Front
  <2>2. Len(place) \in Nat /\ Len(place) # 0
    BY <1>1, <1>3
  <2>3. Len(SubSeq(place, 1, Len(place) - 1)) = Len(place) - 1
    BY <1>3, <2>2, FrontIs
  <2>4. Len(Refs!Tasks) = 2
    BY NamedPaths
  <2>5. Len(place) - 1 = 2
    BY <2>1, <2>3, <2>4
  <2> HIDE DEF place
  <2> QED
    BY <2>2, <2>5
<1>6. ASSUME Len(ref.path) = 1, ~ ref.whole, Refs!Tasks \o ref.path \in tree
      PROVE  place = Refs!Tasks \o ref.path
  <2> DEFINE x == ref.path[1]
             task == Append(Refs!Tasks, x)
  <2>1. ref.path = <<x>> /\ x \in Texts
    BY <1>4, <1>6
  <2> HIDE DEF x
  <2>2. task = Refs!Tasks \o ref.path
    BY <2>1, NamedPaths, AppendIsConcat
  <2>3. /\ task \in Seq(Texts) /\ Len(task) = 3 /\ task[3] = x
    BY <2>1, TaskPath
  <2>4. x \in Texts \ {".", ".."}
    <3>1. task \in Seq(Texts \ {".", ".."})
      BY <1>6, <2>2 DEF AllTrees
    <3> HIDE DEF task
    <3>2. 3 \in 1..Len(task)
      BY <2>3
    <3>3. task[3] \in Texts \ {".", ".."}
      BY <3>1, <3>2
    <3> QED
      BY <2>3, <3>3
  <2>5. Dotless(ref.path) /\ ref.path[1] # "." /\ ref.path # <<>>
    <3>1. ref.path[1] = x /\ \A n \in 1..Len(ref.path) : n = 1
      BY <1>6 DEF x
    <3>2. ref.path # <<>>
      BY <1>6 DEF AllRefs
    <3> QED
      BY <1>4, <2>4, <3>1, <3>2 DEF Dotless
  <2>6. Refs!Undotted(ref.path) = ref.path /\ Refs!Plain(ref.path) = ref.path
    BY <1>4, <2>5, UndottedIs, PlainIs
  <2>7. Refs!Place(tree, task) = task
    BY <1>6, <2>2, <2>4, TaskPlaces
  <2>8. task # Refs!Nowhere
    BY <1>6, <2>2 DEF AllTrees
  <2>9. Refs!FindTaskByName(tree, ref.path) = {task}
    BY <2>2, <2>6, <2>7, <2>8 DEF Refs!FindTaskByName, Refs!IsDir
  <2>10. path = task \/ path = Refs!Workflow
    <3>1. Refs!ResolveTaskDir(tree, ref) \subseteq {ref.path, task}
      BY <1>6, <2>6, <2>9 DEF Refs!ResolveTaskDir
    <3>2. ref.path # Refs!Workflow => Refs!ResolveTaskDir(tree, ref) = {task}
      <4> HIDE DEF task
      <4>1. ~ (Len(ref.path) > 1) /\ {task} # {}
        BY <1>6
      <4>2. Refs!ResolveTaskDir(tree, ref) =
              IF Len(ref.path) > 1 \/ ref.path = Refs!Workflow \/ {task} = {}
              THEN {ref.path} ELSE {task}
        BY <1>6, <2>6, <2>9 DEF Refs!ResolveTaskDir
      <4> QED
        BY <4>1, <4>2
    <3> QED
      BY <1>1, <3>1, <3>2
  <2>11. path # Refs!Workflow
    <3> SUFFICES ASSUME path = Refs!Workflow PROVE FALSE
      OBVIOUS
    <3>1. Dotless(path) /\ NotUp(path) /\ Len(path) = 1
      BY AgentPaths, NamedPaths DEF NotUp
    <3>2. place \in {path, Refs!Nowhere}
      BY <3>1, PlainPlace DEF NotUp, place
    <3>3. Len(Refs!Nowhere) = 1
      BY DEF Refs!Nowhere
    <3> QED
      BY <1>5, <3>1, <3>2, <3>3
  <2> QED
    BY <2>2, <2>7, <2>10, <2>11 DEF place
<1> QED
  BY <1>1, <1>5, <1>6 DEF place

\* SafePathsStayInside of any reference in any tree.
LEMMA SafePathsOfAny ==
  ASSUME NEW tree \in AllTrees, NEW ref \in AllRefs
  PROVE  Refs!SafePathsStayInside(tree, ref)
<1> SUFFICES ASSUME Refs!IsSafeTaskPath(ref)
             PROVE  Refs!Place(tree, ref.path) \notin {<<>>, Refs!Above}
  BY DEF Refs!SafePathsStayInside
<1>1. ref.path \in Seq(Texts) /\ ref.path # <<>>
  BY DEF AllRefs, Refs!IsSafeTaskPath
<1>2. NotUp(ref.path)
  BY UpwardsIs DEF Refs!IsSafeTaskPath, Refs!Upwards
<1>3. ref.path[1] # "."
  BY <1>1 DEF Refs!IsSafeTaskPath
<1> QED
  BY <1>1, <1>2, <1>3, PlaceBelow DEF NotUp

\* RefsSound: in any tree, and for any text, a pointer leads every script back to the task
\* that start found, archive moves tasks only, and a path called safe stays inside.
THEOREM RefsOfAnyTree == input \in Inputs => RefsSound
<1>1. input \in Inputs /\ input.of = "ref" => input.tree \in AllTrees /\ input.ref \in AllRefs
  BY DEF Inputs
<1> QED
  BY <1>1, PointersHoldOfAny, PointersRefusedOfAny, MovesTasksOnlyOfAny, SafePathsOfAny
     DEF RefsSound, Refs!RefsSound
=============================================================================
