-------------------------- MODULE SourcePoolProofs --------------------------
(***************************************************************************)
(* Proofs of what SourcePool promises about the slices and the pools read  *)
(* from them, for any sources, intervals, lives and delays.                *)
(***************************************************************************)
EXTENDS SourcePool, TLAPS

-----------------------------------------------------------------------------
(* The inductive invariant *)

\* A slice that is there expires Freshness seconds after its records were fetched.
SliceAges == \A s \in Sources : slice[s].left > 0 => slice[s].age + slice[s].valid = Freshness

\* The loops of a process that is up are on, those of one that is down are not, and a Redis
\* command is open for Latency seconds at most.
LoopsFollowPhase ==
  \A s \in Sources :
    /\ phase = "up" => loop[s].pc # "off"
    /\ phase = "down" => loop[s].pc = "off" /\ ~ steady[s]
    /\ loop[s].pc = "new" => ~ steady[s]
    /\ loop[s].pc = "store" => loop[s].timer <= Latency

\* The longest a steady loop has been underway since its last store.
Underway(s) ==
  CASE loop[s].pc = "sleep" -> loop[s].timer
    [] loop[s].pc = "fetch" -> Interval[s] + loop[s].timer
    [] OTHER                -> Interval[s] + FetchMax + loop[s].timer

\* A steady loop is within its time, its slice was written that long ago at most, and was
\* Latency seconds old at most when it was written.
SteadyInTime ==
  phase = "up" =>
    \A s \in Brisk :
      steady[s] =>
        /\ loop[s].pc = "sleep" => loop[s].timer <= Interval[s]
        /\ loop[s].pc = "fetch" => loop[s].timer <= FetchMax
        /\ SliceTTL - slice[s].left <= Underway(s)
        /\ slice[s].age <= Latency + (SliceTTL - slice[s].left)

\* How far a read has come, and what it may have passed over: of the sources that were
\* unexpired all along only those stored to meanwhile.
ReadFollowsOrder ==
  /\ read.pc = "read" => read.next <= Len(Order)
  /\ read.pc = "done" => read.next = Len(Order) + 1
  /\ read.pc = "read" =>
       \A s \in sound \ renewed : Unexpired(slice[s]) /\ slice[s].age >= read.lag
  /\ read.pc # "idle" /\ read.found = {} =>
       \A i \in 1..Len(Order) : i < read.next /\ Order[i] \in sound => Order[i] \in renewed

IInv ==
  /\ TypeOK /\ SliceAges /\ LoopsFollowPhase /\ SteadyInTime
  /\ ServedIsFresh /\ ReadFollowsOrder

-----------------------------------------------------------------------------
(* Types *)

\* What a second does to a slice.
LEMMA AgedSlice ==
  ASSUME NEW sl \in [age : Nat, valid : Int, left : Nat]
  PROVE  /\ Aged(sl) \in [age : Nat, valid : Int, left : Nat]
         /\ Aged(sl).left <= sl.left
         /\ Aged(sl).left > 0 => /\ sl.left > 1
                                 /\ Aged(sl).left = sl.left - 1
                                 /\ Aged(sl).age = sl.age + 1
                                 /\ Aged(sl).valid = sl.valid - 1
BY DEF Aged, NoSlice

\* What a second does to a loop.
LEMMA WaitedLoop ==
  ASSUME TypeOK, NEW s \in Sources
  PROVE  /\ Waited(s) \in [pc : {"off", "new", "fetch", "store", "sleep"}, timer : Nat]
         /\ Waited(s).pc = loop[s].pc
         /\ Waited(s).pc \in {"store", "sleep"} => Waited(s).timer = loop[s].timer + 1
         /\ Waited(s).pc = "fetch" /\ loop[s].timer <= FetchMax
              => Waited(s).timer = loop[s].timer + 1
<1> DEFINE later == [loop[s] EXCEPT !.timer = loop[s].timer + 1]
<1>1. loop[s] \in [pc : {"off", "new", "fetch", "store", "sleep"}, timer : Nat]
  BY DEF TypeOK
<1>2. later = [pc |-> loop[s].pc, timer |-> loop[s].timer + 1]
  BY <1>1
<1>3. Waited(s) = IF loop[s].pc = "off" \/ (loop[s].pc = "fetch" /\ loop[s].timer > FetchMax)
                    THEN loop[s] ELSE later
  BY DEF Waited
<1>4. QED
  BY <1>1, <1>2, <1>3, TimingAssumption

\* A slice has its validity counted from the fetch and its life from the write.
LEMMA WrittenSlice ==
  ASSUME NEW delay \in Nat
  PROVE  /\ NewSlice(delay) \in [age : Nat, valid : Int, left : Nat]
         /\ NewSlice(delay).age = delay
         /\ NewSlice(delay).valid = Freshness - delay
         /\ NewSlice(delay).left = SliceTTL
BY TimingAssumption DEF NewSlice

\* The type of a read.
Reads == [pc : {"idle", "read", "done"}, next : 1..Len(Order) + 1,
          lag : Nat, wait : Nat, found : SUBSET Find]

\* No read has begun.
LEMMA IdleRead ==
  /\ NoRead \in Reads
  /\ NoRead.pc = "idle" /\ NoRead.next = 1 /\ NoRead.lag = 0 /\ NoRead.found = {}
<1>1. Len(Order) \in Nat
  BY OrderAssumption
<1>2. QED
  BY <1>1 DEF NoRead, Reads

\* The order names at least one source, and only sources.
LEMMA OrderFacts ==
  /\ Len(Order) \in Nat /\ Len(Order) >= 1
  /\ \A i \in 1..Len(Order) : Order[i] \in Sources
BY OrderAssumption

LEMMA InitInvariant == Init => IInv
<1> SUFFICES ASSUME Init PROVE IInv
  OBVIOUS
<1> USE DEF Init
<1>1. TypeOK
  BY IdleRead, TimingAssumption DEF TypeOK, NoSlice, Reads
<1>2. SliceAges
  BY DEF SliceAges, NoSlice
<1>3. LoopsFollowPhase
  BY DEF LoopsFollowPhase
<1>4. SteadyInTime
  BY DEF SteadyInTime
<1>5. ServedIsFresh
  BY IdleRead DEF ServedIsFresh
<1>6. ReadFollowsOrder
  BY IdleRead DEF ReadFollowsOrder
<1>7. QED
  BY <1>1, <1>2, <1>3, <1>4, <1>5, <1>6 DEF IInv

\* Every step keeps the types.
LEMMA TypeStep ==
  ASSUME TypeOK, ReadFollowsOrder, [Next]_vars
  PROVE  TypeOK'
<1> USE DEF TypeOK
<1>1. CASE Start
  BY <1>1 DEF Start
<1>2. CASE Stop
  BY <1>2 DEF Stop
<1>3. CASE StopDone
  BY <1>3 DEF StopDone
<1>4. CASE Crash
  BY <1>4, IdleRead DEF Crash, Reads
<1>5. CASE RedisRestart
  BY <1>5 DEF RedisRestart, NoSlice
<1>6. ASSUME NEW s \in Sources, Poll(s) PROVE TypeOK'
  <2>1. CASE Turn(s)
    BY <2>1 DEF Turn, GoTo
  <2>2. CASE FetchRecords(s)
    BY <2>2 DEF FetchRecords, GoTo
  <2>3. CASE FetchNothing(s)
    BY <2>3 DEF FetchNothing, GoTo
  <2>4. CASE StoreSlice(s)
    BY <2>4, WrittenSlice DEF StoreSlice, GoTo
  <2>5. CASE StoreFails(s)
    BY <2>5 DEF StoreFails, GoTo
  <2>6. QED
    BY <1>6, <2>1, <2>2, <2>3, <2>4, <2>5 DEF Poll
<1>7. CASE StartRead
  BY <1>7, IdleRead DEF StartRead, Reads
<1>8. CASE ReadSlice
  <2> DEFINE find == [src |-> Order[read.next], lead |-> slice[Order[read.next]].age - read.lag]
  <2>1. read.next \in 1..Len(Order) /\ Order[read.next] \in Sources
    BY <1>8, OrderFacts DEF ReadSlice, ReadFollowsOrder
  <2>2. find \in Find
    BY <2>1 DEF Find
  <2>3. read.found \cup {find} \in SUBSET Find
    BY <2>2
  <2> DEFINE found == IF FreshAt(slice[Order[read.next]], read.lag)
                        THEN read.found \cup {find} ELSE read.found
  <2>4. found \in SUBSET Find
    BY <2>3
  <2>5. read' = [pc |-> IF read.next = Len(Order) THEN "done" ELSE "read",
                 next |-> read.next + 1, lag |-> read.lag, wait |-> 0, found |-> found]
    BY <1>8 DEF ReadSlice
  <2> HIDE DEF found
  <2>6. read.next + 1 \in 1..Len(Order) + 1
    BY <2>1, OrderFacts
  <2>7. read.lag \in Nat
    OBVIOUS
  <2>8. read' \in Reads
    BY ONLY <2>4, <2>5, <2>6, <2>7 DEF Reads
  <2>9. QED
    BY <1>8, <2>8 DEF ReadSlice, Reads
<1>9. CASE ReadFails
  BY <1>9, IdleRead DEF ReadFails, Reads
<1>10. CASE Reply
  BY <1>10, IdleRead DEF Reply, Reads
<1>11. CASE Tick
  <2>1. loop' \in [Sources -> [pc : {"off", "new", "fetch", "store", "sleep"}, timer : Nat]]
    BY <1>11, WaitedLoop DEF Tick
  <2>2. slice' \in [Sources -> [age : Nat, valid : Int, left : Nat]]
    BY <1>11, AgedSlice DEF Tick
  <2>3. read' \in Reads
    <3>1. CASE read.pc = "idle"
      BY <1>11, <3>1 DEF Tick, Reads
    <3>2. CASE read.pc # "idle"
      <4>1. read' = [pc |-> read.pc, next |-> read.next, lag |-> read.lag + 1,
                     wait |-> read.wait + 1, found |-> read.found]
        BY <1>11, <3>2 DEF Tick
      <4>2. QED
        BY <4>1 DEF Reads
    <3>3. QED
      BY <3>1, <3>2
  <2>4. steady' \in [Sources -> BOOLEAN]
    BY <1>11 DEF Tick
  <2>5. sound' \subseteq Sources
    BY <1>11 DEF Tick
  <2>6. QED
    BY <1>11, <2>1, <2>2, <2>3, <2>4, <2>5 DEF Tick, Reads
<1>12. CASE UNCHANGED vars
  BY <1>12 DEF vars
<1>13. QED
  BY <1>1, <1>2, <1>3, <1>4, <1>5, <1>6, <1>7, <1>8, <1>9, <1>10, <1>11, <1>12 DEF Next

-----------------------------------------------------------------------------
(* What the other steps leave alone *)

\* The steps that touch no slice.
Quiet ==
  \/ Start \/ Stop \/ StopDone \/ Crash
  \/ \E s \in Sources : Turn(s) \/ FetchRecords(s) \/ FetchNothing(s) \/ StoreFails(s)
  \/ StartRead \/ ReadSlice \/ ReadFails \/ Reply
  \/ UNCHANGED vars

\* A step stores a slice, lets a second pass, loses all slices, or leaves them alone.
LEMMA Steps ==
  ASSUME [Next]_vars
  PROVE  \/ \E s \in Sources : StoreSlice(s)
         \/ Tick
         \/ RedisRestart
         \/ Quiet
BY DEF Next, Poll, Quiet

LEMMA QuietSlices == Quiet => UNCHANGED slice
BY DEF Quiet, Start, Stop, StopDone, Crash, Turn, FetchRecords, FetchNothing, StoreFails,
   StartRead, ReadSlice, ReadFails, Reply, vars

\* What is left of a slice shrinks with time.
LEMMA TickSlices ==
  ASSUME TypeOK, Tick, NEW s \in Sources
  PROVE  /\ slice'[s].left <= slice[s].left
         /\ slice[s].left > 1 => slice'[s].left = slice[s].left - 1
         /\ slice'[s].left > 0 => /\ slice'[s].left = slice[s].left - 1
                                  /\ slice'[s].age = slice[s].age + 1
                                  /\ slice'[s].valid = slice[s].valid - 1
<1>1. slice[s] \in [age : Nat, valid : Int, left : Nat]
  BY DEF TypeOK
<1>2. slice'[s] = Aged(slice[s])
  BY DEF Tick
<1>3. slice[s].left > 1 => Aged(slice[s]).left = slice[s].left - 1
  BY <1>1 DEF Aged
<1>4. QED
  BY <1>1, <1>2, <1>3, AgedSlice

\* The slice a store leaves behind, and the others.
LEMMA StoreSlices ==
  ASSUME TypeOK, NEW s \in Sources, StoreSlice(s), NEW r \in Sources
  PROVE  slice'[r] = IF r = s THEN NewSlice(loop[s].timer) ELSE slice[r]
BY DEF StoreSlice, TypeOK

-----------------------------------------------------------------------------
(* The parts of the invariant *)

LEMMA SliceAgesStep ==
  ASSUME TypeOK, SliceAges, [Next]_vars
  PROVE  SliceAges'
<1> USE DEF SliceAges
<1>1. CASE Tick
  <2> SUFFICES ASSUME NEW s \in Sources, slice'[s].left > 0
               PROVE  slice'[s].age + slice'[s].valid = Freshness
    OBVIOUS
  <2>1. slice[s] \in [age : Nat, valid : Int, left : Nat]
    BY DEF TypeOK
  <2>2. QED
    BY <1>1, <2>1, TickSlices
<1>2. ASSUME NEW s \in Sources, StoreSlice(s) PROVE SliceAges'
  <2>1. loop[s].timer \in Nat
    BY DEF TypeOK
  <2>2. QED
    BY <1>2, <2>1, StoreSlices, WrittenSlice, TimingAssumption
<1>3. CASE RedisRestart
  BY <1>3 DEF RedisRestart, NoSlice
<1>4. CASE Quiet
  BY <1>4, QuietSlices
<1>5. QED
  BY <1>1, <1>2, <1>3, <1>4, Steps

LEMMA LoopsFollowPhaseStep ==
  ASSUME TypeOK, LoopsFollowPhase, [Next]_vars
  PROVE  LoopsFollowPhase'
<1> USE DEF LoopsFollowPhase, TypeOK
<1>1. CASE Start
  BY <1>1 DEF Start
<1>2. CASE Stop
  BY <1>2 DEF Stop
<1>3. CASE StopDone
  BY <1>3 DEF StopDone
<1>4. CASE Crash
  BY <1>4 DEF Crash
<1>5. CASE RedisRestart
  BY <1>5 DEF RedisRestart
<1>6. ASSUME NEW s \in Sources, Poll(s) PROVE LoopsFollowPhase'
  <2>1. CASE Turn(s)
    BY <2>1 DEF Turn, GoTo
  <2>2. CASE FetchRecords(s)
    BY <2>2, TimingAssumption DEF FetchRecords, GoTo
  <2>3. CASE FetchNothing(s)
    BY <2>3 DEF FetchNothing, GoTo
  <2>4. CASE StoreSlice(s)
    BY <2>4 DEF StoreSlice, GoTo
  <2>5. CASE StoreFails(s)
    BY <2>5 DEF StoreFails, GoTo
  <2>6. QED
    BY <1>6, <2>1, <2>2, <2>3, <2>4, <2>5 DEF Poll
<1>7. CASE StartRead \/ ReadSlice \/ ReadFails \/ Reply
  BY <1>7 DEF StartRead, ReadSlice, ReadFails, Reply
<1>8. CASE Tick
  <2> SUFFICES ASSUME NEW s \in Sources
               PROVE  /\ phase = "up" => Waited(s).pc # "off"
                      /\ phase = "down" => Waited(s).pc = "off" /\ ~ steady[s]
                      /\ Waited(s).pc = "new" => ~ steady[s]
                      /\ Waited(s).pc = "store" => Waited(s).timer <= Latency
    BY <1>8 DEF Tick
  <2>1. loop[s].pc = "store" => loop[s].timer < Latency
    BY <1>8 DEF Tick, MayWait
  <2>2. QED
    BY <2>1, WaitedLoop, TimingAssumption
<1>9. CASE UNCHANGED vars
  BY <1>9 DEF vars
<1>10. QED
  BY <1>1, <1>2, <1>3, <1>4, <1>5, <1>6, <1>7, <1>8, <1>9 DEF Next

LEMMA ServedIsFreshStep ==
  ASSUME TypeOK, SliceAges, ReadFollowsOrder, ServedIsFresh, [Next]_vars
  PROVE  ServedIsFresh'
<1> USE DEF ServedIsFresh
<1>1. CASE ReadSlice
  <2> DEFINE s == Order[read.next]
             find == [src |-> s, lead |-> slice[s].age - read.lag]
  <2>1. s \in Sources
    BY <1>1, OrderFacts DEF ReadSlice, ReadFollowsOrder, TypeOK
  <2>2. slice[s] \in [age : Nat, valid : Int, left : Nat] /\ read.lag \in Nat
    BY <2>1 DEF TypeOK
  <2>3. FreshAt(slice[s], read.lag) => 0 <= find.lead /\ find.lead < Freshness
    BY <2>1, <2>2, TimingAssumption DEF FreshAt, SliceAges
  <2>4. read'.found = IF FreshAt(slice[s], read.lag) THEN read.found \cup {find} ELSE read.found
    BY <1>1 DEF ReadSlice, TypeOK
  <2>5. QED
    BY <2>3, <2>4
<1>2. CASE Start \/ Stop \/ StopDone \/ RedisRestart
  BY <1>2 DEF Start, Stop, StopDone, RedisRestart
<1>3. CASE Crash \/ StartRead \/ ReadFails \/ Reply
  BY <1>3, IdleRead DEF Crash, StartRead, ReadFails, Reply, Reads
<1>4. ASSUME NEW s \in Sources, Poll(s) PROVE ServedIsFresh'
  BY <1>4 DEF Poll, Turn, FetchRecords, FetchNothing, StoreSlice, StoreFails
<1>5. CASE Tick
  BY <1>5 DEF Tick, TypeOK
<1>6. CASE UNCHANGED vars
  BY <1>6 DEF vars
<1>7. QED
  BY <1>1, <1>2, <1>3, <1>4, <1>5, <1>6 DEF Next

\* A steady brisk loop keeps its slice unexpired: its time bounds the slice's age and the
\* life its key has spent.
LEMMA SteadyMeansUnexpired ==
  ASSUME TypeOK, SliceAges, LoopsFollowPhase, SteadyInTime, phase = "up",
         NEW s \in Brisk, steady[s]
  PROVE  /\ slice[s].left > 0 /\ Unexpired(slice[s])
         /\ loop[s].pc \in {"fetch", "store", "sleep"}
         /\ Underway(s) <= Interval[s] + FetchMax + Latency
<1>1. s \in Sources /\ Interval[s] + FetchMax + 2 * Latency < Freshness
  BY DEF Brisk
<1>2. /\ slice[s].age \in Nat /\ slice[s].valid \in Int /\ slice[s].left \in Nat
      /\ loop[s].timer \in Nat /\ loop[s].pc \in {"off", "new", "fetch", "store", "sleep"}
      /\ Interval[s] \in Nat
  BY <1>1, TimingAssumption DEF TypeOK
<1>3. loop[s].pc \in {"fetch", "store", "sleep"}
  BY <1>1, <1>2 DEF LoopsFollowPhase
<1>4. Underway(s) <= Interval[s] + FetchMax + Latency
  BY <1>1, <1>2, <1>3, TimingAssumption DEF Underway, LoopsFollowPhase, SteadyInTime
<1>5. /\ SliceTTL - slice[s].left <= Interval[s] + FetchMax + Latency
      /\ slice[s].age <= Latency + (SliceTTL - slice[s].left)
  <2>1. Underway(s) \in Int
    BY <1>2, TimingAssumption DEF Underway
  <2>2. QED
    BY <1>2, <1>4, <2>1, TimingAssumption DEF SteadyInTime
<1>6. slice[s].left > 0
  BY <1>1, <1>2, <1>5, TimingAssumption
<1>7. slice[s].valid > 0
  BY <1>1, <1>2, <1>5, <1>6, TimingAssumption DEF SliceAges
<1>8. QED
  BY <1>3, <1>4, <1>6, <1>7 DEF Unexpired

LEMMA SteadyInTimeStep ==
  ASSUME TypeOK, SliceAges, LoopsFollowPhase, SteadyInTime, [Next]_vars
  PROVE  SteadyInTime'
<1> SUFFICES ASSUME phase' = "up", NEW s \in Brisk, steady'[s]
             PROVE  /\ loop'[s].pc = "sleep" => loop'[s].timer <= Interval[s]
                    /\ loop'[s].pc = "fetch" => loop'[s].timer <= FetchMax
                    /\ SliceTTL - slice'[s].left <= Underway(s)'
                    /\ slice'[s].age <= Latency + (SliceTTL - slice'[s].left)
  BY DEF SteadyInTime
<1>1. s \in Sources /\ Interval[s] \in Nat
  BY TimingAssumption DEF Brisk
<1>2. /\ slice[s].age \in Nat /\ slice[s].valid \in Int /\ slice[s].left \in Nat
      /\ loop[s].timer \in Nat /\ loop[s].pc \in {"off", "new", "fetch", "store", "sleep"}
  BY <1>1 DEF TypeOK
<1>3. CASE Start
  BY <1>1, <1>3 DEF Start, LoopsFollowPhase
<1>4. CASE Stop \/ StopDone \/ Crash
  BY <1>4 DEF Stop, StopDone, Crash
<1>5. CASE RedisRestart
  BY <1>1, <1>5 DEF RedisRestart
<1>6. ASSUME NEW r \in Sources, Poll(r)
      PROVE  /\ loop'[s].pc = "sleep" => loop'[s].timer <= Interval[s]
             /\ loop'[s].pc = "fetch" => loop'[s].timer <= FetchMax
             /\ SliceTTL - slice'[s].left <= Underway(s)'
             /\ slice'[s].age <= Latency + (SliceTTL - slice'[s].left)
  <2>1. phase = "up"
    BY <1>6 DEF Poll, Turn, FetchRecords, FetchNothing, StoreSlice, StoreFails
  <2>2. CASE r # s
    <3>1. loop'[s] = loop[s] /\ slice'[s] = slice[s] /\ steady'[s] = steady[s]
      BY <1>1, <1>6, <2>2
      DEF Poll, Turn, FetchRecords, FetchNothing, StoreSlice, StoreFails, GoTo, TypeOK
    <3>2. QED
      BY <2>1, <3>1 DEF SteadyInTime, Underway
  <2>3. CASE r = s /\ Turn(s)
    <3>1. /\ loop'[s].pc = "fetch" /\ loop'[s].timer = 0 /\ UNCHANGED <<slice, steady>>
          /\ loop[s].pc = "sleep"
      BY <1>1, <1>2, <2>1, <2>3 DEF Turn, GoTo, TypeOK, LoopsFollowPhase
    <3>2. QED
      BY <1>1, <1>2, <2>1, <3>1, TimingAssumption DEF Underway, SteadyInTime
  <2>4. CASE r = s /\ FetchRecords(s)
    <3>1. /\ loop'[s].pc = "store" /\ loop'[s].timer = 0 /\ UNCHANGED <<slice, steady>>
          /\ loop[s].pc = "fetch"
      BY <1>1, <1>2, <2>4 DEF FetchRecords, GoTo, TypeOK
    <3>2. QED
      BY <1>1, <1>2, <2>1, <3>1, TimingAssumption DEF Underway, SteadyInTime
  <2>5. CASE r = s /\ (FetchNothing(s) \/ StoreFails(s))
    BY <1>1, <2>5 DEF FetchNothing, StoreFails, TypeOK
  <2>6. CASE r = s /\ StoreSlice(s)
    <3>1. /\ loop'[s].pc = "sleep" /\ loop'[s].timer = 0
          /\ slice'[s].age = loop[s].timer /\ slice'[s].left = SliceTTL
      BY <1>1, <1>2, <2>6, WrittenSlice DEF StoreSlice, GoTo, TypeOK
    <3>2. loop[s].timer <= Latency
      BY <1>1, <2>6 DEF StoreSlice, LoopsFollowPhase
    <3>3. QED
      BY <1>1, <1>2, <3>1, <3>2, TimingAssumption DEF Underway
  <2>7. QED
    BY <1>6, <2>2, <2>3, <2>4, <2>5, <2>6 DEF Poll
<1>7. CASE StartRead \/ ReadSlice \/ ReadFails \/ Reply
  BY <1>7 DEF StartRead, ReadSlice, ReadFails, Reply, SteadyInTime, Underway
<1>8. CASE Tick
  <2>1. phase = "up" /\ steady[s] /\ ~ (loop[s].pc = "fetch" /\ loop[s].timer >= FetchMax)
    BY <1>1, <1>8 DEF Tick, TypeOK
  <2>2. /\ loop[s].pc = "sleep" => loop[s].timer < Interval[s]
        /\ loop[s].pc = "store" => loop[s].timer < Latency
    BY <1>1, <1>2, <1>8, <2>1, TimingAssumption DEF Tick, MayWait, Rested
  <2>3. loop'[s] = Waited(s)
    BY <1>1, <1>8 DEF Tick
  <2>4. loop'[s].pc = loop[s].pc /\ loop'[s].timer = loop[s].timer + 1
    BY <1>1, <1>2, <2>1, <2>3, WaitedLoop, SteadyMeansUnexpired, TimingAssumption
  <2>5. /\ SliceTTL - slice[s].left <= Underway(s)
        /\ slice[s].age <= Latency + (SliceTTL - slice[s].left)
        /\ loop[s].pc \in {"fetch", "store", "sleep"}
    BY <2>1, SteadyMeansUnexpired DEF SteadyInTime
  <2>6. Underway(s)' = Underway(s) + 1 /\ Underway(s) \in Int
    BY <1>1, <1>2, <2>4, TimingAssumption DEF Underway
  <2>7. Underway(s) + 1 <= Interval[s] + FetchMax + Latency
    BY <1>1, <1>2, <2>1, <2>2, <2>5, TimingAssumption DEF Underway
  <2>8. slice[s].left > 1
    BY <1>1, <1>2, <2>5, <2>6, <2>7, TimingAssumption DEF Brisk
  <2>9. slice'[s].left = slice[s].left - 1 /\ slice'[s].age = slice[s].age + 1
    BY <1>1, <1>2, <1>8, <2>8, TickSlices
  <2>10. QED
    BY <1>1, <1>2, <2>1, <2>2, <2>4, <2>5, <2>6, <2>9, TimingAssumption
<1>9. CASE UNCHANGED vars
  BY <1>9 DEF vars, SteadyInTime, Underway
<1>10. QED
  BY <1>3, <1>4, <1>5, <1>6, <1>7, <1>8, <1>9 DEF Next

LEMMA ReadFollowsOrderStep ==
  ASSUME TypeOK, ReadFollowsOrder, [Next]_vars
  PROVE  ReadFollowsOrder'
<1> USE DEF ReadFollowsOrder
<1>1. CASE Start \/ Stop \/ StopDone
  BY <1>1 DEF Start, Stop, StopDone
<1>2. CASE Crash \/ ReadFails \/ Reply
  BY <1>2, IdleRead DEF Crash, ReadFails, Reply
<1>3. CASE RedisRestart
  BY <1>3 DEF RedisRestart
<1>4. ASSUME NEW s \in Sources, Poll(s) PROVE ReadFollowsOrder'
  <2>1. CASE StoreSlice(s)
    <3>1. UNCHANGED <<read, sound>> /\ renewed' = renewed \cup {s}
      BY <2>1 DEF StoreSlice
    <3>2. \A r \in sound \ renewed' : slice'[r] = slice[r]
      BY <2>1, <3>1, StoreSlices DEF TypeOK
    <3>3. QED
      BY <3>1, <3>2
  <2>2. CASE ~ StoreSlice(s)
    BY <1>4, <2>2 DEF Poll, Turn, FetchRecords, FetchNothing, StoreFails
  <2>3. QED
    BY <2>1, <2>2
<1>5. CASE StartRead
  <2>0. read' = [pc |-> "read", next |-> 1, lag |-> 0, wait |-> 0, found |-> {}]
    BY <1>5 DEF StartRead, NoRead
  <2>1. /\ read'.pc = "read" /\ read'.next = 1 /\ read'.lag = 0 /\ UNCHANGED slice
        /\ sound' = {s \in Sources : Unexpired(slice[s])}
    BY <1>5, <2>0 DEF StartRead
  <2>2. \A s \in Sources : slice[s].age >= 0
    BY DEF TypeOK
  <2>3. QED
    BY <2>1, <2>2, OrderFacts
<1>6. CASE ReadSlice
  <2> DEFINE s == Order[read.next]
  <2>1. /\ read.pc = "read" /\ read.next \in 1..Len(Order) /\ s \in Sources
        /\ UNCHANGED <<slice, sound, renewed>>
    BY <1>6, OrderFacts DEF ReadSlice, TypeOK
  <2>2. /\ read'.pc = IF read.next = Len(Order) THEN "done" ELSE "read"
        /\ read'.next = read.next + 1 /\ read'.lag = read.lag
        /\ read'.found = IF FreshAt(slice[s], read.lag)
             THEN read.found \cup {[src |-> s, lead |-> slice[s].age - read.lag]}
             ELSE read.found
    BY <1>6 DEF ReadSlice, TypeOK
  <2>3. s \in sound \ renewed => FreshAt(slice[s], read.lag)
    <3>1. slice[s] \in [age : Nat, valid : Int, left : Nat] /\ read.lag \in Nat
      BY <2>1 DEF TypeOK
    <3>2. QED
      BY <2>1, <3>1 DEF FreshAt, Unexpired
  <2>4. read'.found = {} /\ s \in sound => s \in renewed
    BY <2>2, <2>3
  <2>5. read'.found = {} => read.found = {}
    BY <2>2
  <2>6. \A i \in 1..Len(Order) : i < read.next + 1 => i < read.next \/ i = read.next
    BY <2>1, OrderFacts
  <2>7. read'.found = {} =>
          \A i \in 1..Len(Order) : i < read'.next /\ Order[i] \in sound => Order[i] \in renewed
    BY <2>1, <2>2, <2>4, <2>5, <2>6
  <2>8. /\ read'.pc = "read" => read'.next <= Len(Order)
        /\ read'.pc = "done" => read'.next = Len(Order) + 1
    BY <2>1, <2>2, OrderFacts
  <2>9. QED
    BY <2>1, <2>2, <2>7, <2>8
<1>7. CASE Tick
  <2>1. /\ read.pc = "idle" => read' = read
        /\ read.pc # "idle" => /\ read.pc = "read" /\ read'.pc = read.pc
                               /\ read'.next = read.next /\ read'.found = read.found
                               /\ read'.lag = read.lag + 1
        /\ sound' = {s \in sound : Unexpired(Aged(slice[s]))} /\ renewed' = renewed
    BY <1>7 DEF Tick, TypeOK
  <2>2. ASSUME NEW s \in sound' \ renewed', read.pc = "read"
        PROVE  Unexpired(slice'[s]) /\ slice'[s].age >= read'.lag
    <3>1. s \in Sources /\ slice'[s] = Aged(slice[s])
      BY <1>7, <2>1 DEF Tick, TypeOK
    <3>2. Unexpired(slice'[s]) /\ slice[s].age >= read.lag
      BY <2>1, <2>2, <3>1
    <3>3. slice'[s].age = slice[s].age + 1
      BY <1>7, <3>1, <3>2, TickSlices DEF Unexpired
    <3>4. slice[s].age \in Nat /\ read.lag \in Nat
      BY <3>1 DEF TypeOK
    <3>5. QED
      BY <2>1, <2>2, <3>2, <3>3, <3>4
  <2>3. QED
    BY <2>1, <2>2
<1>8. CASE UNCHANGED vars
  BY <1>8 DEF vars
<1>9. QED
  BY <1>1, <1>2, <1>3, <1>4, <1>5, <1>6, <1>7, <1>8 DEF Next

-----------------------------------------------------------------------------
(* Theorems *)

\* The invariant holds for any sources, intervals, lives and delays.
THEOREM Invariance == Spec => []IInv
<1>1. IInv /\ [Next]_vars => IInv'
  BY TypeStep, SliceAgesStep, LoopsFollowPhaseStep, SteadyInTimeStep, ServedIsFreshStep,
     ReadFollowsOrderStep DEF IInv
<1>2. QED
  BY InitInvariant, <1>1, PTL DEF Spec

\* The variables keep their types.
THEOREM TypeCorrect == Spec => []TypeOK
<1>1. IInv => TypeOK
  BY DEF IInv
<1>2. QED
  BY Invariance, <1>1, PTL

\* get_fresh_source_slice hands on only records fetched less than Freshness seconds before
\* `current` and not after it, however late replace_source_slice wrote them.
THEOREM FreshnessSafety == Spec => []ServedIsFresh
<1>1. IInv => ServedIsFresh
  BY DEF IInv
<1>2. QED
  BY Invariance, <1>1, PTL

\* A source whose interval leaves room for its delays has no gap until something goes wrong:
\* _poll_loop's sleep, the fetch, the write and the two lives of a slice fit together.
THEOREM NoGapSafety == Spec => []NoGap
<1>1. IInv => NoGap
  BY SteadyMeansUnexpired DEF IInv, NoGap
<1>2. QED
  BY Invariance, <1>1, PTL

\* build_fresh_pool comes back with nothing only if every slice it read had expired or was
\* stored to while it was reading.
THEOREM NoneSafety == Spec => []NoneMeansRenewed
<1>1. IInv => NoneMeansRenewed
  <2> SUFFICES ASSUME IInv, read.pc = "done", read.found = {},
                      NEW s \in sound, NEW i \in 1..Len(Order), Order[i] = s
               PROVE  s \in renewed
    BY DEF NoneMeansRenewed
  <2>1. i < read.next
    BY OrderFacts DEF IInv, ReadFollowsOrder
  <2>2. QED
    BY <2>1 DEF IInv, ReadFollowsOrder
<1>2. QED
  BY Invariance, <1>1, PTL

\* stop() has gathered every loop before the process is down: none of them stores later.
THEOREM StopSafety == Spec => NoStoreAfterStop
<1>1. IInv /\ [Next]_vars =>
        [phase = "down" => \A s \in Sources : slice'[s].left <= slice[s].left]_vars
  <2> SUFFICES ASSUME IInv, [Next]_vars, phase = "down", NEW s \in Sources
               PROVE  slice'[s].left <= slice[s].left
    OBVIOUS
  <2>1. slice[s].left \in Nat
    BY DEF IInv, TypeOK
  <2>2. ASSUME NEW r \in Sources, StoreSlice(r) PROVE FALSE
    BY <2>2 DEF StoreSlice, IInv, LoopsFollowPhase
  <2>3. CASE Tick
    BY <2>3, TickSlices DEF IInv
  <2>4. CASE RedisRestart
    BY <2>1, <2>4 DEF RedisRestart, NoSlice
  <2>5. CASE Quiet
    BY <2>1, <2>5, QuietSlices
  <2>6. QED
    BY <2>2, <2>3, <2>4, <2>5, Steps
<1>2. QED
  BY Invariance, <1>1, PTL DEF Spec, NoStoreAfterStop
=============================================================================
