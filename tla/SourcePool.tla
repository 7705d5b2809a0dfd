----------------------------- MODULE SourcePool -----------------------------
(***************************************************************************)
(* The supply side: AccountAggregator (app/services/aggregator.py) runs    *)
(* one poll loop per source, each storing what it fetched as a slice in    *)
(* Redis, and RedisStore.build_fresh_pool (app/services/store.py) reads    *)
(* the slices back, one GET each, for /readyz and for a reveal.            *)
(*                                                                         *)
(* Every instant the code compares is kept relative to now, in seconds: a  *)
(* slice knows its age, how much validity and how much key life it has     *)
(* left, and a reader how long ago it took its `current`.  No clock grows, *)
(* so the model has no bound on time and its behaviours are infinite.      *)
(*                                                                         *)
(* A slice stands for a non-empty list of accounts; PoolMerge treats what  *)
(* the lists hold.  Readers change nothing, so one of them is enough.      *)
(***************************************************************************)
EXTENDS Integers, Sequences

CONSTANTS
  Sources,    \* source aliases
  Order,      \* the aliases in the order get_fresh_pool reads them
  Interval,   \* seconds a poll loop sleeps, per source
  Freshness,  \* settings.source_freshness_seconds
  SliceTTL,   \* settings.source_slice_ttl_seconds
  Latency,    \* the longest a Redis command stays open (client timeouts)
  FetchMax    \* a fetch that takes longer is a slow one

\* Settings.validated: intervals and freshness of at least a second, and a key
\* life that exceeds the freshness.
ASSUME TimingAssumption ==
  /\ Freshness \in Nat \ {0}
  /\ SliceTTL \in Nat /\ SliceTTL > Freshness
  /\ Interval \in [Sources -> Nat \ {0}]
  /\ Latency \in Nat /\ FetchMax \in Nat

ASSUME OrderAssumption == Order \in Seq(Sources) /\ Order # <<>>

VARIABLES
  phase,   \* the process: "down", "up", or "stopping" (_stopping is set)
  loop,    \* source -> [pc, timer]: its poll loop and the seconds spent at pc
  slice,   \* source -> [age, valid, left]: its key in Redis
  read,    \* the pool being read: [pc, next, lag, wait, found]
  steady,  \* history: source -> nothing went wrong since its last store
  sound,   \* history: sources whose slice was unexpired all through the read
  renewed  \* history: sources stored to since the read began

vars == <<phase, loop, slice, read, steady, sound, renewed>>

-----------------------------------------------------------------------------
(* Slices *)

\* No key: nothing is left of its life.
NoSlice == [age |-> 0, valid |-> 0, left |-> 0]

FreshFromNow(delay) ==    \* mutant: validity counted from the write
  [age |-> delay, valid |-> Freshness, left |-> SliceTTL]
ShortKey(delay) ==        \* mutant: the key lives half as long as its content is valid
  [age |-> delay, valid |-> Freshness - delay, left |-> Freshness \div 2]
\* The slice a write makes of records fetched `delay` seconds before: fetched_at
\* and valid_until are fixed at the fetch, the life of the key starts with the write.
NewSlice(delay) ==
  [age |-> delay, valid |-> Freshness - delay, left |-> SliceTTL]

\* A second passes for a slice; Redis drops the key at the end of its life.
Aged(sl) ==
  IF sl.left <= 1 THEN NoSlice
                  ELSE [age |-> sl.age + 1, valid |-> sl.valid - 1, left |-> sl.left - 1]

Unexpired(sl) == sl.left > 0 /\ sl.valid > 0

LateFresh(sl, lag) ==     \* mutant: a second of validity is held back
  sl.left > 0 /\ sl.age >= lag /\ sl.valid + lag > 1
\* get_fresh_source_slice with `current` taken lag seconds ago: neither
\* fetched_at > current nor valid_until <= current.
FreshAt(sl, lag) == sl.left > 0 /\ sl.age >= lag /\ sl.valid + lag > 0

-----------------------------------------------------------------------------
(* Readers *)

NoRead == [pc |-> "idle", next |-> 1, lag |-> 0, wait |-> 0, found |-> {}]

\* What a read found of a source: how old the records were at its `current`.
Find == [src : Sources, lead : Int]

TypeOK ==
  /\ phase \in {"down", "up", "stopping"}
  /\ loop \in [Sources -> [pc : {"off", "new", "fetch", "store", "sleep"}, timer : Nat]]
  /\ slice \in [Sources -> [age : Nat, valid : Int, left : Nat]]
  /\ read \in [pc : {"idle", "read", "done"}, next : 1..Len(Order) + 1,
               lag : Nat, wait : Nat, found : SUBSET Find]
  /\ steady \in [Sources -> BOOLEAN]
  /\ sound \subseteq Sources
  /\ renewed \subseteq Sources

Init ==
  /\ phase = "down"
  /\ loop = [s \in Sources |-> [pc |-> "off", timer |-> 0]]
  /\ slice = [s \in Sources |-> NoSlice]
  /\ read = NoRead
  /\ steady = [s \in Sources |-> FALSE]
  /\ sound = {}
  /\ renewed = {}

-----------------------------------------------------------------------------
(* The process: app.api.create_app's lifespan, AccountAggregator.start/stop *)

\* Redis answered PING; a poll task is created for every source.
Start ==
  /\ phase = "down"
  /\ phase' = "up"
  /\ loop' = [s \in Sources |-> [pc |-> "new", timer |-> 0]]
  /\ UNCHANGED <<slice, read, steady, sound, renewed>>

\* Shutdown begins once no request is open: stop() sets _stopping.
Stop ==
  /\ phase = "up"
  /\ read.pc = "idle"
  /\ phase' = "stopping"
  /\ UNCHANGED <<loop, slice, read, steady, sound, renewed>>

StopNow ==    \* mutant: the tasks are not gathered
  /\ phase = "stopping"
  /\ phase' = "down"
  /\ steady' = [s \in Sources |-> FALSE]
  /\ UNCHANGED <<loop, slice, read, sound, renewed>>

\* stop() has gathered every task; the Redis client is closed.
StopDone ==
  /\ phase = "stopping"
  /\ \A s \in Sources : loop[s].pc = "off"
  /\ phase' = "down"
  /\ steady' = [s \in Sources |-> FALSE]
  /\ UNCHANGED <<loop, slice, read, sound, renewed>>

\* The process dies; what it stored stays in Redis.  A SET it had sent is taken
\* to be executed before the crash or never.
Crash ==
  /\ phase # "down"
  /\ phase' = "down"
  /\ loop' = [s \in Sources |-> [pc |-> "off", timer |-> 0]]
  /\ read' = NoRead
  /\ steady' = [s \in Sources |-> FALSE]
  /\ sound' = {}
  /\ renewed' = {}
  /\ UNCHANGED slice

\* Redis keeps nothing on disk.
RedisRestart ==
  /\ slice' = [s \in Sources |-> NoSlice]
  /\ steady' = [s \in Sources |-> FALSE]
  /\ sound' = {}
  /\ UNCHANGED <<phase, loop, read, renewed>>

-----------------------------------------------------------------------------
(* A poll loop *)

GoTo(s, pc) == loop' = [loop EXCEPT ![s] = [pc |-> pc, timer |-> 0]]

Rested(s) == loop[s].timer >= Interval[s]

StubbornTurn(s) ==    \* mutant: while True
  /\ loop[s].pc = "new" \/ (loop[s].pc = "sleep" /\ (Rested(s) \/ phase = "stopping"))
  /\ GoTo(s, "fetch")
  /\ UNCHANGED <<phase, slice, read, steady, sound, renewed>>

\* The task starts, or its wait for _stopping ends (by timing out or because it
\* was set), and the loop's condition is evaluated.
Turn(s) ==
  /\ loop[s].pc = "new" \/ (loop[s].pc = "sleep" /\ (Rested(s) \/ phase = "stopping"))
  /\ GoTo(s, IF phase = "stopping" THEN "off" ELSE "fetch")
  /\ UNCHANGED <<phase, slice, read, steady, sound, renewed>>

\* The source answered with records; fetched_at is read and a SET is sent.
FetchRecords(s) ==
  /\ loop[s].pc = "fetch"
  /\ GoTo(s, "store")
  /\ UNCHANGED <<phase, slice, read, steady, sound, renewed>>

FetchKills(s) ==    \* mutant: poll_once lets the failure out
  /\ loop[s].pc = "fetch"
  /\ GoTo(s, "off")
  /\ steady' = [steady EXCEPT ![s] = FALSE]
  /\ UNCHANGED <<phase, slice, read, sound, renewed>>

\* It failed or had no usable record: the slice is left alone.
FetchNothing(s) ==
  /\ loop[s].pc = "fetch"
  /\ GoTo(s, "sleep")
  /\ steady' = [steady EXCEPT ![s] = FALSE]
  /\ UNCHANGED <<phase, slice, read, sound, renewed>>

\* SET source EX source_slice_ttl_seconds is executed; poll_once ends the same
\* way whether its reply arrives or not.
StoreSlice(s) ==
  /\ loop[s].pc = "store"
  /\ slice' = [slice EXCEPT ![s] = NewSlice(loop[s].timer)]
  /\ GoTo(s, "sleep")
  /\ steady' = [steady EXCEPT ![s] = TRUE]
  /\ renewed' = renewed \cup {s}
  /\ UNCHANGED <<phase, read, sound>>

\* The SET fails without an effect.
StoreFails(s) ==
  /\ loop[s].pc = "store"
  /\ GoTo(s, "sleep")
  /\ steady' = [steady EXCEPT ![s] = FALSE]
  /\ UNCHANGED <<phase, slice, read, sound, renewed>>

-----------------------------------------------------------------------------
(* get_fresh_pool, for /readyz and for a reveal *)

\* `current` is read.
StartRead ==
  /\ phase = "up"
  /\ read.pc = "idle"
  /\ read' = [NoRead EXCEPT !.pc = "read"]
  /\ sound' = {s \in Sources : Unexpired(slice[s])}
  /\ renewed' = {}
  /\ UNCHANGED <<phase, loop, slice, steady>>

\* GET of the next slice, kept if it is fresh at `current`.
ReadSlice ==
  LET s == Order[read.next]
      last == read.next = Len(Order)
  IN
  /\ read.pc = "read"
  /\ read' = [read EXCEPT
       !.pc = IF last THEN "done" ELSE "read",
       !.next = @ + 1,
       !.wait = 0,
       !.found = IF FreshAt(slice[s], read.lag)
                   THEN @ \cup {[src |-> s, lead |-> slice[s].age - read.lag]}
                   ELSE @]
  /\ UNCHANGED <<phase, loop, slice, steady, sound, renewed>>

\* The GET fails: the request is answered 503.
ReadFails ==
  /\ read.pc = "read"
  /\ read' = NoRead
  /\ sound' = {}
  /\ UNCHANGED <<phase, loop, slice, steady, renewed>>

\* The pool, or None, is handed to the request.
Reply ==
  /\ read.pc = "done"
  /\ read' = NoRead
  /\ sound' = {}
  /\ UNCHANGED <<phase, loop, slice, steady, renewed>>

-----------------------------------------------------------------------------
(* Time *)

\* A task that can run does so before the next second; a Redis command is open
\* for Latency seconds at most.  A fetch has no such bound (httpx limits each
\* read, not the whole).
MayWait(s) ==
  LET l == loop[s] IN
  \/ l.pc \in {"off", "fetch"}
  \/ l.pc = "store" /\ l.timer < Latency
  \/ l.pc = "sleep" /\ ~Rested(s) /\ phase # "stopping"

\* Seconds spent at pc; beyond FetchMax a fetch is slow, however long it takes.
Waited(s) ==
  LET l == loop[s] IN
  IF l.pc = "off" \/ (l.pc = "fetch" /\ l.timer > FetchMax)
    THEN l
    ELSE [l EXCEPT !.timer = @ + 1]

Tick ==
  /\ \A s \in Sources : MayWait(s)
  /\ read.pc = "idle" \/ (read.pc = "read" /\ read.wait < Latency)
  /\ loop' = [s \in Sources |-> Waited(s)]
  /\ slice' = [s \in Sources |-> Aged(slice[s])]
  /\ read' = IF read.pc = "idle" THEN read
                                 ELSE [read EXCEPT !.lag = @ + 1, !.wait = @ + 1]
  /\ steady' = [s \in Sources |->
                  steady[s] /\ ~(loop[s].pc = "fetch" /\ loop[s].timer >= FetchMax)]
  /\ sound' = {s \in sound : Unexpired(Aged(slice[s]))}
  /\ UNCHANGED <<phase, renewed>>

-----------------------------------------------------------------------------
Poll(s) ==
  \/ Turn(s) \/ FetchRecords(s) \/ FetchNothing(s) \/ StoreSlice(s) \/ StoreFails(s)

Next ==
  \/ Start \/ Stop \/ StopDone \/ Crash \/ RedisRestart
  \/ \E s \in Sources : Poll(s)
  \/ StartRead \/ ReadSlice \/ ReadFails \/ Reply
  \/ Tick

Spec == Init /\ [][Next]_vars

\* A poll loop that can take a step takes one: the event loop runs ready tasks,
\* a Redis command times out, a fetch ends (each read has a timeout and the
\* body a size limit).  Time passes, however many reads come and go within a
\* second (hence strong fairness).  stop() returns once its tasks have.
\* Nothing obliges the process to start, stop or crash.
FairSpec ==
  /\ Spec
  /\ \A s \in Sources : WF_vars(Poll(s))
  /\ WF_vars(ReadSlice \/ ReadFails)
  /\ WF_vars(Reply)
  /\ WF_vars(StopDone)
  /\ SF_vars(Tick)

-----------------------------------------------------------------------------
(* Properties *)

\* What a read hands on was fetched less than Freshness seconds before its
\* `current` and not after it, however late the write was (valid_until is fixed
\* by replace_source_slice at the fetch, not at the write).
ServedIsFresh ==
  \A f \in read.found : 0 <= f.lead /\ f.lead < Freshness

\* Sources whose interval leaves room for a slow write, a fetch and another
\* slow write within the freshness (the 45-second source, not the 90-second one).
Brisk == {s \in Sources : Interval[s] + FetchMax + 2 * Latency < Freshness}

\* Such a source has no gap: from a store on, until something goes wrong, its
\* slice stays unexpired: key life, validity, sleep and fetch fit together.
NoGap == phase = "up" => \A s \in Brisk : steady[s] => Unexpired(slice[s])

\* A read that comes back with nothing can blame only a slice that expired, or
\* one renewed while it was reading (fetched_at > current).
NoneMeansRenewed ==
  read.pc = "done" /\ read.found = {} =>
    \A s \in sound : (\E i \in 1..Len(Order) : Order[i] = s) => s \in renewed

\* After a shutdown nothing is stored by a task of the old process: the gather
\* in stop() outlives every loop, and the Redis client is closed only then.
NoStoreAfterStop ==
  [][phase = "down" => \A s \in Sources : slice'[s].left <= slice[s].left]_vars

\* README.md: /readyz is up when "at least one source slice is unexpired".  It
\* would take a read that finds nothing to have had no such slice throughout.
NoneMeansStale ==
  read.pc = "done" /\ read.found = {} => sound = {}

\* Whatever fetches and writes do, a running process polls every source again
\* and again: poll_once catches every failure.
PollsGoOn ==
  \A s \in Sources : []<>(loop[s].pc = "fetch" \/ phase # "up")

\* A shutdown ends: every loop notices _stopping and stop() returns.
StopEnds == (phase = "stopping") ~> (phase = "down")

\* If the process stays up and a source and Redis stop failing, the source
\* keeps coming back fresh, even when its interval exceeds the freshness.
ComesBack ==
  \A s \in Sources :
    /\ <>[](phase = "up")
    /\ <>[][~(FetchNothing(s) \/ StoreFails(s) \/ RedisRestart)]_vars
    => []<>Unexpired(slice[s])
=============================================================================
