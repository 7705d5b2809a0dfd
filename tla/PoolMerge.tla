------------------------------ MODULE PoolMerge ------------------------------
(***************************************************************************)
(* How RedisStore.build_fresh_pool (app/services/store.py) makes one pool  *)
(* of the fresh slices: their accounts are concatenated in the order of    *)
(* the sources, a loop keeps one account per user name, and the result is  *)
(* sorted.  AccountAggregator.rebuild_pool does the same in                *)
(* deduplicate_accounts.                                                   *)
(***************************************************************************)
EXTENDS Integers, Sequences, SequencesExt

CONSTANT Folded    \* user -> the number that stands for its strip().lower() form

\* public_account_id: a keyed digest of the folded name, so ids are equal exactly
\* when those are; they are ordered like the digests' numbers.
PublicId(user) == Folded[user]

\* _normalize: the accounts of source n, all stamped with the instant of the fetch;
\* row tells accounts with different passwords apart.
SliceOf(n, users, at) ==
  [i \in 1..Len(users) |->
     [user |-> users[i], id |-> PublicId(users[i]), synced |-> at, row |-> <<n, i>>]]

\* all_accounts, of slices [users, at]; one that is not fresh lists no users.
AllAccounts(slices) ==
  FlattenSeq([n \in 1..Len(slices) |-> SliceOf(n, slices[n].users, slices[n].at)])

RawKey(acc) == acc.user       \* mutant: spelling matters
\* account.username.strip().lower()
Key(acc) == Folded[acc.user]

\* Only a newer account replaces the one kept.
Replaces(acc, previous) == acc.synced > previous.synced

\* One turn of the loop; unique maps keys to the accounts kept.
Keep(unique, acc) ==
  LET k == Key(acc) IN
  IF k \in DOMAIN unique /\ ~ Replaces(acc, unique[k])
    THEN unique
    ELSE [j \in DOMAIN unique \cup {k} |-> IF j = k THEN acc ELSE unique[j]]

Unique(all) ==
  LET unique[n \in 0..Len(all)] == IF n = 0 THEN <<>> ELSE Keep(unique[n - 1], all[n])
  IN unique[Len(all)]

\* Sort key (-last_synced_at, id).
Before(x, y) == x.synced > y.synced \/ (x.synced = y.synced /\ x.id < y.id)

Sorted(pool) == \A i, j \in DOMAIN pool : i < j => ~ Before(pool[j], pool[i])

\* build_fresh_pool; without accounts there is no pool.
PoolOf(all) == CHOOSE pool \in SetToSeqs(Range(Unique(all))) : Sorted(pool)

-----------------------------------------------------------------------------
(* Properties of the pool that comes out *)

\* An id is in the pool once: two spellings of one name never make two accounts of it,
\* because the loop's key and public_account_id fold names alike.  (A session could
\* otherwise be shown the same account twice.)
OneAccountPerId(all) ==
  LET pool == PoolOf(all) IN
  \A i, j \in 1..Len(pool) : pool[i].id = pool[j].id => i = j

\* Each account listed is represented by the first of the freshest that share its id: a
\* stale password never hides a fresher one, and source order breaks ties.
FreshestFirstListed(all) ==
  LET pool == PoolOf(all) IN
  \A n \in 1..Len(all) : \E i \in 1..Len(pool), m \in 1..Len(all) :
    /\ pool[i] = all[m] /\ all[m].id = all[n].id
    /\ all[m].synced >= all[n].synced
    /\ all[m].synced = all[n].synced => m <= n

\* The pool runs from the freshest to the stalest account, by id within a second.
FreshestOnTop(all) ==
  LET pool == PoolOf(all) IN
  \A i, j \in 1..Len(pool) :
    i < j => \/ pool[i].synced > pool[j].synced
             \/ pool[i].synced = pool[j].synced /\ pool[i].id < pool[j].id

PoolSound(all) == OneAccountPerId(all) /\ FreshestFirstListed(all) /\ FreshestOnTop(all)
=============================================================================
