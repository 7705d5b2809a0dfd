--------------------------- MODULE AccountRanking ---------------------------
(***************************************************************************)
(* How select_account_for_session orders the accounts a session has not    *)
(* seen (app/services/store.py).  The code sorts tuples (intent rank,      *)
(* quality rank, -last_synced_at, id) and takes the first.  A candidate is *)
(* a record [acc, quality]: the account and the verdict the scan read for  *)
(* it.  Recency and id only break ties; the pool a reveal reads can carry  *)
(* any time stamps, so a tie may fall either way and BestOf returns the    *)
(* set of possible winners.                                                *)
(***************************************************************************)
EXTENDS Naturals

Available == "shadowrocket_available"
Missing   == "shadowrocket_missing"
LoginOk   == "login_success"
Failed    == "login_failed"

\* The verdicts POST /accounts/feedback accepts.
AllVerdicts == {Available, Missing, LoginOk, Failed}

\* The account-quality key does not exist: nobody reported on the account.
Unrated == "unrated"

AllIntents == {"target_app", "other_app", "expert"}

QualityRankWithoutFailed(q) ==    \* mutant: the table lost its last entry
  CASE q = Available -> 0
    [] q = Unrated   -> 2
    [] q = Missing   -> 3
    [] OTHER         -> 1

\* The rank table; a value the table does not know ranks as a login.
QualityRank(q) ==
  CASE q = Available -> 0
    [] q = LoginOk   -> 1
    [] q = Unrated   -> 2
    [] q = Missing   -> 3
    [] q = Failed    -> 4
    [] OTHER         -> 1

\* The verdicts that put an account in the front group of an intent.
FrontGroup(intent) ==
  IF intent = "target_app" THEN {Available} ELSE {Available, Missing, LoginOk}

IntentRank(intent, q) == IF q \in FrontGroup(intent) THEN 0 ELSE 1

\* The lexicographic order on (intent rank, quality rank).
Beats(intent, p, q) ==
  \/ IntentRank(intent, p) < IntentRank(intent, q)
  \/ /\ IntentRank(intent, p) = IntentRank(intent, q)
     /\ QualityRank(p) < QualityRank(q)

\* The candidates that can come first when the list is sorted.
BestOf(intent, found) ==
  {c \in found : \A d \in found : ~Beats(intent, d.quality, c.quality)}
=============================================================================
