\* Two sessions that judge each other's accounts, one request at a time.
SPECIFICATION Spec
CONSTANTS
  Sessions = {s1, s2}
  Tickets = {t1, t2}
  Accounts = {a1, a2}
  Workers = {w1}
  Verdicts = {"login_failed", "shadowrocket_missing"}
  Intents = {"target_app", "other_app"}
  None = None
  SessionTTL = 2
  TicketTTL = 1
  MaxTime = 2
SYMMETRY Symmetry
INVARIANTS
  ExhaustedMeansShown
  FailedIsLastResort
