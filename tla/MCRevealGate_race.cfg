\* Two requests at a time, one session, two tickets, two accounts.
SPECIFICATION Spec
CONSTANTS
  Sessions = {s1}
  Tickets = {t1, t2}
  Accounts = {a1, a2}
  Workers = {w1, w2}
  Verdicts = {"login_failed"}
  Intents = {"target_app"}
  None = None
  SessionTTL = 2
  TicketTTL = 1
  MaxTime = 2
SYMMETRY Symmetry
INVARIANTS
  TicketPaysOneReveal
  DeliveredIsShown
  NoRepeatAfterDelivery
  ReportLocksAccount
PROPERTY KeepsLedger
