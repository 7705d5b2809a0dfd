\* Three requests of two sessions behind one address over three windows.
SPECIFICATION Spec
CONSTANTS
  ip = ip
  s1 = s1
  s2 = s2
  IPs = {ip}
  Sessions = {s1, s2}
  Requests = {n1, n2, n3}
  Limit <- Limits
  Window = 2
  Latency = 1
  MaxTime = 4
SYMMETRY Symmetry
INVARIANTS
  WindowLimit
  RefusalEarned
CHECK_DEADLOCK FALSE
