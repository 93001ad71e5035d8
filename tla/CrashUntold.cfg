CONSTANTS
  Device = {d1, d2}
  NoLabel = NoLabel
  NoReason = NoReason
  ntfy = ntfy
  email = email
  Channels <- TwoChannels
  Unresolved = {ntfy}
  MaxWarn = 2
  MaxTests = 1
SPECIFICATION NotifySpec
SYMMETRY Symmetric
INVARIANTS
  CrashIsTold
CHECK_DEADLOCK FALSE
