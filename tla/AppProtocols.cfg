SPECIFICATION Spec
CONSTANTS
  Running = {"HTTP", "HTTPBans", "SMTP", "IMAP", "POP", "SSL", "DNS", "SSDP", "SIP"}
  f1 = f1
  f2 = f2
  f3 = f3
  a = a
  b = b
  bad = bad
SYMMETRY Symmetry
INVARIANTS MapSound NamesRight BansHold
PROPERTY FirstStays
\* After a crash there is nothing.
CHECK_DEADLOCK FALSE
