\* The default ttl and refresh of the code (120 and 30 seconds).  17 failures in
\* a row are tolerated, 19 are not: the entry expires while the thread keeps on.
SPECIFICATION Spec
CONSTANTS
  TTL = 120
  Refresh = 30
  MaxFails = 19
  Slack = 3
INVARIANTS
  TypeOK
  NeverExpires
  CountPublished
CHECK_DEADLOCK FALSE
