CONSTANTS
  Conns = {mcp, adm}
  Admin = {adm}
  Fetches = 2
  Calls = {c1, c2}
  None = none
SPECIFICATION FairSpec
INVARIANTS TypeOK RetryHasNewToken
PROPERTIES OneEffect GoodTokenKept CallsEnd
