\* One host and its port, a url that may lack its colon, name a bad host or
\* a port that wraps past 16 bits; dicts of up to two entries; three
\* datagrams, the least for a message to be parsed, deleted and reached again.
\* The client stops when Start fails: deadlock is not an error.
CONSTANTS
  Hosts = {h1}
  BadHost = BadHost
  UrlPorts <- MCUrlPorts
  NaN = NaN
  SrcPorts = {80}
  Keys <- MCKeys
  Vals <- MCVals
  MaxLen = 2
  MaxRecv = 3
SPECIFICATION Spec
INVARIANT NoUseAfterFree
CHECK_DEADLOCK FALSE
