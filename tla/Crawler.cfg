SPECIFICATION CrawlFairSpec
CONSTANTS
  s = s
  a = a
  b = b
  seed = s
  URLs = {s, a, b}
  Answers <- MCAnswers
INVARIANTS RowsStayPut PeersKnown
PROPERTIES AddressFound RunReturns
