SPECIFICATION FairSpec
CONSTANTS
  Ops = {o1}
  Buyers = {buyer}
  Background = {poller}
  ApiPollers = {}
  Handlers = {}
  Humans = {human}
  Workers <- MCWorkers
  Webhooks = FALSE
  NoOp = NoOp
  NoRecord = NoRecord
  MaxSeq = 4
  MaxCrashes = 1
INVARIANTS
  TypeOK
  StoredBeforeSent
PROPERTIES
  KeepsJournal
  
CHECK_DEADLOCK FALSE
