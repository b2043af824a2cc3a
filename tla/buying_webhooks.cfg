SPECIFICATION Spec
CONSTANTS
  Ops = {o1}
  Buyers = {buyer}
  Background = {}
  ApiPollers = {}
  Handlers = {h1, h2}
  Humans = {}
  Workers <- MCWorkers
  Webhooks = TRUE
  NoOp = NoOp
  NoRecord = NoRecord
  MaxSeq = 2
  MaxCrashes = 0
INVARIANTS
  EventAppliedOnce
PROPERTIES
  KeepsJournal
CHECK_DEADLOCK FALSE
