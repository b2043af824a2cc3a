SPECIFICATION Spec
CONSTANTS
  Ops = {o1}
  Buyers = {buyer}
  Background = {}
  ApiPollers = {api}
  Handlers = {}
  Humans = {}
  Workers <- MCWorkers
  Webhooks = FALSE
  NoOp = NoOp
  NoRecord = NoRecord
  MaxSeq = 2
  MaxCrashes = 1
PROPERTIES
  PendingReconciled
CHECK_DEADLOCK FALSE
