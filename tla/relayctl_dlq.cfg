CONSTANTS
  good = good
  bad = bad
  Letters = {1, 2, 3}
  Events = {good, bad}
  Invalid = {bad}
  Initially <- Dead
  Operators = {o1, o2}
  NoLetter = NoLetter
  Nobody = Nobody
  Targets = {bad, 1}
  ListLimit = 1
  Limit = 2
  BatchSize = 2
  MaxCopies = 2
  MaxCommands = 2
SPECIFICATION Spec
SYMMETRY Interchangeable
INVARIANTS TypeOK NothingLost LoneCommandSweeps
PROPERTY OncePerCommand
CHECK_DEADLOCK FALSE
