CONSTANTS
  d1 = d1  d2 = d2  a1 = a1  a2 = a2  x = x  y = y
  Deals = {d1, d2}
  Accounts = {a1, a2}
  Bodies = {x, y}
  NoItem = NoItem
  NoMessage = NoMessage
  Events <- GoodAndBad
  Erasable = {}
  Messages = {m1, m2}
  Workers = {w1}
  MaxReceive = 2
  BatchSize = 2
SPECIFICATION Spec
INVARIANT InvalidHasReason
CHECK_DEADLOCK FALSE
