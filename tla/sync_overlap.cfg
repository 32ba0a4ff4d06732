CONSTANTS
  d1 = d1  d2 = d2  a1 = a1  a2 = a2  x = x  y = y
  Deals = {d1, d2}
  Accounts = {a1, a2}
  Bodies = {x, y}
  NoItem = NoItem
  NoMessage = NoMessage
  Events <- DealMoves
  Erasable = {}
  Messages = {m1, m2, m3}
  Workers = {w1, w2}
  MaxReceive = 2
  BatchSize = 1
SPECIFICATION Spec
SYMMETRY Interchangeable
INVARIANTS TypeOK NoEventLost EffectivelyOnce ErpConsistent
CHECK_DEADLOCK FALSE
