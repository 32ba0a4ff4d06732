CONSTANTS
  d1 = d1  d2 = d2  a1 = a1  a2 = a2  x = x  y = y
  Deals = {d1, d2}
  Accounts = {a1, a2}
  Bodies = {x, y}
  NoItem = NoItem
  NoMessage = NoMessage
  Events <- SmokeDeal
  SmokeTests <- TestEvents
  Erasable = {d2}
  Messages = {m1, m2}
  Workers = {w1}
  MaxReceive = 2
  BatchSize = 2
SPECIFICATION SmokeFairSpec
INVARIANTS SmokeTypeOK LeavesNothing
PROPERTIES AckReadsTheTruth ImplementsOrderBook QueueDrains SmokeEnds
CHECK_DEADLOCK FALSE
