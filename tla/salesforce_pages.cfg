CONSTANTS
  Null = Null
  NoCursor = NoCursor
  NoQuery = NoQuery
  Clients = {c1, c2}
  Queries <- OneQuery
  PageSize = 1
  Opps <- Written
  Names = {8}
  Seed <- Deals
  SeedAccounts <- Accts
  Statuses <- Faults
  MaxQueries = 2
  MaxEdits = 1
  MaxFaults = 1
SPECIFICATION FairSpec
INVARIANTS TypeOK AnswerIsSnapshot SurvivesExpiry
PROPERTIES ImplementsQueryService QueryEnds
CHECK_DEADLOCK FALSE
