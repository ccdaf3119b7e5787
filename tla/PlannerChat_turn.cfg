\* A turn of up to four posts and a run, of workflows that name a policy or none.
SPECIFICATION ChatFairSpec
CONSTANTS
  Tools = {"write", "read"}
  Things = {"home", "etc"}
  Paths = {"home", "etc"}
  SystemPaths = {"etc"}
  Ids = {"seed", "mine"}
  SeedId = "seed"
  Seed <- Tightening
  Bodies <- MCBodies
  Workflows = {"plain", "named"}
  Uses <- MCUses
  Names <- MCNames
  Writing = {"write"}
  Turns = {t1}
  Runs = {r1}
  ArgsOf <- MCArgs
  MaxCalls = 1
  MaxRetries = 2
  None = None
INVARIANTS PreviewHolds PostsAreBounded FailureIsTold
PROPERTIES TurnEnds
