\* The batch service: its queue, its results, its browsers and its pool.
SPECIFICATION BatchSpec
CONSTANTS
  f1 = f1
  f2 = f2
  w1 = w1
  w2 = w2
  File = {f1, f2}
  NoFile = NoFile
  Worker = {w1, w2}
  Setting <- Settings
  Thread = {w1, w2}
  ShardSize = 2
  Legacy <- Layouts
  MaxLines = 6
  MaxInterruptions = 2
  Driver = {w1, w2}
  Proxy = {"proxy"}
  NoProxy = "DIRECT"
  Deployment <- Deployments
  MaxAttempts = 2
  MaxRounds = 1
  StartupRetries = 1
  Token = {f1, f2}
  TargetSize = 2
  Launcher = {w1, w2}
  Profile = {"p", "p2"}
  Extends <- Longer
  LaunchRequest <- Launches
  Mailbox = {"direct", "served"}
  DirectMailbox = {"direct"}
  Candidates <- Both
  MaxSecond = 2
  MaxMails = 2
INVARIANTS
  RepairInv
  ShardsInv
  DriversInv
  LaunchInv
  MailInv
PROPERTIES
  IsWorkQueue
  PoolKeepsTheGood
  BatchEnds
CHECK_DEADLOCK FALSE
