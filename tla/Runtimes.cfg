\* What runs behind the control plane's pipes: processes, sessions, pages, flows.
SPECIFICATION RuntimesSpec
CONSTANTS
  c1 = c1
  c2 = c2
  s1 = s1
  s2 = s2
  p1 = p1
  p2 = p2
  p3 = p3
  Session = {s1, s2}
  NoSession = NoSession
  Caller = {c1, c2}
  Nobody = Nobody
  Menu <- Menus
  MaxRuns = 2
  Kind = {"camoufox", "geekez", "chrome"}
  Page = {p1, p2, p3}
  NoPage = NoPage
  MaxTasks = 4
  MaxFailures = 2
  Site <- Pages
  Setting <- Settings
  EmailRounds = 2
  PasswordRounds = 4
  MaxMails = 2
  SubmitMode = {"force", "click", "click_then_force"}
  Attempts = 2
  Routes <- WithProxyAndWithout
  PasswordWaits = 2
  CallbackWaits = 2
INVARIANTS
  SessionRuntimeInv
  StdioInv
  FlowsInv
PROPERTIES
  StepsKeepTheirBrowser
  IdsKeepTheirPage
  RuntimesEnd
CHECK_DEADLOCK FALSE
