SPECIFICATION MCSpec
CONSTANTS
  r1 = r1
  r2 = r2
  Runs = {r1, r2}
  NoRun = NoRun
  Given = {1, 2}
  Generated = {4, 5, 6, 7, 8, 9, 10, 11, 12}
  MaxFailures = 1
  MaxRemovals = 2
  MaxEdits = 1
  MaxReplaced = 1
  MaxReruns = 1
INVARIANTS PasswordsAgree RuntimeWorks DeployedIsComplete
PROPERTIES KeyStays CompleteInTheEnd
CHECK_DEADLOCK FALSE
