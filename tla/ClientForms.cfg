\* Two dialogs one after the other, two disturbances around them, two areas.
\* A behaviour ends when the dialogs are closed.
CHECK_DEADLOCK FALSE
CONSTANTS
  Nothing = Nothing
  Areas = {1, 2}
  MaxDialogs = 2
  MaxDisturbances = 2
  MaxReports = 1
  MaxCopies = 2
SPECIFICATION FairSpec
INVARIANTS
  CopiesAreReported
  ActsOnItsSubject
  
PROPERTIES
  SubmissionsEnd
