\* Updates from the settings page and from a console, with one interruption.
CONSTANTS
  controller = controller
  w1 = w1
  console = console
  None = None
  Down = Down
  Controller = controller
  Workers = {w1}
  Consoles = {console}
  Releases = {1, 2}
  Factory = 1
  HeadOf <- MCHeadOf
  Keep = 1
  MaxStops = 1
SPECIFICATION Spec
INVARIANTS
  TypeOK
  WholeUnlessTorn
  CompletedIsInstalled
  ReportedVersionValidated
  RecoveryPoint
PROPERTIES
  NoPhaseLeftBehind
