SPECIFICATION ShellSpec
CONSTANTS
  live1 = live1
  demo1 = demo1
  None = None
  LiveAgents <- MCLiveAgents
  DemoAgents <- MCDemoAgents
  ToastsKept = 1
  MaxAtOnce = 3
INVARIANTS
  ScrollIsGivenBack
  BusyTellsTheTruth
PROPERTY
  DemoStartsNothing
