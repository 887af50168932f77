\* Three streams of any sort or a startup script and two, three calls of the scripts.
CONSTANTS
  Plans <- MCPlans
  MaxStreams = 3
  MaxCalls = 3
  Home = home
  Leads <- MCLeads
  ExitVisible = TRUE
  Nothing = Nothing
  home = home
  sub = sub
  away = away
  gone = gone
SPECIFICATION JobsSpec
CHECK_DEADLOCK FALSE
INVARIANT JobsSafe
INVARIANT AnsweredOnce
PROPERTY KillsAll
PROPERTY Reaped
PROPERTY KillReturns
