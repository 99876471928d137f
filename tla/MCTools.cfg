SPECIFICATION FairToolSpec
CONSTANTS
  Tools = {"respond", "mode", "plan", "interrupt", "stop", "settle", "create"}
  Together <- EachAlone
  MaxTurns = 2
  Calls <- ToolCalls
  OwnEffect <- FreshCalls
  NeedsSequence <- SequencedCalls
  Detecting <- DetectingCalls
  MaxAttempts = 2
CHECK_DEADLOCK FALSE
INVARIANTS
  AcceptedWasExecuted
  RefusedNeverRuns
  ReportIsTrue
  VerifiedInterruptIsExact
  BuildFollowsMain
PROPERTIES
  ToolsEnd
