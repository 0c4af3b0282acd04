SPECIFICATION FairSpec
CONSTANTS
  Groups = {"joints"}
  Faulty = {"joints"}
  Period = 1
  Timeout = 2
  NumTopics = 2
  Depth = 1
INVARIANTS StarvedStops FreshAct CommandWhole FinalZero PacedHistory
PROPERTIES Recovers SilenceReachesRobot
