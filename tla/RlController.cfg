SPECIFICATION FairSpec
CONSTANTS
  Policies = {"walk", "wheel"}
  FoldRamps = {0, 1}
  StandRamp = 1
  Settle = 2
INVARIANTS IInv StoodBeforeLeave ThreadAwake
PROPERTIES SmoothSetpoint NearsIdle LiesDown Resumes
