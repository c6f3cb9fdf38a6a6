SPECIFICATION FairSpec
CONSTANTS
  Byte <- MCByte
  Jobs <- MCJobs
  MaxAdds = 3
INVARIANTS
  TypeOK
  NothingLost
  NoLostWakeup
  FileHoldsJobs
PROPERTIES
  StopIsNear
  EveryJobWritten
  DestructorReturns
  ImplementsJobLog
CHECK_DEADLOCK FALSE
