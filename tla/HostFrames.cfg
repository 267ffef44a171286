CONSTANTS
  MaxScenes = 3
  MaxResizes = 2
  MaxProbes = 2
  MaxFaults = 2
  Mixed = Mixed
SPECIFICATION FairSpec
INVARIANTS KeyAgrees HostReadsFinished UploadCurrent
PROPERTIES ImplementsRegister SettlesOnNewest
CHECK_DEADLOCK FALSE
