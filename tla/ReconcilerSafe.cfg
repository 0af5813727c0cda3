SPECIFICATION Spec
CONSTANTS
  Shapes <- AllShapes
  Absent = Absent
  Granted <- AllKinds
  Drifting <- Nothing
  MaxApps = 2
  MaxImages = 2
  MaxFailures = 1
  MaxDrifts = 0
INVARIANTS
  TypeOK
  MountedVolumeExists
\* The cluster may come to rest.
CHECK_DEADLOCK FALSE
