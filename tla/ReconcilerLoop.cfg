SPECIFICATION FairSpec
CONSTANTS
  Shapes <- LargeOnly
  Absent = Absent
  Granted <- AllKinds
  Drifting <- KsvcPvc
  MaxApps = 1
  MaxImages = 2
  MaxFailures = 1
  MaxDrifts = 1
PROPERTIES
  Converges
  UrlIsSurfaced
  Settles
\* The cluster may come to rest.
CHECK_DEADLOCK FALSE
