SPECIFICATION FairSpec
CONSTANTS
  Shapes <- RichOnly
  Absent = Absent
  Granted <- RoleYaml
  Drifting <- Nothing
  MaxApps = 1
  MaxImages = 1
  MaxFailures = 0
  MaxDrifts = 0
PROPERTIES
  UrlIsSurfaced
\* The cluster may come to rest.
CHECK_DEADLOCK FALSE
