CONSTANTS
  Tasks = {web, client}
  Editors = {web}
  Host = host
  Port = port
  Others = {hostname}
  Values = {v}
  Default = d
  Missing = Missing
  NoTask = NoTask
  Unknown = Unknown
SPECIFICATION FairSpec
INVARIANTS
  TypeOK
  AckedSurvives
  OwnerGives
PROPERTIES
  MutexComesBack
