SPECIFICATION Spec
CONSTANTS
  NoSink = NoSink
  HwLists <- MCHwLists
  Sinks <- MCSinks
  StdModes <- MCStdModes
  PrioLists <- MCPrioLists
  DefaultPrio <- MCDefault
  Resolutions <- MCResolutions
  FormatsMax = 3
  PrioMax = 4
INVARIANTS
  TypeOK
  ReportExact
  PreferenceKept
  BestChosen
  ShownChosen
PROPERTIES
  EdidRecovers
