SPECIFICATION Spec
CONSTANTS
  NULL = NULL
  Text = Text
INVARIANTS
  HistoryAgrees
  MessagesAgree
  ImportsAgree
  NavigationAgrees
  InterfaceAgrees
CHECK_DEADLOCK FALSE
