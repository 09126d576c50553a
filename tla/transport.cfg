\* Two clients, one after the other, over a network that cuts segments anywhere and
\* over one that does not.
SPECIFICATION Spec
CONSTANTS
  Header = 2
  Page = 2
  Reply = 2
  Connections = 2
  MaxCalls = 3
INVARIANTS
  TypeOK
  InOrder
  RightReply
  Undisturbed
PROPERTY
  Answered
CHECK_DEADLOCK FALSE
