SPECIFICATION FairSpec
CONSTANTS
  Fds <- ThreeFds
  Pieces = 2
  Cap = 3
INVARIANTS
  TypeOK
  RoundsAreExact
  MessagesStayFramed
PROPERTIES
  EventsAreServed
