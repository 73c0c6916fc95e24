SPECIFICATION FairSpec
CONSTANTS
  Ports <- InfoAndAccess
  Nodes <- LastNode
  TidMod = 2
  MaxRequests = 3
  MaxRx = 1
INVARIANTS
  TypeOK
  CallbackExactlyOnce
  AnswerWindow
  BufferHoldsAnswer
PROPERTIES
  BufferQuiet
  NoFalseDuplicate
  EveryRequestCompletes
  ImplementsService
