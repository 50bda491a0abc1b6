CONSTANTS
  K = 3
  Messages = 3
SPECIFICATION Spec
INVARIANTS
  NoForgery
  BadMsgMeansCut
PROPERTIES
  ImplementsChannel
  EveryMessageArrives
