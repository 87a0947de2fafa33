SPECIFICATION Spec
CONSTANTS
  Addresses <- MCAddresses
  MaxPktSizes <- MCMaxPktSizes
  PayloadLens <- MCPayloadLens
  Commands <- MCCommands
  AssocId <- MCAssocId
  PktId <- MCPktId
  Port <- MCPort
INVARIANTS
  FitsDatagram
  Lossless
  PanicsAtBoundary
  HeadersSurvive
  LenIsExact
  FragmentsSurvive
  ChannelsAgree
CHECK_DEADLOCK FALSE
