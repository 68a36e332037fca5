CONSTANTS
  NoCase = NoCase
  Iterations = 3
  Argvs <- MCArgvs
  HexCases <- MCHexCases
  LongCases <- MCLongCases
  SteeringCases <- MCSteeringCases
  TlvCases <- MCTlvCases
  UdpCases <- MCUdpCases
  PskcCases <- MCPskcCases
  ExpiryCases <- MCExpiryCases
  DelayCases <- MCDelayCases
  PollCases <- MCPollCases
  EmitterCases <- MCEmitterCases
  DaemonCases <- MCDaemonCases
  ToolCases <- MCToolCases
  FileCases <- MCFileCases
  ValueCases <- MCValueCases
  LogCases <- MCLogCases
  LogLine = 12
  DebugLine = 8
  Sha256 <- MCSha256
  Second = 4
  Width = 6
  Minute = 10
SPECIFICATION MCSpec
INVARIANTS  ComputationsCorrect
CHECK_DEADLOCK FALSE
