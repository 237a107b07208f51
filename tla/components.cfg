SPECIFICATION PartsSpec
CONSTANTS
  NotCalled = NotCalled
  Templates <- cTemplates
  Datas <- cDatas
  Savers = {s1, s2}
  Boot = boot
  Torn = Torn
  Documents <- cDocuments
  TakenPorts = {2}
  BadPorts = {3}
  Channels = {ch1, ch2}
  Reporters = {r1}
  NoCollector = NoCollector
  MessageBytes = 2
  MaxMessages = 3
  Messages <- cMessages
  Pieces = {1, 3, 8}
  ReadSize = 8
  MaxFrame = 264
  MaxSent = 2
  Lost = Lost
  Unit = 10
  Lag = 1
  MaxChat = 1
INVARIANTS
  PartsTypeOK
  EscapedValueIsShown
  TextIsKept
  ListenersFollow
  QuietStoreAgrees
  MetricsConserved
  GaugeIsOpenChannels
  MessagesArrive
  NothingHeldBack
  IdleStaysUp
  SilenceDetected
CHECK_DEADLOCK FALSE
