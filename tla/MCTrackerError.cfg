SPECIFICATION Spec
CONSTANTS
  List <- MCList
  Tids = {1, 2}
  StaleTid = 3
  Cids = {11, 12}
  StaleCid = 13
  ErrorLens = {5, 12, 20}
  MaxUdp = 41
  MaxHttp = 55
  Text = Text
  Responses <- MCResponses
  GoodAnswers = {"compact", "entries", "long"}
  HttpPeers <- MCHttpPeers
CHECK_DEADLOCK FALSE
INVARIANT ResultsArePeers
