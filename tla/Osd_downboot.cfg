CONSTANTS
  None = None
  whoami = 0
  Peer = {1}
  Wide = {1, 2, 3, 5}
  MinPeers = 2
  MessageMax = 2
  Chan = {"back"}
  Scenarios <- MCScenarios
SPECIFICATION Spec
PROPERTIES BootsAgain
