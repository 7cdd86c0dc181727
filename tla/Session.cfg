CONSTANTS
  Pools = {"a"}
  Retries = {0}
  Headers = {"legacy", "V2"}
  Xn1 = {1, 2}
  Methods = {"mining.notify", "mining.set_extranonce", "mining.ping", "client.reconnect"}
  MaxOut = 1
  MaxIn = 2
  Blocks = {FALSE, TRUE}
  MaxQueue = 1
SPECIFICATION Spec
INVARIANTS TypeOK HandshakeSound SharesFit AnswersCounted SolvedCounted
CHECK_DEADLOCK FALSE
