CONSTANTS
  Pools = {"a", "b"}
  Retries <- NoneOrAll
  Headers = {"legacy"}
  Xn1 = {1}
  Methods = {"mining.notify"}
  MaxOut = 1
  MaxIn = 1
  Blocks = {FALSE}
  MaxQueue = 1
SPECIFICATION FairSpec
INVARIANTS UrlFollows
PROPERTIES ShareLeaves GivesUp UrlTaken
CHECK_DEADLOCK FALSE
