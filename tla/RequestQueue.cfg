SPECIFICATION FairSpec
CONSTANTS
  r1 = r1
  r2 = r2
  r3 = r3
  h1 = h1
  h2 = h2
  Manager = Manager
  NULL = NULL
  Requests = {r1, r2, r3}
  Handlers = {h1, h2}
INVARIANTS IInv QueueWhole NoDanglingNode
PROPERTIES EmptyPollMeansEmpty ImplementsFifo EveryRequestIsTaken
