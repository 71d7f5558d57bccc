\* Both kinds of queue, one target, under the fairness of the drain loop.
SPECIFICATION FairSpec
CONSTANTS
  t1 = t1
  n1 = n1
  n2 = n2
  Queues <- MCQueues
  Targets <- MCOneTarget
  News <- MCTwoNews
  MaxOwes = 3
  MaxInFlight = 2
INVARIANTS NothingLost
PROPERTIES LostOnlyWhenOvertaken KeepsContract DebtsAreRetired PromisesAreHeard
