CONSTANTS
  t1 = t1
  t2 = t2
  s1 = s1
  s2 = s2
  NoTopic = NoTopic
  TopicNames <- MCTopics
  SubNames <- MCSubs
  MaxCounter = 4
  MaxBatch = 2
  MaxPull = 2
SPECIFICATION Spec
INVARIANTS TypeOK OneCopy AckIdNamesOneLease RightTopic FreshInOrder
PROPERTIES QueuedNeverDropped ImplementsQueue
SYMMETRY Symmetry
