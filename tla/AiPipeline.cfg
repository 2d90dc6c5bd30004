SPECIFICATION FairSpec
CONSTANTS
  w1 = w1
  w2 = w2
  Events <- TwoEvents
  Historic <- First
  Slots <- TwoSlots
  Answers <- KindsOfAnswer
  MaxAttempts = 2
  MaxStalls = 1
  BatchLimit = 1
  MaxFaults = 2
INVARIANTS
  StampedMeansQueued
PROPERTIES
  PromiseKept
  EventSettles
CHECK_DEADLOCK FALSE
