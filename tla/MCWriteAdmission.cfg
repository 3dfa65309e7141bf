\* Every interleaving of five writers, with queues that fill up.
SPECIFICATION FairSpec
CONSTANTS
  f1 = f1
  f2 = f2
  f3 = f3
  b1 = b1
  b2 = b2
  Writers <- MCWriters
  Foreground <- MCForeground
  ForegroundCap = 2
  BackgroundCap = 1
INVARIANTS
  TypeOK
  OneWriter
  NobodyForgotten
PROPERTIES
  ForegroundServed
