SPECIFICATION FairSpec
CONSTANTS
  Procs = {1, 2}
  Files = {1, 2}
  Noise <- Header
  Halves = {"broken", "silent"}
  FirstLines <- TwoEach
  MaxLines <- ThreeAndTwo
  MaxVersion <- FirstReplaced
  MaxEdits = 2
  MaxFaults = 1
INVARIANTS
  NothingSkipped
  CheckpointHonest
PROPERTIES
  EventuallyImported
  EventuallySettled
