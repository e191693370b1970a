SPECIFICATION FairSpec
CONSTANTS
  Main = Main
  Isr = Isr
  Requests <- Shared
  part_start_lba = 5
  part_length = 4
  WordMod = 64
  Digit = 2
  Top = 2
  CountMod = 3
  MaxBlocks = 2
  Words = 2
  Errors = TRUE
  Junk = Junk
INVARIANTS TypeOK ReadExact WriteLands InsidePartition DriveLeftIdle
PROPERTY UndisturbedReturns
