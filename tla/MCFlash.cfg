SPECIFICATION FairSpec
CONSTANTS
  Boards = {"c3", "nano", "pico", "pico2", "f4"}
  Ports = {"p1", "p2"}
  Variant <- Chips
  Family <- FamilyOf
  Candidates <- VidPids
  Backend <- Tools
  Parts = {"atmega328p"}
  Released = {"esp32c3", "rp2040", "stm32f4", "atmega328p"}
  Fetched = {"esp32c3", "rp2040"}
  MaxAttached = 2
  Workloads <- TwoWorkloads
INVARIANTS CacheWhole
PROPERTIES WritesOwnVariant TargetsTried
CHECK_DEADLOCK FALSE
