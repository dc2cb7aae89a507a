SPECIFICATION Spec
CONSTANTS
  b1 = b1
  b2 = b2
  install = install
  uboot = uboot
  None = None
  Board = {b1, b2}
  IdentityOf <- SameModel
  Region = {"boot", "gpt"}
  BootArea = {"boot", "gpt"}
  Gpt = {"gpt"}
  Op = {install, uboot}
  Segments <- TwoSegments
  MaxPlans = 2
  MaxBackups = 1
  MaxSource <- Versions
  Skippable = {install}
  Own = {"gpt"}
SYMMETRY Boards
INVARIANTS
  TypeOK
  JournalCoversDamage
  EarlierRangesHold
  FreshTarget
PROPERTIES
  CompletionHonest
  OneShot
