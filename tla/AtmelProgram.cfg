SPECIFICATION MCSpec
CONSTANTS
  ATMEL_64KB_PAGE = 8
  ATMEL_MAX_TRANSFER_SIZE = 4
  Size <- MCSize
  Bottom <- MCBottom
  Top <- MCTop
  PageSize <- MCPageSize
  BootBottom = 10
  BootTop = 11
  Types = {"AVR", "AVR32", "XMEGA"}
  Byte = {"b", "FF"}
  Blank = "FF"
  Unset = "unset"
  Requests <- AllRequests
  Faults = {"fail"}
INVARIANTS TypeOK ImageInMemory EraseLeavesBlank SoundReadIsTrue SoundValidatedIsExact SoundCommandSucceeds
PROPERTIES OnlyTargetWritten
CHECK_DEADLOCK FALSE
