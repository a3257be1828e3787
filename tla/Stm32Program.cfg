SPECIFICATION MCSpec
CONSTANTS
  Size = 12
  STM32_MAX_TRANSFER_SIZE = 4
  STM32_MIN_SECTOR_BOUND = 8
  STM32_FLASH_OFFSET = 16
  PageSize = 2
  IHEX_COLS = 2
  IHEX_64KB_PAGE = 8
  AddressSpace = 64
  Byte <- MCByte
  Blank = 63
  Unset = 64
  Commands <- MCCommands
  Lossy = TRUE
  MaxSpare = 1
  Requests <- MCRequests
  Old <- MCOld
INVARIANTS TypeOK SuccessIsTrue NothingPending TailIsTrue FilesAreTrue
PROPERTIES NoByteMisplaced InitEnds
