CONSTANTS
  PG_SIZE = 4096
  USER_VADDR_START = 2
  USER_MMAP_SEARCH_TOP = 8
  USER_STACK_BASE = 9
  NoFile = NoFile
  None = None
  p1 = p1
  p2 = p2
  text = text
  lib = lib
  Proc = {p1, p2}
  File = {lib}
  Text = text
  i_size <- MCSize
  PteNr = 4
  Brks <- MCBrks
  MmapProts <- MCMmapProts
  Lens = {1, 2}
  Offsets = {4096}
  Setups <- MCSetups
CHECK_DEADLOCK FALSE
SPECIFICATION Spec
INVARIANTS MemoryHolds FramesCounted  AreasAgree
