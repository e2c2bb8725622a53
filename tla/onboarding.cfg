SPECIFICATION Spec
CONSTANTS
  Stream = {}
  Url = {u1}
  Elf = Elf
  Nil = Nil
CHECK_DEADLOCK FALSE
INVARIANT RegisteredProgramDownloadable
