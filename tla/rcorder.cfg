\* All graphs of three scripts: shared provisions, BEFORE, cycles, missing names.
SPECIFICATION FairSpec
CONSTANTS
  f1 = f1
  f2 = f2
  f3 = f3
  net = net
  log = log
  none = none
  nojail = nojail
  Files = {f1, f2, f3}
  fn_head = fn_head
  NULL = NULL
  file_list <- MCFileList
  Names = {net, log, none}
  Fakes = {0, 1, 2, 3}
  Texts <- MCTexts
  keep_list = {}
  skip_list = {nojail}
INVARIANTS TypeOK PrintedOnce EveryFilePrinted OrderRespected ExitCodeTells
PROPERTIES Terminates
