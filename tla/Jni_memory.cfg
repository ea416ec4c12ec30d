\* Two threads, and memory for three results.
CONSTANTS
  Threads = {t1, t2}
  Blocks = {b1, b2, b3}
  Errors = {e1}
  JUBR_OK = JUBR_OK
  JUBR_REPEAT_MEMORY_PTR = JUBR_REPEAT_MEMORY_PTR
  NULL = NULL
  MaxRounds = 2
  Called <- OneOfEachKind
SYMMETRY Symmetry
SPECIFICATION Spec
INVARIANTS
  ResultsAreOwn
  OthersFree
