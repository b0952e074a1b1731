\* Calls of SaveMap from any number of threads.
CONSTANTS
  s1 = s1
  s2 = s2
  s3 = s3
  Save = {s1, s2, s3}
SPECIFICATION Spec
INVARIANTS CalledAtMostOnce SuccessMeansSaved
PROPERTIES EverySaveExecuted
CHECK_DEADLOCK FALSE
