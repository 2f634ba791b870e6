SPECIFICATION Spec
CONSTANTS
  Library <- MCLibrary
  Start <- MCStart
INVARIANTS CleanFail  
CHECK_DEADLOCK FALSE
