SPECIFICATION Spec
CONSTANTS
  Accounts = {"ann", "bob"}
  MaxFaults = 2
INVARIANTS AccountIsLast
PROPERTIES SessionKept StartFindsSettings FilesAgree
CHECK_DEADLOCK FALSE
