CONSTANTS
  Vars = {"N", "Str1", "Str3", "Str4", "L1"}
  Wanted = {"Str1", "Str3", "Str4", "L1"}
  Held = {"L1"}
  Machines = {"ti82"}
  MaxTransfers = 3
  MaxFaults = 2
  Count = "N"
  Prompt = "Str1"
  Pages <- MCPages
  Replies = {1, 2}
  OtherVars = {"L1"}
  MaxOutages = 1
SPECIFICATION Spec
INVARIANTS
  TypeOK
  PairsAreGenuine
  SentMeansStored
  AcknowledgedUploadsArrive
  CountComesLast
CHECK_DEADLOCK FALSE
