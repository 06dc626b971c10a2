CONSTANTS
  Names <- MCNames
  Order <- MCOrder
  Priorities <- MCPriorities
  MaxChanges = 2
  SpecUuids = {TRUE}
  Absent = Absent
SPECIFICATION Spec
INVARIANT StatusActiveMeansFiled
