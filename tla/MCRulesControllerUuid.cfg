CONSTANTS
  Names <- MCNames
  Order <- MCOrder
  Priorities <- MCPriorities
  MaxChanges = 2
  SpecUuids = {TRUE, FALSE}
  Absent = Absent
SPECIFICATION Spec
PROPERTY UuidStable
