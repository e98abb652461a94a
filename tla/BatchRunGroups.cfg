SPECIFICATION Spec
CONSTANTS
  GroupSize = 3
  MaxRows = 4
  MaxEpochs = 1
PROPERTIES
  NextGroupWaits
CHECK_DEADLOCK FALSE
