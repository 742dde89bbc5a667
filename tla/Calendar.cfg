CONSTANTS
  Lap = 119
  FirstDay <- MCFirstDay
  LastYear = 33
  OnFor = {0, 325}
SPECIFICATION CalSpec
CHECK_DEADLOCK FALSE
INVARIANT RightDateTaken
PROPERTIES MinutesCount
