CONSTANTS
  LastDate = 2
  Year = 2
  Block = 2
  RowWidth = 3
  MaxFiles = 1
  MaxRows = 2
  MaxUnwritten = 1
SPECIFICATION LogSpec
INVARIANTS LogInv FileOfTheRecord NumberInFile
PROPERTIES LeakHasCause IsLogBook SavesGoOn
