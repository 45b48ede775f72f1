CONSTANTS
  Desc = Desc
  Fields <- OneField
  Texts <- AllTexts
  FirstCards <- SomeCards
  Mates <- SomeMates
  MaxGreetings = 2
  MaxRisuEdits = 1
  MaxEdits = 2
  MaxOpens = 2
  MaxWrites = 1
  MaxSteps = 5
SPECIFICATION CardSpec
INVARIANTS CardSound
PROPERTIES NoUnseenRevert BackupUndoes ReopenKeepsWork
CHECK_DEADLOCK FALSE
