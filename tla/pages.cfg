\* Every page of the three apps, and every form, each on its own.
SPECIFICATION ScreensSpec
CONSTANTS
  r1 = r1
  Rows = {r1}
  None = None
  Pages <- AllPages
  MaxEvents = 3
  MaxGets = 2
  FormRows <- AllForms
  MaxStamp = 3
  MaxSaves = 2
  MaxUpsets = 2
CHECK_DEADLOCK FALSE
INVARIANTS ScreensTypeOK OneAtATime RowsAreTrue OwnWriteShows FormsKeepRecords MadeOnce
PROPERTIES PolledConverges ButtonsComeBack
