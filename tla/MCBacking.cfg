\* Crashes, lost and broken answers, failing writes and file operations.
SPECIFICATION BackingSpec
CONSTANTS
  MaxVersion = 3
  MaxCrashes = 2

  
PROPERTIES
  NeverBack
  EventuallyFresh
