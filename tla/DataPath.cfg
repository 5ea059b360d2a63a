SPECIFICATION FairSpec
CONSTANTS
  word = word
  NoValue = NoValue
  Words = {word}
  Channels <- MCChannels
  NumProjects = 2
  MaxChanges = 1
  MaxCommands = 1
  MaxDisturbances = 1
CHECK_DEADLOCK FALSE
INVARIANTS
  TypeOK
  NothingInvented
PROPERTIES
  StoredNeverFatal
  EventuallyAgreed
