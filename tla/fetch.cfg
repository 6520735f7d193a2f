CONSTANTS
  Size = 3
  ATTEMPTS = 5
  Runs = 3
  NoFile = NoFile
SPECIFICATION Spec
INVARIANTS PartIsPrefix Trusted QuietRunSucceeds
PROPERTIES Ends
