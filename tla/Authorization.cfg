SPECIFICATION FairSpec
CONSTANTS
  Clients = {c1, c2}
  Posted = c1
  NoToken = NoToken
  NoCopy = NoCopy
  MaxEdits = 1
  MaxFailures = 1
INVARIANTS
  TypeOK
  ListenHasToken
  LoginOnceUndisturbed
PROPERTIES
  AuthorizedAgain
