SPECIFICATION ReadSpec
CONSTANTS
  Mailboxes = {box, other}
  Ids = {i1, i2, i3}
  None = None
  MaxRevision = 2
  MaxTime = 1
  MaxChanges = 2
  maximumPageSize = 2
  maximumPagePosition = 2
  maximumTextBytes = 2
  cursorLifetime = 1
  referenceLifetime = 1
SYMMETRY MCSymmetry
INVARIANTS
  PagesAreOneResult
  MailIsTheirs
