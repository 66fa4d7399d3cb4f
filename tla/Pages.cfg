CONSTANTS
  owner = owner
  lecturer = lecturer
  colleague = colleague
  Users = {owner, lecturer, colleague}
  Owner = owner
  Rank <- MCRank
  Docs = {d1, d2}
  SentTo <- MCSentTo
  Pages <- TwoSheets
  Clicks <- MCClicks
  Signers = {lecturer}
  MaxSigners = 2
  MaxSaves = 3
  MaxLate = 1
  d1 = d1
  d2 = d2
  None = None
SPECIFICATION Spec
INVARIANTS DrawingsAgree QrIsFound ConfirmedUnlessLate
PROPERTY LayoutStays
CHECK_DEADLOCK FALSE
