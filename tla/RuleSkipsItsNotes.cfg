CONSTANTS
  olga = olga
  una = una
  members = members
  pat = pat
  quin = quin
  note = note
  top = top
  sub = sub
  starred = starred
  NoOne = NoOne
  Users <- MCUsers
  Trusted = {olga}
  RoleMembers = members
  Levels <- MCLevels
  Ceiling <- MCCeiling
  Lists <- MCLists
  Calls = {c1, c2}
  MaxCalls = 2
  Targets = {una, members}
  Nobody = Nobody
  People = {pat, quin}
  Papers = {note}
  Sees <- MCSees
  Edits <- MCEdits
  AttCalls = {c1, c2}
  MaxAttCalls = 5
  Books = {b1, b2}
  ShelfCalls = {c1, c2}
  MaxShelfCalls = 3
  Memos = {n1, n2}
  MaxText = 3
  MaxTasks = 2
  MaxBoots = 2
  BatchLimit = 1
  Rules = {r1, r2}
  Folders = {top, sub}
  Above <- MCAbove
  OnShelf = {sub}
  Tags = {starred}
  TheNote = TheNote
  TheShelf = TheShelf
  Top = Top
  Rows <- MCRows
  Changes <- MCChanges
  Editors = {c1, c2}
  MaxEdits = 2
  MaxEvents = 1
  MaxStarts = 2
  Early <- MCEarly
  Legacy = {l1, l2}
  SignUps = {c1, c2}
  Names = {"Ann", "bob"}
  SlugOf <- MCSlugOf
  Specs = {"fleeting", "literature"}
  Fleeting = "fleeting"
  EarlyBooks <- MCEarlyBooks
  MaxSignUps = 2
  Exports <- MCExports
  Literal = Literal
  BookDir = BookDir
  cover = cover
  scan = scan
  photo = photo
  Keys = {key}
  key = key
  Holders = {pat, quin}
  HolderOf <- MCHolderOf
  Asks = {c1, c2}
  MaxAsks = 4
SPECIFICATION MCSpec
INVARIANT DirectoryRulesMatch
CHECK_DEADLOCK FALSE
SYMMETRY MCSym
