CONSTANTS
  kA = kA  kB = kB  None = None
  people = people  event = event  eventOfSame = eventOfSame  skips = skips
  edit = edit  target = target  fresh = fresh  drop = drop  remove = remove
  grow = grow  adopt = adopt  other = other  deep1 = deep1  deep2 = deep2
  deep3 = deep3  deep4 = deep4  ignores = ignores
  blank = blank  withEvents = withEvents  withLink = withLink  plain = plain
  named = named  edited = edited  toDeeper1 = toDeeper1  toDeeper2 = toDeeper2
  toDeeper3 = toDeeper3  adopting = adopting
  RowIds = {1, 2, 3, 4, 5, 6}
  Keys = {kA, kB}
  Nodes = {people, event, eventOfSame, skips, ignores, edit, fresh, target, drop,
           remove, grow, adopt, other, deep1, deep2, deep3, deep4, blank}
  Node <- Payloads
  Inputs = {withEvents, withLink, plain, named, edited, adopting, toDeeper1,
            toDeeper2, toDeeper3}
  Input <- InputsSent
  Roots = {people, skips, ignores, edit, adopt, deep1, deep2, blank}
  Tables <- SmallTables
  Orms = {"sqlalchemy", "django", "tortoise"}
  Cascading = {"a", "owner"}
  MaxVisits = 3
  Sends = 2
SPECIFICATION FairSpec
CHECK_DEADLOCK FALSE
INVARIANTS EveryFrameWasValidated ResendAddsNothing RowsElsewhereAreUntouched
  UpdatedRowsSurvive
PROPERTIES AllOrNothing WriteEnds
