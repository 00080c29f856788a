CONSTANTS
  Rows = {1, 2, 3, 4}
  RankOf <- MCRankOf
  Queries <- MCQueries
  Windows <- MCWindows
  PageSizes = {1, 2}
  LastPosition = 7
  MaxWrites = 1
  None = None
SPECIFICATION Spec
INVARIANTS AnswersLikeSlicing CursorsAreTrue TotalIsReal WalkSeesEveryRow
PROPERTY WalkEnds
