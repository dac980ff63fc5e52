SPECIFICATION Spec
CONSTANTS
  None = None
  disc = disc gcap = gcap cap = cap more = more cmp = cmp prb = prb fol = fol
  r1 = r1 r2 = r2 w1 = w1 w2 = w2
  Check <- MCCheck
  Resource = {r1, r2}
  Kind <- MCKind
  Global = {disc, gcap, more, prb}
  Order <- MCOrder
  Depth = 3
  Conditions <- MCConditions
  Listings <- MCListings
  Sources <- MCSources
  Comparators <- MCComparators
  Policies = {"first", "last"}
  Pages <- MCPages
  First <- MCFirst
  MaxBody <- MCMaxBody
  Bits = {1, 2, 3}
  WordBits <- MCWordBits
  Tolerance = 10
  Threshold = 2
  MaxEdits = 1
  Rank <- MCRank
INVARIANTS
  VerdictFaithful
  MissingIsSkipped
  Attributed
  SummaryTellsStore
  MergeKeeps
CHECK_DEADLOCK FALSE
