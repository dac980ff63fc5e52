SPECIFICATION Spec
CONSTANTS
  None = None
  disc = disc gcap = gcap cap = cap more = more cmp = cmp prb = prb fol = fol
  r1 = r1 r2 = r2 w1 = w1 w2 = w2
  Check <- MCBehind
  Resource = {r1, r2}
  Kind <- MCKind
  Global = {disc, gcap, more, fol}
  Order <- MCOrder
  Depth = 4
  Conditions <- MCConditions
  Listings <- MCListings
  Sources <- MCSources
  Comparators <- MCDefaults
  Policies = {"first"}
  Pages <- MCPages
  First <- MCFirst
  MaxBody <- MCMaxBody
  Bits = {1, 2, 3}
  WordBits <- MCWordBits
  Tolerance = 10
  Threshold = 2
  MaxEdits = 1
  Rank <- MCRank
INVARIANT PassedMeansAll
CHECK_DEADLOCK FALSE
