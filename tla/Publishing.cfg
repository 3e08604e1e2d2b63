SPECIFICATION AllSpec
CONSTANTS
  w1 = w1
  w2 = w2
  u1 = u1
  u2 = u2
  bob = bob
  b1 = b1
  b2 = b2
  x1 = x1
  m1 = m1
  s1 = s1
  k1 = k1
  k2 = k2
  k3 = k3
  n1 = n1
  n2 = n2
  d1 = d1
  kind = kind
  p1 = p1
  r1 = r1
  t1 = t1
  t2 = t2
  t3 = t3
  Post = {p1}
  Reel = {r1}
  Web = {w1, w2}
  Celery = {t1}
  None = None
  Shelf <- OneStory
  Toggles <- FollowsAndLikes
  Marks <- SavesAndShares
  Reports <- CommentsAndReports
  FollowsSaved <- FollowsNextToSaves
  SharesSaved <- SharesNextToSaves
  Raters <- AtTheSameTime
  Days <- ThreeDays
  Photos <- FourPhotos
  Onboarding <- TwoAccounts
  Tree <- ThreeCategories
  Copies <- TwoCategories
  Shop <- OneShop
SYMMETRY Alike
INVARIANTS
  ComponentTypes
  NothingUnapproved
  AuditTrail
  ModerationHolds
  CommentsHold
PROPERTIES
  OnlyStaleSavesHide
  OnlyFailuresStrand
  KeepsPromise
  OnlyStaleSavesDrift
  
  ProfilesHold
  CatalogueHolds
CHECK_DEADLOCK FALSE
