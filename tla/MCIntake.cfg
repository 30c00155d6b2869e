SPECIFICATION IntakeSpec
CONSTANTS
  Clients = {b1, b2}
  Selections = {"s1", "s2"}
  Keys = {"k1"}
  NoKey = NoKey
  MaxBatches = 2
  MaxRetries = 1
  Requests = {r1, r2}
  Companies = {c1, c2}
  Known = {c1}
  c1 = c1
  c2 = c2
  Prospect = Prospect
  Urls = {home, about, off}
  home = home
  about = about
  off = off
  h1 = h1
  NoHost = NoHost
  Guarded = {home, about, off}
  Contents = {intro, goods, empty}
  intro = intro
  goods = goods
  empty = empty
  s1 = s1
  s2 = s2
  Thin = {empty}
  Flawed = {goods}
  Blank = {}
  Host <- MCHost
  Says <- MCSays
  Links <- MCLinks
  Score <- MCScore
  Category <- MCCategory
  Better <- MCBetter
  Down = Down
  None = None
  DenyLists <- MCDenyLists
  FirstSite <- MCFirstSite
  LaterAnswers <- MCLaterAnswers
  Asked <- MCAsked
  Key <- MCKey
  MaxPages = 2
  MaxRedirects = 1
  MaxAttempts = 2
  MaxChanges = 1
  Reviewers = {v1, v2}
  Runs = {runA, runB}
  runA = runA
  runB = runB
  RunCompany <- MCRunCompany
  Claims <- MCClaims
  ClaimText <- MCClaimText
  ClaimPage <- MCClaimPage
  Firms = {"f1"}
  Firm0 = "none"
  EditText = {"t2"}
  Detail <- MCDetail
  MaxReviews = 3
SYMMETRY IntakeSymmetry
CHECK_DEADLOCK FALSE
INVARIANTS RequestsAreIdempotent OneJobPerSelection OneRootPerText RunsAreSound NothingIsListedTwice
PROPERTY ReviewsKeepTheTrace
