SPECIFICATION RulesSpec
CONSTANTS
  Missing = Missing
  Keywords = {"gym", "mat"}
  Codes = {"9506"}
  TargetWords = {"gym"}
  TargetCodes = {"9506"}
  OtherWords = {"food"}
  OtherCodes = {"9403"}
  RowKinds <- MCRowKinds
  ContactKinds <- MCContactKinds
  MaxRows = 2
  Lines <- MCLines
  TargetTokens = 3
  HardMaxTokens = 4
  OverlapTokens = 1
  MaxLines = 4
  CompanySignals <- MCSignals
  ImportSignals <- MCImportSignals
  Sources = {s1, s2, s3, s4}
  s1 = s1
  s2 = s2
  s3 = s3
  s4 = s4
  Trusted = {s4}
  NoKind = "none"
  MaxSignals = 3
  Ingesters = {g1, g2}
  g1 = g1
  g2 = g2
  Candidates <- MCCandidates
  DepartmentMails = {"sales@"}
  SourceRank <- MCSourceRank
  Untitled <- MCUntitled
  MaxPeople = 3
  Searchers = {r1, r2}
  r1 = r1
  r2 = r2
  acme = acme
  shop = shop
  bare = bare
  Wanted <- MCWanted
  CompanyClaims <- MCCompanyClaims
  Unreadable = Unreadable
  Answers <- MCAnswers
  Domain <- MCDomain
  Host <- MCHost
  NoUrl = NoUrl
  MaxDiscoveries = 2
  Uploads = {1, 2, 3}
  Shipments = {sa, sb, sc, sd, se}
  sa = sa
  sb = sb
  sc = sc
  sd = sd
  se = se
  Bill <- MCBill
  Files <- MCFiles
  Days = {400, 430}
INVARIANTS TiersAreJustified ChunksAreWhole QualificationIsEarned SelectedIsTopOfRanking DiscoveriesAddUp SignalsAreEarned
PROPERTY KnowledgeNeverCosts
SYMMETRY Symmetry
CHECK_DEADLOCK FALSE
