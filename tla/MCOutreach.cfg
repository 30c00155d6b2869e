SPECIFICATION OutreachSpec
CONSTANTS
  k1 = k1  k2 = k2  v1 = v1  v2 = v2
  Clients = {k1, k2}
  Reviewers = {v1, v2}
  NCompanies = 2
  NContacts = 3
  CompanyOf <- MCCompanyOf
  Rank <- MCRank
  Book <- MCBook
  DomainOf <- MCDomainOf
  WellFormed = {1, 2}
  Campaigns = {"a"}
  ManualTargets <- MCTargets
  Asked = {{1, 2}}
  MaxManual = 1
  MaxExports = 2
  MaxGeneration = 2
  MaxDay = 1
  Files = {"complaint", "mixed"}
  LinesOf <- MCLinesOf
  Window = 1
  Skew = 0
  r1 = r1  r2 = r2  p1 = p1
  Analyses = {r1, r2}
  Approvers = {p1}
  Persons = {1}
  Qualifying = {1, 2}
  MaxFacts = 3
  MaxSent = 4
  MaxApprovals = 1
CHECK_DEADLOCK FALSE
INVARIANTS AnswersRespectSuppressions OneMailPerAddress ComplaintsReachTheList FeedbackIsWhole NothingIsDoneTwice ApprovalsAreHuman AnswersAreHonest
SYMMETRY Symmetry
CONSTRAINTS Undisturbed Bounded Early
