\* tuesday's two lanes, llm-wiki's link readers and search, amaker author and publish, pulse's poll.
CONSTANTS
  Histories <- MCHistories
  Arrivals <- MCArrivals
  Ranges <- MCRanges
  PageLimit = 2
  LabelLimit = 3
  Scale <- MCScale
  Split = 2
  MaxChanges = 2
  Classes <- MCClasses
  ClassOf <- MCClassOf
  Wikis <- MCWikis
  Newborn <- MCNewborn
  Period = 2
  Now = 5
  PageSize = 1
  MaxEvents = 3
  MaxReports = 1
  Corpora <- MCCorpora
  Ulids = {"U", "V"}
  Structural = {"index"}
  EdgesOf <- MCEdges
  Required <- MCRequired
  Filters <- MCFilters
  MinNodes = 4
  Limit = 2
  StaleDays = 90
  Structures <- MCAuthored
  QuestionLists <- MCQuestionLists
  JobCounts = {0, 2}
  MAX_GENERATION_ATTEMPTS = 3
  MAX_JOBS = 2
  Projects = {"one", "two"}
  SlugOf <- MCSlugOf
  Editions <- MCEditions
  Shelves <- MCShelves
  Publishers = {w1, w2}
  TopGaps = 2
  Replies = {"yes", "unknown"}
  MaxActs = 2
  Employees = {ann, bob, cyd}
  Surveys <- MCSurveys
  Threshold = 2
  Concurrency = 2
  Tokens = 1
  MaxFaults = 2
  Libraries <- MCLibraries
  Inquiries <- MCInquiries
  Multipliers <- MCMultipliers
  Windows = {1, 2, 5}
SYMMETRY Symmetry
SPECIFICATION Spec
CHECK_DEADLOCK FALSE
INVARIANTS
  WorkIsCountedOnce
  PricesAreBracketed
  LinksTellOneStory
  AuthoredIsSound
  PublishedAgree
  PollIsHonest
  SearchTellsAll
