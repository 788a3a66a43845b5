\* The page, the description and the comments of a pull request.
SPECIFICATION PullSpec
CONSTANTS
  Hosts = {"github", "gitlab", "bitbucket", "bitbucket-server", "azure-devops"}
  Findings = {"f1", "f2"}
  PageSize = 4
  Kinds = {"webhook", "review", "summary"}
  MaxHeads = 2
  MaxRuns = 2
  MaxResolves <- OneOnGitHub
  MaxFaults = 1
  Pieces = {"a", "b"}
  MaxWrites = 2
  MaxEdits = 3
  Workers = {w1, w2}
  Authors <- Commenters
  CommandNames = {"push", "pause", "resume", "review", "help"}
  Gates = {"open", "closed", "capped"}
  StatusPage = 2
  MaxJobs = 3
  MaxChat = 1
INVARIANTS OneCommentEach GreenOnlyIfAsked MarkIsWhatWasAsked
PROPERTIES RepliesSurvive AuthorTextKept
CHECK_DEADLOCK FALSE
SYMMETRY Symmetry
