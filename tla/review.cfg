\* The parts of a review, one after the other.
SPECIFICATION MCSpec
CONSTANTS
  None = None
  NoReply = NoReply
  Gone = Gone
  Files = {"f", "g"}
  Odd = {}
  MaxCommits = 2
  MaxReviews = 2
  Heads = {1, 2, 3}
  CommentTexts <- Comments
  MaxEvents = 3
  Parts = {"findings", "scope", "index", "triggers", "diff", "page", "reach", "context", "decisions", "runs", "reviews", "orgs"}
INVARIANTS FindingsAccountedFor NothingUnread NothingIsMissed ReachIsComplete LinesAreTrue PageIsComplete ContextIsSound LearnedIsHonest
CHECK_DEADLOCK FALSE
