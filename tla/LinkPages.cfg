SPECIFICATION Spec
CONSTANTS
  Links <- MCLinks
  Discussions <- MCDiscussions
  Results <- MCResults
  SearchLimit = 1
  Bullets <- MCBullets
  Answers <- MCAnswers
  MaxEnrichments = 1
  NoNewsletter = NoNewsletter
INVARIANT EveryPageIsOffered
CHECK_DEADLOCK FALSE
