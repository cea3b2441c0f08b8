CONSTANTS
  Streams = {r1}
  Chats = {r2}
  Searches = {q1, q2}
  Keyed = {key}
  Anonymous = {ip1, ip2}
  RestCap = 1
  McpCap = 1
  KeyRate = 1
  AnonRate = 1
  Window = 2
  KeyLimit = 1
  AnonLimit = 1
  AnonGlobalLimit = 1
  EmbedLimit = 1
  None = None
  MaxTime = 2
  MaxDay = 1
  MaxRestarts = 1
  Questions = {1, 2}
  Owners = {o1, o2}
  ChatSessions = {s1}
  Finds <- MCFinds
  Replies <- MCReplies
  MinScore = 1
  MaxDeleted = 1
  NoSession = NoSession
  NoTitle = NoTitle
  Given = Given
  Ingesters = {a}
  SourceTexts <- MCTexts
  PieceSize = 3
  PieceOverlap = 1
  SearchK = 2
  RerankK = 1
  MaxIngestions = 3
  MaxTexts = 1
  NotYet = NotYet
SPECIFICATION KnowledgeSpec
SYMMETRY Symmetry
INVARIANT KnowledgeTypeOK
INVARIANT SlotsAreAccountedFor
INVARIANT QuotaIsNeverOversold
INVARIANT EmbeddingsAreBounded
INVARIANT EveryWindowIsWithinRate
INVARIANT TitleIsOfFirstQuestion
INVARIANT AnswersAreOnRecord
INVARIANT IngestedTextIsSearchable
CHECK_DEADLOCK FALSE
