SPECIFICATION Spec
CONSTANTS
  bob = bob
  g1 = g1
  Extractors = {a, b}
  Windows <- MCWindows
  SentOn <- MCSentOn
  ChunkSize = 1
  MaxExtractions = 3
  MaxOutages = 1
  WhileOpen = FALSE
  NoEntry = NoEntry
  Newsletters = {a, b}
  WorkerSlots = {1, 2}
  RunsOverlap = FALSE
  MaxLogins = 3
  MaxSetbacks = 2
  Missing = Missing
  Translators = {a, b}
  Providers = {"openai", "anthropic", "gemini"}
  ChatLength = 2
  RequestSize = 1
  MaxPolls = 0
  MaxEdits = 1
  MaxTranslations = 2
  Untranslated = Untranslated
  Parsers = {a, b}
  Senders = {"x", "y", "z"}
  RawChats <- MCRawChats
  ParseSize = 2
  ParsersOverlap = FALSE
  MaxLapses = 1
  NoRef = NoRef
  MaxRuns = 2
  QueueSize = 2
  StageEvents = 1
  MaxReconnects = 1
  MaxLosses = 2
  LongStages = FALSE
  Schedules = {s1, s2}
  MaxToolCalls = 2
  MaxCalls = 2
  MaxDeletes = 1
  MaxTurns = 2
  Threshold = 3
  KeepRecent = 2
  AnswersFirst = TRUE
  AwaitsTools = TRUE
  Threads <- MCThreads
  ChatOf <- MCChatOf
  PrefixOf <- MCPrefixOf
  LocalIds = {2}
  NoId = NoId
  DistinctIds = TRUE
  Alike <- MCAlike
  Groupings <- MCGroupings
  Ranks = {1, 999}
  Scores = {0, 1}
  MaxRanked = 2
  TopK = 1
  Lambda = 7
  Emails = {ann, bob}
  Administrator = ann
  AdminSubject = g0
  Allowlist = {bob}
  Google <- MCGoogle
  MaxRequests = 2
  MaxAccounts = 2
  MaxChanges = 1
  MaxCookies = 1
  Unset = Unset
  Reauth = 1
  TokenLife = 2
  PerDay = 2
  LongestRead = 1
  MaxAsks = 2
  MaxTokens = 2
  MaxNow = 3
  PublicMode = FALSE
  Keyless = Keyless
  Internal = Internal
  NoKey = NoKey
  Decryptors = {a}
  MegolmSessions = {1}
  Never = 2
  Encrypted <- MCEncrypted
  Exported <- MCExported
  Garbled = {}
  DecryptorsOverlap = FALSE
  MaxDecryptions = 3
  MaxDeaths = 1
  Torn = Torn
  Links <- MCLinks
  Discussions <- MCDiscussions
  Results <- MCResults
  SearchLimit = 1
  Bullets <- MCBullets
  Answers <- MCAnswers
  MaxEnrichments = 2
  NoNewsletter = NoNewsletter
  Pictures = {1, 2}
  PictureRuns = {a, b}
  DiscussionOf <- MCDiscussionOf
  MaxPictures = 2
  PerDiscussion = 1
  AllDiscussions = 1
  NoDiscussion = NoDiscussion
  NoPicture = NoPicture
  MemorySessions = {1, 2}
  UserOf <- MCUserOf
  RecallK = 1
  MaxExtracted = 1
  MaxMemories = 2
  MaxQuestions = 1
  Callers = {c1}
  Sites = {"openai", "anthropic", "gemini", "chain"}
  MaxRetries = 3
  BaseDelay = 1
  MaxDelay = 3
INVARIANT ServicesTypeOK
INVARIANT EndedWindowsAreComplete
INVARIANT WorkersOpenTheirSession
INVARIANT TranslationsAreCurrent
INVARIANT RepliesResolve
INVARIANT OutcomesComeLast
INVARIANT DeletesAreApproved
INVARIANT EveryCallIsAnswered
INVARIANT MergingLosesNothing
INVARIANT SessionsEndWithAccess
INVARIANT AccessIsBounded
INVARIANT EnrichmentKeepsBullets
INVARIANT PicturesAreServable
INVARIANT MemoriesAreTheirUsers
PROPERTY InstalledSessionSurvives
PROPERTY NamesAreKept
PROPERTY ReadableStaysReadable
PROPERTY UserLearnsOutcome
CHECK_DEADLOCK FALSE
