CONSTANTS
  Bot = Bot
  Human = Human
  Unknown = Unknown
  PerPage = 3
  MaxLog = 4
  MaxMessages = 4
  DefaultLimit = 2
  AllLimit = 2
  c1 = c1
  c2 = c2
  c3 = c3
  Callers = {c1, c2, c3}
  Nobody = Nobody
  Limit = 2
  MaxUpdates = 3
  NoMessage = NoMessage
  MaxChunks = 3
  ContentTypes = {"text", "fields"}
  ControlTypes = {"button", "link-button", "select"}
  MaxParts = 3
  RowSize = 2
  ReplyButtons = 2
  Handlers <- MCHandlers
  Arrivals <- MCArrivals
  Modals <- MCModals
  MaxEvents = 3
  ContextTTL = 1
  MaxOptions = 1
  Absent = Absent
  Askers = {c1, c2}
  Grants <- MCGrants
  Lifetime = 3
  Buffer = 2
  MaxTokens = 3
SPECIFICATION PlatformsSpec
INVARIANTS
  PlatformsTypeOK
  NoSelfReply
  RepliesLand
  FollowUpsFound
  EditReaches
  HandledOnce
  HistoryComplete
  NoUpdateLost
  OneLoop
  FinalShown
  CardArrives
  ModalReturns
  HandlersRun
  TokensGood
PROPERTIES
  TasksEnd
CHECK_DEADLOCK FALSE
