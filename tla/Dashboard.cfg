\* Collections by two where pages of several are open one after the other;
\* two documents' contents, three writes of all clients together, documents
\* and schemas of two fields; two accounts and tabs, one project, a session of
\* two ticks; two keys, one target address and one event; two removals before an answer.
CONSTANTS
  DocCollections = {c1, c2}
  DocIds = {i}
  DocContents = {x, y}
  NoDoc = NoDoc
  MaxDocDeletes = 1
  LiveCollections = {c1, c2}
  NoLive = NoLive
  MaxLiveWrites = 3
  EditorNames = {"a"}
  EmptyName = ""
  EditorTexts = {"0", "x"}
  NumberOf <- Numbers
  MaxFields = 2
  SchCollections = {c1}
  SchNames = {"a"}
  SchEmpty = ""
  NoSchema = NoSchema
  MaxSchFields = 2
  ColNames = {c1, c2}
  NoCol = NoCol
  IxCollections = {c1, c2}
  IxFields = {f}
  NoIndex = NoIndex
  OprIds = {o, p}
  NoOpr = NoOpr
  WsUsers = {"u", "w"}
  WsEmail <- Emails
  WsProjects = {p}
  WsTabs = {t1, t2}
  NoWs = NoWs
  WsTtl = 2
  MaxWsTime = 2
  KeyIds = {k1, k2}
  NoKey = NoKey
  FtsCollections = {c1, c2}
  FtsFields = {f, g}
  NoFts = NoFts
  WhCollections = {c1, c2}
  WhUrls = {u}
  WhOptions = {insert}
  AllEvents = AllEvents
  WhDeliveries = {d}
  NoWh = NoWh
  MaxWhCalls = 2
  RtCollections = {c1, c2}
  NoRt = NoRt
SPECIFICATION Spec
INVARIANTS
  TypeOK
  EditorIsHonest
  BuilderShowsTheText
  KeysAreAccountedFor
  ConsoleShowsItsCollection
PROPERTIES
  EditsReplaceWhatWasLoaded
  RequestsAreEntitled
  FieldsStayWithTheirCollection
  PagesCatchUp
CHECK_DEADLOCK FALSE
