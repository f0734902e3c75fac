CONSTANTS
  None = None
  MaxNodes = 4
  MaxFrames = 3
  MaxMoved = 3
  NoString = NoString
  NoBatch = NoBatch
  Utf8Length <- MCUtf8Length
  WhiteSpace <- MCWhiteSpace
  Batches <- MCBatches
  InitialSize = 64
  MaxRenders = 2
  Contents <- MCContents
  LiveContent <- MCLiveContent
  Labels = {"", "a", "b", "div", "k", "live"}
  Attributes <- MCAttributes
  Nesting = 2
  MaxValue = 1000000
  MaxMerges = 2
  e1 = e1
  e2 = e2
  Elements = {e1, e2}
  NoElement = NoElement
  MaxAdds = 3
  MaxCalls = 2
  p1 = p1
  p2 = p2
  Pages = {p1, p2}
  Hashes = {"", "h"}
  NoRenderer = NoRenderer
  MaxEntries = 3
  MaxIndex = 2
  Nothing = Nothing
  wheel = wheel
  focus = focus
  special = special
  Depth = 2
  BrowserNames = {wheel, focus}
  NonBubbling = {focus}
  Passive = {wheel}
  Aliases = {special}
  Target = wheel
  MaxIds = 3
  MaxEdits = 4
  red = red
  green = green
  blue = blue
  Options = {red, green, blue}
  Null = Null
  Absent = Absent
  ChainLength = 2
  fun = fun
  dat1 = dat1
  dat2 = dat2
  Functions = {fun}
  Data = {dat1, dat2}
  Missing = Missing
  o1 = o1
  o2 = o2
  Objects = {o1, o2}
  MaxReferences = 3
  r1 = r1
  Requests = {r1}
  c1 = c1
  Calls = {c1}
  Gone = Gone
  Total = 4
  Reads = {1, 2, 3}
  MaxCount = 3
  s1 = s1
  Streams = {s1}
  NoId = NoId
  PrerenderIds = {1, 2}
  Markups <- MCMarkups
SPECIFICATION PageSpec
VIEW View
INVARIANTS
  PageShowsRendered
  PageReadsTheBatch
  ScriptIsMinimal
  RootsAgree
  UriFollowsLocation
  TrackedAreLive
  EventsArrive
  BubblesLikeTheDom
  ValueIsShown
  ReferencesAccounted
  ReadsInOrder
  DiscoveryMatchesMarkup
  RootsOwnTheirContent
PROPERTIES
  PageShowsContent
  CallsFollowTheMember
CHECK_DEADLOCK FALSE
