SPECIFICATION Spec
CONSTANTS
  NumShards = 3
  MaxLen = 2
  MaxScore = 2
  MaxK = 4
  MaxDelay = 7
  Timeout = 2
  MaxMessage = 8
  MaxBody = 3
  MaxLines = 4
  MaxEntries = 4
  MaxHtml = 5
  MaxFragments = 3
  MaxPages = 3
  RootAddress = 2
  Blank = "blank"
  Words <- AllWords
  Stopwords <- StopWordList
  AsciiLower <- FoldAscii
  Lower <- FoldUnicode
  Spellings <- PageSpellings
  Address <- PageAddress
  Star = Star
  gurt = gurt
  gurtbot = gurtbot
  bing = bing
  d1 = d1
  d2 = d2
  NoDelay = NoDelay
  NoMatch <- Unmatched
  Length <- RobotsLength
  Agents <- AllAgents
  Contained <- OurTokens
INVARIANTS MergesTheBest PromptShardsKept GatherIsBounded BodyIsWhatWasSent RobotsObeyed
  KeysTellQueries WordsFindPages FetchSettles CandidatesAreListed PageIsIndexed 
CHECK_DEADLOCK FALSE
