SPECIFICATION Spec
CONSTANTS
  c1 = c1
  c2 = c2
  listPrice = listPrice
  atId = atId
  year = year
  count = count
  fileName = fileName
  Clients = {c1, c2}
  ToolsOf <- MCTools
  Names = {listPrice, atId, year, count, fileName}
  Listish = {listPrice}
  System = {atId}
  Numeric = {year}
  Headerish = {fileName}
  Verbs = {count}
  Headings = {fileName}
  Samples <- MCSamples
  Stores <- MCStores
  MaxRecords = 2
  MaxSessions = 2
  MaxIds = 3
INVARIANTS
  CompleteMeansAll
  NothingDisappears
  OnlyUnreadableSkipped
