SPECIFICATION ImportSpec
CONSTANTS
    Null = Null
    s1 = s1  s2 = s2  f1 = f1  f2 = f2  p1 = p1  p2 = p2  r1 = r1  base = base  port = port
    Systems = {s1, s2}
    Factions = {f1, f2}
    Planets = {p1, p2}
    Rings = {r1}
    Stations = {base, port}
    Values <- MCValues
    Parent <- MCParent
    Kind <- MCKind
    Commodities <- MCCommodities
    Messages <- ImportMessages
    FeedMessages <- ImportFeed
    MaxDbErrors = 1
    Dump <- MCDump
    ProcessEvery = 5
    StartAt <- MCStartAt
    OldestMarket = 3
    ColonisationShip = port
    MaxImports = 2
ACTION_CONSTRAINT OneStress
INVARIANTS ImportTypeOK RaisesOnlyAfterRefusal CleanImportApplied
PROPERTIES ImportLearnsInOrder NewestItemWins FeedLearnsInOrder WholeFeedApplied
