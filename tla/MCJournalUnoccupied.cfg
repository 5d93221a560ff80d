SPECIFICATION Spec
CONSTANTS
    Null = Null
    s1 = s1  s2 = s2  f1 = f1  f2 = f2  p1 = p1  p2 = p2  r1 = r1  base = base  port = port
    Systems = {s1, s2}
    Factions = {f1, f2}
    Planets = {p1, p2}
    Rings = {r1}
    Stations = {base, port}
    Values <- MCValues
    Parent <- MCParent
    Kind <- MCKind
    Commodities <- MCCommodities
    Messages <- FactionMessages
    MaxDbErrors = 0
INVARIANT UnoccupiedHasNoPower
