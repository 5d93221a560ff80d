SPECIFICATION SessionSpec
CONSTANTS
    Null = Null
    u1 = u1  u2 = u2  t1 = t1  b1 = b1
    Tabs = {t1, t2}
    Browsers = {b1, b2}
    Users = {u1, u2}
    Nameless = {u2}
    Pages = {root, page}
    Root = root
    TTL = 1
    MaxMoves = 4
    MaxFaults = 1
    Horizon = 1
CHECK_DEADLOCK FALSE
CONSTRAINT FirstBrowser
INVARIANT NoColdCacheRace
