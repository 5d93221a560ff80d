SPECIFICATION MapsSpec
CONSTANTS
    Null = Null
    sol = sol  maia = maia  A = A  B = B  B2 = B2
    Platinum = Platinum  Osmium = Osmium  Boom = Boom  Typo = Typo
    Names = {n1, n2}
    Systems = {sol, maia}
    Rings = {A, B, B2}
    RingNames = {"A Ring", "B Ring"}
    SystemOf <- MCSystemOf
    NameOf <- MCNameOf
    Symbols = {Platinum, Osmium, Boom}
    Commodities = {Platinum, Osmium}
    Lists <- MCLists
    Counts = {1}
    MaxMaps = 2
    MaxFaults = 1
SYMMETRY AnyNames
INVARIANTS MapsTypeOK AnswersAreTrue BareOnlyAfterRefusal
PROPERTIES MapsStayInside
