\* Two players, three names, one kill.
CONSTANTS
    a = a
    b = b
    c = c
    Id = {1, 2}
    Name = {a, b, c}
    NoName = NoName
    BadName = BadName
    DefaultName <- MCDefaultName
    FreeFlag = FreeFlag
    PaidFlag = PaidFlag
    k1 = k1
    Conn = {k1}
    Offers <- MCOffers
    MaxKills = 1
SPECIFICATION Spec
INVARIANTS
    IndexExact
    TokensApart
    PaidFlagsEarned
    IdentityRestored
