CONSTANTS
    p1 = p1
    p2 = p2
    sword = sword
    Players = {p1, p2}
    Items = {sword}
    Gold <- RichAndArmed
    Bag <- SwordOfFirst
    MaxMoney = 1
    MaxUpdates = 2
    MaxCrashes = 1
    None = None
SPECIFICATION Spec
INVARIANTS TypeOK ItemOnce
PROPERTIES TermsShown NoGoldCreated
