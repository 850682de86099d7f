SPECIFICATION Spec
CONSTANTS
    Writers = {r1, r2}
    NoSecret = NoSecret
    Blank = Blank
    NoEvent = NoEvent
    Window = 3
    MaxEvents = 5
    crm = crm
    orders = orders
    email = email
    total = total
    Names = {crm, orders}
    Columns = {email, total}
    Tenants = {t1, t2}
    DefaultTenant = t1
    SeedMask <- Mask
    Queries <- Lists
    Intents <- Topics
    Browse <- Customers
    Keys = {k1, k2}
    NoKey = NoKey
    NoAnswer = NoAnswer
    MaxCatalogs = 3
SYMMETRY Symmetry
INVARIANTS
    AnswersStayWithTheirTenant
CHECK_DEADLOCK FALSE
