\* A trader, a maker with two levels and the system flow; six orders of at most
\* two shares, three of them not quotes, a grid of two ticks, one share to borrow, a position of one;
\* two concurrent calls, two keys and room for one, two answers of which one fits
\* its workflow, two attempts per post, a budget for one call and half of another;
\* streams of at most 34 bytes and three pieces of text in chunks of five bytes;
\* one call of any workflow to any provider, two attempts per post;
\* two keys and two routes, two preparations and a restart of the server.
SPECIFICATION AccountingSpec
CONSTANTS
    t1 = t1  m1 = m1  sys = sys
    Agents <- WithMaker
    Traders = {t1}
    Makers = {m1}
    System = sys
    Accounts <- WithMaker
    OrderIds <- AllIds
    MaxPrice = 4
    MaxQuantity = 2
    MaxIntents = 3
    MaxOrders = 6
    Cash0 <- Cash
    Long0 <- Long
    PoolTotal = 1
    PriceScale = 400
    FeeNum = 1
    FeeDen = 10
    MarginBps = 5000
    MaxOrderQuantity = 2
    MaxAbsolutePosition <- Limits
    NoReservation = NoReservation
    ShortSelling = TRUE
    TickSize = 2
    Levels = 2
    Distances = {1}
    c1 = c1  c2 = c2  k1 = k1  k2 = k2  fits = fits  misfit = misfit
    Requests = {c1, c2}
    DecisionKeys = {k1, k2}
    ModelAnswers = {fits, misfit}
    MisfitAnswers = {misfit}
    MaxTransportAttempts = 2
    ResponseCost = 1
    CapUsd = 6
    MaxEntries = 1
    NoAnswer = NoAnswer
    glm = glm  gpt = gpt
    Routes = {glm, gpt}
    NoRoute = NoRoute
    KeyCount = 2
    MaxCommands = 2
    MaxRestarts = 1
    MaxStreamBytes = 34
    MaxContentCharacters = 3
    ChunkBytes = 5
    PolicyAttempts = 2
SYMMETRY CallSymmetry
INVARIANTS
    AccountingTypeOK
    BookAndLedgerAgree
    LedgerSound
    CallsAccounted
PROPERTIES
    StreamsAndPathAreSound
CHECK_DEADLOCK FALSE
