CONSTANTS
    ann = ann
    ben = ben
    Accounts = {ann, ben}
    Receipts = {r1}
    Listings = {i1, i2}
    Offers = {o1, o2}
    Loans = {l1, l2}
    Bids = {b1}
    NoLoan = NoLoan
    NoBid = NoBid
    IntakeBorrower <- MCIntakeBorrower
    AppraisedValue <- MCAppraisedValue
    InsuredLimit = 6
    MaxTime = 4
    PauseStates = {FALSE}
    ParameterSets <- UsualOnly
    BasisPoints = 10
    Year = 2
    Terms <- OneTerm
    ListingRates = {5}
    ListingLifetimes = {1}
    OfferLifetimes <- Immediate
    Reserves = {4}
    Windows = {1}
    BidAmounts = {4}
    Payments = {4}
    FloatLimit = 12
SPECIFICATION Spec
SYMMETRY Identical
INVARIANT RepayNeverBlocked
