CONSTANTS
    ann = ann
    ben = ben
    Accounts = {ann, ben}
    Receipts = {r1}
    Listings = {i1, i2}
    Offers = {o1, o2}
    Loans = {l1, l2}
    Bids = {}
    NoLoan = NoLoan
    NoBid = NoBid
    IntakeBorrower <- MCIntakeBorrower
    AppraisedValue <- MCAppraisedValue
    InsuredLimit = 6
    MaxTime = 3
    PauseStates = {FALSE}
    ParameterSets <- UsualOrTight
    BasisPoints = 10
    Year = 2
    Terms <- OneTerm
    ListingRates = {5}
    ListingLifetimes = {1}
    OfferLifetimes <- SameDayOrNext
    Reserves = {}
    Windows = {}
    BidAmounts = {}
    Payments = {4}
    FloatLimit = 8
SPECIFICATION Spec
SYMMETRY Identical
INVARIANTS
    HeldBacked
    HonestCountExplained
    OfferHoldAgreement
    ActiveListingUnencumbered
    CollateralKept
    RedemptionBurned
    EncumbranceBacked
