CONSTANTS
    ann = ann
    ben = ben
    Accounts = {ann, ben}
    Receipts = {r1}
    Listings = {i1}
    Offers = {o1, o2}
    Loans = {l1}
    Bids = {}
    NoLoan = NoLoan
    NoBid = NoBid
    IntakeBorrower <- MCIntakeBorrower
    AppraisedValue <- MCAppraisedValue
    InsuredLimit = 6
    MaxTime = 3
    PauseStates = {TRUE, FALSE}
    ParameterSets <- UsualOnly
    BasisPoints = 10
    Year = 2
    Terms <- OneTerm
    ListingRates = {5}
    ListingLifetimes = {1}
    OfferLifetimes <- ImmediateOrLapsed
    Reserves = {}
    Windows = {}
    BidAmounts = {}
    Payments = {4}
    FloatLimit = 8
SPECIFICATION FairSpec
PROPERTY NoOfferTrapsFunds
