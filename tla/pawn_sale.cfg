CONSTANTS
    ann = ann
    ben = ben
    Accounts = {ann, ben}
    Receipts = {r1}
    Listings = {i1}
    Offers = {o1}
    Loans = {l1}
    Bids = {b1, b2}
    NoLoan = NoLoan
    NoBid = NoBid
    IntakeBorrower <- MCIntakeBorrower
    AppraisedValue <- MCAppraisedValue
    InsuredLimit = 6
    MaxTime = 4
    PauseStates = {FALSE}
    ParameterSets <- UsualOrTight
    BasisPoints = 10
    Year = 2
    Terms <- OneTerm
    ListingRates = {5}
    ListingLifetimes = {1}
    OfferLifetimes <- Immediate
    Reserves = {4}
    Windows = {1}
    BidAmounts = {4, 7}
    Payments = {4, 7}
    FloatLimit = 15
SPECIFICATION Spec
SYMMETRY Identical
INVARIANTS
    TypeOK
    LedgerBalanced
    NoOverdraft
    BidHoldAgreement
    SaleMatchesLoan
PROPERTY
    ReceiptMovesOnDefault
