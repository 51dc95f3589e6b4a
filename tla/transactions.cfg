CONSTANTS
    ann = ann
    ben = ben
    cy = cy
    o1 = o1
    o2 = o2
    b1 = b1
    b2 = b2
    i1 = i1
    l1 = l1
    l2 = l2
    t1 = t1
    t2 = t2
    t3 = t3
    Accounts = {ann, ben, cy}
    Receipts = {}
    Listings = {i1}
    Offers = {o1, o2}
    Loans = {l1, l2}
    Bids = {b1, b2}
    NoLoan = NoLoan
    OpeningAvailable <- MCOpeningAvailable
    OpeningHeld <- MCOpeningHeld
    OpeningHolds <- MCOpeningHolds
    Amounts = {2}
    Payouts <- MCPayouts
    Transactions = {t1, t2, t3}
    Tasks <- MCTasks
    OpeningAccounts <- MCOpeningAccounts
SPECIFICATION FairTransactions
CONSTRAINT InOrder
INVARIANT
    CirclesAreOfTransfers
PROPERTIES
    SettlementsAreAtomic
    EveryTransactionEnds
CHECK_DEADLOCK FALSE
