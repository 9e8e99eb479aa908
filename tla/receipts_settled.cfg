\* a pays b and b pays c, two settlements at a time, an hour passes, one restart.
SPECIFICATION Spec
CONSTANTS
    a = a  b = b  c = c
    r1 = r1  r2 = r2
    Peers = {a, b, c, t}
    Tracker = t
    Receipts = {r1, r2}
    consumer <- ChainPayer
    seeder <- ChainPayee
    cost <- Costs
    Settlers = {s1, s2}
    SeedBalance = 2
    Treasury = 4
    MaxRate = 2
    MaxExpiries = 1
    MaxExits = 1
SYMMETRY Interchangeable
INVARIANTS CreditBacked SettledOnce BooksBalance
