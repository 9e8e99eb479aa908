----------------------------- MODULE Settlement -----------------------------
(***************************************************************************)
(* A tracker settles co-signed receipts into the ledger of its network     *)
(* (accounting/tracker.py): the consumer of an inference is debited and    *)
(* its seeder credited.  Receipts arrive from peers and over HTTP, each in *)
(* a coroutine of its own, and any of them may arrive again.               *)
(*                                                                         *)
(* Each access to the ledger (storage/repositories.py) is awaited.  A      *)
(* debit and a credit read the account's row in one statement and write    *)
(* the balance they computed from it in a later one.  The ledger survives  *)
(* a restart; the request ids seen and the rate limits do not.             *)
(*                                                                         *)
(* Only receipts that are well formed and carry both valid signatures are  *)
(* submitted: any other is refused before it changes anything.             *)
(***************************************************************************)
EXTENDS Integers, FiniteSets, Functions

CONSTANTS
    Peers,          \* the accounts of the network
    Tracker,        \* the tracker's own account
    Receipts,       \* bound: the receipts that exist, one for a request id
    consumer,       \* the consumer of a receipt
    seeder,         \* the seeder of a receipt
    cost,           \* the cost of a receipt
    Settlers,       \* the coroutines that settle; bound: in flight at once
    SeedBalance,    \* SEED_BALANCE, what an account is opened with
    Treasury,       \* TRACKER_TREASURY, what the tracker's account is filled to
    MaxRate,        \* max_receipts_per_minute of ReceiptValidator
    MaxExpiries,    \* bound: how often a request id is forgotten after an hour
    MaxExits        \* bound: how often the tracker crashes and starts again

ASSUME PeersAssumption == Tracker \in Peers /\ IsFiniteSet(Settlers)
ASSUME ReceiptsAssumption ==
    /\ IsFiniteSet(Receipts) /\ Receipts # {}
    /\ consumer \in [Receipts -> Peers] /\ seeder \in [Receipts -> Peers]
    /\ cost \in [Receipts -> Nat]
    /\ \A r \in Receipts : consumer[r] # seeder[r]
ASSUME AmountsAssumption == SeedBalance \in Nat /\ Treasury \in Nat
ASSUME BoundsAssumption == MaxRate \in Nat /\ MaxExpiries \in Nat /\ MaxExits \in Nat

VARIABLES
    accounts,   \* the peers that have an account
    balance,    \* the balance column, 0 where there is no account
    debits,     \* debit transactions recorded for a receipt
    credits,    \* credit transactions recorded for a receipt
    served,     \* rows of the receipts table, which a peer's served count is read from
    seen,       \* _seen_request_ids
    rate,       \* _credit_rate: receipts of a seeder within the last minute
    settler,    \* where the settlement of a receipt is
    contended,  \* history: accounts that two settlements worked on at once
    expiries,   \* how many request ids were forgotten
    exits       \* how often the tracker crashed

ledger == <<accounts, balance, debits, credits, served>>
vars   == <<ledger, seen, rate, settler, contended, expiries, exits>>

Idle      == [pc |-> "idle", rec |-> CHOOSE r \in Receipts : TRUE, read |-> 0]
SettlerPC == {"idle", "seeder", "openSeeder", "consumer", "openConsumer", "funds",
              "replay", "debit", "debited", "credit", "credited", "store"}

TypeOK ==
    /\ accounts \subseteq Peers
    /\ balance \in [Peers -> Int]
    /\ debits  \in [Receipts -> Nat]
    /\ credits \in [Receipts -> Nat]
    /\ served  \in [Receipts -> Nat]
    /\ seen \subseteq Receipts
    /\ rate    \in [Peers -> 0 .. MaxRate]
    /\ settler \in [Settlers -> [pc : SettlerPC, rec : Receipts, read : Int]]
    /\ contended \subseteq Peers
    /\ expiries \in 0 .. MaxExpiries
    /\ exits    \in 0 .. MaxExits

\* grant_treasury, at every start of the tracker.
Granted(amounts) == [amounts EXCEPT ![Tracker] = IF @ < Treasury THEN Treasury ELSE @]

Init ==
    /\ accounts = {Tracker}
    /\ balance = Granted([p \in Peers |-> 0])
    /\ debits  = [r \in Receipts |-> 0]
    /\ credits = [r \in Receipts |-> 0]
    /\ served  = [r \in Receipts |-> 0]
    /\ seen    = {}
    /\ rate    = [p \in Peers |-> 0]
    /\ settler = [s \in Settlers |-> Idle]
    /\ contended = {}
    /\ expiries = 0
    /\ exits    = 0

At(s, step) == settler[s].pc = step
Goto(s, step) == settler' = [settler EXCEPT ![s].pc = step]
Leave(s) == settler' = [settler EXCEPT ![s] = Idle]

\* The accounts a receipt names.
Naming(r) == {consumer[r], seeder[r]}

Payer(s) == consumer[settler[s].rec]
Payee(s) == seeder[settler[s].rec]
Cost(s)  == cost[settler[s].rec]

-----------------------------------------------------------------------------
(* settle_cosigned_receipt.                                                *)

\* check_credit_rate.
WithinRate(p) == rate[p] < MaxRate

\* The signatures are valid and the seeder is within its rate.
Submit(s, r) ==
    /\ At(s, "idle")
    /\ WithinRate(seeder[r])
    /\ rate' = [rate EXCEPT ![seeder[r]] = @ + 1]
    /\ settler' = [settler EXCEPT ![s] = [pc |-> "seeder", rec |-> r, read |-> 0]]
    /\ contended' = contended \cup
          {p \in Naming(r) : \E other \in Settlers \ {s} :
                ~At(other, "idle") /\ p \in Naming(settler[other].rec)}
    /\ UNCHANGED <<ledger, seen, expiries, exits>>

SettleUnchanged == UNCHANGED <<rate, contended, expiries, exits>>

\* ensure_account: the SELECT finds the account, or the INSERT is next.
Ensure(s, step, p, open, next) ==
    /\ At(s, step)
    /\ Goto(s, IF p \in accounts THEN next ELSE open)
    /\ UNCHANGED <<ledger, seen>>
    /\ SettleUnchanged

\* The INSERT; the settlement fails if someone else has opened the account.
Open(s, step, p, next) ==
    /\ At(s, step)
    /\ accounts' = accounts \cup {p}
    /\ IF p \in accounts
       THEN UNCHANGED balance /\ Leave(s)
       ELSE balance' = [balance EXCEPT ![p] = SeedBalance] /\ Goto(s, next)
    /\ UNCHANGED <<debits, credits, served, seen>>
    /\ SettleUnchanged

\* A consumer that cannot pay is turned away before the request id is used up.
Funds(s) ==
    /\ At(s, "funds")
    /\ IF balance[Payer(s)] < Cost(s) THEN Leave(s) ELSE Goto(s, "replay")
    /\ UNCHANGED <<ledger, seen>>
    /\ SettleUnchanged

\* Mutant: the request id is not remembered.
ReplayForgets(s) ==
    /\ At(s, "replay")
    /\ IF settler[s].rec \in seen THEN Leave(s) ELSE Goto(s, "debit")
    /\ UNCHANGED <<ledger, seen>>
    /\ SettleUnchanged

\* check_replay.
Replay(s) ==
    /\ At(s, "replay")
    /\ IF settler[s].rec \in seen
       THEN Leave(s) /\ UNCHANGED seen
       ELSE Goto(s, "debit") /\ seen' = seen \cup {settler[s].rec}
    /\ UNCHANGED ledger
    /\ SettleUnchanged

Covers(amount, s) == amount >= Cost(s)

\* Mutant: a debit that is refused is skipped.
DebitSkips(s) ==
    /\ At(s, "debit")
    /\ IF Covers(balance[Payer(s)], s)
       THEN settler' = [settler EXCEPT ![s].pc = "debited", ![s].read = balance[Payer(s)]]
       ELSE Goto(s, "credit")
    /\ UNCHANGED <<ledger, seen>>
    /\ SettleUnchanged

\* debit: the row is read, and raises if it does not cover the cost.
DebitRead(s) ==
    /\ At(s, "debit")
    /\ IF Covers(balance[Payer(s)], s)
       THEN settler' = [settler EXCEPT ![s].pc = "debited", ![s].read = balance[Payer(s)]]
       ELSE Leave(s)
    /\ UNCHANGED <<ledger, seen>>
    /\ SettleUnchanged

DebitWrite(s) ==
    /\ At(s, "debited")
    /\ balance' = [balance EXCEPT ![Payer(s)] = settler[s].read - Cost(s)]
    /\ debits'  = [debits EXCEPT ![settler[s].rec] = @ + 1]
    /\ Goto(s, "credit")
    /\ UNCHANGED <<accounts, credits, served, seen>>
    /\ SettleUnchanged

\* credit: the row is read, and written with the transaction.
CreditRead(s) ==
    /\ At(s, "credit")
    /\ settler' = [settler EXCEPT ![s].pc = "credited", ![s].read = balance[Payee(s)]]
    /\ UNCHANGED <<ledger, seen>>
    /\ SettleUnchanged

\* Mutant: the seeder is paid twice.
CreditDouble(s) == settler[s].read + 2 * Cost(s)

NewBalance(s) == settler[s].read + Cost(s)

CreditWrite(s) ==
    /\ At(s, "credited")
    /\ balance' = [balance EXCEPT ![Payee(s)] = NewBalance(s)]
    /\ credits' = [credits EXCEPT ![settler[s].rec] = @ + 1]
    /\ Goto(s, "store")
    /\ UNCHANGED <<accounts, debits, served, seen>>
    /\ SettleUnchanged

Store(s) ==
    /\ At(s, "store")
    /\ served' = [served EXCEPT ![settler[s].rec] = @ + 1]
    /\ Leave(s)
    /\ UNCHANGED <<accounts, balance, debits, credits, seen>>
    /\ SettleUnchanged

Settle(s) ==
    \/ Ensure(s, "seeder", Payee(s), "openSeeder", "consumer")
    \/ Open(s, "openSeeder", Payee(s), "consumer")
    \/ Ensure(s, "consumer", Payer(s), "openConsumer", "funds")
    \/ Open(s, "openConsumer", Payer(s), "funds")
    \/ Funds(s) \/ Replay(s) \/ DebitRead(s) \/ DebitWrite(s)
    \/ CreditRead(s) \/ CreditWrite(s) \/ Store(s)

-----------------------------------------------------------------------------
(* Time and restarts.                                                      *)

\* A minute passes: the rate window is empty again.
Minute ==
    /\ \E p \in Peers : rate[p] > 0
    /\ rate' = [p \in Peers |-> 0]
    /\ UNCHANGED <<ledger, seen, settler, contended, expiries, exits>>

\* An hour after a request id was seen it is pruned.
Expire(r) ==
    /\ r \in seen
    /\ expiries < MaxExpiries
    /\ expiries' = expiries + 1
    /\ seen' = seen \ {r}
    /\ UNCHANGED <<ledger, rate, settler, contended, exits>>

\* The tracker stops at any point and starts again.
Restart ==
    /\ exits < MaxExits
    /\ exits'   = exits + 1
    /\ balance' = Granted(balance)
    /\ seen'    = {}
    /\ rate'    = [p \in Peers |-> 0]
    /\ settler' = [s \in Settlers |-> Idle]
    /\ UNCHANGED <<accounts, debits, credits, served, contended, expiries>>

Next ==
    \/ \E s \in Settlers : (\E r \in Receipts : Submit(s, r)) \/ Settle(s)
    \/ Minute \/ Restart
    \/ \E r \in Receipts : Expire(r)

Spec == Init /\ [][Next]_vars

-----------------------------------------------------------------------------
(* Properties.                                                             *)

\* A settlement of r has taken the step that uses up the request id and not
\* yet written the debit, or the credit.
Paying(r)  == {s \in Settlers : settler[s].rec = r /\ settler[s].pc \in {"debit", "debited"}}
Earning(r) == {s \in Settlers : settler[s].rec = r /\ settler[s].pc \in {"credit", "credited"}}

\* No account is overdrawn: a debit writes what it computed from the balance it
\* checked, so settlements that overlap lose updates and never go below zero.
NeverNegative == \A p \in Peers : balance[p] >= 0

\* tracker.py: "a seeder can't mint credit without a real counterparty": every
\* credit is preceded by a debit of the same receipt, through overlapping
\* settlements, replays and restarts.
CreditBacked ==
    \A r \in Receipts : served[r] <= credits[r]
                          /\ credits[r] + Cardinality(Earning(r)) <= debits[r]

\* tracker.py: "a request_id settles at most once": while the tracker is up and
\* remembers the id, however often and concurrently the receipt is submitted.
SettledOnce ==
    exits = 0 /\ expiries = 0 =>
        \A r \in Receipts : debits[r] + Cardinality(Paying(r)) <= 1

\* The sum of the amounts of S.
Total(S, times) == SumFunction([r \in S |-> cost[r] * times[r]])

\* An account holds what it was opened with and its transactions.
Balanced(p) ==
    balance[p] = SeedBalance + Total({r \in Receipts : seeder[r] = p}, credits)
                             - Total({r \in Receipts : consumer[r] = p}, debits)

\* tracker.py: "debit consumer, credit seeder (conserved 1:1)".  Through every
\* replay and restart, the books balance of an account that no two settlements
\* have worked on at once.
BooksBalance == \A p \in accounts \ (contended \cup {Tracker}) : Balanced(p)

-----------------------------------------------------------------------------
(* What the repository says of the program and the code does not keep.     *)

\* tracker.py, settle_cosigned_receipt: "Idempotency: a request_id settles at
\* most once."
SettlesAtMostOnce == \A r \in Receipts : credits[r] <= 1

\* tracker.py, settle_cosigned_receipt: "debit consumer, credit seeder
\* (conserved 1:1)": between settlements, no credit has appeared or vanished.
Conserved ==
    (\A s \in Settlers : At(s, "idle")) => \A p \in accounts \ {Tracker} : Balanced(p)

\* tracker.py, settle_cosigned_receipt: the funds are verified "BEFORE burning
\* the request_id, so an unfunded consumer can retry after topping up rather
\* than being permanently replay-blocked": an id that is used up is settled, or
\* about to be.
BurntIsSettled ==
    exits = 0 => \A r \in seen : debits[r] > 0 \/ Paying(r) # {}
=============================================================================
