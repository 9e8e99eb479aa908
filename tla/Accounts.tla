------------------------------- MODULE Accounts -------------------------------
(***************************************************************************)
(* The account a node keeps for itself (storage/repositories.py            *)
(* LedgerRepository): debited for what its requests consume, credited for  *)
(* what it serves (node.py), and shown to dashboards that poll it through  *)
(* a cache; and the receipts that follow an answer: signed by the node     *)
(* that served it, co-signed here, settled by the tracker of the network.  *)
(*                                                                         *)
(* A transaction reads the row, and writes the balance it computed from    *)
(* it when it commits; other coroutines run in between.  What the tracker  *)
(* does with a receipt is one step here, and the module Settlement.        *)
(* Every answer costs one credit.                                          *)
(***************************************************************************)
EXTENDS Naturals, FiniteSets

CONSTANTS
    Consumed,       \* requests of this node that are routed to peers
    Tries,          \* how many peers a request can be routed to
    Answers,        \* requests of peers that this node answers
    InitialCredits, \* settings.initial_credits
    Ttl,            \* ttl of get_account_cached, in steps of the clock
    MaxClock,       \* bound of the clock
    Exits           \* bound: ends of the node

ASSUME AccountsAssumption ==
    /\ IsFiniteSet(Consumed) /\ IsFiniteSet(Answers)
    /\ Tries \in Nat \ {0} /\ InitialCredits \in Nat
    /\ Ttl \in Nat \ {0} /\ MaxClock \in Nat /\ Exits \in Nat

VARIABLES
    node,       \* "off" (there is none), "up" or "down", and its ends so far
    account,    \* the row: whether it is there, and its balance
    consuming,  \* a request: where it is, the peers left to ask, the balance its debit read
    serving,    \* an answer given: where its credit is, the balance that read
    receipts,   \* the receipt of a peer's answer to a request
    settled,    \* the answers whose receipts the tracker has settled
    cache,      \* _account_cache: when the refresh began, and what it read
    poll,       \* the refresh under way
    clock,      \* time
    held,       \* history: the balances of the account while the clock stood at a time
    booked,     \* history: what the account held at first, credits and debits committed
    overlapped  \* history: two transactions were at the row at once

accVars == <<node, account, consuming, serving, receipts, settled, cache, poll, clock, held, booked, overlapped>>

Attempts == 1 .. Tries
Amounts == 0 .. InitialCredits + Cardinality(Answers)
Asking == [at |-> "idle", left |-> Tries, read |-> 0]
NotServed == [at |-> "idle", read |-> 0]
Nothing == [at |-> "none", stamp |-> 0, value |-> 0]

AccountsTypeOK ==
    /\ node \in [is : {"off", "up", "down"}, ends : 0 .. Exits]
    /\ account \in [there : BOOLEAN, balance : Amounts]
    /\ consuming \in [Consumed -> [at : {"idle", "asking", "debit", "debited", "delivered", "none"},
                                   left : 0 .. Tries, read : Amounts]]
    /\ serving \in [Answers -> [at : {"idle", "credit", "credited", "receipt", "ended"}, read : Amounts]]
    /\ receipts \in [Consumed \X Attempts -> {"none", "sent", "ended"}]
    /\ settled \subseteq Consumed \X Attempts
    /\ cache \in [at : {"none", "there"}, stamp : 0 .. MaxClock, value : Amounts]
    /\ poll \in [at : {"none", "reading", "read"}, stamp : 0 .. MaxClock, value : Amounts]
    /\ clock \in 0 .. MaxClock /\ held \in [0 .. MaxClock -> SUBSET Amounts]
    /\ booked \in [opened : Amounts, credits : Nat, debits : [Consumed -> Nat]] /\ overlapped \in BOOLEAN

AccStarted(is, spent) ==
    /\ node = [is |-> is, ends |-> 0]
    /\ account = [there |-> spent, balance |-> 0]
    /\ consuming = [r \in Consumed |-> Asking] /\ serving = [v \in Answers |-> NotServed]
    /\ receipts = [a \in Consumed \X Attempts |-> "none"] /\ settled = {}
    /\ cache = Nothing /\ poll = Nothing
    /\ clock = 0 /\ held = [t \in 0 .. MaxClock |-> {}]
    /\ booked = [opened |-> IF spent THEN 0 ELSE InitialCredits, credits |-> 0, debits |-> [r \in Consumed |-> 0]] /\ overlapped = FALSE
AccOff  == AccStarted("off", FALSE)
\* The node is new, or has spent all it had.
AccInit == \E spent \in BOOLEAN : AccStarted("down", spent)

AccUp == node.is = "up"

-----------------------------------------------------------------------------
(* The row.                                                                *)

Total(balance) == /\ account' = [there |-> TRUE, balance |-> balance]
                  /\ held' = [held EXCEPT ![clock] = @ \cup {balance}]

\* Transactions between their read and their commit.
Debiting  == {r \in Consumed : consuming[r].at = "debited"}
Crediting == {v \in Answers : serving[v].at = "credited"}
Overlaps  == overlapped' = (overlapped \/ Debiting # {} \/ Crediting # {})

\* _invalidate_cache, after the commit.
Invalidated == cache' = Nothing

\* Mutant: an account that is there is opened again.
EnsuredAgain == InitialCredits
\* ensure_account, at every start: an account that is there keeps its balance.
Ensured == IF account.there THEN account.balance ELSE InitialCredits

-----------------------------------------------------------------------------
(* A request that is routed to peers (route_inference).                    *)

RequestUnchanged == UNCHANGED <<node, serving, poll, clock>>
NextPeer(r) == IF consuming[r].left > 1
            THEN [consuming EXCEPT ![r].at = "asking", ![r].left = @ - 1]
            ELSE [consuming EXCEPT ![r].at = "none", ![r].left = 0]

Consume(r) ==
    /\ AccUp /\ consuming[r].at = "idle"
    /\ consuming' = [consuming EXCEPT ![r].at = "asking"]
    /\ UNCHANGED <<account, receipts, settled, cache, held, booked, overlapped>> /\ RequestUnchanged

AskFails(r) ==
    /\ AccUp /\ consuming[r].at = "asking"
    /\ consuming' = NextPeer(r)
    /\ UNCHANGED <<account, receipts, settled, cache, held, booked, overlapped>> /\ RequestUnchanged

\* The peer answers; its receipt follows, unless it is lost.
PeerAnswers(r) ==
    /\ AccUp /\ consuming[r].at = "asking"
    /\ consuming' = [consuming EXCEPT ![r].at = "debit"]
    /\ \E receipt \in {"sent", "ended"} : receipts' = [receipts EXCEPT ![<<r, consuming[r].left>>] = receipt]
    /\ UNCHANGED <<account, settled, cache, held, booked, overlapped>> /\ RequestUnchanged

\* debit raises if the balance does not cover the cost, and whatever raises here makes the peer one
\* that has failed: the next is asked.
DebitRow(r) ==
    /\ AccUp /\ consuming[r].at = "debit"
    /\ IF account.balance < 1
       THEN consuming' = NextPeer(r) /\ UNCHANGED overlapped
       ELSE consuming' = [consuming EXCEPT ![r].at = "debited", ![r].read = account.balance] /\ Overlaps
    /\ UNCHANGED <<account, receipts, settled, cache, held, booked>> /\ RequestUnchanged

DebitCommits(r) ==
    /\ AccUp /\ consuming[r].at = "debited"
    /\ Total(consuming[r].read - 1) /\ Invalidated
    /\ booked' = [booked EXCEPT !.debits[r] = @ + 1]
    /\ consuming' = [consuming EXCEPT ![r].at = "delivered"]
    /\ UNCHANGED <<receipts, settled, overlapped>> /\ RequestUnchanged

DebitFails(r) ==
    /\ AccUp /\ consuming[r].at = "debited"
    /\ consuming' = NextPeer(r)
    /\ UNCHANGED <<account, receipts, settled, cache, held, booked, overlapped>> /\ RequestUnchanged

-----------------------------------------------------------------------------
(* An answer this node has given (_handle_inference_request).              *)

ServeUnchanged == UNCHANGED <<node, consuming, receipts, settled, poll, clock>>

\* check_credit_rate: over a hundred answers in the minute, those outside Answers with them, nothing
\* is credited, and the receipt is sent all the same.
Serve(v) ==
    /\ AccUp /\ serving[v].at = "idle"
    /\ \E next \in {"credit", "receipt"} : serving' = [serving EXCEPT ![v].at = next]
    /\ UNCHANGED <<account, cache, held, booked, overlapped>> /\ ServeUnchanged

CreditRow(v) ==
    /\ AccUp /\ serving[v].at = "credit"
    /\ serving' = [serving EXCEPT ![v].at = "credited", ![v].read = account.balance] /\ Overlaps
    /\ UNCHANGED <<account, cache, held, booked>> /\ ServeUnchanged

CreditCommits(v) ==
    /\ AccUp /\ serving[v].at = "credited"
    /\ Total(serving[v].read + 1) /\ Invalidated
    /\ booked' = [booked EXCEPT !.credits = @ + 1]
    /\ serving' = [serving EXCEPT ![v].at = "receipt"]
    /\ UNCHANGED <<overlapped>> /\ ServeUnchanged

\* The peer, which has its answer, is sent an error, and no receipt.
CreditFails(v) ==
    /\ AccUp /\ serving[v].at = "credited"
    /\ serving' = [serving EXCEPT ![v].at = "ended"]
    /\ UNCHANGED <<account, cache, held, booked, overlapped>> /\ ServeUnchanged

SendReceipt(v) ==
    /\ AccUp /\ serving[v].at = "receipt"
    /\ serving' = [serving EXCEPT ![v].at = "ended"]
    /\ UNCHANGED <<account, cache, held, booked, overlapped>> /\ ServeUnchanged

-----------------------------------------------------------------------------
(* A receipt (_handle_credit_receipt).  No one reads what it writes here:  *)
(* it is one step.                                                         *)

\* submit_receipts, if it gets there and passes.
Submitted(a) == settled' \in {settled, settled \cup {a}}

\* Signed by the peer it is co-signed and submitted: in this process if it is the tracker, else over
\* HTTP, where the tracker may not be reached, may refuse it, or settle it though its answer is
\* lost.  One that is not signed, of an older peer, is only stored; one whose signature is wrong, or
\* whose peer has gone, is dropped.
Receive(a) ==
    /\ AccUp /\ receipts[a] = "sent"
    /\ receipts' = [receipts EXCEPT ![a] = "ended"]
    /\ Submitted(a)
    /\ UNCHANGED <<node, account, consuming, serving, cache, poll, clock, held, booked, overlapped>>

-----------------------------------------------------------------------------
(* The status that dashboards poll (get_account_cached).                   *)

PollUnchanged == UNCHANGED <<node, account, consuming, serving, receipts, settled, clock, held, booked, overlapped>>
CacheFresh == cache.at = "there" /\ clock < cache.stamp + Ttl

\* Refreshes that overlap store what they read in any order; one is enough to race the commits.
Refresh ==
    /\ AccUp /\ poll.at = "none" /\ ~CacheFresh
    /\ poll' = [at |-> "reading", stamp |-> clock, value |-> 0]
    /\ UNCHANGED cache /\ PollUnchanged

RefreshReads ==
    /\ AccUp /\ poll.at = "reading"
    /\ poll' = [poll EXCEPT !.at = "read", !.value = account.balance]
    /\ UNCHANGED cache /\ PollUnchanged

\* Mutant: the time is taken when the read has returned.
StampedLate == [poll EXCEPT !.at = "there", !.stamp = clock]
Stamped == [poll EXCEPT !.at = "there"]

RefreshStores ==
    /\ AccUp /\ poll.at = "read"
    /\ cache' = Stamped /\ poll' = Nothing
    /\ PollUnchanged

\* The database failed, or the client that polled has gone: its refresh runs on, and is not stored.
RefreshDropped ==
    /\ AccUp /\ poll.at # "none"
    /\ poll' = Nothing
    /\ UNCHANGED cache /\ PollUnchanged

-----------------------------------------------------------------------------
(* Time; the node starts and ends.                                         *)

Tick ==
    /\ AccUp /\ clock < MaxClock
    /\ clock' = clock + 1 /\ held' = [held EXCEPT ![clock + 1] = {account.balance}]
    /\ UNCHANGED <<node, account, consuming, serving, receipts, settled, cache, poll, booked, overlapped>>

\* _init_accounting.
NodeStarts ==
    /\ node.is = "down" /\ node' = [node EXCEPT !.is = "up"]
    /\ Total(Ensured)
    /\ UNCHANGED <<consuming, serving, receipts, settled, cache, poll, clock, booked, overlapped>>

NodeEnds ==
    /\ AccUp /\ node.ends < Exits /\ node' = [is |-> "down", ends |-> node.ends + 1]
    /\ consuming' = [r \in Consumed |-> IF consuming[r].at \in {"idle", "delivered"} THEN consuming[r]
                                        ELSE [consuming[r] EXCEPT !.at = "none"]]
    /\ serving' = [v \in Answers |-> IF serving[v].at = "idle" THEN serving[v] ELSE [serving[v] EXCEPT !.at = "ended"]]
    /\ receipts' = [a \in DOMAIN receipts |-> IF receipts[a] = "sent" THEN "ended" ELSE receipts[a]]
    /\ cache' = Nothing /\ poll' = Nothing
    /\ UNCHANGED <<account, settled, clock, held, booked, overlapped>>

AccNext ==
    \/ \E r \in Consumed : \/ Consume(r) \/ AskFails(r) \/ PeerAnswers(r)
                           \/ DebitRow(r) \/ DebitCommits(r) \/ DebitFails(r)
    \/ \E v \in Answers : Serve(v) \/ CreditRow(v) \/ CreditCommits(v) \/ CreditFails(v) \/ SendReceipt(v)
    \/ \E a \in Consumed \X Attempts : Receive(a)
    \/ Refresh \/ RefreshReads \/ RefreshStores \/ RefreshDropped
    \/ Tick \/ NodeStarts \/ NodeEnds

AccSpec == AccInit /\ [][AccNext]_accVars

-----------------------------------------------------------------------------
(* Properties.                                                             *)

Debits == Cardinality({r \in Consumed : booked.debits[r] > 0})

(* Through restarts and databases that fail, an account on which no two    *)
(* transactions overlapped holds what it was opened with, what was credited*)
(* and what was debited, once for every request that was answered to the   *)
(* end (storage/repositories.py ensure_account, credit, debit; node.py     *)
(* route_inference).                                                       *)
AccountHolds ==
    /\ \A r \in Consumed : booked.debits[r] = (IF consuming[r].at = "delivered" THEN 1 ELSE 0)
    /\ account.there /\ ~overlapped => account.balance + Debits = booked.opened + booked.credits

(* What a poll is answered from the cache is a balance that the account    *)
(* had no longer than its ttl ago, though a transaction may commit, and    *)
(* drop the cache, between the read of a refresh and its store; when the   *)
(* database fails a poll gets the last balance read, however old           *)
(* (storage/repositories.py get_account_cached).                           *)
PollsFresh ==
    CacheFresh => \E t \in cache.stamp .. clock : cache.value \in held[t]

(* The node's account holds its transactions, and dashboards see of it     *)
(* nothing older than the ttl of its cache.                                *)
AccountKept == AccountHolds /\ PollsFresh

(* "Settle: debit consumer, credit seeder" (tracker.py:101) is for an      *)
(* answer that was consumed.                                               *)
PaidIsDelivered ==
    node.ends = 0 => \A r \in Consumed, k \in Attempts :
        <<r, k>> \in settled => consuming[r].at # "none" /\ consuming[r].left = k

(* The account holds its transactions, overlapped or not.                  *)
NothingLost == account.there => account.balance + Debits = booked.opened + booked.credits
=============================================================================
