-------------------------- MODULE SettlementProofs --------------------------
(***************************************************************************)
(* Proofs about Settlement, for any peers, receipts and amounts and any    *)
(* number of settlements, expired ids and restarts; and about Training,    *)
(* for any participants, rounds, deltas and samples.                       *)
(***************************************************************************)
EXTENDS Settlement, Training, Sums

-----------------------------------------------------------------------------
(* Types.                                                                  *)

LEMMA IdleType == Idle \in [pc : SettlerPC, rec : Receipts, read : Int]
BY ReceiptsAssumption DEF Idle, SettlerPC

LEMMA InitTypeOK == Init => TypeOK
BY IdleType, PeersAssumption, AmountsAssumption, BoundsAssumption
   DEF Init, TypeOK, Granted

Records == [pc : SettlerPC, rec : Receipts, read : Int]

LEMMA Parties ==
  ASSUME TypeOK, NEW s \in Settlers
  PROVE  /\ settler \in [Settlers -> Records] /\ Idle \in Records
         /\ settler[s].rec \in Receipts /\ settler[s].read \in Int
         /\ Payer(s) \in Peers /\ Payee(s) \in Peers /\ Cost(s) \in Nat
         /\ balance[Payer(s)] \in Int /\ balance[Payee(s)] \in Int
BY ReceiptsAssumption, IdleType DEF TypeOK, Records, Payer, Payee, Cost

\* The steps of a settlement that is under way.
LEMMA SettleTypeOK ==
  ASSUME TypeOK, NEW s \in Settlers, Settle(s)
  PROVE  TypeOK'
<1> USE DEF Goto, Leave, ledger, SettleUnchanged
<1>0. /\ settler \in [Settlers -> Records] /\ Idle \in Records
      /\ settler[s].rec \in Receipts /\ settler[s].read \in Int
      /\ Payer(s) \in Peers /\ Payee(s) \in Peers /\ Cost(s) \in Nat
      /\ balance[Payer(s)] \in Int /\ balance[Payee(s)] \in Int
  BY Parties
<1>1. ASSUME NEW p \in Peers, NEW from, NEW open \in SettlerPC, NEW next \in SettlerPC,
             Ensure(s, from, p, open, next)
      PROVE  TypeOK'
  <2>1. settler' \in [Settlers -> Records]
    BY <1>0, <1>1 DEF Ensure, Records
  <2>2. QED
    BY <1>1, <2>1 DEF Ensure, TypeOK, Records
<1>2. ASSUME NEW p \in Peers, NEW from, NEW next \in SettlerPC, Open(s, from, p, next)
      PROVE  TypeOK'
  <2>1. settler' \in [Settlers -> Records]
    BY <1>0, <1>2 DEF Open, Records
  <2>2. balance' \in [Peers -> Int]
    BY <1>2, AmountsAssumption DEF Open, TypeOK
  <2>3. QED
    BY <1>2, <2>1, <2>2 DEF Open, TypeOK, Records
<1>3. CASE Funds(s)
  <2>1. settler' \in [Settlers -> Records]
    BY <1>0, <1>3 DEF Funds, Records, SettlerPC
  <2>2. QED
    BY <1>0, <1>3, <2>1 DEF Funds, TypeOK, Records
<1>4. CASE Replay(s)
  <2>1. settler' \in [Settlers -> Records]
    BY <1>0, <1>4, ZenonT(60) DEF Replay, Records, SettlerPC
  <2>2. QED
    BY <1>0, <1>4, <2>1 DEF Replay, TypeOK, Records
<1>5. CASE DebitRead(s)
  <2>1. settler' \in [Settlers -> Records]
    <3>1. CASE Covers(balance[Payer(s)], s)
      <4>1. settler' = [settler EXCEPT ![s].pc = "debited", ![s].read = balance[Payer(s)]]
        BY <1>5, <3>1 DEF DebitRead
      <4>2. QED
        BY <1>0, <4>1 DEF Records, SettlerPC
    <3>2. CASE ~Covers(balance[Payer(s)], s)
      BY <1>0, <1>5, <3>2 DEF DebitRead
    <3>3. QED
      BY <3>1, <3>2
  <2>2. QED
    BY <1>0, <1>5, <2>1 DEF DebitRead, TypeOK, Records
<1>6. CASE DebitWrite(s)
  <2>1. settler' \in [Settlers -> Records]
    BY <1>0, <1>6 DEF DebitWrite, Records, SettlerPC
  <2>2. QED
    BY <1>0, <1>6, <2>1 DEF DebitWrite, TypeOK, Records
<1>7. CASE CreditRead(s)
  <2>1. settler' \in [Settlers -> Records]
    BY <1>0, <1>7 DEF CreditRead, Records, SettlerPC
  <2>2. QED
    BY <1>0, <1>7, <2>1 DEF CreditRead, TypeOK, Records
<1>8. CASE CreditWrite(s)
  <2>1. settler' \in [Settlers -> Records]
    BY <1>0, <1>8 DEF CreditWrite, Records, SettlerPC
  <2>2. QED
    BY <1>0, <1>8, <2>1 DEF CreditWrite, NewBalance, TypeOK, Records
<1>9. CASE Store(s)
  <2>1. settler' \in [Settlers -> Records]
    BY <1>0, <1>9 DEF Store, Records, SettlerPC
  <2>2. QED
    BY <1>0, <1>9, <2>1 DEF Store, TypeOK, Records
<1>10. {"seeder", "openSeeder", "consumer", "openConsumer", "funds"} \subseteq SettlerPC
  BY DEF SettlerPC
<1>11. QED
  BY <1>0, <1>1, <1>2, <1>3, <1>4, <1>5, <1>6, <1>7, <1>8, <1>9, <1>10 DEF Settle

LEMMA SubmitTypeOK ==
  ASSUME TypeOK, NEW s \in Settlers, NEW r \in Receipts, Submit(s, r)
  PROVE  TypeOK'
<1>1. settler' \in [Settlers -> Records]
  <2>1. settler' = [settler EXCEPT ![s] = [pc |-> "seeder", rec |-> r, read |-> 0]]
    BY DEF Submit
  <2>2. [pc |-> "seeder", rec |-> r, read |-> 0] \in Records
    BY DEF Records, SettlerPC
  <2>3. QED
    BY <2>1, <2>2, Parties
<1>2. rate' \in [Peers -> 0 .. MaxRate]
  BY ReceiptsAssumption, BoundsAssumption DEF Submit, WithinRate, TypeOK
<1>3. contended' \subseteq Peers
  BY ReceiptsAssumption DEF Submit, Naming, TypeOK
<1>4. QED
  BY <1>1, <1>2, <1>3 DEF Submit, TypeOK, Records, ledger

LEMMA NextTypeOK == TypeOK /\ [Next]_vars => TypeOK'
<1> SUFFICES ASSUME TypeOK, [Next]_vars PROVE TypeOK'
  OBVIOUS
<1> USE IdleType, PeersAssumption, ReceiptsAssumption, AmountsAssumption, BoundsAssumption
    DEF TypeOK, ledger
<1>1. ASSUME NEW s \in Settlers, NEW r \in Receipts, Submit(s, r) PROVE TypeOK'
  BY <1>1, SubmitTypeOK
<1>2. ASSUME NEW s \in Settlers, Settle(s) PROVE TypeOK'
  BY <1>2, SettleTypeOK
<1>3. CASE Minute
  BY <1>3 DEF Minute
<1>4. CASE Restart
  BY <1>4 DEF Restart, Granted
<1>5. ASSUME NEW r \in Receipts, Expire(r) PROVE TypeOK'
  BY <1>5 DEF Expire
<1>6. CASE UNCHANGED vars
  BY <1>6 DEF vars
<1>7. QED
  BY <1>1, <1>2, <1>3, <1>4, <1>5, <1>6 DEF Next

\* Every reachable state of the tracker's ledger and of its settlements is type
\* correct.
THEOREM TypeCorrect == Spec => []TypeOK
<1>1. Init => TypeOK
  BY InitTypeOK
<1>2. TypeOK /\ [Next]_vars => TypeOK'
  BY NextTypeOK
<1>3. QED
  BY <1>1, <1>2, PTL DEF Spec

-----------------------------------------------------------------------------
(* No account is overdrawn.                                                *)

\* A debit under way has read enough, and a credit under way no less than zero.
ReadsCover ==
    \A s \in Settlers :
        /\ At(s, "debited")  => settler[s].read >= Cost(s)
        /\ At(s, "credited") => settler[s].read >= 0

NInv == TypeOK /\ NeverNegative /\ ReadsCover

LEMMA InitNInv == Init => NInv
BY InitTypeOK, AmountsAssumption
   DEF Init, NInv, NeverNegative, ReadsCover, Granted, Idle, At

LEMMA NextNInv == NInv /\ [Next]_vars => NInv'
<1> SUFFICES ASSUME NInv, [Next]_vars PROVE (NeverNegative /\ ReadsCover)'
  BY NextTypeOK DEF NInv
<1> USE DEF NInv, NeverNegative, ReadsCover, At, Goto, Leave, ledger, SettleUnchanged,
            Payer, Payee, Cost
<1> Idle.pc = "idle"
  BY DEF Idle
<1> /\ settler \in [Settlers -> Records] /\ balance \in [Peers -> Int]
    /\ \A s \in Settlers : settler[s].read \in Int /\ Cost(s) \in Nat
  BY Parties DEF TypeOK
<1>1. ASSUME NEW s \in Settlers, NEW r \in Receipts, Submit(s, r)
      PROVE  (NeverNegative /\ ReadsCover)'
  BY <1>1 DEF Submit, Records
<1>2. ASSUME NEW s \in Settlers, NEW p, NEW from, NEW open \in {"openSeeder", "openConsumer"},
             NEW next \in {"consumer", "funds"},
             Ensure(s, from, p, open, next)
      PROVE  (NeverNegative /\ ReadsCover)'
  BY <1>2 DEF Ensure, Records
<1>3. ASSUME NEW s \in Settlers, NEW p, NEW from, NEW next \in {"consumer", "funds"},
             Open(s, from, p, next)
      PROVE  (NeverNegative /\ ReadsCover)'
  BY <1>3, AmountsAssumption DEF Open, Records
<1>4. ASSUME NEW s \in Settlers, Funds(s) PROVE (NeverNegative /\ ReadsCover)'
  BY <1>4 DEF Funds, Records
<1>5. ASSUME NEW s \in Settlers, Replay(s) PROVE (NeverNegative /\ ReadsCover)'
  BY <1>5 DEF Replay, Records
<1>6. ASSUME NEW s \in Settlers, DebitRead(s) PROVE (NeverNegative /\ ReadsCover)'
  BY <1>6 DEF DebitRead, Covers, Records
<1>7. ASSUME NEW s \in Settlers, DebitWrite(s) PROVE (NeverNegative /\ ReadsCover)'
  BY <1>7 DEF DebitWrite, Records
<1>8. ASSUME NEW s \in Settlers, CreditRead(s) PROVE (NeverNegative /\ ReadsCover)'
  BY <1>8, Parties DEF CreditRead, Records
<1>9. ASSUME NEW s \in Settlers, CreditWrite(s) PROVE (NeverNegative /\ ReadsCover)'
  BY <1>9 DEF CreditWrite, NewBalance, Records
<1>10. ASSUME NEW s \in Settlers, Store(s) PROVE (NeverNegative /\ ReadsCover)'
  BY <1>10 DEF Store, Records
<1>11. ASSUME NEW s \in Settlers, Settle(s) PROVE (NeverNegative /\ ReadsCover)'
  BY <1>11, <1>2, <1>3, <1>4, <1>5, <1>6, <1>7, <1>8, <1>9, <1>10 DEF Settle
<1>12. CASE Minute
  BY <1>12 DEF Minute
<1>13. CASE Restart
  BY <1>13, AmountsAssumption DEF Restart, Granted
<1>14. ASSUME NEW r \in Receipts, Expire(r) PROVE (NeverNegative /\ ReadsCover)'
  BY <1>14 DEF Expire
<1>15. CASE UNCHANGED vars
  BY <1>15 DEF vars
<1>16. QED
  BY <1>1, <1>11, <1>12, <1>13, <1>14, <1>15 DEF Next

\* However settlements overlap and the tracker restarts, no account of the
\* network goes below zero.
THEOREM NoOverdraft == Spec => []NeverNegative
<1>1. NInv => NeverNegative
  BY DEF NInv
<1>2. QED
  BY <1>1, InitNInv, NextNInv, PTL DEF Spec

-----------------------------------------------------------------------------
(* Debits, credits and the settlements between them.                       *)

\* A settlement of r has credited the seeder and not stored the receipt yet.
Storing(r) == {s \in Settlers : settler[s].rec = r /\ settler[s].pc = "store"}

\* A receipt is stored after its credit, which comes after its debit.
Backed ==
    \A r \in Receipts :
        /\ served[r] + Cardinality(Storing(r)) <= credits[r]
        /\ credits[r] + Cardinality(Earning(r)) <= debits[r]

\* While the ids are remembered, a receipt that is being paid or was paid is
\* among them, and is so once.
Remembered ==
    exits = 0 /\ expiries = 0 =>
        \A r \in Receipts :
            debits[r] + Cardinality(Paying(r)) <= (IF r \in seen THEN 1 ELSE 0)

\* Two sets that agree but for one element.
LEMMA DifferInOne ==
  ASSUME NEW A, NEW B, NEW x, IsFiniteSet(A), IsFiniteSet(B), A \ {x} = B \ {x}
  PROVE  /\ Cardinality(A) \in Nat /\ Cardinality(B) \in Nat
         /\ Cardinality(B) = Cardinality(A) + (IF x \in B THEN 1 ELSE 0)
                                            - (IF x \in A THEN 1 ELSE 0)
<1>1. /\ Cardinality(A) \in Nat /\ Cardinality(B) \in Nat
  BY FS_CardinalityType
<1>2. Cardinality(A \ {x}) = IF x \in A THEN Cardinality(A) - 1 ELSE Cardinality(A)
  BY FS_RemoveElement
<1>3. Cardinality(B \ {x}) = IF x \in B THEN Cardinality(B) - 1 ELSE Cardinality(B)
  BY FS_RemoveElement
<1>4. QED
  BY <1>1, <1>2, <1>3

\* A step of one settlement leaves the others where they are.
LEMMA OthersStay ==
  ASSUME TypeOK, NEW s \in Settlers, Settle(s) \/ \E r \in Receipts : Submit(s, r)
  PROVE  \A u \in Settlers \ {s} : settler'[u] = settler[u]
BY Parties
   DEF Settle, Submit, Ensure, Open, Funds, Replay, DebitRead, DebitWrite, CreditRead,
       CreditWrite, Store, Goto, Leave

\* So each count changes by what that settlement enters and leaves.
LEMMA StageChange ==
  ASSUME TypeOK, NEW s \in Settlers, NEW r \in Receipts,
         \A u \in Settlers \ {s} : settler'[u] = settler[u]
  PROVE  /\ Cardinality(Paying(r)') = Cardinality(Paying(r))
                + (IF s \in Paying(r)' THEN 1 ELSE 0) - (IF s \in Paying(r) THEN 1 ELSE 0)
         /\ Cardinality(Earning(r)') = Cardinality(Earning(r))
                + (IF s \in Earning(r)' THEN 1 ELSE 0) - (IF s \in Earning(r) THEN 1 ELSE 0)
         /\ Cardinality(Storing(r)') = Cardinality(Storing(r))
                + (IF s \in Storing(r)' THEN 1 ELSE 0) - (IF s \in Storing(r) THEN 1 ELSE 0)
         /\ Cardinality(Paying(r)) \in Nat /\ Cardinality(Paying(r)') \in Nat
         /\ Cardinality(Earning(r)) \in Nat /\ Cardinality(Earning(r)') \in Nat
         /\ Cardinality(Storing(r)) \in Nat /\ Cardinality(Storing(r)') \in Nat
<1>1. \A S \in SUBSET Settlers : IsFiniteSet(S)
  BY PeersAssumption, FS_Subset
<1>2. /\ Paying(r) \in SUBSET Settlers /\ Paying(r)' \in SUBSET Settlers
      /\ Paying(r) \ {s} = Paying(r)' \ {s}
  BY DEF Paying
<1>3. /\ Earning(r) \in SUBSET Settlers /\ Earning(r)' \in SUBSET Settlers
      /\ Earning(r) \ {s} = Earning(r)' \ {s}
  BY DEF Earning
<1>4. /\ Storing(r) \in SUBSET Settlers /\ Storing(r)' \in SUBSET Settlers
      /\ Storing(r) \ {s} = Storing(r)' \ {s}
  BY DEF Storing
<1>5. QED
  BY <1>1, <1>2, <1>3, <1>4, DifferInOne

BInv == TypeOK /\ Backed /\ Remembered

LEMMA InitBInv == Init => BInv
<1> SUFFICES ASSUME Init PROVE Backed /\ Remembered
  BY InitTypeOK DEF BInv
<1>1. \A r \in Receipts : Paying(r) = {} /\ Earning(r) = {} /\ Storing(r) = {}
  BY DEF Init, Idle, Paying, Earning, Storing
<1>2. QED
  BY <1>1, FS_EmptySet DEF Init, Backed, Remembered

\* A settlement's step, for each receipt.
LEMMA SettleBInv ==
  ASSUME BInv, NEW s \in Settlers, Settle(s) \/ \E r \in Receipts : Submit(s, r)
  PROVE  (Backed /\ Remembered)'
<1> SUFFICES ASSUME NEW r \in Receipts
             PROVE  /\ served'[r] + Cardinality(Storing(r)') <= credits'[r]
                    /\ credits'[r] + Cardinality(Earning(r)') <= debits'[r]
                    /\ exits' = 0 /\ expiries' = 0 =>
                         debits'[r] + Cardinality(Paying(r)') <= (IF r \in seen' THEN 1 ELSE 0)
  BY DEF Backed, Remembered
<1> DEFINE paying(q)  == IF q.rec = r /\ q.pc \in {"debit", "debited"} THEN 1 ELSE 0
           earning(q) == IF q.rec = r /\ q.pc \in {"credit", "credited"} THEN 1 ELSE 0
           storing(q) == IF q.rec = r /\ q.pc = "store" THEN 1 ELSE 0
           P == Cardinality(Paying(r))   PP == Cardinality(Paying(r)')
           E == Cardinality(Earning(r))  EE == Cardinality(Earning(r)')
           S == Cardinality(Storing(r))  SS == Cardinality(Storing(r)')
<1>1. /\ PP = P + paying(settler'[s]) - paying(settler[s])
      /\ EE = E + earning(settler'[s]) - earning(settler[s])
      /\ SS = S + storing(settler'[s]) - storing(settler[s])
  <2>1. /\ s \in Paying(r)  <=> settler[s].rec = r /\ settler[s].pc \in {"debit", "debited"}
        /\ s \in Earning(r) <=> settler[s].rec = r /\ settler[s].pc \in {"credit", "credited"}
        /\ s \in Storing(r) <=> settler[s].rec = r /\ settler[s].pc = "store"
        /\ s \in Paying(r)'  <=> settler'[s].rec = r /\ settler'[s].pc \in {"debit", "debited"}
        /\ s \in Earning(r)' <=> settler'[s].rec = r /\ settler'[s].pc \in {"credit", "credited"}
        /\ s \in Storing(r)' <=> settler'[s].rec = r /\ settler'[s].pc = "store"
    BY DEF Paying, Earning, Storing
  <2>2. \A u \in Settlers \ {s} : settler'[u] = settler[u]
    BY OthersStay DEF BInv
  <2>3. QED
    BY <2>1, <2>2, StageChange DEF BInv
<1>2. P \in Nat /\ PP \in Nat /\ E \in Nat /\ EE \in Nat /\ S \in Nat /\ SS \in Nat
  BY OthersStay, StageChange DEF BInv
<1>2a. /\ paying(settler'[s]) = paying(settler[s])
       /\ earning(settler'[s]) = earning(settler[s])
       /\ storing(settler'[s]) = storing(settler[s])
       => PP = P /\ EE = E /\ SS = S
  <2> HIDE DEF P, PP, E, EE, S, SS, paying, earning, storing
  <2>1. /\ paying(settler[s]) \in Nat /\ earning(settler[s]) \in Nat
        /\ storing(settler[s]) \in Nat
    BY DEF paying, earning, storing
  <2>2. QED
    BY <1>1, <1>2, <2>1
<1>3. /\ served[r] \in Nat /\ credits[r] \in Nat /\ debits[r] \in Nat
      /\ served \in [Receipts -> Nat] /\ credits \in [Receipts -> Nat]
      /\ debits \in [Receipts -> Nat]
      /\ settler \in [Settlers -> Records] /\ settler[s].rec \in Receipts
      /\ Idle.pc = "idle"
  BY Parties DEF BInv, TypeOK, Idle
<1>4. /\ served[r] + S <= credits[r] /\ credits[r] + E <= debits[r]
      /\ exits = 0 /\ expiries = 0 => debits[r] + P <= (IF r \in seen THEN 1 ELSE 0)
  BY DEF BInv, Backed, Remembered
<1> HIDE DEF P, PP, E, EE, S, SS
<1> SUFFICES /\ served'[r] + SS <= credits'[r]
             /\ credits'[r] + EE <= debits'[r]
             /\ exits' = 0 /\ expiries' = 0 =>
                  debits'[r] + PP <= (IF r \in seen' THEN 1 ELSE 0)
  BY DEF PP, EE, SS
<1> USE DEF At, Goto, Leave, ledger, SettleUnchanged, Records
<1>5. ASSUME NEW q \in Receipts, Submit(s, q)
      PROVE  UNCHANGED <<served, credits, debits, seen, exits, expiries>> /\ PP = P /\ EE = E /\ SS = S
  BY <1>1, <1>2, <1>3, <1>5 DEF Submit
<1>6. ASSUME NEW p, NEW from \in {"seeder", "consumer"}, NEW open \in {"openSeeder", "openConsumer"},
             NEW next \in {"consumer", "funds"}, Ensure(s, from, p, open, next)
      PROVE  UNCHANGED <<served, credits, debits, seen, exits, expiries>> /\ PP = P /\ EE = E /\ SS = S
  <2>1. /\ settler[s].pc \in {"seeder", "consumer"}
        /\ settler'[s].pc \in {"openSeeder", "openConsumer", "consumer", "funds"}
    BY <1>3, <1>6 DEF Ensure
  <2>2. PP = P /\ EE = E /\ SS = S
    BY <1>2a, <2>1
  <2>3. QED
    BY <1>6, <2>2 DEF Ensure
<1>7. ASSUME NEW p, NEW from \in {"openSeeder", "openConsumer"},
             NEW next \in {"consumer", "funds"}, Open(s, from, p, next)
      PROVE  UNCHANGED <<served, credits, debits, seen, exits, expiries>> /\ PP = P /\ EE = E /\ SS = S
  <2>1. /\ settler[s].pc \in {"openSeeder", "openConsumer"}
        /\ settler'[s].pc \in {"idle", "consumer", "funds"}
    BY <1>3, <1>7 DEF Open
  <2>2. PP = P /\ EE = E /\ SS = S
    BY <1>2a, <2>1
  <2>3. QED
    BY <1>7, <2>2 DEF Open
<1>8. CASE Funds(s)
  BY <1>1, <1>2, <1>3, <1>4, <1>8 DEF Funds
<1>9. CASE Replay(s)
  BY <1>1, <1>2, <1>3, <1>4, <1>9 DEF Replay
<1>10. CASE DebitRead(s)
  BY <1>1, <1>2, <1>3, <1>4, <1>10 DEF DebitRead
<1>11. CASE DebitWrite(s)
  BY <1>1, <1>2, <1>3, <1>4, <1>11 DEF DebitWrite
<1>12. CASE CreditRead(s)
  BY <1>1, <1>2, <1>3, <1>4, <1>12 DEF CreditRead
<1>13. CASE CreditWrite(s)
  BY <1>1, <1>2, <1>3, <1>4, <1>13 DEF CreditWrite
<1>14. CASE Store(s)
  BY <1>1, <1>2, <1>3, <1>4, <1>14 DEF Store
<1>15. QED
  BY <1>4, <1>5, <1>6, <1>7, <1>8, <1>9, <1>10, <1>11, <1>12, <1>13, <1>14 DEF Settle

LEMMA NextBInv == BInv /\ [Next]_vars => BInv'
<1> SUFFICES ASSUME BInv, [Next]_vars PROVE (Backed /\ Remembered)'
  BY NextTypeOK DEF BInv
<1>1. ASSUME NEW s \in Settlers, Settle(s) \/ \E r \in Receipts : Submit(s, r)
      PROVE  (Backed /\ Remembered)'
  BY <1>1, SettleBInv
<1>2. CASE Minute
  BY <1>2 DEF Minute, BInv, Backed, Remembered, Paying, Earning, Storing, ledger
<1>3. CASE Restart
  <2>1. \A r \in Receipts : Paying(r)' = {} /\ Earning(r)' = {} /\ Storing(r)' = {}
    BY <1>3 DEF Restart, Idle, Paying, Earning, Storing
  <2>2. \A r \in Receipts : Cardinality(Earning(r)) \in Nat /\ Cardinality(Storing(r)) \in Nat
    BY PeersAssumption, FS_Subset, FS_CardinalityType DEF Earning, Storing
  <2>3. \A r \in Receipts : served[r] \in Nat /\ credits[r] \in Nat /\ debits[r] \in Nat
    BY DEF BInv, TypeOK
  <2>4. exits' # 0
    BY <1>3, BoundsAssumption DEF Restart, BInv, TypeOK
  <2>5. \A r \in Receipts : Cardinality(Earning(r)') = 0 /\ Cardinality(Storing(r)') = 0
    BY <2>1, FS_EmptySet
  <2>6. QED
    BY <1>3, <2>2, <2>3, <2>4, <2>5 DEF Restart, BInv, Backed, Remembered
<1>4. ASSUME NEW r \in Receipts, Expire(r) PROVE (Backed /\ Remembered)'
  <2>1. expiries' # 0
    BY <1>4, BoundsAssumption DEF Expire, BInv, TypeOK
  <2>2. QED
    BY <1>4, <2>1 DEF Expire, BInv, Backed, Remembered, Earning, Storing, ledger
<1>5. CASE UNCHANGED vars
  BY <1>5 DEF vars, ledger, BInv, Backed, Remembered, Paying, Earning, Storing
<1>6. QED
  BY <1>1, <1>2, <1>3, <1>4, <1>5 DEF Next

\* However settlements overlap, are replayed and are cut short by restarts, no
\* seeder is credited more often than the consumer of the same receipt was
\* debited, and no receipt counts as served that was not credited.
THEOREM CreditsAreBacked == Spec => []CreditBacked
<1>1. BInv => CreditBacked
  <2> SUFFICES ASSUME BInv, NEW r \in Receipts
               PROVE  /\ served[r] <= credits[r]
                      /\ credits[r] + Cardinality(Earning(r)) <= debits[r]
    BY DEF CreditBacked
  <2>1. Cardinality(Storing(r)) \in Nat
    BY PeersAssumption, FS_Subset, FS_CardinalityType DEF Storing
  <2>2. QED
    BY <2>1 DEF BInv, TypeOK, Backed
<1>2. QED
  BY <1>1, InitBInv, NextBInv, PTL DEF Spec

\* While the tracker is up and remembers the ids, a receipt is debited at most
\* once, whoever submits it and how often.
THEOREM SettlesOnce == Spec => []SettledOnce
<1>1. BInv => SettledOnce
  <2>1. \A r \in Receipts : Cardinality(Paying(r)) \in Nat
    BY PeersAssumption, FS_Subset, FS_CardinalityType DEF Paying
  <2>2. QED
    BY <2>1 DEF BInv, TypeOK, Remembered, SettledOnce
<1>2. QED
  BY <1>1, InitBInv, NextBInv, PTL DEF Spec

-----------------------------------------------------------------------------
(* The books of an account.                                                *)

\* What the receipts of S amount to, times over.
Amounts(S, times) == [r \in S |-> cost[r] * times[r]]

LEMMA TotalAdds ==
  ASSUME NEW S \in SUBSET Receipts, NEW times \in [Receipts -> Nat]
  PROVE  /\ IsFiniteSet(S) /\ Amounts(S, times) \in [S -> Int]
         /\ \E g : Adds(g, Amounts(S, times), S) /\ Total(S, times) = g[S]
<1>1. IsFiniteSet(S) /\ Amounts(S, times) \in [S -> Int]
  BY ReceiptsAssumption, FS_Subset DEF Amounts
<1>2. Total(S, times) = SumFunction(Amounts(S, times))
  BY DEF Total, Amounts
<1>3. QED
  BY <1>1, <1>2, SumAdds

\* What never happened amounts to nothing.
LEMMA NoTotal ==
  ASSUME NEW S \in SUBSET Receipts, NEW times \in [Receipts -> Nat], \A r \in S : times[r] = 0
  PROVE  Total(S, times) = 0
<1> DEFINE zero == [r \in S |-> 0]
           none == [A \in SUBSET S |-> 0]
<1>1. PICK g : Adds(g, Amounts(S, times), S) /\ Total(S, times) = g[S]
  BY TotalAdds
<1>2. Adds(none, zero, S)
  <2>1. ASSUME NEW A \in SUBSET S PROVE Step(none, zero, A) = 0
    <3>1. CASE A = {}
      BY <3>1 DEF Step
    <3>2. CASE A # {}
      <4>1. First(A) \in S /\ Rest(A) \in SUBSET S
        BY <3>2, TotalAdds, Fewer
      <4>2. zero[First(A)] = 0 /\ none[Rest(A)] = 0
        BY <4>1
      <4> HIDE DEF zero, none
      <4>3. QED
        BY <3>2, <4>2 DEF Step
    <3>3. QED
      BY <3>1, <3>2
  <2>2. QED
    BY <2>1 DEF Adds
<1>3. Amounts(S, times) = zero
  BY ReceiptsAssumption DEF Amounts
<1>4. /\ IsFiniteSet(S) /\ zero \in [S -> Int]
      /\ \A x \in S : Amounts(S, times)[x] = zero[x] + 0
  BY <1>3, TotalAdds
<1>5. none[S] = 0
  OBVIOUS
<1> HIDE DEF zero, none
<1>6. \A x \in S : Amounts(S, times)[x] = zero[x] + (IF x = 0 THEN 0 ELSE 0)
  BY <1>4
<1>7. g[S] = none[S] + (IF 0 \in S THEN 0 ELSE 0)
  BY <1>1, <1>2, <1>4, <1>6, TotalAdds, SumsDiffer
<1>8. QED
  BY <1>1, <1>5, <1>7

\* One more of q adds its cost to what counts q.
LEMMA OneMore ==
  ASSUME NEW S \in SUBSET Receipts, NEW times \in [Receipts -> Nat], NEW q \in Receipts
  PROVE  /\ Total(S, times) \in Int
         /\ Total(S, [times EXCEPT ![q] = @ + 1])
              = Total(S, times) + (IF q \in S THEN cost[q] ELSE 0)
<1> DEFINE more == [times EXCEPT ![q] = @ + 1]
<1>1. PICK g : Adds(g, Amounts(S, times), S) /\ Total(S, times) = g[S]
  BY TotalAdds
<1>2. more \in [Receipts -> Nat]
  OBVIOUS
<1>3. PICK h : Adds(h, Amounts(S, more), S) /\ Total(S, more) = h[S]
  BY <1>2, TotalAdds
<1>4. ASSUME NEW x \in S
      PROVE  Amounts(S, more)[x] = Amounts(S, times)[x] + (IF x = q THEN cost[q] ELSE 0)
  <2>1. cost[x] \in Nat /\ times[x] \in Nat
    BY ReceiptsAssumption
  <2>2. cost[x] * (times[x] + 1) = cost[x] * times[x] + cost[x]
    BY <2>1
  <2>3. CASE x = q
    BY <2>1, <2>2, <2>3 DEF Amounts
  <2>4. CASE x # q
    <3>1. more[x] = times[x]
      BY <2>4
    <3>2. QED
      BY <2>1, <2>4, <3>1 DEF Amounts
  <2>5. QED
    BY <2>3, <2>4
<1> HIDE DEF more
<1>5. h[S] = g[S] + (IF q \in S THEN cost[q] ELSE 0)
  <2>1. cost[q] \in Int /\ IsFiniteSet(S)
        /\ Amounts(S, times) \in [S -> Int] /\ Amounts(S, more) \in [S -> Int]
    BY <1>2, TotalAdds, ReceiptsAssumption
  <2>2. QED
    BY <1>1, <1>3, <1>4, <2>1, SumsDiffer
<1>6. g[S] \in Int
  BY <1>1, TotalAdds, SumInt
<1>7. QED
  BY <1>1, <1>3, <1>5, <1>6 DEF more

\* An account is worked on by one settlement, or is contended.
Alone ==
    \A s, u \in Settlers : s # u /\ ~At(s, "idle") /\ ~At(u, "idle")
                           => Naming(settler[s].rec) \cap Naming(settler[u].rec) \subseteq contended

\* Accounts are open before a settlement moves credits between them.
Opened ==
    /\ \A s \in Settlers :
          /\ settler[s].pc \notin {"idle", "seeder", "openSeeder"} => Payee(s) \in accounts
          /\ settler[s].pc \notin {"idle", "seeder", "openSeeder", "consumer", "openConsumer"}
             => Payer(s) \in accounts
    /\ \A r \in Receipts : debits[r] > 0 \/ credits[r] > 0 => Naming(r) \subseteq accounts

\* What a settlement has read of an account that only it works on is what the account holds.
ReadsFresh ==
    \A s \in Settlers :
        /\ At(s, "debited") /\ Payer(s) \notin contended => settler[s].read = balance[Payer(s)]
        /\ At(s, "credited") /\ Payee(s) \notin contended => settler[s].read = balance[Payee(s)]

AInv == TypeOK /\ Alone /\ Opened

LEMMA InitAInv == Init => AInv
<1> SUFFICES ASSUME Init PROVE AInv
  OBVIOUS
<1>1. \A s \in Settlers : settler[s].pc = "idle"
  BY DEF Init, Idle
<1>2. Alone
  BY <1>1 DEF Alone, At
<1>3. \A r \in Receipts : debits[r] > 0 \/ credits[r] > 0 => Naming(r) \subseteq accounts
  BY DEF Init
<1>4. Opened
  BY <1>1, <1>3, Zenon DEF Opened
<1>5. QED
  BY <1>2, <1>4, InitTypeOK DEF AInv

LEMMA NextAInv == AInv /\ [Next]_vars => AInv'
<1> SUFFICES ASSUME AInv, [Next]_vars PROVE (Alone /\ Opened)'
  BY NextTypeOK DEF AInv
<1> USE DEF AInv, At, Goto, Leave, ledger, SettleUnchanged, Payer, Payee
<1> Idle.pc = "idle"
  BY DEF Idle
<1> /\ settler \in [Settlers -> Records]
    /\ debits \in [Receipts -> Nat] /\ credits \in [Receipts -> Nat]
    /\ \A s \in Settlers : settler[s].rec \in Receipts
  BY Parties DEF TypeOK
<1>1. ASSUME NEW s \in Settlers, NEW r \in Receipts, Submit(s, r)
      PROVE  (Alone /\ Opened)'
  <2>1. Opened'
    BY <1>1 DEF Submit, Records, Opened
  <2>2. Alone'
    BY <1>1 DEF Submit, Records, Alone
  <2>3. QED
    BY <2>1, <2>2
\* A settlement goes on with its receipt or leaves.
<1>2. ASSUME NEW s \in Settlers, Settle(s) PROVE Alone'
  <2>1. UNCHANGED contended
    BY <1>2 DEF Settle, Ensure, Open, Funds, Replay, DebitRead, DebitWrite, CreditRead,
                CreditWrite, Store
  <2>2. \A u \in Settlers \ {s} : settler'[u] = settler[u]
    BY <1>2, OthersStay
  <2>3. settler[s].pc # "idle" /\ (settler'[s].pc = "idle" \/ settler'[s].rec = settler[s].rec)
    <3> USE DEF Records
    <3>1. ASSUME NEW from \in {"seeder", "consumer"}, NEW p, NEW open, NEW next,
                 Ensure(s, from, p, open, next)
          PROVE  <2>3!:
      BY <3>1 DEF Ensure
    <3>2. ASSUME NEW from \in {"openSeeder", "openConsumer"}, NEW p, NEW next,
                 Open(s, from, p, next)
          PROVE  <2>3!:
      BY <3>2 DEF Open
    <3>3. CASE Funds(s) \/ Replay(s) \/ DebitRead(s) \/ DebitWrite(s)
      BY <3>3 DEF Funds, Replay, DebitRead, DebitWrite
    <3>4. CASE CreditRead(s) \/ CreditWrite(s) \/ Store(s)
      BY <3>4 DEF CreditRead, CreditWrite, Store
    <3>5. QED
      BY <1>2, <3>1, <3>2, <3>3, <3>4 DEF Settle
  <2>4. QED
    BY <2>1, <2>2, <2>3 DEF Alone
<1>3. ASSUME NEW s \in Settlers, Settle(s) PROVE Opened'
  <2> USE DEF Opened, Records
  <2>1. CASE Ensure(s, "seeder", Payee(s), "openSeeder", "consumer")
    BY <2>1 DEF Ensure
  <2>2. CASE Open(s, "openSeeder", Payee(s), "consumer")
    BY <2>2 DEF Open
  <2>3. CASE Ensure(s, "consumer", Payer(s), "openConsumer", "funds")
    BY <2>3 DEF Ensure
  <2>4. CASE Open(s, "openConsumer", Payer(s), "funds")
    BY <2>4 DEF Open
  <2>5. CASE Funds(s)
    BY <2>5 DEF Funds
  <2>6. CASE Replay(s)
    BY <2>6 DEF Replay
  <2>7. CASE DebitRead(s)
    BY <2>7 DEF DebitRead
  <2>8. CASE DebitWrite(s)
    BY <2>8 DEF DebitWrite, Naming
  <2>9. CASE CreditRead(s)
    BY <2>9 DEF CreditRead
  <2>10. CASE CreditWrite(s)
    BY <2>10 DEF CreditWrite, Naming
  <2>11. CASE Store(s)
    BY <2>11 DEF Store
  <2>12. QED
    BY <1>3, <2>1, <2>2, <2>3, <2>4, <2>5, <2>6, <2>7, <2>8, <2>9, <2>10, <2>11 DEF Settle
<1>4. CASE Minute
  BY <1>4 DEF Minute, Alone, Opened
<1>5. CASE Restart
  BY <1>5 DEF Restart, Alone, Opened
<1>6. ASSUME NEW r \in Receipts, Expire(r) PROVE (Alone /\ Opened)'
  BY <1>6 DEF Expire, Alone, Opened
<1>7. CASE UNCHANGED vars
  BY <1>7 DEF vars, Alone, Opened
<1>8. QED
  BY <1>1, <1>2, <1>3, <1>4, <1>5, <1>6, <1>7 DEF Next

\* The accounts whose books balance: those that are open, and that settlements work on in turn.
Uncontended == accounts \ (contended \cup {Tracker})

BooksInv == AInv /\ ReadsFresh /\ BooksBalance

LEMMA InitBooksInv == Init => BooksInv
BY InitAInv DEF Init, BooksInv, ReadsFresh, BooksBalance, Idle, At

\* An account that nothing has been written to holds what it is opened with.
LEMMA NewBalanced ==
  ASSUME AInv, NEW p \in Peers, p \notin accounts
  PROVE  /\ Total({r \in Receipts : seeder[r] = p}, credits) = 0
         /\ Total({r \in Receipts : consumer[r] = p}, debits) = 0
<1> USE DEF AInv, TypeOK
<1>1. \A r \in Receipts : p \in Naming(r) => debits[r] = 0 /\ credits[r] = 0
  <2>1. \A r \in Receipts : debits[r] > 0 \/ credits[r] > 0 => Naming(r) \subseteq accounts
    BY DEF Opened
  <2>2. \A r \in Receipts : debits[r] \in Nat /\ credits[r] \in Nat
    OBVIOUS
  <2>3. QED
    BY <2>1, <2>2
<1>2. /\ \A r \in {r \in Receipts : seeder[r] = p} : credits[r] = 0
      /\ \A r \in {r \in Receipts : consumer[r] = p} : debits[r] = 0
  BY <1>1 DEF Naming
<1>3. QED
  BY <1>2, NoTotal

\* A step that writes neither the ledger nor what a settlement has read.
LEMMA BooksStay ==
  ASSUME BooksInv, UNCHANGED <<accounts, balance, debits, credits>>, contended \subseteq contended'
  PROVE  BooksBalance'
BY DEF BooksInv, BooksBalance, Balanced

\* A settlement's debit or credit is entered in the one account it writes.
LEMMA Entered ==
  ASSUME BooksInv, NEW s \in Settlers, NEW q, q = settler[s].rec, UNCHANGED <<accounts, contended>>,
         \/ /\ At(s, "debited")
            /\ balance' = [balance EXCEPT ![Payer(s)] = settler[s].read - Cost(s)]
            /\ debits' = [debits EXCEPT ![q] = @ + 1] /\ UNCHANGED credits
         \/ /\ At(s, "credited")
            /\ balance' = [balance EXCEPT ![Payee(s)] = settler[s].read + Cost(s)]
            /\ credits' = [credits EXCEPT ![q] = @ + 1] /\ UNCHANGED debits
  PROVE  BooksBalance'
<1> SUFFICES ASSUME NEW p \in Uncontended PROVE Balanced(p)'
  BY DEF BooksBalance, Uncontended
<1> DEFINE earned == {r \in Receipts : seeder[r] = p}
           spent  == {r \in Receipts : consumer[r] = p}
<1>1. /\ p \in Peers /\ p \notin contended /\ balance \in [Peers -> Int]
      /\ q \in Receipts /\ settler[s].read \in Int /\ Cost(s) = cost[q] /\ cost[q] \in Nat
      /\ Payer(s) = consumer[q] /\ Payee(s) = seeder[q]
      /\ credits \in [Receipts -> Nat] /\ debits \in [Receipts -> Nat]
      /\ SeedBalance \in Nat
  BY Parties, ReceiptsAssumption, AmountsAssumption
     DEF BooksInv, AInv, TypeOK, Payer, Payee, Cost, Uncontended
<1>2. balance[p] = SeedBalance + Total(earned, credits) - Total(spent, debits)
  BY DEF BooksInv, BooksBalance, Uncontended, Balanced
<1>3. Total(earned, credits) \in Int /\ Total(spent, debits) \in Int
  BY <1>1, OneMore
<1>4. CASE At(s, "debited") /\ balance' = [balance EXCEPT ![Payer(s)] = settler[s].read - Cost(s)]
           /\ debits' = [debits EXCEPT ![q] = @ + 1] /\ UNCHANGED credits
  <2>1. Total(spent, debits') = Total(spent, debits) + (IF q \in spent THEN cost[q] ELSE 0)
    <3>1. spent \in SUBSET Receipts /\ debits \in [Receipts -> Nat] /\ q \in Receipts
      BY <1>1
    <3> HIDE DEF spent
    <3>2. Total(spent, [debits EXCEPT ![q] = @ + 1])
             = Total(spent, debits) + (IF q \in spent THEN cost[q] ELSE 0)
      BY <3>1, OneMore
    <3>3. QED
      BY <1>4, <3>2
  <2>2. q \in spent <=> Payer(s) = p
    BY <1>1
  <2>3. Payer(s) = p => settler[s].read = balance[p]
    BY <1>1, <1>4 DEF BooksInv, ReadsFresh
  <2>4. balance'[p] = balance[p] - (IF q \in spent THEN cost[q] ELSE 0)
    BY <1>1, <1>4, <2>2, <2>3
  <2>5. balance'[p] = SeedBalance + Total(earned, credits') - Total(spent, debits')
    <3> HIDE DEF earned, spent
    <3>1. QED
      BY <1>1, <1>2, <1>3, <1>4, <2>1, <2>4
  <2>6. QED
    BY <2>5 DEF Balanced
<1>5. CASE At(s, "credited") /\ balance' = [balance EXCEPT ![Payee(s)] = settler[s].read + Cost(s)]
           /\ credits' = [credits EXCEPT ![q] = @ + 1] /\ UNCHANGED debits
  <2>1. Total(earned, credits') = Total(earned, credits) + (IF q \in earned THEN cost[q] ELSE 0)
    <3>1. earned \in SUBSET Receipts /\ credits \in [Receipts -> Nat] /\ q \in Receipts
      BY <1>1
    <3> HIDE DEF earned
    <3>2. Total(earned, [credits EXCEPT ![q] = @ + 1])
             = Total(earned, credits) + (IF q \in earned THEN cost[q] ELSE 0)
      BY <3>1, OneMore
    <3>3. QED
      BY <1>5, <3>2
  <2>2. q \in earned <=> Payee(s) = p
    BY <1>1
  <2>3. Payee(s) = p => settler[s].read = balance[p]
    BY <1>1, <1>5 DEF BooksInv, ReadsFresh
  <2>4. balance'[p] = balance[p] + (IF q \in earned THEN cost[q] ELSE 0)
    BY <1>1, <1>5, <2>2, <2>3
  <2>5. balance'[p] = SeedBalance + Total(earned, credits') - Total(spent, debits')
    <3> HIDE DEF earned, spent
    <3>1. QED
      BY <1>1, <1>2, <1>3, <1>5, <2>1, <2>4
  <2>6. QED
    BY <2>5 DEF Balanced
<1>6. QED
  BY <1>4, <1>5

\* What other settlements have read stays what the account holds: one that writes to it makes it
\* contended.
LEMMA OthersFresh ==
  ASSUME BooksInv, NEW s \in Settlers, ~At(s, "idle"), NEW u \in Settlers \ {s},
         NEW p, p \in Naming(settler[s].rec), NEW b,
         balance' = [balance EXCEPT ![p] = b], settler'[u] = settler[u], UNCHANGED contended
  PROVE  /\ At(u, "debited") /\ Payer(u) \notin contended => settler[u].read = balance'[Payer(u)]
         /\ At(u, "credited") /\ Payee(u) \notin contended => settler[u].read = balance'[Payee(u)]
<1>1. ~At(u, "idle") => Naming(settler[s].rec) \cap Naming(settler[u].rec) \subseteq contended
  BY DEF BooksInv, AInv, Alone
<1>2. Payer(u) \in Naming(settler[u].rec) /\ Payee(u) \in Naming(settler[u].rec)
  BY DEF Naming, Payer, Payee
<1>3. \A k \in Peers : k # p => balance'[k] = balance[k]
  BY DEF BooksInv, AInv, TypeOK
<1>4. Payer(u) \in Peers /\ Payee(u) \in Peers
  BY Parties DEF BooksInv, AInv
<1>5. At(u, "debited") \/ At(u, "credited") => ~At(u, "idle")
  BY DEF At
<1>6. QED
  BY <1>1, <1>2, <1>3, <1>4, <1>5 DEF BooksInv, ReadsFresh

\* A settlement's step, for what it and the others have read, and for the books.
LEMMA SettleBooks ==
  ASSUME BooksInv, NEW s \in Settlers, Settle(s)
  PROVE  (ReadsFresh /\ BooksBalance)'
<1> USE DEF At, Goto, Leave, ledger, SettleUnchanged, Records
<1>0. /\ TypeOK /\ settler \in [Settlers -> Records] /\ balance \in [Peers -> Int]
      /\ settler[s].rec \in Receipts /\ Idle.pc = "idle"
      /\ Payer(s) \in Peers /\ Payee(s) \in Peers /\ Cost(s) \in Int /\ settler[s].read \in Int
      /\ Payer(s) \in Naming(settler[s].rec) /\ Payee(s) \in Naming(settler[s].rec)
      /\ SeedBalance = SeedBalance + 0 - 0
  BY Parties, AmountsAssumption DEF BooksInv, AInv, TypeOK, Idle, Naming, Payer, Payee
<1>1. \A u \in Settlers \ {s} : settler'[u] = settler[u]
  BY <1>0, OthersStay
<1> DEFINE Fresh(u) == /\ settler'[u].pc = "debited" /\ Payer(u)' \notin contended'
                            => settler'[u].read = balance'[Payer(u)']
                       /\ settler'[u].pc = "credited" /\ Payee(u)' \notin contended'
                            => settler'[u].read = balance'[Payee(u)']
<1>2. SUFFICES Fresh(s) /\ (\A u \in Settlers \ {s} : Fresh(u)) /\ BooksBalance'
  BY DEF ReadsFresh, Payer, Payee
<1>3. UNCHANGED contended
  BY <1>0 DEF Settle, Ensure, Open, Funds, Replay, DebitRead, DebitWrite, CreditRead,
              CreditWrite, Store
\* What leaves the balances as they are leaves the others' reads fresh.
<1>4. ASSUME UNCHANGED balance PROVE \A u \in Settlers \ {s} : Fresh(u)
  BY <1>1, <1>3, <1>4 DEF BooksInv, ReadsFresh, Payer, Payee
<1>5. ASSUME NEW p, p \in Naming(settler[s].rec), NEW b, ~At(s, "idle"),
             balance' = [balance EXCEPT ![p] = b]
      PROVE  \A u \in Settlers \ {s} : Fresh(u)
  <2> SUFFICES ASSUME NEW u \in Settlers \ {s} PROVE Fresh(u)
    OBVIOUS
  <2>1. /\ At(u, "debited") /\ Payer(u) \notin contended => settler[u].read = balance'[Payer(u)]
        /\ At(u, "credited") /\ Payee(u) \notin contended => settler[u].read = balance'[Payee(u)]
    BY <1>1, <1>3, <1>5, OthersFresh
  <2>2. QED
    BY <1>1, <1>3, <2>1 DEF Payer, Payee
\* Steps that move no credits.
<1>6. ASSUME UNCHANGED <<accounts, balance, debits, credits>>,
             settler'[s].pc \notin {"debited", "credited"}
      PROVE  Fresh(s) /\ (\A u \in Settlers \ {s} : Fresh(u)) /\ BooksBalance'
  BY <1>3, <1>4, <1>6, BooksStay
<1>7. ASSUME NEW from, NEW p, NEW open \in {"openSeeder", "openConsumer"},
             NEW next \in {"consumer", "funds"}, Ensure(s, from, p, open, next)
      PROVE  Fresh(s) /\ (\A u \in Settlers \ {s} : Fresh(u)) /\ BooksBalance'
  <2>1. settler'[s].pc \in {open, next}
    BY <1>0, <1>7 DEF Ensure
  <2>2. UNCHANGED <<accounts, balance, debits, credits>>
    BY <1>7 DEF Ensure
  <2>3. settler'[s].pc \notin {"debited", "credited"}
    BY <2>1
  <2>4. QED
    BY <1>6, <2>2, <2>3
\* An account that is opened balances, and nothing under way has read it.
<1>8. ASSUME NEW from \in {"openSeeder", "openConsumer"}, NEW next \in {"consumer", "funds"},
             NEW p, p \in Naming(settler[s].rec), p \in Peers, Open(s, from, p, next)
      PROVE  Fresh(s) /\ (\A u \in Settlers \ {s} : Fresh(u)) /\ BooksBalance'
  <2>1. settler'[s].pc \in {"idle", next}
    BY <1>0, <1>8 DEF Open
  <2>2. settler'[s].pc \notin {"debited", "credited"}
    BY <2>1
  <2>3. CASE p \in accounts
    <3>1. UNCHANGED <<accounts, balance, debits, credits>>
      BY <1>8, <2>3 DEF Open
    <3>2. QED
      BY <1>6, <2>2, <3>1
  <2>4. CASE p \notin accounts
    <3>1. /\ balance' = [balance EXCEPT ![p] = SeedBalance]
          /\ accounts' = accounts \cup {p} /\ UNCHANGED <<debits, credits>>
      BY <1>8, <2>4 DEF Open
    <3>2. ~At(s, "idle")
      BY <1>8 DEF Open
    <3>3. \A u \in Settlers \ {s} : Fresh(u)
      BY <1>5, <1>8, <3>1, <3>2
    <3>4. ASSUME NEW k \in accounts' \ (contended' \cup {Tracker}) PROVE Balanced(k)'
      <4>1. CASE k = p
        <5>1. /\ Total({r \in Receipts : seeder[r] = p}, credits) = 0
              /\ Total({r \in Receipts : consumer[r] = p}, debits) = 0
          BY <1>8, <2>4, NewBalanced DEF BooksInv
        <5>2. balance'[p] = SeedBalance
          BY <1>0, <1>8, <3>1
        <5>3. QED
          BY <1>0, <3>1, <4>1, <5>1, <5>2 DEF Balanced
      <4>2. CASE k # p
        <5>1. balance'[k] = balance[k] /\ Balanced(k)
          BY <1>0, <1>3, <3>1, <3>4, <4>2 DEF BooksInv, BooksBalance, AInv, TypeOK
        <5>2. QED
          BY <3>1, <5>1 DEF Balanced
      <4>3. QED
        BY <4>1, <4>2
    <3>5. QED
      BY <2>2, <3>3, <3>4 DEF BooksBalance
  <2>5. QED
    BY <2>3, <2>4
<1>9. CASE Funds(s)
  BY <1>0, <1>6, <1>9 DEF Funds
<1>10. CASE Replay(s)
  BY <1>0, <1>6, <1>10 DEF Replay
<1>11. CASE DebitRead(s)
  <2>1. UNCHANGED <<accounts, balance, debits, credits, contended>>
    BY <1>11 DEF DebitRead
  <2>2. Fresh(s)
    BY <1>0, <1>11, <2>1 DEF DebitRead, Payer
  <2>3. QED
    BY <1>4, <2>1, <2>2, BooksStay
<1>12. CASE CreditRead(s)
  <2>1. UNCHANGED <<accounts, balance, debits, credits, contended>>
    BY <1>12 DEF CreditRead
  <2>2. Fresh(s)
    BY <1>0, <1>12, <2>1 DEF CreditRead, Payee
  <2>3. QED
    BY <1>4, <2>1, <2>2, BooksStay
<1>13. CASE DebitWrite(s)
  <2>1. settler'[s].pc = "credit" /\ ~At(s, "idle")
    BY <1>0, <1>13 DEF DebitWrite
  <2>2. \A u \in Settlers \ {s} : Fresh(u)
    BY <1>0, <1>5, <1>13, <2>1 DEF DebitWrite
  <2>3. BooksBalance'
    BY <1>3, <1>13, Entered DEF DebitWrite
  <2>4. QED
    BY <2>1, <2>2, <2>3
<1>14. CASE CreditWrite(s)
  <2>1. settler'[s].pc = "store" /\ ~At(s, "idle")
    BY <1>0, <1>14 DEF CreditWrite
  <2>2. \A u \in Settlers \ {s} : Fresh(u)
    BY <1>0, <1>5, <1>14, <2>1 DEF CreditWrite
  <2>3. BooksBalance'
    BY <1>3, <1>14, Entered DEF CreditWrite, NewBalance
  <2>4. QED
    BY <2>1, <2>2, <2>3
<1>15. CASE Store(s)
  BY <1>0, <1>6, <1>15 DEF Store
<1>16. QED
  BY <1>0, <1>7, <1>8, <1>9, <1>10, <1>11, <1>12, <1>13, <1>14, <1>15 DEF Settle

LEMMA NextBooksInv == BooksInv /\ [Next]_vars => BooksInv'
<1> SUFFICES ASSUME BooksInv, [Next]_vars PROVE (ReadsFresh /\ BooksBalance)'
  BY NextAInv DEF BooksInv
<1>1. ASSUME NEW s \in Settlers, NEW r \in Receipts, Submit(s, r)
      PROVE  (ReadsFresh /\ BooksBalance)'
  <2>1. UNCHANGED <<accounts, balance, debits, credits>> /\ contended \subseteq contended'
    BY <1>1 DEF Submit, ledger
  <2>2. settler' = [settler EXCEPT ![s] = [pc |-> "seeder", rec |-> r, read |-> 0]]
        /\ settler \in [Settlers -> Records]
    BY <1>1, Parties DEF Submit, BooksInv, AInv
  <2>3. \A u \in Settlers : settler'[u].pc \in {"debited", "credited"} => settler'[u] = settler[u]
    BY <2>2
  <2>4. ReadsFresh'
    BY <2>1, <2>3 DEF BooksInv, ReadsFresh, At, Payer, Payee
  <2>5. QED
    BY <2>1, <2>4, BooksStay
<1>2. ASSUME NEW s \in Settlers, Settle(s) PROVE (ReadsFresh /\ BooksBalance)'
  BY <1>2, SettleBooks
<1>3. CASE Minute
  <2>1. UNCHANGED <<accounts, balance, debits, credits, settler, contended>>
    BY <1>3 DEF Minute, ledger
  <2>2. QED
    BY <2>1, BooksStay DEF BooksInv, ReadsFresh, At, Payer, Payee
\* Only the tracker's account is filled up, and nobody has read anything.
<1>4. CASE Restart
  <2>1. \A s \in Settlers : settler'[s].pc = "idle"
    BY <1>4 DEF Restart, Idle
  <2>2. \A p \in Peers \ {Tracker} : balance'[p] = balance[p]
    BY <1>4 DEF Restart, Granted, BooksInv, AInv, TypeOK
  <2>3. UNCHANGED <<accounts, debits, credits, contended>>
    BY <1>4 DEF Restart
  <2>4. ReadsFresh'
    BY <2>1 DEF ReadsFresh, At
  <2>5. BooksBalance'
    BY <2>2, <2>3 DEF BooksInv, BooksBalance, Balanced, AInv, TypeOK
  <2>6. QED
    BY <2>4, <2>5
<1>5. ASSUME NEW r \in Receipts, Expire(r) PROVE (ReadsFresh /\ BooksBalance)'
  <2>1. UNCHANGED <<accounts, balance, debits, credits, settler, contended>>
    BY <1>5 DEF Expire, ledger
  <2>2. QED
    BY <2>1, BooksStay DEF BooksInv, ReadsFresh, At, Payer, Payee
<1>6. CASE UNCHANGED vars
  <2>1. UNCHANGED <<accounts, balance, debits, credits, settler, contended>>
    BY <1>6 DEF vars, ledger
  <2>2. QED
    BY <2>1, BooksStay DEF BooksInv, ReadsFresh, At, Payer, Payee
<1>7. QED
  BY <1>1, <1>2, <1>3, <1>4, <1>5, <1>6 DEF Next

\* Through every replay, interleaving and restart, an account that settlements
\* worked on one at a time holds what it was opened with, what it earned and
\* not what it spent.
THEOREM BooksAreBalanced == Spec => []BooksBalance
<1>1. BooksInv => BooksBalance
  BY DEF BooksInv
<1>2. QED
  BY <1>1, InitBooksInv, NextBooksInv, PTL DEF Spec

-----------------------------------------------------------------------------
(* Training: the invariant.                                                *)

\* TrTypeOK, but for the results.
Shape ==
    /\ round \in [Rounds -> {"new", "asking", "publishing", "done", "failed"}]
    /\ ask \in [Rounds -> [Participants -> {"no", "sent", "training", "replied", "over"}]]
    /\ reply \in [Rounds -> [Participants -> Updates \cup {Useless, None}]]
    /\ heard \in [Rounds -> [Participants -> Updates \cup {Waiting, Failed}]]
    /\ DOMAIN result = Rounds
    /\ notice \in [Rounds -> [Participants -> {"no", "sent", "over"}]]
    /\ held \in [Participants -> Rounds \cup {None}]
    /\ active \in [Participants -> BOOLEAN]

\* An aggregate has been made of the round.
Averages(r) == round[r] \in {"publishing", "done"}

\* An answer on its way, and an update heard, is of the round that asked for it.
Sealed(r, p) ==
    /\ ask[r][p] = "replied" => reply[r][p] # None
    /\ reply[r][p] \in Updates => reply[r][p].round = r
    /\ heard[r][p] \in Updates => heard[r][p].round = r

\* A result is of a quorum, each of whom has been heard with samples.
OfQuorum(r) ==
    Averages(r) => /\ result[r].from \subseteq Participants
                   /\ Cardinality(result[r].from) >= MinParticipants
                   /\ \A q \in result[r].from : heard[r][q] \in Updates /\ heard[r][q].samples > 0

\* A result has weighed something, and is within the bound.
Results == [from : SUBSET Participants, sum : Int, total : Nat]
Weighed(r) ==
    Averages(r) => /\ result[r].total > 0
                   /\ MaxNorm > 0 => /\ result[r].sum <= MaxNorm * result[r].total
                                     /\ -result[r].sum <= MaxNorm * result[r].total

\* Nothing is announced or adopted before there is a result.
AfterResult(p) ==
    /\ \A r \in Rounds : notice[r][p] # "no" => Averages(r)
    /\ held[p] # None => Averages(held[p])

IInv ==
    /\ Shape /\ result \in [Rounds -> Results]
    /\ \A r \in Rounds : OfQuorum(r) /\ Weighed(r) /\ \A p \in Participants : Sealed(r, p)
    /\ \A p \in Participants : AfterResult(p)

-----------------------------------------------------------------------------
(* Training: its steps.                                                    *)

\* What an answer is taken for is an update of the same round, or a failure.
LEMMA CheckedKnown ==
    ASSUME NEW u \in Updates \cup {Useless}
    PROVE  /\ Checked(u) \in Updates \cup {Waiting, Failed}
           /\ Checked(u) \in Updates => Checked(u) = u
  BY NoUpdateAssumption DEF Checked

\* The steps of one round, and of one participant in it.
OfRound(r) == Announce(r) \/ Aggregate(r) \/ Published(r)
OfPeer(r, p) == \/ Hear(r, p) \/ TimeOut(r, p) \/ Publish(r, p)
                \/ Refuse(r, p) \/ Train(r, p) \/ Trained(r, p) \/ Adopt(r, p) \/ Lose(r, p)

\* An announcement changes what was sent of one round, an end of the wait what was heard.
LEMMA ShapeStep == ASSUME IInv, [TrNext]_trVars PROVE Shape'
<1>0. Shape
  BY DEF IInv
<1>1. ASSUME NEW r \in Rounds, Announce(r) PROVE Shape'
  BY <1>0, <1>1 DEF Shape, Announce
<1>2. ASSUME NEW r \in Rounds, Aggregate(r) PROVE Shape'
  BY <1>0, <1>2 DEF Shape, Aggregate
<1>3. ASSUME NEW r \in Rounds, Published(r) PROVE Shape'
  BY <1>0, <1>3 DEF Shape, Published
<1>4. ASSUME NEW r \in Rounds, NEW p \in Participants, Hear(r, p) PROVE Shape'
  <2>1. reply[r][p] \in Updates \cup {Useless}
    BY <1>0, <1>4 DEF Shape, Hear, IInv, Sealed
  <2>2. Checked(reply[r][p]) \in Updates \cup {Waiting, Failed}
    BY <2>1, CheckedKnown
  <2>3. heard' \in [Rounds -> [Participants -> Updates \cup {Waiting, Failed}]]
    <3>1. CASE UNCHANGED heard
      BY <1>0, <3>1 DEF Shape
    <3>2. CASE \E q \in Rounds : heard' = [heard EXCEPT ![q][p] = Checked(reply[r][p])]
      BY <1>0, <2>2, <3>2 DEF Shape
    <3>3. QED
      BY <1>4, <3>1, <3>2 DEF Hear
  <2>4. QED
    BY <1>0, <1>4, <2>3 DEF Shape, Hear
<1>5. ASSUME NEW r \in Rounds, NEW p \in Participants, TimeOut(r, p) PROVE Shape'
  BY <1>0, <1>5 DEF Shape, TimeOut
<1>6. ASSUME NEW r \in Rounds, NEW p \in Participants, Publish(r, p) PROVE Shape'
  BY <1>0, <1>6 DEF Shape, Publish
<1>7. ASSUME NEW r \in Rounds, NEW p \in Participants, Refuse(r, p) PROVE Shape'
  BY <1>0, <1>7 DEF Shape, Refuse
<1>8. ASSUME NEW r \in Rounds, NEW p \in Participants, Train(r, p) PROVE Shape'
  BY <1>0, <1>8 DEF Shape, Train
<1>9. ASSUME NEW r \in Rounds, NEW p \in Participants, Trained(r, p) PROVE Shape'
  <2>1. PICK u \in [round : {r}, delta : Deltas, samples : Samples] \cup {Useless} :
            reply' = [reply EXCEPT ![r][p] = u]
    BY <1>9 DEF Trained
  <2>2. u \in Updates \cup {Useless}
    BY DEF Updates
  <2>3. reply' \in [Rounds -> [Participants -> Updates \cup {Useless, None}]]
    BY <1>0, <2>1, <2>2 DEF Shape
  <2>4. QED
    BY <1>0, <1>9, <2>3 DEF Shape, Trained
<1>10. ASSUME NEW r \in Rounds, NEW p \in Participants, Adopt(r, p) PROVE Shape'
  BY <1>0, <1>10 DEF Shape, Adopt
<1>11. ASSUME NEW r \in Rounds, NEW p \in Participants, Lose(r, p) PROVE Shape'
  <2>1. CASE /\ ask' = [ask EXCEPT ![r][p] = "over"] /\ reply' = [reply EXCEPT ![r][p] = None]
             /\ UNCHANGED <<round, heard, result, notice, held, active>>
    <3>1. ask' \in [Rounds -> [Participants -> {"no", "sent", "training", "replied", "over"}]]
      BY <1>0, <2>1 DEF Shape
    <3>2. reply' \in [Rounds -> [Participants -> Updates \cup {Useless, None}]]
      BY <1>0, <2>1 DEF Shape
    <3>3. QED
      BY <1>0, <2>1, <3>1, <3>2 DEF Shape
  <2>2. CASE notice' = [notice EXCEPT ![r][p] = "over"] /\ UNCHANGED <<ask, reply>>
    BY <1>0, <1>11, <2>2 DEF Shape, Lose
  <2>3. QED
    BY <1>11, <2>1, <2>2 DEF Lose
<1>12. CASE UNCHANGED trVars
  BY <1>0, <1>12 DEF Shape, trVars
<1>13. QED
  BY <1>1, <1>2, <1>3, <1>4, <1>5, <1>6, <1>7, <1>8, <1>9, <1>10, <1>11, <1>12 DEF TrNext

\* An answer is only ever made for the round that asked, and heard by that round.
LEMMA SealedStep ==
    ASSUME IInv, [TrNext]_trVars, NEW s \in Rounds, NEW q \in Participants
    PROVE  Sealed(s, q)'
<1>0. Shape /\ Sealed(s, q)
  BY DEF IInv
<1>1. ASSUME NEW r \in Rounds, Announce(r) PROVE Sealed(s, q)'
  BY <1>0, <1>1, NoUpdateAssumption DEF Shape, Sealed, Announce
<1>2. ASSUME NEW r \in Rounds, Aggregate(r) \/ Published(r) PROVE Sealed(s, q)'
  BY <1>0, <1>2 DEF Sealed, Aggregate, Published
<1>3. ASSUME NEW r \in Rounds, NEW p \in Participants, Hear(r, p) PROVE Sealed(s, q)'
  <2>1. reply[r][p] \in Updates \cup {Useless} /\ Sealed(r, p)
    BY <1>0, <1>3 DEF Shape, Hear, IInv, Sealed
  <2>2. /\ Checked(reply[r][p]) \in Updates \cup {Waiting, Failed}
        /\ Checked(reply[r][p]) \in Updates => Checked(reply[r][p]).round = r
    BY <2>1, CheckedKnown DEF Sealed
  <2>3. heard'[s][q] \in Updates => heard'[s][q].round = s
    <3>1. CASE UNCHANGED heard
      BY <1>0, <3>1 DEF Sealed
    <3>2. CASE heard' = [heard EXCEPT ![r][p] = Checked(reply[r][p])]
      <4>1. heard'[s][q] = IF s = r /\ q = p THEN Checked(reply[r][p]) ELSE heard[s][q]
        BY <1>0, <3>2 DEF Shape
      <4>2. QED
        BY <1>0, <2>2, <4>1 DEF Sealed
    <3>3. QED
      BY <1>3, <3>1, <3>2 DEF Hear, Answers
  <2>4. QED
    BY <1>0, <1>3, <2>3, NoUpdateAssumption DEF Shape, Sealed, Hear
<1>4. ASSUME NEW r \in Rounds, NEW p \in Participants, TimeOut(r, p) PROVE Sealed(s, q)'
  BY <1>0, <1>4, NoUpdateAssumption DEF Shape, Sealed, TimeOut
<1>5. ASSUME NEW r \in Rounds, NEW p \in Participants, Publish(r, p) \/ Adopt(r, p) PROVE Sealed(s, q)'
  BY <1>0, <1>5 DEF Sealed, Publish, Adopt
<1>6. ASSUME NEW r \in Rounds, NEW p \in Participants, Refuse(r, p) PROVE Sealed(s, q)'
  BY <1>0, <1>6, NoUpdateAssumption DEF Shape, Sealed, Refuse
<1>7. ASSUME NEW r \in Rounds, NEW p \in Participants, Train(r, p) PROVE Sealed(s, q)'
  BY <1>0, <1>7 DEF Shape, Sealed, Train
<1>8. ASSUME NEW r \in Rounds, NEW p \in Participants, Trained(r, p) PROVE Sealed(s, q)'
  <2>1. PICK u \in [round : {r}, delta : Deltas, samples : Samples] \cup {Useless} :
            reply' = [reply EXCEPT ![r][p] = u]
    BY <1>8 DEF Trained
  <2>2. u # None /\ (u \in Updates => u.round = r)
    BY NoUpdateAssumption DEF Updates
  <2>3. QED
    BY <1>0, <1>8, <2>1, <2>2 DEF Shape, Sealed, Trained
<1>9. ASSUME NEW r \in Rounds, NEW p \in Participants, Lose(r, p) PROVE Sealed(s, q)'
  BY <1>0, <1>9, NoUpdateAssumption DEF Shape, Sealed, Lose
<1>10. CASE UNCHANGED trVars
  BY <1>0, <1>10 DEF Sealed, trVars
<1>11. QED
  BY <1>1, <1>2, <1>3, <1>4, <1>5, <1>6, <1>7, <1>8, <1>9, <1>10 DEF TrNext

-----------------------------------------------------------------------------
(* Training: a result stands.                                              *)

\* Once a round has a result, neither the result nor what it was made of changes.
Stands(r) == Averages(r) => Averages(r)' /\ result'[r] = result[r] /\ heard'[r] = heard[r]

LEMMA StandsStep == ASSUME Shape, [TrNext]_trVars, NEW s \in Rounds PROVE Stands(s)
<1>1. ASSUME NEW r \in Rounds, OfRound(r) PROVE Stands(s)
  BY <1>1 DEF Shape, Stands, Averages, OfRound, Announce, Aggregate, Published
<1>2. ASSUME NEW r \in Rounds, NEW p \in Participants, Hear(r, p) PROVE Stands(s)
  BY <1>2 DEF Shape, Stands, Averages, Hear
<1>3. ASSUME NEW r \in Rounds, NEW p \in Participants, TimeOut(r, p) PROVE Stands(s)
  BY <1>3 DEF Shape, Stands, Averages, TimeOut
<1>4. ASSUME NEW r \in Rounds, NEW p \in Participants, OfPeer(r, p), ~Hear(r, p), ~TimeOut(r, p) PROVE Stands(s)
  BY <1>4 DEF Stands, Averages, OfPeer, Publish, Refuse, Train, Trained, Adopt, Lose
<1>5. CASE UNCHANGED trVars
  BY <1>5 DEF Stands, Averages, trVars
<1>6. QED
  BY <1>1, <1>2, <1>3, <1>4, <1>5 DEF TrNext, OfRound, OfPeer

\* A result is made of those that have been heard, when they are a quorum.
LEMMA ResultStep ==
  ASSUME IInv, [TrNext]_trVars, NEW s \in Rounds
  PROVE  \/ result'[s] = result[s] /\ Averages(s)' = Averages(s)
         \/ /\ Cardinality(Usable(s)) >= MinParticipants
            /\ result'[s] = Averaged(s, Usable(s)) /\ heard' = heard
<1>0. Shape /\ Stands(s)
  BY StandsStep DEF IInv
<1>1. CASE Aggregate(s)
  <2>1. CASE Cardinality(Usable(s)) >= MinParticipants
    BY <1>0, <1>1, <2>1 DEF Aggregate, Shape
  <2>2. CASE ~(Cardinality(Usable(s)) >= MinParticipants)
    BY <1>0, <1>1, <2>2 DEF Aggregate, Shape, Averages
  <2>3. QED
    BY <2>1, <2>2
<1>2. ASSUME NEW r \in Rounds, OfRound(r), ~Aggregate(s)
      PROVE  result'[s] = result[s] /\ Averages(s)' = Averages(s)
  BY <1>0, <1>2 DEF Shape, OfRound, Announce, Aggregate, Published, Averages
<1>3. ASSUME NEW r \in Rounds, NEW p \in Participants, OfPeer(r, p)
      PROVE  result'[s] = result[s] /\ Averages(s)' = Averages(s)
  BY <1>3 DEF OfPeer, Hear, TimeOut, Publish, Refuse, Train, Trained, Adopt, Lose, Averages
<1>4. CASE UNCHANGED trVars
  BY <1>4 DEF trVars, Averages
<1>5. QED
  BY <1>1, <1>2, <1>3, <1>4 DEF TrNext, OfRound, OfPeer

LEMMA QuorumStep == ASSUME IInv, [TrNext]_trVars, NEW s \in Rounds PROVE OfQuorum(s)'
<1>0. OfQuorum(s) /\ Stands(s)
  BY StandsStep DEF IInv
<1>1. CASE Cardinality(Usable(s)) >= MinParticipants
           /\ result'[s] = Averaged(s, Usable(s)) /\ heard' = heard
  <2>1. result'[s].from = Usable(s)
    BY <1>1 DEF Averaged
  <2>2. QED
    BY <1>1, <2>1 DEF OfQuorum, Usable
<1>2. CASE result'[s] = result[s] /\ Averages(s)' = Averages(s)
  BY <1>0, <1>2 DEF OfQuorum, Stands
<1>3. QED
  BY <1>1, <1>2, ResultStep

-----------------------------------------------------------------------------
(* Training: what an average is within.                                    *)

\* A delta that is clipped is no longer than MaxNorm.
LEMMA Clipped ==
  ASSUME NEW d \in Int
  PROVE  /\ Clip(d) \in Int
         /\ MaxNorm > 0 => Clip(d) <= MaxNorm /\ -Clip(d) <= MaxNorm
BY QuorumAssumption DEF Clip

\* A weight times what is within a bound is within the bound times the weight.
LEMMA WeightTimes ==
  ASSUME NEW w \in Nat, NEW x \in Int, NEW m \in Nat, x <= m, -x <= m
  PROVE  w * x <= m * w /\ -(w * x) <= m * w
<1>1. w * (m - x) >= 0 /\ w * (m + x) >= 0
  <2>1. ASSUME NEW a \in Nat, NEW b \in Nat PROVE a * b >= 0
    OBVIOUS
  <2>2. m - x \in Nat /\ m + x \in Nat
    OBVIOUS
  <2>3. QED
    BY <2>1, <2>2
<1>2. w * (m - x) = m * w - w * x /\ w * (m + x) = m * w + w * x
  OBVIOUS
<1>3. w * x \in Int /\ m * w \in Int
  OBVIOUS
<1>4. QED
  BY <1>1, <1>2, <1>3

LEMMA AverageBounded ==
  ASSUME Shape, NEW s \in Rounds, Usable(s) # {}
  PROVE  /\ Averaged(s, Usable(s)) \in Results
         /\ SampleTotal(s, Usable(s)) > 0
         /\ MaxNorm > 0 => /\ Sum(s, Usable(s)) <= MaxNorm * SampleTotal(s, Usable(s))
                           /\ -Sum(s, Usable(s)) <= MaxNorm * SampleTotal(s, Usable(s))
<1> DEFINE S == Usable(s)
           e == [p \in S |-> heard[s][p].samples]
           f == [p \in S |-> heard[s][p].samples * Clip(heard[s][p].delta)]
<1>1. IsFiniteSet(S) /\ S \subseteq Participants
  BY RoundsAssumption, FS_Subset DEF Usable
<1>2. ASSUME NEW p \in S
      PROVE  /\ heard[s][p].samples \in Nat \ {0}
             /\ Clip(heard[s][p].delta) \in Int
             /\ MaxNorm > 0 => Clip(heard[s][p].delta) <= MaxNorm /\ -Clip(heard[s][p].delta) <= MaxNorm
  <2>1. heard[s][p].samples \in Nat \ {0} /\ heard[s][p].delta \in Int
    <3>1. heard[s][p] \in Updates /\ heard[s][p].samples > 0
      BY DEF Usable
    <3>2. heard[s][p].samples \in Samples /\ heard[s][p].delta \in Deltas
      BY <3>1 DEF Updates
    <3>3. \A k \in Samples : k > 0 => k \in Nat \ {0}
      BY UpdatesAssumption
    <3>4. QED
      BY <3>1, <3>2, <3>3, UpdatesAssumption
  <2>2. /\ Clip(heard[s][p].delta) \in Int
        /\ MaxNorm > 0 => Clip(heard[s][p].delta) <= MaxNorm /\ -Clip(heard[s][p].delta) <= MaxNorm
    BY <2>1, Clipped
  <2>3. QED
    BY <2>1, <2>2
<1>3. e \in [S -> Nat] /\ e \in [S -> Int] /\ f \in [S -> Int] /\ \A p \in S : e[p] > 0
  BY <1>2
<1>4. PICK g : Adds(g, f, S) /\ Sum(s, S) = g[S]
  <2>1. PICK g : Adds(g, f, S) /\ SumFunction(f) = g[S]
    BY <1>1, <1>3, SumAdds
  <2>2. Sum(s, S) = SumFunction(f)
    BY DEF Sum
  <2> HIDE DEF f
  <2>3. QED
    BY <2>1, <2>2
<1>5. PICK h : Adds(h, e, S) /\ SampleTotal(s, S) = h[S]
  <2>1. PICK h : Adds(h, e, S) /\ SumFunction(e) = h[S]
    BY <1>1, <1>3, SumAdds
  <2>2. SampleTotal(s, S) = SumFunction(e)
    BY DEF SampleTotal
  <2> HIDE DEF e
  <2>3. QED
    BY <2>1, <2>2
<1>6. ASSUME MaxNorm > 0 PROVE g[S] <= MaxNorm * h[S] /\ -g[S] <= MaxNorm * h[S]
  <2>1. ASSUME NEW p \in S PROVE f[p] <= MaxNorm * e[p] /\ -f[p] <= MaxNorm * e[p]
    BY <1>2, <1>6, WeightTimes, QuorumAssumption
  <2> HIDE DEF e, f, S
  <2>2. QED
    BY <1>1, <1>3, <1>4, <1>5, <2>1, SumsBounded, QuorumAssumption
<1> HIDE DEF f
<1>7. \A A \in SUBSET S : h[A] \in Nat
  <2> HIDE DEF e, S
  <2>1. \A p \in S : e[p] <= 1 * e[p] /\ -e[p] <= 1 * e[p]
    BY <1>3
  <2>2. 1 \in Nat /\ IsFiniteSet(S) /\ e \in [S -> Int] /\ e \in [S -> Nat] /\ Adds(h, e, S)
    BY <1>1, <1>3, <1>5
  <2>3. \A A \in SUBSET S : h[A] \in Nat /\ h[A] <= 1 * h[A] /\ -h[A] <= 1 * h[A]
    BY <2>1, <2>2, SumsBounded, Zenon
  <2>4. QED
    BY <2>3
<1>8. h[S] > 0
  <2> HIDE DEF e
  <2>1. First(S) \in S /\ Rest(S) \in SUBSET S
    BY <1>1, Fewer
  <2>2. h[S] = e[First(S)] + h[Rest(S)]
    BY <1>5 DEF Adds, Step
  <2>3. QED
    BY <1>3, <1>7, <2>1, <2>2
<1>9. g[S] \in Int /\ h[S] \in Nat
  BY <1>1, <1>3, <1>4, <1>7, SumInt
<1>10. QED
  BY <1>1, <1>4, <1>5, <1>6, <1>8, <1>9 DEF Averaged, Results

LEMMA ResultsStep ==
  ASSUME IInv, [TrNext]_trVars
  PROVE  result' \in [Rounds -> Results]
<1>1. CASE UNCHANGED result
  BY <1>1 DEF IInv
<1>2. ASSUME NEW r \in Rounds, Aggregate(r), ~UNCHANGED result PROVE result' \in [Rounds -> Results]
  <2>1. /\ Cardinality(Usable(r)) >= MinParticipants
        /\ result' = [result EXCEPT ![r] = Averaged(r, Usable(r))]
    BY <1>2 DEF Aggregate
  <2>2. Usable(r) # {}
    BY <2>1, QuorumAssumption, FS_EmptySet
  <2>3. QED
    BY <2>1, <2>2, AverageBounded DEF IInv
<1>3. QED
  BY <1>1, <1>2 DEF TrNext, Announce, Published, Hear, TimeOut, Publish, Refuse, Train, Trained,
                    Adopt, Lose, trVars

LEMMA WeighedStep == ASSUME IInv, [TrNext]_trVars, NEW s \in Rounds PROVE Weighed(s)'
<1>1. CASE result'[s] = result[s] /\ Averages(s)' = Averages(s)
  BY <1>1 DEF IInv, Weighed
<1>2. CASE Cardinality(Usable(s)) >= MinParticipants
           /\ result'[s] = Averaged(s, Usable(s)) /\ heard' = heard
  <2>1. Usable(s) # {}
    BY <1>2, QuorumAssumption, FS_EmptySet
  <2>2. /\ result'[s].sum = Sum(s, Usable(s)) /\ result'[s].total = SampleTotal(s, Usable(s))
    BY <1>2 DEF Averaged
  <2>3. QED
    BY <1>2, <2>1, <2>2, AverageBounded DEF IInv, Weighed
<1>3. QED
  BY <1>1, <1>2, ResultStep

\* An adapter is announced by a round with a result, and adopted when it was announced.
LEMMA AfterStep == ASSUME IInv, [TrNext]_trVars, NEW q \in Participants PROVE AfterResult(q)'
<1>0. Shape /\ AfterResult(q) /\ \A r \in Rounds : Stands(r)
  BY StandsStep DEF IInv
<1>1. ASSUME NEW r \in Rounds, NEW p \in Participants, Publish(r, p) PROVE AfterResult(q)'
  BY <1>0, <1>1 DEF Shape, AfterResult, Averages, Publish
<1>2. ASSUME NEW r \in Rounds, NEW p \in Participants, Adopt(r, p) PROVE AfterResult(q)'
  <2>1. AfterResult(p) /\ Averages(r)
    BY <1>2 DEF IInv, AfterResult, Adopt
  <2>2. QED
    BY <1>0, <1>2, <2>1 DEF Shape, AfterResult, Averages, Adopt
<1>3. ASSUME NEW r \in Rounds, NEW p \in Participants, Lose(r, p) PROVE AfterResult(q)'
  <2>1. CASE UNCHANGED notice
    BY <1>0, <1>3, <2>1 DEF AfterResult, Averages, Lose
  <2>2. CASE notice[r][p] = "sent" /\ notice' = [notice EXCEPT ![r][p] = "over"]
    BY <1>0, <1>3, <2>2 DEF Shape, AfterResult, Averages, Lose
  <2>3. QED
    BY <1>3, <2>1, <2>2 DEF Lose
<1>4. CASE UNCHANGED <<notice, held>>
  BY <1>0, <1>4 DEF Shape, AfterResult, Stands
<1>5. QED
  BY <1>1, <1>2, <1>3, <1>4 DEF TrNext, Announce, Aggregate, Published, Hear, TimeOut, Refuse, Train, Trained, trVars

-----------------------------------------------------------------------------
(* Training: the theorems.                                                 *)

LEMMA Initially == TrInit => IInv
  BY NoUpdateAssumption, RoundsAssumption
     DEF TrInit, IInv, Shape, Sealed, OfQuorum, AfterResult, Averages, Weighed, Results, NoResult

\* IInv holds in every reachable state of Training, for any number of overlapping rounds.
THEOREM Inductive == TrSpec => []IInv
<1>1. IInv /\ [TrNext]_trVars => IInv'
  BY ShapeStep, SealedStep, QuorumStep, ResultsStep, WeighedStep, AfterStep DEF IInv
<1>2. QED
  BY Initially, <1>1, PTL DEF TrSpec

\* What a participant adopts is the average of a quorum of updates, each trained for that very
\* round, however rounds of the job overlap and whatever comes late (QuorumOfOwn).
THEOREM AdoptedIsOfQuorum == TrSpec => []QuorumOfOwn
<1>1. IInv => QuorumOfOwn
  <2>1. SUFFICES ASSUME IInv, NEW p \in Participants, held[p] # None
                 PROVE  LET res == result[held[p]] IN
                        /\ Cardinality(res.from) >= MinParticipants
                        /\ \A q \in res.from : /\ heard[held[p]][q].round = held[p]
                                               /\ heard[held[p]][q].samples > 0
    BY DEF QuorumOfOwn
  <2>2. held[p] \in Rounds /\ Averages(held[p])
    BY <2>1 DEF IInv, Shape, AfterResult
  <2>3. OfQuorum(held[p]) /\ \A q \in Participants : Sealed(held[p], q)
    BY <2>1, <2>2 DEF IInv
  <2>4. QED
    BY <2>2, <2>3 DEF OfQuorum, Sealed
<1>2. QED
  BY Inductive, <1>1, PTL

\* Every variable of Training has its type, the sums of the results included.
THEOREM TrainingTyped == TrSpec => []TrTypeOK
<1>1. IInv => TrTypeOK
  BY DEF IInv, Shape, Results, TrTypeOK
<1>2. QED
  BY Inductive, <1>1, PTL

\* No participants, however many and whatever they claim to have learned, move the adapter farther
\* than the length their deltas are cut to (Influence).
THEOREM InfluenceIsBounded == TrSpec => []Influence
<1>1. IInv => Influence
  BY DEF IInv, Weighed, Averages, Influence
<1>2. QED
  BY Inductive, <1>1, PTL

\* A round's result is never made again: a late answer, a timeout or another round of the job does
\* not change what was averaged, nor from whom.
THEOREM ResultStands == TrSpec => [][\A r \in Rounds : Stands(r)]_trVars
<1>1. IInv /\ [TrNext]_trVars => [\A r \in Rounds : Stands(r)]_trVars
  BY StandsStep DEF IInv
<1>2. QED
  BY Inductive, <1>1, PTL DEF TrSpec
=============================================================================
