---------------------------- MODULE EscrowProofs ----------------------------
(***************************************************************************)
(* Escrow's records are well typed, its pot is exact and its handlers      *)
(* implement module Custody, for any number of accounts, tokens, escrows   *)
(* and holds.                                                              *)
(***************************************************************************)
EXTENDS Escrow, MoneyProofs

USE EnvAssumption, EscrowAssumption

-----------------------------------------------------------------------------
(* Every step, seen by the pot *)

\* What one step does to the two kinds of record and to the donations.  Each
\* action of Next is one of these; the invariants are proved from them.

\* A deposit under a new escrow record r.
DepositsEscrow(i, r) ==
    /\ r \in EscrowRecord /\ r.status = "Locked" /\ r.unlock_at > now
    /\ escrow[i] = NoEntry
    /\ escrow' = [escrow EXCEPT ![i] = r]
    /\ Transfer(r.token, r.payer, Contract, r.amount)
    /\ UNCHANGED <<now, paused, active, allowed, hold, donated>>

\* A deposit under a new hold record r.
DepositsHold(i, r) ==
    /\ r \in HoldRecord /\ r.status = "Held" /\ r.timeout_at > now
    /\ hold[i] = NoEntry
    /\ hold' = [hold EXCEPT ![i] = r]
    /\ Transfer(r.token, r.payer, Contract, r.amount)
    /\ UNCHANGED <<now, paused, active, allowed, escrow, donated>>

\* A payout of an open record, to the side the time allows.
PaysEscrow(i) ==
    \E s \in {"Released", "Cancelled"}, to \in Accounts :
        /\ IsLocked(i) /\ FinaliseEscrow(i, s, to)
        /\ s = "Released" => to = escrow[i].merchant /\ now >= escrow[i].unlock_at
        /\ s = "Cancelled" => to = escrow[i].payer /\ now < escrow[i].unlock_at

PaysHold(i) ==
    \E s \in {"Released", "Cancelled"}, to \in Accounts :
        /\ IsHeld(i) /\ FinaliseHold(i, s, to)
        /\ s = "Released" => to = hold[i].merchant
        /\ s = "Cancelled" => to = hold[i].payer /\ now < hold[i].timeout_at

\* Every step of Next is a deposit, a payout, a donation or a step of the
\* rest of the system.
LEMMA StepKinds ==
    ASSUME TypeOK, Next
    PROVE  \/ \E i \in EscrowIds, r \in EscrowRecord : DepositsEscrow(i, r)
           \/ \E i \in HoldIds, r \in HoldRecord : DepositsHold(i, r)
           \/ \E i \in EscrowIds : PaysEscrow(i)
           \/ \E i \in HoldIds : PaysHold(i)
           \/ \E p \in Accounts, t \in Tokens, a \in Nat : Donate(p, t, a)
           \/ Environment
<1> DEFINE Goal == \/ \E i \in EscrowIds, r \in EscrowRecord : DepositsEscrow(i, r)
                   \/ \E i \in HoldIds, r \in HoldRecord : DepositsHold(i, r)
                   \/ \E i \in EscrowIds : PaysEscrow(i)
                   \/ \E i \in HoldIds : PaysHold(i)
                   \/ \E p \in Accounts, t \in Tokens, a \in Nat : Donate(p, t, a)
                   \/ Environment
<1>1. ASSUME NEW p \in Accounts, NEW m \in Merchants, NEW a \in Amounts, NEW t \in Tokens,
             NEW u \in 0..MaxTime, NEW i \in EscrowIds, create_escrow(p, m, a, t, u, i)
      PROVE  Goal
  <2> DEFINE r == [payer |-> p, merchant |-> m, token |-> t, amount |-> a,
                   unlock_at |-> u, status |-> "Locked"]
  <2>1. r \in EscrowRecord
    BY <1>1 DEF create_escrow, EscrowRecord, require_positive
  <2>2. DepositsEscrow(i, r)
    BY <1>1, <2>1 DEF create_escrow, DepositsEscrow
  <2> QED BY <2>1, <2>2
<1>2. ASSUME NEW p \in Accounts, NEW i \in HoldIds, NEW m \in Merchants, NEW t \in Tokens,
             NEW a \in Amounts, NEW ar \in Accounts, NEW u \in 0..MaxTime,
             escrow_hold(p, i, m, t, a, ar, u)
      PROVE  Goal
  <2> DEFINE r == [payer |-> p, merchant |-> m, token |-> t, amount |-> a,
                   arbiter |-> ar, timeout_at |-> u, status |-> "Held"]
  <2>1. r \in HoldRecord
    BY <1>2 DEF escrow_hold, HoldRecord, require_positive
  <2>2. DepositsHold(i, r)
    BY <1>2, <2>1 DEF escrow_hold, DepositsHold
  <2> QED BY <2>1, <2>2
<1>3. \A i \in EscrowIds : IsLocked(i) => escrow[i] \in EscrowRecord
  BY DEF TypeOK, IsLocked
<1>4. \A i \in HoldIds : IsHeld(i) => hold[i] \in HoldRecord
  BY DEF TypeOK, IsHeld
<1>5. ASSUME NEW i \in EscrowIds, release_escrow(i) PROVE Goal
  <2>1. escrow[i].merchant \in Accounts
    BY <1>3, <1>5 DEF release_escrow, EscrowRecord
  <2> QED BY <1>5, <2>1 DEF release_escrow, PaysEscrow
<1>6. ASSUME NEW p \in Accounts, NEW i \in EscrowIds, cancel_escrow_before_lock(p, i) PROVE Goal
  <2>1. escrow[i].payer \in Accounts
    BY <1>3, <1>6 DEF cancel_escrow_before_lock, EscrowRecord
  <2> QED BY <1>6, <2>1 DEF cancel_escrow_before_lock, PaysEscrow
<1>7. ASSUME NEW c \in Accounts, NEW i \in HoldIds, escrow_release(c, i) PROVE Goal
  <2>1. hold[i].merchant \in Accounts
    BY <1>4, <1>7 DEF escrow_release, HoldRecord
  <2> QED BY <1>7, <2>1 DEF escrow_release, PaysHold
<1>8. ASSUME NEW c \in Accounts, NEW i \in HoldIds, escrow_cancel(c, i) PROVE Goal
  <2>1. hold[i].payer \in Accounts
    BY <1>4, <1>8 DEF escrow_cancel, HoldRecord
  <2> QED BY <1>8, <2>1 DEF escrow_cancel, PaysHold
<1>9. ASSUME NEW p \in Accounts, NEW t \in Tokens, NEW a \in Amounts, Donate(p, t, a) PROVE Goal
  BY <1>9
<1> HIDE DEF Goal
<1>10. Goal
  BY <1>1, <1>2, <1>5, <1>6, <1>7, <1>8, <1>9 DEF Next, Goal
<1> QED BY <1>10 DEF Goal

-----------------------------------------------------------------------------
(* Type correctness *)

\* A step from a well-typed state leads to a well-typed state.
LEMMA TypeStep ==
    ASSUME TypeOK, [Next]_vars
    PROVE  TypeOK'
<1>0. EnvTypeOK /\ balance \in [Tokens -> [Holders -> Nat]] /\ Contract \in Holders
       /\ Accounts \subseteq Holders
  BY DEF TypeOK, EnvTypeOK, Holders
<1>1. ASSUME NEW i \in EscrowIds, NEW r \in EscrowRecord, DepositsEscrow(i, r) PROVE TypeOK'
  <2>1. r.token \in Tokens /\ r.payer \in Holders /\ r.amount \in Nat
    BY <1>0 DEF EscrowRecord
  <2>2. balance' \in [Tokens -> [Holders -> Nat]]
    BY <1>0, <1>1, <2>1, TransferFacts DEF DepositsEscrow
  <2>3. escrow' \in [EscrowIds -> EscrowRecord \cup {NoEntry}]
    BY <1>1 DEF DepositsEscrow, TypeOK
  <2> QED BY <1>1, <2>2, <2>3 DEF DepositsEscrow, TypeOK, EnvTypeOK
<1>2. ASSUME NEW i \in HoldIds, NEW r \in HoldRecord, DepositsHold(i, r) PROVE TypeOK'
  <2>1. r.token \in Tokens /\ r.payer \in Holders /\ r.amount \in Nat
    BY <1>0 DEF HoldRecord
  <2>2. balance' \in [Tokens -> [Holders -> Nat]]
    BY <1>0, <1>2, <2>1, TransferFacts DEF DepositsHold
  <2>3. hold' \in [HoldIds -> HoldRecord \cup {NoEntry}]
    BY <1>2 DEF DepositsHold, TypeOK
  <2> QED BY <1>2, <2>2, <2>3 DEF DepositsHold, TypeOK, EnvTypeOK
<1>3. ASSUME NEW i \in EscrowIds, PaysEscrow(i) PROVE TypeOK'
  <2>1. PICK s \in {"Released", "Cancelled"}, to \in Accounts :
            IsLocked(i) /\ FinaliseEscrow(i, s, to)
    BY <1>3 DEF PaysEscrow
  <2>2. escrow[i] \in EscrowRecord
    BY <2>1 DEF IsLocked, TypeOK
  <2>3. balance' \in [Tokens -> [Holders -> Nat]]
    <3>1. escrow[i].token \in Tokens /\ escrow[i].amount \in Nat
      BY <2>2 DEF EscrowRecord
    <3> QED BY <1>0, <2>1, <3>1, TransferFacts DEF FinaliseEscrow
  <2>4. [escrow[i] EXCEPT !.status = s] \in EscrowRecord
    BY <2>2 DEF EscrowRecord
  <2>5. escrow' \in [EscrowIds -> EscrowRecord \cup {NoEntry}]
    BY <2>1, <2>4 DEF FinaliseEscrow, TypeOK
  <2> QED BY <2>1, <2>3, <2>5 DEF FinaliseEscrow, TypeOK, EnvTypeOK
<1>4. ASSUME NEW i \in HoldIds, PaysHold(i) PROVE TypeOK'
  <2>1. PICK s \in {"Released", "Cancelled"}, to \in Accounts :
            IsHeld(i) /\ FinaliseHold(i, s, to)
    BY <1>4 DEF PaysHold
  <2>2. hold[i] \in HoldRecord
    BY <2>1 DEF IsHeld, TypeOK
  <2>3. balance' \in [Tokens -> [Holders -> Nat]]
    <3>1. hold[i].token \in Tokens /\ hold[i].amount \in Nat
      BY <2>2 DEF HoldRecord
    <3> QED BY <1>0, <2>1, <3>1, TransferFacts DEF FinaliseHold
  <2>4. [hold[i] EXCEPT !.status = s] \in HoldRecord
    BY <2>2 DEF HoldRecord
  <2>5. hold' \in [HoldIds -> HoldRecord \cup {NoEntry}]
    BY <2>1, <2>4 DEF FinaliseHold, TypeOK
  <2> QED BY <2>1, <2>3, <2>5 DEF FinaliseHold, TypeOK, EnvTypeOK
<1>5. ASSUME NEW p \in Accounts, NEW t \in Tokens, NEW a \in Nat, Donate(p, t, a) PROVE TypeOK'
  <2>1. balance' \in [Tokens -> [Holders -> Nat]]
    BY <1>0, <1>5, TransferFacts DEF Donate
  <2>2. donated' \in [Tokens -> Nat]
    BY <1>5 DEF Donate, TypeOK
  <2> QED BY <1>5, <2>1, <2>2 DEF Donate, TypeOK, EnvTypeOK
<1>6. CASE Environment
  BY <1>0, <1>6, EnvNextFacts DEF Environment, TypeOK
<1>7. CASE UNCHANGED vars
  BY <1>7 DEF vars, envVars, TypeOK, EnvTypeOK
<1>8. CASE Next
  BY <1>8, <1>1, <1>2, <1>3, <1>4, <1>5, <1>6, StepKinds
<1> QED BY <1>7, <1>8

\* The records, amounts and balances stay what storage can hold.
THEOREM EscrowTypeCorrect == Spec => []TypeOK
<1>1. Init => TypeOK
  <2> SUFFICES ASSUME Init PROVE TypeOK
    OBVIOUS
  <2>1. balance \in [Tokens -> [Holders -> Nat]]
    BY DEF Init, EnvInit
  <2>2. now \in 0..MaxTime
    BY DEF Init, EnvInit
  <2>3. paused \in BOOLEAN /\ active \subseteq Merchants /\ allowed \subseteq Tokens
    BY Zenon DEF Init, EnvInit
  <2>4. EnvTypeOK
    BY <2>1, <2>2, <2>3 DEF EnvTypeOK
  <2> QED BY <2>4 DEF Init, TypeOK
<1>2. TypeOK /\ [Next]_vars => TypeOK'
  BY TypeStep
<1> QED BY <1>1, <1>2, PTL DEF Spec

-----------------------------------------------------------------------------
(* Solvency *)

\* What escrow i, or hold i, ties up of token t.
LEMMA OpenAmounts ==
    ASSUME TypeOK, NEW t \in Tokens
    PROVE  /\ LockedIn(t) \in [1..NumEscrows -> Nat]
           /\ HeldIn(t) \in [1..NumHolds -> Nat]
<1>1. \A i \in EscrowIds : IsLocked(i) => escrow[i].amount \in Nat
  BY DEF TypeOK, IsLocked, EscrowRecord
<1>2. \A i \in HoldIds : IsHeld(i) => hold[i].amount \in Nat
  BY DEF TypeOK, IsHeld, HoldRecord
<1> QED BY <1>1, <1>2 DEF LockedIn, HeldIn, EscrowIds, HoldIds

\* A step keeps the pot exact.
LEMMA SolvencyStep ==
    ASSUME TypeOK, TypeOK', Solvency, [Next]_vars
    PROVE  Solvency'
<1> SUFFICES ASSUME NEW t \in Tokens
             PROVE  balance'[t][Contract] = Total(LockedIn(t)', NumEscrows)
                                            + Total(HeldIn(t)', NumHolds) + donated'[t]
  BY DEF Solvency
<1>0. /\ balance \in [Tokens -> [Holders -> Nat]] /\ Contract \in Holders
      /\ Accounts \subseteq Holders /\ Contract \notin Accounts
      /\ donated \in [Tokens -> Nat]
      /\ escrow \in [EscrowIds -> EscrowRecord \cup {NoEntry}]
      /\ hold \in [HoldIds -> HoldRecord \cup {NoEntry}]
  BY DEF TypeOK, EnvTypeOK, Holders
<1>a. /\ LockedIn(t) \in [1..NumEscrows -> Nat] /\ LockedIn(t)' \in [1..NumEscrows -> Nat]
      /\ HeldIn(t) \in [1..NumHolds -> Nat] /\ HeldIn(t)' \in [1..NumHolds -> Nat]
  <2>1. LockedIn(t) \in [1..NumEscrows -> Nat] /\ HeldIn(t) \in [1..NumHolds -> Nat]
    BY OpenAmounts
  <2>2. (TypeOK => LockedIn(t) \in [1..NumEscrows -> Nat] /\ HeldIn(t) \in [1..NumHolds -> Nat])'
    BY OpenAmounts, PTL
  <2> QED BY <2>1, <2>2
<1>b. balance[t][Contract] = Total(LockedIn(t), NumEscrows) + Total(HeldIn(t), NumHolds) + donated[t]
  BY DEF Solvency
<1>c. Total(LockedIn(t), NumEscrows) \in Int /\ Total(HeldIn(t), NumHolds) \in Int
  <2>1. LockedIn(t) \in [1..NumEscrows -> Int] /\ HeldIn(t) \in [1..NumHolds -> Int]
    BY <1>a
  <2> QED BY <2>1, TotalType
<1>d. hold' = hold => HeldIn(t)' = HeldIn(t)
  BY DEF HeldIn, IsHeld
<1>e. escrow' = escrow => LockedIn(t)' = LockedIn(t)
  BY DEF LockedIn, IsLocked
<1>1. ASSUME NEW i \in EscrowIds, NEW r \in EscrowRecord, DepositsEscrow(i, r)
      PROVE  balance'[t][Contract] = Total(LockedIn(t)', NumEscrows)
                                     + Total(HeldIn(t)', NumHolds) + donated'[t]
  <2>1. r.token \in Tokens /\ r.payer \in Accounts /\ r.amount \in Nat /\ r # NoEntry
    BY DEF EscrowRecord
  <2>2. balance'[t][Contract] = balance[t][Contract] + (IF r.token = t THEN r.amount ELSE 0)
    <3>1. /\ \A u \in Tokens : u # r.token => balance'[u] = balance[u]
          /\ balance'[r.token][Contract] = balance[r.token][Contract] + r.amount
      <4>1. Transfer(r.token, r.payer, Contract, r.amount)
        BY <1>1 DEF DepositsEscrow
      <4>2. r.payer \in Holders /\ r.payer # Contract
        BY <1>0, <2>1
      <4> QED BY <1>0, <2>1, <4>1, <4>2, TransferFacts
    <3>2. balance[t][Contract] \in Nat
      BY <1>0
    <3> QED BY <3>1, <3>2
  <2>3. \A n \in 1..NumEscrows : n # i => LockedIn(t)'[n] = LockedIn(t)[n]
    BY <1>0, <1>1 DEF DepositsEscrow, LockedIn, IsLocked, EscrowIds
  <2>4. LockedIn(t)[i] = 0 /\ LockedIn(t)'[i] = IF r.token = t THEN r.amount ELSE 0
    BY <1>0, <1>1, <2>1 DEF DepositsEscrow, LockedIn, IsLocked, EscrowIds
  <2>5. Total(LockedIn(t)', NumEscrows)
            = Total(LockedIn(t), NumEscrows) - LockedIn(t)[i] + LockedIn(t)'[i]
    <3>1. NumEscrows \in Nat /\ i \in 1..NumEscrows
      BY DEF EscrowIds
    <3> DEFINE f == LockedIn(t)
               g == LockedIn(t)'
    <3>2. f \in [1..NumEscrows -> Nat] /\ g \in [1..NumEscrows -> Nat]
      BY <1>a
    <3>3. \A n \in 1..NumEscrows : n # i => g[n] = f[n]
      BY <2>3
    <3> HIDE DEF f, g
    <3>4. Total(g, NumEscrows) = Total(f, NumEscrows) - f[i] + g[i]
      BY <3>1, <3>2, <3>3, TotalAfter, ZenonT(30)
    <3> QED BY <3>4 DEF f, g
  <2> QED BY <1>1, <1>b, <1>c, <1>d, <1>0, <2>1, <2>2, <2>4, <2>5 DEF DepositsEscrow
<1>2. ASSUME NEW i \in HoldIds, NEW r \in HoldRecord, DepositsHold(i, r)
      PROVE  balance'[t][Contract] = Total(LockedIn(t)', NumEscrows)
                                     + Total(HeldIn(t)', NumHolds) + donated'[t]
  <2>1. r.token \in Tokens /\ r.payer \in Accounts /\ r.amount \in Nat /\ r # NoEntry
    BY DEF HoldRecord
  <2>2. balance'[t][Contract] = balance[t][Contract] + (IF r.token = t THEN r.amount ELSE 0)
    <3>1. /\ \A u \in Tokens : u # r.token => balance'[u] = balance[u]
          /\ balance'[r.token][Contract] = balance[r.token][Contract] + r.amount
      <4>1. Transfer(r.token, r.payer, Contract, r.amount)
        BY <1>2 DEF DepositsHold
      <4>2. r.payer \in Holders /\ r.payer # Contract
        BY <1>0, <2>1
      <4> QED BY <1>0, <2>1, <4>1, <4>2, TransferFacts
    <3>2. balance[t][Contract] \in Nat
      BY <1>0
    <3> QED BY <3>1, <3>2
  <2>3. \A n \in 1..NumHolds : n # i => HeldIn(t)'[n] = HeldIn(t)[n]
    BY <1>0, <1>2 DEF DepositsHold, HeldIn, IsHeld, HoldIds
  <2>4. HeldIn(t)[i] = 0 /\ HeldIn(t)'[i] = IF r.token = t THEN r.amount ELSE 0
    BY <1>0, <1>2, <2>1 DEF DepositsHold, HeldIn, IsHeld, HoldIds
  <2>5. Total(HeldIn(t)', NumHolds)
            = Total(HeldIn(t), NumHolds) - HeldIn(t)[i] + HeldIn(t)'[i]
    <3>1. NumHolds \in Nat /\ i \in 1..NumHolds
      BY DEF HoldIds
    <3> DEFINE f == HeldIn(t)
               g == HeldIn(t)'
    <3>2. f \in [1..NumHolds -> Nat] /\ g \in [1..NumHolds -> Nat]
      BY <1>a
    <3>3. \A n \in 1..NumHolds : n # i => g[n] = f[n]
      BY <2>3
    <3> HIDE DEF f, g
    <3>4. Total(g, NumHolds) = Total(f, NumHolds) - f[i] + g[i]
      BY <3>1, <3>2, <3>3, TotalAfter, ZenonT(30)
    <3> QED BY <3>4 DEF f, g
  <2> QED BY <1>2, <1>b, <1>c, <1>e, <1>0, <2>1, <2>2, <2>4, <2>5 DEF DepositsHold
<1>3. ASSUME NEW i \in EscrowIds, PaysEscrow(i)
      PROVE  balance'[t][Contract] = Total(LockedIn(t)', NumEscrows)
                                     + Total(HeldIn(t)', NumHolds) + donated'[t]
  <2>1. PICK s \in {"Released", "Cancelled"}, to \in Accounts :
            IsLocked(i) /\ FinaliseEscrow(i, s, to)
    BY <1>3 DEF PaysEscrow
  <2> DEFINE r == escrow[i]
  <2>2. r \in EscrowRecord
    BY <1>0, <2>1 DEF IsLocked
  <2>3. r.token \in Tokens /\ r.amount \in Nat
    BY <2>2 DEF EscrowRecord
  <2>4. balance'[t][Contract] = balance[t][Contract] - (IF r.token = t THEN r.amount ELSE 0)
    <3>1. /\ \A u \in Tokens : u # r.token => balance'[u] = balance[u]
          /\ balance'[r.token][Contract] = balance[r.token][Contract] - r.amount
      BY <1>0, <2>1, <2>3, TransferFacts DEF FinaliseEscrow
    <3>2. balance[t][Contract] \in Nat
      BY <1>0
    <3> QED BY <3>1, <3>2
  <2>5. escrow' = [escrow EXCEPT ![i].status = s] /\ UNCHANGED <<hold, donated>>
    BY <2>1 DEF FinaliseEscrow
  <2>6. \A n \in 1..NumEscrows : n # i => LockedIn(t)'[n] = LockedIn(t)[n]
    BY <1>0, <2>5 DEF LockedIn, IsLocked, EscrowIds
  <2>7. escrow'[i].status = s
    BY <1>0, <2>2, <2>5 DEF EscrowRecord
  <2>8. LockedIn(t)'[i] = 0 /\ LockedIn(t)[i] = IF r.token = t THEN r.amount ELSE 0
    BY <1>0, <2>1, <2>7 DEF LockedIn, IsLocked, EscrowIds
  <2>9. Total(LockedIn(t)', NumEscrows)
            = Total(LockedIn(t), NumEscrows) - LockedIn(t)[i] + LockedIn(t)'[i]
    <3>1. NumEscrows \in Nat /\ i \in 1..NumEscrows
      BY DEF EscrowIds
    <3> DEFINE f == LockedIn(t)
               g == LockedIn(t)'
    <3>2. f \in [1..NumEscrows -> Nat] /\ g \in [1..NumEscrows -> Nat]
      BY <1>a
    <3>3. \A n \in 1..NumEscrows : n # i => g[n] = f[n]
      BY <2>6
    <3> HIDE DEF f, g
    <3>4. Total(g, NumEscrows) = Total(f, NumEscrows) - f[i] + g[i]
      BY <3>1, <3>2, <3>3, TotalAfter, ZenonT(30)
    <3> QED BY <3>4 DEF f, g
  <2> HIDE DEF r
  <2> QED BY <1>b, <1>c, <1>d, <1>0, <2>3, <2>4, <2>5, <2>8, <2>9
<1>4. ASSUME NEW i \in HoldIds, PaysHold(i)
      PROVE  balance'[t][Contract] = Total(LockedIn(t)', NumEscrows)
                                     + Total(HeldIn(t)', NumHolds) + donated'[t]
  <2>1. PICK s \in {"Released", "Cancelled"}, to \in Accounts :
            IsHeld(i) /\ FinaliseHold(i, s, to)
    BY <1>4 DEF PaysHold
  <2> DEFINE r == hold[i]
  <2>2. r \in HoldRecord
    BY <1>0, <2>1 DEF IsHeld
  <2>3. r.token \in Tokens /\ r.amount \in Nat
    BY <2>2 DEF HoldRecord
  <2>4. balance'[t][Contract] = balance[t][Contract] - (IF r.token = t THEN r.amount ELSE 0)
    <3>1. /\ \A u \in Tokens : u # r.token => balance'[u] = balance[u]
          /\ balance'[r.token][Contract] = balance[r.token][Contract] - r.amount
      BY <1>0, <2>1, <2>3, TransferFacts DEF FinaliseHold
    <3>2. balance[t][Contract] \in Nat
      BY <1>0
    <3> QED BY <3>1, <3>2
  <2>5. hold' = [hold EXCEPT ![i].status = s] /\ UNCHANGED <<escrow, donated>>
    BY <2>1 DEF FinaliseHold
  <2>6. \A n \in 1..NumHolds : n # i => HeldIn(t)'[n] = HeldIn(t)[n]
    BY <1>0, <2>5 DEF HeldIn, IsHeld, HoldIds
  <2>7. hold'[i].status = s
    BY <1>0, <2>2, <2>5 DEF HoldRecord
  <2>8. HeldIn(t)'[i] = 0 /\ HeldIn(t)[i] = IF r.token = t THEN r.amount ELSE 0
    BY <1>0, <2>1, <2>7 DEF HeldIn, IsHeld, HoldIds
  <2>9. Total(HeldIn(t)', NumHolds)
            = Total(HeldIn(t), NumHolds) - HeldIn(t)[i] + HeldIn(t)'[i]
    <3>1. NumHolds \in Nat /\ i \in 1..NumHolds
      BY DEF HoldIds
    <3> DEFINE f == HeldIn(t)
               g == HeldIn(t)'
    <3>2. f \in [1..NumHolds -> Nat] /\ g \in [1..NumHolds -> Nat]
      BY <1>a
    <3>3. \A n \in 1..NumHolds : n # i => g[n] = f[n]
      BY <2>6
    <3> HIDE DEF f, g
    <3>4. Total(g, NumHolds) = Total(f, NumHolds) - f[i] + g[i]
      BY <3>1, <3>2, <3>3, TotalAfter, ZenonT(30)
    <3> QED BY <3>4 DEF f, g
  <2> HIDE DEF r
  <2> QED BY <1>b, <1>c, <1>e, <1>0, <2>3, <2>4, <2>5, <2>8, <2>9
<1>5. ASSUME NEW p \in Accounts, NEW u \in Tokens, NEW a \in Nat, Donate(p, u, a)
      PROVE  balance'[t][Contract] = Total(LockedIn(t)', NumEscrows)
                                     + Total(HeldIn(t)', NumHolds) + donated'[t]
  <2>1. balance'[t][Contract] = balance[t][Contract] + (IF u = t THEN a ELSE 0)
    <3>1. /\ \A w \in Tokens : w # u => balance'[w] = balance[w]
          /\ balance'[u][Contract] = balance[u][Contract] + a
      BY <1>0, <1>5, TransferFacts DEF Donate
    <3>2. balance[t][Contract] \in Nat
      BY <1>0
    <3> QED BY <3>1, <3>2
  <2>2. donated'[t] = donated[t] + (IF u = t THEN a ELSE 0) /\ UNCHANGED <<escrow, hold>>
    BY <1>0, <1>5 DEF Donate
  <2> QED BY <1>0, <1>b, <1>c, <1>d, <1>e, <2>1, <2>2
<1>6. CASE Environment
  <2>1. balance' = balance /\ UNCHANGED <<escrow, hold, donated>>
    BY <1>6, EnvNextFacts DEF Environment, TypeOK
  <2> QED BY <2>1, <1>b, <1>d, <1>e
<1>7. CASE UNCHANGED vars
  BY <1>7, <1>b, <1>d, <1>e DEF vars, envVars
<1>8. CASE Next
  BY <1>8, <1>1, <1>2, <1>3, <1>4, <1>5, <1>6, StepKinds
<1> QED BY <1>7, <1>8

\* At every moment, and for any number of escrows and holds, the contract
\* holds of each token exactly what its open records and the donations add up
\* to (the shared pot of create_escrow .. escrow_cancel).
THEOREM EscrowSolvent == Spec => []Solvency
<1>1. Init => Solvency
  <2> SUFFICES ASSUME Init, NEW t \in Tokens
               PROVE  balance[t][Contract] = Total(LockedIn(t), NumEscrows)
                                             + Total(HeldIn(t), NumHolds) + donated[t]
    BY DEF Solvency
  <2>1. balance[t][Contract] = 0 /\ donated[t] = 0
    BY DEF Init, EnvInit, Holders
  <2>2. LockedIn(t) \in [1..NumEscrows -> Int] /\ \A n \in 1..NumEscrows : LockedIn(t)[n] = 0
    BY DEF Init, LockedIn, IsLocked, EscrowIds
  <2>3. HeldIn(t) \in [1..NumHolds -> Int] /\ \A n \in 1..NumHolds : HeldIn(t)[n] = 0
    BY DEF Init, HeldIn, IsHeld, HoldIds
  <2> QED BY <2>1, <2>2, <2>3, TotalZero
<1>2. TypeOK /\ TypeOK' /\ Solvency /\ [Next]_vars => Solvency'
  BY SolvencyStep
<1> QED BY <1>1, <1>2, EscrowTypeCorrect, PTL DEF Spec

\* The pot covers every open record, so no payout transfer ever traps.
THEOREM EscrowPayoutsCovered == Spec => []PayoutsCovered
<1>1. TypeOK /\ Solvency => PayoutsCovered
  <2> SUFFICES ASSUME TypeOK, Solvency PROVE PayoutsCovered
    OBVIOUS
  <2>1. ASSUME NEW i \in EscrowIds, IsLocked(i)
        PROVE  balance[escrow[i].token][Contract] >= escrow[i].amount
    <3> DEFINE t == escrow[i].token
    <3>1. t \in Tokens /\ escrow[i].amount \in Nat
      BY <2>1 DEF TypeOK, IsLocked, EscrowRecord
    <3> HIDE DEF t
    <3>2. LockedIn(t)[i] = escrow[i].amount
      BY <2>1 DEF LockedIn, t
    <3>3. /\ LockedIn(t) \in [1..NumEscrows -> Nat] /\ HeldIn(t) \in [1..NumHolds -> Nat]
          /\ donated[t] \in Nat
      BY <3>1, OpenAmounts DEF TypeOK
    <3>4. Total(LockedIn(t), NumEscrows) \in Nat
          /\ LockedIn(t)[i] <= Total(LockedIn(t), NumEscrows)
      BY <3>3, TotalCovers DEF EscrowIds
    <3>5. Total(HeldIn(t), NumHolds) \in Nat
      BY <3>3, TotalNatural
    <3>6. balance[t][Contract]
              = Total(LockedIn(t), NumEscrows) + Total(HeldIn(t), NumHolds) + donated[t]
      BY <3>1 DEF Solvency
    <3>7. balance[t][Contract] >= escrow[i].amount
      BY <3>1, <3>2, <3>3, <3>4, <3>5, <3>6
    <3> QED BY <3>7 DEF t
  <2>2. ASSUME NEW i \in HoldIds, IsHeld(i)
        PROVE  balance[hold[i].token][Contract] >= hold[i].amount
    <3> DEFINE t == hold[i].token
    <3>1. t \in Tokens /\ hold[i].amount \in Nat
      BY <2>2 DEF TypeOK, IsHeld, HoldRecord
    <3> HIDE DEF t
    <3>2. HeldIn(t)[i] = hold[i].amount
      BY <2>2 DEF HeldIn, t
    <3>3. /\ LockedIn(t) \in [1..NumEscrows -> Nat] /\ HeldIn(t) \in [1..NumHolds -> Nat]
          /\ donated[t] \in Nat
      BY <3>1, OpenAmounts DEF TypeOK
    <3>4. Total(HeldIn(t), NumHolds) \in Nat /\ HeldIn(t)[i] <= Total(HeldIn(t), NumHolds)
      BY <3>3, TotalCovers DEF HoldIds
    <3>5. Total(LockedIn(t), NumEscrows) \in Nat
      BY <3>3, TotalNatural
    <3>6. balance[t][Contract]
              = Total(LockedIn(t), NumEscrows) + Total(HeldIn(t), NumHolds) + donated[t]
      BY <3>1 DEF Solvency
    <3>7. balance[t][Contract] >= hold[i].amount
      BY <3>1, <3>2, <3>3, <3>4, <3>5, <3>6
    <3> QED BY <3>7 DEF t
  <2> QED BY <2>1, <2>2 DEF PayoutsCovered
<1> QED BY <1>1, EscrowTypeCorrect, EscrowSolvent, PTL

-----------------------------------------------------------------------------
(* Custody: every step of the six handlers is a step of the abstract service *)

Claimed == [terms : Service!Terms, paid : {"no", "beneficiary", "depositor"}]

\* A claim is an escrow's or a hold's, never both.
LEMMA ClaimKinds ==
    /\ \A i \in EscrowIds : <<"escrow", i>> \in ClaimIds
    /\ \A i \in HoldIds : <<"hold", i>> \in ClaimIds
    /\ \A c \in ClaimIds : \/ \E i \in EscrowIds : c = <<"escrow", i>>
                           \/ \E i \in HoldIds : c = <<"hold", i>>
BY DEF ClaimIds

LEMMA ClaimLookup ==
    /\ \A i \in EscrowIds : AllClaims[<<"escrow", i>>] = EscrowClaim(escrow[i])
    /\ \A i \in HoldIds : AllClaims[<<"hold", i>>] = HoldClaim(hold[i])
BY ClaimKinds DEF AllClaims

\* A record reads as a claim with the record's own terms.
LEMMA EscrowAsClaim ==
    ASSUME NEW e \in EscrowRecord
    PROVE  /\ EscrowClaim(e) \in Claimed /\ EscrowClaim(e) # NoEntry
           /\ EscrowClaim(e).terms.deadline = e.unlock_at
           /\ EscrowClaim(e).terms.depositor = e.payer
           /\ EscrowClaim(e).terms.beneficiary = e.merchant
           /\ EscrowClaim(e).terms.currency = e.token
           /\ EscrowClaim(e).terms.amount = e.amount
           /\ EscrowClaim(e).paid = PaidTo(e.status)
           /\ \A s \in {"Released", "Cancelled"} :
                 EscrowClaim([e EXCEPT !.status = s]) = [EscrowClaim(e) EXCEPT !.paid = PaidTo(s)]
<1>1. e # NoEntry
  OBVIOUS
<1>2. PaidTo(e.status) \in {"no", "beneficiary", "depositor"}
  BY DEF PaidTo, EscrowRecord
<1>3. EscrowClaim(e) =
        [terms |-> [depositor |-> e.payer, beneficiary |-> e.merchant, currency |-> e.token,
                    amount |-> e.amount, deadline |-> e.unlock_at, refereed |-> FALSE],
         paid |-> PaidTo(e.status)]
  BY <1>1 DEF EscrowClaim
<1>4. EscrowClaim(e) \in Claimed
  BY <1>2, <1>3 DEF EscrowRecord, Claimed, Service!Terms
<1>5. EscrowClaim(e) # NoEntry
  BY <1>4, ClaimAssumption DEF Claimed
<1>6. ASSUME NEW s \in {"Released", "Cancelled"}
      PROVE  EscrowClaim([e EXCEPT !.status = s]) = [EscrowClaim(e) EXCEPT !.paid = PaidTo(s)]
  <2> DEFINE paid == [e EXCEPT !.status = s]
  <2>1. paid \in EscrowRecord /\ paid.status = s
    BY DEF EscrowRecord
  <2>2. /\ paid.payer = e.payer /\ paid.merchant = e.merchant /\ paid.token = e.token
        /\ paid.amount = e.amount /\ paid.unlock_at = e.unlock_at
    BY DEF EscrowRecord
  <2> HIDE DEF paid
  <2>3. EscrowClaim(paid) =
          [terms |-> [depositor |-> e.payer, beneficiary |-> e.merchant, currency |-> e.token,
                      amount |-> e.amount, deadline |-> e.unlock_at, refereed |-> FALSE],
           paid |-> PaidTo(s)]
    BY <2>1, <2>2 DEF EscrowClaim
  <2>4. EscrowClaim(paid) = [EscrowClaim(e) EXCEPT !.paid = PaidTo(s)]
    <3> DEFINE before == EscrowClaim(e)
               after == EscrowClaim(paid)
               terms == [depositor |-> e.payer, beneficiary |-> e.merchant, currency |-> e.token,
                         amount |-> e.amount, deadline |-> e.unlock_at, refereed |-> FALSE]
    <3>1. before = [terms |-> terms, paid |-> PaidTo(e.status)]
          /\ after = [terms |-> terms, paid |-> PaidTo(s)]
      BY <1>3, <2>3
    <3> HIDE DEF before, after, terms
    <3>2. after = [before EXCEPT !.paid = PaidTo(s)]
      BY <3>1
    <3> QED BY <3>2 DEF before, after
  <2> QED BY <2>4 DEF paid
<1> QED BY <1>3, <1>4, <1>5, <1>6

LEMMA HoldAsClaim ==
    ASSUME NEW h \in HoldRecord
    PROVE  /\ HoldClaim(h) \in Claimed /\ HoldClaim(h) # NoEntry
           /\ HoldClaim(h).terms.deadline = h.timeout_at /\ HoldClaim(h).terms.refereed
           /\ HoldClaim(h).terms.depositor = h.payer
           /\ HoldClaim(h).terms.beneficiary = h.merchant
           /\ HoldClaim(h).terms.currency = h.token
           /\ HoldClaim(h).terms.amount = h.amount
           /\ HoldClaim(h).paid = PaidTo(h.status)
           /\ \A s \in {"Released", "Cancelled"} :
                 HoldClaim([h EXCEPT !.status = s]) = [HoldClaim(h) EXCEPT !.paid = PaidTo(s)]
<1>1. h # NoEntry
  OBVIOUS
<1>2. PaidTo(h.status) \in {"no", "beneficiary", "depositor"}
  BY DEF PaidTo, HoldRecord
<1>3. HoldClaim(h) =
        [terms |-> [depositor |-> h.payer, beneficiary |-> h.merchant, currency |-> h.token,
                    amount |-> h.amount, deadline |-> h.timeout_at, refereed |-> TRUE],
         paid |-> PaidTo(h.status)]
  BY <1>1 DEF HoldClaim
<1>4. HoldClaim(h) \in Claimed
  BY <1>2, <1>3 DEF HoldRecord, Claimed, Service!Terms
<1>5. HoldClaim(h) # NoEntry
  BY <1>4, ClaimAssumption DEF Claimed
<1>6. ASSUME NEW s \in {"Released", "Cancelled"}
      PROVE  HoldClaim([h EXCEPT !.status = s]) = [HoldClaim(h) EXCEPT !.paid = PaidTo(s)]
  <2> DEFINE paid == [h EXCEPT !.status = s]
  <2>1. paid \in HoldRecord /\ paid.status = s
    BY DEF HoldRecord
  <2>2. /\ paid.payer = h.payer /\ paid.merchant = h.merchant /\ paid.token = h.token
        /\ paid.amount = h.amount /\ paid.timeout_at = h.timeout_at
    BY DEF HoldRecord
  <2> HIDE DEF paid
  <2>3. HoldClaim(paid) =
          [terms |-> [depositor |-> h.payer, beneficiary |-> h.merchant, currency |-> h.token,
                      amount |-> h.amount, deadline |-> h.timeout_at, refereed |-> TRUE],
           paid |-> PaidTo(s)]
    BY <2>1, <2>2 DEF HoldClaim
  <2>4. HoldClaim(paid) = [HoldClaim(h) EXCEPT !.paid = PaidTo(s)]
    <3> DEFINE before == HoldClaim(h)
               after == HoldClaim(paid)
               terms == [depositor |-> h.payer, beneficiary |-> h.merchant, currency |-> h.token,
                         amount |-> h.amount, deadline |-> h.timeout_at, refereed |-> TRUE]
    <3>1. before = [terms |-> terms, paid |-> PaidTo(h.status)]
          /\ after = [terms |-> terms, paid |-> PaidTo(s)]
      BY <1>3, <2>3
    <3> HIDE DEF before, after, terms
    <3>2. after = [before EXCEPT !.paid = PaidTo(s)]
      BY <3>1
    <3> QED BY <3>2 DEF before, after
  <2> QED BY <2>4 DEF paid
<1> QED BY <1>3, <1>4, <1>5, <1>6

\* Writing one record changes that record's claim and no other.
LEMMA EscrowWritten ==
    ASSUME NEW i \in EscrowIds, NEW r, escrow' = [escrow EXCEPT ![i] = r], hold' = hold,
           DOMAIN escrow = EscrowIds
    PROVE  AllClaims' = [AllClaims EXCEPT ![<<"escrow", i>>] = EscrowClaim(r)]
<1> DEFINE f == [AllClaims EXCEPT ![<<"escrow", i>>] = EscrowClaim(r)]
<1>1. f = [c \in ClaimIds |-> IF c = <<"escrow", i>> THEN EscrowClaim(r) ELSE AllClaims[c]]
  BY DEF AllClaims
<1>2. ASSUME NEW c \in ClaimIds
      PROVE  (IF c[1] = "escrow" THEN EscrowClaim(escrow'[c[2]]) ELSE HoldClaim(hold'[c[2]]))
             = IF c = <<"escrow", i>> THEN EscrowClaim(r) ELSE AllClaims[c]
  <2>1. ASSUME NEW j \in EscrowIds, c = <<"escrow", j>>
        PROVE  (IF c[1] = "escrow" THEN EscrowClaim(escrow'[c[2]]) ELSE HoldClaim(hold'[c[2]]))
               = IF c = <<"escrow", i>> THEN EscrowClaim(r) ELSE AllClaims[c]
    <3>1. escrow'[j] = IF j = i THEN r ELSE escrow[j]
      OBVIOUS
    <3>2. AllClaims[c] = EscrowClaim(escrow[j])
      BY <2>1, ClaimLookup
    <3> QED BY <2>1, <3>1, <3>2
  <2>2. ASSUME NEW j \in HoldIds, c = <<"hold", j>>
        PROVE  (IF c[1] = "escrow" THEN EscrowClaim(escrow'[c[2]]) ELSE HoldClaim(hold'[c[2]]))
               = IF c = <<"escrow", i>> THEN EscrowClaim(r) ELSE AllClaims[c]
    BY <2>2, ClaimLookup
  <2> QED BY <2>1, <2>2, ClaimKinds
<1>3. AllClaims' =
        [c \in ClaimIds |-> IF c[1] = "escrow" THEN EscrowClaim(escrow'[c[2]])
                                               ELSE HoldClaim(hold'[c[2]])]
  BY DEF AllClaims
<1> HIDE DEF f
<1>4. AllClaims' = f
  BY <1>1, <1>2, <1>3
<1> QED BY <1>4 DEF f

LEMMA HoldWritten ==
    ASSUME NEW i \in HoldIds, NEW r, hold' = [hold EXCEPT ![i] = r], escrow' = escrow,
           DOMAIN hold = HoldIds
    PROVE  AllClaims' = [AllClaims EXCEPT ![<<"hold", i>>] = HoldClaim(r)]
<1> DEFINE f == [AllClaims EXCEPT ![<<"hold", i>>] = HoldClaim(r)]
<1>1. f = [c \in ClaimIds |-> IF c = <<"hold", i>> THEN HoldClaim(r) ELSE AllClaims[c]]
  BY DEF AllClaims
<1>2. ASSUME NEW c \in ClaimIds
      PROVE  (IF c[1] = "escrow" THEN EscrowClaim(escrow'[c[2]]) ELSE HoldClaim(hold'[c[2]]))
             = IF c = <<"hold", i>> THEN HoldClaim(r) ELSE AllClaims[c]
  <2>1. ASSUME NEW j \in HoldIds, c = <<"hold", j>>
        PROVE  (IF c[1] = "escrow" THEN EscrowClaim(escrow'[c[2]]) ELSE HoldClaim(hold'[c[2]]))
               = IF c = <<"hold", i>> THEN HoldClaim(r) ELSE AllClaims[c]
    <3>1. hold'[j] = IF j = i THEN r ELSE hold[j]
      OBVIOUS
    <3>2. AllClaims[c] = HoldClaim(hold[j])
      BY <2>1, ClaimLookup
    <3> QED BY <2>1, <3>1, <3>2
  <2>2. ASSUME NEW j \in EscrowIds, c = <<"escrow", j>>
        PROVE  (IF c[1] = "escrow" THEN EscrowClaim(escrow'[c[2]]) ELSE HoldClaim(hold'[c[2]]))
               = IF c = <<"hold", i>> THEN HoldClaim(r) ELSE AllClaims[c]
    BY <2>2, ClaimLookup
  <2> QED BY <2>1, <2>2, ClaimKinds
<1>3. AllClaims' =
        [c \in ClaimIds |-> IF c[1] = "escrow" THEN EscrowClaim(escrow'[c[2]])
                                               ELSE HoldClaim(hold'[c[2]])]
  BY DEF AllClaims
<1> HIDE DEF f
<1>4. AllClaims' = f
  BY <1>1, <1>2, <1>3
<1> QED BY <1>4 DEF f

\* What a transfer into or out of the pot makes of what the service holds.
LEMMA PotAfter ==
    ASSUME TypeOK, NEW t \in Tokens, NEW h \in Accounts, NEW a \in Nat
    PROVE  /\ Transfer(t, h, Contract, a) /\ donated' = donated
                => Pot' = [Pot EXCEPT ![t] = @ + a]
           /\ Transfer(t, Contract, h, a) /\ donated' = donated
                => Pot' = [Pot EXCEPT ![t] = @ - a]
           /\ Transfer(t, h, Contract, a) /\ donated' = [donated EXCEPT ![t] = @ + a]
                => Pot' = Pot
<1>0. /\ balance \in [Tokens -> [Holders -> Nat]] /\ Contract \in Holders /\ h \in Holders
      /\ h # Contract /\ donated \in [Tokens -> Nat]
  BY DEF TypeOK, EnvTypeOK, Holders
<1>1. Pot' = [u \in Tokens |-> balance'[u][Contract] - donated'[u]]
  BY DEF Pot
<1>2. \A u \in Tokens : Pot[u] = balance[u][Contract] - donated[u]
  BY DEF Pot
<1>2a. \A u \in Tokens : balance[u][Contract] \in Nat /\ donated[u] \in Nat
  BY <1>0
<1>3. ASSUME Transfer(t, h, Contract, a)
      PROVE  \A u \in Tokens :
                balance'[u][Contract] = IF u = t THEN balance[u][Contract] + a
                                                 ELSE balance[u][Contract]
  BY <1>0, <1>3, TransferFacts
<1>4. ASSUME Transfer(t, Contract, h, a)
      PROVE  \A u \in Tokens :
                balance'[u][Contract] = IF u = t THEN balance[u][Contract] - a
                                                 ELSE balance[u][Contract]
  BY <1>0, <1>4, TransferFacts
<1>5. \A v : [Pot EXCEPT ![t] = v] = [u \in Tokens |-> IF u = t THEN v ELSE Pot[u]]
  BY DEF Pot
<1>6. ASSUME Transfer(t, h, Contract, a), donated' = donated
      PROVE  Pot' = [Pot EXCEPT ![t] = Pot[t] + a]
  <2>1. \A u \in Tokens : balance'[u][Contract] - donated'[u]
                          = IF u = t THEN Pot[t] + a ELSE Pot[u]
    BY <1>2, <1>2a, <1>3, <1>6
  <2> QED BY <1>1, <1>5, <2>1
<1>7. ASSUME Transfer(t, Contract, h, a), donated' = donated
      PROVE  Pot' = [Pot EXCEPT ![t] = Pot[t] - a]
  <2>1. \A u \in Tokens : balance'[u][Contract] - donated'[u]
                          = IF u = t THEN Pot[t] - a ELSE Pot[u]
    BY <1>2, <1>2a, <1>4, <1>7
  <2> QED BY <1>1, <1>5, <2>1
<1>8. ASSUME Transfer(t, h, Contract, a), donated' = [donated EXCEPT ![t] = @ + a]
      PROVE  Pot' = Pot
  <2>1. \A u \in Tokens : balance'[u][Contract] - donated'[u] = balance[u][Contract] - donated[u]
    BY <1>0, <1>2a, <1>3, <1>8
  <2> QED BY <1>1, <2>1 DEF Pot
<1> QED BY <1>6, <1>7, <1>8

\* What a transfer into or out of the pot makes of the accounts' own money.
LEMMA PurseAfter ==
    ASSUME TypeOK, NEW t \in Tokens, NEW h \in Accounts, NEW a \in Nat
    PROVE  /\ Transfer(t, h, Contract, a)
                => Purse[t][h] >= a /\ Purse' = [Purse EXCEPT ![t][h] = @ - a]
           /\ Transfer(t, Contract, h, a) => Purse' = [Purse EXCEPT ![t][h] = @ + a]
<1>0. /\ balance \in [Tokens -> [Holders -> Nat]] /\ Contract \in Holders
      /\ Accounts \subseteq Holders /\ Contract \notin Accounts
  BY DEF TypeOK, EnvTypeOK, Holders
<1>1. \A u \in Tokens, g \in Accounts : Purse[u][g] = balance[u][g]
  BY DEF Purse
<1>2. Purse' = [u \in Tokens |-> [g \in Accounts |-> balance'[u][g]]]
  BY DEF Purse
<1>3. \A v : [Purse EXCEPT ![t][h] = v]
             = [u \in Tokens |-> [g \in Accounts |-> IF u = t /\ g = h THEN v ELSE Purse[u][g]]]
  BY DEF Purse
<1>4. \A u \in Tokens, g \in Accounts : balance[u][g] \in Nat
  BY <1>0
<1>5. ASSUME NEW from \in Holders, NEW to \in Holders, Transfer(t, from, to, a)
      PROVE  \A u \in Tokens, g \in Accounts :
                balance'[u][g] = IF u = t THEN Moved(balance[t], from, to, a)[g] ELSE balance[u][g]
  <2>1. balance' = [balance EXCEPT ![t] = Moved(balance[t], from, to, a)]
    BY <1>5 DEF Transfer
  <2> QED BY <1>0, <2>1
<1>6. ASSUME Transfer(t, h, Contract, a)
      PROVE  Purse[t][h] >= a /\ Purse' = [Purse EXCEPT ![t][h] = Purse[t][h] - a]
  <2>1. Purse[t][h] >= a
    BY <1>1, <1>6 DEF Transfer
  <2>2. \A g \in Accounts :
            Moved(balance[t], h, Contract, a)[g] = IF g = h THEN balance[t][g] - a ELSE balance[t][g]
    BY <1>0, <1>4 DEF Moved
  <2>3. \A u \in Tokens, g \in Accounts :
            balance'[u][g] = IF u = t THEN Moved(balance[t], h, Contract, a)[g] ELSE balance[u][g]
    BY <1>0, <1>5, <1>6
  <2>4. ASSUME NEW u \in Tokens, NEW g \in Accounts
        PROVE  balance'[u][g] = IF u = t /\ g = h THEN Purse[t][h] - a ELSE Purse[u][g]
    <3>1. Purse[u][g] = balance[u][g] /\ Purse[t][h] = balance[t][h]
      BY <1>1
    <3>2. CASE u = t
      BY <2>2, <2>3, <3>1, <3>2
    <3>3. CASE u # t
      BY <2>2, <2>3, <3>1, <3>3
    <3> QED BY <3>2, <3>3
  <2> DEFINE v == Purse[t][h] - a
  <2>5. \A u \in Tokens, g \in Accounts : balance'[u][g] = IF u = t /\ g = h THEN v ELSE Purse[u][g]
    BY <2>4
  <2> HIDE DEF v
  <2>6. Purse' = [u \in Tokens |-> [g \in Accounts |-> IF u = t /\ g = h THEN v ELSE Purse[u][g]]]
    BY <1>2, <2>5
  <2>7. Purse' = [Purse EXCEPT ![t][h] = v]
    BY <1>3, <2>6
  <2> QED BY <2>1, <2>7 DEF v
<1>7. ASSUME Transfer(t, Contract, h, a)
      PROVE  Purse' = [Purse EXCEPT ![t][h] = Purse[t][h] + a]
  <2>1. \A g \in Accounts :
            Moved(balance[t], Contract, h, a)[g] = IF g = h THEN balance[t][g] + a ELSE balance[t][g]
    BY <1>0, <1>4 DEF Moved
  <2>2. \A u \in Tokens, g \in Accounts :
            balance'[u][g] = IF u = t THEN Moved(balance[t], Contract, h, a)[g] ELSE balance[u][g]
    BY <1>0, <1>5, <1>7
  <2>3. ASSUME NEW u \in Tokens, NEW g \in Accounts
        PROVE  balance'[u][g] = IF u = t /\ g = h THEN Purse[t][h] + a ELSE Purse[u][g]
    <3>1. Purse[u][g] = balance[u][g] /\ Purse[t][h] = balance[t][h]
      BY <1>1
    <3>2. CASE u = t
      BY <2>1, <2>2, <3>1, <3>2
    <3>3. CASE u # t
      BY <2>1, <2>2, <3>1, <3>3
    <3> QED BY <3>2, <3>3
  <2> DEFINE v == Purse[t][h] + a
  <2>4. \A u \in Tokens, g \in Accounts : balance'[u][g] = IF u = t /\ g = h THEN v ELSE Purse[u][g]
    BY <2>3
  <2> HIDE DEF v
  <2>5. Purse' = [u \in Tokens |-> [g \in Accounts |-> IF u = t /\ g = h THEN v ELSE Purse[u][g]]]
    BY <1>2, <2>4
  <2>6. Purse' = [Purse EXCEPT ![t][h] = v]
    BY <1>3, <2>5
  <2> QED BY <2>6 DEF v
<1> QED BY <1>6, <1>7

\* A deposit opens a claim on the record's own terms.
LEMMA EscrowOpens ==
    ASSUME TypeOK, NEW i \in EscrowIds, NEW r \in EscrowRecord, DepositsEscrow(i, r)
    PROVE  Service!Next
<1> DEFINE c == <<"escrow", i>>
<1>1. c \in ClaimIds /\ AllClaims[c] = NoEntry
  BY ClaimKinds, ClaimLookup DEF DepositsEscrow, EscrowClaim
<1>2. r.status = "Locked" /\ r.unlock_at > now
  BY DEF DepositsEscrow
<1>3. /\ EscrowClaim(r) \in Claimed /\ EscrowClaim(r) # NoEntry
      /\ EscrowClaim(r).terms.deadline = r.unlock_at
      /\ EscrowClaim(r).terms.currency = r.token
      /\ EscrowClaim(r).terms.amount = r.amount
      /\ EscrowClaim(r).terms.depositor = r.payer
      /\ EscrowClaim(r).paid = "no"
  BY <1>2, EscrowAsClaim DEF PaidTo
<1>4. AllClaims' = [AllClaims EXCEPT ![c] = EscrowClaim(r)]
  BY EscrowWritten DEF DepositsEscrow, TypeOK
<1>5. Pot' = [Pot EXCEPT ![r.token] = @ + r.amount]
  <2>1. r.token \in Tokens /\ r.payer \in Accounts /\ r.amount \in Nat
    BY DEF EscrowRecord
  <2> QED BY <2>1, PotAfter DEF DepositsEscrow
<1>5a. Purse[r.token][r.payer] >= r.amount
       /\ Purse' = [Purse EXCEPT ![r.token][r.payer] = @ - r.amount]
  <2>1. r.token \in Tokens /\ r.payer \in Accounts /\ r.amount \in Nat
    BY DEF EscrowRecord
  <2> QED BY <2>1, PurseAfter DEF DepositsEscrow
<1> DEFINE new == EscrowClaim(r)
<1>6. new = [terms |-> new.terms, paid |-> "no"] /\ new.terms \in Service!Terms
  BY <1>3 DEF Claimed
<1>7. AllClaims'[c] = new
  BY <1>1, <1>4 DEF AllClaims
<1>8. now' = now
  BY DEF DepositsEscrow
<1> HIDE DEF new, c
<1>9. Service!Open(c, new.terms)
  BY <1>1, <1>2, <1>3, <1>4, <1>5, <1>5a, <1>6, <1>8 DEF Service!Open, new
<1> QED BY <1>1, <1>3, <1>7, <1>9 DEF Service!Next, new

LEMMA HoldOpens ==
    ASSUME TypeOK, NEW i \in HoldIds, NEW r \in HoldRecord, DepositsHold(i, r)
    PROVE  Service!Next
<1> DEFINE c == <<"hold", i>>
<1>1. c \in ClaimIds /\ AllClaims[c] = NoEntry
  BY ClaimKinds, ClaimLookup DEF DepositsHold, HoldClaim
<1>2. r.status = "Held" /\ r.timeout_at > now
  BY DEF DepositsHold
<1>3. /\ HoldClaim(r) \in Claimed /\ HoldClaim(r) # NoEntry
      /\ HoldClaim(r).terms.deadline = r.timeout_at
      /\ HoldClaim(r).terms.currency = r.token
      /\ HoldClaim(r).terms.amount = r.amount
      /\ HoldClaim(r).terms.depositor = r.payer
      /\ HoldClaim(r).paid = "no"
  BY <1>2, HoldAsClaim DEF PaidTo
<1>4. AllClaims' = [AllClaims EXCEPT ![c] = HoldClaim(r)]
  BY HoldWritten DEF DepositsHold, TypeOK
<1>5. Pot' = [Pot EXCEPT ![r.token] = @ + r.amount]
  <2>1. r.token \in Tokens /\ r.payer \in Accounts /\ r.amount \in Nat
    BY DEF HoldRecord
  <2> QED BY <2>1, PotAfter DEF DepositsHold
<1>5a. Purse[r.token][r.payer] >= r.amount
       /\ Purse' = [Purse EXCEPT ![r.token][r.payer] = @ - r.amount]
  <2>1. r.token \in Tokens /\ r.payer \in Accounts /\ r.amount \in Nat
    BY DEF HoldRecord
  <2> QED BY <2>1, PurseAfter DEF DepositsHold
<1> DEFINE new == HoldClaim(r)
<1>6. new = [terms |-> new.terms, paid |-> "no"] /\ new.terms \in Service!Terms
  BY <1>3 DEF Claimed
<1>7. AllClaims'[c] = new
  BY <1>1, <1>4 DEF AllClaims
<1>8. now' = now
  BY DEF DepositsHold
<1> HIDE DEF new, c
<1>9. Service!Open(c, new.terms)
  BY <1>1, <1>2, <1>3, <1>4, <1>5, <1>5a, <1>6, <1>8 DEF Service!Open, new
<1> QED BY <1>1, <1>3, <1>7, <1>9 DEF Service!Next, new

\* A payout pays the claim, to the side its deadline allows.
LEMMA EscrowPays ==
    ASSUME TypeOK, NEW i \in EscrowIds, PaysEscrow(i)
    PROVE  Service!Next
<1> DEFINE c == <<"escrow", i>>
           e == escrow[i]
<1>1. PICK s \in {"Released", "Cancelled"}, to \in Accounts :
          /\ IsLocked(i) /\ FinaliseEscrow(i, s, to)
          /\ s = "Released" => to = e.merchant /\ now >= e.unlock_at
          /\ s = "Cancelled" => to = e.payer /\ now < e.unlock_at
  BY DEF PaysEscrow
<1>2. c \in ClaimIds /\ AllClaims[c] = EscrowClaim(e)
  BY ClaimKinds, ClaimLookup
<1>3. e \in EscrowRecord /\ e.status = "Locked"
  BY <1>1 DEF IsLocked, TypeOK
<1>4. /\ EscrowClaim(e) # NoEntry /\ EscrowClaim(e).paid = "no"
      /\ EscrowClaim(e).terms.deadline = e.unlock_at
      /\ EscrowClaim(e).terms.depositor = e.payer /\ EscrowClaim(e).terms.beneficiary = e.merchant
      /\ EscrowClaim(e).terms.currency = e.token /\ EscrowClaim(e).terms.amount = e.amount
      /\ EscrowClaim([e EXCEPT !.status = s]) = [EscrowClaim(e) EXCEPT !.paid = PaidTo(s)]
  BY <1>3, EscrowAsClaim DEF PaidTo
<1>5. escrow' = [escrow EXCEPT ![i] = [e EXCEPT !.status = s]] /\ hold' = hold
  BY <1>1 DEF FinaliseEscrow
<1>6. AllClaims' = [AllClaims EXCEPT ![c] = EscrowClaim([e EXCEPT !.status = s])]
  BY <1>5, EscrowWritten, Zenon DEF TypeOK
<1>7. AllClaims' = [AllClaims EXCEPT ![c].paid = PaidTo(s)]
  BY <1>2, <1>4, <1>6
<1>8. Pot' = [Pot EXCEPT ![e.token] = @ - e.amount]
  <2>1. e.token \in Tokens /\ e.amount \in Nat
    BY <1>3 DEF EscrowRecord
  <2> QED BY <1>1, <2>1, PotAfter DEF FinaliseEscrow
<1>8a. Purse' = [Purse EXCEPT ![e.token][to] = @ + e.amount]
  <2>1. e.token \in Tokens /\ e.amount \in Nat
    BY <1>3 DEF EscrowRecord
  <2> QED BY <1>1, <2>1, PurseAfter DEF FinaliseEscrow
<1>9. now' = now
  BY <1>1 DEF FinaliseEscrow
<1> HIDE DEF c, e
<1>10. Service!Pay(c, PaidTo(s), to)
  BY <1>2, <1>4, <1>7, <1>8, <1>8a, <1>9 DEF Service!Pay, Service!IsOpen
<1>11. CASE s = "Released"
  <2>1. Service!Release(c)
    BY <1>1, <1>2, <1>4, <1>10, <1>11 DEF Service!Release, PaidTo
  <2> QED BY <1>2, <2>1 DEF Service!Next
<1>12. CASE s = "Cancelled"
  <2>1. Service!Return(c)
    BY <1>1, <1>2, <1>4, <1>10, <1>12 DEF Service!Return, PaidTo
  <2> QED BY <1>2, <2>1 DEF Service!Next
<1> QED BY <1>11, <1>12

LEMMA HoldPays ==
    ASSUME TypeOK, NEW i \in HoldIds, PaysHold(i)
    PROVE  Service!Next
<1> DEFINE c == <<"hold", i>>
           h == hold[i]
<1>1. PICK s \in {"Released", "Cancelled"}, to \in Accounts :
          /\ IsHeld(i) /\ FinaliseHold(i, s, to)
          /\ s = "Released" => to = h.merchant
          /\ s = "Cancelled" => to = h.payer /\ now < h.timeout_at
  BY DEF PaysHold
<1>2. c \in ClaimIds /\ AllClaims[c] = HoldClaim(h)
  BY ClaimKinds, ClaimLookup
<1>3. h \in HoldRecord /\ h.status = "Held"
  BY <1>1 DEF IsHeld, TypeOK
<1>4. /\ HoldClaim(h) # NoEntry /\ HoldClaim(h).paid = "no"
      /\ HoldClaim(h).terms.deadline = h.timeout_at /\ HoldClaim(h).terms.refereed
      /\ HoldClaim(h).terms.depositor = h.payer /\ HoldClaim(h).terms.beneficiary = h.merchant
      /\ HoldClaim(h).terms.currency = h.token /\ HoldClaim(h).terms.amount = h.amount
      /\ HoldClaim([h EXCEPT !.status = s]) = [HoldClaim(h) EXCEPT !.paid = PaidTo(s)]
  BY <1>3, HoldAsClaim DEF PaidTo
<1>5. hold' = [hold EXCEPT ![i] = [h EXCEPT !.status = s]] /\ escrow' = escrow
  BY <1>1 DEF FinaliseHold
<1>6. AllClaims' = [AllClaims EXCEPT ![c] = HoldClaim([h EXCEPT !.status = s])]
  BY <1>5, HoldWritten, Zenon DEF TypeOK
<1>7. AllClaims' = [AllClaims EXCEPT ![c].paid = PaidTo(s)]
  BY <1>2, <1>4, <1>6
<1>8. Pot' = [Pot EXCEPT ![h.token] = @ - h.amount]
  <2>1. h.token \in Tokens /\ h.amount \in Nat
    BY <1>3 DEF HoldRecord
  <2> QED BY <1>1, <2>1, PotAfter DEF FinaliseHold
<1>8a. Purse' = [Purse EXCEPT ![h.token][to] = @ + h.amount]
  <2>1. h.token \in Tokens /\ h.amount \in Nat
    BY <1>3 DEF HoldRecord
  <2> QED BY <1>1, <2>1, PurseAfter DEF FinaliseHold
<1>9. now' = now
  BY <1>1 DEF FinaliseHold
<1> HIDE DEF c, h
<1>10. Service!Pay(c, PaidTo(s), to)
  BY <1>2, <1>4, <1>7, <1>8, <1>8a, <1>9 DEF Service!Pay, Service!IsOpen
<1>11. CASE s = "Released"
  <2>1. Service!Release(c)
    BY <1>1, <1>2, <1>4, <1>10, <1>11 DEF Service!Release, PaidTo
  <2> QED BY <1>2, <2>1 DEF Service!Next
<1>12. CASE s = "Cancelled"
  <2>1. Service!Return(c)
    BY <1>1, <1>2, <1>4, <1>10, <1>12 DEF Service!Return, PaidTo
  <2> QED BY <1>2, <2>1 DEF Service!Next
<1> QED BY <1>11, <1>12

\* Every step of the handlers is a step of the service, or the service does
\* not notice it.
LEMMA CustodyStep ==
    ASSUME TypeOK, [Next]_vars
    PROVE  [Service!Next]_(Service!custodyVars)
<1>1. ASSUME UNCHANGED <<now, balance, escrow, hold, donated>>
      PROVE  UNCHANGED Service!custodyVars
  BY <1>1 DEF Service!custodyVars, AllClaims, Pot, Purse
<1>2. ASSUME NEW p \in Accounts, NEW t \in Tokens, NEW a \in Nat, Donate(p, t, a)
      PROVE  Service!Next
  <2>1. Pot' = Pot
    BY <1>2, PotAfter DEF Donate
  <2>2. now' = now /\ AllClaims' = AllClaims
    BY <1>2 DEF Donate, AllClaims
  <2>3. Purse[t][p] >= a /\ Purse' = [Purse EXCEPT ![t][p] = @ - a]
    BY <1>2, PurseAfter DEF Donate
  <2>4. Purse[t][p] \in Nat /\ Purse'[t][p] = Purse[t][p] - a
    <3>1. Purse[t][p] \in Nat
      BY DEF Purse, TypeOK, EnvTypeOK, Holders
    <3>2. DOMAIN Purse = Tokens /\ DOMAIN Purse[t] = Accounts
      BY DEF Purse
    <3> QED BY <2>3, <3>1, <3>2
  <2> DEFINE rest == Purse[t][p] - a
  <2>5. rest \in 0..Purse[t][p] /\ Purse' = [Purse EXCEPT ![t][p] = rest]
    BY <2>3, <2>4
  <2>6. rest = Purse'[t][p]
    BY <2>4
  <2> HIDE DEF rest
  <2>7. Service!Spend(t, p, rest)
    BY <2>1, <2>2, <2>5 DEF Service!Spend
  <2>8. Service!Spend(t, p, Purse'[t][p])
    BY <2>6, <2>7, Zenon
  <2> QED BY <2>8 DEF Service!Next
<1>3. CASE Environment
  <2>1. balance' = balance /\ UNCHANGED <<escrow, hold, donated>>
    BY <1>3, EnvNextFacts DEF Environment, TypeOK
  <2>2. now' = now \/ now' = now + 1
    BY <1>3 DEF Environment, EnvNext, AdvanceTime, set_paused, set_merchant_active,
                set_token_allowed
  <2>3. CASE now' = now
    BY <1>1, <2>1, <2>3
  <2>4. CASE now' = now + 1
    <3>1. AllClaims' = AllClaims /\ Pot' = Pot /\ Purse' = Purse
      BY <2>1 DEF AllClaims, Pot, Purse
    <3>2. Service!Tick
      BY <2>4, <3>1 DEF Service!Tick
    <3> QED BY <3>2 DEF Service!Next
  <2> QED BY <2>2, <2>3, <2>4
<1>4. CASE UNCHANGED vars
  BY <1>1, <1>4 DEF vars, envVars
<1>5. CASE Next
  BY <1>2, <1>3, <1>5, StepKinds, EscrowOpens, HoldOpens, EscrowPays, HoldPays
<1> QED BY <1>4, <1>5

\* The six handlers are one custody service: whatever the number of records,
\* accounts and tokens, each record pays out at most once, in full, into the
\* balance of the side its deadline allows, on terms that never change, and no
\* other account gains anything (create_escrow ..
\* escrow_cancel against module Custody).
THEOREM EscrowImplementsCustody == Spec => ImplementsCustody
<1>1. Init => Service!Init
  <2> SUFFICES ASSUME Init PROVE Service!Init
    OBVIOUS
  <2>1. now = 0
    BY DEF Init, EnvInit
  <2>2. AllClaims = [c \in ClaimIds |-> NoEntry]
    <3>1. \A c \in ClaimIds : AllClaims[c] = NoEntry
      BY ClaimKinds, ClaimLookup DEF Init, EscrowClaim, HoldClaim
    <3> QED BY <3>1 DEF AllClaims
  <2>3. Pot = [t \in Tokens |-> 0]
    <3>1. \A t \in Tokens : balance[t][Contract] = 0 /\ donated[t] = 0
      BY DEF Init, EnvInit, Holders
    <3> QED BY <3>1 DEF Pot
  <2>4. Purse \in [Tokens -> [Accounts -> Nat]]
    <3>1. \A t \in Tokens, a \in Accounts : balance[t][a] \in Nat
      BY DEF Init, EnvInit, Holders
    <3> QED BY <3>1 DEF Purse
  <2> QED BY <2>1, <2>2, <2>3, <2>4 DEF Service!Init
<1>2. TypeOK /\ [Next]_vars => [Service!Next]_(Service!custodyVars)
  BY CustodyStep
<1> QED BY <1>1, <1>2, EscrowTypeCorrect, PTL DEF Spec, ImplementsCustody, Service!Spec

=============================================================================
