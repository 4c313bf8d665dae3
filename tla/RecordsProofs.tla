---------------------------- MODULE RecordsProofs ----------------------------
(***************************************************************************)
(* What is kept about merchants and payments, and how it is read page by   *)
(* page.                                                                   *)
(*                                                                         *)
(* Merchants: the list, count and referrals agree with the profiles, and a *)
(* reader of the list misses nobody, for every set of addresses and every  *)
(* page size; a commitment is honoured at its age, however long the        *)
(* network keeps an entry.                                                 *)
(*                                                                         *)
(* Histories: a reader whose cursor goes on matching, in a list that is    *)
(* sorted stably, gets every payment that matched all the while, and none  *)
(* twice, for every filter, sort and page size, whatever is paid, agreed,  *)
(* refunded, overridden and archived between two pages.                    *)
(***************************************************************************)
EXTENDS Registry, Histories, FiniteSetTheorems, SequenceTheorems, NaturalsInduction, TLAPS

-----------------------------------------------------------------------------
(* Merchants *)

\* Who refers and who is referred is registered.
Referrers ==
    \A b \in Addresses : referred_by[b] # NoEntry =>
        IsRegistered(b) /\ IsRegistered(referred_by[b])

\* The reader has seen a beginning of the list, and its cursor is where it stopped.
SeenFirst ==
    /\ Len(walk.seen) <= Len(merchant_list)
    /\ \A i \in 1..Len(walk.seen) : walk.seen[i] = merchant_list[i]
    /\ walk.cursor = IF walk.seen = <<>> THEN NoEntry ELSE walk.seen[Len(walk.seen)]

Inv == RegistryAgrees /\ Referrers /\ SeenFirst

-----------------------------------------------------------------------------
(* The list *)

\* What appending adds to the entries of a list.
LEMMA AppendEntries ==
    ASSUME NEW s \in Seq(Addresses), NEW a \in Addresses
    PROVE  /\ Append(s, a) \in Seq(Addresses)
           /\ Entries(Append(s, a)) = Entries(s) \cup {a}
<1>1. /\ Append(s, a) \in Seq(Addresses)
      /\ Len(Append(s, a)) = Len(s) + 1
      /\ \A i \in 1..Len(s) : Append(s, a)[i] = s[i]
      /\ Append(s, a)[Len(s) + 1] = a
  BY AppendProperties
<1>2. 1..Len(s) + 1 = 1..Len(s) \cup {Len(s) + 1}
  OBVIOUS
<1>3. Entries(Append(s, a)) = {Append(s, a)[i] : i \in 1..Len(s) \cup {Len(s) + 1}}
  BY <1>1, <1>2 DEF Entries
<1> QED
  BY <1>1, <1>3 DEF Entries

\* What is in the list once has one position.
LEMMA PositionOfEntry ==
    ASSUME NEW s, NEW n \in 1..Len(s), Len(s) \in Nat,
           \A i, j \in 1..Len(s) : s[i] = s[j] => i = j
    PROVE  Position(s, s[n]) = n
<1>1. s[n] = s[n] /\ \A j \in 1..n - 1 : s[j] # s[n]
  OBVIOUS
<1>2. \A i \in 1..Len(s) : s[i] = s[n] => i = n
  OBVIOUS
<1> QED
  BY <1>1, <1>2 DEF Position

-----------------------------------------------------------------------------
(* The steps *)

LEMMA InitInv == Init => Inv
<1> SUFFICES ASSUME Init PROVE Inv
  OBVIOUS
<1> USE RegistryAssumption DEF RegistryAssumption, Init
<1>1. TypeOK
  <2>1. <<>> \in Seq(Addresses)
    BY EmptySeq
  <2>2. walk \in [cursor : Addresses \cup {NoEntry}, seen : Seq(Addresses), done : BOOLEAN]
    BY <2>1 DEF Start
  <2>3. /\ merchant \in [Addresses -> Merchant \cup {NoEntry}]
        /\ commitment \in [Addresses -> MerchantCommitment \cup {NoEntry}]
        /\ referred_by \in [Addresses -> Addresses \cup {NoEntry}]
    OBVIOUS
  <2>4. ledger \in 0..MaxLedger /\ active_merchants \in Nat
    OBVIOUS
  <2>5. merchant_list \in Seq(Addresses)
    BY <2>1
  <2>6. paused \in BOOLEAN /\ repeated \in BOOLEAN
    OBVIOUS
  <2> QED
    BY ONLY <2>2, <2>3, <2>4, <2>5, <2>6 DEF TypeOK
<1>2. ListExact
  BY DEF ListExact, IsRegistered, Entries
<1>3. ActiveCounted
  <2>1. Active = {}
    BY DEF Active, IsRegistered
  <2> QED
    BY <2>1, FS_EmptySet DEF ActiveCounted
<1>4. ReferralsCounted /\ Referrers /\ SeenFirst
  BY DEF ReferralsCounted, Referrers, SeenFirst, Start, IsRegistered
<1> QED
  BY <1>1, <1>2, <1>3, <1>4 DEF Inv, RegistryAgrees

LEMMA ActiveFinite == IsFiniteSet(Active) /\ Cardinality(Active) \in Nat
<1>1. Active \in SUBSET Addresses
  BY DEF Active
<1> QED
  BY <1>1, RegistryAssumption, FS_Subset, FS_CardinalityType DEF RegistryAssumption

\* A registration, with or without a referrer.
LEMMA AddMerchantInv ==
    ASSUME Inv, NEW a \in Addresses, NEW name \in Names, NEW referral \in Addresses \cup {NoEntry},
           ~IsRegistered(a), referral # a, referral # NoEntry => IsRegistered(referral),
           AddMerchant(a, name, referral),
           commitment' \in [Addresses -> MerchantCommitment \cup {NoEntry}],
           UNCHANGED <<ledger, paused, walk, repeated>>
    PROVE  Inv'
<1> USE RegistryAssumption DEF RegistryAssumption, Inv, RegistryAgrees
<1> DEFINE new == [name |-> name, active |-> TRUE, verified |-> FALSE, referral_count |-> 0]
<1>1. /\ merchant_list' = Append(merchant_list, a)
      /\ merchant_list \in Seq(Addresses)
      /\ merchant_list' \in Seq(Addresses)
      /\ Entries(merchant_list') = Entries(merchant_list) \cup {a}
  BY AppendEntries DEF AddMerchant, TypeOK
<1>2. /\ Len(merchant_list') = Len(merchant_list) + 1
      /\ Len(merchant_list) \in Nat
      /\ \A i \in 1..Len(merchant_list) : merchant_list'[i] = merchant_list[i]
      /\ merchant_list'[Len(merchant_list) + 1] = a
  BY <1>1, AppendProperties
<1>3. /\ new \in Merchant
      /\ new # NoEntry
      /\ new.active
      /\ new.referral_count = 0
  <2>1. new \in Merchant
    BY DEF Merchant
  <2> QED
    BY <2>1
<1>4. /\ merchant'[a] = new
      /\ \A b \in Addresses \ {a, referral} : merchant'[b] = merchant[b]
      /\ referral # NoEntry => merchant'[referral] = [merchant[referral] EXCEPT !.referral_count = @ + 1]
  BY DEF AddMerchant
<1>5. referral # NoEntry =>
        /\ merchant[referral] \in Merchant
        /\ merchant'[referral] \in Merchant
        /\ merchant'[referral].active = merchant[referral].active
        /\ merchant'[referral].referral_count = merchant[referral].referral_count + 1
  <2> SUFFICES ASSUME referral # NoEntry
               PROVE  /\ merchant[referral] \in Merchant
                      /\ merchant'[referral] \in Merchant
                      /\ merchant'[referral].active = merchant[referral].active
                      /\ merchant'[referral].referral_count = merchant[referral].referral_count + 1
    OBVIOUS
  <2>1. merchant[referral] \in Merchant
    BY DEF TypeOK, IsRegistered
  <2>2. merchant'[referral] = [merchant[referral] EXCEPT !.referral_count = @ + 1]
    BY <1>4
  <2> QED
    BY ONLY <2>1, <2>2 DEF Merchant
<1>6. \A b \in Addresses : /\ merchant'[b] \in Merchant \cup {NoEntry}
                           /\ merchant'[b] # NoEntry <=> b = a \/ merchant[b] # NoEntry
  BY <1>3, <1>4, <1>5 DEF TypeOK, IsRegistered
<1>7. TypeOK'
  <2>1. merchant' \in [Addresses -> Merchant \cup {NoEntry}]
    BY <1>6 DEF AddMerchant
  <2>2. active_merchants' \in Nat /\ referred_by' \in [Addresses -> Addresses \cup {NoEntry}]
    BY DEF AddMerchant, TypeOK
  <2> QED
    BY <1>1, <2>1, <2>2 DEF TypeOK
<1>8. ListExact'
  <2>1. \A b \in Addresses : IsRegistered(b)' <=> b \in Entries(merchant_list')
    BY <1>1, <1>6 DEF ListExact, IsRegistered
  <2>2. \A i \in 1..Len(merchant_list) : merchant_list[i] # a
    BY DEF ListExact, Entries
  <2>3. \A i, j \in 1..Len(merchant_list') : merchant_list'[i] = merchant_list'[j] => i = j
    BY <1>2, <2>2 DEF ListExact
  <2> QED
    BY <2>1, <2>3 DEF ListExact
<1>9. ActiveCounted'
  <2>1. Active' = Active \cup {a} /\ a \notin Active
    BY <1>3, <1>4, <1>5, <1>6 DEF Active, IsRegistered
  <2>2. Cardinality(Active') = Cardinality(Active) + 1
    BY <2>1, ActiveFinite, FS_AddElement
  <2> QED
    BY <2>2, ActiveFinite DEF ActiveCounted, AddMerchant, TypeOK
<1>10. ReferralsCounted'
  <2> DEFINE By(b) == {c \in Addresses : referred_by[c] = b}
             ByNow(b) == {c \in Addresses : referred_by'[c] = b}
  <2>1. referred_by' = [referred_by EXCEPT ![a] = referral] /\ referred_by[a] = NoEntry
    BY DEF AddMerchant, Referrers
  <2>2. \A b \in Addresses : b # referral => ByNow(b) = By(b)
    BY <2>1 DEF TypeOK
  <2>3. referral # NoEntry => ByNow(referral) = By(referral) \cup {a} /\ a \notin By(referral)
    BY <2>1 DEF TypeOK
  <2>4. By(a) = {}
    BY DEF Referrers
  <2>5. \A b \in Addresses : IsFiniteSet(By(b)) /\ Cardinality(By(b)) \in Nat
    BY FS_Subset, FS_CardinalityType
  <2>6. referral # NoEntry => Cardinality(ByNow(referral)) = Cardinality(By(referral)) + 1
    BY <2>3, <2>5, FS_AddElement
  <2>7. ASSUME NEW b \in Addresses, IsRegistered(b)'
        PROVE  merchant'[b].referral_count = Cardinality(ByNow(b))
    <3>1. CASE b = a
      BY <3>1, <1>3, <1>4, <2>2, <2>4, FS_EmptySet
    <3>2. CASE b = referral
      BY <3>2, <1>5, <2>6 DEF ReferralsCounted
    <3>3. CASE b # a /\ b # referral
      BY <3>3, <1>4, <2>2, <2>7 DEF ReferralsCounted, IsRegistered
    <3> QED
      BY <3>1, <3>2, <3>3
  <2> QED
    BY <2>7 DEF ReferralsCounted
<1>11. Referrers'
  BY <1>6 DEF Referrers, AddMerchant, IsRegistered, TypeOK
<1>12. SeenFirst'
  BY <1>2 DEF SeenFirst, TypeOK
<1> QED
  BY <1>7, <1>8, <1>9, <1>10, <1>11, <1>12

\* A change of one profile that keeps its referrals, and the count that goes with it.
LEMMA ProfileInv ==
    ASSUME Inv, NEW a \in Addresses, IsRegistered(a), NEW p \in Merchant,
           merchant' = [merchant EXCEPT ![a] = p],
           p.referral_count = merchant[a].referral_count,
           active_merchants' \in Nat, repeated' \in BOOLEAN, ActiveCounted',
           UNCHANGED <<ledger, paused, merchant_list, commitment, walk, referred_by>>
    PROVE  Inv'
<1> USE RegistryAssumption DEF RegistryAssumption, Inv, RegistryAgrees
<1>1. TypeOK'
  BY DEF TypeOK
<1>2. \A b \in Addresses : IsRegistered(b)' <=> IsRegistered(b)
  BY DEF IsRegistered, TypeOK
<1>3. ListExact'
  BY <1>2 DEF ListExact
<1>4. ReferralsCounted'
  BY <1>2 DEF ReferralsCounted, TypeOK
<1>5. Referrers' /\ SeenFirst'
  BY <1>2 DEF Referrers, SeenFirst, TypeOK
<1> QED
  BY <1>1, <1>3, <1>4, <1>5

\* A step that writes no profile, no list and no count.
LEMMA IdleInv ==
    ASSUME Inv, ledger' \in 0..MaxLedger, paused' \in BOOLEAN,
           commitment' \in [Addresses -> MerchantCommitment \cup {NoEntry}],
           walk' \in [cursor : Addresses \cup {NoEntry}, seen : Seq(Addresses), done : BOOLEAN],
           SeenFirst',
           UNCHANGED <<merchant, merchant_list, active_merchants, historyVars>>
    PROVE  Inv'
BY DEF Inv, RegistryAgrees, historyVars, TypeOK, ListExact, ActiveCounted, ReferralsCounted,
       Referrers, Active, IsRegistered

\* Profile changes that leave who is active alone.
LEMMA ActiveKept ==
    ASSUME Inv, NEW a \in Addresses, IsRegistered(a), NEW p \in Merchant,
           merchant' = [merchant EXCEPT ![a] = p], p.active = merchant[a].active,
           UNCHANGED <<active_merchants, repeated>>
    PROVE  ActiveCounted'
<1>1. Active' = Active
  BY RegistryAssumption
  DEF RegistryAssumption, Inv, RegistryAgrees, TypeOK, Active, IsRegistered
<1> QED
  BY <1>1 DEF Inv, RegistryAgrees, ActiveCounted

LEMMA UpdateInv ==
    ASSUME Inv, NEW a \in Addresses, NEW n \in Names, update_merchant(a, n)
    PROVE  Inv'
<1> DEFINE p == [merchant[a] EXCEPT !.name = n]
<1>1. /\ IsRegistered(a)
      /\ p \in Merchant
      /\ p.referral_count = merchant[a].referral_count
      /\ p.active = merchant[a].active
  BY DEF Inv, RegistryAgrees, TypeOK, Merchant, update_merchant, IsRegistered
<1>2. merchant' = [merchant EXCEPT ![a] = p]
  BY DEF update_merchant
<1> HIDE DEF p
<1>3. ActiveCounted'
  BY <1>1, <1>2, ActiveKept DEF update_merchant, historyVars
<1> QED
  BY <1>1, <1>2, <1>3, ProfileInv
  DEF update_merchant, historyVars, Inv, RegistryAgrees, TypeOK

LEMMA VerifyInv ==
    ASSUME Inv, NEW a \in Addresses, verify_merchant(a) \/ unverify_merchant(a)
    PROVE  Inv'
<1>1. PICK v \in BOOLEAN : merchant' = [merchant EXCEPT ![a].verified = v]
  BY DEF verify_merchant, unverify_merchant
<1> DEFINE p == [merchant[a] EXCEPT !.verified = v]
<1>2. /\ IsRegistered(a)
      /\ UNCHANGED <<ledger, paused, merchant_list, active_merchants, commitment, walk, historyVars>>
  BY DEF verify_merchant, unverify_merchant
<1>3. /\ p \in Merchant
      /\ p.referral_count = merchant[a].referral_count
      /\ p.active = merchant[a].active
  BY <1>2 DEF Inv, RegistryAgrees, TypeOK, Merchant, IsRegistered
<1>4. merchant' = [merchant EXCEPT ![a] = p]
  BY <1>1
<1> HIDE DEF p
<1>5. ActiveCounted'
  BY <1>2, <1>3, <1>4, ActiveKept DEF historyVars
<1> QED
  BY <1>2, <1>3, <1>4, <1>5, ProfileInv DEF historyVars, Inv, RegistryAgrees, TypeOK

\* The count goes down by at least as much as there are fewer active merchants.
LEMMA DeactivateInv ==
    ASSUME Inv, NEW a \in Addresses, deactivate_merchant(a)
    PROVE  Inv'
<1> DEFINE p == [merchant[a] EXCEPT !.active = FALSE]
<1>1. /\ IsRegistered(a)
      /\ merchant[a] \in Merchant
      /\ p \in Merchant
      /\ p.referral_count = merchant[a].referral_count
      /\ ~p.active
  BY DEF Inv, RegistryAgrees, TypeOK, Merchant, deactivate_merchant, IsRegistered
<1>2. merchant' = [merchant EXCEPT ![a] = p]
  BY DEF deactivate_merchant
<1> HIDE DEF p
<1>3. active_merchants \in Nat /\ repeated \in BOOLEAN /\ merchant[a].active \in BOOLEAN
  BY <1>1 DEF Inv, RegistryAgrees, TypeOK, Merchant
<1>4. active_merchants' \in Nat
  BY <1>3 DEF deactivate_merchant
<1>5. repeated' \in BOOLEAN
  BY <1>3 DEF deactivate_merchant
<1>6. Active' = Active \ {a}
  BY <1>1, <1>2 DEF Inv, RegistryAgrees, TypeOK, Active, IsRegistered
<1>7. a \in Active <=> merchant[a].active
  BY <1>1 DEF Active
<1>8. Cardinality(Active') = IF a \in Active THEN Cardinality(Active) - 1 ELSE Cardinality(Active)
  BY <1>6, ActiveFinite, FS_RemoveElement
<1>9. a \in Active => Cardinality(Active) # 0
  BY ActiveFinite, FS_EmptySet
<1>10. ~repeated' => ~repeated /\ merchant[a].active
  BY <1>3 DEF deactivate_merchant
<1>11. active_merchants <= Cardinality(Active) /\ (~repeated => active_merchants = Cardinality(Active))
  BY DEF Inv, RegistryAgrees, ActiveCounted
<1>12. active_merchants' = IF active_merchants > 0 THEN active_merchants - 1 ELSE 0
  BY DEF deactivate_merchant
<1>13. active_merchants' <= Cardinality(Active')
  BY <1>3, <1>8, <1>9, <1>11, <1>12, ActiveFinite
<1>14. ~repeated' => active_merchants' = Cardinality(Active')
  BY <1>3, <1>7, <1>8, <1>9, <1>10, <1>11, <1>12, ActiveFinite
<1>15. ActiveCounted'
  BY <1>13, <1>14 DEF ActiveCounted
<1> QED
  BY <1>1, <1>2, <1>4, <1>5, <1>15, ProfileInv DEF deactivate_merchant

LEMMA ReactivateInv ==
    ASSUME Inv, NEW a \in Addresses, reactivate_merchant(a)
    PROVE  Inv'
<1> DEFINE p == [merchant[a] EXCEPT !.active = TRUE]
<1>1. /\ IsRegistered(a)
      /\ merchant[a] \in Merchant
      /\ ~merchant[a].active
      /\ p \in Merchant
      /\ p # NoEntry
      /\ p.referral_count = merchant[a].referral_count
      /\ p.active
  <2>1. IsRegistered(a) /\ ~merchant[a].active
    BY DEF reactivate_merchant
  <2>2. merchant[a] \in Merchant
    BY <2>1 DEF Inv, RegistryAgrees, TypeOK, IsRegistered
  <2>3. p \in Merchant /\ p.referral_count = merchant[a].referral_count /\ p.active
    BY ONLY <2>2 DEF Merchant
  <2> QED
    BY <2>1, <2>2, <2>3, RegistryAssumption DEF RegistryAssumption
<1>2. merchant' = [merchant EXCEPT ![a] = p]
  BY DEF reactivate_merchant
<1> HIDE DEF p
<1>3. Active' = Active \cup {a} /\ a \notin Active
  BY <1>1, <1>2 DEF Inv, RegistryAgrees, TypeOK, Active, IsRegistered
<1>4. Cardinality(Active') = Cardinality(Active) + 1
  BY <1>3, ActiveFinite, FS_AddElement
<1>5. ActiveCounted'
  BY <1>4, ActiveFinite
  DEF Inv, RegistryAgrees, TypeOK, ActiveCounted, reactivate_merchant, historyVars
<1>6. active_merchants' \in Nat /\ repeated' \in BOOLEAN
  BY DEF Inv, RegistryAgrees, TypeOK, reactivate_merchant, historyVars
<1> QED
  BY <1>1, <1>2, <1>5, <1>6, ProfileInv DEF reactivate_merchant, historyVars

-----------------------------------------------------------------------------
(* The pages *)

\* What the reader's cursor leaves is what the reader has not seen.
LEMMA AfterFacts ==
    ASSUME Inv
    PROVE  LET rest == After(walk.cursor)
               n == Len(walk.seen)
           IN  /\ rest \in Seq(Addresses)
               /\ n \in Nat
               /\ Len(rest) = Len(merchant_list) - n
               /\ \A i \in 1..Len(rest) : rest[i] = merchant_list[n + i]
<1> DEFINE n == Len(walk.seen)
           N == Len(merchant_list)
           rest == After(walk.cursor)
<1>1. /\ walk.seen \in Seq(Addresses)
      /\ merchant_list \in Seq(Addresses)
      /\ NoEntry \notin Addresses
      /\ SeenFirst
  BY RegistryAssumption DEF RegistryAssumption, Inv, RegistryAgrees, TypeOK
<1>2. n \in Nat /\ N \in Nat /\ n <= N
  BY <1>1 DEF SeenFirst
<1>3. CASE n = 0
  <2>1. walk.cursor = NoEntry
    BY <1>1, <1>3 DEF SeenFirst
  <2> QED
    BY <1>1, <1>3, <2>1 DEF After
<1>4. CASE n # 0
  <2>1. walk.cursor = merchant_list[n] /\ n \in 1..N
    BY <1>1, <1>2, <1>4 DEF SeenFirst
  <2>2. merchant_list[n] \in Addresses /\ merchant_list[n] \in Entries(merchant_list)
    BY <1>1, <2>1, ElementOfSeq DEF Entries
  <2>3. Position(merchant_list, merchant_list[n]) = n
    BY <1>2, <2>1, PositionOfEntry DEF Inv, RegistryAgrees, ListExact
  <2>4. rest = SubSeq(merchant_list, n + 1, N)
    BY <1>1, <2>1, <2>2, <2>3 DEF After
  <2>5. \A i \in n + 1..N : merchant_list[i] \in Addresses
    BY <1>1, <1>2, ElementOfSeq
  <2> HIDE DEF rest, n, N
  <2>6. /\ rest \in Seq(Addresses)
        /\ Len(rest) = IF n + 1 <= N THEN N - (n + 1) + 1 ELSE 0
        /\ \A i \in 1..N - (n + 1) + 1 : rest[i] = merchant_list[n + 1 + i - 1]
    <3>1. n + 1 \in Int /\ N \in Int
      BY <1>2
    <3> QED
      BY ONLY <2>4, <2>5, <3>1, SubSeqProperties
  <2>7. Len(rest) = N - n
    BY <1>2, <2>6
  <2>8. \A i \in 1..Len(rest) : rest[i] = merchant_list[n + i]
    <3> TAKE i \in 1..Len(rest)
    <3>1. n + 1 + i - 1 = n + i /\ i \in 1..N - (n + 1) + 1
      BY <1>2, <2>7
    <3> QED
      BY <2>6, <3>1
  <2> QED
    BY <1>2, <2>6, <2>7, <2>8 DEF rest, n, N
<1> QED
  BY <1>3, <1>4

\* A page is the next entries of the list, and the last one has no next cursor.
LEMMA ReadPageFacts ==
    ASSUME Inv, NEW limit \in Limits, ReadPage(limit)
    PROVE  /\ walk' \in [cursor : Addresses \cup {NoEntry}, seen : Seq(Addresses), done : BOOLEAN]
           /\ SeenFirst'
           /\ walk'.done => walk'.seen = merchant_list
<1> USE RegistryAssumption DEF RegistryAssumption
<1> DEFINE n == Len(walk.seen)
           N == Len(merchant_list)
           rest == After(walk.cursor)
           page == build_merchant_page(walk.cursor, limit)
           fits == page.merchants
<1>1. /\ rest \in Seq(Addresses)
      /\ n \in Nat
      /\ N \in Nat
      /\ Len(rest) = N - n
      /\ \A i \in 1..Len(rest) : rest[i] = merchant_list[n + i]
  BY AfterFacts DEF Inv, RegistryAgrees, TypeOK
<1>2. /\ limit \in Nat \ {0}
      /\ merchant_list' = merchant_list
      /\ walk.seen \in Seq(Addresses)
      /\ merchant_list \in Seq(Addresses)
      /\ walk.cursor \in Addresses \cup {NoEntry}
  BY DEF ReadPage, require_valid_limit, storeVars, Inv, RegistryAgrees, TypeOK
<1>3. /\ fits = IF Len(rest) <= limit THEN rest ELSE SubSeq(rest, 1, limit)
      /\ page.next_cursor = IF Len(rest) <= limit THEN NoEntry ELSE rest[limit + 1]
  BY DEF build_merchant_page
<1>4. walk' = [cursor |-> IF fits = <<>> THEN walk.cursor ELSE fits[Len(fits)],
               seen |-> walk.seen \o fits,
               done |-> page.next_cursor = NoEntry]
  BY DEF ReadPage
<1> HIDE DEF rest, page
<1>5. /\ fits \in Seq(Addresses)
      /\ Len(fits) = IF N - n <= limit THEN N - n ELSE limit
      /\ \A i \in 1..Len(fits) : fits[i] = merchant_list[n + i]
  <2>1. CASE Len(rest) <= limit
    BY <1>1, <1>3, <2>1
  <2>2. CASE ~(Len(rest) <= limit)
    <3>1. fits = SubSeq(rest, 1, limit)
      BY <1>3, <2>2
    <3>2. \A i \in 1..limit : rest[i] \in Addresses
      BY <1>1, <1>2, <2>2, ElementOfSeq
    <3>3. /\ fits \in Seq(Addresses)
          /\ Len(fits) = IF 1 <= limit THEN limit - 1 + 1 ELSE 0
          /\ \A i \in 1..limit - 1 + 1 : fits[i] = rest[1 + i - 1]
      BY <1>2, <3>1, <3>2, SubSeqProperties
    <3> QED
      BY <1>1, <1>2, <2>2, <3>3
  <2> QED
    BY <2>1, <2>2
<1> HIDE DEF fits
<1>6. /\ walk.seen \o fits \in Seq(Addresses)
      /\ Len(walk.seen \o fits) = n + Len(fits)
      /\ \A i \in 1..n + Len(fits) : (walk.seen \o fits)[i] =
            IF i <= n THEN walk.seen[i] ELSE fits[i - n]
  <2>1. walk.seen \in Seq(Addresses) /\ fits \in Seq(Addresses)
    BY <1>2, <1>5
  <2> QED
    BY ONLY <2>1, ConcatProperties
<1>7. /\ n <= N
      /\ \A i \in 1..n : walk.seen[i] = merchant_list[i]
      /\ walk.cursor = IF walk.seen = <<>> THEN NoEntry ELSE walk.seen[n]
  <2>1. SeenFirst
    BY DEF Inv
  <2> QED
    BY ONLY <2>1 DEF SeenFirst
<1> HIDE DEF n, N
<1>8. \A i \in 1..n + Len(fits) : (walk.seen \o fits)[i] = merchant_list[i]
  <2> TAKE i \in 1..n + Len(fits)
  <2>1. Len(fits) \in Nat
    <3>1. n \in Nat /\ N \in Nat /\ n <= N /\ limit \in Nat
      BY <1>1, <1>2, <1>7
    <3>2. Len(fits) = IF N - n <= limit THEN N - n ELSE limit
      BY <1>5
    <3> QED
      BY ONLY <3>1, <3>2
  <2>2. CASE i <= n
    BY <1>1, <1>6, <1>7, <2>2
  <2>3. CASE i > n
    <3>1. i - n \in 1..Len(fits) /\ n + (i - n) = i
      BY <1>1, <2>1, <2>3
    <3> QED
      BY <1>1, <1>5, <1>6, <2>3, <3>1
  <2>4. i <= n \/ i > n
    BY <1>1, <2>1
  <2> QED
    BY ONLY <2>2, <2>3, <2>4
<1>9. Len(fits) \in Nat /\ n + Len(fits) <= N
  <2>1. n \in Nat /\ N \in Nat /\ n <= N /\ limit \in Nat
    BY <1>1, <1>2, <1>7
  <2>2. Len(fits) = IF N - n <= limit THEN N - n ELSE limit
    BY <1>5
  <2> QED
    BY ONLY <2>1, <2>2
<1> USE DEF n, N
<1>10. (fits = <<>> <=> Len(fits) = 0) /\ (walk.seen = <<>> <=> n = 0)
       /\ (walk.seen \o fits = <<>> <=> Len(walk.seen \o fits) = 0)
  BY <1>2, <1>5, <1>6, EmptySeq
<1>11. walk'.cursor \in Addresses \cup {NoEntry}
  <2>1. fits # <<>> => fits[Len(fits)] \in Addresses
    BY <1>5, <1>9, <1>10, ElementOfSeq
  <2> QED
    BY <1>2, <1>4, <2>1
<1>12. walk' \in [cursor : Addresses \cup {NoEntry}, seen : Seq(Addresses), done : BOOLEAN]
  <2>1. (page.next_cursor = NoEntry) \in BOOLEAN
    OBVIOUS
  <2> QED
    BY <1>4, <1>6, <1>11, <2>1
<1>13. SeenFirst'
  <2>1. walk'.cursor = IF walk'.seen = <<>> THEN NoEntry ELSE walk'.seen[Len(walk'.seen)]
    <3>1. CASE fits = <<>>
      <4>1. walk.seen \o fits = walk.seen
        BY <1>2, <3>1
      <4> QED
        BY <1>4, <1>7, <3>1, <4>1
    <3>2. CASE fits # <<>>
      <4>1. Len(fits) > 0 /\ walk.seen \o fits # <<>>
        BY <1>1, <1>6, <1>9, <1>10, <3>2
      <4>2. (walk.seen \o fits)[n + Len(fits)] = fits[Len(fits)]
        BY <1>1, <1>6, <1>9, <4>1
      <4> QED
        BY <1>4, <1>6, <3>2, <4>1, <4>2
    <3> QED
      BY <3>1, <3>2
  <2>2. /\ Len(walk'.seen) <= Len(merchant_list)
        /\ \A i \in 1..Len(walk'.seen) : walk'.seen[i] = merchant_list[i]
    BY <1>4, <1>6, <1>8, <1>9
  <2> QED
    BY <1>2, <2>1, <2>2 DEF SeenFirst
<1>14. walk'.done => walk'.seen = merchant_list
  <2> SUFFICES ASSUME walk'.done PROVE walk'.seen = merchant_list
    OBVIOUS
  <2>1. page.next_cursor = NoEntry
    BY <1>4
  <2>2. Len(rest) <= limit
    <3>1. ~(Len(rest) <= limit) => rest[limit + 1] \in Addresses
      BY <1>1, <1>2, ElementOfSeq
    <3> QED
      BY <1>3, <2>1, <3>1
  <2>3. n + Len(fits) = N
    <3> HIDE DEF n, N
    <3>1. n \in Nat /\ N \in Nat /\ limit \in Nat
      BY <1>1, <1>2
    <3>2. Len(rest) = N - n
      BY <1>1
    <3>3. Len(fits) = IF N - n <= limit THEN N - n ELSE limit
      BY <1>5
    <3> QED
      BY ONLY <2>2, <3>1, <3>2, <3>3
  <2>4. walk.seen \o fits = merchant_list
    BY <1>2, <1>6, <1>8, <2>3, SeqEqual
  <2> QED
    BY <1>4, <2>4
<1> QED
  BY <1>12, <1>13, <1>14

-----------------------------------------------------------------------------
(* The system *)

LEMMA CommitInv ==
    ASSUME Inv, NEW a \in Addresses, NEW h \in Hashes, commit_merchant_registration(a, h)
    PROVE  Inv'
<1> DEFINE c == [hash |-> h, committed_at_ledger |-> ledger,
                 live_until |-> ledger + Larger(MinTempTTL, CommitmentTTL)]
<1>1. ledger \in Nat /\ Larger(MinTempTTL, CommitmentTTL) \in Nat
  BY RegistryAssumption DEF RegistryAssumption, Inv, RegistryAgrees, TypeOK, Larger
<1>2. c \in MerchantCommitment
  BY <1>1 DEF MerchantCommitment
<1>3. commitment' = [commitment EXCEPT ![a] = c]
  BY DEF commit_merchant_registration, set_merchant_commitment
<1> HIDE DEF c
<1>4. commitment' \in [Addresses -> MerchantCommitment \cup {NoEntry}]
  BY <1>2, <1>3 DEF Inv, RegistryAgrees, TypeOK
<1>5. UNCHANGED <<ledger, paused, merchant, merchant_list, active_merchants, walk, historyVars>>
  BY DEF commit_merchant_registration
<1>6. SeenFirst'
  BY <1>5 DEF Inv, SeenFirst
<1> QED
  BY <1>4, <1>5, <1>6, IdleInv DEF Inv, RegistryAgrees, TypeOK

LEMMA RegisterInv ==
    ASSUME Inv, NEW a \in Addresses, NEW n \in Names, NEW r \in Addresses \cup {NoEntry},
           register_merchant(a, n, r)
    PROVE  Inv'
BY AddMerchantInv DEF register_merchant, Inv, RegistryAgrees, TypeOK

LEMMA RevealInv ==
    ASSUME Inv, NEW a \in Addresses, NEW n \in Names, NEW x \in Nonces,
           reveal_merchant_registration(a, n, x)
    PROVE  Inv'
<1>1. NoEntry # a
  BY RegistryAssumption DEF RegistryAssumption
<1>2. commitment' \in [Addresses -> MerchantCommitment \cup {NoEntry}]
  BY DEF reveal_merchant_registration, Inv, RegistryAgrees, TypeOK
<1> QED
  BY <1>1, <1>2, AddMerchantInv DEF reveal_merchant_registration

LEMMA CloseLedgerInv == ASSUME Inv, CloseLedger PROVE Inv'
<1>1. ledger' \in 0..MaxLedger
  BY RegistryAssumption
  DEF RegistryAssumption, CloseLedger, Inv, RegistryAgrees, TypeOK
<1>2. commitment' \in [Addresses -> MerchantCommitment \cup {NoEntry}]
  BY DEF CloseLedger, Inv, RegistryAgrees, TypeOK
<1>3. SeenFirst'
  BY DEF CloseLedger, Inv, SeenFirst
<1> QED
  BY <1>1, <1>2, <1>3, IdleInv DEF CloseLedger, Inv, RegistryAgrees, TypeOK

LEMMA StartOverInv == ASSUME Inv, StartOver PROVE Inv'
<1>1. walk' = [cursor |-> NoEntry, seen |-> <<>>, done |-> FALSE]
  BY DEF StartOver, Start
<1>2. <<>> \in Seq(Addresses) /\ Len(<<>>) = 0
  BY EmptySeq
<1>3. UNCHANGED <<ledger, paused, merchant, merchant_list, active_merchants, commitment, historyVars>>
  BY DEF StartOver, storeVars
<1>4. walk' \in [cursor : Addresses \cup {NoEntry}, seen : Seq(Addresses), done : BOOLEAN]
  BY <1>1, <1>2
<1>5. SeenFirst'
  <2>1. walk'.seen = <<>> /\ walk'.cursor = NoEntry
    BY <1>1
  <2>2. Len(merchant_list) \in Nat
    BY DEF Inv, RegistryAgrees, TypeOK
  <2> QED
    BY <1>2, <1>3, <2>1, <2>2 DEF SeenFirst
<1> QED
  BY <1>3, <1>4, <1>5, IdleInv DEF Inv, RegistryAgrees, TypeOK

LEMMA ReadPageInv == ASSUME Inv, NEW limit \in Limits, ReadPage(limit) PROVE Inv'
<1>1. UNCHANGED <<ledger, paused, merchant, merchant_list, active_merchants, commitment, historyVars>>
  BY DEF ReadPage, storeVars
<1> QED
  BY <1>1, ReadPageFacts, IdleInv DEF Inv, RegistryAgrees, TypeOK

LEMMA NextInv == ASSUME Inv, [Next]_vars PROVE Inv'
<1>1. ASSUME NEW a \in Committers, NEW h \in Hashes, commit_merchant_registration(a, h)
      PROVE  Inv'
  BY <1>1, CommitInv, RegistryAssumption DEF RegistryAssumption
<1>2. ASSUME NEW a \in Committers, NEW n \in Names, NEW x \in Nonces,
             reveal_merchant_registration(a, n, x)
      PROVE  Inv'
  BY <1>2, RevealInv, RegistryAssumption DEF RegistryAssumption
<1>3. ASSUME NEW a \in Addresses, NEW n \in Names, NEW r \in Addresses \cup {NoEntry},
             register_merchant(a, n, r)
      PROVE  Inv'
  BY <1>3, RegisterInv
<1>4. ASSUME NEW a \in Addresses, NEW n \in Names, update_merchant(a, n)
      PROVE  Inv'
  BY <1>4, UpdateInv
<1>5. ASSUME NEW a \in Addresses, deactivate_merchant(a)
      PROVE  Inv'
  BY <1>5, DeactivateInv
<1>6. ASSUME NEW a \in Addresses, reactivate_merchant(a)
      PROVE  Inv'
  BY <1>6, ReactivateInv
<1>7. ASSUME NEW a \in Addresses, verify_merchant(a) \/ unverify_merchant(a)
      PROVE  Inv'
  BY <1>7, VerifyInv
<1>8. ASSUME NEW limit \in Limits, ReadPage(limit)
      PROVE  Inv'
  BY <1>8, ReadPageInv
<1>9. CASE StartOver
  BY <1>9, StartOverInv
<1>10. CASE CloseLedger
  BY <1>10, CloseLedgerInv
<1>11. CASE set_paused
  <2>1. paused' \in BOOLEAN
    BY <1>11 DEF set_paused, Inv, RegistryAgrees, TypeOK
  <2>2. UNCHANGED <<ledger, merchant, merchant_list, active_merchants, commitment, walk, historyVars>>
    BY <1>11 DEF set_paused, storeVars
  <2>3. SeenFirst'
    BY <2>2 DEF Inv, SeenFirst
  <2> QED
    BY <2>1, <2>2, <2>3, IdleInv DEF Inv, RegistryAgrees, TypeOK
<1>12. CASE UNCHANGED vars
  <2>1. UNCHANGED <<ledger, paused, merchant, merchant_list, active_merchants, commitment, walk, historyVars>>
    BY <1>12 DEF vars, storeVars
  <2>2. SeenFirst'
    BY <2>1 DEF Inv, SeenFirst
  <2> QED
    BY <2>1, <2>2, IdleInv DEF Inv, RegistryAgrees, TypeOK
<1> QED
  BY <1>1, <1>2, <1>3, <1>4, <1>5, <1>6, <1>7, <1>8, <1>9, <1>10, <1>11, <1>12 DEF Next

\* The list names every registered merchant once, the count of active merchants
\* never exceeds them and is exact unless an inactive one was deactivated, and
\* referrals are counted (register_merchant, reveal_merchant_registration,
\* deactivate_merchant and the handlers that write a profile back).
THEOREM MerchantsAgree == Spec => []RegistryAgrees
<1>1. Inv => RegistryAgrees
  BY DEF Inv
<1> QED
  BY InitInv, NextInv, <1>1, PTL DEF Spec

\* A reader that reaches the end of the merchants' list has seen all of it, each
\* merchant once and in order, whatever limits it used (build_merchant_page).
THEOREM MerchantsRead == Spec => WalkComplete
<1>1. ASSUME Inv, Next PROVE walk'.done /\ ~walk.done => walk'.seen = merchant_list
  <2>1. ASSUME NEW limit \in Limits, ReadPage(limit) PROVE walk'.done => walk'.seen = merchant_list
    BY <1>1, <2>1, ReadPageFacts
  <2>2. CASE StartOver
    BY <2>2 DEF StartOver, Start
  <2>3. CASE walk' = walk
    BY <2>3
  <2> QED
    BY <1>1, <2>1, <2>2, <2>3
    DEF Next, commit_merchant_registration, reveal_merchant_registration, register_merchant,
        update_merchant, deactivate_merchant, reactivate_merchant, verify_merchant,
        unverify_merchant, CloseLedger, set_paused
<1>2. Inv /\ [Next]_vars => [walk'.done /\ ~walk.done => walk'.seen = merchant_list]_vars
  BY <1>1
<1> QED
  BY InitInv, NextInv, <1>2, PTL DEF Spec, WalkComplete

-----------------------------------------------------------------------------
(* Commitments *)

\* A commitment lives as long as it was given.
Lapses ==
    /\ ledger \in Nat
    /\ commitment \in [Addresses -> MerchantCommitment \cup {NoEntry}]
    /\ \A a \in Addresses : HasCommitment(a) =>
        /\ ledger <= commitment[a].live_until
        /\ commitment[a].live_until =
              commitment[a].committed_at_ledger + Larger(MinTempTTL, CommitmentTTL)

LEMMA LapsesKept == ASSUME Inv, Lapses, [Next]_vars PROVE Lapses'
<1> USE RegistryAssumption DEF RegistryAssumption
<1>1. ledger' \in Nat /\ commitment' \in [Addresses -> MerchantCommitment \cup {NoEntry}]
  BY NextInv DEF Inv, RegistryAgrees, TypeOK
<1>2. ASSUME NEW a \in Addresses, NEW h \in Hashes, commit_merchant_registration(a, h)
      PROVE  Lapses'
  <2>1. Larger(MinTempTTL, CommitmentTTL) \in Nat
    BY DEF Larger
  <2> QED
    BY <1>1, <1>2, <2>1
    DEF commit_merchant_registration, set_merchant_commitment, Lapses, HasCommitment
<1>3. CASE CloseLedger
  BY <1>1, <1>3 DEF CloseLedger, Lapses, HasCommitment, MerchantCommitment
<1>4. ASSUME ledger' = ledger, \A a \in Addresses : commitment'[a] \in {commitment[a], NoEntry}
      PROVE  Lapses'
  BY <1>1, <1>4 DEF Lapses, HasCommitment
<1>5. ASSUME NEW a \in Addresses, NEW n \in Names, NEW x \in Nonces,
             reveal_merchant_registration(a, n, x)
      PROVE  Lapses'
  BY <1>4, <1>5 DEF reveal_merchant_registration, Lapses
<1>6. CASE UNCHANGED <<ledger, commitment>>
  BY <1>4, <1>6
<1> QED
  BY <1>2, <1>3, <1>5, <1>6
  DEF Next, vars, storeVars, register_merchant, update_merchant, deactivate_merchant,
      reactivate_merchant, verify_merchant, unverify_merchant, ReadPage, StartOver, set_paused

\* What CommitmentHonoured asks of a step, for one address.
Honoured(a) ==
    HasCommitment(a) /\ commitment'[a] # commitment[a] =>
        LET inTime == ledger' - commitment[a].committed_at_ledger <= CommitmentTTL
            revealed == ~IsRegistered(a) /\ IsRegistered(a)'
        IN  /\ commitment'[a] = NoEntry
            /\ revealed <=> inTime
            /\ revealed => <<a, merchant'[a].name>> = <<commitment[a].hash[1], commitment[a].hash[2]>>

\* A commitment goes by a reveal in time, or in the ledger after its last.
LEMMA HonouredStep ==
    ASSUME Inv, Lapses, Next, NEW a \in Addresses
    PROVE  Honoured(a)
<1> USE RegistryAssumption DEF RegistryAssumption
<1>1. ASSUME NEW b \in Addresses, NEW h \in Hashes, commit_merchant_registration(b, h)
      PROVE  Honoured(a)
  <2>1. ~HasCommitment(b) /\ \A c \in Addresses \ {b} : commitment'[c] = commitment[c]
    BY <1>1 DEF commit_merchant_registration, set_merchant_commitment, Lapses
  <2> QED
    BY <2>1 DEF Honoured
<1>2. ASSUME NEW b \in Addresses, NEW n \in Names, NEW x \in Nonces,
             reveal_merchant_registration(b, n, x)
      PROVE  Honoured(a)
  <2> DEFINE m == [name |-> n, active |-> TRUE, verified |-> FALSE, referral_count |-> 0]
  <2>1. /\ ~IsRegistered(b) /\ ledger' = ledger
        /\ ledger - commitment[b].committed_at_ledger <= CommitmentTTL
        /\ commitment[b].hash = <<b, n, x>>
        /\ commitment' = [commitment EXCEPT ![b] = NoEntry]
        /\ AddMerchant(b, n, NoEntry)
    BY <1>2 DEF reveal_merchant_registration
  <2>2. merchant'[b] = m
    BY <2>1 DEF AddMerchant
  <2>3. m \in Merchant /\ m.name = n
    BY DEF Merchant
  <2>4. merchant'[b] # NoEntry /\ merchant'[b].name = n
    BY <2>2, <2>3
  <2>5. commitment'[b] = NoEntry /\ \A c \in Addresses \ {b} : commitment'[c] = commitment[c]
    BY <2>1 DEF Lapses
  <2>6. CASE a = b
    BY <2>1, <2>4, <2>5, <2>6 DEF Honoured, IsRegistered
  <2>7. CASE a # b
    BY <2>5, <2>7 DEF Honoured
  <2> QED
    BY <2>6, <2>7
<1>3. CASE CloseLedger
  <2>1. /\ merchant' = merchant /\ ledger' = ledger + 1
        /\ commitment'[a] = IF HasCommitment(a) /\ ledger' > commitment[a].live_until
                            THEN NoEntry ELSE commitment[a]
    BY <1>3 DEF CloseLedger
  <2> SUFFICES ASSUME HasCommitment(a), commitment'[a] # commitment[a]
               PROVE  Honoured(a)
    BY DEF Honoured
  <2>2. commitment'[a] = NoEntry /\ ledger' > commitment[a].live_until
    BY <2>1
  <2>3. commitment[a] \in MerchantCommitment
    BY DEF Lapses, HasCommitment
  <2>4. /\ commitment[a].committed_at_ledger \in Nat /\ commitment[a].live_until \in Nat
        /\ commitment[a].live_until
             = commitment[a].committed_at_ledger + Larger(MinTempTTL, CommitmentTTL)
        /\ ledger \in Nat
    BY <2>3 DEF Lapses, MerchantCommitment
  <2>5. ~(ledger' - commitment[a].committed_at_ledger <= CommitmentTTL)
    BY <2>1, <2>2, <2>4 DEF Larger
  <2>6. IsRegistered(a)' = IsRegistered(a)
    BY <2>1 DEF IsRegistered
  <2> QED
    BY <2>2, <2>5, <2>6 DEF Honoured
<1>4. CASE commitment' = commitment
  BY <1>4 DEF Honoured
<1> QED
  BY <1>1, <1>2, <1>3, <1>4
  DEF Next, storeVars, register_merchant, update_merchant, deactivate_merchant,
      reactivate_merchant, verify_merchant, unverify_merchant, ReadPage, StartOver, set_paused

\* For any times to live, whichever is the longer, a commitment may be revealed
\* for CommitmentTTL ledgers and no longer, and only as what it committed to (the
\* expiry check of reveal_merchant_registration and the time to live that
\* set_merchant_commitment gives).
THEOREM CommitmentsHonoured == Spec => CommitmentHonoured
<1>1. Init => Lapses
  BY RegistryAssumption DEF RegistryAssumption, Init, Lapses, HasCommitment
<1>2. Inv /\ Lapses /\ [Next]_vars => [\A a \in Addresses : Honoured(a)]_vars
  BY HonouredStep
<1>3. [\A a \in Addresses : Honoured(a)]_vars
         => [\A a \in Addresses : HasCommitment(a) /\ commitment'[a] # commitment[a] =>
               LET inTime == ledger' - commitment[a].committed_at_ledger <= CommitmentTTL
                   revealed == ~IsRegistered(a) /\ IsRegistered(a)'
               IN  /\ commitment'[a] = NoEntry
                   /\ revealed <=> inTime
                   /\ revealed => <<a, merchant'[a].name>>
                                    = <<commitment[a].hash[1], commitment[a].hash[2]>>]_vars
  BY DEF Honoured
<1> QED
  BY <1>1, <1>2, <1>3, InitInv, NextInv, LapsesKept, PTL DEF Spec, CommitmentHonoured

-----------------------------------------------------------------------------
(* Histories: the sort *)

\* Candidates are places of the index, their payments are stored.
LEMMA CandidateType ==
    ASSUME HistoriesTypeOK, NEW filter
    PROVE  /\ Len(ids) \in Nat
           /\ Candidates(filter) \subseteq 1..Len(ids)
           /\ \A i \in Candidates(filter) : ids[i] \in Orders /\ payment[ids[i]] \in PaymentOrder
           /\ Matching(filter) \subseteq Orders \cap Entries(ids)
<1>1. Len(ids) \in Nat /\ \A i \in 1..Len(ids) : ids[i] \in Orders
  BY DEF HistoriesTypeOK
<1>2. Candidates(filter) \subseteq 1..Len(ids)
  BY DEF Candidates
<1>3. \A i \in Candidates(filter) : ids[i] \in Orders /\ payment[ids[i]] \in PaymentOrder
  BY <1>1 DEF Candidates, HistoriesTypeOK
<1> QED
  BY <1>1, <1>2, <1>3 DEF Matching, Entries

\* What candidates are sorted by are numbers.
LEMMA KeyType ==
    ASSUME NEW o, payment[o] \in PaymentOrder, NEW field
    PROVE  Key(o, field) \in Int
<1>1. Amounts \subseteq Int /\ 0..MaxTime \subseteq Int
  BY HistoriesAssumption DEF HistoriesAssumption
<1> QED
  BY <1>1 DEF Key, PaymentOrder

\* The places of the index whose payment is stored, whether or not it matches.
Stored == {i \in 1..Len(ids) : payment[ids[i]] # NoEntry}

LEMMA StoredType ==
    ASSUME HistoriesTypeOK
    PROVE  /\ Stored \subseteq 1..Len(ids)
           /\ \A i \in Stored : ids[i] \in Orders /\ payment[ids[i]] \in PaymentOrder
           /\ \A filter : Candidates(filter) \subseteq Stored
<1>1. Len(ids) \in Nat /\ \A i \in 1..Len(ids) : ids[i] \in Orders
  BY DEF HistoriesTypeOK
<1> QED
  BY <1>1 DEF Stored, Candidates, HistoriesTypeOK

\* The order of the sort, the index's own among those that compare equal.
Precedes(i, j, sort) ==
    LET a == Key(ids[i], sort[1])
        b == Key(ids[j], sort[1])
    IN  \/ IF sort[2] = "Ascending" THEN a < b ELSE a > b
        \/ a = b /\ i < j

\* It is strict and total.
LEMMA PrecedesOrder ==
    ASSUME HistoriesTypeOK, NEW sort
    PROVE  /\ \A i \in Stored : ~Precedes(i, i, sort)
           /\ \A i, j \in Stored : i # j => Precedes(i, j, sort) \/ Precedes(j, i, sort)
           /\ \A i, j, k \in Stored :
                 Precedes(i, j, sort) /\ Precedes(j, k, sort) => Precedes(i, k, sort)
<1>1. \A i \in Stored : i \in Nat /\ Key(ids[i], sort[1]) \in Int
  <2>1. Len(ids) \in Nat
    BY DEF HistoriesTypeOK
  <2> QED BY <2>1, StoredType, KeyType
<1>2. \A i \in Stored : ~Precedes(i, i, sort)
  BY <1>1 DEF Precedes
<1>3. \A i, j \in Stored : i # j => Precedes(i, j, sort) \/ Precedes(j, i, sort)
  BY <1>1 DEF Precedes
<1>4. \A i, j, k \in Stored :
          Precedes(i, j, sort) /\ Precedes(j, k, sort) => Precedes(i, k, sort)
  BY <1>1 DEF Precedes
<1> QED
  BY <1>2, <1>3, <1>4

\* A sorted list is one of order ids, stable or not.
LEMMA SortedType ==
    ASSUME HistoriesTypeOK, NEW filter, NEW sort, NEW sorted \in SortedLists(filter, sort)
    PROVE  \E n \in Nat : \E place \in [1..n -> Candidates(filter)] :
              /\ n = Cardinality(Candidates(filter))
              /\ place \in Sortings(filter, sort)
              /\ sorted = [k \in 1..n |-> ids[place[k]]]
              /\ sorted \in Seq(Orders) /\ Len(sorted) = n
<1> DEFINE n == Cardinality(Candidates(filter))
<1>1. n \in Nat
  <2>1. Len(ids) \in Nat /\ Candidates(filter) \subseteq 1..Len(ids)
    BY CandidateType
  <2>2. IsFiniteSet(1..Len(ids))
    BY <2>1, FS_Interval
  <2>3. IsFiniteSet(Candidates(filter))
    BY <2>1, <2>2, FS_Subset
  <2> QED
    BY <2>3, FS_CardinalityType
<1>2. PICK place \in Sortings(filter, sort) : sorted = [k \in 1..Len(place) |-> ids[place[k]]]
  BY DEF SortedLists
<1>3. place \in [1..n -> Candidates(filter)]
  BY <1>2 DEF Sortings
<1> HIDE DEF n
<1>4. Len(place) = n
  BY <1>1, <1>3
<1>5. \A k \in 1..n : ids[place[k]] \in Orders
  BY <1>3, CandidateType
<1>6. sorted \in Seq(Orders) /\ Len(sorted) = n
  BY <1>1, <1>2, <1>4, <1>5
<1> QED
  BY <1>1, <1>2, <1>3, <1>4, <1>6 DEF n

\* As long as the sort is stable it puts every candidate in a place of its own,
\* each before those it precedes.
LEMMA SortedPlaces ==
    ASSUME HistoriesTypeOK, NEW filter, NEW sort, ~Unstable(filter, sort),
           NEW sorted \in SortedLists(filter, sort)
    PROVE  \E n \in Nat : \E place \in [1..n -> Candidates(filter)] :
              /\ sorted = [k \in 1..n |-> ids[place[k]]]
              /\ \A i \in Candidates(filter) : \E k \in 1..n : place[k] = i
              /\ \A j, k \in 1..n : Precedes(place[j], place[k], sort) <=> j < k
<1> DEFINE P == Candidates(filter)
<1>1. PICK n \in Nat : \E place \in [1..n -> P] :
          /\ n = Cardinality(P)
          /\ place \in Sortings(filter, sort)
          /\ sorted = [k \in 1..n |-> ids[place[k]]]
  <2>1. \E n \in Nat : \E place \in [1..n -> P] :
            /\ n = Cardinality(P)
            /\ place \in Sortings(filter, sort)
            /\ sorted = [k \in 1..n |-> ids[place[k]]]
            /\ sorted \in Seq(Orders) /\ Len(sorted) = n
    BY SortedType
  <2> QED BY <2>1
<1>2. PICK place \in [1..n -> P] :
          /\ place \in Sortings(filter, sort)
          /\ sorted = [k \in 1..n |-> ids[place[k]]]
  BY <1>1
<1>3. Len(place) = n
  BY <1>2
<1>4. /\ \A j, k \in 1..n : place[j] = place[k] => j = k
      /\ \A i \in P : \E k \in 1..n : place[k] = i
      /\ \A j, k \in 1..n : j < k => MayPrecede(place[j], place[k], filter, sort)
  <2>1. NoRepeats(place) /\ Entries(place) = P
        /\ \A j, k \in 1..Len(place) : j < k => MayPrecede(place[j], place[k], filter, sort)
    BY <1>2 DEF Sortings
  <2> QED BY <1>3, <2>1 DEF NoRepeats, Entries
<1>5. /\ \A i \in P : i \in Nat /\ i \in Stored /\ Key(ids[i], sort[1]) \in Int
      /\ Cardinality(P) > SmallSort => \A i, j \in P : i # j => ~SameKey(i, j, sort)
  <2>1. Len(ids) \in Nat
    BY DEF HistoriesTypeOK
  <2> QED BY <2>1, StoredType, KeyType DEF Unstable
<1>6. /\ \A i \in P : ~Precedes(i, i, sort)
      /\ \A i, j, k \in P : Precedes(i, j, sort) /\ Precedes(j, k, sort) => Precedes(i, k, sort)
  BY <1>5, PrecedesOrder
<1>7. \A i, j \in P : i # j /\ MayPrecede(i, j, filter, sort) => Precedes(i, j, sort)
  BY <1>5 DEF MayPrecede, SameKey, Precedes
<1> HIDE DEF P
<1>8. ASSUME NEW j \in 1..n, NEW k \in 1..n
      PROVE  Precedes(place[j], place[k], sort) <=> j < k
  <2>1. place[j] \in P /\ place[k] \in P
    BY <1>2
  <2>2. j < k => Precedes(place[j], place[k], sort)
    BY <1>4, <1>7, <2>1
  <2>3. k < j => Precedes(place[k], place[j], sort)
    BY <1>4, <1>7, <2>1
  <2>4. j = k => ~Precedes(place[j], place[k], sort)
    BY <1>6, <2>1
  <2>5. j \in Int /\ k \in Int
    OBVIOUS
  <2> QED BY <1>6, <2>1, <2>2, <2>3, <2>4, <2>5
<1> QED
  BY <1>2, <1>4, <1>8 DEF P

-----------------------------------------------------------------------------
(* Histories: a page *)

\* Place i comes after the one the cursor names, if it names one.
Past(cursor, i, sort) == \A c \in Stored : ids[c] = cursor => Precedes(c, i, sort)

\* A page is what comes after the cursor, up to the cursor of the next page, and
\* what the cursor has passed the next one has passed.
PageExact(page, cursor, filter, sort) ==
    /\ page.payments \in Seq(Orders)
    /\ NoRepeats(page.payments)
    /\ Entries(page.payments) \subseteq Matching(filter)
    /\ page.next_cursor \in Matching(filter) \cup {NoEntry}
    /\ \A i \in Candidates(filter) :
          ids[i] \in Entries(page.payments) <=>
              /\ Past(cursor, i, sort)
              /\ page.next_cursor = NoEntry \/ ~Past(page.next_cursor, i, sort)
    /\ \A i \in Stored :
          page.next_cursor # NoEntry /\ ~Past(cursor, i, sort) => ~Past(page.next_cursor, i, sort)

\* Every page is: a sorted list is cut after the cursor and after the limit.
LEMMA PagesExact ==
    ASSUME HistoriesTypeOK, NEW filter, NEW sort, NEW limit \in Nat \ {0}, NoRepeats(ids),
           ~Unstable(filter, sort), NEW sorted \in SortedLists(filter, sort),
           NEW cursor \in Matching(filter) \cup {NoEntry}
    PROVE  PageExact(build_page(sorted, cursor, limit), cursor, filter, sort)
<1> DEFINE page == build_page(sorted, cursor, limit)
<1> DEFINE P == Candidates(filter)
<1>1. PICK n \in Nat : \E place \in [1..n -> P] :
              /\ sorted = [k \in 1..n |-> ids[place[k]]]
              /\ \A i \in P : \E k \in 1..n : place[k] = i
              /\ \A j, k \in 1..n : Precedes(place[j], place[k], sort) <=> j < k
  BY SortedPlaces
<1>2. PICK place \in [1..n -> P] :
              /\ sorted = [k \in 1..n |-> ids[place[k]]]
              /\ \A i \in P : \E k \in 1..n : place[k] = i
              /\ \A j, k \in 1..n : Precedes(place[j], place[k], sort) <=> j < k
  BY <1>1
<1>3. /\ Len(ids) \in Nat
      /\ Stored \subseteq 1..Len(ids) /\ P \subseteq Stored
      /\ \A i \in Stored : ids[i] \in Orders
      /\ Matching(filter) = {ids[i] : i \in P}
      /\ NoEntry \notin Orders
  BY CandidateType, StoredType, HistoriesAssumption DEF Matching, HistoriesAssumption
<1>4. \A i, j \in Stored : ids[i] = ids[j] => i = j
  BY <1>3 DEF NoRepeats
<1> HIDE DEF P
<1>5. sorted \in Seq(Orders) /\ Len(sorted) = n /\ \A k \in 1..n : sorted[k] = ids[place[k]]
  <2>1. \A k \in 1..n : ids[place[k]] \in Orders
    BY <1>2, <1>3
  <2> QED BY <1>2, <2>1
<1>6. \A j, k \in 1..n : sorted[j] = sorted[k] => j = k
  <2>1. \A j, k \in 1..n : place[j] = place[k] => j = k
    BY <1>2
  <2> QED BY <1>2, <1>3, <1>4, <1>5, <2>1
<1>7. Entries(sorted) = Matching(filter)
  <2>1. ASSUME NEW o \in Entries(sorted) PROVE o \in Matching(filter)
    <3>1. PICK k \in 1..n : o = sorted[k]
      BY <1>5 DEF Entries
    <3> QED BY <1>2, <1>3, <1>5, <3>1
  <2>2. ASSUME NEW o \in Matching(filter) PROVE o \in Entries(sorted)
    <3>1. PICK i \in P : o = ids[i]
      BY <1>3
    <3>2. PICK k \in 1..n : place[k] = i
      BY <1>2
    <3>3. o = sorted[k]
      BY <1>5, <3>1, <3>2
    <3> QED BY <1>5, <3>3 DEF Entries
  <2> QED BY <2>1, <2>2
\* A cursor's position among the sorted candidates.
<1>8. ASSUME NEW k \in 1..n, NEW m \in 1..n
      PROVE  Past(sorted[m], place[k], sort) <=> m < k
  <2>1. \A c \in Stored : ids[c] = sorted[m] <=> c = place[m]
    BY <1>2, <1>3, <1>4, <1>5
  <2>2. place[m] \in P
    BY <1>2
  <2> QED BY <1>2, <1>3, <2>1, <2>2 DEF Past
<1>9. PICK start \in 0..n :
         /\ start = StartIndex(sorted, cursor)
         /\ \A k \in 1..n : Past(cursor, place[k], sort) <=> start < k
  <2>1. CASE cursor \in Matching(filter)
    <3>1. PICK m \in 1..n : sorted[m] = cursor
      BY <1>5, <1>7, <2>1 DEF Entries
    <3>2. \A i \in 1..n : (sorted[i] = cursor /\ \A j \in 1..i - 1 : sorted[j] # cursor) <=> i = m
      BY <1>6, <3>1
    <3>3. StartIndex(sorted, cursor) = m
      BY <1>5, <1>7, <2>1, <3>2 DEF StartIndex
    <3> QED BY <1>8, <3>1, <3>3
  <2>2. CASE cursor = NoEntry
    <3>1. StartIndex(sorted, cursor) = 0
      BY <1>3, <1>7, <2>2 DEF StartIndex
    <3>2. \A k \in 1..n : Past(cursor, place[k], sort) /\ 0 < k
      BY <1>3, <2>2 DEF Past
    <3> QED BY <3>1, <3>2
  <2> QED BY <2>1, <2>2
<1>10. PICK end \in start..n :
         /\ end = (IF Len(sorted) - start <= limit THEN Len(sorted) ELSE start + limit)
         /\ end < n => end \in 1..n
  BY <1>5
<1>11. /\ page.payments = SubSeq(sorted, start + 1, end)
       /\ page.next_cursor = IF end < n THEN sorted[end] ELSE NoEntry
  BY <1>5, <1>9, <1>10 DEF page, build_page
<1> HIDE DEF page
<1>12. /\ page.payments \in Seq(Orders)
       /\ Len(page.payments) = end - start
       /\ \A k \in 1..end - start : page.payments[k] = sorted[start + k]
  <2>1. start + 1 \in 1..Len(sorted) + 1 /\ end \in (start + 1) - 1..Len(sorted)
    BY <1>5
  <2>2. /\ page.payments \in Seq(Orders)
        /\ Len(page.payments) = (IF start + 1 <= end THEN end - (start + 1) + 1 ELSE 0)
        /\ \A k \in 1..end - (start + 1) + 1 : page.payments[k] = sorted[(start + 1) + k - 1]
    BY <1>5, <1>11, <2>1, SubSeqProperties
  <2>3. \A k \in 1..end - start : (start + 1) + k - 1 = start + k
    OBVIOUS
  <2> QED BY <2>2, <2>3
<1>13. NoRepeats(page.payments)
  BY <1>6, <1>12 DEF NoRepeats
<1>14. ASSUME NEW k \in 1..n
       PROVE  sorted[k] \in Entries(page.payments) <=> start < k /\ k <= end
  <2>1. start < k /\ k <= end => k - start \in 1..end - start /\ start + (k - start) = k
    OBVIOUS
  <2>2. \A m \in 1..end - start : start + m \in 1..n /\ start < start + m /\ start + m <= end
    OBVIOUS
  <2>3. ASSUME sorted[k] \in Entries(page.payments) PROVE start < k /\ k <= end
    <3>1. PICK m \in 1..end - start : sorted[k] = sorted[start + m]
      BY <1>12, <2>3 DEF Entries
    <3> QED BY <1>6, <2>2, <3>1
  <2>4. ASSUME start < k, k <= end PROVE sorted[k] \in Entries(page.payments)
    <3>1. page.payments[k - start] = sorted[k]
      BY <1>12, <2>1, <2>4
    <3> QED BY <1>12, <2>1, <2>4, <3>1 DEF Entries
  <2> QED BY <2>3, <2>4
<1>15. Entries(page.payments) \subseteq Matching(filter)
  <2>1. \A m \in 1..end - start : start + m \in 1..n
    OBVIOUS
  <2> QED BY <1>5, <1>7, <1>12, <2>1 DEF Entries
<1>16. page.next_cursor # NoEntry <=> end < n
  BY <1>3, <1>5, <1>7, <1>10, <1>11
<1>17. end < n => page.next_cursor \in Matching(filter)
  BY <1>5, <1>7, <1>10, <1>11 DEF Entries
<1>18. ASSUME NEW i \in P
       PROVE  ids[i] \in Entries(page.payments) <=>
                  /\ Past(cursor, i, sort)
                  /\ page.next_cursor = NoEntry \/ ~Past(page.next_cursor, i, sort)
  <2>1. PICK k \in 1..n : place[k] = i
    BY <1>2
  <2>2. ids[i] = sorted[k]
    BY <1>5, <2>1
  <2>3. Past(cursor, i, sort) <=> start < k
    BY <1>9, <2>1
  <2>4. end < n => (Past(page.next_cursor, i, sort) <=> end < k)
    BY <1>8, <1>10, <1>11, <2>1
  <2> QED BY <1>14, <1>16, <2>2, <2>3, <2>4
\* The next cursor, if there is one, is past the cursor.
<1>19. ASSUME NEW i \in Stored, end < n, ~Past(cursor, i, sort)
       PROVE  ~Past(page.next_cursor, i, sort)
  <2>1. start < end /\ end \in 1..n /\ page.next_cursor = ids[place[end]]
    BY <1>5, <1>10, <1>11, <1>19
  <2>2. place[end] \in Stored
    BY <1>2, <1>3, <2>1
  <2>3. PICK c \in Stored : ids[c] = cursor /\ ~Precedes(c, i, sort)
    BY <1>19 DEF Past
  <2>4. Precedes(c, place[end], sort)
    BY <1>9, <2>1, <2>3 DEF Past
  <2>5. ~Precedes(place[end], i, sort)
    <3>1. /\ Precedes(c, place[end], sort) /\ Precedes(place[end], i, sort) => Precedes(c, i, sort)
      BY <2>2, <2>3, PrecedesOrder
    <3> QED BY <2>3, <2>4, <3>1
  <2> QED
    BY <2>1, <2>2, <2>5 DEF Past
<1> QED
  BY <1>11, <1>12, <1>13, <1>15, <1>16, <1>17, <1>18, <1>19 DEF P, page, PageExact

-----------------------------------------------------------------------------
(* Histories: the reader between two pages *)

\* An undisturbed reader between two pages: as long as its cursor is stored, it
\* has nothing that comes after it, and everything due up to there.
Placed ==
    (reader.state = "reading" /\ Undisturbed) =>
        /\ ~reader.repeated
        /\ reader.due \subseteq Matching(reader.filter)
        /\ reader.cursor = NoEntry \/ payment[reader.cursor] # NoEntry =>
               \A i \in Stored :
                   /\ ids[i] \in reader.seen => ~Past(reader.cursor, i, reader.sort)
                   /\ ids[i] \in reader.due
                          => Past(reader.cursor, i, reader.sort) \/ ids[i] \in reader.seen

HistoriesInv ==
    /\ HistoriesTypeOK
    /\ Placed
    /\ PagesComplete

\* Nothing is paid and nobody reads.
LEMMA HistoriesInitInv == HistoriesInit => HistoriesInv
<1> SUFFICES ASSUME HistoriesInit PROVE HistoriesInv
  OBVIOUS
<1>1. HistoriesTypeOK
  BY HistoriesAssumption DEF HistoriesInit, HistoriesTypeOK, HistoriesAssumption
<1>2. reader.state = "idle"
  BY DEF HistoriesInit, NotStarted
<1> QED
  BY <1>1, <1>2 DEF HistoriesInv, Placed, PagesComplete

\* The first page, or the next one.
LEMMA AdvanceInv ==
    ASSUME HistoriesInv, HistoriesTypeOK', reader.state = "reading",
           require_valid_limit(reader.limit), NEW counted,
           NEW sorted \in SortedLists(reader.filter, reader.sort),
           Advance(build_page(sorted, reader.cursor, reader.limit), counted),
           UNCHANGED <<now, payment, ids>>
    PROVE  HistoriesInv'
<1> DEFINE page == build_page(sorted, reader.cursor, reader.limit)
           f == reader.filter
           s == reader.sort
<1>0. reader \in Reader /\ ids \in Seq(Orders)
  BY DEF HistoriesInv, HistoriesTypeOK, NotStarted
<1>1. reader.limit \in Nat \ {0}
  BY <1>0, HistoriesAssumption DEF Reader, require_valid_limit, HistoriesAssumption
<1>2. /\ reader'.filter = f /\ reader'.sort = s /\ reader'.due = reader.due
      /\ reader'.seen = reader.seen \cup Entries(page.payments)
      /\ reader'.repeated = (reader.repeated \/ ~NoRepeats(page.payments)
                                \/ reader.seen \cap Entries(page.payments) # {})
      /\ reader'.cursor = page.next_cursor
      /\ reader'.lost = (reader.lost \/ reader.cursor \notin Matching(f) \cup {NoEntry}
                            \/ Unstable(f, s))
      /\ reader'.state = IF page.next_cursor = NoEntry THEN "done" ELSE "reading"
  <2> HIDE DEF page
  <2> QED BY <1>0 DEF Advance, Reader, page
<1>3. /\ Stored' = Stored
      /\ \A g : Matching(g)' = Matching(g)
      /\ \A c, i, t : Past(c, i, t)' <=> Past(c, i, t)
  BY DEF Candidates, Matching, Stored, Past, Precedes, Key
<1> SUFFICES ASSUME Undisturbed' PROVE Placed' /\ PagesComplete'
  BY DEF HistoriesInv, Placed, PagesComplete
<1>4. /\ Undisturbed /\ NoRepeats(ids)
      /\ reader.cursor \in Matching(f) \cup {NoEntry}
      /\ ~Unstable(f, s)
  BY <1>0, <1>2 DEF Undisturbed, NoRepeats, Reader
<1>5. reader.cursor = NoEntry \/ payment[reader.cursor] # NoEntry
  BY <1>4 DEF Matching, Candidates
<1>6. /\ ~reader.repeated
      /\ reader.due \subseteq Matching(f)
      /\ \A i \in Stored :
            /\ ids[i] \in reader.seen => ~Past(reader.cursor, i, s)
            /\ ids[i] \in reader.due => Past(reader.cursor, i, s) \/ ids[i] \in reader.seen
  BY <1>4, <1>5 DEF HistoriesInv, Placed
<1>7. PageExact(page, reader.cursor, f, s)
  <2>1. HistoriesTypeOK
    BY DEF HistoriesInv
  <2> QED BY <1>1, <1>4, <2>1, PagesExact
<1> HIDE DEF page
<1>8. /\ Matching(f) = {ids[i] : i \in Candidates(f)}
      /\ Candidates(f) \subseteq Stored
      /\ \A i \in Stored : ids[i] \in Matching(f) => i \in Candidates(f)
  BY DEF Matching, Candidates, Stored
<1>9. ~reader'.repeated
  <2>1. reader.seen \cap Entries(page.payments) = {}
    <3> SUFFICES ASSUME NEW o \in reader.seen, o \in Entries(page.payments) PROVE FALSE
      OBVIOUS
    <3>1. PICK i \in Candidates(f) : o = ids[i]
      BY <1>7, <1>8 DEF PageExact
    <3> QED BY <1>6, <1>7, <1>8, <3>1 DEF PageExact
  <2>2. NoRepeats(page.payments)
    BY <1>7 DEF PageExact
  <2> QED BY <1>2, <1>6, <2>1, <2>2
<1>10. ASSUME NEW i \in Stored
       PROVE  /\ page.next_cursor = NoEntry /\ ids[i] \in reader.due
                    => ids[i] \in reader.seen \cup Entries(page.payments)
              /\ page.next_cursor # NoEntry /\ ids[i] \in reader.seen \cup Entries(page.payments)
                    => ~Past(page.next_cursor, i, s)
              /\ page.next_cursor # NoEntry /\ ids[i] \in reader.due
                    => \/ Past(page.next_cursor, i, s)
                       \/ ids[i] \in reader.seen \cup Entries(page.payments)
  BY <1>6, <1>7, <1>8 DEF PageExact
<1>11. page.next_cursor = NoEntry => reader.due \subseteq reader.seen \cup Entries(page.payments)
  BY <1>6, <1>8, <1>10
<1>12. PagesComplete'
  BY <1>2, <1>9, <1>11 DEF PagesComplete
<1>13. Placed'
  BY <1>2, <1>3, <1>6, <1>9, <1>10 DEF Placed
<1> QED
  BY <1>12, <1>13

\* What the contract may do to the payments meanwhile: the index only grows, and
\* a payment of which nothing is new keeps what it is sorted by, or is gone.
Evolves(stored) ==
    /\ stored \subseteq Orders
    /\ Len(ids) <= Len(ids')
    /\ \A i \in 1..Len(ids) : ids'[i] = ids[i]
    /\ \A i \in 1..Len(ids') : i > Len(ids) => ids'[i] \in stored
    /\ \A o \in Orders \ stored :
          \/ payment'[o] = NoEntry
          \/ /\ payment[o] # NoEntry
             /\ payment'[o].amount = payment[o].amount
             /\ payment'[o].paid_at = payment[o].paid_at

\* A place that is stored and not new was, and is where it was in the order.
LEMMA OrderKept ==
    ASSUME HistoriesTypeOK, HistoriesTypeOK', NEW stored, Evolves(stored)
    PROVE  /\ \A i \in Stored' : ids'[i] \notin stored => i \in Stored /\ ids'[i] = ids[i]
           /\ \A i, j \in Stored' : \A sort : ids'[i] \notin stored /\ ids'[j] \notin stored
                  => (Precedes(i, j, sort)' <=> Precedes(i, j, sort))
<1>1. Len(ids) \in Nat /\ Len(ids') \in Nat
      /\ \A i \in 1..Len(ids') : ids'[i] \in Orders
  BY DEF HistoriesTypeOK
<1>2. ASSUME NEW i \in Stored', ids'[i] \notin stored
      PROVE  /\ i \in Stored /\ ids'[i] = ids[i]
             /\ payment'[ids[i]].amount = payment[ids[i]].amount
             /\ payment'[ids[i]].paid_at = payment[ids[i]].paid_at
  <2>1. i \in 1..Len(ids') /\ payment'[ids'[i]] # NoEntry
    BY DEF Stored
  <2>2. i \in 1..Len(ids)
    BY <1>1, <1>2, <2>1 DEF Evolves
  <2> QED BY <1>1, <1>2, <2>1, <2>2 DEF Evolves, Stored
<1>3. ASSUME NEW i \in Stored', NEW j \in Stored', NEW sort,
             ids'[i] \notin stored, ids'[j] \notin stored
      PROVE  Precedes(i, j, sort)' <=> Precedes(i, j, sort)
  <2>1. /\ ids'[i] = ids[i] /\ ids'[j] = ids[j]
        /\ \A o \in {ids[i], ids[j]} :
              payment'[o].amount = payment[o].amount /\ payment'[o].paid_at = payment[o].paid_at
    BY <1>2, <1>3
  <2> QED BY <2>1 DEF Precedes, Key
<1> QED
  BY <1>2, <1>3

\* Whatever they do, the reader has neither missed nor repeated anything.
LEMMA MeanwhileInv ==
    ASSUME HistoriesInv, HistoriesTypeOK', NEW stored, Evolves(stored), Meanwhile(stored)
    PROVE  HistoriesInv'
<1>0. Len(ids) \in Nat /\ Len(ids') \in Nat /\ \A i \in 1..Len(ids) : ids[i] \in Orders
  BY DEF HistoriesInv, HistoriesTypeOK
<1>1. NoRepeats(ids)' => NoRepeats(ids)
  BY <1>0 DEF NoRepeats, Evolves
<1>2. CASE reader.state = "reading"
  <2>1. reader \in Reader
    BY <1>2 DEF HistoriesInv, HistoriesTypeOK, NotStarted
  <2>2. /\ reader'.state = "reading" /\ reader'.filter = reader.filter
        /\ reader'.sort = reader.sort /\ reader'.cursor = reader.cursor
        /\ reader'.repeated = reader.repeated
        /\ reader'.seen = reader.seen \ stored
        /\ reader'.due = {o \in reader.due \ stored :
                             payment'[o] # NoEntry /\ matches_filter(payment'[o], reader.filter)}
        /\ reader'.lost = (reader.lost \/ reader.cursor \in stored)
    BY <1>2, <2>1 DEF Meanwhile, Reader
  <2> SUFFICES ASSUME Undisturbed' PROVE Placed' /\ PagesComplete'
    BY DEF HistoriesInv, Placed, PagesComplete
  <2>3. Undisturbed /\ reader.cursor \notin stored
    BY <1>1, <2>1, <2>2 DEF Undisturbed, NoRepeats, Reader
  <2>31. PICK f : f = reader.filter
    OBVIOUS
  <2>32. PICK s : s = reader.sort
    OBVIOUS
  <2>33. PICK cursor \in Orders \cup {NoEntry} : cursor = reader.cursor
    BY <2>1 DEF Reader
  <2>4. /\ ~reader.repeated
        /\ reader.due \subseteq Matching(f)
        /\ cursor = NoEntry \/ payment[cursor] # NoEntry =>
               \A i \in Stored :
                   /\ ids[i] \in reader.seen => ~Past(cursor, i, s)
                   /\ ids[i] \in reader.due => Past(cursor, i, s) \/ ids[i] \in reader.seen
    BY <1>2, <2>3, <2>31, <2>32, <2>33 DEF HistoriesInv, Placed
  <2>5. reader'.due \subseteq Matching(f)'
    <3> SUFFICES ASSUME NEW o \in reader'.due PROVE o \in Matching(f)'
      OBVIOUS
    <3>1. o \in reader.due /\ payment'[o] # NoEntry /\ matches_filter(payment'[o], f)
      BY <2>2, <2>31
    <3>2. PICK i \in 1..Len(ids) : ids[i] = o
      BY <2>4, <3>1 DEF Matching, Candidates
    <3>3. i \in 1..Len(ids') /\ ids'[i] = o
      BY <1>0, <3>2 DEF Evolves
    <3> QED BY <3>1, <3>3 DEF Matching, Candidates
  <2>6. cursor = NoEntry \/ payment'[cursor] # NoEntry => cursor = NoEntry \/ payment[cursor] # NoEntry
    BY <2>3, <2>33 DEF Evolves
  <2>7. ASSUME NEW i \in Stored', ids'[i] \notin stored, cursor = NoEntry \/ payment'[cursor] # NoEntry
        PROVE  i \in Stored /\ ids'[i] = ids[i] /\ (Past(cursor, i, s)' <=> Past(cursor, i, s))
    <3>1. i \in Stored /\ ids'[i] = ids[i]
      BY <2>7, OrderKept DEF HistoriesInv
    <3>2. ASSUME NEW c \in Stored', ids'[c] = cursor
          PROVE  c \in Stored /\ ids[c] = cursor /\ (Precedes(c, i, s)' <=> Precedes(c, i, s))
      <4>1. ids'[c] \notin stored
        BY <2>3, <2>33, <3>2
      <4> QED BY <2>7, <3>2, <4>1, OrderKept DEF HistoriesInv
    <3>3. ASSUME NEW c \in Stored, ids[c] = cursor
          PROVE  c \in Stored' /\ ids'[c] = cursor
      <4>1. c \in 1..Len(ids) /\ c \in 1..Len(ids')
        BY <1>0 DEF Stored, Evolves
      <4>2. ids'[c] = cursor /\ cursor # NoEntry
        BY <1>0, <3>3, <4>1, HistoriesAssumption DEF Evolves, HistoriesAssumption
      <4> QED BY <2>7, <4>1, <4>2 DEF Stored
    <3> QED BY <3>1, <3>2, <3>3 DEF Past
  <2>8. ASSUME NEW i \in Stored', cursor = NoEntry \/ payment'[cursor] # NoEntry
        PROVE  /\ ids'[i] \in reader'.seen => ~Past(cursor, i, s)'
               /\ ids'[i] \in reader'.due => Past(cursor, i, s)' \/ ids'[i] \in reader'.seen
    BY <2>2, <2>4, <2>6, <2>7, <2>8
  <2>9. Placed'
    BY <2>2, <2>31, <2>32, <2>33, <2>4, <2>5, <2>8 DEF Placed
  <2> QED
    BY <2>2, <2>4, <2>9 DEF PagesComplete
<1>3. CASE reader.state # "reading"
  <2>1. reader' = reader
    BY <1>3 DEF Meanwhile
  <2>2. Undisturbed' => Undisturbed
    BY <1>1, <2>1 DEF Undisturbed
  <2> QED
    BY <1>3, <2>1, <2>2 DEF HistoriesInv, Placed, PagesComplete
<1> QED
  BY <1>2, <1>3

\* The history of the reader keeps its type when payments change.
LEMMA MeanwhileType ==
    ASSUME HistoriesTypeOK, NEW stored, Meanwhile(stored)
    PROVE  reader' \in Reader \cup {NotStarted}
<1>1. CASE reader.state = "reading"
  <2>1. reader \in Reader
    BY <1>1 DEF HistoriesTypeOK, NotStarted
  <2>2. reader.seen \subseteq Orders /\ reader.due \subseteq Orders /\ reader.lost \in BOOLEAN
    BY <2>1 DEF Reader
  <2>3. /\ reader.seen \ stored \in SUBSET Orders
        /\ {o \in reader.due \ stored : payment'[o] # NoEntry
                                        /\ matches_filter(payment'[o], reader.filter)} \in SUBSET Orders
        /\ (reader.lost \/ reader.cursor \in stored) \in BOOLEAN
    BY <2>2
  <2> QED
    BY <1>1, <2>1, <2>3 DEF Meanwhile, Reader
<1>2. CASE reader.state # "reading"
  BY <1>2 DEF Meanwhile, HistoriesTypeOK
<1> QED
  BY <1>1, <1>2

\* A payment is new under its id, and stands at the end of the index or not there.
LEMMA StoreInv ==
    ASSUME HistoriesInv, NEW o \in Orders, NEW a \in Amounts, StorePayment(o, a),
           ids' = ids \/ (ids' = Append(ids, o) /\ Len(ids) < MaxIds)
    PROVE  HistoriesInv'
<1> DEFINE p == [amount |-> a, status |-> "Completed", paid_at |-> now]
<1>1. payment' = [payment EXCEPT ![o] = p] /\ now' = now
  BY DEF StorePayment
<1>2. p \in PaymentOrder
  BY DEF HistoriesInv, HistoriesTypeOK, PaymentOrder, PaymentStatus
<1> HIDE DEF p
<1>3. ids \in Seq(Orders) /\ Len(ids) \in Nat /\ MaxIds \in Nat /\ Len(ids) <= MaxIds
  BY HistoriesAssumption DEF HistoriesInv, HistoriesTypeOK, HistoriesAssumption
<1>4. /\ ids' \in Seq(Orders) /\ Len(ids') \in Len(ids)..MaxIds
      /\ \A i \in 1..Len(ids) : ids'[i] = ids[i]
      /\ \A i \in 1..Len(ids') : i > Len(ids) => ids'[i] = o
  <2>1. CASE ids' = ids
    BY <1>3, <2>1
  <2>2. CASE ids' = Append(ids, o) /\ Len(ids) < MaxIds
    <3>1. /\ ids' \in Seq(Orders) /\ Len(ids') = Len(ids) + 1
          /\ \A i \in 1..Len(ids) : ids'[i] = ids[i]
          /\ ids'[Len(ids) + 1] = o
      BY <1>3, <2>2, AppendProperties
    <3> QED BY <1>3, <2>2, <3>1
  <2> QED BY <2>1, <2>2
<1>5. HistoriesTypeOK'
  <2>1. payment' \in [Orders -> PaymentOrder \cup {NoEntry}]
    BY <1>1, <1>2 DEF HistoriesInv, HistoriesTypeOK
  <2>2. reader' \in Reader \cup {NotStarted}
    BY MeanwhileType DEF HistoriesInv, StorePayment
  <2> QED
    BY <1>1, <1>3, <1>4, <2>1, <2>2 DEF HistoriesInv, HistoriesTypeOK
<1>6. Evolves({o})
  <2>1. \A x \in Orders \ {o} : payment'[x] = payment[x]
    BY <1>1 DEF HistoriesInv, HistoriesTypeOK
  <2> QED
    BY <1>3, <1>4, <2>1 DEF Evolves
<1> QED
  BY <1>5, <1>6, MeanwhileInv DEF StorePayment

\* A status changes, by a refund or an override, on or back, and the index stays.
LEMMA StatusInv ==
    ASSUME HistoriesInv, NEW o \in Orders, NEW s \in RefundStatuses, payment[o] # NoEntry,
           payment' = [payment EXCEPT ![o].status = s], Meanwhile({}), UNCHANGED <<now, ids>>
    PROVE  HistoriesInv'
<1>1. payment[o] \in PaymentOrder /\ payment \in [Orders -> PaymentOrder \cup {NoEntry}]
  BY DEF HistoriesInv, HistoriesTypeOK
<1>2. /\ payment'[o] \in PaymentOrder
      /\ payment'[o].amount = payment[o].amount /\ payment'[o].paid_at = payment[o].paid_at
  BY <1>1, HistoriesAssumption DEF PaymentOrder, HistoriesAssumption
<1>3. /\ payment' \in [Orders -> PaymentOrder \cup {NoEntry}]
      /\ \A x \in Orders : x # o => payment'[x] = payment[x]
  BY <1>1, <1>2
<1>4. HistoriesTypeOK'
  <2>1. reader' \in Reader \cup {NotStarted}
    BY MeanwhileType DEF HistoriesInv
  <2> QED
    BY <1>3, <2>1 DEF HistoriesInv, HistoriesTypeOK
<1>5. Evolves({})
  <2>1. Len(ids) \in Nat
    BY DEF HistoriesInv, HistoriesTypeOK
  <2> QED
    BY <1>2, <1>3, <2>1 DEF Evolves
<1> QED
  BY <1>4, <1>5, MeanwhileInv

\* The archive removes the record and leaves the index alone.
LEMMA ArchiveInv ==
    ASSUME HistoriesInv, NEW o \in Orders, Archive(o)
    PROVE  HistoriesInv'
<1>1. payment' = [payment EXCEPT ![o] = NoEntry] /\ ids' = ids /\ now' = now /\ Meanwhile({})
  BY DEF Archive
<1>2. /\ payment' \in [Orders -> PaymentOrder \cup {NoEntry}]
      /\ \A x \in Orders : payment'[x] = payment[x] \/ payment'[x] = NoEntry
  BY <1>1 DEF HistoriesInv, HistoriesTypeOK
<1>3. HistoriesTypeOK'
  <2>1. reader' \in Reader \cup {NotStarted}
    BY <1>1, MeanwhileType DEF HistoriesInv
  <2> QED
    BY <1>1, <1>2, <2>1 DEF HistoriesInv, HistoriesTypeOK
<1>4. Evolves({})
  <2>1. Len(ids) \in Nat
    BY DEF HistoriesInv, HistoriesTypeOK
  <2> QED
    BY <1>1, <1>2, <2>1 DEF Evolves
<1> QED
  BY <1>1, <1>3, <1>4, MeanwhileInv

\* A reader that begins has everything that matches before it.
LEMMA BeginInv ==
    ASSUME HistoriesInv, NEW f \in Filters, NEW s \in Sorts, NEW l \in Limits, Begin(f, s, l)
    PROVE  HistoriesInv'
<1>1. /\ reader' = [state |-> "reading", filter |-> f, sort |-> s, limit |-> l, cursor |-> NoEntry,
                    pages |-> 0, seen |-> {}, due |-> Matching(f), repeated |-> FALSE, lost |-> FALSE]
      /\ UNCHANGED <<now, payment, ids>>
  BY DEF Begin
<1>2. Matching(f) \subseteq Orders /\ NoEntry \notin Orders /\ MaxPages \in Nat
  BY CandidateType, HistoriesAssumption DEF HistoriesInv, HistoriesAssumption
<1>3. HistoriesTypeOK'
  <2>1. reader' \in Reader
    BY <1>1, <1>2 DEF Reader
  <2> QED BY <1>1, <2>1 DEF HistoriesInv, HistoriesTypeOK
<1>4. Matching(f)' = Matching(f) /\ Stored' = Stored
  BY <1>1 DEF Matching, Candidates, Stored
<1>5. Placed'
  <2>1. \A i \in Stored' : Past(NoEntry, i, s)'
    <3>1. \A c \in Stored' : ids'[c] \in Orders
      BY <1>1, <1>4, StoredType DEF HistoriesInv
    <3> QED BY <1>2, <3>1 DEF Past
  <2>2. /\ reader'.filter = f /\ reader'.sort = s /\ reader'.cursor = NoEntry
        /\ reader'.due = Matching(f) /\ reader'.seen = {} /\ ~reader'.repeated
    BY <1>1
  <2> QED
    BY <1>4, <2>1, <2>2 DEF Placed
<1>6. PagesComplete'
  BY <1>1 DEF PagesComplete
<1> QED
  BY <1>3, <1>5, <1>6 DEF HistoriesInv

\* A reader that ends in a failure has nothing to show.
LEMMA FailInv ==
    ASSUME HistoriesInv, reader.state = "reading", Fail, UNCHANGED <<now, payment, ids>>
    PROVE  HistoriesInv'
<1>1. reader \in Reader
  BY DEF HistoriesInv, HistoriesTypeOK, NotStarted
<1>2. reader' \in Reader /\ reader'.state = "failed"
  BY <1>1 DEF Fail, Reader
<1> QED
  BY <1>2 DEF HistoriesInv, HistoriesTypeOK, Placed, PagesComplete

\* A sequence with an entry has it in a first place.
LEMMA FirstPlace ==
    ASSUME NEW s \in Seq(Orders), NEW e \in Entries(s)
    PROVE  \E i \in 1..Len(s) : s[i] = e /\ \A j \in 1..i - 1 : s[j] # e
<1> DEFINE T == {i \in 1..Len(s) : s[i] = e}
           Less == {p \in Nat \X Nat : p[1] < p[2]}
<1>1. T \subseteq Nat /\ T # {}
  BY DEF Entries
<1>2. IsWellFoundedOn(Less, Nat)
  BY NatLessThanWellFounded DEF OpToRel
<1>3. PICK i \in T : \A j \in T : ~(<<j, i>> \in Less)
  <2> HIDE DEF T, Less
  <2> QED BY <1>1, <1>2, WFMin
<1>4. \A j \in T : ~(j < i)
  BY <1>1, <1>3
<1> QED
  BY <1>3, <1>4

\* A page is one of order ids, whatever the index and the cursor.
LEMMA PageType ==
    ASSUME NEW sorted \in Seq(Orders), NEW limit \in Nat \ {0}, NEW cursor
    PROVE  LET page == build_page(sorted, cursor, limit)
           IN  page.payments \in Seq(Orders) /\ page.next_cursor \in Orders \cup {NoEntry}
<1>1. PICK start : start = StartIndex(sorted, cursor)
  OBVIOUS
<1>2. PICK end : end = IF Len(sorted) - start <= limit THEN Len(sorted) ELSE start + limit
  OBVIOUS
<1>3. LET page == build_page(sorted, cursor, limit)
      IN  /\ page.payments = SubSeq(sorted, start + 1, end)
          /\ page.next_cursor = IF end < Len(sorted) THEN sorted[end] ELSE NoEntry
  BY <1>1, <1>2 DEF build_page
<1>4. start \in 0..Len(sorted)
  BY <1>1, FirstPlace DEF StartIndex
<1>5. end \in start..Len(sorted) /\ (end < Len(sorted) => end = start + limit)
  BY <1>2, <1>4
<1>6. end < Len(sorted) => end \in 1..Len(sorted) /\ sorted[end] \in Orders
  BY <1>4, <1>5
<1>7. SubSeq(sorted, start + 1, end) \in Seq(Orders)
  <2>1. start + 1 \in Int /\ end \in Int /\ \A i \in start + 1..end : sorted[i] \in Orders
    BY <1>4, <1>5
  <2> QED BY <2>1, SubSeqProperties
<1> QED
  BY <1>3, <1>6, <1>7

\* A page leaves the reader well typed.
LEMMA AdvanceType ==
    ASSUME HistoriesTypeOK, reader.state = "reading", require_valid_limit(reader.limit),
           NEW counted \in 0..MaxPages, NEW sorted \in SortedLists(reader.filter, reader.sort),
           Advance(build_page(sorted, reader.cursor, reader.limit), counted),
           UNCHANGED <<now, payment, ids>>
    PROVE  HistoriesTypeOK'
<1> DEFINE page == build_page(sorted, reader.cursor, reader.limit)
<1>1. reader \in Reader
  BY DEF HistoriesTypeOK, NotStarted
<1>2. Entries(page.payments) \subseteq Orders /\ page.next_cursor \in Orders \cup {NoEntry}
  <2>1. reader.limit \in Nat \ {0}
    BY <1>1, HistoriesAssumption DEF Reader, require_valid_limit, HistoriesAssumption
  <2>2. sorted \in Seq(Orders)
    BY SortedType
  <2>3. page.payments \in Seq(Orders) /\ page.next_cursor \in Orders \cup {NoEntry}
    BY <2>1, <2>2, PageType
  <2> HIDE DEF page
  <2> QED BY <2>3 DEF Entries
<1> HIDE DEF page
<1>3. reader.seen \cup Entries(page.payments) \in SUBSET Orders
  BY <1>1, <1>2 DEF Reader
<1>4. /\ reader.repeated \in BOOLEAN /\ reader.lost \in BOOLEAN
      /\ (reader.repeated \/ ~NoRepeats(page.payments)
            \/ reader.seen \cap Entries(page.payments) # {}) \in BOOLEAN
      /\ (reader.lost \/ reader.cursor \notin Matching(reader.filter) \cup {NoEntry}
            \/ Unstable(reader.filter, reader.sort)) \in BOOLEAN
  BY <1>1 DEF Reader
<1>5. reader' \in Reader
  BY <1>1, <1>2, <1>3, <1>4 DEF Advance, Reader, page
<1> QED
  BY <1>5 DEF HistoriesTypeOK

\* Every step of a reader and of the payments keeps the invariant.
LEMMA HistoriesNextInv ==
    ASSUME HistoriesInv, [HistoriesNext]_historiesVars
    PROVE  HistoriesInv'
<1>1. ASSUME NEW f \in Filters, NEW s \in Sorts, NEW l \in Limits, Begin(f, s, l) PROVE HistoriesInv'
  BY <1>1, BeginInv
<1>2. CASE fetchAllPages
  <2>1. PICK sorted \in SortedLists(reader.filter, reader.sort) :
            LET page == build_page(sorted, reader.cursor, reader.limit)
            IN  IF ~Guarded THEN Advance(page, 0)
                ELSE IF reader.pages >= MaxPages \/ Stuck(page) THEN Fail
                ELSE Advance(page, reader.pages + 1)
    BY <1>2 DEF fetchAllPages
  <2> DEFINE page == build_page(sorted, reader.cursor, reader.limit)
  <2>2. /\ reader.state = "reading" /\ require_valid_limit(reader.limit)
        /\ UNCHANGED <<now, payment, ids>>
        /\ Fail \/ Advance(page, 0) \/ (~(reader.pages >= MaxPages) /\ Advance(page, reader.pages + 1))
    BY <1>2, <2>1 DEF fetchAllPages
  <2>3. CASE Fail
    BY <2>2, <2>3, FailInv
  <2>4. ASSUME NEW counted \in 0..MaxPages, Advance(page, counted) PROVE HistoriesInv'
    <3>1. HistoriesTypeOK'
      BY <2>2, <2>4, AdvanceType DEF HistoriesInv
    <3> QED BY <2>2, <2>4, <3>1, AdvanceInv
  <2>5. 0 \in 0..MaxPages /\ (~(reader.pages >= MaxPages) => reader.pages + 1 \in 0..MaxPages)
    <3>1. reader.pages \in 0..MaxPages
      BY <2>2 DEF HistoriesInv, HistoriesTypeOK, NotStarted, Reader
    <3> QED BY <3>1, HistoriesAssumption DEF HistoriesAssumption
  <2> HIDE DEF page
  <2> QED BY <2>2, <2>3, <2>4, <2>5
<1>3. CASE FetchRejected
  BY <1>3, FailInv DEF FetchRejected
<1>4. ASSUME NEW o \in Orders, NEW a \in Amounts, NEW here \in BOOLEAN, Pay(o, a, here)
      PROVE  HistoriesInv'
  BY <1>4, StoreInv DEF Pay
<1>5. ASSUME NEW o \in Orders, NEW a \in Amounts, NEW here \in BOOLEAN,
             execute_multisig_payment(o, a, here)
      PROVE  HistoriesInv'
  BY <1>5, StoreInv DEF execute_multisig_payment
<1>6. ASSUME NEW o \in Orders, NEW s \in RefundStatuses, Refund(o, s) PROVE HistoriesInv'
  BY <1>6, StatusInv DEF Refund
<1>7. ASSUME NEW o \in Orders, NEW s \in RefundStatuses, update_payment_status(o, s)
      PROVE  HistoriesInv'
  BY <1>7, StatusInv DEF update_payment_status
<1>8. ASSUME NEW o \in Orders, Archive(o) PROVE HistoriesInv'
  BY <1>8, ArchiveInv
<1>9. CASE Tick \/ UNCHANGED historiesVars
  <2>1. payment' = payment /\ ids' = ids /\ reader' = reader /\ now' \in 0..MaxTime
    BY <1>9, HistoriesAssumption
    DEF HistoriesInv, HistoriesTypeOK, Tick, historiesVars, HistoriesAssumption
  <2>2. HistoriesTypeOK'
    BY <2>1 DEF HistoriesInv, HistoriesTypeOK
  <2>3. /\ \A f : Matching(f)' = Matching(f)
        /\ Stored' = Stored
        /\ \A c, i, s : Past(c, i, s)' <=> Past(c, i, s)
        /\ Undisturbed' <=> Undisturbed
    BY <2>1 DEF Candidates, Matching, Stored, Past, Precedes, Key, Undisturbed, NoRepeats
  <2>4. Placed'
    BY <2>1, <2>3 DEF HistoriesInv, Placed
  <2>5. PagesComplete'
    BY <2>1, <2>3 DEF HistoriesInv, PagesComplete
  <2> QED
    BY <2>2, <2>4, <2>5 DEF HistoriesInv
<1> QED
  BY <1>1, <1>2, <1>3, <1>4, <1>5, <1>6, <1>7, <1>8, <1>9 DEF HistoriesNext

\* The invariant holds throughout.
LEMMA HistoriesAlwaysInv == HistoriesSpec => []HistoriesInv
<1>1. HistoriesInv /\ [HistoriesNext]_historiesVars => HistoriesInv'
  BY HistoriesNextInv
<1> QED
  BY <1>1, HistoriesInitInv, PTL DEF HistoriesSpec

\* The clock, the records, the index and the reader keep their types, also when
\* the cursor is archived, an id is in the index twice, or stands there for a
\* payment of others (build_page).
THEOREM HistoriesTypeCorrect == HistoriesSpec => []HistoriesTypeOK
<1>1. HistoriesInv => HistoriesTypeOK
  BY DEF HistoriesInv
<1> QED
  BY <1>1, HistoriesAlwaysInv, PTL

\* An undisturbed reader gets no payment twice and, at the end, every payment that
\* matched all the while, whatever is paid to anybody, agreed, refunded,
\* overridden and archived between two pages: the cursor is looked up in a list
\* that is filtered and sorted anew (build_page, fetchAllPages).
THEOREM PagesAlwaysComplete == HistoriesSpec => []PagesComplete
<1>1. HistoriesInv => PagesComplete
  BY DEF HistoriesInv
<1> QED
  BY <1>1, HistoriesAlwaysInv, PTL

=============================================================================
