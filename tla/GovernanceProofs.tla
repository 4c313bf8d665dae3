-------------------------- MODULE GovernanceProofs --------------------------
(***************************************************************************)
(* The timelock and the pause state, for any number of people, guardians   *)
(* and log entries, any threshold and any timelock.                        *)
(*                                                                         *)
(* That the timelock holds is not inductive: a vote counted now may have   *)
(* been cast long ago.  What makes it so is VotesFresh: while a timelock   *)
(* runs, every approval kept was cast after it was set.                    *)
(*                                                                         *)
(* The log names the administrator (AuditTellsAdmin) because there is none *)
(* exactly while the log is empty (OfficeLogged), and its reader may stop  *)
(* at the first entry that is too old because the entries it holds were    *)
(* written in the order of the ledgers (LogOrdered).                       *)
(***************************************************************************)
EXTENDS Governance, FiniteSetTheorems, TLAPS

USE GovernanceAssumption DEF Unlocked

VotesFresh == lock_until # Unlocked => approvals \subseteq lock_votes

\* The indices the log holds.
Kept(n) == {i \in 0..n - 1 : i >= n - AuditMax}

AuditOK == audit_count \in Nat /\ audit \in [Kept(audit_count) -> AuditEntry]

IInv == TypeOK /\ PauseStateAgrees /\ VotesFresh

\* The first entry is the one that names the first administrator.
OfficeLogged == admin = NoOne <=> audit_count = 0

LogOrdered ==
    /\ \A i, j \in DOMAIN audit : i <= j => audit[i].ledger_sequence <= audit[j].ledger_sequence
    /\ \A i \in DOMAIN audit : audit[i].ledger_sequence <= now

LogInv == OfficeLogged /\ AuditTellsAdmin /\ LogOrdered

-----------------------------------------------------------------------------
(* Lemmas *)

\* Appending keeps exactly the last AuditMax entries.
LEMMA AppendKeepsLog ==
    ASSUME AuditOK, now \in 0..MaxTime, NEW action \in AuditActions, NEW caller \in People,
           append_audit(action, caller)
    PROVE  AuditOK'
<1> DEFINE entry == [action |-> action, caller |-> caller, ledger_sequence |-> now]
           kept == (DOMAIN audit \ {audit_count - AuditMax}) \cup {audit_count}
<1>1. entry \in AuditEntry
  BY DEF AuditEntry
<1>2. audit' = [i \in kept |-> IF i = audit_count THEN entry ELSE audit[i]]
      /\ audit_count' = audit_count + 1
  BY DEF append_audit
<1>3. DOMAIN audit = Kept(audit_count)
  BY DEF AuditOK
<1>4. kept = Kept(audit_count + 1)
  BY <1>3 DEF Kept, AuditOK
<1>5. \A i \in kept : (IF i = audit_count THEN entry ELSE audit[i]) \in AuditEntry
  BY <1>1, <1>3 DEF AuditOK
<1> HIDE DEF entry, kept
<1> QED BY <1>2, <1>4, <1>5 DEF AuditOK

\* Votes are sets of people, so they can be counted.
LEMMA CountMonotone ==
    ASSUME NEW A, NEW B, B \subseteq People, A \subseteq B
    PROVE  Cardinality(A) \in Nat /\ Cardinality(B) \in Nat /\ Cardinality(A) <= Cardinality(B)
<1>1. IsFiniteSet(B)
  BY FS_Subset
<1>2. IsFiniteSet(A) /\ Cardinality(A) <= Cardinality(B)
  BY <1>1, FS_Subset
<1> QED BY <1>1, <1>2, FS_CardinalityType

\* No approvals are fewer than the threshold.
LEMMA NoApprovals == Cardinality({}) < EARLY_UNPAUSE_THRESHOLD
  BY FS_EmptySet

-----------------------------------------------------------------------------
(* The invariant *)

LEMMA InitIInv == Init => IInv
<1> SUFFICES ASSUME Init PROVE IInv
  OBVIOUS
<1>1. audit \in [{i \in 0..audit_count - 1 : i >= audit_count - AuditMax} -> AuditEntry]
  <2>1. {i \in 0..0 - 1 : i >= 0 - AuditMax} = {}
    OBVIOUS
  <2>2. audit = [i \in {} |-> {}] /\ audit_count = 0
    BY DEF Init
  <2> QED BY <2>1, <2>2
<1>2. TypeOK
  <2>1. now \in 0..MaxTime /\ lock_until \in Nat \cup {Unlocked} /\ audit_count \in Nat
    BY DEF Init
  <2>2. /\ admin \in People \cup {NoOne} /\ paused \in BOOLEAN /\ pause_reason \in BOOLEAN
        /\ guardians \subseteq People /\ approvals \subseteq People
        /\ lock_votes \subseteq People /\ pause_votes \subseteq People
    BY Zenon DEF Init
  <2> QED BY <1>1, <2>1, <2>2 DEF TypeOK
<1>3. PauseStateAgrees /\ VotesFresh
  BY NoApprovals DEF Init, PauseStateAgrees, VotesFresh
<1> QED BY <1>2, <1>3 DEF IInv

\* TypeOK in the form the lemma on the log uses.
LEMMA TypeOKAudit == TypeOK => AuditOK
BY DEF TypeOK, AuditOK, Kept

LEMMA IInvStep == IInv /\ [Next]_vars => IInv'
<1> SUFFICES ASSUME IInv, [Next]_vars PROVE IInv'
  OBVIOUS
<1> USE DEF IInv
<1>1. ASSUME NEW a \in People, set_admin(a) PROVE IInv'
  <2>1. AuditOK'
    BY <1>1, TypeOKAudit, AppendKeepsLog DEF set_admin, AuditActions, TypeOK
  <2> QED BY <1>1, <2>1
          DEF set_admin, TypeOK, AuditOK, Kept, PauseStateAgrees, VotesFresh, pauseVars
<1>2. ASSUME NEW a \in People, NEW new \in People, transfer_admin(a, new) PROVE IInv'
  <2>1. AuditOK'
    BY <1>2, TypeOKAudit, AppendKeepsLog DEF transfer_admin, AuditActions, TypeOK
  <2> QED BY <1>2, <2>1
          DEF transfer_admin, TypeOK, AuditOK, Kept, PauseStateAgrees, VotesFresh, pauseVars
<1>3. ASSUME NEW a \in People, NEW x \in AuditedSettings, change_setting(a, x) PROVE IInv'
  <2>1. AuditOK'
    BY <1>3, TypeOKAudit, AppendKeepsLog DEF change_setting, AuditActions, TypeOK
  <2> QED BY <1>3, <2>1
          DEF change_setting, TypeOK, AuditOK, Kept, PauseStateAgrees, VotesFresh, pauseVars
<1>4. ASSUME NEW a \in People, pause_contract(a) PROVE IInv'
  <2>1. AuditOK'
    BY <1>4, TypeOKAudit, AppendKeepsLog DEF pause_contract, AuditActions, TypeOK
  <2> QED BY <1>4, <2>1
          DEF pause_contract, TypeOK, AuditOK, Kept, PauseStateAgrees, VotesFresh
<1>5. ASSUME NEW a \in People, unpause_contract(a) PROVE IInv'
  <2>1. AuditOK'
    BY <1>5, TypeOKAudit, AppendKeepsLog DEF unpause_contract, AuditActions, TypeOK
  <2> QED BY <1>5, <2>1, NoApprovals
          DEF unpause_contract, ClearPause, TypeOK, AuditOK, Kept, PauseStateAgrees, VotesFresh
<1>6. ASSUME NEW a \in People, pause_with_reason(a) PROVE IInv'
  <2>1. now + PAUSE_TIMELOCK_SECS \in Nat
    BY DEF TypeOK
  <2> QED BY <1>6, <2>1, NoApprovals
          DEF pause_with_reason, TypeOK, PauseStateAgrees, VotesFresh, auditVars
<1>7. ASSUME NEW a \in People, NEW list \in SUBSET People, set_pause_guardians(a, list)
      PROVE  IInv'
  BY <1>7
     DEF set_pause_guardians, TypeOK, PauseStateAgrees, VotesFresh, pauseVars, auditVars
<1>8. ASSUME NEW g \in People, approve_early_unpause(g) PROVE IInv'
  <2>1. CASE Cardinality(approvals \cup {g}) >= EARLY_UNPAUSE_THRESHOLD
    BY <1>8, <2>1, NoApprovals
       DEF approve_early_unpause, ClearPause, TypeOK, PauseStateAgrees, VotesFresh, auditVars
  <2>2. CASE ~(Cardinality(approvals \cup {g}) >= EARLY_UNPAUSE_THRESHOLD)
    <3>1. Cardinality(approvals \cup {g}) \in Nat
      BY CountMonotone DEF TypeOK
    <3>2. Cardinality(approvals \cup {g}) < EARLY_UNPAUSE_THRESHOLD
      BY <2>2, <3>1
    <3> QED BY <1>8, <2>2, <3>2
            DEF approve_early_unpause, TypeOK, PauseStateAgrees, VotesFresh, auditVars
  <2> QED BY <2>1, <2>2
<1>9. CASE AdvanceTime
  BY <1>9 DEF AdvanceTime, TypeOK, PauseStateAgrees, VotesFresh, pauseVars, auditVars
<1>10. CASE UNCHANGED vars
  BY <1>10 DEF vars, TypeOK, PauseStateAgrees, VotesFresh, pauseVars, auditVars
<1> QED BY <1>1, <1>2, <1>3, <1>4, <1>5, <1>6, <1>7, <1>8, <1>9, <1>10 DEF Next

-----------------------------------------------------------------------------
(* The log *)

\* What an append does, entry by entry: the new entry is the last one, and
\* every other entry was there before.
LEMMA AppendEntries ==
    ASSUME AuditOK, NEW action \in AuditActions, NEW caller \in People,
           append_audit(action, caller)
    PROVE  /\ audit_count' = audit_count + 1
           /\ DOMAIN audit = Kept(audit_count) /\ DOMAIN audit' = Kept(audit_count + 1)
           /\ audit'[audit_count] =
                [action |-> action, caller |-> caller, ledger_sequence |-> now]
           /\ \A i \in DOMAIN audit' \ {audit_count} : i \in DOMAIN audit /\ audit'[i] = audit[i]
<1> DEFINE entry == [action |-> action, caller |-> caller, ledger_sequence |-> now]
           kept == (DOMAIN audit \ {audit_count - AuditMax}) \cup {audit_count}
<1>1. audit' = [i \in kept |-> IF i = audit_count THEN entry ELSE audit[i]]
      /\ audit_count' = audit_count + 1
  BY DEF append_audit
<1>2. DOMAIN audit = Kept(audit_count)
  BY DEF AuditOK
<1>3. kept = Kept(audit_count + 1)
  BY <1>2 DEF Kept, AuditOK
<1>4. \A i \in kept \ {audit_count} : i \in DOMAIN audit
  OBVIOUS
<1>5. audit_count \in kept
  OBVIOUS
<1> HIDE DEF kept
<1> QED BY <1>1, <1>2, <1>3, <1>4, <1>5

\* An entry written by whoever holds the office keeps the chain of callers
\* whole, provided it is a transfer exactly when the office changes hands.
LEMMA AppendTellsAdmin ==
    ASSUME AuditOK, AuditTellsAdmin, NEW action \in AuditActions, NEW caller \in People,
           append_audit(action, caller),
           audit_count > 0 => caller = admin,
           action # "TransferAdmin" <=> caller = admin'
    PROVE  AuditTellsAdmin'
<1>0. /\ audit_count' = audit_count + 1
      /\ DOMAIN audit = Kept(audit_count) /\ DOMAIN audit' = Kept(audit_count + 1)
      /\ audit'[audit_count] =
           [action |-> action, caller |-> caller, ledger_sequence |-> now]
      /\ \A i \in DOMAIN audit' \ {audit_count} : i \in DOMAIN audit /\ audit'[i] = audit[i]
  BY AppendEntries
<1>1. ASSUME NEW i \in DOMAIN audit', i + 1 \in DOMAIN audit'
      PROVE  audit'[i].action # "TransferAdmin" <=> audit'[i + 1].caller = audit'[i].caller
  <2>1. i \in 0..audit_count /\ i + 1 \in 0..audit_count /\ i # audit_count
    BY <1>1, <1>0 DEF Kept, AuditOK
  <2>2. i \in DOMAIN audit /\ audit'[i] = audit[i]
    BY <2>1, <1>0
  <2>3. CASE i + 1 = audit_count
    <3>1. i = audit_count - 1 /\ audit_count > 0
      BY <2>1, <2>3 DEF AuditOK
    <3>2. audit'[i + 1].caller = admin
      BY <2>3, <3>1, <1>0
    <3> QED BY <2>2, <3>1, <3>2 DEF AuditTellsAdmin
  <2>4. CASE i + 1 # audit_count
    <3>1. i + 1 \in DOMAIN audit /\ audit'[i + 1] = audit[i + 1]
      BY <1>1, <2>4, <1>0
    <3> QED BY <2>2, <3>1 DEF AuditTellsAdmin
  <2> QED BY <2>3, <2>4
<1>2. audit_count' - 1 = audit_count
  BY <1>0 DEF AuditOK
<1>3. audit'[audit_count].action = action /\ audit'[audit_count].caller = caller
  BY <1>0
<1> QED BY <1>1, <1>2, <1>3 DEF AuditTellsAdmin

\* The new entry carries the current ledger, and none before it is from later.
LEMMA AppendKeepsOrder ==
    ASSUME AuditOK, LogOrdered, now \in 0..MaxTime, now' = now,
           NEW action \in AuditActions, NEW caller \in People, append_audit(action, caller)
    PROVE  LogOrdered'
<1>0. /\ audit_count' = audit_count + 1
      /\ DOMAIN audit = Kept(audit_count) /\ DOMAIN audit' = Kept(audit_count + 1)
      /\ audit'[audit_count] =
           [action |-> action, caller |-> caller, ledger_sequence |-> now]
      /\ \A i \in DOMAIN audit' \ {audit_count} : i \in DOMAIN audit /\ audit'[i] = audit[i]
  BY AppendEntries
<1>1. audit'[audit_count].ledger_sequence = now
  BY <1>0
<1>2. \A i \in DOMAIN audit' \ {audit_count} :
         i \in DOMAIN audit /\ audit'[i] = audit[i] /\ audit'[i].ledger_sequence <= now
  BY <1>0 DEF LogOrdered
<1>3. \A i \in DOMAIN audit' : i <= audit_count /\ i \in Int
  BY <1>0 DEF Kept, AuditOK
<1>4. ASSUME NEW i \in DOMAIN audit', NEW j \in DOMAIN audit', i <= j
      PROVE  audit'[i].ledger_sequence <= audit'[j].ledger_sequence
  <2>1. CASE j = audit_count
    BY <1>1, <1>2, <2>1
  <2>2. CASE j # audit_count
    <3>1. i # audit_count
      BY <1>3, <1>4, <2>2 DEF AuditOK
    <3> QED BY <1>2, <1>4, <2>2, <3>1 DEF LogOrdered
  <2> QED BY <2>1, <2>2
<1>5. \A i \in DOMAIN audit' : audit'[i].ledger_sequence <= now'
  BY <1>1, <1>2
<1> QED BY <1>4, <1>5 DEF LogOrdered

\* What the handlers that log have in common: the administrator's entry is
\* appended, and it is a transfer exactly when the office changes hands.
LEMMA LoggedStep ==
    ASSUME TypeOK, LogInv, NEW action \in AuditActions, NEW caller \in People,
           append_audit(action, caller), now' = now, admin' \in People,
           admin # NoOne => caller = admin,
           action # "TransferAdmin" <=> caller = admin'
    PROVE  LogInv'
<1>1. AuditOK
  BY TypeOKAudit
<1>2. audit_count > 0 => caller = admin
  BY DEF LogInv, OfficeLogged
<1>3. AuditTellsAdmin'
  BY <1>1, <1>2, AppendTellsAdmin DEF LogInv
<1>4. LogOrdered'
  BY <1>1, AppendKeepsOrder DEF LogInv, TypeOK
<1>5. admin' # NoOne /\ audit_count' > 0
  <2>1. audit_count' = audit_count + 1 /\ audit_count \in Nat
    BY <1>1 DEF AuditOK, append_audit
  <2> QED BY <2>1
<1> QED BY <1>3, <1>4, <1>5 DEF LogInv, OfficeLogged

LEMMA InitLogInv == Init => LogInv
BY DEF Init, LogInv, OfficeLogged, AuditTellsAdmin, LogOrdered

LEMMA LogInvStep == IInv /\ LogInv /\ [Next]_vars => LogInv'
<1> SUFFICES ASSUME IInv, LogInv, [Next]_vars PROVE LogInv'
  OBVIOUS
<1>0. TypeOK
  BY DEF IInv
<1>1. ASSUME NEW a \in People, set_admin(a) PROVE LogInv'
  BY <1>0, <1>1, LoggedStep DEF set_admin, AuditActions
<1>2. ASSUME NEW a \in People, NEW new \in People, transfer_admin(a, new) PROVE LogInv'
  BY <1>0, <1>2, LoggedStep DEF transfer_admin, AuditActions, require_admin
<1>3. ASSUME NEW a \in People, NEW x \in AuditedSettings, change_setting(a, x) PROVE LogInv'
  BY <1>0, <1>3, LoggedStep DEF change_setting, AuditActions, require_admin
<1>4. ASSUME NEW a \in People, pause_contract(a) PROVE LogInv'
  BY <1>0, <1>4, LoggedStep DEF pause_contract, AuditActions, require_admin
<1>5. ASSUME NEW a \in People, unpause_contract(a) PROVE LogInv'
  BY <1>0, <1>5, LoggedStep DEF unpause_contract, AuditActions, require_admin
<1>6. ASSUME UNCHANGED <<now, admin, auditVars>> PROVE LogInv'
  BY <1>6 DEF auditVars, LogInv, OfficeLogged, AuditTellsAdmin, LogOrdered
<1>7. ASSUME NEW a \in People,
             \/ pause_with_reason(a)
             \/ \E list \in SUBSET People : set_pause_guardians(a, list)
             \/ approve_early_unpause(a)
      PROVE  LogInv'
  BY <1>6, <1>7 DEF pause_with_reason, set_pause_guardians, approve_early_unpause
<1>8. CASE AdvanceTime
  <2>1. \A i \in DOMAIN audit : audit[i].ledger_sequence \in Int
    BY <1>0, TypeOKAudit DEF AuditOK, AuditEntry
  <2> QED BY <1>0, <1>8, <2>1
          DEF AdvanceTime, auditVars, TypeOK, LogInv, OfficeLogged, AuditTellsAdmin, LogOrdered
<1>9. CASE UNCHANGED vars
  BY <1>6, <1>9 DEF vars
<1> QED BY <1>1, <1>2, <1>3, <1>4, <1>5, <1>7, <1>8, <1>9 DEF Next

-----------------------------------------------------------------------------
(* The theorems *)

\* The governance state and the log keep their types; the log always holds
\* exactly its newest entries.
THEOREM GovernanceTypeCorrect == Spec => []TypeOK
<1>1. IInv => TypeOK
  BY DEF IInv
<1> QED BY <1>1, InitIInv, IInvStep, PTL DEF Spec

\* Timelock, reason, pause flag and approvals always agree.
THEOREM PauseStateAlwaysAgrees == Spec => []PauseStateAgrees
<1>1. IInv => PauseStateAgrees
  BY DEF IInv
<1> QED BY <1>1, InitIInv, IInvStep, PTL DEF Spec

\* No timelock ends early without enough different votes cast after it was set.
THEOREM TimelockAlwaysHolds == Spec => TimelockHolds
<1>1. IInv /\ [Next]_vars
          => [paused /\ ~paused' /\ now < lock_until
                => Cardinality(lock_votes') >= EARLY_UNPAUSE_THRESHOLD]_vars
  <2> SUFFICES ASSUME IInv, Next, paused, ~paused', now < lock_until
               PROVE  Cardinality(lock_votes') >= EARLY_UNPAUSE_THRESHOLD
    OBVIOUS
  <2>1. lock_until # Unlocked
    BY DEF IInv, TypeOK
  <2>2. ASSUME NEW g \in People, approve_early_unpause(g)
        PROVE  Cardinality(lock_votes') >= EARLY_UNPAUSE_THRESHOLD
    <3>1. Cardinality(approvals \cup {g}) >= EARLY_UNPAUSE_THRESHOLD
      BY <2>2 DEF approve_early_unpause
    <3>2. approvals \cup {g} \subseteq lock_votes' /\ lock_votes' \subseteq People
      BY <2>1, <2>2 DEF approve_early_unpause, IInv, VotesFresh, TypeOK
    <3>3. /\ Cardinality(approvals \cup {g}) \in Nat /\ Cardinality(lock_votes') \in Nat
          /\ Cardinality(approvals \cup {g}) <= Cardinality(lock_votes')
      BY <3>2, CountMonotone
    <3> QED BY <3>1, <3>3
  <2>3. ASSUME NEW a \in People, unpause_contract(a) PROVE FALSE
    BY <2>1, <2>3 DEF unpause_contract, IInv, TypeOK
  <2>4. \A a \in People : /\ ~set_admin(a) /\ ~pause_contract(a) /\ ~pause_with_reason(a)
                          /\ \A b \in People : ~transfer_admin(a, b)
                          /\ \A x \in AuditedSettings : ~change_setting(a, x)
                          /\ \A list \in SUBSET People : ~set_pause_guardians(a, list)
    BY DEF set_admin, pause_contract, pause_with_reason, transfer_admin, change_setting,
           set_pause_guardians, pauseVars
  <2>5. ~AdvanceTime
    BY DEF AdvanceTime, pauseVars
  <2> QED BY <2>2, <2>3, <2>4, <2>5 DEF Next
<1> QED BY <1>1, InitIInv, IInvStep, PTL DEF Spec, TimelockHolds

\* The log names the administrator, and its reader misses nothing, in every
\* reachable state.
LEMMA LogAlwaysInv == Spec => []LogInv
BY InitIInv, IInvStep, InitLogInv, LogInvStep, PTL DEF Spec

\* Who held the office, and when it changed hands, can be read off the log
\* (append_audit in set_admin, transfer_admin and the handlers between them).
THEOREM AuditAlwaysTellsAdmin == Spec => []AuditTellsAdmin
<1>1. LogInv => AuditTellsAdmin
  BY DEF LogInv
<1> QED BY <1>1, LogAlwaysInv, PTL

\* Stopping at the first entry that is too old loses nothing, for any range and
\* limit (query_admin_audit_log).
THEOREM QueryAlwaysComplete == Spec => []QueryComplete
<1>1. LogOrdered /\ TypeOK => QueryComplete
  <2> SUFFICES ASSUME LogOrdered, TypeOK, NEW from \in 0..MaxTime, NEW to \in 0..MaxTime,
                      NEW limit \in 1..AuditMax
               PROVE  query_admin_audit_log(from, to, limit) =
                        Newest({i \in DOMAIN audit : audit[i].ledger_sequence \in from..to}, limit)
    BY DEF QueryComplete
  <2>1. \A i \in DOMAIN audit : i \in Int /\ audit[i].ledger_sequence \in Int
    BY TypeOKAudit DEF AuditOK, AuditEntry, Kept
  <2>2. ASSUME NEW i \in DOMAIN audit, audit[i].ledger_sequence \in from..to,
               NEW j \in DOMAIN audit, j > i
        PROVE  audit[j].ledger_sequence >= from
    BY <2>1, <2>2 DEF LogOrdered
  <2>3. {i \in DOMAIN audit :
            /\ audit[i].ledger_sequence \in from..to
            /\ \A j \in DOMAIN audit : j > i => audit[j].ledger_sequence >= from}
        = {i \in DOMAIN audit : audit[i].ledger_sequence \in from..to}
    BY <2>2
  <2> QED BY <2>3, Zenon DEF query_admin_audit_log
<1>2. LogInv /\ TypeOK => QueryComplete
  BY <1>1 DEF LogInv
<1> QED BY <1>2, LogAlwaysInv, GovernanceTypeCorrect, PTL

=============================================================================
