----------------------------- MODULE Governance -----------------------------
(***************************************************************************)
(* Who may stop and restart the contract: the administrator, the pause     *)
(* with its seven-day timelock, the guardians who may lift it early, and   *)
(* the log of administrative actions.                                      *)
(*                                                                         *)
(* The handlers test only whether an address is among the guardians, so    *)
(* the stored list is modelled by its set of addresses: the length is      *)
(* checked, duplicates are not, and a list of five may name fewer people.  *)
(* Authentication failures leave no trace: record_auth_failure writes in a *)
(* call that returns Err, and the host discards it.                        *)
(***************************************************************************)
EXTENDS Integers, FiniteSets

CONSTANTS
    People,
    NoOne,                    \* no administrator yet
    GuardianListLength,       \* 5 in set_pause_guardians
    EARLY_UNPAUSE_THRESHOLD,  \* 3
    PAUSE_TIMELOCK_SECS,      \* 7 days
    AuditMax,                 \* get_admin_audit_max_entries: nothing changes the default
    AuditedSettings,          \* the settings that log themselves and touch nothing else here
    MaxTime,                  \* bound on the ledger's clock
    MaxActions                \* bound on the number of log entries ever written

VARIABLES
    now,        \* the ledger's timestamp and sequence
    admin,      \* DataKey::Admin
    paused,     \* DataKey::Paused
    pause_reason, \* whether DataKey::PR is present
    lock_until, \* DataKey::ULU, or Unlocked
    guardians,  \* DataKey::PG
    approvals,  \* DataKey::EPA
    audit_count, \* DataKey::AdminAuditCount
    audit,      \* DataKey::AdminAuditEntry(index), for the indices that have an entry
    lock_votes, \* history: who voted since the last pause_with_reason
    pause_votes \* history: who voted since the contract last went from running to paused

pauseVars == <<paused, pause_reason, lock_until, approvals, lock_votes, pause_votes>>
auditVars == <<audit_count, audit>>
vars == <<now, admin, guardians, pauseVars, auditVars>>

Unlocked == -1

AuditActions ==
    {"SetAdmin", "TransferAdmin", "PauseContract", "UnpauseContract"} \cup AuditedSettings

AuditEntry == [action : AuditActions, caller : People, ledger_sequence : 0..MaxTime]

ASSUME GovernanceAssumption ==
    /\ IsFiniteSet(People)
    /\ NoOne \notin People
    /\ GuardianListLength \in Nat \ {0}
    /\ EARLY_UNPAUSE_THRESHOLD \in Nat \ {0}
    /\ PAUSE_TIMELOCK_SECS \in Nat \ {0}
    /\ AuditMax \in Nat \ {0}
    /\ AuditedSettings \cap {"SetAdmin", "TransferAdmin"} = {}
    /\ MaxTime \in Nat
    /\ MaxActions \in Nat

\* The log holds exactly its last AuditMax entries, under their own indices,
\* and the rest of the state is what storage can hold.
TypeOK ==
    /\ now \in 0..MaxTime
    /\ admin \in People \cup {NoOne}
    /\ paused \in BOOLEAN
    /\ pause_reason \in BOOLEAN
    /\ lock_until \in Nat \cup {Unlocked}
    /\ guardians \subseteq People
    /\ approvals \subseteq People
    /\ lock_votes \subseteq People
    /\ pause_votes \subseteq People
    /\ audit_count \in Nat
    /\ audit \in [{i \in 0..audit_count - 1 : i >= audit_count - AuditMax} -> AuditEntry]

Init ==
    /\ now = 0
    /\ admin = NoOne
    /\ paused = FALSE
    /\ pause_reason = FALSE
    /\ lock_until = Unlocked
    /\ guardians = {}
    /\ approvals = {}
    /\ audit_count = 0
    /\ audit = [i \in {} |-> {}]
    /\ lock_votes = {}
    /\ pause_votes = {}

-----------------------------------------------------------------------------
(* Helpers *)

\* A slip the runs must notice: the entry just inside the limit is evicted too.
append_audit_short(action, caller) ==
    LET entry == [action |-> action, caller |-> caller, ledger_sequence |-> now]
        oldest == audit_count - AuditMax + 1
    IN  /\ audit_count < MaxActions
        /\ audit' = [i \in (DOMAIN audit \ {oldest}) \cup {audit_count} |->
                        IF i = audit_count THEN entry ELSE audit[i]]
        /\ audit_count' = audit_count + 1

\* The oldest entry goes when the log is full; the new one takes the next index.
append_audit(action, caller) ==
    LET entry == [action |-> action, caller |-> caller, ledger_sequence |-> now]
        oldest == audit_count - AuditMax
    IN  /\ audit_count < MaxActions
        /\ audit' = [i \in (DOMAIN audit \ {oldest}) \cup {audit_count} |->
                        IF i = audit_count THEN entry ELSE audit[i]]
        /\ audit_count' = audit_count + 1

require_admin(caller) == caller = admin

\* What lifting a pause clears, whoever lifts it.
ClearPause ==
    /\ paused' = FALSE
    /\ pause_reason' = FALSE
    /\ lock_until' = Unlocked
    /\ approvals' = {}

-----------------------------------------------------------------------------
(* The handlers *)

set_admin(a) ==
    /\ admin = NoOne
    /\ admin' = a
    /\ append_audit("SetAdmin", a)
    /\ UNCHANGED <<now, guardians, pauseVars>>

\* A slip: the transfer is not logged.
transfer_admin_unlogged(a, new) ==
    /\ require_admin(a)
    /\ new # a
    /\ admin' = new
    /\ UNCHANGED <<now, guardians, pauseVars, auditVars>>

transfer_admin(a, new) ==
    /\ require_admin(a)
    /\ new # a
    /\ admin' = new
    /\ append_audit("TransferAdmin", a)
    /\ UNCHANGED <<now, guardians, pauseVars>>

\* set_platform_fee, add_allowed_token, remove_allowed_token: the log only.
change_setting(a, setting) ==
    /\ require_admin(a)
    /\ append_audit(setting, a)
    /\ UNCHANGED <<now, admin, guardians, pauseVars>>

\* Neither the timelock nor the approvals of an earlier pause are touched.
pause_contract(a) ==
    /\ require_admin(a)
    /\ paused' = TRUE
    /\ append_audit("PauseContract", a)
    /\ pause_votes' = IF paused THEN pause_votes ELSE {}
    /\ UNCHANGED <<now, admin, guardians, pause_reason, lock_until, approvals, lock_votes>>

unpause_contract(a) ==
    /\ require_admin(a)
    /\ lock_until # Unlocked => now >= lock_until
    /\ ClearPause
    /\ append_audit("UnpauseContract", a)
    /\ UNCHANGED <<now, admin, guardians, lock_votes, pause_votes>>

\* A slip: approvals from before this pause stay.
pause_with_reason_keeping(a) ==
    /\ require_admin(a)
    /\ paused' = TRUE
    /\ pause_reason' = TRUE
    /\ lock_until' = now + PAUSE_TIMELOCK_SECS
    /\ lock_votes' = {}
    /\ pause_votes' = IF paused THEN pause_votes ELSE {}
    /\ UNCHANGED <<now, admin, guardians, approvals, auditVars>>

pause_with_reason(a) ==
    /\ require_admin(a)
    /\ paused' = TRUE
    /\ pause_reason' = TRUE
    /\ lock_until' = now + PAUSE_TIMELOCK_SECS
    /\ approvals' = {}
    /\ lock_votes' = {}
    /\ pause_votes' = IF paused THEN pause_votes ELSE {}
    /\ UNCHANGED <<now, admin, guardians, auditVars>>

set_pause_guardians(a, list) ==
    /\ require_admin(a)
    /\ Cardinality(list) \in 1..GuardianListLength
    /\ guardians' = list
    /\ UNCHANGED <<now, admin, pauseVars, auditVars>>

\* A slip: lifting the pause leaves the timelock behind.
approve_early_unpause_locked(g) ==
    /\ g \in guardians
    /\ g \notin approvals
    /\ IF Cardinality(approvals \cup {g}) >= EARLY_UNPAUSE_THRESHOLD
       THEN paused' = FALSE /\ pause_reason' = FALSE /\ approvals' = {} /\ UNCHANGED lock_until
       ELSE approvals' = approvals \cup {g} /\ UNCHANGED <<paused, pause_reason, lock_until>>
    /\ lock_votes' = lock_votes \cup {g}
    /\ pause_votes' = pause_votes \cup {g}
    /\ UNCHANGED <<now, admin, guardians, auditVars>>

\* A vote needs no pause, and a vote once cast outlives its guardian's removal.
approve_early_unpause(g) ==
    /\ g \in guardians
    /\ g \notin approvals
    /\ IF Cardinality(approvals \cup {g}) >= EARLY_UNPAUSE_THRESHOLD
       THEN ClearPause
       ELSE approvals' = approvals \cup {g} /\ UNCHANGED <<paused, pause_reason, lock_until>>
    /\ lock_votes' = lock_votes \cup {g}
    /\ pause_votes' = pause_votes \cup {g}
    /\ UNCHANGED <<now, admin, guardians, auditVars>>

AdvanceTime ==
    /\ now < MaxTime
    /\ now' = now + 1
    /\ UNCHANGED <<admin, guardians, pauseVars, auditVars>>

Next ==
    \/ \E a \in People :
          \/ set_admin(a)
          \/ \E new \in People : transfer_admin(a, new)
          \/ \E setting \in AuditedSettings : change_setting(a, setting)
          \/ pause_contract(a)
          \/ unpause_contract(a)
          \/ pause_with_reason(a)
          \/ \E list \in SUBSET People : set_pause_guardians(a, list)
          \/ approve_early_unpause(a)
    \/ AdvanceTime

Spec == Init /\ [][Next]_vars

-----------------------------------------------------------------------------
(* The log's reader, as sets of indices *)

Newest(indices, limit) == {i \in indices : Cardinality({j \in indices : j > i}) < limit}

\* A slip: the reader stops at the first entry of the range's own first ledger.
query_admin_audit_log_strict(from, to, limit) ==
    Newest({i \in DOMAIN audit :
                /\ audit[i].ledger_sequence \in from..to
                /\ \A j \in DOMAIN audit : j > i => audit[j].ledger_sequence > from}, limit)

\* From the newest entry down, until the limit is reached or an entry is older
\* than `from`.
query_admin_audit_log(from, to, limit) ==
    Newest({i \in DOMAIN audit :
                /\ audit[i].ledger_sequence \in from..to
                /\ \A j \in DOMAIN audit : j > i => audit[j].ledger_sequence >= from}, limit)

-----------------------------------------------------------------------------
(* Properties *)

\* A timelock exists exactly while there is a reason, only while the contract
\* is paused, and the approvals kept never suffice: no order of the two pauses,
\* the two ways out and votes at any time leaves a lock nobody set or a pause
\* one more vote away from a quorum already reached (pause_contract,
\* pause_with_reason, unpause_contract, approve_early_unpause).
PauseStateAgrees ==
    /\ lock_until # Unlocked <=> pause_reason
    /\ lock_until # Unlocked => paused
    /\ Cardinality(approvals) < EARLY_UNPAUSE_THRESHOLD

\* A pause under a timelock ends before its time only when that many different
\* guardians voted for it after the timelock was set: not the administrator,
\* whoever that has become, and no vote cast for an earlier pause or for none.
TimelockHolds ==
    [][paused /\ ~paused' /\ now < lock_until
          => Cardinality(lock_votes') >= EARLY_UNPAUSE_THRESHOLD]_vars

\* The log tells who held the office: consecutive entries have the same caller
\* unless the first is a transfer, and the newest one names the administrator
\* unless it is one (append_audit in set_admin and transfer_admin).
AuditTellsAdmin ==
    /\ \A i \in DOMAIN audit : i + 1 \in DOMAIN audit =>
          (audit[i].action # "TransferAdmin" <=> audit[i + 1].caller = audit[i].caller)
    /\ audit_count > 0 =>
          (audit[audit_count - 1].action # "TransferAdmin"
               <=> audit[audit_count - 1].caller = admin)

\* Stopping early at the first entry that is too old loses none of the newest
\* `limit` entries of a range, however the log has turned over
\* (query_admin_audit_log relies on the ledger sequence never going back).
QueryComplete ==
    \A from, to \in 0..MaxTime, limit \in 1..AuditMax :
        query_admin_audit_log(from, to, limit) =
            Newest({i \in DOMAIN audit : audit[i].ledger_sequence \in from..to}, limit)

\* "Each registered pause guardian may call this once per pause event"
\* (contracts/lumenflow/src/lib.rs:367): the votes that lift a pause were cast
\* during that pause.
VotesBelongToPause ==
    [][paused /\ ~paused' /\ \E g \in guardians : approve_early_unpause(g)
          => Cardinality(pause_votes') >= EARLY_UNPAUSE_THRESHOLD]_vars

=============================================================================
