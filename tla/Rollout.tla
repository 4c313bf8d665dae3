------------------------------- MODULE Rollout -------------------------------
(***************************************************************************)
(* The router contract in front of two deployments: the administrator's    *)
(* blue and green slots and canary weight, the scripts that switch the     *)
(* slot (cutover.sh) and switch it back (rollback.sh), and a client that   *)
(* asks for a route and uses it later.                                     *)
(*                                                                         *)
(* The scripts run in one working copy, one at a time; every command they  *)
(* send may fail, its answer may be lost, and they may be killed between   *)
(* any two steps.  Meanwhile whoever is the administrator calls the router *)
(* directly.  One tick of the clock is one ledger.                         *)
(***************************************************************************)
EXTENDS Integers, FiniteSets

CONSTANTS
    Admins,    \* addresses that may be the router's administrator
    Operator,  \* the ADMIN_ADDRESS the scripts are run with
    Contracts, \* deployed LumenFlow contracts
    Weights,   \* canary weights an administrator may ask for
    Buckets,   \* 100: the ledgers of one cycle, and the largest weight
    Outputs,   \* how the command line may print a slot to the scripts, bare or quoted
    MaxLedger, \* bound of the model on the ledger sequence
    Unset

Slots == {"Blue", "Green"}

ASSUME RolloutAssumption ==
    /\ Operator \in Admins
    /\ Weights \subseteq Nat
    /\ Buckets \in Nat \ {0}
    /\ MaxLedger \in Nat
    /\ Outputs \subseteq {"bare", "quoted"}
    /\ Unset \notin Admins \cup Contracts \cup Slots

VARIABLES
    ledger,          \* env.ledger().sequence()
    admin,           \* RouterKey::Admin
    slot_contract,   \* RouterKey::BlueContract and RouterKey::GreenContract
    active_slot,     \* RouterKey::ActiveSlot
    canary_contract, \* RouterKey::CanaryContract
    stable_contract, \* RouterKey::StableContract
    canary_weight,   \* RouterKey::CanaryWeight, 0 when not set
    script,          \* the script that runs, its step and what it has read
    file,            \* blue-green-previous-slot.txt
    client,          \* the contract a client was told to call
    undo,            \* history: what a rollback should restore, if that is known
    since            \* history: when the routing last changed, canary ledgers since then

routerVars == <<admin, slot_contract, active_slot, canary_contract, stable_contract, canary_weight>>
rolloutVars == <<ledger, routerVars, script, file, client, undo, since>>

NoScript == [pc |-> "idle"]

Running == [pc : {"read", "save", "check", "switch", "clear"}, kind : {"cutover", "rollback"},
            target : Slots, current : Slots \cup {"unknown", "quoted"}, from_file : BOOLEAN]

\* No router contract that is not set answers a call: the call fails.
RolloutTypeOK ==
    /\ ledger \in 0..MaxLedger
    /\ admin \in Admins \cup {Unset}
    /\ slot_contract \in [Slots -> Contracts \cup {Unset}]
    /\ active_slot \in Slots \cup {Unset}
    /\ canary_contract \in Contracts \cup {Unset}
    /\ stable_contract \in Contracts \cup {Unset}
    /\ canary_weight \in 0..Buckets
    /\ script \in Running \cup {NoScript}
    /\ file \in Slots \cup {"unknown", "quoted", "empty", Unset}
    /\ client \in Contracts \cup {Unset}
    /\ undo \in Slots \cup {Unset}
    /\ since \in [ledger : 0..MaxLedger, hits : 0..MaxLedger]

RolloutInit ==
    /\ ledger = 0
    /\ admin = Unset
    /\ slot_contract = [s \in Slots |-> Unset]
    /\ active_slot = Unset
    /\ canary_contract = Unset
    /\ stable_contract = Unset
    /\ canary_weight = 0
    /\ script = NoScript
    /\ file = Unset
    /\ client = Unset
    /\ undo = Unset
    /\ since = [ledger |-> 0, hits |-> 0]

-----------------------------------------------------------------------------
(* Routing *)

get_active_slot == IF active_slot = Unset THEN "Blue" ELSE active_slot

IsConfigured(slot) == slot_contract[slot] # Unset

\* A slip: a weight of w takes w + 1 ledgers of a cycle.
RoutesToCanary_inclusive == canary_weight > 0 /\ ledger % Buckets <= canary_weight

RoutesToCanary == canary_weight > 0 /\ ledger % Buckets < canary_weight

\* Unset: the contract asked for is not configured and the call traps.
route_call ==
    IF RoutesToCanary THEN canary_contract
    ELSE IF canary_weight > 0 THEN stable_contract
    ELSE slot_contract[get_active_slot]

RouteCall ==
    /\ client = Unset
    /\ route_call # Unset
    /\ client' = route_call
    /\ UNCHANGED <<ledger, routerVars, script, file, undo, since>>

\* The caller forwards its invocation to the contract it was given.
Forward ==
    /\ client # Unset
    /\ client' = Unset
    /\ UNCHANGED <<ledger, routerVars, script, file, undo, since>>

CloseLedger ==
    /\ ledger < MaxLedger
    /\ ledger' = ledger + 1
    /\ since' = [since EXCEPT !.hits = @ + (IF RoutesToCanary THEN 1 ELSE 0)]
    /\ UNCHANGED <<routerVars, script, file, client, undo>>

-----------------------------------------------------------------------------
(* The administrator's calls *)

require_admin(caller) == admin # Unset /\ caller = admin

\* The first call needs nobody's authorisation.
set_admin(caller, new) ==
    /\ admin # Unset => caller = admin
    /\ admin' = new
    /\ UNCHANGED <<ledger, slot_contract, active_slot, canary_contract, stable_contract, canary_weight,
                   script, file, client, undo, since>>

\* set_blue_contract and set_green_contract.
set_slot_contract(caller, slot, contract) ==
    /\ require_admin(caller)
    /\ slot_contract' = [slot_contract EXCEPT ![slot] = contract]
    /\ UNCHANGED <<ledger, admin, active_slot, canary_contract, stable_contract, canary_weight,
                   script, file, client, undo, since>>

set_active_slot(caller, slot) ==
    /\ require_admin(caller)
    /\ IsConfigured(slot)
    /\ active_slot' = slot

\* Called by hand, not by a script: what a rollback would restore is no longer
\* what was there before.
SwitchByHand(caller, slot) ==
    /\ set_active_slot(caller, slot)
    /\ undo' = Unset
    /\ UNCHANGED <<ledger, admin, slot_contract, canary_contract, stable_contract, canary_weight,
                   script, file, client, since>>

set_stable_contract(caller, contract) ==
    /\ require_admin(caller)
    /\ stable_contract' = contract
    /\ UNCHANGED <<ledger, admin, slot_contract, active_slot, canary_contract, canary_weight,
                   script, file, client, undo, since>>

set_canary_contract(caller, contract) ==
    /\ require_admin(caller)
    /\ canary_contract' = contract
    /\ UNCHANGED <<ledger, admin, slot_contract, active_slot, stable_contract, canary_weight,
                   script, file, client, undo, since>>

\* Nothing asks whether the two contracts are set.
set_canary_weight(caller, weight) ==
    /\ require_admin(caller)
    /\ weight <= Buckets
    /\ canary_weight' = weight
    /\ since' = [ledger |-> ledger, hits |-> 0]
    /\ UNCHANGED <<ledger, admin, slot_contract, active_slot, canary_contract, stable_contract,
                   script, file, client, undo>>

-----------------------------------------------------------------------------
(* The scripts *)

scriptOnly == <<ledger, routerVars, client, since>>

\* What the command line prints of get_active_slot, and the scripts take as it
\* is.  In quotes, as JSON prints it, neither name is one of a slot.
PrintedSlot == {IF o = "bare" THEN get_active_slot ELSE "quoted" : o \in Outputs}

StartCutover(target) ==
    /\ script = NoScript
    /\ script' = [pc |-> "read", kind |-> "cutover", target |-> target, current |-> "unknown",
                  from_file |-> FALSE]
    /\ UNCHANGED <<scriptOnly, file, undo>>

\* A query that fails reads as "unknown".
ReadCurrent(current) ==
    /\ script.pc = "read"
    /\ script' = [script EXCEPT !.pc = "save", !.current = current]
    /\ UNCHANGED <<scriptOnly, file, undo>>

\* A slip: the target is saved.
SaveCurrent_target ==
    /\ script.pc = "save"
    /\ file' = script.target
    /\ undo' = IF script.current = get_active_slot /\ script.current # script.target
               THEN script.current ELSE Unset
    /\ script' = [script EXCEPT !.pc = "check"]
    /\ UNCHANGED scriptOnly

\* A rollback is known to undo this cutover if a slot was read that is still the
\* active one and is not the target already.
SaveCurrent ==
    /\ script.pc = "save"
    /\ file' = script.current
    /\ undo' = IF script.current = get_active_slot /\ script.current # script.target
               THEN script.current ELSE Unset
    /\ script' = [script EXCEPT !.pc = "check"]
    /\ UNCHANGED scriptOnly

\* Where to go back to: the caller's choice, else what the file says, else blue,
\* unless that is what the router says (or cannot be asked).
RollbackTarget(override, current) ==
    IF override # Unset THEN override
    ELSE IF file # Unset THEN file
    ELSE IF current = "Blue" THEN "Green" ELSE "Blue"

\* A file that is empty or names no slot ends the script.
StartRollback(override, current) ==
    LET target == RollbackTarget(override, current) IN
    /\ script = NoScript
    /\ target \in Slots
    /\ script' = [pc |-> "check", kind |-> "rollback", target |-> target, current |-> "unknown",
                  from_file |-> override = Unset /\ file # Unset]
    /\ UNCHANGED <<scriptOnly, file, undo>>

CheckTarget ==
    /\ script.pc = "check"
    /\ IsConfigured(script.target)
    /\ script' = [script EXCEPT !.pc = "switch"]
    /\ UNCHANGED <<scriptOnly, file, undo>>

\* The call is made; whether the script learns so or not, in which case it ends.
Switch(answered) ==
    /\ script.pc = "switch"
    /\ set_active_slot(Operator, script.target)
    /\ script' = IF answered /\ script.kind = "rollback" THEN [script EXCEPT !.pc = "clear"] ELSE NoScript
    /\ undo' = IF script.kind = "rollback" /\ ~script.from_file THEN Unset ELSE undo
    /\ UNCHANGED <<ledger, admin, slot_contract, canary_contract, stable_contract, canary_weight,
                   file, client, since>>

\* The file is emptied, not removed.
ClearFile ==
    /\ script.pc = "clear"
    /\ file' = "empty"
    /\ script' = NoScript
    /\ UNCHANGED <<scriptOnly, undo>>

\* A command fails, or the script is killed.
EndScript ==
    /\ script # NoScript
    /\ script' = NoScript
    /\ UNCHANGED <<scriptOnly, file, undo>>

RolloutNext ==
    \/ RouteCall
    \/ Forward
    \/ CloseLedger
    \/ \E c, n \in Admins : set_admin(c, n)
    \/ \E c \in Admins, s \in Slots, k \in Contracts : set_slot_contract(c, s, k)
    \/ \E c \in Admins, s \in Slots : SwitchByHand(c, s)
    \/ \E c \in Admins, k \in Contracts : set_stable_contract(c, k)
    \/ \E c \in Admins, k \in Contracts : set_canary_contract(c, k)
    \/ \E c \in Admins, w \in Weights : set_canary_weight(c, w)
    \/ \E s \in Slots : StartCutover(s)
    \/ \E r \in PrintedSlot \cup {"unknown"} : ReadCurrent(r)
    \/ SaveCurrent
    \/ \E o \in Slots \cup {Unset}, r \in PrintedSlot \cup {"Blue"} : StartRollback(o, r)
    \/ CheckTarget
    \/ \E answered \in BOOLEAN : Switch(answered)
    \/ ClearFile
    \/ EndScript

RolloutSpec == RolloutInit /\ [][RolloutNext]_rolloutVars

-----------------------------------------------------------------------------
(* Properties *)

\* Traffic that was switched to a slot finds a contract there, whoever became
\* administrator and however often the slots were set since.
ActiveSlotConfigured == active_slot # Unset => IsConfigured(active_slot)

\* A cycle of ledgers, wherever it starts, sends to the canary as many of them
\* as its weight says (set_canary_weight's and route_call's comments).
CanaryShare ==
    LET elapsed == ledger - since.ledger
    IN  elapsed % Buckets = 0 => since.hits * Buckets = canary_weight * elapsed

\* What may be said of routing at any time, by hand or by script, in either mode.
RoutingSound ==
    /\ RolloutTypeOK
    /\ ActiveSlotConfigured
    /\ CanaryShare

\* A rollback that goes by the file restores the slot that was active when a
\* cutover last saved the file, however that cutover and earlier attempts at the
\* rollback ended, unless someone switched by hand since, or that cutover found
\* its target active or could not make out a slot.  A cutover that ends before it
\* saves leaves the file of the one before (cutover.sh: saved so that rollback.sh
\* can restore it).
RollbackReverts ==
    [][(/\ script.pc = "switch" /\ script.kind = "rollback" /\ script.from_file /\ undo # Unset
        /\ script' # script
        /\ script'.pc = "clear" \/ active_slot' # active_slot) => active_slot' = undo]_rolloutVars

-----------------------------------------------------------------------------
(* What the documentation says and the code does not do *)

\* cutover.sh: rollback.sh restores the previous slot.  A cutover that is run
\* again after its answer was lost saves its own target.
FileUndoesCutover ==
    [][(script.pc = "save" /\ script' # script /\ script'.pc = "check" /\ script.current \in Slots)
          => file' # script.target]_rolloutVars

\* cutover.sh: saved so that rollback.sh can restore it without the operator.  A
\* slot that the command line printed in quotes is saved with them, and no
\* rollback can go by the file.
RollbackRestorable ==
    script = NoScript /\ file \notin {Unset, "unknown", "empty"}
        => RollbackTarget(Unset, "Blue") \in Slots

\* set_active_slot's comment: there is no window during which traffic is split.
\* A client may call the contract it was given before the switch.
NoStaleRoute == [][(client # Unset /\ client' = Unset) => client = route_call]_rolloutVars

\* set_canary_weight's comment: a weight routes calls to the canary and the
\* stable contract.  Nothing says that they are set.
RouteAnswers == (active_slot # Unset \/ canary_weight > 0) => route_call # Unset

=============================================================================
