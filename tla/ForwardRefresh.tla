--------------------------- MODULE ForwardRefresh ---------------------------
(***************************************************************************)
(* One kernel refresh of the centre firewall: IptablesManager's            *)
(* refresh_vpn_forward_only and rebuild_rules over IpsetManager's          *)
(* reconcile / commit / rollback transaction.                              *)
(*                                                                         *)
(* Callers are the threads of the web process (API thread pool, NiceGUI    *)
(* workers) and the CLI.  A refresh is a sequence of separate kernel       *)
(* commands; each command, or block of commands nothing can come between,  *)
(* is one action.  The transaction lock covers reconcile .. commit or      *)
(* rollback, but neither the snapshot of the chain taken before it nor the *)
(* restoration of that snapshot after it.                                  *)
(*                                                                         *)
(* A rule of VPN_FORWARD is identified with the ipset it matches on, so    *)
(* the chain is a set of set names; the order of its rules is not          *)
(* modelled.  Specs of one plan have distinct names, so the list of swaps  *)
(* of a transaction is a set.                                              *)
(***************************************************************************)
EXTENDS Naturals, FiniteSets

CONSTANTS
    Callers,    \* threads and processes that may refresh the kernel
    Names,      \* stable ipset names of the NiceVPN namespaces
    Contents,   \* member lists an ipset can be filled with
    Empty,      \* a set just created: it exists and has no member
    NoSet,      \* the kernel has no set of that name
    NoCaller,   \* the lock is free
    Faults      \* kinds of command failure that may happen

FaultKinds == {"save", "spec", "stage", "text", "load", "timeout", "hooks",
               "flush", "restore", "gc", "undo", "destroy", "crash",
               "sql", "plan"}  \* the last two: CenterRules

ASSUME FaultsAssumption == Faults \subseteq FaultKinds

\* Every failure that is not a failure of the recovery itself.
ApplyFaults == {"save", "spec", "stage", "text", "load", "timeout", "hooks"}

ASSUME ContentsAssumption ==
    /\ Empty \notin Contents
    /\ NoSet \notin Contents \cup {Empty}
    /\ NoCaller \notin Callers

VARIABLES
    sets,       \* kernel: content of every stable set
    chain,      \* kernel: sets the rules of VPN_FORWARD refer to
    lock,       \* holder of the ipset transaction lock
    stage,      \* kernel: content of the staging set paired with a name
    swapped,    \* txn.swaps: names whose stable and staging sets were swapped
    created,    \* swaps recorded with stable_was_created
    orphans,    \* staging sets no transaction will ever remove
    pc,         \* the caller's next step
    mode,       \* "refresh" (VPN_FORWARD only) or "rebuild" (project level)
    plan,       \* desired state the caller read from the database
    saved,      \* chain rules the caller still has to put back on failure
    base,       \* history: the sets when the current transaction began
    installed   \* history: the plan of the last commit

kernel == <<sets, chain, stage, orphans>>
txn    == <<lock, swapped, created, base>>
local  == <<mode, plan>>
vars   == <<sets, chain, lock, stage, swapped, created, orphans,
            pc, mode, plan, saved, base, installed>>

Plans   == [Names -> Contents \cup {NoSet}]
Kernels == [Names -> Contents \cup {Empty, NoSet}]
NoStage == [n \in Names |-> NoSet]

Resting == {"idle", "done", "failed"}
InTxn   == {"reconcile", "prepare", "load", "hooks", "commit", "undo"}
Steps   == Resting \cup InTxn \cup {"save", "lock", "restore", "readd"}

\* Names for which a plan, or the kernel, has a set.
Defined(f) == {n \in Names : f[n] # NoSet}

\* What the datapath enforces: the rules of the chain with their members.
Enforced(p) == /\ chain = Defined(p)
               /\ \A n \in chain : sets[n] = p[n]

(***************************************************************************)
(* Before the lock                                                         *)
(***************************************************************************)

Init ==
    /\ sets = NoStage /\ chain = {} /\ stage = NoStage /\ orphans = {}
    /\ lock = NoCaller /\ swapped = {} /\ created = {} /\ base = NoStage
    /\ pc = [c \in Callers |-> "idle"]
    /\ mode = [c \in Callers |-> "refresh"]
    /\ plan = [c \in Callers |-> NoStage]
    /\ saved = [c \in Callers |-> {}]
    /\ installed = NoStage

Goto(c, step) == pc' = [pc EXCEPT ![c] = step]

\* The call returns: its local variables are gone.
Return(c, result) ==
    /\ Goto(c, result)
    /\ mode' = [mode EXCEPT ![c] = "refresh"]
    /\ plan' = [plan EXCEPT ![c] = NoStage]
    /\ saved' = [saved EXCEPT ![c] = {}]

\* A service call hands over the rules it has just read from SQLite.
Begin(c, m, p) ==
    /\ pc[c] \in Resting
    /\ mode' = [mode EXCEPT ![c] = m]
    /\ plan' = [plan EXCEPT ![c] = p]
    /\ Goto(c, "save")
    /\ UNCHANGED <<kernel, txn, saved, installed>>

\* Snapshot of the chain (refresh) or of the filter table (rebuild).
SaveChain(c) ==
    /\ pc[c] = "save"
    /\ saved' = [saved EXCEPT ![c] = chain]
    /\ Goto(c, "lock")
    /\ UNCHANGED <<kernel, txn, local, installed>>

\* Without a snapshot, or without the lock file, nothing is touched.
SaveFails(c) ==
    /\ pc[c] = "save" \/ (pc[c] = "lock" /\ lock = NoCaller)
    /\ "save" \in Faults
    /\ Return(c, "failed")
    /\ UNCHANGED <<kernel, txn, installed>>

\* A duplicate name or an invalid address: ValueError before the lock, and
\* the failure path puts the snapshot back without ever having held it.
RejectSpecs(c) ==
    /\ pc[c] = "save" /\ "spec" \in Faults
    /\ saved' = [saved EXCEPT ![c] = chain]
    /\ Goto(c, "restore")
    /\ UNCHANGED <<kernel, txn, local, installed>>

\* Mutant: the lock file is opened but not locked.
AcquireUnlocked(c) ==
    /\ pc[c] = "lock"
    /\ lock' = c /\ base' = sets
    /\ Goto(c, "reconcile")
    /\ UNCHANGED <<kernel, swapped, created, local, saved, installed>>

Acquire(c) ==
    /\ pc[c] = "lock" /\ lock = NoCaller
    /\ lock' = c
    /\ base' = sets
    /\ Goto(c, "reconcile")
    /\ UNCHANGED <<kernel, swapped, created, local, saved, installed>>

(***************************************************************************)
(* reconcile: fill a staging set, swap it with the stable name             *)
(***************************************************************************)

\* Mutants: a name is staged twice; a set that exists is not staged.
PendingAgain(c) == Defined(plan[c])
PendingNew(c)   == Defined(plan[c]) \ Defined(sets)

\* Specs of the plan not swapped yet.
Pending(c) == Defined(plan[c]) \ swapped

StageAndSwap(c, n) ==
    /\ pc[c] = "reconcile" /\ n \in Pending(c)
    /\ stage' = [stage EXCEPT ![n] = IF sets[n] = NoSet THEN Empty ELSE sets[n]]
    /\ created' = IF sets[n] = NoSet THEN created \cup {n} ELSE created
    /\ sets' = [sets EXCEPT ![n] = plan[c][n]]
    /\ swapped' = swapped \cup {n}
    /\ UNCHANGED <<chain, orphans, lock, base, pc, local, saved, installed>>

\* A command of the block fails.  Both sets of the block are destroyed as far
\* as that works: a stable set just created may stay behind, empty, and the
\* staging set may stay behind for good.  Neither is recorded in txn.swaps.
StageFails(c, n) ==
    /\ pc[c] = "reconcile" /\ n \in Pending(c) /\ "stage" \in Faults
    /\ \/ UNCHANGED <<sets, orphans>>
       \/ /\ "destroy" \in Faults
          /\ sets' \in {sets, [sets EXCEPT ![n] = IF @ = NoSet THEN Empty ELSE @]}
          /\ orphans' \in {orphans, orphans \cup {n}}
    /\ Goto(c, "undo")
    /\ UNCHANGED <<chain, stage, txn, local, saved, installed>>

\* ipset list -n fails before anything is staged.
ListFails(c) ==
    /\ pc[c] = "reconcile" /\ swapped = {} /\ "stage" \in Faults
    /\ Goto(c, "undo")
    /\ UNCHANGED <<kernel, txn, local, saved, installed>>

Reconciled(c) ==
    /\ pc[c] = "reconcile" /\ Pending(c) = {}
    /\ Goto(c, "prepare")
    /\ UNCHANGED <<kernel, txn, local, saved, installed>>

(***************************************************************************)
(* iptables: rules text, flush, iptables-restore --noflush, hooks          *)
(***************************************************************************)

\* Mutant: the exception leaves the function without a rollback.
PrepareLeaks(c) ==
    /\ pc[c] = "prepare" /\ "text" \in Faults
    /\ Return(c, "failed")
    /\ UNCHANGED <<kernel, txn, installed>>

\* Rule generation, mkstemp or the write of the temporary file raises.
PrepareFails(c) ==
    /\ pc[c] = "prepare" /\ "text" \in Faults
    /\ Goto(c, "undo")
    /\ UNCHANGED <<kernel, txn, local, saved, installed>>

\* iptables -F is best effort: its exit code is not looked at.
Flushed == {{}} \cup (IF "flush" \in Faults THEN {chain} ELSE {})

Flush(c) ==
    /\ pc[c] = "prepare"
    /\ chain' \in Flushed
    /\ Goto(c, "load")
    /\ UNCHANGED <<sets, stage, orphans, txn, local, saved, installed>>

\* The text declares the chain, so iptables-restore replaces all its rules.
Load(c) ==
    /\ pc[c] = "load"
    /\ Defined(plan[c]) \subseteq Defined(sets)
    /\ chain' = Defined(plan[c])
    /\ Goto(c, IF mode[c] = "rebuild" THEN "hooks" ELSE "commit")
    /\ UNCHANGED <<sets, stage, orphans, txn, local, saved, installed>>

\* Mutant: the failure is reported but nothing is put back.
LoadAborts(c) ==
    /\ pc[c] = "load" /\ "load" \in Faults
    /\ lock' = NoCaller /\ base' = NoStage
    /\ swapped' = {} /\ created' = {} /\ stage' = NoStage
    /\ Return(c, "failed")
    /\ UNCHANGED <<sets, chain, orphans, installed>>

LoadFails(c) ==
    /\ pc[c] = "load" /\ "load" \in Faults
    /\ Goto(c, "undo")
    /\ UNCHANGED <<kernel, txn, local, saved, installed>>

\* The command is killed after its 10 s although the kernel took the rules.
LoadTimesOut(c) ==
    /\ pc[c] = "load" /\ "timeout" \in Faults
    /\ chain' = Defined(plan[c])
    /\ Goto(c, "undo")
    /\ UNCHANGED <<sets, stage, orphans, txn, local, saved, installed>>

Hooks(c) ==
    /\ pc[c] = "hooks"
    /\ \/ Goto(c, "commit")
       \/ "hooks" \in Faults /\ Goto(c, "undo")
    /\ UNCHANGED <<kernel, txn, local, saved, installed>>

(***************************************************************************)
(* commit, rollback                                                        *)
(***************************************************************************)

\* Mutant: the transaction object is reused without clearing the record.
EndTxnKeepsCreated ==
    /\ lock' = NoCaller /\ base' = NoStage
    /\ swapped' = {} /\ created' = created /\ stage' = NoStage

EndTxn ==
    /\ lock' = NoCaller /\ base' = NoStage
    /\ swapped' = {} /\ created' = {} /\ stage' = NoStage

\* Mutant: only the sets of this transaction are looked at.
ObsoleteOwn(c) == swapped \ Defined(plan[c])

Obsolete(c) == Defined(sets) \ Defined(plan[c])

\* Destroys the staging sets and every stable set that is not desired, one by
\* one.  The kernel refuses to destroy a set a rule refers to; failures only warn.
Commit(c) ==
    /\ pc[c] = "commit"
    /\ LET used == Obsolete(c) \cap chain
       IN  \E stay \in {used} \cup (IF "gc" \in Faults THEN SUBSET Obsolete(c) ELSE {}) :
               /\ used \subseteq stay
               /\ sets' = [n \in Names |-> IF n \in Obsolete(c) \ stay THEN NoSet
                                           ELSE sets[n]]
    /\ \E left \in {{}} \cup (IF "gc" \in Faults THEN SUBSET swapped ELSE {}) :
           orphans' = orphans \cup left
    /\ EndTxn
    /\ installed' = plan[c]
    /\ Return(c, "done")
    /\ UNCHANGED chain

\* Swaps the old contents back.  A swap that fails leaves the new content in
\* the stable set and the old one in a staging set kept for the operator.  A
\* stable set created by the transaction is destroyed unless a rule of the
\* chain, not yet put back, still refers to it.  A staging set that cannot be
\* destroyed stays, with the members of the failed plan.
Rollback(c) ==
    /\ pc[c] = "undo"
    /\ \E stuck \in {{}} \cup (IF "undo" \in Faults THEN SUBSET swapped ELSE {}) :
        LET back    == swapped \ stuck
            dropped == (created \cap back) \ chain
        IN  /\ \E gone \in {dropped} \cup (IF "destroy" \in Faults THEN SUBSET dropped ELSE {}) :
                   sets' = [n \in Names |-> IF n \in gone THEN NoSet
                                            ELSE IF n \in back THEN stage[n]
                                            ELSE sets[n]]
            /\ \E left \in {{}} \cup (IF "destroy" \in Faults THEN SUBSET back ELSE {}) :
                   orphans' = orphans \cup stuck \cup left
    /\ EndTxn
    /\ Goto(c, "restore")
    /\ UNCHANGED <<chain, local, saved, installed>>

(***************************************************************************)
(* After the lock: the snapshot of the chain goes back                     *)
(***************************************************************************)

\* refresh: iptables -F, then one iptables -A per saved rule.
RestoreFlush(c) ==
    /\ pc[c] = "restore" /\ mode[c] = "refresh"
    /\ chain' \in Flushed
    /\ Goto(c, "readd")
    /\ UNCHANGED <<sets, stage, orphans, txn, local, saved, installed>>

ReAdd(c, n) ==
    /\ pc[c] = "readd" /\ n \in saved[c] /\ sets[n] # NoSet
    /\ chain' = chain \cup {n}
    /\ saved' = [saved EXCEPT ![c] = @ \ {n}]
    /\ UNCHANGED <<sets, stage, orphans, txn, pc, local, installed>>

\* The first rule that cannot be added ends the restoration.
ReAddFails(c, n) ==
    /\ pc[c] = "readd" /\ n \in saved[c]
    /\ sets[n] = NoSet \/ "restore" \in Faults
    /\ Return(c, "failed")
    /\ UNCHANGED <<kernel, txn, installed>>

Restored(c) ==
    /\ pc[c] = "readd" /\ saved[c] = {}
    /\ Return(c, "failed")
    /\ UNCHANGED <<kernel, txn, installed>>

\* rebuild: the saved filter table goes back in one iptables-restore.
RestoreFilter(c) ==
    /\ pc[c] = "restore" /\ mode[c] = "rebuild"
    /\ \/ saved[c] \subseteq Defined(sets) /\ chain' = saved[c]
       \/ ~(saved[c] \subseteq Defined(sets)) /\ UNCHANGED chain
       \/ "restore" \in Faults /\ UNCHANGED chain
    /\ Return(c, "failed")
    /\ UNCHANGED <<sets, stage, orphans, txn, installed>>

\* The process dies: the lock goes with it, its staging sets stay behind.
Crash ==
    /\ "crash" \in Faults
    /\ \E c \in Callers : pc[c] \notin Resting
    /\ pc' = [c \in Callers |-> IF pc[c] \in Resting THEN pc[c] ELSE "failed"]
    /\ mode' = [c \in Callers |-> "refresh"]
    /\ plan' = [c \in Callers |-> NoStage]
    /\ saved' = [c \in Callers |-> {}]
    /\ orphans' = orphans \cup swapped
    /\ EndTxn
    /\ UNCHANGED <<sets, chain, installed>>

(***************************************************************************)
(* Specification                                                           *)
(***************************************************************************)

Refresh(c) ==
    \/ SaveChain(c) \/ SaveFails(c) \/ RejectSpecs(c) \/ Acquire(c)
    \/ \E n \in Names : StageAndSwap(c, n) \/ StageFails(c, n)
    \/ ListFails(c) \/ Reconciled(c) \/ PrepareFails(c) \/ Flush(c)
    \/ Load(c) \/ LoadFails(c) \/ LoadTimesOut(c) \/ Hooks(c)
    \/ Commit(c) \/ Rollback(c)
    \/ RestoreFlush(c) \/ Restored(c) \/ RestoreFilter(c)
    \/ \E n \in Names : ReAdd(c, n) \/ ReAddFails(c, n)

Next ==
    \/ \E c \in Callers, m \in {"refresh", "rebuild"}, p \in Plans : Begin(c, m, p)
    \/ \E c \in Callers : Refresh(c)
    \/ Crash

Spec == Init /\ [][Next]_vars

(***************************************************************************)
(* Properties                                                              *)
(***************************************************************************)

\* Every variable stays in its range.
TypeOK ==
    /\ sets \in Kernels /\ stage \in Kernels /\ base \in Kernels
    /\ chain \subseteq Names /\ orphans \subseteq Names
    /\ swapped \subseteq Names /\ created \subseteq swapped
    /\ lock \in Callers \cup {NoCaller}
    /\ pc \in [Callers -> Steps]
    /\ mode \in [Callers -> {"refresh", "rebuild"}]
    /\ plan \in [Callers -> Plans]
    /\ saved \in [Callers -> SUBSET Names]
    /\ installed \in Plans

\* The undo log: while a transaction is open, what its staging sets and its
\* list of swaps hold is enough to give back the sets it began with; a set it
\* has not swapped is as it was, or was created empty by the failing block.
UndoLog ==
    \A c \in Callers : pc[c] \in InTxn => \A n \in Names :
        IF n \in swapped
        THEN IF n \in created THEN base[n] = NoSet /\ stage[n] = Empty
                              ELSE base[n] # NoSet /\ stage[n] = base[n]
        ELSE \/ sets[n] = base[n]
             \/ pc[c] = "undo" /\ base[n] = NoSet /\ sets[n] = Empty

\* A caller is inside the transaction exactly while it holds the lock, and a
\* free lock leaves no swap on record for the next holder to undo.
TxnExclusive ==
    /\ \A c \in Callers : pc[c] \in InTxn <=> lock = c
    /\ lock = NoCaller => swapped = {}

\* From reconcile on, the sets of the plan have the plan's members.
Staged ==
    \A c \in Callers :
        /\ pc[c] \in InTxn => swapped \subseteq Defined(plan[c])
        /\ pc[c] \in InTxn => \A n \in swapped : sets[n] = plan[c][n]
        /\ pc[c] \in {"prepare", "load", "hooks", "commit"} => swapped = Defined(plan[c])

IInv == TypeOK /\ TxnExclusive /\ UndoLog /\ Staged

\* The steps that leave the transaction, and what each has to have achieved.
RollsBack(c) == pc[c] = "undo" /\ pc'[c] = "restore"
Commits(c)   == pc[c] = "commit" /\ pc'[c] = "done"

GivenBack(n) ==
    \/ sets'[n] = base[n]
    \/ base[n] = NoSet /\ sets'[n] = Empty
    \/ n \in swapped /\ sets'[n] = sets[n] /\ n \in orphans'

\* Whatever fails, and whoever else is refreshing, a rollback gives every set
\* back the members it had when the transaction began.  The exceptions are a
\* set whose staging set is left for the operator, and a set the transaction
\* created, which may remain, empty (ipset_mgr.py rollback, lines 328-364).
RollbackRestores ==
    [][\A c \in Callers : RollsBack(c) => \A n \in Names : GivenBack(n)]_vars

\* A refresh that reports success leaves every set of its plan in the kernel
\* with exactly the plan's members, whatever was there before, after a crash
\* for instance (ipset_mgr.py reconcile and commit, lines 230-326).
CommitInstalls ==
    [][\A c \in Callers : Commits(c) =>
           \A n \in Defined(plan[c]) : sets'[n] = plan[c][n]]_vars

AtRest == \A c \in Callers : pc[c] \in Resting

\* Calls overlap as they like, except around a failure: the snapshot a failing
\* call took is not overtaken by another call's commit, and nobody else runs
\* while it is put back; otherwise the old snapshot replaces what the other installed.
NotOvertaken ==
    \A c \in Callers :
        /\ pc[c] \in {"undo", "restore"} => saved[c] = Defined(installed)
        /\ pc[c] \in {"restore", "readd"} => \A d \in Callers \ {c} : pc[d] \in Resting

\* When no call is running the kernel enforces the plan of the last refresh
\* that succeeded, all of it and nothing else: a refresh that fails at any
\* step leaves the rules of its predecessor (rebuild_rules' docstring,
\* docs/firewall-tags.md:21).
FailureKeepsRules == AtRest => Enforced(installed)

\* ... and what it leaves behind besides holds no member: no obsolete stable
\* set still has its addresses, and no staging set is left (commit, rollback).
LeftoversAreEmpty ==
    AtRest => /\ \A n \in Defined(sets) \ chain : sets[n] = Empty
              /\ orphans = {}

=============================================================================
