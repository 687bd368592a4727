--------------------------- MODULE FirewallProofs ---------------------------
(***************************************************************************)
(* The centre firewall, for every set of callers, names, contents and      *)
(* owners.                                                                 *)
(*                                                                         *)
(* The ipset transaction (ForwardRefresh), whatever fails: its undo log is *)
(* always complete, so a rollback restores and a commit installs whatever  *)
(* the other callers do.  As long as the recovery itself works and nobody  *)
(* overtakes a call that fails, the kernel keeps the last plan installed.  *)
(*                                                                         *)
(* The calls on top of it (CenterRules): every behaviour of theirs is one  *)
(* of the transaction's, and a caller alone leaves SQLite and the kernel   *)
(* in agreement.                                                           *)
(***************************************************************************)
EXTENDS CenterRules, TLAPS

USE FaultsAssumption, ContentsAssumption

LEMMA InitIInv == Init => IInv
  BY DEF Init, IInv, TypeOK, TxnExclusive, UndoLog, Staged, NoStage, Kernels,
         Plans, Steps, InTxn, Resting

\* The type invariant alone is inductive.
LEMMA NextTypeOK == TypeOK /\ [Next]_vars => TypeOK'
<1> SUFFICES ASSUME TypeOK, [Next]_vars PROVE TypeOK'
  OBVIOUS
<1> USE DEF TypeOK, Kernels, Plans, Steps, InTxn, Resting, Defined, NoStage,
            Goto, Return, kernel, txn, local, EndTxn, Flushed
<1>1. CASE UNCHANGED vars
  BY <1>1 DEF vars
<1>2. CASE Crash
  BY <1>2 DEF Crash
<1>3. ASSUME NEW c \in Callers, NEW m \in {"refresh", "rebuild"}, NEW p \in Plans,
             Begin(c, m, p)
      PROVE  TypeOK'
  BY <1>3 DEF Begin
<1>4. ASSUME NEW c \in Callers, Refresh(c) PROVE TypeOK'
  <2>1. CASE SaveChain(c)   BY <2>1 DEF SaveChain
  <2>2. CASE SaveFails(c)   BY <2>2 DEF SaveFails
  <2>3. CASE RejectSpecs(c) BY <2>3 DEF RejectSpecs
  <2>4. CASE Acquire(c)     BY <2>4 DEF Acquire
  <2>5. ASSUME NEW n \in Names, StageAndSwap(c, n) PROVE TypeOK'
    BY <2>5 DEF StageAndSwap, Pending
  <2>6. ASSUME NEW n \in Names, StageFails(c, n) PROVE TypeOK'
    BY <2>6 DEF StageFails, Pending
  <2>7. CASE ListFails(c)    BY <2>7 DEF ListFails
  <2>8. CASE Reconciled(c)   BY <2>8 DEF Reconciled
  <2>9. CASE PrepareFails(c) BY <2>9 DEF PrepareFails
  <2>10. CASE Flush(c)        BY <2>10 DEF Flush
  <2>11. CASE Load(c)         BY <2>11 DEF Load
  <2>12. CASE LoadFails(c)    BY <2>12 DEF LoadFails
  <2>13. CASE LoadTimesOut(c) BY <2>13 DEF LoadTimesOut
  <2>14. CASE Hooks(c)        BY <2>14 DEF Hooks
  <2>15. CASE Commit(c)       BY <2>15 DEF Commit, Obsolete
  <2>16. CASE Rollback(c)     BY <2>16 DEF Rollback
  <2>17. CASE RestoreFlush(c) BY <2>17 DEF RestoreFlush
  <2>18. CASE Restored(c)     BY <2>18 DEF Restored
  <2>19. CASE RestoreFilter(c) BY <2>19 DEF RestoreFilter
  <2>20. ASSUME NEW n \in Names, ReAdd(c, n) PROVE TypeOK'
    BY <2>20 DEF ReAdd
  <2>21. ASSUME NEW n \in Names, ReAddFails(c, n) PROVE TypeOK'
    BY <2>21 DEF ReAddFails
  <2> QED
    BY <1>4, <2>1, <2>2, <2>3, <2>4, <2>5, <2>6, <2>7, <2>8, <2>9, <2>10, <2>11,
       <2>12, <2>13, <2>14, <2>15, <2>16, <2>17, <2>18, <2>19, <2>20, <2>21
       DEF Refresh
<1> QED
  BY <1>1, <1>2, <1>3, <1>4 DEF Next

\* Only the holder of the lock touches the sets, the staging sets and the
\* swap list, so each action has to be looked at for its own caller only.
LEMMA NextIInv == IInv /\ [Next]_vars => IInv'
<1> SUFFICES ASSUME IInv, [Next]_vars PROVE IInv'
  OBVIOUS
<1> TypeOK'
  BY NextTypeOK DEF IInv
<1> SUFFICES (TxnExclusive /\ UndoLog /\ Staged)'
  BY DEF IInv
<1> USE DEF IInv, TxnExclusive, UndoLog, Staged, TypeOK, Kernels, Plans, Steps,
            InTxn, Resting, Defined, NoStage, Goto, Return, kernel, txn, local
<1>1. CASE UNCHANGED vars
  BY <1>1 DEF vars
<1>2. CASE Crash
  BY <1>2 DEF Crash, EndTxn
<1>3. ASSUME NEW c \in Callers, NEW m \in {"refresh", "rebuild"}, NEW p \in Plans,
             Begin(c, m, p)
      PROVE  (TxnExclusive /\ UndoLog /\ Staged)'
  BY <1>3 DEF Begin
<1>4. ASSUME NEW c \in Callers, Refresh(c) PROVE (TxnExclusive /\ UndoLog /\ Staged)'
  <2>1. CASE SaveChain(c)   BY <2>1 DEF SaveChain
  <2>2. CASE SaveFails(c)   BY <2>2 DEF SaveFails
  <2>3. CASE RejectSpecs(c) BY <2>3 DEF RejectSpecs
  <2>4. CASE Acquire(c)     BY <2>4 DEF Acquire
  <2>5. ASSUME NEW n \in Names, StageAndSwap(c, n)
        PROVE  (TxnExclusive /\ UndoLog /\ Staged)'
    <3>1. TxnExclusive' /\ Staged'
      BY <2>5 DEF StageAndSwap, Pending
    <3>2. UndoLog'
      <4> SUFFICES ASSUME NEW d \in Callers, pc[d] \in InTxn, NEW m \in Names
          PROVE IF m \in swapped'
                THEN IF m \in created' THEN base[m] = NoSet /\ stage'[m] = Empty
                                       ELSE base[m] # NoSet /\ stage'[m] = base[m]
                ELSE sets'[m] = base[m]
        BY <2>5 DEF StageAndSwap
      <4>1. d = c
        BY <2>5 DEF StageAndSwap
      <4>2. CASE m = n
        BY <2>5, <4>1, <4>2 DEF StageAndSwap, Pending
      <4>3. CASE m # n
        BY <2>5, <4>1, <4>3 DEF StageAndSwap, Pending
      <4> QED BY <4>2, <4>3
    <3> QED BY <3>1, <3>2
  <2>6. ASSUME NEW n \in Names, StageFails(c, n)
        PROVE  (TxnExclusive /\ UndoLog /\ Staged)'
    BY <2>6 DEF StageFails, Pending
  <2>7. CASE ListFails(c)    BY <2>7 DEF ListFails
  <2>8. CASE Reconciled(c)   BY <2>8 DEF Reconciled, Pending
  <2>9. CASE PrepareFails(c) BY <2>9 DEF PrepareFails
  <2>10. CASE Flush(c)        BY <2>10 DEF Flush
  <2>11. CASE Load(c)         BY <2>11 DEF Load
  <2>12. CASE LoadFails(c)    BY <2>12 DEF LoadFails
  <2>13. CASE LoadTimesOut(c) BY <2>13 DEF LoadTimesOut
  <2>14. CASE Hooks(c)        BY <2>14 DEF Hooks
  <2>15. CASE Commit(c)       BY <2>15 DEF Commit, Obsolete, EndTxn
  <2>16. CASE Rollback(c)     BY <2>16 DEF Rollback, EndTxn
  <2>17. CASE RestoreFlush(c) BY <2>17 DEF RestoreFlush
  <2>18. CASE Restored(c)     BY <2>18 DEF Restored
  <2>19. CASE RestoreFilter(c) BY <2>19 DEF RestoreFilter
  <2>20. ASSUME NEW n \in Names, ReAdd(c, n)
         PROVE  (TxnExclusive /\ UndoLog /\ Staged)'
    BY <2>20 DEF ReAdd
  <2>21. ASSUME NEW n \in Names, ReAddFails(c, n)
         PROVE  (TxnExclusive /\ UndoLog /\ Staged)'
    BY <2>21 DEF ReAddFails
  <2> HIDE DEF IInv, TxnExclusive, UndoLog, Staged, TypeOK
  <2> QED
    BY <1>4, <2>1, <2>2, <2>3, <2>4, <2>5, <2>6, <2>7, <2>8, <2>9, <2>10, <2>11,
       <2>12, <2>13, <2>14, <2>15, <2>16, <2>17, <2>18, <2>19, <2>20, <2>21
       DEF Refresh
<1> HIDE DEF IInv, TxnExclusive, UndoLog, Staged, TypeOK
<1> QED
  BY <1>1, <1>2, <1>3, <1>4 DEF Next

LEMMA Inductive == Spec => []IInv
  BY InitIInv, NextIInv, PTL DEF Spec

\* Every variable stays in its range, for any number of callers and failures.
THEOREM TypeCorrect == Spec => []TypeOK
<1>1. IInv => TypeOK
  BY DEF IInv
<1> QED
  BY <1>1, Inductive, PTL

\* The transaction is exclusive, and its undo log is complete at every step of
\* reconcile, iptables-restore and rollback: IpsetManager's promise that rules
\* and sets can be rolled back as one transaction, as far as sets go.
THEOREM UndoLogComplete == Spec => [](TxnExclusive /\ UndoLog)
<1>1. IInv => TxnExclusive /\ UndoLog
  BY DEF IInv
<1> QED
  BY <1>1, Inductive, PTL

\* IpsetManager.rollback gives every set back what it had when the lock was
\* taken, for any interleaving of callers and any failures.
THEOREM RollbackIsExact == Spec => RollbackRestores
<1>1. IInv /\ [Next]_vars
      => [\A c \in Callers : RollsBack(c) => \A n \in Names : GivenBack(n)]_vars
  <2> SUFFICES ASSUME IInv, Next, NEW c \in Callers, RollsBack(c), NEW n \in Names
               PROVE  GivenBack(n)
    OBVIOUS
  <2> USE DEF RollsBack, IInv, TypeOK, Goto, Return, Resting, InTxn, Kernels
  <2>1. Rollback(c)
    <3>1. ASSUME NEW d \in Callers, Refresh(d) PROVE Rollback(c)
      <4>1. d = c
        BY <3>1 DEF Refresh, SaveChain, SaveFails, RejectSpecs, Acquire, StageAndSwap,
           StageFails, ListFails, Reconciled, PrepareFails, Flush, Load, LoadFails,
           LoadTimesOut, Hooks, Commit, Rollback, RestoreFlush, Restored,
           RestoreFilter, ReAdd, ReAddFails
      <4> QED
        BY <3>1, <4>1 DEF Refresh, SaveChain, SaveFails, RejectSpecs, Acquire,
           StageAndSwap, StageFails, ListFails, Reconciled, PrepareFails, Flush, Load,
           LoadFails, LoadTimesOut, Hooks, Commit, RestoreFlush, Restored,
           RestoreFilter, ReAdd, ReAddFails
    <3>2. ~Crash
      BY DEF Crash
    <3>3. ASSUME NEW d \in Callers, NEW m \in {"refresh", "rebuild"}, NEW p \in Plans,
                 Begin(d, m, p)
          PROVE  FALSE
      BY <3>3 DEF Begin
    <3> QED BY <3>1, <3>2, <3>3 DEF Next
  <2> QED
    BY <2>1 DEF Rollback, UndoLog, GivenBack
<1> QED
  BY <1>1, Inductive, PTL DEF Spec, RollbackRestores

\* A refresh that reports success has installed every set of its plan.
THEOREM CommitIsExact == Spec => CommitInstalls
<1>1. IInv /\ [Next]_vars
      => [\A c \in Callers : Commits(c) =>
              \A n \in Defined(plan[c]) : sets'[n] = plan[c][n]]_vars
  <2> SUFFICES ASSUME IInv, Next, NEW c \in Callers, Commits(c),
                      NEW n \in Defined(plan[c])
               PROVE  sets'[n] = plan[c][n]
    OBVIOUS
  <2> USE DEF Commits, IInv, TypeOK, Goto, Return, Resting, InTxn, Kernels
  <2>1. Commit(c)
    <3>1. ASSUME NEW d \in Callers, Refresh(d) PROVE Commit(c)
      <4>1. d = c
        BY <3>1 DEF Refresh, SaveChain, SaveFails, RejectSpecs, Acquire, StageAndSwap,
           StageFails, ListFails, Reconciled, PrepareFails, Flush, Load, LoadFails,
           LoadTimesOut, Hooks, Commit, Rollback, RestoreFlush, Restored,
           RestoreFilter, ReAdd, ReAddFails
      <4> QED
        BY <3>1, <4>1 DEF Refresh, SaveChain, SaveFails, RejectSpecs, Acquire,
           StageAndSwap, StageFails, ListFails, Reconciled, PrepareFails, Flush, Load,
           LoadFails, LoadTimesOut, Hooks, Rollback, RestoreFlush, Restored,
           RestoreFilter, ReAdd, ReAddFails
    <3>2. ~Crash
      BY DEF Crash
    <3>3. ASSUME NEW d \in Callers, NEW m \in {"refresh", "rebuild"}, NEW p \in Plans,
                 Begin(d, m, p)
          PROVE  FALSE
      BY <3>3 DEF Begin
    <3> QED BY <3>1, <3>2, <3>3 DEF Next
  <2> QED
    BY <2>1 DEF Commit, Obsolete, Staged, Defined
<1> QED
  BY <1>1, Inductive, PTL DEF Spec, CommitInstalls

(***************************************************************************)
(* A failed refresh leaves the rules of its predecessor                    *)
(***************************************************************************)

\* The commands that undo a failed refresh succeed.
RecoveryWorks == Faults \cap {"flush", "restore", "gc", "undo", "destroy"} = {}

\* f gives every set of the last plan installed its members, and no member to
\* any other set.
KernelIs(f) ==
    \A n \in Names : IF installed[n] = NoSet THEN f[n] \in {NoSet, Empty}
                                             ELSE f[n] = installed[n]

\* Once the text is loaded the chain is that of the plan.
Loaded == \A c \in Callers : pc[c] \in {"hooks", "commit"} => chain = Defined(plan[c])

\* What the last plan installed still accounts for at each step: the sets while
\* the lock is free and the sets a transaction began with, the chain until the
\* flush, and the part of it already put back.
KeptInv ==
    /\ lock = NoCaller => KernelIs(sets)
    /\ \A c \in Callers : pc[c] \in InTxn => KernelIs(base)
    /\ (\A c \in Callers : pc[c] \in Resting \cup {"save", "lock", "reconcile", "prepare"})
          => chain = Defined(installed)
    /\ \A c \in Callers : pc[c] = "readd" => chain \cup saved[c] = Defined(installed)

\* Nobody else runs while a snapshot is put back.
RestoresAlone ==
    \A c \in Callers : pc[c] \in {"restore", "readd"}
        => \A d \in Callers \ {c} : pc[d] \in Resting

LEMMA LoadedStep ==
    ASSUME IInv, RestoresAlone, Loaded, [Next]_vars
    PROVE  Loaded'
<1> USE DEF Loaded, RestoresAlone, IInv, TxnExclusive, TypeOK, Kernels, Plans, Steps,
            InTxn, Resting, Defined, Goto, Return, kernel, txn, local
<1>1. CASE UNCHANGED vars
  BY <1>1 DEF vars
<1>2. CASE Crash
  BY <1>2 DEF Crash
<1>3. ASSUME NEW c \in Callers, NEW m \in {"refresh", "rebuild"}, NEW p \in Plans,
             Begin(c, m, p)
      PROVE  Loaded'
  BY <1>3 DEF Begin
<1>4. ASSUME NEW c \in Callers, Refresh(c) PROVE Loaded'
  <2>1. CASE SaveChain(c)   BY <2>1 DEF SaveChain
  <2>2. CASE SaveFails(c)   BY <2>2 DEF SaveFails
  <2>3. CASE RejectSpecs(c) BY <2>3 DEF RejectSpecs
  <2>4. CASE Acquire(c)     BY <2>4 DEF Acquire
  <2>5. ASSUME NEW n \in Names, StageAndSwap(c, n) PROVE Loaded'
    BY <2>5 DEF StageAndSwap
  <2>6. ASSUME NEW n \in Names, StageFails(c, n) PROVE Loaded'
    BY <2>6 DEF StageFails
  <2>7. CASE ListFails(c)    BY <2>7 DEF ListFails
  <2>8. CASE Reconciled(c)   BY <2>8 DEF Reconciled
  <2>9. CASE PrepareFails(c) BY <2>9 DEF PrepareFails
  <2>10. CASE Flush(c)        BY <2>10 DEF Flush
  <2>11. CASE Load(c)         BY <2>11 DEF Load
  <2>12. CASE LoadFails(c)    BY <2>12 DEF LoadFails
  <2>13. CASE LoadTimesOut(c) BY <2>13 DEF LoadTimesOut
  <2>14. CASE Hooks(c)        BY <2>14 DEF Hooks
  <2>15. CASE Commit(c)       BY <2>15 DEF Commit
  <2>16. CASE Rollback(c)     BY <2>16 DEF Rollback
  <2>17. CASE RestoreFlush(c) BY <2>17 DEF RestoreFlush
  <2>18. CASE Restored(c)     BY <2>18 DEF Restored
  <2>19. CASE RestoreFilter(c) BY <2>19 DEF RestoreFilter
  <2>20. ASSUME NEW n \in Names, ReAdd(c, n) PROVE Loaded'
    BY <2>20 DEF ReAdd
  <2>21. ASSUME NEW n \in Names, ReAddFails(c, n) PROVE Loaded'
    BY <2>21 DEF ReAddFails
  <2> QED
    BY <1>4, <2>1, <2>2, <2>3, <2>4, <2>5, <2>6, <2>7, <2>8, <2>9, <2>10, <2>11,
       <2>12, <2>13, <2>14, <2>15, <2>16, <2>17, <2>18, <2>19, <2>20, <2>21
       DEF Refresh
<1> QED
  BY <1>1, <1>2, <1>3, <1>4 DEF Next

\* A commit installs its plan whatever was in the kernel before.
LEMMA CommitKeeps ==
    ASSUME RecoveryWorks, IInv, RestoresAlone, Loaded, NEW c \in Callers, Commit(c)
    PROVE  KeptInv'
<1> USE DEF IInv, TxnExclusive, TypeOK, Kernels, Plans, Steps, InTxn, Resting, Defined,
            Goto, Return
<1>1. /\ lock = c /\ lock' = NoCaller /\ chain' = Defined(plan[c]) /\ installed' = plan[c]
      /\ pc' = [pc EXCEPT ![c] = "done"]
  BY DEF Commit, EndTxn, Loaded
<1>2. \A d \in Callers : pc'[d] \notin InTxn \cup {"restore", "readd"}
  BY <1>1 DEF RestoresAlone, Commit
<1>3. ~("gc" \in Faults)
  BY DEF RecoveryWorks
<1>4. \A n \in Names : sets'[n] = IF plan[c][n] = NoSet THEN NoSet ELSE sets[n]
  BY <1>1, <1>3 DEF Commit, Obsolete, Loaded
<1>5. \A n \in Names : plan[c][n] # NoSet => sets[n] = plan[c][n]
  BY DEF Staged, Commit
<1>6. KernelIs(sets)'
  BY <1>1, <1>4, <1>5 DEF KernelIs
<1> QED
  BY <1>1, <1>2, <1>6 DEF KeptInv

\* After a rollback the sets hold what the last plan installed.
LEMMA RollbackKeeps ==
    ASSUME RecoveryWorks, IInv, KeptInv, NEW c \in Callers, Rollback(c)
    PROVE  KernelIs(sets)' /\ lock' = NoCaller
<1> USE DEF IInv, TxnExclusive, TypeOK, Kernels, Plans, Steps, InTxn, Resting, Defined
<1>1. pc[c] = "undo" /\ lock = c /\ lock' = NoCaller /\ installed' = installed
  BY DEF Rollback, EndTxn
<1>2. KernelIs(base)
  BY <1>1 DEF KeptInv
<1>3. ~("undo" \in Faults) /\ ~("destroy" \in Faults)
  BY DEF RecoveryWorks
<1>4. \A n \in Names : sets'[n] = IF n \in created \ chain THEN NoSet
                                  ELSE IF n \in swapped THEN stage[n] ELSE sets[n]
  BY <1>3 DEF Rollback
<1>5. \A n \in Names : sets'[n] = base[n] \/ (base[n] = NoSet /\ sets'[n] \in {NoSet, Empty})
  BY <1>1, <1>4 DEF UndoLog
<1> QED
  BY <1>1, <1>2, <1>5 DEF KernelIs

\* The steps of the calls, as opposed to the death of their process.
Runs ==
    \/ \E c \in Callers, m \in {"refresh", "rebuild"}, p \in Plans : Begin(c, m, p)
    \/ \E c \in Callers : Refresh(c)

LEMMA KeptStep ==
    ASSUME RecoveryWorks, IInv, RestoresAlone, NotOvertaken, NotOvertaken', Loaded,
           KeptInv, [Runs]_vars
    PROVE  KeptInv'
<1> USE DEF KeptInv, KernelIs, RestoresAlone, NotOvertaken, IInv, TxnExclusive, TypeOK,
            Kernels, Plans, Steps, InTxn, Resting, Defined, Goto, Return, kernel, txn,
            local, RecoveryWorks, Flushed
<1>1. CASE UNCHANGED vars
  BY <1>1 DEF vars
<1>3. ASSUME NEW c \in Callers, NEW m \in {"refresh", "rebuild"}, NEW p \in Plans,
             Begin(c, m, p)
      PROVE  KeptInv'
  BY <1>3 DEF Begin
<1>4. ASSUME NEW c \in Callers, Refresh(c) PROVE KeptInv'
  <2>1. CASE SaveChain(c)   BY <2>1 DEF SaveChain
  <2>2. CASE SaveFails(c)   BY <2>2 DEF SaveFails
  <2>3. CASE RejectSpecs(c) BY <2>3 DEF RejectSpecs
  <2>4. CASE Acquire(c)     BY <2>4 DEF Acquire
  <2>5. ASSUME NEW n \in Names, StageAndSwap(c, n) PROVE KeptInv'
    BY <2>5 DEF StageAndSwap
  <2>6. ASSUME NEW n \in Names, StageFails(c, n) PROVE KeptInv'
    BY <2>6 DEF StageFails
  <2>7. CASE ListFails(c)    BY <2>7 DEF ListFails
  <2>8. CASE Reconciled(c)   BY <2>8 DEF Reconciled
  <2>9. CASE PrepareFails(c) BY <2>9 DEF PrepareFails
  <2>10. CASE Flush(c)        BY <2>10 DEF Flush
  <2>11. CASE Load(c)         BY <2>11 DEF Load
  <2>12. CASE LoadFails(c)    BY <2>12 DEF LoadFails
  <2>13. CASE LoadTimesOut(c) BY <2>13 DEF LoadTimesOut
  <2>14. CASE Hooks(c)
    <3>1. /\ UNCHANGED <<sets, chain, base, lock, saved, installed>>
          /\ pc[c] = "hooks" /\ lock = c
          /\ pc' = [pc EXCEPT ![c] = "commit"] \/ pc' = [pc EXCEPT ![c] = "undo"]
      BY <2>14 DEF Hooks
    <3>2. pc'[c] \in {"commit", "undo"} /\ \A d \in Callers \ {c} : pc'[d] = pc[d]
      BY <3>1
    <3> QED
      BY <3>1, <3>2
  <2>15. CASE Commit(c)       BY <2>15, CommitKeeps
  <2>16. CASE Rollback(c)
    <3>1. KernelIs(sets)'
      BY <2>16, RollbackKeeps
    <3>2. pc' = [pc EXCEPT ![c] = "restore"] /\ pc[c] = "undo" /\ lock = c
      BY <2>16 DEF Rollback
    <3>3. \A d \in Callers : pc'[d] \notin InTxn \cup {"readd"}
      BY <3>2
    <3> QED BY <3>1, <3>2, <3>3
  <2>17. CASE RestoreFlush(c) BY <2>17 DEF RestoreFlush
  <2>18. CASE Restored(c)     BY <2>18 DEF Restored
  <2>19. CASE RestoreFilter(c) BY <2>19 DEF RestoreFilter
  <2>20. ASSUME NEW n \in Names, ReAdd(c, n) PROVE KeptInv'
    BY <2>20 DEF ReAdd
  <2>21. ASSUME NEW n \in Names, ReAddFails(c, n) PROVE KeptInv'
    <3>1. pc[c] = "readd" /\ n \in saved[c] /\ sets[n] = NoSet
      BY <2>21 DEF ReAddFails
    <3>2. lock = NoCaller
      BY <3>1
    <3>3. installed[n] # NoSet
      BY <3>1
    <3> QED
      BY <3>1, <3>2, <3>3
  <2> HIDE DEF KeptInv, KernelIs, RestoresAlone, NotOvertaken, IInv, RecoveryWorks
  <2> QED
    BY <1>4, <2>1, <2>2, <2>3, <2>4, <2>5, <2>6, <2>7, <2>8, <2>9, <2>10, <2>11,
       <2>12, <2>13, <2>14, <2>15, <2>16, <2>17, <2>18, <2>19, <2>20, <2>21
       DEF Refresh
<1> HIDE DEF KeptInv, IInv, NotOvertaken, RestoresAlone
<1> QED
  BY <1>1, <1>3, <1>4 DEF Runs

\* No crash, and no staging set that a transaction does not remove.
LEMMA NoOrphansStep ==
    ASSUME RecoveryWorks, "crash" \notin Faults, IInv, orphans = {}, [Next]_vars
    PROVE  orphans' = {} /\ [Runs]_vars
<1> USE DEF RecoveryWorks, kernel
<1>1. CASE UNCHANGED vars
  BY <1>1 DEF vars
<1>2. ~Crash
  BY DEF Crash
<1>3. ASSUME NEW c \in Callers, NEW m \in {"refresh", "rebuild"}, NEW p \in Plans,
             Begin(c, m, p)
      PROVE  orphans' = {}
  BY <1>3 DEF Begin
<1>4. ASSUME NEW c \in Callers, Refresh(c) PROVE orphans' = {}
  BY <1>4 DEF Refresh, SaveChain, SaveFails, RejectSpecs, Acquire, StageAndSwap,
     StageFails, ListFails, Reconciled, PrepareFails, Flush, Load, LoadFails,
     LoadTimesOut, Hooks, Commit, Rollback, RestoreFlush, Restored,
     RestoreFilter, ReAdd, ReAddFails
<1> QED
  BY <1>1, <1>2, <1>3, <1>4 DEF Next, Runs

QuietInv == IInv /\ Loaded /\ KeptInv /\ orphans = {}

LEMMA QuietInductive ==
    ASSUME Faults \subseteq ApplyFaults
    PROVE  Spec /\ []NotOvertaken => []QuietInv
<1>1. RecoveryWorks /\ "crash" \notin Faults
  BY DEF RecoveryWorks, ApplyFaults
<1>2. Init => Loaded /\ KeptInv /\ orphans = {}
  BY DEF Init, Loaded, KeptInv, KernelIs, NoStage, Defined, InTxn, Resting
<1>3. NotOvertaken => RestoresAlone
  BY DEF NotOvertaken, RestoresAlone
<1>4. NotOvertaken /\ NotOvertaken' /\ QuietInv /\ [Next]_vars => QuietInv'
  BY <1>1, <1>3, NextIInv, LoadedStep, KeptStep, NoOrphansStep DEF QuietInv
<1> QED
  BY InitIInv, <1>2, <1>4, PTL DEF Spec, QuietInv

LEMMA QuietRest ==
    ASSUME QuietInv, AtRest
    PROVE  /\ KernelIs(sets) /\ chain = Defined(installed) /\ orphans = {}
           /\ installed \in Plans
<1>1. lock = NoCaller
  BY DEF QuietInv, IInv, TypeOK, TxnExclusive, AtRest, Resting, InTxn
<1> QED
  BY <1>1 DEF QuietInv, KeptInv, AtRest, IInv, TypeOK

\* A refresh that fails at any step leaves the rules of the last one that
\* succeeded, for any number of callers, names and rules: as long as what
\* fails is not the recovery itself, no process dies, and no other call
\* overtakes the one that fails.
THEOREM FailedRefreshKeepsRules ==
    ASSUME Faults \subseteq ApplyFaults
    PROVE  Spec /\ []NotOvertaken => []FailureKeepsRules
<1>1. QuietInv => FailureKeepsRules
  BY QuietRest DEF FailureKeepsRules, Enforced, KernelIs, Defined
<1> QED
  BY <1>1, QuietInductive, PTL

\* ... and neither an obsolete set with members nor a staging set stays behind.
THEOREM NothingLeftBehind ==
    ASSUME Faults \subseteq ApplyFaults
    PROVE  Spec /\ []NotOvertaken => []LeftoversAreEmpty
<1>1. QuietInv => LeftoversAreEmpty
  BY QuietRest DEF LeftoversAreEmpty, KernelIs, Defined
<1> QED
  BY <1>1, QuietInductive, PTL

(***************************************************************************)
(* The calls: types, and refinement of the transaction                     *)
(***************************************************************************)

USE OwnersAssumption

LEMMA Overridden ==
    ASSUME NEW f \in Plans, NEW g \in Plans, NEW N
    PROVE  Override(f, g, N) \in Plans
  BY DEF Override, Plans

LEMMA NoStagePlan == NoStage \in Plans
  BY DEF NoStage, Plans

\* What a call keeps has its type, and a call that stores nothing has no owner.
CallTypeOK ==
    /\ db \in Plans
    /\ drift \subseteq Names
    /\ task \in [Callers -> Tasks]
    /\ draft \in [Callers -> Plans]
    /\ snap \in [Callers -> Plans]
    /\ before \in [Callers -> Plans]
    /\ target \in [Callers -> SUBSET Owners]
    /\ todo \in [Callers -> SUBSET Owners]
    /\ \A c \in Callers : todo[c] \subseteq target[c]
    /\ \A c \in Callers : task[c] \in {"none", "rebuild", "crashed"} => target[c] = {}

LEMMA StartTypes ==
    ASSUME CallTypeOK, NEW c \in Callers, NEW T \in SUBSET Owners, NEW p \in Plans,
           Start(c, T, p)
    PROVE  CallTypeOK' /\ UNCHANGED vars
<1>1. /\ Override(NoStage, p, NamesOf(T)) \in Plans
      /\ Override(NoStage, db, NamesOf(T)) \in Plans
  BY Overridden, NoStagePlan DEF CallTypeOK
<1> QED
  BY <1>1 DEF Start, Becomes, CallTypeOK, Tasks

\* Changes of rules: every operation of the services.
LEMMA ChangeTypes ==
    ASSUME CallTypeOK, NEW c \in Callers, Change(c)
    PROVE  CallTypeOK' /\ UNCHANGED vars
<1>1. ASSUME NEW n \in Names, NEW v \in Contents \cup {NoSet}
      PROVE  /\ [db EXCEPT ![n] = v] \in Plans
             /\ {OwnerOf[n]} \in SUBSET Owners
  BY DEF CallTypeOK, Plans
<1>2. ASSUME NEW n \in Names, NEW v \in Contents \cup {NoSet},
             \/ Create(c, n, v) \/ UpdateById(c, n, v) \/ Delete(c, n)
             \/ SetEnabled(c, n, v) \/ SetMembers(c, n, v)
      PROVE  CallTypeOK' /\ UNCHANGED vars
  <2>1. PICK w \in Contents \cup {NoSet} : Start(c, {OwnerOf[n]}, [db EXCEPT ![n] = w])
    BY <1>2 DEF Create, UpdateById, Delete, SetEnabled, SetMembers
  <2> QED
    BY <2>1, <1>1, StartTypes
<1>3. ASSUME NEW n \in Names, NEW v \in Contents \cup {NoSet},
             ChangeMembers(c, n, v) \/ CreateUser(c, n, v)
      PROVE  CallTypeOK' /\ UNCHANGED vars
  BY <1>1, <1>3 DEF ChangeMembers, CreateUser, Becomes, CallTypeOK, Tasks
<1>4. ASSUME NEW o \in Owners,
             Reorder(c, o) \/ \E p \in Plans : CreateMany(c, o, p)
      PROVE  CallTypeOK' /\ UNCHANGED vars
  <2>1. PICK p \in Plans : Start(c, {o}, p)
    BY <1>4 DEF Reorder, CreateMany, CallTypeOK
  <2> QED
    BY <2>1, StartTypes
<1>5. ASSUME ReorderAll(c) PROVE CallTypeOK' /\ UNCHANGED vars
  BY <1>5, StartTypes DEF ReorderAll, CallTypeOK
<1>6. ASSUME NEW T \in SUBSET Owners, NEW p \in Plans, Restore(c, T, p)
      PROVE  CallTypeOK' /\ UNCHANGED vars
  BY <1>6, StartTypes DEF Restore
<1> QED
  BY <1>2, <1>3, <1>4, <1>5, <1>6 DEF Change

LEMMA EndCallTypes ==
    ASSUME CallTypeOK, NEW c \in Callers, NEW t \in Tasks, EndCall(c, t),
           db' \in Plans, drift' \subseteq Names
    PROVE  CallTypeOK'
  BY NoStagePlan DEF EndCall, Becomes, CallTypeOK

LEMMA StepTypes ==
    ASSUME CallTypeOK, NEW c \in Callers, Step(c) \/ Rebuild(c)
    PROVE  CallTypeOK'
<1>1. CASE Snapshot(c)
  <2>1. Override(NoStage, db, NamesOf(target[c])) \in Plans
    BY Overridden, NoStagePlan DEF CallTypeOK
  <2> QED
    BY <1>1, <2>1 DEF Snapshot, Becomes, CallTypeOK, Tasks
<1>2. CASE ReadPlan(c)
  BY <1>2 DEF ReadPlan, Becomes, call, CallTypeOK, Tasks
<1>3. CASE Enforce(c)
  BY <1>3 DEF Enforce, rules, call, CallTypeOK
<1>4. CASE Succeed(c)
  BY <1>4, EndCallTypes DEF Succeed, Tasks, CallTypeOK
<1>5. CASE Fail(c)
  <2>1. db' \in Plans /\ drift' \subseteq Names
    BY <1>5 DEF Fail, CallTypeOK, NamesOf
  <2>2. CASE EndCall(c, "none")
    BY <2>1, <2>2, EndCallTypes DEF Tasks
  <2>3. CASE ~EndCall(c, "none")
    <3>1. /\ Becomes(c, "undo") /\ todo' = [todo EXCEPT ![c] = Undone(target[c])]
          /\ UNCHANGED <<target, draft, snap, before>>
      BY <1>5, <2>3 DEF Fail
    <3> QED
      BY <2>1, <3>1 DEF Becomes, CallTypeOK, Tasks, Undone
  <2> QED
    BY <2>2, <2>3
<1>6. ASSUME NEW o \in Owners, Save(c, o) PROVE CallTypeOK'
  <2>1. db' \in Plans
    BY <1>6, Overridden DEF Save, CallTypeOK
  <2> QED
    BY <1>6, <2>1 DEF Save, Becomes, CallTypeOK, Tasks
<1>7. ASSUME NEW o \in Owners, SaveRefused(c, o) PROVE CallTypeOK'
  <2>1. drift' \subseteq Names /\ db' \in Plans
    BY <1>7, Overridden DEF SaveRefused, CallTypeOK, NamesOf
  <2> QED
    BY <1>7, <2>1, EndCallTypes DEF SaveRefused, Tasks
<1>9. CASE UserCreated(c)
  BY <1>9, EndCallTypes DEF UserCreated, Tasks, CallTypeOK, NamesOf
<1>10. ASSUME NEW o \in Owners, Undo(c, o) PROVE CallTypeOK'
  <2>1. drift' \subseteq Names /\ db' \in Plans
    BY <1>10, Overridden DEF Undo, CallTypeOK
  <2>2. CASE EndCall(c, "none")
    BY <2>1, <2>2, EndCallTypes DEF Tasks
  <2>3. CASE ~EndCall(c, "none")
    BY <1>10, <2>1, <2>3 DEF Undo, CallTypeOK, Tasks
  <2> QED
    BY <2>2, <2>3
<1>11. ASSUME NEW o \in Owners, UndoRefused(c, o) PROVE CallTypeOK'
  BY <1>11, EndCallTypes DEF UndoRefused, Tasks, CallTypeOK, NamesOf
<1>8. CASE Rebuild(c)
  BY <1>8 DEF Rebuild, Becomes, call, CallTypeOK, Tasks
<1> QED
  BY <1>1, <1>2, <1>3, <1>4, <1>5, <1>6, <1>7, <1>8, <1>9, <1>10, <1>11 DEF Step

LEMMA DieTypes == CallTypeOK /\ Die => CallTypeOK'
  BY NoStagePlan DEF Die, CallTypeOK, Tasks

\* Every step of a call is a step of the transaction or leaves it alone.
LEMMA StepRefines ==
    ASSUME CallTypeOK, [AllNext]_all
    PROVE  CallTypeOK' /\ [Next]_vars
<1>1. CASE UNCHANGED all
  BY <1>1 DEF all, rules, call, CallTypeOK
<1>2. CASE Die
  <2>1. [Next]_vars
    BY <1>2 DEF Die, Next
  <2> QED
    BY <1>2, <2>1, DieTypes
<1>3. ASSUME NEW c \in Callers, Change(c) PROVE CallTypeOK' /\ [Next]_vars
  BY <1>3, ChangeTypes
<1>4. ASSUME NEW c \in Callers, Step(c) \/ Rebuild(c) PROVE CallTypeOK' /\ [Next]_vars
  <2>1. CASE ReadPlan(c)
    BY <2>1, <1>4, StepTypes DEF ReadPlan, Next, CallTypeOK
  <2>2. CASE Rebuild(c)
    BY <2>2, <1>4, StepTypes DEF Rebuild, Next, CallTypeOK
  <2>3. CASE Enforce(c)
    BY <2>3, <1>4, StepTypes DEF Enforce, Next
  <2>4. CASE ~(ReadPlan(c) \/ Rebuild(c) \/ Enforce(c))
    <3>1. UNCHANGED vars
      BY <2>4, <1>4 DEF Step, Snapshot, Succeed, Fail, Save, SaveRefused, UserCreated, Undo,
         UndoRefused
    <3> QED
      BY <3>1, <1>4, StepTypes
  <2> QED
    BY <2>1, <2>2, <2>3, <2>4
<1> QED
  BY <1>1, <1>2, <1>3, <1>4 DEF AllNext

LEMMA AllInitTypes == AllInit => Init /\ CallTypeOK
  BY NoStagePlan DEF AllInit, CallTypeOK, Tasks

LEMMA CallInductive == AllSpec => [](IInv /\ CallTypeOK)
<1>1. AllInit => IInv /\ CallTypeOK
  BY AllInitTypes, InitIInv
<1>2. IInv /\ CallTypeOK /\ [AllNext]_all => IInv' /\ CallTypeOK'
  BY StepRefines, NextIInv
<1> QED
  BY <1>1, <1>2, PTL DEF AllSpec

\* The calls of the services over SQLite, whatever they change and however they
\* fail, do to the kernel only what the refresh transaction does: what is
\* proved of every behaviour of Spec holds of the whole firewall.
THEOREM CallsOnlyRefresh == AllSpec => Spec
<1>1. IInv /\ CallTypeOK /\ [AllNext]_all => [Next]_vars
  BY StepRefines
<1> QED
  BY <1>1, AllInitTypes, CallInductive, PTL DEF AllSpec, Spec

\* Every variable stays in its range, and a call that has ended, a rebuild and
\* a restarted process keep no owner of an earlier call.
THEOREM CallTypesHold == AllSpec => []AllTypeOK
<1>1. CallTypeOK => {draft, snap, before} \subseteq [Callers -> Plans]
  BY Zenon DEF CallTypeOK
<1>2. IInv /\ CallTypeOK => AllTypeOK
  BY <1>1 DEF IInv, CallTypeOK, AllTypeOK
<1> QED
  BY <1>2, CallInductive, PTL

(***************************************************************************)
(* Calls that do not overlap: a failed call gives its owners their rules   *)
(* back                                                                    *)
(***************************************************************************)

\* At most one call is running; a process that restarted counts as one.
Serial ==
    \A c, d \in Callers : task[c] # "none" /\ task[d] # "none" => c = d

\* The snapshot, and before it the database, hold the rules the call found.
SnapInv ==
    \A c \in Callers :
        /\ task[c] = "read" => \A n \in NamesOf(target[c]) : db[n] = before[c][n]
        /\ task[c] = "read" => todo[c] = target[c]
        /\ task[c] = "write" => \A n \in NamesOf(todo[c]) : db[n] = before[c][n]
        /\ task[c] \in {"write", "plan", "refresh", "undo"}
              => \A n \in NamesOf(target[c]) : snap[c][n] = before[c][n]
        /\ task[c] = "undo"
              => \A n \in NamesOf(Undone(target[c]) \ todo[c]) : db[n] = before[c][n]

LEMMA OthersIdle ==
    ASSUME Serial, Serial', NEW c \in Callers, task[c] # "none" \/ task'[c] # "none",
           \A d \in Callers \ {c} : task'[d] = task[d]
    PROVE  \A d \in Callers \ {c} : task[d] = "none" /\ task'[d] = "none"
  BY DEF Serial

\* What a step of a change does, whichever operation it is.
LEMMA ChangeCases ==
    ASSUME CallTypeOK, NEW c \in Callers, Change(c)
    PROVE  \/ \E T \in SUBSET Owners, p \in Plans : Start(c, T, p)
           \/ \E n \in Names, v \in Contents \cup {NoSet} :
                 ChangeMembers(c, n, v) \/ CreateUser(c, n, v)
<1>1. ASSUME NEW n \in Names, NEW v \in Contents \cup {NoSet}
      PROVE  /\ [db EXCEPT ![n] = v] \in Plans
             /\ {OwnerOf[n]} \in SUBSET Owners
  BY DEF CallTypeOK, Plans
<1>2. ASSUME NEW n \in Names, NEW v \in Contents \cup {NoSet},
             \/ Create(c, n, v) \/ UpdateById(c, n, v) \/ Delete(c, n)
             \/ SetEnabled(c, n, v) \/ SetMembers(c, n, v)
      PROVE  \E T \in SUBSET Owners, p \in Plans : Start(c, T, p)
  <2>1. PICK w \in Contents \cup {NoSet} : Start(c, {OwnerOf[n]}, [db EXCEPT ![n] = w])
    BY <1>2 DEF Create, UpdateById, Delete, SetEnabled, SetMembers
  <2> QED
    BY <2>1, <1>1
<1>3. ASSUME NEW o \in Owners,
             Reorder(c, o) \/ \E p \in Plans : CreateMany(c, o, p)
      PROVE  \E T \in SUBSET Owners, p \in Plans : Start(c, T, p)
  BY <1>3 DEF Reorder, CreateMany, CallTypeOK
<1>4. ASSUME ReorderAll(c) PROVE \E T \in SUBSET Owners, p \in Plans : Start(c, T, p)
  BY <1>4 DEF ReorderAll, CallTypeOK
<1>5. ASSUME NEW T \in SUBSET Owners, NEW p \in Plans, Restore(c, T, p)
      PROVE  \E U \in SUBSET Owners, q \in Plans : Start(c, U, q)
  BY <1>5 DEF Restore
<1> QED
  BY <1>2, <1>3, <1>4, <1>5 DEF Change

\* A step of a call is a step of one that has begun, and of no other.
LEMMA StepOwn ==
    ASSUME CallTypeOK, NEW c \in Callers, Step(c) \/ Rebuild(c)
    PROVE  /\ task[c] # "none" \/ task'[c] # "none"
           /\ \A d \in Callers \ {c} : task'[d] = task[d]
<1>1. task[c] # "none" \/ task'[c] # "none"
  BY DEF Step, Snapshot, ReadPlan, Enforce, rules, Succeed, Fail, Save, SaveRefused,
     UserCreated, Undo, UndoRefused, Rebuild, Becomes, CallTypeOK
<1>2. ASSUME NEW o \in Owners, Undo(c, o) PROVE \A d \in Callers \ {c} : task'[d] = task[d]
  BY <1>2 DEF Undo, EndCall, Becomes, CallTypeOK
<1>3. CASE Fail(c)
  BY <1>3 DEF Fail, EndCall, Becomes, CallTypeOK
<1>4. CASE ~(Fail(c) \/ \E o \in Owners : Undo(c, o))
  BY <1>4 DEF Step, Snapshot, ReadPlan, Enforce, rules, Succeed, Save, SaveRefused,
     UserCreated, UndoRefused, Rebuild, EndCall, Becomes, CallTypeOK
<1> QED
  BY <1>1, <1>2, <1>3, <1>4

LEMMA SnapStep ==
    ASSUME Serial, Serial', CallTypeOK, SnapInv, [AllNext]_all
    PROVE  SnapInv'
<1> USE DEF SnapInv, CallTypeOK
<1>1. CASE UNCHANGED all
  BY <1>1 DEF all, rules, call
<1>2. CASE Die
  BY <1>2 DEF Die
<1>3. ASSUME NEW c \in Callers, Change(c) PROVE SnapInv'
  <2>1. ASSUME NEW T \in SUBSET Owners, NEW p \in Plans, Start(c, T, p) PROVE SnapInv'
    BY <2>1, OthersIdle DEF Start, Becomes, Override, NamesOf
  <2>2. ASSUME NEW n \in Names, NEW v \in Contents \cup {NoSet},
               ChangeMembers(c, n, v) \/ CreateUser(c, n, v)
        PROVE  SnapInv'
    BY <2>2, OthersIdle DEF ChangeMembers, CreateUser, Becomes
  <2> QED
    BY <1>3, <2>1, <2>2, ChangeCases
<1>4. ASSUME NEW c \in Callers, Step(c) \/ Rebuild(c) PROVE SnapInv'
  <2> \A d \in Callers \ {c} : task[d] = "none" /\ task'[d] = "none"
    BY <1>4, StepOwn, OthersIdle
  <2>1. CASE Snapshot(c)
    BY <2>1 DEF Snapshot, Becomes, Override, NamesOf
  <2>2. CASE ReadPlan(c)
    BY <2>2 DEF ReadPlan, Becomes, call
  <2>3. CASE Enforce(c)
    <3>1. /\ db' = db /\ task' = task /\ target' = target
          /\ todo' = todo /\ snap' = snap /\ before' = before
      BY <2>3 DEF Enforce, rules, call
    <3> HIDE DEF CallTypeOK
    <3> QED
      BY <3>1
  <2>4. CASE Succeed(c)
    BY <2>4 DEF Succeed, EndCall, Becomes
  <2>5. CASE Fail(c)
    <3>1. CASE EndCall(c, "none")
      BY <3>1 DEF EndCall, Becomes
    <3>2. CASE ~EndCall(c, "none")
      <4>1. /\ task[c] \in {"plan", "refresh"} /\ task' = [task EXCEPT ![c] = "undo"]
            /\ todo' = [todo EXCEPT ![c] = Undone(target[c])]
            /\ UNCHANGED <<db, target, snap, before>>
        BY <2>5, <3>2 DEF Fail, Becomes
      <4>2. task'[c] = "undo" /\ todo'[c] = Undone(target[c])
        BY <4>1
      <4>3. NamesOf(Undone(target'[c]) \ todo'[c]) = {}
        BY <4>1, <4>2 DEF NamesOf
      <4>4. \A n \in NamesOf(target'[c]) : snap'[c][n] = before'[c][n]
        BY <4>1
      <4> QED
        BY <4>2, <4>3, <4>4
    <3> QED
      BY <3>1, <3>2
  <2>6. ASSUME NEW o \in Owners, Save(c, o) PROVE SnapInv'
    BY <2>6 DEF Save, Becomes, Override, NamesOf
  <2>7. ASSUME NEW o \in Owners, SaveRefused(c, o) PROVE SnapInv'
    BY <2>7 DEF SaveRefused, EndCall, Becomes
  <2>9. CASE UserCreated(c)
    BY <2>9 DEF UserCreated, EndCall, Becomes
  <2>10. ASSUME NEW o \in Owners, Undo(c, o) PROVE SnapInv'
    <3>1. CASE EndCall(c, "none")
      BY <3>1 DEF EndCall, Becomes
    <3>2. CASE ~EndCall(c, "none")
      <4>1. /\ task[c] = "undo" /\ o \in todo[c] /\ todo' = [todo EXCEPT ![c] = @ \ {o}]
            /\ UNCHANGED <<task, target, snap, before>>
            /\ db' = Override(db, snap[c], NamesOf({o}))
        BY <2>10, <3>2 DEF Undo
      <4> QED
        BY <4>1 DEF Override, NamesOf, Undone
    <3> QED
      BY <3>1, <3>2
  <2>11. ASSUME NEW o \in Owners, UndoRefused(c, o) PROVE SnapInv'
    BY <2>11 DEF UndoRefused, EndCall, Becomes
  <2>8. CASE Rebuild(c)
    BY <2>8 DEF Rebuild, Becomes, call
  <2> HIDE DEF SnapInv, CallTypeOK
  <2> QED
    BY <1>4, <2>1, <2>2, <2>3, <2>4, <2>5, <2>6, <2>7, <2>8, <2>9, <2>10, <2>11 DEF Step
<1> HIDE DEF SnapInv, CallTypeOK
<1> QED
  BY <1>1, <1>2, <1>3, <1>4 DEF AllNext

LEMMA FailRestores ==
    ASSUME Serial, CallTypeOK, SnapInv, AllNext, NEW c \in Callers, CallFails(c),
           NEW n \in NamesOf(Owed(c) \ {PeerOwner})
    PROVE  db'[n] = before[c][n]
<1> USE DEF CallFails
<1>1. ~Die
  BY DEF Die
<1>2. ASSUME NEW d \in Callers, Change(d) PROVE FALSE
  BY <1>2, ChangeCases DEF Start, ChangeMembers, CreateUser, Becomes, CallTypeOK
<1>3. ASSUME NEW d \in Callers, Step(d) \/ Rebuild(d) PROVE db'[n] = before[c][n]
  <2>1. d = c
    BY <1>3, StepOwn
  <2>n. n \in Names /\ OwnerOf[n] \in Owed(c) \ {PeerOwner}
    BY DEF NamesOf
  <2>2. CASE Fail(c)
    <3>1. task[c] \in {"plan", "refresh"} /\ Owed(c) \subseteq target[c]
      BY <2>2 DEF Fail, Owed
    <3>2. task'[c] = "none" /\ Undone(target[c]) # {}
      BY <2>n, <3>1 DEF Undone
    <3>3. Becomes(c, "undo")
      BY <2>2, <3>1, <3>2 DEF Fail
    <3> QED
      BY <3>2, <3>3 DEF Becomes, CallTypeOK
  <2>3. ASSUME NEW o \in Owners, SaveRefused(c, o) PROVE db'[n] = before[c][n]
    <3>1. task[c] = "write" /\ n \in NamesOf(todo[c])
      BY <2>3, <2>n DEF SaveRefused, Owed, NamesOf
    <3>2. db'[n] = db[n]
      BY <2>3, <2>n DEF SaveRefused, Override, NamesOf
    <3> QED
      BY <3>1, <3>2 DEF SnapInv
  <2>4. ASSUME NEW o \in Owners, UndoRefused(c, o) PROVE db'[n] = before[c][n]
    <3>1. task[c] = "undo" /\ UNCHANGED db
      BY <2>4 DEF UndoRefused
    <3>2. n \in NamesOf(Undone(target[c]) \ todo[c])
      BY <2>4, <2>n, <3>1 DEF Owed, NamesOf, Undone
    <3> QED
      BY <3>1, <3>2 DEF SnapInv
  <2>5. ASSUME NEW o \in Owners, Undo(c, o) PROVE db'[n] = before[c][n]
    <3>1. /\ task[c] = "undo" /\ todo[c] = {o}
          /\ db' = Override(db, snap[c], NamesOf({o}))
      BY <2>5 DEF Undo
    <3>2. n \in NamesOf(Undone(target[c]))
      BY <2>n, <3>1 DEF Owed, NamesOf, Undone
    <3>3. CASE OwnerOf[n] = o
      BY <2>n, <3>1, <3>2, <3>3 DEF Override, NamesOf, SnapInv, Undone
    <3>4. CASE OwnerOf[n] # o
      BY <2>n, <3>1, <3>2, <3>4 DEF Override, NamesOf, SnapInv, Undone
    <3> QED
      BY <3>3, <3>4
  <2>6. CASE ~(Fail(c) \/ \E o \in Owners :
                 SaveRefused(c, o) \/ UndoRefused(c, o) \/ Undo(c, o))
    <3>1. \/ task'[c] = task[c] \/ task'[c] # "none" \/ task[c] = "created"
          \/ task[c] \in {"refresh", "change", "rebuild"} /\ pc[c] = "done"
      BY <1>3, <2>1, <2>6 DEF Step, Snapshot, ReadPlan, Enforce, rules, Succeed, Save,
         UserCreated, Rebuild, Becomes, CallTypeOK
    <3> QED
      BY <3>1
  <2> QED
    BY <2>2, <2>3, <2>4, <2>5, <2>6
<1> QED
  BY <1>1, <1>2, <1>3 DEF AllNext

\* Whichever step of a call fails, the rollback's own writes included, every
\* owner it owes its rules has those it had when the call began, for any number
\* of names, owners and rules and any failure, as long as no other call runs
\* meanwhile.  Not owed are the rows of the peers, the owners stored before
\* another one was refused, and those whose rollback was refused.
THEOREM FailedCallRestores == AllSpec /\ []Serial => FailedCallRestoresRules
<1>1. AllInit => SnapInv
  BY DEF AllInit, SnapInv
<1>2. Serial /\ Serial' /\ CallTypeOK /\ SnapInv /\ [AllNext]_all => SnapInv'
  BY SnapStep
<1>3. Serial /\ CallTypeOK /\ SnapInv /\ [AllNext]_all
      => [\A c \in Callers : CallFails(c) =>
            \A n \in NamesOf(Owed(c) \ {PeerOwner}) : db'[n] = before[c][n]]_all
  BY FailRestores
<1> QED
  BY <1>1, <1>2, <1>3, CallInductive, PTL DEF AllSpec, FailedCallRestoresRules

(***************************************************************************)
(* Calls that do not overlap: the kernel follows the database              *)
(***************************************************************************)

Refreshing(c) == task[c] \in {"refresh", "change", "rebuild"}
Refreshed(c)  == Refreshing(c) /\ pc[c] = "done"

\* The sets and the chain are those of the last plan installed, or will be when
\* the current call is over.  A crash ends that until a refresh succeeds.
Intact == drift # Names \/ \E c \in Callers : Refreshed(c)

SavedInv ==
    \A c \in Callers : pc[c] \in InTxn \cup {"lock", "restore"}
        => saved[c] = Defined(installed)

\* Rules of a call that are stored and not yet in the kernel.
Ahead(c, n) ==
    \/ /\ task[c] \in {"plan", "refresh", "created", "changed", "change"}
       /\ n \in NamesOf(target[c])
    \/ task[c] = "write" /\ n \in NamesOf(target[c] \ todo[c])
    \/ task[c] = "undo" /\ n \in NamesOf(todo[c])

\* Only a call that refreshes is inside the refresh, with SQLite as its plan.
PlanInv ==
    \A c \in Callers :
        /\ ~Refreshing(c) => pc[c] \in Resting
        /\ pc[c] \notin Resting => plan[c] = db
        /\ Refreshed(c) => installed = db

\* Until then every other rule is the one the last plan installed, and what a
\* failing call would write back is, too.
FollowInv ==
    (\A c \in Callers : ~Refreshed(c)) => \A n \in Names \ drift :
        /\ (\E c \in Callers : Ahead(c, n)) \/ db[n] = installed[n]
        /\ \A c \in Callers :
              task[c] \in {"write", "plan", "refresh", "undo"} /\ n \in NamesOf(target[c])
              => snap[c][n] = installed[n]

\* No two callers are inside the refresh.
Alone == \A c, d \in Callers : pc[c] \notin Resting /\ pc[d] \notin Resting => c = d

CallInv == IInv /\ CallTypeOK /\ SnapInv /\ PlanInv
CenterInv ==
    /\ Loaded
    /\ Intact => KeptInv /\ SavedInv
    /\ FollowInv

LEMMA SerialAlone == ASSUME Serial, PlanInv PROVE Alone
  BY DEF Serial, PlanInv, Alone, Refreshing

\* A step of the refresh is one of a caller inside it, and moves no other.
LEMMA RefreshOwn ==
    ASSUME IInv, NEW c \in Callers, Refresh(c)
    PROVE  /\ pc[c] \notin Resting
           /\ \A d \in Callers \ {c} : pc'[d] = pc[d] /\ plan'[d] = plan[d]
  BY DEF IInv, TypeOK, Steps, Resting, InTxn, Goto, Return, local, Refresh, SaveChain,
     SaveFails, RejectSpecs, Acquire, StageAndSwap, StageFails, ListFails, Reconciled,
     PrepareFails, Flush, Load, LoadFails, LoadTimesOut, Hooks, Commit, Rollback,
     RestoreFlush, Restored, RestoreFilter, ReAdd, ReAddFails

\* The snapshot of the chain a call alone takes is that of the last plan.
LEMMA SavedStep ==
    ASSUME Alone, IInv, KeptInv, SavedInv, [Runs]_vars
    PROVE  SavedInv'
<1> USE DEF SavedInv, KeptInv, IInv, TypeOK, Steps, Resting, InTxn, Goto, Return
<1>1. CASE UNCHANGED vars
  BY <1>1 DEF vars, Defined
<1>2. ASSUME NEW c \in Callers, NEW m \in {"refresh", "rebuild"}, NEW p \in Plans,
             Begin(c, m, p)
      PROVE  SavedInv'
  BY <1>2 DEF Begin, Defined
<1>3. ASSUME NEW c \in Callers, Refresh(c) PROVE SavedInv'
  <2> \A d \in Callers \ {c} : pc[d] \in Resting /\ pc'[d] = pc[d]
    BY <1>3, RefreshOwn DEF Alone
  <2>1. CASE SaveChain(c) \/ RejectSpecs(c)
    BY <2>1 DEF SaveChain, RejectSpecs, Defined
  <2>2. CASE Commit(c)
    BY <2>2 DEF Commit
  <2>3. CASE ~(SaveChain(c) \/ RejectSpecs(c) \/ Commit(c))
    <3>1. installed' = installed
      BY <1>3, <2>3 DEF Refresh, SaveFails, Acquire, StageAndSwap,
         StageFails, ListFails, Reconciled, PrepareFails, Flush, Load, LoadFails,
         LoadTimesOut, Hooks, Rollback, RestoreFlush, Restored,
         RestoreFilter, ReAdd, ReAddFails
    <3>2. \/ pc'[c] \in Resting \cup {"readd"}
          \/ /\ pc[c] \in InTxn \cup {"lock", "restore"}
             /\ saved' = saved
      BY <1>3, <2>3 DEF Refresh, SaveFails, Acquire, StageAndSwap,
         StageFails, ListFails, Reconciled, PrepareFails, Flush, Load, LoadFails,
         LoadTimesOut, Hooks, Rollback, RestoreFlush, Restored,
         RestoreFilter, ReAdd, ReAddFails, local
    <3> QED
      BY <3>1, <3>2 DEF Defined
  <2> QED
    BY <2>1, <2>2, <2>3
<1> QED
  BY <1>1, <1>2, <1>3 DEF Runs

LEMMA AloneOvertaken ==
    ASSUME Alone, SavedInv
    PROVE  RestoresAlone /\ NotOvertaken
  BY DEF Alone, RestoresAlone, NotOvertaken, SavedInv, InTxn, Resting

\* Names are added to drift, and only a refresh that succeeds clears it.
LEMMA DriftGrows ==
    ASSUME CallTypeOK, [AllNext]_all
    PROVE  drift \subseteq drift' \/ \E c \in Callers : Succeed(c)
<1>1. ASSUME NEW c \in Callers, Change(c) PROVE drift' = drift
  BY <1>1, ChangeCases DEF Start, ChangeMembers, CreateUser
<1>2. ASSUME NEW c \in Callers, Step(c) \/ Rebuild(c)
      PROVE  drift \subseteq drift' \/ Succeed(c)
  BY <1>2 DEF Step, Snapshot, ReadPlan, Enforce, rules, Fail, Save, SaveRefused, Rebuild,
     UserCreated, Undo, UndoRefused
<1> QED
  BY <1>1, <1>2 DEF AllNext, Die, all, rules, CallTypeOK

\* A call returns "done" by a commit only.
LEMMA OnlyCommitsDone ==
    ASSUME IInv, [Next]_vars, NEW c \in Callers, pc'[c] = "done", pc[c] # "done"
    PROVE  Commit(c)
<1> USE DEF IInv, TypeOK, Steps, Resting, InTxn, Goto, Return
<1>1. ~Crash
  BY DEF Crash
<1>2. ASSUME NEW d \in Callers, NEW m \in {"refresh", "rebuild"}, NEW p \in Plans,
             Begin(d, m, p)
      PROVE  FALSE
  BY <1>2 DEF Begin
<1>3. ASSUME NEW d \in Callers, Refresh(d) PROVE Commit(c)
  <2>1. d = c
    BY <1>3, RefreshOwn
  <2>2. ASSUME ~Commit(c) PROVE pc'[c] # "done"
    BY <1>3, <2>1, <2>2 DEF Refresh, SaveChain, SaveFails, RejectSpecs, Acquire,
       StageAndSwap, StageFails, ListFails, Reconciled, PrepareFails, Flush, Load,
       LoadFails, LoadTimesOut, Hooks, Rollback, RestoreFlush, Restored,
       RestoreFilter, ReAdd, ReAddFails
  <2> QED
    BY <2>2
<1> QED
  BY <1>1, <1>2, <1>3 DEF Next, vars

\* A step of the refresh keeps the plan until it returns, and installs it only
\* by a commit.
LEMMA RefreshMoves ==
    ASSUME IInv, NEW c \in Callers, Refresh(c)
    PROVE  /\ pc[c] \notin Resting
           /\ pc'[c] \notin Resting => plan'[c] = plan[c]
           /\ pc'[c] = "done" => installed' = plan[c]
           /\ pc'[c] # "done" => installed' = installed
<1> USE DEF IInv, TypeOK, Steps, Resting, InTxn, Goto, Return, local
<1>1. CASE Commit(c)
  BY <1>1 DEF Commit
<1>2. CASE ~Commit(c)
  BY <1>2 DEF Refresh, SaveChain, SaveFails, RejectSpecs, Acquire, StageAndSwap,
     StageFails, ListFails, Reconciled, PrepareFails, Flush, Load, LoadFails,
     LoadTimesOut, Hooks, Rollback, RestoreFlush, Restored,
     RestoreFilter, ReAdd, ReAddFails
<1> QED
  BY <1>1, <1>2

\* A refresh becomes a success by a commit only.
LEMMA OnlyCommits ==
    ASSUME IInv, CallTypeOK, [AllNext]_all, NEW c \in Callers, Refreshed(c)', ~Refreshed(c)
    PROVE  Commit(c)
<1> USE DEF Refreshed, Refreshing
<1>1. CASE pc[c] # "done"
  BY <1>1, StepRefines, OnlyCommitsDone
<1>2. CASE pc[c] = "done"
  <2>1. task[c] \notin {"refresh", "change", "rebuild"}
    BY <1>2
  <2>2. task'[c] \in {"refresh", "change", "rebuild"} /\ pc'[c] = "done"
    OBVIOUS
  <2>3. ~Die /\ ~UNCHANGED all
    BY <2>1, <2>2 DEF Die, all, rules, CallTypeOK
  <2>4. ASSUME NEW d \in Callers, Change(d) PROVE FALSE
    BY <2>1, <2>2, <2>4, ChangeCases DEF Start, ChangeMembers, CreateUser, Becomes,
       CallTypeOK
  <2>5. ASSUME NEW d \in Callers, Step(d) \/ Rebuild(d) PROVE FALSE
    <3>1. d = c
      BY <2>1, <2>2, <2>5, StepOwn
    <3>2. CASE ReadPlan(c) \/ Rebuild(c)
      BY <2>2, <3>2 DEF ReadPlan, Rebuild, Begin, Goto, IInv, TypeOK
    <3>3. CASE ~(ReadPlan(c) \/ Rebuild(c))
      BY <2>1, <2>2, <2>5, <3>1, <3>3 DEF Step, Snapshot, Enforce, rules, Succeed, Fail,
         Save, SaveRefused, UserCreated, Undo, UndoRefused, EndCall, Becomes, CallTypeOK
    <3> QED
      BY <3>2, <3>3
  <2> QED
    BY <2>3, <2>4, <2>5 DEF AllNext
<1> QED
  BY <1>1, <1>2

LEMMA KernelStep ==
    ASSUME Alone, Alone', RecoveryWorks, CallInv, CenterInv, [AllNext]_all
    PROVE  Loaded' /\ (Intact' => KeptInv' /\ SavedInv')
<1>1. /\ IInv /\ CallTypeOK /\ Loaded /\ [Next]_vars
      /\ Intact => KeptInv /\ SavedInv
  BY StepRefines DEF CallInv, CenterInv
<1>2. RestoresAlone
  BY DEF RestoresAlone, Alone, Resting
<1>3. Loaded'
  BY <1>1, <1>2, LoadedStep
<1> SUFFICES ASSUME Intact' PROVE KeptInv' /\ SavedInv'
  BY <1>3
<1>4. ASSUME NEW c \in Callers, Commit(c) PROVE KeptInv' /\ SavedInv'
  <2>1. KeptInv'
    BY <1>1, <1>2, <1>4, CommitKeeps
  <2>2. pc[c] = "commit" /\ pc' = [pc EXCEPT ![c] = "done"]
    BY <1>4 DEF Commit, Return, Goto
  <2>3. \A d \in Callers : pc'[d] \in Resting
    BY <1>1, <2>2 DEF Alone, Resting, IInv, TypeOK
  <2> QED
    BY <2>1, <2>3 DEF SavedInv, InTxn, Resting
<1>5. ASSUME Intact, [Runs]_vars PROVE KeptInv' /\ SavedInv'
  <2>1. SavedInv'
    BY <1>1, <1>5, SavedStep
  <2>2. NotOvertaken
    BY <1>1, <1>5, AloneOvertaken
  <2>3. NotOvertaken'
    BY <2>1 DEF Alone, NotOvertaken, SavedInv, InTxn, Resting
  <2> QED
    BY <1>1, <1>2, <1>5, <2>1, <2>2, <2>3, KeptStep
<1>6. CASE ~Intact
  <2>1. ~\E c \in Callers : Succeed(c)
    BY <1>6 DEF Intact, Succeed, Refreshed, Refreshing
  <2>2. drift' = Names
    BY <1>1, <1>6, <2>1, DriftGrows, StepRefines DEF Intact, CallTypeOK
  <2>3. PICK c \in Callers : Refreshed(c)' /\ ~Refreshed(c)
    BY <1>6, <2>2 DEF Intact
  <2> QED
    BY <1>1, <1>4, <2>3, OnlyCommits
<1>7. CASE Intact /\ Die
  <2>1. drift' = Names /\ \A c \in Callers : task'[c] \in {"none", "crashed"}
    BY <1>7 DEF Die
  <2> QED
    BY <2>1 DEF Intact, Refreshed, Refreshing
<1>8. CASE Intact /\ ~Die
  <2>1. [Runs]_vars
    <3>1. ASSUME NEW c \in Callers, Change(c) PROVE UNCHANGED vars
      BY <1>1, <3>1, ChangeTypes
    <3>2. ASSUME NEW c \in Callers, Step(c) \/ Rebuild(c) PROVE [Runs]_vars
      BY <1>1, <3>2 DEF Step, Snapshot, ReadPlan, Enforce, Succeed, Fail, Save, SaveRefused,
         UserCreated, Undo, UndoRefused, Rebuild, Runs, CallTypeOK
    <3> QED
      BY <1>8, <3>1, <3>2 DEF AllNext, all
  <2> QED
    BY <1>5, <1>8, <2>1
<1> QED
  BY <1>6, <1>7, <1>8

\* The steps of a call that neither read the plan nor refresh.
LEMMA PlanStep ==
    ASSUME Serial, Serial', CallInv, [AllNext]_all
    PROVE  PlanInv'
<1> CallTypeOK /\ IInv /\ PlanInv
  BY DEF CallInv
<1> USE DEF PlanInv, Refreshing, Refreshed
<1>1. CASE UNCHANGED all
  BY <1>1 DEF all, rules, call, vars
<1>2. CASE Die
  BY <1>2 DEF Die, Crash, AtRest, vars, Resting, IInv, TypeOK
<1>3. ASSUME NEW c \in Callers, Change(c) PROVE PlanInv'
  <2>1. ASSUME NEW T \in SUBSET Owners, NEW p \in Plans, Start(c, T, p) PROVE PlanInv'
    BY <2>1 DEF Start, Becomes, vars, CallTypeOK
  <2>2. ASSUME NEW n \in Names, NEW v \in Contents \cup {NoSet},
               ChangeMembers(c, n, v) \/ CreateUser(c, n, v)
        PROVE  PlanInv'
    <3>1. PICK t \in {"changed", "created"} :
             task[c] = "none" /\ task' = [task EXCEPT ![c] = t] /\ UNCHANGED vars
      BY <2>2 DEF ChangeMembers, CreateUser, Becomes
    <3>2. \A d \in Callers \ {c} : task[d] = "none" /\ task'[d] = "none"
      BY <3>1, OthersIdle DEF CallTypeOK
    <3> QED
      BY <3>1, <3>2 DEF vars, CallTypeOK
  <2> HIDE DEF PlanInv
  <2> QED
    BY <1>3, <2>1, <2>2, ChangeCases
<1>4. ASSUME NEW c \in Callers, Step(c) \/ Rebuild(c) PROVE PlanInv'
  <2>0. \A d \in Callers \ {c} : task[d] = "none" /\ task'[d] = "none" /\ pc[d] \in Resting
    BY <1>4, StepOwn, OthersIdle
  <2>1. CASE ReadPlan(c) \/ Rebuild(c)
    BY <2>0, <2>1 DEF ReadPlan, Rebuild, Begin, Goto, Becomes, CallTypeOK, IInv, TypeOK, Resting
  <2>2. CASE Enforce(c)
    <3>1. UNCHANGED <<db, task>> /\ Refreshing(c) /\ plan[c] = db
      BY <2>2, RefreshOwn DEF Enforce, rules
    <3> QED
      BY <2>0, <2>2, <3>1, RefreshMoves, RefreshOwn DEF Enforce
  <2>3. CASE ~(ReadPlan(c) \/ Rebuild(c) \/ Enforce(c))
    <3>1. UNCHANGED vars /\ ~Refreshing(c)'
      BY <1>4, <2>3 DEF Step, Snapshot, Succeed, Fail, Save, SaveRefused, UserCreated,
         Undo, UndoRefused, EndCall, Becomes, CallTypeOK
    <3>2. pc[c] \in Resting
      BY <1>4, <2>3 DEF Step, Snapshot, Succeed, Fail, Save, SaveRefused, UserCreated,
         Undo, UndoRefused, Resting
    <3> QED
      BY <2>0, <3>1, <3>2 DEF vars
  <2> HIDE DEF PlanInv
  <2> QED
    BY <2>1, <2>2, <2>3
<1> HIDE DEF PlanInv
<1> QED
  BY <1>1, <1>2, <1>3, <1>4 DEF AllNext

\* Only the call that is running has rules ahead of the kernel.
LEMMA FollowStep ==
    ASSUME Serial, Serial', CallInv, FollowInv, [AllNext]_all
    PROVE  FollowInv'
<1> CallTypeOK /\ IInv /\ PlanInv
  BY DEF CallInv
<1> USE DEF FollowInv, Ahead, Refreshing, Refreshed
<1>1. CASE UNCHANGED all
  BY <1>1 DEF all, rules, call, vars, Defined, NamesOf
<1>2. CASE Die
  BY <1>2 DEF Die
<1>3. ASSUME NEW c \in Callers, Change(c) PROVE FollowInv'
  <2>1. ASSUME NEW T \in SUBSET Owners, NEW p \in Plans, Start(c, T, p) PROVE FollowInv'
    <3>1. /\ \A d \in Callers \ {c} : task[d] = "none" /\ task'[d] = "none"
          /\ task[c] = "none" /\ task'[c] = "read" /\ UNCHANGED <<db, drift, installed>>
      BY <2>1, OthersIdle DEF Start, Becomes, vars, CallTypeOK
    <3> QED
      BY <3>1
  <2>2. ASSUME NEW n \in Names, NEW v \in Contents \cup {NoSet},
               ChangeMembers(c, n, v) \/ CreateUser(c, n, v)
        PROVE  FollowInv'
    <3>0. /\ task[c] = "none" /\ task'[c] \in {"changed", "created"}
          /\ \A d \in Callers \ {c} : task'[d] = task[d]
          /\ UNCHANGED <<drift, installed>>
          /\ db' = [db EXCEPT ![n] = v] /\ target'[c] = {OwnerOf[n]}
      BY <2>2 DEF ChangeMembers, CreateUser, Becomes, vars, CallTypeOK
    <3>1. /\ \A d \in Callers \ {c} : task[d] = "none" /\ task'[d] = "none"
          /\ task[c] = "none" /\ task'[c] \in {"changed", "created"}
          /\ UNCHANGED <<drift, installed>>
          /\ db' = [db EXCEPT ![n] = v] /\ target'[c] = {OwnerOf[n]}
      BY <3>0, OthersIdle
    <3>2. Ahead(c, n)'
      BY <3>1 DEF NamesOf
    <3>3. \A m \in Names \ {n} : db'[m] = db[m]
      BY <3>1 DEF CallTypeOK, Plans
    <3> QED
      BY <3>1, <3>2, <3>3
  <2> HIDE DEF FollowInv
  <2> QED
    BY <1>3, <2>1, <2>2, ChangeCases
<1>4. ASSUME NEW c \in Callers, Step(c) \/ Rebuild(c) PROVE FollowInv'
  <2>0. \A d \in Callers \ {c} : task[d] = "none" /\ task'[d] = "none"
    BY <1>4, StepOwn, OthersIdle
  <2>1. CASE Snapshot(c)
    BY <2>0, <2>1 DEF Snapshot, Becomes, vars, Override, NamesOf, CallTypeOK
  <2>2. CASE ReadPlan(c)
    BY <2>0, <2>2 DEF ReadPlan, Begin, Goto, Becomes, call, CallTypeOK, IInv, TypeOK, NamesOf
  <2>3. CASE Enforce(c)
    <3>1. UNCHANGED <<db, task, target, todo, draft, snap, before, drift>>
      BY <2>3 DEF Enforce, rules, call
    <3>2. Refreshing(c) /\ ~Refreshed(c)
      BY <2>3, RefreshMoves DEF Enforce, Resting
    <3> QED
      BY <2>0, <2>3, <3>1, <3>2, RefreshMoves DEF Enforce, NamesOf
  <2>4. CASE Succeed(c)
    <3>1. task'[c] = "none" /\ UNCHANGED <<db, installed>> /\ installed = db
      BY <2>4 DEF Succeed, EndCall, Becomes, vars, CallTypeOK, PlanInv
    <3> QED
      BY <2>0, <3>1
  <2>5. CASE Fail(c)
    <3>1. UNCHANGED <<vars, db>> /\ ~Refreshed(c) /\ drift \subseteq drift'
      BY <2>5 DEF Fail
    <3>2. CASE EndCall(c, "none")
      <4>1. task'[c] = "none"
        BY <3>2 DEF EndCall, Becomes, CallTypeOK
      <4>2. ASSUME NEW n \in Names \ drift' PROVE db[n] = installed[n]
        <5>1. n \in Names \ drift /\ (Ahead(c, n) \/ db[n] = installed[n])
          BY <2>0, <3>1
        <5>2. ~Ahead(c, n)
          BY <2>5, <4>2, <3>2, <4>1 DEF Fail, Becomes, Undone, NamesOf, CallTypeOK
        <5> QED
          BY <5>1, <5>2
      <4> QED
        BY <2>0, <3>1, <4>1, <4>2 DEF vars
    <3>3. CASE ~EndCall(c, "none")
      <4>1. /\ task[c] \in {"plan", "refresh"} /\ task'[c] = "undo"
            /\ todo'[c] = Undone(target[c]) /\ UNCHANGED <<target, snap>>
            /\ drift' = drift \cup NamesOf(target[c] \cap {PeerOwner})
        BY <2>5, <3>3 DEF Fail, Becomes, CallTypeOK
      <4>2. ASSUME NEW n \in Names \ drift'
            PROVE  /\ n \in NamesOf(todo'[c]) \/ db'[n] = installed'[n]
                   /\ n \in NamesOf(target'[c]) => snap'[c][n] = installed'[n]
        <5>1. n \in Names \ drift
          BY <3>1
        <5>2. CASE n \in NamesOf(target[c])
          <6>1. n \in NamesOf(todo'[c])
            BY <4>1, <4>2, <5>2 DEF NamesOf, Undone
          <6> QED
            BY <2>0, <3>1, <4>1, <5>1, <5>2, <6>1 DEF vars
        <5>3. CASE n \notin NamesOf(target[c])
          BY <2>0, <3>1, <4>1, <5>1, <5>3 DEF vars
        <5> QED
          BY <5>2, <5>3
      <4>3. \A d \in Callers \ {c} : task'[d] = "none"
        BY <2>0
      <4> QED
        BY <4>1, <4>2, <4>3
    <3> QED
      BY <3>2, <3>3
  <2>6. ASSUME NEW o \in Owners, Save(c, o) PROVE FollowInv'
    BY <2>0, <2>6 DEF Save, Becomes, Override, NamesOf, vars, CallTypeOK
  <2>7. ASSUME NEW o \in Owners, SaveRefused(c, o) PROVE FollowInv'
    <3>1. /\ task[c] = "write" /\ task'[c] = "none" /\ UNCHANGED vars
          /\ drift \subseteq drift' /\ NamesOf(target[c] \ todo[c]) \subseteq drift'
      BY <2>7 DEF SaveRefused, EndCall, Becomes, CallTypeOK
    <3>2. ASSUME NEW n \in Names \ drift' PROVE db'[n] = db[n]
      BY <2>7, <3>2 DEF SaveRefused, Override
    <3> QED
      BY <2>0, <3>1, <3>2 DEF vars
  <2>9. CASE UserCreated(c)
    <3>1. /\ task[c] = "created" /\ task'[c] = "none" /\ UNCHANGED <<vars, db>>
          /\ drift' = drift \cup NamesOf(target[c])
      BY <2>9 DEF UserCreated, EndCall, Becomes, CallTypeOK
    <3> QED
      BY <2>0, <3>1 DEF vars
  <2>10. ASSUME NEW o \in Owners, Undo(c, o) PROVE FollowInv'
    <3>1. /\ task[c] = "undo" /\ o \in todo[c] /\ UNCHANGED <<vars, drift>>
          /\ db' = Override(db, snap[c], NamesOf({o})) /\ todo[c] \subseteq target[c]
          /\ todo[c] \in SUBSET Owners
      BY <2>10 DEF Undo, CallTypeOK
    <3>2. ASSUME NEW n \in Names \ drift
          PROVE  db'[n] = installed[n] \/ (n \in NamesOf(todo[c]) /\ OwnerOf[n] # o)
      <4>1. Ahead(c, n) \/ db[n] = installed[n]
        BY <2>0, <3>1, <3>2
      <4>2. n \in NamesOf(target[c]) => snap[c][n] = installed[n]
        BY <2>0, <3>1, <3>2
      <4>3. CASE OwnerOf[n] = o
        BY <3>1, <4>2, <4>3 DEF Override, NamesOf
      <4>4. CASE OwnerOf[n] # o
        BY <3>1, <4>1, <4>4 DEF Override, NamesOf
      <4> QED
        BY <4>3, <4>4
    <3>3. CASE EndCall(c, "none")
      <4>1. task'[c] = "none" /\ todo[c] = {o}
        BY <2>10, <3>3 DEF Undo, EndCall, Becomes, CallTypeOK
      <4>2. \A n \in Names \ drift : db'[n] = installed[n]
        BY <3>2, <4>1 DEF NamesOf
      <4> QED
        BY <2>0, <3>1, <4>1, <4>2 DEF vars
    <3>4. CASE ~EndCall(c, "none")
      <4>1. todo'[c] = todo[c] \ {o} /\ UNCHANGED <<task, target, snap>>
        BY <2>10, <3>4 DEF Undo, CallTypeOK
      <4>2. ASSUME NEW n \in Names \ drift PROVE Ahead(c, n)' \/ db'[n] = installed[n]
        BY <3>1, <3>2, <4>1 DEF NamesOf
      <4> QED
        BY <2>0, <3>1, <4>1, <4>2 DEF vars
    <3> QED
      BY <3>3, <3>4
  <2>11. ASSUME NEW o \in Owners, UndoRefused(c, o) PROVE FollowInv'
    <3>1. /\ task[c] = "undo" /\ task'[c] = "none" /\ UNCHANGED <<vars, db>>
          /\ drift' = drift \cup NamesOf(todo[c])
      BY <2>11 DEF UndoRefused, EndCall, Becomes, CallTypeOK
    <3> QED
      BY <2>0, <3>1 DEF vars
  <2>8. CASE Rebuild(c)
    BY <2>0, <2>8 DEF Rebuild, Begin, Goto, Becomes, call, CallTypeOK, IInv, TypeOK, NamesOf
  <2> HIDE DEF FollowInv
  <2> QED
    BY <1>4, <2>1, <2>2, <2>3, <2>4, <2>5, <2>6, <2>7, <2>8, <2>9, <2>10, <2>11 DEF Step
<1> HIDE DEF FollowInv
<1> QED
  BY <1>1, <1>2, <1>3, <1>4 DEF AllNext

LEMMA CenterInitially == AllInit => SnapInv /\ PlanInv /\ CenterInv
<1> SUFFICES ASSUME AllInit PROVE SnapInv /\ PlanInv /\ CenterInv
  OBVIOUS
<1>1. SnapInv /\ PlanInv
  BY DEF AllInit, Init, SnapInv, PlanInv, Refreshed, Refreshing, Resting
<1>2. Loaded /\ KeptInv /\ SavedInv
  BY DEF AllInit, Init, Loaded, KeptInv, KernelIs, SavedInv, NoStage, Defined, InTxn, Resting
<1>3. FollowInv
  BY DEF AllInit, Init, FollowInv, Ahead, Refreshing, Refreshed, Resting
<1> QED
  BY <1>1, <1>2, <1>3 DEF CenterInv

LEMMA CenterInductive ==
    ASSUME Faults \subseteq CallFaults
    PROVE  AllSpec /\ []Serial => [](CallInv /\ CenterInv)
<1>1. RecoveryWorks
  BY DEF RecoveryWorks, CallFaults
<1>2. AllInit => CallInv /\ CenterInv
  BY CenterInitially, AllInitTypes, InitIInv DEF CallInv
<1>3. Serial /\ Serial' /\ CallInv /\ CenterInv /\ [AllNext]_all => CallInv' /\ CenterInv'
  <2> SUFFICES ASSUME Serial, Serial', CallInv, CenterInv, [AllNext]_all
               PROVE  CallInv' /\ CenterInv'
    OBVIOUS
  <2>1. CallInv'
    BY StepRefines, NextIInv, SnapStep, PlanStep DEF CallInv
  <2>2. Alone /\ Alone'
    BY <2>1 DEF CallInv, Serial, PlanInv, Alone, Refreshing
  <2>3. FollowInv'
    BY FollowStep DEF CenterInv
  <2> QED
    BY <1>1, <2>1, <2>2, <2>3, KernelStep DEF CenterInv
<1> QED
  BY <1>2, <1>3, PTL DEF AllSpec

\* When no call is running the kernel enforces what SQLite says of every name,
\* up to the names a failed call left stored but not enforced, for any number
\* of callers, names, owners and rules: as long as calls do not overlap and
\* what fails is not the recovery itself; crashes included.
THEOREM KernelFollows ==
    ASSUME Faults \subseteq CallFaults
    PROVE  AllSpec /\ []Serial => []KernelFollowsDb
<1>1. CallInv /\ CenterInv => KernelFollowsDb
  <2> SUFFICES ASSUME CallInv, CenterInv, NoCall, NEW n \in Names \ drift PROVE Follows(n)
    BY DEF KernelFollowsDb
  <2>1. KeptInv
    <3>1. drift # Names
      OBVIOUS
    <3> QED
      BY <3>1 DEF CenterInv, Intact
  <2>2. AtRest /\ db[n] = installed[n]
    BY DEF CallInv, PlanInv, CenterInv, FollowInv, NoCall, Refreshing, Refreshed, Ahead, AtRest
  <2>3. lock = NoCaller
    BY <2>2 DEF CallInv, IInv, TypeOK, TxnExclusive, AtRest, Resting, InTxn
  <2>4. chain = Defined(installed) /\ KernelIs(sets)
    BY <2>1, <2>2, <2>3 DEF KeptInv, AtRest
  <2> QED
    BY <2>2, <2>4 DEF Follows, Defined, KernelIs
<1> QED
  BY <1>1, CenterInductive, PTL
=============================================================================
