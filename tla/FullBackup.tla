------------------------------- MODULE FullBackup -------------------------------
(***************************************************************************)
(* Full backup and restore (app/services/backup/full_backup.py) with the   *)
(* panel of the settings page that runs them.  The machine is the list of  *)
(* its parts: the database, files and directories, copied and replaced one *)
(* after the other in one order.  A restore first makes a backup of the    *)
(* machine as it is.  Other operations may change a part at any moment, a  *)
(* step may fail, and the program may die.  The archive is taken to name   *)
(* the same OpenVPN and PKI directories as the configuration that is in    *)
(* force: a restore replaces those the archive's own configuration names.  *)
(***************************************************************************)
EXTENDS Integers, Sequences, FiniteSets, SequencesExt

CONSTANTS Order,       \* the parts in the order they are copied and replaced
          Folders,     \* those that are directories
          Needed,      \* those a backup is refused without
          Optional,    \* files that may be missing
          Panels,      \* open settings pages
          Gone, Empty, \* no such part; an empty directory
          NoArchive,
          MaxChanges, MaxErrors, MaxOutages, MaxRounds

Parts == Range(Order)

ASSUME BackAssumption ==
  /\ Order \in Seq(Parts)
  /\ Folders \subseteq Parts /\ Needed \subseteq Parts /\ Optional \subseteq Parts
  /\ MaxChanges \in Nat /\ MaxErrors \in Nat /\ MaxOutages \in Nat /\ MaxRounds \in Nat

VARIABLES machine,   \* what each part holds
          kept,      \* finished archives
          phase,     \* per panel: what its thread is at
          goal,      \* "backup" or "restore"
          next,      \* index of the part to copy or replace
          copy,      \* the payload being gathered
          chosen,    \* _restore_candidate_path: the checked upload
          arriving,  \* an upload being read and checked
          source,    \* the archive the running restore has extracted
          heldOld,    \* the old directory moved aside by a replacement
          result,    \* of the panel's last operation
          before,    \* history: the machine when the restore began
          disturbed, \* history: panels during whose work a part changed
          erased,    \* history: directories whose old copy a failed move deleted
          changes, errors, outages, rounds

backVars == <<machine, kept, phase, goal, next, copy, chosen, arriving, source, heldOld,
              result, before, disturbed, erased, changes, errors, outages, rounds>>

Contents == (0..MaxChanges) \cup {Gone, Empty}

Snapshots == [Parts -> Contents]

Phases == {"rest", "starting", "opening", "copying", "sealing", "replacing", "swapping",
           "finishing"}

BackTypeOK ==
  /\ machine \in Snapshots /\ kept \subseteq Snapshots
  /\ phase \in [Panels -> Phases]
  /\ goal \in [Panels -> {"backup", "restore"}]
  /\ next \in [Panels -> 1..(Len(Order) + 1)]
  /\ copy \in [Panels -> Snapshots]
  /\ \A own \in {chosen, arriving, source} : own \in [Panels -> Snapshots \cup {NoArchive}]
  /\ heldOld \in [Panels -> Contents]
  /\ result \in [Panels -> {"none", "done", "failed"}]
  /\ before \in [Panels -> Snapshots]
  /\ disturbed \subseteq Panels /\ erased \subseteq Parts
  /\ changes \in 0..MaxChanges /\ errors \in 0..MaxErrors
  /\ outages \in 0..MaxOutages /\ rounds \in 0..MaxRounds

Absent == [p \in Parts |-> Gone]

BackInit ==
  /\ machine \in [Parts -> {0, Gone}]
  /\ \A p \in Parts \ Optional : machine[p] = 0
  /\ kept = {}
  /\ phase = [t \in Panels |-> "rest"] /\ goal = [t \in Panels |-> "backup"]
  /\ next = [t \in Panels |-> 1] /\ copy = [t \in Panels |-> Absent]
  /\ chosen = [t \in Panels |-> NoArchive] /\ arriving = chosen /\ source = chosen
  /\ heldOld = [t \in Panels |-> Gone] /\ result = [t \in Panels |-> "none"]
  /\ before = [t \in Panels |-> Absent]
  /\ disturbed = {} /\ erased = {}
  /\ changes = 0 /\ errors = 0 /\ outages = 0 /\ rounds = 0

Error == errors < MaxErrors /\ errors' = errors + 1

Goto(t, where) == phase' = [phase EXCEPT ![t] = where]

Rewind(t) == next' = [next EXCEPT ![t] = 1]

Advance(t) == next' = [next EXCEPT ![t] = @ + 1]

End(t, how) ==
  Goto(t, "rest") /\ result' = [result EXCEPT ![t] = how]

limits == <<changes, outages, rounds>>

(***************************************************************************)
(* The panel: _backup_running holds from the click to the end of the       *)
(* thread.  An upload is refused while it holds, but one accepted earlier  *)
(* may arrive while it holds.  The restore reads the chosen file only when *)
(* its timer fires.                                                        *)
(***************************************************************************)
Running(t) == phase[t] # "rest"

Click(t, what) ==
  /\ ~Running(t) /\ rounds < MaxRounds /\ rounds' = rounds + 1
  /\ what = "restore" => chosen[t] # NoArchive
  /\ Goto(t, "starting") /\ goal' = [goal EXCEPT ![t] = what]
  /\ result' = [result EXCEPT ![t] = "none"]
  /\ disturbed' = IF \E u \in Panels : Running(u) THEN Panels ELSE Panels \ {t}
  /\ UNCHANGED <<machine, kept, next, copy, chosen, arriving, source, heldOld, before,
                 erased, changes, outages, errors>>

Upload(t) ==
  /\ ~Running(t) /\ arriving[t] = NoArchive
  /\ \E a \in kept \cup {Absent} : arriving' = [arriving EXCEPT ![t] = a]
  /\ UNCHANGED <<machine, kept, phase, goal, next, copy, chosen, source, heldOld, result,
                 before, disturbed, erased, errors, limits>>

\* _validate_restore_payload: manifest, required files, a complete PKI.
Complete(a) == \A p \in Needed : a[p] \notin {Gone, Empty}

Arrive(t) ==
  /\ arriving[t] # NoArchive
  /\ arriving' = [arriving EXCEPT ![t] = NoArchive]
  /\ chosen' = [chosen EXCEPT ![t] = IF Complete(arriving[t]) THEN arriving[t]
                                     ELSE NoArchive]
  /\ UNCHANGED <<machine, kept, phase, goal, next, copy, source, heldOld, result, before,
                 disturbed, erased, errors, limits>>

(***************************************************************************)
(* restore_full_backup: extract and check again, then create_full_backup   *)
(* of the machine as it is.  A file chosen meanwhile is the one restored;  *)
(* one whose check failed meanwhile leaves nothing to restore.             *)
(***************************************************************************)
Open(t) ==
  /\ phase[t] = "starting"
  /\ \/ /\ goal[t] = "backup" \/ chosen[t] # NoArchive
        /\ Goto(t, "copying") /\ Rewind(t) /\ UNCHANGED <<result, errors>>
        /\ source' = [source EXCEPT ![t] = IF goal[t] = "backup" THEN NoArchive
                                           ELSE chosen[t]]
        /\ before' = [before EXCEPT ![t] = machine]
        /\ copy' = [copy EXCEPT ![t] = Absent]
     \/ /\ goal[t] = "restore" /\ chosen[t] = NoArchive
        /\ End(t, "none") /\ UNCHANGED <<next, source, before, copy, errors>>
     \/ /\ goal[t] = "restore" /\ chosen[t] # NoArchive
        /\ Error /\ End(t, "failed")
        /\ source' = [source EXCEPT ![t] = chosen[t]]
        /\ before' = [before EXCEPT ![t] = machine]
        /\ UNCHANGED <<next, copy>>
  /\ UNCHANGED <<machine, kept, goal, chosen, arriving, heldOld, disturbed, erased, limits>>

(***************************************************************************)
(* _copy_backup_payload: one part after the other, each as it is then.  A  *)
(* missing directory is stored as an empty one.                            *)
(***************************************************************************)
Stored(p) == IF p \in Folders /\ machine[p] = Gone THEN Empty ELSE machine[p]

CopyPart(t) ==
  /\ phase[t] = "copying"
  /\ \/ /\ next[t] > Len(Order)
        /\ Goto(t, "sealing") /\ UNCHANGED <<next, copy, result, errors>>
     \/ /\ next[t] <= Len(Order)
        /\ copy' = [copy EXCEPT ![t][Order[next[t]]] = Stored(Order[next[t]])]
        /\ Advance(t) /\ UNCHANGED <<phase, result, errors>>
     \/ /\ next[t] <= Len(Order) /\ Error
        /\ End(t, "failed") /\ UNCHANGED <<next, copy>>
  /\ UNCHANGED <<machine, kept, goal, chosen, arriving, source, heldOld, before, disturbed, erased,
                 limits>>

\* The payload must pass the restore's own checks before it is packed.
Seal(t) ==
  /\ phase[t] = "sealing"
  /\ \/ /\ Complete(copy[t])
        /\ kept' = kept \cup {copy[t]}
        /\ IF goal[t] = "backup"
             THEN End(t, "done") /\ UNCHANGED next
             ELSE Goto(t, "replacing") /\ Rewind(t) /\ UNCHANGED result
        /\ UNCHANGED errors
     \/ /\ IF Complete(copy[t]) THEN Error ELSE UNCHANGED errors
        /\ End(t, "failed") /\ UNCHANGED <<kept, next>>
  /\ UNCHANGED <<machine, goal, copy, chosen, arriving, source, heldOld, before, disturbed,
                 erased, limits>>

(***************************************************************************)
(* The replacement.  The database is overwritten in one transaction, a     *)
(* file by a rename; an optional file the archive lacks is deleted.        *)
(***************************************************************************)
Current(t) == Order[next[t]]

\* Mutant: a file the archive lacks is passed over and stays.
ReplaceFileKeeps(t) ==
  /\ phase[t] = "replacing" /\ next[t] <= Len(Order) /\ Current(t) \notin Folders
  /\ machine' = [machine EXCEPT ![Current(t)] = IF source[t][Current(t)] = Gone THEN @
                                                ELSE source[t][Current(t)]]
  /\ Advance(t)
  /\ UNCHANGED <<kept, phase, goal, copy, chosen, arriving, source, heldOld, result,
                 before, disturbed, erased, errors, limits>>

ReplaceFile(t) ==
  /\ phase[t] = "replacing" /\ next[t] <= Len(Order) /\ Current(t) \notin Folders
  /\ \/ /\ machine' = [machine EXCEPT ![Current(t)] = source[t][Current(t)]]
        /\ Advance(t) /\ UNCHANGED <<phase, result, errors>>
     \/ Error /\ End(t, "failed") /\ UNCHANGED <<machine, next>>
  /\ UNCHANGED <<kept, goal, copy, chosen, arriving, source, heldOld, before, disturbed,
                 erased, limits>>

\* _replace_tree: the new tree is staged, the old one moved aside ...
MoveAside(t) ==
  /\ phase[t] = "replacing" /\ next[t] <= Len(Order) /\ Current(t) \in Folders
  /\ \/ /\ heldOld' = [heldOld EXCEPT ![t] = machine[Current(t)]]
        /\ machine' = [machine EXCEPT ![Current(t)] = Gone]
        /\ Goto(t, "swapping") /\ UNCHANGED <<result, errors>>
     \/ Error /\ End(t, "failed") /\ UNCHANGED <<machine, heldOld>>
  /\ UNCHANGED <<kept, goal, next, copy, chosen, arriving, source, before, disturbed,
                 erased, limits>>

\* ... and the new one moved in, where nothing was put meanwhile, or the old one back.
\* The finally clause deletes what is aside even when it could not be moved back.
MoveIn(t) ==
  /\ phase[t] = "swapping"
  /\ heldOld' = [heldOld EXCEPT ![t] = Gone]
  /\ \/ /\ machine[Current(t)] \in {Gone, Empty}
        /\ machine' = [machine EXCEPT ![Current(t)] = source[t][Current(t)]]
        /\ Goto(t, "replacing") /\ Advance(t)
        /\ erased' = erased \ {Current(t)} /\ UNCHANGED <<result, errors>>
     \/ /\ machine[Current(t)] = Gone
        /\ machine' = [machine EXCEPT ![Current(t)] = heldOld[t]]
        /\ Error /\ End(t, "failed") /\ UNCHANGED <<next, erased>>
     \/ /\ \/ /\ machine[Current(t)] = Gone /\ heldOld[t] # Gone
              /\ errors + 2 <= MaxErrors /\ errors' = errors + 2
           \/ machine[Current(t)] = Empty /\ Error
           \/ machine[Current(t)] \notin {Gone, Empty} /\ UNCHANGED errors
        /\ erased' = erased \cup {Current(t)}
        /\ End(t, "failed") /\ UNCHANGED <<machine, next>>
  /\ UNCHANGED <<kept, goal, copy, chosen, arriving, source, before, disturbed, limits>>

\* Scripts and permissions; then the page forgets the upload.
FinishRestore(t) ==
  /\ phase[t] = "replacing" /\ next[t] > Len(Order)
  /\ \/ End(t, "done") /\ chosen' = [chosen EXCEPT ![t] = NoArchive] /\ UNCHANGED errors
     \/ Error /\ End(t, "failed") /\ UNCHANGED chosen
  /\ UNCHANGED <<machine, kept, goal, next, copy, arriving, source, heldOld, before,
                 disturbed, erased, limits>>

(***************************************************************************)
(* Any other operation of the program writes a part.                       *)
(***************************************************************************)
Change(p) ==
  /\ changes < MaxChanges /\ changes' = changes + 1
  /\ machine[p] # Gone \/ p \in Optional \cup Folders
  /\ machine' = [machine EXCEPT ![p] = changes + 1]
  /\ disturbed' = Panels
  /\ UNCHANGED <<kept, phase, goal, next, copy, chosen, arriving, source, heldOld, result,
                 before, erased, errors, outages, rounds>>

\* The pages are gone with the process; the archives stay.
Perish ==
  /\ outages < MaxOutages /\ outages' = outages + 1
  /\ phase' = [t \in Panels |-> "rest"]
  /\ result' = [t \in Panels |-> IF phase[t] \notin {"rest", "starting"} THEN "failed"
                                 ELSE "none"]
  /\ chosen' = [t \in Panels |-> NoArchive]
  /\ arriving' = chosen'
  /\ heldOld' = [t \in Panels |-> Gone]
  /\ erased' = erased \cup {Current(t) : t \in {u \in Panels : phase[u] = "swapping"}}
  /\ UNCHANGED <<machine, kept, goal, next, copy, source, before, disturbed, errors,
                 changes, rounds>>

BackNext ==
  \/ \E t \in Panels :
        \/ Click(t, "backup") \/ Click(t, "restore") \/ Upload(t) \/ Arrive(t)
        \/ Open(t) \/ CopyPart(t) \/ Seal(t)
        \/ ReplaceFile(t) \/ MoveAside(t) \/ MoveIn(t) \/ FinishRestore(t)
  \/ \E p \in Parts : Change(p)
  \/ Perish

(***************************************************************************)
(* A backup or a restore during which nothing else wrote: what it made is  *)
(* the machine of that moment, a restore that reports success leaves       *)
(* exactly the archive, with no part left over from before, and one that   *)
(* failed or died leaves each part as it was or as in the archive, but for *)
(* a directory caught between the two renames.  From the first replacement *)
(* on, the machine as it was is in a finished archive.                     *)
(***************************************************************************)
AsStored(m) == [p \in Parts |-> IF p \in Folders /\ m[p] = Gone THEN Empty ELSE m[p]]

RestoreWhole ==
  \A t \in Panels \ disturbed :
    /\ goal[t] = "backup" /\ result[t] = "done" => AsStored(machine) \in kept
    /\ goal[t] = "restore" /\ result[t] = "done" => machine = source[t]
    /\ goal[t] = "restore" /\ result[t] = "failed" =>
         \A p \in Parts \ erased : machine[p] \in {before[t][p], source[t][p]}
    /\ goal[t] = "restore" /\ machine # before[t] /\ (Running(t) \/ result[t] = "failed")
         => phase[t] = "starting" \/ AsStored(before[t]) \in kept

BackSpec == BackInit /\ [][BackNext]_backVars
=============================================================================
