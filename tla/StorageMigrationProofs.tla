------------------------ MODULE StorageMigrationProofs ------------------------
(***************************************************************************)
(* Proofs about StorageMigration, for one process, any records and any     *)
(* number of crashes and errors: what is served, that nothing is lost, and *)
(* that the migration implements the switch of ManagedData.                *)
(***************************************************************************)
EXTENDS StorageMigration, TLAPS

\* The web process and the CLI do not migrate at the same time: nothing in the code
\* keeps them from it.
OneProcess == \A p, q \in Procs : p = q

OfKinds(k) == {r \in legacy : KindOf[r] < k}

Migrating == {"unlink", "init", "list", "import", "verify", "mark", "checkpoint",
              "replace"}

\* What the temporary database holds at each step.
TempKnown(p) ==
    /\ pc[p] = "init" => temp = Absent
    /\ pc[p] \in Migrating \ {"unlink", "init"} => temp.exists /\ temp.schema
    /\ pc[p] = "list" => temp.rows = OfKinds(kind[p])
    /\ pc[p] = "import" =>
          /\ todo[p] \subseteq {r \in legacy : KindOf[r] = kind[p]}
          /\ temp.rows = OfKinds(kind[p] + 1) \ todo[p]
    /\ pc[p] \in {"verify", "mark", "checkpoint", "replace"} => temp.rows = legacy
    /\ pc[p] \in {"checkpoint", "replace"} => temp.marker

DbKnown(p) ==
    /\ pc[p] \in Migrating => ~db.exists
    /\ pc[p] \in {"off", "open", "unlink", "init"} => kind[p] = 1
    /\ pc[p] = "open" => db.exists
    /\ pc[p] \in {"archive", "move", "ready"} => db.exists /\ (db.marker \/ legacy = {})

MigInv ==
    /\ TypeOK /\ LegacyKept
    /\ \A p \in Procs : TempKnown(p) /\ DbKnown(p)

(***************************************************************************)
(* Types, step by step.                                                    *)
(***************************************************************************)
LEMMA Emptied ==
    /\ Absent \in Databases /\ Blank \in Databases /\ NewStore \in Databases
    /\ NoCount \in [1 .. Kinds -> Nat] /\ 1 \in 1 .. Kinds
  BY MigrationAssumption DEF Absent, Blank, NewStore, Databases, NoCount

LEMMA ForgetType ==
  ASSUME TypeOK, NEW p \in Procs, Forget(p)
  PROVE  /\ kind' \in [Procs -> 1 .. Kinds]
         /\ todo' \in [Procs -> SUBSET Rows]
         /\ count' \in [Procs -> [1 .. Kinds -> Nat]]
  BY Emptied DEF TypeOK, Forget

LEMMA AbortType ==
  ASSUME TypeOK, NEW p \in Procs, Abort(p), errors' \in 0 .. MaxErrors
  PROVE  TypeOK'
<1>1. pc' \in [Procs -> Steps]
  BY DEF TypeOK, Abort, Goto, Steps
<1> QED  BY <1>1, ForgetType, Emptied DEF TypeOK, Abort

LEMMA NextType == TypeOK /\ [Next]_vars => TypeOK'
<1> SUFFICES ASSUME TypeOK, [Next]_vars PROVE TypeOK'
  OBVIOUS
<1>0. /\ legacy \subseteq Rows /\ bad \subseteq Rows /\ archived \subseteq Rows
      /\ temp \in Databases /\ db \in Databases
      /\ pc \in [Procs -> Steps]
      /\ kind \in [Procs -> 1 .. Kinds]
      /\ todo \in [Procs -> SUBSET Rows]
      /\ count \in [Procs -> [1 .. Kinds -> Nat]]
      /\ crashes \in 0 .. MaxCrashes /\ errors \in 0 .. MaxErrors
  BY DEF TypeOK
<1>1. \A p \in Procs : \A s \in Steps : Goto(p, s) => pc' \in [Procs -> Steps]
  BY <1>0 DEF Goto
<1>2. errors < MaxErrors /\ errors' = errors + 1 => errors' \in 0 .. MaxErrors
  BY <1>0, MigrationAssumption
<1>3. CASE UNCHANGED vars
  BY <1>3 DEF vars, files, known, TypeOK
<1>4. ASSUME NEW p \in Procs, Start(p) \/ OpenFails(p) PROVE TypeOK'
  BY <1>0, <1>1, <1>2, <1>4 DEF Start, OpenFails, files, known, Steps, TypeOK
<1>5. ASSUME NEW p \in Procs, Open(p) PROVE TypeOK'
  <2>1. db' \in Databases
    BY <1>0, <1>5 DEF Open, Databases
  <2>2. pc' \in [Procs -> Steps]
    BY <1>1, <1>5 DEF Open, Steps
  <2> QED  BY <1>0, <1>5, <2>1, <2>2 DEF Open, known, TypeOK
<1>6. ASSUME NEW p \in Procs, Unlink(p) PROVE TypeOK'
  BY <1>0, <1>1, <1>6, Emptied DEF Unlink, known, Steps, TypeOK
<1>7. ASSUME NEW p \in Procs, Initialize(p) PROVE TypeOK'
  <2>1. temp' \in Databases
    BY <1>0, <1>7, Emptied DEF Initialize, Databases
  <2> QED  BY <1>0, <1>1, <1>7, <2>1 DEF Initialize, known, Steps, TypeOK
<1>8. ASSUME NEW p \in Procs, List(p) PROVE TypeOK'
  <2>1. todo' \in [Procs -> SUBSET Rows]
    BY <1>0, <1>8 DEF List
  <2> QED  BY <1>0, <1>1, <1>8, <2>1 DEF List, files, Steps, TypeOK
<1>9. ASSUME NEW p \in Procs, NEW r \in Rows, Import(p, r) PROVE TypeOK'
  <2>1. temp' \in Databases
    BY <1>0, <1>9 DEF Import, Databases
  <2>2. todo' \in [Procs -> SUBSET Rows]
    BY <1>0, <1>9 DEF Import
  <2>3. count' \in [Procs -> [1 .. Kinds -> Nat]]
    <3>1. count[p] \in [1 .. Kinds -> Nat]
      BY <1>0
    <3>2. [count[p] EXCEPT ![KindOf[r]] = count[p][KindOf[r]] + 1] \in [1 .. Kinds -> Nat]
      BY <3>1, MigrationAssumption
    <3>3. count' = [count EXCEPT ![p] =
                       [count[p] EXCEPT ![KindOf[r]] = count[p][KindOf[r]] + 1]]
      BY <1>9 DEF Import
    <3> QED  BY <1>0, <3>2, <3>3
  <2> QED  BY <1>0, <1>9, <2>1, <2>2, <2>3 DEF Import, TypeOK
<1>10. ASSUME NEW p \in Procs, NEW r \in Rows, ImportFails(p, r) PROVE TypeOK'
  BY <1>0, <1>10, AbortType DEF ImportFails
<1>11. ASSUME NEW p \in Procs, NextKind(p) PROVE TypeOK'
  <2>1. kind' \in [Procs -> 1 .. Kinds]
    <3>1. kind[p] \in 1 .. Kinds
      BY <1>0
    <3>2. kind[p] < Kinds => kind[p] + 1 \in 1 .. Kinds
      BY <3>1, MigrationAssumption
    <3>3. CASE kind[p] < Kinds
      BY <1>0, <1>11, <3>2, <3>3 DEF NextKind
    <3>4. CASE ~(kind[p] < Kinds)
      BY <1>0, <1>11, <3>4 DEF NextKind
    <3> QED  BY <3>3, <3>4
  <2>2. pc' \in [Procs -> Steps]
    BY <1>1, <1>11 DEF NextKind, Steps
  <2> QED  BY <1>0, <1>11, <2>1, <2>2 DEF NextKind, files, TypeOK
<1>12. ASSUME NEW p \in Procs, Verify(p) PROVE TypeOK'
  BY <1>0, <1>1, <1>12, AbortType DEF Verify, files, known, Steps, TypeOK
<1>13. ASSUME NEW p \in Procs, Mark(p) PROVE TypeOK'
  <2>1. [temp EXCEPT !.marker = TRUE] \in Databases
    BY <1>0 DEF Databases
  <2> QED  BY <1>0, <1>1, <1>13, <2>1, AbortType DEF Mark, known, Steps, TypeOK
<1>14. ASSUME NEW p \in Procs, Checkpoint(p) PROVE TypeOK'
  BY <1>0, <1>1, <1>14, Emptied DEF Checkpoint, known, Steps, TypeOK
<1>15. ASSUME NEW p \in Procs, Replace(p) PROVE TypeOK'
  <2>1. CASE ~temp.exists
    BY <1>0, <1>15, <2>1, AbortType DEF Replace
  <2>2. CASE temp.exists
    BY <1>0, <1>1, <1>2, <1>15, <2>2, Emptied, ForgetType DEF Replace, Steps, TypeOK
  <2> QED  BY <2>1, <2>2
<1>16. ASSUME NEW p \in Procs, Fails(p) PROVE TypeOK'
  BY <1>2, <1>16, AbortType DEF Fails
<1>17. ASSUME NEW p \in Procs, ListArchive(p) PROVE TypeOK'
  <2>1. todo' \in [Procs -> SUBSET Rows]
    BY <1>0, <1>17 DEF ListArchive
  <2> QED  BY <1>0, <1>1, <1>17, <2>1 DEF ListArchive, files, Steps, TypeOK
<1>18. ASSUME NEW p \in Procs, NEW r \in Rows, Move(p, r) PROVE TypeOK'
  <2>1. todo' \in [Procs -> SUBSET Rows]
    BY <1>0, <1>18 DEF Move
  <2> QED  BY <1>0, <1>18, <2>1 DEF Move, TypeOK
<1>19. ASSUME NEW p \in Procs, Archived(p) PROVE TypeOK'
  BY <1>0, <1>1, <1>2, <1>19, ForgetType DEF Archived, files, Steps, TypeOK
<1>20. ASSUME NEW p \in Procs, NEW r \in Rows, Serve(p, r) PROVE TypeOK'
  <2>1. db' \in Databases
    BY <1>0, <1>20 DEF Serve, Databases
  <2> QED  BY <1>0, <1>20, <2>1 DEF Serve, known, TypeOK
<1>21. ASSUME NEW r \in Rows, WriteJson(r) PROVE TypeOK'
  BY <1>0, <1>21 DEF WriteJson, known, TypeOK
<1>22. CASE Repair
  BY <1>0, <1>22 DEF Repair, known, TypeOK
<1>23. ASSUME NEW p \in Procs, Crash(p) PROVE TypeOK'
  <2>1. crashes' \in 0 .. MaxCrashes
    BY <1>0, <1>23, MigrationAssumption DEF Crash
  <2> QED  BY <1>0, <1>1, <1>23, <2>1, ForgetType DEF Crash, files, Steps, TypeOK
<1> QED
  BY <1>3, <1>4, <1>5, <1>6, <1>7, <1>8, <1>9, <1>10, <1>11, <1>12, <1>13, <1>14, <1>15,
     <1>16, <1>17, <1>18, <1>19, <1>20, <1>21, <1>22, <1>23 DEF Next, Migrate

(***************************************************************************)
(* The invariant, step by step of the one process.                         *)
(***************************************************************************)
LEMMA InitMigInv == Init => MigInv
<1> SUFFICES ASSUME Init PROVE MigInv
  OBVIOUS
<1>1. TypeOK
  BY Emptied, MigrationAssumption DEF Init, TypeOK, Steps
<1>2. LegacyKept
  BY DEF Init, LegacyKept
<1>3. \A p \in Procs : TempKnown(p) /\ DbKnown(p)
  BY DEF Init, TempKnown, DbKnown, Migrating
<1> QED  BY <1>1, <1>2, <1>3 DEF MigInv

LEMMA AbortKeeps ==
  ASSUME OneProcess, MigInv, NEW p \in Procs, Abort(p)
  PROVE  LegacyKept' /\ \A q \in Procs : (TempKnown(q) /\ DbKnown(q))'
<1>1. pc'[p] = "off" /\ kind'[p] = 1 /\ db' = db /\ archived' = archived
  BY DEF Abort, Goto, Forget, MigInv, TypeOK
<1>2. LegacyKept'
  BY <1>1 DEF MigInv, LegacyKept, Enabled
<1>3. (TempKnown(p) /\ DbKnown(p))'
  BY <1>1 DEF TempKnown, DbKnown, Migrating
<1> QED  BY <1>2, <1>3 DEF OneProcess

\* A step of the process that is no abort and leaves the archive alone.
Keeps(p) ==
    /\ ~Enabled' => archived' = {}
    /\ TempKnown(p)' /\ DbKnown(p)'

LEMMA MigrateKeeps ==
  ASSUME OneProcess, MigInv, NEW p \in Procs, Migrate(p) \/ OpenFails(p)
  PROVE  LegacyKept' /\ \A q \in Procs : (TempKnown(q) /\ DbKnown(q))'
<1> SUFFICES ASSUME ~Abort(p) PROVE Keeps(p)
  BY AbortKeeps DEF Keeps, LegacyKept, OneProcess
<1>0. /\ TempKnown(p) /\ DbKnown(p) /\ LegacyKept
      /\ legacy \subseteq Rows
      /\ pc \in [Procs -> Steps] /\ kind \in [Procs -> 1 .. Kinds]
      /\ todo \in [Procs -> SUBSET Rows]
      /\ temp \in Databases /\ db \in Databases
  BY DEF MigInv, TypeOK
<1>a. \A s \in Steps : Goto(p, s) => pc'[p] = s
  BY <1>0 DEF Goto
<1>b. Forget(p) => kind'[p] = 1
  BY <1>0 DEF Forget
<1> USE DEF Keeps, TempKnown, DbKnown, Migrating, Enabled
<1>1. CASE Start(p)
  BY <1>0, <1>a, <1>1 DEF Start, files, known, Steps, LegacyKept
<1>2. CASE Open(p)
  <2>1. db'.exists = db.exists /\ db'.marker = db.marker
    BY <1>0, <1>2 DEF Open, Databases
  <2> QED  BY <1>0, <1>a, <1>2, <2>1 DEF Open, known, Steps, LegacyKept
<1>3. CASE OpenFails(p)
  BY <1>0, <1>a, <1>3 DEF OpenFails, files, known, Steps, LegacyKept
<1>4. CASE Unlink(p)
  BY <1>0, <1>a, <1>4 DEF Unlink, known, Steps, LegacyKept
<1>5. CASE Initialize(p)
  <2>1. pc[p] = "init" /\ pc'[p] = "list" /\ temp' = NewStore /\ kind'[p] = 1
        /\ legacy' = legacy /\ db' = db /\ archived' = archived /\ ~db.exists
    BY <1>0, <1>a, <1>5 DEF Initialize, known, Steps, Absent
  <2>2. OfKinds(1) = {}
    BY <1>0, MigrationAssumption DEF OfKinds
  <2>3. OfKinds(kind[p])' = {}
    BY <2>1, <2>2 DEF OfKinds
  <2> QED  BY <1>0, <2>1, <2>3 DEF NewStore, LegacyKept
<1>6. CASE List(p)
  <2>1. pc[p] = "list" /\ pc'[p] = "import" /\ UNCHANGED <<files, kind, count>>
        /\ todo'[p] = {r \in legacy : KindOf[r] = kind[p]}
    BY <1>0, <1>a, <1>6 DEF List, Steps
  <2>2. OfKinds(kind[p] + 1) \ todo'[p] = OfKinds(kind[p])
    BY <1>0, <2>1, MigrationAssumption DEF OfKinds
  <2>3. (OfKinds(kind[p] + 1) \ todo[p])' = OfKinds(kind[p] + 1) \ todo'[p]
    BY <2>1 DEF OfKinds, files
  <2>4. temp'.rows = (OfKinds(kind[p] + 1) \ todo[p])'
    BY <1>0, <2>1, <2>2, <2>3 DEF files
  <2>5. todo'[p] \subseteq {r \in legacy' : KindOf[r] = kind'[p]}
    BY <2>1 DEF files
  <2> QED  BY <1>0, <2>1, <2>4, <2>5 DEF files, LegacyKept
<1>7. ASSUME NEW r \in Rows, Import(p, r) PROVE Keeps(p)
  <2>1. /\ pc[p] = "import" /\ pc' = pc /\ kind' = kind /\ legacy' = legacy /\ db' = db
        /\ archived' = archived /\ todo'[p] = todo[p] \ {r} /\ r \in todo[p]
        /\ temp'.rows = temp.rows \cup {r} /\ temp'.exists = temp.exists
        /\ temp'.schema = temp.schema
    BY <1>0, <1>7 DEF Import, Databases
  <2>2. r \in OfKinds(kind[p] + 1)
    BY <1>0, <2>1, MigrationAssumption DEF OfKinds
  <2>3. temp'.rows = OfKinds(kind[p] + 1) \ todo'[p]
    BY <1>0, <2>1, <2>2
  <2>4. (OfKinds(kind[p] + 1) \ todo[p])' = OfKinds(kind[p] + 1) \ todo'[p]
    BY <2>1 DEF OfKinds
  <2> QED  BY <1>0, <2>1, <2>3, <2>4 DEF LegacyKept
<1>8. CASE NextKind(p)
  <2>1. /\ pc[p] = "import" /\ todo[p] = {} /\ UNCHANGED <<files, todo>>
        /\ temp.rows = OfKinds(kind[p] + 1)
    BY <1>0, <1>8 DEF NextKind
  <2>2. CASE kind[p] < Kinds
    <3>1. pc'[p] = "list" /\ kind'[p] = kind[p] + 1
      BY <1>0, <1>a, <1>8, <2>2 DEF NextKind, Steps
    <3>2. temp'.rows = OfKinds(kind[p])'
      BY <2>1, <3>1 DEF OfKinds, files
    <3> QED  BY <1>0, <2>1, <3>1, <3>2 DEF files, LegacyKept
  <2>3. CASE ~(kind[p] < Kinds)
    <3>1. pc'[p] = "verify" /\ kind[p] = Kinds
      BY <1>0, <1>a, <1>8, <2>3, MigrationAssumption DEF NextKind, Steps
    <3>2. OfKinds(kind[p] + 1) = legacy
      BY <1>0, <3>1, MigrationAssumption DEF OfKinds
    <3> QED  BY <1>0, <2>1, <3>1, <3>2 DEF files, LegacyKept
  <2> QED  BY <2>2, <2>3
<1>9. CASE Verify(p)
  BY <1>0, <1>a, <1>9 DEF Verify, files, known, Steps, LegacyKept
<1>10. CASE Mark(p)
  <2>1. /\ pc[p] = "mark" /\ pc'[p] = "checkpoint" /\ legacy' = legacy /\ db' = db
        /\ archived' = archived
        /\ temp' = [temp EXCEPT !.marker = TRUE]
    BY <1>0, <1>a, <1>10 DEF Mark, Steps
  <2>2. temp'.marker = TRUE /\ temp'.exists = temp.exists /\ temp'.schema = temp.schema
        /\ temp'.rows = temp.rows
    BY <1>0, <2>1 DEF Databases
  <2> QED  BY <1>0, <2>1, <2>2 DEF LegacyKept
<1>11. CASE Checkpoint(p)
  BY <1>0, <1>a, <1>11 DEF Checkpoint, known, Steps, LegacyKept
<1>12. CASE Replace(p)
  BY <1>0, <1>a, <1>b, <1>12 DEF Replace, Steps
<1>13. CASE ListArchive(p)
  BY <1>0, <1>a, <1>13 DEF ListArchive, files, Steps, LegacyKept
<1>14. CASE Archived(p)
  BY <1>0, <1>a, <1>b, <1>14 DEF Archived, files, Steps, LegacyKept
<1>15. ASSUME NEW r \in Rows, Move(p, r) PROVE Keeps(p)
  BY <1>0, <1>15 DEF Move
<1> QED
  BY <1>1, <1>2, <1>3, <1>4, <1>5, <1>6, <1>7, <1>8, <1>9, <1>10, <1>11, <1>12, <1>13,
     <1>14, <1>15 DEF Migrate, ImportFails

LEMMA NextMigInv == OneProcess /\ MigInv /\ [Next]_vars => MigInv'
<1> SUFFICES ASSUME OneProcess, MigInv, [Next]_vars
             PROVE  LegacyKept' /\ \A q \in Procs : (TempKnown(q) /\ DbKnown(q))'
  BY NextType DEF MigInv
<1>0. /\ LegacyKept /\ \A p \in Procs : TempKnown(p) /\ DbKnown(p)
      /\ pc \in [Procs -> Steps] /\ kind \in [Procs -> 1 .. Kinds] /\ db \in Databases
  BY DEF MigInv, TypeOK
<1> USE DEF LegacyKept, TempKnown, DbKnown, Migrating, Enabled, OfKinds
<1>1. CASE UNCHANGED vars
  BY <1>0, <1>1 DEF vars, files, known
<1>2. ASSUME NEW p \in Procs, Migrate(p) \/ OpenFails(p)
      PROVE  LegacyKept' /\ \A q \in Procs : (TempKnown(q) /\ DbKnown(q))'
  BY <1>2, MigrateKeeps
<1>3. ASSUME NEW p \in Procs, Fails(p)
      PROVE  LegacyKept' /\ \A q \in Procs : (TempKnown(q) /\ DbKnown(q))'
  BY <1>3, AbortKeeps DEF Fails
<1>4. ASSUME NEW p \in Procs, Crash(p)
      PROVE  LegacyKept' /\ \A q \in Procs : (TempKnown(q) /\ DbKnown(q))'
  <2>1. pc'[p] = "off" /\ kind'[p] = 1 /\ db' = db /\ archived' = archived
    BY <1>0, <1>4 DEF Crash, Goto, Forget, files
  <2>2. LegacyKept'
    BY <1>0, <2>1
  <2>3. (TempKnown(p) /\ DbKnown(p))'
    BY <2>1
  <2> QED  BY <2>2, <2>3 DEF OneProcess
<1>5. ASSUME NEW p \in Procs, NEW r \in Rows, Serve(p, r)
      PROVE  LegacyKept' /\ \A q \in Procs : (TempKnown(q) /\ DbKnown(q))'
  <2>1. db'.exists = db.exists /\ db'.marker = db.marker /\ pc[p] = "ready"
        /\ UNCHANGED <<legacy, archived, temp, pc, kind, todo>>
    BY <1>0, <1>5 DEF Serve, known, Databases
  <2>2. LegacyKept'
    BY <1>0, <2>1
  <2>3. (TempKnown(p) /\ DbKnown(p))'
    BY <1>0, <2>1
  <2> QED  BY <2>2, <2>3 DEF OneProcess
<1>6. CASE Repair
  BY <1>0, <1>6 DEF Repair, known
<1>7. ASSUME NEW r \in Rows, WriteJson(r)
      PROVE  LegacyKept' /\ \A q \in Procs : (TempKnown(q) /\ DbKnown(q))'
  BY <1>0, <1>7 DEF WriteJson, known
<1> QED
  BY <1>1, <1>2, <1>3, <1>4, <1>5, <1>6, <1>7 DEF Next

LEMMA SpecMigInv ==
  ASSUME OneProcess
  PROVE  Spec => []MigInv
<1>1. MigInv /\ [Next]_vars => MigInv'
  BY NextMigInv
<1> QED  BY InitMigInv, <1>1, PTL DEF Spec

\* Every store and every step of the migration stays in its range, for any number of
\* processes (migration.py).
THEOREM MigrationTyped == Spec => []TypeOK
<1>1. Init => TypeOK
  BY InitMigInv DEF MigInv
<1> QED  BY <1>1, NextType, PTL DEF Spec

\* Until SQLite is in force no JSON file is moved (migration.py:328-341).
THEOREM MigrationKeepsLegacy ==
  ASSUME OneProcess
  PROVE  Spec => []LegacyKept
<1>1. MigInv => LegacyKept
  BY DEF MigInv
<1> QED  BY <1>1, SpecMigInv, PTL

\* No service runs on a database of unknown origin while JSON files wait to be imported
\* (migration.py:262-270).
THEOREM MigrationServes ==
  ASSUME OneProcess
  PROVE  Spec => []ServesMigrated
<1>1. MigInv => ServesMigrated
  BY DEF MigInv, DbKnown, ServesMigrated
<1> QED  BY <1>1, SpecMigInv, PTL

(***************************************************************************)
(* The refinement of ManagedData.                                          *)
(***************************************************************************)
LEMMA SwitchStep ==
  ASSUME OneProcess, MigInv, [Next]_vars
  PROVE  [Abstract!Next]_<<IF Enabled THEN "sqlite" ELSE "json",
                           IF Enabled THEN db.rows ELSE legacy>>
<1>0. /\ \A p \in Procs : TempKnown(p) /\ DbKnown(p)
      /\ temp \in Databases /\ db \in Databases /\ legacy \subseteq Rows
  BY DEF MigInv, TypeOK
<1> DEFINE Stays == (Enabled' <=> Enabled)
                    /\ (IF Enabled THEN db.rows ELSE legacy)'
                         = (IF Enabled THEN db.rows ELSE legacy)
<1>a. SUFFICES Stays \/ Abstract!Next
  OBVIOUS
<1> USE DEF TempKnown, DbKnown, Migrating, Enabled
<1>1. CASE UNCHANGED vars
  BY <1>1 DEF vars, files
<1>2. ASSUME NEW p \in Procs, Open(p) PROVE Stays
  <2>1. db'.exists = db.exists /\ db'.marker = db.marker /\ db'.rows = db.rows
        /\ legacy' = legacy
    BY <1>0, <1>2 DEF Open, Databases
  <2> QED  BY <2>1
<1>3. ASSUME NEW p \in Procs, Replace(p) PROVE Stays \/ Abstract!Next
  <2>1. CASE ~temp.exists
    BY <1>3, <2>1 DEF Replace, Abort
  <2>2. CASE temp.exists
    <3>1. db' = temp /\ temp.marker /\ temp.rows = legacy /\ ~db.exists
      BY <1>0, <1>3, <2>2 DEF Replace
    <3>2. Enabled' /\ ~Enabled
      BY <2>2, <3>1
    <3> QED  BY <3>1, <3>2 DEF Abstract!Next, Abstract!Enable
  <2> QED  BY <2>1, <2>2
<1>4. ASSUME NEW p \in Procs, NEW r \in Rows, Move(p, r) PROVE Stays
  BY <1>0, <1>4 DEF Move
<1>5. ASSUME NEW p \in Procs, NEW r \in Rows, Serve(p, r) PROVE Stays \/ Abstract!Next
  <2>1. db'.exists = db.exists /\ db'.marker = db.marker /\ legacy' = legacy
        /\ (db'.rows = db.rows \cup {r} \/ db'.rows = db.rows \ {r})
    BY <1>0, <1>5 DEF Serve, Databases
  <2>2. CASE Enabled
    BY <2>1, <2>2 DEF Abstract!Next, Abstract!Write
  <2>3. CASE ~Enabled
    BY <2>1, <2>3
  <2> QED  BY <2>2, <2>3
<1>6. ASSUME NEW r \in Rows, WriteJson(r) PROVE Stays \/ Abstract!Next
  <2>1. db' = db /\ (legacy' = legacy \cup {r} \/ legacy' = legacy \ {r})
    BY <1>6 DEF WriteJson
  <2>2. CASE Enabled
    BY <2>1, <2>2
  <2>3. CASE ~Enabled
    BY <2>1, <2>3 DEF Abstract!Next, Abstract!Write
  <2> QED  BY <2>2, <2>3
<1>7. CASE UNCHANGED <<db, legacy>>
  BY <1>7
<1>8. ASSUME NEW p \in Procs,
             \/ Start(p) \/ Unlink(p) \/ Initialize(p) \/ List(p) \/ NextKind(p)
             \/ Verify(p) \/ Mark(p) \/ Checkpoint(p) \/ ListArchive(p) \/ Archived(p)
             \/ OpenFails(p) \/ Fails(p) \/ Crash(p)
             \/ \E r \in Rows : Import(p, r) \/ ImportFails(p, r)
      PROVE  UNCHANGED <<db, legacy>>
  BY <1>8 DEF Start, Unlink, Initialize, List, NextKind, Verify, Mark, Checkpoint,
     ListArchive, Archived, OpenFails, Fails, Crash, Import, ImportFails, Abort, files
<1>9. CASE Repair
  BY <1>9 DEF Repair
<1> QED
  BY <1>1, <1>2, <1>3, <1>4, <1>5, <1>6, <1>7, <1>8, <1>9 DEF Next, Migrate

\* Whatever fails and whenever the process dies, the migration is one switch to SQLite
\* that is never taken back, with all the records of the JSON files, and the records
\* change otherwise only by what is written one at a time (ManagedData).
THEOREM MigrationIsOneSwitch ==
  ASSUME OneProcess
  PROVE  Spec => MigratesOnce
<1>1. Init => Abstract!Init
  BY DEF Init, Abstract!Init, Enabled, Absent, NewStore
<1>2. MigInv /\ [Next]_vars =>
        [Abstract!Next]_<<IF Enabled THEN "sqlite" ELSE "json",
                          IF Enabled THEN db.rows ELSE legacy>>
  BY SwitchStep
<1> QED  BY <1>1, <1>2, SpecMigInv, PTL DEF Spec, MigratesOnce, Abstract!Spec
=============================================================================
