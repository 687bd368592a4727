-------------------------- MODULE StorageMigration --------------------------
(***************************************************************************)
(* ensure_storage_ready: the one-time start-up migration of the JSON files *)
(* to nicevpn.db, by the web process and by the CLI.                       *)
(*                                                                         *)
(* Files are shared by the processes and survive a crash; what a process   *)
(* knows does not.  Every store operation opens the database by its path,  *)
(* so two processes that migrate at once write to whatever file has the    *)
(* name *.migrating.  _MIGRATION_LOCK orders the threads of one process    *)
(* only, and is not modelled.                                              *)
(***************************************************************************)
EXTENDS Naturals, FiniteSets

CONSTANTS
    Rows,       \* records: users, groups, peers, rules
    Kinds,      \* number of record types, imported one after the other
    KindOf,     \* type of every record
    Procs,      \* processes that may start
    MaxCrashes, \* bound: crashes of a behaviour
    MaxErrors   \* bound: I/O errors of a behaviour

ASSUME MigrationAssumption ==
    /\ IsFiniteSet(Rows)
    /\ Kinds \in Nat \ {0}
    /\ KindOf \in [Rows -> 1 .. Kinds]
    /\ MaxCrashes \in Nat /\ MaxErrors \in Nat

VARIABLES
    legacy,     \* JSON files still in data/
    bad,        \* JSON files that do not parse or do not validate
    archived,   \* JSON files moved to backups/
    temp,       \* nicevpn.db.migrating
    db,         \* nicevpn.db
    pc,         \* next step of a process
    kind,       \* type it is importing
    todo,       \* files of that type it has listed and not read yet
    count,      \* records of every type it has imported
    crashes,
    errors

files == <<legacy, bad, archived, temp, db>>
known == <<kind, todo, count>>
vars  == <<files, pc, known, crashes, errors>>

\* A database file: its rows, whether it has a schema, and whether its
\* storage_backend is "sqlite".
Databases == [exists : BOOLEAN, rows : SUBSET Rows, schema : BOOLEAN, marker : BOOLEAN]
Absent   == [exists |-> FALSE, rows |-> {}, schema |-> FALSE, marker |-> FALSE]
Blank    == [exists |-> TRUE, rows |-> {}, schema |-> FALSE, marker |-> FALSE]
NewStore == [exists |-> TRUE, rows |-> {}, schema |-> TRUE, marker |-> FALSE]

NoCount == [k \in 1 .. Kinds |-> 0]

Steps == {"off", "open", "unlink", "init", "list", "import", "verify", "mark",
          "checkpoint", "replace", "archive", "move", "ready"}

Init ==
    /\ legacy \in SUBSET Rows /\ bad \in SUBSET legacy /\ archived = {}
    /\ temp = Absent
    /\ db \in {Absent, NewStore}  \* usually none; else one of unknown origin
    /\ pc = [p \in Procs |-> "off"]
    /\ kind = [p \in Procs |-> 1]
    /\ todo = [p \in Procs |-> {}]
    /\ count = [p \in Procs |-> NoCount]
    /\ crashes = 0 /\ errors = 0

Goto(p, s) == pc' = [pc EXCEPT ![p] = s]

Forget(p) ==
    /\ kind' = [kind EXCEPT ![p] = 1]
    /\ todo' = [todo EXCEPT ![p] = {}]
    /\ count' = [count EXCEPT ![p] = NoCount]

\* The exception handler: the temporary database goes, the process does not
\* start.  The JSON files stay where they are.
Abort(p) ==
    /\ temp' = Absent
    /\ Goto(p, "off") /\ Forget(p)
    /\ UNCHANGED <<legacy, bad, archived, db, crashes>>

(***************************************************************************)
(* A database that exists                                                  *)
(***************************************************************************)

Start(p) ==
    /\ pc[p] = "off"
    /\ Goto(p, IF ~db.exists THEN "unlink" ELSE "open")
    /\ UNCHANGED <<files, known, crashes, errors>>

\* Mutant: the marker of an existing database is not looked at.
OpenUnmarked(p) ==
    /\ pc[p] = "open"
    /\ db' = [db EXCEPT !.schema = TRUE]
    /\ Goto(p, IF legacy = {} THEN "ready" ELSE "archive")
    /\ UNCHANGED <<legacy, bad, archived, temp, known, crashes, errors>>

\* A database of unknown origin beside JSON files is refused.
Open(p) ==
    /\ pc[p] = "open"
    /\ db' = [db EXCEPT !.schema = TRUE]
    /\ Goto(p, IF legacy = {} THEN "ready" ELSE IF db.marker THEN "archive" ELSE "off")
    /\ UNCHANGED <<legacy, bad, archived, temp, known, crashes, errors>>

\* It cannot be opened, or its schema cannot be brought up to date.
OpenFails(p) ==
    /\ pc[p] = "open"
    /\ errors < MaxErrors /\ errors' = errors + 1
    /\ Goto(p, "off")
    /\ UNCHANGED <<files, known, crashes>>

(***************************************************************************)
(* The migration                                                           *)
(***************************************************************************)

\* What an earlier attempt left behind is removed.
Unlink(p) ==
    /\ pc[p] = "unlink"
    /\ temp' = Absent
    /\ Goto(p, "init")
    /\ UNCHANGED <<legacy, bad, archived, db, known, crashes, errors>>

Initialize(p) ==
    /\ pc[p] = "init"
    /\ temp' = IF ~temp.exists THEN NewStore ELSE [temp EXCEPT !.schema = TRUE]
    /\ Goto(p, "list")
    /\ UNCHANGED <<legacy, bad, archived, db, known, crashes, errors>>

List(p) ==
    /\ pc[p] = "list"
    /\ todo' = [todo EXCEPT ![p] = {r \in legacy : KindOf[r] = kind[p]}]
    /\ Goto(p, "import")
    /\ UNCHANGED <<files, kind, count, crashes, errors>>

\* Mutant: a file is archived as soon as it is imported.
ImportMoves(p, r) ==
    /\ pc[p] = "import" /\ r \in todo[p]
    /\ r \in legacy \ bad /\ temp.schema
    /\ temp' = [temp EXCEPT !.rows = @ \cup {r}]
    /\ legacy' = legacy \ {r} /\ archived' = archived \cup {r}
    /\ todo' = [todo EXCEPT ![p] = @ \ {r}]
    /\ count' = [count EXCEPT ![p][KindOf[r]] = @ + 1]
    /\ UNCHANGED <<bad, db, pc, kind, crashes, errors>>

\* One upsert: the store opens the file of that name, whoever created it.
Import(p, r) ==
    /\ pc[p] = "import" /\ r \in todo[p]
    /\ r \in legacy \ bad /\ temp.schema
    /\ temp' = [temp EXCEPT !.rows = @ \cup {r}]
    /\ todo' = [todo EXCEPT ![p] = @ \ {r}]
    /\ count' = [count EXCEPT ![p][KindOf[r]] = @ + 1]
    /\ UNCHANGED <<legacy, bad, archived, db, pc, kind, crashes, errors>>

\* Mutant: an invalid file is passed over.
ImportSkips(p, r) ==
    /\ pc[p] = "import" /\ r \in todo[p]
    /\ r \notin legacy \/ r \in bad \/ ~temp.schema
    /\ todo' = [todo EXCEPT ![p] = @ \ {r}]
    /\ UNCHANGED <<files, pc, kind, count, crashes, errors>>

\* The file is gone or invalid, or the database has no such table.
ImportFails(p, r) ==
    /\ pc[p] = "import" /\ r \in todo[p]
    /\ r \notin legacy \/ r \in bad \/ ~temp.schema
    /\ Abort(p)
    /\ UNCHANGED errors

\* Mutant: one type too many.
NextKindPast(p) ==
    /\ pc[p] = "import" /\ todo[p] = {}
    /\ IF kind[p] <= Kinds
       THEN kind' = [kind EXCEPT ![p] = @ + 1] /\ Goto(p, "list")
       ELSE UNCHANGED kind /\ Goto(p, "verify")
    /\ UNCHANGED <<files, todo, count, crashes, errors>>

NextKind(p) ==
    /\ pc[p] = "import" /\ todo[p] = {}
    /\ IF kind[p] < Kinds
       THEN kind' = [kind EXCEPT ![p] = @ + 1] /\ Goto(p, "list")
       ELSE UNCHANGED kind /\ Goto(p, "verify")
    /\ UNCHANGED <<files, todo, count, crashes, errors>>

Counted(p) ==
    /\ temp.schema
    /\ \A k \in 1 .. Kinds :
           Cardinality({r \in temp.rows : KindOf[r] = k}) = count[p][k]

Verify(p) ==
    /\ pc[p] = "verify"
    /\ IF Counted(p) THEN Goto(p, "mark") /\ UNCHANGED <<files, known, crashes>>
                     ELSE Abort(p)
    /\ UNCHANGED errors

\* Mutant: storage_backend is not written.
MarkForgotten(p) ==
    /\ pc[p] = "mark"
    /\ IF temp.schema
       THEN Goto(p, "checkpoint") /\ UNCHANGED <<files, known, crashes>>
       ELSE Abort(p)
    /\ UNCHANGED errors

Mark(p) ==
    /\ pc[p] = "mark"
    /\ IF temp.schema
       THEN /\ temp' = [temp EXCEPT !.marker = TRUE]
            /\ Goto(p, "checkpoint")
            /\ UNCHANGED <<legacy, bad, archived, db, known, crashes>>
       ELSE Abort(p)
    /\ UNCHANGED errors

\* sqlite3.connect creates a file that is not there.
Checkpoint(p) ==
    /\ pc[p] = "checkpoint"
    /\ temp' = IF ~temp.exists THEN Blank ELSE temp
    /\ Goto(p, "replace")
    /\ UNCHANGED <<legacy, bad, archived, db, known, crashes, errors>>

\* os.replace, after which SQLite is in force even if the chmod fails.
Replace(p) ==
    /\ pc[p] = "replace"
    /\ IF ~temp.exists
       THEN Abort(p) /\ UNCHANGED errors
       ELSE /\ db' = temp /\ temp' = Absent
            /\ \/ Goto(p, "archive") /\ UNCHANGED errors
               \/ errors < MaxErrors /\ errors' = errors + 1 /\ Goto(p, "off")
            /\ Forget(p)
            /\ UNCHANGED <<legacy, bad, archived, crashes>>

\* The disk is full, a permission is missing: any step up to os.replace.
Fails(p) ==
    /\ errors < MaxErrors /\ errors' = errors + 1
    /\ pc[p] \in {"init", "import", "verify", "mark", "checkpoint", "replace"}
    /\ Abort(p)

(***************************************************************************)
(* Archiving, and normal operation                                         *)
(***************************************************************************)

ListArchive(p) ==
    /\ pc[p] = "archive"
    /\ todo' = [todo EXCEPT ![p] = legacy]
    /\ Goto(p, "move")
    /\ UNCHANGED <<files, kind, count, crashes, errors>>

Move(p, r) ==
    /\ pc[p] = "move" /\ r \in todo[p] /\ r \in legacy
    /\ legacy' = legacy \ {r} /\ archived' = archived \cup {r}
    /\ todo' = [todo EXCEPT ![p] = @ \ {r}]
    /\ UNCHANGED <<bad, temp, db, pc, kind, count, crashes, errors>>

\* A move that fails ends the archiving with a warning only.
Archived(p) ==
    /\ pc[p] = "move"
    /\ \/ todo[p] = {} /\ UNCHANGED errors
       \/ (\E r \in todo[p] : r \notin legacy) /\ UNCHANGED errors
       \/ errors < MaxErrors /\ errors' = errors + 1
    /\ Goto(p, "ready") /\ Forget(p)
    /\ UNCHANGED <<files, crashes>>

\* A service adds or removes a record.
Serve(p, r) ==
    /\ pc[p] = "ready" /\ db.schema
    /\ db' = [db EXCEPT !.rows = IF r \in @ THEN @ \ {r} ELSE @ \cup {r}]
    /\ UNCHANGED <<legacy, bad, archived, temp, pc, known, crashes, errors>>

\* The operator mends a file that could not be read.
Repair ==
    /\ bad # {} /\ bad' = {}
    /\ UNCHANGED <<legacy, archived, temp, db, pc, known, crashes, errors>>

\* While nothing runs the operator goes back to the version that wrote JSON,
\* or restores its files: a record is added, or removed.
WriteJson(r) ==
    /\ \A p \in Procs : pc[p] = "off"
    /\ db.exists => db.marker
    /\ legacy' = IF r \in legacy THEN legacy \ {r} ELSE legacy \cup {r}
    /\ bad' = bad \ {r}
    /\ UNCHANGED <<archived, temp, db, pc, known, crashes, errors>>

Crash(p) ==
    /\ pc[p] # "off" /\ crashes < MaxCrashes
    /\ crashes' = crashes + 1
    /\ Goto(p, "off") /\ Forget(p)
    /\ UNCHANGED <<files, errors>>

(***************************************************************************)
(* Specification                                                           *)
(***************************************************************************)

Migrate(p) ==
    \/ Start(p) \/ Open(p) \/ Unlink(p) \/ Initialize(p) \/ List(p)
    \/ NextKind(p) \/ Verify(p) \/ Mark(p) \/ Checkpoint(p) \/ Replace(p)
    \/ ListArchive(p) \/ Archived(p)
    \/ \E r \in Rows : Import(p, r) \/ ImportFails(p, r) \/ Move(p, r)

Next ==
    \/ \E p \in Procs :
           \/ Migrate(p) \/ OpenFails(p) \/ Fails(p) \/ Crash(p)
           \/ \E r \in Rows : Serve(p, r)
    \/ Repair
    \/ \E r \in Rows : WriteJson(r)

\* A process takes its next step, and one that stopped is started again.
Spec == Init /\ [][Next]_vars /\ \A p \in Procs : WF_vars(Migrate(p))

(***************************************************************************)
(* Properties                                                              *)
(***************************************************************************)

\* Every variable stays in its range.
TypeOK ==
    /\ legacy \subseteq Rows /\ bad \subseteq Rows /\ archived \subseteq Rows
    /\ temp \in Databases /\ db \in Databases
    /\ pc \in [Procs -> Steps]
    /\ kind \in [Procs -> 1 .. Kinds]
    /\ todo \in [Procs -> SUBSET Rows]
    /\ count \in [Procs -> [1 .. Kinds -> Nat]]
    /\ crashes \in 0 .. MaxCrashes /\ errors \in 0 .. MaxErrors

\* SQLite is in force from os.replace on.
Enabled == db.exists /\ db.marker

Abstract == INSTANCE ManagedData WITH
    backend <- IF Enabled THEN "sqlite" ELSE "json",
    rows    <- IF Enabled THEN db.rows ELSE legacy

\* Whatever fails and whenever a process dies, SQLite comes into force once,
\* with all the records of the JSON files, and they change from then on only
\* by what the services write: JSON files that are there again are never
\* imported (openspec/changes/vpn-sqlite-storage-v1/specs/vpn-sqlite-storage/
\* spec.md:20-36).
MigratesOnce == Abstract!Spec

\* Until SQLite is in force no JSON file is moved, whatever step of however
\* many attempts failed (migration.py:328-341: the move follows os.replace).
LegacyKept == ~Enabled => archived = {}

\* No service runs on a database of unknown origin while JSON files wait to be
\* imported, nor before the migration has ended (migration.py:262-270).
ServesMigrated ==
    \A p \in Procs : pc[p] \in {"archive", "move", "ready"} =>
        db.exists /\ (db.marker \/ legacy = {})

\* Once the files can be read, a process that is started again whenever it
\* stopped ends up serving: no leftover of an earlier attempt blocks it.
StartsUp == \A p \in Procs :
    bad = {} /\ (db.exists => db.marker) ~> pc[p] = "ready"
=============================================================================
