---------------------------- MODULE CenterRules ----------------------------
(***************************************************************************)
(* The centre firewall as its callers see it: FirewallRuleService,         *)
(* TagService and the services that change the members of a rule, over     *)
(* SQLite and the kernel refresh of ForwardRefresh.                        *)
(*                                                                         *)
(* A call reads the rules of the owners it changes, keeps a snapshot of    *)
(* them, replaces them owner by owner, reads the whole database as the     *)
(* plan of a refresh, and writes the snapshots back, again owner by owner, *)
(* if the refresh fails.                                                   *)
(* Each of these is a transaction of its own: nothing is locked between    *)
(* them.  The snapshots of the owners of one call are taken in one step.   *)
(*                                                                         *)
(* db is the effective state a refresh would read: for every ipset name    *)
(* the members its enabled rules would get, NoSet when no rule uses it.    *)
(* The centre rules of the peers are rows of their own table: PeerOwner.   *)
(***************************************************************************)
EXTENDS ForwardRefresh

CONSTANTS
    Owners,     \* groups, users, tags; the peers count as one owner
    PeerOwner,  \* the owner whose rows are never rolled back
    OwnerOf     \* the owner of every name

\* Every failure the code recovers from, and the crash.
CallFaults == {"save", "spec", "stage", "text", "load", "timeout", "hooks",
               "plan", "sql", "crash"}

ASSUME OwnersAssumption ==
    /\ PeerOwner \in Owners
    /\ OwnerOf \in [Names -> Owners]

VARIABLES
    db,         \* effective rules in SQLite
    task,       \* what the caller is doing
    target,     \* owners the call replaces
    todo,       \* owners it has not replaced yet
    draft,      \* their new rules
    snap,       \* _prepush_snapshots
    before,     \* history: the rules when the call began
    drift       \* history: names whose change is stored but not enforced

call  == <<target, todo, draft, snap, before>>
rules == <<db, task, call, drift>>
all   == <<vars, rules>>

\* "changed" is a member change before its refresh, "change" during it, and
\* "created" one that asks for none.
Tasks == {"none", "read", "write", "plan", "refresh", "undo", "created", "changed",
          "change", "rebuild", "crashed"}

NamesOf(T) == {n \in Names : OwnerOf[n] \in T}

\* The rows of the names N as in g, all others as in f.
Override(f, g, N) == [n \in Names |-> IF n \in N THEN g[n] ELSE f[n]]

AllInit ==
    /\ Init
    /\ db = NoStage
    /\ task = [c \in Callers |-> "none"]
    /\ target = [c \in Callers |-> {}]
    /\ todo = [c \in Callers |-> {}]
    /\ draft = [c \in Callers |-> NoStage]
    /\ snap = [c \in Callers |-> NoStage]
    /\ before = [c \in Callers |-> NoStage]
    /\ drift = {}

Becomes(c, t) == task' = [task EXCEPT ![c] = t]

\* Mutant: the owners of the call are remembered.
EndCallKeeps(c, t) ==
    /\ Becomes(c, t)
    /\ UNCHANGED <<target, todo>>
    /\ draft' = [draft EXCEPT ![c] = NoStage]
    /\ snap' = [snap EXCEPT ![c] = NoStage]
    /\ before' = [before EXCEPT ![c] = NoStage]

\* The call is over: its local variables are gone.
EndCall(c, t) ==
    /\ Becomes(c, t)
    /\ target' = [target EXCEPT ![c] = {}]
    /\ todo' = [todo EXCEPT ![c] = {}]
    /\ draft' = [draft EXCEPT ![c] = NoStage]
    /\ snap' = [snap EXCEPT ![c] = NoStage]
    /\ before' = [before EXCEPT ![c] = NoStage]

(***************************************************************************)
(* Storing the change                                                      *)
(***************************************************************************)

Start(c, T, p) ==
    /\ task[c] = "none"
    /\ target' = [target EXCEPT ![c] = T]
    /\ todo' = [todo EXCEPT ![c] = T]
    /\ draft' = [draft EXCEPT ![c] = Override(NoStage, p, NamesOf(T))]
    /\ before' = [before EXCEPT ![c] = Override(NoStage, db, NamesOf(T))]
    /\ Becomes(c, "read")
    /\ UNCHANGED <<vars, db, snap, drift>>

Written(o) == o # PeerOwner

Create(c, n, v) ==
    /\ Written(OwnerOf[n]) /\ db[n] = NoSet /\ v # NoSet
    /\ Start(c, {OwnerOf[n]}, [db EXCEPT ![n] = v])

\* Several rules of one owner.
CreateMany(c, o, p) ==
    /\ Written(o)
    /\ \A n \in NamesOf({o}) : db[n] # NoSet => p[n] = db[n]
    /\ Start(c, {o}, p)

UpdateById(c, n, v) ==
    /\ Written(OwnerOf[n]) /\ db[n] # NoSet /\ v # NoSet
    /\ Start(c, {OwnerOf[n]}, [db EXCEPT ![n] = v])

Delete(c, n) ==
    /\ Written(OwnerOf[n]) /\ db[n] # NoSet
    /\ Start(c, {OwnerOf[n]}, [db EXCEPT ![n] = NoSet])

\* A disabled rule has no ipset.
SetEnabled(c, n, v) ==
    /\ Written(OwnerOf[n]) /\ (db[n] = NoSet) # (v = NoSet)
    /\ Start(c, {OwnerOf[n]}, [db EXCEPT ![n] = v])

\* New priorities only, but all the rows of the owners are written again.
Reorder(c, o)  == Written(o) /\ Start(c, {o}, db)
ReorderAll(c)  == Start(c, Owners, db)

\* TagService: the members a rule of the tag matches.
SetMembers(c, n, v) ==
    /\ Written(OwnerOf[n]) /\ db[n] # NoSet /\ v # db[n]
    /\ Start(c, {OwnerOf[n]}, [db EXCEPT ![n] = v])

\* The rules of several owners from a backup, those of the peers included.
Restore(c, T, p) == T # {} /\ Start(c, T, p)

\* Mutant: the snapshot is taken of what is about to be written.
SnapshotOfDraft(c) ==
    /\ task[c] = "read"
    /\ snap' = [snap EXCEPT ![c] = draft[c]]
    /\ Becomes(c, "write")
    /\ UNCHANGED <<vars, db, target, todo, draft, before, drift>>

\* An owner without rules has no snapshot and goes back to having none.
Snapshot(c) ==
    /\ task[c] = "read"
    /\ snap' = [snap EXCEPT ![c] = Override(NoStage, db, NamesOf(target[c]))]
    /\ Becomes(c, "write")
    /\ UNCHANGED <<vars, db, target, todo, draft, before, drift>>

\* replace_firewall_owner: one transaction per owner.
Save(c, o) ==
    /\ task[c] = "write" /\ o \in todo[c]
    /\ db' = Override(db, draft[c], NamesOf({o}))
    /\ todo' = [todo EXCEPT ![c] = @ \ {o}]
    /\ Becomes(c, IF todo[c] = {o} THEN "plan" ELSE "write")
    /\ UNCHANGED <<vars, target, draft, snap, before, drift>>

\* SQLite refuses the rows (a rule id another owner has, a busy database): the
\* call ends there, and the owners replaced before are neither enforced nor
\* given back.  Peers are stored one by one, and one whose CCD cannot be merged
\* raises after its row is stored.
SaveRefused(c, o) ==
    /\ task[c] = "write" /\ o \in todo[c] /\ "sql" \in Faults
    /\ \E N \in SUBSET NamesOf({o} \cap {PeerOwner}) :
           /\ db' = Override(db, draft[c], N)
           /\ drift' = drift \cup N \cup NamesOf(target[c] \ todo[c])
    /\ EndCall(c, "none")
    /\ UNCHANGED vars

\* A change of a user, a group, a CCD or a peer is stored before the refresh it
\* asks for, and stays when that refresh fails.
ChangeMembers(c, n, v) ==
    /\ task[c] = "none" /\ v # db[n]
    /\ db[n] = NoSet => OwnerOf[n] = PeerOwner
    /\ db' = [db EXCEPT ![n] = v]
    /\ target' = [target EXCEPT ![c] = {OwnerOf[n]}]
    /\ Becomes(c, "changed")
    /\ UNCHANGED <<vars, todo, draft, snap, before, drift>>

\* A new user is a member of the tags of its group, and of those an earlier user
\* of its name had: nothing refreshes the kernel.
CreateUser(c, n, v) ==
    /\ task[c] = "none" /\ Written(OwnerOf[n]) /\ v \notin {NoSet, db[n]}
    /\ db' = [db EXCEPT ![n] = v]
    /\ target' = [target EXCEPT ![c] = {OwnerOf[n]}]
    /\ Becomes(c, "created")
    /\ UNCHANGED <<vars, todo, draft, snap, before, drift>>

UserCreated(c) ==
    /\ task[c] = "created"
    /\ drift' = drift \cup NamesOf(target[c])
    /\ EndCall(c, "none")
    /\ UNCHANGED <<vars, db>>

(***************************************************************************)
(* Enforcing it                                                            *)
(***************************************************************************)

\* The plan: all rules, with the tags resolved and the peers merged in.
ReadPlan(c) ==
    /\ task[c] \in {"plan", "changed"}
    /\ Begin(c, "refresh", db)
    /\ Becomes(c, IF task[c] = "plan" THEN "refresh" ELSE "change")
    /\ UNCHANGED <<db, call, drift>>

\* Start-up, the wizard and the settings page rebuild from the database.
Rebuild(c) ==
    /\ task[c] \in {"none", "crashed"}
    /\ Begin(c, "rebuild", db)
    /\ Becomes(c, "rebuild")
    /\ UNCHANGED <<db, call, drift>>

Enforce(c) ==
    /\ task[c] \in {"refresh", "change", "rebuild"}
    /\ Refresh(c)
    /\ UNCHANGED rules

Succeed(c) ==
    /\ task[c] \in {"refresh", "change", "rebuild"} /\ pc[c] = "done"
    /\ drift' = {}
    /\ EndCall(c, "none")
    /\ UNCHANGED <<vars, db>>

\* Mutant: the exception is passed on without writing the snapshots back.
UndoneNone(T) == {}

\* The owners a failed call rolls back: what it stored of the peers stays.
Undone(T) == T \ {PeerOwner}

\* A tag that is gone, a database error or the kernel refresh itself.
Fail(c) ==
    /\ \/ task[c] \in {"refresh", "change", "rebuild"} /\ pc[c] = "failed"
       \/ task[c] \in {"plan", "changed"} /\ "plan" \in Faults
    /\ LET back == IF task[c] \in {"plan", "refresh"} THEN Undone(target[c]) ELSE {}
           kept == IF task[c] \in {"plan", "refresh"} THEN target[c] \cap {PeerOwner}
                                                     ELSE target[c]
       IN  /\ drift' = drift \cup NamesOf(kept)
           /\ IF back = {} THEN EndCall(c, "none")
              ELSE /\ Becomes(c, "undo")
                   /\ todo' = [todo EXCEPT ![c] = back]
                   /\ UNCHANGED <<target, draft, snap, before>>
    /\ UNCHANGED <<vars, db>>

\* The snapshots go back as the rules came, one transaction per owner.
Undo(c, o) ==
    /\ task[c] = "undo" /\ o \in todo[c]
    /\ db' = Override(db, snap[c], NamesOf({o}))
    /\ IF todo[c] = {o} THEN EndCall(c, "none")
       ELSE /\ todo' = [todo EXCEPT ![c] = @ \ {o}]
            /\ UNCHANGED <<task, target, draft, snap, before>>
    /\ UNCHANGED <<vars, drift>>

\* SQLite refuses one: it and the owners after it keep the rules of the call.
UndoRefused(c, o) ==
    /\ task[c] = "undo" /\ o \in todo[c] /\ "sql" \in Faults
    /\ drift' = drift \cup NamesOf(todo[c])
    /\ EndCall(c, "none")
    /\ UNCHANGED <<vars, db>>

\* The process dies in the middle of its calls.  It rebuilds as it starts.
Die ==
    /\ \E c \in Callers : task[c] \notin {"none", "crashed"}
    /\ IF AtRest THEN "crash" \in Faults /\ UNCHANGED vars ELSE Crash
    /\ task' = [c \in Callers |-> IF task[c] = "none" THEN "none" ELSE "crashed"]
    /\ target' = [c \in Callers |-> {}]
    /\ todo' = [c \in Callers |-> {}]
    /\ draft' = [c \in Callers |-> NoStage]
    /\ snap' = [c \in Callers |-> NoStage]
    /\ before' = [c \in Callers |-> NoStage]
    /\ drift' = Names
    /\ UNCHANGED db

(***************************************************************************)
(* Specification                                                           *)
(***************************************************************************)

Step(c) ==
    \/ Snapshot(c) \/ ReadPlan(c) \/ Enforce(c) \/ Succeed(c) \/ Fail(c)
    \/ UserCreated(c)
    \/ \E o \in Owners : \/ Save(c, o) \/ SaveRefused(c, o)
                       \/ Undo(c, o) \/ UndoRefused(c, o)
    \/ task[c] = "crashed" /\ Rebuild(c)

Change(c) ==
    \/ \E n \in Names, v \in Contents \cup {NoSet} :
           \/ Create(c, n, v) \/ UpdateById(c, n, v) \/ Delete(c, n)
           \/ SetEnabled(c, n, v) \/ SetMembers(c, n, v)
           \/ ChangeMembers(c, n, v) \/ CreateUser(c, n, v)
    \/ \E o \in Owners : Reorder(c, o) \/ \E p \in Plans : CreateMany(c, o, p)
    \/ ReorderAll(c)
    \/ \E T \in SUBSET Owners, p \in Plans : Restore(c, T, p)

AllNext ==
    \/ \E c \in Callers : Change(c) \/ Rebuild(c) \/ Step(c)
    \/ Die

AllSpec == AllInit /\ [][AllNext]_all /\ \A c \in Callers : WF_all(Step(c))

(***************************************************************************)
(* Properties                                                              *)
(***************************************************************************)

NoCall == \A c \in Callers : task[c] = "none"

\* Every variable stays in its range, and no call leaves anything behind.
AllTypeOK ==
    /\ TypeOK
    /\ db \in Plans /\ drift \subseteq Names
    /\ task \in [Callers -> Tasks]
    /\ {draft, snap, before} \subseteq [Callers -> Plans]
    /\ target \in [Callers -> SUBSET Owners]
    /\ \A c \in Callers : todo[c] \subseteq target[c]
    /\ \A c \in Callers : task[c] \in {"none", "rebuild", "crashed"} => target[c] = {}

\* The kernel enforces what SQLite says of a name.
Follows(n) == /\ n \in chain <=> db[n] # NoSet
              /\ n \in chain => sets[n] = db[n]

\* When no call is running the kernel enforces what the database says, up to
\* the names a call left stored but not enforced: a user or peer change whose
\* refresh failed, a user created (nothing asks for a refresh), the owners and
\* peers stored before a save was refused and those whose rollback was, and
\* everything after a crash.  The next refresh that succeeds settles those too
\* (rule_service.py:43-66 and 913-937).
KernelFollowsDb == NoCall => \A n \in Names \ drift : Follows(n)

\* The step by which a call of FirewallRuleService or TagService fails, and the
\* owners it then owes the rules it found: those it has not stored yet, or all
\* it stored, up to the ones SQLite refused to take back.
CallFails(c) == /\ task'[c] = "none"
                /\ \/ task[c] \in {"write", "plan", "undo"}
                   \/ task[c] = "refresh" /\ pc[c] # "done"
Owed(c) == IF task[c] = "write" THEN todo[c]
           ELSE IF \E o \in Owners : UndoRefused(c, o) THEN target[c] \ todo[c]
           ELSE target[c]

\* "SHALL restore the rules of SQLite to the snapshot before the operation":
\* when the refresh of a call fails every owner it changed has the rules it had
\* when the call began, and the owners of a call that SQLite refused in the
\* middle have them as far as it had not stored them, or had given them back
\* (rule_service.py:7-9 and 52-66, spec.md:46).
FailedCallRestoresRules ==
    [][\A c \in Callers : CallFails(c) =>
           \A n \in NamesOf(Owed(c) \ {PeerOwner}) : db'[n] = before[c][n]]_all

\* Every call returns, unless the process keeps dying: no failure leaves a
\* call waiting for a lock that its own refresh did not release.
CallReturns ==
    \/ []<><<Die>>_all
    \/ \A c \in Callers : task[c] # "none" ~> task[c] = "none"
=============================================================================
