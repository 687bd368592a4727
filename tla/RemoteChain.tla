----------------------------- MODULE RemoteChain -----------------------------
(***************************************************************************)
(* The firewall page's tab for the chain of one peer: the chain on the     *)
(* peer, read and rewritten over SSH, the working copy (peer.json) and the *)
(* backup a write leaves beside it (peer.prepush.bak).                     *)
(*                                                                         *)
(* A task is a coroutine of the event loop.  It touches the two files only *)
(* between awaits; the SSH work runs in a thread, one command a step.      *)
(***************************************************************************)
EXTENDS Naturals, Sequences, SequencesExt, FiniteSets, Subsequences

CONSTANTS
    Tasks, Rules,
    SiteRule,      \* the rule a deployment of the peer's firewall puts in the chain
    NoTask,
    ChainFaults,   \* kinds of failure that may happen; "ignored": -F fails unnoticed
    Together,      \* sets of classes of operations that may overlap with each other
    MaxRows        \* bound: rows of the working copy, rules of the chain

Edits   == {"raw", "block", "insert", "delete", "toggle", "reorder", "paste"}
Guarded == {"import", "drop", "switch", "push"}
Fetches == {"fetch", "pull"}

\* Only the class of a running operation matters to the others.
Class(op) == IF op \in Edits THEN "edit" ELSE IF op \in Guarded THEN "guarded" ELSE op
Classes == {"edit", "guarded"} \cup Fetches

ASSUME ChainAssumption ==
    /\ SiteRule \in Rules /\ NoTask \notin Tasks
    /\ ChainFaults \subseteq {"ssh", "disk", "crash", "ignored"}
    /\ Together \subseteq SUBSET Classes /\ MaxRows \in Nat \ {0}

VARIABLES
    chain,      \* the peer's chain: whether it exists, and its rules
    copy,       \* the working copy
    bak,        \* its prepush backup
    running,    \* the task that has set _remote_push_running_peer
    at,         \* the task's next step
    work,       \* its operation, the rows it writes and what it has read
    safe,       \* history: the last write or fetch began, or ended, with rows that agreed
    astray      \* history: why a copy that is not pending may not be the chain

chainVars == <<chain, copy, bak, running, at, work, safe, astray>>

Row   == [rule : Rules, on : BOOLEAN]
Rows  == UNION {[1 .. n -> Row] : n \in 0 .. MaxRows}
Lists == UNION {[1 .. n -> Rules] : n \in 0 .. MaxRows}
\* agreed is history: the rows are those that were pushed or fetched last.
NoFile == [kept |-> FALSE, pending |-> FALSE, rows |-> <<>>, agreed |-> FALSE]
Files  == [kept : BOOLEAN, pending : BOOLEAN, rows : Rows, agreed : BOOLEAN]
Pending(rows)  == [kept |-> TRUE, pending |-> TRUE, rows |-> rows, agreed |-> FALSE]
Agreeing(rows) == [kept |-> TRUE, pending |-> FALSE, rows |-> rows, agreed |-> TRUE]

AllOn(rules) == [i \in DOMAIN rules |-> [rule |-> rules[i], on |-> TRUE]]

\* Only the rows that are enabled are put into the chain, in their order.
RestsToPush(rows) ==
    LET enabled == Subsequence(rows, {i \in DOMAIN rows : rows[i].on})
    IN  [i \in DOMAIN enabled |-> enabled[i].rule]

NoWork == [op |-> "none", rows |-> <<>>, snap |-> <<>>, todo |-> <<>>]

ChainInit ==
    /\ chain = [exists |-> TRUE, rules |-> <<SiteRule>>]
    /\ copy = NoFile /\ bak = NoFile
    /\ running = NoTask
    /\ at = [t \in Tasks |-> "idle"] /\ work = [t \in Tasks |-> NoWork]
    /\ safe = FALSE /\ astray = {}

(***************************************************************************)
(* What an operation makes of the rows it reads from the working copy      *)
(***************************************************************************)

RawEdit(rows)  == {ReplaceAt(rows, i, [rule |-> r, on |-> e]) :
                      i \in DOMAIN rows, r \in Rules, e \in BOOLEAN}
Block(rows)    == {ReplaceAt(rows, i, [rule |-> r, on |-> rows[i].on]) :
                      i \in DOMAIN rows, r \in Rules}
Inserted(rows) == {InsertAt(rows, i, [rule |-> r, on |-> e]) :
                      i \in 1 .. Len(rows) + 1, r \in Rules, e \in BOOLEAN}
Deleted(rows)  == {RemoveAt(rows, i) : i \in DOMAIN rows}
Toggled(rows)  == {[rows EXCEPT ![i].on = ~@] : i \in DOMAIN rows}
Reordered(rows) == {[i \in DOMAIN rows |-> rows[f[i]]] :
                      f \in {g \in [DOMAIN rows -> DOMAIN rows] :
                                \A i, j \in DOMAIN rows : g[i] = g[j] => i = j}}
Pasted == {AllOn(l) : l \in Lists}

\* The batch operations take the indices selected on the page that are in range.
Dropped(rows) ==
    {Subsequence(rows, DOMAIN rows \ S) : S \in SUBSET DOMAIN rows \ {{}}}
Switched(rows) ==
    {[i \in DOMAIN rows |-> IF i \in S THEN [rows[i] EXCEPT !.on = e] ELSE rows[i]] :
        S \in SUBSET DOMAIN rows \ {{}}, e \in BOOLEAN}

Outcomes(op, rows) ==
    CASE op = "raw" -> RawEdit(rows)          [] op = "block" -> Block(rows)
      [] op = "insert" -> Inserted(rows)      [] op = "delete" -> Deleted(rows)
      [] op = "toggle" -> Toggled(rows)       [] op = "reorder" -> Reordered(rows) \ {rows}
      [] op \in {"paste", "import"} -> Pasted
      [] op = "drop" -> Dropped(rows)
      [] op = "switch" -> Switched(rows) \ {rows}
      [] op = "push" -> IF copy.kept THEN {rows} ELSE {}

(***************************************************************************)
(* A write: backup and working copy, then the chain, then the outcome      *)
(***************************************************************************)

Busy == {t \in Tasks : at[t] # "idle"}

MayStart(op) ==
    \/ Busy = {}
    \/ \E S \in Together : {Class(op)} \cup {work[t].op : t \in Busy} \subseteq S

Rest(t) == at' = [at EXCEPT ![t] = "idle"] /\ work' = [work EXCEPT ![t] = NoWork]

\* Mutants: the backup is taken after the copy was written; the copy is
\* written as if the peer had it already.
MarkThenBackup(rows, fresh) ==
    /\ copy' = Pending(rows)
    /\ bak' = IF fresh THEN copy' ELSE bak
MarkAsPushed(rows, fresh) ==
    /\ copy' = [Pending(rows) EXCEPT !.pending = FALSE]
    /\ bak' = IF fresh THEN copy ELSE bak

\* mark_pending_apply: a copy of the file there is, then the new rows.
MarkPending(rows, fresh) ==
    /\ bak' = IF fresh THEN copy ELSE bak
    /\ copy' = Pending(rows)

\* The disk fails, or the service dies, before the file is written.
DiskFails == ChainFaults \cap {"disk", "crash"} # {}

\* Every operation reads the copy, changes the rows, and marks them pending
\* before its first await.  Only some look at running.  Nothing is begun if the
\* copy cannot be backed up or written.
Write(t, op) ==
    /\ at[t] = "idle" /\ MayStart(op)
    /\ op \in Guarded => running = NoTask
    /\ \/ /\ \E rows \in Outcomes(op, copy.rows) :
              /\ Len(rows) <= MaxRows
              /\ MarkPending(rows, copy.kept)
              /\ work' = [work EXCEPT ![t] = [NoWork EXCEPT !.op = Class(op), !.rows = rows]]
          /\ at' = [at EXCEPT ![t] = "flush"]
          /\ running' = IF op \in Guarded THEN t ELSE running
       \/ /\ DiskFails /\ copy.kept
          /\ bak' = copy
          /\ UNCHANGED <<copy, running, at, work>>
    /\ safe' = copy.agreed
    /\ UNCHANGED <<chain, astray>>

Rests(t) == RestsToPush(work[t].rows)

\* replace_peer_filter_chain_rests_via_ssh: the chain must be there; then -F,
\* whose result nobody looks at.
Flush(t) ==
    /\ at[t] = "flush" /\ chain.exists
    /\ \/ chain' = [chain EXCEPT !.rules = <<>>] /\ astray' = astray \ {"unflushed"}
       \/ /\ "ignored" \in ChainFaults /\ Len(chain.rules) + Len(Rests(t)) <= MaxRows
          /\ astray' = astray \cup {"unflushed"} /\ UNCHANGED chain
    /\ work' = [work EXCEPT ![t].todo = Rests(t)]
    /\ at' = [at EXCEPT ![t] = "append"]
    /\ UNCHANGED <<copy, bak, running, safe>>

AppendRule(t) ==
    /\ at[t] = "append" /\ work[t].todo # <<>>
    /\ chain' = [chain EXCEPT !.rules = Append(@, Head(work[t].todo))]
    /\ work' = [work EXCEPT ![t].todo = Tail(@)]
    /\ UNCHANGED <<copy, bak, running, at, safe, astray>>

\* A command fails, or there is no such chain; or the connection breaks, with
\* the command done or not.
SshFails(t) ==
    /\ at[t] \in {"flush", "append"}
    /\ \/ ("ssh" \in ChainFaults \/ (at[t] = "flush" /\ ~chain.exists)) /\ UNCHANGED chain
       \/ /\ "ssh" \in ChainFaults /\ chain.exists
          /\ chain' = [chain EXCEPT !.rules =
               IF at[t] = "append" /\ work[t].todo # <<>>
               THEN Append(@, Head(work[t].todo)) ELSE IF at[t] = "flush" THEN <<>> ELSE @]
    /\ at' = [at EXCEPT ![t] = "failed"]
    /\ UNCHANGED <<copy, bak, running, work, safe, astray>>

Done(t) == running' = IF running = t THEN NoTask ELSE running

\* record_after_apply(ok): the rows that were pushed, then no backup; that it
\* cannot be deleted is a warning.
RecordPushed(t) ==
    /\ at[t] = "append" /\ work[t].todo = <<>>
    /\ \/ /\ copy' = Agreeing(work[t].rows)
          /\ bak' = NoFile \/ (DiskFails /\ UNCHANGED bak)
          /\ safe' = TRUE /\ astray' = astray \cap {"unflushed"}
          /\ Rest(t) /\ Done(t)
       \/ /\ "disk" \in ChainFaults
          /\ at' = [at EXCEPT ![t] = "failed"]
          /\ UNCHANGED <<copy, bak, running, work, safe, astray>>
    /\ UNCHANGED chain

\* record_after_apply(not ok): the backup, or the rows where there is none,
\* marked as pending.  The backup stays.
RecordFailed(t) ==
    /\ at[t] = "failed"
    /\ \/ copy' = IF bak.kept THEN [bak EXCEPT !.pending = TRUE] ELSE Pending(work[t].rows)
       \/ "disk" \in ChainFaults /\ UNCHANGED copy
    /\ Rest(t) /\ Done(t)
    /\ UNCHANGED <<chain, bak, safe, astray>>

(***************************************************************************)
(* A fetch, and what else changes the chain                                *)
(***************************************************************************)

Fetch(t, op) ==
    /\ at[t] = "idle" /\ MayStart(op)
    /\ at' = [at EXCEPT ![t] = "read"]
    /\ work' = [work EXCEPT ![t] = [NoWork EXCEPT !.op = op]]
    /\ UNCHANGED <<chain, copy, bak, running, safe, astray>>

ReadChain(t) ==
    /\ at[t] = "read"
    /\ \/ /\ work' = [work EXCEPT ![t].snap = chain.rules]
          /\ at' = [at EXCEPT ![t] = "fetched"]
       \/ "ssh" \in ChainFaults /\ Rest(t)
    /\ UNCHANGED <<chain, copy, bak, running, safe, astray>>

\* A fetch whose generation is over is dropped; a pull has none.
Superseded(t) ==
    /\ at[t] = "fetched" /\ work[t].op = "fetch"
    /\ Rest(t)
    /\ UNCHANGED <<chain, copy, bak, running, safe, astray>>

\* Mutant: the lines are written as they were read and not as rows.
SnapshotUnparsed(snap) == snap

SnapshotRows(snap) == AllOn(snap)

\* record_from_fetch: the backup is deleted first, if it can be; then every rule
\* of the chain is written as a row that is enabled.  Disabled rows are lost.
RecordFetched(t) ==
    /\ at[t] = "fetched"
    /\ \/ /\ copy' = Agreeing(SnapshotRows(work[t].snap))
          /\ bak' = NoFile \/ (DiskFails /\ UNCHANGED bak)
          /\ safe' = TRUE /\ astray' = {}
       \/ /\ DiskFails
          /\ bak' = NoFile /\ safe' = copy.agreed
          /\ UNCHANGED <<copy, astray>>
    /\ Rest(t)
    /\ UNCHANGED <<chain, running>>

\* A deployment of the site's firewall makes the chain anew and does not
\* look at the working copy; where -F fails the rules are put after the old ones.
SiteDeployed ==
    /\ Busy = {} /\ "deployed" \notin astray
    /\ \/ chain' = [exists |-> TRUE, rules |-> <<SiteRule>>]
       \/ /\ "ignored" \in ChainFaults /\ Len(chain.rules) < MaxRows
          /\ chain' = [exists |-> TRUE, rules |-> Append(chain.rules, SiteRule)]
    /\ astray' = astray \cup {"deployed"}
    /\ UNCHANGED <<copy, bak, running, at, work, safe>>

SiteRemoved ==
    /\ Busy = {} /\ "deployed" \notin astray /\ chain.exists
    /\ chain' = [exists |-> FALSE, rules |-> <<>>]
    /\ astray' = astray \cup {"deployed"}
    /\ UNCHANGED <<copy, bak, running, at, work, safe>>

\* The service dies; the files and the peer stay as they are.
ChainCrash ==
    /\ "crash" \in ChainFaults /\ Busy # {}
    /\ at' = [t \in Tasks |-> "idle"] /\ work' = [t \in Tasks |-> NoWork]
    /\ running' = NoTask
    /\ UNCHANGED <<chain, copy, bak, safe, astray>>

ChainTask(t) ==
    \/ Flush(t) \/ AppendRule(t) \/ SshFails(t) \/ RecordPushed(t) \/ RecordFailed(t)
    \/ ReadChain(t) \/ Superseded(t) \/ RecordFetched(t)

ChainNext ==
    \/ \E t \in Tasks :
         \/ ChainTask(t)
         \/ \E op \in Edits \cup Guarded : Write(t, op)
         \/ \E op \in Fetches : Fetch(t, op)
    \/ SiteDeployed \/ SiteRemoved \/ ChainCrash

ChainSpec == ChainInit /\ [][ChainNext]_chainVars

(***************************************************************************)
(* Properties                                                              *)
(***************************************************************************)

ChainTypeOK ==
    /\ chain \in [exists : BOOLEAN, rules : Seq(Rules)]
    /\ copy \in Files /\ bak \in Files
    /\ running \in Tasks \cup {NoTask}
    /\ at \in [Tasks -> {"idle", "flush", "append", "failed", "read", "fetched"}]
    /\ \A t \in Tasks : work[t].op \in Classes \cup {"none"} /\ work[t].rows \in Rows
    /\ astray \subseteq {"unflushed", "deployed"}

\* Once nothing runs, nobody has deployed the site's rules since, and the copy
\* says that it was pushed.
LooksPushed == Busy = {} /\ copy.kept /\ ~copy.pending /\ "deployed" \notin astray

\* A working copy that is not marked pending is what the peer runs: no write that
\* failed, was not settled or was interrupted leaves a copy that looks pushed and
\* is not (pending_sync in remote_chain_cache.py).  Where -F failed unnoticed its
\* rules are the last ones of the chain, after whatever was there.
PendingTellsTheTruth ==
    LooksPushed =>
        IF "unflushed" \in astray
        THEN \E old \in Lists : chain.rules = old \o RestsToPush(copy.rows)
        ELSE chain.rules = RestsToPush(copy.rows)

\* The rows that were pushed or fetched last are not lost by the write that begins
\* with them, be it that it fails, cannot be settled or dies at any step: they are
\* the copy or its backup until a write succeeds, or one begins with other rows
\* (_backup_main_json_before_mutation).
AgreedRowsKept == safe => copy.agreed \/ bak.agreed
=============================================================================
