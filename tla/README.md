# NiceVPN: a verification project in TLA+

NiceVPN administers OpenVPN servers: a NiceGUI console (port 8880) and a FastAPI
interface (8881) in one Python process, a command line that is a process of its
own, SQLite for its records, and the kernel's iptables and ipset, EasyRSA's PKI,
OpenVPN's configuration and CCD files and other sites' routers as the places where
its decisions take effect. The difficulty of the system is there: **every operation
changes several stores that no common transaction covers**, and it may fail, die or
meet another operation between any two of them. The modules here describe those
operations step by step, TLC checks them on small instances, and TLAPS proves every
safety property of the passing runs for every instance.

Paths below are relative to `src/app/` unless they begin with `docs/`, `specs/` or
`openspec/`.

## 1. Inventory

| Component | State it keeps | Operations | Modelled in |
|---|---|---|---|
| Forward refresh (`services/firewall/ipset_mgr.py`, `iptables_mgr.py`) | kernel sets, chain `VPN_FORWARD`, staging sets, a lock file | `refresh_vpn_forward_only`, `rebuild_rules`, over `reconcile`, `commit`, `rollback`, `gc` | ForwardRefresh |
| Rule centre (`rule_service.py`, `tag_service.py`) | rules per owner, tags and their members in SQLite; snapshots in memory | create, create_many, update, delete, enable, reorder, restore, tag membership | CenterRules |
| Storage migration (`storage/migration.py`, `sqlite_store.py`) | JSON files, temporary database, live database with a marker, archive | `ensure_storage_ready` | StorageMigration, ManagedData |
| User accounts (`services/user/crud.py`, `group/`, `cert/`, `easyrsa/`) | rows of users and groups, `user_count`, CCD files, profiles, `index.txt`, `issued/`, `crl.pem` | create, delete, toggle, change group, regenerate, revoke, renew; create, move, enable and delete groups | UserAccounts |
| Peer sites (`services/peer_instance/service.py`, `ccd_merge.py`) | peers' rows, forward rules, iroute and push-route blocks in CCD files | create, update, clear, switch, delete, mesh sync, start-up | PeerSites, CcdFile |
| Remote firewall of a peer (`remote_chain_cache.py`, `ui/pages/firewall_remote*.py`) | the peer's own chain, its working copy, the backup beside it | edit, import, drop, switch, push, fetch, pull | RemoteChain |
| Host of a peer (`remote_openvpn.py`, `remote_peer_*.py`, `peer_ssh_connect.py`, `ui/pages/peers.py`) | software, profile, systemd unit and site rules on another machine | one-click assembly, pushes, deployment and removal of rules, client control | PeerClient |
| Device binding (`user/device_bind.py`, `scripts/device-bind.sh`) | one JSON file per binding, the mode file | the connect script, reset, deletion, change of the policy | DeviceBinding |
| Backup (`backup/full_backup.py`) | archives, the whole machine | create, check an upload, restore | FullBackup |
| First-run wizard (`core/init_wizard.py`, `ui/pages/init_page.py`) | a copy of the configuration per page, PKI directory, default group, `server.conf` | detect, install, make the PKI, choose the pool, start | InitWizard |
| Settings (`ui/pages/settings.py`, `group/crud.py`, `openvpn/instance.py`) | `config.json` and what is derived from it | save the server's settings, the binding mode, the root subnet | ServerSettings |
| Upgrade of OpenVPN (`openvpn/upgrade.py`, `ui/pages/services.py`) | production tree, candidate, unit, link, running instances | build, check, replace, restart, put back | Upgrade |
| Pages of rules and users (`ui/pages/firewall*.py`, `users.py`) | lists loaded earlier, selections, forms, jobs in threads | paging, filters, batches, dragging, imports | RuleConsole, UserConsole |
| Start-up, scheduler (`core/scheduler.py`) | none | rebuild of the rules at start | the step after a crash in CenterRules, PeerSites |
| API, CLI (`api/`, `cli/`) | none | call the services | the callers of the modules above |
| Download links; other pages; audit, monitor, diagnostics, notifications, administrators | one file each, or none | | not modelled, reasons in section 8 |

**How they interact.** Services call each other directly. A change of a user, a
group or a peer ends with a refresh of the firewall (`TagService.
refresh_if_referenced`, `PeerService`) and often with a rewriting of CCD files,
which four parts of the program write without knowing of each other. The rule
centre reads users' addresses from those CCD files to resolve tags. A save of the
settings rewrites every instance's `server.conf`, the default rule, `VPN_FORWARD`
and all profiles. At start-up the scheduler rebuilds the firewall from the database
(`core/scheduler.py:56-71`).

**What runs at the same time.** API handlers are `def` functions, so they run in
a pool of threads; the pages run services on the event loop or, for imports, SSH,
backups, upgrades and the wizard's PKI, in `run.io_bound` threads, between whose
start and end the loop serves other clicks and other pages; the CLI is another
process; OpenVPN runs `device-bind.sh` once at a time in each instance. Locks: one
lock file plus thread lock around an ipset transaction, one thread lock around user
creation, one around the migration, one lock file per JSON file while it is
written. The pages have flags (`_refresh_running`, `_remote_push_running_peer`,
`_center_import_running`). Everything else is unprotected.

**What makes each component correct**

- *Forward refresh*: all or nothing. After a failure the kernel enforces what it
  enforced before; after a success exactly the plan; the lock comes back; no set
  with members is left over.
- *Rule centre*: at rest the kernel follows the database; a failed call gives the
  rules back as far as the database lets it.
- *Migration*: one switch, with all the records, never taken back; the JSON files
  stay until it has happened; the program always comes up.
- *Accounts*: addresses are unique; a group's count is the number of its users; a
  user is refused exactly while disabled; a deleted user's certificate is in the
  CRL; a profile holds the newest certificate.
- *Peers*: rules, iroutes and pushed networks are those of the rows; no writer of
  a CCD file takes another's lines; an assembly that reports success has made a
  client that serves; a working copy not marked pending is what the peer runs, and
  the rows last agreed upon are never lost.
- *Host*: a system marked initialised is completely set up; everything derived
  from the configuration follows it; an upgrade and each part of a restore is all
  or nothing, and what was there before can be had back.
- *Pages*: what is shown answers what was asked last; no two rules get one
  priority; a report says what was done.
- *Bindings*: a user has one device.

**Hard behaviours.** Failure of any of some twenty external commands, including
those of the recovery; timeouts after which the command may have taken effect; the
death of the process between two stores; files cut off while they are written in
place; plans, rows and snapshots read before a lock or an await and used after it;
repeated calls from stale lists; a broken SSH connection in a sequence of commands;
two processes where the lock is a thread's. `PROJECT.json` lists the hazards line by
line, with the properties that cover them or why none does.

## 2. Modules

    ForwardRefresh ---- CenterRules (EXTENDS it: the same kernel under the services)
         |                   |
    MCForwardRefresh    MCCenterRules         FirewallProofs

    StorageMigration -- ManagedData (the abstract specification it implements)
         |
    MCStorageMigration                        StorageMigrationProofs

    UserAccounts ------ MCUserAccounts        UserAccountsProofs

    PeerSites   CcdFile   PeerClient   RemoteChain
         \__________\_____________\__________\___ MCPeers
                              CcdFileProofs, and PeersProofs on top of it

    InitWizard  ServerSettings  Upgrade  FullBackup
         \__________\_____________\__________\___ MCHost
                              HostProofs

    RuleConsole  UserConsole  DeviceBinding
         \___________\____________\______________ MCConsoles
                              ConsolesProofs

    Subsequences (CcdFile, RemoteChain, RuleConsole, UserConsole EXTEND it)
                              SubsequencesProofs, under the three above that need it

The modules of the last three groups share no variable within a group. Their MC
module EXTENDS all of them and adds one variable, `follow`, that chooses at the start
which one a behaviour follows, the others keeping one fixed initial state; so one run
checks a group, and its states are the sum of the modules' states, not the product.
The proof modules of the last three groups EXTEND the MC module, since their last
theorems are about the composition; every other theorem is about the specification of
one component (`SiteSpec`, `HostSpec`, `RuleSpec`, ...) and uses nothing of the
instance.

**Subsequences** has the one operator on lists that four components share: the
elements at a set of positions, in their order (a comprehension with a condition). It
is described by counts, `PlaceIn(I, i)` being the number of positions up to i, and not
by recursion as `SelectSeq` is, so that the lemmas about it can be proved.

The modules were written in the order of the diagram, and the proofs as well. What
would come next: the certificates of UserAccounts when a deletion overlaps a renewal of
another user, which `Turns` excludes now.

## 3. How the models correspond to the code

**ForwardRefresh.** `pc[c]` is where caller c stands in `refresh_vpn_forward_only`
or `rebuild_rules`: `save` (iptables-save), `lock`, `reconcile` (one `StageAndSwap`
per set: create and fill a staging set, swap it with the stable one, record the
swap), `prepare` (rule text), `load` (flush, iptables-restore), `hooks`, `commit`
(destroy staging sets, collect obsolete ones) and, on failure, `undo` (rollback of
the swaps in reverse), `restore` and `readd` (the saved chain, rule by rule).
`swapped` and `created` are `txn.swaps`; `stage` is what the staging sets hold, the
undo log. `base` and `installed` are history. A rule is identified with the set it
matches, so the chain is a set of names: rules with a single address, which have no
set, and the order of rules are not modelled. `Faults` selects the commands that
may fail.

**CenterRules** extends it. A call stores its change (`Snapshot`, then `Save` per
owner, each a transaction), reads the plan (`ReadPlan`, one step: all the queries of
one plan), runs the refresh (`Enforce`), and on failure writes the snapshots back,
again owner by owner (`Fail`, then `Undo`), except the rows of peers, which the code
does not roll back. SQLite may refuse any of these writes: `SaveRefused` ends the call
with the owners before it stored, and a peer whose update raises possibly stored as
well, since `update` writes the row first; `UndoRefused` leaves the remaining owners
with the rules of the call. In both nothing asks for a refresh. `db` is what a refresh
would read: for every name the members its enabled rules would get. Changes of users,
groups and peers that reach the firewall are `ChangeMembers`, which refresh;
`CreateUser` is the one that does not. A dead process starts again with `Rebuild`.
`drift` is history: the names such calls left stored but not enforced, until a
refresh succeeds.

**StorageMigration.** `temp` and `db` are the two database files (existence,
schema, marker, rows), `legacy` and `archived` the JSON records, `bad` those that
cannot be read. The steps are the statements of `ensure_storage_ready`: look at the
live database, unlink leftovers, initialise, import kind by kind, verify the
counts, set the marker, checkpoint, `os.replace`, move the JSON files. `MaxCrashes`
and `MaxErrors` bound crashes and failures. **ManagedData** says what is promised:
one switch, the same records on both sides of it, then one change at a time;
`MigratesOnce` is that StorageMigration implements it, with `backend` and `rows`
defined from the marker.

**UserAccounts.** `record` and `group` are rows, `ccd` the address and the
`disable` line of a CCD file, `ovpn` the certificate in the profile, `index` the
lines of `index.txt` for a name, oldest first, `issued` the names with a certificate
on disk, `crl` the published list. A call reads its arguments and checks in one
step (`Delete`, `ToggleStatus`, `ChangeGroup`, `UpdateSubnet`, ...) and writes one
store per step after it; `job.rec` and `job.row` hold the rows it has read and will
write back whole. `create` takes the lock (`Enter`), looks for an address, signs,
writes the profile, looks for an address again, writes the CCD file, the row, the
count. A rewriting of one CCD file is one step. EasyRSA is external: sign-req
refuses while a certificate of the name is on disk, revoke moves it away, renew
adds a second valid line. `unsettled` is history: the users and groups a failure or
a crash left between two stores, which the invariants at rest leave out until a
call settles them (a repeated deletion does). `Revoke` may fail with the certificate
there; a deletion goes on all the same, as the code does, and `unrevoked` (history)
remembers the name until a revocation of it is in the CRL. `Overlap` names the calls that may run
while another does. The program holds a lock for creates only; the runs let creates
and the certificate page's revocations overlap. What goes wrong when two unlocked
read-modify-write sequences meet is plain from the code and listed under the
hazards; what deserves checking is whether the sequences are right by themselves,
under every failure, and whether the one lock does its work.

**PeerSites.** `site` is a peer's row; `forward`, `iroute` and `pushed` are the three
things derived from it. An operation is the list of its remaining steps, `call.todo`:
`update` compares the fingerprints of the old row and the new one and keeps the steps
whose fingerprint changed. A step that raises, or a crash, ends the call; `troubled`
remembers what the call had not come to, until a later call does it. Users are
enabled, disabled, moved and deleted meanwhile, each with what it does to the CCD
file, and `skipped` remembers those the last mesh sync passed over.

**CcdFile** looks at the file PeerSites has as a set of blocks: the lines in order.
The four writers are operators on the text (`Without`, `Merged`, `LineSwitched`,
`Readdressed`); `WriteText` writes the result, or, cut off, a beginning of it. `meant` is
history: what each writer last meant to say.

**PeerClient.** `task.todo` is the list of remote commands an operation has still to
issue; each is a step that succeeds, fails, or is lost with the connection. A `-D`, `-F` or
`-X` that fails ends nothing (`PassOver`, in `Unjump` and `Unmark`): what it should have deleted stays,
the operation goes on and puts the new rules beside it, and may report success;
`verdict.slips` remembers that. `marks` counts the lines of each kind up to two. Other
changes of the host come between any two commands. `Compare` stands for the tests the
shell script makes before it writes. `live` is the profile the client was last started with.

**RemoteChain.** `copy` and `bak` are the working copy and the backup beside it,
`chain` the peer's chain. A task is a coroutine: what it does to the files between two
awaits is one step, the SSH commands are steps of their own (`at`, `work`).
`running` is `_remote_push_running_peer`, which imports, drops, switches and pushes
look at and edits, fetches and pulls do not. `Flush` may fail without anybody looking,
and the rows are then appended to what was there; a fetch clears the backup first and
writes the copy after it, two steps. `safe` and `astray` are history: whether rows that
were agreed upon must be in the copy or the backup, and whether a chain was not emptied
or was written by a deployment.

**InitWizard.** `page[p]` holds the form a page shows and its copy of the configuration
(`cfg`, and `base` as it was read); every step writes the whole copy back. `thread[p]`
is the next step of installation or PKI in its thread, which goes on when the page is
gone; `loop` is the start step that holds the event loop. `pki` is the directory as
`_inspect_pki_materials` sees it, with the certificates carrying the number of their
CA, so that one an earlier CA signed, or one that was found on disk (`Found`), is told
apart. The last step, which saves the configuration and sets permissions, may fail too. `crossed` is history:
a copy was saved over a newer file, or two threads met in one directory.

**ServerSettings.** `job` is the save in progress with the old and new configuration.
The server's settings write `server.conf` for each instance, the rules and the
profiles, and on failure put the old configuration back and write everything again,
which may fail too; the binding mode and the root subnet have their own sequences.
`masq` is the source of MASQUERADE and of the INPUT rule, which only a full rebuild
writes; a change of the root subnet refreshes `VPN_FORWARD` alone. The
configuration editor may overwrite one file by hand and an API thread may write a
profile from a configuration it read earlier. `drift` is history: which derived thing
may lag behind, and why; a step that writes the thing again takes it off.

**Upgrade.** `at` is the step of `upgrade`: staging, the checks of the candidate, the
record of what runs, the copy beside the prefix, the two renames, link, units, restart
of each instance, the checks after it, discarding the old tree, and the four steps of
putting back. Link and units are removed before they are made again, so they may be
`gone` when a step fails, also in the recovery. `LocalAction` is the administrator's, who may start and stop instances
meanwhile; those are `excused` (history), and `broken` says that the recovery itself
failed or the program died in the middle.

**FullBackup.** A part of the machine is a number that a change raises. A backup copies
part by part (`copying`), so it may hold parts of different moments; a restore makes a
backup first, extracts the upload, and replaces part by part, a directory by moving the old one aside and the new one in, or the old one back; another part of the
program may make the directory again in between. Checking and unpacking the archive and
making the first backup may fail before anything is replaced. The archive is taken to
name the same directories as the configuration in force. `disturbed` and `erased` are
history.

**RuleConsole and UserConsole.** The state of a page object and the rows it shows; a
load is a member of `loads` that goes through timer, names, page and answer; one that
is overtaken goes on, does not fill the rows any more, and may still move the page number. Handlers that await the
browser (`ticks`, `filtering`, `entering`, `asking`) or a thread (`importing`, `job`)
are two steps, with what happens in between; the column filter looks at the dragging
mode before it waits and not after. A form keeps the row it was opened with (`dialog`).
A call of a service is one step that succeeds or raises, except the two that save owner
by owner: a global order and a restore may raise with some owners saved (`SaveFails`,
`RestoreFails`). The user
page's jobs are lists of names a thread works off, `report` what the page's timer last
showed; a page may go away while its job runs (`orphan`).

**DeviceBinding.** `script[g]` is the script instance g runs: find the user's file (the
first in the order of names), compare, create or rewrite it, audit. A file's text is
`whole`, `named` or `empty`, as a write leaves it that is under way, failed or was
killed. `known` is history, the fingerprints admitted since the last reset; `slips`, the
users of whom a first connection met another one, a reset or a killed rewrite, which
the files do not protect against.

Definitions named in a "Mutant:" comment are plausible errors of the code. Each
property of a passing run is shown to fail when the definition it is about is
replaced by its mutant.

## 4. Runs

| Run | Instance | Shows |
|---|---|---|
| RefreshAllFaults | 2 callers, 2 sets, 1 content, every failure, failing recoveries, crash | `TypeOK`, `UndoLog`, `RollbackRestores`, `CommitInstalls` |
| RefreshNotOvertaken | 2 callers, 2 sets, 2 contents, failures of the work but not of the recovery; no other call overtakes a failing one | `FailureKeepsRules`, `LeftoversAreEmpty` |
| CenterOneCaller | 1 caller, rules of a group and of the peers, every failure, of the rollback's writes too, crash at any step | `AllTypeOK`, `KernelFollowsDb`, `FailedCallRestoresRules`, `CallReturns` (liveness) |
| MigrationRestart | 1 process, 2 crashes and 2 failures at any step, unreadable files, an unmarked database, JSON files that come back | `TypeOK`, `LegacyKept`, `ServesMigrated`, `MigratesOnce` (refinement), `StartsUp` (liveness) |
| AccountsInTurn | 2 callers whose creates and revocations overlap, 2 users, the root group and one inside it with a single address, every failure, crash at any step | `TypeOK`, `AddressesUnique`, `CountsMatch`, `DisabledEnforced`, `RevokedWhenDeleted`, `ProfileCurrent` |
| PeersInTurn | centre: 2 peers, 2 users, 2 groups, failures and crashes between any stores; file: 4 writers, 2 torn writes; host: commands that fail anywhere, noticed or not; chain: 2 tasks, 2 rules, SSH and disk failures, an ignored one, crash | `ServedAsStored`, `MeshAsStored`; `OwnLinesSafe`, `PartsAsMeant`; `AssembledIsServing`, `SiteExact`; `PendingTellsTheTruth`, `AgreedRowsKept`; types |
| HostInTurn | wizard: 2 pages, a failure and a crash; settings: 2 instances, 2 troubles, an editor, an API thread; upgrade: 2 instances, 2 failures, a crash; backup: 5 parts, other writers, 2 errors, a crash | `SetupWhole`; `FollowsConfig`; `AllOrNothing`; `RestoreWhole`; types |
| ConsolesInTurn | rules: 2 rules, 2 loads at once, another session; users: 2 jobs, lists that repeat a name; binding: 2 instances, 2 devices, a kill, a reset or change of policy | `ListAsAsked`, `PrioritiesDistinct`; `ReportTrue`; `OneDevice`; types |
| CenterStalePlan | 2 callers, 1 rule, no failure, no user created | **violates** `KernelFollowsDb` |
| AccountsStaleDelete | 1 caller, no failure, deletions from a stale list | **violates** `GroupsKeepUsers` |
| WizardPortIgnored | 1 behaviour of the wizard, no failure needed | **violates** `ListensOnPort` |
| DragsOnePage | 1 administrator, no failure | **violates** `DragsWholeList` |

The four violations are places where the code does something else than a document
or comment of the repository says; `PROJECT.json` quotes both under "findings". In
short:

1. The plan is read before the lock, so an older plan may be installed last.
2. Deleting a user twice counts the group down twice, and the group can then be
   deleted under its other users.
3. The port entered in the wizard is stored and not written to `server.conf`.
4. A change of a rule while the order is dragged reloads one page of the list, and
   the order to be saved holds only that page.

In five more places the models show the code to break what a document or docstring
promises. There the property of the passing run names the event as an exception, says
what still holds, and a hazard quotes the line:

- a deletion whose revocation EasyRSA refuses marks the user deleted and leaves a valid
  certificate (`unrevoked`; `specs/.../spec.md`, FR-007);
- the removal of a site's rules reports success although commands that delete failed
  (`slips`; `remote_peer_iptables.py:266`);
- a push whose `-F` fails is recorded as aligned, while the old rules stay above the new
  ones (`astray`; `remote_chain_cache.py:244`);
- a change of the root subnet leaves MASQUERADE to the old one until a full rebuild
  (`drift`; `openspec/changes/vpn-bugfix-2026-04-03-r2/tasks.md:8`);
- after such a change has failed at the default rule no later one finds that rule
  (`drift`; `group/crud.py:137`).

## 5. Bounds, and why they are enough

- *Two callers* meet in every order two calls can; a third adds only another waiter at
  the same lock. *Two sets* let one be swapped and the other not when staging fails;
  *two contents* tell an old plan from a new one.
- Where liveness or the services are checked (`CenterRules`) there is one caller and
  one content: enabled and disabled rules, empty and full sets are told apart, and the
  questions are about failures. Two names with different owners make a restore stop in
  the middle.
- *Two crashes and two errors* let the recovery of a recovery fail; nothing in the
  migration counts attempts. *Two kinds* and three records let an import fail after
  another kind has been imported and within a kind.
- *Two users, two groups, addresses {1, 2} and {1}*: the group lies within the root's
  subnet and is full with one user, so running out of addresses, a second look that
  finds none, and competition between groups for one address all occur. `MaxCerts = 2`
  allows a renewal and a re-creation of a name; `MaxCount = 2` lets both users be in a
  group. `FewFailures` keeps one user or group unsettled at a time, and three
  certificates; a group just disabled is checked and not followed further, since all a
  disabled group does is to refuse users who change to it.
- `NotOvertaken` (in ForwardRefresh) restricts RefreshNotOvertaken to behaviours in which no other call
  commits between a failing call's snapshot and its restoration: the snapshot is taken
  before the lock, and without the restriction a failing call puts an old chain over
  the other's rules. `ApplyFaults` are the failures of the work without those of the
  recovery, `CallFaults` the same for the services, with SQLite's and the crash.
- PeersInTurn: two peers share a user or a group, or neither; the second is one fixed
  site that is there or not, since what concerns it is only that its networks survive
  what is done to the first. `OneTrouble` keeps one store left behind at a time, and
  no user passed over by a sync; on the host one kind of line piles up at a time, and a
  second profile or place goes with deletions that succeed. None, one and more than one
  line of a kind are what the rules of a site distinguish. In the file, two torn writes let a torn block meet
  the tear of another, and two routes give a block an inside. `MaxProfile = 2` tells
  an old profile from the current one. Two rows and two rules suffice for reordering,
  a partial write and a disabled row; `Guarding` lets those operations overlap that
  look at `_remote_push_running_peer`, and fetches with pulls, and no others.
- HostInTurn: two pages make a stale copy and two threads possible; `Apart` cuts the
  behaviours after either has happened (`crossed`), at which point nothing is
  promised, so pages still interleave everywhere else. It also keeps two troubles in
  the settings, not editor and API thread at once, and two derived things adrift beside
  MASQUERADE. Two
  instances let a rewriting or restart stop between them. Five parts are one of each
  kind: database, file that may be missing, needed and other directory, needed file.
  `MaxRounds = 3` allows a backup, a restore and a restore of what the first one had
  saved.
- ConsolesInTurn: with two rules and page sizes 1 and 2 a list has one page or two;
  two loads let each overtake the other; two edits let another session change what a
  form was opened on. `OneHand` keeps one dialog, import, selection, filter, mode change or overtaken load
  at a time and cuts the behaviours `odd` records, which the properties exclude, but for
  an order saved halfway while the mode that can save it again lasts.
  One user, a device with a hardware address and one with a platform name only, two
  instances and two files let two first connections meet. The lists `<<1, 2>>` and
  `<<2>>` let two jobs want the same name.
- In DragsOnePage and WizardPortIgnored the same instances are searched to the first
  violation. CenterStalePlan leaves user creations out, which part kernel and database
  by themselves.
- `SYMMETRY` is used with safety properties only. Deadlock is checked except where the
  model may stop: where everything that is bounded has been used up.

Some properties speak of what a history variable has not recorded (`troubled`,
`skipped`, `unsettled`, `unrevoked`, `drift`, `astray`, `crossed`, `broken`, `disturbed`,
`odd`, `slips`). These are the events the code has no answer to; each is explained at its
variable, listed as a hazard, and recorded only by the action that is that event. Where
an event costs only part of what a property says, the property says the rest: rules of a
site still serve after a deletion that failed unnoticed, a chain that was not emptied
ends with the rows pushed, an order saved halfway is put right by saving it again.

## 6. Fairness

`CenterRules` assumes weak fairness of a caller's next step: every command the code
runs has a timeout, and Python's threads are preempted. Starting a call, a failure
or a crash is never assumed. `StorageMigration` assumes weak fairness of the
migration's steps, including the start of a process that stopped, which systemd
does. Nothing is assumed about the order in which waiting callers get a lock.
`CallReturns` allows for a process that dies for ever. The other modules state safety
only.

## 7. What is proved

Every theorem is about a component's specification and holds for every value of its
constants that satisfies the module's named assumptions: any number of callers, users,
rules, peers and failures. What it assumes beyond those is part of its statement:

| Hypothesis | Used by | Why it cannot go |
|---|---|---|
| `Faults \subseteq ApplyFaults`, `Faults \subseteq CallFaults` | FailedRefreshKeepsRules, NothingLeftBehind; KernelFollows | if `iptables-restore` of the saved chain fails, too, there is nothing left to do |
| `[]NotOvertaken` | FailedRefreshKeepsRules, NothingLeftBehind | a snapshot is taken before the lock; another call's rules are overwritten with it |
| `[]Serial` (at most one call runs) | FailedCallRestores, KernelFollows | the plan is read before the lock: CenterStalePlan |
| `"change" \notin Overlap` | AddressesStayUnique | `change_group` looks for an address outside the create lock |
| `Turns` (only creates and revocations overlap) | the other theorems on accounts | rows read before a deletion are written back after it |
| `~Stale` | CountsAgree | deleting from an old list counts twice: AccountsStaleDelete |
| `GuardedOverlap` | AgreedRowsSurvive, PendingIsTrue, ChainTyped, PeersTyped | edits take no notice of `_remote_push_running_peer` |
| `OneProcess` | three theorems on the migration | two processes unlink each other's temporary database |
| `DistinctBackup` | NoPriorityTwice | a restore installs the priorities of the file as they are |

The runs instantiate all of them, so TLC shows that behaviours of interest remain. A property that speaks of
`drift`, `troubled` and the like (section 5) is proved as it is stated there.

**FirewallProofs** (ForwardRefresh and CenterRules). The transaction, whatever fails and
however callers interleave:

- `TypeCorrect`, `UndoLogComplete`, `RollbackIsExact`, `CommitIsExact`: what staging
  sets and the list of swaps hold always suffices to give back the sets a transaction
  began with; a rollback does so, a commit installs the plan. The inductive invariant is
  `IInv == TypeOK /\ TxnExclusive /\ UndoLog /\ Staged`. `TxnExclusive` ties the lock to
  the callers' positions, so only its holder changes sets, staging sets and swaps;
  `Staged` says what has already been swapped in, which makes `StageAndSwap` skip it.
- `FailedRefreshKeepsRules`, `NothingLeftBehind`: the kernel keeps the last plan
  installed. `AtRest` says nothing of the middle of a call, so `QuietInv` adds
  `KeptInv`, which says at each step which of sets, sets at the start and saved chain
  still accounts for the last plan, and `Loaded`, that the chain is the new plan's from
  `Load` to `Commit`.

The services on top of it:

- `CallsOnlyRefresh`: `AllSpec => Spec`. Every step of a service is a step of the
  refresh or a stutter, so `IInv` need not be proved again.
- `CallTypesHold`: `AllSpec => []AllTypeOK`.
- `FailedCallRestores`: `FailedCallRestoresRules`, for every selection of failures, that
  of a save in the middle and of one of the rollback's included: the property says which
  owners the call then still owes (`Owed`). It rests on `SnapInv`: the snapshot holds the
  rules of all owners the call found, also where the call has stored half of them, and
  what the call has not stored, or has given back, is as it found it.
- `KernelFollows`: `KernelFollowsDb`. The invariant says what is still missing at each
  step: rules stored and not yet installed belong to a call that will refresh
  (`Ahead`, `FollowInv`), what a failing call would write back is what the kernel has,
  and after a crash nothing is promised of the kernel until `drift` shrinks (`Intact`).

**UserAccountsProofs**, from `AccountsAssumption` (the root group and its subnet exist,
every subnet is a finite set of positive addresses within the root's) and
`NamesAssumption` (users and groups are different things: rows of two tables):

- `AccountsTyped`: `TypeOK`. The inductive invariant `TypeInv` adds what a call knows at
  each of its steps (`Knows`) and that every name with a certificate on disk has a line
  in `index.txt`, without which `Revoke` would change line 0.
- `AddressesStayUnique`: the other calls may overlap as they like, more freely than in
  any run. With `change` among them TLC finds two users with one address in 21 states.
  The inductive invariant is `TypeInv /\ AddressesUnique /\ Holds /\ Fresh /\ Alone`: a
  create holds the lock from `Enter` to `WriteCcd`, and the address a call is about to
  write is in no CCD file. That the smallest free address exists (`LeastExists`) follows
  from the well-foundedness of finite sets under inclusion.
- `DisabledStayOut`, `DeletedAreRevoked`, `ProfilesAreCurrent`: CCD file, CRL and profile
  at rest, the CRL but for users in `unrevoked`. `TurnInv` says that of the calls that change stores at most one has read
  anything (`OneBusy`), while revocations run beside it; `UserInv`, that what a call has
  read is still so (`Carries`) and that the stores of a user agree except in what a call
  under way has yet to do (`Agree(u, Callers)`: it `Switches`, `Reissues` or `Creates`).
  At rest no call is left, and `Agree(u, {})` is the three properties. A failure or crash
  ends a call in the middle: then, and only then, the user is in `unsettled`.
- `CountsAgree`: `CountsMatch`. In the middle of calls the count is wrong by what they
  owe: `Balance(g, Callers)` says that `user_count` plus the joins still to be counted is
  the number of members plus the leaves still to be counted, and `Dues(c)` which those
  are. The sums are cardinalities of sets of calls.

**SubsequencesProofs**: what `Subsequence` returns. `PlacesAmong` numbers a finite set
of integers: places are distinct and at most its cardinality, so all of them are taken
(an injection between finite sets of one size is onto; no induction over the list).
`SubsequenceIs` gives length, elements and order, `Appended` and `WholeSubsequence` the
two cases the chain needs.

**CcdFileProofs** (`CcdAssumption`: the mesh block's name is no peer's, routes are
finitely many), for any peers, addresses, networks, and any number of torn writes:

- `CcdTyped`, `OwnLinesKept`: `CcdTypeOK` and `OwnLinesSafe`. The inductive invariant
  `CcdInv` holds through torn writes with `OwnFirst` alone: the user's own lines come
  before every block, in each text and in each beginning of it, so that a block whose
  end marker was cut off has none of them behind it.
- `PartsStayAsMeant`: `PartsAsMeant`. While nothing is torn `CcdInv` says that the text
  is `Whole`: its lines are exactly the ones meant (`Exactly`), each once (`Distinct`),
  behind each line of a block comes the next one (`Unbroken`), push routes are last
  (`MeshLast`). One lemma says for each writer what it takes out and puts in, one that
  taking a block out (`WithoutIs`) or putting lines between blocks in (`PutIn`) keeps a
  whole text whole. `InOnePiece` leads from lines that follow each other to a block that
  is one interval.

**PeersProofs** (PeerSites, PeerClient, RemoteChain, MCPeers):

- `RowsAreServed`, `RoutesAreServed`: `ServedAsStored` and `MeshAsStored`. A call is a
  list of steps, `call.todo`; the inductive invariant `SiteInv` says of each derived
  thing that it is right, or its step is still in that list, or it is in `troubled`
  (`RulesServed`, `CcdServed`, `MeshServed`). `Planned` says which lists there are: a
  deletion drops the row between stripping the CCD file and writing rules and routes.
- `AssemblyServes`, `RulesExact`: `AssembledIsServing` and `SiteExact`. `HostInv` numbers
  the steps of an operation by how many follow (`Follows`) and says what each of them
  has established for good (`ServiceBy`, `RulesBy`), whatever operations that broke off
  left before. That no later step undoes it is the content: deletions come before the
  lines they might hit are added. Where every deletion succeeded the lines are there once;
  where one failed unnoticed (`slips`) they serve, and more may be there.
- `AgreedRowsSurvive`: `AgreedRowsKept`. `ChainInv` says where the rows that last agreed
  with the router are: in the copy while nobody writes, in the backup while somebody
  does, or after a write that failed, died or was not settled (`RowsSafe`). A writer must be alone (`OneWriter`), which for guarded operations
  follows from `running` naming the task (`WritesAlone`) and for fetches from
  `GuardedOverlap`.
- `PendingIsTrue`: `PendingTellsTheTruth`. `TruthInv` adds what tasks have in hand: while
  a chain is filled, the rules there and those still to come are the enabled rows of
  the write (`InHand`), and what a fetch read is still the chain when it writes the copy;
  the copy is pending from before the first command until the last one has answered
  (`CopyTrue`). Where the chain was not emptied the same holds of its end. That the last
  rule completes the list is `Appended` of SubsequencesProofs.
- `PeerHostTyped`, `ChainTyped`: `HostTypeOK` and `ChainTypeOK`, whatever broke off or
  failed unnoticed before.
- `PeersParts`: `PeersSpec => SiteSpec /\ CcdSpec /\ HostSpec /\ ChainSpec`, so every
  theorem on a component holds of the composition; `PeersTyped`: `PeersTypeOK`.

**ConsolesProofs** (DeviceBinding, UserConsole, RuleConsole, MCConsoles):

- `UserHasOneDevice`: `OneDevice`. `BindInv` says that a user outside `slips` has one
  file (`OneFile`; one whose text lacks the user counts as long as a script is about to
  fill it), that a script which found or made it still has it (`HasFile`), that the
  script which makes the first is ahead of the user's others (`MakesFirst`), and that
  what was admitted is what the file says (`KnownInFile`).
- `ReportsAreTrue`: `ReportTrue`. `ReportInv` carries what the property says of reports
  to the jobs they are made from, a job whose page has gone away (`orphan`) included: the
  names a job made and did not count are at most the one it had in hand.
- `ListAnswersQuery`: `ListAsAsked`. `ListInv`: at most one load counts, it asks for what
  the page stands at (`KeepsUp`, also where the list had to start `again`), and while the
  spinner turns nothing is shown (`OneCounts`).
- `NoPriorityTwice`: `PrioritiesDistinct`. `PrioInv` (`AsMeant => PrioritiesHold`): what
  the mode that drags priorities has loaded holds all rules (`HoldsAll`), so an order of
  the same rules, which is all that can be saved, gives each of them a number of its own
  in steps of `Step`, also where an earlier attempt to save it failed halfway; the
  priorities an import has in hand are distinct
  (`NewPriorities`). The order of the list is described by ranks (`ByPriority`), of which
  `OrderHoldsAll` shows that they leave no rule out.
- `RulesTyped`, `UsersTyped`: the types of both pages. What is on the screen comes from
  records that outlive the handler that made them, so `RuleTyped` and `UserTyped` type
  those: loads under way with the query they were started for (`ListTyped`), the rows
  with which the dragging mode is entered (`DragTyped`), forms and imports
  (`FormTyped`), a refresh of the users and a question to the browser (`ListKnown`).
  A page number stays positive through every change of page size and every query of a
  page found too large.
- `ConsolesParts`: `MCConsolesSpec => RuleSpec /\ BindSpec /\ UserSpec`;
  `ConsolesTyped`: `MCConsolesTypeOK`.

**HostProofs** (InitWizard, ServerSettings, Upgrade, FullBackup, MCHost), from
`WizardConstants`, `SettingsAssumption`, `UpgradeAssumption` and `BackAssumption`:

- `SetupIsWhole`: `SetupWhole`. `WizInv` has two layers. `General` holds always: every
  copy of the configuration, on disk or in a page, claims only what is on disk (`Sane`),
  since what the PKI thread makes is never taken away; a server certificate is of the CA
  there or one that was found (`PkiWhole`). `OnePool` holds until a stale copy
  is saved: the pool is chosen once, so group, file and `server.conf` have the same
  subnet.
- `SettingsFollow`: `FollowsConfig`. `SetInv` has one conjunct per derived thing that
  says what it is in the middle of a save: `ConfsKnown`, for example, that the files of
  the instances before the present one are current, so that the last one makes them all
  current, and `MasqKnown`, that MASQUERADE is built from the subnet in the file unless the root
  subnet changed since the last full rebuild.
- `UpgradeIsAtomic`: `AllOrNothing`. `UpInv` says where the trees are at every step
  (`TreesKnown`, whatever has gone wrong before), where everything else is as long as no
  recovery failed and no upgrade died (`AllKnown`), and which instances run what
  (`RunsKnown`). That a whole tree always exists rests on `Safe`: while the new tree is
  in place untested, the old one is aside.
- `BackTypesHold`, `RestoreIsWhole`: `BackTypeOK` and `RestoreWhole`, for any parts and
  any panels, those of other sessions included (`BackAssumption`: `Order` lists the
  parts). `BackInv` says of a panel nothing has disturbed (`Undisturbed`) that it is the
  only one at work, that its copy has the machine's parts up to the present one
  (`SameUpTo`), that from the first replacement on the machine as it was is in an archive
  (`Saved`), and that every part is old or new (`OldOrNew`).
- `HostParts`: `MCHostSpec => WizSpec /\ SetSpec /\ UpSpec /\ BackSpec`; `HostTyped`:
  `MCHostTypeOK`, from the types the four invariants contain.

**StorageMigrationProofs** (`MigrationAssumption`): `MigrationTyped` for any set of
processes; `MigrationKeepsLegacy`, `MigrationServes`, and `MigrationIsOneSwitch`:
`Spec => MigratesOnce`, every step is a step of ManagedData or a stutter. `MigInv` says
for each step what the temporary database holds (`TempKnown`: all records of the kinds
already imported, those of the present kind that are not in `todo`) and that the live
one does not exist while a migration is under way (`DbKnown`). Without it `os.replace`
would be a step to a database with fewer records, which ManagedData does not allow.

**Model-checked only**: liveness (`CallReturns`, `StartsUp`), since the prover has
neither fairness nor ENABLED. Every invariant and every other property of the passing
runs is stated by a theorem.

PROJECT.json lists the theorems.

## 8. Not modelled

- The order of the firewall's rules in the kernel, single-address rules, SNAT of the
  centre, the text of hooks; priorities are in RuleConsole, and of MASQUERADE the source
  it was built with, in ServerSettings.
- An archive whose own `config.json` names other directories than the one in force: the
  restore writes to those, while the backup made first has the present ones.
- A single ipset command that times out after taking effect.
- Several queries of one plan or of one snapshot seeing different states.
- Killing sessions through the management interface, key passwords.
- Tags being created or deleted; entities are fixed in CenterRules. PeerService calls
  that overlap, and two edits of a remote chain at once: nothing in the code keeps
  them apart, and what they lose is plain; they are hazards without a property.
- Two processes that migrate at once: StorageMigration takes any set of processes,
  and a few of its branches (a temporary file that has vanished, a file to archive
  that is gone) need two, but the run and the theorems are about one.
- Schema upgrades between SQLite versions: one SQL transaction each.
- Download links: the use of a link is read and written back within one handler that
  does not await, on one event loop, so nothing can come in between.
- Adding and removing OpenVPN instances, the package manager's commands, detection of
  a peer's distribution and the installation of keys: linear sequences whose state is
  outside the program.
- The pages of groups, tags, certificates and the dashboard: lists and forms whose
  calls are operations of UserAccounts and CenterRules.
- Parsers and generators of text; audit, monitor, diagnostics, notifications and
  administrators, which keep one file or none; the layout of the console.
