-------------------------------- MODULE Upgrade --------------------------------
(***************************************************************************)
(* The upgrade of OpenVPN (app/services/openvpn/upgrade.py) and the dialog *)
(* of the services page that drives it.  A candidate is built beside the   *)
(* production tree and tried; then the production tree, the systemd unit   *)
(* and the link are replaced one after the other and the running instances *)
(* restarted.  A failure puts everything back.  The administrator may      *)
(* start and stop instances meanwhile; the program may die.                *)
(***************************************************************************)
EXTENDS Integers, FiniteSets

CONSTANTS Daemons,    \* 1..n: the instances, in the order they are restarted
          MaxFails, MaxTries, MaxLosses

ASSUME UpgradeAssumption ==
  /\ IsFiniteSet(Daemons) /\ Daemons = 1..Cardinality(Daemons)
  /\ MaxFails \in Nat /\ MaxTries \in Nat /\ MaxLosses \in Nat

VARIABLES tree,       \* the tree at the install prefix
          aside,      \* the production tree moved away by this upgrade
          orphan,     \* a whole one moved away by an upgrade that died
          beside,     \* the candidate's copy next to the prefix
          unit, link, \* systemd unit with its overrides; the command-line link
          runs,       \* version each instance runs, or "off"
          stage,      \* the candidate: "none", "built", "passed"
          left,       \* a staging directory nobody will remove
          at,         \* the step the upgrade is at
          ready,      \* run_check found the candidate good; the button is on
          active,     \* instances recorded as running before the upgrade
          turn,       \* the instance to restart next
          snap,       \* unit and link as recorded before the upgrade
          outcome,    \* of the last upgrade
          excused,    \* history: instances the upgrade cannot be held to
          broken,     \* history: "recovery" failed, "death" in the middle
          fails, tries, losses

upVars == <<tree, aside, orphan, beside, unit, link, runs, stage, left, at, ready, active,
            turn, snap, outcome, excused, broken, fails, tries, losses>>

Versions == {"old", "new"}

Trees == Versions \cup {"none", "partial"}

UpSteps == {"rest", "staging", "checking", "preflight", "record", "copy", "moveold",
            "movenew", "link", "units", "restart", "postflight", "alive", "discard",
            "undo", "undotree", "undounits", "undorestart"}

UpTypeOK ==
  /\ tree \in Trees /\ aside \in Trees /\ orphan \in Trees
  /\ beside \in {"none", "partial", "new"}
  /\ unit \in Versions \cup {"gone"} /\ link \in Versions \cup {"gone"}
  /\ runs \in [Daemons -> Versions \cup {"off"}]
  /\ stage \in {"none", "built", "passed"}
  /\ left \in BOOLEAN /\ ready \in BOOLEAN /\ broken \subseteq {"recovery", "death"}
  /\ at \in UpSteps
  /\ active \subseteq Daemons /\ excused \subseteq Daemons
  /\ turn \in 1..(Cardinality(Daemons) + 1)
  /\ snap \in [unit : Versions \cup {"gone"}, link : Versions \cup {"gone"}]
  /\ outcome \in {"none", "ok", "failed"}
  /\ fails \in 0..MaxFails /\ tries \in 0..MaxTries /\ losses \in 0..MaxLosses

UpInit ==
  /\ tree = "old" /\ aside = "none" /\ orphan = "none" /\ beside = "none"
  /\ unit = "old" /\ link = "old"
  /\ runs \in [Daemons -> {"old", "off"}]
  /\ stage = "none" /\ left = FALSE /\ at = "rest" /\ ready = FALSE
  /\ active = {} /\ turn = 1 /\ snap = [unit |-> "old", link |-> "old"]
  /\ outcome = "none" /\ excused = {} /\ broken = {}
  /\ fails = 0 /\ tries = 0 /\ losses = 0

Failure == fails < MaxFails /\ fails' = fails + 1

host == <<tree, aside, beside, unit, link, runs>>

dialog == <<stage, left, ready, tries>>

plan == <<active, turn, snap>>

record == <<outcome, excused, broken, losses, orphan>>

(***************************************************************************)
(* run_check: an older candidate is removed, a new one is built and tried. *)
(* The page keeps the candidate only when the trial returned, so one whose *)
(* trial raised stays on disk.                                             *)
(***************************************************************************)
RunCheck ==
  /\ at = "rest" /\ tries < MaxTries /\ tree # "new"
  /\ tries' = tries + 1
  /\ stage' = "none" /\ ready' = FALSE
  /\ at' = "staging"
  /\ UNCHANGED <<host, left, plan, record, fails>>

StageCandidate ==
  /\ at = "staging"
  /\ \/ stage' = "built" /\ at' = "checking" /\ UNCHANGED fails
     \/ Failure /\ stage' = "none" /\ at' = "rest"
  /\ UNCHANGED <<host, left, ready, tries, plan, record>>

CheckCandidate ==
  /\ at = "checking" /\ at' = "rest"
  /\ \/ ready' = TRUE /\ stage' = "passed" /\ UNCHANGED <<left, fails>>
     \/ ready' = FALSE /\ Failure /\ UNCHANGED <<stage, left>>
     \/ ready' = FALSE /\ stage' = "none" /\ left' = TRUE /\ Failure
  /\ UNCHANGED <<host, tries, plan, record>>

\* _close_upgrade_dialog removes a candidate that was not applied.
CloseDialog ==
  /\ at = "rest" /\ stage # "none"
  /\ stage' = "none" /\ ready' = FALSE
  /\ UNCHANGED <<host, left, at, tries, plan, record, fails>>

(***************************************************************************)
(* apply_staged_upgrade.  Before anything is replaced a failure just ends  *)
(* it; from the copy on, every failure goes to the recovery.               *)
(***************************************************************************)
RunUpgrade ==
  /\ at = "rest" /\ stage # "none" /\ ready
  /\ at' = "preflight" /\ outcome' = "none" /\ excused' = {}
  /\ active' = {}
  /\ UNCHANGED <<host, orphan, dialog, turn, snap, broken, losses, fails>>

Preflight ==
  /\ at = "preflight"
  /\ \/ at' = "record" /\ UNCHANGED <<fails, outcome>>
     \/ Failure /\ at' = "rest" /\ outcome' = "failed"
  /\ UNCHANGED <<host, dialog, plan, excused, broken, losses, orphan>>

\* The full backup, the list of running instances and the snapshots.
Record ==
  /\ at = "record"
  /\ \/ /\ active' = {d \in Daemons : runs[d] # "off"}
        /\ snap' = [unit |-> unit, link |-> link]
        /\ turn' = 1 /\ at' = "copy"
        /\ UNCHANGED <<fails, outcome>>
     \/ /\ Failure /\ at' = "rest" /\ outcome' = "failed"
        /\ UNCHANGED plan
  /\ UNCHANGED <<host, dialog, excused, broken, losses, orphan>>

\* A step of the replacement: its effect, or a failure that starts recovery.
Replace(step, next, done, failed) ==
  /\ at = step
  /\ \/ done /\ at' = next /\ UNCHANGED fails
     \/ failed /\ at' = "undo" /\ Failure

CopyTree ==
  /\ Replace("copy", "moveold", beside' = "new", beside' \in {"none", "partial"})
  /\ UNCHANGED <<tree, aside, unit, link, runs, dialog, plan, record>>

MoveOld ==
  /\ Replace("moveold", "movenew", aside' = tree /\ tree' = "none",
             UNCHANGED <<aside, tree>>)
  /\ UNCHANGED <<beside, unit, link, runs, dialog, plan, record>>

MoveNew ==
  /\ Replace("movenew", "link", tree' = beside /\ beside' = "none",
             UNCHANGED <<tree, beside>>)
  /\ UNCHANGED <<aside, unit, link, runs, dialog, plan, record>>

\* An older link is removed before the new one is made.
ReplaceLink ==
  /\ Replace("link", "units", link' = "new", link' \in {link, "gone"})
  /\ UNCHANGED <<tree, aside, beside, unit, runs, dialog, plan, record>>

InstallUnits ==
  /\ Replace("units", "restart", unit' = "new", unit' \in {unit, "new"})
  /\ UNCHANGED <<tree, aside, beside, link, runs, dialog, plan, record>>

\* systemctl restart: a daemon runs what is at the prefix when it starts.
Started == IF tree \in Versions THEN tree ELSE "off"

NextTurn == turn' = turn + 1

\* Mutant: the loop over the recorded instances runs one past the last.
RestartActivePast ==
  /\ at = "restart"
  /\ \/ turn > Cardinality(Daemons) + 1 /\ at' = "postflight" /\ UNCHANGED <<runs, turn>>
     \/ turn \notin active /\ NextTurn /\ UNCHANGED <<at, runs>>
     \/ /\ turn \in active
        /\ runs' = [runs EXCEPT ![turn] = Started]
        /\ NextTurn /\ UNCHANGED at
  /\ UNCHANGED <<tree, aside, beside, unit, link, dialog, active, snap, record, fails>>

RestartActive ==
  /\ at = "restart"
  /\ \/ turn > Cardinality(Daemons) /\ at' = "postflight"
        /\ UNCHANGED <<runs, turn, fails>>
     \/ turn \in Daemons \ active /\ NextTurn /\ UNCHANGED <<at, runs, fails>>
     \/ /\ turn \in active
        /\ \/ /\ runs' = [runs EXCEPT ![turn] = Started]
              /\ NextTurn /\ UNCHANGED <<at, fails>>
           \/ /\ runs' = [runs EXCEPT ![turn] = "off"]
              /\ Failure /\ at' = "undo" /\ UNCHANGED turn
  /\ UNCHANGED <<tree, aside, beside, unit, link, dialog, active, snap, record>>

Postflight ==
  /\ Replace("postflight", "alive", TRUE, TRUE)
  /\ UNCHANGED <<host, dialog, plan, record>>

\* An instance that is not running, whoever stopped it, fails the upgrade.
CheckAlive ==
  /\ at = "alive"
  /\ at' = IF \A d \in active : runs[d] # "off" THEN "discard" ELSE "undo"
  /\ UNCHANGED <<host, dialog, plan, record, fails>>

DiscardOld ==
  /\ at = "discard"
  /\ aside' = "none" /\ at' = "rest"
  /\ outcome' = "ok" /\ stage' = "none" /\ ready' = FALSE
  /\ UNCHANGED <<tree, beside, unit, link, runs, left, tries, plan, excused, broken,
                 losses, orphan, fails>>

(***************************************************************************)
(* The recovery.  Removing a tree ignores errors; what it leaves behind    *)
(* makes the move back fail, and the finally clause then deletes the only  *)
(* old copy.  Restarts are not checked.                                    *)
(***************************************************************************)
RemoveNew ==
  /\ at = "undo" /\ at' = "undotree"
  /\ beside' = "none"
  /\ \/ tree # "new" /\ UNCHANGED <<tree, fails>>
     \/ tree = "new" /\ tree' = "none" /\ UNCHANGED fails
     \/ tree = "new" /\ tree' = "partial" /\ Failure
  /\ UNCHANGED <<aside, unit, link, runs, dialog, plan, record>>

MoveBack ==
  /\ at = "undotree"
  /\ \/ /\ tree = "none" /\ aside # "none"
        /\ tree' = aside /\ aside' = "none" /\ at' = "undounits"
        /\ UNCHANGED <<broken, outcome>>
     \/ /\ aside = "none" /\ at' = "undounits"
        /\ UNCHANGED <<tree, aside, broken, outcome>>
     \/ /\ tree = "partial" /\ aside # "none"
        /\ aside' = "none" /\ at' = "rest"
        /\ broken' = broken \cup {"recovery"} /\ outcome' = "failed"
        /\ UNCHANGED tree
  /\ UNCHANGED <<beside, unit, link, runs, dialog, plan, excused, losses, orphan, fails>>

\* Mutant: the recovery forgets the command-line link.
RestoreUnitsOnly ==
  /\ at = "undounits"
  /\ unit' = snap.unit /\ turn' = 1 /\ at' = "undorestart"
  /\ UNCHANGED <<tree, aside, beside, link, runs, dialog, active, snap, outcome, excused,
                 broken, losses, orphan, fails>>

RestoreUnits ==
  /\ at = "undounits"
  /\ \/ /\ unit' = snap.unit /\ link' = snap.link
        /\ turn' = 1 /\ at' = "undorestart"
        /\ UNCHANGED <<broken, outcome, fails>>
     \/ /\ Failure /\ at' = "rest"
        /\ broken' = broken \cup {"recovery"} /\ outcome' = "failed"
        /\ \/ unit' \in {unit, "gone", snap.unit} /\ link' = link
           \/ unit' = snap.unit /\ link' \in {link, "gone"}
        /\ UNCHANGED turn
  /\ UNCHANGED <<tree, aside, beside, runs, dialog, active, snap, excused, losses, orphan>>

UndoRestart ==
  /\ at = "undorestart"
  /\ \/ /\ turn > Cardinality(Daemons) /\ at' = "rest" /\ outcome' = "failed"
        /\ UNCHANGED <<runs, turn, excused, fails>>
     \/ /\ turn \in Daemons \ active /\ NextTurn
        /\ UNCHANGED <<at, outcome, runs, excused, fails>>
     \/ /\ turn \in active /\ NextTurn
        /\ \/ /\ runs' = [runs EXCEPT ![turn] = Started]
              /\ UNCHANGED <<excused, fails>>
           \/ /\ runs' = [runs EXCEPT ![turn] = "off"]
              /\ excused' = excused \cup {turn} /\ Failure
        /\ UNCHANGED <<at, outcome>>
  /\ UNCHANGED <<tree, aside, beside, unit, link, dialog, active, snap, broken, losses, orphan>>

(***************************************************************************)
(* The local tab: start, stop and restart of one instance, at any time.    *)
(***************************************************************************)
LocalAction(d) ==
  /\ runs' \in {[runs EXCEPT ![d] = "off"], [runs EXCEPT ![d] = Started]}
  /\ excused' = excused \cup {d}
  /\ UNCHANGED <<tree, aside, beside, unit, link, dialog, at, plan, outcome, broken,
                 losses, orphan, fails>>

(***************************************************************************)
(* The program dies.  A tree moved aside keeps its one-time name, and      *)
(* nothing at the next start looks for it.                                 *)
(***************************************************************************)
Lose ==
  /\ losses < MaxLosses /\ losses' = losses + 1
  /\ left' = (left \/ stage # "none" \/ at = "staging")
  /\ stage' = "none" /\ ready' = FALSE
  /\ at' = "rest" /\ outcome' = "none"
  /\ broken' = IF at \in {"rest", "staging", "checking", "preflight"}
               THEN broken ELSE broken \cup {"death"}
  /\ orphan' = IF aside \in Versions THEN aside ELSE orphan
  /\ aside' = "none" /\ beside' = "none"
  /\ link' \in {link} \cup (IF at \in {"link", "undounits"} THEN {"gone"} ELSE {})
  /\ unit' \in {unit} \cup (IF at = "undounits" THEN {"gone"} ELSE {})
  /\ UNCHANGED <<tree, runs, tries, plan, excused, fails>>

UpNext ==
  \/ RunCheck \/ StageCandidate \/ CheckCandidate \/ CloseDialog \/ RunUpgrade
  \/ Preflight \/ Record \/ CopyTree \/ MoveOld \/ MoveNew \/ ReplaceLink
  \/ InstallUnits \/ RestartActive \/ Postflight \/ CheckAlive \/ DiscardOld
  \/ RemoveNew \/ MoveBack \/ RestoreUnits \/ UndoRestart
  \/ \E d \in Daemons : LocalAction(d)
  \/ Lose

UpSpec == UpInit /\ [][UpNext]_upVars

(***************************************************************************)
(* An upgrade is all or nothing: when it reports success, the tree, the    *)
(* unit, the link and every instance that ran before are the new version;  *)
(* when it reports failure they are the old one, and the instances that    *)
(* ran are running.  And whatever the moment, short of a recovery that     *)
(* failed, a whole tree exists at the prefix or aside.                     *)
(***************************************************************************)
Everywhere(v) ==
  /\ tree = v /\ unit = v /\ link = v
  /\ \A d \in active \ excused : runs[d] = v

AllOrNothing ==
  /\ \/ broken # {}
     \/ /\ at = "rest" /\ outcome = "ok" => Everywhere("new")
        /\ at = "rest" /\ outcome = "failed" => Everywhere("old")
        /\ at = "rest" => aside = "none" /\ beside = "none"
  /\ "recovery" \in broken \/ tree \in Versions \/ aside \in Versions
     \/ orphan \in Versions
=============================================================================
