------------------------------ MODULE PeerClient ------------------------------
(***************************************************************************)
(* What the centre does to the host of a peer over SSH: install OpenVPN,   *)
(* put the bound user's profile there, enable the client's systemd unit,   *)
(* and write the site's iptables rules.  Each command is a step.  A        *)
(* command may fail, or the connection break, which ends the operation and *)
(* leaves what it has done; the next operation starts from there.  The     *)
(* failure of a command that deletes is passed over, and the operation     *)
(* goes on to put the new rules beside the old ones.                       *)
(***************************************************************************)
EXTENDS Naturals, Sequences

CONSTANTS
    MaxProfile,   \* bound: certificates the bound user is issued
    HostFaults    \* "ssh": a command fails; "start": the client does not start;
                  \* "ignored": a command fails and the operation goes on

ASSUME HostAssumption ==
    MaxProfile \in Nat \ {0} /\ HostFaults \subseteq {"ssh", "start", "ignored"}

VARIABLES
    profile,    \* the bound user's profile at the centre, numbered
    soft,       \* OpenVPN on the host: none or too old ("lacking"), good
    official,   \* whether the package brings openvpn-client@.service
    conf,       \* profiles in the two places a push may put them; 0: no file
    link,       \* client.conf is a link to the other place
    unit,       \* what is written of the unit and whether it is enabled
    live,       \* the profile the client runs with; 0: it does not run
    marks,      \* the site's rules: chain, rules in it, jumps to it, SNAT rules
    task,       \* the operation: its steps still to do, its arguments
    verdict     \* history: the operation that is under way or succeeded last

hostVars == <<profile, soft, official, conf, link, unit, live, marks, task, verdict>>

Places == {"main", "other"}
NoOperation == [op |-> "none", todo |-> <<>>, at |-> "main", snat |-> FALSE, force |-> FALSE]
HostIdle == task.todo = <<>>
Doing(s) == ~HostIdle /\ task.todo[1] = s

\* since: the profile when it began; slips: "passed", a deletion failed and was
\* passed over, "crossed", somebody else changed the site's rules meanwhile.
Slips == {"passed", "crossed"}
NoVerdict == [op |-> "none", done |-> FALSE, snat |-> FALSE, since |-> 1, slips |-> {}]

\* Of the lines of a kind only none, one and more than one are told apart.
More(n) == IF n = 0 THEN 1 ELSE 2
NoMarks == [chain |-> FALSE, rules |-> 0, jumps |-> 0, nats |-> 0]

HostInit ==
    /\ profile = 1
    /\ soft \in {"lacking", "ok"} /\ official \in BOOLEAN
    /\ conf = [x \in Places |-> 0] /\ link = FALSE
    /\ unit = [at |-> "none", enabled |-> FALSE] /\ live = 0
    /\ marks = NoMarks
    /\ task = NoOperation /\ verdict = NoVerdict

\* The operation goes on with these steps; the last one ends it well.
GoOn(steps) ==
    IF steps = <<>>
    THEN task' = NoOperation /\ verdict' = [verdict EXCEPT !.done = TRUE]
    ELSE task' = [task EXCEPT !.todo = steps] /\ UNCHANGED verdict
Proceed == GoOn(Tail(task.todo))
GiveUp  == task' = NoOperation /\ verdict' = NoVerdict

\* It goes on although lines are left that it meant to delete.
PassOver ==
    /\ "ignored" \in HostFaults
    /\ IF Tail(task.todo) = <<>>
       THEN task' = NoOperation
            /\ verdict' = [verdict EXCEPT !.done = TRUE, !.slips = @ \cup {"passed"}]
       ELSE task' = [task EXCEPT !.todo = Tail(@)]
            /\ verdict' = [verdict EXCEPT !.slips = @ \cup {"passed"}]

(***************************************************************************)
(* The operations                                                          *)
(***************************************************************************)

RuleSteps == <<"compare", "unjump", "unmark", "chain", "rule", "jump", "nat">>

Begin(op, steps, place, masq, force) ==
    /\ HostIdle /\ steps # <<>>
    /\ task' = [op |-> op, todo |-> steps, at |-> place, snat |-> masq, force |-> force]
    /\ verdict' = [op |-> op, done |-> FALSE, snat |-> masq, since |-> profile, slips |-> {}]
    /\ UNCHANGED <<profile, soft, official, conf, link, unit, live, marks>>

\* ensure_openvpn_on_peer_via_ssh
\* The row's masquerade_on_peer is what was saved last.
Assemble(masq) ==
    Begin("assemble", <<"probe", "upload", "prepare", "enable", "restart">> \o RuleSteps
                      \o <<"verify">>, "main", masq, FALSE)

\* The dialog pushes what is ticked, to the place typed in, and forces the rules;
\* its SNAT switch is not saved in the row.
PushConfig(up, service, rules, place, masq) ==
    /\ up \/ service \/ place = "main"
    /\ rules \/ ~masq
    /\ Begin("push", (IF up THEN <<"upload">> ELSE <<>>)
                  \o (IF service THEN <<"prepare", "enable", "restart">> ELSE <<>>)
                  \o (IF rules THEN RuleSteps ELSE <<>>), place, masq, TRUE)

\* After a save of a row with masquerade_on_peer, and when a peer is deleted.
DeploySite == Begin("site", RuleSteps, "main", TRUE, FALSE)
RemoveSite == Begin("remove", <<"unjump", "unmark">>, "main", FALSE, TRUE)

Control(action) == Begin("control", <<action>>, "main", FALSE, FALSE)

(***************************************************************************)
(* Commands                                                                *)
(***************************************************************************)

\* The software is installed only if it is missing or too old, and then looked
\* at again; a new package may be too old as well.
Probe ==
    /\ Doing("probe")
    /\ IF soft = "ok" THEN Proceed ELSE GoOn(<<"install">> \o Tail(task.todo))
    /\ UNCHANGED <<profile, soft, official, conf, link, unit, live, marks>>

Install ==
    /\ Doing("install")
    /\ soft' \in {"lacking", "ok"} /\ official' \in BOOLEAN
    /\ IF soft' = "ok" THEN Proceed ELSE GiveUp
    /\ UNCHANGED <<profile, conf, link, unit, live, marks>>

\* SFTP to /tmp, then install -T, which replaces a link by a file.
Upload ==
    /\ Doing("upload")
    /\ conf' = [conf EXCEPT ![task.at] = profile]
    /\ link' = (IF task.at = "main" THEN FALSE ELSE link)
    /\ Proceed
    /\ UNCHANGED <<profile, soft, official, unit, live, marks>>

\* The official unit reads client.conf, linked if the profile is elsewhere; the
\* generated one names the place.
Prepare ==
    /\ Doing("prepare")
    /\ IF official
       THEN /\ link' = (link \/ task.at = "other")
            /\ unit' = [unit EXCEPT !.at = IF @ = "none" THEN "official" ELSE @]
       ELSE unit' = [unit EXCEPT !.at = task.at] /\ UNCHANGED link
    /\ Proceed
    /\ UNCHANGED <<profile, soft, official, conf, live, marks>>

Enable ==
    /\ Doing("enable")
    /\ unit' = [unit EXCEPT !.enabled = TRUE]
    /\ Proceed
    /\ UNCHANGED <<profile, soft, official, conf, link, live, marks>>

\* The profile the service finds.
Configured ==
    CASE official -> IF link THEN conf["other"] ELSE conf["main"]
      [] ~official /\ unit.at \in Places -> conf[unit.at]
      [] OTHER -> 0

\* systemctl may report success although the client dies right after: that is
\* seen by the verification only.
Restart ==
    /\ Doing("restart")
    /\ live' \in {Configured} \cup (IF "start" \in HostFaults THEN {0} ELSE {})
    /\ Proceed \/ (live' = 0 /\ GiveUp)
    /\ UNCHANGED <<profile, soft, official, conf, link, unit, marks>>

Stop ==
    /\ Doing("stop")
    /\ live' = 0 /\ Proceed
    /\ UNCHANGED <<profile, soft, official, conf, link, unit, marks>>

\* Mutant: no line twice is enough.
CurrentAtMost(masq) == marks.rules <= 1 /\ marks.jumps <= 1 /\ marks.nats <= 1

\* _peer_site_rules_already_current: exactly one marked line of each kind.
Current(masq) ==
    /\ marks.chain /\ marks.rules = 1 /\ marks.jumps = 1
    /\ marks.nats = (IF masq THEN 1 ELSE 0)

Compare ==
    /\ Doing("compare")
    /\ IF ~task.force /\ Current(task.snat)
       THEN GoOn(SubSeq(task.todo, Len(RuleSteps) + 1, Len(task.todo)))
       ELSE Proceed
    /\ UNCHANGED <<profile, soft, official, conf, link, unit, live, marks>>

\* Of what the lines are to be deleted from, nothing is left, and the operation
\* goes on; or something is, which is passed over or ends it.
Cleared(gone) ==
    /\ \/ gone /\ Proceed
       \/ ~gone /\ PassOver
       \/ "ssh" \in HostFaults /\ GiveUp
    /\ UNCHANGED <<profile, soft, official, conf, link, unit, live>>

\* _remove_remote_peer_chain_and_jump: the jumps go first, then -F empties the
\* chain and -X deletes it, if it is empty and no jump leads to it.
Unjump ==
    /\ Doing("unjump")
    /\ \E j \in 0 .. marks.jumps, r \in {0, marks.rules}, c \in {FALSE, marks.chain} :
         /\ c \/ (j = 0 /\ r = 0)
         /\ marks' = [marks EXCEPT !.jumps = j, !.rules = r, !.chain = c]
         /\ Cleared(j = 0 /\ r = 0 /\ ~c)

\* Mutant: only the filter table is searched.
UnmarkFilter ==
    /\ Doing("unmark")
    /\ \E j \in 0 .. marks.jumps :
         /\ marks' = [marks EXCEPT !.jumps = j]
         /\ Cleared(j = 0)

\* _remove_rules_matching_peer: whatever carries the peer's mark.
Unmark ==
    /\ Doing("unmark")
    /\ \E j \in 0 .. marks.jumps, n \in 0 .. marks.nats :
         /\ marks' = [marks EXCEPT !.jumps = j, !.nats = n]
         /\ Cleared(j = 0 /\ n = 0)

\* -N, whose failure is a warning as the chain may be there; -A and -I FORWARD,
\* which fail without it; if wanted, -I POSTROUTING.
Put ==
    /\ \/ /\ Doing("chain")
          /\ \E c \in {TRUE} \cup (IF "ignored" \in HostFaults THEN {marks.chain} ELSE {}) :
               marks' = [marks EXCEPT !.chain = c]
       \/ Doing("rule") /\ marks.chain /\ marks' = [marks EXCEPT !.rules = More(@)]
       \/ Doing("jump") /\ marks.chain /\ marks' = [marks EXCEPT !.jumps = More(@)]
       \/ Doing("nat") /\ marks' = [marks EXCEPT !.nats = IF task.snat THEN More(@) ELSE @]
    /\ Proceed
    /\ UNCHANGED <<profile, soft, official, conf, link, unit, live>>

\* The profile the verification looks for: client.conf, or what it is a link to.
Found == conf[IF link THEN "other" ELSE "main"]

\* The last step looks at the service: unit, file and state.
Verify ==
    /\ Doing("verify")
    /\ IF unit.at # "none" /\ Found # 0 /\ live # 0 THEN Proceed ELSE GiveUp
    /\ UNCHANGED <<profile, soft, official, conf, link, unit, live, marks>>

CommandFails ==
    /\ ~HostIdle
    /\ "ssh" \in HostFaults \/ (~marks.chain /\ (Doing("rule") \/ Doing("jump")))
    /\ GiveUp
    /\ UNCHANGED <<profile, soft, official, conf, link, unit, live, marks>>

(***************************************************************************)
(* What happens beside the operations, and between two commands of one     *)
(***************************************************************************)

\* The centre issues a new profile; the client ends, or is started again by
\* systemd.
Beside ==
    /\ \/ profile < MaxProfile /\ profile' = profile + 1 /\ UNCHANGED live
       \/ live' \in {0, Configured} /\ UNCHANGED profile
    /\ verdict' = IF HostIdle THEN NoVerdict ELSE verdict
    /\ UNCHANGED <<soft, official, conf, link, unit, marks, task>>

\* The remote tab writes the chain anew, with any rules.
Elsewhere ==
    /\ marks.chain
    /\ \E n \in 0 .. 2 : marks' = [marks EXCEPT !.rules = n]
    /\ verdict' = IF HostIdle THEN NoVerdict
                  ELSE [verdict EXCEPT !.slips = @ \cup {"crossed"}]
    /\ UNCHANGED <<profile, soft, official, conf, link, unit, live, task>>

HostNext ==
    \/ \E masq \in BOOLEAN :
         \/ Assemble(masq)
         \/ \E up, service, rules \in BOOLEAN, place \in Places :
              PushConfig(up, service, rules, place, masq)
    \/ DeploySite \/ RemoveSite \/ Control("restart") \/ Control("stop")
    \/ Probe \/ Install \/ Upload \/ Prepare \/ Enable \/ Restart \/ Stop
    \/ Compare \/ Unjump \/ Unmark \/ Put \/ Verify \/ CommandFails
    \/ Beside \/ Elsewhere

HostSpec == HostInit /\ [][HostNext]_hostVars

(***************************************************************************)
(* Properties                                                              *)
(***************************************************************************)

HostTypeOK ==
    /\ profile \in 1 .. MaxProfile
    /\ soft \in {"lacking", "ok"} /\ official \in BOOLEAN
    /\ conf \in [Places -> 0 .. MaxProfile] /\ link \in BOOLEAN
    /\ unit \in [at : Places \cup {"none", "official"}, enabled : BOOLEAN]
    /\ live \in 0 .. MaxProfile
    /\ marks \in [chain : BOOLEAN, rules : 0 .. 2, jumps : 0 .. 2, nats : 0 .. 2]
    /\ verdict.since \in 1 .. profile /\ verdict.slips \subseteq Slips

\* The site's rules let the centre in, be there others or not.
Serving(masq) ==
    /\ marks.chain /\ marks.rules # 0 /\ marks.jumps # 0
    /\ masq => marks.nats # 0

RulesAsAsked(masq) ==
    /\ "crossed" \notin verdict.slips => Serving(masq)
    /\ verdict.slips = {} => Current(masq)

\* When the one-click assembly reports success, the software is good enough,
\* the service is enabled and runs with a profile no older than the one the
\* centre had when it began, and the site's rules serve even where a deletion
\* failed and was passed over, and are each there exactly once where none did;
\* whatever earlier operations that broke off have left on the host
\* (ensure_openvpn_on_peer_via_ssh).
AssembledIsServing ==
    verdict.op = "assemble" /\ verdict.done =>
        /\ soft = "ok" /\ unit.enabled
        /\ live >= verdict.since
        /\ RulesAsAsked(verdict.snat)

\* A deployment of the site's rules that reports success leaves them serving,
\* and exactly one of each where every deletion succeeded; a removal then leaves
\* none; after any number of operations that broke off half-way.  A removal whose
\* deletions fail leaves them and reports success all the same.
SiteExact ==
    verdict.done =>
        /\ verdict.op = "site" => RulesAsAsked(TRUE)
        /\ verdict.op = "remove" /\ verdict.slips = {} => marks = NoMarks
=============================================================================
