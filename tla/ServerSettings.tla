---------------------------- MODULE ServerSettings ----------------------------
(***************************************************************************)
(* Saving the server's settings (app/ui/pages/settings.py), changing the   *)
(* root group's subnet (app/services/group/crud.py), and what must follow  *)
(* config.json: the server.conf of each instance, the default rule and     *)
(* VPN_FORWARD, MASQUERADE, the clients' profiles and the device-bind mode *)
(* file.  A save runs on the event loop, so at most one is in progress;    *)
(* threads of the HTTP API go on writing profiles meanwhile, and the       *)
(* program may die between steps.                                          *)
(***************************************************************************)
EXTENDS Integers, FiniteSets

CONSTANTS Instances,  \* 1..n: the instances in the order they are rewritten
          Profiles,   \* .ovpn files already handed out
          Conns,      \* server_ip, port and proto
          Lans,       \* push_lan_routes and max_clients
          Nets,       \* global_subnet
          Modes,      \* device_bind_mode
          Torn,       \* a file left half written
          MaxTrouble, MaxCrashes2

ASSUME SettingsAssumption ==
    /\ IsFiniteSet(Instances) /\ Instances = 1..Cardinality(Instances) /\ 1 \in Instances
    /\ Torn \notin Conns /\ MaxTrouble \in Nat /\ MaxCrashes2 \in Nat

VARIABLES cfg,        \* config.json
          confs,      \* server.conf of each instance
          root,       \* subnet of the root group
          default,    \* source subnet of the default rule in the database
          forward,    \* the one VPN_FORWARD was built with
          masq,       \* source of MASQUERADE and of the INPUT rule, built beside it
          profiles,   \* the connection each profile names
          modeFile,   \* the mode the connect script reads
          job,        \* the save in progress
          editor,     \* text in the configuration editor
          issuer,     \* connection an API thread read for a profile it writes
          drift,      \* history: what may no longer follow config.json
          trouble, deaths

firewall == <<root, default, forward, masq>>

setVars == <<cfg, confs, firewall, profiles, modeFile, job, editor, issuer, drift,
             trouble, deaths>>

Settings == [conn : Conns, lan : Lans, net : Nets, mode : Modes]

ConfText == [conn : Conns, lan : Lans, net : Nets, own : BOOLEAN]

Resources == {"conf", "forward", "default", "masq", "profiles", "mode"}

Idle == [kind |-> "idle", at |-> "", inst |-> 0]

Closed == [inst |-> 0]

\* generate_server_conf: the text is a function of the configuration.
ConfOf(c) == [conn |-> c.conn, lan |-> c.lan, net |-> c.net, own |-> FALSE]

Jobs == [kind : {"server", "mode", "net"},
         at : {"conf", "fwd", "sync", "undo", "undo-conf", "undo-fwd", "file", "save", "rule"},
         inst : Instances \cup {0}, old : Settings \cup Nets, new : Settings \cup Nets]

SetTypeOK ==
  /\ cfg \in Settings
  /\ confs \in [Instances -> ConfText \cup {Torn}]
  /\ {root, default, forward, masq} \subseteq Nets
  /\ profiles \in [Profiles -> Conns \cup {Torn}]
  /\ modeFile \in Modes \cup {Torn}
  /\ job \in Jobs \cup {Idle}
  /\ editor = Closed \/ editor \in [inst : Instances, text : ConfText]
  /\ issuer \in Conns \cup {Torn}
  /\ drift \subseteq Resources
  /\ trouble \in 0..MaxTrouble /\ deaths \in 0..MaxCrashes2

SetInit ==
  /\ cfg \in Settings
  /\ confs = [i \in Instances |-> ConfOf(cfg)]
  /\ root = cfg.net /\ default = cfg.net /\ forward = cfg.net /\ masq = cfg.net
  /\ profiles = [f \in Profiles |-> cfg.conn]
  /\ modeFile = cfg.mode
  /\ job = Idle /\ editor = Closed /\ issuer = Torn
  /\ drift = {} /\ trouble = 0 /\ deaths = 0

Trouble == trouble < MaxTrouble /\ trouble' = trouble + 1

AtStep(kind, at) == job.kind = kind /\ job.at = at

To(at) == job' = [job EXCEPT !.at = at, !.inst = IF at \in {"conf", "undo-conf"} THEN 1 ELSE 0]

Finish == job' = Idle

LastConf(i) == i = Cardinality(Instances)

(***************************************************************************)
(* _save_server_connection: the file first, then what follows from it.     *)
(***************************************************************************)
\* What the two forms may hold: read when the page was built, or typed.
ServerInputs == Conns \X Lans

ModeInputs == Modes

SaveServer(i) ==
  /\ job = Idle
  /\ LET merged == [cfg EXCEPT !.conn = i[1], !.lan = i[2]] IN
     /\ cfg' = merged
     /\ job' = [kind |-> "server", at |-> "conf", inst |-> 1, old |-> cfg, new |-> merged]
  /\ UNCHANGED <<confs, firewall, profiles, modeFile, editor, issuer, drift,
                 trouble, deaths>>

\* One file of regenerate_all_server_confs; equal text is not written again.
\* A write that fails leaves the old text or a torn file and stops the loop.
RewriteConf(done, failed) ==
  /\ LET i == job.inst IN
     \/ /\ confs' = [confs EXCEPT ![i] = ConfOf(cfg)]
        /\ IF LastConf(i) THEN done ELSE job' = [job EXCEPT !.inst = i + 1] /\ UNCHANGED drift
        /\ UNCHANGED trouble
     \/ /\ confs[i] # ConfOf(cfg)
        /\ Trouble
        /\ confs' \in {confs, [confs EXCEPT ![i] = Torn]}
        /\ failed
  /\ UNCHANGED <<cfg, firewall, profiles, modeFile, editor, issuer, deaths>>

ServerConf ==
  /\ AtStep("server", "conf")
  /\ RewriteConf(To("fwd") /\ drift' = drift \ {"conf"},
                 To("undo") /\ UNCHANGED drift)

\* refresh_vpn_forward_only: the chain is built from the rules in the
\* database, and one that fails leaves it as it was.  MASQUERADE is not touched.
Refresh(done, failed) ==
  /\ \/ /\ forward' = default /\ done /\ drift' = drift \ {"forward"}
        /\ UNCHANGED trouble
     \/ /\ Trouble /\ failed /\ UNCHANGED forward
  /\ UNCHANGED <<cfg, confs, root, default, masq, profiles, modeFile, editor, issuer,
                 deaths>>

ServerFwd ==
  /\ AtStep("server", "fwd")
  /\ Refresh(To("sync"), To("undo") /\ UNCHANGED drift)

\* sync_existing_ovpn_connection: no call when the connection is unchanged;
\* otherwise the script rewrites every profile or puts all of them back.
ServerSync ==
  /\ AtStep("server", "sync")
  /\ \/ /\ job.old.conn = job.new.conn
        /\ Finish
        /\ UNCHANGED <<profiles, drift, trouble>>
     \/ /\ job.old.conn # job.new.conn
        /\ profiles' = [f \in Profiles |-> job.new.conn]
        /\ drift' = drift \ {"profiles"}
        /\ Finish
        /\ UNCHANGED trouble
     \/ /\ job.old.conn # job.new.conn
        /\ Trouble
        /\ To("undo")
        /\ UNCHANGED <<profiles, drift>>
  /\ UNCHANGED <<cfg, confs, firewall, modeFile, editor, issuer, deaths>>

(***************************************************************************)
(* rollback: the configuration read at the beginning is saved again and    *)
(* the files and the chain are rebuilt from it.  A failure in it is logged.*)
(***************************************************************************)
Abandoned(rest) == Finish /\ drift' = drift \cup rest

\* Mutant: the rollback saves the configuration and refreshes the chain only.
UndoSaveChainOnly ==
  /\ AtStep("server", "undo")
  /\ cfg' = job.old /\ To("undo-fwd")
  /\ UNCHANGED <<confs, firewall, profiles, modeFile, editor, issuer, drift, trouble, deaths>>

UndoSave ==
  /\ AtStep("server", "undo")
  /\ \/ /\ cfg' = job.old /\ To("undo-conf") /\ UNCHANGED <<drift, trouble>>
     \/ /\ Trouble /\ Abandoned({"conf", "forward", "profiles"}) /\ UNCHANGED cfg
  /\ UNCHANGED <<confs, firewall, profiles, modeFile, editor, issuer, deaths>>

UndoConf ==
  /\ AtStep("server", "undo-conf")
  /\ RewriteConf(To("undo-fwd") /\ drift' = drift \ {"conf"},
                 Abandoned({"conf", "forward"}))

UndoFwd ==
  /\ AtStep("server", "undo-fwd")
  /\ Refresh(Finish, Abandoned({"forward"}))

(***************************************************************************)
(* _save_device_bind: when the mode file cannot be written the old         *)
(* configuration is saved again; the file itself is not put back.          *)
(***************************************************************************)
SaveMode(m) ==
  /\ job = Idle
  /\ cfg' = [cfg EXCEPT !.mode = m]
  /\ job' = [kind |-> "mode", at |-> "file", inst |-> 0, old |-> cfg, new |-> cfg']
  /\ UNCHANGED <<confs, firewall, profiles, modeFile, editor, issuer, drift,
                 trouble, deaths>>

WriteMode ==
  /\ AtStep("mode", "file")
  /\ \/ /\ modeFile' = job.new.mode
        /\ drift' = drift \ {"mode"}
        /\ Finish
        /\ UNCHANGED <<cfg, trouble>>
     \/ /\ Trouble
        /\ modeFile' \in {modeFile, Torn}
        /\ \/ cfg' = job.old /\ drift' = drift \cup (IF modeFile' = Torn THEN {"mode"} ELSE {})
           \/ trouble' < MaxTrouble /\ UNCHANGED cfg /\ drift' = drift \cup {"mode"}
        /\ Finish
  /\ UNCHANGED <<confs, firewall, profiles, editor, issuer, deaths>>

(***************************************************************************)
(* update_subnet of the root group and _sync_global_subnet: the group, the *)
(* configuration, the same files, then the default rule, found by its old  *)
(* subnet, and the chain.  Failures after the configuration are logged.    *)
(***************************************************************************)
SaveNet(n) ==
  /\ job = Idle /\ n # root
  /\ root' = n
  /\ job' = [kind |-> "net", at |-> "save", inst |-> 1, old |-> root, new |-> n]
  /\ UNCHANGED <<cfg, confs, default, forward, masq, profiles, modeFile, editor, issuer,
                 drift, trouble, deaths>>

NetSave ==
  /\ AtStep("net", "save")
  /\ \/ /\ cfg' = [cfg EXCEPT !.net = job.new] /\ To("conf")
        /\ drift' = drift \cup {"masq"}
        /\ UNCHANGED trouble
     \/ /\ Trouble /\ Abandoned({"default"}) /\ UNCHANGED cfg
  /\ UNCHANGED <<confs, firewall, profiles, modeFile, editor, issuer, deaths>>

NetConf ==
  /\ AtStep("net", "conf")
  /\ RewriteConf(To("rule") /\ drift' = drift \ {"conf"},
                 To("rule") /\ drift' = drift \cup {"conf"})

\* A default rule that carries another subnet is not this one's, and then neither
\* it nor the chain is touched.
NetRule ==
  /\ AtStep("net", "rule")
  /\ \/ /\ default = job.old /\ default' = job.new /\ To("fwd")
        /\ drift' = drift \ {"default"}
        /\ UNCHANGED trouble
     \/ /\ default # job.old
        /\ Finish
        /\ UNCHANGED <<default, drift, trouble>>
     \/ /\ Trouble /\ Abandoned({"default"}) /\ UNCHANGED default
  /\ UNCHANGED <<cfg, confs, root, forward, masq, profiles, modeFile, editor, issuer, deaths>>

NetFwd ==
  /\ AtStep("net", "fwd")
  /\ \/ /\ forward' = default /\ Finish
        /\ drift' = drift \ {"forward"} /\ UNCHANGED trouble
     \/ /\ Trouble /\ Abandoned({"forward"}) /\ UNCHANGED forward
  /\ UNCHANGED <<cfg, confs, root, default, masq, profiles, modeFile, editor, issuer,
                 deaths>>

(***************************************************************************)
(* Others: the editor of one server.conf, which saves the text it read     *)
(* with a change of its own, and an API thread that reads the connection    *)
(* and later writes a profile.                                             *)
(***************************************************************************)
OpenEditor(i) ==
  /\ job = Idle /\ editor = Closed /\ confs[i] # Torn
  /\ editor' = [inst |-> i, text |-> confs[i]]
  /\ UNCHANGED <<cfg, confs, firewall, profiles, modeFile, job, issuer, drift,
                 trouble, deaths>>

SaveEditor ==
  /\ job = Idle /\ editor # Closed
  /\ confs' = [confs EXCEPT ![editor.inst] = [editor.text EXCEPT !.own = TRUE]]
  /\ editor' = Closed
  /\ drift' = drift \cup {"conf"}
  /\ UNCHANGED <<cfg, firewall, profiles, modeFile, job, issuer, trouble, deaths>>

ReadConn ==
  /\ issuer = Torn
  /\ issuer' = cfg.conn
  /\ UNCHANGED <<cfg, confs, firewall, profiles, modeFile, job, editor, drift,
                 trouble, deaths>>

WriteProfile(f) ==
  /\ issuer # Torn
  /\ profiles' = [profiles EXCEPT ![f] = issuer]
  /\ issuer' = Torn
  /\ drift' = IF issuer = cfg.conn /\ job = Idle THEN drift ELSE drift \cup {"profiles"}
  /\ UNCHANGED <<cfg, confs, firewall, modeFile, job, editor, trouble, deaths>>

(***************************************************************************)
(* The program dies; the start rewrites mode file, chain and confs from    *)
(* the configuration (app/core/scheduler.py), but no profile.  A save cut  *)
(* off while the script ran may leave some profiles rewritten.             *)
(***************************************************************************)
Die ==
  /\ deaths < MaxCrashes2 /\ deaths' = deaths + 1
  /\ job' = Idle /\ editor' = Closed /\ issuer' = Torn
  /\ profiles' \in IF AtStep("server", "sync")
                   THEN {[f \in Profiles |-> IF f \in S THEN job.new.conn ELSE profiles[f]] :
                           S \in SUBSET Profiles}
                   ELSE {profiles}
  /\ \/ /\ confs' = [i \in Instances |-> ConfOf(cfg)]
        /\ forward' = default /\ masq' = cfg.net /\ modeFile' = cfg.mode
        /\ drift' = (drift \cap {"profiles", "default"})
                    \cup (IF job.kind = "server" THEN {"profiles"} ELSE {})
                    \cup (IF job.kind = "net" THEN {"default"} ELSE {})
        /\ UNCHANGED trouble
     \/ /\ Trouble
        /\ UNCHANGED <<confs, forward, masq, modeFile>>
        /\ drift' = Resources
  /\ UNCHANGED <<cfg, root, default>>

SetNext ==
  \/ \E i \in ServerInputs : SaveServer(i)
  \/ ServerConf \/ ServerFwd \/ ServerSync
  \/ UndoSave \/ UndoConf \/ UndoFwd
  \/ \E m \in ModeInputs : SaveMode(m)
  \/ WriteMode
  \/ \E n \in Nets : SaveNet(n)
  \/ NetSave \/ NetConf \/ NetRule \/ NetFwd
  \/ \E i \in Instances : OpenEditor(i)
  \/ SaveEditor \/ ReadConn
  \/ \E f \in Profiles : WriteProfile(f)
  \/ Die

SetSpec == SetInit /\ [][SetNext]_setVars

(***************************************************************************)
(* Between two saves, each thing that is derived from config.json is what  *)
(* the configuration says, whether the last save succeeded or was taken    *)
(* back, unless an event that breaks the tie came after the last step that *)
(* restored it.  The events, each added to drift where it happens: a       *)
(* failed rollback, a failed step of a change of the root subnet, any such *)
(* change for MASQUERADE, a torn mode file, an edit by hand, a profile     *)
(* written from an older reading, a death during a save or a failed start. *)
(* Of these, a default rule left behind is found by no later change.       *)
(***************************************************************************)
FollowsConfig ==
  job = Idle =>
    /\ "conf" \in drift \/ \A i \in Instances : confs[i] = ConfOf(cfg)
    /\ "forward" \in drift \/ forward = default
    /\ "default" \in drift \/ (default = cfg.net /\ root = cfg.net)
    /\ "masq" \in drift \/ masq = cfg.net
    /\ "profiles" \in drift \/ \A f \in Profiles : profiles[f] = cfg.conn
    /\ "mode" \in drift \/ modeFile = cfg.mode
=============================================================================
