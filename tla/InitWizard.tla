------------------------------ MODULE InitWizard ------------------------------
(***************************************************************************)
(* The first-run wizard (app/core/init_wizard.py and                       *)
(* app/ui/pages/init_page.py).  Every load of the start page makes an      *)
(* InitPage with an InitWizard of its own, whose copy of the configuration *)
(* is read once and written back whole by every step.  Installation and    *)
(* PKI run in threads that survive the page; the other steps run on the    *)
(* event loop.  Files, group, rule and the running instance survive a      *)
(* crash of the program.                                                   *)
(***************************************************************************)
EXTENDS Integers

CONSTANTS Pages,      \* page objects: loads of the start page
          Subnets,    \* address pools the administrator may enter
          Ports,      \* ports the administrator may enter
          NoSubnet, StdPort, NoConf, Free,
          MaxFaults, MaxCrashes, MaxCas

VARIABLES file,       \* config.json
          installed,  \* a suitable openvpn binary is found on this machine
          pki,        \* what is on disk under the PKI directory
          group,      \* subnet of the default group, or NoSubnet
          rule,       \* the default accept rule exists
          chain,      \* VPN_FORWARD was rebuilt with that rule
          conf,       \* server.conf: what the daemon will read
          running,    \* what the running daemon has read
          page,       \* the page objects
          thread,     \* next step of the page's background thread
          loop,       \* the start step that holds the event loop, or Free
          faults, crashes,
          crossed     \* history: a stale copy was saved, or two threads met

wizVars == <<file, installed, pki, group, rule, chain, conf, running, page,
             thread, loop, faults, crashes, crossed>>

Configs == [bin : BOOLEAN, pki : BOOLEAN, subnet : Subnets \cup {NoSubnet},
            port : Ports, inst : BOOLEAN, init : BOOLEAN]

Blank == [bin |-> FALSE, pki |-> FALSE, subnet |-> NoSubnet, port |-> StdPort,
          inst |-> FALSE, init |-> FALSE]

Conf == [subnet : Subnets, port : Ports]

Forms == {"closed", "detect", "custom", "installing", "pki", "working",
          "subnet", "stuck", "start", "done"}

\* The CA and the server's certificate carry the number of the CA they belong to;
\* of a certificate that was there before the wizard nothing asks whose it is.
Found == MaxCas + 1

Materials == [dir : BOOLEAN, ca : 0..MaxCas, half : BOOLEAN, dh : BOOLEAN,
              key : BOOLEAN, req : BOOLEAN, crt : 0..(MaxCas + 1), crl : BOOLEAN,
              tc2 : BOOLEAN]

NoMaterials == [dir |-> FALSE, ca |-> 0, half |-> FALSE, dh |-> FALSE,
                key |-> FALSE, req |-> FALSE, crt |-> 0, crl |-> FALSE,
                tc2 |-> FALSE]

Steps == {"none", "install", "bin", "inspect", "init", "ca", "dh", "cert",
          "sign", "crl", "tc2", "save", "ok", "failed"}

ClosedPage == [form |-> "closed", cfg |-> Blank, base |-> Blank]

PageStates == [form : Forms, cfg : Configs, base : Configs]

LoopSteps == [page : Pages, at : {"conf", "inst", "mark", "rule", "chain"}]

ASSUME WizardConstants ==
  /\ StdPort \in Ports /\ NoSubnet \notin Subnets
  /\ NoConf \notin Conf /\ Free \notin LoopSteps
  /\ MaxFaults \in Nat /\ MaxCrashes \in Nat /\ MaxCas \in Nat \ {0}

WizTypeOK ==
  /\ file \in Configs /\ pki \in Materials
  /\ installed \in BOOLEAN /\ rule \in BOOLEAN /\ chain \in BOOLEAN
  /\ crossed \in BOOLEAN
  /\ group \in Subnets \cup {NoSubnet}
  /\ conf \in Conf \cup {NoConf} /\ running \in Conf \cup {NoConf}
  /\ page \in [Pages -> PageStates]
  /\ thread \in [Pages -> Steps]
  /\ loop \in LoopSteps \cup {Free}
  /\ faults \in 0..MaxFaults /\ crashes \in 0..MaxCrashes

WizInit ==
  /\ file = Blank /\ installed \in BOOLEAN
  /\ \/ pki = NoMaterials
     \/ \E ca \in 0..1, crt \in {0, Found}, key \in BOOLEAN :
          pki = [NoMaterials EXCEPT !.dir = TRUE, !.ca = ca, !.crt = crt, !.key = key]
  /\ group = NoSubnet /\ rule = FALSE /\ chain = FALSE
  /\ conf = NoConf /\ running = NoConf
  /\ page = [p \in Pages |-> ClosedPage]
  /\ thread = [p \in Pages |-> "none"]
  /\ loop = Free /\ faults = 0 /\ crashes = 0 /\ crossed = FALSE

Fault == faults < MaxFaults /\ faults' = faults + 1

Busy(p) == thread[p] \notin {"none", "ok", "failed"}

(***************************************************************************)
(* inspect_easyrsa_pki: what a PKI directory holds.                        *)
(***************************************************************************)
PkiState(m) == IF m.ca # 0 THEN "ready"
               ELSE IF m.half THEN "partial"
               ELSE IF m.dir THEN "initialized" ELSE "missing"

(***************************************************************************)
(* A step keeps its result in the wizard's copy and saves the whole copy.  *)
(***************************************************************************)
Stale(p) == page[p].base # file

SaveFrom(p, c, form) ==
  /\ file' = c
  /\ page' = [page EXCEPT ![p] = [form |-> form, cfg |-> c, base |-> c]]
  /\ crossed' = (crossed \/ Stale(p))

Show(p, form) == page' = [page EXCEPT ![p].form = form]

\* The forms, usable when no start step holds the event loop.
Offers(p, form) == loop = Free /\ page[p].form = form

DetectForm(p) == Offers(p, "detect")

PathForm(p) == Offers(p, "custom")

PkiForm(p) == Offers(p, "pki")

SubnetForm(p) == Offers(p, "subnet")

StartForm(p) == Offers(p, "start")

(***************************************************************************)
(* _detect_openvpn and _custom_path: a suitable binary is remembered.      *)
(***************************************************************************)
Detect(p) ==
  /\ \/ /\ installed
        /\ SaveFrom(p, [page[p].cfg EXCEPT !.bin = TRUE], "pki")
     \/ /\ ~installed
        /\ Show(p, "detect")
        /\ UNCHANGED <<file, crossed>>
  /\ UNCHANGED <<installed, pki, group, rule, chain, conf, running, thread, loop,
                 faults, crashes>>

RunDetect(p) ==
  /\ PathForm(p)
  /\ Detect(p)

CustomForm(p) ==
  /\ DetectForm(p)
  /\ Show(p, "custom")
  /\ UNCHANGED <<file, installed, pki, group, rule, chain, conf, running, thread,
                 loop, faults, crashes, crossed>>

CustomPath(p) ==
  /\ PathForm(p)
  /\ SaveFrom(p, [page[p].cfg EXCEPT !.bin = TRUE], "pki")
  /\ UNCHANGED <<installed, pki, group, rule, chain, conf, running, thread, loop,
                 faults, crashes>>

(***************************************************************************)
(* _create_default_group, which also follows a saved subnet in the same    *)
(* event.  A failure leaves a page that offers nothing: only a reload,     *)
(* which resumes at this step, goes on.                                    *)
(***************************************************************************)
MakeGroup(p, c) ==
  \/ /\ group' = IF group = NoSubnet THEN c.subnet ELSE group
     /\ page' = [page EXCEPT ![p] = [form |-> "start", cfg |-> c, base |-> file']]
     /\ UNCHANGED faults
  \/ /\ Fault
     /\ page' = [page EXCEPT ![p] = [form |-> "stuck", cfg |-> c, base |-> file']]
     /\ UNCHANGED group

(***************************************************************************)
(* A page is loaded: the configuration is read and the step to resume at   *)
(* is derived from it.  An initialised system shows the dashboard instead. *)
(***************************************************************************)
ResumeStep == IF file.pki /\ file.subnet # NoSubnet
              THEN IF group = NoSubnet THEN "group" ELSE "start"
              ELSE IF file.pki THEN "subnet" ELSE "detect"

Load(p) ==
  /\ loop = Free /\ ~file.init
  /\ page[p].form = "closed" /\ ~Busy(p)
  /\ thread' = [thread EXCEPT ![p] = "none"]
  /\ LET fresh == [form |-> "detect", cfg |-> file, base |-> file] IN
     \/ /\ ResumeStep \in {"start", "subnet"}
        /\ page' = [page EXCEPT ![p] = [fresh EXCEPT !.form = ResumeStep]]
        /\ UNCHANGED <<file, group, faults>>
     \/ /\ ResumeStep = "detect"
        /\ IF installed
           THEN LET c == [file EXCEPT !.bin = TRUE] IN
                /\ file' = c
                /\ page' = [page EXCEPT ![p] = [form |-> "pki", cfg |-> c, base |-> c]]
           ELSE /\ page' = [page EXCEPT ![p] = fresh]
                /\ UNCHANGED file
        /\ UNCHANGED <<group, faults>>
     \/ /\ ResumeStep = "group"
        /\ UNCHANGED file
        /\ MakeGroup(p, file)
  /\ UNCHANGED <<installed, pki, rule, chain, conf, running, loop, crashes, crossed>>

\* The client is deleted: polling stops, a running thread goes on.
Close(p) ==
  /\ page[p].form # "closed"
  /\ loop = Free
  /\ Show(p, "closed")
  /\ UNCHANGED <<file, installed, pki, group, rule, chain, conf, running, thread,
                 loop, faults, crashes, crossed>>

(***************************************************************************)
(* _handle_install and _handle_pki_init start a thread; the page's timer   *)
(* takes its result.                                                       *)
(***************************************************************************)
StartThread(p, shown, first) ==
  /\ ~Busy(p)
  /\ Show(p, shown)
  /\ thread' = [thread EXCEPT ![p] = first]
  /\ crossed' = (crossed \/ \E q \in Pages \ {p} : Busy(q))
  /\ UNCHANGED <<file, installed, pki, group, rule, chain, conf, running, loop,
                 faults, crashes>>

HandleInstall(p) == DetectForm(p) /\ StartThread(p, "installing", "install")

HandlePkiInit(p) == PkiForm(p) /\ StartThread(p, "working", "inspect")

Poll(p) ==
  /\ loop = Free
  /\ thread[p] \in {"ok", "failed"}
  /\ \/ /\ page[p].form = "installing"
        /\ Show(p, IF thread[p] = "ok" THEN "pki" ELSE "detect")
     \/ /\ page[p].form = "working"
        /\ Show(p, IF thread[p] = "ok" THEN "subnet" ELSE "pki")
  /\ thread' = [thread EXCEPT ![p] = "none"]
  /\ UNCHANGED <<file, installed, pki, group, rule, chain, conf, running, loop,
                 faults, crashes, crossed>>

(***************************************************************************)
(* The threads.  A step either does its work and names the next one, or    *)
(* raises, which ends the thread.                                          *)
(***************************************************************************)
Next1(p, s) == thread' = [thread EXCEPT ![p] = s]

Install(p) ==
  /\ thread[p] = "install"
  /\ \/ Next1(p, "bin") /\ installed' = TRUE /\ UNCHANGED faults
     \/ Fault /\ Next1(p, "failed") /\ UNCHANGED installed
  /\ UNCHANGED <<file, pki, group, rule, chain, conf, running, page, loop, crashes,
                 crossed>>

SaveInstalled(p) ==
  /\ thread[p] = "bin"
  /\ SaveFrom(p, [page[p].cfg EXCEPT !.bin = TRUE], page[p].form)
  /\ Next1(p, "ok")
  /\ UNCHANGED <<installed, pki, group, rule, chain, conf, running, loop, faults,
                 crashes>>

PkiUnchanged == UNCHANGED <<file, installed, group, rule, chain, conf, running, page,
                            loop, crashes, crossed>>

\* The state found decides where the work begins; a partial CA is refused.
Inspect(p) ==
  /\ thread[p] = "inspect"
  /\ Next1(p, CASE PkiState(pki) = "ready"       -> "dh"
                [] PkiState(pki) = "partial"     -> "failed"
                [] PkiState(pki) = "initialized" -> "ca"
                [] OTHER                         -> "init")
  /\ UNCHANGED <<pki, faults>> /\ PkiUnchanged

InitPki(p) ==
  /\ thread[p] = "init"
  /\ \/ /\ PkiState(pki) = "partial" /\ Next1(p, "failed")
        /\ UNCHANGED <<pki, faults>>
     \/ /\ PkiState(pki) # "partial" /\ Next1(p, "ca")
        /\ pki' = [pki EXCEPT !.dir = TRUE]
        /\ UNCHANGED faults
     \/ Fault /\ Next1(p, "failed") /\ UNCHANGED pki
  /\ PkiUnchanged

\* build-ca interrupted after the key leaves a CA nothing will overwrite.
BuildCa(p) ==
  /\ thread[p] = "ca"
  /\ \/ /\ PkiState(pki) = "ready" /\ Next1(p, "dh")
        /\ UNCHANGED <<pki, faults>>
     \/ /\ PkiState(pki) = "partial" /\ Next1(p, "failed")
        /\ UNCHANGED <<pki, faults>>
     \/ /\ PkiState(pki) \notin {"ready", "partial"} /\ Next1(p, "dh")
        /\ \E n \in 1..MaxCas : n # pki.crt /\ pki' = [pki EXCEPT !.ca = n]
        /\ UNCHANGED faults
     \/ /\ PkiState(pki) \notin {"ready", "partial"}
        /\ Fault /\ Next1(p, "failed")
        /\ \E h \in BOOLEAN : pki' = [pki EXCEPT !.half = h]
  /\ PkiUnchanged

\* One file made when it is missing and reused when it is there.
Make(p, step, missing, made, next) ==
  /\ thread[p] = step
  /\ \/ /\ pki' = IF missing THEN made ELSE pki
        /\ Next1(p, next)
        /\ UNCHANGED faults
     \/ /\ missing /\ Fault /\ Next1(p, "failed")
        /\ UNCHANGED pki
  /\ PkiUnchanged

GenDh(p) == Make(p, "dh", ~pki.dh, [pki EXCEPT !.dh = TRUE], "cert")

\* Mutant: a server key on disk is taken for a finished certificate.
ServerReqByKey(p) ==
  /\ thread[p] = "cert"
  /\ \/ pki.key /\ Next1(p, "crl") /\ UNCHANGED <<pki, faults>>
     \/ /\ ~pki.key /\ Next1(p, "sign") /\ UNCHANGED faults
        /\ pki' = [pki EXCEPT !.key = TRUE, !.req = TRUE]
     \/ /\ ~pki.key /\ Fault /\ Next1(p, "failed")
        /\ \E k \in BOOLEAN : pki' = [pki EXCEPT !.key = k]
  /\ PkiUnchanged

\* The server's certificate: reused, finished from key and request, or made;
\* any other mixture is refused.  gen-req may leave the key alone.
ServerReq(p) ==
  /\ thread[p] = "cert"
  /\ \/ /\ pki.crt # 0 /\ pki.key /\ Next1(p, "crl")
        /\ UNCHANGED <<pki, faults>>
     \/ /\ pki.crt = 0 /\ pki.key /\ pki.req /\ Next1(p, "sign")
        /\ UNCHANGED <<pki, faults>>
     \/ /\ pki.crt = 0 /\ ~pki.key /\ ~pki.req
        /\ \/ /\ pki' = [pki EXCEPT !.key = TRUE, !.req = TRUE]
              /\ Next1(p, "sign") /\ UNCHANGED faults
           \/ /\ Fault /\ Next1(p, "failed")
              /\ \E k \in BOOLEAN : pki' = [pki EXCEPT !.key = k]
     \/ /\ \/ pki.crt # 0 /\ ~pki.key
           \/ pki.crt = 0 /\ pki.key # pki.req
        /\ Next1(p, "failed")
        /\ UNCHANGED <<pki, faults>>
  /\ PkiUnchanged

Sign(p) == Make(p, "sign", TRUE, [pki EXCEPT !.crt = pki.ca], "crl")

GenCrl(p) == Make(p, "crl", ~pki.crl, [pki EXCEPT !.crl = TRUE], "tc2")

GenTc2(p) == Make(p, "tc2", ~pki.tc2, [pki EXCEPT !.tc2 = TRUE], "save")

\* Refused, the directory stays in the page's copy; the permissions and the audit
\* entry that follow a save may fail too.
SavePki(p) ==
  /\ thread[p] = "save"
  /\ \/ /\ SaveFrom(p, [page[p].cfg EXCEPT !.pki = TRUE], page[p].form)
        /\ \/ Next1(p, "ok") /\ UNCHANGED faults
           \/ Next1(p, "failed") /\ Fault
     \/ /\ page' = [page EXCEPT ![p].cfg.pki = TRUE]
        /\ Next1(p, "failed") /\ Fault
        /\ UNCHANGED <<file, crossed>>
  /\ UNCHANGED <<installed, pki, group, rule, chain, conf, running, loop, crashes>>

Work(p) == \/ Install(p) \/ SaveInstalled(p) \/ Inspect(p) \/ InitPki(p)
           \/ BuildCa(p) \/ GenDh(p) \/ ServerReq(p) \/ Sign(p) \/ GenCrl(p)
           \/ GenTc2(p) \/ SavePki(p)

(***************************************************************************)
(* _config_subnet.  Refused push routes are noticed after the subnet was   *)
(* put into the copy, which is then not saved.                             *)
(***************************************************************************)
ConfigSubnet(p) ==
  /\ SubnetForm(p)
  /\ \E s \in Subnets, n \in Ports :
       LET c == [page[p].cfg EXCEPT !.subnet = s, !.port = n] IN
       \/ /\ file' = c
          /\ crossed' = (crossed \/ Stale(p))
          /\ MakeGroup(p, c)
       \/ /\ page' = [page EXCEPT ![p].cfg = c]
          /\ UNCHANGED <<file, group, faults, crossed>>
  /\ UNCHANGED <<installed, pki, rule, chain, conf, running, thread, loop, crashes>>

(***************************************************************************)
(* _start_service, step by step: it holds the event loop, but threads go   *)
(* on and a crash may fall between two steps.                              *)
(***************************************************************************)
StartService(p) ==
  /\ StartForm(p)
  /\ loop' = [page |-> p, at |-> "conf"]
  /\ UNCHANGED <<file, installed, pki, group, rule, chain, conf, running, page,
                 thread, faults, crashes, crossed>>

Holds(at) == loop # Free /\ loop.at = at

GiveUp == /\ Fault /\ loop' = Free

\* The values handed to write_server_conf name no port: the default is written.
WizardConf(c) == [subnet |-> c.subnet, port |-> StdPort]

WriteConf ==
  /\ Holds("conf")
  /\ \/ /\ conf' = WizardConf(page[loop.page].cfg)
        /\ loop' = [loop EXCEPT !.at = "inst"]
        /\ UNCHANGED faults
     \/ GiveUp /\ UNCHANGED conf
  /\ UNCHANGED <<file, installed, pki, group, rule, chain, running, page, thread,
                 crashes, crossed>>

\* enable --now does not restart an instance that runs already.
StartInstance ==
  /\ Holds("inst")
  /\ \/ /\ running' = IF running = NoConf THEN conf ELSE running
        /\ loop' = [loop EXCEPT !.at = "mark"]
        /\ UNCHANGED faults
     \/ GiveUp /\ UNCHANGED running
  /\ UNCHANGED <<file, installed, pki, group, rule, chain, conf, page, thread,
                 crashes, crossed>>

MarkInitialized ==
  /\ Holds("mark")
  /\ LET p == loop.page IN
     SaveFrom(p, [page[p].cfg EXCEPT !.inst = TRUE, !.init = TRUE], page[p].form)
  /\ loop' = [loop EXCEPT !.at = "rule"]
  /\ UNCHANGED <<installed, pki, group, rule, chain, conf, running, thread, faults,
                 crashes>>

DefaultRule ==
  /\ Holds("rule")
  /\ \/ /\ rule' = (rule \/ group # NoSubnet)
        /\ loop' = [loop EXCEPT !.at = "chain"]
        /\ UNCHANGED faults
     \/ GiveUp /\ UNCHANGED rule
  /\ UNCHANGED <<file, installed, pki, group, chain, conf, running, page, thread,
                 crashes, crossed>>

RebuildChain ==
  /\ Holds("chain")
  /\ \/ /\ chain' = rule
        /\ Show(loop.page, "done")
        /\ loop' = Free
        /\ UNCHANGED faults
     \/ GiveUp /\ UNCHANGED <<chain, page>>
  /\ UNCHANGED <<file, installed, pki, group, rule, conf, running, thread, crashes,
                 crossed>>

(***************************************************************************)
(* The program dies and starts again.  Pages and threads are gone; an      *)
(* initialised system rebuilds the chain and rewrites server.conf from the *)
(* configuration, each of which may fail and is then only logged.          *)
(***************************************************************************)
Restart ==
  /\ crashes < MaxCrashes /\ crashes' = crashes + 1
  /\ page' = [p \in Pages |-> ClosedPage]
  /\ thread' = [p \in Pages |-> "none"]
  /\ loop' = Free
  /\ chain' \in IF file.init THEN {chain, rule} ELSE {chain}
  /\ conf' \in IF file.init /\ file.subnet # NoSubnet
               THEN {conf, [subnet |-> file.subnet, port |-> file.port]} ELSE {conf}
  /\ UNCHANGED <<file, installed, pki, group, rule, running, faults, crossed>>

WizNext ==
  \/ \E p \in Pages : \/ Load(p) \/ Close(p) \/ RunDetect(p) \/ CustomForm(p)
                      \/ CustomPath(p) \/ HandleInstall(p) \/ HandlePkiInit(p)
                      \/ Poll(p) \/ Work(p) \/ ConfigSubnet(p) \/ StartService(p)
  \/ WriteConf \/ StartInstance \/ MarkInitialized \/ DefaultRule \/ RebuildChain
  \/ Restart

WizSpec == WizInit /\ [][WizNext]_wizVars

(***************************************************************************)
(* Whatever failed and was retried on the way, a system marked initialised *)
(* has a whole PKI whose server certificate is of its own CA, unless one   *)
(* was found on disk, a default group over the saved address pool and a    *)
(* server.conf for it; a page that reports success has the instance        *)
(* running and its default rule in the chain.  Stale copies and two        *)
(* threads at once are the listed exceptions.                              *)
(***************************************************************************)
PkiWhole == /\ pki.ca # 0 /\ pki.crt \in {pki.ca, Found} /\ pki.key
            /\ pki.dh /\ pki.crl /\ pki.tc2

SetupWhole ==
  crossed \/ /\ file.init => /\ file.bin /\ file.pki /\ PkiWhole
                             /\ group # NoSubnet /\ group = file.subnet
                             /\ conf # NoConf /\ conf.subnet = file.subnet
             /\ \A p \in Pages : page[p].form = "done" =>
                                 rule /\ chain /\ running # NoConf

(***************************************************************************)
(* The field port of the configuration is the port the default instance    *)
(* listens on (app/models/config.py): once the page reports success the    *)
(* daemon listens there.                                                   *)
(***************************************************************************)
ListensOnPort ==
  crossed \/ \A p \in Pages : page[p].form = "done" => running.port = file.port
=============================================================================
