------------------------------ MODULE HostProofs ------------------------------
(***************************************************************************)
(* Proofs about the components of the host: a system the wizard marks      *)
(* initialised is whole (InitWizard); what is derived from config.json     *)
(* follows it (ServerSettings); an upgrade of OpenVPN is all or nothing    *)
(* (Upgrade); a backup or restore during which nothing else writes is      *)
(* whole (FullBackup). For any number of pages, instances, parts, panels,  *)
(* attempts, failures, restarts and deaths of the program.                 *)
(***************************************************************************)
EXTENDS MCHost, FiniteSetTheorems, TLAPS

(***************************************************************************)
(* InitWizard: initialised is whole                                        *)
(***************************************************************************)

PkiSteps == {"inspect", "init", "ca", "dh", "cert", "sign", "crl", "tc2", "save"}

\* What is on disk at each step of a thread; nothing of it ever goes away.
Made(s) ==
  /\ s \in {"dh", "cert", "sign", "crl", "tc2", "save"} => pki.ca # 0
  /\ s \in {"cert", "sign", "crl", "tc2", "save"} => pki.dh
  /\ s \in {"sign", "crl", "tc2", "save"} => pki.key
  /\ s \in {"crl", "tc2", "save"} => pki.crt \in {pki.ca, Found}
  /\ s \in {"tc2", "save"} => pki.crl
  /\ s = "save" => pki.tc2

\* What any copy of the configuration may say.
Sane(c) ==
  /\ c.pki => c.bin /\ PkiWhole
  /\ c.subnet # NoSubnet => c.pki
  /\ c.init => c.subnet # NoSubnet

ThreadKnown(p) ==
  /\ thread[p] \in {"install", "bin"} =>
       /\ page[p].form \in {"closed", "installing"}
       /\ page[p].cfg = page[p].base /\ ~page[p].cfg.pki
  /\ thread[p] \in PkiSteps =>
       /\ page[p].form \in {"closed", "working"} /\ page[p].cfg.bin
       /\ page[p].cfg.subnet = NoSubnet /\ page[p].base.subnet = NoSubnet
  /\ Made(thread[p])

FormKnown(p) ==
  /\ page[p].form \notin {"closed", "subnet", "pki", "working"} =>
       page[p].cfg = page[p].base
  /\ page[p].form \in {"detect", "custom", "installing"} => ~page[p].cfg.pki
  /\ page[p].form \in {"pki", "working"} => page[p].cfg.subnet = NoSubnet
  /\ page[p].form = "installing" => (thread[p] = "ok" => page[p].cfg.bin)
  /\ page[p].form = "working" => (thread[p] = "ok" => page[p].cfg.pki)
  /\ page[p].form \in {"pki", "working"} => page[p].cfg.bin
  /\ page[p].form \in {"subnet", "stuck", "start", "done"} => page[p].cfg.pki
  /\ page[p].form \in {"pki", "working", "subnet"} =>
       page[p].base.subnet = NoSubnet /\ ~page[p].cfg.init
  /\ page[p].form \in {"stuck", "start", "done"} => page[p].cfg.subnet # NoSubnet
  /\ page[p].form \in {"start", "done"} => group # NoSubnet
  /\ page[p].form = "done" => rule /\ chain /\ running # NoConf

LoopKnown ==
  loop # Free =>
    /\ page[loop.page].form = "start"
    /\ loop.at \in {"inst", "mark"} =>
         conf # NoConf /\ conf.subnet = page[loop.page].cfg.subnet
    /\ loop.at \in {"mark", "rule", "chain"} => running # NoConf
    /\ loop.at = "chain" => rule

General ==
  /\ pki.crt # 0 => pki.crt \in {pki.ca, Found}
  /\ Sane(file)
  /\ \A p \in Pages : Sane(page[p].cfg) /\ Sane(page[p].base)
  /\ \A p \in Pages : ThreadKnown(p) /\ FormKnown(p)
  /\ LoopKnown

\* As long as no stale copy was saved the address pool is chosen once.
OnePool ==
  /\ group # NoSubnet => group = file.subnet
  /\ \A p \in Pages : page[p].base.subnet \in {NoSubnet, file.subnet}
  /\ file.init => group # NoSubnet /\ conf # NoConf /\ conf.subnet = file.subnet

WizInv == WizTypeOK /\ General /\ (crossed \/ OnePool)

(***************************************************************************)
(* Frames.  What a step leaves standing is monotone: materials, group,     *)
(* rule, chain and instance are only ever added, except by a restart,      *)
(* which leaves no page behind.                                            *)
(***************************************************************************)
Grows ==
  /\ PkiWhole => PkiWhole'
  /\ \A s \in Steps : Made(s) => Made(s)'
  /\ group # NoSubnet => group' # NoSubnet
  /\ rule => rule'
  /\ chain => chain'
  /\ running # NoConf => running' # NoConf

\* The part of the invariant about the copies, the thread and the form of a page.
PageKnown(p) == /\ Sane(page[p].cfg) /\ Sane(page[p].base)
                /\ ThreadKnown(p) /\ FormKnown(p)

\* A page a step does not touch stays as known as it was (every action).
LEMMA PageKept ==
  ASSUME WizInv, Grows, NEW q \in Pages,
         page'[q] = page[q], thread'[q] = thread[q]
  PROVE  PageKnown(q)'
<1>1. /\ Sane(page[q].cfg) /\ Sane(page[q].base)
      /\ ThreadKnown(q) /\ FormKnown(q) /\ thread[q] \in Steps
  BY DEF WizInv, General, WizTypeOK
<1>2. Sane(page[q].cfg)' /\ Sane(page[q].base)'
  BY <1>1 DEF Sane, Grows
<1>3. ThreadKnown(q)'
  BY <1>1 DEF ThreadKnown, Grows, Busy
<1>4. FormKnown(q)'
  BY <1>1 DEF FormKnown, Grows
<1> QED  BY <1>2, <1>3, <1>4 DEF PageKnown

\* A step of one page: what has to be shown of it (every action but Restart).
LEMMA OnePage ==
  ASSUME WizInv, Grows, NEW p \in Pages,
         \A q \in Pages \ {p} : page'[q] = page[q] /\ thread'[q] = thread[q],
         WizTypeOK', PageKnown(p)', Sane(file)', LoopKnown',
         (pki.crt # 0 => pki.crt \in {pki.ca, Found})', (crossed \/ OnePool)'
  PROVE  WizInv'
<1>1. \A q \in Pages : PageKnown(q)'
  BY PageKept
<1>2. General'
  BY <1>1 DEF General, PageKnown
<1> QED  BY <1>2 DEF WizInv

\* Nothing grows by standing still.
LEMMA Still ==
  ASSUME UNCHANGED <<pki, group, rule, chain, running>>
  PROVE  Grows
BY DEF Grows, PkiWhole, Made

\* The start step that holds the event loop is not disturbed by other pages.
LEMMA LoopStays ==
  ASSUME WizInv, Grows, UNCHANGED <<loop, conf>>,
         loop # Free => page'[loop.page] = page[loop.page]
  PROVE  LoopKnown'
BY DEF WizInv, General, LoopKnown, Grows

\* Files and copies that stay keep one address pool.
LEMMA PoolKept ==
  ASSUME WizInv, UNCHANGED <<file, group, conf>>, crossed => crossed',
         \A q \in Pages : page'[q].base.subnet \in {page[q].base.subnet, file.subnet, NoSubnet}
  PROVE  (crossed \/ OnePool)'
BY DEF WizInv, OnePool

\* A page of the type as the steps write it (Show, SaveFrom, MakeGroup, Load).
LEMMA Written ==
  ASSUME WizTypeOK, NEW p \in Pages, NEW v \in PageStates,
         page' = [page EXCEPT ![p] = v]
  PROVE  /\ page' \in [Pages -> PageStates]
         /\ page'[p] = v
         /\ \A q \in Pages \ {p} : page'[q] = page[q]
BY DEF WizTypeOK

LEMMA Shown ==
  ASSUME WizTypeOK, NEW p \in Pages, NEW f \in Forms, Show(p, f)
  PROVE  /\ page' \in [Pages -> PageStates]
         /\ page'[p].form = f /\ page'[p].cfg = page[p].cfg
         /\ page'[p].base = page[p].base
         /\ \A q \in Pages \ {p} : page'[q] = page[q]
BY DEF WizTypeOK, Show, PageStates

LEMMA PageSaves ==
  ASSUME WizTypeOK, NEW p \in Pages, NEW f \in Forms, NEW c \in Configs,
         SaveFrom(p, c, f)
  PROVE  /\ file' = c /\ file' \in Configs /\ crossed' \in BOOLEAN
         /\ page' \in [Pages -> PageStates]
         /\ page'[p].form = f /\ page'[p].cfg = c /\ page'[p].base = c
         /\ \A q \in Pages \ {p} : page'[q] = page[q]
         /\ crossed' <=> (crossed \/ page[p].base # file)
<1>1. [form |-> f, cfg |-> c, base |-> c] \in PageStates
  BY DEF PageStates
<1>2. page' = [page EXCEPT ![p] = [form |-> f, cfg |-> c, base |-> c]]
  BY DEF SaveFrom
<1>3. file' = c /\ (crossed' <=> (crossed \/ page[p].base # file)) /\ crossed' \in BOOLEAN
  BY DEF SaveFrom, Stale, WizTypeOK
<1> QED  BY <1>1, <1>2, <1>3, Written

LEMMA Threaded ==
  ASSUME WizTypeOK, NEW p \in Pages, NEW s \in Steps,
         thread' = [thread EXCEPT ![p] = s]
  PROVE  /\ thread' \in [Pages -> Steps] /\ thread'[p] = s
         /\ \A q \in Pages \ {p} : thread'[q] = thread[q]
BY DEF WizTypeOK

LEMMA PageFields ==
  ASSUME WizTypeOK, NEW p \in Pages
  PROVE  /\ page[p] \in PageStates /\ page[p].cfg \in Configs /\ page[p].base \in Configs
         /\ page[p].form \in Forms /\ thread[p] \in Steps
BY DEF WizTypeOK, PageStates

\* The first state: every page closed, nothing set up.
LEMMA WizInitKnown == WizInit => WizInv
<1> SUFFICES ASSUME WizInit PROVE WizInv
  OBVIOUS
<1>1. Blank \in Configs
  BY WizardConstants DEF Blank, Configs
<1>2. ClosedPage \in PageStates
  BY <1>1 DEF ClosedPage, PageStates, Forms
<1>3. pki \in Materials /\ pki.crt \in {0, Found}
  <2>1. 0..1 \subseteq 0..MaxCas /\ {0, Found} \subseteq 0..(MaxCas + 1)
    BY WizardConstants DEF Found
  <2>2. 0 \in 0..MaxCas /\ 0 \in 0..(MaxCas + 1)
    BY WizardConstants
  <2>3. NoMaterials \in Materials /\ NoMaterials.crt = 0
    BY <2>2 DEF NoMaterials, Materials
  <2>4. ASSUME NEW ca \in 0..1, NEW crt \in {0, Found}, NEW k \in BOOLEAN,
               pki = [NoMaterials EXCEPT !.dir = TRUE, !.ca = ca, !.crt = crt, !.key = k]
        PROVE  pki \in Materials /\ pki.crt = crt
    <3>1. ca \in 0..MaxCas /\ crt \in 0..(MaxCas + 1)
      BY <2>1
    <3> QED BY <2>3, <2>4, <3>1 DEF Materials
  <2> QED  BY <2>3, <2>4 DEF WizInit
<1>4. WizTypeOK
  <2>1. page \in [Pages -> PageStates] /\ thread \in [Pages -> Steps]
    BY <1>2 DEF WizInit, Steps
  <2>a. faults = 0 /\ crashes = 0
    BY DEF WizInit
  <2>2. faults \in 0..MaxFaults /\ crashes \in 0..MaxCrashes
    BY <2>a, WizardConstants
  <2> QED  BY <1>1, <1>3, <2>1, <2>2 DEF WizInit, WizTypeOK
<1>6. Sane(Blank)
  BY DEF Sane, Blank
<1>7. \A p \in Pages : /\ page[p] = ClosedPage /\ thread[p] = "none"
                       /\ page[p].cfg = Blank /\ page[p].base = Blank
                       /\ page[p].form = "closed"
  BY DEF WizInit, ClosedPage
<1>8. \A p \in Pages : ThreadKnown(p) /\ FormKnown(p)
  BY <1>7 DEF ThreadKnown, FormKnown, Busy, Made, PkiSteps
<1>9. LoopKnown
  BY DEF WizInit, LoopKnown
<1>10. General
  BY <1>3, <1>6, <1>7, <1>8, <1>9 DEF General, WizInit
<1>11. OnePool
  BY <1>7 DEF OnePool, WizInit, Blank
<1> QED  BY <1>4, <1>10, <1>11 DEF WizInv

\* What the invariant says is what SetupWhole promises.
LEMMA WizInvWhole == WizInv => SetupWhole
BY DEF WizInv, General, OnePool, Sane, FormKnown, SetupWhole

(***************************************************************************)
(* Steps of a page on the event loop: no start step is under way.          *)
(***************************************************************************)
LEMMA Known ==
  ASSUME WizInv, NEW p \in Pages
  PROVE  PageKnown(p)
BY DEF WizInv, General, PageKnown

LEMMA CustomFormKeeps ==
  ASSUME WizInv, NEW p \in Pages, CustomForm(p)
  PROVE  WizInv'
<1>1. /\ Show(p, "custom") /\ page[p].form = "detect" /\ loop = Free
      /\ UNCHANGED <<file, installed, pki, group, rule, chain, conf, running, thread,
                     loop, faults, crashes, crossed>>
  BY DEF CustomForm, DetectForm, Offers
<1>2. WizTypeOK /\ PageKnown(p) /\ "custom" \in Forms
  BY Known DEF WizInv, Forms
<1>3. /\ page' \in [Pages -> PageStates]
      /\ page'[p].form = "custom" /\ page'[p].cfg = page[p].cfg
      /\ page'[p].base = page[p].base
      /\ \A q \in Pages \ {p} : page'[q] = page[q]
  BY <1>1, <1>2, Shown
<1>4. Grows
  BY <1>1, Still
<1>5. WizTypeOK'
  BY <1>1, <1>2, <1>3 DEF WizTypeOK
<1>6. PageKnown(p)'
  BY <1>1, <1>2, <1>3, <1>4 DEF PageKnown, Sane, ThreadKnown, FormKnown, Grows, Busy, Made,
     PkiWhole, PkiSteps
<1>7. LoopKnown'
  BY <1>1 DEF LoopKnown
<1>8. (crossed \/ OnePool)'
  BY <1>1, <1>3, PoolKept
<1> QED  BY <1>1, <1>3, <1>4, <1>5, <1>6, <1>7, <1>8, OnePage DEF WizInv, General, Sane, PkiWhole

LEMMA CloseKeeps ==
  ASSUME WizInv, NEW p \in Pages, Close(p)
  PROVE  WizInv'
<1>1. /\ Show(p, "closed") /\ loop = Free
      /\ UNCHANGED <<file, installed, pki, group, rule, chain, conf, running, thread,
                     loop, faults, crashes, crossed>>
  BY DEF Close
<1>2. WizTypeOK /\ PageKnown(p) /\ "closed" \in Forms
  BY Known DEF WizInv, Forms
<1>3. /\ page' \in [Pages -> PageStates]
      /\ page'[p].form = "closed" /\ page'[p].cfg = page[p].cfg
      /\ page'[p].base = page[p].base
      /\ \A q \in Pages \ {p} : page'[q] = page[q]
  BY <1>1, <1>2, Shown
<1>4. Grows
  BY <1>1, Still
<1>5. WizTypeOK'
  BY <1>1, <1>2, <1>3 DEF WizTypeOK
<1>6. PageKnown(p)'
  BY <1>1, <1>2, <1>3, <1>4 DEF PageKnown, Sane, ThreadKnown, FormKnown, Grows, Busy, Made,
     PkiWhole
<1>7. LoopKnown'
  BY <1>1 DEF LoopKnown
<1>8. (crossed \/ OnePool)'
  BY <1>1, <1>3, PoolKept
<1> QED  BY <1>1, <1>3, <1>4, <1>5, <1>6, <1>7, <1>8, OnePage DEF WizInv, General, Sane, PkiWhole

LEMMA StartServiceKeeps ==
  ASSUME WizInv, NEW p \in Pages, StartService(p)
  PROVE  WizInv'
<1>1. /\ page[p].form = "start" /\ loop' = [page |-> p, at |-> "conf"]
      /\ UNCHANGED <<file, installed, pki, group, rule, chain, conf, running, page,
                     thread, faults, crashes, crossed>>
  BY DEF StartService, StartForm, Offers
<1>2. loop' \in LoopSteps
  BY <1>1 DEF LoopSteps
<1>3. WizTypeOK'
  BY <1>1, <1>2 DEF WizInv, WizTypeOK
<1>4. LoopKnown'
  BY <1>1 DEF LoopKnown
<1>5. Grows
  BY <1>1, Still
<1>6. PageKnown(p)'
  BY <1>1, <1>5, PageKept
<1>7. (crossed \/ OnePool)'
  BY <1>1, PoolKept
<1> QED  BY <1>1, <1>3, <1>4, <1>5, <1>6, <1>7, OnePage DEF WizInv, General, Sane, PkiWhole

(***************************************************************************)
(* Starting a thread and taking its result.                                *)
(***************************************************************************)
LEMMA PollKeeps ==
  ASSUME WizInv, NEW p \in Pages, Poll(p)
  PROVE  WizInv'
<1>1. /\ thread' = [thread EXCEPT ![p] = "none"] /\ loop = Free
      /\ UNCHANGED <<file, installed, pki, group, rule, chain, conf, running,
                     loop, faults, crashes, crossed>>
  BY DEF Poll
<1>2. WizTypeOK /\ PageKnown(p) /\ "none" \in Steps
  BY Known DEF WizInv, Steps
<1>3. PICK f \in {"pki", "detect", "subnet"} :
        /\ Show(p, f)
        /\ \/ page[p].form = "installing" /\ f = "pki" /\ thread[p] = "ok"
           \/ page[p].form = "installing" /\ f = "detect" /\ thread[p] = "failed"
           \/ page[p].form = "working" /\ f = "subnet" /\ thread[p] = "ok"
           \/ page[p].form = "working" /\ f = "pki" /\ thread[p] = "failed"
  BY DEF Poll
<1>4. f \in Forms
  BY DEF Forms
<1>5. /\ page' \in [Pages -> PageStates]
      /\ page'[p].form = f /\ page'[p].cfg = page[p].cfg
      /\ page'[p].base = page[p].base
      /\ \A q \in Pages \ {p} : page'[q] = page[q]
  BY <1>2, <1>3, <1>4, Shown
<1>6. /\ thread' \in [Pages -> Steps] /\ thread'[p] = "none"
      /\ \A q \in Pages \ {p} : thread'[q] = thread[q]
  BY <1>1, <1>2, Threaded
<1>7. Grows
  BY <1>1, Still
<1>8. WizTypeOK'
  BY <1>1, <1>2, <1>5, <1>6 DEF WizTypeOK
<1>9. PageKnown(p)'
  <2>1. Sane(page[p].cfg)' /\ Sane(page[p].base)'
    BY <1>1, <1>2, <1>5 DEF PageKnown, Sane, PkiWhole
  <2>2. ThreadKnown(p)'
    BY <1>6 DEF ThreadKnown, Busy, Made, PkiSteps
  <2>3. FormKnown(p)'
    BY <1>1, <1>2, <1>3, <1>5, <1>6 DEF PageKnown, FormKnown, Sane
  <2> QED  BY <2>1, <2>2, <2>3 DEF PageKnown
<1>10. LoopKnown'
  BY <1>1 DEF LoopKnown
<1>11. (crossed \/ OnePool)'
  BY <1>1, <1>5, PoolKept
<1> QED  BY <1>1, <1>5, <1>6, <1>7, <1>8, <1>9, <1>10, <1>11, OnePage
         DEF WizInv, General, Sane, PkiWhole

LEMMA HandleInstallKeeps ==
  ASSUME WizInv, NEW p \in Pages, HandleInstall(p)
  PROVE  WizInv'
<1>1. /\ Show(p, "installing") /\ page[p].form = "detect" /\ loop = Free
      /\ thread' = [thread EXCEPT ![p] = "install"]
      /\ crossed' = (crossed \/ \E q \in Pages \ {p} : Busy(q))
      /\ UNCHANGED <<file, installed, pki, group, rule, chain, conf, running, loop,
                     faults, crashes>>
  BY DEF HandleInstall, DetectForm, Offers, StartThread
<1>2. WizTypeOK /\ PageKnown(p) /\ "installing" \in Forms /\ "install" \in Steps
  BY Known DEF WizInv, Forms, Steps
<1>3. /\ page' \in [Pages -> PageStates]
      /\ page'[p].form = "installing" /\ page'[p].cfg = page[p].cfg
      /\ page'[p].base = page[p].base
      /\ \A q \in Pages \ {p} : page'[q] = page[q]
  BY <1>1, <1>2, Shown
<1>4. /\ thread' \in [Pages -> Steps] /\ thread'[p] = "install"
      /\ \A q \in Pages \ {p} : thread'[q] = thread[q]
  BY <1>1, <1>2, Threaded
<1>5. Grows
  BY <1>1, Still
<1>6. crossed' \in BOOLEAN /\ (crossed => crossed')
  BY <1>1
<1>7. WizTypeOK'
  BY <1>1, <1>2, <1>3, <1>4, <1>6 DEF WizTypeOK
<1>8. PageKnown(p)'
  BY <1>1, <1>2, <1>3, <1>4 DEF PageKnown, Sane, ThreadKnown, FormKnown, Busy, Made,
     PkiWhole, PkiSteps
<1>9. LoopKnown'
  BY <1>1 DEF LoopKnown
<1>10. (crossed \/ OnePool)'
  BY <1>1, <1>3, <1>6, PoolKept
<1> QED  BY <1>1, <1>3, <1>4, <1>5, <1>7, <1>8, <1>9, <1>10, OnePage
         DEF WizInv, General, Sane, PkiWhole

LEMMA HandlePkiInitKeeps ==
  ASSUME WizInv, NEW p \in Pages, HandlePkiInit(p)
  PROVE  WizInv'
<1>1. /\ Show(p, "working") /\ page[p].form = "pki" /\ loop = Free
      /\ thread' = [thread EXCEPT ![p] = "inspect"]
      /\ crossed' = (crossed \/ \E q \in Pages \ {p} : Busy(q))
      /\ UNCHANGED <<file, installed, pki, group, rule, chain, conf, running, loop,
                     faults, crashes>>
  BY DEF HandlePkiInit, PkiForm, Offers, StartThread
<1>2. WizTypeOK /\ PageKnown(p) /\ "working" \in Forms /\ "inspect" \in Steps
  BY Known DEF WizInv, Forms, Steps
<1>3. /\ page' \in [Pages -> PageStates]
      /\ page'[p].form = "working" /\ page'[p].cfg = page[p].cfg
      /\ page'[p].base = page[p].base
      /\ \A q \in Pages \ {p} : page'[q] = page[q]
  BY <1>1, <1>2, Shown
<1>4. /\ thread' \in [Pages -> Steps] /\ thread'[p] = "inspect"
      /\ \A q \in Pages \ {p} : thread'[q] = thread[q]
  BY <1>1, <1>2, Threaded
<1>5. Grows
  BY <1>1, Still
<1>6. crossed' \in BOOLEAN /\ (crossed => crossed')
  BY <1>1
<1>7. WizTypeOK'
  BY <1>1, <1>2, <1>3, <1>4, <1>6 DEF WizTypeOK
<1>8. PageKnown(p)'
  BY <1>1, <1>2, <1>3, <1>4 DEF PageKnown, Sane, ThreadKnown, FormKnown, Busy, Made,
     PkiWhole, PkiSteps
<1>9. LoopKnown'
  BY <1>1 DEF LoopKnown
<1>10. (crossed \/ OnePool)'
  BY <1>1, <1>3, <1>6, PoolKept
<1> QED  BY <1>1, <1>3, <1>4, <1>5, <1>7, <1>8, <1>9, <1>10, OnePage
         DEF WizInv, General, Sane, PkiWhole

(***************************************************************************)
(* The PKI thread.  Each of its steps adds one material, or none, and      *)
(* names the next step or fails.                                           *)
(***************************************************************************)
LEMMA PkiStepKeeps ==
  ASSUME WizInv, NEW p \in Pages, thread[p] \in PkiSteps, PkiUnchanged, Grows,
         NEW s \in PkiSteps \cup {"failed"}, Next1(p, s), Made(s)',
         pki' \in Materials, (pki.crt # 0 => pki.crt \in {pki.ca, Found})',
         faults' \in 0..MaxFaults
  PROVE  WizInv'
<1>1. UNCHANGED <<file, installed, group, rule, chain, conf, running, page, loop,
                  crashes, crossed>>
  BY DEF PkiUnchanged
<1>2. WizTypeOK /\ PageKnown(p) /\ s \in Steps
  BY Known DEF WizInv, Steps, PkiSteps
<1>3. /\ thread' \in [Pages -> Steps] /\ thread'[p] = s
      /\ \A q \in Pages \ {p} : thread'[q] = thread[q]
  BY <1>2, Threaded DEF Next1
<1>4. WizTypeOK'
  BY <1>1, <1>2, <1>3 DEF WizTypeOK
<1>5. PageKnown(p)'
  <2>1. Sane(page[p].cfg)' /\ Sane(page[p].base)'
    BY <1>1, <1>2 DEF PageKnown, Sane, Grows
  <2>2. Busy(p) /\ thread[p] \notin {"install", "bin", "ok"}
    BY DEF Busy, PkiSteps
  <2>3. ThreadKnown(p)'
    BY <1>1, <1>2, <1>3, <2>2 DEF PageKnown, ThreadKnown, Busy, PkiSteps, Made
  <2>4. page[p].form \in {"closed", "working"} /\ s # "ok"
    BY <1>2, <2>2 DEF PageKnown, ThreadKnown, PkiSteps
  <2>5. FormKnown(p)'
    BY <1>1, <1>2, <1>3, <2>4 DEF PageKnown, FormKnown
  <2> QED  BY <2>1, <2>3, <2>5 DEF PageKnown
<1>6. LoopKnown'
  BY <1>1, LoopStays
<1>7. (crossed \/ OnePool)'
  BY <1>1, PoolKept
<1>8. Sane(file)'
  BY <1>1 DEF WizInv, General, Sane, Grows
<1> QED  BY <1>1, <1>3, <1>4, <1>5, <1>6, <1>7, <1>8, OnePage

LEMMA PkiFacts ==
  ASSUME WizInv, NEW p \in Pages
  PROVE  /\ pki \in Materials /\ Made(thread[p]) /\ faults \in 0..MaxFaults
         /\ pki.crt # 0 => pki.crt \in {pki.ca, Found}
BY DEF WizInv, WizTypeOK, General, ThreadKnown

LEMMA FaultCounted ==
  ASSUME WizInv, Fault
  PROVE  faults' \in 0..MaxFaults
BY WizardConstants DEF Fault, WizInv, WizTypeOK

LEMMA InspectKeeps ==
  ASSUME WizInv, NEW p \in Pages, Inspect(p)
  PROVE  WizInv'
<1>1. UNCHANGED <<pki, faults>> /\ PkiUnchanged /\ thread[p] = "inspect"
  BY DEF Inspect
<1>2. PICK s \in {"dh", "failed", "ca", "init"} :
        Next1(p, s) /\ (s = "dh" => pki.ca # 0)
  BY DEF Inspect, PkiState
<1>3. Grows
  BY <1>1, Still DEF PkiUnchanged
<1>4. Made(s)'
  BY <1>1, <1>2 DEF Made
<1>5. s \in PkiSteps \cup {"failed"} /\ thread[p] \in PkiSteps
  BY <1>1, <1>2 DEF PkiSteps
<1> QED  BY <1>1, <1>2, <1>3, <1>4, <1>5, PkiFacts, PkiStepKeeps

LEMMA InitPkiKeeps ==
  ASSUME WizInv, NEW p \in Pages, InitPki(p)
  PROVE  WizInv'
<1>1. PkiUnchanged /\ thread[p] = "init" /\ thread[p] \in PkiSteps
  BY DEF InitPki, PkiSteps
<1>2. PICK s \in {"failed", "ca"} : Next1(p, s)
  BY DEF InitPki
<1>3. pki' = pki \/ pki' = [pki EXCEPT !.dir = TRUE]
  BY DEF InitPki
<1>4. /\ pki' \in Materials /\ pki'.ca = pki.ca /\ pki'.dh = pki.dh /\ pki'.key = pki.key
      /\ pki'.crt = pki.crt /\ pki'.crl = pki.crl /\ pki'.tc2 = pki.tc2
  BY <1>3, PkiFacts DEF Materials
<1>5. Grows
  BY <1>1, <1>4 DEF Grows, PkiUnchanged, PkiWhole, Made
<1>6. faults' \in 0..MaxFaults
  BY FaultCounted, PkiFacts DEF InitPki
<1>7. Made(s)' /\ s \in PkiSteps \cup {"failed"}
  BY <1>2 DEF Made, PkiSteps
<1> QED  BY <1>1, <1>2, <1>4, <1>5, <1>6, <1>7, PkiFacts, PkiStepKeeps

LEMMA BuildCaKeeps ==
  ASSUME WizInv, NEW p \in Pages, BuildCa(p)
  PROVE  WizInv'
<1>1. PkiUnchanged /\ thread[p] = "ca" /\ thread[p] \in PkiSteps
  BY DEF BuildCa, PkiSteps
<1>2. faults' \in 0..MaxFaults
  BY FaultCounted, PkiFacts DEF BuildCa
<1>3. PICK s \in {"dh", "failed"} :
        /\ Next1(p, s)
        /\ \/ pki' = pki /\ (s = "dh" => pki.ca # 0)
           \/ /\ pki.ca = 0 /\ s = "dh"
              /\ \E n \in 1..MaxCas : n # pki.crt /\ pki' = [pki EXCEPT !.ca = n]
           \/ s = "failed" /\ \E h \in BOOLEAN : pki' = [pki EXCEPT !.half = h]
  BY DEF BuildCa, PkiState
<1>4. /\ pki' \in Materials /\ pki'.dh = pki.dh /\ pki'.key = pki.key
      /\ pki'.crt = pki.crt /\ pki'.crl = pki.crl /\ pki'.tc2 = pki.tc2
      /\ pki'.ca = pki.ca \/ (pki.ca = 0 /\ pki'.ca # 0 /\ pki.crt \in {0, Found})
      /\ s = "dh" => pki'.ca # 0
  <2>1. CASE pki' = pki /\ (s = "dh" => pki.ca # 0)
    BY <2>1, PkiFacts
  <2>2. CASE /\ pki.ca = 0 /\ s = "dh"
             /\ \E n \in 1..MaxCas : n # pki.crt /\ pki' = [pki EXCEPT !.ca = n]
    <3>1. PICK n \in 1..MaxCas : pki' = [pki EXCEPT !.ca = n]
      BY <2>2
    <3>2. n # 0 /\ n \in 0..MaxCas
      BY WizardConstants
    <3>3. pki \in Materials /\ pki.crt \in {0, Found}
      BY <2>2, PkiFacts DEF Materials
    <3> QED  BY <2>2, <3>1, <3>2, <3>3 DEF Materials
  <2>3. CASE s = "failed" /\ \E h \in BOOLEAN : pki' = [pki EXCEPT !.half = h]
    BY <2>3, PkiFacts DEF Materials
  <2> QED  BY <1>3, <2>1, <2>2, <2>3
<1>5. Grows
  BY <1>1, <1>4 DEF Grows, PkiUnchanged, PkiWhole, Made
<1>6. Made(s)' /\ s \in PkiSteps \cup {"failed"}
  BY <1>3, <1>4 DEF Made, PkiSteps
<1>7. pki'.crt # 0 => pki'.crt \in {pki'.ca, Found}
  BY <1>4, PkiFacts
<1> QED  BY <1>1, <1>2, <1>3, <1>4, <1>5, <1>6, <1>7, PkiStepKeeps

LEMMA ServerReqKeeps ==
  ASSUME WizInv, NEW p \in Pages, ServerReq(p)
  PROVE  WizInv'
<1>1. PkiUnchanged /\ thread[p] = "cert" /\ thread[p] \in PkiSteps
  BY DEF ServerReq, PkiSteps
<1>2. faults' \in 0..MaxFaults
  BY FaultCounted, PkiFacts DEF ServerReq
<1>3. PICK s \in {"crl", "sign", "failed"} :
        /\ Next1(p, s)
        /\ \/ pki' = pki /\ s = "crl" /\ pki.crt # 0 /\ pki.key
           \/ pki' = pki /\ s = "sign" /\ pki.key
           \/ pki' = [pki EXCEPT !.key = TRUE, !.req = TRUE] /\ s = "sign"
           \/ /\ s = "failed"
              /\ pki' = pki \/ (~pki.key /\ \E k \in BOOLEAN : pki' = [pki EXCEPT !.key = k])
  BY DEF ServerReq
<1>4. /\ pki' \in Materials /\ pki'.dh = pki.dh /\ (pki.key => pki'.key) /\ pki'.ca = pki.ca
      /\ pki'.crt = pki.crt /\ pki'.crl = pki.crl /\ pki'.tc2 = pki.tc2
      /\ s \in {"sign", "crl"} => pki'.key
      /\ s = "crl" => pki.crt # 0
  BY <1>3, PkiFacts DEF Materials
<1>5. Grows
  BY <1>1, <1>4 DEF Grows, PkiUnchanged, PkiWhole, Made
<1>6. Made(s)' /\ s \in PkiSteps \cup {"failed"}
  BY <1>1, <1>3, <1>4, PkiFacts DEF Made, PkiSteps
<1>7. pki'.crt # 0 => pki'.crt \in {pki'.ca, Found}
  BY <1>4, PkiFacts
<1> QED  BY <1>1, <1>2, <1>3, <1>4, <1>5, <1>6, <1>7, PkiStepKeeps

\* The four steps that make one file when it is missing, and signing.
LEMMA MakeKeeps ==
  ASSUME WizInv, NEW p \in Pages, GenDh(p) \/ Sign(p) \/ GenCrl(p) \/ GenTc2(p)
  PROVE  WizInv'
<1>1. PkiUnchanged /\ faults' \in 0..MaxFaults
  BY FaultCounted, PkiFacts DEF GenDh, Sign, GenCrl, GenTc2, Make
<1>2. PICK s \in {"cert", "crl", "tc2", "save", "failed"} :
        /\ Next1(p, s)
        /\ \/ s = "failed" /\ pki' = pki
           \/ thread[p] = "dh" /\ s = "cert"
              /\ pki' = IF ~pki.dh THEN [pki EXCEPT !.dh = TRUE] ELSE pki
           \/ thread[p] = "sign" /\ s = "crl" /\ pki' = [pki EXCEPT !.crt = pki.ca]
           \/ thread[p] = "crl" /\ s = "tc2"
              /\ pki' = IF ~pki.crl THEN [pki EXCEPT !.crl = TRUE] ELSE pki
           \/ thread[p] = "tc2" /\ s = "save"
              /\ pki' = IF ~pki.tc2 THEN [pki EXCEPT !.tc2 = TRUE] ELSE pki
  BY DEF GenDh, Sign, GenCrl, GenTc2, Make
<1>3. thread[p] \in {"dh", "sign", "crl", "tc2"} /\ thread[p] \in PkiSteps
  BY DEF GenDh, Sign, GenCrl, GenTc2, Make, PkiSteps
<1>4. /\ pki' \in Materials /\ (pki.dh => pki'.dh) /\ pki'.key = pki.key /\ pki'.ca = pki.ca
      /\ pki'.crt \in {pki.crt, pki.ca} /\ (pki.crl => pki'.crl) /\ (pki.tc2 => pki'.tc2)
      /\ s = "cert" => pki'.dh /\ thread[p] = "dh"
      /\ s = "crl" => pki'.crt = pki.ca /\ thread[p] = "sign"
      /\ s = "tc2" => pki'.crl /\ thread[p] = "crl"
      /\ s = "save" => pki'.tc2 /\ thread[p] = "tc2"
  <2>1. pki.ca \in 0..(MaxCas + 1) /\ pki \in Materials
    BY WizardConstants, PkiFacts DEF Materials
  <2> QED BY <1>2, <2>1 DEF Materials
<1>5. pki'.crt # 0 => pki'.crt \in {pki'.ca, Found}
  BY <1>4, PkiFacts
<1>6. Grows
  BY <1>1, <1>4, PkiFacts DEF Grows, PkiUnchanged, PkiWhole, Made
<1>7. Made(s)' /\ s \in PkiSteps \cup {"failed"}
  BY <1>2, <1>3, <1>4, PkiFacts DEF Made, PkiSteps
<1> QED  BY <1>1, <1>2, <1>3, <1>4, <1>5, <1>6, <1>7, PkiStepKeeps

(***************************************************************************)
(* Steps that save a copy.                                                 *)
(***************************************************************************)

\* Saving a copy with the address pool it was read with: no second pool,
\* unless the copy was stale, which is what crossed remembers.
LEMMA SavedPool ==
  ASSUME WizInv, NEW p \in Pages, NEW f \in Forms, NEW c \in Configs, SaveFrom(p, c, f),
         c.subnet = page[p].base.subnet, c.init = page[p].base.init,
         UNCHANGED <<group, conf>>
  PROVE  (crossed \/ OnePool)'
<1>1. WizTypeOK
  BY DEF WizInv
<1>2. /\ file' = c /\ page'[p].base = c
      /\ \A q \in Pages \ {p} : page'[q] = page[q]
      /\ crossed' <=> (crossed \/ page[p].base # file)
  BY <1>1, PageSaves
<1>3. CASE crossed'
  BY <1>3
<1>4. CASE ~crossed'
  <2>1. page[p].base = file /\ OnePool
    BY <1>2, <1>4 DEF WizInv
  <2>2. c.subnet = file.subnet /\ c.init = file.init
    BY <2>1
  <2>3. \A q \in Pages : page'[q].base.subnet \in {NoSubnet, c.subnet}
    BY <1>2, <2>1, <2>2 DEF OnePool
  <2> QED  BY <1>2, <2>1, <2>2, <2>3 DEF OnePool
<1> QED  BY <1>3, <1>4

LEMMA InstallKeeps ==
  ASSUME WizInv, NEW p \in Pages, Install(p)
  PROVE  WizInv'
<1>1. /\ thread[p] = "install" /\ installed' \in BOOLEAN
      /\ UNCHANGED <<file, pki, group, rule, chain, conf, running, page, loop, crashes,
                     crossed>>
  BY DEF Install, WizInv, WizTypeOK
<1>2. PICK s \in {"bin", "failed"} : thread' = [thread EXCEPT ![p] = s]
  BY DEF Install, Next1
<1>3. WizTypeOK /\ PageKnown(p) /\ s \in Steps
  BY Known DEF WizInv, Steps
<1>4. /\ thread' \in [Pages -> Steps] /\ thread'[p] = s
      /\ \A q \in Pages \ {p} : thread'[q] = thread[q]
  BY <1>2, <1>3, Threaded
<1>5. faults' \in 0..MaxFaults
  BY FaultCounted, PkiFacts DEF Install
<1>6. Grows
  BY <1>1, Still
<1>7. WizTypeOK'
  BY <1>1, <1>3, <1>4, <1>5 DEF WizTypeOK
<1>8. PageKnown(p)'
  <2>1. Sane(page[p].cfg)' /\ Sane(page[p].base)'
    BY <1>1, <1>3 DEF PageKnown, Sane, PkiWhole
  <2>2. Busy(p)
    BY <1>1 DEF Busy
  <2>3. ThreadKnown(p)'
    BY <1>1, <1>3, <1>4, <2>2 DEF PageKnown, ThreadKnown, Busy, Made, PkiSteps
  <2>4. FormKnown(p)'
    BY <1>1, <1>3, <1>4, <2>2 DEF PageKnown, ThreadKnown, FormKnown
  <2> QED  BY <2>1, <2>3, <2>4 DEF PageKnown
<1>9. LoopKnown'
  BY <1>1, <1>6, LoopStays
<1>10. (crossed \/ OnePool)'
  BY <1>1, PoolKept
<1> QED  BY <1>1, <1>4, <1>6, <1>7, <1>8, <1>9, <1>10, OnePage
         DEF WizInv, General, Sane, PkiWhole

\* The thread of an installation remembers the binary.
LEMMA SaveInstalledKeeps ==
  ASSUME WizInv, NEW p \in Pages, SaveInstalled(p)
  PROVE  WizInv'
<1> DEFINE c == [page[p].cfg EXCEPT !.bin = TRUE]
           f == page[p].form
<1>1. /\ SaveFrom(p, c, f) /\ thread[p] = "bin"
      /\ thread' = [thread EXCEPT ![p] = "ok"]
      /\ UNCHANGED <<installed, pki, group, rule, chain, conf, running, loop, faults,
                     crashes>>
  BY DEF SaveInstalled, Next1
<1>2. WizTypeOK /\ PageKnown(p) /\ "ok" \in Steps
  BY Known DEF WizInv, Steps
<1>3. f \in Forms /\ page[p].cfg \in Configs
  BY <1>2, PageFields
<1>4. /\ c \in Configs /\ c.bin /\ c.pki = page[p].cfg.pki
      /\ c.subnet = page[p].cfg.subnet /\ c.init = page[p].cfg.init
  BY <1>3 DEF Configs
<1>5. page[p].cfg = page[p].base /\ ~page[p].cfg.pki /\ f \in {"closed", "installing"}
  BY <1>1, <1>2 DEF PageKnown, ThreadKnown
<1> HIDE DEF c, f
<1>6. /\ file' = c /\ file' \in Configs /\ crossed' \in BOOLEAN
      /\ page' \in [Pages -> PageStates]
      /\ page'[p].form = f /\ page'[p].cfg = c /\ page'[p].base = c
      /\ \A q \in Pages \ {p} : page'[q] = page[q]
  BY <1>1, <1>2, <1>3, <1>4, PageSaves
<1>7. /\ thread' \in [Pages -> Steps] /\ thread'[p] = "ok"
      /\ \A q \in Pages \ {p} : thread'[q] = thread[q]
  BY <1>1, <1>2, Threaded
<1>8. Grows
  BY <1>1, Still
<1>9. WizTypeOK'
  BY <1>1, <1>2, <1>6, <1>7 DEF WizTypeOK
<1>10. Sane(page[p].cfg)
  BY <1>2 DEF PageKnown
<1>11. Sane(file)' /\ Sane(page[p].cfg)' /\ Sane(page[p].base)'
  BY <1>4, <1>5, <1>6, <1>10 DEF Sane
<1>12. ThreadKnown(p)'
  BY <1>7 DEF ThreadKnown, Busy, Made, PkiSteps
<1>13. FormKnown(p)'
  BY <1>4, <1>5, <1>6, <1>7 DEF FormKnown
<1>14. LoopKnown'
  <2>1. loop # Free => loop.page # p
    BY <1>5 DEF WizInv, General, LoopKnown, f
  <2>2. loop # Free => loop.page \in Pages
    BY <1>2 DEF WizTypeOK, LoopSteps
  <2> QED  BY <1>1, <1>6, <1>8, <2>1, <2>2, LoopStays
<1>15. (crossed \/ OnePool)'
  BY <1>1, <1>3, <1>4, <1>5, SavedPool
<1> QED  BY <1>1, <1>6, <1>7, <1>8, <1>9, <1>11, <1>12, <1>13, <1>14, <1>15, OnePage
         DEF WizInv, General, PageKnown

\* The PKI thread reports the materials it has made.
LEMMA SavePkiKeeps ==
  ASSUME WizInv, NEW p \in Pages, SavePki(p)
  PROVE  WizInv'
<1> DEFINE c == [page[p].cfg EXCEPT !.pki = TRUE]
           f == page[p].form
<1>1. /\ thread[p] = "save"
      /\ UNCHANGED <<installed, pki, group, rule, chain, conf, running, loop, crashes>>
  BY DEF SavePki
<1>a. PICK s \in {"ok", "failed"} :
        /\ thread' = [thread EXCEPT ![p] = s] /\ (faults' = faults \/ Fault)
        /\ \/ SaveFrom(p, c, f)
           \/ /\ page' = [page EXCEPT ![p].cfg.pki = TRUE] /\ s = "failed"
              /\ UNCHANGED <<file, crossed>>
  BY DEF SavePki, Next1
<1>b. faults' \in 0..MaxFaults
  BY <1>a, FaultCounted, PkiFacts
<1>2. WizTypeOK /\ PageKnown(p) /\ s \in Steps
  BY Known DEF WizInv, Steps
<1>3. f \in Forms /\ page[p].cfg \in Configs
  BY <1>2, PageFields
<1>4. /\ c \in Configs /\ c.pki /\ c.bin = page[p].cfg.bin
      /\ c.subnet = page[p].cfg.subnet /\ c.init = page[p].cfg.init
  BY <1>3 DEF Configs
<1>5. /\ page[p].cfg.subnet = NoSubnet /\ page[p].base.subnet = NoSubnet
      /\ page[p].cfg.bin /\ page[p].cfg.init = FALSE /\ page[p].base.init = FALSE
      /\ page[p].base \in Configs
      /\ f \in {"closed", "working"}
  BY <1>1, <1>2, PageFields DEF PageKnown, ThreadKnown, PkiSteps, Sane, Configs
<1>6. PkiWhole
  BY <1>1, PkiFacts DEF Made, PkiWhole
<1>7. /\ file' \in {c, file} /\ file' \in Configs /\ crossed' \in BOOLEAN
      /\ page' \in [Pages -> PageStates]
      /\ page'[p].form = f /\ page'[p].cfg = c /\ page'[p].base \in {c, page[p].base}
      /\ \A q \in Pages \ {p} : page'[q] = page[q]
  <2>1. CASE SaveFrom(p, c, f)
    <3> HIDE DEF c, f
    <3> QED BY <1>2, <1>3, <1>4, <2>1, PageSaves
  <2>2. CASE page' = [page EXCEPT ![p].cfg.pki = TRUE] /\ UNCHANGED <<file, crossed>>
    <3>1. page[p] \in PageStates
      BY <1>2, PageFields
    <3>2. [page[p] EXCEPT !.cfg = c] \in PageStates
      BY <1>4, <3>1 DEF PageStates
    <3>3. page' = [page EXCEPT ![p] = [page[p] EXCEPT !.cfg = c]]
      BY <2>2
    <3>4. /\ page' \in [Pages -> PageStates] /\ page'[p] = [page[p] EXCEPT !.cfg = c]
          /\ \A q \in Pages \ {p} : page'[q] = page[q]
      BY <1>2, <3>2, <3>3, Written
    <3>5. page'[p].form = f /\ page'[p].cfg = c /\ page'[p].base = page[p].base
      BY <3>1, <3>4 DEF PageStates
    <3> QED BY <1>2, <2>2, <3>4, <3>5 DEF WizTypeOK
  <2> QED BY <1>a, <2>1, <2>2
<1> HIDE DEF c, f
<1>8. /\ thread' \in [Pages -> Steps] /\ thread'[p] = s
      /\ \A q \in Pages \ {p} : thread'[q] = thread[q]
  BY <1>a, <1>2, Threaded
<1>9. Grows
  BY <1>1, Still
<1>10. WizTypeOK'
  BY <1>1, <1>b, <1>2, <1>7, <1>8 DEF WizTypeOK
<1>11. Sane(page[p].base) /\ Sane(file) /\ PkiWhole'
  BY <1>2, <1>6, <1>9 DEF PageKnown, Grows, WizInv, General
<1>12. c.subnet = NoSubnet /\ c.init = FALSE /\ ~c.init
  BY <1>4, <1>5
<1>13. Sane(file)' /\ Sane(page[p].cfg)' /\ Sane(page[p].base)'
  <2>1. \A d \in {c, file, page[p].base} :
          /\ d.pki => d.bin /\ PkiWhole'
          /\ d.subnet # NoSubnet => d.pki
          /\ d.init => d.subnet # NoSubnet
    BY <1>4, <1>5, <1>11, <1>12 DEF Sane
  <2> QED BY <1>7, <2>1 DEF Sane
<1>14. ThreadKnown(p)'
  BY <1>8 DEF ThreadKnown, Made, PkiSteps
<1>15. FormKnown(p)'
  <2>1. page'[p].form \in {"closed", "working"} /\ page'[p].base.subnet = NoSubnet
    BY <1>5, <1>7, <1>12
  <2> QED BY <1>4, <1>5, <1>7, <2>1, <1>12 DEF FormKnown
<1>16. LoopKnown'
  <2>1. loop # Free => loop.page # p
    BY <1>5 DEF WizInv, General, LoopKnown, f
  <2>2. loop # Free => loop.page \in Pages
    BY <1>2 DEF WizTypeOK, LoopSteps
  <2> QED  BY <1>1, <1>7, <1>9, <2>1, <2>2, LoopStays
<1>17. (crossed \/ OnePool)'
  <2>1. CASE SaveFrom(p, c, f)
    <3>1. c.subnet = page[p].base.subnet /\ c.init = page[p].base.init
      BY <1>5, <1>12
    <3> QED BY <1>1, <1>3, <1>4, <2>1, <3>1, SavedPool
  <2>2. CASE UNCHANGED <<file, crossed>>
    <3>1. \A q \in Pages : page'[q].base.subnet \in {page[q].base.subnet, file.subnet, NoSubnet}
      BY <1>7, <1>12
    <3> QED BY <1>1, <2>2, <3>1, PoolKept
  <2> QED BY <1>a, <2>1, <2>2
<1> QED  BY <1>1, <1>7, <1>8, <1>9, <1>10, <1>13, <1>14, <1>15, <1>16, <1>17, OnePage
         DEF WizInv, General, PageKnown

\* A binary found, or named, from the path form.
LEMMA CustomPathKeeps ==
  ASSUME WizInv, NEW p \in Pages, CustomPath(p)
  PROVE  WizInv'
<1> DEFINE c == [page[p].cfg EXCEPT !.bin = TRUE]
<1>1. /\ SaveFrom(p, c, "pki") /\ page[p].form = "custom" /\ loop = Free
      /\ UNCHANGED <<installed, pki, group, rule, chain, conf, running, thread, loop,
                     faults, crashes>>
  BY DEF CustomPath, PathForm, Offers
<1>2. WizTypeOK /\ PageKnown(p) /\ "pki" \in Forms
  BY Known DEF WizInv, Forms
<1>3. page[p].cfg \in Configs
  BY <1>2, PageFields
<1>4. /\ c \in Configs /\ c.bin /\ c.pki = page[p].cfg.pki
      /\ c.subnet = page[p].cfg.subnet /\ c.init = page[p].cfg.init
  BY <1>3 DEF Configs
<1>5. page[p].cfg = page[p].base /\ ~page[p].cfg.pki
  BY <1>1, <1>2 DEF PageKnown, FormKnown
<1> HIDE DEF c
<1>6. /\ file' = c /\ file' \in Configs /\ crossed' \in BOOLEAN
      /\ page' \in [Pages -> PageStates]
      /\ page'[p].form = "pki" /\ page'[p].cfg = c /\ page'[p].base = c
      /\ \A q \in Pages \ {p} : page'[q] = page[q]
  BY <1>1, <1>2, <1>4, PageSaves
<1>7. Grows
  BY <1>1, Still
<1>8. WizTypeOK'
  BY <1>1, <1>2, <1>6 DEF WizTypeOK
<1>9. Sane(page[p].cfg)
  BY <1>2 DEF PageKnown
<1>10. Sane(file)' /\ Sane(page[p].cfg)' /\ Sane(page[p].base)'
  BY <1>4, <1>5, <1>6, <1>9 DEF Sane
<1>11. ThreadKnown(p)'
  BY <1>1, <1>2, <1>4, <1>5, <1>6, <1>7 DEF PageKnown, ThreadKnown, Busy, Made, PkiSteps
<1>12. FormKnown(p)'
  BY <1>4, <1>5, <1>6, <1>9 DEF FormKnown, Sane
<1>13. LoopKnown'
  BY <1>1 DEF LoopKnown
<1>14. (crossed \/ OnePool)'
  BY <1>1, <1>2, <1>4, <1>5, SavedPool
<1> QED  BY <1>1, <1>6, <1>7, <1>8, <1>10, <1>11, <1>12, <1>13, <1>14, OnePage
         DEF WizInv, General, PageKnown

LEMMA RunDetectKeeps ==
  ASSUME WizInv, NEW p \in Pages, RunDetect(p)
  PROVE  WizInv'
<1>1. CASE installed
  <2>1. CustomPath(p)
    BY <1>1 DEF RunDetect, Detect, CustomPath
  <2> QED  BY <2>1, CustomPathKeeps
<1>2. CASE ~installed
  <2>1. /\ Show(p, "detect") /\ page[p].form = "custom" /\ loop = Free
        /\ UNCHANGED <<file, installed, pki, group, rule, chain, conf, running, thread,
                       loop, faults, crashes, crossed>>
    BY <1>2 DEF RunDetect, Detect, PathForm, Offers
  <2>2. WizTypeOK /\ PageKnown(p) /\ "detect" \in Forms
    BY Known DEF WizInv, Forms
  <2>3. /\ page' \in [Pages -> PageStates]
        /\ page'[p].form = "detect" /\ page'[p].cfg = page[p].cfg
        /\ page'[p].base = page[p].base
        /\ \A q \in Pages \ {p} : page'[q] = page[q]
    BY <2>1, <2>2, Shown
  <2>4. Grows
    BY <2>1, Still
  <2>5. WizTypeOK'
    BY <2>1, <2>2, <2>3 DEF WizTypeOK
  <2>6. PageKnown(p)'
    BY <2>1, <2>2, <2>3, <2>4 DEF PageKnown, Sane, ThreadKnown, FormKnown, Busy, Made,
       PkiWhole, PkiSteps
  <2>7. LoopKnown'
    BY <2>1 DEF LoopKnown
  <2>8. (crossed \/ OnePool)'
    BY <2>1, <2>3, PoolKept
  <2> QED  BY <2>1, <2>3, <2>4, <2>5, <2>6, <2>7, <2>8, OnePage
           DEF WizInv, General, Sane, PkiWhole
<1> QED  BY <1>1, <1>2

(***************************************************************************)
(* Loading a page and choosing the address pool.                           *)
(***************************************************************************)

\* A page that is given a whole new state f, c, b while the event loop is free
\* and its thread rests, with the group made or not.
LEMMA FreshPage ==
  ASSUME WizInv, NEW p \in Pages, NEW f \in {"detect", "pki", "subnet", "stuck", "start"},
         NEW c \in Configs, NEW b \in Configs, loop = Free, ~Busy(p),
         UNCHANGED <<installed, pki, rule, chain, conf, running, loop, crashes>>,
         page' = [page EXCEPT ![p] = [form |-> f, cfg |-> c, base |-> b]],
         thread' \in {thread, [thread EXCEPT ![p] = "none"]},
         Sane(c), Sane(b), Sane(file)',
         f # "subnet" => c = b,
         f = "subnet" => b.subnet = NoSubnet /\ ~c.init,
         f \in {"detect", "pki"} <=> ~c.pki,
         f = "pki" => c.subnet = NoSubnet /\ ~c.init,
         f = "pki" => c.bin,
         f \in {"stuck", "start"} => c.subnet # NoSubnet,
         f = "start" => group' # NoSubnet,
         group # NoSubnet => group' # NoSubnet,
         file' \in Configs, group' \in Subnets \cup {NoSubnet},
         faults' \in 0..MaxFaults, crossed' \in BOOLEAN,
         (crossed \/ OnePool)'
  PROVE  WizInv'
<1>1. WizTypeOK
  BY DEF WizInv
<1>2. [form |-> f, cfg |-> c, base |-> b] \in PageStates
  BY DEF PageStates, Forms
<1>3. /\ page' \in [Pages -> PageStates]
      /\ page'[p] = [form |-> f, cfg |-> c, base |-> b]
      /\ \A q \in Pages \ {p} : page'[q] = page[q]
  BY <1>1, <1>2, Written
<1>4. /\ page'[p].form = f /\ page'[p].cfg = c /\ page'[p].base = b
  BY <1>3
<1>5. /\ thread' \in [Pages -> Steps] /\ thread'[p] \in {"none", "ok", "failed"}
      /\ \A q \in Pages \ {p} : thread'[q] = thread[q]
  <2>1. CASE thread' = thread
    BY <2>1, <1>1 DEF WizTypeOK, Busy
  <2>2. CASE thread' = [thread EXCEPT ![p] = "none"]
    BY <2>2, <1>1, Threaded DEF Steps
  <2> QED  BY <2>1, <2>2
<1>6. Grows
  BY DEF Grows, PkiWhole, Made
<1>7. WizTypeOK'
  BY <1>1, <1>3, <1>5 DEF WizTypeOK
<1>8. PageKnown(p)'
  <2>1. Sane(page[p].cfg)' /\ Sane(page[p].base)'
    BY <1>4 DEF Sane, PkiWhole
  <2>2. ThreadKnown(p)'
    BY <1>5 DEF ThreadKnown, Busy, Made, PkiSteps
  <2>3. FormKnown(p)'
    BY <1>4 DEF FormKnown
  <2> QED  BY <2>1, <2>2, <2>3 DEF PageKnown
<1>9. LoopKnown'
  BY DEF LoopKnown
<1> QED  BY <1>3, <1>5, <1>6, <1>7, <1>8, <1>9, OnePage DEF WizInv, General

LEMMA LoadKeeps ==
  ASSUME WizInv, NEW p \in Pages, Load(p)
  PROVE  WizInv'
<1>1. /\ loop = Free /\ ~file.init /\ ~Busy(p)
      /\ thread' \in {thread, [thread EXCEPT ![p] = "none"]}
      /\ UNCHANGED <<installed, pki, rule, chain, conf, running, loop, crashes, crossed>>
  BY DEF Load
<1>2. /\ WizTypeOK /\ file \in Configs /\ Sane(file) /\ group \in Subnets \cup {NoSubnet}
      /\ faults \in 0..MaxFaults /\ crossed \in BOOLEAN
  BY DEF WizInv, General, WizTypeOK
<1> DEFINE c == [file EXCEPT !.bin = TRUE]
           Put(f, d) == page' = [page EXCEPT ![p] = [form |-> f, cfg |-> d, base |-> d]]
<1>3. \/ ResumeStep = "start" /\ Put("start", file) /\ UNCHANGED <<file, group, faults>>
      \/ ResumeStep = "subnet" /\ Put("subnet", file) /\ UNCHANGED <<file, group, faults>>
      \/ /\ ResumeStep = "detect" /\ Put("pki", c) /\ file' = c
         /\ UNCHANGED <<group, faults>>
      \/ ResumeStep = "detect" /\ Put("detect", file) /\ UNCHANGED <<file, group, faults>>
      \/ /\ ResumeStep = "group" /\ Put("start", file) /\ UNCHANGED <<file, faults>>
         /\ group' = file.subnet
      \/ ResumeStep = "group" /\ Put("stuck", file) /\ UNCHANGED <<file, group>> /\ Fault
  BY DEF Load, MakeGroup, ResumeStep
<1>4. /\ c \in Configs /\ c.bin /\ c.pki = file.pki
      /\ c.subnet = file.subnet /\ c.init = file.init
  BY <1>2 DEF Configs
<1>5. Sane(c) \/ file.pki
  BY <1>2, <1>4 DEF Sane
<1> HIDE DEF c
<1>6. PICK f \in {"detect", "pki", "subnet", "stuck", "start"}, d \in {file, c} :
        /\ Put(f, d) /\ Sane(d) /\ file' = d /\ faults' \in 0..MaxFaults
        /\ group' \in {group, file.subnet}
        /\ f = "subnet" => d.subnet = NoSubnet
        /\ f \in {"detect", "pki"} <=> ~d.pki
        /\ f = "pki" => d.bin
        /\ f \in {"stuck", "start"} => d.subnet # NoSubnet
        /\ f = "start" => group' # NoSubnet
        /\ group' # group => group = NoSubnet
  <2>1. CASE ResumeStep = "start"
    <3>1. file.pki /\ file.subnet # NoSubnet /\ group # NoSubnet
      BY <2>1 DEF ResumeStep
    <3> QED  BY <1>2, <1>3, <2>1, <3>1
  <2>2. CASE ResumeStep = "subnet"
    <3>1. file.pki /\ file.subnet = NoSubnet
      BY <2>2 DEF ResumeStep
    <3> QED  BY <1>2, <1>3, <2>2, <3>1
  <2>3. CASE ResumeStep = "detect"
    <3>1. ~file.pki /\ Sane(c)
      BY <1>5, <2>3 DEF ResumeStep
    <3> QED  BY <1>2, <1>3, <1>4, <2>3, <3>1
  <2>4. CASE ResumeStep = "group"
    <3>1. file.pki /\ file.subnet # NoSubnet /\ group = NoSubnet
      BY <2>4 DEF ResumeStep
    <3> QED  BY <1>2, <1>3, <2>4, <3>1, FaultCounted
  <2> QED  BY <1>3, <2>1, <2>2, <2>3, <2>4
<1>7. d \in Configs /\ d.subnet = file.subnet /\ d.init = file.init
  BY <1>2, <1>4
<1>8. Sane(file)'
  BY <1>1, <1>6 DEF Sane, PkiWhole
<1>9. group' \in Subnets \cup {NoSubnet}
  BY <1>2, <1>6 DEF Configs
<1>10. (crossed \/ OnePool)'
  <2>1. SUFFICES ASSUME ~crossed' PROVE OnePool'
    OBVIOUS
  <2>2. OnePool
    BY <1>1, <2>1 DEF WizInv
  <2>3. \A q \in Pages : page'[q].base = page[q].base \/ page'[q].base = d
    BY <1>2, <1>6 DEF WizTypeOK, PageStates
  <2> QED  BY <1>1, <1>6, <1>7, <2>2, <2>3 DEF OnePool
<1>11. f = "subnet" => ~d.init
  BY <1>1, <1>7
<1>12. f = "pki" => d.subnet = NoSubnet /\ ~d.init
  BY <1>1, <1>6, <1>7 DEF Sane
<1> QED  BY <1>1, <1>2, <1>6, <1>7, <1>8, <1>9, <1>10, <1>11, <1>12, FreshPage

LEMMA ConfigSubnetKeeps ==
  ASSUME WizInv, NEW p \in Pages, ConfigSubnet(p)
  PROVE  WizInv'
<1>1. /\ loop = Free /\ page[p].form = "subnet"
      /\ UNCHANGED <<installed, pki, rule, chain, conf, running, thread, loop, crashes>>
  BY DEF ConfigSubnet, SubnetForm, Offers
<1>2. WizTypeOK /\ PageKnown(p)
  BY Known DEF WizInv
<1>3. /\ page[p] \in PageStates /\ page[p].cfg \in Configs /\ page[p].base \in Configs
      /\ group \in Subnets \cup {NoSubnet} /\ faults \in 0..MaxFaults /\ crossed \in BOOLEAN
      /\ file \in Configs
  BY <1>2, PageFields DEF WizTypeOK
<1>4. /\ page[p].cfg.pki /\ page[p].base.subnet = NoSubnet /\ ~page[p].cfg.init
      /\ Sane(page[p].cfg) /\ Sane(page[p].base) /\ Sane(file)
  BY <1>1, <1>2 DEF PageKnown, FormKnown, WizInv, General
<1>5. ~Busy(p)
  BY <1>1, <1>2 DEF PageKnown, ThreadKnown, Busy, PkiSteps, Steps, WizTypeOK
<1>6. PICK s \in Subnets, n \in Ports :
        LET c == [page[p].cfg EXCEPT !.subnet = s, !.port = n] IN
        \/ /\ file' = c
           /\ crossed' = (crossed \/ Stale(p))
           /\ MakeGroup(p, c)
        \/ /\ page' = [page EXCEPT ![p].cfg = c]
           /\ UNCHANGED <<file, group, faults, crossed>>
  BY DEF ConfigSubnet
<1> DEFINE c == [page[p].cfg EXCEPT !.subnet = s, !.port = n]
<1>7. /\ c \in Configs /\ c.bin = page[p].cfg.bin /\ c.pki = page[p].cfg.pki
      /\ c.subnet = s /\ c.init = page[p].cfg.init
  BY <1>3 DEF Configs
<1>8. \/ /\ file' = c
         /\ crossed' = (crossed \/ Stale(p))
         /\ MakeGroup(p, c)
      \/ /\ page' = [page EXCEPT ![p].cfg = c]
         /\ UNCHANGED <<file, group, faults, crossed>>
  BY <1>6
<1> HIDE DEF c
<1>9. Sane(c) /\ c.subnet # NoSubnet /\ ~c.init
  BY <1>4, <1>7, WizardConstants DEF Sane
<1>10. CASE file' = c /\ crossed' = (crossed \/ Stale(p)) /\ MakeGroup(p, c)
  <2>1. PICK f \in {"start", "stuck"} :
          /\ page' = [page EXCEPT ![p] = [form |-> f, cfg |-> c, base |-> c]]
          /\ faults' \in 0..MaxFaults
          /\ \/ group' = (IF group = NoSubnet THEN c.subnet ELSE group)
             \/ f = "stuck" /\ group' = group
    BY <1>3, <1>10, FaultCounted DEF MakeGroup
  <2>2. /\ group' \in Subnets \cup {NoSubnet}
        /\ group # NoSubnet => group' = group
        /\ f = "start" => group' # NoSubnet
        /\ group' \in {group, c.subnet}
    BY <1>3, <1>7, <1>9, <2>1
  <2>3. (crossed \/ OnePool)'
    <3> SUFFICES ASSUME ~crossed' PROVE OnePool'
      OBVIOUS
    <3>1. OnePool /\ page[p].base = file
      BY <1>10 DEF WizInv, Stale
    <3>2. file.subnet = NoSubnet /\ group = NoSubnet
      BY <1>3, <1>4, <3>1 DEF OnePool
    <3>3. \A q \in Pages : page'[q].base = page[q].base \/ page'[q].base = c
      BY <1>2, <2>1 DEF WizTypeOK, PageStates
    <3>4. \A q \in Pages : page[q].base.subnet = NoSubnet
      BY <3>1, <3>2 DEF OnePool
    <3> QED  BY <1>9, <1>10, <2>2, <3>2, <3>3, <3>4 DEF OnePool
  <2>4. Sane(file)' /\ crossed' \in BOOLEAN
    BY <1>1, <1>3, <1>9, <1>10 DEF Sane, PkiWhole, Stale
  <2> QED  BY <1>1, <1>4, <1>5, <1>7, <1>9, <1>10, <2>1, <2>2, <2>3, <2>4, FreshPage
<1>11. CASE page' = [page EXCEPT ![p].cfg = c] /\ UNCHANGED <<file, group, faults, crossed>>
  <2>1. page' = [page EXCEPT ![p] = [form |-> "subnet", cfg |-> c, base |-> page[p].base]]
    <3>1. [page[p] EXCEPT !.cfg = c] = [form |-> "subnet", cfg |-> c, base |-> page[p].base]
      BY <1>1, <1>3 DEF PageStates
    <3>2. page' = [page EXCEPT ![p] = [page[p] EXCEPT !.cfg = c]]
      BY <1>11
    <3> QED  BY <3>1, <3>2
  <2>2. Sane(file)'
    BY <1>1, <1>4, <1>11 DEF Sane, PkiWhole
  <2>3. (crossed \/ OnePool)'
    <3>1. \A q \in Pages : page'[q].base = page[q].base
      BY <1>2, <2>1 DEF WizTypeOK, PageStates
    <3> QED  BY <1>1, <1>11, <3>1, PoolKept
  <2> QED  BY <1>1, <1>3, <1>4, <1>5, <1>7, <1>9, <1>11, <2>1, <2>2, <2>3, FreshPage
<1> QED  BY <1>8, <1>10, <1>11

(***************************************************************************)
(* The start step that holds the event loop.                               *)
(***************************************************************************)
LEMMA LoopFacts ==
  ASSUME WizInv, NEW step \in {"conf", "inst", "mark", "rule", "chain"}, Holds(step)
  PROVE  /\ loop # Free /\ loop.at = step /\ loop \in LoopSteps /\ loop.page \in Pages
         /\ page[loop.page].form = "start" /\ group # NoSubnet
         /\ page[loop.page].cfg = page[loop.page].base
         /\ page[loop.page].cfg \in Configs
         /\ page[loop.page].cfg.subnet \in Subnets
         /\ page[loop.page].cfg.pki
         /\ ~Busy(loop.page)
<1>1. loop # Free /\ loop.at = step /\ WizTypeOK /\ LoopKnown
  BY DEF Holds, WizInv, General
<1>2. loop \in LoopSteps /\ loop.page \in Pages
  BY <1>1 DEF WizTypeOK, LoopSteps
<1>3. page[loop.page].form = "start"
  BY <1>1 DEF LoopKnown
<1>4. PageKnown(loop.page) /\ page[loop.page].cfg \in Configs
  BY <1>1, <1>2, Known, PageFields
<1>5. /\ page[loop.page].cfg = page[loop.page].base /\ group # NoSubnet
      /\ page[loop.page].cfg.subnet # NoSubnet /\ page[loop.page].cfg.pki
  BY <1>3, <1>4 DEF PageKnown, FormKnown
<1>6. ~Busy(loop.page)
  BY <1>1, <1>2, <1>3, <1>4 DEF PageKnown, ThreadKnown, Busy, PkiSteps, Steps, WizTypeOK
<1> QED  BY <1>1, <1>2, <1>3, <1>4, <1>5, <1>6 DEF Configs

\* A step that touches no page and no thread.
LEMMA PagesKept ==
  ASSUME WizInv, Grows, UNCHANGED <<page, thread>>, WizTypeOK', Sane(file)', LoopKnown',
         (pki.crt # 0 => pki.crt \in {pki.ca, Found})', (crossed \/ OnePool)'
  PROVE  WizInv'
<1>1. \A q \in Pages : PageKnown(q)'
  BY PageKept
<1> QED  BY <1>1 DEF WizInv, General, PageKnown

LEMMA WriteConfKeeps ==
  ASSUME WizInv, WriteConf
  PROVE  WizInv'
<1>1. /\ Holds("conf")
      /\ UNCHANGED <<file, installed, pki, group, rule, chain, running, page, thread,
                     crashes, crossed>>
  BY DEF WriteConf
<1> DEFINE p == loop.page
<1>2. /\ loop # Free /\ loop.at = "conf" /\ loop \in LoopSteps /\ p \in Pages
      /\ page[p].form = "start" /\ page[p].cfg = page[p].base
      /\ page[p].cfg.subnet \in Subnets
  BY <1>1, LoopFacts
<1>3. \/ /\ conf' = [subnet |-> page[p].cfg.subnet, port |-> StdPort]
         /\ loop' = [loop EXCEPT !.at = "inst"] /\ faults' = faults
      \/ conf' = conf /\ loop' = Free
  BY DEF WriteConf, WizardConf, GiveUp
<1>4. \/ conf' = conf /\ loop' = Free
      \/ /\ loop' \in LoopSteps /\ loop'.at = "inst" /\ loop'.page = p
         /\ conf' \in Conf /\ conf' # NoConf /\ conf'.subnet = page[p].cfg.subnet
  BY <1>2, <1>3, WizardConstants DEF LoopSteps, Conf
<1>5. faults' \in 0..MaxFaults
  BY FaultCounted DEF WriteConf, GiveUp, WizInv, WizTypeOK
<1> HIDE DEF p
<1>6. WizTypeOK'
  BY <1>1, <1>4, <1>5 DEF WizInv, WizTypeOK
<1>7. Grows
  BY <1>1, Still
<1>8. LoopKnown'
  BY <1>1, <1>2, <1>4 DEF LoopKnown
<1>9. (crossed \/ OnePool)'
  BY <1>1, <1>2, <1>4, WizardConstants DEF WizInv, OnePool
<1>10. Sane(file)' /\ (pki.crt # 0 => pki.crt \in {pki.ca, Found})'
  BY <1>1 DEF WizInv, General, Sane, PkiWhole
<1> QED  BY <1>1, <1>6, <1>7, <1>8, <1>9, <1>10, PagesKept

LEMMA StartInstanceKeeps ==
  ASSUME WizInv, StartInstance
  PROVE  WizInv'
<1>1. /\ Holds("inst")
      /\ UNCHANGED <<file, installed, pki, group, rule, chain, conf, page, thread,
                     crashes, crossed>>
  BY DEF StartInstance
<1> DEFINE p == loop.page
<1>2. /\ loop # Free /\ loop.at = "inst" /\ loop \in LoopSteps /\ p \in Pages
      /\ page[p].form = "start"
  BY <1>1, LoopFacts
<1>3. conf # NoConf /\ conf.subnet = page[p].cfg.subnet
  BY <1>2 DEF WizInv, General, LoopKnown
<1>4. \/ /\ running' = (IF running = NoConf THEN conf ELSE running)
         /\ loop' = [loop EXCEPT !.at = "mark"] /\ faults' = faults
      \/ running' = running /\ loop' = Free
  BY DEF StartInstance, GiveUp
<1>5. \/ running' = running /\ loop' = Free
      \/ /\ loop' \in LoopSteps /\ loop'.at = "mark" /\ loop'.page = p
         /\ running' \in {running, conf} /\ running' # NoConf
  BY <1>2, <1>3, <1>4 DEF LoopSteps
<1>6. faults' \in 0..MaxFaults
  BY FaultCounted DEF StartInstance, GiveUp, WizInv, WizTypeOK
<1> HIDE DEF p
<1>7. WizTypeOK'
  BY <1>1, <1>5, <1>6 DEF WizInv, WizTypeOK
<1>8. Grows
  BY <1>1, <1>5 DEF Grows, PkiWhole, Made
<1>9. LoopKnown'
  BY <1>1, <1>2, <1>3, <1>5 DEF LoopKnown
<1>10. (crossed \/ OnePool)'
  BY <1>1, PoolKept
<1>11. Sane(file)' /\ (pki.crt # 0 => pki.crt \in {pki.ca, Found})'
  BY <1>1 DEF WizInv, General, Sane, PkiWhole
<1> QED  BY <1>1, <1>7, <1>8, <1>9, <1>10, <1>11, PagesKept

LEMMA MarkInitializedKeeps ==
  ASSUME WizInv, MarkInitialized
  PROVE  WizInv'
<1>0. PICK p \in Pages : p = loop.page
  BY LoopFacts DEF MarkInitialized
<1> DEFINE c == [page[p].cfg EXCEPT !.inst = TRUE, !.init = TRUE]
<1>1. /\ Holds("mark") /\ SaveFrom(p, c, page[p].form)
      /\ loop' = [loop EXCEPT !.at = "rule"]
      /\ UNCHANGED <<installed, pki, group, rule, chain, conf, running, thread, faults,
                     crashes>>
  BY <1>0 DEF MarkInitialized
<1>2. /\ loop # Free /\ loop.at = "mark" /\ loop \in LoopSteps /\ p \in Pages
      /\ page[p].form = "start" /\ group # NoSubnet /\ page[p].cfg = page[p].base
      /\ page[p].cfg \in Configs /\ page[p].cfg.subnet \in Subnets /\ page[p].cfg.pki
      /\ ~Busy(p)
  BY <1>0, <1>1, LoopFacts
<1>3. conf # NoConf /\ conf.subnet = page[p].cfg.subnet /\ running # NoConf
  BY <1>0, <1>2 DEF WizInv, General, LoopKnown
<1>4. WizTypeOK /\ PageKnown(p) /\ "start" \in Forms
  BY <1>2, Known DEF WizInv, Forms
<1>5. /\ c \in Configs /\ c.bin = page[p].cfg.bin /\ c.pki = page[p].cfg.pki
      /\ c.subnet = page[p].cfg.subnet /\ c.init
  BY <1>2 DEF Configs
<1>6. /\ loop' \in LoopSteps /\ loop'.at = "rule" /\ loop'.page = p
  BY <1>0, <1>1, <1>2 DEF LoopSteps
<1> HIDE DEF c
<1>7. /\ file' = c /\ file' \in Configs /\ crossed' \in BOOLEAN
      /\ page' \in [Pages -> PageStates]
      /\ page'[p].form = "start" /\ page'[p].cfg = c /\ page'[p].base = c
      /\ \A q \in Pages \ {p} : page'[q] = page[q]
      /\ crossed' <=> (crossed \/ page[p].base # file)
  BY <1>1, <1>2, <1>4, <1>5, PageSaves
<1>8. Grows
  BY <1>1, Still
<1>9. WizTypeOK'
  BY <1>1, <1>4, <1>6, <1>7 DEF WizTypeOK
<1>10. Sane(file)' /\ Sane(page[p].cfg)' /\ Sane(page[p].base)'
  BY <1>1, <1>2, <1>4, <1>5, <1>7, WizardConstants DEF PageKnown, Sane, PkiWhole
<1>11. ThreadKnown(p)'
  BY <1>1, <1>2, <1>4 DEF PageKnown, ThreadKnown, Busy, Made, PkiSteps
<1>12. FormKnown(p)'
  BY <1>1, <1>2, <1>5, <1>7, WizardConstants DEF FormKnown
<1>13. LoopKnown'
  BY <1>1, <1>3, <1>6, <1>7 DEF LoopKnown
<1>14. (crossed \/ OnePool)'
  <2> SUFFICES ASSUME ~crossed' PROVE OnePool'
    OBVIOUS
  <2>1. OnePool /\ page[p].base = file
    BY <1>7 DEF WizInv
  <2>2. c.subnet = file.subnet
    BY <1>2, <1>5, <2>1
  <2>3. \A q \in Pages : page'[q].base.subnet \in {NoSubnet, c.subnet}
    BY <1>7, <2>1, <2>2 DEF OnePool
  <2>4. (group # NoSubnet => group = c.subnet) /\ conf.subnet = c.subnet
    BY <1>3, <1>5, <2>1, <2>2 DEF OnePool
  <2> QED  BY <1>1, <1>2, <1>3, <1>7, <2>3, <2>4 DEF OnePool
<1>15. (pki.crt # 0 => pki.crt \in {pki.ca, Found})'
  BY <1>1 DEF WizInv, General
<1>16. \A q \in Pages \ {p} : thread'[q] = thread[q]
  BY <1>1
<1>17. PageKnown(p)'
  BY <1>10, <1>11, <1>12 DEF PageKnown
<1> QED  BY <1>2, <1>7, <1>8, <1>9, <1>10, <1>13, <1>14, <1>15, <1>16, <1>17, OnePage

LEMMA DefaultRuleKeeps ==
  ASSUME WizInv, DefaultRule
  PROVE  WizInv'
<1>1. /\ Holds("rule")
      /\ UNCHANGED <<file, installed, pki, group, chain, conf, running, page, thread,
                     crashes, crossed>>
  BY DEF DefaultRule
<1>2. /\ loop # Free /\ loop.at = "rule" /\ loop \in LoopSteps
      /\ page[loop.page].form = "start" /\ group # NoSubnet
  BY <1>1, LoopFacts
<1>3. running # NoConf /\ rule \in BOOLEAN
  BY <1>2 DEF WizInv, General, LoopKnown, WizTypeOK
<1>4. \/ rule' = TRUE /\ loop' = [loop EXCEPT !.at = "chain"]
      \/ rule' = rule /\ loop' = Free
  BY <1>2, <1>3 DEF DefaultRule, GiveUp
<1>5. \/ /\ rule' = TRUE /\ loop' \in LoopSteps
         /\ loop'.at = "chain" /\ loop'.page = loop.page
      \/ rule' = rule /\ loop' = Free
  BY <1>2, <1>4 DEF LoopSteps
<1>6. faults' \in 0..MaxFaults
  BY FaultCounted DEF DefaultRule, GiveUp, WizInv, WizTypeOK
<1>7. WizTypeOK'
  BY <1>1, <1>3, <1>5, <1>6 DEF WizInv, WizTypeOK
<1>8. Grows
  BY <1>1, <1>5 DEF Grows, PkiWhole, Made
<1>9. LoopKnown'
  BY <1>1, <1>2, <1>3, <1>5 DEF LoopKnown
<1>10. (crossed \/ OnePool)'
  BY <1>1, PoolKept
<1>11. Sane(file)' /\ (pki.crt # 0 => pki.crt \in {pki.ca, Found})'
  BY <1>1 DEF WizInv, General, Sane, PkiWhole
<1> QED  BY <1>1, <1>7, <1>8, <1>9, <1>10, <1>11, PagesKept

LEMMA RebuildChainKeeps ==
  ASSUME WizInv, RebuildChain
  PROVE  WizInv'
<1>1. /\ Holds("chain") /\ loop' = Free
      /\ UNCHANGED <<file, installed, pki, group, rule, conf, running, thread, crashes,
                     crossed>>
  BY DEF RebuildChain, GiveUp
<1>0. PICK p \in Pages : p = loop.page
  BY LoopFacts DEF RebuildChain
<1>2. /\ loop # Free /\ loop.at = "chain" /\ p \in Pages
      /\ page[p].form = "start" /\ group # NoSubnet /\ page[p].cfg = page[p].base
      /\ page[p].cfg.subnet \in Subnets /\ page[p].cfg.pki /\ ~Busy(p)
  BY <1>0, <1>1, LoopFacts
<1>3. rule = TRUE /\ running # NoConf
  BY <1>2 DEF WizInv, General, LoopKnown, WizTypeOK
<1>4. \/ chain' = TRUE /\ Show(p, "done")
      \/ chain' = chain /\ page' = page
  BY <1>0, <1>3 DEF RebuildChain
<1>5. faults' \in 0..MaxFaults
  BY FaultCounted DEF RebuildChain, GiveUp, WizInv, WizTypeOK
<1>6. LoopKnown'
  BY <1>1 DEF LoopKnown
<1>7. Grows
  BY <1>1, <1>4 DEF Grows, PkiWhole, Made
<1>8. Sane(file)' /\ (pki.crt # 0 => pki.crt \in {pki.ca, Found})'
  BY <1>1 DEF WizInv, General, Sane, PkiWhole
<1>9. CASE chain' = TRUE /\ Show(p, "done")
  <2>1. WizTypeOK /\ PageKnown(p) /\ "done" \in Forms
    BY <1>2, Known DEF WizInv, Forms
  <2>2. /\ page' \in [Pages -> PageStates]
        /\ page'[p].form = "done" /\ page'[p].cfg = page[p].cfg
        /\ page'[p].base = page[p].base
        /\ \A q \in Pages \ {p} : page'[q] = page[q]
    BY <1>2, <1>9, <2>1, Shown
  <2>3. WizTypeOK'
    BY <1>1, <1>5, <1>9, <2>1, <2>2 DEF WizTypeOK
  <2>4. PageKnown(p)'
    <3>1. Sane(page[p].cfg)' /\ Sane(page[p].base)'
      BY <1>1, <2>1, <2>2 DEF PageKnown, Sane, PkiWhole
    <3>2. ThreadKnown(p)'
      BY <1>1, <1>2, <2>1 DEF PageKnown, ThreadKnown, Busy, Made, PkiSteps
    <3>3. FormKnown(p)'
      BY <1>1, <1>2, <1>3, <1>9, <2>2, WizardConstants DEF FormKnown
    <3> QED  BY <3>1, <3>2, <3>3 DEF PageKnown
  <2>5. (crossed \/ OnePool)'
    BY <1>1, <2>2, PoolKept
  <2> QED  BY <1>1, <1>2, <1>6, <1>7, <1>8, <2>2, <2>3, <2>4, <2>5, OnePage
<1>10. CASE chain' = chain /\ page' = page
  <2>1. WizTypeOK'
    BY <1>1, <1>5, <1>10 DEF WizInv, WizTypeOK
  <2>2. (crossed \/ OnePool)'
    BY <1>1, <1>10, PoolKept
  <2> QED  BY <1>1, <1>6, <1>7, <1>8, <1>10, <2>1, <2>2, PagesKept
<1> QED  BY <1>4, <1>9, <1>10

(***************************************************************************)
(* The program dies and starts again.                                      *)
(***************************************************************************)
LEMMA RestartKeeps ==
  ASSUME WizInv, Restart
  PROVE  WizInv'
<1>1. /\ page' = [p \in Pages |-> ClosedPage]
      /\ thread' = [p \in Pages |-> "none"] /\ loop' = Free
      /\ UNCHANGED <<file, installed, pki, group, rule, running, faults, crossed>>
  BY DEF Restart
<1>2. WizTypeOK /\ General
  BY DEF WizInv
<1>3. crashes' \in 0..MaxCrashes
  BY <1>2, WizardConstants DEF Restart, WizTypeOK
<1>4. chain' \in BOOLEAN
  BY <1>2 DEF Restart, WizTypeOK
<1>5. \/ conf' = conf
      \/ conf' \in Conf /\ conf' # NoConf /\ conf'.subnet = file.subnet
  <2>1. \/ conf' = conf
        \/ /\ file.subnet # NoSubnet
           /\ conf' = [subnet |-> file.subnet, port |-> file.port]
    BY DEF Restart
  <2> QED  BY <1>2, <2>1, WizardConstants DEF WizTypeOK, Configs, Conf
<1>6. Blank \in Configs /\ Blank.subnet = NoSubnet
  BY WizardConstants DEF Blank, Configs
<1>7. ClosedPage \in PageStates /\ "none" \in Steps
  BY <1>6 DEF ClosedPage, PageStates, Forms, Steps
<1>8. WizTypeOK'
  BY <1>1, <1>2, <1>3, <1>4, <1>5, <1>7 DEF WizTypeOK
<1>9. \A p \in Pages : /\ thread'[p] = "none" /\ page'[p].cfg = Blank
                       /\ page'[p].base = Blank /\ page'[p].form = "closed"
  BY <1>1 DEF ClosedPage
<1>10. \A p \in Pages : ThreadKnown(p)' /\ FormKnown(p)'
  BY <1>9 DEF ThreadKnown, FormKnown, Busy, Made, PkiSteps
<1>11. \A p \in Pages : Sane(page[p].cfg)' /\ Sane(page[p].base)'
  BY <1>9 DEF Sane, Blank
<1>12. LoopKnown'
  BY <1>1 DEF LoopKnown
<1>13. General'
  BY <1>1, <1>2, <1>10, <1>11, <1>12 DEF General, Sane, PkiWhole
<1>14. (crossed \/ OnePool)'
  BY <1>1, <1>5, <1>6, <1>9 DEF WizInv, OnePool
<1> QED  BY <1>8, <1>13, <1>14 DEF WizInv

\* Every step keeps the invariant.
LEMMA WizStepKeeps ==
  ASSUME WizInv, [WizNext]_wizVars
  PROVE  WizInv'
<1>1. CASE UNCHANGED wizVars
  BY <1>1 DEF wizVars, WizInv, WizTypeOK, General, OnePool, Sane, ThreadKnown, FormKnown,
     LoopKnown, Busy, Made, PkiWhole
<1>2. ASSUME NEW p \in Pages, Work(p)
      PROVE  WizInv'
  BY <1>2, InstallKeeps, SaveInstalledKeeps, InspectKeeps, InitPkiKeeps, BuildCaKeeps,
     ServerReqKeeps, MakeKeeps, SavePkiKeeps DEF Work
<1>3. ASSUME NEW p \in Pages,
             \/ Load(p) \/ Close(p) \/ RunDetect(p) \/ CustomForm(p) \/ CustomPath(p)
             \/ HandleInstall(p) \/ HandlePkiInit(p) \/ Poll(p) \/ ConfigSubnet(p)
             \/ StartService(p)
      PROVE  WizInv'
  BY <1>3, LoadKeeps, CloseKeeps, RunDetectKeeps, CustomFormKeeps, CustomPathKeeps,
     HandleInstallKeeps, HandlePkiInitKeeps, PollKeeps, ConfigSubnetKeeps, StartServiceKeeps
<1>4. CASE WriteConf \/ StartInstance \/ MarkInitialized \/ DefaultRule \/ RebuildChain
           \/ Restart
  BY <1>4, WriteConfKeeps, StartInstanceKeeps, MarkInitializedKeeps, DefaultRuleKeeps,
     RebuildChainKeeps, RestartKeeps
<1> QED  BY <1>1, <1>2, <1>3, <1>4 DEF WizNext

(***************************************************************************)
(* Whatever failed and was retried on the way, a system marked initialised *)
(* has a whole PKI of one CA, a default group and a server.conf over the   *)
(* saved address pool, and a page that reports success a running instance  *)
(* with its default rule in the chain; unless a stale copy was saved or    *)
(* two threads met (app/core/init_wizard.py, app/ui/pages/init_page.py).   *)
(***************************************************************************)
THEOREM SetupIsWhole == WizSpec => []SetupWhole
<1>1. WizInv /\ [WizNext]_wizVars => WizInv'
  BY WizStepKeeps
<1> QED  BY <1>1, WizInitKnown, WizInvWhole, PTL DEF WizSpec

(***************************************************************************)
(* ServerSettings: what is derived follows config.json                     *)
(***************************************************************************)

\* What a save knows: the configuration before and after it, and which one is saved.
JobKnown ==
  /\ job.kind = "server" =>
       /\ job.old \in Settings /\ job.new \in Settings
       /\ job.at \in {"conf", "fwd", "sync", "undo", "undo-conf", "undo-fwd"}
       /\ job.new.net = job.old.net /\ job.new.mode = job.old.mode
       /\ cfg = IF job.at \in {"undo-conf", "undo-fwd"} THEN job.old ELSE job.new
  /\ job.kind = "mode" =>
       /\ job.old \in Settings /\ job.at = "file"
       /\ cfg = job.new /\ ConfOf(job.old) = ConfOf(cfg)
       /\ job.old.conn = cfg.conn /\ job.old.net = cfg.net
  /\ job.kind = "net" =>
       /\ job.old \in Nets /\ job.new \in Nets
       /\ job.at \in {"save", "conf", "rule", "fwd"}
       /\ root = job.new /\ (job.at # "save" => cfg.net = job.new)
  /\ job.kind # "idle" /\ job.at \in {"conf", "undo-conf"} => job.inst \in Instances

\* The files rewritten so far are current, whatever was wrong before; between the
\* loops all are.
ConfsKnown ==
  IF job.kind # "idle" /\ job.at \in {"conf", "undo-conf"}
  THEN \A i \in Instances : i < job.inst => confs[i] = ConfOf(cfg)
  ELSE \/ job.kind = "server" /\ job.at = "undo"
       \/ "conf" \in drift
       \/ \A i \in Instances : confs[i] = ConfOf(cfg)

ForwardKnown ==
  "forward" \in drift \/ forward = default \/ (job.kind = "net" /\ job.at = "fwd")

DefaultKnown ==
  \/ "default" \in drift /\ ~(job.kind = "net" /\ job.at = "fwd")
  \/ job.kind # "net" /\ default = cfg.net /\ root = cfg.net
  \/ job.kind = "net" /\ job.at = "save" /\ default = job.old /\ cfg.net = job.old
  \/ job.kind = "net" /\ job.at \in {"conf", "rule"} /\ default = job.old
  \/ job.kind = "net" /\ job.at = "fwd" /\ default = job.new

MasqKnown == "masq" \in drift \/ masq = cfg.net

ProfilesKnown ==
  \/ "profiles" \in drift
  \/ \A f \in Profiles :
       profiles[f] = IF job.kind = "server" THEN job.old.conn ELSE cfg.conn

ModeKnown ==
  "mode" \in drift \/ modeFile = IF job.kind = "mode" THEN job.old.mode ELSE cfg.mode

SetInv == /\ SetTypeOK /\ JobKnown /\ ConfsKnown /\ ForwardKnown /\ DefaultKnown
          /\ MasqKnown /\ ProfilesKnown /\ ModeKnown

(***************************************************************************)
(* The save in progress.                                                   *)
(***************************************************************************)
LEMMA Counted == /\ Cardinality(Instances) \in Nat /\ Instances \subseteq Nat
                 /\ \A i \in Instances : 1 <= i /\ i <= Cardinality(Instances)
                 /\ \A i \in Instances : ~LastConf(i) => i + 1 \in Instances
<1>1. Cardinality(Instances) \in Nat
  BY SettingsAssumption, FS_CardinalityType
<1> QED  BY <1>1, SettingsAssumption DEF LastConf

LEMMA AnyJob ==
  ASSUME SetTypeOK
  PROVE  /\ job = Idle <=> job.kind = "idle"
         /\ job.kind # "idle" => job \in Jobs
<1>1. job \in Jobs \cup {Idle}
  BY DEF SetTypeOK
<1>2. Idle.kind = "idle" /\ \A j \in Jobs : j.kind # "idle"
  BY DEF Idle, Jobs
<1> QED  BY <1>1, <1>2

LEMMA ToFields ==
  ASSUME SetTypeOK, job.kind # "idle", NEW step, To(step)
  PROVE  /\ job'.kind = job.kind /\ job'.at = step
         /\ job'.old = job.old /\ job'.new = job.new
         /\ job'.inst = IF step \in {"conf", "undo-conf"} THEN 1 ELSE 0
         /\ step \in {"conf", "fwd", "sync", "undo", "undo-conf", "undo-fwd", "rule"}
              => job' \in Jobs
<1>1. job \in Jobs
  BY AnyJob
<1> QED  BY <1>1, SettingsAssumption DEF Jobs, To

LEMMA NextInst ==
  ASSUME SetTypeOK, JobKnown, job.kind # "idle", job.at \in {"conf", "undo-conf"},
         ~LastConf(job.inst), job' = [job EXCEPT !.inst = job.inst + 1]
  PROVE  /\ job' \in Jobs /\ job'.inst \in Instances /\ job'.inst = job.inst + 1
         /\ job'.kind = job.kind /\ job'.at = job.at
         /\ job'.old = job.old /\ job'.new = job.new
<1>1. job \in Jobs
  BY AnyJob
<1>2. job.inst \in Instances /\ job.inst + 1 \in Instances
  BY Counted DEF JobKnown
<1> QED  BY <1>1, <1>2 DEF Jobs

LEMMA IdleFields == Idle.kind = "idle" /\ Idle.at = ""
  BY DEF Idle

LEMMA ConfOfType == \A c \in Settings : ConfOf(c) \in ConfText
  BY DEF Settings, ConfText, ConfOf

(***************************************************************************)
(* One file of the loop over the instances.                                *)
(***************************************************************************)
\* What the loop leaves behind, whether it goes on, ends or fails.
LoopKept ==
  /\ cfg' = cfg /\ root' = root /\ default' = default /\ forward' = forward
  /\ masq' = masq /\ profiles' = profiles /\ modeFile' = modeFile
  /\ editor' = editor /\ issuer' = issuer /\ deaths' = deaths
  /\ confs' \in [Instances -> ConfText \cup {Torn}]
  /\ trouble' \in 0..MaxTrouble

LEMMA LoopKeeps ==
  ASSUME SetTypeOK, JobKnown, job.kind # "idle", job.at \in {"conf", "undo-conf"},
         UNCHANGED <<cfg, firewall, profiles, modeFile, editor, issuer, deaths>>,
         \/ /\ confs' = [confs EXCEPT ![job.inst] = ConfOf(cfg)]
            /\ trouble' = trouble
         \/ /\ confs' \in {confs, [confs EXCEPT ![job.inst] = Torn]}
            /\ Trouble
  PROVE  LoopKept
<1>1. confs' \in [Instances -> ConfText \cup {Torn}]
  BY ConfOfType DEF SetTypeOK
<1>2. trouble' \in 0..MaxTrouble
  BY SettingsAssumption DEF SetTypeOK, Trouble
<1> QED  BY <1>1, <1>2 DEF LoopKept, firewall

LEMMA LoopDone ==
  ASSUME SetTypeOK, JobKnown, ConfsKnown, job.kind # "idle",
         job.at \in {"conf", "undo-conf"},
         confs' = [confs EXCEPT ![job.inst] = ConfOf(cfg)]
  PROVE  /\ \A i \in Instances : i < job.inst + 1 => confs'[i] = ConfOf(cfg)
         /\ LastConf(job.inst) => \A i \in Instances : confs'[i] = ConfOf(cfg)
<1>1. job.inst \in Instances /\ Instances \subseteq Int
      /\ \A i \in Instances : i < job.inst => confs[i] = ConfOf(cfg)
  BY Counted DEF JobKnown, ConfsKnown
<1>2. \A i \in Instances : i < job.inst + 1 => confs'[i] = ConfOf(cfg)
  <2> SUFFICES ASSUME NEW i \in Instances, i < job.inst + 1
               PROVE  confs'[i] = ConfOf(cfg)
    OBVIOUS
  <2>1. CASE i = job.inst  BY <2>1 DEF SetTypeOK
  <2>2. CASE i # job.inst
    <3>1. i \in Nat /\ job.inst \in Nat
      BY <1>1, Counted
    <3>2. i < job.inst
      BY <2>2, <3>1
    <3> QED  BY <1>1, <2>2, <3>2 DEF SetTypeOK
  <2> QED  BY <2>1, <2>2
<1>3. LastConf(job.inst) => \A i \in Instances : i < job.inst + 1
  BY Counted DEF LastConf
<1> QED  BY <1>2, <1>3

(***************************************************************************)
(* The saves begin.                                                        *)
(***************************************************************************)
LEMMA SaveServerKeeps ==
  ASSUME SetInv, NEW i \in ServerInputs, SaveServer(i)
  PROVE  SetInv'
<1>0. SetTypeOK /\ cfg \in Settings /\ job.kind = "idle" /\ 1 \in Instances
      /\ Instances \subseteq Nat
  BY AnyJob, SettingsAssumption, Counted DEF SetInv, SetTypeOK, SaveServer
<1>1. /\ cfg' = [cfg EXCEPT !.conn = i[1], !.lan = i[2]]
      /\ job' = [kind |-> "server", at |-> "conf", inst |-> 1, old |-> cfg, new |-> cfg']
      /\ UNCHANGED <<confs, firewall, profiles, modeFile, editor, issuer, drift,
                     trouble, deaths>>
  BY DEF SaveServer
<1>2. cfg' \in Settings /\ cfg'.net = cfg.net /\ cfg'.mode = cfg.mode
  BY <1>0, <1>1 DEF Settings, ServerInputs
<1>3. job'.kind = "server" /\ job'.at = "conf" /\ job'.inst = 1
      /\ job'.old = cfg /\ job'.new = cfg' /\ job' \in Jobs
  BY <1>0, <1>1, <1>2 DEF Jobs
<1>4. SetTypeOK'
  BY <1>0, <1>1, <1>2, <1>3 DEF SetTypeOK, firewall
<1>5. JobKnown'
  BY <1>0, <1>2, <1>3 DEF JobKnown
<1>6. ConfsKnown'
  BY <1>3, Counted DEF ConfsKnown
<1>7. ForwardKnown' /\ DefaultKnown' /\ MasqKnown'
  BY <1>0, <1>1, <1>2, <1>3 DEF SetInv, ForwardKnown, DefaultKnown, MasqKnown, firewall
<1>8. ProfilesKnown'
  BY <1>0, <1>1, <1>3 DEF SetInv, ProfilesKnown
<1>9. ModeKnown'
  BY <1>0, <1>1, <1>2, <1>3 DEF SetInv, ModeKnown
<1> QED  BY <1>4, <1>5, <1>6, <1>7, <1>8, <1>9 DEF SetInv

LEMMA SaveModeKeeps ==
  ASSUME SetInv, NEW m \in ModeInputs, SaveMode(m)
  PROVE  SetInv'
<1>0. SetTypeOK /\ cfg \in Settings /\ job.kind = "idle"
  BY AnyJob DEF SetInv, SetTypeOK, SaveMode
<1>1. /\ cfg' = [cfg EXCEPT !.mode = m]
      /\ job' = [kind |-> "mode", at |-> "file", inst |-> 0, old |-> cfg, new |-> cfg']
      /\ UNCHANGED <<confs, firewall, profiles, modeFile, editor, issuer, drift,
                     trouble, deaths>>
  BY DEF SaveMode
<1>2. cfg' \in Settings /\ cfg'.net = cfg.net /\ cfg'.conn = cfg.conn
      /\ cfg'.lan = cfg.lan
  BY <1>0, <1>1 DEF Settings, ModeInputs
<1>3. job'.kind = "mode" /\ job'.at = "file" /\ job'.inst = 0
      /\ job'.old = cfg /\ job'.new = cfg' /\ job' \in Jobs
  BY <1>0, <1>1, <1>2 DEF Jobs
<1>4. ConfOf(cfg') = ConfOf(cfg) /\ ConfOf(cfg)' = ConfOf(cfg')
  BY <1>2 DEF ConfOf
<1>5. SetTypeOK'
  BY <1>0, <1>1, <1>2, <1>3 DEF SetTypeOK, firewall
<1>6. JobKnown'
  BY <1>0, <1>2, <1>3, <1>4 DEF JobKnown, ConfOf
<1>7. ConfsKnown'
  BY <1>0, <1>1, <1>3, <1>4 DEF SetInv, ConfsKnown
<1>8. ForwardKnown' /\ DefaultKnown' /\ MasqKnown'
  BY <1>0, <1>1, <1>2, <1>3 DEF SetInv, ForwardKnown, DefaultKnown, MasqKnown, firewall
<1>9. ProfilesKnown'
  BY <1>0, <1>1, <1>2, <1>3 DEF SetInv, ProfilesKnown
<1>10. ModeKnown'
  BY <1>0, <1>1, <1>3 DEF SetInv, ModeKnown
<1> QED  BY <1>5, <1>6, <1>7, <1>8, <1>9, <1>10 DEF SetInv

LEMMA SaveNetKeeps ==
  ASSUME SetInv, NEW n \in Nets, SaveNet(n)
  PROVE  SetInv'
<1>0. SetTypeOK /\ job.kind = "idle" /\ root \in Nets /\ 1 \in Instances
  BY AnyJob, SettingsAssumption DEF SetInv, SetTypeOK, SaveNet
<1>1. /\ root' = n
      /\ job' = [kind |-> "net", at |-> "save", inst |-> 1, old |-> root, new |-> n]
      /\ UNCHANGED <<cfg, confs, default, forward, masq, profiles, modeFile, editor,
                     issuer, drift, trouble, deaths>>
  BY DEF SaveNet
<1>2. job'.kind = "net" /\ job'.at = "save" /\ job'.inst = 1
      /\ job'.old = root /\ job'.new = n /\ job' \in Jobs
  BY <1>0, <1>1 DEF Jobs
<1>3. SetTypeOK'
  BY <1>0, <1>1, <1>2 DEF SetTypeOK
<1>4. JobKnown'
  BY <1>0, <1>1, <1>2 DEF JobKnown
<1>5. ConfsKnown'
  BY <1>0, <1>1, <1>2 DEF SetInv, ConfsKnown, ConfOf
<1>6. ForwardKnown' /\ DefaultKnown' /\ MasqKnown'
  BY <1>0, <1>1, <1>2 DEF SetInv, ForwardKnown, DefaultKnown, MasqKnown
<1>7. ProfilesKnown' /\ ModeKnown'
  BY <1>0, <1>1, <1>2 DEF SetInv, ProfilesKnown, ModeKnown
<1> QED  BY <1>3, <1>4, <1>5, <1>6, <1>7 DEF SetInv

(***************************************************************************)
(* The files of the instances.                                             *)
(***************************************************************************)
\* One more file, and the loop is not at its end.
LEMMA LoopGoesOn ==
  ASSUME SetInv, LoopKept, job.kind # "idle", job.at \in {"conf", "undo-conf"},
         confs' = [confs EXCEPT ![job.inst] = ConfOf(cfg)], ~LastConf(job.inst),
         job' = [job EXCEPT !.inst = job.inst + 1], drift' = drift
  PROVE  SetInv'
<1>1. /\ job' \in Jobs /\ job'.inst \in Instances /\ job'.inst = job.inst + 1
      /\ job'.kind = job.kind /\ job'.at = job.at
      /\ job'.old = job.old /\ job'.new = job.new
  BY NextInst DEF SetInv
<1>2. SetTypeOK'
  BY <1>1 DEF SetInv, SetTypeOK, LoopKept
<1>3. JobKnown'
  BY <1>1 DEF SetInv, JobKnown, LoopKept, ConfOf
<1>4. \A i \in Instances : i < job.inst + 1 => confs'[i] = ConfOf(cfg)
  BY LoopDone DEF SetInv
<1>5. ConfsKnown'
  BY <1>1, <1>4 DEF ConfsKnown, LoopKept, ConfOf
<1>6. ForwardKnown' /\ DefaultKnown' /\ MasqKnown'
  BY <1>1 DEF SetInv, ForwardKnown, DefaultKnown, MasqKnown, LoopKept
<1>7. ProfilesKnown' /\ ModeKnown'
  BY <1>1 DEF SetInv, ProfilesKnown, ModeKnown, LoopKept
<1> QED  BY <1>2, <1>3, <1>5, <1>6, <1>7 DEF SetInv

\* The loop ends, with every file current or with a failure that is remembered, and
\* the save goes on with a step that is no loop.
LEMMA LoopEnds ==
  ASSUME SetInv, LoopKept, job.kind # "idle", job.at \in {"conf", "undo-conf"},
         NEW step \in {"fwd", "undo", "undo-fwd", "rule"}, To(step),
         \/ job.kind = "server" /\ job.at = "conf" /\ step \in {"fwd", "undo"}
         \/ job.kind = "server" /\ job.at = "undo-conf" /\ step = "undo-fwd"
         \/ job.kind = "net" /\ job.at = "conf" /\ step = "rule",
         \/ (\A i \in Instances : confs'[i] = ConfOf(cfg)) /\ drift' = drift \ {"conf"}
         \/ step = "undo" /\ drift' = drift
         \/ drift' = drift \cup {"conf"}
  PROVE  SetInv'
<1>1. /\ job' \in Jobs /\ job'.at = step
      /\ job'.kind = job.kind /\ job'.old = job.old /\ job'.new = job.new
  BY ToFields DEF SetInv
<1>2. drift' \subseteq Resources /\ drift \ {"conf"} \subseteq drift'
      /\ drift' \subseteq drift \cup {"conf"}
  BY DEF SetInv, SetTypeOK, Resources
<1>3. SetTypeOK'
  BY <1>1, <1>2 DEF SetInv, SetTypeOK, LoopKept
<1>4. JobKnown'
  BY <1>1 DEF SetInv, JobKnown, LoopKept, ConfOf
<1>5. ConfsKnown'
  BY <1>1 DEF ConfsKnown, LoopKept, ConfOf
<1>6. ForwardKnown'
  BY <1>1, <1>2 DEF SetInv, ForwardKnown, LoopKept
<1>7. DefaultKnown' /\ MasqKnown'
  BY <1>1, <1>2 DEF SetInv, DefaultKnown, MasqKnown, LoopKept
<1>8. ProfilesKnown' /\ ModeKnown'
  BY <1>1, <1>2 DEF SetInv, ProfilesKnown, ModeKnown, LoopKept
<1> QED  BY <1>3, <1>4, <1>5, <1>6, <1>7, <1>8 DEF SetInv

\* The loop of a rollback fails: the save is over.
LEMMA LoopGivesUp ==
  ASSUME SetInv, LoopKept, job.kind = "server", job.at = "undo-conf", job' = Idle,
         drift' = drift \cup {"conf", "forward"}
  PROVE  SetInv'
<1>1. job'.kind = "idle" /\ job'.at = ""
  BY DEF Idle
<1>2. SetTypeOK'
  BY DEF SetInv, SetTypeOK, LoopKept, Resources
<1>3. JobKnown' /\ ConfsKnown' /\ ForwardKnown'
  BY <1>1 DEF JobKnown, ConfsKnown, ForwardKnown
<1>4. cfg' = job.old
  BY DEF SetInv, JobKnown, LoopKept
<1>5. DefaultKnown' /\ MasqKnown'
  BY <1>1 DEF SetInv, DefaultKnown, MasqKnown, LoopKept
<1>6. ProfilesKnown' /\ ModeKnown'
  BY <1>1, <1>4 DEF SetInv, ProfilesKnown, ModeKnown, LoopKept
<1> QED  BY <1>2, <1>3, <1>5, <1>6 DEF SetInv

LEMMA ConfStepsKeep ==
  ASSUME SetInv, ServerConf \/ UndoConf \/ NetConf
  PROVE  SetInv'
<1>1. job.kind # "idle" /\ job.at \in {"conf", "undo-conf"}
  BY DEF ServerConf, UndoConf, NetConf, AtStep
<1>2. LoopKept
  BY <1>1, LoopKeeps DEF SetInv, ServerConf, UndoConf, NetConf, RewriteConf
<1>3. confs' = [confs EXCEPT ![job.inst] = ConfOf(cfg)] /\ LastConf(job.inst) =>
          \A i \in Instances : confs'[i] = ConfOf(cfg)
  BY <1>1, LoopDone DEF SetInv
<1> USE DEF AtStep, RewriteConf, Abandoned, Finish
<1>4. CASE ServerConf
  BY <1>1, <1>2, <1>3, <1>4, LoopGoesOn, LoopEnds DEF ServerConf
<1>5. CASE UndoConf
  BY <1>1, <1>2, <1>3, <1>5, LoopGoesOn, LoopEnds, LoopGivesUp DEF UndoConf
<1>6. CASE NetConf
  BY <1>1, <1>2, <1>3, <1>6, LoopGoesOn, LoopEnds DEF NetConf
<1> QED  BY <1>4, <1>5, <1>6

(***************************************************************************)
(* The chain.                                                              *)
(***************************************************************************)
\* What a refresh of the chain leaves alone.
ChainKept ==
  /\ cfg' = cfg /\ confs' = confs /\ root' = root /\ default' = default /\ masq' = masq
  /\ profiles' = profiles /\ modeFile' = modeFile /\ editor' = editor
  /\ issuer' = issuer /\ deaths' = deaths
  /\ forward' \in Nets /\ trouble' \in 0..MaxTrouble

LEMMA ChainStep ==
  ASSUME SetInv, ChainKept, job.kind = "server", job.at \in {"fwd", "undo-fwd"},
         \/ job.at = "fwd" /\ To("sync") /\ forward' = default
              /\ drift' = drift \ {"forward"}
         \/ job.at = "fwd" /\ To("undo") /\ forward' = forward /\ drift' = drift
         \/ job.at = "undo-fwd" /\ job' = Idle /\ forward' = default
              /\ drift' = drift \ {"forward"}
         \/ job.at = "undo-fwd" /\ job' = Idle /\ forward' = forward
              /\ drift' = drift \cup {"forward"}
  PROVE  SetInv'
<1>0. job.kind # "idle"
  OBVIOUS
<1>1. \/ /\ job' \in Jobs /\ job'.at \in {"sync", "undo"} /\ job.at = "fwd"
         /\ job'.kind = job.kind /\ job'.old = job.old /\ job'.new = job.new
      \/ job' = Idle /\ job'.kind = "idle" /\ job.at = "undo-fwd"
  <2>1. CASE job.at = "fwd"
    <3>1. PICK step \in {"sync", "undo"} : To(step)
      BY <2>1
    <3>2. /\ job' \in Jobs /\ job'.at \in {"sync", "undo"}
          /\ job'.kind = job.kind /\ job'.old = job.old /\ job'.new = job.new
      <4>1. step \in {"sync", "undo"}
        OBVIOUS
      <4> QED  BY <1>0, <3>1, <4>1, ToFields DEF SetInv
    <3> QED  BY <2>1, <3>2
  <2>2. CASE job.at = "undo-fwd"
    BY <2>2, IdleFields
  <2> QED  BY <2>1, <2>2
<1>2. drift' \subseteq Resources /\ drift \ {"forward"} \subseteq drift'
      /\ drift' \subseteq drift \cup {"forward"}
  BY DEF SetInv, SetTypeOK, Resources
<1>3. SetTypeOK'
  BY <1>1, <1>2 DEF SetInv, SetTypeOK, ChainKept
<1>4. JobKnown'
  BY <1>1 DEF SetInv, JobKnown, ChainKept, ConfOf
<1>5. ConfsKnown'
  BY <1>1, <1>2 DEF SetInv, ConfsKnown, ChainKept, ConfOf
<1>6. ForwardKnown'
  BY <1>1 DEF SetInv, ForwardKnown, ChainKept
<1>7. DefaultKnown' /\ MasqKnown'
  BY <1>1, <1>2 DEF SetInv, DefaultKnown, MasqKnown, ChainKept
<1>8. ProfilesKnown'
  BY <1>1, <1>2 DEF SetInv, ProfilesKnown, ChainKept, JobKnown
<1>9. ModeKnown'
  BY <1>1, <1>2 DEF SetInv, ModeKnown, ChainKept
<1> QED  BY <1>3, <1>4, <1>5, <1>6, <1>7, <1>8, <1>9 DEF SetInv

LEMMA FwdStepsKeep ==
  ASSUME SetInv, ServerFwd \/ UndoFwd
  PROVE  SetInv'
<1>1. job.kind = "server" /\ job.at \in {"fwd", "undo-fwd"}
  BY DEF ServerFwd, UndoFwd, AtStep
<1>2. ChainKept
  <2>1. trouble' \in 0..MaxTrouble
    BY SettingsAssumption DEF ServerFwd, UndoFwd, Refresh, Trouble, SetInv, SetTypeOK
  <2>2. forward' \in Nets
    BY DEF ServerFwd, UndoFwd, Refresh, SetInv, SetTypeOK
  <2> QED  BY <2>1, <2>2 DEF ServerFwd, UndoFwd, Refresh, ChainKept
<1> QED
  BY <1>1, <1>2, ChainStep DEF ServerFwd, UndoFwd, AtStep, Refresh, Abandoned, Finish

(***************************************************************************)
(* The other steps of the saves.                                           *)
(***************************************************************************)
LEMMA SyncKeeps ==
  ASSUME SetInv, ServerSync
  PROVE  SetInv'
<1>0. /\ job.kind = "server" /\ job.at = "sync" /\ job.kind # "idle"
      /\ job.old \in Settings /\ job.new \in Settings /\ cfg = job.new
      /\ UNCHANGED <<cfg, confs, firewall, modeFile, editor, issuer, deaths>>
  BY DEF ServerSync, AtStep, SetInv, JobKnown
<1>1. \/ job' = Idle /\ job'.kind = "idle" /\ job'.at = ""
      \/ /\ job' \in Jobs /\ job'.at = "undo" /\ drift' = drift /\ profiles' = profiles
         /\ job'.kind = job.kind /\ job'.old = job.old /\ job'.new = job.new
  <2>1. CASE Finish
    BY <2>1, IdleFields DEF Finish
  <2>2. CASE To("undo") /\ UNCHANGED <<profiles, drift>>
    BY <1>0, <2>2, ToFields DEF SetInv
  <2> QED  BY <2>1, <2>2 DEF ServerSync
<1>2. drift' \subseteq Resources /\ drift \ {"profiles"} \subseteq drift'
      /\ drift' \subseteq drift
  BY DEF ServerSync, SetInv, SetTypeOK
<1>3. SetTypeOK'
  <2>1. profiles' \in [Profiles -> Conns \cup {Torn}]
    BY <1>0 DEF ServerSync, SetInv, SetTypeOK, Settings
  <2>2. trouble' \in 0..MaxTrouble
    BY SettingsAssumption DEF ServerSync, Trouble, SetInv, SetTypeOK
  <2> QED  BY <1>0, <1>1, <1>2, <2>1, <2>2 DEF SetInv, SetTypeOK, firewall
<1>4. JobKnown'
  BY <1>0, <1>1 DEF SetInv, JobKnown, ConfOf
<1>5. ConfsKnown'
  BY <1>0, <1>1, <1>2 DEF SetInv, ConfsKnown, ConfOf
<1>6. ForwardKnown' /\ DefaultKnown' /\ MasqKnown'
  BY <1>0, <1>1, <1>2 DEF SetInv, ForwardKnown, DefaultKnown, MasqKnown, firewall
<1>7. ProfilesKnown'
  <2>1. "profiles" \in drift \/ \A f \in Profiles : profiles[f] = job.old.conn
    BY <1>0 DEF SetInv, ProfilesKnown
  <2>2. CASE Finish /\ job.old.conn = job.new.conn /\ UNCHANGED <<profiles, drift>>
    BY <1>0, <2>1, <2>2, IdleFields DEF Finish, ProfilesKnown
  <2>3. CASE Finish /\ profiles' = [f \in Profiles |-> job.new.conn]
    BY <1>0, <2>3, IdleFields DEF Finish, ProfilesKnown
  <2>4. CASE To("undo") /\ UNCHANGED <<profiles, drift>>
    <3>1. job'.kind = "server" /\ job'.old = job.old
      BY <1>0, <2>4, ToFields DEF SetInv
    <3> QED  BY <2>1, <2>4, <3>1 DEF ProfilesKnown
  <2> QED  BY <2>2, <2>3, <2>4 DEF ServerSync
<1>8. ModeKnown'
  BY <1>0, <1>1, <1>2 DEF SetInv, ModeKnown
<1> QED  BY <1>3, <1>4, <1>5, <1>6, <1>7, <1>8 DEF SetInv

LEMMA UndoKeeps ==
  ASSUME SetInv, UndoSave
  PROVE  SetInv'
<1>0. /\ job.kind = "server" /\ job.at = "undo" /\ job.kind # "idle"
      /\ job.old \in Settings /\ job.new \in Settings /\ cfg = job.new
      /\ job.new.net = job.old.net /\ job.new.mode = job.old.mode
      /\ UNCHANGED <<confs, firewall, profiles, modeFile, editor, issuer, deaths>>
  BY DEF UndoSave, AtStep, SetInv, JobKnown
<1>1. CASE cfg' = job.old /\ To("undo-conf") /\ UNCHANGED <<drift, trouble>>
  <2>1. /\ job' \in Jobs /\ job'.at = "undo-conf" /\ job'.inst = 1
        /\ job'.kind = job.kind /\ job'.old = job.old /\ job'.new = job.new
    BY <1>0, <1>1, ToFields DEF SetInv
  <2>2. SetTypeOK'
    BY <1>0, <1>1, <2>1 DEF SetInv, SetTypeOK, firewall
  <2>3. JobKnown'
    BY <1>0, <1>1, <2>1, SettingsAssumption DEF SetInv, JobKnown
  <2>4. ConfsKnown'
    BY <1>0, <2>1, Counted DEF ConfsKnown
  <2>5. ForwardKnown' /\ DefaultKnown' /\ MasqKnown'
    BY <1>0, <1>1, <2>1 DEF SetInv, ForwardKnown, DefaultKnown, MasqKnown, firewall
  <2>6. ProfilesKnown'
    BY <1>0, <1>1, <2>1 DEF SetInv, ProfilesKnown
  <2>7. ModeKnown'
    BY <1>0, <1>1, <2>1 DEF SetInv, ModeKnown
  <2> QED  BY <2>2, <2>3, <2>4, <2>5, <2>6, <2>7 DEF SetInv
<1>2. CASE Trouble /\ Abandoned({"conf", "forward", "profiles"}) /\ UNCHANGED cfg
  <2>1. job' = Idle /\ job'.kind = "idle" /\ job'.at = ""
        /\ drift' = drift \cup {"conf", "forward", "profiles"} /\ cfg' = cfg
    BY <1>2 DEF Abandoned, Finish, Idle
  <2>2. SetTypeOK'
    <3>1. trouble' \in 0..MaxTrouble
      BY <1>2, SettingsAssumption DEF Trouble, SetInv, SetTypeOK
    <3>2. drift' \subseteq Resources
      BY <2>1 DEF SetInv, SetTypeOK, Resources
    <3> QED  BY <1>0, <2>1, <3>1, <3>2 DEF SetInv, SetTypeOK, firewall
  <2>3. JobKnown' /\ ConfsKnown' /\ ForwardKnown' /\ ProfilesKnown'
    BY <2>1 DEF JobKnown, ConfsKnown, ForwardKnown, ProfilesKnown
  <2>4. DefaultKnown' /\ MasqKnown'
    BY <1>0, <2>1 DEF SetInv, DefaultKnown, MasqKnown, firewall
  <2>5. ModeKnown'
    BY <1>0, <2>1 DEF SetInv, ModeKnown
  <2> QED  BY <2>2, <2>3, <2>4, <2>5 DEF SetInv
<1> QED  BY <1>1, <1>2 DEF UndoSave

LEMMA WriteModeKeeps ==
  ASSUME SetInv, WriteMode
  PROVE  SetInv'
<1>0. /\ job.kind = "mode" /\ job.at = "file" /\ job.old \in Settings /\ cfg = job.new
      /\ ConfOf(job.old) = ConfOf(cfg)
      /\ job.old.conn = cfg.conn /\ job.old.net = cfg.net
      /\ UNCHANGED <<confs, firewall, profiles, editor, issuer, deaths>>
  BY DEF WriteMode, AtStep, SetInv, JobKnown
<1>1. job' = Idle /\ job'.kind = "idle" /\ job'.at = ""
  BY IdleFields DEF WriteMode, Finish
<1>2. cfg' = cfg \/ cfg' = job.old
  BY DEF WriteMode
<1>3. cfg' \in Settings /\ ConfOf(cfg)' = ConfOf(cfg)
      /\ cfg'.conn = cfg.conn /\ cfg'.net = cfg.net
  BY <1>0, <1>2 DEF SetInv, SetTypeOK, ConfOf
<1>4. drift' \subseteq Resources /\ drift \ {"mode"} \subseteq drift'
      /\ drift' \subseteq drift \cup {"mode"}
  BY DEF WriteMode, SetInv, SetTypeOK, Resources
<1>5. SetTypeOK'
  <2>1. modeFile' \in Modes \cup {Torn}
    BY <1>0 DEF WriteMode, SetInv, SetTypeOK, Settings
  <2>2. trouble' \in 0..MaxTrouble
    BY SettingsAssumption DEF WriteMode, Trouble, SetInv, SetTypeOK
  <2> QED  BY <1>0, <1>1, <1>3, <1>4, <2>1, <2>2 DEF SetInv, SetTypeOK, firewall
<1>6. JobKnown'
  BY <1>1 DEF JobKnown
<1>7. ConfsKnown'
  BY <1>0, <1>1, <1>3, <1>4 DEF SetInv, ConfsKnown
<1>8. ForwardKnown' /\ DefaultKnown' /\ MasqKnown'
  BY <1>0, <1>1, <1>3, <1>4 DEF SetInv, ForwardKnown, DefaultKnown, MasqKnown, firewall
<1>9. ProfilesKnown'
  BY <1>0, <1>1, <1>3, <1>4 DEF SetInv, ProfilesKnown
<1>10. ModeKnown'
  BY <1>0, <1>1 DEF SetInv, ModeKnown, WriteMode
<1> QED  BY <1>5, <1>6, <1>7, <1>8, <1>9, <1>10 DEF SetInv

LEMMA NetSaveKeeps ==
  ASSUME SetInv, NetSave
  PROVE  SetInv'
<1>0. /\ job.kind = "net" /\ job.at = "save" /\ job.kind # "idle"
      /\ job.old \in Nets /\ job.new \in Nets /\ root = job.new /\ cfg \in Settings
      /\ UNCHANGED <<confs, firewall, profiles, modeFile, editor, issuer, deaths>>
  BY DEF NetSave, AtStep, SetInv, SetTypeOK, JobKnown
<1>1. CASE /\ cfg' = [cfg EXCEPT !.net = job.new] /\ To("conf")
           /\ drift' = drift \cup {"masq"} /\ UNCHANGED trouble
  <2>1. /\ job' \in Jobs /\ job'.at = "conf" /\ job'.inst = 1
        /\ job'.kind = "net" /\ job'.old = job.old /\ job'.new = job.new
    BY <1>0, <1>1, ToFields DEF SetInv
  <2>2. cfg' \in Settings /\ cfg'.net = job.new /\ cfg'.conn = cfg.conn
        /\ cfg'.mode = cfg.mode
    BY <1>0, <1>1 DEF Settings
  <2>3. SetTypeOK'
    <3>1. drift' \subseteq Resources
      BY <1>1 DEF SetInv, SetTypeOK, Resources
    <3> QED  BY <1>0, <1>1, <2>1, <2>2, <3>1 DEF SetInv, SetTypeOK, firewall
  <2>4. JobKnown'
    BY <1>0, <2>1, <2>2, SettingsAssumption DEF JobKnown, firewall
  <2>5. ConfsKnown'
    BY <2>1, Counted DEF ConfsKnown
  <2>6. ForwardKnown' /\ DefaultKnown' /\ MasqKnown'
    BY <1>0, <1>1, <2>1, <2>2 DEF SetInv, ForwardKnown, DefaultKnown, MasqKnown, firewall
  <2>7. ProfilesKnown' /\ ModeKnown'
    BY <1>0, <1>1, <2>1, <2>2 DEF SetInv, ProfilesKnown, ModeKnown
  <2> QED  BY <2>3, <2>4, <2>5, <2>6, <2>7 DEF SetInv
<1>2. CASE Trouble /\ Abandoned({"default"}) /\ UNCHANGED cfg
  <2>1. job' = Idle /\ job'.kind = "idle" /\ job'.at = ""
        /\ drift' = drift \cup {"default"} /\ cfg' = cfg
    BY <1>2, IdleFields DEF Abandoned, Finish
  <2>2. SetTypeOK'
    <3>1. trouble' \in 0..MaxTrouble
      BY <1>2, SettingsAssumption DEF Trouble, SetInv, SetTypeOK
    <3>2. drift' \subseteq Resources
      BY <2>1 DEF SetInv, SetTypeOK, Resources
    <3> QED  BY <1>0, <2>1, <3>1, <3>2 DEF SetInv, SetTypeOK, firewall
  <2>3. JobKnown' /\ DefaultKnown'
    BY <2>1 DEF JobKnown, DefaultKnown
  <2>4. ConfsKnown'
    BY <1>0, <2>1 DEF SetInv, ConfsKnown, ConfOf
  <2>5. ForwardKnown' /\ MasqKnown'
    BY <1>0, <2>1 DEF SetInv, ForwardKnown, MasqKnown, firewall
  <2>6. ProfilesKnown' /\ ModeKnown'
    BY <1>0, <2>1 DEF SetInv, ProfilesKnown, ModeKnown
  <2> QED  BY <2>2, <2>3, <2>4, <2>5, <2>6 DEF SetInv
<1> QED  BY <1>1, <1>2 DEF NetSave

LEMMA NetRuleKeeps ==
  ASSUME SetInv, NetRule
  PROVE  SetInv'
<1>0. /\ job.kind = "net" /\ job.at = "rule" /\ job.kind # "idle"
      /\ job.old \in Nets /\ job.new \in Nets /\ root = job.new /\ cfg.net = job.new
      /\ UNCHANGED <<cfg, confs, root, forward, masq, profiles, modeFile, editor, issuer,
                     deaths>>
  BY DEF NetRule, AtStep, SetInv, SetTypeOK, JobKnown
<1>1. CASE default = job.old /\ default' = job.new /\ To("fwd")
           /\ drift' = drift \ {"default"} /\ UNCHANGED trouble
  <2>1. /\ job' \in Jobs /\ job'.at = "fwd"
        /\ job'.kind = "net" /\ job'.old = job.old /\ job'.new = job.new
    BY <1>0, <1>1, ToFields DEF SetInv
  <2>2. SetTypeOK'
    BY <1>0, <1>1, <2>1 DEF SetInv, SetTypeOK
  <2>3. JobKnown'
    BY <1>0, <2>1 DEF JobKnown
  <2>4. ConfsKnown'
    BY <1>0, <1>1, <2>1 DEF SetInv, ConfsKnown, ConfOf
  <2>5. ForwardKnown' /\ DefaultKnown' /\ MasqKnown'
    BY <1>0, <1>1, <2>1 DEF SetInv, ForwardKnown, DefaultKnown, MasqKnown
  <2>6. ProfilesKnown' /\ ModeKnown'
    BY <1>0, <1>1, <2>1 DEF SetInv, ProfilesKnown, ModeKnown
  <2> QED  BY <2>2, <2>3, <2>4, <2>5, <2>6 DEF SetInv
<1>2. CASE job' = Idle /\ default' = default
  <2>1. job'.kind = "idle" /\ job'.at = ""
    BY <1>2, IdleFields
  <2>2. drift' \subseteq Resources /\ drift \ {"default"} \subseteq drift'
    BY <1>1, <1>2 DEF NetRule, Abandoned, SetInv, SetTypeOK, Resources
  <2>3. SetTypeOK'
    <3>1. trouble' \in 0..MaxTrouble
      BY SettingsAssumption DEF NetRule, Trouble, SetInv, SetTypeOK
    <3> QED  BY <1>0, <1>2, <2>2, <3>1 DEF SetInv, SetTypeOK
  <2>4. JobKnown'
    BY <2>1 DEF JobKnown
  <2>5. ConfsKnown'
    BY <1>0, <2>1, <2>2 DEF SetInv, ConfsKnown, ConfOf
  <2>6. ForwardKnown' /\ MasqKnown'
    BY <1>0, <1>2, <2>1, <2>2 DEF SetInv, ForwardKnown, MasqKnown
  <2>7. DefaultKnown'
    <3>1. \/ default # job.old /\ drift' = drift
          \/ "default" \in drift'
      <4>1. To("fwd") => job' # Idle
        BY <1>0, <2>1, ToFields DEF SetInv
      <4> QED  BY <1>2, <4>1 DEF NetRule, Abandoned
    <3>2. "default" \in drift'
      BY <1>0, <3>1 DEF SetInv, DefaultKnown
    <3> QED  BY <2>1, <3>2 DEF DefaultKnown
  <2>8. ProfilesKnown' /\ ModeKnown'
    BY <1>0, <2>1, <2>2 DEF SetInv, ProfilesKnown, ModeKnown
  <2> QED  BY <2>3, <2>4, <2>5, <2>6, <2>7, <2>8 DEF SetInv
<1> QED  BY <1>1, <1>2 DEF NetRule, Finish, Abandoned

LEMMA NetFwdKeeps ==
  ASSUME SetInv, NetFwd
  PROVE  SetInv'
<1>0. /\ job.kind = "net" /\ job.at = "fwd" /\ root = job.new /\ cfg.net = job.new
      /\ default = job.new
      /\ UNCHANGED <<cfg, confs, root, default, masq, profiles, modeFile, editor, issuer,
                     deaths>>
  BY DEF NetFwd, AtStep, SetInv, JobKnown, DefaultKnown, MasqKnown
<1>1. job' = Idle /\ job'.kind = "idle" /\ job'.at = ""
  BY IdleFields DEF NetFwd, Finish, Abandoned
<1>2. drift' \subseteq Resources /\ drift \ {"forward"} \subseteq drift'
      /\ (forward' = default \/ "forward" \in drift')
  BY DEF NetFwd, Abandoned, SetInv, SetTypeOK, Resources
<1>3. SetTypeOK'
  <2>1. trouble' \in 0..MaxTrouble
    BY SettingsAssumption DEF NetFwd, Trouble, SetInv, SetTypeOK
  <2>2. forward' \in Nets
    BY DEF NetFwd, SetInv, SetTypeOK
  <2> QED  BY <1>0, <1>1, <1>2, <2>1, <2>2 DEF SetInv, SetTypeOK
<1>4. JobKnown'
  BY <1>1 DEF JobKnown
<1>5. ConfsKnown'
  BY <1>0, <1>1, <1>2 DEF SetInv, ConfsKnown, ConfOf
<1>6. ForwardKnown' /\ DefaultKnown' /\ MasqKnown'
  BY <1>0, <1>1, <1>2 DEF SetInv, ForwardKnown, DefaultKnown, MasqKnown
<1>7. ProfilesKnown' /\ ModeKnown'
  BY <1>0, <1>1, <1>2 DEF SetInv, ProfilesKnown, ModeKnown
<1> QED  BY <1>3, <1>4, <1>5, <1>6, <1>7 DEF SetInv

(***************************************************************************)
(* The editor, the API thread, and the death of the program.               *)
(***************************************************************************)
LEMMA OthersKeep ==
  ASSUME SetInv,
         \/ \E i \in Instances : OpenEditor(i)
         \/ SaveEditor \/ ReadConn
         \/ \E f \in Profiles : WriteProfile(f)
  PROVE  SetInv'
<1>0. /\ UNCHANGED <<cfg, firewall, modeFile, job, trouble, deaths>>
      /\ drift' \subseteq Resources /\ drift \subseteq drift'
      /\ drift' \subseteq drift \cup {"conf", "profiles"}
  BY DEF OpenEditor, SaveEditor, ReadConn, WriteProfile, SetInv, SetTypeOK, Resources
<1>1. SetTypeOK'
  <2>1. confs' \in [Instances -> ConfText \cup {Torn}]
    <3>1. editor # Closed => [editor.text EXCEPT !.own = TRUE] \in ConfText
      BY DEF SetInv, SetTypeOK, ConfText
    <3> QED
      BY <3>1 DEF OpenEditor, SaveEditor, ReadConn, WriteProfile, SetInv, SetTypeOK
  <2>2. editor' = Closed \/ editor' \in [inst : Instances, text : ConfText]
    BY DEF OpenEditor, SaveEditor, ReadConn, WriteProfile, SetInv, SetTypeOK
  <2>3. issuer' \in Conns \cup {Torn}
    BY DEF OpenEditor, SaveEditor, ReadConn, WriteProfile, SetInv, SetTypeOK, Settings
  <2>4. profiles' \in [Profiles -> Conns \cup {Torn}]
    BY DEF OpenEditor, SaveEditor, ReadConn, WriteProfile, SetInv, SetTypeOK
  <2> QED  BY <1>0, <2>1, <2>2, <2>3, <2>4 DEF SetInv, SetTypeOK, firewall
<1>2. JobKnown'
  BY <1>0 DEF SetInv, JobKnown, ConfOf, firewall
<1>3. ConfsKnown'
  <2>1. confs' = confs \/ (job = Idle /\ "conf" \in drift')
    BY DEF OpenEditor, SaveEditor, ReadConn, WriteProfile
  <2>2. CASE confs' = confs
    BY <1>0, <2>2 DEF SetInv, ConfsKnown, ConfOf
  <2>3. CASE job = Idle /\ "conf" \in drift'
    BY <1>0, <2>3, IdleFields DEF ConfsKnown
  <2> QED  BY <2>1, <2>2, <2>3
<1>4. ForwardKnown'
  BY <1>0 DEF SetInv, ForwardKnown, firewall
<1>5. DefaultKnown' /\ MasqKnown'
  BY <1>0 DEF SetInv, DefaultKnown, MasqKnown, firewall
<1>6. ProfilesKnown'
  <2>1. \/ profiles' = profiles \/ "profiles" \in drift'
        \/ /\ job = Idle
           /\ \E f \in Profiles : profiles' = [profiles EXCEPT ![f] = cfg.conn]
    BY DEF OpenEditor, SaveEditor, ReadConn, WriteProfile
  <2> QED  BY <1>0, <2>1, IdleFields DEF SetInv, SetTypeOK, ProfilesKnown
<1>7. ModeKnown'
  BY <1>0 DEF SetInv, ModeKnown
<1> QED  BY <1>1, <1>2, <1>3, <1>4, <1>5, <1>6, <1>7 DEF SetInv

LEMMA DieKeeps ==
  ASSUME SetInv, Die
  PROVE  SetInv'
<1>0. /\ job' = Idle /\ job'.kind = "idle" /\ job'.at = ""
      /\ editor' = Closed /\ issuer' = Torn /\ UNCHANGED <<cfg, root, default>>
  BY IdleFields DEF Die
<1>1. drift' \subseteq Resources
  BY DEF Die, SetInv, SetTypeOK, Resources
<1>2. SetTypeOK'
  <2>1. profiles' \in [Profiles -> Conns \cup {Torn}]
    <3>1. AtStep("server", "sync") => job.new.conn \in Conns
      BY DEF AtStep, SetInv, JobKnown, Settings
    <3> QED  BY <3>1 DEF Die, SetInv, SetTypeOK
  <2>2. confs' \in [Instances -> ConfText \cup {Torn}]
    BY ConfOfType DEF Die, SetInv, SetTypeOK
  <2>3. trouble' \in 0..MaxTrouble /\ deaths' \in 0..MaxCrashes2
    BY SettingsAssumption DEF Die, Trouble, SetInv, SetTypeOK
  <2>4. forward' \in Nets /\ masq' \in Nets /\ modeFile' \in Modes \cup {Torn}
    BY DEF Die, SetInv, SetTypeOK, Settings
  <2> QED  BY <1>0, <1>1, <2>1, <2>2, <2>3, <2>4 DEF SetInv, SetTypeOK
<1>3. JobKnown'
  BY <1>0 DEF JobKnown
<1>4. CASE drift' = Resources
  BY <1>0, <1>2, <1>3, <1>4 DEF ConfsKnown, ForwardKnown, DefaultKnown, MasqKnown, ProfilesKnown, ModeKnown,
     Resources, SetInv
<1>5. CASE /\ confs' = [i \in Instances |-> ConfOf(cfg)]
           /\ forward' = default /\ masq' = cfg.net /\ modeFile' = cfg.mode
           /\ drift' = (drift \cap {"profiles", "default"})
                    \cup (IF job.kind = "server" THEN {"profiles"} ELSE {})
                    \cup (IF job.kind = "net" THEN {"default"} ELSE {})
  <2>1. ConfsKnown'
    BY <1>0, <1>5 DEF ConfsKnown, ConfOf
  <2>2. ForwardKnown' /\ ModeKnown'
    BY <1>0, <1>5 DEF ForwardKnown, ModeKnown
  <2>3. DefaultKnown' /\ MasqKnown'
    BY <1>0, <1>5 DEF SetInv, DefaultKnown, MasqKnown
  <2>4. ProfilesKnown'
    <3>1. job.kind # "server" => profiles' = profiles
      BY DEF Die, AtStep
    <3> QED  BY <1>0, <1>5, <3>1 DEF SetInv, ProfilesKnown
  <2> QED  BY <1>2, <1>3, <2>1, <2>2, <2>3, <2>4 DEF SetInv
<1> QED  BY <1>4, <1>5 DEF Die

(***************************************************************************)
(* The invariant and the theorem.                                          *)
(***************************************************************************)
LEMMA InitSetInv == SetInit => SetInv
<1> SUFFICES ASSUME SetInit PROVE SetInv
  OBVIOUS
<1>1. job.kind = "idle" /\ job.at = ""
  BY IdleFields DEF SetInit
<1>2. SetTypeOK
  BY ConfOfType, SettingsAssumption DEF SetInit, SetTypeOK, Settings
<1> QED  BY <1>1, <1>2 DEF SetInit, SetInv, JobKnown, ConfsKnown, ForwardKnown,
            DefaultKnown, MasqKnown, ProfilesKnown, ModeKnown

LEMMA NextSetInv == SetInv /\ [SetNext]_setVars => SetInv'
<1> SUFFICES ASSUME SetInv, [SetNext]_setVars PROVE SetInv'
  OBVIOUS
<1>1. CASE UNCHANGED setVars
  <2> USE <1>1 DEF setVars, firewall
  <2>1. SetTypeOK'  BY DEF SetInv, SetTypeOK
  <2>2. JobKnown'  BY DEF SetInv, JobKnown, ConfOf
  <2>3. ConfsKnown'  BY DEF SetInv, ConfsKnown, ConfOf
  <2>4. ForwardKnown' /\ DefaultKnown' /\ MasqKnown'  BY DEF SetInv, ForwardKnown, DefaultKnown, MasqKnown
  <2>5. ProfilesKnown' /\ ModeKnown'  BY DEF SetInv, ProfilesKnown, ModeKnown
  <2> QED  BY <2>1, <2>2, <2>3, <2>4, <2>5 DEF SetInv
<1>2. CASE SetNext
  BY <1>2, SaveServerKeeps, SaveModeKeeps, SaveNetKeeps, ConfStepsKeep, FwdStepsKeep,
     SyncKeeps, UndoKeeps, WriteModeKeeps, NetSaveKeeps, NetRuleKeeps, NetFwdKeeps,
     OthersKeep, DieKeeps DEF SetNext
<1> QED  BY <1>1, <1>2

\* Between two saves everything derived from config.json follows it, for any instances,
\* profiles, values and failures (settings.py, group/crud.py), except what a failed
\* rollback, an edit by hand, a stale profile or a crash is known to have broken.
THEOREM SettingsFollow == SetSpec => []FollowsConfig
<1>1. SetInv => FollowsConfig
  BY IdleFields DEF SetInv, ConfsKnown, ForwardKnown, DefaultKnown, MasqKnown, ProfilesKnown,
     ModeKnown, FollowsConfig
<1> QED  BY <1>1, InitSetInv, NextSetInv, PTL DEF SetSpec

(***************************************************************************)
(* Upgrade: all or nothing                                                 *)
(***************************************************************************)

Early == {"staging", "checking", "preflight", "record", "copy", "moveold"}

Replaced == {"link", "units", "restart", "postflight", "alive", "discard"}

Undoing == {"undotree", "undounits", "undorestart"}

Safe == "recovery" \in broken \/ aside \in Versions \/ orphan \in Versions

\* Where the trees are at each step, whatever has gone wrong before.
TreesKnown ==
  /\ aside # "new"
  /\ aside # "none" => at \in Replaced \cup {"movenew", "undo", "undotree"}
  /\ at = "moveold" => beside = "new"
  /\ at = "movenew" => beside = "new" /\ tree = "none"
  /\ at \in Replaced => tree = "new"
  /\ at \in Early \cup Undoing => tree # "new"
  /\ at = "rest" /\ tree = "new" => stage = "none"
  /\ at \in Replaced \cup {"undo"} /\ tree = "new" => Safe
  /\ Safe \/ tree \in Versions

RunAll(S, v) == \A d \in S : runs[d] = v

Before == {d \in active \ excused : d < turn}

AllOld == tree = "old" /\ unit = "old" /\ link = "old"

\* Where everything else is, as long as no recovery failed and no upgrade died.
AllKnown ==
  /\ at \notin {"moveold", "movenew", "undo"} => beside = "none"
  /\ at \in Early => AllOld
  /\ at = "rest" /\ tree # "new" => AllOld
  /\ at = "movenew" => aside = "old" /\ unit = "old" /\ link = "old"
  /\ at \in Replaced => aside = "old"
  /\ at \in Replaced \ {"link"} => link = "new"
  /\ at \in Replaced \ {"link", "units"} => unit = "new"
  /\ at = "undo" => \/ tree = "old" /\ aside = "none"
                    \/ tree \in {"none", "new"} /\ aside = "old"
  /\ at = "undotree" => \/ tree = "old" /\ aside = "none"
                        \/ tree \in {"none", "partial"} /\ aside = "old"
  /\ at \in {"undounits", "undorestart"} => tree = "old"
  /\ at = "undorestart" => unit = "old" /\ link = "old"
  /\ at \in Replaced \cup {"copy", "moveold", "movenew", "undo", "undotree", "undounits"}
       => snap.unit = "old" /\ snap.link = "old"

\* Which instances run what.
RunsKnown ==
  /\ at \in {"preflight", "record"} => active = {}
  /\ at \in {"copy", "moveold", "movenew", "link", "units"} => turn = 1
  /\ at = "restart" => RunAll(Before, "new")
  /\ at \in {"postflight", "alive", "discard"} => RunAll(active \ excused, "new")
  /\ at = "undorestart" => RunAll(Before, "old")
  /\ at \in {"rest", "staging", "checking"} /\ outcome = "failed"
       => tree = "old" /\ RunAll(active \ excused, "old")
  /\ at = "rest" /\ outcome = "ok" =>
       tree = "new" /\ unit = "new" /\ link = "new" /\ RunAll(active \ excused, "new")
  /\ at \in {"staging", "checking"} => outcome # "ok"

UpInv == UpTypeOK /\ TreesKnown /\ (broken = {} => AllKnown /\ RunsKnown)

LEMMA CountType == Cardinality(Daemons) \in Nat
  BY UpgradeAssumption, FS_CardinalityType

LEMMA InitUpInv == UpInit => UpInv
<1> SUFFICES ASSUME UpInit PROVE UpInv
  OBVIOUS
<1>1. UpTypeOK
  <2>1. runs \in [Daemons -> Versions \cup {"off"}]
    BY DEF UpInit, Versions
  <2>2. turn \in 1..(Cardinality(Daemons) + 1)
    BY CountType DEF UpInit
  <2>3. left \in BOOLEAN /\ ready \in BOOLEAN
    BY DEF UpInit
  <2> QED  BY <2>1, <2>2, <2>3, UpgradeAssumption
           DEF UpInit, UpTypeOK, Versions, Trees, UpSteps
<1>2. TreesKnown
  BY DEF UpInit, TreesKnown, Safe, Versions, Early, Replaced, Undoing
<1>3. AllKnown
  BY DEF UpInit, AllKnown, AllOld, Early, Replaced
<1>4. RunsKnown
  BY DEF UpInit, RunsKnown
<1> QED  BY <1>1, <1>2, <1>3, <1>4 DEF UpInv

LEMMA InvAllOrNothing == UpInv => AllOrNothing
  BY DEF UpInv, UpTypeOK, TreesKnown, AllKnown, RunsKnown, AllOrNothing, Everywhere,
         Safe, AllOld, RunAll, Replaced, Versions

(***************************************************************************)
(* Types, action by action.                                                *)
(***************************************************************************)
LEMMA NextType == UpTypeOK /\ [UpNext]_upVars => UpTypeOK'
<1> SUFFICES ASSUME UpTypeOK, [UpNext]_upVars PROVE UpTypeOK'
  OBVIOUS
<1> USE UpgradeAssumption, CountType
    DEF UpTypeOK, Trees, Versions, UpSteps, Failure, host, dialog, plan, record
<1>1. CASE UNCHANGED upVars  BY <1>1 DEF upVars
<1>2. CASE RunCheck
  <2>1. left' \in BOOLEAN  BY <1>2 DEF RunCheck
  <2>2. ready' \in BOOLEAN  BY <1>2 DEF RunCheck
  <2> QED  BY <1>2, <2>1, <2>2 DEF RunCheck
<1>3. CASE StageCandidate    BY <1>3 DEF StageCandidate
<1>4. CASE CheckCandidate
  <2>1. left' \in BOOLEAN  BY <1>4 DEF CheckCandidate
  <2>2. ready' \in BOOLEAN  BY <1>4 DEF CheckCandidate
  <2> QED  BY <1>4, <2>1, <2>2 DEF CheckCandidate
<1>5. CASE CloseDialog
  <2>1. left' \in BOOLEAN  BY <1>5 DEF CloseDialog
  <2>2. ready' \in BOOLEAN  BY <1>5 DEF CloseDialog
  <2> QED  BY <1>5, <2>1, <2>2 DEF CloseDialog
<1>6. CASE RunUpgrade        BY <1>6 DEF RunUpgrade
<1>7. CASE Preflight         BY <1>7 DEF Preflight
<1>8. CASE Record            BY <1>8 DEF Record
<1>9. CASE CopyTree          BY <1>9 DEF CopyTree, Replace
<1>10. CASE MoveOld          BY <1>10 DEF MoveOld, Replace
<1>11. CASE MoveNew          BY <1>11 DEF MoveNew, Replace
<1>12. CASE ReplaceLink      BY <1>12 DEF ReplaceLink, Replace
<1>13. CASE InstallUnits     BY <1>13 DEF InstallUnits, Replace
<1>14. CASE RestartActive    BY <1>14 DEF RestartActive, Started, NextTurn
<1>15. CASE Postflight       BY <1>15 DEF Postflight, Replace
<1>16. CASE CheckAlive       BY <1>16 DEF CheckAlive
<1>17. CASE DiscardOld
  <2>1. ready' \in BOOLEAN /\ left' \in BOOLEAN
    BY <1>17 DEF DiscardOld
  <2>2. outcome' \in {"none", "ok", "failed"} /\ stage' \in {"none", "built", "passed"}
    BY <1>17 DEF DiscardOld
  <2> QED  BY <1>17, <2>1, <2>2 DEF DiscardOld
<1>18. CASE RemoveNew        BY <1>18 DEF RemoveNew
<1>19. CASE MoveBack
  <2>1. broken' \subseteq {"recovery", "death"}  BY <1>19 DEF MoveBack
  <2> QED  BY <1>19, <2>1 DEF MoveBack
<1>20. CASE RestoreUnits
  <2>1. broken' \subseteq {"recovery", "death"}  BY <1>20 DEF RestoreUnits
  <2> QED  BY <1>20, <2>1 DEF RestoreUnits
<1>21. CASE UndoRestart      BY <1>21 DEF UndoRestart, Started, NextTurn
<1>22. CASE \E d \in Daemons : LocalAction(d)  BY <1>22 DEF LocalAction, Started
<1>23. CASE Lose
  <2>1. left' \in BOOLEAN  BY <1>23 DEF Lose
  <2>2. ready' \in BOOLEAN  BY <1>23 DEF Lose
  <2>3. broken' \subseteq {"recovery", "death"}  BY <1>23 DEF Lose
  <2> QED  BY <1>23, <2>1, <2>2, <2>3 DEF Lose
<1> QED  BY <1>1, <1>2, <1>3, <1>4, <1>5, <1>6, <1>7, <1>8, <1>9, <1>10, <1>11, <1>12,
            <1>13, <1>14, <1>15, <1>16, <1>17, <1>18, <1>19, <1>20, <1>21, <1>22, <1>23
         DEF UpNext

(***************************************************************************)
(* The trees, action by action.                                            *)
(***************************************************************************)
LEMMA NextTrees == UpInv /\ [UpNext]_upVars => TreesKnown'
<1> SUFFICES ASSUME UpInv, [UpNext]_upVars
    PROVE  TreesKnown'
  OBVIOUS
<1> USE DEF UpInv, UpTypeOK, TreesKnown, Safe, Early, Replaced, Undoing, Versions,
            Trees, UpSteps, host, dialog, plan, record
<1>1. CASE UNCHANGED upVars     BY <1>1 DEF upVars
<1>2. CASE RunCheck             BY <1>2 DEF RunCheck
<1>3. CASE StageCandidate       BY <1>3 DEF StageCandidate
<1>4. CASE CheckCandidate       BY <1>4 DEF CheckCandidate
<1>5. CASE CloseDialog          BY <1>5 DEF CloseDialog
<1>6. CASE RunUpgrade           BY <1>6 DEF RunUpgrade
<1>7. CASE Preflight            BY <1>7 DEF Preflight
<1>8. CASE Record               BY <1>8 DEF Record
<1>9. CASE CopyTree             BY <1>9 DEF CopyTree, Replace
<1>10. CASE MoveOld             BY <1>10 DEF MoveOld, Replace
<1>11. CASE MoveNew             BY <1>11 DEF MoveNew, Replace
<1>12. CASE ReplaceLink         BY <1>12 DEF ReplaceLink, Replace
<1>13. CASE InstallUnits        BY <1>13 DEF InstallUnits, Replace
<1>14. CASE RestartActive       BY <1>14 DEF RestartActive, Started, NextTurn
<1>15. CASE Postflight          BY <1>15 DEF Postflight, Replace
<1>16. CASE CheckAlive          BY <1>16 DEF CheckAlive
<1>17. CASE DiscardOld          BY <1>17 DEF DiscardOld
<1>18. CASE RemoveNew           BY <1>18 DEF RemoveNew
<1>19. CASE MoveBack            BY <1>19 DEF MoveBack
<1>20. CASE RestoreUnits        BY <1>20 DEF RestoreUnits
<1>21. CASE UndoRestart         BY <1>21 DEF UndoRestart, Started, NextTurn
<1>22. CASE \E d \in Daemons : LocalAction(d)  BY <1>22 DEF LocalAction, Started
<1>23. CASE Lose                BY <1>23 DEF Lose
<1> QED  BY <1>1, <1>2, <1>3, <1>4, <1>5, <1>6, <1>7, <1>8, <1>9, <1>10, <1>11, <1>12,
            <1>13, <1>14, <1>15, <1>16, <1>17, <1>18, <1>19, <1>20, <1>21, <1>22, <1>23
         DEF UpNext

(***************************************************************************)
(* The rest, while nothing is broken.                                      *)
(***************************************************************************)
LEMMA NextAll == UpInv /\ [UpNext]_upVars /\ broken' = {} => AllKnown'
<1> SUFFICES ASSUME UpInv, [UpNext]_upVars, broken' = {}
    PROVE  AllKnown'
  OBVIOUS
<1> USE DEF UpInv, UpTypeOK, TreesKnown, AllKnown, AllOld, Safe, Early, Replaced,
            Undoing, Versions, Trees, UpSteps, host, dialog, plan, record
<1>1. CASE UNCHANGED upVars     BY <1>1 DEF upVars
<1>2. CASE RunCheck             BY <1>2 DEF RunCheck
<1>3. CASE StageCandidate       BY <1>3 DEF StageCandidate
<1>4. CASE CheckCandidate       BY <1>4 DEF CheckCandidate
<1>5. CASE CloseDialog          BY <1>5 DEF CloseDialog
<1>6. CASE RunUpgrade           BY <1>6 DEF RunUpgrade
<1>7. CASE Preflight            BY <1>7 DEF Preflight
<1>8. CASE Record               BY <1>8 DEF Record
<1>9. CASE CopyTree             BY <1>9 DEF CopyTree, Replace
<1>10. CASE MoveOld             BY <1>10 DEF MoveOld, Replace
<1>11. CASE MoveNew             BY <1>11 DEF MoveNew, Replace
<1>12. CASE ReplaceLink         BY <1>12 DEF ReplaceLink, Replace
<1>13. CASE InstallUnits        BY <1>13 DEF InstallUnits, Replace
<1>14. CASE RestartActive       BY <1>14 DEF RestartActive, Started, NextTurn
<1>15. CASE Postflight          BY <1>15 DEF Postflight, Replace
<1>16. CASE CheckAlive          BY <1>16 DEF CheckAlive
<1>17. CASE DiscardOld          BY <1>17 DEF DiscardOld
<1>18. CASE RemoveNew           BY <1>18 DEF RemoveNew
<1>19. CASE MoveBack            BY <1>19 DEF MoveBack
<1>20. CASE RestoreUnits        BY <1>20 DEF RestoreUnits
<1>21. CASE UndoRestart         BY <1>21 DEF UndoRestart, Started, NextTurn
<1>22. CASE \E d \in Daemons : LocalAction(d)  BY <1>22 DEF LocalAction, Started
<1>23. CASE Lose                BY <1>23 DEF Lose
<1> QED  BY <1>1, <1>2, <1>3, <1>4, <1>5, <1>6, <1>7, <1>8, <1>9, <1>10, <1>11, <1>12,
            <1>13, <1>14, <1>15, <1>16, <1>17, <1>18, <1>19, <1>20, <1>21, <1>22, <1>23
         DEF UpNext

(***************************************************************************)
(* What runs, while nothing is broken.                                     *)
(***************************************************************************)
LEMMA NextRuns == UpInv /\ [UpNext]_upVars /\ broken' = {} => RunsKnown'
<1> SUFFICES ASSUME UpInv, [UpNext]_upVars, broken' = {}
    PROVE  RunsKnown'
  OBVIOUS
<1> USE CountType, UpgradeAssumption
    DEF UpInv, UpTypeOK, TreesKnown, AllKnown, AllOld, RunsKnown, RunAll, Before,
        Safe, Early, Replaced, Undoing, Versions, Trees, UpSteps, host, dialog, plan, record
<1>1. CASE UNCHANGED upVars     BY <1>1 DEF upVars
<1>2. CASE RunCheck             BY <1>2 DEF RunCheck
<1>3. CASE StageCandidate       BY <1>3 DEF StageCandidate
<1>4. CASE CheckCandidate       BY <1>4 DEF CheckCandidate
<1>5. CASE CloseDialog          BY <1>5 DEF CloseDialog
<1>6. CASE RunUpgrade           BY <1>6 DEF RunUpgrade
<1>7. CASE Preflight            BY <1>7 DEF Preflight
<1>8. CASE Record               BY <1>8 DEF Record
<1>9. CASE CopyTree             BY <1>9 DEF CopyTree, Replace
<1>10. CASE MoveOld             BY <1>10 DEF MoveOld, Replace
<1>11. CASE MoveNew             BY <1>11 DEF MoveNew, Replace
<1>12. CASE ReplaceLink         BY <1>12 DEF ReplaceLink, Replace
<1>13. CASE InstallUnits        BY <1>13 DEF InstallUnits, Replace
<1>14. CASE RestartActive       BY <1>14 DEF RestartActive, Started, NextTurn
<1>15. CASE Postflight          BY <1>15 DEF Postflight, Replace
<1>16. CASE CheckAlive          BY <1>16 DEF CheckAlive
<1>17. CASE DiscardOld          BY <1>17 DEF DiscardOld
<1>18. CASE RemoveNew           BY <1>18 DEF RemoveNew
<1>19. CASE MoveBack            BY <1>19 DEF MoveBack
<1>20. CASE RestoreUnits        BY <1>20 DEF RestoreUnits
<1>21. CASE UndoRestart         BY <1>21 DEF UndoRestart, Started, NextTurn
<1>22. CASE \E d \in Daemons : LocalAction(d)  BY <1>22 DEF LocalAction, Started
<1>23. CASE Lose                BY <1>23 DEF Lose
<1> QED  BY <1>1, <1>2, <1>3, <1>4, <1>5, <1>6, <1>7, <1>8, <1>9, <1>10, <1>11, <1>12,
            <1>13, <1>14, <1>15, <1>16, <1>17, <1>18, <1>19, <1>20, <1>21, <1>22, <1>23
         DEF UpNext

LEMMA NextUpInv == UpInv /\ [UpNext]_upVars => UpInv'
<1> SUFFICES ASSUME UpInv, [UpNext]_upVars PROVE UpInv'
  OBVIOUS
<1>1. UpTypeOK'
  BY NextType DEF UpInv
<1>2. TreesKnown'
  BY NextTrees
<1>3. ASSUME broken' = {} PROVE AllKnown' /\ RunsKnown'
  BY <1>3, NextAll, NextRuns
<1> QED  BY <1>1, <1>2, <1>3 DEF UpInv

(***************************************************************************)
(* An upgrade of OpenVPN that reports success has replaced everything, one *)
(* that reports failure has put everything back, and a whole tree is there *)
(* at every moment, short of a recovery that failed; whoever starts and    *)
(* stops instances meanwhile (apply_staged_upgrade).                       *)
(***************************************************************************)
THEOREM UpgradeIsAtomic == UpSpec => []AllOrNothing
<1>1. UpInit => UpInv
  BY InitUpInv
<1>2. UpInv /\ [UpNext]_upVars => UpInv'
  BY NextUpInv
<1>3. UpInv => AllOrNothing
  BY InvAllOrNothing
<1> QED  BY <1>1, <1>2, <1>3, PTL DEF UpSpec

(***************************************************************************)
(* FullBackup: whole backups and restores                                  *)
(***************************************************************************)

\* The parts of an archive or of the machine that are as m has them, up to the i-th.
SameUpTo(a, m, i) == \A j \in DOMAIN Order : j < i => a[Order[j]] = m[Order[j]]

\* No part but those lost is anything but what it was or what the archive has.
OldOrNew(t) ==
  \A p \in Parts \ erased : machine[p] \in {before[t][p], source[t][p]}

Saved(t) == AsStored(before[t]) \in kept

PanelSteps == {"rest", "starting", "copying", "sealing", "replacing", "swapping"}

\* What holds of a panel at each step of its work, if nothing else writes.
Undisturbed(t) ==
  /\ \A u \in Panels : Running(u) => u = t
  /\ Running(t) => result[t] = "none"
  /\ phase[t] \in {"copying", "sealing"} /\ goal[t] = "restore" => machine = before[t]
  /\ phase[t] = "copying" => SameUpTo(copy[t], AsStored(machine), next[t])
  /\ phase[t] = "sealing" => copy[t] = AsStored(machine)
  /\ phase[t] \in {"replacing", "swapping"} => Saved(t)
  /\ phase[t] = "replacing" =>
       SameUpTo(machine, source[t], next[t]) /\ OldOrNew(t)
  /\ phase[t] = "swapping" =>
       /\ next[t] <= Len(Order)
       /\ \A j \in DOMAIN Order :
            j < next[t] /\ Order[j] # Current(t) =>
              machine[Order[j]] = source[t][Order[j]]
       /\ \A p \in Parts \ (erased \cup {Current(t)}) :
            machine[p] \in {before[t][p], source[t][p]}
       /\ Current(t) \notin erased => heldOld[t] \in {before[t][Current(t)], source[t][Current(t)]}
  /\ phase[t] = "rest" /\ goal[t] = "backup" /\ result[t] = "done" =>
       AsStored(machine) \in kept
  /\ phase[t] = "rest" /\ goal[t] = "restore" /\ result[t] = "done" => machine = source[t]
  /\ phase[t] = "rest" /\ goal[t] = "restore" /\ result[t] = "failed" =>
       OldOrNew(t) /\ (machine # before[t] => Saved(t))

\* What a panel works with is there.
HasArchive(t) ==
  /\ phase[t] \in PanelSteps
  /\ phase[t] \in {"replacing", "swapping"} => goal[t] = "restore"
  /\ phase[t] \in {"copying", "sealing", "replacing", "swapping"} /\ goal[t] = "restore" =>
       source[t] \in Snapshots
  /\ phase[t] = "swapping" => next[t] <= Len(Order)

LEMMA OrderIsList ==
  /\ Len(Order) \in Nat /\ DOMAIN Order = 1..Len(Order)
  /\ Parts = {Order[i] : i \in DOMAIN Order}
<1>1. Order \in Seq(Parts)
  BY BackAssumption
<1> QED BY <1>1 DEF Parts, Range

\* The type invariant with its parts one by one.
BackTypes ==
  /\ machine \in Snapshots /\ kept \subseteq Snapshots
  /\ phase \in [Panels -> Phases]
  /\ goal \in [Panels -> {"backup", "restore"}]
  /\ next \in [Panels -> 1..(Len(Order) + 1)]
  /\ copy \in [Panels -> Snapshots]
  /\ chosen \in [Panels -> Snapshots \cup {NoArchive}]
  /\ arriving \in [Panels -> Snapshots \cup {NoArchive}]
  /\ source \in [Panels -> Snapshots \cup {NoArchive}]
  /\ heldOld \in [Panels -> Contents]
  /\ result \in [Panels -> {"none", "done", "failed"}]
  /\ before \in [Panels -> Snapshots]
  /\ disturbed \subseteq Panels /\ erased \subseteq Parts
  /\ changes \in 0..MaxChanges /\ errors \in 0..MaxErrors
  /\ outages \in 0..MaxOutages /\ rounds \in 0..MaxRounds

LEMMA TypesAre == BackTypes <=> BackTypeOK
<1>1. (\A own \in {chosen, arriving, source} : own \in [Panels -> Snapshots \cup {NoArchive}])
        <=> /\ chosen \in [Panels -> Snapshots \cup {NoArchive}]
            /\ arriving \in [Panels -> Snapshots \cup {NoArchive}]
            /\ source \in [Panels -> Snapshots \cup {NoArchive}]
  BY Zenon
<1> QED BY <1>1 DEF BackTypes, BackTypeOK

BackInv ==
  /\ BackTypes
  /\ \A t \in Panels : HasArchive(t)
  /\ \A t \in Panels \ disturbed : Undisturbed(t)

LEMMA BackInitInv == BackInit => BackInv
<1> SUFFICES ASSUME BackInit PROVE BackInv
  OBVIOUS
<1>1. 0 \in Contents /\ Gone \in Contents /\ Empty \in Contents
  BY BackAssumption DEF Contents
<1>2. Absent \in Snapshots
  BY <1>1 DEF Absent, Snapshots
<1>3. machine \in Snapshots
  BY <1>1 DEF Snapshots, BackInit
<1>4. BackTypes
  BY <1>1, <1>2, <1>3, OrderIsList, BackAssumption DEF BackInit, BackTypes, Phases
<1> QED BY <1>4 DEF BackInit, BackInv, HasArchive, Undisturbed, Running, PanelSteps

LEMMA PartsInContents ==
  ASSUME BackTypes, NEW t \in Panels, next[t] <= Len(Order)
  PROVE  Current(t) \in Parts /\ next[t] \in DOMAIN Order /\ next[t] + 1 \in 1..(Len(Order) + 1)
<1>1. next[t] \in 1..(Len(Order) + 1)
  BY DEF BackTypes
<1>2. next[t] \in DOMAIN Order
  BY <1>1, OrderIsList
<1> QED BY <1>1, <1>2, OrderIsList DEF Current

LEMMA BackTypeStep ==
  ASSUME BackTypes, \A t \in Panels : HasArchive(t), BackNext
  PROVE  BackTypes'
<1> USE DEF Phases
<1>1. 0 \in Contents /\ Gone \in Contents /\ Empty \in Contents /\ Absent \in Snapshots
  BY BackAssumption DEF Contents, Absent, Snapshots
<1>2. ASSUME NEW t \in Panels, NEW w \in {"backup", "restore"}, Click(t, w) PROVE BackTypes'
  <2>1. phase' \in [Panels -> Phases] /\ goal' \in [Panels -> {"backup", "restore"}]
    BY <1>2 DEF Click, Goto, BackTypes
  <2>2. result' \in [Panels -> {"none", "done", "failed"}] /\ disturbed' \subseteq Panels
    BY <1>2 DEF Click, BackTypes
  <2>3. rounds' \in 0..MaxRounds
    BY <1>2, BackAssumption DEF Click, BackTypes
  <2> QED BY <1>2, <2>1, <2>2, <2>3 DEF Click, BackTypes
<1>3. ASSUME NEW t \in Panels, Upload(t) PROVE BackTypes'
  <2>1. arriving' \in [Panels -> Snapshots \cup {NoArchive}]
    BY <1>1, <1>3 DEF Upload, BackTypes
  <2> QED BY <1>3, <2>1 DEF Upload, limits, BackTypes
<1>4. ASSUME NEW t \in Panels, Arrive(t) PROVE BackTypes'
  <2>1. /\ arriving' \in [Panels -> Snapshots \cup {NoArchive}]
        /\ chosen' \in [Panels -> Snapshots \cup {NoArchive}]
    BY <1>4 DEF Arrive, BackTypes
  <2> QED BY <1>4, <2>1 DEF Arrive, limits, BackTypes
<1>5. ASSUME NEW t \in Panels, Open(t) PROVE BackTypes'
  <2>1. next' \in [Panels -> 1..(Len(Order) + 1)]
    <3>1. 1 \in 1..(Len(Order) + 1)
      BY OrderIsList
    <3>2. next' = [next EXCEPT ![t] = 1] \/ next' = next
      BY <1>5 DEF Open, Rewind
    <3> QED BY <3>1, <3>2 DEF BackTypes
  <2>4. phase' \in [Panels -> Phases] /\ result' \in [Panels -> {"none", "done", "failed"}]
    BY <1>5 DEF Open, Goto, End, BackTypes
  <2>2. source' \in [Panels -> Snapshots \cup {NoArchive}]
    BY <1>5 DEF Open, BackTypes
  <2>3. copy' \in [Panels -> Snapshots]
    BY <1>1, <1>5 DEF Open, BackTypes
  <2>5. before' \in [Panels -> Snapshots]
    BY <1>5 DEF Open, BackTypes
  <2>6. errors' \in 0..MaxErrors
    BY <1>5, BackAssumption DEF Open, Error, BackTypes
  <2> QED BY <1>5, <2>1, <2>2, <2>3, <2>4, <2>5, <2>6 DEF Open, limits, BackTypes
<1>6. ASSUME NEW t \in Panels, CopyPart(t) PROVE BackTypes'
  <2>1. CASE next[t] > Len(Order) /\ UNCHANGED <<next, copy, result, errors>> /\ Goto(t, "sealing")
    BY <1>6, <2>1 DEF CopyPart, Goto, limits, BackTypes
  <2>2. CASE /\ next[t] <= Len(Order)
             /\ copy' = [copy EXCEPT ![t][Order[next[t]]] = Stored(Order[next[t]])]
             /\ Advance(t) /\ UNCHANGED <<phase, result, errors>>
    <3>1. Current(t) \in Parts /\ next[t] + 1 \in 1..(Len(Order) + 1)
      BY <2>2, PartsInContents
    <3>2. Stored(Current(t)) \in Contents
      BY <1>1, <3>1 DEF Stored, BackTypes, Snapshots
    <3>3. copy' \in [Panels -> Snapshots]
      BY <2>2, <3>1, <3>2 DEF BackTypes, Snapshots, Current
    <3> QED BY <1>6, <2>2, <3>1, <3>3 DEF CopyPart, Advance, limits, BackTypes
  <2>3. CASE Error /\ End(t, "failed") /\ UNCHANGED <<next, copy>>
    BY <1>6, <2>3, BackAssumption DEF CopyPart, Error, End, Goto, limits, BackTypes
  <2> QED BY <1>6, <2>1, <2>2, <2>3 DEF CopyPart
<1>7. ASSUME NEW t \in Panels, Seal(t) PROVE BackTypes'
  <2>1. next' \in [Panels -> 1..(Len(Order) + 1)]
    <3>1. 1 \in 1..(Len(Order) + 1) /\ next \in [Panels -> 1..(Len(Order) + 1)]
      BY OrderIsList DEF BackTypes
    <3> QED BY <1>7, <3>1 DEF Seal, Rewind
  <2>3. phase' \in [Panels -> Phases] /\ result' \in [Panels -> {"none", "done", "failed"}]
    BY <1>7 DEF Seal, Goto, End, BackTypes
  <2>2. errors' \in 0..MaxErrors /\ kept' \subseteq Snapshots
    BY <1>7, BackAssumption DEF Seal, Error, BackTypes
  <2> QED BY <1>7, <2>1, <2>2, <2>3 DEF Seal, limits, BackTypes
<1>8. ASSUME NEW t \in Panels, phase[t] = "replacing", next[t] <= Len(Order)
      PROVE  Current(t) \in Parts /\ next[t] + 1 \in 1..(Len(Order) + 1)
             /\ source[t][Current(t)] \in Contents
  <2>1. source[t] \in Snapshots
    BY <1>8 DEF HasArchive
  <2> QED BY <1>8, <2>1, PartsInContents DEF Snapshots
<1>9. ASSUME NEW t \in Panels, ReplaceFile(t) PROVE BackTypes'
  <2>1. CASE /\ machine' = [machine EXCEPT ![Current(t)] = source[t][Current(t)]]
             /\ Advance(t) /\ UNCHANGED <<phase, result, errors>>
    <3>1. machine' \in Snapshots
      BY <1>8, <1>9, <2>1 DEF ReplaceFile, BackTypes, Snapshots
    <3> QED BY <1>8, <1>9, <2>1, <3>1 DEF ReplaceFile, Advance, limits, BackTypes
  <2>2. CASE Error /\ End(t, "failed") /\ UNCHANGED <<machine, next>>
    BY <1>9, <2>2, BackAssumption DEF ReplaceFile, Error, End, Goto, limits, BackTypes
  <2> QED BY <1>9, <2>1, <2>2 DEF ReplaceFile
<1>10. ASSUME NEW t \in Panels, MoveAside(t) PROVE BackTypes'
  <2>1. CASE /\ heldOld' = [heldOld EXCEPT ![t] = machine[Current(t)]]
             /\ machine' = [machine EXCEPT ![Current(t)] = Gone]
             /\ Goto(t, "swapping") /\ UNCHANGED <<result, errors>>
    <3>1. machine' \in Snapshots /\ machine[Current(t)] \in Contents
      BY <1>1, <1>8, <1>10, <2>1 DEF MoveAside, BackTypes, Snapshots
    <3> QED BY <1>10, <2>1, <3>1 DEF MoveAside, Goto, limits, BackTypes
  <2>2. CASE Error /\ End(t, "failed") /\ UNCHANGED <<machine, heldOld>>
    BY <1>10, <2>2, BackAssumption DEF MoveAside, Error, End, Goto, limits, BackTypes
  <2> QED BY <1>10, <2>1, <2>2 DEF MoveAside
<1>11. ASSUME NEW t \in Panels, MoveIn(t) PROVE BackTypes'
  <2>1. /\ Current(t) \in Parts /\ next[t] + 1 \in 1..(Len(Order) + 1)
        /\ source[t] \in Snapshots /\ source[t][Current(t)] \in Contents
        /\ heldOld[t] \in Contents
    <3>1. source[t] \in Snapshots /\ next[t] <= Len(Order)
      BY <1>11 DEF MoveIn, HasArchive
    <3> QED BY <3>1, PartsInContents DEF Snapshots, BackTypes
  <2>2. machine' \in Snapshots
    BY <1>11, <2>1 DEF MoveIn, BackTypes, Snapshots
  <2>3. erased' \subseteq Parts /\ errors' \in 0..MaxErrors
    BY <1>11, <2>1, BackAssumption, SMTT(20) DEF MoveIn, BackTypes, Error
  <2>4. next' \in [Panels -> 1..(Len(Order) + 1)] /\ heldOld' \in [Panels -> Contents]
    BY <1>1, <1>11, <2>1, ZenonT(30) DEF MoveIn, BackTypes, Advance
  <2>5. phase' \in [Panels -> Phases] /\ result' \in [Panels -> {"none", "done", "failed"}]
    BY <1>11 DEF MoveIn, BackTypes, Goto, End
  <2> QED BY <1>11, <2>2, <2>3, <2>4, <2>5 DEF MoveIn, limits, BackTypes
<1>12. ASSUME NEW t \in Panels, FinishRestore(t) PROVE BackTypes'
  <2>1. phase' \in [Panels -> Phases] /\ result' \in [Panels -> {"none", "done", "failed"}]
    BY <1>12 DEF FinishRestore, BackTypes, Goto, End
  <2>2. errors' \in 0..MaxErrors
    BY <1>12, BackAssumption DEF FinishRestore, Error, BackTypes
  <2>3. chosen' \in [Panels -> Snapshots \cup {NoArchive}]
    BY <1>12 DEF FinishRestore, BackTypes
  <2> QED BY <1>12, <2>1, <2>2, <2>3 DEF FinishRestore, limits, BackTypes
<1>13. ASSUME NEW p \in Parts, Change(p) PROVE BackTypes'
  <2>1. changes + 1 \in Contents /\ changes' \in 0..MaxChanges
    BY <1>13, BackAssumption DEF Change, BackTypes, Contents
  <2>2. machine' \in Snapshots
    BY <1>13, <2>1 DEF Change, BackTypes, Snapshots
  <2> QED BY <1>13, <2>1, <2>2 DEF Change, BackTypes
<1>14. CASE Perish
  <2>1. \A u \in Panels : phase[u] = "swapping" => Current(u) \in Parts
    BY PartsInContents DEF HasArchive
  <2>2. erased' \subseteq Parts
    BY <1>14, <2>1 DEF Perish, BackTypes
  <2>3. /\ phase' \in [Panels -> Phases] /\ result' \in [Panels -> {"none", "done", "failed"}]
        /\ chosen' \in [Panels -> Snapshots \cup {NoArchive}]
        /\ arriving' \in [Panels -> Snapshots \cup {NoArchive}]
        /\ heldOld' \in [Panels -> Contents] /\ outages' \in 0..MaxOutages
    BY <1>1, <1>14, BackAssumption DEF Perish, BackTypes
  <2> QED BY <1>14, <2>2, <2>3 DEF Perish, BackTypes
<1> QED BY <1>2, <1>3, <1>4, <1>5, <1>6, <1>7, <1>9, <1>10, <1>11, <1>12, <1>13, <1>14
        DEF BackNext

LEMMA ArchiveStep ==
  ASSUME BackTypes, \A t \in Panels : HasArchive(t), [BackNext]_backVars, NEW t \in Panels
  PROVE  HasArchive(t)'
<1>1. HasArchive(t) /\ phase[t] \in Phases /\ goal[t] \in {"backup", "restore"}
  BY DEF BackTypes
<1>2. ASSUME UNCHANGED <<phase, goal, source, next>> PROVE HasArchive(t)'
  BY <1>1, <1>2 DEF HasArchive
<1>3. CASE UNCHANGED backVars
  BY <1>2, <1>3 DEF backVars
<1>4. ASSUME NEW u \in Panels, NEW w \in {"backup", "restore"}, Click(u, w) PROVE HasArchive(t)'
  BY <1>1, <1>4 DEF Click, Goto, HasArchive, PanelSteps, BackTypes
<1>5. ASSUME NEW u \in Panels, Upload(u) \/ Arrive(u) PROVE HasArchive(t)'
  BY <1>2, <1>5 DEF Upload, Arrive
<1>6. ASSUME NEW u \in Panels, Open(u) PROVE HasArchive(t)'
  BY <1>1, <1>6 DEF Open, Goto, End, Rewind, HasArchive, PanelSteps, BackTypes
<1>7. ASSUME NEW u \in Panels, CopyPart(u) PROVE HasArchive(t)'
  BY <1>1, <1>7 DEF CopyPart, Goto, End, Advance, HasArchive, PanelSteps, BackTypes
<1>8. ASSUME NEW u \in Panels, Seal(u) PROVE HasArchive(t)'
  BY <1>1, <1>8 DEF Seal, Goto, End, Rewind, HasArchive, PanelSteps, BackTypes
<1>9. ASSUME NEW u \in Panels, ReplaceFile(u) PROVE HasArchive(t)'
  BY <1>1, <1>9 DEF ReplaceFile, End, Goto, Advance, HasArchive, PanelSteps, BackTypes
<1>10. ASSUME NEW u \in Panels, MoveAside(u) PROVE HasArchive(t)'
  BY <1>1, <1>10 DEF MoveAside, End, Goto, HasArchive, PanelSteps, BackTypes
<1>11. ASSUME NEW u \in Panels, MoveIn(u) PROVE HasArchive(t)'
  BY <1>1, <1>11 DEF MoveIn, End, Goto, Advance, HasArchive, PanelSteps, BackTypes
<1>12. ASSUME NEW u \in Panels, FinishRestore(u) PROVE HasArchive(t)'
  BY <1>1, <1>12 DEF FinishRestore, End, Goto, HasArchive, PanelSteps, BackTypes
<1>13. ASSUME NEW p \in Parts, Change(p) PROVE HasArchive(t)'
  BY <1>2, <1>13 DEF Change
<1>14. CASE Perish
  BY <1>14 DEF Perish, HasArchive, PanelSteps
<1> QED BY <1>3, <1>4, <1>5, <1>6, <1>7, <1>8, <1>9, <1>10, <1>11, <1>12, <1>13, <1>14
        DEF BackNext

LEMMA UndisturbedRests ==
  ASSUME NEW t \in Panels, Undisturbed(t),
         UNCHANGED <<machine, kept, phase, goal, next, copy, source, heldOld, result,
                     before, erased>>
  PROVE  Undisturbed(t)'
BY DEF Undisturbed, Running, SameUpTo, AsStored, OldOrNew, Saved, Current

\* A panel whose thread takes a step, for which nothing else writes, is the only one.
LEMMA OnlyOne ==
  ASSUME BackInv, NEW u \in Panels, Running(u), NEW t \in Panels \ disturbed
  PROVE  u = t
BY DEF BackInv, Undisturbed

LEMMA ClickKeeps ==
  ASSUME BackInv, NEW u \in Panels, NEW w \in {"backup", "restore"}, Click(u, w),
         NEW t \in Panels \ disturbed'
  PROVE  Undisturbed(t)'
<1>1. t = u /\ \A v \in Panels : ~Running(v)
  BY DEF Click
<1>2. /\ phase'[t] = "starting" /\ result'[t] = "none"
      /\ \A v \in Panels : v # t => phase'[v] = "rest"
  BY <1>1 DEF Click, Goto, Running, BackInv, BackTypes
<1> QED BY <1>2 DEF Undisturbed, Running

LEMMA OpenKeeps ==
  ASSUME BackInv, NEW t \in Panels \ disturbed, Open(t)
  PROVE  Undisturbed(t)'
<1>1. Undisturbed(t) /\ Running(t)
  BY DEF BackInv, Open, Running
<1>2. CASE /\ Goto(t, "copying") /\ Rewind(t) /\ UNCHANGED result
           /\ before' = [before EXCEPT ![t] = machine]
  <2>1. /\ phase' = [phase EXCEPT ![t] = "copying"] /\ next'[t] = 1
        /\ before'[t] = machine /\ machine' = machine /\ result'[t] = result[t]
        /\ phase'[t] = "copying" /\ \A v \in Panels : v # t => phase'[v] = phase[v]
    BY <1>2 DEF Goto, Rewind, BackInv, BackTypes, Open
  <2>2. \A j \in DOMAIN Order : ~(j < 1)
    BY OrderIsList
  <2> QED BY <1>1, <2>1, <2>2 DEF Undisturbed, Running, SameUpTo
<1>3. CASE End(t, "none") /\ goal[t] = "restore"
  <2>1. /\ phase'[t] = "rest" /\ result'[t] = "none"
        /\ \A v \in Panels : v # t => phase'[v] = phase[v]
    BY <1>3 DEF End, Goto, BackInv, BackTypes
  <2> QED BY <1>1, <2>1 DEF Undisturbed, Running
<1>4. CASE End(t, "failed") /\ before' = [before EXCEPT ![t] = machine]
  <2>1. /\ phase'[t] = "rest" /\ result'[t] = "failed" /\ before'[t] = machine
        /\ \A v \in Panels : v # t => phase'[v] = phase[v]
    BY <1>4 DEF End, Goto, BackInv, BackTypes
  <2>2. machine' = machine
    BY DEF Open
  <2> QED BY <1>1, <2>1, <2>2 DEF Undisturbed, Running, OldOrNew
<1> QED BY <1>2, <1>3, <1>4 DEF Open

LEMMA CopyKeeps ==
  ASSUME BackInv, NEW t \in Panels \ disturbed, CopyPart(t)
  PROVE  Undisturbed(t)'
<1>1. Undisturbed(t) /\ Running(t) /\ phase[t] = "copying"
  BY DEF BackInv, CopyPart, Running
<1>2. UNCHANGED <<machine, kept, goal, source, before, erased>>
  BY DEF CopyPart
<1>3. CASE /\ next[t] > Len(Order) /\ Goto(t, "sealing") /\ UNCHANGED <<next, copy, result>>
  <2>1. /\ phase'[t] = "sealing" /\ \A v \in Panels : v # t => phase'[v] = phase[v]
    BY <1>3 DEF Goto, BackInv, BackTypes
  <2>2. \A p \in Parts : copy[t][p] = AsStored(machine)[p]
    <3>1. \A j \in DOMAIN Order : j < next[t]
      BY <1>3, OrderIsList DEF BackInv, BackTypes
    <3> QED BY <1>1, <3>1, OrderIsList DEF Undisturbed, SameUpTo
  <2>3. copy[t] = AsStored(machine)
    BY <2>2 DEF BackInv, BackTypes, Snapshots, AsStored
  <2>4. AsStored(machine)' = AsStored(machine) /\ copy' = copy /\ result' = result
    BY <1>2, <1>3 DEF AsStored
  <2> QED BY <1>1, <1>2, <2>1, <2>3, <2>4 DEF Undisturbed, Running
<1>4. CASE /\ next[t] <= Len(Order)
           /\ copy' = [copy EXCEPT ![t][Order[next[t]]] = Stored(Order[next[t]])]
           /\ Advance(t) /\ UNCHANGED <<phase, result>>
  <2>1. /\ Current(t) \in Parts /\ next[t] \in DOMAIN Order /\ next[t] \in Nat
        /\ next'[t] = next[t] + 1
    BY <1>4, PartsInContents, OrderIsList DEF Advance, BackInv, BackTypes
  <2>2. \A p \in Parts : copy'[t][p] = IF p = Current(t) THEN AsStored(machine)[p] ELSE copy[t][p]
    BY <1>4, <2>1 DEF BackInv, BackTypes, Snapshots, Current, Stored, AsStored
  <2>3. ASSUME NEW j \in DOMAIN Order, j < next'[t]
        PROVE  copy'[t][Order[j]] = AsStored(machine)[Order[j]]
    <3>1. j < next[t] \/ j = next[t]
      BY <2>1, <2>3, OrderIsList
    <3>2. Order[j] \in Parts
      BY OrderIsList
    <3>3. j = next[t] => Order[j] = Current(t)
      BY DEF Current
    <3>4. j < next[t] => copy[t][Order[j]] = AsStored(machine)[Order[j]]
      BY <1>1 DEF Undisturbed, SameUpTo
    <3> QED BY <2>2, <3>1, <3>2, <3>3, <3>4
  <2>4. AsStored(machine)' = AsStored(machine)
    BY <1>2 DEF AsStored
  <2>5. SameUpTo(copy[t], AsStored(machine), next[t])'
    BY <2>3, <2>4 DEF SameUpTo
  <2> QED BY <1>1, <1>2, <1>4, <2>5 DEF Undisturbed, Running
<1>5. CASE End(t, "failed")
  <2>1. /\ phase'[t] = "rest" /\ result'[t] = "failed"
        /\ \A v \in Panels : v # t => phase'[v] = phase[v]
    BY <1>5 DEF End, Goto, BackInv, BackTypes
  <2> QED BY <1>1, <1>2, <2>1 DEF Undisturbed, Running, OldOrNew, Saved
<1> QED BY <1>3, <1>4, <1>5 DEF CopyPart

LEMMA SealKeeps ==
  ASSUME BackInv, NEW t \in Panels \ disturbed, Seal(t)
  PROVE  Undisturbed(t)'
<1>1. Undisturbed(t) /\ Running(t) /\ phase[t] = "sealing" /\ goal[t] \in {"backup", "restore"}
  BY DEF BackInv, BackTypes, Seal, Running
<1>2. UNCHANGED <<machine, goal, source, before, erased, copy>>
  BY DEF Seal
<1>3. AsStored(machine)' = AsStored(machine)
  BY <1>2 DEF AsStored
<1>4. CASE kept' = kept \cup {copy[t]} /\ goal[t] = "backup" /\ End(t, "done")
  <2>1. /\ phase'[t] = "rest" /\ result'[t] = "done"
        /\ \A v \in Panels : v # t => phase'[v] = phase[v]
    BY <1>4 DEF End, Goto, BackInv, BackTypes
  <2> QED BY <1>1, <1>2, <1>3, <1>4, <2>1 DEF Undisturbed, Running
<1>5. CASE kept' = kept \cup {copy[t]} /\ goal[t] = "restore" /\ Goto(t, "replacing")
           /\ Rewind(t) /\ UNCHANGED result
  <2>1. /\ phase'[t] = "replacing" /\ result'[t] = "none" /\ next'[t] = 1
        /\ \A v \in Panels : v # t => phase'[v] = phase[v]
    BY <1>1, <1>5 DEF Goto, Rewind, BackInv, BackTypes, Undisturbed
  <2>2. Saved(t)' /\ OldOrNew(t)'
    BY <1>1, <1>2, <1>5 DEF Undisturbed, Saved, OldOrNew, AsStored
  <2>3. SameUpTo(machine, source[t], next[t])'
    BY <2>1, OrderIsList DEF SameUpTo
  <2> QED BY <1>1, <2>1, <2>2, <2>3 DEF Undisturbed, Running
<1>6. CASE End(t, "failed") /\ UNCHANGED kept
  <2>1. /\ phase'[t] = "rest" /\ result'[t] = "failed"
        /\ \A v \in Panels : v # t => phase'[v] = phase[v]
    BY <1>6 DEF End, Goto, BackInv, BackTypes
  <2> QED BY <1>1, <1>2, <2>1 DEF Undisturbed, Running, OldOrNew, Saved
<1> QED BY <1>1, <1>4, <1>5, <1>6 DEF Seal

\* A part written from the archive: every part up to it is the archive's.
LEMMA PartReplaced ==
  ASSUME BackInv, NEW t \in Panels, next[t] <= Len(Order), source[t] \in Snapshots,
         machine' = [machine EXCEPT ![Current(t)] = source[t][Current(t)]],
         \A j \in DOMAIN Order : j < next[t] /\ Order[j] # Current(t) =>
            machine[Order[j]] = source[t][Order[j]],
         UNCHANGED source, Advance(t)
  PROVE  SameUpTo(machine, source[t], next[t])'
<1>1. /\ Current(t) \in Parts /\ next[t] \in DOMAIN Order /\ next[t] \in Nat
      /\ next'[t] = next[t] + 1
  BY PartsInContents, OrderIsList DEF Advance, BackInv, BackTypes
<1>2. machine'[Current(t)] = source[t][Current(t)]
      /\ \A p \in Parts : p # Current(t) => machine'[p] = machine[p]
  BY <1>1 DEF BackInv, BackTypes, Snapshots
<1>3. ASSUME NEW j \in DOMAIN Order, j < next'[t]
      PROVE  machine'[Order[j]] = source[t][Order[j]]
  <2>1. j < next[t] \/ j = next[t]
    BY <1>1, <1>3, OrderIsList
  <2>2. Order[j] \in Parts /\ (j = next[t] => Order[j] = Current(t))
    BY OrderIsList DEF Current
  <2> QED BY <1>2, <2>1, <2>2
<1> QED BY <1>3 DEF SameUpTo

LEMMA ReplaceFileKeepsWhole ==
  ASSUME BackInv, NEW t \in Panels \ disturbed, ReplaceFile(t)
  PROVE  Undisturbed(t)'
<1>1. Undisturbed(t) /\ Running(t) /\ phase[t] = "replacing" /\ source[t] \in Snapshots
      /\ next[t] <= Len(Order) /\ goal[t] = "restore"
  BY DEF BackInv, HasArchive, ReplaceFile, Running
<1>2. UNCHANGED <<kept, goal, source, before, erased>>
  BY DEF ReplaceFile
<1>3. CASE /\ machine' = [machine EXCEPT ![Current(t)] = source[t][Current(t)]]
           /\ Advance(t) /\ UNCHANGED <<phase, result>>
  <2>1. SameUpTo(machine, source[t], next[t])'
    BY <1>1, <1>2, <1>3, PartReplaced DEF Undisturbed, SameUpTo
  <2>2. \A p \in Parts : machine'[p] \in {machine[p], source[t][p]}
    BY <1>3 DEF BackInv, BackTypes, Snapshots
  <2>3. OldOrNew(t)'
    BY <1>1, <1>2, <2>2 DEF Undisturbed, OldOrNew
  <2> QED BY <1>1, <1>2, <1>3, <2>1, <2>3 DEF Undisturbed, Running, Saved, AsStored
<1>4. CASE End(t, "failed") /\ UNCHANGED machine
  <2>1. /\ phase'[t] = "rest" /\ result'[t] = "failed"
        /\ \A v \in Panels : v # t => phase'[v] = phase[v]
    BY <1>4 DEF End, Goto, BackInv, BackTypes
  <2> QED BY <1>1, <1>2, <1>4, <2>1 DEF Undisturbed, Running, OldOrNew, Saved, AsStored
<1> QED BY <1>3, <1>4 DEF ReplaceFile

LEMMA MoveAsideKeeps ==
  ASSUME BackInv, NEW t \in Panels \ disturbed, MoveAside(t)
  PROVE  Undisturbed(t)'
<1>1. Undisturbed(t) /\ Running(t) /\ phase[t] = "replacing"
      /\ next[t] <= Len(Order) /\ goal[t] = "restore"
  BY DEF BackInv, HasArchive, MoveAside, Running
<1>2. UNCHANGED <<kept, goal, source, before, erased, next>>
  BY DEF MoveAside
<1>3. CASE /\ heldOld' = [heldOld EXCEPT ![t] = machine[Current(t)]]
           /\ machine' = [machine EXCEPT ![Current(t)] = Gone]
           /\ Goto(t, "swapping") /\ UNCHANGED result
  <2>1. /\ phase'[t] = "swapping" /\ heldOld'[t] = machine[Current(t)]
        /\ \A v \in Panels : v # t => phase'[v] = phase[v]
    BY <1>3 DEF Goto, BackInv, BackTypes
  <2>2. \A p \in Parts : p # Current(t) => machine'[p] = machine[p]
    BY <1>3 DEF BackInv, BackTypes, Snapshots
  <2>3. Current(t)' = Current(t) /\ Current(t) \in Parts
    BY <1>1, <1>2, PartsInContents DEF Current, BackInv
  <2>4. \A j \in DOMAIN Order : j < next[t] /\ Order[j] # Current(t) =>
          machine'[Order[j]] = source[t][Order[j]]
    BY <1>1, <2>2, OrderIsList DEF Undisturbed, SameUpTo
  <2>5. \A p \in Parts \ (erased \cup {Current(t)}) : machine'[p] \in {before[t][p], source[t][p]}
    BY <1>1, <2>2 DEF Undisturbed, OldOrNew
  <2>6. Current(t) \notin erased => heldOld'[t] \in {before[t][Current(t)], source[t][Current(t)]}
    BY <1>1, <2>1, <2>3 DEF Undisturbed, OldOrNew
  <2> QED BY <1>1, <1>2, <1>3, <2>1, <2>3, <2>4, <2>5, <2>6
          DEF Undisturbed, Running, Saved, AsStored
<1>4. CASE End(t, "failed") /\ UNCHANGED machine
  <2>1. /\ phase'[t] = "rest" /\ result'[t] = "failed"
        /\ \A v \in Panels : v # t => phase'[v] = phase[v]
    BY <1>4 DEF End, Goto, BackInv, BackTypes
  <2> QED BY <1>1, <1>2, <1>4, <2>1 DEF Undisturbed, Running, OldOrNew, Saved, AsStored
<1> QED BY <1>3, <1>4 DEF MoveAside

LEMMA MoveInKeeps ==
  ASSUME BackInv, NEW t \in Panels \ disturbed, MoveIn(t)
  PROVE  Undisturbed(t)'
<1>1. Undisturbed(t) /\ Running(t) /\ phase[t] = "swapping" /\ source[t] \in Snapshots
      /\ next[t] <= Len(Order) /\ goal[t] = "restore" /\ Current(t) \in Parts
  BY PartsInContents DEF BackInv, HasArchive, MoveIn, Running
<1>2. UNCHANGED <<kept, goal, source, before>>
  BY DEF MoveIn
<1>3. \A p \in Parts \ (erased \cup {Current(t)}) : machine[p] \in {before[t][p], source[t][p]}
  BY <1>1 DEF Undisturbed
<1>4. CASE /\ machine' = [machine EXCEPT ![Current(t)] = source[t][Current(t)]]
           /\ Goto(t, "replacing") /\ Advance(t)
           /\ erased' = erased \ {Current(t)} /\ UNCHANGED result
  <2>1. phase'[t] = "replacing" /\ \A v \in Panels : v # t => phase'[v] = phase[v]
    BY <1>4 DEF Goto, BackInv, BackTypes
  <2>2. SameUpTo(machine, source[t], next[t])'
    BY <1>1, <1>2, <1>4, PartReplaced DEF Undisturbed
  <2>3. machine'[Current(t)] = source[t][Current(t)]
        /\ \A p \in Parts : p # Current(t) => machine'[p] = machine[p]
    BY <1>1, <1>4 DEF BackInv, BackTypes, Snapshots
  <2>4. OldOrNew(t)'
    BY <1>2, <1>3, <1>4, <2>3 DEF OldOrNew
  <2> QED BY <1>1, <1>2, <1>4, <2>1, <2>2, <2>4 DEF Undisturbed, Running, Saved, AsStored
<1>5. ASSUME End(t, "failed"), OldOrNew(t)' PROVE Undisturbed(t)'
  <2>1. /\ phase'[t] = "rest" /\ result'[t] = "failed"
        /\ \A v \in Panels : v # t => phase'[v] = phase[v]
    BY <1>5 DEF End, Goto, BackInv, BackTypes
  <2> QED BY <1>1, <1>2, <1>5, <2>1 DEF Undisturbed, Running, Saved, AsStored
<1>6. CASE /\ machine' = [machine EXCEPT ![Current(t)] = heldOld[t]]
           /\ End(t, "failed") /\ UNCHANGED erased
  <2>1. machine'[Current(t)] = heldOld[t]
        /\ \A p \in Parts : p # Current(t) => machine'[p] = machine[p]
    BY <1>1, <1>6 DEF BackInv, BackTypes, Snapshots
  <2>2. Current(t) \notin erased => heldOld[t] \in {before[t][Current(t)], source[t][Current(t)]}
    BY <1>1 DEF Undisturbed
  <2>3. OldOrNew(t)'
    BY <1>2, <1>3, <1>6, <2>1, <2>2 DEF OldOrNew
  <2> QED BY <1>5, <1>6, <2>3
<1>7. CASE erased' = erased \cup {Current(t)} /\ End(t, "failed") /\ UNCHANGED machine
  <2>1. OldOrNew(t)'
    BY <1>2, <1>3, <1>7 DEF OldOrNew
  <2> QED BY <1>5, <1>7, <2>1
<1> QED BY <1>4, <1>6, <1>7 DEF MoveIn

LEMMA FinishKeeps ==
  ASSUME BackInv, NEW t \in Panels \ disturbed, FinishRestore(t)
  PROVE  Undisturbed(t)'
<1>1. Undisturbed(t) /\ Running(t) /\ phase[t] = "replacing" /\ source[t] \in Snapshots
      /\ next[t] > Len(Order) /\ goal[t] = "restore"
  BY DEF BackInv, HasArchive, FinishRestore, Running
<1>2. UNCHANGED <<kept, goal, source, before, erased, machine>>
  BY DEF FinishRestore
<1>3. machine = source[t]
  <2>1. \A j \in DOMAIN Order : j < next[t]
    BY <1>1, OrderIsList DEF BackInv, BackTypes
  <2>2. \A p \in Parts : machine[p] = source[t][p]
    BY <1>1, <2>1, OrderIsList DEF Undisturbed, SameUpTo
  <2> QED BY <1>1, <2>2 DEF BackInv, BackTypes, Snapshots
<1>4. PICK how \in {"done", "failed"} : End(t, how)
  BY DEF FinishRestore
<1>5. /\ phase'[t] = "rest" /\ result'[t] = how
      /\ \A v \in Panels : v # t => phase'[v] = phase[v]
  BY <1>4 DEF End, Goto, BackInv, BackTypes
<1> QED BY <1>1, <1>2, <1>3, <1>5 DEF Undisturbed, Running, OldOrNew, Saved, AsStored

LEMMA PerishKeeps ==
  ASSUME BackInv, NEW t \in Panels \ disturbed, Perish
  PROVE  Undisturbed(t)'
<1>1. Undisturbed(t) /\ HasArchive(t) /\ goal[t] \in {"backup", "restore"}
  BY DEF BackInv, BackTypes
<1>2. /\ UNCHANGED <<machine, kept, goal, next, copy, source, before>>
      /\ \A v \in Panels : phase'[v] = "rest"
      /\ result'[t] = IF phase[t] \notin {"rest", "starting"} THEN "failed" ELSE "none"
      /\ erased \subseteq erased' /\ (phase[t] = "swapping" => Current(t) \in erased')
  BY DEF Perish
<1>3. CASE phase[t] \in {"rest", "starting"} \/ goal[t] = "backup"
  BY <1>1, <1>2, <1>3 DEF Undisturbed, Running
<1>4. CASE phase[t] \in {"copying", "sealing"} /\ goal[t] = "restore"
  BY <1>1, <1>2, <1>4 DEF Undisturbed, Running, OldOrNew
<1>5. CASE phase[t] \in {"replacing", "swapping"} /\ goal[t] = "restore"
  <2>1. OldOrNew(t)' /\ Saved(t)'
    BY <1>1, <1>2, <1>5 DEF Undisturbed, OldOrNew, Saved, AsStored
  <2> QED BY <1>1, <1>2, <1>5, <2>1 DEF Undisturbed, Running
<1> QED BY <1>1, <1>3, <1>4, <1>5 DEF HasArchive, PanelSteps

LEMMA UndisturbedStep ==
  ASSUME BackInv, [BackNext]_backVars, NEW t \in Panels \ disturbed'
  PROVE  Undisturbed(t)'
<1>1. ASSUME t \notin disturbed PROVE Undisturbed(t)
  BY <1>1 DEF BackInv
<1>2. CASE UNCHANGED backVars
  BY <1>1, <1>2, UndisturbedRests DEF backVars
<1>3. ASSUME NEW u \in Panels, NEW w \in {"backup", "restore"}, Click(u, w)
      PROVE  Undisturbed(t)'
  BY <1>3, ClickKeeps
<1>4. ASSUME NEW u \in Panels, Upload(u) \/ Arrive(u) PROVE Undisturbed(t)'
  BY <1>1, <1>4, UndisturbedRests DEF Upload, Arrive
<1>5. ASSUME NEW u \in Panels, Open(u) \/ CopyPart(u) \/ Seal(u) \/ ReplaceFile(u)
             \/ MoveAside(u) \/ MoveIn(u) \/ FinishRestore(u)
      PROVE  Undisturbed(t)'
  <2>1. Running(u) /\ disturbed' = disturbed
    BY <1>5 DEF Open, CopyPart, Seal, ReplaceFile, MoveAside, MoveIn, FinishRestore, Running
  <2>2. u = t /\ t \in Panels \ disturbed
    BY <2>1, OnlyOne
  <2> QED BY <1>5, <2>2, OpenKeeps, CopyKeeps, SealKeeps, ReplaceFileKeepsWhole,
             MoveAsideKeeps, MoveInKeeps, FinishKeeps
<1>6. ASSUME NEW p \in Parts, Change(p) PROVE Undisturbed(t)'
  BY <1>6 DEF Change
<1>7. CASE Perish
  BY <1>7, PerishKeeps DEF Perish
<1> QED BY <1>2, <1>3, <1>4, <1>5, <1>6, <1>7 DEF BackNext

LEMMA BackAlways == BackSpec => []BackInv
<1>1. BackInv /\ [BackNext]_backVars => BackInv'
  <2> SUFFICES ASSUME BackInv, [BackNext]_backVars PROVE BackInv'
    OBVIOUS
  <2>1. BackTypes'
    <3>1. CASE UNCHANGED backVars
      BY <3>1 DEF backVars, BackInv, BackTypes
    <3> QED BY <3>1, BackTypeStep DEF BackInv
  <2>2. \A t \in Panels : HasArchive(t)'
    BY ArchiveStep DEF BackInv
  <2>3. \A t \in Panels \ disturbed' : Undisturbed(t)'
    BY UndisturbedStep
  <2> QED BY <2>1, <2>2, <2>3 DEF BackInv
<1> QED BY <1>1, BackInitInv, PTL DEF BackSpec

\* Every variable of the backups keeps its type; the database, the files and directories
\* hold what some operation wrote, what an archive had, or nothing.
THEOREM BackTypesHold == BackSpec => []BackTypeOK
<1>1. BackInv => BackTypeOK
  BY TypesAre DEF BackInv
<1> QED BY <1>1, BackAlways, PTL

\* A backup or a restore during which nothing else writes is whole, or leaves each part
\* as it was or as the archive has it with the old machine in a finished archive: for any
\* parts in any order, panels, failures and deaths of the program (full_backup.py).
THEOREM RestoreIsWhole == BackSpec => []RestoreWhole
<1>1. BackInv => RestoreWhole
  <2> SUFFICES ASSUME BackInv, NEW t \in Panels \ disturbed
               PROVE  /\ goal[t] = "backup" /\ result[t] = "done" => AsStored(machine) \in kept
                      /\ goal[t] = "restore" /\ result[t] = "done" => machine = source[t]
                      /\ goal[t] = "restore" /\ result[t] = "failed" => OldOrNew(t)
                      /\ goal[t] = "restore" /\ machine # before[t]
                           /\ (Running(t) \/ result[t] = "failed")
                           => phase[t] = "starting" \/ Saved(t)
    BY DEF RestoreWhole, OldOrNew, Saved
  <2>1. Undisturbed(t) /\ HasArchive(t)
    BY DEF BackInv
  <2>2. result[t] # "none" => phase[t] = "rest"
    BY <2>1 DEF Undisturbed, Running
  <2> QED BY <2>1, <2>2 DEF Undisturbed, HasArchive, PanelSteps, Running
<1> QED BY <1>1, BackAlways, PTL

(***************************************************************************)
(* MCHost: the four components side by side                                *)
(***************************************************************************)
\* What is proved of a component by itself holds where it runs beside the others: none
\* of them touches another one's state.
THEOREM HostParts == MCHostSpec => WizSpec /\ SetSpec /\ UpSpec /\ BackSpec
<1>1. MCHostInit => WizInit /\ SetInit /\ UpInit /\ BackInit
  BY DEF MCHostInit
<1>2. [MCHostNext]_mcHostVars => [WizNext]_wizVars
  BY DEF MCHostNext, mcHostVars
<1>3. [MCHostNext]_mcHostVars => [SetNext]_setVars
  BY DEF MCHostNext, mcHostVars
<1>4. [MCHostNext]_mcHostVars => [UpNext]_upVars
  BY DEF MCHostNext, mcHostVars
<1>5. [MCHostNext]_mcHostVars => [BackNext]_backVars
  BY DEF MCHostNext, mcHostVars
<1> QED  BY <1>1, <1>2, <1>3, <1>4, <1>5, PTL
         DEF MCHostSpec, WizSpec, SetSpec, UpSpec, BackSpec

\* The state of the host has its types: the wizard's pages and threads, the settings and
\* what follows them, an upgrade and its trees, a backup and its archives.
THEOREM HostTyped == MCHostSpec => []MCHostTypeOK
<1>1. WizSpec => []WizTypeOK
  <2>1. WizInv /\ [WizNext]_wizVars => WizInv'
    BY WizStepKeeps
  <2>2. WizInv => WizTypeOK
    BY DEF WizInv
  <2> QED  BY <2>1, <2>2, WizInitKnown, PTL DEF WizSpec
<1>2. SetSpec => []SetTypeOK
  <2>1. SetInv => SetTypeOK
    BY DEF SetInv
  <2> QED  BY <2>1, InitSetInv, NextSetInv, PTL DEF SetSpec
<1>3. UpSpec => []UpTypeOK
  <2>1. UpInit => UpInv
    BY InitUpInv
  <2>2. UpInv /\ [UpNext]_upVars => UpInv'
    BY NextUpInv
  <2>3. UpInv => UpTypeOK
    BY DEF UpInv
  <2> QED  BY <2>1, <2>2, <2>3, PTL DEF UpSpec
<1>4. WizTypeOK /\ SetTypeOK /\ UpTypeOK /\ BackTypeOK => MCHostTypeOK
  BY DEF MCHostTypeOK
<1> QED  BY <1>1, <1>2, <1>3, <1>4, BackTypesHold, HostParts, PTL
=============================================================================
