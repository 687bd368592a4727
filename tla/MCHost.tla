-------------------------------- MODULE MCHost --------------------------------
(***************************************************************************)
(* The host for TLC: the first-run wizard (InitWizard), the server's       *)
(* settings and what follows them (ServerSettings), the upgrade of OpenVPN *)
(* (Upgrade) and full backup and restore (FullBackup).  The four share no  *)
(* variable, so a behaviour follows one of them, chosen at the start.      *)
(***************************************************************************)
EXTENDS InitWizard, ServerSettings, Upgrade, FullBackup, TLC

CONSTANTS p1, p2, db, secret, pkiDir, ccdDir, key

TwoPages == {p1, p2}

\* One part of each kind: database, optional file, needed and other directory, file.
FiveParts == <<db, secret, pkiDir, ccdDir, key>>
TwoFolders == {pkiDir, ccdDir}
ThreeNeeded == {db, pkiDir, key}
OneOptional == {secret}

VARIABLE follow

mcHostVars == <<wizVars, setVars, upVars, backVars, follow>>

MCHostInit ==
    /\ follow \in {"wizard", "settings", "upgrade", "backup"}
    /\ cfg = (CHOOSE c \in Settings : TRUE)
    /\ WizInit /\ SetInit /\ UpInit /\ BackInit
    /\ follow # "wizard" => installed /\ pki = NoMaterials
    /\ follow # "upgrade" => \A d \in Daemons : runs[d] = "old"
    /\ follow # "backup" => \A p \in Parts : machine[p] = 0

MCHostNext ==
    /\ \/ follow = "wizard" /\ WizNext /\ UNCHANGED <<setVars, upVars, backVars>>
       \/ follow = "settings" /\ SetNext /\ UNCHANGED <<wizVars, upVars, backVars>>
       \/ follow = "upgrade" /\ UpNext /\ UNCHANGED <<wizVars, setVars, backVars>>
       \/ follow = "backup" /\ BackNext /\ UNCHANGED <<wizVars, setVars, upVars>>
    /\ UNCHANGED follow

MCHostSpec == MCHostInit /\ [][MCHostNext]_mcHostVars

MCHostTypeOK == WizTypeOK /\ SetTypeOK /\ UpTypeOK /\ BackTypeOK

WizardOnly == MCHostSpec /\ follow = "wizard"

Symmetry == Permutations(TwoPages)

\* No stale page copy and no two threads in the wizard; two troubles at most in
\* the settings, an editor and an API thread not at once.
Apart ==
    /\ ~crossed
    /\ trouble + deaths <= 2 /\ ~(editor # Closed /\ issuer # Torn)
    /\ Cardinality(drift \ {"masq"}) <= 2
=============================================================================
