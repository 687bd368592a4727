------------------------------ MODULE MCConsoles ------------------------------
(***************************************************************************)
(* The two pages that keep most state of their own, and the device         *)
(* binding, for TLC: the list of the centre's rules (RuleConsole), the     *)
(* list of users and its jobs (UserConsole), and the script that admits    *)
(* connections (DeviceBinding).  The three share no variable, so a         *)
(* behaviour follows one of them, chosen at the start.                     *)
(***************************************************************************)
EXTENDS RuleConsole, DeviceBinding, UserConsole, TLC

CONSTANTS laptop, phone, mac, model

\* Two rules, the first at the priority the second has in the backup, and the reverse.
BackupFile == [r \in RuleIds |-> IF r = 1 THEN 2 * Step ELSE 0]

\* The laptop has a hardware address, the phone tells its model only.
Hardware == laptop :> mac @@ phone :> NoPrint
Model == laptop :> NoPrint @@ phone :> model

TwoLists == {<<1, 2>>, <<2>>}

VARIABLE follow

mcConsoleVars == <<ruleVars, bindVars, userVars, follow>>

MCConsolesInit ==
    /\ follow \in {"rules", "devices", "users"}
    /\ RuleInit /\ BindInit /\ UserInit
    /\ follow # "rules" => TheRules = {}
    /\ follow # "devices" => policy = "weak_log"
    /\ follow # "users" => Existing = {} /\ wanted.size = CHOOSE s \in PageSizes : TRUE

MCConsolesNext ==
    /\ \/ follow = "rules" /\ RuleNext /\ UNCHANGED <<bindVars, userVars>>
       \/ follow = "devices" /\ BindNext /\ UNCHANGED <<ruleVars, userVars>>
       \/ follow = "users" /\ UserNext /\ UNCHANGED <<ruleVars, bindVars>>
    /\ UNCHANGED follow

MCConsolesSpec == MCConsolesInit /\ [][MCConsolesNext]_mcConsoleVars

RulesOnly == MCConsolesSpec /\ follow = "rules"

MCConsolesTypeOK == RuleTypeOK /\ BindTypeOK /\ UserTypeOK

One(b) == IF b THEN 1 ELSE 0

\* One thing at a time under the administrator's hand at the rules (a form, an import,
\* a selection, a filter and the way into the dragging mode, an overtaken load), and none
\* of the slips that PrioritiesDistinct and ListAsAsked exclude but an order that is saved
\* halfway and edited on; loads that overtake each other, and pages of one rule, only
\* before the last change of the store; at the users, no question to the browser while a
\* job runs.
OneHand ==
    /\ odd = {} \/ (odd = {"halfway"} /\ reorder)
    /\ One(ticks # NoRule) + One(dialog # NoRule) + One(importing # NoRule)
       + One(entering # NoRule \/ filtering # NoRule) + One(selected # {} /\ ticks = NoRule)
       + One(Cardinality(loads) > 1) <= 1
    /\ Cardinality(loads) > 1 \/ query.size = 1 => edits < MaxEdits
    /\ asking # Nobody => \A k \in Kinds : ~job[k].running
=============================================================================
