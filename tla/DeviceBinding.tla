--------------------------- MODULE DeviceBinding ---------------------------
(***************************************************************************)
(* The binding of a user to one device: device-bind.sh, which every        *)
(* OpenVPN instance runs for each connection (one at a time in one         *)
(* instance, side by side in two), the JSON files it writes through        *)
(* device_binding_json.py, and DeviceBindingService, through which a       *)
(* binding is reset or goes with its user.                                 *)
(*                                                                         *)
(* A binding file is a slot: the names of the files are random, and the    *)
(* script takes the first in the order of their names.  Its text is        *)
(* "whole", or what a write that stopped, or has not ended, leaves:        *)
(* "named" (the user, not the fingerprint), "empty" (not even the user).   *)
(***************************************************************************)
EXTENDS Naturals, FiniteSets

CONSTANTS
    VpnUsers,
    Devices,
    HwOf,          \* device -> the hardware address it reports, or NoPrint
    WeakOf,        \* device -> what it reports without one, or NoPrint
    NoPrint,
    Gates,         \* OpenVPN instances
    Slots,         \* binding files there can be, numbers in the order of names
    NoFile,
    MaxStops,      \* scripts killed
    MaxResets,     \* bindings reset, and changes of the policy
    MaxVisits      \* connections

Prints == {HwOf[d] : d \in Devices} \cup {WeakOf[d] : d \in Devices}
Texts  == {"whole", "named", "empty"}
BindingFiles == [user : VpnUsers, print : Prints, text : Texts]

ASSUME DeviceBindingAssumption ==
    /\ Slots \subseteq Nat /\ NoFile \notin Slots /\ NoFile \notin BindingFiles
    /\ MaxStops \in Nat /\ MaxResets \in Nat /\ MaxVisits \in Nat

VARIABLES
    bindings,      \* slot -> its file, or NoFile
    policy,        \* the mode file: a mode, or "cut" while it is written
    script,        \* instance -> the script that runs for a connection
    known,         \* user -> fingerprints admitted since the last reset (history)
    slips,         \* history: what the files do not protect against, see OneDevice
    stops, resets, visits

bindVars == <<bindings, policy, script, known, slips, stops, resets, visits>>

Policies == {"weak_log", "weak_fingerprint", "strict_hwaddr"}
Resting  == [step |-> "rest"]
Files    == {s \in Slots : bindings[s] # NoFile}

\* Anything but a known mode counts as weak_fingerprint.
DEVICE_BIND_MODE == IF policy \in Policies THEN policy ELSE "weak_fingerprint"

\* The fingerprint of a connection: the hardware address, else, in the weak mode, what
\* the platform offers.
FINGERPRINT(d) ==
    IF HwOf[d] # NoPrint \/ DEVICE_BIND_MODE = "strict_hwaddr" THEN HwOf[d] ELSE WeakOf[d]

Checked(d) == DEVICE_BIND_MODE # "weak_log" /\ FINGERPRINT(d) # NoPrint

BindInit ==
    /\ bindings = [s \in Slots |-> NoFile]
    /\ policy \in Policies
    /\ script = [g \in Gates |-> Resting]
    /\ known = [u \in VpnUsers |-> {}]
    /\ slips = {} /\ stops = 0 /\ resets = 0 /\ visits = 0

Proceeds(g, s) == script' = [script EXCEPT ![g].step = s]

(***************************************************************************)
(* device-bind.sh                                                          *)
(***************************************************************************)

\* weak_log, and a device that tells nothing in the weak mode, go straight to the
\* audit, which binds nobody; strict_hwaddr refuses a device without address.
Connect(g, u, d) ==
    /\ script[g] = Resting /\ visits < MaxVisits /\ visits' = visits + 1
    /\ IF DEVICE_BIND_MODE = "strict_hwaddr" /\ FINGERPRINT(d) = NoPrint
       THEN script' = script
       ELSE script' = [script EXCEPT ![g] =
                [step |-> IF Checked(d) THEN "find" ELSE "audit", user |-> u,
                 print |-> FINGERPRINT(d), checked |-> Checked(d), file |-> NoFile]]
    /\ UNCHANGED <<bindings, policy, known, slips, stops, resets>>

Names(u) == {s \in Files : bindings[s].user = u /\ bindings[s].text \in {"whole", "named"}}

Others(g, u) == {h \in Gates \ {g} : script[h] # Resting /\ script[h].user = u}

\* grep over the files; one that is being rewritten is not found.
FindBinding(g) ==
    /\ script[g].step = "find"
    /\ LET u == script[g].user
           found == Names(u)
       IN  \/ /\ found = {} /\ Proceeds(g, "new")
              /\ slips' = IF \E h \in Others(g, u) : script[h].checked
                          THEN slips \cup {u} ELSE slips
           \/ \E s \in found :
                /\ \A k \in found : s <= k
                /\ script' = [script EXCEPT ![g].step = "compare", ![g].file = s]
                /\ slips' = slips
    /\ UNCHANGED <<bindings, policy, known, stops, resets, visits>>

\* The write of a file: opened first, which leaves it empty, then written.
Opened(s, u, p) == bindings' = [bindings EXCEPT ![s] = [user |-> u, print |-> p,
                                                        text |-> "empty"]]

\* Mutant: a binding that cannot be written does not stop the connection.
NewFailsQuietly(g) ==
    /\ script[g].step = "new" /\ Proceeds(g, "audit")
    /\ UNCHANGED <<bindings, policy, known, slips, stops, resets, visits>>

\* write-new, or the attempt at it, fails: the connection is refused.
NewFails(g) ==
    /\ script[g].step = "new" /\ script' = [script EXCEPT ![g] = Resting]
    /\ UNCHANGED <<bindings, policy, known, slips, stops, resets, visits>>

\* A new name: no script has another file in mind by it.
NewOpens(g, s) ==
    /\ script[g].step = "new" /\ bindings[s] = NoFile
    /\ \A h \in Gates : script[h] # Resting => script[h].file # s
    /\ Opened(s, script[g].user, script[g].print)
    /\ script' = [script EXCEPT ![g].step = "write", ![g].file = s]
    /\ UNCHANGED <<policy, known, slips, stops, resets, visits>>

\* A file that is gone, or has no fingerprint, matches nobody.
Compare(g) ==
    /\ script[g].step = "compare"
    /\ LET f == bindings[script[g].file]
       IN  IF f # NoFile /\ f.text = "whole" /\ f.print = script[g].print
           THEN Proceeds(g, "update")
           ELSE script' = [script EXCEPT ![g] = Resting]
    /\ UNCHANGED <<bindings, policy, known, slips, stops, resets, visits>>

\* update reads the file, and refuses one that is gone or cannot be parsed ...
UpdateReads(g) ==
    /\ script[g].step = "update"
    /\ LET f == bindings[script[g].file]
       IN  IF f # NoFile /\ f.text = "whole"
           THEN Proceeds(g, "reopen")
           ELSE script' = [script EXCEPT ![g] = Resting]
    /\ UNCHANGED <<bindings, policy, known, slips, stops, resets, visits>>

\* ... and writes it back, wherever the file has gone meanwhile.
UpdateOpens(g) ==
    /\ script[g].step = "reopen"
    /\ Opened(script[g].file, script[g].user, script[g].print)
    /\ slips' = IF bindings[script[g].file] = NoFile THEN slips \cup {script[g].user}
                                                      ELSE slips
    /\ Proceeds(g, "rewrite")
    /\ UNCHANGED <<policy, known, stops, resets, visits>>

\* The text arrives; a file that was unlinked takes it with it.
Writes(g) ==
    /\ script[g].step \in {"write", "rewrite"}
    /\ bindings' = IF bindings[script[g].file] = NoFile THEN bindings
                   ELSE [bindings EXCEPT ![script[g].file] =
                             [user |-> script[g].user, print |-> script[g].print,
                              text |-> "whole"]]
    /\ Proceeds(g, "audit")
    /\ UNCHANGED <<policy, known, slips, stops, resets, visits>>

\* The session is logged and the connection admitted ...
Admit(g) ==
    /\ script[g].step = "audit"
    /\ known' = IF script[g].checked
                THEN [known EXCEPT ![script[g].user] = @ \cup {script[g].print}]
                ELSE known
    /\ script' = [script EXCEPT ![g] = Resting]
    /\ UNCHANGED <<bindings, policy, slips, stops, resets, visits>>

\* ... or the log cannot be written: refused, with the binding as it was left.
AuditFails(g) ==
    /\ script[g].step = "audit" /\ script' = [script EXCEPT ![g] = Resting]
    /\ UNCHANGED <<bindings, policy, known, slips, stops, resets, visits>>

\* The script is killed, or the disk is full; a write under way may have got anywhere.
Stopped(g) ==
    /\ script[g] # Resting /\ stops < MaxStops /\ stops' = stops + 1
    /\ script' = [script EXCEPT ![g] = Resting]
    /\ LET s == script[g].file
       IN  /\ IF script[g].step \in {"write", "rewrite"} /\ bindings[s] # NoFile
              THEN \E t \in {"empty", "named"} :
                       bindings' = [bindings EXCEPT ![s].text = t]
              ELSE UNCHANGED bindings
           /\ slips' = IF script[g].step = "rewrite" THEN slips \cup {script[g].user}
                                                     ELSE slips
    /\ UNCHANGED <<policy, known, resets, visits>>

(***************************************************************************)
(* The panel                                                               *)
(***************************************************************************)

\* reset_binding, also when the user is deleted: one file that names the user; one
\* that cannot be parsed is passed over.  False: there is none.
ResetBinding(u) ==
    /\ resets < MaxResets /\ resets' = resets + 1
    /\ LET found == {s \in Names(u) : bindings[s].text = "whole"}
       IN  /\ found # {}
           /\ \E s \in found : bindings' = [bindings EXCEPT ![s] = NoFile]
           /\ known' = [known EXCEPT ![u] = {}]
           /\ slips' = IF \E g \in Gates : script[g] # Resting /\ script[g].user = u
                       THEN slips \cup {u} ELSE slips
    /\ UNCHANGED <<policy, script, stops, visits>>

\* sync_device_bind_mode_file.
PolicyOpens ==
    /\ policy # "cut" /\ resets < MaxResets /\ resets' = resets + 1
    /\ policy' = "cut"
    /\ UNCHANGED <<bindings, script, known, slips, stops, visits>>

PolicyWritten(m) ==
    /\ policy = "cut" /\ policy' = m
    /\ UNCHANGED <<bindings, script, known, slips, stops, resets, visits>>

ScriptStep(g) ==
    \/ \E u \in VpnUsers, d \in Devices : Connect(g, u, d)
    \/ FindBinding(g) \/ NewFails(g) \/ \E s \in Slots : NewOpens(g, s)
    \/ Compare(g) \/ UpdateReads(g) \/ UpdateOpens(g) \/ Writes(g)
    \/ Admit(g) \/ AuditFails(g) \/ Stopped(g)

BindNext ==
    \/ \E g \in Gates : ScriptStep(g)
    \/ \E u \in VpnUsers : ResetBinding(u)
    \/ PolicyOpens \/ \E m \in Policies : PolicyWritten(m)

BindSpec == BindInit /\ [][BindNext]_bindVars

(***************************************************************************)
(* Properties                                                              *)
(***************************************************************************)

ScriptSteps == {"find", "new", "write", "compare", "update", "reopen", "rewrite", "audit"}

Scripts == [step : ScriptSteps, user : VpnUsers, print : Prints, checked : BOOLEAN,
            file : Slots \cup {NoFile}]

BindTypeOK ==
    /\ bindings \in [Slots -> BindingFiles \cup {NoFile}]
    /\ policy \in Policies \cup {"cut"}
    /\ script \in [Gates -> Scripts \cup {Resting}]
    /\ known \in [VpnUsers -> SUBSET Prints] /\ slips \subseteq VpnUsers
    /\ stops \in 0..MaxStops /\ resets \in 0..MaxResets /\ visits \in 0..MaxVisits

\* One device per user (device_bind.py): between two resets the script admits one
\* fingerprint of a user at most, through changes of the policy, failed writes, failed
\* audits and killed first connections; for users of whom no connection ran into
\* another one, a reset or a killed rewrite of the file.
OneDevice == \A u \in VpnUsers \ slips : Cardinality(known[u]) <= 1
=============================================================================
