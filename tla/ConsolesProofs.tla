---------------------------- MODULE ConsolesProofs ----------------------------
(***************************************************************************)
(* Proofs about the components MCConsoles checks: the device binding (one  *)
(* device per user), the jobs of the page of users (true reports), and the *)
(* page of the centre's rules (rows that answer the query, distinct        *)
(* priorities), the types of both pages, and that all this holds of the    *)
(* three side by side. For any number of instances, users, devices, rules, *)
(* loads and jobs.                                                         *)
(***************************************************************************)
EXTENDS MCConsoles, SubsequencesProofs

(***************************************************************************)
(* DeviceBinding: one device per user                                      *)
(***************************************************************************)

Writing(g) == script[g].step \in {"write", "rewrite"}

Active(g, u) == script[g] # Resting /\ script[g].user = u

\* The binding of a user: a file that names the user, or one a script of the user's
\* is about to fill.
Theirs(u) ==
    {s \in Files : /\ bindings[s].user = u
                   /\ \/ bindings[s].text # "empty"
                      \/ \E g \in Gates : Writing(g) /\ Active(g, u) /\ script[g].file = s}

\* What a script knows of itself, whatever has happened to its user.
ScriptKnows ==
    \A g \in Gates : script[g] # Resting =>
        /\ script[g].step \in {"find", "new"} => script[g].file = NoFile
        /\ script[g].step \notin {"find", "new", "audit"} => script[g].file \in Slots
        /\ script[g].step # "audit" => script[g].checked
        /\ script[g].step = "audit" => (script[g].checked <=> script[g].file \in Slots)
        /\ script[g].file \in Slots /\ bindings[script[g].file] # NoFile =>
             bindings[script[g].file].user = script[g].user
        /\ \A h \in Gates :
             script[h] # Resting /\ script[h].file = script[g].file
               /\ script[g].file \in Slots => script[h].user = script[g].user

OneFile(u) == \A s, t \in Theirs(u) : s = t

\* A script that has found or made the file still has it.
HasFile(u) ==
    \A g \in Gates : Active(g, u) /\ script[g].file \in Slots =>
        /\ script[g].file \in Theirs(u)
        /\ script[g].step # "compare" => bindings[script[g].file].print = script[g].print
        /\ script[g].step \in {"update", "reopen", "rewrite", "audit"} =>
             bindings[script[g].file].text # "named"
        /\ script[g].step = "write" => bindings[script[g].file].text = "empty"

\* A script that makes the first file is ahead of every other one of the user's.
MakesFirst(u) ==
    \A g \in Gates : Active(g, u) /\ script[g].step \in {"new", "write"} =>
        /\ known[u] = {}
        /\ script[g].step = "new" => Theirs(u) = {}
        /\ \A h \in Gates \ {g} : Active(h, u) /\ script[h].checked =>
                                      script[h].step = "find"

\* What was admitted is what the file says.
KnownInFile(u) ==
    \A p \in known[u] : \E s \in Theirs(u) : bindings[s].print = p
                                             /\ bindings[s].text # "named"

Bound(u) == OneFile(u) /\ HasFile(u) /\ MakesFirst(u) /\ KnownInFile(u)

AllBound == \A u \in VpnUsers \ slips : Bound(u)

BindInv == BindTypeOK /\ ScriptKnows /\ AllBound

(***************************************************************************)
(* Types.                                                                  *)
(***************************************************************************)
LEMMA Runs ==
  ASSUME BindTypeOK, NEW g \in Gates, script[g] # Resting
  PROVE  /\ script[g] \in Scripts
         /\ script[g].step \in ScriptSteps /\ script[g].user \in VpnUsers
         /\ script[g].print \in Prints /\ script[g].checked \in BOOLEAN
         /\ script[g].file \in Slots \cup {NoFile}
  BY DEF BindTypeOK, Scripts, ScriptSteps

LEMMA Printed ==
  ASSUME NEW d \in Devices
  PROVE  FINGERPRINT(d) \in Prints
  BY DEF FINGERPRINT, Prints

LEMMA ProceedsType ==
  ASSUME BindTypeOK, NEW g \in Gates, script[g] # Resting,
         NEW t \in ScriptSteps, Proceeds(g, t)
  PROVE  /\ script' \in [Gates -> Scripts \cup {Resting}]
         /\ script'[g] = [script[g] EXCEPT !.step = t]
         /\ script'[g].step = t /\ script'[g].user = script[g].user
         /\ script'[g].print = script[g].print /\ script'[g].checked = script[g].checked
         /\ script'[g].file = script[g].file
         /\ script'[g] # Resting
         /\ \A h \in Gates \ {g} : script'[h] = script[h]
<1>1. script[g] \in Scripts
  BY Runs
<1>2. script' = [script EXCEPT ![g] = [script[g] EXCEPT !.step = t]]
  BY DEF Proceeds
<1>3. [script[g] EXCEPT !.step = t] \in Scripts
  BY <1>1 DEF Scripts
<1>4. script \in [Gates -> Scripts \cup {Resting}]
  BY DEF BindTypeOK
<1>5. script'[g] = [script[g] EXCEPT !.step = t]
  BY <1>2, <1>4
<1>6. script'[g].step = t /\ script'[g].user = script[g].user
      /\ script'[g].print = script[g].print /\ script'[g].checked = script[g].checked
      /\ script'[g].file = script[g].file
  BY <1>1, <1>5 DEF Scripts
<1>7. script'[g] # Resting
  BY <1>6 DEF Resting, ScriptSteps
<1> QED  BY <1>2, <1>3, <1>4, <1>5, <1>6, <1>7

LEMMA RestType ==
  ASSUME BindTypeOK, NEW g \in Gates, script' = [script EXCEPT ![g] = Resting]
  PROVE  /\ script' \in [Gates -> Scripts \cup {Resting}]
         /\ script'[g] = Resting
         /\ \A h \in Gates \ {g} : script'[h] = script[h]
  BY DEF BindTypeOK

LEMMA OpenedType ==
  ASSUME BindTypeOK, NEW s \in Slots, NEW u \in VpnUsers, NEW p \in Prints,
         Opened(s, u, p)
  PROVE  /\ bindings' \in [Slots -> BindingFiles \cup {NoFile}]
         /\ bindings'[s] = [user |-> u, print |-> p, text |-> "empty"]
         /\ bindings'[s] # NoFile
         /\ \A t \in Slots \ {s} : bindings'[t] = bindings[t]
<1>1. [user |-> u, print |-> p, text |-> "empty"] \in BindingFiles
  BY DEF BindingFiles, Texts
<1> QED  BY <1>1, DeviceBindingAssumption DEF BindTypeOK, Opened

LEMMA NotResting ==
  ASSUME NEW g \in Gates, script[g].step \in ScriptSteps
  PROVE  script[g] # Resting
  BY DEF Resting, ScriptSteps

LEMMA NextType == BindTypeOK /\ ScriptKnows /\ [BindNext]_bindVars => BindTypeOK'
<1> SUFFICES ASSUME BindTypeOK, ScriptKnows, [BindNext]_bindVars PROVE BindTypeOK'
  OBVIOUS
<1>0. /\ bindings \in [Slots -> BindingFiles \cup {NoFile}]
      /\ policy \in Policies \cup {"cut"}
      /\ script \in [Gates -> Scripts \cup {Resting}]
      /\ known \in [VpnUsers -> SUBSET Prints] /\ slips \subseteq VpnUsers
      /\ stops \in 0..MaxStops /\ resets \in 0..MaxResets /\ visits \in 0..MaxVisits
  BY DEF BindTypeOK
<1>1. CASE UNCHANGED bindVars  BY <1>1 DEF bindVars, BindTypeOK
<1>2. ASSUME NEW g \in Gates, NEW u \in VpnUsers, NEW d \in Devices, Connect(g, u, d)
      PROVE  BindTypeOK'
  <2>1. FINGERPRINT(d) \in Prints /\ Checked(d) \in BOOLEAN
    BY Printed DEF Checked
  <2>2. [step |-> IF Checked(d) THEN "find" ELSE "audit", user |-> u,
         print |-> FINGERPRINT(d), checked |-> Checked(d), file |-> NoFile] \in Scripts
    BY <2>1 DEF Scripts, ScriptSteps
  <2>3. script' \in [Gates -> Scripts \cup {Resting}]
    BY <1>0, <1>2, <2>2 DEF Connect
  <2>4. visits' \in 0..MaxVisits
    BY <1>0, <1>2, DeviceBindingAssumption DEF Connect
  <2> QED  BY <1>0, <1>2, <2>3, <2>4 DEF Connect, BindTypeOK
<1>3. ASSUME NEW g \in Gates, FindBinding(g) PROVE BindTypeOK'
  <2>1. script[g] # Resting
    BY <1>3, NotResting DEF FindBinding, ScriptSteps
  <2>2. script[g] \in Scripts
    BY <2>1, Runs
  <2>3. script' \in [Gates -> Scripts \cup {Resting}]
    <3>1. CASE Proceeds(g, "new")
      BY <2>1, <3>1, ProceedsType DEF ScriptSteps
    <3>2. CASE \E s \in Names(script[g].user) :
                 script' = [script EXCEPT ![g].step = "compare", ![g].file = s]
      <4>1. PICK s \in Names(script[g].user) :
                 script' = [script EXCEPT ![g].step = "compare", ![g].file = s]
        BY <3>2
      <4>2. s \in Slots
        BY DEF Names, Files
      <4>3. [script[g] EXCEPT !.step = "compare", !.file = s] \in Scripts
        BY <2>2, <4>2 DEF Scripts, ScriptSteps
      <4> QED  BY <1>0, <4>1, <4>3
    <3> QED  BY <1>3, <3>1, <3>2 DEF FindBinding
  <2>4. slips' \subseteq VpnUsers
    BY <1>0, <1>3, <2>2 DEF FindBinding, Scripts
  <2> QED  BY <1>0, <1>3, <2>3, <2>4 DEF FindBinding, BindTypeOK
<1>4. ASSUME NEW g \in Gates, NewFails(g) PROVE BindTypeOK'
  BY <1>0, <1>4, RestType DEF NewFails, BindTypeOK
<1>5. ASSUME NEW g \in Gates, NEW s \in Slots, NewOpens(g, s) PROVE BindTypeOK'
  <2>1. script[g] # Resting
    BY <1>5, NotResting DEF NewOpens, ScriptSteps
  <2>2. script[g] \in Scripts
    BY <2>1, Runs
  <2>3. [script[g] EXCEPT !.step = "write", !.file = s] \in Scripts
    BY <2>2 DEF Scripts, ScriptSteps
  <2>4. script' \in [Gates -> Scripts \cup {Resting}]
    BY <1>0, <1>5, <2>3 DEF NewOpens
  <2>5. bindings' \in [Slots -> BindingFiles \cup {NoFile}]
    BY <1>5, <2>1, Runs, OpenedType DEF NewOpens
  <2> QED  BY <1>0, <1>5, <2>4, <2>5 DEF NewOpens, BindTypeOK
<1>6. ASSUME NEW g \in Gates, Compare(g) PROVE BindTypeOK'
  <2>1. script[g] # Resting
    BY <1>6, NotResting DEF Compare, ScriptSteps
  <2>2. script' \in [Gates -> Scripts \cup {Resting}]
    BY <1>6, <2>1, ProceedsType, RestType DEF Compare, ScriptSteps
  <2> QED  BY <1>0, <1>6, <2>2 DEF Compare, BindTypeOK
<1>7. ASSUME NEW g \in Gates, UpdateReads(g) PROVE BindTypeOK'
  <2>1. script[g] # Resting
    BY <1>7, NotResting DEF UpdateReads, ScriptSteps
  <2>2. script' \in [Gates -> Scripts \cup {Resting}]
    BY <1>7, <2>1, ProceedsType, RestType DEF UpdateReads, ScriptSteps
  <2> QED  BY <1>0, <1>7, <2>2 DEF UpdateReads, BindTypeOK
<1>8. ASSUME NEW g \in Gates, UpdateOpens(g) PROVE BindTypeOK'
  <2>1. script[g] # Resting
    BY <1>8, NotResting DEF UpdateOpens, ScriptSteps
  <2>2. script[g].user \in VpnUsers /\ script[g].print \in Prints
    BY <2>1, Runs
  <2>3. script' \in [Gates -> Scripts \cup {Resting}]
    BY <1>8, <2>1, ProceedsType DEF UpdateOpens, ScriptSteps
  <2>4. bindings' \in [Slots -> BindingFiles \cup {NoFile}]
    BY <1>8, <2>1, <2>2, OpenedType DEF UpdateOpens, ScriptKnows
  <2>5. slips' \subseteq VpnUsers
    BY <1>0, <1>8, <2>2 DEF UpdateOpens
  <2> QED  BY <1>0, <1>8, <2>3, <2>4, <2>5 DEF UpdateOpens, BindTypeOK
<1>9. ASSUME NEW g \in Gates, Writes(g) PROVE BindTypeOK'
  <2>1. script[g] # Resting
    BY <1>9, NotResting DEF Writes, ScriptSteps
  <2>2. script[g].user \in VpnUsers /\ script[g].print \in Prints
    BY <2>1, Runs
  <2>3. script' \in [Gates -> Scripts \cup {Resting}]
    BY <1>9, <2>1, ProceedsType DEF Writes, ScriptSteps
  <2>4. [user |-> script[g].user, print |-> script[g].print, text |-> "whole"]
          \in BindingFiles
    BY <2>2 DEF BindingFiles, Texts
  <2>5. bindings' \in [Slots -> BindingFiles \cup {NoFile}]
    BY <1>0, <1>9, <2>4 DEF Writes
  <2> QED  BY <1>0, <1>9, <2>3, <2>5 DEF Writes, BindTypeOK
<1>10. ASSUME NEW g \in Gates, Admit(g) PROVE BindTypeOK'
  <2>1. script[g] # Resting
    BY <1>10, NotResting DEF Admit, ScriptSteps
  <2>2. script[g].user \in VpnUsers /\ script[g].print \in Prints
    BY <2>1, Runs
  <2>3. script' \in [Gates -> Scripts \cup {Resting}]
    BY <1>10, RestType DEF Admit
  <2>4. known' \in [VpnUsers -> SUBSET Prints]
    BY <1>0, <1>10, <2>2 DEF Admit
  <2> QED  BY <1>0, <1>10, <2>3, <2>4 DEF Admit, BindTypeOK
<1>11. ASSUME NEW g \in Gates, AuditFails(g) PROVE BindTypeOK'
  BY <1>0, <1>11, RestType DEF AuditFails, BindTypeOK
<1>12. ASSUME NEW g \in Gates, Stopped(g) PROVE BindTypeOK'
  <2>1. script[g] # Resting
    BY <1>12 DEF Stopped
  <2>2. script[g].user \in VpnUsers
    BY <2>1, Runs
  <2>3. script' \in [Gates -> Scripts \cup {Resting}]
    BY <1>12, RestType DEF Stopped
  <2>4. bindings' \in [Slots -> BindingFiles \cup {NoFile}]
    <3>1. CASE bindings' = bindings
      BY <1>0, <3>1
    <3>2. CASE bindings' # bindings
      <4>1. /\ script[g].file \in Slots /\ bindings[script[g].file] # NoFile
            /\ \E t \in {"empty", "named"} :
                   bindings' = [bindings EXCEPT ![script[g].file].text = t]
        BY <1>12, <2>1, <3>2 DEF Stopped, ScriptKnows
      <4>2. PICK t \in {"empty", "named"} :
                   bindings' = [bindings EXCEPT ![script[g].file].text = t]
        BY <4>1
      <4>3. bindings[script[g].file] \in BindingFiles
        BY <1>0, <4>1
      <4>4. [bindings[script[g].file] EXCEPT !.text = t] \in BindingFiles
        BY <4>3 DEF BindingFiles, Texts
      <4> QED  BY <1>0, <4>2, <4>4
    <3> QED  BY <3>1, <3>2
  <2>5. slips' \subseteq VpnUsers
    BY <1>0, <1>12, <2>2 DEF Stopped
  <2>6. stops' \in 0..MaxStops
    BY <1>0, <1>12, DeviceBindingAssumption DEF Stopped
  <2> QED  BY <1>0, <1>12, <2>3, <2>4, <2>5, <2>6 DEF Stopped, BindTypeOK
<1>13. ASSUME NEW u \in VpnUsers, ResetBinding(u) PROVE BindTypeOK'
  <2>1. bindings' \in [Slots -> BindingFiles \cup {NoFile}]
    BY <1>0, <1>13 DEF ResetBinding
  <2>2. known' \in [VpnUsers -> SUBSET Prints]
    BY <1>0, <1>13 DEF ResetBinding
  <2>3. slips' \subseteq VpnUsers
    BY <1>0, <1>13 DEF ResetBinding
  <2>4. resets' \in 0..MaxResets
    BY <1>0, <1>13, DeviceBindingAssumption DEF ResetBinding
  <2> QED  BY <1>0, <1>13, <2>1, <2>2, <2>3, <2>4 DEF ResetBinding, BindTypeOK
<1>14. CASE PolicyOpens
  BY <1>0, <1>14, DeviceBindingAssumption DEF PolicyOpens, BindTypeOK
<1>15. CASE \E m \in Policies : PolicyWritten(m)
  BY <1>0, <1>15 DEF PolicyWritten, BindTypeOK
<1> QED
  BY <1>1, <1>2, <1>3, <1>4, <1>5, <1>6, <1>7, <1>8, <1>9, <1>10, <1>11, <1>12, <1>13,
     <1>14, <1>15 DEF BindNext, ScriptStep

(***************************************************************************)
(* Steps that leave a user alone, and scripts that end without a write.    *)
(***************************************************************************)
LEMMA AsideBound ==
  ASSUME NEW u \in VpnUsers, Bound(u), known'[u] = known[u],
         \A g \in Gates : \/ script'[g] = script[g]
                          \/ ~Active(g, u) /\ ~Active(g, u)',
         \A s \in Slots : \/ bindings'[s] = bindings[s]
                          \/ /\ bindings[s] = NoFile \/ bindings[s].user # u
                             /\ bindings'[s] = NoFile \/ bindings'[s].user # u
  PROVE  Bound(u)'
<1>1. \A g \in Gates : Active(g, u)' <=> Active(g, u)
  BY DEF Active
<1>2. \A g \in Gates : Active(g, u) => script'[g] = script[g]
  OBVIOUS
<1>3. Theirs(u)' = Theirs(u)
  BY <1>1, <1>2 DEF Theirs, Files, Writing
<1>4. \A s \in Theirs(u) : bindings'[s] = bindings[s]
  BY DEF Theirs, Files
<1>5. OneFile(u)'
  BY <1>3 DEF Bound, OneFile
<1>6. HasFile(u)'
  BY <1>1, <1>2, <1>3, <1>4 DEF Bound, HasFile
<1>7. MakesFirst(u)'
  BY <1>1, <1>2, <1>3 DEF Bound, MakesFirst
<1>8. KnownInFile(u)'
  BY <1>3, <1>4 DEF Bound, KnownInFile
<1> QED  BY <1>5, <1>6, <1>7, <1>8 DEF Bound

LEMMA LeavesBound ==
  ASSUME BindInv, NEW g \in Gates, script[g] # Resting, ~Writing(g),
         script' = [script EXCEPT ![g] = Resting],
         bindings' = bindings, NEW u \in VpnUsers, Bound(u), known'[u] = known[u]
  PROVE  Bound(u)'
<1>1. ~Active(g, u)' /\ \A h \in Gates \ {g} : script'[h] = script[h]
  BY RestType DEF BindInv, Active
<1>2. \A h \in Gates \ {g} : Active(h, u)' <=> Active(h, u)
  BY <1>1 DEF Active
<1>3. Theirs(u)' = Theirs(u)
  BY <1>1, <1>2 DEF Theirs, Files, Writing
<1>4. OneFile(u)'
  BY <1>3 DEF Bound, OneFile
<1>5. HasFile(u)'
  BY <1>1, <1>2, <1>3 DEF Bound, HasFile
<1>6. MakesFirst(u)'
  BY <1>1, <1>2, <1>3 DEF Bound, MakesFirst
<1>7. KnownInFile(u)'
  BY <1>3 DEF Bound, KnownInFile
<1> QED  BY <1>4, <1>5, <1>6, <1>7 DEF Bound

LEMMA LeavesKnows ==
  ASSUME BindInv, NEW g \in Gates, script' = [script EXCEPT ![g] = Resting],
         bindings' = bindings
  PROVE  ScriptKnows'
<1>1. script'[g] = Resting /\ \A h \in Gates \ {g} : script'[h] = script[h]
  BY RestType DEF BindInv
<1> QED  BY <1>1 DEF BindInv, ScriptKnows

LEMMA Leaves ==
  ASSUME BindInv, NEW g \in Gates, script[g] # Resting, ~Writing(g),
         script' = [script EXCEPT ![g] = Resting],
         UNCHANGED <<bindings, known, slips>>
  PROVE  ScriptKnows' /\ AllBound'
  BY LeavesKnows, LeavesBound DEF BindInv, AllBound

(***************************************************************************)
(* The scripts, action by action.                                          *)
(***************************************************************************)
LEMMA ConnectKeeps ==
  ASSUME BindInv, NEW g \in Gates, NEW v \in VpnUsers, NEW d \in Devices, Connect(g, v, d)
  PROVE  ScriptKnows' /\ AllBound'
<1>1. CASE script' = script
  <2>1. ScriptKnows'
    BY <1>1 DEF BindInv, ScriptKnows, Connect
  <2>2. AllBound'
    BY <1>1, AsideBound DEF BindInv, AllBound, Connect
  <2> QED  BY <2>1, <2>2
<1>2. CASE script' # script
  <2>1. /\ script[g] = Resting
        /\ script'[g] = [step |-> IF Checked(d) THEN "find" ELSE "audit", user |-> v,
                 print |-> FINGERPRINT(d), checked |-> Checked(d), file |-> NoFile]
        /\ \A h \in Gates \ {g} : script'[h] = script[h]
    BY <1>2 DEF Connect, BindInv, BindTypeOK
  <2>2. /\ script'[g].user = v /\ script'[g].file = NoFile
        /\ script'[g].checked = Checked(d)
        /\ script'[g].step = IF Checked(d) THEN "find" ELSE "audit"
    BY <2>1
  <2>3. NoFile \notin Slots
    BY DeviceBindingAssumption
  <2>4. bindings' = bindings /\ known' = known /\ slips' = slips
    BY DEF Connect
  <2>5. ScriptKnows'
    <3>1. ASSUME NEW h \in Gates, script[h] # Resting, h # g
          PROVE  script'[h] = script[h] /\ bindings' = bindings
      BY <2>1, <2>4, <3>1
    <3>2. Checked(d) \in BOOLEAN
      BY DEF Checked
    <3>3. CASE Checked(d)
      BY <2>1, <2>2, <2>3, <2>4, <3>1, <3>3 DEF BindInv, ScriptKnows
    <3>4. CASE ~Checked(d)
      BY <2>1, <2>2, <2>3, <2>4, <3>1, <3>4 DEF BindInv, ScriptKnows
    <3> QED  BY <3>3, <3>4
  <2>6. ASSUME NEW u \in VpnUsers, Bound(u) PROVE Bound(u)'
    <3>1. Theirs(u)' = Theirs(u)
      BY <2>1, <2>2, <2>4 DEF Theirs, Files, Writing, Active, Resting
    <3>2. OneFile(u)'
      BY <2>6, <3>1 DEF Bound, OneFile
    <3>3. HasFile(u)'
      BY <2>1, <2>2, <2>3, <2>4, <2>6, <3>1 DEF Bound, HasFile, Active
    <3>4. MakesFirst(u)'
      BY <2>1, <2>2, <2>4, <2>6, <3>1 DEF Bound, MakesFirst, Active
    <3>5. KnownInFile(u)'
      BY <2>4, <2>6, <3>1 DEF Bound, KnownInFile
    <3> QED  BY <3>2, <3>3, <3>4, <3>5 DEF Bound
  <2> QED  BY <2>4, <2>5, <2>6 DEF BindInv, AllBound
<1> QED  BY <1>1, <1>2

LEMMA FindKeeps ==
  ASSUME BindInv, NEW g \in Gates, FindBinding(g)
  PROVE  ScriptKnows' /\ AllBound'
<1> DEFINE v == script[g].user
<1>1. script[g] # Resting
  BY NotResting DEF FindBinding, ScriptSteps
<1>2. v \in VpnUsers /\ script[g].checked /\ script[g].file = NoFile
  BY <1>1, Runs DEF BindInv, ScriptKnows, FindBinding
<1>3. bindings' = bindings /\ known' = known /\ slips \subseteq slips'
  BY DEF FindBinding
<1>4. NoFile \notin Slots /\ bindings \in [Slots -> BindingFiles \cup {NoFile}]
  BY DeviceBindingAssumption DEF BindInv, BindTypeOK
<1>5. CASE Names(v) = {} /\ Proceeds(g, "new")
  <2>1. /\ script'[g].step = "new" /\ script'[g].user = v /\ script'[g].checked
        /\ script'[g].file = NoFile /\ script'[g] # Resting
        /\ \A h \in Gates \ {g} : script'[h] = script[h]
    BY <1>1, <1>2, <1>5, ProceedsType DEF BindInv, ScriptSteps
  <2>2. ScriptKnows'
    BY <1>1, <1>2, <1>3, <1>4, <2>1 DEF BindInv, ScriptKnows
  <2>3. ASSUME NEW u \in VpnUsers \ slips' PROVE Bound(u)'
    <3>1. Bound(u)
      BY <1>3 DEF BindInv, AllBound
    <3>2. CASE u # v
      BY <1>3, <2>1, <3>1, <3>2, AsideBound DEF Active
    <3>3. CASE u = v
      <4>1. \A h \in Gates \ {g} : Active(h, u) => ~script[h].checked
        BY <1>1, <1>3, <1>5, <2>3, <3>3 DEF FindBinding, Others, Active
      <4>2. \A h \in Gates : ~(Writing(h) /\ Active(h, u))
        BY <4>1 DEF FindBinding, Writing, Active, BindInv, ScriptKnows
      <4>3. Theirs(u) = {}
        BY <1>4, <1>5, <3>3, <4>2 DEF Theirs, Names, BindingFiles, Texts, Files
      <4>4. \A h \in Gates : ~(Writing(h) /\ Active(h, u))'
        BY <2>1, <4>2 DEF Writing, Active
      <4>5. Theirs(u)' = {}
        BY <1>3, <1>4, <1>5, <3>3, <4>4
           DEF Theirs, Names, BindingFiles, Texts, Files
      <4>6. known'[u] = {}
        BY <1>3, <3>1, <4>3 DEF Bound, KnownInFile
      <4>7. HasFile(u)'
        BY <1>4, <2>1, <3>1, <4>3 DEF Bound, HasFile, Active
      <4>8. MakesFirst(u)'
        BY <2>1, <4>1, <4>5, <4>6
           DEF MakesFirst, Active, BindInv, ScriptKnows
      <4>9. OneFile(u)' /\ KnownInFile(u)'
        BY <4>5, <4>6 DEF OneFile, KnownInFile
      <4> QED  BY <4>7, <4>8, <4>9 DEF Bound
    <3> QED  BY <3>2, <3>3
  <2> QED  BY <2>2, <2>3 DEF AllBound
<1>6. ASSUME NEW s \in Names(v),
             script' = [script EXCEPT ![g].step = "compare", ![g].file = s]
      PROVE  ScriptKnows' /\ AllBound'
  <2>1. s \in Slots /\ bindings[s] # NoFile /\ bindings[s].user = v
        /\ bindings[s].text # "empty"
    BY <1>4 DEF Names, Files
  <2>2. /\ script'[g].step = "compare" /\ script'[g].user = v /\ script'[g].checked
        /\ script'[g].file = s /\ script'[g] # Resting
        /\ \A h \in Gates \ {g} : script'[h] = script[h]
    <3>1. script[g] \in Scripts /\ script \in [Gates -> Scripts \cup {Resting}]
      BY <1>1, Runs DEF BindInv, BindTypeOK
    <3>2. script'[g] = [script[g] EXCEPT !.step = "compare", !.file = s]
      BY <1>6, <3>1
    <3> QED  BY <1>2, <1>6, <3>1, <3>2 DEF Scripts, Resting
  <2>3. ScriptKnows'
    BY <1>1, <1>2, <1>3, <1>4, <2>1, <2>2 DEF BindInv, ScriptKnows
  <2>4. ASSUME NEW u \in VpnUsers \ slips' PROVE Bound(u)'
    <3>1. Bound(u)
      BY <1>3 DEF BindInv, AllBound
    <3>2. CASE u # v
      BY <1>3, <2>2, <3>1, <3>2, AsideBound DEF Active
    <3>3. CASE u = v
      <4>1. Theirs(u)' = Theirs(u)
        BY <1>3, <2>2 DEF Theirs, Files, Writing, Active, FindBinding
      <4>2. s \in Theirs(u)
        BY <2>1, <3>3 DEF Theirs, Files
      <4>3. HasFile(u)'
        BY <1>3, <2>2, <3>1, <4>1, <4>2 DEF Bound, HasFile, Active
      <4>4. \A h \in Gates : Active(h, u) => script[h].step \notin {"new", "write"}
        BY <2>1, <3>1, <4>2
           DEF Bound, MakesFirst, HasFile, OneFile, Active, BindInv, ScriptKnows
      <4>5. MakesFirst(u)'
        BY <2>2, <4>4 DEF MakesFirst, Active
      <4>6. OneFile(u)' /\ KnownInFile(u)'
        BY <1>3, <3>1, <4>1 DEF Bound, OneFile, KnownInFile
      <4> QED  BY <4>3, <4>5, <4>6 DEF Bound
    <3> QED  BY <3>2, <3>3
  <2> QED  BY <2>3, <2>4 DEF AllBound
<1> QED  BY <1>5, <1>6 DEF FindBinding

LEMMA NewKeeps ==
  ASSUME BindInv, NEW g \in Gates, NEW s \in Slots, NewOpens(g, s)
  PROVE  ScriptKnows' /\ AllBound'
<1> DEFINE v == script[g].user
<1>1. script[g] # Resting
  BY NotResting DEF NewOpens, ScriptSteps
<1>2. v \in VpnUsers /\ script[g].print \in Prints /\ script[g].checked
      /\ script[g].file = NoFile
  BY <1>1, Runs DEF BindInv, ScriptKnows, NewOpens
<1>3. known' = known /\ slips' = slips
  BY DEF NewOpens
<1>4. /\ bindings'[s] = [user |-> v, print |-> script[g].print, text |-> "empty"]
      /\ bindings'[s] # NoFile
      /\ \A t \in Slots \ {s} : bindings'[t] = bindings[t]
  BY <1>2, OpenedType DEF NewOpens, BindInv
<1>5. bindings'[s].user = v /\ bindings'[s].print = script[g].print
      /\ bindings'[s].text = "empty" /\ bindings[s] = NoFile
  BY <1>4 DEF NewOpens
<1>6. /\ script'[g].step = "write" /\ script'[g].user = v /\ script'[g].checked
      /\ script'[g].print = script[g].print /\ script'[g].file = s
      /\ script'[g] # Resting
      /\ \A h \in Gates \ {g} : script'[h] = script[h]
  <2>1. script[g] \in Scripts /\ script \in [Gates -> Scripts \cup {Resting}]
    BY <1>1, Runs DEF BindInv, BindTypeOK
  <2>2. script'[g] = [script[g] EXCEPT !.step = "write", !.file = s]
    BY <2>1 DEF NewOpens
  <2> QED  BY <1>2, <2>1, <2>2 DEF Scripts, Resting, NewOpens
<1>7. \A h \in Gates : script[h] # Resting => script[h].file # s
  BY DEF NewOpens
<1>8. ScriptKnows'
  BY <1>1, <1>2, <1>4, <1>5, <1>6, <1>7 DEF BindInv, ScriptKnows
<1>9. ASSUME NEW u \in VpnUsers \ slips' PROVE Bound(u)'
  <2>1. Bound(u)
    BY <1>3 DEF BindInv, AllBound
  <2>2. CASE u # v
    BY <1>3, <1>4, <1>5, <1>6, <2>1, <2>2, AsideBound DEF Active
  <2>3. CASE u = v
    <3>1. Active(g, u) /\ script[g].step = "new"
      BY <1>1, <2>3 DEF Active, NewOpens
    <3>2. known[u] = {} /\ Theirs(u) = {}
          /\ \A h \in Gates \ {g} : Active(h, u) /\ script[h].checked =>
                                        script[h].step = "find"
      BY <2>1, <3>1 DEF Bound, MakesFirst
    <3>3. \A h \in Gates \ {g} : Active(h, u) =>
              script[h].file \notin Slots
              /\ script[h].step \notin {"new", "write", "rewrite"}
      BY <2>1, <3>2 DEF Bound, HasFile, Active, BindInv, ScriptKnows
    <3>4. Theirs(u)' = {s}
      <4>1. s \in Theirs(u)'
        BY <1>4, <1>5, <1>6, <2>3 DEF Theirs, Files, Writing, Active
      <4>2. ASSUME NEW t \in Theirs(u)', t # s PROVE FALSE
        <5>1. t \in Slots /\ bindings[t] # NoFile /\ bindings[t].user = u
              /\ bindings'[t] = bindings[t]
          BY <1>4, <4>2 DEF Theirs, Files
        <5>2. bindings[t].text = "empty"
          BY <3>2, <5>1 DEF Theirs, Files
        <5>3. PICK h \in Gates : (Writing(h) /\ Active(h, u) /\ script[h].file = t)'
          BY <4>2, <5>1, <5>2 DEF Theirs
        <5> QED  BY <1>6, <3>3, <4>2, <5>3 DEF Writing, Active
      <4> QED  BY <4>1, <4>2
    <3>5. HasFile(u)'
      BY <1>5, <1>6, <3>3, <3>4 DEF HasFile, Active
    <3>6. MakesFirst(u)'
      BY <1>3, <1>6, <3>2, <3>3 DEF MakesFirst, Active
    <3>7. OneFile(u)' /\ KnownInFile(u)'
      BY <1>3, <3>2, <3>4 DEF OneFile, KnownInFile
    <3> QED  BY <3>5, <3>6, <3>7 DEF Bound
  <2> QED  BY <2>2, <2>3
<1> QED  BY <1>8, <1>9 DEF AllBound

\* A script that has the file goes on to the next step without a write.
LEMMA GoesOn ==
  ASSUME BindInv, NEW g \in Gates, NEW t \in {"update", "reopen"},
         script[g].step \in {"compare", "update"}, Proceeds(g, t),
         bindings[script[g].file] # NoFile,
         bindings[script[g].file].text = "whole",
         script[g].step = "compare" => bindings[script[g].file].print = script[g].print,
         UNCHANGED <<bindings, known, slips>>
  PROVE  ScriptKnows' /\ AllBound'
<1>1. script[g] # Resting
  BY NotResting DEF ScriptSteps
<1>2. script[g].file \in Slots /\ script[g].checked
  BY <1>1 DEF BindInv, ScriptKnows
<1>3. /\ script'[g].step = t /\ script'[g].user = script[g].user
      /\ script'[g].print = script[g].print /\ script'[g].checked = script[g].checked
      /\ script'[g].file = script[g].file /\ script'[g] # Resting
      /\ \A h \in Gates \ {g} : script'[h] = script[h]
  BY <1>1, ProceedsType DEF BindInv, ScriptSteps
<1>4. ScriptKnows'
  <2>1. bindings' = bindings
    OBVIOUS
  <2>2. \A h \in Gates : /\ script'[h] # Resting <=> script[h] # Resting
                        /\ script'[h].user = script[h].user
                        /\ script'[h].file = script[h].file
                        /\ script'[h].checked = script[h].checked
    BY <1>1, <1>3
  <2>3. t \notin {"find", "new", "audit"}
    OBVIOUS
  <2>4. ASSUME NEW h \in Gates, script'[h] # Resting
        PROVE  /\ script'[h].step \in {"find", "new"} => script'[h].file = NoFile
               /\ script'[h].step \notin {"find", "new", "audit"} =>
                      script'[h].file \in Slots
               /\ script'[h].step # "audit" => script'[h].checked
               /\ script'[h].step = "audit" =>
                      (script'[h].checked <=> script'[h].file \in Slots)
    <3>1. CASE h = g  BY <1>2, <1>3, <2>3, <3>1
    <3>2. CASE h # g  BY <1>3, <2>4, <3>2 DEF BindInv, ScriptKnows
    <3> QED  BY <3>1, <3>2
  <2> QED  BY <2>1, <2>2, <2>4 DEF BindInv, ScriptKnows
<1>5. ASSUME NEW u \in VpnUsers, Bound(u) PROVE Bound(u)'
  <2>1. \A h \in Gates : Active(h, u)' <=> Active(h, u)
    BY <1>1, <1>3 DEF Active
  <2>2. \A h \in Gates : Writing(h)' <=> Writing(h)
    BY <1>3 DEF Writing
  <2>3. \A h \in Gates : script'[h].file = script[h].file
    BY <1>3
  <2>4. Theirs(u)' = Theirs(u)
    BY <2>1, <2>2, <2>3 DEF Theirs, Files
  <2>5. HasFile(u)'
    BY <1>2, <1>3, <1>5, <2>1, <2>4 DEF Bound, HasFile
  <2>6. MakesFirst(u)'
    BY <1>2, <1>3, <1>5, <2>1, <2>4 DEF Bound, MakesFirst
  <2>7. OneFile(u)' /\ KnownInFile(u)'
    BY <1>5, <2>4 DEF Bound, OneFile, KnownInFile
  <2> QED  BY <2>5, <2>6, <2>7 DEF Bound
<1> QED  BY <1>4, <1>5 DEF BindInv, AllBound

LEMMA CompareKeeps ==
  ASSUME BindInv, NEW g \in Gates, Compare(g)
  PROVE  ScriptKnows' /\ AllBound'
<1>1. script[g] # Resting /\ ~Writing(g)
  BY NotResting DEF Compare, ScriptSteps, Writing
<1> QED  BY <1>1, GoesOn, Leaves DEF Compare

LEMMA ReadKeeps ==
  ASSUME BindInv, NEW g \in Gates, UpdateReads(g)
  PROVE  ScriptKnows' /\ AllBound'
<1>1. script[g] # Resting /\ ~Writing(g)
  BY NotResting DEF UpdateReads, ScriptSteps, Writing
<1> QED  BY <1>1, GoesOn, Leaves DEF UpdateReads

LEMMA ReopenKeeps ==
  ASSUME BindInv, NEW g \in Gates, UpdateOpens(g)
  PROVE  ScriptKnows' /\ AllBound'
<1> DEFINE v == script[g].user
<1> DEFINE s == script[g].file
<1>1. script[g] # Resting
  BY NotResting DEF UpdateOpens, ScriptSteps
<1>2. v \in VpnUsers /\ script[g].print \in Prints /\ script[g].checked /\ s \in Slots
  BY <1>1, Runs DEF BindInv, ScriptKnows, UpdateOpens
<1>3. known' = known /\ slips \subseteq slips'
  BY DEF UpdateOpens
<1>4. /\ bindings'[s] = [user |-> v, print |-> script[g].print, text |-> "empty"]
      /\ bindings'[s] # NoFile
      /\ \A t \in Slots \ {s} : bindings'[t] = bindings[t]
  BY <1>2, OpenedType DEF UpdateOpens, BindInv
<1>5. bindings'[s].user = v /\ bindings'[s].print = script[g].print
      /\ bindings'[s].text = "empty"
  BY <1>4
<1>6. /\ script'[g].step = "rewrite" /\ script'[g].user = v /\ script'[g].checked
      /\ script'[g].print = script[g].print /\ script'[g].file = s
      /\ script'[g] # Resting
      /\ \A h \in Gates \ {g} : script'[h] = script[h]
  BY <1>1, <1>2, ProceedsType DEF BindInv, UpdateOpens, ScriptSteps
<1>7. ScriptKnows'
  BY <1>1, <1>2, <1>4, <1>5, <1>6 DEF BindInv, ScriptKnows
<1>8. ASSUME NEW u \in VpnUsers \ slips' PROVE Bound(u)'
  <2>1. Bound(u)
    BY <1>3 DEF BindInv, AllBound
  <2>2. CASE u # v
    <3>1. bindings[s] = NoFile \/ bindings[s].user # u
      BY <1>1, <1>2, <2>2 DEF BindInv, ScriptKnows
    <3> QED  BY <1>3, <1>4, <1>5, <1>6, <2>1, <2>2, <3>1, AsideBound DEF Active
  <2>3. CASE u = v
    <3>1. Active(g, u) /\ script[g].step = "reopen"
      BY <1>1, <2>3 DEF Active, UpdateOpens
    <3>2. s \in Theirs(u) /\ bindings[s].print = script[g].print
      BY <1>2, <2>1, <3>1 DEF Bound, HasFile
    <3>3. Theirs(u) = {s}
      BY <2>1, <3>2 DEF Bound, OneFile
    <3>4. \A h \in Gates : Active(h, u) => script[h].step \notin {"new", "write"}
      BY <1>2, <2>1, <3>1 DEF Bound, MakesFirst
    <3>5. Theirs(u)' = {s}
      <4>1. s \in Theirs(u)'
        BY <1>2, <1>4, <1>5, <1>6, <2>3 DEF Theirs, Files, Writing, Active
      <4>2. ASSUME NEW t \in Theirs(u)', t # s PROVE FALSE
        <5>1. t \in Slots /\ bindings'[t] = bindings[t] /\ t \in Files
              /\ bindings[t].user = u
          BY <1>4, <4>2 DEF Theirs, Files
        <5>2. ~(Writing(g) /\ Active(g, u) /\ script[g].file = t)'
          BY <1>6, <4>2 DEF Writing
        <5>3. t \in Theirs(u)
          BY <1>6, <4>2, <5>1, <5>2 DEF Theirs, Writing, Active
        <5> QED  BY <3>3, <4>2, <5>3
      <4> QED  BY <4>1, <4>2
    <3>6. \A h \in Gates : /\ Active(h, u)' <=> Active(h, u)
                           /\ script'[h].file = script[h].file
                           /\ script'[h].print = script[h].print
      BY <1>1, <1>6 DEF Active
    <3>7. \A h \in Gates : Active(h, u) /\ script[h].file \in Slots =>
              script[h].file = s
      BY <2>1, <3>3 DEF Bound, HasFile
    <3>8. HasFile(u)'
      <4> SUFFICES ASSUME NEW h \in Gates, (Active(h, u) /\ script[h].file \in Slots)'
                   PROVE  /\ s = script'[h].file
                          /\ script'[h].step # "compare" =>
                                 bindings'[s].print = script'[h].print
                          /\ script'[h].step # "write"
        BY <1>5, <3>5 DEF HasFile
      <4>1. Active(h, u) /\ script[h].file = s
        BY <3>6, <3>7
      <4>2. script'[h].step # "write"
        BY <1>6, <3>4, <4>1
      <4>3. script'[h].step # "compare" => bindings'[s].print = script'[h].print
        <5>1. CASE h = g  BY <1>5, <1>6, <5>1
        <5>2. CASE h # g
          BY <1>2, <1>5, <1>6, <2>1, <3>2, <4>1, <5>2 DEF Bound, HasFile
        <5> QED  BY <5>1, <5>2
      <4> QED  BY <3>6, <4>1, <4>2, <4>3
    <3>9. MakesFirst(u)'
      BY <1>6, <3>4, <3>6 DEF MakesFirst
    <3>10. OneFile(u)' /\ KnownInFile(u)'
      BY <1>3, <1>5, <2>1, <3>2, <3>3, <3>5 DEF Bound, OneFile, KnownInFile
    <3> QED  BY <3>8, <3>9, <3>10 DEF Bound
  <2> QED  BY <2>2, <2>3
<1> QED  BY <1>7, <1>8 DEF AllBound

LEMMA AdmitKeeps ==
  ASSUME BindInv, NEW g \in Gates, Admit(g)
  PROVE  ScriptKnows' /\ AllBound'
<1>1. script[g] # Resting /\ ~Writing(g)
  BY NotResting DEF Admit, ScriptSteps, Writing
<1>2. script' = [script EXCEPT ![g] = Resting] /\ bindings' = bindings /\ slips' = slips
  BY DEF Admit
<1>3. script[g].user \in VpnUsers /\ known \in [VpnUsers -> SUBSET Prints]
  BY <1>1, Runs DEF BindInv, BindTypeOK
<1>4. ScriptKnows'
  BY <1>2, LeavesKnows
<1>5. ASSUME NEW u \in VpnUsers, Bound(u) PROVE Bound(u)'
  <2>1. CASE known'[u] = known[u]
    BY <1>1, <1>2, <1>5, <2>1, LeavesBound
  <2>2. CASE known'[u] # known[u]
    <3>1. u = script[g].user /\ script[g].checked
          /\ known'[u] = known[u] \cup {script[g].print}
      BY <1>3, <2>2 DEF Admit
    <3>2. script[g].step = "audit" /\ Active(g, u) /\ script[g].file \in Slots
      BY <1>1, <3>1 DEF Admit, Active, BindInv, ScriptKnows
    <3>3. script'[g] = Resting /\ \A h \in Gates \ {g} : script'[h] = script[h]
      BY <1>2, RestType DEF BindInv
    <3>4. Theirs(u)' = Theirs(u)
      BY <1>1, <1>2, <3>3 DEF Theirs, Files, Writing, Active
    <3>5. \A h \in Gates : Active(h, u) => script[h].step \notin {"new", "write"}
      BY <1>5, <3>1, <3>2 DEF Bound, MakesFirst
    <3>6. MakesFirst(u)'
      BY <3>3, <3>5 DEF MakesFirst, Active
    <3>7. HasFile(u)'
      BY <1>2, <1>5, <3>3, <3>4 DEF Bound, HasFile, Active
    <3>8. KnownInFile(u)'
      BY <1>2, <1>5, <3>1, <3>2, <3>4 DEF Bound, KnownInFile, HasFile
    <3>9. OneFile(u)'
      BY <1>5, <3>4 DEF Bound, OneFile
    <3> QED  BY <3>6, <3>7, <3>8, <3>9 DEF Bound
  <2> QED  BY <2>1, <2>2
<1> QED  BY <1>2, <1>4, <1>5 DEF BindInv, AllBound

LEMMA ResetKeeps ==
  ASSUME BindInv, NEW v \in VpnUsers, ResetBinding(v)
  PROVE  ScriptKnows' /\ AllBound'
<1>1. PICK s \in Slots : /\ bindings[s].user = v /\ bindings[s] # NoFile
                         /\ bindings' = [bindings EXCEPT ![s] = NoFile]
  BY DEF ResetBinding, Names, Files
<1>2. /\ script' = script /\ slips \subseteq slips'
      /\ bindings'[s] = NoFile /\ \A t \in Slots \ {s} : bindings'[t] = bindings[t]
      /\ known'[v] = {} /\ \A u \in VpnUsers \ {v} : known'[u] = known[u]
  BY <1>1 DEF ResetBinding, BindInv, BindTypeOK
<1>3. ScriptKnows'
  BY <1>2 DEF BindInv, ScriptKnows
<1>4. ASSUME NEW u \in VpnUsers \ slips' PROVE Bound(u)'
  <2>1. Bound(u)
    BY <1>2 DEF BindInv, AllBound
  <2>2. CASE u # v
    BY <1>1, <1>2, <2>1, <2>2, AsideBound
  <2>3. CASE u = v
    <3>1. \A g \in Gates : ~Active(g, u)
      BY <1>4, <2>3 DEF ResetBinding, Active
    <3>2. \A g \in Gates : ~Active(g, u)'
      BY <1>2, <3>1 DEF Active
    <3>3. Theirs(u)' \subseteq Theirs(u)
      BY <1>2 DEF Theirs, Files, Writing, Active
    <3>4. OneFile(u)'
      BY <2>1, <3>3 DEF Bound, OneFile
    <3>5. HasFile(u)' /\ MakesFirst(u)' /\ KnownInFile(u)'
      BY <1>2, <2>3, <3>2 DEF HasFile, MakesFirst, KnownInFile
    <3> QED  BY <3>4, <3>5 DEF Bound
  <2> QED  BY <2>2, <2>3
<1> QED  BY <1>3, <1>4 DEF AllBound

LEMMA IdleKeeps ==
  ASSUME BindInv, UNCHANGED <<bindings, script, known, slips>>
  PROVE  ScriptKnows' /\ AllBound'
<1>1. ScriptKnows'
  BY DEF BindInv, ScriptKnows
<1> QED  BY <1>1, AsideBound DEF BindInv, AllBound

LEMMA WriteKeeps ==
  ASSUME BindInv, NEW g \in Gates, Writes(g)
  PROVE  ScriptKnows' /\ AllBound'
<1> DEFINE v == script[g].user
<1> DEFINE s == script[g].file
<1>1. script[g] # Resting /\ script[g].step \in {"write", "rewrite"}
  BY NotResting DEF Writes, ScriptSteps
<1>2. v \in VpnUsers /\ script[g].print \in Prints /\ script[g].checked /\ s \in Slots
  BY <1>1, Runs DEF BindInv, ScriptKnows
<1>3. known' = known /\ slips' = slips
  BY DEF Writes
<1>4. /\ script'[g].step = "audit" /\ script'[g].user = v /\ script'[g].checked
      /\ script'[g].print = script[g].print /\ script'[g].file = s
      /\ script'[g] # Resting
      /\ \A h \in Gates \ {g} : script'[h] = script[h]
  BY <1>1, <1>2, ProceedsType DEF BindInv, Writes, ScriptSteps
<1>5. \A t \in Slots \ {s} : bindings'[t] = bindings[t]
  BY <1>2 DEF Writes, BindInv, BindTypeOK
<1>6. bindings[s] = NoFile => bindings' = bindings
  BY DEF Writes
<1>7. bindings[s] # NoFile =>
        /\ bindings'[s] # NoFile /\ bindings'[s].user = v
        /\ bindings'[s].print = script[g].print /\ bindings'[s].text = "whole"
  <2>1. [user |-> v, print |-> script[g].print, text |-> "whole"] \in BindingFiles
    BY <1>2 DEF BindingFiles, Texts
  <2> QED  BY <1>2, <2>1, DeviceBindingAssumption DEF Writes, BindInv, BindTypeOK
<1>8. bindings[s] # NoFile => bindings[s].user = v
  BY <1>1, <1>2 DEF BindInv, ScriptKnows
<1>9. ScriptKnows'
  BY <1>1, <1>2, <1>4, <1>5, <1>6, <1>7 DEF BindInv, ScriptKnows
<1>10. ASSUME NEW u \in VpnUsers \ slips' PROVE Bound(u)'
  <2>1. Bound(u)
    BY <1>3 DEF BindInv, AllBound
  <2>2. CASE u # v
    BY <1>3, <1>4, <1>5, <1>6, <1>7, <1>8, <2>1, <2>2, AsideBound DEF Active
  <2>3. CASE u = v
    <3>1. Active(g, u)
      BY <1>1, <2>3 DEF Active
    <3>2. s \in Theirs(u) /\ bindings[s].print = script[g].print /\ bindings[s] # NoFile
      BY <1>1, <1>2, <2>1, <3>1 DEF Bound, HasFile, Theirs, Files
    <3>3. Theirs(u) = {s}
      BY <2>1, <3>2 DEF Bound, OneFile
    <3>4. \A h \in Gates : Active(h, u) /\ script[h].step \in {"new", "write"} => h = g
      BY <1>1, <1>2, <2>1, <3>1 DEF Bound, MakesFirst, BindInv, ScriptKnows, Active
    <3>5. Theirs(u)' = {s}
      <4>1. s \in Theirs(u)'
        BY <1>2, <1>7, <2>3, <3>2 DEF Theirs, Files
      <4>2. ASSUME NEW t \in Theirs(u)', t # s PROVE FALSE
        <5>1. t \in Slots /\ bindings'[t] = bindings[t] /\ t \in Files
              /\ bindings[t].user = u
          BY <1>5, <4>2 DEF Theirs, Files
        <5>2. ~(Writing(g) /\ Active(g, u) /\ script[g].file = t)'
          BY <1>4, <4>2 DEF Writing
        <5>3. t \in Theirs(u)
          BY <1>4, <4>2, <5>1, <5>2 DEF Theirs, Writing, Active
        <5> QED  BY <3>3, <4>2, <5>3
      <4> QED  BY <4>1, <4>2
    <3>6. \A h \in Gates : /\ Active(h, u)' <=> Active(h, u)
                           /\ script'[h].file = script[h].file
                           /\ script'[h].print = script[h].print
      BY <1>1, <1>4 DEF Active
    <3>7. HasFile(u)'
      <4> SUFFICES ASSUME NEW h \in Gates, (Active(h, u) /\ script[h].file \in Slots)'
                   PROVE  /\ s = script'[h].file
                          /\ script'[h].step # "compare" =>
                                 bindings'[s].print = script'[h].print
                          /\ script'[h].step # "write"
        BY <1>7, <3>2, <3>5 DEF HasFile
      <4>1. Active(h, u) /\ script[h].file \in Slots
        BY <3>6
      <4>2. script[h].file = s
        BY <2>1, <3>3, <4>1 DEF Bound, HasFile
      <4>3. script'[h].step # "write"
        BY <1>4, <3>4, <4>1
      <4>4. script'[h].step # "compare" => bindings'[s].print = script'[h].print
        <5>1. CASE h = g  BY <1>4, <1>7, <3>2, <5>1
        <5>2. CASE h # g
          BY <1>2, <1>4, <1>7, <2>1, <3>2, <4>1, <4>2, <5>2 DEF Bound, HasFile
        <5> QED  BY <5>1, <5>2
      <4> QED  BY <3>6, <4>2, <4>3, <4>4
    <3>8. MakesFirst(u)'
      BY <1>4, <3>4, <3>6 DEF MakesFirst
    <3>9. OneFile(u)' /\ KnownInFile(u)'
      BY <1>3, <1>7, <2>1, <3>2, <3>3, <3>5 DEF Bound, OneFile, KnownInFile
    <3> QED  BY <3>7, <3>8, <3>9 DEF Bound
  <2> QED  BY <2>2, <2>3
<1> QED  BY <1>9, <1>10 DEF AllBound

\* A write is broken off: the file of a first connection stays without fingerprint.
LEMMA BreakKeeps ==
  ASSUME BindInv, NEW g \in Gates, Stopped(g), Writing(g)
  PROVE  ScriptKnows' /\ AllBound'
<1> DEFINE v == script[g].user
<1> DEFINE s == script[g].file
<1>1. script[g] # Resting /\ script[g].step \in {"write", "rewrite"}
  BY DEF Stopped, Writing
<1>2. v \in VpnUsers /\ script[g].checked /\ s \in Slots
  BY <1>1, Runs DEF BindInv, ScriptKnows
<1>3. known' = known /\ slips \subseteq slips'
      /\ (script[g].step = "rewrite" => v \in slips')
  BY DEF Stopped
<1>4. script'[g] = Resting /\ \A h \in Gates \ {g} : script'[h] = script[h]
  BY RestType DEF Stopped, BindInv
<1>5. bindings[s] = NoFile => bindings' = bindings
  BY DEF Stopped
<1>6. bindings[s] # NoFile => bindings[s].user = v
  BY <1>1, <1>2 DEF BindInv, ScriptKnows
<1>7. /\ \A t \in Slots \ {s} : bindings'[t] = bindings[t]
      /\ bindings[s] # NoFile => bindings'[s] # NoFile /\ bindings'[s].user = v
  <2>1. CASE bindings[s] = NoFile  BY <1>5, <2>1
  <2>2. CASE bindings[s] # NoFile
    <3>1. PICK t \in {"empty", "named"} : bindings' = [bindings EXCEPT ![s].text = t]
      BY <1>1, <2>2 DEF Stopped
    <3>2. bindings[s] \in BindingFiles /\ bindings \in [Slots -> BindingFiles \cup {NoFile}]
      BY <1>2, <2>2 DEF BindInv, BindTypeOK
    <3>3. bindings'[s] = [bindings[s] EXCEPT !.text = t]
          /\ \A r \in Slots \ {s} : bindings'[r] = bindings[r]
      BY <1>2, <3>1, <3>2
    <3>4. [bindings[s] EXCEPT !.text = t] \in BindingFiles
          /\ [bindings[s] EXCEPT !.text = t].user = bindings[s].user
      BY <3>2 DEF BindingFiles, Texts
    <3> QED  BY <1>6, <2>2, <3>3, <3>4, DeviceBindingAssumption
  <2> QED  BY <2>1, <2>2
<1>8. ScriptKnows'
  BY <1>1, <1>2, <1>4, <1>5, <1>6, <1>7 DEF BindInv, ScriptKnows
<1>9. ASSUME NEW u \in VpnUsers \ slips' PROVE Bound(u)'
  <2>1. Bound(u)
    BY <1>3 DEF BindInv, AllBound
  <2>2. CASE u # v
    BY <1>3, <1>4, <1>5, <1>6, <1>7, <2>1, <2>2, AsideBound DEF Active, Resting
  <2>3. CASE u = v
    <3>1. Active(g, u) /\ script[g].step = "write"
      BY <1>1, <1>3, <1>9, <2>3 DEF Active
    <3>2. known[u] = {} /\ s \in Theirs(u)
          /\ \A h \in Gates \ {g} : Active(h, u) /\ script[h].checked =>
                                        script[h].step = "find"
      BY <1>2, <2>1, <3>1 DEF Bound, MakesFirst, HasFile
    <3>3. Theirs(u) = {s}
      BY <2>1, <3>2 DEF Bound, OneFile
    <3>4. \A h \in Gates \ {g} : Active(h, u) =>
              script[h].file \notin Slots
              /\ script[h].step \notin {"new", "write", "rewrite"}
      BY <3>2, DeviceBindingAssumption DEF Active, BindInv, ScriptKnows
    <3>5. \A h \in Gates : ~(Writing(h) /\ Active(h, u))'
      BY <1>4, <3>4 DEF Writing, Active
    <3>6. Theirs(u)' \subseteq {s}
      <4> SUFFICES ASSUME NEW t \in Theirs(u)', t # s PROVE FALSE
        OBVIOUS
      <4>1. t \in Files /\ bindings[t].user = u /\ bindings[t].text # "empty"
        BY <1>7, <3>5 DEF Theirs, Files
      <4>2. t \in Theirs(u)
        BY <4>1 DEF Theirs
      <4> QED  BY <3>3, <4>2
    <3>7. HasFile(u)' /\ MakesFirst(u)'
      BY <1>4, <3>4 DEF HasFile, MakesFirst, Active
    <3>8. OneFile(u)' /\ KnownInFile(u)'
      BY <1>3, <3>2, <3>6 DEF OneFile, KnownInFile
    <3> QED  BY <3>7, <3>8 DEF Bound
  <2> QED  BY <2>2, <2>3
<1> QED  BY <1>8, <1>9 DEF AllBound

LEMMA StopKeeps ==
  ASSUME BindInv, NEW g \in Gates, Stopped(g)
  PROVE  ScriptKnows' /\ AllBound'
<1>1. CASE Writing(g)  BY <1>1, BreakKeeps
<1>2. CASE ~Writing(g)
  <2>1. script[g] # Resting /\ script' = [script EXCEPT ![g] = Resting]
        /\ UNCHANGED <<bindings, known, slips>>
    BY <1>2 DEF Stopped, Writing
  <2> QED  BY <1>2, <2>1, Leaves
<1> QED  BY <1>1, <1>2

(***************************************************************************)
(* The invariant and the theorem.                                          *)
(***************************************************************************)
LEMMA InitBindInv == BindInit => BindInv
<1> SUFFICES ASSUME BindInit PROVE BindInv
  OBVIOUS
<1>1. BindTypeOK
  BY DeviceBindingAssumption DEF BindInit, BindTypeOK
<1>2. ScriptKnows
  BY DEF BindInit, ScriptKnows
<1>3. AllBound
  BY DEF BindInit, AllBound, Bound, OneFile, HasFile, MakesFirst, KnownInFile, Theirs,
         Files, Active
<1> QED  BY <1>1, <1>2, <1>3 DEF BindInv

LEMMA NextBindInv == BindInv /\ [BindNext]_bindVars => BindInv'
<1> SUFFICES ASSUME BindInv, [BindNext]_bindVars PROVE BindInv'
  OBVIOUS
<1>1. BindTypeOK'
  BY NextType DEF BindInv
<1>2. CASE UNCHANGED bindVars
  BY <1>1, <1>2, IdleKeeps DEF bindVars, BindInv
<1>3. ASSUME NEW g \in Gates, ScriptStep(g) PROVE BindInv'
  <2>1. CASE \E u \in VpnUsers, d \in Devices : Connect(g, u, d)
    BY <1>1, <2>1, ConnectKeeps DEF BindInv
  <2>2. CASE FindBinding(g)
    BY <1>1, <2>2, FindKeeps DEF BindInv
  <2>3. CASE NewFails(g) \/ AuditFails(g)
    <3>1. script[g] # Resting /\ ~Writing(g)
      BY <2>3, NotResting DEF NewFails, AuditFails, Writing, ScriptSteps
    <3> QED  BY <1>1, <2>3, <3>1, Leaves DEF NewFails, AuditFails, BindInv
  <2>4. CASE \E s \in Slots : NewOpens(g, s)
    BY <1>1, <2>4, NewKeeps DEF BindInv
  <2>5. CASE Compare(g)
    BY <1>1, <2>5, CompareKeeps DEF BindInv
  <2>6. CASE UpdateReads(g)
    BY <1>1, <2>6, ReadKeeps DEF BindInv
  <2>7. CASE UpdateOpens(g)
    BY <1>1, <2>7, ReopenKeeps DEF BindInv
  <2>8. CASE Writes(g)
    BY <1>1, <2>8, WriteKeeps DEF BindInv
  <2>9. CASE Admit(g)
    BY <1>1, <2>9, AdmitKeeps DEF BindInv
  <2>10. CASE Stopped(g)
    BY <1>1, <2>10, StopKeeps DEF BindInv
  <2> QED
    BY <1>3, <2>1, <2>2, <2>3, <2>4, <2>5, <2>6, <2>7, <2>8, <2>9, <2>10 DEF ScriptStep
<1>4. ASSUME NEW u \in VpnUsers, ResetBinding(u) PROVE BindInv'
  BY <1>1, <1>4, ResetKeeps DEF BindInv
<1>5. CASE PolicyOpens \/ \E m \in Policies : PolicyWritten(m)
  BY <1>1, <1>5, IdleKeeps DEF PolicyOpens, PolicyWritten, BindInv
<1> QED  BY <1>2, <1>3, <1>4, <1>5 DEF BindNext

LEMMA InvOneDevice == BindInv => OneDevice
<1> SUFFICES ASSUME BindInv, NEW u \in VpnUsers \ slips PROVE Cardinality(known[u]) <= 1
  BY DEF OneDevice
<1>1. OneFile(u) /\ KnownInFile(u)
  BY DEF BindInv, AllBound, Bound
<1>2. \A p, q \in known[u] : p = q
  BY <1>1 DEF OneFile, KnownInFile
<1>3. CASE known[u] = {}
  BY <1>3, FS_EmptySet
<1>4. CASE known[u] # {}
  <2>1. PICK p \in known[u] : TRUE
    BY <1>4
  <2>2. known[u] = {p}
    BY <1>2, <2>1
  <2> QED  BY <2>2, FS_Singleton
<1> QED  BY <1>3, <1>4

\* One device per user, for any number of instances, users, devices and files: between
\* two resets the script admits one fingerprint at most of a user of whom no connection
\* ran into another one, a reset or a killed rewrite (device-bind.sh).
THEOREM UserHasOneDevice == BindSpec => []OneDevice
<1>1. BindSpec => []BindInv
  BY InitBindInv, NextBindInv, PTL DEF BindSpec
<1> QED  BY <1>1, InvOneDevice, PTL

(***************************************************************************)
(* UserConsole: what the report of a job says                              *)
(***************************************************************************)

JobRecord ==
    [running : BOOLEAN, todo : Seq(Logins), created : Seq(Logins),
     result : {"none", "ok", "failed"}, made : SUBSET Logins]

\* What a job has created and what it counts, until its thread ends and after.
JobCounts(j) ==
    /\ j \in JobRecord
    /\ ToSet(j.created) \subseteq j.made
    /\ j.result # "failed" => j.made \subseteq ToSet(j.created)
    /\ \E x : j.made \ ToSet(j.created) \subseteq {x}

\* A report of one kind.
TrueOfJob(r) ==
    /\ r.created \subseteq r.made
    /\ r.ok => r.made \subseteq r.created
    /\ \E x : r.made \ r.created \subseteq {x}
    /\ r.ok <=> r.failed = 0

ReportInv ==
    /\ DOMAIN job = Kinds /\ DOMAIN report = Kinds
    /\ \A k \in Kinds : JobCounts(job[k]) /\ TrueOfJob(report[k])
    /\ orphan # Nobody => JobCounts(orphan)

LEMMA AppendedNames ==
    ASSUME NEW s \in Seq(Logins), NEW u \in Logins
    PROVE  /\ Append(s, u) \in Seq(Logins)
           /\ ToSet(Append(s, u)) = ToSet(s) \cup {u}
  <1>1. /\ Append(s, u) \in Seq(Logins) /\ Len(Append(s, u)) = Len(s) + 1
        /\ \A i \in 1..Len(s) : Append(s, u)[i] = s[i]
        /\ Append(s, u)[Len(s) + 1] = u
    OBVIOUS
  <1>2. Len(s) \in Nat
    OBVIOUS
  <1>3. 1..(Len(s) + 1) = (1..Len(s)) \cup {Len(s) + 1}
    BY <1>2
  <1> QED BY <1>1, <1>2, <1>3 DEF ToSet

LEMMA NoJobCounts == JobCounts(NoJob)
  <1>1. <<>> \in Seq(Logins) /\ ToSet(<<>>) = {}
    BY DEF ToSet
  <1> QED BY <1>1 DEF JobCounts, JobRecord, NoJob

\* Whatever a turn of the thread does, the job still counts what it made.
LEMMA TurnCounts ==
    ASSUME NEW j, JobCounts(j), j.result = "none", NEW o \in Outcomes(j)
    PROVE  JobCounts(o.after)
  <1>1. CASE j.todo = <<>>
    <2>1. o.after = [j EXCEPT !.result = "ok"]
      BY <1>1 DEF Outcomes, Finished
    <2>2. o.after \in JobRecord
      BY <2>1 DEF JobCounts, JobRecord
    <2>3. o.after.made = j.made /\ o.after.created = j.created
      BY <2>1 DEF JobCounts, JobRecord
    <2> QED BY <2>2, <2>3 DEF JobCounts
  <1>2. CASE j.todo # <<>>
    <2> DEFINE name == Head(j.todo)
               raised == [after |-> CreateRaises(j), new |-> {}, fault |-> 0]
               stored == [CreateRaises(j) EXCEPT !.made = @ \cup {name}]
    <2>1. name \in Logins /\ Tail(j.todo) \in Seq(Logins)
      BY <1>2 DEF JobCounts, JobRecord
    <2>2. /\ Append(j.created, name) \in Seq(Logins)
          /\ ToSet(Append(j.created, name)) = ToSet(j.created) \cup {name}
      BY <2>1, AppendedNames DEF JobCounts, JobRecord
    <2>3. j.made = ToSet(j.created)
      BY DEF JobCounts
    <2>4. JobCounts(CreateRaises(j))
      <3>1. CreateRaises(j) \in JobRecord
        BY DEF JobCounts, JobRecord, CreateRaises, Finished
      <3>2. CreateRaises(j).made = j.made /\ CreateRaises(j).created = j.created
        BY DEF JobCounts, JobRecord, CreateRaises, Finished
      <3> QED BY <2>3, <3>1, <3>2 DEF JobCounts
    <2>5. JobCounts(Created(j))
      <3>1. Created(j) \in JobRecord
        BY <2>1, <2>2 DEF JobCounts, JobRecord, Created
      <3>2. /\ Created(j).made = j.made \cup {name}
            /\ Created(j).created = Append(j.created, name)
        BY DEF JobCounts, JobRecord, Created
      <3> QED BY <2>2, <2>3, <3>1, <3>2 DEF JobCounts
    <2>6. JobCounts(stored)
      <3>1. stored \in JobRecord
        BY <2>1 DEF JobCounts, JobRecord, CreateRaises, Finished
      <3>2. /\ stored.made = j.made \cup {name} /\ stored.created = j.created
            /\ stored.result = "failed"
        BY DEF JobCounts, JobRecord, CreateRaises, Finished
      <3>3. (j.made \cup {name}) \ ToSet(j.created) \subseteq {name}
        BY <2>3
      <3> QED BY <2>3, <3>1, <3>2, <3>3 DEF JobCounts
    <2>7. o \in {raised, [raised EXCEPT !.fault = 1],
                 [after |-> Created(j), new |-> {name}, fault |-> 0],
                 [after |-> stored, new |-> {name}, fault |-> 1]}
      BY <1>2 DEF Outcomes
    <2>8. o.after \in {CreateRaises(j), Created(j), stored}
      BY <2>7
    <2> QED BY <2>4, <2>5, <2>6, <2>8
  <1> QED BY <1>1, <1>2

LEMMA ReportOfCounts ==
    ASSUME NEW j, JobCounts(j), j.result # "none"
    PROVE  TrueOfJob(ReportOf(j))
  <1>1. Len(j.todo) \in Nat
    BY DEF JobCounts, JobRecord
  <1>2. ReportOf(j).created = ToSet(j.created) /\ ReportOf(j).made = j.made
        /\ ReportOf(j).ok = (j.result = "ok")
    BY DEF ReportOf
  <1>3. ReportOf(j).failed =
          IF j.result = "ok" THEN 0 ELSE IF Len(j.todo) > 1 THEN Len(j.todo) ELSE 1
    BY DEF ReportOf
  <1>4. CASE j.result = "ok"
    <2>1. ReportOf(j).failed = 0
      BY <1>3, <1>4
    <2>2. j.made \subseteq ToSet(j.created) /\ ToSet(j.created) \subseteq j.made
      BY <1>4 DEF JobCounts
    <2> QED BY <1>2, <1>4, <2>1, <2>2 DEF TrueOfJob
  <1>5. CASE j.result # "ok"
    <2>1. ReportOf(j).failed # 0
      BY <1>1, <1>3, <1>5
    <2>2. /\ ToSet(j.created) \subseteq j.made
          /\ \E x : j.made \ ToSet(j.created) \subseteq {x}
      BY DEF JobCounts
    <2> QED BY <1>2, <1>5, <2>1, <2>2, Zenon DEF TrueOfJob
  <1> QED BY <1>4, <1>5

LEMMA ReportInit == UserInit => ReportInv
  <1>1. TrueOfJob(NoReport)
    BY DEF TrueOfJob, NoReport
  <1> QED BY <1>1, NoJobCounts DEF UserInit, ReportInv

LEMMA ReportStep ==
    ASSUME ReportInv, [UserNext]_userVars
    PROVE  ReportInv'
  <1>1. CASE UNCHANGED userVars
    BY <1>1 DEF userVars, ReportInv, JobCounts, TrueOfJob
  <1>2. CASE ListMoves
    <2>1. UNCHANGED <<job, orphan, report>>
      BY <1>2 DEF ListMoves, RefreshQueries, RefreshReads, RefreshDone, RefreshFails,
                  TryAgain, ToPage, ToSize, AskFilter, AskTicks, Answered, AnswerLost,
                  ListTurn
    <2> QED BY <2>1 DEF ReportInv, JobCounts, TrueOfJob
  <1>3. ASSUME NEW u \in Logins, DeleteUser(u)
        PROVE  ReportInv'
    <2>1. TrueOfJob(NoReport)
      BY DEF TrueOfJob, NoReport
    <2>2. /\ job' = [k \in Kinds |-> NoJob] /\ report' = [k \in Kinds |-> NoReport]
          /\ orphan' = Nobody \/ \E k \in Kinds : orphan' = job[k]
      BY <1>3 DEF DeleteUser
    <2> QED BY <2>1, <2>2, NoJobCounts DEF ReportInv
  <1>4. CASE UserMoves /\ ~\E u \in Logins : DeleteUser(u)
    <2>1. UNCHANGED <<job, orphan, report>>
      BY <1>4 DEF UserMoves, ToggleUser, OtherProcess, BatchSetStatus, BatchDeleteUsers,
                  BatchOther, BatchReset, Called
    <2> QED BY <2>1 DEF ReportInv, JobCounts, TrueOfJob
  <1>5. ASSUME NEW k \in Kinds, JobWorks(k)
        PROVE  ReportInv'
    <2>1. PICK o \in Outcomes(job[k]) :
            Work(job[k], o) /\ job' = [job EXCEPT ![k] = o.after]
      BY <1>5 DEF JobWorks
    <2>2. JobCounts(o.after)
      BY <2>1, TurnCounts DEF ReportInv, Work
    <2> QED BY <1>5, <2>1, <2>2 DEF JobWorks, ReportInv
  <1>6. ASSUME NEW k \in Kinds, PollJob(k)
        PROVE  ReportInv'
    <2>1. TrueOfJob(ReportOf(job[k]))
      BY <1>6, ReportOfCounts DEF PollJob, ReportInv
    <2> QED BY <1>6, <2>1, NoJobCounts DEF PollJob, ReportInv
  <1>7. ASSUME NEW k \in Kinds, NEW b \in Batches, StartJob(k, b)
        PROVE  ReportInv'
    <2>1. b \in Seq(Logins)
      BY UserConsoleAssumption
    <2>2. JobCounts([NoJob EXCEPT !.running = TRUE, !.todo = b])
      <3> DEFINE j == [NoJob EXCEPT !.running = TRUE, !.todo = b]
      <3>1. NoJob \in JobRecord /\ NoJob.made = {} /\ NoJob.created = <<>>
        BY NoJobCounts DEF JobCounts, NoJob
      <3>2. j \in JobRecord
        BY <2>1, <3>1 DEF JobRecord
      <3>3. j.made = {} /\ j.created = <<>>
        BY <3>1 DEF JobRecord
      <3>4. ToSet(<<>>) = {}
        BY DEF ToSet
      <3>5. ToSet(j.created) = {} /\ j.made \ ToSet(j.created) \subseteq {0}
        BY <3>3, <3>4
      <3> QED BY <3>2, <3>3, <3>5 DEF JobCounts
    <2> QED BY <1>7, <2>2 DEF StartJob, ReportInv
  <1>8. CASE OrphanWorks
    <2>1. PICK o \in Outcomes(orphan) :
            Work(orphan, o)
            /\ orphan' = IF o.after.result = "none" THEN o.after ELSE Nobody
      BY <1>8 DEF OrphanWorks
    <2>2. JobCounts(o.after)
      BY <1>8, <2>1, TurnCounts DEF ReportInv, Work, OrphanWorks
    <2> QED BY <1>8, <2>1, <2>2 DEF OrphanWorks, ReportInv
  <1> QED BY <1>1, <1>2, <1>3, <1>4, <1>5, <1>6, <1>7, <1>8 DEF UserNext, UserMoves, JobMoves

LEMMA ReportSays == ReportInv => ReportTrue
  <1> SUFFICES ASSUME ReportInv, NEW k \in Kinds
               PROVE  /\ report[k].created \subseteq report[k].made
                      /\ Cardinality(report[k].made \ report[k].created)
                           <= (IF report[k].ok THEN 0 ELSE 1)
                      /\ report[k].ok <=> report[k].failed = 0
    BY DEF ReportTrue
  <1> DEFINE over == report[k].made \ report[k].created
  <1>1. TrueOfJob(report[k])
    BY DEF ReportInv
  <1>2. report[k].ok => over = {}
    BY <1>1 DEF TrueOfJob
  <1>3. PICK x : over \subseteq {x}
    BY <1>1 DEF TrueOfJob
  <1>4. over = {} \/ over = {x}
    BY <1>3
  <1>5. Cardinality({}) = 0 /\ Cardinality({x}) = 1
    BY FS_EmptySet, FS_Singleton
  <1> QED BY <1>1, <1>2, <1>4, <1>5 DEF TrueOfJob

\* A report of a job of the page of the users says what its thread has done: every name
\* it counts was created, at most one more was, and only where it says it broke off.  For
\* any logins, lists and number of jobs, in whatever order the page is left and polls.
THEOREM ReportsAreTrue == UserSpec => []ReportTrue
  <1>1. UserSpec => []ReportInv
    BY ReportInit, ReportStep, PTL DEF UserSpec
  <1> QED BY <1>1, ReportSays, PTL

(***************************************************************************)
(* RuleConsole: rows that are shown answer the query                       *)
(***************************************************************************)

IsQuery(q) == q = [page |-> q.page, size |-> q.size, filter |-> q.filter]

LoadFields == {"step", "current", "asked", "rows", "total", "raw"}

\* What a load that counts knows of the query.
KeepsUp(l) ==
    /\ l.step \in {"timer", "names", "read", "again", "done"}
    /\ l.step \in {"read", "done"} => l.asked = query
    /\ l.step = "again" => IsQuery(l.asked) /\ l.asked.filter = query.filter

\* The one load that counts turns the spinner, and nothing is shown meanwhile.
OneCounts ==
    /\ \A l, k \in loads : l.current /\ k.current => l = k
    /\ \A l \in loads : l.current => KeepsUp(l) /\ busy
    /\ busy => (\E l \in loads : l.current) /\ grid = NoGrid
    /\ grid # NoGrid => /\ DOMAIN grid = {"rows", "asked"}
                        /\ grid.asked = query

ListInv ==
    /\ IsQuery(query)
    /\ \A l \in loads : DOMAIN l = LoadFields
    /\ ~centre => \A l \in loads : ~l.current
    /\ "clamped" \notin odd /\ centre => OneCounts

LEMMA ListInit == RuleInit => ListInv
  <1> SUFFICES ASSUME RuleInit PROVE ListInv
    OBVIOUS
  <1> DEFINE l == [step |-> "timer", current |-> TRUE, asked |-> query, rows |-> <<>>,
                   total |-> 0, raw |-> NoRaw]
  <1>1. loads = {l} /\ l.current /\ l.step = "timer" /\ DOMAIN l = LoadFields
    BY DEF RuleInit, LoadFields
  <1>2. IsQuery(query) /\ centre /\ busy /\ grid = NoGrid
    BY DEF RuleInit, IsQuery
  <1>3. KeepsUp(l)
    BY <1>1 DEF KeepsUp
  <1> HIDE DEF l
  <1> QED BY <1>1, <1>2, <1>3 DEF ListInv, OneCounts

\* Whatever was there, a load that has just begun is the one that counts.
LEMMA ReloadCounts ==
    ASSUME ListInv, NEW q, IsQuery(q), Reload(q), centre' \/ ~centre
    PROVE  ListInv'
  <1>1. query' = q
    BY DEF Reload
  <1>2. CASE centre'
    <2> DEFINE l == NewLoad(q)
    <2>1. /\ loads' = Overtaken \cup {l} /\ busy' = TRUE /\ grid' = NoGrid
      BY <1>2 DEF Reload
    <2>2. l.current /\ l.step = "timer" /\ DOMAIN l = LoadFields
      BY DEF NewLoad, LoadFields
    <2>3. \A k \in Overtaken : DOMAIN k = LoadFields /\ ~k.current
      BY DEF Overtaken, ListInv, LoadFields
    <2>4. KeepsUp(l)'
      BY <2>2 DEF KeepsUp, NewLoad
    <2> HIDE DEF l
    <2>5. OneCounts'
      BY <2>1, <2>2, <2>3, <2>4 DEF OneCounts
    <2> QED BY <1>1, <1>2, <2>1, <2>2, <2>3, <2>5 DEF ListInv, IsQuery
  <1>3. CASE ~centre'
    BY <1>1, <1>3 DEF Reload, ListInv, IsQuery
  <1> QED BY <1>2, <1>3

\* Steps that leave the list and what is known of it alone.
LEMMA ListRests ==
    ASSUME ListInv, UNCHANGED <<query, busy, loads, grid>>, odd \subseteq odd',
           centre' = centre
    PROVE  ListInv'
  BY DEF ListInv, IsQuery, OneCounts, KeepsUp

LEMMA LoadKeeps ==
    ASSUME ListInv, LoadStep
    PROVE  ListInv'
  <1>1. PICK l \in loads : LoadBegins(l) \/ LoadNames(l) \/ LoadPage(l) \/ LoadAgain(l)
                           \/ LoadDone(l) \/ LoadFails(l)
    BY DEF LoadStep
  <1>2. DOMAIN l = LoadFields
    BY DEF ListInv
  <1>0. CASE LoadBegins(l)
    <2> DEFINE k == [l EXCEPT !.step = "names"]
    <2>1. DOMAIN k = LoadFields /\ k.current = l.current /\ k.step = "names"
      BY <1>2 DEF LoadFields
    <2>2. loads' = (loads \ {l}) \cup {k}
      BY <1>0 DEF LoadBegins, Replaced
    <2> HIDE DEF k
    <2>3. OneCounts => OneCounts'
      BY <1>0, <2>1, <2>2 DEF LoadBegins, OneCounts, KeepsUp
    <2> QED BY <1>0, <2>1, <2>2, <2>3 DEF LoadBegins, ListInv, IsQuery
  <1>3. CASE LoadNames(l)
    <2> DEFINE k == [l EXCEPT !.step = "read", !.asked = query]
    <2>1. /\ DOMAIN k = LoadFields /\ k.current = l.current /\ k.step = "read"
          /\ k.asked = query
      BY <1>2 DEF LoadFields
    <2>2. loads' = (loads \ {l}) \cup {k}
      BY <1>3 DEF LoadNames, Replaced
    <2> HIDE DEF k
    <2>3. OneCounts => OneCounts'
      BY <1>3, <2>1, <2>2 DEF LoadNames, OneCounts, KeepsUp
    <2> QED BY <1>3, <2>1, <2>2, <2>3 DEF LoadNames, ListInv, IsQuery
  <1>4. CASE LoadPage(l)
    <2> DEFINE last == PagesOf(Cardinality(Matching(l.asked.filter)), query.size)
               a == [l EXCEPT !.step = "again"]
               d == Answer(l, l.asked)
    <2>1. CASE query.page > last
      <3>1. /\ DOMAIN a = LoadFields /\ a.current = l.current /\ a.step = "again"
            /\ a.asked = l.asked
        BY <1>2 DEF LoadFields
      <3>2. /\ loads' = (loads \ {l}) \cup {a} /\ query' = [query EXCEPT !.page = last]
            /\ odd' = IF l.current THEN odd ELSE odd \cup {"clamped"}
            /\ l.step = "read"
        BY <1>4, <2>1 DEF LoadPage, Replaced
      <3>3. IsQuery(query') /\ query'.filter = query.filter
        BY <3>2 DEF ListInv, IsQuery
      <3> HIDE DEF a
      <3>4. ASSUME OneCounts, l.current, centre PROVE OneCounts'
        <4>1. busy /\ grid = NoGrid /\ l.asked = query /\ \A k \in loads : k.current => k = l
          BY <3>2, <3>4 DEF OneCounts, KeepsUp
        <4>2. \A k \in loads' : k.current => k = a
          BY <3>2, <4>1
        <4>3. KeepsUp(a)'
          BY <3>1, <3>3, <4>1 DEF KeepsUp, ListInv
        <4>4. busy' = busy /\ grid' = grid
          BY <1>4 DEF LoadPage
        <4> QED BY <3>1, <3>2, <3>4, <4>1, <4>2, <4>3, <4>4 DEF OneCounts
      <3> QED BY <1>4, <3>1, <3>2, <3>3, <3>4 DEF LoadPage, ListInv
    <2>2. CASE ~(query.page > last)
      <3>1. /\ DOMAIN d = LoadFields /\ d.current = l.current /\ d.step = "done"
            /\ d.asked = l.asked
        BY <1>2 DEF LoadFields, Answer
      <3>2. /\ loads' = (loads \ {l}) \cup {d} /\ UNCHANGED <<query, busy, grid, centre, odd>>
            /\ l.step = "read"
        BY <1>4, <2>2 DEF LoadPage, Replaced
      <3> HIDE DEF d
      <3>3. OneCounts => OneCounts'
        BY <3>1, <3>2 DEF OneCounts, KeepsUp
      <3> QED BY <3>1, <3>2, <3>3 DEF ListInv, IsQuery
    <2> QED BY <2>1, <2>2
  <1>5. CASE LoadAgain(l)
    <2> DEFINE q == [l.asked EXCEPT !.page = query.page, !.size = query.size]
               d == Answer(l, q)
    <2>1. /\ DOMAIN d = LoadFields /\ d.current = l.current /\ d.step = "done"
          /\ d.asked = q
      BY <1>2 DEF LoadFields, Answer
    <2>2. /\ loads' = (loads \ {l}) \cup {d} /\ UNCHANGED <<query, busy, grid, centre, odd>>
          /\ l.step = "again"
      BY <1>5 DEF LoadAgain, Replaced
    <2>3. IsQuery(l.asked) /\ l.asked.filter = query.filter => q = query
      BY DEF ListInv, IsQuery
    <2> HIDE DEF d, q
    <2>4. OneCounts => OneCounts'
      BY <2>1, <2>2, <2>3 DEF OneCounts, KeepsUp
    <2> QED BY <2>1, <2>2, <2>4 DEF ListInv, IsQuery
  <1>6. CASE LoadDone(l)
    <2>1. loads' = loads \ {l} /\ UNCHANGED <<query, centre>> /\ odd \subseteq odd'
          /\ l.step = "done"
      BY <1>6 DEF LoadDone
    <2>2. CASE Counts(l)
      <3>1. busy' = FALSE /\ (grid' = NoGrid \/ \E s : grid' = [rows |-> s, asked |-> l.asked])
        BY <1>6, <2>2 DEF LoadDone, Render
      <3>2. "clamped" \notin odd => \A k \in loads' : ~k.current
        BY <2>1, <2>2 DEF Counts, ListInv, OneCounts
      <3>3. "clamped" \notin odd => l.asked = query
        BY <2>1, <2>2 DEF Counts, ListInv, OneCounts, KeepsUp
      <3>4. "clamped" \notin odd => OneCounts'
        BY <2>1, <3>1, <3>2, <3>3 DEF OneCounts
      <3> QED BY <2>1, <3>4 DEF ListInv, IsQuery
    <2>3. CASE ~Counts(l)
      <3>1. UNCHANGED <<busy, grid, odd>>
        BY <1>6, <2>3 DEF LoadDone
      <3>2. ~l.current
        BY <2>3 DEF Counts, ListInv
      <3>3. OneCounts => OneCounts'
        BY <2>1, <3>1, <3>2 DEF OneCounts, KeepsUp
      <3> QED BY <2>1, <3>1, <3>3 DEF ListInv, IsQuery
    <2> QED BY <2>2, <2>3
  <1>7. CASE LoadFails(l)
    <2>1. loads' = loads \ {l} /\ UNCHANGED <<query, centre, odd>>
      BY <1>7 DEF LoadFails
    <2>2. CASE l.current
      <3>1. busy' = FALSE /\ grid' = NoGrid
        BY <1>7, <2>2 DEF LoadFails
      <3>2. OneCounts => OneCounts'
        BY <2>1, <2>2, <3>1 DEF OneCounts
      <3> QED BY <2>1, <3>2 DEF ListInv, IsQuery
    <2>3. CASE ~l.current
      <3>1. UNCHANGED <<busy, grid>>
        BY <1>7, <2>3 DEF LoadFails
      <3>2. OneCounts => OneCounts'
        BY <2>1, <2>3, <3>1 DEF OneCounts, KeepsUp
      <3> QED BY <2>1, <3>2 DEF ListInv, IsQuery
    <2> QED BY <2>2, <2>3
  <1> QED BY <1>0, <1>1, <1>3, <1>4, <1>5, <1>6, <1>7

\* The query with another page, and another page size or filter.
LEMMA QueryMoves ==
    ASSUME NEW q, IsQuery(q), NEW p, NEW x
    PROVE  /\ IsQuery([q EXCEPT !.page = p])
           /\ IsQuery([q EXCEPT !.page = p, !.size = x])
           /\ IsQuery([q EXCEPT !.page = p, !.filter = x])
  <1> DEFINE k == [q EXCEPT !.page = p]
  <1>1. IsQuery(k)
    BY DEF IsQuery
  <1>2. /\ [q EXCEPT !.page = p, !.size = x] = [k EXCEPT !.size = x]
        /\ [q EXCEPT !.page = p, !.filter = x] = [k EXCEPT !.filter = x]
    OBVIOUS
  <1> HIDE DEF k
  <1>3. IsQuery([k EXCEPT !.size = x]) /\ IsQuery([k EXCEPT !.filter = x])
    BY <1>1 DEF IsQuery
  <1> QED BY <1>1, <1>2, <1>3 DEF k

LEMMA ListStepKeeps ==
    ASSUME ListInv, ListStep
    PROVE  ListInv'
  <1>0. IsQuery(query)
    BY DEF ListInv
  <1>1. ASSUME NEW p, ChangePage(p) PROVE ListInv'
    <2>1. IsQuery([query EXCEPT !.page = p])
      BY <1>0, QueryMoves
    <2> QED BY <1>1, <2>1, ReloadCounts DEF ChangePage, Listing
  <1>2. ASSUME NEW s, ChangeSize(s) PROVE ListInv'
    <2>1. IsQuery([query EXCEPT !.page = PageAfter(query, s), !.size = s])
      BY <1>0, QueryMoves
    <2> QED BY <1>2, <2>1, ReloadCounts DEF ChangeSize, Listing
  <1>3. ASSUME NEW f, ChangeSearch(f) PROVE ListInv'
    <2>1. IsQuery([query EXCEPT !.page = 1, !.filter = f])
      BY <1>0, QueryMoves
    <2> QED BY <1>3, <2>1, ReloadCounts DEF ChangeSearch, Narrow
  <1>9. ASSUME NEW f, ChangeFilter(f) PROVE ListInv'
    BY <1>9, ListRests DEF ChangeFilter, listVars
  <1>10. CASE FilterLost
    BY <1>10, ListRests DEF FilterLost, listVars
  <1>11. CASE FilterRead
    <2>1. IsQuery([query EXCEPT !.page = 1, !.filter = filtering])
      BY <1>0, QueryMoves
    <2>2. CASE UNCHANGED listVars
      BY <1>11, <2>2, ListRests DEF FilterRead, listVars
    <2>3. CASE Narrow(filtering)
      BY <1>11, <2>1, <2>3, ReloadCounts DEF FilterRead, Narrow
    <2> QED BY <1>11, <2>2, <2>3 DEF FilterRead
  <1>4. CASE ClearFilters
    <2>1. IsQuery([query EXCEPT !.page = 1, !.filter = "all"])
      BY <1>0, QueryMoves
    <2> QED BY <1>4, <2>1, ReloadCounts DEF ClearFilters
  <1>5. CASE Retry \/ EnterCentre
    BY <1>0, <1>5, ReloadCounts DEF Retry, EnterCentre, Again
  <1>6. CASE LeaveCentre
    <2>1. /\ ~centre' /\ UNCHANGED query
          /\ loads' = {[l EXCEPT !.current = FALSE] : l \in loads}
      BY <1>6 DEF LeaveCentre
    <2>2. \A l \in loads : LET k == [l EXCEPT !.current = FALSE]
                           IN  DOMAIN k = LoadFields /\ ~k.current
      BY DEF ListInv, LoadFields
    <2> QED BY <2>1, <2>2 DEF ListInv, IsQuery
  <1>7. ASSUME NEW S, Tick(S) PROVE ListInv'
    BY <1>7, ListRests DEF Tick, listVars
  <1>8. CASE Ticked \/ TickLost
    BY <1>8, ListRests DEF Ticked, TickLost, listVars
  <1> QED BY <1>1, <1>2, <1>3, <1>4, <1>5, <1>6, <1>7, <1>8, <1>9, <1>10, <1>11, LoadKeeps
          DEF ListStep

LEMMA DragKeeps ==
    ASSUME ListInv, DragStep
    PROVE  ListInv'
  <1>0. IsQuery(query)
    BY DEF ListInv
  <1>1. CASE EnterReorder \/ EnterRead \/ EnterFails
    BY <1>1, ListRests DEF EnterReorder, EnterRead, EnterFails, listVars
  <1>2. CASE EnterDone
    <2>1. UNCHANGED <<query, busy, loads, centre>> /\ odd \subseteq odd'
      BY <1>2 DEF EnterDone
    <2>2. CASE grid' = grid
      BY <2>1, <2>2, ListRests
    <2>3. CASE centre /\ ~busy /\ \E s : grid' = [rows |-> s, asked |-> query]
      <3>1. OneCounts => OneCounts'
        BY <2>1, <2>3 DEF OneCounts
      <3> QED BY <2>1, <2>3, <3>1 DEF ListInv, IsQuery
    <2> QED BY <1>2, <2>2, <2>3 DEF EnterDone
  <1>3. CASE CancelReorder \/ SaveReorder
    BY <1>0, <1>3, ReloadCounts DEF CancelReorder, SaveReorder, Again, Dragging
  <1>4. ASSUME NEW i, NEW j, Drag(i, j) PROVE ListInv'
    <2>1. /\ UNCHANGED <<query, busy, loads, centre, odd>> /\ Shown /\ centre
          /\ \E s : grid' = [grid EXCEPT !.rows = s]
      BY <1>4 DEF Drag, Dragging
    <2>2. ASSUME OneCounts PROVE OneCounts'
      <3>1. DOMAIN grid' = {"rows", "asked"} /\ grid'.asked = query
        BY <2>1, <2>2 DEF OneCounts, Shown
      <3>2. ~busy
        BY <2>1, <2>2 DEF OneCounts, Shown
      <3> QED BY <2>1, <2>2, <3>1, <3>2 DEF OneCounts
    <2> QED BY <2>1, <2>2 DEF ListInv, IsQuery
  <1>5. ASSUME NEW saved, SaveFails(saved) PROVE ListInv'
    BY <1>5, ListRests DEF SaveFails, listVars
  <1> QED BY <1>1, <1>2, <1>3, <1>4, <1>5 DEF DragStep

LEMMA ChangeKeeps ==
    ASSUME ListInv, ChangeStep
    PROVE  ListInv'
  <1>0. IsQuery(query)
    BY DEF ListInv
  <1>1. ASSUME Saved PROVE ListInv'
    BY <1>0, <1>1, ReloadCounts DEF Saved, Again
  <1>2. ASSUME NEW r, OtherChanges(r) PROVE ListInv'
    BY <1>2, ListRests DEF OtherChanges, Appears, listVars
  <1>3. ASSUME NEW r, OpenRule(r) PROVE ListInv'
    BY <1>3, ListRests DEF OpenRule, listVars
  <1>4. ASSUME NEW S, ImportLines(S) PROVE ListInv'
    BY <1>4, ListRests DEF ImportLines, listVars
  <1>5. CASE CloseRule \/ ImportFails
    BY <1>5, ListRests DEF CloseRule, ImportFails, listVars
  <1>6. ASSUME NEW saved, RestoreFails(saved) PROVE ListInv'
    BY <1>6, ListRests DEF RestoreFails, PutBack, listVars
  <1> QED BY <1>1, <1>2, <1>3, <1>4, <1>5, <1>6 DEF ChangeStep, CreateRule, EditRule,
        ToggleRule, DeleteRule, BatchDelete, BatchSetEnabled, ImportWritten, Restore

\* The rows the page of the rules shows answer the page, size and filter it stands at,
\* and while the spinner turns a load is under way that will replace them, for any
\* number of rules, page sizes and loads that overtake each other.
THEOREM ListAnswersQuery == RuleSpec => []ListAsAsked
  <1>1. ListInv /\ [RuleNext]_ruleVars => ListInv'
    <2> SUFFICES ASSUME ListInv, [RuleNext]_ruleVars PROVE ListInv'
      OBVIOUS
    <2>1. CASE UNCHANGED ruleVars
      BY <2>1, ListRests DEF ruleVars, listVars
    <2> QED BY <2>1, ListStepKeeps, DragKeeps, ChangeKeeps DEF RuleNext
  <1>2. RuleSpec => []ListInv
    BY <1>1, ListInit, PTL DEF RuleSpec
  <1>3. ListInv => ListAsAsked
    BY DEF ListInv, OneCounts, ListAsAsked, Shown
  <1> QED BY <1>2, <1>3, PTL

(***************************************************************************)
(* RuleConsole: priorities stay distinct                                   *)
(***************************************************************************)

\* A backup that does not itself give two rules one priority.
DistinctBackup ==
    \A r, k \in InFile : BackupPrio[r] = BackupPrio[k] => r = k

AsMeant == odd \cap {"partial", "midload", "grew", "beside"} = {}

\* No order is saved for some owners only.
InStep == "halfway" \notin odd

Distinct(f) == \A r, k \in RuleIds : f[r] > 0 /\ f[r] = f[k] => r = k

\* What the mode that drags priorities holds: nothing, after a failed load, or every rule.
HoldsAll(s) == s = <<>> \/ TheRules \subseteq ToSet(s)

NewPriorities(given) ==
    /\ DOMAIN given \subseteq RuleIds
    /\ \A r \in DOMAIN given : given[r] \in Nat /\ given[r] > 0
    /\ \A r, k \in DOMAIN given : given[r] = given[k] => r = k

IsList(s) == \E T : s \in Seq(T)

PrioritiesHold ==
    /\ prio \in [RuleIds -> Nat] /\ (InStep => Distinct(prio))
    /\ importing # NoRule => NewPriorities(importing)
    /\ dialog # NoRule => dialog.rule \in RuleIds
    /\ IsList(pending)
    /\ reorder => HoldsAll(rows)
    /\ entering # NoRule /\ entering.read =>
         IsList(entering.rows) /\ TheRules \subseteq ToSet(entering.rows)

PrioInv == AsMeant => PrioritiesHold

LEMMA FiniteRules ==
    ASSUME NEW S \in SUBSET RuleIds
    PROVE  IsFiniteSet(S) /\ Cardinality(S) \in Nat
  BY FS_Subset, FS_CardinalityType, RuleConsoleAssumption

LEMMA SmallerSet ==
    ASSUME NEW S \in SUBSET RuleIds, NEW T \in SUBSET S, T # S
    PROVE  Cardinality(T) < Cardinality(S)
  <1>1. IsFiniteSet(S) /\ Cardinality(S) \in Nat /\ Cardinality(T) \in Nat
    BY FiniteRules
  <1>2. Cardinality(T) <= Cardinality(S) /\ (Cardinality(S) = Cardinality(T) => S = T)
    BY <1>1, FS_Subset
  <1> QED BY <1>1, <1>2

\* list_unified_flat misses no rule: the number of rules ahead of one is its place.
LEMMA OrderHoldsAll ==
    ASSUME prio \in [RuleIds -> Nat], NEW S \in SUBSET RuleIds
    PROVE  /\ S \subseteq ToSet(ByPriority(S))
           /\ ByPriority(S) \in Seq(RuleIds)
  <1>0. RuleIds \subseteq Nat
    BY RuleConsoleAssumption
  <1> DEFINE place(r) == Cardinality(Ahead(r, S))
  <1>1. ASSUME NEW r \in S PROVE place(r) \in Nat /\ place(r) < Cardinality(S)
    <2>1. Ahead(r, S) \in SUBSET S /\ Ahead(r, S) # S
      BY <1>0 DEF Ahead
    <2> QED BY <2>1, SmallerSet, FiniteRules
  <1>2. ASSUME NEW r \in S, NEW k \in S, k \in Ahead(r, S) PROVE place(k) < place(r)
    <2>1. /\ Ahead(r, S) \in SUBSET RuleIds
          /\ Ahead(k, S) \in SUBSET Ahead(r, S) /\ Ahead(k, S) # Ahead(r, S)
      <3>1. \A x \in S : x \in Nat /\ prio[x] \in Nat
        BY <1>0
      <3>2. prio[k] < prio[r] \/ (prio[k] = prio[r] /\ k < r)
        BY <1>2 DEF Ahead
      <3>3. ASSUME NEW x \in Ahead(k, S) PROVE x \in Ahead(r, S)
        <4>1. x \in S /\ (prio[x] < prio[k] \/ (prio[x] = prio[k] /\ x < k))
          BY DEF Ahead
        <4>2. prio[x] < prio[r] \/ (prio[x] = prio[r] /\ x < r)
          BY <3>1, <3>2, <4>1
        <4> QED BY <4>1, <4>2 DEF Ahead
      <3>4. k \notin Ahead(k, S)
        BY <3>1 DEF Ahead
      <3>5. Ahead(r, S) \subseteq S
        BY DEF Ahead
      <3> QED BY <1>2, <3>3, <3>4, <3>5
    <2> QED BY <2>1, SmallerSet
  <1>3. ASSUME NEW r \in S, NEW k \in S, place(r) = place(k) PROVE r = k
    <2>1. r = k \/ k \in Ahead(r, S) \/ r \in Ahead(k, S)
      BY <1>0 DEF Ahead
    <2> QED BY <1>1, <1>2, <1>3, <2>1
  <1>4. ASSUME NEW r \in S PROVE r \in ToSet(ByPriority(S))
    <2>1. /\ Cardinality(S) \in Nat /\ place(r) + 1 \in 1..Cardinality(S)
      BY <1>1, FiniteRules
    <2>2. ByPriority(S)[place(r) + 1] = CHOOSE k \in S : place(k) = (place(r) + 1) - 1
      BY <2>1 DEF ByPriority
    <2>3. (place(r) + 1) - 1 = place(r)
      BY <1>1
    <2>4. (CHOOSE k \in S : place(k) = place(r)) = r
      BY <1>3
    <2>5. ByPriority(S)[place(r) + 1] = r
      BY <2>2, <2>3, <2>4
    <2>6. place(r) + 1 \in DOMAIN ByPriority(S)
      BY <2>1 DEF ByPriority
    <2> HIDE DEF place
    <2> QED BY <2>5, <2>6 DEF ToSet
  <1>5. ByPriority(S) \in Seq(RuleIds)
    <2> DEFINE f == [r \in S |-> place(r) + 1]
               P == 1..Cardinality(S)
               whose(i) == CHOOSE r \in S : place(r) = i - 1
    <2>1. IsFiniteSet(S) /\ Cardinality(S) \in Nat
      BY FiniteRules
    <2>2. f \in Injection(S, P)
      <3>1. \A r \in S : place(r) + 1 \in P
        BY <1>1, <2>1
      <3>2. \A r, k \in S : place(r) + 1 = place(k) + 1 => r = k
        BY <1>1, <1>3
      <3> HIDE DEF place
      <3> QED BY <3>1, <3>2 DEF Injection, IsInjective
    <2>3. IsFiniteSet(P) /\ Cardinality(P) = Cardinality(S)
      BY <2>1, FS_Interval
    <2>4. f \in Surjection(S, P)
      BY <2>1, <2>2, <2>3, FS_Injection
    <2>5. ASSUME NEW i \in P PROVE whose(i) \in RuleIds
      <3>1. \E r \in S : f[r] = i
        BY <2>4 DEF Surjection
      <3>2. \E r \in S : place(r) = i - 1
        BY <1>1, <3>1
      <3> QED BY <3>2
    <2>6. ByPriority(S) = [i \in P |-> whose(i)]
      BY DEF ByPriority
    <2> HIDE DEF whose
    <2>7. ByPriority(S) \in [1..Cardinality(S) -> RuleIds]
      BY <2>5, <2>6
    <2> QED BY <2>1, <2>7
  <1> QED BY <1>4, <1>5

\* The highest priority of a set of rules is no lower than any of them.
LEMMA HighestBounds ==
    ASSUME prio \in [RuleIds -> Nat], NEW S \in SUBSET RuleIds
    PROVE  /\ HighestOf(S) \in Nat
           /\ \A r \in S : prio[r] <= HighestOf(S)
  <1>1. CASE S = {}
    BY <1>1 DEF HighestOf
  <1>2. CASE S # {}
    <2> DEFINE Above(r) == {k \in S : prio[k] > prio[r]}
               T == {Above(r) : r \in S}
               R == StrictSubsetOrdering(RuleIds)
               F == FiniteSubsetsOf(RuleIds)
    <2>1. T \subseteq F
      BY FiniteRules DEF FiniteSubsetsOf
    <2>2. \E A \in T : \A B \in T : <<B, A>> \notin R
      <3>1. IsWellFoundedOn(R, F)
        BY FS_StrictSubsetOrderingWellFounded
      <3>2. T # {}
        BY <1>2
      <3> HIDE DEF T, R, F
      <3> QED BY <2>1, <3>1, <3>2, WFMin
    <2>3. PICK r \in S : \A B \in T : <<B, Above(r)>> \notin R
      BY <2>2
    <2>4. ASSUME NEW k \in S, ~(prio[k] <= prio[r]) PROVE FALSE
      <3>1. prio[k] \in Nat /\ prio[r] \in Nat
        OBVIOUS
      <3>2. k \in Above(r) /\ k \notin Above(k) /\ Above(k) \subseteq Above(r)
        BY <2>4, <3>1
      <3>3. <<Above(k), Above(r)>> \in R
        BY <3>2 DEF StrictSubsetOrdering
      <3> QED BY <2>3, <3>3
    <2>5. \E p \in {prio[k] : k \in S} : \A k \in S : prio[k] <= p
      BY <2>4
    <2>6. /\ HighestOf(S) \in {prio[k] : k \in S}
          /\ \A k \in S : prio[k] <= HighestOf(S)
      BY <1>2, <2>5 DEF HighestOf
    <2> QED BY <2>6
  <1> QED BY <1>1, <1>2

LEMMA StepTimes ==
    ASSUME NEW i \in Nat, NEW j \in Nat
    PROVE  /\ Step * i \in Nat
           /\ i > 0 => Step * i > 0
           /\ Step * i = Step * j => i = j
  <1>1. Step \in Nat /\ Step > 0
    BY RuleConsoleAssumption
  <1>2. ASSUME NEW a \in Nat, NEW b \in Nat, a < b PROVE Step * a < Step * b
    BY <1>1, <1>2
  <1>3. Step * i \in Nat /\ Step * j \in Nat /\ Step * 0 = 0
    BY <1>1
  <1> QED BY <1>2, <1>3

LEMMA EmptyList == IsList(<<>>)
  <1>1. <<>> \in Seq(Nat)
    OBVIOUS
  <1> QED BY <1>1 DEF IsList

LEMMA MovedStays ==
    ASSUME NEW T, NEW s \in Seq(T), NEW i \in DOMAIN s, NEW j \in DOMAIN s
    PROVE  Moved(s, i, j) \in Seq(T)
  <1>1. s \in Seq(T)
    OBVIOUS
  <1>2. i \in 1..Len(s) /\ j \in 1..Len(s) /\ Len(s) \in Nat /\ s[i] \in T
    BY <1>1
  <1> DEFINE z == RemoveAt(s, i)
  <1>3. z \in Seq(T) /\ Len(z) = Len(s) - 1
    <2>1. /\ SubSeq(s, 1, i - 1) \in Seq(T) /\ Len(SubSeq(s, 1, i - 1)) = i - 1
          /\ SubSeq(s, i + 1, Len(s)) \in Seq(T)
          /\ Len(SubSeq(s, i + 1, Len(s))) = Len(s) - i
      BY <1>1, <1>2
    <2>2. /\ z \in Seq(T)
          /\ Len(z) = Len(SubSeq(s, 1, i - 1)) + Len(SubSeq(s, i + 1, Len(s)))
      BY <2>1 DEF RemoveAt
    <2>3. ASSUME NEW n \in Nat, NEW m \in 1..n PROVE (m - 1) + (n - m) = n - 1
      OBVIOUS
    <2> HIDE DEF z
    <2> QED BY <1>2, <2>1, <2>2, <2>3
  <1> HIDE DEF z
  <1>4. SubSeq(z, 1, j - 1) \in Seq(T) /\ SubSeq(z, j, Len(z)) \in Seq(T)
    BY <1>2, <1>3
  <1>5. Moved(s, i, j) \in Seq(T)
    BY <1>2, <1>4 DEF Moved, InsertAt, z
  <1> QED BY <1>5

LEMMA MovedIsList ==
    ASSUME NEW s, IsList(s), NEW i \in DOMAIN s, NEW j \in DOMAIN s
    PROVE  IsList(Moved(s, i, j))
  BY MovedStays DEF IsList

LEMMA PrioInit == RuleInit => PrioInv
  <1> SUFFICES ASSUME RuleInit PROVE PrioInv
    OBVIOUS
  <1>1. prio \in [RuleIds -> Nat] /\ RuleIds \subseteq Nat
    BY RuleConsoleAssumption DEF RuleInit
  <1>2. ASSUME NEW r \in RuleIds, NEW k \in RuleIds, prio[r] > 0, prio[r] = prio[k]
        PROVE  r = k
    <2>1. prio[r] = r * Step /\ prio[k] = k * Step
      BY <1>1, <1>2 DEF RuleInit
    <2>2. Step \in Nat /\ r \in Nat /\ k \in Nat
      BY <1>1, RuleConsoleAssumption
    <2>3. r * Step = Step * r /\ k * Step = Step * k
      BY <2>2
    <2> QED BY <1>2, <2>1, <2>2, <2>3, StepTimes
  <1> QED BY <1>1, <1>2, EmptyList DEF RuleInit, PrioInv, PrioritiesHold, Distinct

LEMMA StillAsMeant ==
    ASSUME odd \subseteq odd'
    PROVE  (AsMeant' => AsMeant) /\ (InStep' => InStep)
  BY DEF AsMeant, InStep

\* Steps that change no priority and nothing an order or a file is read from.
LEMMA PrioRests ==
    ASSUME PrioInv, odd \subseteq odd', UNCHANGED prio,
           importing' \in {importing, NoRule}, dialog' \in {dialog, NoRule},
           pending' \in {pending, <<>>}, reorder' \in {reorder, FALSE},
           reorder' => rows' \in {rows, <<>>}, entering' \in {entering, NoRule}
    PROVE  PrioInv'
  <1>1. TheRules' = TheRules
    BY DEF TheRules, Exists
  <1> QED BY <1>1, StillAsMeant, EmptyList
          DEF PrioInv, PrioritiesHold, NewPriorities, Distinct, HoldsAll, IsList

\* Steps that change priorities, add no rule while an order is edited, and leave the
\* orders alone or drop them.
LEMMA PrioChanges ==
    ASSUME PrioInv, AsMeant' => AsMeant,
           AsMeant' => prio' \in [RuleIds -> Nat] /\ (InStep' => Distinct(prio')),
           AsMeant' /\ (reorder' \/ entering # NoRule) => TheRules' \subseteq TheRules,
           importing' \in {importing, NoRule}, dialog' \in {dialog, NoRule},
           pending' \in {pending, <<>>}, reorder' \in {reorder, FALSE},
           rows' = rows, entering' = entering
    PROVE  PrioInv'
  BY EmptyList DEF PrioInv, PrioritiesHold, NewPriorities, HoldsAll, IsList

LEMMA PrioList ==
    ASSUME PrioInv, ListStep
    PROVE  PrioInv'
  <1>1. ASSUME NEW l, LoadBegins(l) \/ LoadNames(l) \/ LoadPage(l) \/ LoadAgain(l)
                      \/ LoadFails(l)
        PROVE  PrioInv'
    <2>1. /\ UNCHANGED <<prio, dragVars, formVars>> /\ odd \subseteq odd'
          /\ rows' \in {rows, <<>>}
      BY <1>1 DEF LoadBegins, LoadNames, LoadPage, LoadAgain, LoadFails, store
    <2> QED BY <2>1, PrioRests DEF dragVars, formVars
  <1>2. ASSUME NEW l, LoadDone(l) PROVE PrioInv'
    <2>1. /\ UNCHANGED <<prio, formVars, original, entering>> /\ odd \subseteq odd'
          /\ reorder' = reorder
      BY <1>2 DEF LoadDone, store
    <2>2. CASE reorder /\ Counts(l)
      <3>1. ~AsMeant'
        BY <1>2, <2>2 DEF LoadDone, AsMeant
      <3> QED BY <2>1, <3>1 DEF PrioInv
    <2>3. CASE ~(reorder /\ Counts(l))
      <3>1. pending' = pending
        BY <1>2, <2>1, <2>3 DEF LoadDone, Render
      <3>2. reorder' => rows' = rows
        BY <1>2, <2>1, <2>3 DEF LoadDone
      <3> QED BY <2>1, <3>1, <3>2, PrioRests DEF formVars
    <2> QED BY <2>2, <2>3
  <1>3. ASSUME NEW q, Reload(q), UNCHANGED <<store, dragVars, formVars, odd>>
        PROVE  PrioInv'
    BY <1>3, PrioRests DEF Reload, store, dragVars, formVars
  <1>4. CASE LeaveCentre
    BY <1>4, PrioRests DEF LeaveCentre, store, formVars
  <1>5. ASSUME NEW S, Tick(S) PROVE PrioInv'
    BY <1>5, PrioRests DEF Tick, store, dragVars, formVars, listVars
  <1>6. CASE Ticked \/ TickLost
    BY <1>6, PrioRests DEF Ticked, TickLost, store, dragVars, formVars, listVars
  <1>7. ASSUME UNCHANGED <<store, listVars, dragVars, formVars, odd>> PROVE PrioInv'
    BY <1>7, PrioRests DEF store, listVars, dragVars, formVars
  <1> QED BY <1>1, <1>2, <1>3, <1>4, <1>5, <1>6, <1>7 DEF ListStep, LoadStep, ChangePage,
        ChangeSize, ChangeSearch, ChangeFilter, FilterRead, FilterLost, Narrow, ClearFilters,
        Retry, EnterCentre, Again

\* The order as it is saved: when it covers every rule, it gives each a priority of its own.
LEMMA OrderIsDistinct ==
    ASSUME PrioInv, AsMeant, Dragging, OrderFits
    PROVE  /\ InOrder(pending) \in [RuleIds -> Nat] /\ Distinct(InOrder(pending))
           /\ \A r \in RuleIds : InOrder(pending)[r] > 0 => Exists(r)
  <1> DEFINE at(r) == CHOOSE i \in DOMAIN pending : pending[i] = r
             f == InOrder(pending)
  <1>1. ASSUME NEW r \in ToSet(pending)
        PROVE  at(r) \in Nat /\ at(r) > 0 /\ pending[at(r)] = r
    <2>1. \E i \in DOMAIN pending : pending[i] = r
      BY DEF ToSet
    <2>2. at(r) \in DOMAIN pending /\ pending[at(r)] = r
      BY <2>1
    <2>3. at(r) \in Nat \ {0}
      BY <2>2 DEF PrioInv, PrioritiesHold, IsList
    <2> QED BY <2>2, <2>3
  <1>2. \A r \in RuleIds : f[r] = IF Exists(r) /\ r \in ToSet(pending)
                                  THEN Step * at(r) ELSE prio[r]
    BY DEF InOrder
  <1>3. f = [r \in RuleIds |-> f[r]]
    BY DEF InOrder
  <1> HIDE DEF at, f
  <1>4. TheRules \subseteq ToSet(pending)
    <2>1. pending # <<>> /\ ToSet(pending) = InRows /\ reorder
      BY DEF OrderFits, Dragging
    <2>2. CASE rows = <<>>
      <3>1. ToSet(pending) = {}
        BY <2>1, <2>2 DEF InRows, ToSet
      <3>2. Cardinality(InRows) = 0 /\ Len(pending) = 0
        BY <2>1, <3>1, FS_EmptySet DEF OrderFits
      <3>3. pending = <<>>
        <4>1. PICK T : pending \in Seq(T)
          BY DEF PrioInv, PrioritiesHold, IsList
        <4> QED BY <3>2, <4>1
      <3> QED BY <2>1, <3>3
    <2> QED BY <2>1, <2>2 DEF PrioInv, PrioritiesHold, HoldsAll, InRows
  <1>5. \A r \in RuleIds : /\ Exists(r) => f[r] = Step * at(r) /\ r \in ToSet(pending)
                           /\ ~Exists(r) => f[r] = 0
    BY <1>2, <1>4 DEF TheRules, Exists, PrioInv, PrioritiesHold
  <1>6. \A r \in RuleIds : Exists(r) => f[r] \in Nat
    BY <1>1, <1>5, StepTimes
  <1>7. f \in [RuleIds -> Nat]
    BY <1>3, <1>5, <1>6
  <1>8. ASSUME NEW r \in RuleIds, NEW k \in RuleIds, f[r] > 0, f[r] = f[k]
        PROVE  r = k
    <2>1. Exists(r) /\ Exists(k)
      BY <1>5, <1>8
    <2>2. at(r) = at(k)
      BY <1>1, <1>5, <1>8, <2>1, StepTimes
    <2> QED BY <1>1, <1>5, <2>1, <2>2
  <1>9. \A r \in RuleIds : f[r] > 0 => Exists(r)
    BY <1>5
  <1> QED BY <1>7, <1>8, <1>9 DEF Distinct, f

LEMMA PrioDrag ==
    ASSUME PrioInv, DragStep
    PROVE  PrioInv'
  <1>1. CASE EnterReorder
    <2>1. entering' = [read |-> FALSE, rows |-> <<>>, raw |-> NoRaw] /\ ~entering'.read
      BY <1>1 DEF EnterReorder
    <2>2. UNCHANGED <<prio, pending, reorder, rows, formVars, odd>>
      BY <1>1 DEF EnterReorder, store, listVars
    <2> QED BY <2>1, <2>2 DEF PrioInv, PrioritiesHold, NewPriorities, Distinct, HoldsAll,
               AsMeant, InStep, TheRules, Exists, IsList, formVars
  <1>2. CASE EnterRead
    <2>1. entering' = [read |-> TRUE, rows |-> ByPriority(TheRules), raw |-> RawOf(TheRules)]
      BY <1>2 DEF EnterRead
    <2>2. UNCHANGED <<prio, pending, reorder, rows, formVars, odd>>
      BY <1>2 DEF EnterRead, store
    <2>3. TheRules' = TheRules
      BY <2>2 DEF TheRules, Exists
    <2>4. AsMeant => TheRules' \subseteq ToSet(entering'.rows) /\ IsList(entering'.rows)
      BY <2>1, <2>3, OrderHoldsAll DEF PrioInv, PrioritiesHold, TheRules, IsList
    <2> QED BY <2>2, <2>3, <2>4 DEF PrioInv, PrioritiesHold, NewPriorities, Distinct, HoldsAll,
               AsMeant, InStep, IsList, formVars
  <1>3. CASE EnterFails
    BY <1>3, PrioRests DEF EnterFails, store, formVars, listVars
  <1>4. CASE EnterDone
    <2>1. /\ entering' = NoRule /\ UNCHANGED <<prio, formVars>> /\ odd \subseteq odd'
          /\ entering # NoRule /\ entering.read
      BY <1>4 DEF EnterDone, store
    <2>2. CASE entering.rows = <<>>
      BY <1>4, <2>1, <2>2, PrioRests DEF EnterDone, formVars
    <2>3. CASE entering.rows # <<>>
      <3>1. rows' = entering.rows /\ pending' = entering.rows
        BY <1>4, <2>3 DEF EnterDone
      <3>2. AsMeant' => AsMeant
        BY <2>1, StillAsMeant
      <3>3. TheRules' = TheRules
        BY <2>1 DEF TheRules, Exists
      <3> QED BY <2>1, <3>1, <3>2, <3>3, StillAsMeant DEF PrioInv, PrioritiesHold, NewPriorities, Distinct,
                 HoldsAll, IsList, formVars
    <2> QED BY <2>2, <2>3
  <1>5. CASE CancelReorder
    BY <1>5, PrioRests DEF CancelReorder, ReorderOff, Again, Reload, store, formVars
  <1>6. CASE SaveReorder
    <2>1. /\ UNCHANGED <<entering, formVars, rows>> /\ reorder' = FALSE
          /\ pending' = <<>> /\ Dragging /\ OrderFits
      BY <1>6 DEF SaveReorder, ReorderOff, Again, Reload, formVars
    <2>2. CASE prio' = prio /\ odd' = odd
      BY <2>1, <2>2, PrioRests DEF formVars
    <2>3. CASE prio' = InOrder(pending) /\ odd' = odd \ {"halfway"}
      <3>1. AsMeant' => AsMeant
        BY <2>3 DEF AsMeant
      <3>2. AsMeant' => /\ prio' \in [RuleIds -> Nat] /\ Distinct(prio')
                        /\ TheRules' \subseteq TheRules
        BY <2>1, <2>3, <3>1, OrderIsDistinct DEF TheRules, Exists
      <3> QED BY <2>1, <3>1, <3>2, PrioChanges DEF formVars
    <2> QED BY <1>6, <2>2, <2>3 DEF SaveReorder
  <1>8. ASSUME NEW saved, SaveFails(saved) PROVE PrioInv'
    <2>1. /\ UNCHANGED <<entering, formVars, rows, reorder, pending>>
          /\ odd \subseteq odd' /\ Dragging /\ OrderFits
          /\ prio' = [r \in RuleIds |-> IF r \in saved THEN InOrder(pending)[r] ELSE prio[r]]
          /\ InStep' => prio' \in {prio, InOrder(pending)}
      BY <1>8 DEF SaveFails, InStep, listVars, dragVars
    <2>2. ASSUME AsMeant
          PROVE  /\ prio' \in [RuleIds -> Nat] /\ (InStep' => Distinct(prio'))
                 /\ TheRules' \subseteq TheRules
      <3>1. /\ InOrder(pending) \in [RuleIds -> Nat] /\ Distinct(InOrder(pending))
            /\ \A r \in RuleIds : InOrder(pending)[r] > 0 => Exists(r)
        BY <2>1, <2>2, OrderIsDistinct
      <3>2. prio \in [RuleIds -> Nat] /\ (InStep => Distinct(prio))
        BY <2>2 DEF PrioInv, PrioritiesHold
      <3>3. InStep' => InStep
        BY <2>1, StillAsMeant
      <3> DEFINE f == InOrder(pending)
      <3> HIDE DEF f
      <3>4. f \in [RuleIds -> Nat] /\ Distinct(f) /\ \A r \in RuleIds : f[r] > 0 => Exists(r)
        BY <3>1 DEF f
      <3>5. /\ prio' = [r \in RuleIds |-> IF r \in saved THEN f[r] ELSE prio[r]]
            /\ InStep' => prio' \in {prio, f}
        BY <2>1 DEF f
      <3>6. prio' \in [RuleIds -> Nat]
        BY <3>2, <3>4, <3>5
      <3>7. InStep' => Distinct(prio')
        BY <3>2, <3>3, <3>4, <3>5
      <3>8. TheRules' \subseteq TheRules
        BY <3>4, <3>5 DEF TheRules, Exists
      <3> QED BY <3>6, <3>7, <3>8
    <2> QED BY <2>1, <2>2, StillAsMeant, PrioChanges DEF formVars
  <1>7. ASSUME NEW i \in DOMAIN pending, NEW j \in DOMAIN pending, Drag(i, j) PROVE PrioInv'
    <2>1. /\ UNCHANGED <<prio, rows, reorder, entering, formVars, odd>>
          /\ pending' = Moved(pending, i, j)
      BY <1>7 DEF Drag, store
    <2>2. IsList(pending) => IsList(pending')
      BY <2>1, MovedIsList
    <2> QED BY <2>1, <2>2 DEF PrioInv, PrioritiesHold, NewPriorities, Distinct, HoldsAll,
               AsMeant, InStep, TheRules, Exists, formVars
  <1> QED BY <1>1, <1>2, <1>3, <1>4, <1>5, <1>6, <1>7, <1>8 DEF DragStep

LEMMA PrioChange ==
    ASSUME DistinctBackup, PrioInv, ChangeStep
    PROVE  PrioInv'
  <1>1. Saved => rows' = rows
    BY DEF Saved, Again, Reload
  <1>2. Appears => odd \subseteq odd' /\ (AsMeant' => ~reorder /\ entering = NoRule)
    BY DEF Appears, AsMeant
  <1>3. ASSUME AsMeant
        PROVE  prio \in [RuleIds -> Nat] /\ (InStep => Distinct(prio))
    BY <1>3 DEF PrioInv, PrioritiesHold
  <1>4. ASSUME NEW r \in RuleIds, NEW p \in 1..MaxPriority, CreateRule(r, p) PROVE PrioInv'
    <2>1. p \in Nat /\ p > 0
      BY RuleConsoleAssumption
    <2>2. AsMeant => prio' \in [RuleIds -> Nat] /\ (InStep => Distinct(prio'))
      BY <1>3, <1>4, <2>1 DEF CreateRule, Distinct, Taken, TheRules, Exists
    <2> QED BY <1>1, <1>2, <1>4, <2>2, StillAsMeant, PrioChanges DEF CreateRule, dragVars, formVars
  <1>5. ASSUME NEW r \in RuleIds, OpenRule(r) PROVE PrioInv'
    <2>1. dialog'.rule = r /\ UNCHANGED <<prio, odd, dragVars, importing, rows>>
      BY <1>5 DEF OpenRule, store, listVars
    <2> QED BY <2>1 DEF PrioInv, PrioritiesHold, NewPriorities, Distinct, HoldsAll, AsMeant, InStep,
               TheRules, Exists, IsList, dragVars
  <1>6. ASSUME NEW r \in RuleIds, OtherChanges(r) PROVE PrioInv'
    <2>1. UNCHANGED <<rows, dragVars, formVars>>
      BY <1>6 DEF OtherChanges, listVars
    <2>2. CASE ~Exists(r) /\ prio' = [prio EXCEPT ![r] = HighestOf(TheRules) + Step] /\ Appears
      <3>1. Step \in Nat /\ Step > 0
        BY RuleConsoleAssumption
      <3>2. ASSUME AsMeant PROVE /\ HighestOf(TheRules) \in Nat
                                 /\ \A k \in TheRules : prio[k] <= HighestOf(TheRules)
        BY <1>3, <3>2, HighestBounds DEF TheRules
      <3>3. AsMeant => prio' \in [RuleIds -> Nat] /\ (InStep => Distinct(prio'))
        BY <1>3, <2>2, <3>1, <3>2 DEF Distinct, TheRules, Exists
      <3> QED BY <1>2, <2>1, <2>2, <3>3, StillAsMeant, PrioChanges DEF dragVars, formVars
    <2>3. CASE prio' = [prio EXCEPT ![r] = 0] /\ odd' = odd
      <3>1. AsMeant => /\ prio' \in [RuleIds -> Nat] /\ (InStep => Distinct(prio'))
                       /\ TheRules' \subseteq TheRules
        BY <1>3, <2>3 DEF Distinct, TheRules, Exists
      <3> QED BY <2>1, <2>3, <3>1, StillAsMeant, PrioChanges DEF dragVars, formVars
    <2>4. CASE UNCHANGED <<prio, odd>>
      BY <2>1, <2>4, PrioRests DEF dragVars, formVars
    <2> QED BY <1>6, <2>2, <2>3, <2>4 DEF OtherChanges
  <1>7. ASSUME NEW p \in 1..MaxPriority, NEW on, EditRule(p, on) PROVE PrioInv'
    <2>1. p \in Nat /\ p > 0
      BY RuleConsoleAssumption
    <2>2. AsMeant => /\ prio' \in [RuleIds -> Nat] /\ (InStep => Distinct(prio'))
                     /\ TheRules' \subseteq TheRules
      <3> SUFFICES ASSUME AsMeant PROVE /\ prio' \in [RuleIds -> Nat] /\ (InStep => Distinct(prio'))
                                        /\ TheRules' \subseteq TheRules
        OBVIOUS
      <3>1. dialog.rule \in RuleIds
        BY <1>7 DEF EditRule, PrioInv, PrioritiesHold
      <3>2. /\ prio' = [prio EXCEPT ![dialog.rule] = p]
            /\ ~Taken(p, TheRules \ {dialog.rule}) /\ Exists(dialog.rule)
        BY <1>7 DEF EditRule
      <3> QED BY <1>3, <2>1, <3>1, <3>2 DEF Distinct, Taken, TheRules, Exists
    <2> QED BY <1>1, <1>7, <2>2, StillAsMeant, PrioChanges DEF EditRule, dragVars
  <1>8. CASE CloseRule \/ ImportFails
    BY <1>8, PrioRests DEF CloseRule, ImportFails, store, listVars, dragVars
  <1>9. CASE ToggleRule
    BY <1>1, <1>9, PrioRests DEF ToggleRule, dragVars
  <1>10. CASE DeleteRule
    <2>1. AsMeant => /\ prio' \in [RuleIds -> Nat] /\ (InStep => Distinct(prio'))
                     /\ TheRules' \subseteq TheRules
      <3> SUFFICES ASSUME AsMeant PROVE /\ prio' \in [RuleIds -> Nat] /\ (InStep => Distinct(prio'))
                                        /\ TheRules' \subseteq TheRules
        OBVIOUS
      <3>1. dialog.rule \in RuleIds
        BY <1>10 DEF DeleteRule, PrioInv, PrioritiesHold
      <3>2. prio' = [prio EXCEPT ![dialog.rule] = 0]
        BY <1>10 DEF DeleteRule
      <3> QED BY <1>3, <3>1, <3>2 DEF Distinct, TheRules, Exists
    <2> QED BY <1>1, <1>10, <2>1, StillAsMeant, PrioChanges DEF DeleteRule, dragVars
  <1>11. ASSUME NEW S, BatchDelete(S) PROVE PrioInv'
    <2>1. AsMeant => /\ prio' \in [RuleIds -> Nat] /\ (InStep => Distinct(prio'))
                     /\ TheRules' \subseteq TheRules
      BY <1>3, <1>11 DEF BatchDelete, Distinct, TheRules, Exists
    <2> QED BY <1>1, <1>11, <2>1, StillAsMeant, PrioChanges DEF BatchDelete, dragVars, formVars
  <1>12. ASSUME NEW S, NEW on, BatchSetEnabled(on, S) PROVE PrioInv'
    BY <1>1, <1>12, PrioRests DEF BatchSetEnabled, dragVars, formVars
  <1>13. ASSUME NEW S \in SUBSET RuleIds, ImportLines(S) PROVE PrioInv'
    <2> DEFINE upTo(r) == {k \in S : k <= r}
    <2>1. /\ importing' = [r \in S |-> HighestOf(TheRules) + Step * Cardinality(upTo(r))]
          /\ UNCHANGED <<prio, odd, dragVars, dialog, rows>>
      BY <1>13 DEF ImportLines, store, listVars
    <2>2. ASSUME AsMeant PROVE NewPriorities(importing')
      <3>1. HighestOf(TheRules) \in Nat
        BY <1>3, <2>2, HighestBounds DEF TheRules
      <3>2. S \subseteq RuleIds /\ \A k \in S : k \in Nat
        BY RuleConsoleAssumption
      <3>3. ASSUME NEW r \in S PROVE Cardinality(upTo(r)) \in Nat /\ Cardinality(upTo(r)) > 0
        <4>1. r \in upTo(r) /\ upTo(r) \in SUBSET RuleIds
          BY <3>2
        <4>2. upTo(r) # {}
          BY <4>1
        <4> HIDE DEF upTo
        <4> QED BY <4>1, <4>2, FiniteRules, FS_EmptySet
      <3>4. ASSUME NEW r \in S, NEW k \in S, r < k
            PROVE  Cardinality(upTo(r)) < Cardinality(upTo(k))
        <4>1. k \in upTo(k) /\ k \notin upTo(r) /\ upTo(r) \subseteq upTo(k)
              /\ upTo(k) \in SUBSET RuleIds
          BY <3>2, <3>4
        <4> HIDE DEF upTo
        <4> QED BY <4>1, SmallerSet
      <3> DEFINE n(r) == Cardinality(upTo(r))
      <3>5. ASSUME NEW r \in S, NEW k \in S, n(r) = n(k) PROVE r = k
        <4> HIDE DEF upTo
        <4>1. r < k \/ k < r \/ r = k
          BY <3>2
        <4>2. n(r) \in Nat /\ n(k) \in Nat
          BY <3>3
        <4>3. (r < k => n(r) < n(k)) /\ (k < r => n(k) < n(r))
          BY <3>4
        <4> HIDE DEF n
        <4> QED BY <3>5, <4>1, <4>2, <4>3
      <3>6. \A r \in S : n(r) \in Nat /\ n(r) > 0
        BY <3>3
      <3>7. \A r \in S : importing'[r] = HighestOf(TheRules) + Step * n(r)
        BY <2>1
      <3> HIDE DEF n
      <3>8. \A r \in S : Step * n(r) \in Nat /\ Step * n(r) > 0
        BY <3>6, StepTimes
      <3>9. \A r, k \in S : Step * n(r) = Step * n(k) => r = k
        BY <3>5, <3>6, StepTimes
      <3>10. \A r \in S : importing'[r] \in Nat /\ importing'[r] > 0
        BY <3>1, <3>7, <3>8
      <3>11. \A r, k \in S : importing'[r] = importing'[k] => r = k
        <4> SUFFICES ASSUME NEW r \in S, NEW k \in S, importing'[r] = importing'[k]
                     PROVE  Step * n(r) = Step * n(k)
          BY <3>9
        <4>1. /\ importing'[r] = HighestOf(TheRules) + Step * n(r)
              /\ importing'[k] = HighestOf(TheRules) + Step * n(k)
          BY <3>7
        <4>2. Step * n(r) \in Nat /\ Step * n(k) \in Nat
          BY <3>8
        <4>3. ASSUME NEW h \in Nat, NEW a \in Nat, NEW b \in Nat, h + a = h + b PROVE a = b
          BY <4>3
        <4> QED BY <3>1, <4>1, <4>2, <4>3
      <3>12. DOMAIN importing' = S
        BY <2>1
      <3> QED BY <3>10, <3>11, <3>12 DEF NewPriorities
    <2> QED BY <2>1, <2>2 DEF PrioInv, PrioritiesHold, Distinct, HoldsAll, AsMeant, InStep,
               TheRules, Exists, IsList, dragVars
  <1>14. CASE ImportWritten
    <2>1. ASSUME AsMeant PROVE prio' \in [RuleIds -> Nat] /\ (InStep => Distinct(prio'))
      <3>1. NewPriorities(importing)
        BY <1>14, <2>1 DEF ImportWritten, PrioInv, PrioritiesHold
      <3>2. /\ prio' = [r \in RuleIds |-> IF r \in DOMAIN importing THEN importing[r]
                                                                    ELSE prio[r]]
            /\ Unused(importing)
        BY <1>14 DEF ImportWritten
      <3>3. prio' \in [RuleIds -> Nat]
        BY <1>3, <2>1, <3>1, <3>2 DEF NewPriorities
      <3> QED BY <1>3, <2>1, <3>1, <3>2, <3>3
              DEF NewPriorities, Unused, Taken, TheRules, Exists, Distinct
    <2> QED BY <1>1, <1>2, <1>14, <2>1, StillAsMeant, PrioChanges DEF ImportWritten, dragVars
  <1>15. ASSUME NEW S, PutBack(S), rows' = rows PROVE PrioInv'
    <2>1. /\ UNCHANGED <<dragVars, formVars>> /\ odd \subseteq odd'
          /\ prio' = [r \in RuleIds |-> IF r \in S THEN BackupPrio[r] ELSE prio[r]]
          /\ AsMeant' => (S = {} \/ TheRules \subseteq S) /\ ~reorder /\ entering = NoRule
      BY <1>15 DEF PutBack, AsMeant
    <2>2. ASSUME AsMeant, TheRules \subseteq S
          PROVE  prio' \in [RuleIds -> Nat] /\ (InStep => Distinct(prio'))
      <3>1. BackupPrio \in [RuleIds -> Nat]
        BY RuleConsoleAssumption
      <3>2. \A r \in RuleIds : prio'[r] > 0 => r \in InFile /\ prio'[r] = BackupPrio[r]
        BY <1>3, <2>1, <2>2, <3>1 DEF TheRules, Exists, InFile
      <3>3. prio' \in [RuleIds -> Nat]
        BY <1>3, <2>1, <2>2, <3>1
      <3> QED BY <3>2, <3>3 DEF Distinct, DistinctBackup
    <2>3. ASSUME AsMeant, S = {} PROVE prio' = prio
      BY <1>3, <2>1, <2>3
    <2>4. AsMeant' => prio' \in [RuleIds -> Nat] /\ (InStep' => Distinct(prio'))
      BY <1>3, <2>1, <2>2, <2>3, StillAsMeant
    <2> QED BY <1>15, <2>1, <2>4, StillAsMeant, PrioChanges DEF dragVars, formVars
  <1>16. CASE Restore
    BY <1>1, <1>15, <1>16 DEF Restore
  <1>17. ASSUME NEW saved, RestoreFails(saved) PROVE PrioInv'
    BY <1>15, <1>17 DEF RestoreFails, listVars
  <1> QED BY <1>4, <1>5, <1>6, <1>7, <1>8, <1>9, <1>10, <1>11, <1>12, <1>13, <1>14, <1>16,
          <1>17 DEF ChangeStep

\* No two rules of the centre have the same priority, whatever the form, the dragging
\* mode, an import, a restore and the other session do, whoever comes first and wherever
\* a save fails, but for what PrioritiesDistinct names; an order that was saved for some
\* owners only is put right by saving it again.  For any rules, priorities and distance
\* of two of them, and any backup that does not itself give one priority twice.
THEOREM NoPriorityTwice ==
    ASSUME DistinctBackup
    PROVE  RuleSpec => []PrioritiesDistinct
  <1>1. PrioInv /\ [RuleNext]_ruleVars => PrioInv'
    <2> SUFFICES ASSUME PrioInv, [RuleNext]_ruleVars PROVE PrioInv'
      OBVIOUS
    <2>1. CASE UNCHANGED ruleVars
      BY <2>1, PrioRests DEF ruleVars, store, listVars, dragVars, formVars
    <2> QED BY <2>1, PrioList, PrioDrag, PrioChange DEF RuleNext
  <1>2. RuleSpec => []PrioInv
    BY <1>1, PrioInit, PTL DEF RuleSpec
  <1>3. PrioInv => PrioritiesDistinct
    BY DEF PrioInv, PrioritiesHold, AsMeant, InStep, Distinct, PrioritiesDistinct, TheRules,
       Exists
  <1> QED BY <1>2, <1>3, PTL

(***************************************************************************)
(* Both pages: parts of lists, and numbers of pages                        *)
(***************************************************************************)

LEMMA PartOfList ==
    ASSUME NEW S, NEW s \in Seq(S), NEW a \in Nat \ {0}, NEW b \in Nat
    PROVE  SubSeq(s, a, IF b > Len(s) THEN Len(s) ELSE b) \in Seq(S)
  <1>1. Len(s) \in Nat
    OBVIOUS
  <1>2. PICK n : n = IF b > Len(s) THEN Len(s) ELSE b
    OBVIOUS
  <1>3. n \in Nat /\ n <= Len(s)
    BY <1>1, <1>2
  <1>4. SubSeq(s, a, n) \in Seq(S)
    BY <1>3
  <1> QED BY <1>2, <1>4

LEMMA TimesNat ==
    ASSUME NEW a \in Nat, NEW b \in Nat
    PROVE  a * b \in Nat
  OBVIOUS

LEMMA PartsNat ==
    ASSUME NEW a \in Nat, NEW b \in Nat \ {0}
    PROVE  a \div b \in Nat
  OBVIOUS

\* As many pages as hold n rows.
LEMMA PagesHold ==
    ASSUME NEW n \in Nat, NEW size \in Nat \ {0}
    PROVE  (IF n = 0 THEN 1 ELSE (n + size - 1) \div size) \in Nat \ {0}
  <1>1. ASSUME n # 0 PROVE (n + size - 1) \div size \in Nat \ {0}
    <2>1. n + size - 1 \in Nat /\ n + size - 1 >= size
      BY <1>1
    <2>2. (n + size - 1) \div size \in Nat
      BY <2>1, PartsNat
    <2>3. ASSUME NEW a \in Nat, a >= size, a \div size = 0 PROVE FALSE
      BY <2>3
    <2> QED BY <2>1, <2>2, <2>3
  <1> QED BY <1>1

(***************************************************************************)
(* RuleConsole: types                                                      *)
(***************************************************************************)

Wishes == [page : Nat \ {0}, size : Sizes, filter : {"all", "owner"}]
Readings == [RuleIds -> Snapshots]
LoadRecord ==
    [step : {"timer", "names", "read", "again", "done"}, current : BOOLEAN, asked : Wishes,
     rows : Seq(RuleIds), total : Nat, raw : Readings]

StoreTyped ==
    /\ prio \in [RuleIds -> Nat] /\ enabled \subseteq RuleIds
    /\ odd \subseteq {"clamped", "partial", "midload", "grew", "beside", "halfway"}
    /\ edits \in 0..MaxEdits

ListTyped ==
    /\ centre \in BOOLEAN /\ busy \in BOOLEAN
    /\ query \in Wishes /\ loads \subseteq LoadRecord
    /\ rows \in Seq(RuleIds) /\ total \in Nat /\ raw \in Readings

DragTyped ==
    /\ reorder \in BOOLEAN
    /\ pending \in Seq(RuleIds) /\ original \in Seq(RuleIds)
    /\ entering # NoRule => entering.rows \in Seq(RuleIds) /\ entering.raw \in Readings

FormTyped ==
    /\ selected \subseteq RuleIds
    /\ ticks # NoRule => ticks \subseteq RuleIds
    /\ filtering \in {NoRule, "all", "owner"}
    /\ dialog # NoRule => dialog.rule \in RuleIds
    /\ importing # NoRule => /\ DOMAIN importing \subseteq RuleIds
                             /\ \A r \in DOMAIN importing : importing[r] \in Nat

RuleTyped == StoreTyped /\ ListTyped /\ DragTyped /\ FormTyped

LEMMA NothingRead == <<>> \in Seq(RuleIds) /\ NoRaw \in Readings
  BY DEF NoRaw, Readings, Snapshots

LEMMA ReadTyped ==
    ASSUME StoreTyped, NEW S
    PROVE  RawOf(S) \in Readings
  BY DEF StoreTyped, RawOf, Readings, Snapshots

LEMMA WishFields ==
    ASSUME NEW q \in Wishes
    PROVE  q.page - 1 \in Nat /\ q.size \in Nat
  <1>1. q.page \in Nat \ {0} /\ q.size \in Sizes
    BY DEF Wishes
  <1>2. q.size \in Nat \ {0}
    BY <1>1, RuleConsoleAssumption
  <1>3. \A n \in Nat \ {0} : n - 1 \in Nat /\ n \in Nat
    OBVIOUS
  <1> HIDE DEF Wishes
  <1> QED BY <1>1, <1>2, <1>3

LEMMA FirstWish ==
    ASSUME NEW q \in Wishes, NEW f \in {"all", "owner"}
    PROVE  [q EXCEPT !.page = 1, !.filter = f] \in Wishes
  <1>1. PICK one : one = 1
    OBVIOUS
  <1>2. one \in Nat \ {0}
    BY <1>1
  <1>3. [q EXCEPT !.page = one, !.filter = f] \in Wishes
    BY <1>2 DEF Wishes
  <1> QED BY <1>1, <1>3

LEMMA PageTyped ==
    ASSUME StoreTyped, NEW q \in Wishes
    PROVE  PageRows(q) \in Seq(RuleIds)
  <1> DEFINE S == Matching(q.filter)
             all == ByPriority(S)
             first == (q.page - 1) * q.size
             b == first + q.size
  <1>1. S \in SUBSET RuleIds
    BY DEF Matching, TheRules
  <1>2. all \in Seq(RuleIds)
    BY <1>1, OrderHoldsAll DEF StoreTyped
  <1>3. q.page - 1 \in Nat /\ q.size \in Nat
    BY WishFields
  <1>4. first \in Nat
    BY <1>3, TimesNat
  <1>5. PageRows(q) = SubSeq(all, first + 1, IF b > Len(all) THEN Len(all) ELSE b)
    BY DEF PageRows
  <1> HIDE DEF S, all, first
  <1>6. first + 1 \in Nat \ {0} /\ b \in Nat
    BY <1>3, <1>4
  <1> HIDE DEF b
  <1> QED BY <1>2, <1>5, <1>6, PartOfList

LEMMA LastPageTyped ==
    ASSUME NEW f, NEW size \in Sizes
    PROVE  PagesOf(Cardinality(Matching(f)), size) \in Nat \ {0}
  <1>1. Cardinality(Matching(f)) \in Nat /\ size \in Nat \ {0}
    BY FiniteRules, RuleConsoleAssumption DEF Matching, TheRules
  <1> QED BY <1>1, PagesHold DEF PagesOf

LEMMA AnswerTyped ==
    ASSUME StoreTyped, NEW l \in LoadRecord, NEW q \in Wishes
    PROVE  Answer(l, q) \in LoadRecord
  <1>1. PageRows(q) \in Seq(RuleIds) /\ RawOf(ToSet(PageRows(q))) \in Readings
    BY PageTyped, ReadTyped
  <1>2. Cardinality(Matching(q.filter)) \in Nat
    BY FiniteRules DEF Matching, TheRules
  <1> DEFINE p == PageRows(q)
             n == Cardinality(Matching(q.filter))
             w == RawOf(ToSet(PageRows(q)))
  <1>3. Answer(l, q) = [l EXCEPT !.step = "done", !.asked = q, !.rows = p, !.total = n,
                                 !.raw = w]
    BY DEF Answer
  <1>4. p \in Seq(RuleIds) /\ n \in Nat /\ w \in Readings
    BY <1>1, <1>2
  <1> HIDE DEF p, n, w
  <1> QED BY <1>3, <1>4 DEF LoadRecord

LEMMA ReloadTyped ==
    ASSUME ListTyped, NEW q \in Wishes, centre' \in BOOLEAN, Reload(q)
    PROVE  ListTyped'
  <1>1. query' = q /\ UNCHANGED <<rows, total, raw>>
    BY DEF Reload
  <1>2. Overtaken \subseteq LoadRecord
    <2> SUFFICES ASSUME NEW k \in loads PROVE [k EXCEPT !.current = FALSE] \in LoadRecord
      BY DEF Overtaken
    <2>1. k \in LoadRecord
      BY DEF ListTyped
    <2> QED BY <2>1 DEF LoadRecord
  <1>3. NewLoad(q) \in LoadRecord
    BY NothingRead DEF NewLoad, LoadRecord
  <1>4. loads' \subseteq LoadRecord /\ busy' \in BOOLEAN
    BY <1>2, <1>3 DEF Reload, ListTyped
  <1> QED BY <1>1, <1>4 DEF ListTyped

LEMMA RuleTypedInit == RuleInit => RuleTyped
  <1> SUFFICES ASSUME RuleInit PROVE RuleTyped
    OBVIOUS
  <1>1. StoreTyped
    <2>1. prio \in [RuleIds -> Nat]
      BY RuleConsoleAssumption DEF RuleInit
    <2> QED BY <2>1, RuleConsoleAssumption DEF RuleInit, StoreTyped, TheRules
  <1>2. query \in Wishes
    <2>1. (CHOOSE s \in Sizes : TRUE) \in Sizes
      BY RuleConsoleAssumption
    <2> QED BY <2>1 DEF RuleInit, Wishes
  <1>3. [step |-> "timer", current |-> TRUE, asked |-> query, rows |-> <<>>, total |-> 0,
         raw |-> NoRaw] \in LoadRecord
    BY <1>2, NothingRead DEF LoadRecord
  <1>4. ListTyped
    BY <1>2, <1>3, NothingRead DEF RuleInit, ListTyped
  <1>5. DragTyped /\ FormTyped
    BY NothingRead DEF RuleInit, DragTyped, FormTyped
  <1> QED BY <1>1, <1>4, <1>5 DEF RuleTyped

LEMMA LoadTyped ==
    ASSUME RuleTyped, LoadStep
    PROVE  RuleTyped'
  <1>1. PICK l \in loads : LoadBegins(l) \/ LoadNames(l) \/ LoadPage(l) \/ LoadAgain(l)
                           \/ LoadDone(l) \/ LoadFails(l)
    BY DEF LoadStep
  <1>2. l \in LoadRecord /\ StoreTyped /\ ListTyped /\ DragTyped /\ FormTyped
    BY DEF RuleTyped, ListTyped
  <1>3. \A k \in LoadRecord : Replaced(l, k) => loads' \subseteq LoadRecord
    BY <1>2 DEF Replaced, ListTyped
  <1>0. CASE LoadBegins(l)
    <2>1. [l EXCEPT !.step = "names"] \in LoadRecord
      BY <1>2 DEF LoadRecord
    <2>2. loads' \subseteq LoadRecord
      BY <1>0, <1>3, <2>1 DEF LoadBegins
    <2> QED BY <1>0, <1>2, <2>2 DEF LoadBegins, RuleTyped, StoreTyped, ListTyped, DragTyped,
               FormTyped, store, dragVars, formVars, asked
  <1>4. CASE LoadNames(l)
    <2>1. [l EXCEPT !.step = "read", !.asked = query] \in LoadRecord
      BY <1>2 DEF LoadRecord, ListTyped
    <2>2. loads' \subseteq LoadRecord
      BY <1>3, <1>4, <2>1 DEF LoadNames
    <2> QED BY <1>2, <1>4, <2>2 DEF LoadNames, RuleTyped, StoreTyped, ListTyped, DragTyped,
               FormTyped, store, dragVars, formVars, asked
  <1>5. CASE LoadPage(l)
    <2> DEFINE last == PagesOf(Cardinality(Matching(l.asked.filter)), query.size)
               a == [l EXCEPT !.step = "again"]
               d == Answer(l, l.asked)
    <2>1. last \in Nat \ {0}
      <3>1. query.size \in Sizes
        BY <1>2 DEF ListTyped, Wishes
      <3> QED BY <3>1, LastPageTyped
    <2>2. a \in LoadRecord
      BY <1>2 DEF LoadRecord
    <2>3. d \in LoadRecord
      <3>1. l.asked \in Wishes
        BY <1>2 DEF LoadRecord
      <3> QED BY <1>2, <3>1, AnswerTyped
    <2>4. [query EXCEPT !.page = last] \in Wishes
      BY <1>2, <2>1 DEF ListTyped, Wishes
    <2> HIDE DEF last, a, d
    <2>5. \/ /\ query' = [query EXCEPT !.page = last] /\ Replaced(l, a)
             /\ odd' \subseteq odd \cup {"clamped"}
          \/ Replaced(l, d) /\ query' = query /\ odd' = odd
      BY <1>5 DEF LoadPage, last, a, d
    <2>6. /\ loads' \subseteq LoadRecord /\ query' \in Wishes
          /\ odd' \subseteq odd \cup {"clamped"}
      BY <1>2, <1>3, <2>2, <2>3, <2>4, <2>5 DEF ListTyped
    <2> QED BY <1>2, <1>5, <2>6 DEF LoadPage, RuleTyped, StoreTyped, ListTyped, DragTyped,
               FormTyped, store, dragVars, formVars, asked
  <1>6. CASE LoadAgain(l)
    <2> DEFINE q == [l.asked EXCEPT !.page = query.page, !.size = query.size]
               d == Answer(l, q)
    <2>1. q \in Wishes
      BY <1>2 DEF LoadRecord, ListTyped, Wishes
    <2> HIDE DEF q
    <2>3. d \in LoadRecord
      BY <1>2, <2>1, AnswerTyped
    <2>4. Replaced(l, d)
      BY <1>6 DEF LoadAgain, q
    <2>5. loads' \subseteq LoadRecord
      BY <1>3, <2>3, <2>4
    <2> QED BY <1>2, <1>6, <2>5 DEF LoadAgain, RuleTyped, StoreTyped, ListTyped, DragTyped,
               FormTyped, store, dragVars, formVars, asked
  <1>7. CASE LoadDone(l)
    <2>1. l.rows \in Seq(RuleIds) /\ l.raw \in Readings /\ l.total \in Nat
      BY <1>2 DEF LoadRecord
    <2>2. Arranged(l.rows) \in Seq(RuleIds)
      <3> DEFINE I == {i \in DOMAIN pending : pending[i] \in ToSet(l.rows)}
                 kept == Subsequence(pending, I)
                 J == {i \in DOMAIN l.rows : l.rows[i] \notin ToSet(kept)}
                 fresh == Subsequence(l.rows, J)
      <3>1. pending \in Seq(RuleIds) /\ I \in SUBSET DOMAIN pending
        BY <1>2 DEF DragTyped
      <3>2. J \in SUBSET DOMAIN l.rows
        OBVIOUS
      <3>3. Arranged(l.rows) = kept \o fresh
        BY DEF Arranged
      <3> HIDE DEF I, J
      <3>4. kept \in Seq(RuleIds)
        BY <3>1, SubsequenceIs
      <3>5. fresh \in Seq(RuleIds)
        BY <2>1, <3>2, SubsequenceIs
      <3> HIDE DEF kept, fresh
      <3> QED BY <3>3, <3>4, <3>5
    <2>3. /\ loads' \subseteq LoadRecord /\ busy' \in BOOLEAN /\ rows' \in Seq(RuleIds)
          /\ total' \in Nat /\ raw' \in Readings /\ reorder' \in BOOLEAN /\ pending' \in Seq(RuleIds)
          /\ odd' \subseteq odd \cup {"partial"}
      BY <1>2, <1>7, <2>1, <2>2 DEF LoadDone, Render, ListTyped, DragTyped
    <2> QED BY <1>2, <1>7, <2>3 DEF LoadDone, RuleTyped, StoreTyped, ListTyped, DragTyped,
               FormTyped, store, formVars, asked
  <1>8. CASE LoadFails(l)
    <2>0. total' \in {0, total}
      BY <1>8 DEF LoadFails
    <2>1. /\ loads' \subseteq LoadRecord /\ busy' \in BOOLEAN /\ rows' \in Seq(RuleIds)
          /\ total' \in Nat
      <3>1. total' \in Nat
        BY <1>2, <2>0 DEF ListTyped
      <3>2. loads' \subseteq LoadRecord /\ busy' \in BOOLEAN /\ rows' \in Seq(RuleIds)
        BY <1>2, <1>8, NothingRead DEF LoadFails, ListTyped
      <3> QED BY <3>1, <3>2
    <2> QED BY <1>2, <1>8, <2>1 DEF LoadFails, RuleTyped, StoreTyped, ListTyped, DragTyped,
               FormTyped, store, dragVars, formVars, asked
  <1> QED BY <1>0, <1>1, <1>4, <1>5, <1>6, <1>7, <1>8

\* Another page, size or filter, and a list read anew.
LEMMA WishTyped ==
    ASSUME RuleTyped, NEW q \in Wishes, Reload(q), centre' \in BOOLEAN,
           filtering' \in {filtering, NoRule},
           UNCHANGED <<store, dragVars, selected, ticks, formVars, edits, odd>>
    PROVE  RuleTyped'
  <1>1. ListTyped'
    BY ReloadTyped DEF RuleTyped
  <1> QED BY <1>1 DEF RuleTyped, StoreTyped, DragTyped, FormTyped, store, dragVars, formVars

LEMMA ListStepTyped ==
    ASSUME RuleTyped, ListStep
    PROVE  RuleTyped'
  <1>0. query \in Wishes /\ centre \in BOOLEAN
    BY DEF RuleTyped, ListTyped
  <1>1. ASSUME NEW p \in 1..Cardinality(RuleIds), ChangePage(p) PROVE RuleTyped'
    <2>0. p \in Nat \ {0}
      BY FiniteRules
    <2>1. [query EXCEPT !.page = p] \in Wishes
      BY <1>0, <2>0 DEF Wishes
    <2> QED BY <1>0, <1>1, <2>1, WishTyped DEF ChangePage, asked
  <1>2. ASSUME NEW s \in Sizes, ChangeSize(s) PROVE RuleTyped'
    <2>1. PageAfter(query, s) \in Nat \ {0}
      <3>0. s \in Nat \ {0}
        BY RuleConsoleAssumption
      <3>1. query.page - 1 \in Nat /\ query.size \in Nat /\ s \in Nat \ {0}
        BY <1>0, <3>0, WishFields
      <3>2. (query.page - 1) * query.size \in Nat
        BY <3>1, TimesNat
      <3>3. ((query.page - 1) * query.size) \div s \in Nat
        BY <3>1, <3>2, PartsNat
      <3> QED BY <3>3 DEF PageAfter
    <2>2. [query EXCEPT !.page = PageAfter(query, s), !.size = s] \in Wishes
      BY <1>0, <2>1 DEF Wishes
    <2> QED BY <1>0, <1>2, <2>2, WishTyped DEF ChangeSize, asked
  <1>3. ASSUME NEW f \in {"all", "owner"}, ChangeSearch(f) PROVE RuleTyped'
    <2>1. [query EXCEPT !.page = 1, !.filter = f] \in Wishes
      BY <1>0, FirstWish
    <2> QED BY <1>0, <1>3, <2>1, WishTyped DEF ChangeSearch, Narrow, asked
  <1>10. ASSUME NEW f \in {"all", "owner"}, ChangeFilter(f) PROVE RuleTyped'
    BY <1>10 DEF ChangeFilter, RuleTyped, StoreTyped, ListTyped, DragTyped, FormTyped, store,
       listVars, dragVars, formVars
  <1>11. CASE FilterLost
    BY <1>11 DEF FilterLost, RuleTyped, StoreTyped, ListTyped, DragTyped, FormTyped, store,
       listVars, dragVars, formVars
  <1>12. CASE FilterRead
    <2>1. [query EXCEPT !.page = 1, !.filter = filtering] \in Wishes
      <3>1. filtering \in {"all", "owner"}
        BY <1>12 DEF FilterRead, RuleTyped, FormTyped
      <3> QED BY <1>0, <3>1, FirstWish
    <2>2. CASE UNCHANGED listVars
      BY <1>12, <2>2 DEF FilterRead, RuleTyped, StoreTyped, ListTyped, DragTyped, FormTyped,
         store, listVars, dragVars, formVars
    <2>3. CASE Narrow(filtering)
      BY <1>0, <1>12, <2>1, <2>3, WishTyped DEF FilterRead, Narrow
    <2> QED BY <1>12, <2>2, <2>3 DEF FilterRead
  <1>4. CASE ClearFilters
    <2>1. [query EXCEPT !.page = 1, !.filter = "all"] \in Wishes
      BY <1>0, FirstWish
    <2> QED BY <1>0, <1>4, <2>1, WishTyped DEF ClearFilters, Narrow, asked
  <1>5. CASE Retry
    BY <1>0, <1>5, WishTyped DEF Retry, Again, asked
  <1>6. CASE EnterCentre
    BY <1>0, <1>6, WishTyped DEF EnterCentre, Again, asked
  <1>7. CASE LeaveCentre
    <2>1. loads' \subseteq LoadRecord
      <3> SUFFICES ASSUME NEW k \in loads PROVE [k EXCEPT !.current = FALSE] \in LoadRecord
        BY <1>7 DEF LeaveCentre
      <3>1. k \in LoadRecord
        BY DEF RuleTyped, ListTyped
      <3> QED BY <3>1 DEF LoadRecord
    <2>2. StoreTyped'
      BY <1>7 DEF LeaveCentre, RuleTyped, StoreTyped, store
    <2>3. ListTyped'
      BY <1>7, <2>1, NothingRead DEF LeaveCentre, RuleTyped, ListTyped
    <2>4. DragTyped'
      <3>1. CASE reorder
        BY <1>7, <3>1, NothingRead DEF LeaveCentre, RuleTyped, DragTyped
      <3>2. CASE ~reorder
        BY <1>7, <3>2 DEF LeaveCentre, RuleTyped, DragTyped
      <3> QED BY <3>1, <3>2
    <2>5. FormTyped'
      BY <1>7 DEF LeaveCentre, RuleTyped, FormTyped, formVars, asked
    <2> QED BY <2>2, <2>3, <2>4, <2>5 DEF RuleTyped
  <1>8. ASSUME NEW S \in SUBSET RuleIds, Tick(S) PROVE RuleTyped'
    BY <1>8 DEF Tick, RuleTyped, StoreTyped, ListTyped, DragTyped, FormTyped, store, listVars,
       dragVars, formVars
  <1>9. CASE Ticked \/ TickLost
    BY <1>9 DEF Ticked, TickLost, RuleTyped, StoreTyped, ListTyped, DragTyped, FormTyped,
       store, listVars, dragVars, formVars
  <1> QED BY <1>1, <1>2, <1>3, <1>4, <1>5, <1>6, <1>7, <1>8, <1>9, <1>10, <1>11,
          <1>12, LoadTyped DEF ListStep

LEMMA InOrderTyped ==
    ASSUME StoreTyped, DragTyped
    PROVE  InOrder(pending) \in [RuleIds -> Nat]
  <1>1. ASSUME NEW r \in ToSet(pending)
        PROVE  Step * (CHOOSE i \in DOMAIN pending : pending[i] = r) \in Nat
    <2>1. \E i \in DOMAIN pending : pending[i] = r
      BY DEF ToSet
    <2>2. PICK i : i = CHOOSE k \in DOMAIN pending : pending[k] = r
      OBVIOUS
    <2>3. i \in DOMAIN pending
      BY <2>1, <2>2
    <2>4. i \in Nat
      BY <2>3 DEF DragTyped
    <2>5. Step * i \in Nat
      BY <2>4, StepTimes
    <2> QED BY <2>2, <2>5
  <1> QED BY <1>1 DEF InOrder, StoreTyped

LEMMA DragStepTyped ==
    ASSUME RuleTyped, DragStep
    PROVE  RuleTyped'
  <1>0. /\ query \in Wishes /\ centre \in BOOLEAN
        /\ StoreTyped /\ ListTyped /\ DragTyped /\ FormTyped
    BY DEF RuleTyped, ListTyped
  <1>1. CASE EnterReorder
    <2>1. entering'.rows \in Seq(RuleIds) /\ entering'.raw \in Readings
      BY <1>1, NothingRead DEF EnterReorder
    <2> QED BY <1>0, <1>1, <2>1 DEF EnterReorder, RuleTyped, StoreTyped, ListTyped, DragTyped,
               FormTyped, store, listVars, formVars, asked
  <1>2. CASE EnterRead
    <2>1. ByPriority(TheRules) \in Seq(RuleIds) /\ RawOf(TheRules) \in Readings
      <3>1. TheRules \in SUBSET RuleIds
        BY DEF TheRules
      <3>2. ByPriority(TheRules) \in Seq(RuleIds)
        BY <1>0, <3>1, OrderHoldsAll DEF StoreTyped
      <3> QED BY <1>0, <3>2, ReadTyped
    <2>2. entering' = [read |-> TRUE, rows |-> ByPriority(TheRules), raw |-> RawOf(TheRules)]
          /\ raw' = RawOf(TheRules)
      BY <1>2 DEF EnterRead
    <2>3. entering'.rows \in Seq(RuleIds) /\ entering'.raw \in Readings /\ raw' \in Readings
      BY <2>1, <2>2
    <2>4. UNCHANGED <<store, centre, query, busy, loads, rows, total, reorder, pending,
                      original, selected, asked, formVars, edits, odd>>
      BY <1>2 DEF EnterRead
    <2> QED BY <1>0, <2>3, <2>4 DEF RuleTyped, StoreTyped, ListTyped, DragTyped, FormTyped,
               store, formVars, asked
  <1>3. CASE EnterDone
    <2>1. entering.rows \in Seq(RuleIds) /\ entering.raw \in Readings
      BY <1>0, <1>3 DEF EnterDone, DragTyped
    <2>2. /\ rows' \in {rows, entering.rows} /\ raw' \in {raw, entering.raw}
          /\ original' \in {original, entering.rows} /\ pending' \in {pending, entering.rows}
          /\ reorder' \in {reorder, TRUE} /\ selected' \in {selected, {}}
          /\ odd' \subseteq odd \cup {"midload"} /\ entering' = NoRule
          /\ total' \in {total, Len(entering.rows)}
          /\ UNCHANGED <<store, centre, query, busy, loads, asked, formVars, edits>>
      BY <1>3 DEF EnterDone
    <2>3. StoreTyped'
      BY <1>0, <2>2 DEF StoreTyped, store
    <2>4. ListTyped'
      BY <1>0, <2>1, <2>2 DEF ListTyped
    <2>5. DragTyped'
      BY <1>0, <2>1, <2>2 DEF DragTyped
    <2>6. FormTyped'
      BY <1>0, <2>2 DEF FormTyped, formVars, asked
    <2> QED BY <2>3, <2>4, <2>5, <2>6 DEF RuleTyped
  <1>4. CASE EnterFails
    BY <1>0, <1>4 DEF EnterFails, RuleTyped, StoreTyped, ListTyped, DragTyped, FormTyped,
       store, listVars, formVars, asked
  <1>5. CASE CancelReorder
    <2>1. ListTyped'
      BY <1>0, <1>5, ReloadTyped DEF CancelReorder, Again
    <2> QED BY <1>0, <1>5, <2>1, NothingRead DEF CancelReorder, ReorderOff, RuleTyped,
               StoreTyped, DragTyped, FormTyped, store, formVars, asked
  <1>6. CASE SaveReorder
    <2>1. ListTyped'
      BY <1>0, <1>6, ReloadTyped DEF SaveReorder, Again
    <2>2. prio' \in [RuleIds -> Nat]
      BY <1>0, <1>6, InOrderTyped DEF SaveReorder, StoreTyped
    <2>3. edits' \in 0..MaxEdits
      BY <1>0, <1>6, RuleConsoleAssumption DEF SaveReorder, StoreTyped
    <2>4. odd' \subseteq odd
      BY <1>6 DEF SaveReorder
    <2> QED BY <1>0, <1>6, <2>1, <2>2, <2>3, <2>4, NothingRead DEF SaveReorder, ReorderOff,
               RuleTyped, StoreTyped, DragTyped, FormTyped, formVars, asked
  <1>7. ASSUME NEW i \in DOMAIN pending, NEW j \in DOMAIN pending, Drag(i, j)
        PROVE  RuleTyped'
    <2>1. pending' \in Seq(RuleIds)
      <3>1. pending \in Seq(RuleIds)
        BY <1>0 DEF DragTyped
      <3>2. Moved(pending, i, j) \in Seq(RuleIds)
        BY <3>1, MovedStays
      <3> QED BY <1>7, <3>2 DEF Drag
    <2> QED BY <1>0, <1>7, <2>1 DEF Drag, RuleTyped, StoreTyped, ListTyped, DragTyped,
               FormTyped, store, formVars, asked
  <1>8. ASSUME NEW saved, SaveFails(saved) PROVE RuleTyped'
    <2>1. prio' \in [RuleIds -> Nat]
      BY <1>0, <1>8, InOrderTyped DEF SaveFails, StoreTyped
    <2>2. odd' \subseteq odd \cup {"halfway"}
      BY <1>8 DEF SaveFails
    <2>3. edits' \in 0..MaxEdits
      BY <1>0, <1>8, RuleConsoleAssumption DEF SaveFails, StoreTyped
    <2>4. StoreTyped'
      BY <1>0, <1>8, <2>1, <2>2, <2>3 DEF SaveFails, StoreTyped
    <2> QED BY <1>0, <1>8, <2>4 DEF SaveFails, RuleTyped, ListTyped, DragTyped, FormTyped,
               listVars, dragVars, formVars, asked
  <1> QED BY <1>1, <1>2, <1>3, <1>4, <1>5, <1>6, <1>7, <1>8 DEF DragStep

\* A change of the store that ends with a list read anew.
LEMMA SavedTyped ==
    ASSUME RuleTyped, Saved, prio' \in [RuleIds -> Nat], enabled' \subseteq RuleIds,
           odd' \subseteq odd \cup {"grew", "beside"}, UNCHANGED <<dragVars, asked>>,
           selected' \in {selected, {}}, dialog' \in {dialog, NoRule},
           importing' \in {importing, NoRule}
    PROVE  RuleTyped'
  <1>1. ListTyped'
    BY ReloadTyped DEF RuleTyped, ListTyped, Saved, Again
  <1>2. edits' \in 0..MaxEdits
    BY RuleConsoleAssumption DEF RuleTyped, StoreTyped, Saved
  <1>3. StoreTyped'
    BY <1>2 DEF RuleTyped, StoreTyped
  <1>4. DragTyped'
    BY DEF RuleTyped, DragTyped, dragVars
  <1>5. FormTyped'
    BY DEF RuleTyped, FormTyped, asked
  <1> QED BY <1>1, <1>3, <1>4, <1>5 DEF RuleTyped

LEMMA ChangeStepTyped ==
    ASSUME RuleTyped, ChangeStep
    PROVE  RuleTyped'
  <1>0. /\ prio \in [RuleIds -> Nat] /\ enabled \subseteq RuleIds
        /\ StoreTyped /\ ListTyped /\ DragTyped /\ FormTyped
    BY DEF RuleTyped, StoreTyped
  <1>a. \A p \in 1..MaxPriority : p \in Nat
    BY RuleConsoleAssumption
  <1>b. Appears => odd' \subseteq odd \cup {"grew", "beside"}
    BY DEF Appears
  <1>1. ASSUME NEW r \in RuleIds, NEW p \in 1..MaxPriority, CreateRule(r, p)
        PROVE  RuleTyped'
    <2>1. prio' \in [RuleIds -> Nat] /\ enabled' \subseteq RuleIds
      BY <1>0, <1>a, <1>1 DEF CreateRule
    <2> QED BY <1>1, <1>b, <2>1, SavedTyped DEF CreateRule, formVars
  <1>2. ASSUME NEW r \in RuleIds, OpenRule(r) PROVE RuleTyped'
    <2>1. dialog'.rule \in RuleIds
      BY <1>2 DEF OpenRule
    <2> QED BY <1>0, <1>2, <2>1 DEF OpenRule, RuleTyped, StoreTyped, ListTyped, DragTyped,
               FormTyped, store, listVars, dragVars, asked
  <1>3. ASSUME NEW r \in RuleIds, OtherChanges(r) PROVE RuleTyped'
    <2>1. HighestOf(TheRules) + Step \in Nat
      <3>1. HighestOf(TheRules) \in Nat
        BY <1>0, HighestBounds DEF TheRules
      <3> QED BY <3>1, RuleConsoleAssumption
    <2>2. prio' \in [RuleIds -> Nat] /\ enabled' \subseteq RuleIds
      <3>1. \/ prio' = [prio EXCEPT ![r] = HighestOf(TheRules) + Step]
            \/ prio' = [prio EXCEPT ![r] = 0] \/ prio' = prio
        BY <1>3 DEF OtherChanges
      <3>2. enabled' \subseteq enabled \cup {r}
        BY <1>3 DEF OtherChanges, SetEnabled
      <3> QED BY <1>0, <2>1, <3>1, <3>2
    <2>3. odd' \subseteq odd \cup {"grew", "beside"}
      BY <1>3, <1>b DEF OtherChanges
    <2>4. edits' \in 0..MaxEdits
      BY <1>0, <1>3, RuleConsoleAssumption DEF OtherChanges, StoreTyped
    <2> QED BY <1>0, <1>3, <2>2, <2>3, <2>4 DEF OtherChanges, RuleTyped, StoreTyped, ListTyped,
               DragTyped, FormTyped, listVars, dragVars, formVars, asked
  <1>4. ASSUME NEW p \in 1..MaxPriority, NEW on \in BOOLEAN, EditRule(p, on)
        PROVE  RuleTyped'
    <2>1. dialog.rule \in RuleIds
      BY <1>0, <1>4 DEF EditRule, FormTyped
    <2>2. prio' \in [RuleIds -> Nat] /\ enabled' \subseteq RuleIds
      BY <1>0, <1>a, <1>4, <2>1 DEF EditRule, SetEnabled
    <2> QED BY <1>4, <2>2, SavedTyped DEF EditRule
  <1>5. CASE CloseRule \/ ImportFails
    BY <1>0, <1>5 DEF CloseRule, ImportFails, RuleTyped, StoreTyped, ListTyped, DragTyped,
       FormTyped, store, listVars, dragVars, asked
  <1>6. CASE ToggleRule
    <2>1. dialog.rule \in RuleIds
      BY <1>0, <1>6 DEF ToggleRule, FormTyped
    <2>2. prio' \in [RuleIds -> Nat] /\ enabled' \subseteq RuleIds
      BY <1>0, <1>6, <2>1 DEF ToggleRule, SetEnabled
    <2> QED BY <1>6, <2>2, SavedTyped DEF ToggleRule
  <1>7. CASE DeleteRule
    <2>1. prio' \in [RuleIds -> Nat] /\ enabled' \subseteq RuleIds
      BY <1>0, <1>7 DEF DeleteRule
    <2> QED BY <1>7, <2>1, SavedTyped DEF DeleteRule
  <1>8. ASSUME NEW S \in SUBSET RuleIds, BatchDelete(S) PROVE RuleTyped'
    <2>1. prio' \in [RuleIds -> Nat] /\ enabled' \subseteq RuleIds
      BY <1>0, <1>8 DEF BatchDelete
    <2> QED BY <1>8, <2>1, SavedTyped DEF BatchDelete, formVars
  <1>9. ASSUME NEW S \in SUBSET RuleIds, ImportLines(S) PROVE RuleTyped'
    <2> DEFINE place(r) == Cardinality({k \in S : k <= r})
    <2>1. ASSUME NEW r \in S PROVE HighestOf(TheRules) + Step * place(r) \in Nat
      <3>1. HighestOf(TheRules) \in Nat
        BY <1>0, HighestBounds DEF TheRules
      <3>2. place(r) \in Nat
        <4>1. {k \in S : k <= r} \in SUBSET RuleIds
          OBVIOUS
        <4> QED BY <4>1, FiniteRules
      <3> HIDE DEF place
      <3>3. Step * place(r) \in Nat
        BY <3>2, StepTimes
      <3> QED BY <3>1, <3>3
    <2>2. importing' = [r \in S |-> HighestOf(TheRules) + Step * place(r)]
      BY <1>9 DEF ImportLines
    <2> HIDE DEF place
    <2>3. DOMAIN importing' \subseteq RuleIds /\ \A r \in DOMAIN importing' : importing'[r] \in Nat
      BY <2>1, <2>2
    <2> QED BY <1>0, <1>9, <2>3 DEF ImportLines, RuleTyped, StoreTyped, ListTyped, DragTyped,
               FormTyped, store, listVars, dragVars, asked
  <1>10. ASSUME NEW S \in SUBSET RuleIds, NEW on \in BOOLEAN, BatchSetEnabled(on, S)
         PROVE  RuleTyped'
    <2>1. prio' \in [RuleIds -> Nat] /\ enabled' \subseteq RuleIds
      BY <1>0, <1>10 DEF BatchSetEnabled
    <2> QED BY <1>10, <2>1, SavedTyped DEF BatchSetEnabled, formVars
  <1>11. CASE ImportWritten
    <2>1. /\ DOMAIN importing \subseteq RuleIds
          /\ \A r \in DOMAIN importing : importing[r] \in Nat
      BY <1>0, <1>11 DEF ImportWritten, FormTyped
    <2>2. prio' \in [RuleIds -> Nat] /\ enabled' \subseteq RuleIds
      BY <1>0, <1>11, <2>1 DEF ImportWritten
    <2> QED BY <1>11, <1>b, <2>2, SavedTyped DEF ImportWritten
  <1>12. ASSUME NEW S, PutBack(S)
         PROVE  /\ prio' \in [RuleIds -> Nat] /\ enabled' \subseteq RuleIds
                /\ odd' \subseteq odd \cup {"grew", "beside"}
    <2>1. \A r \in RuleIds : BackupPrio[r] \in Nat
      BY RuleConsoleAssumption
    <2>2. prio' \in [RuleIds -> Nat] /\ enabled' \subseteq RuleIds
      BY <1>0, <1>12, <2>1 DEF PutBack, InFile
    <2>3. odd' \subseteq odd \cup {"grew", "beside"}
      BY <1>12 DEF PutBack
    <2> QED BY <2>2, <2>3
  <1>13. CASE Restore
    <2>1. PutBack(Covered) /\ Saved
      BY <1>13 DEF Restore
    <2>2. UNCHANGED <<dragVars, selected, asked, formVars>>
      BY <2>1 DEF PutBack
    <2> QED BY <1>12, <2>1, <2>2, SavedTyped DEF formVars
  <1>14. ASSUME NEW saved, RestoreFails(saved) PROVE RuleTyped'
    <2>1. /\ PutBack(Covered \cap saved) /\ edits' = edits + 1 /\ edits < MaxEdits
          /\ UNCHANGED <<centre, listVars>>
      BY <1>14 DEF RestoreFails
    <2>2. edits' \in 0..MaxEdits
      BY <1>0, <2>1, RuleConsoleAssumption DEF StoreTyped
    <2>3. UNCHANGED <<dragVars, selected, asked, formVars>>
      BY <2>1 DEF PutBack
    <2>4. StoreTyped'
      BY <1>0, <1>12, <2>1, <2>2 DEF StoreTyped
    <2> QED BY <1>0, <2>1, <2>3, <2>4 DEF RuleTyped, ListTyped, DragTyped, FormTyped, listVars,
               dragVars, formVars, asked
  <1> QED BY <1>1, <1>2, <1>3, <1>4, <1>5, <1>6, <1>7, <1>8, <1>9, <1>10, <1>11, <1>13,
          <1>14 DEF ChangeStep

LEMMA RuleTypes == RuleTyped => RuleTypeOK
  <1> SUFFICES ASSUME RuleTyped PROVE RuleTypeOK
    OBVIOUS
  <1>1. \A s \in Seq(RuleIds) : ToSet(s) \subseteq RuleIds
    BY DEF ToSet
  <1>2. query.page \in Nat \ {0} /\ query.size \in Sizes /\ query.filter \in {"all", "owner"}
    BY DEF RuleTyped, ListTyped, Wishes
  <1>3. ASSUME NEW l \in loads
        PROVE  l.step \in {"timer", "names", "read", "again", "done"} /\ l.rows \in Seq(RuleIds)
    BY DEF RuleTyped, ListTyped, LoadRecord
  <1>4. /\ ToSet(rows) \subseteq RuleIds /\ ToSet(pending) \subseteq RuleIds
        /\ ToSet(original) \subseteq RuleIds /\ selected \subseteq RuleIds
    BY <1>1 DEF RuleTyped, ListTyped, DragTyped, FormTyped
  <1>5. {centre, busy, reorder} \subseteq BOOLEAN
    BY DEF RuleTyped, ListTyped, DragTyped
  <1>6. total \in Nat /\ filtering \in {NoRule, "all", "owner"} /\ raw \in [RuleIds -> Snapshots]
    BY DEF RuleTyped, ListTyped, FormTyped, Readings
  <1>7. /\ prio \in [RuleIds -> Nat] /\ enabled \subseteq RuleIds /\ edits \in 0..MaxEdits
        /\ odd \subseteq {"clamped", "partial", "midload", "grew", "beside", "halfway"}
    BY DEF RuleTyped, StoreTyped
  <1> QED BY <1>1, <1>2, <1>3, <1>4, <1>5, <1>6, <1>7 DEF RuleTypeOK

\* The page of the rules keeps its types: what it shows, drags, ticks and imports are
\* rules, and the page of the list it stands at is one.
THEOREM RulesTyped == RuleSpec => []RuleTypeOK
  <1>1. RuleTyped /\ [RuleNext]_ruleVars => RuleTyped'
    <2> SUFFICES ASSUME RuleTyped, [RuleNext]_ruleVars PROVE RuleTyped'
      OBVIOUS
    <2>1. CASE UNCHANGED ruleVars
      BY <2>1 DEF ruleVars, store, listVars, dragVars, formVars, RuleTyped, StoreTyped,
         ListTyped, DragTyped, FormTyped, asked
    <2> QED BY <2>1, ListStepTyped, DragStepTyped, ChangeStepTyped DEF RuleNext
  <1> QED BY <1>1, RuleTypedInit, RuleTypes, PTL DEF RuleSpec

(***************************************************************************)
(* UserConsole: types                                                      *)
(***************************************************************************)

Wants == [page : Nat \ {0}, size : PageSizes, filter : {"all", "active"}]
RefreshRecord == [step : {"timer", "read", "rest"}, asked : Wants, rows : Seq(Logins)]

ListKnown ==
    /\ wanted \in Wants /\ gridRows \in Seq(Logins) /\ picked \subseteq Logins
    /\ refresh # Nobody => refresh \in RefreshRecord
    /\ asking # Nobody =>
         /\ asking.about \in {"filter", "ticks"}
         /\ asking.about = "filter" => asking.answer \in {"all", "active"}
         /\ asking.about = "ticks" => asking.answer \subseteq Logins

CountsKnown ==
    /\ account \in [Logins -> {"none", "active", "disabled"}]
    /\ jobs \in 0..MaxJobs /\ turns \in 0..MaxChangesU /\ mishaps \in 0..MaxFailsU

UserTyped == ReportInv /\ ListKnown /\ CountsKnown

LEMMA NamesInOrder ==
    ASSUME NEW S \in SUBSET Logins
    PROVE  Cardinality(S) \in Nat /\ InOrderOf(S) \in Seq(Logins)
  <1>0. Logins \subseteq Nat /\ IsFiniteSet(Logins)
    BY UserConsoleAssumption
  <1>1. S \in SUBSET Int
    BY <1>0
  <1>6. IsFiniteSet(S)
    BY <1>0, FS_Subset
  <1>2. /\ Cardinality(S) \in Nat
        /\ \A k \in 1 .. Cardinality(S) : \E u \in S : PlaceIn(S, u) = k
    BY <1>1, <1>6, PlacesAmong
  <1> DEFINE at(k) == CHOOSE u \in S : PlaceIn(S, u) = k
  <1>3. \A k \in 1 .. Cardinality(S) : at(k) \in Logins
    BY <1>2
  <1>4. InOrderOf(S) = [k \in 1 .. Cardinality(S) |-> at(k)]
    BY DEF InOrderOf
  <1> HIDE DEF at
  <1>5. InOrderOf(S) \in [1 .. Cardinality(S) -> Logins]
    BY <1>3, <1>4
  <1> QED BY <1>2, <1>5

LEMMA WantFields ==
    ASSUME NEW q \in Wants
    PROVE  q.page - 1 \in Nat /\ q.page \in Nat /\ q.size \in Nat
  <1>1. q.page \in Nat \ {0} /\ q.size \in PageSizes
    BY DEF Wants
  <1>2. q.size \in Nat \ {0}
    BY <1>1, UserConsoleAssumption
  <1>3. \A n \in Nat \ {0} : n - 1 \in Nat /\ n \in Nat
    OBVIOUS
  <1> HIDE DEF Wants
  <1> QED BY <1>1, <1>2, <1>3

LEMMA FirstWant ==
    ASSUME NEW q \in Wants, NEW f \in {"all", "active"}
    PROVE  /\ [q EXCEPT !.page = 1, !.filter = f] \in Wants
           /\ [q EXCEPT !.filter = f, !.page = 1] \in Wants
  <1>1. PICK one : one = 1
    OBVIOUS
  <1>2. one \in Nat \ {0}
    BY <1>1
  <1>3. /\ [q EXCEPT !.page = one, !.filter = f] \in Wants
        /\ [q EXCEPT !.filter = f, !.page = one] \in Wants
    BY <1>2 DEF Wants
  <1> QED BY <1>1, <1>3

LEMMA RowsTyped ==
    ASSUME NEW q \in Wants
    PROVE  RowsOf(q) \in Seq(Logins)
  <1> DEFINE S == Filtered(q.filter)
             all == InOrderOf(S)
             a == (q.page - 1) * q.size
             b == q.page * q.size
  <1>1. S \in SUBSET Logins
    BY DEF Filtered, Existing
  <1>2. all \in Seq(Logins)
    BY <1>1, NamesInOrder
  <1>3. q.page - 1 \in Nat /\ q.page \in Nat /\ q.size \in Nat
    BY WantFields
  <1>4. a \in Nat /\ b \in Nat
    BY <1>3, TimesNat
  <1>5. RowsOf(q) = SubSeq(all, a + 1, IF b > Len(all) THEN Len(all) ELSE b)
    BY DEF RowsOf
  <1> HIDE DEF S, all, a, b
  <1>6. a + 1 \in Nat \ {0}
    BY <1>4
  <1> QED BY <1>2, <1>4, <1>5, <1>6, PartOfList

LEMMA PageCountTyped ==
    ASSUME NEW f, NEW size \in PageSizes
    PROVE  PageCount(f, size) \in Nat \ {0}
  <1>1. Cardinality(Filtered(f)) \in Nat /\ size \in Nat \ {0}
    BY NamesInOrder, UserConsoleAssumption DEF Filtered, Existing
  <1> QED BY <1>1, PagesHold DEF PageCount

LEMMA StartTyped ==
    ASSUME NEW q \in Wants
    PROVE  StartRefresh(q) \in RefreshRecord
  <1>1. <<>> \in Seq(Logins)
    OBVIOUS
  <1> QED BY <1>1 DEF StartRefresh, RefreshRecord

LEMMA WantsMove ==
    ASSUME NEW q \in Wants, NEW p \in Nat \ {0}
    PROVE  /\ [q EXCEPT !.page = p] \in Wants
           /\ \A s \in PageSizes : [q EXCEPT !.page = p, !.size = s] \in Wants
           /\ \A f \in {"all", "active"} : /\ [q EXCEPT !.page = p, !.filter = f] \in Wants
                                           /\ [q EXCEPT !.filter = f, !.page = p] \in Wants
  BY DEF Wants

\* The list is read for the page q, or later.
LEMMA RefreshTyped ==
    ASSUME ListKnown, NEW q \in Wants, RefreshList(q), gridRows' \in Seq(Logins),
           picked' \subseteq Logins, asking' \in {asking, Nobody}
    PROVE  ListKnown'
  <1>1. StartRefresh(q) \in RefreshRecord
    BY StartTyped
  <1>2. wanted' \in Wants /\ (refresh' # Nobody => refresh' \in RefreshRecord)
    BY <1>1 DEF RefreshList, ListKnown
  <1> QED BY <1>2 DEF ListKnown

LEMMA UserTypedInit == UserInit => UserTyped
  <1> SUFFICES ASSUME UserInit PROVE UserTyped
    OBVIOUS
  <1>1. wanted \in Wants
    BY DEF UserInit, Wants
  <1>2. refresh \in RefreshRecord
    BY <1>1, StartTyped DEF UserInit
  <1>3. gridRows \in Seq(Logins) /\ picked \subseteq Logins /\ asking = Nobody
    BY DEF UserInit
  <1>4. CountsKnown
    <2>1. account \in [Logins -> {"none", "active", "disabled"}]
      BY DEF UserInit
    <2> QED BY <2>1, UserConsoleAssumption DEF UserInit, CountsKnown
  <1> QED BY <1>1, <1>2, <1>3, <1>4, ReportInit DEF UserTyped, ListKnown

LEMMA ListMovesTyped ==
    ASSUME UserTyped, ListMoves
    PROVE  ListKnown' /\ CountsKnown'
  <1>0. ListKnown /\ CountsKnown /\ wanted \in Wants
    BY DEF UserTyped, ListKnown
  <1>1. CASE RefreshQueries
    <2>1. refresh \in RefreshRecord
      BY <1>0, <1>1 DEF RefreshQueries, ListKnown
    <2>2. [refresh EXCEPT !.step = "read", !.asked = wanted] \in RefreshRecord
      BY <1>0, <2>1 DEF RefreshRecord
    <2> QED BY <1>0, <1>1, <2>2 DEF RefreshQueries, ListKnown, CountsKnown
  <1>2. CASE RefreshReads
    <2> DEFINE last == PageCount(refresh.asked.filter, wanted.size)
               page == IF wanted.page > last THEN last ELSE refresh.asked.page
               q == [refresh.asked EXCEPT !.page = page]
    <2>1. refresh.asked \in Wants
      BY <1>0, <1>2 DEF RefreshReads, ListKnown, RefreshRecord
    <2>2. last \in Nat \ {0}
      <3>1. wanted.size \in PageSizes
        BY <1>0 DEF Wants
      <3> QED BY <3>1, PageCountTyped
    <2>3. /\ wanted' = IF wanted.page > last THEN [wanted EXCEPT !.page = last] ELSE wanted
          /\ refresh' = [step |-> "rest", asked |-> q, rows |-> RowsOf(q)]
          /\ UNCHANGED <<account, gridRows, picked, asking, jobs, turns, mishaps>>
      BY <1>2 DEF RefreshReads
    <2> HIDE DEF last
    <2>4. page \in Nat \ {0}
      <3>1. refresh.asked.page \in Nat \ {0}
        BY <2>1 DEF Wants
      <3> QED BY <2>2, <3>1
    <2>5. q \in Wants
      BY <2>1, <2>4 DEF Wants
    <2>6. wanted' \in Wants
      BY <1>0, <2>2, <2>3, WantsMove
    <2> HIDE DEF q
    <2>7. refresh' \in RefreshRecord
      BY <2>3, <2>5, RowsTyped DEF RefreshRecord
    <2> QED BY <1>0, <2>3, <2>6, <2>7 DEF ListKnown, CountsKnown
  <1>3. CASE RefreshDone
    <2>1. refresh.rows \in Seq(Logins)
      BY <1>0, <1>3 DEF RefreshDone, ListKnown, RefreshRecord
    <2> QED BY <1>0, <1>3, <2>1 DEF RefreshDone, ListKnown, CountsKnown
  <1>4. CASE RefreshFails
    <2>1. mishaps' \in 0..MaxFailsU
      BY <1>0, <1>4, UserConsoleAssumption DEF RefreshFails, CountsKnown
    <2> QED BY <1>0, <1>4, <2>1 DEF RefreshFails, ListKnown, CountsKnown
  <1>5. ListTurn => CountsKnown' /\ gridRows' = gridRows
    <2>1. ListTurn => turns' \in 0..MaxChangesU
      BY <1>0, UserConsoleAssumption DEF ListTurn, CountsKnown
    <2> QED BY <1>0, <2>1 DEF ListTurn, CountsKnown
  <1>6. ASSUME NEW q \in Wants, RefreshList(q), ListTurn, UNCHANGED <<picked, asking>>
        PROVE  ListKnown' /\ CountsKnown'
    <2>1. gridRows' \in Seq(Logins) /\ picked' \subseteq Logins
      BY <1>0, <1>5, <1>6 DEF ListKnown
    <2> QED BY <1>0, <1>5, <1>6, <2>1, RefreshTyped
  <1>7. CASE TryAgain
    BY <1>0, <1>6, <1>7 DEF TryAgain
  <1>8. ASSUME NEW p \in 1..Cardinality(Logins), ToPage(p) PROVE ListKnown' /\ CountsKnown'
    <2>0. p \in Nat \ {0}
      BY NamesInOrder
    <2>1. [wanted EXCEPT !.page = p] \in Wants
      BY <1>0, <2>0 DEF Wants
    <2> QED BY <1>6, <1>8, <2>1 DEF ToPage
  <1>9. ASSUME NEW s \in PageSizes, ToSize(s) PROVE ListKnown' /\ CountsKnown'
    <2>1. PICK p : p = ((wanted.page - 1) * wanted.size) \div s + 1
      OBVIOUS
    <2>2. p \in Nat \ {0}
      <3>0. s \in Nat \ {0}
        BY UserConsoleAssumption
      <3>1. wanted.page - 1 \in Nat /\ wanted.size \in Nat /\ s \in Nat \ {0}
        BY <1>0, <3>0, WantFields
      <3>2. (wanted.page - 1) * wanted.size \in Nat
        BY <3>1, TimesNat
      <3>3. ((wanted.page - 1) * wanted.size) \div s \in Nat
        BY <3>1, <3>2, PartsNat
      <3> QED BY <2>1, <3>3
    <2>3. [wanted EXCEPT !.page = p, !.size = s] \in Wants
      BY <1>0, <2>2 DEF Wants
    <2>4. RefreshList([wanted EXCEPT !.page = p, !.size = s])
      BY <1>9, <2>1 DEF ToSize
    <2> QED BY <1>6, <1>9, <2>3, <2>4 DEF ToSize
  <1>10. ASSUME NEW f \in {"all", "active"}, AskFilter(f) PROVE ListKnown' /\ CountsKnown'
    BY <1>0, <1>5, <1>10 DEF AskFilter, ListKnown
  <1>11. ASSUME NEW S \in SUBSET Logins, AskTicks(S) PROVE ListKnown' /\ CountsKnown'
    BY <1>0, <1>5, <1>11 DEF AskTicks, ListKnown
  <1>12. CASE Answered
    <2>1. UNCHANGED <<account, gridRows, jobs, turns, mishaps>> /\ asking' = Nobody
          /\ asking # Nobody
      BY <1>12 DEF Answered
    <2>2. CASE asking.about = "filter" /\ asking.answer # wanted.filter
      <3>1. asking.answer \in {"all", "active"}
        BY <1>0, <2>1, <2>2 DEF ListKnown
      <3>2. [wanted EXCEPT !.filter = asking.answer, !.page = 1] \in Wants
        BY <1>0, <3>1, FirstWant
      <3>3. RefreshList([wanted EXCEPT !.filter = asking.answer, !.page = 1]) /\ picked' = picked
        BY <1>12, <2>2 DEF Answered
      <3>4. gridRows' \in Seq(Logins) /\ picked' \subseteq Logins
        BY <1>0, <2>1, <3>3 DEF ListKnown
      <3>5. ListKnown'
        BY <1>0, <2>1, <3>2, <3>3, <3>4, RefreshTyped
      <3> QED BY <1>0, <2>1, <3>5 DEF CountsKnown
    <2>3. CASE ~(asking.about = "filter" /\ asking.answer # wanted.filter)
      <3>1. UNCHANGED <<wanted, refresh>>
        BY <1>12, <2>3 DEF Answered
      <3>2. picked' \subseteq Logins
        BY <1>0, <1>12, <2>1 DEF Answered, ListKnown
      <3> QED BY <1>0, <2>1, <3>1, <3>2 DEF ListKnown, CountsKnown
    <2> QED BY <2>2, <2>3
  <1>13. CASE AnswerLost
    BY <1>0, <1>13 DEF AnswerLost, ListKnown, CountsKnown
  <1> QED BY <1>1, <1>2, <1>3, <1>4, <1>7, <1>8, <1>9, <1>10, <1>11, <1>12, <1>13 DEF ListMoves

LEMMA UserMovesTyped ==
    ASSUME UserTyped, UserMoves
    PROVE  ListKnown' /\ CountsKnown'
  <1>0. ListKnown /\ CountsKnown /\ wanted \in Wants /\ picked \subseteq Logins
        /\ gridRows \in Seq(Logins)
        /\ account \in [Logins -> {"none", "active", "disabled"}]
    BY DEF UserTyped, ListKnown, CountsKnown
  <1>1. \A s : Flipped(s) \in {"none", "active", "disabled"}
    BY DEF Flipped
  <1>2. ASSUME NEW new \in [Logins -> {"none", "active", "disabled"}], Called(new),
               RefreshList(wanted), picked' \subseteq Logins
        PROVE  ListKnown' /\ CountsKnown'
    <2>1. /\ turns' \in 0..MaxChangesU /\ account' = new
          /\ UNCHANGED <<gridRows, asking, jobs, mishaps>>
      BY <1>0, <1>2, UserConsoleAssumption DEF Called, CountsKnown
    <2>2. ListKnown'
      BY <1>0, <1>2, <2>1, RefreshTyped
    <2> QED BY <1>0, <2>1, <2>2 DEF CountsKnown
  <1>3. ASSUME NEW u \in Logins, ToggleUser(u) PROVE ListKnown' /\ CountsKnown'
    <2>1. [account EXCEPT ![u] = Flipped(@)] \in [Logins -> {"none", "active", "disabled"}]
      BY <1>0, <1>1
    <2> QED BY <1>0, <1>2, <1>3, <2>1 DEF ToggleUser
  <1>4. ASSUME NEW u \in Logins, DeleteUser(u) PROVE ListKnown' /\ CountsKnown'
    <2>1. [wanted EXCEPT !.page = 1, !.filter = "all"] \in Wants
      BY <1>0, FirstWant
    <2>2. /\ wanted' \in Wants /\ refresh' \in RefreshRecord
          /\ gridRows' = <<>> /\ picked' = {} /\ asking' = Nobody
      BY <1>4, <2>1, StartTyped DEF DeleteUser
    <2>3. turns' \in 0..MaxChangesU
      BY <1>0, <1>4, UserConsoleAssumption DEF DeleteUser, CountsKnown
    <2>4. account' \in [Logins -> {"none", "active", "disabled"}]
      BY <1>0, <1>4 DEF DeleteUser
    <2>5. UNCHANGED <<jobs, mishaps>> /\ <<>> \in Seq(Logins)
      BY <1>4 DEF DeleteUser
    <2> QED BY <1>0, <2>2, <2>3, <2>4, <2>5 DEF ListKnown, CountsKnown
  <1>5. ASSUME NEW u \in Logins, OtherProcess(u) PROVE ListKnown' /\ CountsKnown'
    <2>1. turns' \in 0..MaxChangesU
      BY <1>0, <1>5, UserConsoleAssumption DEF OtherProcess, CountsKnown
    <2>2. account' \in [Logins -> {"none", "active", "disabled"}]
      BY <1>0, <1>5 DEF OtherProcess
    <2> QED BY <1>0, <1>5, <2>1, <2>2 DEF OtherProcess, userListVars, ListKnown, CountsKnown
  <1>6. ASSUME NEW S \in SUBSET Logins, NEW t, BatchSetStatus(t, S)
        PROVE  ListKnown' /\ CountsKnown'
    <2>1. [u \in Logins |-> IF u \in S THEN Flipped(account[u]) ELSE account[u]]
            \in [Logins -> {"none", "active", "disabled"}]
      BY <1>0, <1>1
    <2> QED BY <1>0, <1>2, <1>6, <2>1 DEF BatchSetStatus
  <1>7. ASSUME NEW S \in SUBSET Logins, BatchDeleteUsers(S) PROVE ListKnown' /\ CountsKnown'
    <2>1. [u \in Logins |-> IF u \in S THEN "none" ELSE account[u]]
            \in [Logins -> {"none", "active", "disabled"}]
      BY <1>0
    <2> QED BY <1>0, <1>2, <1>7, <2>1 DEF BatchDeleteUsers
  <1>8. CASE BatchOther \/ BatchReset
    BY <1>0, <1>2, <1>8 DEF BatchOther, BatchReset
  <1> QED BY <1>3, <1>4, <1>5, <1>6, <1>7, <1>8 DEF UserMoves

\* A turn of a job's thread creates logins and counts a mishap.
LEMMA WorkTyped ==
    ASSUME UserTyped, NEW j, JobCounts(j), NEW o \in Outcomes(j), Work(j, o),
           UNCHANGED <<userListVars, jobs, turns>>
    PROVE  ListKnown' /\ CountsKnown'
  <1>1. o.fault \in Nat
    <2>1. CASE j.todo = <<>>
      BY <2>1 DEF Outcomes
    <2>2. CASE j.todo # <<>>
      BY <2>2 DEF Outcomes
    <2> QED BY <2>1, <2>2
  <1>2. mishaps' \in 0..MaxFailsU
    BY <1>1, UserConsoleAssumption DEF Work, UserTyped, CountsKnown
  <1>3. account' \in [Logins -> {"none", "active", "disabled"}]
    BY DEF Work, UserTyped, CountsKnown
  <1> QED BY <1>2, <1>3 DEF UserTyped, ListKnown, CountsKnown, userListVars

LEMMA JobMovesTyped ==
    ASSUME UserTyped, JobMoves
    PROVE  ListKnown' /\ CountsKnown'
  <1>0. ListKnown /\ CountsKnown /\ ReportInv
    BY DEF UserTyped
  <1>1. ASSUME NEW k \in Kinds, JobWorks(k) PROVE ListKnown' /\ CountsKnown'
    <2>1. JobCounts(job[k])
      BY <1>0 DEF ReportInv
    <2>2. PICK o \in Outcomes(job[k]) : Work(job[k], o)
      BY <1>1 DEF JobWorks
    <2>3. UNCHANGED <<userListVars, jobs, turns>>
      BY <1>1 DEF JobWorks
    <2> QED BY <2>1, <2>2, <2>3, WorkTyped
  <1>2. ASSUME NEW k \in Kinds, PollJob(k) PROVE ListKnown' /\ CountsKnown'
    <2>1. /\ wanted \in Wants /\ RefreshList(wanted)
          /\ UNCHANGED <<account, gridRows, picked, asking, jobs, turns, mishaps>>
      BY <1>0, <1>2 DEF PollJob, ListKnown
    <2>2. gridRows' \in Seq(Logins) /\ picked' \subseteq Logins
      BY <1>0, <2>1 DEF ListKnown
    <2>3. ListKnown'
      BY <1>0, <2>1, <2>2, RefreshTyped
    <2> QED BY <1>0, <2>1, <2>3 DEF CountsKnown
  <1>3. ASSUME NEW k \in Kinds, NEW b \in Batches, StartJob(k, b)
        PROVE  ListKnown' /\ CountsKnown'
    <2>1. jobs' \in 0..MaxJobs
      BY <1>0, <1>3, UserConsoleAssumption DEF StartJob, CountsKnown
    <2> QED BY <1>0, <1>3, <2>1 DEF StartJob, userListVars, ListKnown, CountsKnown
  <1>4. CASE OrphanWorks
    <2>1. JobCounts(orphan)
      BY <1>0, <1>4 DEF ReportInv, OrphanWorks
    <2>2. PICK o \in Outcomes(orphan) : Work(orphan, o)
      BY <1>4 DEF OrphanWorks
    <2>3. UNCHANGED <<userListVars, jobs, turns>>
      BY <1>4 DEF OrphanWorks
    <2> QED BY <2>1, <2>2, <2>3, WorkTyped
  <1> QED BY <1>1, <1>2, <1>3, <1>4 DEF JobMoves

\* The page of the users keeps its types: its rows, its selection and what its jobs have
\* made are logins, and the page of the list it stands at is one.
THEOREM UsersTyped == UserSpec => []UserTypeOK
  <1>1. UserTyped /\ [UserNext]_userVars => UserTyped'
    <2> SUFFICES ASSUME UserTyped, [UserNext]_userVars PROVE UserTyped'
      OBVIOUS
    <2>1. ReportInv'
      BY ReportStep DEF UserTyped
    <2>2. CASE UNCHANGED userVars
      BY <2>1, <2>2 DEF userVars, userListVars, UserTyped, ListKnown, CountsKnown
    <2>3. CASE UserNext
      BY <2>1, <2>3, ListMovesTyped, UserMovesTyped, JobMovesTyped DEF UserNext, UserTyped
    <2> QED BY <2>2, <2>3
  <1>2. UserTyped => UserTypeOK
    <2> SUFFICES ASSUME UserTyped PROVE UserTypeOK
      OBVIOUS
    <2>1. wanted.page \in Nat \ {0} /\ wanted.size \in PageSizes
          /\ wanted.filter \in {"all", "active"}
      BY DEF UserTyped, ListKnown, Wants
    <2>2. ToSet(gridRows) \subseteq Logins /\ picked \subseteq Logins
      BY DEF UserTyped, ListKnown, ToSet
    <2>3. ASSUME NEW k \in Kinds
          PROVE  /\ job[k].result \in {"none", "ok", "failed"}
                 /\ ToSet(job[k].created) \cup job[k].made \subseteq Logins
      <3>1. JobCounts(job[k])
        BY DEF UserTyped, ReportInv
      <3>2. job[k] \in JobRecord /\ ToSet(job[k].created) \subseteq job[k].made
        BY <3>1 DEF JobCounts
      <3> QED BY <3>2 DEF JobRecord
    <2> QED BY <2>1, <2>2, <2>3 DEF UserTyped, CountsKnown, UserTypeOK
  <1> QED BY <1>1, <1>2, UserTypedInit, PTL DEF UserSpec

(***************************************************************************)
(* MCConsoles: the two pages and the device binding side by side           *)
(***************************************************************************)

\* A behaviour of the composition is one of each of its parts, so that what is proved
\* of a page, or of the binding, holds of what the runs check.
THEOREM ConsolesParts == MCConsolesSpec => RuleSpec /\ BindSpec /\ UserSpec
  <1>1. MCConsolesInit => RuleInit /\ BindInit /\ UserInit
    BY DEF MCConsolesInit
  <1>2. [MCConsolesNext]_mcConsoleVars => [RuleNext]_ruleVars
    BY DEF MCConsolesNext, mcConsoleVars
  <1>3. [MCConsolesNext]_mcConsoleVars => [BindNext]_bindVars
    BY DEF MCConsolesNext, mcConsoleVars
  <1>4. [MCConsolesNext]_mcConsoleVars => [UserNext]_userVars
    BY DEF MCConsolesNext, mcConsoleVars
  <1> QED BY <1>1, <1>2, <1>3, <1>4, PTL DEF MCConsolesSpec, RuleSpec, BindSpec, UserSpec

\* The state of the pages and of the device binding has its types.
THEOREM ConsolesTyped == MCConsolesSpec => []MCConsolesTypeOK
  <1>1. BindSpec => []BindTypeOK
    <2>1. BindInv => BindTypeOK
      BY DEF BindInv
    <2> QED BY <2>1, InitBindInv, NextBindInv, PTL DEF BindSpec
  <1>2. RuleTypeOK /\ BindTypeOK /\ UserTypeOK => MCConsolesTypeOK
    BY DEF MCConsolesTypeOK
  <1> QED BY <1>1, <1>2, RulesTyped, UsersTyped, ConsolesParts, PTL
=============================================================================
