----------------------------- MODULE PeersProofs -----------------------------
(***************************************************************************)
(* Proofs about the peers: what is derived from their rows (PeerSites),    *)
(* their hosts (PeerClient), the working copies of their chains            *)
(* (RemoteChain), and that what is proved of each of them, and of the CCD  *)
(* file of a user (CcdFileProofs), holds of the four side by side, for     *)
(* any constants.                                                          *)
(***************************************************************************)
EXTENDS MCPeers, CcdFileProofs

(***************************************************************************)
(* PeerSites: a step is over, still to be done, or recorded in troubled    *)
(***************************************************************************)

ToDo(s) == \E i \in DOMAIN call.todo : call.todo[i] = s

\* The running call has yet to write the CCD file of p, or stands between
\* writing it and the row.
CcdToDo(p) == call.peer = p /\ (ToDo("merge") \/ ToDo("strip") \/ ToDo("drop"))

Settled(s) == s \notin troubled /\ ~ToDo(s)

\* A row is dropped before the rules and the routes are written.
Deletion == {<<"strip", "drop", "forward", "mesh">>, <<"drop", "forward", "mesh">>}

Planned ==
    /\ call.todo \in Seq(SiteSteps)
    /\ call = [todo |-> call.todo, peer |-> call.peer]
    /\ ToDo("strip") \/ ToDo("drop") => call.todo \in Deletion
    /\ ToDo("merge") \/ ToDo("strip") \/ ToDo("drop") => call.peer \in Peers

Passing(p) == IF Exists(p) /\ site[p].open THEN site[p].lan ELSE {}

RulesServed == Settled("forward") => forward = [p \in Peers |-> Passing(p)]

CcdServed ==
    \A p \in Peers : Exists(p) /\ p \notin troubled /\ ~CcdToDo(p) =>
        member[site[p].bound].file /\ iroute[site[p].bound][p] = site[p].lan

\* Whether active or not: a user enabled again keeps the routes of his file.
MeshServed ==
    /\ \A u \in Members : member[u].active => member[u].file
    /\ Settled("mesh") => \A u \in Members \ skipped :
         member[u].file => pushed[u] = MeshLan(site, member[u].team)

SiteInv == SiteTypeOK /\ Planned /\ RulesServed /\ CcdServed /\ MeshServed

LEMMA MeshLanIsLan ==
  ASSUME NEW rows \in [Peers -> SiteRow], NEW g
  PROVE  MeshLan(rows, g) \subseteq Nets
  BY DEF MeshLan, SiteRow

LEMMA SiteInitInv == SiteInit => SiteInv
<1> SUFFICES ASSUME SiteInit PROVE SiteInv
  OBVIOUS
<1>1. (CHOOSE g \in Teams : TRUE) \in Teams
  BY SiteAssumption
<1>2. NoSite \in SiteRow
  BY DEF NoSite, SiteRow
<1>3. SiteTypeOK
  BY <1>1, <1>2 DEF SiteInit, SiteTypeOK
<1>4. \A s : ~ToDo(s)
  BY DEF SiteInit, NoCall, ToDo
<1>5. Planned
  BY <1>4 DEF SiteInit, NoCall, Planned
<1>6. \A p \in Peers : ~Exists(p)
  BY DEF SiteInit, Exists, NoSite
<1>7. RulesServed /\ CcdServed /\ MeshServed
  BY <1>6 DEF SiteInit, RulesServed, CcdServed, MeshServed, Passing
<1> QED  BY <1>3, <1>5, <1>7 DEF SiteInv

\* What a call does next is what it had to do, less the first step.
LEMMA GoingOn ==
  ASSUME SiteInv, ~Idle, NextStep
  PROVE  /\ Planned'
         /\ \A s : ToDo(s) => s = call.todo[1] \/ ToDo(s)'
         /\ \A s : ToDo(s)' => ToDo(s) /\ call'.peer = call.peer
<1> DEFINE t == call.todo
<1>1. t \in Seq(SiteSteps) /\ t # <<>> /\ call = [todo |-> t, peer |-> call.peer]
  BY DEF SiteInv, Planned, Idle
<1>2. CASE Len(t) = 1
  <2>1. call' = NoCall
    BY <1>2 DEF NextStep
  <2>2. \A s : ~ToDo(s)'
    BY <2>1 DEF NoCall, ToDo
  <2>3. \A s : ToDo(s) => s = t[1]
    BY <1>1, <1>2 DEF ToDo
  <2>4. Planned'
    BY <2>1, <2>2 DEF Planned, NoCall
  <2> QED  BY <2>2, <2>3, <2>4
<1>3. CASE Len(t) # 1
  <2>1. call' = [todo |-> Tail(t), peer |-> call.peer]
    BY <1>1, <1>3 DEF NextStep
  <2>2. /\ Tail(t) \in Seq(SiteSteps) /\ Len(Tail(t)) = Len(t) - 1
        /\ \A i \in 1 .. Len(t) - 1 : Tail(t)[i] = t[i + 1]
    BY <1>1
  <2>3. \A s : ToDo(s)' <=> \E i \in 1 .. Len(t) - 1 : t[i + 1] = s
    <3>1. DOMAIN call'.todo = 1 .. Len(t) - 1
      BY <2>1, <2>2
    <3>2. \A i \in 1 .. Len(t) - 1 : call'.todo[i] = t[i + 1]
      BY <2>1, <2>2
    <3> QED  BY <3>1, <3>2 DEF ToDo
  <2>4. \A s : ToDo(s) <=> \E i \in 1 .. Len(t) : t[i] = s
    BY <1>1 DEF ToDo
  <2>5. \A s : ToDo(s)' => ToDo(s)
    <3> TAKE s
    <3> SUFFICES ASSUME NEW i \in 1 .. Len(t) - 1, t[i + 1] = s PROVE ToDo(s)
      BY <2>3
    <3>1. i + 1 \in 1 .. Len(t)
      BY <1>1
    <3> QED  BY <2>4, <3>1
  <2>6. \A s : ToDo(s) => s = t[1] \/ ToDo(s)'
    <3> TAKE s
    <3> SUFFICES ASSUME NEW i \in 1 .. Len(t), t[i] = s, i # 1 PROVE ToDo(s)'
      BY <2>4
    <3>1. i - 1 \in 1 .. Len(t) - 1 /\ i = (i - 1) + 1
      BY <1>1
    <3> QED  BY <2>3, <3>1
  <2>7. ToDo("strip")' \/ ToDo("drop")' => call'.todo \in Deletion
    <3> SUFFICES ASSUME ToDo("strip")' \/ ToDo("drop")' PROVE call'.todo \in Deletion
      OBVIOUS
    <3>1. t \in Deletion
      BY <2>5 DEF SiteInv, Planned
    <3>2. CASE t = <<"strip", "drop", "forward", "mesh">>
      BY <2>1, <3>2 DEF Deletion
    <3>3. CASE t = <<"drop", "forward", "mesh">>
      <4>1. call'.todo = <<"forward", "mesh">>
        BY <2>1, <3>3
      <4> QED  BY <4>1 DEF ToDo
    <3> QED  BY <3>1, <3>2, <3>3 DEF Deletion
  <2>8. Planned'
    BY <2>1, <2>2, <2>5, <2>7 DEF Planned, SiteInv
  <2> QED  BY <2>1, <2>5, <2>6, <2>8
<1> QED  BY <1>2, <1>3

LEMMA GivingUp ==
  ASSUME SiteInv, Raise
  PROVE  /\ Planned' /\ troubled \subseteq troubled'
         /\ \A s : ~ToDo(s)'
         /\ \A s \in {"forward", "mesh"} : Settled(s)' => Settled(s)
         /\ \A p \in Peers : p \notin troubled' => p \notin troubled /\ ~CcdToDo(p)
<1> DEFINE t == call.todo
           due(i) == IF t[i] \in {"forward", "mesh"} THEN {t[i]} ELSE {call.peer}
<1>1. call' = NoCall
  BY DEF Raise, EndSiteCall
<1>2. \A s : ~ToDo(s)'
  BY <1>1 DEF NoCall, ToDo
<1>3. Planned'
  BY <1>1, <1>2 DEF Planned, NoCall
<1>4. troubled' = troubled \cup UNION {due(i) : i \in DOMAIN t}
  BY DEF Raise
<1>5. \A i \in DOMAIN t : due(i) \subseteq troubled'
  BY <1>4
<1>6. \A s \in {"forward", "mesh"} : ToDo(s) => s \in troubled'
  <2> SUFFICES ASSUME NEW s \in {"forward", "mesh"}, NEW i \in DOMAIN t, t[i] = s
               PROVE  s \in troubled'
    BY DEF ToDo
  <2> QED  BY <1>5
<1>7. \A p \in Peers : CcdToDo(p) => p \in troubled'
  <2> SUFFICES ASSUME NEW p \in Peers, call.peer = p,
                      NEW i \in DOMAIN t, t[i] \in {"merge", "strip", "drop"}
               PROVE  p \in troubled'
    BY DEF CcdToDo, ToDo
  <2>1. due(i) = {p}
    OBVIOUS
  <2> QED  BY <1>5, <2>1
<1> QED  BY <1>2, <1>3, <1>4, <1>6, <1>7 DEF Settled

(***************************************************************************)
(* A call begins                                                           *)
(***************************************************************************)

LEMMA Resting ==
  ASSUME SiteInv, Idle
  PROVE  /\ \A s : ~ToDo(s)
         /\ "forward" \notin troubled => forward = [p \in Peers |-> Passing(p)]
         /\ \A p \in Peers : Exists(p) /\ p \notin troubled =>
              member[site[p].bound].file /\ iroute[site[p].bound][p] = site[p].lan
         /\ "mesh" \notin troubled => \A u \in Members \ skipped :
              member[u].file => pushed[u] = MeshLan(site, member[u].team)
<1>1. \A s : ~ToDo(s)
  BY DEF Idle, ToDo
<1> QED  BY <1>1 DEF SiteInv, RulesServed, CcdServed, MeshServed, Settled, CcdToDo

\* An operation on one row, which it may have stored: the steps it plans are
\* those that the change of the row asks for.
LEMMA KeepsCall ==
  ASSUME SiteInv, Idle, NEW p \in Peers, NEW row \in SiteRow,
         site' = [site EXCEPT ![p] = row],
         call' = [todo |-> call'.todo, peer |-> p], call'.todo \in Seq(SiteSteps),
         ToDo("strip")' \/ ToDo("drop")' => call'.todo \in Deletion,
         UNCHANGED <<member, iroute, pushed, forward, troubled, skipped>>,
         ~ToDo("forward")' => /\ site[p].lan = row.lan /\ site[p].open = row.open
                              /\ site[p].bound = Nobody <=> row.bound = Nobody,
         ~ToDo("merge")' /\ ~ToDo("strip")' /\ ~ToDo("drop")' =>
              site[p].lan = row.lan /\ site[p].bound = row.bound,
         ~ToDo("mesh")' => site[p].lan = row.lan /\ site[p].to = row.to
  PROVE  SiteInv'
<1>1. SiteTypeOK'
  BY DEF SiteInv, SiteTypeOK
<1>2. Planned'
  BY DEF Planned
<1>3. site'[p] = row /\ \A q \in Peers \ {p} : site'[q] = site[q]
  BY DEF SiteInv, SiteTypeOK
<1>4. RulesServed'
  <2> SUFFICES ASSUME "forward" \notin troubled, ~ToDo("forward")'
               PROVE  forward' = [q \in Peers |-> Passing(q)']
    BY DEF RulesServed, Settled
  <2>1. \A q \in Peers \ {p} : Passing(q)' = Passing(q)
    BY <1>3 DEF Passing, Exists
  <2>2. Passing(p)' = Passing(p)
    BY <1>3 DEF Passing, Exists, SiteInv, SiteTypeOK, SiteRow
  <2> QED  BY <2>1, <2>2, Resting
<1>5. CcdServed'
  BY <1>3, Resting DEF CcdServed, CcdToDo, Exists
<1>6. MeshServed'
  <2>1. ~ToDo("mesh")' => \A g : MeshLan(site', g) = MeshLan(site, g)
    <3> SUFFICES ASSUME ~ToDo("mesh")', NEW g PROVE MeshLan(site', g) = MeshLan(site, g)
      OBVIOUS
    <3>1. \A q \in Peers : site[q].lan = site'[q].lan /\ site[q].to = site'[q].to
      BY <1>3
    <3> QED  BY <3>1 DEF MeshLan
  <2> QED  BY <2>1, Resting DEF SiteInv, MeshServed, Settled
<1> QED  BY <1>1, <1>2, <1>4, <1>5, <1>6 DEF SiteInv

LEMMA KeepsCreate ==
  ASSUME SiteInv, NEW p \in Peers, NEW row \in SiteRow, CreateSite(p, row)
  PROVE  SiteInv'
<1>1. call' = [todo |-> <<"forward", "merge", "mesh">>, peer |-> p]
  BY DEF CreateSite, NoCall
<1>2. ToDo("forward")' /\ ToDo("merge")' /\ ToDo("mesh")'
      /\ ~ToDo("strip")' /\ ~ToDo("drop")'
  BY <1>1 DEF ToDo
<1>3. call'.todo \in Seq(SiteSteps)
  BY <1>1 DEF SiteSteps
<1> QED  BY <1>1, <1>2, <1>3, KeepsCall DEF CreateSite

In(t, s) == \E i \in DOMAIN t : t[i] = s

LEMMA Joined ==
  ASSUME NEW S, NEW x \in Seq(S), NEW y \in Seq(S), NEW s
  PROVE  In(x \o y, s) <=> In(x, s) \/ In(y, s)
<1>1. /\ DOMAIN x = 1 .. Len(x) /\ DOMAIN y = 1 .. Len(y)
      /\ DOMAIN (x \o y) = 1 .. Len(x) + Len(y)
      /\ \A i \in 1 .. Len(x) : (x \o y)[i] = x[i]
      /\ \A i \in 1 .. Len(y) : (x \o y)[Len(x) + i] = y[i]
  OBVIOUS
<1>2. ASSUME NEW i \in 1 .. Len(x) + Len(y), i \notin 1 .. Len(x)
      PROVE  \E j \in 1 .. Len(y) : i = Len(x) + j
  <2>1. i - Len(x) \in 1 .. Len(y) /\ i = Len(x) + (i - Len(x))
    BY <1>2
  <2> QED  BY <2>1
<1>3. \A i \in 1 .. Len(x) : i \in 1 .. Len(x) + Len(y)
  OBVIOUS
<1>4. \A i \in 1 .. Len(y) : Len(x) + i \in 1 .. Len(x) + Len(y)
  OBVIOUS
<1>5. \A i \in DOMAIN x : (x \o y)[i] = x[i] /\ i \in DOMAIN (x \o y)
  BY <1>1, <1>3
<1>6. \A j \in DOMAIN y : (x \o y)[Len(x) + j] = y[j] /\ Len(x) + j \in DOMAIN (x \o y)
  BY <1>1, <1>4
<1>7. ASSUME NEW i \in DOMAIN (x \o y), i \notin DOMAIN x
      PROVE  \E j \in DOMAIN y : i = Len(x) + j
  BY <1>1, <1>2, <1>7
<1>8. In(x, s) => In(x \o y, s)
  BY <1>5 DEF In
<1>9. In(y, s) => In(x \o y, s)
  BY <1>6 DEF In
<1>10. ASSUME NEW i \in DOMAIN (x \o y), (x \o y)[i] = s
       PROVE  In(x, s) \/ In(y, s)
  <2>1. CASE i \in DOMAIN x
    BY <1>5, <1>10, <2>1 DEF In
  <2>2. CASE i \notin DOMAIN x
    <3>1. PICK j \in DOMAIN y : i = Len(x) + j
      BY <1>7, <2>2
    <3> QED  BY <1>6, <1>10, <3>1 DEF In
  <2> QED  BY <2>1, <2>2
<1> QED  BY <1>8, <1>9, <1>10 DEF In

LEMMA KeepsUpdate ==
  ASSUME SiteInv, NEW p \in Peers, NEW row \in SiteRow, UpdateSite(p, row)
  PROVE  SiteInv'
<1> DEFINE f == Unless(ForwardPrint(site[p]) = ForwardPrint(row), "forward")
           c == Unless(CcdPrint(site[p]) = CcdPrint(row), "merge")
           m == Unless(MeshPrint(site[p]) = MeshPrint(row), "mesh")
<1>1. call' = [todo |-> f \o c \o m, peer |-> p]
  BY DEF UpdateSite, NoCall
<1>2. /\ \/ f = <<>> /\ ForwardPrint(site[p]) = ForwardPrint(row)
         \/ f = <<"forward">>
      /\ \/ c = <<>> /\ CcdPrint(site[p]) = CcdPrint(row)
         \/ c = <<"merge">>
      /\ \/ m = <<>> /\ MeshPrint(site[p]) = MeshPrint(row)
         \/ m = <<"mesh">>
  BY DEF Unless
<1> HIDE DEF f, c, m
<1>3. /\ call'.todo \in Seq(SiteSteps) /\ ~ToDo("strip")' /\ ~ToDo("drop")'
      /\ f = <<"forward">> => ToDo("forward")'
      /\ c = <<"merge">> => ToDo("merge")'
      /\ m = <<"mesh">> => ToDo("mesh")'
  <2>1. f \in Seq(SiteSteps) /\ c \in Seq(SiteSteps) /\ m \in Seq(SiteSteps)
    <3>1. /\ <<>> \in Seq(SiteSteps) /\ <<"forward">> \in Seq(SiteSteps)
          /\ <<"merge">> \in Seq(SiteSteps) /\ <<"mesh">> \in Seq(SiteSteps)
      BY DEF SiteSteps
    <3> QED  BY <1>2, <3>1
  <2>2. f \o c \in Seq(SiteSteps) /\ f \o c \o m \in Seq(SiteSteps)
    BY <2>1
  <2>3. \A s : In(f \o c \o m, s) <=> In(f, s) \/ In(c, s) \/ In(m, s)
    BY <2>1, <2>2, Joined
  <2>4. \A s : ToDo(s)' <=> In(f, s) \/ In(c, s) \/ In(m, s)
    BY <1>1, <2>3 DEF ToDo, In
  <2>5. /\ f = <<"forward">> => In(f, "forward")
        /\ c = <<"merge">> => In(c, "merge")
        /\ m = <<"mesh">> => In(m, "mesh")
        /\ \A s \in {"strip", "drop"} : ~In(f, s) /\ ~In(c, s) /\ ~In(m, s)
    BY <1>2 DEF In
  <2> QED  BY <1>1, <2>2, <2>4, <2>5
<1>6. ~ToDo("forward")' => site[p].lan = row.lan /\ site[p].open = row.open
  BY <1>2, <1>3 DEF ForwardPrint
<1>7. ~ToDo("merge")' => site[p].lan = row.lan /\ site[p].bound = row.bound
  BY <1>2, <1>3 DEF CcdPrint
<1>8. ~ToDo("mesh")' => site[p].lan = row.lan /\ site[p].to = row.to
  BY <1>2, <1>3 DEF MeshPrint
<1>9. site[p].bound # Nobody /\ row.bound # Nobody
  BY DEF UpdateSite, Exists
<1> QED  BY <1>1, <1>3, <1>6, <1>7, <1>8, <1>9, KeepsCall DEF UpdateSite

LEMMA KeepsRowCall ==
  ASSUME SiteInv, NEW p \in Peers,
         ClearSite(p) \/ DeleteSite(p) \/ \E b \in BOOLEAN : SwitchSite(p, b)
  PROVE  SiteInv'
<1>1. CASE ClearSite(p)
  <2>1. call' = [todo |-> <<"merge", "mesh", "forward">>, peer |-> p]
    BY <1>1 DEF ClearSite, NoCall
  <2>2. ToDo("forward")' /\ ToDo("merge")' /\ ToDo("mesh")'
      /\ ~ToDo("strip")' /\ ~ToDo("drop")'
    BY <2>1 DEF ToDo
  <2>3. call'.todo \in Seq(SiteSteps)
    BY <2>1 DEF SiteSteps
  <2>4. PICK row \in SiteRow : site' = [site EXCEPT ![p] = row]
    <3>1. [site[p] EXCEPT !.lan = {}] \in SiteRow
      BY DEF SiteInv, SiteTypeOK, SiteRow
    <3>2. site' = [site EXCEPT ![p] = [site[p] EXCEPT !.lan = {}]]
      BY <1>1 DEF ClearSite, SiteInv, SiteTypeOK
    <3> QED  BY <3>1, <3>2
  <2> QED  BY <1>1, <2>1, <2>2, <2>3, <2>4, KeepsCall DEF ClearSite
<1>2. CASE DeleteSite(p)
  <2>1. call' = [todo |-> <<"strip", "drop", "forward", "mesh">>, peer |-> p]
    BY <1>2 DEF DeleteSite, NoCall
  <2>2. ToDo("forward")' /\ ToDo("drop")' /\ ToDo("mesh")'
    BY <2>1 DEF ToDo
  <2>3. call'.todo \in Seq(SiteSteps) /\ call'.todo \in Deletion
    BY <2>1 DEF SiteSteps, Deletion
  <2>4. site[p] \in SiteRow /\ site' = [site EXCEPT ![p] = site[p]]
    BY <1>2 DEF DeleteSite, SiteInv, SiteTypeOK
  <2> QED  BY <1>2, <2>1, <2>2, <2>3, <2>4, KeepsCall DEF DeleteSite
<1>3. ASSUME NEW b \in BOOLEAN, SwitchSite(p, b)
      PROVE  SiteInv'
  <2>1. call' = [todo |-> <<"forward">>, peer |-> p]
    BY <1>3 DEF SwitchSite, NoCall
  <2>2. ToDo("forward")' /\ ~ToDo("strip")' /\ ~ToDo("drop")'
    BY <2>1 DEF ToDo
  <2>3. call'.todo \in Seq(SiteSteps)
    BY <2>1 DEF SiteSteps
  <2> DEFINE row == [site[p] EXCEPT !.open = b]
  <2>4. row \in SiteRow /\ row.lan = site[p].lan /\ row.to = site[p].to
        /\ row.bound = site[p].bound
    BY DEF SiteInv, SiteTypeOK, SiteRow
  <2>5. site' = [site EXCEPT ![p] = row]
    BY <1>3 DEF SwitchSite, SiteInv, SiteTypeOK
  <2> HIDE DEF row
  <2> QED  BY <1>3, <2>1, <2>2, <2>3, <2>4, <2>5, KeepsCall DEF SwitchSite
<1> QED  BY <1>1, <1>2, <1>3

\* A call that is about no row, which may have moved a user.
LEMMA KeepsMeshCall ==
  ASSUME SiteInv, Idle, call' = [todo |-> call'.todo, peer |-> NoPeer],
         call'.todo \in {<<"mesh">>, <<"forward", "mesh">>},
         member' \in [Members -> [team : Teams, active : BOOLEAN, file : BOOLEAN]],
         \A u \in Members : /\ member[u].file => member'[u].file
                            /\ member'[u].active => member'[u].file,
         UNCHANGED <<site, iroute, pushed, forward, troubled, skipped>>
  PROVE  SiteInv'
<1>1. ToDo("mesh")' /\ ~ToDo("merge")' /\ ~ToDo("strip")' /\ ~ToDo("drop")'
  BY DEF ToDo
<1>2. Planned'
  <2>1. <<"mesh">> \in Seq(SiteSteps) /\ <<"forward", "mesh">> \in Seq(SiteSteps)
    BY DEF SiteSteps
  <2> QED  BY <1>1, <2>1 DEF Planned
<1>3. SiteTypeOK'
  BY DEF SiteInv, SiteTypeOK
<1>4. RulesServed'
  BY Resting DEF RulesServed, Settled, Passing, Exists
<1>5. CcdServed'
  BY Resting DEF CcdServed, CcdToDo, Exists, SiteInv, SiteTypeOK, SiteRow
<1>6. MeshServed'
  BY <1>1 DEF MeshServed, Settled
<1> QED  BY <1>2, <1>3, <1>4, <1>5, <1>6 DEF SiteInv

LEMMA KeepsSync ==
  ASSUME SiteInv, SyncMesh \/ Startup
  PROVE  SiteInv'
<1>1. /\ Idle /\ UNCHANGED <<site, member, iroute, pushed, forward, troubled, skipped>>
      /\ \/ call' = [todo |-> <<"mesh">>, peer |-> NoPeer]
         \/ call' = [todo |-> <<"forward", "mesh">>, peer |-> NoPeer]
  BY DEF SyncMesh, Startup, NoCall
<1> QED  BY <1>1, KeepsMeshCall DEF SiteInv, SiteTypeOK, MeshServed

LEMMA KeepsMember ==
  ASSUME SiteInv, NEW u \in Members, NEW g \in Teams, AddMember(u, g) \/ MoveMember(u, g)
  PROVE  SiteInv'
<1>1. /\ Idle /\ UNCHANGED <<site, iroute, pushed, forward, troubled, skipped>>
      /\ call' = [todo |-> <<"mesh">>, peer |-> NoPeer]
  BY DEF AddMember, MoveMember, NoCall
<1>2. /\ member' \in [Members -> [team : Teams, active : BOOLEAN, file : BOOLEAN]]
      /\ \A v \in Members : /\ member[v].file => member'[v].file
                            /\ member'[v].active => member'[v].file
  <2>1. CASE AddMember(u, g)
    BY <2>1 DEF AddMember, SiteInv, SiteTypeOK, MeshServed
  <2>2. CASE MoveMember(u, g)
    BY <2>2 DEF MoveMember, SiteInv, SiteTypeOK, MeshServed
  <2> QED  BY <2>1, <2>2
<1> QED  BY <1>1, <1>2, KeepsMeshCall

LEMMA KeepsSwitchMember ==
  ASSUME SiteInv, NEW u \in Members, SwitchMember(u)
  PROVE  SiteInv'
<1>1. /\ member' = [member EXCEPT ![u].active = ~@] /\ member[u].file
      /\ UNCHANGED <<site, iroute, pushed, forward, call, troubled, skipped>>
  BY DEF SwitchMember
<1>2. \A v \in Members : /\ member'[v].file = member[v].file
                         /\ member'[v].team = member[v].team
                         /\ v # u => member'[v].active = member[v].active
  BY <1>1 DEF SiteInv, SiteTypeOK
<1>3. SiteTypeOK'
  BY <1>1 DEF SiteInv, SiteTypeOK
<1>4. \A s : ToDo(s)' <=> ToDo(s)
  BY <1>1 DEF ToDo
<1>5. Planned' /\ RulesServed'
  BY <1>1, <1>4 DEF SiteInv, Planned, RulesServed, Settled, Passing, Exists
<1>6. CcdServed'
  BY <1>1, <1>2, <1>4 DEF SiteInv, CcdServed, CcdToDo, Exists, SiteTypeOK, SiteRow
<1>7. MeshServed'
  BY <1>1, <1>2, <1>4 DEF SiteInv, MeshServed, Settled
<1> QED  BY <1>3, <1>5, <1>6, <1>7 DEF SiteInv

LEMMA KeepsRemoveMember ==
  ASSUME SiteInv, NEW u \in Members, RemoveMember(u)
  PROVE  SiteInv'
<1>1. /\ Idle /\ UNCHANGED <<site, forward, call, skipped>>
      /\ member' = [member EXCEPT ![u].active = FALSE, ![u].file = FALSE]
      /\ iroute' = [iroute EXCEPT ![u] = [p \in Peers |-> {}]]
      /\ pushed' = [pushed EXCEPT ![u] = {}]
      /\ troubled' = troubled \cup {p \in Peers : site[p].bound = u}
  BY DEF RemoveMember
<1>2. \A v \in Members \ {u} : member'[v] = member[v] /\ iroute'[v] = iroute[v]
                               /\ pushed'[v] = pushed[v]
  BY <1>1 DEF SiteInv, SiteTypeOK
<1>3. ~member'[u].file /\ ~member'[u].active
  BY <1>1 DEF SiteInv, SiteTypeOK
<1>4. SiteTypeOK'
  BY <1>1 DEF SiteInv, SiteTypeOK
<1>5. \A s : ToDo(s)' <=> ToDo(s)
  BY <1>1 DEF ToDo
<1>6. Planned' /\ RulesServed'
  BY <1>1, <1>5 DEF SiteInv, Planned, RulesServed, Settled, Passing, Exists
<1>7. CcdServed'
  BY <1>1, <1>2, <1>5 DEF SiteInv, CcdServed, CcdToDo, Exists, SiteTypeOK, SiteRow
<1>8. MeshServed'
  BY <1>1, <1>2, <1>3, <1>5 DEF SiteInv, MeshServed, Settled
<1> QED  BY <1>4, <1>6, <1>7, <1>8 DEF SiteInv

(***************************************************************************)
(* The steps of a call                                                     *)
(***************************************************************************)

LEMMA StepIs ==
  ASSUME SiteInv, NEW s, Step(s)
  PROVE  ~Idle /\ call.todo[1] = s /\ ToDo(s)
  BY DEF Step, Idle, ToDo, SiteInv, Planned

LEMMA KeepsForward ==
  ASSUME SiteInv, RefreshForward
  PROVE  SiteInv'
<1>1. ~Idle /\ call.todo[1] = "forward" /\ UNCHANGED <<site, member, iroute, pushed, skipped>>
  BY StepIs DEF RefreshForward
<1>2. CASE /\ forward' = [p \in Peers |-> IF Exists(p) /\ site[p].open THEN site[p].lan ELSE {}]
           /\ troubled' = troubled \ {"forward"}
           /\ NextStep
  <2>1. /\ Planned' /\ \A s : ToDo(s) => s = "forward" \/ ToDo(s)'
        /\ \A s : ToDo(s)' => ToDo(s) /\ call'.peer = call.peer
    BY <1>1, <1>2, GoingOn
  <2>2. SiteTypeOK'
    BY <1>1, <1>2 DEF SiteInv, SiteTypeOK, SiteRow
  <2>3. RulesServed'
    BY <1>1, <1>2 DEF RulesServed, Passing, Exists
  <2>4. CcdServed'
    BY <1>1, <1>2, <2>1, SiteAssumption DEF SiteInv, CcdServed, CcdToDo, Exists
  <2>5. MeshServed'
    BY <1>1, <1>2, <2>1 DEF SiteInv, MeshServed, Settled
  <2> QED  BY <2>1, <2>2, <2>3, <2>4, <2>5 DEF SiteInv
<1>3. CASE Raise /\ UNCHANGED forward
  <2>1. SiteTypeOK'
    BY <1>1, <1>3 DEF SiteInv, SiteTypeOK
  <2> QED  BY <1>1, <1>3, <2>1, GivingUp DEF SiteInv, RulesServed, CcdServed, MeshServed,
           Passing, Exists
<1> QED  BY <1>2, <1>3 DEF RefreshForward

\* A step that raises has touched at most the file of a row it is to write still.
LEMMA KeepsRaise ==
  ASSUME SiteInv, Raise, SiteTypeOK', UNCHANGED <<site, member, iroute, forward>>,
         \/ UNCHANGED <<pushed, skipped>>
         \/ ToDo("mesh")
  PROVE  SiteInv'
<1>1. /\ Planned' /\ \A s : ~ToDo(s)'
      /\ \A s \in {"forward", "mesh"} : Settled(s)' => Settled(s)
      /\ \A p \in Peers : p \notin troubled' => p \notin troubled /\ ~CcdToDo(p)
  BY GivingUp
<1>2. RulesServed'
  BY <1>1 DEF SiteInv, RulesServed, Passing, Exists
<1>3. CcdServed'
  BY <1>1 DEF SiteInv, CcdServed, Exists
<1>4. MeshServed'
  BY <1>1 DEF SiteInv, MeshServed, Settled
<1> QED  BY <1>1, <1>2, <1>3, <1>4 DEF SiteInv

LEMMA KeepsMerge ==
  ASSUME SiteInv, MergeCcd
  PROVE  SiteInv'
<1> DEFINE p == call.peer
           u == site[p].bound
<1>1. ~Idle /\ call.todo[1] = "merge" /\ ToDo("merge") /\ p \in Peers
      /\ UNCHANGED <<site, member, pushed, forward, skipped>>
  BY StepIs DEF MergeCcd, SiteInv, Planned
<1>2. CASE /\ member[u].file /\ iroute' = [iroute EXCEPT ![u][p] = site[p].lan]
           /\ troubled' = troubled \ {p} /\ NextStep
  <2>1. /\ Planned' /\ \A s : ToDo(s) => s = "merge" \/ ToDo(s)'
        /\ \A s : ToDo(s)' => ToDo(s) /\ call'.peer = call.peer
        /\ ~ToDo("drop")
    <3>1. ~ToDo("drop")
      BY <1>1 DEF SiteInv, Planned, Deletion
    <3> QED  BY <1>1, <1>2, <3>1, GoingOn
  <2>2. \A v \in Members, q \in Peers : <<v, q>> # <<u, p>> => iroute'[v][q] = iroute[v][q]
    BY <1>2 DEF SiteInv, SiteTypeOK
  <2>3. u \in Members => iroute'[u][p] = site[p].lan
    BY <1>1, <1>2 DEF SiteInv, SiteTypeOK
  <2>4. SiteTypeOK'
    BY <1>1, <1>2 DEF SiteInv, SiteTypeOK, SiteRow
  <2>5. RulesServed'
    BY <1>1, <1>2, <2>1, SiteAssumption DEF SiteInv, RulesServed, Passing, Exists, Settled
  <2>6. CcdServed'
    <3> SUFFICES ASSUME NEW q \in Peers, Exists(q)', q \notin troubled', ~CcdToDo(q)'
                 PROVE  member'[site'[q].bound].file
                        /\ iroute'[site'[q].bound][q] = site'[q].lan
      BY DEF CcdServed
    <3>1. site[q].bound \in Members
      BY <1>1 DEF SiteInv, SiteTypeOK, SiteRow, Exists
    <3>2. CASE q = p
      BY <1>1, <1>2, <2>3, <3>1, <3>2
    <3>3. CASE q # p
      BY <1>1, <1>2, <2>2, <3>1, <3>3 DEF SiteInv, CcdServed, CcdToDo, Exists
    <3> QED  BY <3>2, <3>3
  <2>7. MeshServed'
    BY <1>1, <1>2, <2>1, SiteAssumption DEF SiteInv, MeshServed, Settled
  <2> QED  BY <2>1, <2>4, <2>5, <2>6, <2>7 DEF SiteInv
<1>3. CASE Raise /\ UNCHANGED iroute
  BY <1>1, <1>3, KeepsRaise DEF SiteInv, SiteTypeOK
<1> QED  BY <1>2, <1>3 DEF MergeCcd

LEMMA KeepsStrip ==
  ASSUME SiteInv, StripCcd
  PROVE  SiteInv'
<1> DEFINE p == call.peer
           u == site[p].bound
<1>1. ~Idle /\ call.todo[1] = "strip" /\ ToDo("strip") /\ p \in Peers
      /\ UNCHANGED <<site, member, pushed, forward, skipped>>
  BY StepIs DEF StripCcd, SiteInv, Planned
<1>2. CASE iroute' = [iroute EXCEPT ![u][p] = {}] /\ NextStep /\ UNCHANGED troubled
  <2>1. /\ Planned' /\ \A s : ToDo(s) => s = "strip" \/ ToDo(s)'
        /\ \A s : ToDo(s)' => ToDo(s) /\ call'.peer = call.peer
    BY <1>1, <1>2, GoingOn
  <2>2. \A v \in Members, q \in Peers \ {p} : iroute'[v][q] = iroute[v][q]
    BY <1>2 DEF SiteInv, SiteTypeOK
  <2>3. SiteTypeOK'
    BY <1>1, <1>2 DEF SiteInv, SiteTypeOK
  <2>4. RulesServed' /\ MeshServed'
    BY <1>1, <1>2, <2>1 DEF SiteInv, RulesServed, MeshServed, Passing, Exists, Settled
  <2>5. ToDo("drop")' /\ call'.peer = p
    <3>1. call.todo \in Deletion
      BY <1>1 DEF SiteInv, Planned
    <3>2. call.todo[2] = "drop" /\ 2 \in DOMAIN call.todo
      BY <1>1, <3>1 DEF Deletion
    <3> QED  BY <2>1, <3>2 DEF ToDo
  <2>6. CcdServed'
    <3> SUFFICES ASSUME NEW q \in Peers \ {p}, Exists(q), q \notin troubled
                 PROVE  member[site[q].bound].file
                        /\ iroute'[site[q].bound][q] = site[q].lan
      BY <1>1, <1>2, <2>5 DEF CcdServed, CcdToDo, Exists
    <3>1. site[q].bound \in Members
      BY DEF SiteInv, SiteTypeOK, SiteRow, Exists
    <3> QED  BY <2>2, <3>1 DEF SiteInv, CcdServed, CcdToDo
  <2> QED  BY <2>1, <2>3, <2>4, <2>6 DEF SiteInv
<1>3. CASE Raise /\ UNCHANGED iroute
  BY <1>1, <1>3, KeepsRaise DEF SiteInv, SiteTypeOK
<1> QED  BY <1>2, <1>3 DEF StripCcd

LEMMA KeepsDrop ==
  ASSUME SiteInv, DropRow
  PROVE  SiteInv'
<1> DEFINE p == call.peer
<1>1. /\ ~Idle /\ call.todo[1] = "drop" /\ ToDo("drop") /\ p \in Peers
      /\ site' = [site EXCEPT ![p] = NoSite] /\ NextStep
      /\ UNCHANGED <<member, iroute, pushed, forward, troubled, skipped>>
  BY StepIs DEF DropRow, SiteInv, Planned
<1>2. /\ Planned' /\ \A s : ToDo(s) => s = "drop" \/ ToDo(s)'
      /\ \A s : ToDo(s)' => ToDo(s) /\ call'.peer = call.peer
  BY <1>1, GoingOn
<1>3. ToDo("forward") /\ ToDo("mesh")
  <2>1. call.todo = <<"drop", "forward", "mesh">>
    BY <1>1 DEF SiteInv, Planned, Deletion
  <2> QED  BY <2>1 DEF ToDo
<1>4. ~Settled("forward")' /\ ~Settled("mesh")'
  BY <1>2, <1>3 DEF Settled
<1>5. SiteTypeOK'
  BY <1>1 DEF SiteInv, SiteTypeOK, NoSite, SiteRow
<1>6. CcdServed'
  <2>1. site'[p].bound = Nobody /\ \A q \in Peers \ {p} : site'[q] = site[q]
    BY <1>1 DEF SiteInv, SiteTypeOK, NoSite
  <2> QED  BY <1>1, <2>1 DEF SiteInv, CcdServed, CcdToDo, Exists
<1>7. RulesServed' /\ MeshServed'
  BY <1>1, <1>4 DEF SiteInv, RulesServed, MeshServed
<1> QED  BY <1>2, <1>5, <1>6, <1>7 DEF SiteInv

LEMMA KeepsSyncStep ==
  ASSUME SiteInv, SyncStep
  PROVE  SiteInv'
<1>1. /\ ~Idle /\ call.todo[1] = "mesh" /\ ToDo("mesh")
      /\ skipped' = {u \in Members : member[u].file /\ ~member[u].active}
      /\ UNCHANGED <<site, member, iroute, forward>>
  BY StepIs DEF SyncStep
<1>2. PICK done \in SUBSET Written :
        /\ pushed' = [u \in Members |-> IF u \in done THEN MeshLan(site, member[u].team)
                                                     ELSE pushed[u]]
        /\ Raise \/ (done = Written /\ NextStep /\ troubled' = troubled \ {"mesh"})
  BY DEF SyncStep
<1>3. SiteTypeOK'
  <2>1. \A u \in Members : MeshLan(site, member[u].team) \subseteq Nets
    BY MeshLanIsLan DEF SiteInv, SiteTypeOK
  <2> QED  BY <1>1, <1>2, <2>1 DEF SiteInv, SiteTypeOK
<1>4. CASE Raise
  BY <1>1, <1>3, <1>4, KeepsRaise
<1>5. CASE done = Written /\ NextStep /\ troubled' = troubled \ {"mesh"}
  <2>1. /\ Planned' /\ \A s : ToDo(s) => s = "mesh" \/ ToDo(s)'
        /\ \A s : ToDo(s)' => ToDo(s) /\ call'.peer = call.peer
    BY <1>1, <1>5, GoingOn
  <2>2. RulesServed'
    BY <1>1, <1>5, <2>1 DEF SiteInv, RulesServed, Passing, Exists, Settled
  <2>3. CcdServed'
    BY <1>1, <1>5, <2>1, SiteAssumption DEF SiteInv, CcdServed, CcdToDo, Exists
  <2>4. MeshServed'
    BY <1>1, <1>2, <1>5 DEF SiteInv, MeshServed, Written
  <2> QED  BY <1>3, <2>1, <2>2, <2>3, <2>4 DEF SiteInv
<1> QED  BY <1>2, <1>4, <1>5

LEMMA KeepsSiteCrash ==
  ASSUME SiteInv, SiteCrash
  PROVE  SiteInv'
  BY KeepsRaise DEF SiteCrash, SiteInv, SiteTypeOK

LEMMA SiteNextInv == SiteInv /\ [SiteNext]_siteVars => SiteInv'
<1> SUFFICES ASSUME SiteInv, [SiteNext]_siteVars PROVE SiteInv'
  OBVIOUS
<1>1. CASE UNCHANGED siteVars
  BY <1>1 DEF siteVars, SiteInv, SiteTypeOK, Planned, ToDo, RulesServed, CcdServed, MeshServed,
     CcdToDo, Settled, Passing, Exists
<1>2. ASSUME NEW p \in Peers, NEW row \in SiteRow, CreateSite(p, row) \/ UpdateSite(p, row)
      PROVE  SiteInv'
  BY <1>2, KeepsCreate, KeepsUpdate
<1>3. ASSUME NEW p \in Peers,
             ClearSite(p) \/ DeleteSite(p) \/ \E b \in BOOLEAN : SwitchSite(p, b)
      PROVE  SiteInv'
  BY <1>3, KeepsRowCall
<1>4. CASE SyncMesh \/ Startup
  BY <1>4, KeepsSync
<1>5. ASSUME NEW u \in Members, SwitchMember(u) \/ RemoveMember(u)
      PROVE  SiteInv'
  BY <1>5, KeepsSwitchMember, KeepsRemoveMember
<1>6. ASSUME NEW u \in Members, NEW g \in Teams, AddMember(u, g) \/ MoveMember(u, g)
      PROVE  SiteInv'
  BY <1>6, KeepsMember
<1>7. CASE RefreshForward \/ MergeCcd \/ StripCcd \/ DropRow \/ SyncStep \/ SiteCrash
  BY <1>7, KeepsForward, KeepsMerge, KeepsStrip, KeepsDrop, KeepsSyncStep, KeepsSiteCrash
<1> QED  BY <1>1, <1>2, <1>3, <1>4, <1>5, <1>6, <1>7 DEF SiteNext

\* When no call runs, the centre lets through what the rows say and the file of a
\* bound user has his peer's networks, for any peers, users and networks and after
\* any failures, except what a failure recorded in troubled has left.
THEOREM RowsAreServed == SiteSpec => []ServedAsStored
<1>1. SiteInv => ServedAsStored
  BY Resting DEF ServedAsStored, Passing
<1> QED  BY <1>1, SiteInitInv, SiteNextInv, PTL DEF SiteSpec

\* The same for the routes pushed to the users; a user who was disabled when they
\* were written is excepted.
THEOREM RoutesAreServed == SiteSpec => []MeshAsStored
<1>1. SiteInv => MeshAsStored
  BY Resting DEF SiteInv, MeshServed, MeshAsStored
<1> QED  BY <1>1, SiteInitInv, SiteNextInv, PTL DEF SiteSpec

(***************************************************************************)
(* PeerClient: what is done when so many steps of an operation are left    *)
(***************************************************************************)

HostSteps == {"probe", "install", "upload", "prepare", "enable", "restart", "stop",
              "compare", "unjump", "unmark", "chain", "rule", "jump", "nat", "verify"}

\* The step to do next when n are left.
RuleStep(n, s) ==
    \/ n = 7 /\ s = "compare"
    \/ n = 6 /\ s = "unjump"
    \/ n = 5 /\ s = "unmark"
    \/ n = 4 /\ s = "chain"
    \/ n = 3 /\ s = "rule"
    \/ n = 2 /\ s = "jump"
    \/ n = 1 /\ s = "nat"

AssembleStep(n, s) ==
    \/ n = 13 /\ s \in {"probe", "install"}
    \/ n = 12 /\ s = "upload"
    \/ n = 11 /\ s = "prepare"
    \/ n = 10 /\ s = "enable"
    \/ n = 9 /\ s = "restart"
    \/ RuleStep(n - 1, s)
    \/ n = 1 /\ s = "verify"

StepOf(op, n, s) ==
    /\ op = "assemble" => AssembleStep(n, s)
    /\ op = "site" => RuleStep(n, s)
    /\ op = "remove" => (n = 2 /\ s = "unjump") \/ (n = 1 /\ s = "unmark")

Follows(op, steps) ==
    \A i \in 1 .. Len(steps) : StepOf(op, Len(steps) + 1 - i, steps[i])

\* Profiles the centre issues meanwhile make no difference: the client's is none
\* older than the one there was at the beginning.
ServiceBy(n) ==
    /\ n <= 12 => soft = "ok"
    /\ n <= 11 => conf["main"] >= verdict.since /\ ~link
    /\ n <= 10 => official \/ unit.at = "main"
    /\ n <= 9 => unit.enabled
    /\ n <= 8 => live = 0 \/ live >= verdict.since
    /\ n = 0 => live >= verdict.since

Emptied == ~marks.chain /\ marks.rules = 0 /\ marks.jumps = 0

\* Where every deletion succeeded there is one line of each kind.
ExactBy(n, masq) ==
    /\ n = 5 => Emptied
    /\ n = 4 => Emptied /\ marks.nats = 0
    /\ n = 3 => marks.rules = 0 /\ marks.jumps = 0 /\ marks.nats = 0
    /\ n = 2 => marks.chain /\ marks.rules = 1 /\ marks.jumps = 0 /\ marks.nats = 0
    /\ n = 1 => marks.chain /\ marks.rules = 1 /\ marks.jumps = 1 /\ marks.nats = 0
    /\ n <= 0 => Current(masq)

\* Where one was passed over there is at least one.
ServingBy(n, masq) ==
    /\ n <= 2 => marks.chain /\ marks.rules # 0
    /\ n <= 1 => marks.jumps # 0
    /\ n <= 0 => (masq => marks.nats # 0)

RulesBy(n, masq) ==
    /\ verdict.slips = {} => ExactBy(n, masq)
    /\ "crossed" \notin verdict.slips => ServingBy(n, masq)

ClearedBy(n) ==
    verdict.slips = {} => /\ n <= 1 => Emptied
                          /\ n = 0 => marks.nats = 0

By(op, n) ==
    /\ op = "assemble" => ServiceBy(n) /\ RulesBy(n - 1, verdict.snat)
    /\ op = "site" => RulesBy(n, TRUE)
    /\ op = "remove" => ClearedBy(n)

WholeTask(w) ==
    w = [op |-> w.op, todo |-> w.todo, at |-> w.at, snat |-> w.snat, force |-> w.force]
WholeVerdict(v) ==
    v = [op |-> v.op, done |-> v.done, snat |-> v.snat, since |-> v.since, slips |-> v.slips]

Counts == [chain : BOOLEAN, rules : 0 .. 2, jumps : 0 .. 2, nats : 0 .. 2]
Units  == [at : Places \cup {"none", "official"}, enabled : BOOLEAN]

HostData ==
    /\ profile \in 1 .. MaxProfile
    /\ soft \in {"lacking", "ok"} /\ official \in BOOLEAN
    /\ conf \in [Places -> 0 .. MaxProfile] /\ link \in BOOLEAN
    /\ unit \in Units /\ live \in 0 .. MaxProfile
    /\ marks \in Counts

Operations == {"none", "assemble", "push", "site", "remove", "control"}

TaskInv ==
    /\ WholeTask(task) /\ task.op \in Operations /\ task.todo \in Seq(HostSteps)
    /\ task.at \in Places /\ task.snat \in BOOLEAN
    /\ task.op = "assemble" => task.at = "main"
    /\ task.op = "site" => task.snat = TRUE
    /\ Follows(task.op, task.todo)

\* The verdict is about the operation under way, then about the one that is done.
VerdictInv ==
    /\ WholeVerdict(verdict) /\ verdict.done \in BOOLEAN /\ verdict.snat \in BOOLEAN
    /\ verdict.since \in 1 .. profile /\ verdict.slips \subseteq Slips
    /\ ~HostIdle => /\ verdict.op = task.op /\ verdict.done = FALSE
                    /\ verdict.snat = task.snat
                    /\ By(task.op, Len(task.todo))
    /\ verdict.done => By(verdict.op, 0)

HostInv == HostData /\ TaskInv /\ VerdictInv

LEMMA HostInitInv == HostInit => HostInv
<1> SUFFICES ASSUME HostInit PROVE HostInv
  OBVIOUS
<1>1. HostData
  <2>1. 1 \in 1 .. MaxProfile /\ 0 \in 0 .. MaxProfile
    BY HostAssumption
  <2>2. conf \in [Places -> 0 .. MaxProfile]
    BY <2>1 DEF HostInit
  <2>3. unit \in Units
    BY DEF HostInit, Units
  <2>4. marks \in Counts
    BY DEF HostInit, Counts, NoMarks
  <2> QED  BY <2>1, <2>2, <2>3, <2>4 DEF HostInit, HostData
<1>2. TaskInv
  BY DEF HostInit, TaskInv, NoOperation, WholeTask, Operations, Follows, Places
<1>3. VerdictInv
  BY DEF HostInit, VerdictInv, NoVerdict, NoOperation, WholeVerdict, HostIdle
<1> QED  BY <1>1, <1>2, <1>3 DEF HostInv

\* What going on with these steps makes of the task and of the verdict.
MovesOn(steps, slips) ==
    /\ verdict' = [op |-> verdict.op, done |-> (steps = <<>>), snat |-> verdict.snat,
                   since |-> verdict.since, slips |-> slips]
    /\ IF steps = <<>>
       THEN task' = NoOperation
       ELSE task' = [op |-> task.op, todo |-> steps, at |-> task.at, snat |-> task.snat,
                     force |-> task.force]

LEMMA HostMovingOn ==
  ASSUME HostInv, ~HostIdle, NEW steps, GoOn(steps)
  PROVE  MovesOn(steps, verdict.slips)
<1>1. WholeTask(task) /\ WholeVerdict(verdict) /\ verdict.done = FALSE
  BY DEF HostInv, TaskInv, VerdictInv
<1>2. CASE steps = <<>>
  <2>1. task' = NoOperation /\ verdict' = [verdict EXCEPT !.done = TRUE]
    BY <1>2 DEF GoOn
  <2> QED  BY <1>1, <1>2, <2>1 DEF MovesOn, WholeVerdict
<1>3. CASE steps # <<>>
  <2>1. task' = [task EXCEPT !.todo = steps] /\ verdict' = verdict
    BY <1>3 DEF GoOn
  <2>2. task' = [op |-> task.op, todo |-> steps, at |-> task.at, snat |-> task.snat,
                 force |-> task.force]
    BY <1>1, <2>1 DEF WholeTask
  <2>3. verdict' = [op |-> verdict.op, done |-> FALSE, snat |-> verdict.snat,
                    since |-> verdict.since, slips |-> verdict.slips]
    BY <1>1, <2>1 DEF WholeVerdict
  <2>4. (steps = <<>>) = FALSE
    BY <1>3
  <2> QED  BY <1>3, <2>2, <2>3, <2>4 DEF MovesOn
<1> QED  BY <1>2, <1>3

LEMMA PassingOver ==
  ASSUME HostInv, ~HostIdle, PassOver
  PROVE  MovesOn(Tail(task.todo), verdict.slips \cup {"passed"})
<1>1. WholeTask(task) /\ WholeVerdict(verdict) /\ verdict.done = FALSE
  BY DEF HostInv, TaskInv, VerdictInv
<1> PICK steps : steps = Tail(task.todo)
  OBVIOUS
<1>2. CASE steps = <<>>
  <2>1. /\ task' = NoOperation
        /\ verdict' = [verdict EXCEPT !.done = TRUE, !.slips = @ \cup {"passed"}]
    BY <1>2 DEF PassOver
  <2>2. verdict' = [op |-> verdict.op, done |-> TRUE, snat |-> verdict.snat,
                    since |-> verdict.since, slips |-> verdict.slips \cup {"passed"}]
    BY <1>1, <2>1 DEF WholeVerdict
  <2>3. (steps = <<>>) = TRUE
    BY <1>2
  <2> QED  BY <1>2, <2>1, <2>2, <2>3 DEF MovesOn
<1>3. CASE steps # <<>>
  <2>1. /\ task' = [task EXCEPT !.todo = Tail(@)]
        /\ verdict' = [verdict EXCEPT !.slips = @ \cup {"passed"}]
    BY <1>3 DEF PassOver
  <2>2. task' = [op |-> task.op, todo |-> steps, at |-> task.at, snat |-> task.snat,
                 force |-> task.force]
    BY <1>1, <2>1 DEF WholeTask
  <2>3. verdict' = [op |-> verdict.op, done |-> FALSE, snat |-> verdict.snat,
                    since |-> verdict.since, slips |-> verdict.slips \cup {"passed"}]
    BY <1>1, <2>1 DEF WholeVerdict
  <2>4. (steps = <<>>) = FALSE
    BY <1>3
  <2> QED  BY <1>3, <2>2, <2>3, <2>4 DEF MovesOn
<1> QED  BY <1>2, <1>3

\* Going on with steps that follow, when what is to be true with as many left is.
LEMMA GoesOn ==
  ASSUME HostInv, ~HostIdle, NEW steps \in Seq(HostSteps), NEW slips \in SUBSET Slips,
         MovesOn(steps, slips), HostData', profile' = profile,
         \A op : op = task.op => Follows(op, steps),
         \A op, n : op = task.op /\ n = Len(steps) => By(op, n)'
  PROVE  HostInv'
<1>1. /\ verdict' = [op |-> verdict.op, done |-> (steps = <<>>), snat |-> verdict.snat,
                     since |-> verdict.since, slips |-> slips]
      /\ verdict.op = task.op /\ verdict.snat = task.snat /\ verdict.snat \in BOOLEAN
      /\ verdict.since \in 1 .. profile'
  BY DEF MovesOn, HostInv, VerdictInv
<1>2. WholeVerdict(verdict)' /\ verdict'.snat \in BOOLEAN /\ verdict'.done \in BOOLEAN
      /\ verdict'.since \in 1 .. profile' /\ verdict'.slips \subseteq Slips
      /\ verdict'.op = task.op /\ verdict'.snat = task.snat
  BY <1>1 DEF WholeVerdict
<1>3. CASE steps = <<>>
  <2>1. task' = NoOperation
    BY <1>3 DEF MovesOn
  <2>2. TaskInv' /\ HostIdle'
    BY <2>1 DEF TaskInv, NoOperation, WholeTask, Operations, Follows, HostIdle, Places
  <2>3. \A op : op = verdict'.op => By(op, 0)'
    BY <1>2, <1>3
  <2>4. By(verdict.op, 0)'
    BY <2>3
  <2> QED  BY <1>2, <2>2, <2>4 DEF HostInv, VerdictInv
<1>4. CASE steps # <<>>
  <2>1. task' = [op |-> task.op, todo |-> steps, at |-> task.at, snat |-> task.snat,
                 force |-> task.force]
    BY <1>4 DEF MovesOn
  <2>2. task'.op = task.op /\ task'.todo = steps /\ task'.snat = task.snat
    BY <2>1
  <2>3. \A op, n : op = task'.op /\ n = Len(task'.todo) => By(op, n)'
    BY <2>2
  <2>4. By(task.op, Len(task.todo))'
    BY <2>3
  <2>5. \A op : op = task'.op => Follows(op, task'.todo)
    BY <2>2
  <2>6. Follows(task.op, task.todo)'
    BY <2>5 DEF Follows
  <2>7. TaskInv'
    BY <2>1, <2>6 DEF HostInv, TaskInv, WholeTask
  <2>8. verdict'.done = FALSE
    BY <1>1, <1>4
  <2> QED  BY <1>2, <2>2, <2>4, <2>7, <2>8 DEF HostInv, VerdictInv
<1> QED  BY <1>3, <1>4

LEMMA GivesUp ==
  ASSUME HostInv, GiveUp, HostData'
  PROVE  HostInv'
<1>1. task' = NoOperation /\ verdict' = NoVerdict
  BY DEF GiveUp
<1>2. TaskInv'
  BY <1>1 DEF TaskInv, NoOperation, WholeTask, Operations, Follows, Places
<1>3. 1 \in 1 .. profile'
  BY HostAssumption DEF HostData
<1>4. VerdictInv'
  BY <1>1, <1>3 DEF VerdictInv, NoVerdict, NoOperation, WholeVerdict, HostIdle
<1> QED  BY <1>2, <1>4 DEF HostInv

\* n steps of the operation op are left.
StepsOf(op, n) == ~HostIdle /\ op = task.op /\ n = Len(task.todo)

\* How many steps are left is known by the next one.
LEMMA StepsLeft ==
  ASSUME HostInv, NEW s, Doing(s)
  PROVE  \E op \in Operations, n \in Nat \ {0} :
            StepsOf(op, n) /\ StepOf(op, n, s) /\ By(op, n)
<1> PICK op, n : op = task.op /\ n = Len(task.todo)
  OBVIOUS
<1>1. ~HostIdle /\ n \in Nat \ {0} /\ task.todo[1] = s
  BY DEF Doing, HostIdle, HostInv, TaskInv
<1>2. n + 1 - 1 = n /\ 1 \in 1 .. n
  BY <1>1
<1>3. Follows(op, task.todo) /\ By(op, n)
  BY <1>1 DEF HostInv, TaskInv, VerdictInv
<1>4. StepOf(op, n + 1 - 1, task.todo[1])
  BY <1>2, <1>3 DEF Follows
<1>5. op \in Operations
  BY DEF HostInv, TaskInv
<1> QED  BY <1>1, <1>3, <1>4, <1>5, <1>2 DEF StepsOf

LEMMA TailFollows ==
  ASSUME HostInv, NEW op, NEW n \in Nat, StepsOf(op, n)
  PROVE  /\ Tail(task.todo) \in Seq(HostSteps) /\ Follows(op, Tail(task.todo))
         /\ Len(Tail(task.todo)) = n - 1
         /\ \A i \in 1 .. n - 1 : Tail(task.todo)[i] = task.todo[i + 1]
<1>1. PICK t : t = task.todo
  OBVIOUS
<1>2. t \in Seq(HostSteps) /\ t # <<>> /\ Follows(op, t) /\ n = Len(t)
  BY <1>1 DEF HostIdle, HostInv, TaskInv, StepsOf
<1>3. /\ Tail(t) \in Seq(HostSteps) /\ Len(Tail(t)) = n - 1 /\ n \in Nat \ {0}
      /\ \A i \in 1 .. n - 1 : Tail(t)[i] = t[i + 1]
  BY <1>2
<1>4. ASSUME NEW i \in 1 .. n - 1
      PROVE  StepOf(op, (n - 1) + 1 - i, Tail(t)[i])
  <2>1. i + 1 \in 1 .. n /\ n + 1 - (i + 1) = (n - 1) + 1 - i
    OBVIOUS
  <2>2. StepOf(op, n + 1 - (i + 1), t[i + 1])
    BY <1>2, <2>1 DEF Follows
  <2> QED  BY <1>3, <2>1, <2>2
<1> QED  BY <1>1, <1>2, <1>3, <1>4 DEF Follows

\* One command done, or passed over: one step less is left.
LEMMA OneLess ==
  ASSUME HostInv, NEW slips \in SUBSET Slips, MovesOn(Tail(task.todo), slips),
         HostData', profile' = profile,
         NEW op, NEW n \in Nat, StepsOf(op, n), By(op, n - 1)'
  PROVE  HostInv'
<1>1. \A o, m : o = task.op /\ m = Len(Tail(task.todo)) => By(o, m)'
  BY TailFollows DEF StepsOf
<1>2. ~HostIdle /\ op = task.op
  BY DEF StepsOf
<1> QED  BY <1>1, <1>2, GoesOn, TailFollows

LEMMA OneDone ==
  ASSUME HostInv, Proceed, HostData', profile' = profile,
         NEW op, NEW n \in Nat, StepsOf(op, n), By(op, n - 1)'
  PROVE  HostInv'
<1>1. GoOn(Tail(task.todo)) /\ ~HostIdle
  BY DEF Proceed, StepsOf
<1>2. PICK slips : slips = verdict.slips
  OBVIOUS
<1>3. slips \in SUBSET Slips
  BY <1>2 DEF HostInv, VerdictInv
<1>4. MovesOn(Tail(task.todo), slips)
  BY <1>1, <1>2, HostMovingOn
<1> QED  BY <1>3, <1>4, OneLess

\* An operation that goes on keeps what its verdict was begun with.
SameVerdict ==
    /\ verdict'.since = verdict.since /\ verdict'.snat = verdict.snat
    /\ verdict'.slips = verdict.slips

LEMMA Proceeding ==
  ASSUME HostInv, ~HostIdle, NEW steps, GoOn(steps)
  PROVE  SameVerdict
<1>1. MovesOn(steps, verdict.slips)
  BY HostMovingOn
<1> QED  BY <1>1 DEF MovesOn, SameVerdict

(***************************************************************************)
(* The commands                                                            *)
(***************************************************************************)

LEMMA FieldsOfHost ==
  ASSUME HostInv
  PROVE  /\ profile \in Nat /\ verdict.since \in Nat /\ verdict.since <= profile
         /\ conf["main"] \in Nat /\ conf["other"] \in Nat /\ live \in Nat
         /\ marks.rules \in Nat /\ marks.jumps \in Nat /\ marks.nats \in Nat
         /\ task.at \in Places /\ task.snat \in BOOLEAN /\ link \in BOOLEAN
         /\ conf = [x \in Places |-> conf[x]]
         /\ unit = [at |-> unit.at, enabled |-> unit.enabled]
         /\ marks = [chain |-> marks.chain, rules |-> marks.rules,
                     jumps |-> marks.jumps, nats |-> marks.nats]
<1>1. conf \in [Places -> 0 .. MaxProfile] /\ live \in 0 .. MaxProfile /\ profile \in Nat
      /\ marks \in Counts /\ unit \in Units /\ link \in BOOLEAN
  BY HostAssumption DEF HostInv, HostData
<1>2. conf["main"] \in Nat /\ conf["other"] \in Nat /\ live \in Nat
      /\ conf = [x \in Places |-> conf[x]]
  BY <1>1, HostAssumption DEF Places
<1>3. /\ marks.rules \in Nat /\ marks.jumps \in Nat /\ marks.nats \in Nat
      /\ marks = [chain |-> marks.chain, rules |-> marks.rules,
                  jumps |-> marks.jumps, nats |-> marks.nats]
  BY <1>1 DEF Counts
<1>4. unit = [at |-> unit.at, enabled |-> unit.enabled]
  BY <1>1 DEF Units
<1>5. verdict.since \in Nat /\ verdict.since <= profile
  BY <1>1 DEF HostInv, VerdictInv
<1>6. task.at \in Places /\ task.snat \in BOOLEAN
  BY DEF HostInv, TaskInv
<1> QED  BY <1>1, <1>2, <1>3, <1>4, <1>5, <1>6

\* A command for the service leaves the rules alone.
LEMMA ServiceDone ==
  ASSUME HostInv, Proceed, HostData', profile' = profile,
         NEW op \in Operations, NEW n \in Nat, StepsOf(op, n),
         op # "site", op # "remove", op = "assemble" => n \in 9 .. 13 /\ ServiceBy(n - 1)'
  PROVE  HostInv'
<1>1. op = "assemble" => RulesBy(n - 1 - 1, verdict.snat)'
  BY DEF RulesBy, ExactBy, ServingBy
<1>2. By(op, n - 1)'
  BY <1>1 DEF By
<1> QED  BY <1>2, OneDone

LEMMA KeepsProbe ==
  ASSUME HostInv, Probe
  PROVE  HostInv'
<1>1. /\ Doing("probe")
      /\ UNCHANGED <<profile, soft, official, conf, link, unit, live, marks>>
      /\ IF soft = "ok" THEN Proceed ELSE GoOn(<<"install">> \o Tail(task.todo))
  BY DEF Probe
<1>2. PICK op \in Operations, n \in Nat \ {0} :
        StepsOf(op, n) /\ StepOf(op, n, "probe") /\ By(op, n)
  BY <1>1, StepsLeft
<1>3. (op = "assemble" => n = 13) /\ op # "site" /\ op # "remove"
  BY <1>2 DEF StepOf, AssembleStep, RuleStep
<1>4. HostData'
  BY <1>1 DEF HostInv, HostData
<1>5. CASE soft = "ok"
  <2>1. op = "assemble" => ServiceBy(n - 1)'
    BY <1>1, <1>3, <1>5 DEF ServiceBy
  <2> QED  BY <1>1, <1>2, <1>3, <1>4, <1>5, <2>1, ServiceDone
<1>6. CASE soft # "ok"
  <2> PICK steps : steps = <<"install">> \o Tail(task.todo)
    OBVIOUS
  <2>1. /\ steps \in Seq(HostSteps) /\ Len(steps) = n /\ steps[1] = "install"
        /\ \A i \in 2 .. n : steps[i] = task.todo[i]
    <3>1. /\ Tail(task.todo) \in Seq(HostSteps) /\ Len(Tail(task.todo)) = n - 1
          /\ \A i \in 1 .. n - 1 : Tail(task.todo)[i] = task.todo[i + 1]
      BY <1>2, TailFollows
    <3>2. <<"install">> \in Seq(HostSteps) /\ Len(<<"install">>) = 1
      BY DEF HostSteps
    <3>3. \A i \in 2 .. n : i - 1 \in 1 .. n - 1 /\ i = (i - 1) + 1
      BY <1>2
    <3> QED  BY <1>2, <3>1, <3>2, <3>3
  <2>2. Follows(op, steps)
    <3> SUFFICES ASSUME NEW i \in 1 .. n
                 PROVE  StepOf(op, n + 1 - i, steps[i])
      BY <2>1 DEF Follows
    <3>1. CASE i = 1
      BY <1>2, <1>3, <2>1, <3>1 DEF StepOf, AssembleStep
    <3>2. CASE i # 1
      <4>1. i \in 2 .. n
        BY <1>2, <3>2
      <4>2. StepOf(op, n + 1 - i, task.todo[i])
        BY <1>2 DEF HostInv, TaskInv, Follows, StepsOf
      <4> QED  BY <2>1, <4>1, <4>2
    <3> QED  BY <3>1, <3>2
  <2>3. By(op, n)'
    <3>1. op = "assemble" => ServiceBy(n)' /\ RulesBy(n - 1, verdict.snat)'
      BY <1>3 DEF ServiceBy, RulesBy, ExactBy, ServingBy
    <3> QED  BY <1>3, <3>1 DEF By
  <2>4. \A o, m : o = task.op /\ m = Len(steps) => Follows(o, steps) /\ By(o, m)'
    BY <1>2, <2>1, <2>2, <2>3 DEF StepsOf
  <2>5. ~HostIdle
    BY <1>2 DEF StepsOf
  <2>6. MovesOn(steps, verdict.slips) /\ verdict.slips \in SUBSET Slips
    BY <1>1, <1>6, <2>5, HostMovingOn DEF HostInv, VerdictInv
  <2> QED  BY <1>1, <1>4, <2>1, <2>4, <2>5, <2>6, GoesOn
<1> QED  BY <1>5, <1>6

LEMMA KeepsInstall ==
  ASSUME HostInv, Install
  PROVE  HostInv'
<1>1. /\ Doing("install") /\ official' \in BOOLEAN /\ soft' \in {"lacking", "ok"}
      /\ UNCHANGED <<profile, conf, link, unit, live, marks>>
      /\ IF soft' = "ok" THEN Proceed ELSE GiveUp
  BY DEF Install
<1>2. PICK op \in Operations, n \in Nat \ {0} :
        StepsOf(op, n) /\ StepOf(op, n, "install") /\ By(op, n)
  BY <1>1, StepsLeft
<1>3. (op = "assemble" => n = 13) /\ op # "site" /\ op # "remove"
  BY <1>2 DEF StepOf, AssembleStep, RuleStep
<1>4. HostData'
  BY <1>1 DEF HostInv, HostData
<1>5. CASE soft' = "ok"
  <2>1. op = "assemble" => ServiceBy(n - 1)'
    BY <1>1, <1>3, <1>5 DEF ServiceBy
  <2> QED  BY <1>1, <1>2, <1>3, <1>4, <1>5, <2>1, ServiceDone
<1> QED  BY <1>1, <1>2, <1>4, <1>5, GivesUp

\* Proceeding, the operation keeps the profile it began with.
LEMMA SinceKept ==
  ASSUME HostInv, Proceed, NEW s, Doing(s)
  PROVE  SameVerdict
  BY Proceeding DEF Proceed, Doing

LEMMA KeepsUpload ==
  ASSUME HostInv, Upload
  PROVE  HostInv'
<1>1. /\ Doing("upload") /\ Proceed
      /\ conf' = [conf EXCEPT ![task.at] = profile]
      /\ link' = (IF task.at = "main" THEN FALSE ELSE link)
      /\ UNCHANGED <<profile, soft, official, unit, live, marks>>
  BY DEF Upload
<1>2. PICK op \in Operations, n \in Nat \ {0} :
        StepsOf(op, n) /\ StepOf(op, n, "upload") /\ By(op, n)
  BY <1>1, StepsLeft
<1>3. (op = "assemble" => n = 12) /\ op # "site" /\ op # "remove"
  BY <1>2 DEF StepOf, AssembleStep, RuleStep
<1>4. HostData'
  <2>1. profile \in 0 .. MaxProfile /\ conf \in [Places -> 0 .. MaxProfile]
    BY HostAssumption DEF HostInv, HostData
  <2>2. conf' \in [Places -> 0 .. MaxProfile]
    BY <1>1, <2>1
  <2>3. link' \in BOOLEAN
    BY <1>1 DEF HostInv, HostData
  <2> QED  BY <1>1, <2>2, <2>3 DEF HostInv, HostData
<1>5. op = "assemble" => ServiceBy(n - 1)'
  <2>1. op = "assemble" => soft = "ok" /\ task.at = "main"
    <3>1. op = "assemble" => soft = "ok"
      BY <1>2, <1>3 DEF By, ServiceBy
    <3>2. op = "assemble" => task.at = "main"
      BY <1>2 DEF HostInv, TaskInv, StepsOf
    <3> QED  BY <3>1, <3>2
  <2>2. op = "assemble" => conf'["main"] = profile /\ ~link'
    BY <1>1, <2>1, FieldsOfHost DEF Places
  <2>3. verdict'.since = verdict.since
    BY <1>1, SinceKept DEF SameVerdict
  <2>4. profile >= verdict.since
    BY FieldsOfHost
  <2> QED  BY <1>1, <1>3, <2>1, <2>2, <2>3, <2>4 DEF ServiceBy
<1> QED  BY <1>1, <1>2, <1>3, <1>4, <1>5, ServiceDone

LEMMA KeepsPrepare ==
  ASSUME HostInv, Prepare
  PROVE  HostInv'
<1>1. /\ Doing("prepare") /\ Proceed
      /\ UNCHANGED <<profile, soft, official, conf, live, marks>>
      /\ IF official
         THEN /\ link' = (link \/ task.at = "other")
              /\ unit' = [unit EXCEPT !.at = IF @ = "none" THEN "official" ELSE @]
         ELSE unit' = [unit EXCEPT !.at = task.at] /\ UNCHANGED link
  BY DEF Prepare
<1>2. PICK op \in Operations, n \in Nat \ {0} :
        StepsOf(op, n) /\ StepOf(op, n, "prepare") /\ By(op, n)
  BY <1>1, StepsLeft
<1>3. (op = "assemble" => n = 11) /\ op # "site" /\ op # "remove"
  BY <1>2 DEF StepOf, AssembleStep, RuleStep
<1>4. HostData' /\ unit'.enabled = unit.enabled
  <2>1. unit \in Units /\ task.at \in Places /\ link \in BOOLEAN
    BY DEF HostInv, HostData, TaskInv
  <2>2. unit' \in Units /\ unit'.enabled = unit.enabled
    BY <1>1, <2>1 DEF Units
  <2>3. link' \in BOOLEAN
    BY <1>1, <2>1
  <2> QED  BY <1>1, <2>2, <2>3 DEF HostInv, HostData
<1>5. op = "assemble" => ServiceBy(n - 1)'
  <2>1. op = "assemble" => ServiceBy(11) /\ task.at = "main"
    BY <1>2, <1>3 DEF By, HostInv, TaskInv, StepsOf
  <2>2. op = "assemble" => ~link' /\ (official \/ unit'.at = "main")
    BY <1>1, <2>1, FieldsOfHost DEF ServiceBy
  <2>3. verdict'.since = verdict.since
    BY <1>1, SinceKept DEF SameVerdict
  <2> QED  BY <1>1, <1>3, <2>1, <2>2, <2>3 DEF ServiceBy
<1> QED  BY <1>1, <1>2, <1>3, <1>4, <1>5, ServiceDone

LEMMA KeepsEnable ==
  ASSUME HostInv, Enable
  PROVE  HostInv'
<1>1. /\ Doing("enable") /\ Proceed /\ unit' = [unit EXCEPT !.enabled = TRUE]
      /\ UNCHANGED <<profile, soft, official, conf, link, live, marks>>
  BY DEF Enable
<1>2. PICK op \in Operations, n \in Nat \ {0} :
        StepsOf(op, n) /\ StepOf(op, n, "enable") /\ By(op, n)
  BY <1>1, StepsLeft
<1>3. (op = "assemble" => n = 10) /\ op # "site" /\ op # "remove"
  BY <1>2 DEF StepOf, AssembleStep, RuleStep
<1>4. HostData' /\ unit'.enabled /\ unit'.at = unit.at
  <2>1. unit \in Units
    BY DEF HostInv, HostData
  <2>2. unit' \in Units /\ unit'.enabled /\ unit'.at = unit.at
    BY <1>1, <2>1 DEF Units
  <2> QED  BY <1>1, <2>2 DEF HostInv, HostData
<1>5. op = "assemble" => ServiceBy(n - 1)'
  <2>1. op = "assemble" => ServiceBy(10)
    BY <1>2, <1>3 DEF By
  <2>2. verdict'.since = verdict.since
    BY <1>1, SinceKept DEF SameVerdict
  <2> QED  BY <1>1, <1>3, <1>4, <2>1, <2>2 DEF ServiceBy
<1> QED  BY <1>1, <1>2, <1>3, <1>4, <1>5, ServiceDone

LEMMA ConfiguredTyped == HostData => Configured \in 0 .. MaxProfile
  BY HostAssumption DEF HostData, Configured, Places

\* What an assembly has uploaded is what either unit starts.
LEMMA ConfiguredNow ==
  ASSUME HostInv, NEW n \in Nat, n <= 10, ServiceBy(n)
  PROVE  Configured >= verdict.since
  BY FieldsOfHost DEF ServiceBy, Configured, Places

LEMMA KeepsRestart ==
  ASSUME HostInv, Restart
  PROVE  HostInv'
<1>1. /\ Doing("restart")
      /\ live' \in {Configured} \cup (IF "start" \in HostFaults THEN {0} ELSE {})
      /\ Proceed \/ (live' = 0 /\ GiveUp)
      /\ UNCHANGED <<profile, soft, official, conf, link, unit, marks>>
  BY DEF Restart
<1>2. PICK op \in Operations, n \in Nat \ {0} :
        StepsOf(op, n) /\ StepOf(op, n, "restart") /\ By(op, n)
  BY <1>1, StepsLeft
<1>3. (op = "assemble" => n = 9) /\ op # "site" /\ op # "remove"
  BY <1>2 DEF StepOf, AssembleStep, RuleStep
<1>4. HostData'
  <2>1. live' \in 0 .. MaxProfile
    BY <1>1, ConfiguredTyped, HostAssumption DEF HostInv
  <2> QED  BY <1>1, <2>1 DEF HostInv, HostData
<1>5. Proceed /\ op = "assemble" => ServiceBy(n - 1)'
  <2>1. op = "assemble" => ServiceBy(9)
    BY <1>2, <1>3 DEF By
  <2>2. op = "assemble" => Configured >= verdict.since
    BY <2>1, ConfiguredNow
  <2>3. op = "assemble" => live' = 0 \/ live' >= verdict.since
    BY <1>1, <2>2
  <2>4. Proceed => verdict'.since = verdict.since
    BY <1>1, SinceKept DEF SameVerdict
  <2> QED  BY <1>1, <1>3, <2>1, <2>3, <2>4 DEF ServiceBy
<1>6. CASE Proceed
  BY <1>1, <1>2, <1>3, <1>4, <1>5, <1>6, ServiceDone
<1> QED  BY <1>1, <1>4, <1>6, GivesUp

LEMMA KeepsStop ==
  ASSUME HostInv, Stop
  PROVE  HostInv'
<1>1. /\ Doing("stop") /\ live' = 0 /\ Proceed
      /\ UNCHANGED <<profile, soft, official, conf, link, unit, marks>>
  BY DEF Stop
<1>2. PICK op \in Operations, n \in Nat \ {0} :
        StepsOf(op, n) /\ StepOf(op, n, "stop") /\ By(op, n)
  BY <1>1, StepsLeft
<1>3. op # "assemble" /\ op # "site" /\ op # "remove"
  BY <1>2 DEF StepOf, AssembleStep, RuleStep
<1>4. HostData'
  BY <1>1, HostAssumption DEF HostInv, HostData
<1> QED  BY <1>1, <1>2, <1>3, <1>4, ServiceDone

\* The rules are there already: a deployment is over, an assembly goes to its end.
LEMMA KeepsCompare ==
  ASSUME HostInv, Compare
  PROVE  HostInv'
<1>1. /\ Doing("compare")
      /\ UNCHANGED <<profile, soft, official, conf, link, unit, live, marks>>
      /\ IF ~task.force /\ Current(task.snat)
         THEN GoOn(SubSeq(task.todo, 8, Len(task.todo)))
         ELSE Proceed
  BY DEF Compare, RuleSteps
<1>2. PICK op \in Operations, n \in Nat \ {0} :
        StepsOf(op, n) /\ StepOf(op, n, "compare") /\ By(op, n)
  BY <1>1, StepsLeft
<1>3. (op = "assemble" => n = 8) /\ (op = "site" => n = 7) /\ op # "remove"
  BY <1>2 DEF StepOf, AssembleStep, RuleStep
<1>4. HostData'
  BY <1>1 DEF HostInv, HostData
<1>5. op = "assemble" => ServiceBy(8)
  BY <1>2, <1>3 DEF By
<1>6. CASE Proceed
  <2>1. verdict'.since = verdict.since
    BY <1>1, <1>6, SinceKept DEF SameVerdict
  <2>2. op = "assemble" => ServiceBy(n - 1)' /\ RulesBy(n - 1 - 1, verdict.snat)'
    BY <1>1, <1>3, <1>5, <2>1 DEF ServiceBy, RulesBy, ExactBy, ServingBy
  <2>3. op = "site" => RulesBy(n - 1, TRUE)'
    BY <1>3 DEF RulesBy, ExactBy, ServingBy
  <2>4. By(op, n - 1)'
    BY <1>3, <2>2, <2>3 DEF By
  <2> QED  BY <1>1, <1>2, <1>4, <1>6, <2>4, OneDone
<1>7. CASE Current(task.snat) /\ GoOn(SubSeq(task.todo, 8, Len(task.todo)))
  <2>1. PICK steps : steps = SubSeq(task.todo, 8, Len(task.todo))
    OBVIOUS
  <2>2. task.todo \in Seq(HostSteps) /\ n = Len(task.todo) /\ ~HostIdle
    BY <1>2 DEF StepsOf, HostInv, TaskInv
  <2>3. PICK m \in Nat : /\ m = Len(steps) /\ steps \in Seq(HostSteps)
                         /\ op = "assemble" => m = 1 /\ steps[1] = task.todo[8]
                         /\ op = "site" => m = 0
    <3>1. steps \in Seq(HostSteps) /\ Len(steps) = IF 8 <= n THEN n - 7 ELSE 0
      BY <2>1, <2>2
    <3>2. op = "assemble" => steps[1] = task.todo[8]
      BY <1>3, <2>1, <2>2
    <3> QED  BY <1>3, <3>1, <3>2
  <2>4. Follows(op, steps)
    <3>1. op = "assemble" => task.todo[8] = "verify"
      <4>1. op = "assemble" => Follows("assemble", task.todo) /\ Len(task.todo) = 8
        BY <1>2, <1>3, <2>2 DEF HostInv, TaskInv, StepsOf
      <4>2. 8 \in 1 .. 8 /\ 8 + 1 - 8 = 1
        OBVIOUS
      <4>3. op = "assemble" => StepOf("assemble", 1, task.todo[8])
        BY <4>1, <4>2 DEF Follows
      <4> QED  BY <4>3 DEF StepOf, AssembleStep, RuleStep
    <3> QED  BY <1>3, <2>3, <3>1 DEF Follows, StepOf, AssembleStep
  <2>5. MovesOn(steps, verdict.slips) /\ SameVerdict /\ verdict.slips \in SUBSET Slips
    BY <1>7, <2>1, <2>2, HostMovingOn, Proceeding DEF HostInv, VerdictInv
  <2>6. /\ op = "assemble" => Current(verdict.snat)'
        /\ op = "site" => Current(TRUE)'
    <3>1. verdict.snat = task.snat /\ (op = "site" => task.snat = TRUE)
      BY <1>2, <2>2 DEF HostInv, TaskInv, VerdictInv, StepsOf
    <3> QED  BY <1>1, <1>7, <2>5, <3>1 DEF SameVerdict, Current
  <2>7. \A masq : Current(masq)' => RulesBy(0, masq)'
    BY DEF RulesBy, ExactBy, ServingBy, Current
  <2>8. ASSUME op = "assemble" PROVE ServiceBy(m)' /\ RulesBy(m - 1, verdict.snat)'
    <3>1. ServiceBy(1)'
      BY <1>1, <1>5, <2>5, <2>8 DEF ServiceBy, SameVerdict
    <3>2. RulesBy(0, verdict.snat)'
      BY <2>6, <2>7, <2>8
    <3>3. m = 1 /\ m - 1 = 0
      BY <2>3, <2>8
    <3> QED  BY <3>1, <3>2, <3>3
  <2>9. ASSUME op = "site" PROVE RulesBy(m, TRUE)'
    <3>1. RulesBy(0, TRUE)'
      BY <2>6, <2>7, <2>9
    <3> QED  BY <2>3, <2>9, <3>1
  <2>10. By(op, m)'
    BY <1>3, <2>8, <2>9 DEF By
  <2>11. \A o, k : o = task.op /\ k = Len(steps) => Follows(o, steps) /\ By(o, k)'
    BY <1>2, <2>3, <2>4, <2>10 DEF StepsOf
  <2> QED  BY <1>1, <1>4, <2>2, <2>3, <2>5, <2>11, GoesOn
<1> QED  BY <1>1, <1>6, <1>7

\* A command on the rules, done or passed over, does the same for a deployment and
\* an assembly, with as many of their steps left.
LEMMA RulesDone ==
  ASSUME HostInv, NEW slips \in SUBSET Slips, MovesOn(Tail(task.todo), slips), HostData',
         UNCHANGED <<profile, soft, official, conf, link, unit, live>>,
         NEW op \in Operations, NEW n \in Nat, StepsOf(op, n), By(op, n),
         NEW r \in 1 .. 7, NEW masq, masq = task.snat,
         op = "assemble" => n = r + 1, op = "site" => n = r,
         op = "remove" => ClearedBy(n - 1)',
         op \in {"assemble", "site"} /\ RulesBy(r, masq) => RulesBy(r - 1, masq)'
  PROVE  HostInv'
<1>1. verdict'.since = verdict.since /\ verdict'.snat = verdict.snat
  BY DEF MovesOn
<1>2. ASSUME op = "assemble" PROVE ServiceBy(n - 1)' /\ RulesBy(n - 1 - 1, verdict.snat)'
  <2>1. ServiceBy(n) /\ RulesBy(n - 1, verdict.snat) /\ verdict.snat = masq
        /\ verdict'.snat = masq
    BY <1>1, <1>2 DEF By, HostInv, VerdictInv, StepsOf
  <2>2. n - 1 = r /\ n \in 2 .. 8
    BY <1>2
  <2>3. RulesBy(r - 1, masq)'
    BY <1>2, <2>1, <2>2
  <2>4. RulesBy(r - 1, verdict.snat)'
    BY <2>1, <2>3
  <2>5. ServiceBy(n - 1)'
    BY <1>1, <2>1, <2>2 DEF ServiceBy
  <2> QED  BY <2>2, <2>4, <2>5
<1>3. ASSUME op = "site" PROVE RulesBy(n - 1, TRUE)'
  <2>1. RulesBy(n, TRUE) /\ masq = TRUE /\ n = r
    BY <1>3 DEF By, HostInv, TaskInv, StepsOf
  <2>2. RulesBy(r - 1, masq)'
    BY <1>3, <2>1
  <2> QED  BY <2>1, <2>2
<1>4. By(op, n - 1)'
  BY <1>2, <1>3 DEF By
<1> QED  BY <1>4, OneLess

\* What a deletion leaves counts only where it has succeeded.
LEMMA DeletionDone ==
  ASSUME HostInv, NEW gone \in BOOLEAN, Cleared(gone), marks' \in Counts, NEW s, Doing(s),
         NEW r \in 5 .. 6, NEW k \in 1 .. 2,
         \A op, n : StepOf(op, n, s) =>
            /\ op = "assemble" => n = r + 1
            /\ op = "site" => n = r
            /\ op = "remove" => n = k,
         \A masq : gone /\ RulesBy(r, masq) /\ verdict.slips = {} => ExactBy(r - 1, masq)',
         gone /\ ClearedBy(k) /\ verdict.slips = {} =>
            Emptied' /\ (k = 1 => marks'.nats = 0)
  PROVE  HostInv'
<1>1. UNCHANGED <<profile, soft, official, conf, link, unit, live>>
  BY DEF Cleared
<1>2. HostData'
  BY <1>1 DEF HostInv, HostData
<1>3. PICK op \in Operations, n \in Nat \ {0} :
        StepsOf(op, n) /\ StepOf(op, n, s) /\ By(op, n)
  BY StepsLeft
<1>4. (op = "assemble" => n = r + 1) /\ (op = "site" => n = r) /\ (op = "remove" => n = k)
  BY <1>3
<1>5. ~HostIdle /\ verdict.slips \in SUBSET Slips
  BY DEF Doing, HostInv, VerdictInv
<1> PICK masq : masq = task.snat
  OBVIOUS
<1>6. ServingBy(r - 1, masq)'
  BY DEF ServingBy
<1>7. CASE gone /\ Proceed
  <2>1. MovesOn(Tail(task.todo), verdict.slips)
    BY <1>5, <1>7, HostMovingOn DEF Proceed
  <2>2. verdict'.slips = verdict.slips
    BY <2>1 DEF MovesOn
  <2>3. op = "remove" => ClearedBy(n - 1)'
    <3>1. op = "remove" => ClearedBy(k) /\ n = k
      BY <1>3, <1>4 DEF By
    <3>2. op = "remove" /\ verdict.slips = {} => Emptied' /\ (k = 1 => marks'.nats = 0)
      BY <1>7, <3>1
    <3>3. k - 1 = 0 => k = 1
      OBVIOUS
    <3> QED  BY <2>2, <3>1, <3>2, <3>3 DEF ClearedBy
  <2>4. RulesBy(r, masq) => RulesBy(r - 1, masq)'
    BY <1>6, <1>7, <2>2 DEF RulesBy
  <2> QED  BY <1>1, <1>2, <1>3, <1>4, <1>5, <2>1, <2>3, <2>4, RulesDone
<1>8. CASE PassOver
  <2>1. PICK slips : slips = verdict.slips \cup {"passed"}
    OBVIOUS
  <2>2. slips \in SUBSET Slips /\ slips # {}
    BY <1>5, <2>1 DEF Slips
  <2>3. MovesOn(Tail(task.todo), slips)
    BY <1>5, <1>8, <2>1, PassingOver
  <2>4. verdict'.slips # {}
    BY <2>2, <2>3 DEF MovesOn
  <2>5. ClearedBy(n - 1)'
    BY <2>4 DEF ClearedBy
  <2>6. RulesBy(r - 1, masq)'
    BY <1>6, <2>4 DEF RulesBy
  <2> QED  BY <1>1, <1>2, <1>3, <1>4, <2>2, <2>3, <2>5, <2>6, RulesDone
<1>9. CASE GiveUp
  BY <1>2, <1>9, GivesUp
<1> QED  BY <1>7, <1>8, <1>9 DEF Cleared

LEMMA KeepsUnjump ==
  ASSUME HostInv, Unjump
  PROVE  HostInv'
<1>1. PICK j \in 0 .. marks.jumps, r \in {0, marks.rules}, c \in {FALSE, marks.chain} :
        /\ marks' = [marks EXCEPT !.jumps = j, !.rules = r, !.chain = c]
        /\ Cleared(j = 0 /\ r = 0 /\ ~c)
  BY DEF Unjump
<1>2. Doing("unjump")
  BY DEF Unjump
<1>3. PICK gone \in BOOLEAN : gone = (j = 0 /\ r = 0 /\ ~c)
  OBVIOUS
<1>4. Cleared(gone)
  BY <1>1, <1>3
<1>5. marks' = [chain |-> c, rules |-> r, jumps |-> j, nats |-> marks.nats]
  BY <1>1, FieldsOfHost
<1>6. marks \in Counts
  BY DEF HostInv, HostData
<1>7. marks' \in Counts
  <2>1. marks.jumps \in 0 .. 2 /\ marks.rules \in 0 .. 2 /\ marks.chain \in BOOLEAN
        /\ marks.nats \in 0 .. 2
    BY <1>6 DEF Counts
  <2>2. j \in 0 .. 2
    BY <2>1
  <2>3. r \in 0 .. 2
    BY <2>1
  <2>4. c \in BOOLEAN
    BY <2>1
  <2> QED  BY <1>5, <2>1, <2>2, <2>3, <2>4 DEF Counts
<1>8. gone => Emptied'
  BY <1>3, <1>5 DEF Emptied
<1>9. \A masq : gone => ExactBy(6 - 1, masq)'
  BY <1>8 DEF ExactBy
<1>10. \A op, n : StepOf(op, n, "unjump") =>
         /\ op = "assemble" => n = 6 + 1
         /\ op = "site" => n = 6
         /\ op = "remove" => n = 2
  BY DEF StepOf, AssembleStep, RuleStep
<1>11. 6 \in 5 .. 6 /\ 2 \in 1 .. 2
  OBVIOUS
<1> QED  BY <1>2, <1>4, <1>7, <1>8, <1>9, <1>10, <1>11, DeletionDone

LEMMA KeepsUnmark ==
  ASSUME HostInv, Unmark
  PROVE  HostInv'
<1>1. PICK j \in 0 .. marks.jumps, n \in 0 .. marks.nats :
        /\ marks' = [marks EXCEPT !.jumps = j, !.nats = n]
        /\ Cleared(j = 0 /\ n = 0)
  BY DEF Unmark
<1>2. Doing("unmark")
  BY DEF Unmark
<1>3. PICK gone \in BOOLEAN : gone = (j = 0 /\ n = 0)
  OBVIOUS
<1>4. Cleared(gone)
  BY <1>1, <1>3
<1>5. marks' = [chain |-> marks.chain, rules |-> marks.rules, jumps |-> j, nats |-> n]
  BY <1>1, FieldsOfHost
<1>6. marks \in Counts
  BY DEF HostInv, HostData
<1>7. marks' \in Counts
  <2>1. marks.jumps \in 0 .. 2 /\ marks.rules \in 0 .. 2 /\ marks.chain \in BOOLEAN
        /\ marks.nats \in 0 .. 2
    BY <1>6 DEF Counts
  <2>2. j \in 0 .. 2 /\ n \in 0 .. 2
    BY <2>1
  <2> QED  BY <1>5, <2>1, <2>2 DEF Counts
<1>8. gone /\ Emptied => Emptied' /\ marks'.nats = 0
  BY <1>3, <1>5 DEF Emptied
<1>9. \A masq : RulesBy(5, masq) /\ verdict.slips = {} => Emptied
  BY DEF RulesBy, ExactBy
<1>10. \A masq : gone /\ Emptied => ExactBy(5 - 1, masq)'
  BY <1>8 DEF ExactBy
<1>11. ClearedBy(1) /\ verdict.slips = {} => Emptied
  BY DEF ClearedBy
<1>12. \A op, m : StepOf(op, m, "unmark") =>
         /\ op = "assemble" => m = 5 + 1
         /\ op = "site" => m = 5
         /\ op = "remove" => m = 1
  BY DEF StepOf, AssembleStep, RuleStep
<1>13. 5 \in 5 .. 6 /\ 1 \in 1 .. 2
  OBVIOUS
<1> QED  BY <1>2, <1>4, <1>7, <1>8, <1>9, <1>10, <1>11, <1>12, <1>13, DeletionDone

LEMMA PutOne ==
  ASSUME HostInv, NEW s \in HostSteps, NEW r \in 1 .. 4, RuleStep(r, s),
         Doing(s), Proceed, marks' \in Counts,
         UNCHANGED <<profile, soft, official, conf, link, unit, live>>,
         NEW masq, masq = task.snat,
         ExactBy(r, masq) => ExactBy(r - 1, masq)',
         ServingBy(r, masq) => ServingBy(r - 1, masq)'
  PROVE  HostInv'
<1>1. PICK op \in Operations, n \in Nat \ {0} :
        StepsOf(op, n) /\ StepOf(op, n, s) /\ By(op, n)
  BY StepsLeft
<1>2. s \in {"chain", "rule", "jump", "nat"}
  BY DEF RuleStep
<1>3. (op = "assemble" => n = r + 1) /\ (op = "site" => n = r) /\ op # "remove"
  BY <1>1, <1>2 DEF StepOf, AssembleStep, RuleStep
<1>4. MovesOn(Tail(task.todo), verdict.slips) /\ verdict.slips \in SUBSET Slips
  BY HostMovingOn DEF Proceed, Doing, HostInv, VerdictInv
<1>5. HostData'
  BY DEF HostInv, HostData
<1>6. verdict'.slips = verdict.slips
  BY <1>4 DEF MovesOn
<1>7. RulesBy(r, masq) => RulesBy(r - 1, masq)'
  BY <1>6 DEF RulesBy
<1>8. r \in 1 .. 7
  OBVIOUS
<1> QED  BY <1>1, <1>3, <1>4, <1>5, <1>7, <1>8, RulesDone

LEMMA KeepsPut ==
  ASSUME HostInv, Put
  PROVE  HostInv'
<1>1. PICK masq : masq = task.snat
  OBVIOUS
<1>2. Proceed /\ UNCHANGED <<profile, soft, official, conf, link, unit, live>>
  BY DEF Put
<1>3. marks = [chain |-> marks.chain, rules |-> marks.rules,
               jumps |-> marks.jumps, nats |-> marks.nats]
      /\ marks.rules \in Nat /\ marks.jumps \in Nat /\ marks.nats \in Nat
  BY FieldsOfHost
<1>4. marks.chain \in BOOLEAN /\ marks.rules \in 0 .. 2 /\ marks.jumps \in 0 .. 2
      /\ marks.nats \in 0 .. 2
  BY DEF HostInv, HostData, Counts
<1>5. \A n \in Nat : More(n) \in 0 .. 2 /\ More(n) # 0 /\ (n = 0 => More(n) = 1)
  BY DEF More
<1>6. ASSUME NEW c \in {TRUE, marks.chain}, Doing("chain"),
             marks' = [marks EXCEPT !.chain = c]
      PROVE  HostInv'
  <2>1. marks' = [chain |-> c, rules |-> marks.rules, jumps |-> marks.jumps,
                  nats |-> marks.nats]
    BY <1>3, <1>6
  <2>2. marks' \in Counts
    BY <1>4, <2>1 DEF Counts
  <2>3. ExactBy(4, masq) => ExactBy(4 - 1, masq)'
    BY <2>1 DEF ExactBy, Emptied
  <2>4. ServingBy(4, masq) => ServingBy(4 - 1, masq)'
    BY DEF ServingBy
  <2> QED  BY <1>1, <1>2, <1>6, <2>2, <2>3, <2>4, PutOne DEF RuleStep, HostSteps
<1>7. CASE Doing("rule") /\ marks.chain /\ marks' = [marks EXCEPT !.rules = More(@)]
  <2>1. marks' = [chain |-> marks.chain, rules |-> More(marks.rules),
                  jumps |-> marks.jumps, nats |-> marks.nats]
    BY <1>3, <1>7
  <2>2. marks' \in Counts
    BY <1>3, <1>4, <1>5, <2>1 DEF Counts
  <2>3. ExactBy(3, masq) => ExactBy(3 - 1, masq)'
    BY <1>5, <1>7, <2>1 DEF ExactBy
  <2>4. ServingBy(3, masq) => ServingBy(3 - 1, masq)'
    BY <1>3, <1>5, <1>7, <2>1 DEF ServingBy
  <2> QED  BY <1>1, <1>2, <1>7, <2>2, <2>3, <2>4, PutOne DEF RuleStep, HostSteps
<1>8. CASE Doing("jump") /\ marks.chain /\ marks' = [marks EXCEPT !.jumps = More(@)]
  <2>1. marks' = [chain |-> marks.chain, rules |-> marks.rules,
                  jumps |-> More(marks.jumps), nats |-> marks.nats]
    BY <1>3, <1>8
  <2>2. marks' \in Counts
    BY <1>3, <1>4, <1>5, <2>1 DEF Counts
  <2>3. ExactBy(2, masq) => ExactBy(2 - 1, masq)'
    BY <1>5, <2>1 DEF ExactBy
  <2>4. ServingBy(2, masq) => ServingBy(2 - 1, masq)'
    BY <1>3, <1>5, <2>1 DEF ServingBy
  <2> QED  BY <1>1, <1>2, <1>8, <2>2, <2>3, <2>4, PutOne DEF RuleStep, HostSteps
<1>9. CASE /\ Doing("nat")
           /\ marks' = [marks EXCEPT !.nats = IF task.snat THEN More(@) ELSE @]
  <2>1. PICK k : k = IF task.snat THEN More(marks.nats) ELSE marks.nats
    OBVIOUS
  <2>2. marks' = [chain |-> marks.chain, rules |-> marks.rules, jumps |-> marks.jumps,
                  nats |-> k]
    BY <1>3, <1>9, <2>1
  <2>3. k \in 0 .. 2 /\ (masq => k # 0) /\ (marks.nats = 0 => k = IF masq THEN 1 ELSE 0)
    BY <1>1, <1>3, <1>4, <1>5, <2>1
  <2>4. marks' \in Counts
    BY <1>4, <2>2, <2>3 DEF Counts
  <2>5. ExactBy(1, masq) => ExactBy(1 - 1, masq)'
    BY <2>2, <2>3 DEF ExactBy, Current
  <2>6. ServingBy(1, masq) => ServingBy(1 - 1, masq)'
    BY <2>2, <2>3 DEF ServingBy
  <2> QED  BY <1>1, <1>2, <1>9, <2>4, <2>5, <2>6, PutOne DEF RuleStep, HostSteps
<1> QED  BY <1>6, <1>7, <1>8, <1>9 DEF Put

\* The verification sees a client that died after its restart.
LEMMA KeepsVerify ==
  ASSUME HostInv, Verify
  PROVE  HostInv'
<1>1. /\ Doing("verify") /\ ((live # 0 /\ Proceed) \/ GiveUp)
      /\ UNCHANGED <<profile, soft, official, conf, link, unit, live, marks>>
  BY DEF Verify
<1>2. PICK op \in Operations, n \in Nat \ {0} :
        StepsOf(op, n) /\ StepOf(op, n, "verify") /\ By(op, n)
  BY <1>1, StepsLeft
<1>3. (op = "assemble" => n = 1) /\ op # "site" /\ op # "remove"
  BY <1>2 DEF StepOf, AssembleStep, RuleStep
<1>4. HostData'
  BY <1>1 DEF HostInv, HostData
<1>5. CASE live # 0 /\ Proceed
  <2>1. SameVerdict
    BY <1>1, <1>5, SinceKept
  <2>2. ASSUME op = "assemble"
        PROVE  ServiceBy(n - 1)' /\ RulesBy(n - 1 - 1, verdict.snat)'
    <3>1. ServiceBy(1) /\ RulesBy(0, verdict.snat)
      BY <1>2, <1>3, <2>2 DEF By
    <3>2. ServiceBy(0)'
      BY <1>1, <1>5, <2>1, <3>1 DEF ServiceBy, SameVerdict
    <3>3. RulesBy(0 - 1, verdict.snat)'
      BY <1>1, <2>1, <3>1 DEF RulesBy, ExactBy, ServingBy, Current, SameVerdict
    <3>4. n - 1 = 0 /\ n - 1 - 1 = 0 - 1
      BY <1>3, <2>2
    <3> QED  BY <3>2, <3>3, <3>4
  <2>3. By(op, n - 1)'
    BY <1>3, <2>2 DEF By
  <2> QED  BY <1>1, <1>2, <1>4, <1>5, <2>3, OneDone
<1>6. CASE GiveUp
  BY <1>4, <1>6, GivesUp
<1> QED  BY <1>1, <1>5, <1>6

LEMMA KeepsCommandFails ==
  ASSUME HostInv, CommandFails
  PROVE  HostInv'
<1>1. HostData'
  BY DEF CommandFails, HostInv, HostData
<1> QED  BY <1>1, GivesUp DEF CommandFails

(***************************************************************************)
(* An operation begins; things happen beside the operations                *)
(***************************************************************************)

LEMMA KeepsBegin ==
  ASSUME HostInv, NEW op \in Operations \ {"none"}, NEW steps \in Seq(HostSteps),
         NEW place \in Places, NEW masq \in BOOLEAN, NEW force,
         Begin(op, steps, place, masq, force),
         op = "assemble" => place = "main", op = "site" => masq = TRUE,
         Follows(op, steps),
         op = "assemble" => Len(steps) = 13, op = "site" => Len(steps) = 7,
         op = "remove" => Len(steps) = 2
  PROVE  HostInv'
<1>1. /\ task' = [op |-> op, todo |-> steps, at |-> place, snat |-> masq, force |-> force]
      /\ verdict' = [op |-> op, done |-> FALSE, snat |-> masq, since |-> profile, slips |-> {}]
      /\ UNCHANGED <<profile, soft, official, conf, link, unit, live, marks>>
      /\ steps # <<>>
  BY DEF Begin
<1>2. HostData'
  BY <1>1 DEF HostInv, HostData
<1>3. PICK n \in Nat : n = Len(steps)
  OBVIOUS
<1>4. (op = "assemble" => n = 13) /\ (op = "site" => n = 7) /\ (op = "remove" => n = 2)
  BY <1>3
<1>5. /\ op = "assemble" => ServiceBy(n)' /\ RulesBy(n - 1, verdict.snat)'
      /\ op = "site" => RulesBy(n, TRUE)'
  <2>1. op = "assemble" => ServiceBy(n)'
    BY <1>4 DEF ServiceBy
  <2>2. op = "assemble" => RulesBy(n - 1, verdict.snat)'
    BY <1>4 DEF RulesBy, ExactBy, ServingBy
  <2>3. op = "site" => RulesBy(n, TRUE)'
    BY <1>4 DEF RulesBy, ExactBy, ServingBy
  <2> QED  BY <2>1, <2>2, <2>3
<1>6. By(op, n)'
  <2>1. op = "remove" => ClearedBy(n)'
    BY <1>4 DEF ClearedBy
  <2> QED  BY <1>5, <2>1 DEF By
<1>7. task'.op = op /\ task'.todo = steps /\ task'.snat = masq
  BY <1>1
<1>8. \A o, m : o = task'.op /\ m = Len(task'.todo) => By(o, m)' /\ Follows(o, task'.todo)
  BY <1>3, <1>6, <1>7
<1>9. By(task.op, Len(task.todo))' /\ Follows(task.op, task.todo)'
  BY <1>8 DEF Follows
<1>10. TaskInv'
  BY <1>1, <1>9 DEF TaskInv, WholeTask
<1>11. verdict'.since \in 1 .. profile' /\ verdict'.slips = {} /\ verdict'.done = FALSE
       /\ verdict'.op = task'.op /\ verdict'.snat = task'.snat /\ verdict'.snat \in BOOLEAN
  BY <1>1, HostAssumption DEF HostInv, HostData
<1>12. WholeVerdict(verdict)'
  BY <1>1 DEF WholeVerdict
<1>13. VerdictInv'
  BY <1>9, <1>11, <1>12 DEF VerdictInv
<1> QED  BY <1>2, <1>10, <1>13 DEF HostInv

LEMMA KeepsAssemble ==
  ASSUME HostInv, NEW masq \in BOOLEAN, Assemble(masq)
  PROVE  HostInv'
<1> DEFINE front == <<"probe", "upload", "prepare", "enable", "restart">>
<1>1. PICK steps : /\ steps = front \o RuleSteps \o <<"verify">>
                   /\ Begin("assemble", steps, "main", masq, FALSE)
  BY DEF Assemble
<1>2. /\ front \in Seq(HostSteps) /\ Len(front) = 5
      /\ RuleSteps \in Seq(HostSteps) /\ Len(RuleSteps) = 7
      /\ <<"verify">> \in Seq(HostSteps) /\ Len(<<"verify">>) = 1
  BY DEF HostSteps, RuleSteps
<1> HIDE DEF front
<1>3. PICK x : x = front \o RuleSteps
  OBVIOUS
<1>4. /\ x \in Seq(HostSteps) /\ Len(x) = 12
      /\ \A i \in 1 .. 5 : x[i] = front[i]
      /\ \A i \in 1 .. 7 : x[5 + i] = RuleSteps[i]
  <2>1. /\ x \in Seq(HostSteps) /\ Len(x) = Len(front) + Len(RuleSteps)
        /\ \A i \in 1 .. Len(front) : x[i] = front[i]
        /\ \A i \in 1 .. Len(RuleSteps) : x[Len(front) + i] = RuleSteps[i]
    <3>1. front \in Seq(HostSteps) /\ RuleSteps \in Seq(HostSteps)
      BY <1>2
    <3> QED  BY <1>3, <3>1, Appended
  <2> QED  BY <1>2, <2>1
<1>5. /\ steps \in Seq(HostSteps) /\ Len(steps) = 13
      /\ \A i \in 1 .. 12 : steps[i] = x[i]
      /\ \A i \in 1 .. 1 : steps[12 + i] = <<"verify">>[i]
  <2>1. PICK z : z = <<"verify">>
    OBVIOUS
  <2>2. steps = x \o z /\ z \in Seq(HostSteps) /\ Len(z) = 1
    BY <1>1, <1>2, <1>3, <2>1
  <2>3. /\ steps \in Seq(HostSteps) /\ Len(steps) = Len(x) + Len(z)
        /\ \A i \in 1 .. Len(x) : steps[i] = x[i]
        /\ \A i \in 1 .. Len(z) : steps[Len(x) + i] = z[i]
    <3>1. x \in Seq(HostSteps) /\ z \in Seq(HostSteps) /\ steps = x \o z
      BY <1>4, <2>2
    <3> QED  BY <3>1, Appended
  <2> QED  BY <1>4, <2>1, <2>2, <2>3
<1>6. ASSUME NEW i \in 1 .. 13 PROVE StepOf("assemble", 13 + 1 - i, steps[i])
  <2>1. CASE i \in 1 .. 5
    <3>1. steps[i] = front[i]
      BY <1>4, <1>5, <2>1
    <3> QED  BY <2>1, <3>1 DEF StepOf, AssembleStep, front
  <2>2. CASE i \in 6 .. 12
    <3>1. i - 5 \in 1 .. 7 /\ i = 5 + (i - 5) /\ i \in 1 .. 12
      BY <2>2
    <3>2. steps[i] = RuleSteps[i - 5]
      BY <1>4, <1>5, <3>1
    <3> QED  BY <2>2, <3>2 DEF StepOf, AssembleStep, RuleStep, RuleSteps
  <2>3. CASE i = 13
    <3>1. 1 \in 1 .. 1 /\ i = 12 + 1
      BY <2>3
    <3>2. steps[i] = "verify"
      BY <1>5, <3>1
    <3> QED  BY <2>3, <3>2 DEF StepOf, AssembleStep
  <2> QED  BY <2>1, <2>2, <2>3
<1>7. Follows("assemble", steps)
  BY <1>5, <1>6 DEF Follows
<1>8. Begin("assemble", steps, "main", masq, FALSE) /\ steps \in Seq(HostSteps)
      /\ Len(steps) = 13
  BY <1>1, <1>5
<1> QED  BY <1>7, <1>8, KeepsBegin DEF Operations, Places

LEMMA KeepsOperation ==
  ASSUME HostInv, DeploySite \/ RemoveSite \/ Control("restart") \/ Control("stop")
  PROVE  HostInv'
<1>1. CASE DeploySite
  <2>1. Begin("site", RuleSteps, "main", TRUE, FALSE)
    BY <1>1 DEF DeploySite
  <2>2. RuleSteps \in Seq(HostSteps) /\ Len(RuleSteps) = 7
    BY DEF HostSteps, RuleSteps
  <2>3. Follows("site", RuleSteps)
    BY <2>2 DEF Follows, StepOf, RuleStep, RuleSteps
  <2> QED  BY <2>1, <2>2, <2>3, KeepsBegin DEF Operations, Places
<1>2. CASE RemoveSite
  <2>1. PICK masq \in BOOLEAN : masq = FALSE /\ Begin("remove", <<"unjump", "unmark">>, "main", masq, TRUE)
    BY <1>2 DEF RemoveSite
  <2>2. <<"unjump", "unmark">> \in Seq(HostSteps) /\ Len(<<"unjump", "unmark">>) = 2
    BY DEF HostSteps
  <2>3. Follows("remove", <<"unjump", "unmark">>)
    <3> SUFFICES ASSUME NEW i \in 1 .. 2
                 PROVE  StepOf("remove", 2 + 1 - i, <<"unjump", "unmark">>[i])
      BY <2>2 DEF Follows
    <3>1. CASE i = 1
      <4>1. 2 + 1 - i = 2 /\ <<"unjump", "unmark">>[i] = "unjump"
        BY <3>1
      <4>2. StepOf("remove", 2, "unjump")
        BY Zenon DEF StepOf
      <4> QED  BY <4>1, <4>2
    <3>2. CASE i = 2
      <4>1. 2 + 1 - i = 1 /\ <<"unjump", "unmark">>[i] = "unmark"
        BY <3>2
      <4>2. StepOf("remove", 1, "unmark")
        BY DEF StepOf
      <4> QED  BY <4>1, <4>2
    <3> QED  BY <3>1, <3>2
  <2> QED  BY <2>1, <2>2, <2>3, KeepsBegin DEF Operations, Places
<1>3. ASSUME NEW action \in {"restart", "stop"}, Control(action)
      PROVE  HostInv'
  <2>1. PICK masq \in BOOLEAN : Begin("control", <<action>>, "main", masq, FALSE)
    BY <1>3 DEF Control
  <2>2. <<action>> \in Seq(HostSteps)
    BY DEF HostSteps
  <2>3. Follows("control", <<action>>)
    BY DEF Follows, StepOf
  <2> QED  BY <2>1, <2>2, <2>3, KeepsBegin DEF Operations, Places
<1> QED  BY <1>1, <1>2, <1>3

LEMMA KeepsPushConfig ==
  ASSUME HostInv, NEW up \in BOOLEAN, NEW service \in BOOLEAN, NEW rules \in BOOLEAN,
         NEW masq \in BOOLEAN, NEW place \in Places,
         PushConfig(up, service, rules, place, masq)
  PROVE  HostInv'
<1>1. PICK steps : /\ steps = (IF up THEN <<"upload">> ELSE <<>>)
                          \o (IF service THEN <<"prepare", "enable", "restart">> ELSE <<>>)
                          \o (IF rules THEN RuleSteps ELSE <<>>)
                   /\ Begin("push", steps, place, masq, TRUE)
  BY DEF PushConfig
<1>2. steps \in Seq(HostSteps)
  <2>1. /\ <<"upload">> \in Seq(HostSteps) /\ <<>> \in Seq(HostSteps)
        /\ <<"prepare", "enable", "restart">> \in Seq(HostSteps)
        /\ RuleSteps \in Seq(HostSteps)
    BY DEF HostSteps, RuleSteps
  <2> QED  BY <1>1, <2>1
<1>3. Follows("push", steps)
  BY DEF Follows, StepOf
<1>4. Begin("push", steps, place, masq, TRUE)
  BY <1>1
<1> QED  BY <1>2, <1>3, <1>4, KeepsBegin DEF Operations

\* While nothing runs anything may happen; it ends what was known.
LEMMA NothingKnown ==
  ASSUME HostInv, HostIdle, task' = task, verdict' = NoVerdict, HostData'
  PROVE  HostInv'
<1>1. TaskInv' /\ HostIdle'
  <2>1. TaskInv'
    BY DEF HostInv, TaskInv, WholeTask, Follows, StepOf, AssembleStep, RuleStep
  <2>2. HostIdle'
    BY DEF HostIdle
  <2> QED  BY <2>1, <2>2
<1>2. 1 \in 1 .. profile'
  BY HostAssumption DEF HostData
<1>3. VerdictInv'
  BY <1>1, <1>2 DEF VerdictInv, NoVerdict, WholeVerdict
<1> QED  BY <1>1, <1>3 DEF HostInv

LEMMA StillGoing ==
  ASSUME HostInv, ~HostIdle, task' = task, HostData', profile' >= profile,
         NEW slips \in SUBSET Slips,
         verdict' = [op |-> verdict.op, done |-> verdict.done, snat |-> verdict.snat,
                     since |-> verdict.since, slips |-> slips],
         \A op \in Operations, n \in Nat \ {0} : By(op, n) => By(op, n)'
  PROVE  HostInv'
<1>1. TaskInv' /\ ~HostIdle'
  BY DEF HostInv, TaskInv, WholeTask, Follows, StepOf, AssembleStep, RuleStep, HostIdle
<1>2. task.op \in Operations /\ Len(task.todo) \in Nat \ {0}
  BY DEF HostInv, TaskInv, HostIdle
<1>3. By(task.op, Len(task.todo))
  BY DEF HostInv, VerdictInv
<1>4. PICK op, n : op = task.op /\ n = Len(task.todo)
  OBVIOUS
<1>5. By(op, n)'
  BY <1>2, <1>3, <1>4
<1>6. op = task'.op /\ n = Len(task'.todo)
  BY <1>4
<1>7. \A o, m : o = task'.op /\ m = Len(task'.todo) => By(o, m)'
  BY <1>5, <1>6
<1>8. By(task.op, Len(task.todo))'
  BY <1>7
<1>9. /\ verdict'.since \in 1 .. profile' /\ verdict'.slips \subseteq Slips
      /\ verdict'.op = task'.op /\ verdict'.done = FALSE /\ verdict'.snat = task'.snat
      /\ verdict'.snat \in BOOLEAN
  <2>1. verdict.since \in 1 .. profile /\ profile \in Nat /\ profile' \in Nat
    BY HostAssumption DEF HostInv, VerdictInv, HostData
  <2>2. verdict'.since = verdict.since
    OBVIOUS
  <2>3. verdict'.since \in 1 .. profile'
    BY <2>1, <2>2
  <2> QED  BY <2>3 DEF HostInv, VerdictInv
<1>10. WholeVerdict(verdict)'
  BY DEF WholeVerdict
<1>11. VerdictInv'
  BY <1>1, <1>8, <1>9, <1>10 DEF VerdictInv
<1> QED  BY <1>1, <1>11 DEF HostInv

LEMMA KeepsBeside ==
  ASSUME HostInv, Beside
  PROVE  HostInv'
<1>1. /\ \/ profile < MaxProfile /\ profile' = profile + 1 /\ UNCHANGED live
         \/ live' \in {0, Configured} /\ UNCHANGED profile
      /\ verdict' = IF HostIdle THEN NoVerdict ELSE verdict
      /\ UNCHANGED <<soft, official, conf, link, unit, marks, task>>
  BY DEF Beside
<1>2. HostData' /\ profile' >= profile
  <2>1. live' \in 0 .. MaxProfile
    BY <1>1, ConfiguredTyped, HostAssumption DEF HostInv, HostData
  <2>2. profile' \in 1 .. MaxProfile /\ profile' >= profile
    BY <1>1, HostAssumption DEF HostInv, HostData
  <2> QED  BY <1>1, <2>1, <2>2 DEF HostInv, HostData
<1>3. CASE HostIdle
  BY <1>1, <1>2, <1>3, NothingKnown
<1>4. CASE ~HostIdle
  <2>1. PICK slips : slips = verdict.slips
    OBVIOUS
  <2>2. slips \in SUBSET Slips /\ verdict' = verdict
    BY <1>1, <1>4, <2>1 DEF HostInv, VerdictInv
  <2>3. verdict' = [op |-> verdict.op, done |-> verdict.done, snat |-> verdict.snat,
                    since |-> verdict.since, slips |-> slips]
    BY <2>1, <2>2 DEF HostInv, VerdictInv, WholeVerdict
  <2>4. ASSUME NEW op \in Operations, NEW n \in Nat \ {0}, By(op, n) PROVE By(op, n)'
    <3>1. \A m, masq : RulesBy(m, masq) => RulesBy(m, masq)'
      BY <1>1, <2>2 DEF RulesBy, ExactBy, ServingBy, Emptied, Current
    <3>2. ClearedBy(n) => ClearedBy(n)'
      BY <1>1, <2>2 DEF ClearedBy, Emptied
    <3>3. ServiceBy(n) => ServiceBy(n)'
      <4>1. ServiceBy(n) /\ n <= 8 => live' = 0 \/ live' >= verdict.since
        <5>1. ServiceBy(n) /\ n <= 8 => Configured >= verdict.since
          BY ConfiguredNow
        <5> QED  BY <1>1, <5>1 DEF ServiceBy
      <4> QED  BY <1>1, <2>2, <4>1 DEF ServiceBy
    <3>4. op = "assemble" => ServiceBy(n)' /\ RulesBy(n - 1, verdict.snat)'
      <4>1. op = "assemble" => ServiceBy(n) /\ RulesBy(n - 1, verdict.snat)
        BY <2>4 DEF By
      <4>2. op = "assemble" => RulesBy(n - 1, verdict.snat)'
        BY <1>1, <2>2, <4>1 DEF RulesBy, ExactBy, ServingBy, Emptied, Current
      <4> QED  BY <3>3, <4>1, <4>2
    <3>5. op = "site" => RulesBy(n, TRUE)'
      BY <1>1, <2>2, <2>4 DEF By, RulesBy, ExactBy, ServingBy, Emptied, Current
    <3> QED  BY <2>4, <3>2, <3>4, <3>5 DEF By
  <2> QED  BY <1>1, <1>2, <1>4, <2>2, <2>3, <2>4, StillGoing
<1> QED  BY <1>3, <1>4

LEMMA KeepsElsewhere ==
  ASSUME HostInv, Elsewhere
  PROVE  HostInv'
<1>1. PICK n \in 0 .. 2 : marks' = [marks EXCEPT !.rules = n]
  BY DEF Elsewhere
<1>2. /\ verdict' = IF HostIdle THEN NoVerdict
                    ELSE [verdict EXCEPT !.slips = @ \cup {"crossed"}]
      /\ UNCHANGED <<profile, soft, official, conf, link, unit, live, task>>
  BY DEF Elsewhere
<1>3. HostData'
  <2>1. marks' \in Counts
    BY <1>1 DEF HostInv, HostData, Counts
  <2> QED  BY <1>2, <2>1 DEF HostInv, HostData
<1>4. CASE HostIdle
  BY <1>2, <1>3, <1>4, NothingKnown
<1>5. CASE ~HostIdle
  <2>1. PICK slips : slips = verdict.slips \cup {"crossed"}
    OBVIOUS
  <2>2. slips \in SUBSET Slips /\ "crossed" \in slips
    BY <2>1 DEF HostInv, VerdictInv, Slips
  <2>3. verdict' = [op |-> verdict.op, done |-> verdict.done, snat |-> verdict.snat,
                    since |-> verdict.since, slips |-> slips]
    BY <1>2, <1>5, <2>1 DEF HostInv, VerdictInv, WholeVerdict
  <2>4. "crossed" \in verdict'.slips /\ verdict'.slips # {} /\ verdict'.since = verdict.since
    BY <2>2, <2>3
  <2>5. ASSUME NEW op \in Operations, NEW m \in Nat \ {0}, By(op, m) PROVE By(op, m)'
    <3>1. op = "assemble" => ServiceBy(m)'
      BY <1>2, <2>4, <2>5 DEF By, ServiceBy
    <3>2. RulesBy(m - 1, verdict.snat)' /\ RulesBy(m, TRUE)' /\ ClearedBy(m)'
      BY <2>4 DEF RulesBy, ClearedBy
    <3> QED  BY <3>1, <3>2 DEF By
  <2>6. profile' >= profile
    BY <1>2, FieldsOfHost
  <2> QED  BY <1>2, <1>3, <1>5, <2>2, <2>3, <2>5, <2>6, StillGoing
<1> QED  BY <1>4, <1>5

LEMMA HostNextInv == HostInv /\ [HostNext]_hostVars => HostInv'
<1> SUFFICES ASSUME HostInv, [HostNext]_hostVars PROVE HostInv'
  OBVIOUS
<1>1. CASE UNCHANGED hostVars
  BY <1>1 DEF hostVars, HostInv, HostData, TaskInv, VerdictInv, WholeTask, WholeVerdict,
     HostIdle, By, ServiceBy, RulesBy, ClearedBy, ExactBy, ServingBy, Emptied, Current
<1>2. ASSUME NEW up \in BOOLEAN, NEW service \in BOOLEAN, NEW rules \in BOOLEAN,
             NEW masq \in BOOLEAN, NEW place \in Places,
             PushConfig(up, service, rules, place, masq)
      PROVE  HostInv'
  BY <1>2, KeepsPushConfig
<1>3. ASSUME NEW masq \in BOOLEAN, Assemble(masq) PROVE HostInv'
  BY <1>3, KeepsAssemble
<1>4. CASE Probe \/ Install \/ Upload \/ Prepare \/ Enable \/ Restart \/ Stop
  BY <1>4, KeepsProbe, KeepsInstall, KeepsUpload, KeepsPrepare, KeepsEnable, KeepsRestart,
     KeepsStop
<1>5. CASE Compare \/ Unjump \/ Unmark \/ Put \/ Verify \/ CommandFails
  BY <1>5, KeepsCompare, KeepsUnjump, KeepsUnmark, KeepsPut, KeepsVerify, KeepsCommandFails
<1>6. CASE DeploySite \/ RemoveSite \/ Control("restart") \/ Control("stop")
  BY <1>6, KeepsOperation
<1>7. CASE Beside \/ Elsewhere
  BY <1>7, KeepsBeside, KeepsElsewhere
<1> QED  BY <1>1, <1>2, <1>3, <1>4, <1>5, <1>6, <1>7 DEF HostNext

\* The host of a peer keeps its types, and a verdict speaks of a profile there was.
THEOREM PeerHostTyped == HostSpec => []HostTypeOK
<1>1. HostInv => HostTypeOK
  BY DEF HostInv, HostData, VerdictInv, HostTypeOK, Counts, Units
<1> QED  BY <1>1, HostInitInv, HostNextInv, PTL DEF HostSpec

\* Whatever broke off before on the host, however commands fail and whatever happens
\* beside it, an assembly that reports success has the client running with a profile
\* no older than the centre's when it began, and each of the site's rules is there,
\* once unless a deletion was passed over; for any number of profiles.
THEOREM AssemblyServes == HostSpec => []AssembledIsServing
<1>1. HostInv => AssembledIsServing
  <2> SUFFICES ASSUME HostInv, verdict.op = "assemble", verdict.done
               PROVE  soft = "ok" /\ unit.enabled /\ live >= verdict.since
                      /\ RulesAsAsked(verdict.snat)
    BY DEF AssembledIsServing
  <2>1. ServiceBy(0) /\ RulesBy(0 - 1, verdict.snat)
    BY DEF HostInv, VerdictInv, By
  <2>2. RulesAsAsked(verdict.snat)
    BY <2>1 DEF RulesBy, ExactBy, ServingBy, RulesAsAsked, Serving
  <2> QED  BY <2>1, <2>2 DEF ServiceBy
<1> QED  BY <1>1, HostInitInv, HostNextInv, PTL DEF HostSpec

\* A deployment of the site's rules that reports success leaves them serving and one
\* of each, a removal none, except for what deletions that failed have left.
THEOREM RulesExact == HostSpec => []SiteExact
<1>1. HostInv => SiteExact
  <2> SUFFICES ASSUME HostInv, verdict.done PROVE SiteExact
    BY DEF SiteExact
  <2>1. ASSUME verdict.op = "site" PROVE RulesAsAsked(TRUE)
    <3>1. RulesBy(0, TRUE)
      BY <2>1 DEF HostInv, VerdictInv, By
    <3> QED  BY <3>1 DEF RulesBy, ExactBy, ServingBy, RulesAsAsked, Serving, Current
  <2>2. ASSUME verdict.op = "remove", verdict.slips = {} PROVE marks = NoMarks
    <3>1. ClearedBy(0)
      BY <2>2 DEF HostInv, VerdictInv, By
    <3>2. Emptied /\ marks.nats = 0
      BY <2>2, <3>1 DEF ClearedBy
    <3>3. marks.chain \in BOOLEAN
      BY DEF HostInv, HostData, Counts
    <3> QED  BY <3>2, <3>3, FieldsOfHost DEF Emptied, NoMarks
  <2> QED  BY <2>1, <2>2 DEF SiteExact
<1> QED  BY <1>1, HostInitInv, HostNextInv, PTL DEF HostSpec

(***************************************************************************)
(* RemoteChain: the rows that were pushed or fetched last are not lost      *)
(***************************************************************************)

\* Which operations overlap: fetches with pulls, and those that look at
\* _remote_push_running_peer with each other; the code keeps no others apart.
GuardedOverlap == \A S \in Together : S \subseteq Fetches \/ S \subseteq {"guarded"}

ChainSteps == {"idle", "flush", "append", "failed", "read", "fetched"}

Writing(t) == at[t] \in {"flush", "append", "failed"}

WholeFile(f) ==
    /\ f = [kept |-> f.kept, pending |-> f.pending, rows |-> f.rows, agreed |-> f.agreed]
    /\ f.agreed => f.kept

WholeWork(w) == w = [op |-> w.op, rows |-> w.rows, snap |-> w.snap, todo |-> w.todo]

Shapes ==
    /\ at \in [Tasks -> ChainSteps]
    /\ work = [t \in Tasks |-> work[t]]
    /\ \A t \in Tasks : WholeWork(work[t])
    /\ WholeFile(copy) /\ WholeFile(bak)

\* The class of a running operation is that of its step.
OpOfStep ==
    \A t \in Tasks : /\ Writing(t) => work[t].op \in {"edit", "guarded"}
                     /\ at[t] \in {"read", "fetched"} => work[t].op \in Fetches
                     /\ Writing(t) /\ work[t].op = "guarded" => running = t

\* A task that writes is alone.
OneWriter == \A t, s \in Tasks : Writing(t) /\ at[s] # "idle" => s = t

\* A write has the rows it began with in the backup before it touches the copy.
Kept(f) == f.kept /\ f.agreed

RowsSafe ==
    safe => IF \E t \in Tasks : Writing(t) THEN Kept(bak) ELSE Kept(copy) \/ Kept(bak)

ChainInv == Shapes /\ OpOfStep /\ OneWriter /\ RowsSafe

(***************************************************************************)
(* Starting                                                                *)
(***************************************************************************)
LEMMA ClassOf ==
    /\ \A op \in Edits : Class(op) = "edit"
    /\ \A op \in Guarded : Class(op) = "guarded"
    /\ \A op \in Fetches : Class(op) = op
  BY DEF Class, Edits, Guarded, Fetches

\* A write starts when nothing runs, or beside guarded operations only, and those
\* would be in its way.
LEMMA WritesAlone ==
  ASSUME GuardedOverlap, ChainInv, NEW t \in Tasks, NEW op \in Edits \cup Guarded,
         Write(t, op)
  PROVE  Busy = {}
<1>1. op \in Guarded => running = NoTask
  BY DEF Write
<1>2. Class(op) \in {"edit", "guarded"} /\ (Class(op) = "guarded" <=> op \in Guarded)
  BY ClassOf DEF Edits, Guarded
<1>3. SUFFICES ASSUME NEW S \in Together, NEW s \in Busy,
                      {Class(op)} \cup {work[u].op : u \in Busy} \subseteq S
               PROVE  FALSE
  BY DEF Write, MayStart
<1>4. S \subseteq {"guarded"}
  BY <1>2, <1>3 DEF GuardedOverlap, Fetches
<1>5. op \in Guarded /\ work[s].op = "guarded"
  BY <1>2, <1>3, <1>4
<1>6. at[s] \in ChainSteps /\ at[s] # "idle" /\ s \in Tasks
  BY DEF ChainInv, Shapes, Busy
<1>7. Writing(s)
  BY <1>5, <1>6 DEF ChainInv, OpOfStep, Writing, ChainSteps, Fetches
<1>8. running = s
  BY <1>5, <1>6, <1>7 DEF ChainInv, OpOfStep
<1> QED  BY <1>1, <1>5, <1>6, <1>8, ChainAssumption

\* A fetch starts when nobody writes.
LEMMA FetchesBeside ==
  ASSUME GuardedOverlap, ChainInv, NEW t \in Tasks, NEW op \in Fetches, Fetch(t, op)
  PROVE  \A s \in Tasks : ~Writing(s)
<1> SUFFICES ASSUME NEW s \in Tasks, Writing(s) PROVE FALSE
  OBVIOUS
<1>1. s \in Busy /\ work[s].op \in {"edit", "guarded"}
  BY DEF Writing, Busy, ChainInv, OpOfStep
<1>2. PICK S \in Together : {Class(op)} \cup {work[u].op : u \in Busy} \subseteq S
  BY <1>1 DEF Fetch, MayStart
<1>3. op \in S /\ work[s].op \in S
  BY <1>1, <1>2, ClassOf
<1> QED  BY <1>1, <1>3 DEF GuardedOverlap, Fetches

LEMMA KeepsWrite ==
  ASSUME GuardedOverlap, ChainInv, NEW t \in Tasks, NEW op \in Edits \cup Guarded,
         Write(t, op)
  PROVE  ChainInv'
<1> DEFINE c == Class(op)
<1>1. safe' = copy.agreed
  BY DEF Write
<1>2. \A s \in Tasks : at[s] = "idle"
  BY WritesAlone DEF Busy
<1>3. WholeFile(copy) /\ WholeFile(bak)
  BY DEF ChainInv, Shapes
<1>4. CASE bak' = copy /\ UNCHANGED <<copy, running, at, work>>
  <2>1. Shapes' /\ OpOfStep' /\ OneWriter'
    BY <1>3, <1>4 DEF ChainInv, Shapes, OpOfStep, OneWriter, Writing, WholeFile, WholeWork
  <2>2. RowsSafe'
    BY <1>1, <1>2, <1>3, <1>4 DEF RowsSafe, Writing, Kept, WholeFile
  <2> QED  BY <2>1, <2>2 DEF ChainInv
<1>5. ASSUME NEW rows, MarkPending(rows, copy.kept),
             work' = [work EXCEPT ![t] = [NoWork EXCEPT !.op = c, !.rows = rows]],
             at' = [at EXCEPT ![t] = "flush"],
             running' = (IF op \in Guarded THEN t ELSE running)
      PROVE  ChainInv'
  <2>1. c \in {"edit", "guarded"} /\ (c = "guarded" <=> op \in Guarded)
    BY ClassOf DEF Edits, Guarded
  <2> HIDE DEF c
  <2>2. work'[t].op = c /\ WholeWork(work'[t])
    BY <1>5 DEF ChainInv, Shapes, NoWork, WholeWork
  <2>3. Shapes'
    BY <1>5, <2>2 DEF ChainInv, Shapes, WholeFile, WholeWork, MarkPending, Pending,
       ChainSteps
  <2>4. at'[t] = "flush" /\ \A s \in Tasks \ {t} : at'[s] = "idle"
    BY <1>2, <1>5 DEF ChainInv, Shapes
  <2>5. OpOfStep'
    BY <1>5, <2>1, <2>2, <2>4 DEF OpOfStep, Writing
  <2>6. OneWriter'
    BY <2>4 DEF OneWriter, Writing
  <2>7. RowsSafe'
    BY <1>1, <1>3, <1>5, <2>4 DEF RowsSafe, Writing, Kept, MarkPending, WholeFile
  <2> QED  BY <2>3, <2>5, <2>6, <2>7 DEF ChainInv
<1> QED  BY <1>4, <1>5 DEF Write

LEMMA KeepsFetch ==
  ASSUME GuardedOverlap, ChainInv, NEW t \in Tasks, NEW op \in Fetches, Fetch(t, op)
  PROVE  ChainInv'
<1>1. \A s \in Tasks : ~Writing(s)
  BY FetchesBeside
<1>2. /\ at' = [at EXCEPT ![t] = "read"]
      /\ work' = [work EXCEPT ![t] = [NoWork EXCEPT !.op = op]]
      /\ UNCHANGED <<copy, bak, running, safe>>
  BY DEF Fetch
<1>3. work'[t].op = op /\ WholeWork(work'[t])
  BY <1>2 DEF ChainInv, Shapes, NoWork, WholeWork
<1>4. Shapes'
  BY <1>2, <1>3 DEF ChainInv, Shapes, WholeFile, WholeWork, ChainSteps
<1>5. at'[t] = "read" /\ \A s \in Tasks \ {t} : at'[s] = at[s] /\ work'[s] = work[s]
  BY <1>2 DEF ChainInv, Shapes
<1>6. \A s \in Tasks : ~Writing(s)'
  BY <1>1, <1>5 DEF Writing
<1>7. OpOfStep'
  BY <1>3, <1>5, <1>6 DEF ChainInv, OpOfStep
<1>8. OneWriter'
  BY <1>6 DEF OneWriter
<1>9. RowsSafe'
  BY <1>1, <1>2, <1>6 DEF ChainInv, RowsSafe, Kept
<1> QED  BY <1>4, <1>7, <1>8, <1>9 DEF ChainInv

(***************************************************************************)
(* Going on: the files are not touched                                     *)
(***************************************************************************)
LEMMA KeepsStep ==
  ASSUME ChainInv, NEW t \in Tasks, NEW step \in ChainSteps, at[t] # "idle",
         at' = [at EXCEPT ![t] = step], step # "idle",
         Writing(t) <=> step \in {"flush", "append", "failed"},
         work' = [s \in Tasks |-> work'[s]],
         \A s \in Tasks : WholeWork(work'[s]) /\ work'[s].op = work[s].op,
         UNCHANGED <<copy, bak, running, safe>>
  PROVE  ChainInv'
<1>1. at'[t] = step /\ \A s \in Tasks \ {t} : at'[s] = at[s]
  BY DEF ChainInv, Shapes
<1>2. \A s \in Tasks : (Writing(s)' <=> Writing(s)) /\ (at'[s] # "idle" <=> at[s] # "idle")
  BY <1>1 DEF Writing
<1>3. Shapes'
  BY DEF ChainInv, Shapes, WholeFile
<1>4. OpOfStep'
  BY <1>1, <1>2 DEF ChainInv, Shapes, OpOfStep, ChainSteps, Writing
<1>5. OneWriter'
  BY <1>2 DEF ChainInv, OneWriter
<1>6. RowsSafe'
  BY <1>2 DEF ChainInv, RowsSafe, Kept
<1> QED  BY <1>3, <1>4, <1>5, <1>6 DEF ChainInv

LEMMA SameWork ==
  ASSUME ChainInv, UNCHANGED work
  PROVE  /\ work' = [s \in Tasks |-> work'[s]]
         /\ \A s \in Tasks : WholeWork(work'[s]) /\ work'[s].op = work[s].op
  BY DEF ChainInv, Shapes, WholeWork

LEMMA SameOps ==
  ASSUME ChainInv, NEW t \in Tasks, NEW list,
         \/ work' = [work EXCEPT ![t].todo = list]
         \/ work' = [work EXCEPT ![t].snap = list]
  PROVE  /\ work' = [s \in Tasks |-> work'[s]]
         /\ \A s \in Tasks : WholeWork(work'[s]) /\ work'[s].op = work[s].op
<1>1. work' = [s \in Tasks |-> work'[s]]
      /\ \A s \in Tasks \ {t} : work'[s] = work[s]
  BY DEF ChainInv, Shapes
<1>2. \/ work'[t] = [op |-> work[t].op, rows |-> work[t].rows, snap |-> work[t].snap,
                     todo |-> list]
      \/ work'[t] = [op |-> work[t].op, rows |-> work[t].rows, snap |-> list,
                     todo |-> work[t].todo]
  <2>1. WholeWork(work[t]) /\ work = [s \in Tasks |-> work[s]]
    BY DEF ChainInv, Shapes
  <2>2. CASE work' = [work EXCEPT ![t].todo = list]
    BY <2>1, <2>2 DEF WholeWork
  <2>3. CASE work' = [work EXCEPT ![t].snap = list]
    BY <2>1, <2>3 DEF WholeWork
  <2> QED  BY <2>2, <2>3
<1>3. WholeWork(work'[t]) /\ work'[t].op = work[t].op
  BY <1>2 DEF WholeWork
<1> QED  BY <1>1, <1>3 DEF ChainInv, Shapes, WholeWork

LEMMA KeepsFlush ==
  ASSUME ChainInv, NEW t \in Tasks, Flush(t)
  PROVE  ChainInv'
<1>1. work' = [work EXCEPT ![t].todo = RestsToPush(work[t].rows)]
  BY DEF Flush, Rests
<1> QED  BY <1>1, SameOps, KeepsStep DEF Flush, ChainSteps, Writing

LEMMA KeepsAppend ==
  ASSUME ChainInv, NEW t \in Tasks, AppendRule(t)
  PROVE  ChainInv'
<1>1. work' = [work EXCEPT ![t].todo = Tail(work[t].todo)]
  BY DEF AppendRule, ChainInv, Shapes
<1>2. at' = [at EXCEPT ![t] = "append"]
  BY DEF AppendRule, ChainInv, Shapes
<1> QED  BY <1>1, <1>2, SameOps, KeepsStep DEF AppendRule, ChainSteps, Writing

LEMMA KeepsFailing ==
  ASSUME ChainInv, NEW t \in Tasks, SshFails(t)
  PROVE  ChainInv'
  BY SameWork, KeepsStep DEF SshFails, ChainSteps, Writing

(***************************************************************************)
(* Ending: what was written is settled                                     *)
(***************************************************************************)
LEMMA NoneWrites ==
  ASSUME ChainInv, NEW t \in Tasks, at[t] # "idle"
  PROVE  \A s \in Tasks \ {t} : ~Writing(s)
  BY DEF ChainInv, OneWriter

LEMMA KeepsRest ==
  ASSUME ChainInv, NEW t \in Tasks, at[t] # "idle", Rest(t),
         running' = running \/ Writing(t), WholeFile(copy)', WholeFile(bak)',
         safe' => Kept(copy)' \/ Kept(bak)'
  PROVE  ChainInv'
<1>1. at'[t] = "idle" /\ \A s \in Tasks \ {t} : at'[s] = at[s] /\ work'[s] = work[s]
  BY DEF ChainInv, Shapes, Rest
<1>2. \A s \in Tasks : ~Writing(s)'
  BY <1>1, NoneWrites DEF Writing
<1>3. work'[t] = NoWork /\ WholeWork(NoWork)
  BY DEF ChainInv, Shapes, Rest, NoWork, WholeWork
<1>4. Shapes'
  BY <1>1, <1>3 DEF ChainInv, Shapes, Rest, ChainSteps, WholeWork
<1>5. OpOfStep'
  BY <1>1, <1>2 DEF ChainInv, OpOfStep
<1>6. OneWriter' /\ RowsSafe'
  BY <1>2 DEF OneWriter, RowsSafe
<1> QED  BY <1>4, <1>5, <1>6 DEF ChainInv

LEMMA KeepsPushed ==
  ASSUME ChainInv, NEW t \in Tasks, RecordPushed(t)
  PROVE  ChainInv'
<1>1. at[t] = "append" /\ Writing(t)
  BY DEF RecordPushed, Writing
<1>2. CASE /\ copy' = Agreeing(work[t].rows) /\ bak' \in {NoFile, bak}
           /\ Rest(t) /\ Done(t)
  <2>1. WholeFile(bak)
    BY DEF ChainInv, Shapes
  <2>2. WholeFile(copy)' /\ WholeFile(bak)' /\ Kept(copy)'
    BY <1>2, <2>1 DEF WholeFile, Agreeing, NoFile, Kept
  <2> QED  BY <1>1, <1>2, <2>2, KeepsRest
<1>3. CASE /\ at' = [at EXCEPT ![t] = "failed"]
           /\ UNCHANGED <<copy, bak, running, work, safe>>
  BY <1>1, <1>3, SameWork, KeepsStep DEF ChainSteps
<1> QED  BY <1>2, <1>3 DEF RecordPushed

MarkedAs(f, one) ==
    [f EXCEPT !.pending = one] =
      [kept |-> f.kept, pending |-> one, rows |-> f.rows, agreed |-> f.agreed]

LEMMA MarkedPending ==
  ASSUME NEW f, WholeFile(f), NEW one
  PROVE  MarkedAs(f, one)
  BY DEF WholeFile, MarkedAs

LEMMA KeepsFailed ==
  ASSUME ChainInv, NEW t \in Tasks, RecordFailed(t)
  PROVE  ChainInv'
<1>1. at[t] = "failed" /\ Writing(t) /\ Rest(t) /\ UNCHANGED <<bak, safe>>
  BY DEF RecordFailed, Writing
<1>2. WholeFile(copy) /\ WholeFile(bak) /\ (safe => Kept(bak))
  BY <1>1 DEF ChainInv, Shapes, RowsSafe
<1>3. WholeFile(copy)'
  <2>1. MarkedAs(bak, TRUE)
    BY <1>2, MarkedPending
  <2>2. \/ copy' = IF bak.kept THEN [bak EXCEPT !.pending = TRUE] ELSE Pending(work[t].rows)
        \/ copy' = copy
    BY DEF RecordFailed
  <2> QED  BY <1>2, <2>1, <2>2 DEF WholeFile, Pending, MarkedAs
<1> QED  BY <1>1, <1>2, <1>3, KeepsRest DEF WholeFile, Kept

\* A task that reads has no writer beside it, so the copy is where the rows are.
LEMMA NobodyWrites ==
  ASSUME ChainInv, NEW t \in Tasks, at[t] \in {"read", "fetched"}
  PROVE  /\ at[t] # "idle" /\ \A s \in Tasks : ~Writing(s)
         /\ safe => Kept(copy) \/ Kept(bak)
<1>1. \A s \in Tasks : ~Writing(s)
  BY NoneWrites DEF Writing
<1> QED  BY <1>1 DEF ChainInv, RowsSafe

LEMMA KeepsRead ==
  ASSUME ChainInv, NEW t \in Tasks, ReadChain(t) \/ Superseded(t)
  PROVE  ChainInv'
<1>1. at[t] \in {"read", "fetched"} /\ UNCHANGED <<copy, bak, running, safe>>
  BY DEF ReadChain, Superseded
<1>2. CASE Rest(t)
  BY <1>1, <1>2, NobodyWrites, KeepsRest DEF ChainInv, Shapes, WholeFile, Kept
<1>3. CASE /\ work' = [work EXCEPT ![t].snap = chain.rules]
           /\ at' = [at EXCEPT ![t] = "fetched"]
  BY <1>1, <1>3, NobodyWrites, SameOps, KeepsStep DEF ChainSteps
<1> QED  BY <1>2, <1>3 DEF ReadChain, Superseded

LEMMA KeepsFetched ==
  ASSUME ChainInv, NEW t \in Tasks, RecordFetched(t)
  PROVE  ChainInv'
<1>1. at[t] = "fetched" /\ Rest(t) /\ running' = running
  BY DEF RecordFetched
<1>2. WholeFile(copy) /\ WholeFile(bak)
  BY DEF ChainInv, Shapes
<1>3. CASE copy' = Agreeing(SnapshotRows(work[t].snap)) /\ bak' \in {NoFile, bak}
  <2>1. WholeFile(copy)' /\ WholeFile(bak)' /\ Kept(copy)'
    BY <1>2, <1>3 DEF WholeFile, Agreeing, NoFile, Kept
  <2> QED  BY <1>1, <2>1, KeepsRest
<1>4. CASE bak' = NoFile /\ safe' = copy.agreed /\ UNCHANGED copy
  <2>1. WholeFile(copy)' /\ WholeFile(bak)' /\ (safe' => Kept(copy)')
    BY <1>2, <1>4 DEF WholeFile, NoFile, Kept
  <2> QED  BY <1>1, <2>1, KeepsRest
<1> QED  BY <1>3, <1>4 DEF RecordFetched

(***************************************************************************)
(* What happens beside the tasks                                           *)
(***************************************************************************)
LEMMA KeepsSite ==
  ASSUME ChainInv, SiteDeployed \/ SiteRemoved
  PROVE  ChainInv'
<1>1. UNCHANGED <<copy, bak, running, at, work, safe>>
  BY DEF SiteDeployed, SiteRemoved
<1> QED  BY <1>1 DEF ChainInv, Shapes, OpOfStep, OneWriter, RowsSafe, Writing, WholeFile,
            WholeWork, Kept

\* A death leaves both files as they are.
LEMMA KeepsChainCrash ==
  ASSUME ChainInv, ChainCrash
  PROVE  ChainInv'
<1>1. /\ at' = [t \in Tasks |-> "idle"] /\ work' = [t \in Tasks |-> NoWork]
      /\ UNCHANGED <<copy, bak, safe>>
  BY DEF ChainCrash
<1>2. \A t \in Tasks : at'[t] = "idle" /\ ~Writing(t)' /\ work'[t] = NoWork
  BY <1>1 DEF Writing
<1>3. Shapes'
  BY <1>1, <1>2 DEF ChainInv, Shapes, WholeFile, WholeWork, NoWork, ChainSteps
<1>4. OpOfStep' /\ OneWriter'
  BY <1>2 DEF OpOfStep, OneWriter
<1>5. RowsSafe'
  BY <1>1, <1>2 DEF ChainInv, RowsSafe, Kept
<1> QED  BY <1>3, <1>4, <1>5 DEF ChainInv

(***************************************************************************)
(* The theorem                                                             *)
(***************************************************************************)
LEMMA ChainInitInv == ChainInit => ChainInv
<1> SUFFICES ASSUME ChainInit PROVE ChainInv
  OBVIOUS
<1>1. \A t \in Tasks : at[t] = "idle" /\ work[t] = NoWork
  BY DEF ChainInit
<1>2. Shapes
  BY <1>1 DEF ChainInit, Shapes, WholeFile, WholeWork, NoWork, NoFile, ChainSteps
<1> QED  BY <1>1, <1>2 DEF ChainInit, ChainInv, OpOfStep, OneWriter, RowsSafe, Writing

LEMMA ChainNextInv ==
  ASSUME GuardedOverlap, ChainInv, [ChainNext]_chainVars
  PROVE  ChainInv'
<1>1. CASE UNCHANGED chainVars
  BY <1>1 DEF chainVars, ChainInv, Shapes, OpOfStep, OneWriter, RowsSafe, Writing,
     WholeFile, WholeWork, Kept
<1>2. ASSUME NEW t \in Tasks, ChainTask(t)
      PROVE  ChainInv'
  BY <1>2, KeepsFlush, KeepsAppend, KeepsFailing, KeepsPushed, KeepsFailed, KeepsRead,
     KeepsFetched DEF ChainTask
<1>3. ASSUME NEW t \in Tasks, NEW op \in Edits \cup Guarded, Write(t, op)
      PROVE  ChainInv'
  BY <1>3, KeepsWrite
<1>4. ASSUME NEW t \in Tasks, NEW op \in Fetches, Fetch(t, op)
      PROVE  ChainInv'
  BY <1>4, KeepsFetch
<1>5. CASE SiteDeployed \/ SiteRemoved
  BY <1>5, KeepsSite
<1>6. CASE ChainCrash
  BY <1>6, KeepsChainCrash
<1> QED  BY <1>1, <1>2, <1>3, <1>4, <1>5, <1>6 DEF ChainNext

\* The rows that were pushed or fetched last, when a write begins with them, are in
\* the working copy or in its backup until a write succeeds, wherever the disk, the
\* connection or the service fails, as long as only those operations overlap that look
\* at _remote_push_running_peer, or fetches.
THEOREM AgreedRowsSurvive ==
  ASSUME GuardedOverlap
  PROVE  ChainSpec => []AgreedRowsKept
<1>1. ChainInv => AgreedRowsKept
  BY DEF ChainInv, RowsSafe, Kept, AgreedRowsKept
<1>2. ChainInv /\ [ChainNext]_chainVars => ChainInv'
  BY ChainNextInv
<1> QED  BY <1>1, <1>2, ChainInitInv, PTL DEF ChainSpec

(***************************************************************************)
(* RemoteChain: types                                                      *)
(***************************************************************************)

ChainTypes ==
    /\ chain \in [exists : BOOLEAN, rules : Seq(Rules)] /\ Len(chain.rules) <= MaxRows
    /\ copy \in Files /\ bak \in Files
    /\ running \in Tasks \cup {NoTask}
    /\ astray \subseteq {"unflushed", "deployed"}
    /\ \A t \in Tasks : /\ work[t].rows \in Rows
                        /\ work[t].op \in Classes \cup {"none"}

LEMMA RowsAre ==
  ASSUME NEW rows
  PROVE  rows \in Rows <=> rows \in Seq(Row) /\ Len(rows) <= MaxRows
<1>0. MaxRows \in Nat
  BY ChainAssumption
<1>1. ASSUME rows \in Rows PROVE rows \in Seq(Row) /\ Len(rows) <= MaxRows
  <2>1. PICK n \in 0 .. MaxRows : rows \in [1 .. n -> Row]
    BY <1>1 DEF Rows
  <2>2. n \in Nat /\ n <= MaxRows
    BY <1>0
  <2> QED  BY <2>1, <2>2
<1>2. ASSUME rows \in Seq(Row), Len(rows) <= MaxRows PROVE rows \in Rows
  <2>1. Len(rows) \in 0 .. MaxRows /\ rows \in [1 .. Len(rows) -> Row]
    BY <1>0, <1>2
  <2> QED  BY <2>1 DEF Rows
<1> QED  BY <1>1, <1>2

LEMMA ListsAre ==
  ASSUME NEW l
  PROVE  l \in Lists <=> l \in Seq(Rules) /\ Len(l) <= MaxRows
<1>0. MaxRows \in Nat
  BY ChainAssumption
<1>1. ASSUME l \in Lists PROVE l \in Seq(Rules) /\ Len(l) <= MaxRows
  <2>1. PICK n \in 0 .. MaxRows : l \in [1 .. n -> Rules]
    BY <1>1 DEF Lists
  <2>2. n \in Nat /\ n <= MaxRows
    BY <1>0
  <2> QED  BY <2>1, <2>2
<1>2. ASSUME l \in Seq(Rules), Len(l) <= MaxRows PROVE l \in Lists
  <2>1. Len(l) \in 0 .. MaxRows /\ l \in [1 .. Len(l) -> Rules]
    BY <1>0, <1>2
  <2> QED  BY <2>1 DEF Lists
<1> QED  BY <1>1, <1>2

\* The rules of a chain, all as rows that are enabled, and back.
LEMMA AllOnRows ==
  ASSUME NEW l \in Seq(Rules)
  PROVE  /\ AllOn(l) \in Seq(Row) /\ Len(AllOn(l)) = Len(l)
         /\ \A i \in 1 .. Len(l) : AllOn(l)[i].on /\ AllOn(l)[i].rule = l[i]
<1>1. Len(l) \in Nat /\ DOMAIN l = 1 .. Len(l) /\ \A i \in 1 .. Len(l) : l[i] \in Rules
  OBVIOUS
<1>2. AllOn(l) \in [1 .. Len(l) -> Row]
  BY <1>1 DEF AllOn, Row
<1>3. AllOn(l) \in Seq(Row) /\ Len(AllOn(l)) = Len(l)
  BY <1>1, <1>2
<1> QED  BY <1>1, <1>3 DEF AllOn

LEMMA PushedRules ==
  ASSUME NEW rows \in Seq(Row)
  PROVE  RestsToPush(rows) \in Seq(Rules) /\ Len(RestsToPush(rows)) <= Len(rows)
<1> DEFINE I == {i \in DOMAIN rows : rows[i].on}
           u == Subsequence(rows, I)
<1>1. Len(rows) \in Nat /\ DOMAIN rows = 1 .. Len(rows)
  OBVIOUS
<1>2. u \in Seq(Row) /\ Cardinality(I) \in Nat /\ Len(u) = Cardinality(I)
  BY SubsequenceIs
<1>3. Cardinality(I) <= Len(rows)
  <2>1. 1 \in Int /\ Len(rows) \in Int
    BY <1>1
  <2>2. IsFiniteSet(1 .. Len(rows)) /\ Cardinality(1 .. Len(rows)) = Len(rows)
    BY <1>1, <2>1, FS_Interval
  <2> QED  BY <1>1, <2>2, FS_Subset
<1>4. RestsToPush(rows) = [i \in DOMAIN u |-> u[i].rule]
  BY DEF RestsToPush
<1> HIDE DEF u, I
<1>5. DOMAIN u = 1 .. Len(u) /\ \A i \in 1 .. Len(u) : u[i].rule \in Rules
  <2>1. DOMAIN u = 1 .. Len(u) /\ \A i \in 1 .. Len(u) : u[i] \in Row
    BY <1>2
  <2> QED  BY <2>1 DEF Row
<1>6. RestsToPush(rows) \in [1 .. Len(u) -> Rules]
  BY <1>4, <1>5
<1>7. Len(u) \in Nat /\ Len(u) <= Len(rows)
  BY <1>2, <1>3
<1> QED  BY <1>6, <1>7

LEMMA PushedBack ==
  ASSUME NEW l \in Seq(Rules)
  PROVE  RestsToPush(AllOn(l)) = l
<1> DEFINE rows == AllOn(l)
<1>1. /\ rows \in Seq(Row) /\ Len(rows) = Len(l)
      /\ \A i \in 1 .. Len(l) : rows[i].on /\ rows[i].rule = l[i]
  BY AllOnRows
<1> HIDE DEF rows
<1>2. DOMAIN rows = 1 .. Len(l) /\ {i \in DOMAIN rows : rows[i].on} = DOMAIN rows
  <2>1. DOMAIN rows = 1 .. Len(l)
    BY <1>1
  <2> QED  BY <1>1, <2>1
<1>3. Subsequence(rows, {i \in DOMAIN rows : rows[i].on}) = rows
  BY <1>1, <1>2, WholeSubsequence
<1>4. RestsToPush(rows) = [i \in DOMAIN rows |-> rows[i].rule]
  BY <1>3 DEF RestsToPush
<1>5. RestsToPush(rows) = [i \in 1 .. Len(l) |-> l[i]]
  BY <1>1, <1>2, <1>4
<1>6. RestsToPush(rows) = l
  BY <1>5
<1> QED  BY <1>6 DEF rows

LEMMA EditsAre ==
  ASSUME NEW rows
  PROVE  /\ \A new \in RawEdit(rows) : \E i \in DOMAIN rows, r \in Rules, e \in BOOLEAN :
               new = ReplaceAt(rows, i, [rule |-> r, on |-> e])
         /\ \A new \in Block(rows) : \E i \in DOMAIN rows, r \in Rules :
               new = ReplaceAt(rows, i, [rule |-> r, on |-> rows[i].on])
         /\ \A new \in Switched(rows) : \E T \in SUBSET DOMAIN rows, e \in BOOLEAN :
               new = [i \in DOMAIN rows |-> IF i \in T THEN [rows[i] EXCEPT !.on = e] ELSE rows[i]]
<1>1. ASSUME NEW new \in RawEdit(rows)
      PROVE  \E i \in DOMAIN rows, r \in Rules, e \in BOOLEAN :
               new = ReplaceAt(rows, i, [rule |-> r, on |-> e])
  BY DEF RawEdit
<1>2. ASSUME NEW new \in Block(rows)
      PROVE  \E i \in DOMAIN rows, r \in Rules :
               new = ReplaceAt(rows, i, [rule |-> r, on |-> rows[i].on])
  BY DEF Block
<1>3. ASSUME NEW new \in Switched(rows)
      PROVE  \E T \in SUBSET DOMAIN rows, e \in BOOLEAN :
               new = [i \in DOMAIN rows |-> IF i \in T THEN [rows[i] EXCEPT !.on = e] ELSE rows[i]]
  BY DEF Switched
<1> QED  BY <1>1, <1>2, <1>3

\* What an operation makes of the rows is rows again, if they are not too many.
LEMMA OutcomesAreRows ==
  ASSUME NEW op \in Edits \cup Guarded, NEW rows \in Rows, NEW new \in Outcomes(op, rows),
         Len(new) <= MaxRows
  PROVE  new \in Rows
<1>1. rows \in Seq(Row) /\ Len(rows) \in Nat /\ DOMAIN rows = 1 .. Len(rows)
  BY RowsAre
<1> SUFFICES new \in Seq(Row)
  BY RowsAre
<1>2. CASE op \in {"raw", "block"}
  <2>1. PICK i \in DOMAIN rows, r \in Row : new = [rows EXCEPT ![i] = r]
    <3>1. CASE op = "raw"
      <4>1. PICK i \in DOMAIN rows, r \in Rules, e \in BOOLEAN :
              new = ReplaceAt(rows, i, [rule |-> r, on |-> e])
        <5>1. new \in RawEdit(rows)
          BY <3>1 DEF Outcomes
        <5> QED  BY <5>1, EditsAre
      <4>2. [rule |-> r, on |-> e] \in Row
        BY DEF Row
      <4> QED  BY <4>1, <4>2 DEF ReplaceAt
    <3>2. CASE op = "block"
      <4>1. PICK i \in DOMAIN rows, r \in Rules :
              new = ReplaceAt(rows, i, [rule |-> r, on |-> rows[i].on])
        <5>1. new \in Block(rows)
          BY <3>2 DEF Outcomes
        <5> QED  BY <5>1, EditsAre
      <4>2. rows[i] \in Row
        BY <1>1
      <4>3. [rule |-> r, on |-> rows[i].on] \in Row
        BY <4>2 DEF Row
      <4> QED  BY <4>1, <4>3 DEF ReplaceAt
    <3> QED  BY <1>2, <3>1, <3>2
  <2> QED  BY <1>1, <2>1
<1>3. CASE op = "insert"
  <2>1. PICK i \in 1 .. Len(rows) + 1, r \in Row : new = InsertAt(rows, i, r)
    <3>1. PICK i \in 1 .. Len(rows) + 1, r \in Rules, e \in BOOLEAN :
            new = InsertAt(rows, i, [rule |-> r, on |-> e])
      BY <1>3 DEF Outcomes, Inserted
    <3>2. [rule |-> r, on |-> e] \in Row
      BY DEF Row
    <3> QED  BY <3>1, <3>2
  <2>2. SubSeq(rows, 1, i - 1) \in Seq(Row) /\ SubSeq(rows, i, Len(rows)) \in Seq(Row)
    BY <1>1
  <2> QED  BY <2>1, <2>2 DEF InsertAt
<1>4. CASE op = "delete"
  <2>1. PICK i \in DOMAIN rows : new = RemoveAt(rows, i)
    BY <1>4 DEF Outcomes, Deleted
  <2>2. SubSeq(rows, 1, i - 1) \in Seq(Row) /\ SubSeq(rows, i + 1, Len(rows)) \in Seq(Row)
    BY <1>1
  <2> QED  BY <2>1, <2>2 DEF RemoveAt
<1>5. CASE op = "toggle"
  <2>1. PICK i \in DOMAIN rows : new = [rows EXCEPT ![i].on = ~@]
    BY <1>5 DEF Outcomes, Toggled
  <2>2. rows[i] \in Row
    BY <1>1
  <2>3. [rows[i] EXCEPT !.on = ~@] \in Row
    BY <2>2 DEF Row
  <2> QED  BY <1>1, <2>1, <2>3
<1>6. CASE op = "reorder"
  <2>1. PICK f \in [DOMAIN rows -> DOMAIN rows] : new = [i \in DOMAIN rows |-> rows[f[i]]]
    BY <1>6 DEF Outcomes, Reordered
  <2>2. new \in [1 .. Len(rows) -> Row]
    BY <1>1, <2>1
  <2> QED  BY <1>1, <2>2
<1>7. CASE op \in {"paste", "import"}
  <2>1. PICK l \in Lists : new = AllOn(l)
    BY <1>7 DEF Outcomes, Pasted
  <2> QED  BY <2>1, ListsAre, AllOnRows
<1>8. CASE op = "drop"
  <2>1. PICK T \in SUBSET DOMAIN rows : new = Subsequence(rows, DOMAIN rows \ T)
    BY <1>8 DEF Outcomes, Dropped
  <2> QED  BY <1>1, <2>1, SubsequenceIs
<1>9. CASE op = "switch"
  <2>1. PICK T \in SUBSET DOMAIN rows, e \in BOOLEAN :
          new = [i \in DOMAIN rows |-> IF i \in T THEN [rows[i] EXCEPT !.on = e] ELSE rows[i]]
    <3>1. new \in Switched(rows)
      BY <1>9 DEF Outcomes
    <3>2. \A u \in Switched(rows) : \E T \in SUBSET DOMAIN rows, e \in BOOLEAN :
            u = [i \in DOMAIN rows |-> IF i \in T THEN [rows[i] EXCEPT !.on = e] ELSE rows[i]]
      BY EditsAre
    <3> QED  BY <3>1, <3>2, Zenon
  <2>2. \A i \in 1 .. Len(rows) : rows[i] \in Row /\ [rows[i] EXCEPT !.on = e] \in Row
    <3>1. \A i \in 1 .. Len(rows) : rows[i] \in Row
      BY <1>1
    <3> QED  BY <3>1 DEF Row
  <2>3. new \in [1 .. Len(rows) -> Row]
    BY <1>1, <2>1, <2>2
  <2> QED  BY <1>1, <2>3
<1>10. CASE op = "push"
  BY <1>1, <1>10 DEF Outcomes
<1> QED
  BY <1>2, <1>3, <1>4, <1>5, <1>6, <1>7, <1>8, <1>9, <1>10 DEF Edits, Guarded

(***************************************************************************)
(* RemoteChain: a copy that is not pending is what the peer runs           *)
(***************************************************************************)

\* While a chain is filled, what is there and what is still to come make up the rows
\* of the write; what a fetch has read is what the chain holds.
\* Where -F failed, a list stands before them.
Holds(rules, rows, marked) ==
    IF "unflushed" \in marked
    THEN \E old \in Lists : rules = old \o RestsToPush(rows)
    ELSE rules = RestsToPush(rows)

Filling(t) ==
    /\ work[t].todo \in Seq(Rules)
    /\ Holds(chain.rules \o work[t].todo, work[t].rows, astray)
    /\ Len(chain.rules \o work[t].todo) <= MaxRows

InHand ==
    \A t \in Tasks :
        /\ at[t] = "append" => Filling(t)
        /\ at[t] = "fetched" => work[t].snap = chain.rules

SaysTheTruth ==
    copy.kept /\ ~copy.pending /\ "deployed" \notin astray
        => Holds(chain.rules, copy.rows, astray)

CopyTrue == IF \E t \in Tasks : Writing(t) THEN copy.pending ELSE SaysTheTruth

TruthInv == ChainTypes /\ InHand /\ CopyTrue

LEMMA NoFileTyped == NoFile \in Files /\ NoWork.rows \in Rows /\ NoWork.op \in Classes \cup {"none"}
<1>1. MaxRows \in Nat
  BY ChainAssumption
<1>2. <<>> \in Seq(Row) /\ Len(<<>>) <= MaxRows
  BY <1>1
<1>3. <<>> \in Rows
  BY <1>2, RowsAre
<1> QED  BY <1>3 DEF NoFile, Files, NoWork

LEMMA MarkedTyped ==
  ASSUME NEW rows \in Rows
  PROVE  Pending(rows) \in Files /\ Agreeing(rows) \in Files
  BY DEF Pending, Agreeing, Files

LEMMA ClassTyped == \A op \in Edits \cup Guarded \cup Fetches : Class(op) \in Classes
  BY ClassOf DEF Classes, Fetches

\* Only the step of one task changes, and it writes as before.
LEMMA TruthStep ==
  ASSUME ChainInv, TruthInv, NEW t \in Tasks, NEW step \in ChainSteps, at[t] # "idle",
         at' = [at EXCEPT ![t] = step],
         Writing(t) <=> step \in {"flush", "append", "failed"},
         \A s \in Tasks : work'[s].rows = work[s].rows /\ work'[s].op = work[s].op,
         \A s \in Tasks \ {t} : work'[s] = work[s],
         chain' \in [exists : BOOLEAN, rules : Seq(Rules)], Len(chain'.rules) <= MaxRows,
         (chain' = chain /\ astray' = astray) \/ Writing(t),
         step = "append" => Filling(t)',
         step = "fetched" => work'[t].snap = chain'.rules,
         astray' \subseteq {"unflushed", "deployed"}, UNCHANGED <<copy, bak, running>>
  PROVE  TruthInv'
<1>1. at'[t] = step /\ \A s \in Tasks \ {t} : at'[s] = at[s]
  BY DEF ChainInv, Shapes
<1>2. \A s \in Tasks : Writing(s)' <=> Writing(s)
  BY <1>1 DEF Writing
<1>3. ChainTypes'
  BY DEF TruthInv, ChainTypes
<1>4. ASSUME NEW s \in Tasks
      PROVE  /\ at'[s] = "append" => Filling(s)'
             /\ at'[s] = "fetched" => work'[s].snap = chain'.rules
  <2>1. CASE s = t
    BY <1>1, <2>1
  <2>2. CASE s # t
    <3>1. at'[s] = at[s] /\ work'[s] = work[s]
      BY <1>1, <2>2
    <3>2. at[s] # "idle" => chain' = chain /\ astray' = astray
      BY <2>2 DEF ChainInv, OneWriter
    <3>3. /\ at[s] = "append" => Filling(s)
          /\ at[s] = "fetched" => work[s].snap = chain.rules
      BY DEF TruthInv, InHand
    <3>4. at[s] = "append" => Filling(s)'
      <4> SUFFICES ASSUME at[s] = "append"
                   PROVE  Filling(s)'
        OBVIOUS
      <4>1. chain' = chain /\ astray' = astray /\ work'[s] = work[s] /\ Filling(s)
        BY <3>1, <3>2, <3>3
      <4> QED  BY <4>1 DEF Filling, Holds
    <3> QED  BY <3>1, <3>2, <3>3, <3>4
  <2> QED  BY <2>1, <2>2
<1>5. InHand'
  BY <1>4 DEF InHand
<1>6. CopyTrue'
  <2>1. CASE \E s \in Tasks : Writing(s)
    BY <1>2, <2>1 DEF TruthInv, CopyTrue
  <2>2. CASE \A s \in Tasks : ~Writing(s)
    BY <1>2, <2>2 DEF TruthInv, CopyTrue, SaysTheTruth, Holds
  <2> QED  BY <2>1, <2>2
<1> QED  BY <1>3, <1>5, <1>6 DEF TruthInv

\* A task ends; nobody writes any more.
LEMMA TruthRest ==
  ASSUME ChainInv, TruthInv, NEW t \in Tasks, at[t] # "idle", Rest(t),
         copy' \in Files, bak' \in Files, running' \in Tasks \cup {NoTask},
         astray' \subseteq {"unflushed", "deployed"}, chain' = chain,
         astray' = astray \/ (\A s \in Tasks \ {t} : at[s] # "append"), SaysTheTruth'
  PROVE  TruthInv'
<1>1. /\ at'[t] = "idle" /\ work'[t] = NoWork
      /\ \A s \in Tasks \ {t} : at'[s] = at[s] /\ work'[s] = work[s]
  BY DEF ChainInv, Shapes, Rest
<1>2. \A s \in Tasks : ~Writing(s)'
  BY <1>1, NoneWrites DEF Writing
<1>3. ChainTypes'
  BY <1>1, NoFileTyped DEF TruthInv, ChainTypes
<1>4. InHand'
  BY <1>1 DEF TruthInv, InHand, Filling, Holds
<1>5. CopyTrue'
  BY <1>2 DEF CopyTrue
<1> QED  BY <1>3, <1>4, <1>5 DEF TruthInv

LEMMA TruthWrite ==
  ASSUME GuardedOverlap, ChainInv, TruthInv, NEW t \in Tasks, NEW op \in Edits \cup Guarded,
         Write(t, op)
  PROVE  TruthInv'
<1> DEFINE c == Class(op)
<1>1. UNCHANGED <<chain, astray>>
  BY DEF Write
<1>2. \A s \in Tasks : at[s] = "idle"
  BY WritesAlone DEF Busy
<1>3. copy \in Files /\ copy.rows \in Rows /\ bak \in Files
  BY DEF TruthInv, ChainTypes, Files
<1>4. CASE bak' = copy /\ UNCHANGED <<copy, running, at, work>>
  <2>1. ChainTypes'
    BY <1>1, <1>3, <1>4 DEF TruthInv, ChainTypes
  <2>2. InHand' /\ CopyTrue'
    BY <1>1, <1>2, <1>4 DEF TruthInv, InHand, CopyTrue, SaysTheTruth, Holds, Writing
  <2> QED  BY <2>1, <2>2 DEF TruthInv
<1>5. ASSUME NEW rows \in Outcomes(op, copy.rows), Len(rows) <= MaxRows,
             MarkPending(rows, copy.kept),
             work' = [work EXCEPT ![t] = [NoWork EXCEPT !.op = c, !.rows = rows]],
             at' = [at EXCEPT ![t] = "flush"],
             running' = (IF op \in Guarded THEN t ELSE running)
      PROVE  TruthInv'
  <2>1. rows \in Rows
    BY <1>3, <1>5, OutcomesAreRows
  <2>2. copy' = Pending(rows) /\ bak' \in {copy, bak}
    BY <1>5 DEF MarkPending
  <2>3. copy' \in Files /\ bak' \in Files /\ copy'.pending
    BY <1>3, <2>1, <2>2, MarkedTyped DEF Pending
  <2>4. c \in Classes
    BY ClassTyped
  <2> HIDE DEF c
  <2>5. work'[t].op = c /\ work'[t].rows = rows /\ \A s \in Tasks \ {t} : work'[s] = work[s]
    BY <1>5 DEF ChainInv, Shapes, NoWork
  <2>6. at'[t] = "flush" /\ \A s \in Tasks \ {t} : at'[s] = "idle"
    BY <1>2, <1>5 DEF ChainInv, Shapes
  <2>7. running' \in {t, running}
    BY <1>5
  <2>8. ChainTypes'
    BY <1>1, <2>1, <2>3, <2>4, <2>5, <2>7 DEF TruthInv, ChainTypes
  <2>9. InHand'
    BY <2>6 DEF InHand
  <2>10. CopyTrue'
    BY <2>3, <2>6 DEF CopyTrue, Writing
  <2> QED  BY <2>8, <2>9, <2>10 DEF TruthInv
<1> QED  BY <1>4, <1>5 DEF Write

LEMMA TruthFetch ==
  ASSUME GuardedOverlap, ChainInv, TruthInv, NEW t \in Tasks, NEW op \in Fetches, Fetch(t, op)
  PROVE  TruthInv'
<1>1. \A s \in Tasks : ~Writing(s)
  BY FetchesBeside
<1>2. /\ at' = [at EXCEPT ![t] = "read"]
      /\ work' = [work EXCEPT ![t] = [NoWork EXCEPT !.op = op]]
      /\ UNCHANGED <<chain, copy, bak, running, astray>>
  BY DEF Fetch
<1>3. work'[t].op = op /\ work'[t].rows = NoWork.rows
      /\ at'[t] = "read" /\ \A s \in Tasks \ {t} : at'[s] = at[s] /\ work'[s] = work[s]
  BY <1>2 DEF ChainInv, Shapes, NoWork
<1>4. op \in Classes
  BY DEF Classes
<1>5. ChainTypes'
  BY <1>2, <1>3, <1>4, NoFileTyped DEF TruthInv, ChainTypes
<1>6. InHand'
  BY <1>2, <1>3 DEF TruthInv, InHand, Filling, Holds
<1>7. CopyTrue'
  <2>1. \A s \in Tasks : ~Writing(s)'
    BY <1>1, <1>3 DEF Writing
  <2>2. SaysTheTruth'
    BY <1>1, <1>2 DEF TruthInv, CopyTrue, SaysTheTruth, Holds
  <2> QED  BY <2>1, <2>2 DEF CopyTrue
<1> QED  BY <1>5, <1>6, <1>7 DEF TruthInv

\* The chain is emptied, or is not, and all of the rows are still to come.
LEMMA TruthFlush ==
  ASSUME ChainInv, TruthInv, NEW t \in Tasks, Flush(t)
  PROVE  TruthInv'
<1> PICK new : new = RestsToPush(work[t].rows)
  OBVIOUS
<1>1. /\ at[t] = "flush"
      /\ work' = [work EXCEPT ![t].todo = new]
      /\ at' = [at EXCEPT ![t] = "append"]
      /\ UNCHANGED <<copy, bak, running>>
  BY DEF Flush, Rests
<1>2. /\ chain \in [exists : BOOLEAN, rules : Seq(Rules)] /\ work[t].rows \in Rows
      /\ MaxRows \in Nat /\ Len(chain.rules) <= MaxRows
      /\ astray \subseteq {"unflushed", "deployed"}
  BY ChainAssumption DEF TruthInv, ChainTypes
<1>3. new \in Seq(Rules) /\ Len(new) <= MaxRows
  <2>1. work[t].rows \in Seq(Row) /\ Len(work[t].rows) <= MaxRows
    BY <1>2, RowsAre
  <2>2. new \in Seq(Rules) /\ Len(new) <= Len(work[t].rows)
    BY <2>1, PushedRules
  <2> QED  BY <1>2, <2>1, <2>2
<1>4. \A s \in Tasks \ {t} : work'[s] = work[s]
  BY <1>1 DEF ChainInv, Shapes
<1>5. work'[t].todo = new /\ work'[t].rows = work[t].rows /\ work'[t].op = work[t].op
  BY <1>1 DEF ChainInv, Shapes, WholeWork
<1>6. \A s \in Tasks : work'[s].rows = work[s].rows /\ work'[s].op = work[s].op
  BY <1>4, <1>5
<1>7. /\ chain' \in [exists : BOOLEAN, rules : Seq(Rules)] /\ Len(chain'.rules) <= MaxRows
      /\ astray' \subseteq {"unflushed", "deployed"} /\ Filling(t)'
  <2>1. CASE chain' = [chain EXCEPT !.rules = <<>>] /\ astray' = astray \ {"unflushed"}
    <3>1. <<>> \in Seq(Rules) /\ Len(<<>>) = 0
      OBVIOUS
    <3>2. chain' \in [exists : BOOLEAN, rules : Seq(Rules)] /\ chain'.rules = <<>>
      BY <1>2, <2>1, <3>1
    <3>3. chain'.rules \o new = new /\ Len(chain'.rules) <= MaxRows
      BY <1>2, <1>3, <3>1, <3>2
    <3>4. Holds(new, work[t].rows, astray')
      BY <2>1 DEF Holds
    <3>5. Filling(t)'
      BY <1>3, <1>5, <3>3, <3>4 DEF Filling
    <3> QED  BY <1>2, <2>1, <3>2, <3>3, <3>5
  <2>2. CASE /\ Len(chain.rules) + Len(new) <= MaxRows
             /\ astray' = astray \cup {"unflushed"} /\ UNCHANGED chain
    <3>1. chain.rules \in Seq(Rules) /\ chain.rules \in Lists
      BY <1>2, ListsAre
    <3>2. Len(chain.rules \o new) = Len(chain.rules) + Len(new)
      BY <1>3, <3>1
    <3>3. Holds(chain.rules \o new, work[t].rows, astray')
      BY <2>2, <3>1 DEF Holds
    <3>4. Filling(t)'
      BY <1>3, <1>5, <2>2, <3>2, <3>3 DEF Filling
    <3> QED  BY <1>2, <2>2, <3>4
  <2> QED  BY <2>1, <2>2 DEF Flush, Rests
<1> QED  BY <1>1, <1>4, <1>6, <1>7, TruthStep DEF ChainSteps, Writing

OneRuleOver(old, todo) ==
    /\ Append(old, Head(todo)) \in Seq(Rules) /\ Tail(todo) \in Seq(Rules)
    /\ Append(old, Head(todo)) \o Tail(todo) = old \o todo
    /\ Len(Append(old, Head(todo))) <= MaxRows

LEMMA MovedOver ==
  ASSUME NEW u \in Seq(Rules), NEW v \in Seq(Rules), v # <<>>, Len(u \o v) <= MaxRows
  PROVE  OneRuleOver(u, v)
  BY ChainAssumption DEF OneRuleOver

LEMMA TodoIs ==
  ASSUME ChainInv, NEW t \in Tasks, NEW list, work' = [work EXCEPT ![t].todo = list]
  PROVE  /\ work'[t].todo = list /\ work'[t].rows = work[t].rows /\ work'[t].op = work[t].op
         /\ \A s \in Tasks \ {t} : work'[s] = work[s]
  BY DEF ChainInv, Shapes, WholeWork

\* One rule more is in the chain, and one less to come.
LEMMA OneRuleMore ==
  ASSUME TruthInv, NEW t \in Tasks, at[t] = "append", work[t].todo # <<>>,
         chain' = [chain EXCEPT !.rules = Append(@, Head(work[t].todo))]
  PROVE  /\ chain' \in [exists : BOOLEAN, rules : Seq(Rules)] /\ Len(chain'.rules) <= MaxRows
         /\ Tail(work[t].todo) \in Seq(Rules)
         /\ chain'.rules \o Tail(work[t].todo) = chain.rules \o work[t].todo
<1> PICK old : old = chain.rules
  OBVIOUS
<1> PICK todo : todo = work[t].todo
  OBVIOUS
<1>1. chain \in [exists : BOOLEAN, rules : Seq(Rules)] /\ MaxRows \in Nat
  BY ChainAssumption DEF TruthInv, ChainTypes
<1>2. Filling(t)
  BY DEF TruthInv, InHand
<1>3. old \in Seq(Rules)
  BY <1>1
<1>4. todo \in Seq(Rules) /\ Len(old \o todo) <= MaxRows
  BY <1>2 DEF Filling
<1>5. todo # <<>>
  OBVIOUS
<1>6. OneRuleOver(old, todo)
  <2>1. todo \in Seq(Rules)
    BY <1>4
  <2>2. Len(old \o todo) <= MaxRows
    BY <1>4
  <2> QED  BY <1>3, <1>5, <2>1, <2>2, MovedOver
<1>7. chain' = [chain EXCEPT !.rules = Append(old, Head(todo))]
  OBVIOUS
<1>8. chain'.rules = Append(old, Head(todo))
      /\ chain' \in [exists : BOOLEAN, rules : Seq(Rules)]
  BY <1>1, <1>6, <1>7 DEF OneRuleOver
<1> QED  BY <1>6, <1>8 DEF OneRuleOver

LEMMA TruthAppend ==
  ASSUME ChainInv, TruthInv, NEW t \in Tasks, AppendRule(t)
  PROVE  TruthInv'
<1> PICK todo : todo = work[t].todo
  OBVIOUS
<1>1. /\ at[t] = "append" /\ todo # <<>>
      /\ chain' = [chain EXCEPT !.rules = Append(@, Head(work[t].todo))]
      /\ work' = [work EXCEPT ![t].todo = Tail(todo)]
      /\ UNCHANGED <<copy, bak, running, at, astray>>
  BY DEF AppendRule, ChainInv, Shapes
<1>2. /\ chain' \in [exists : BOOLEAN, rules : Seq(Rules)] /\ Len(chain'.rules) <= MaxRows
      /\ Tail(todo) \in Seq(Rules)
      /\ chain'.rules \o Tail(todo) = chain.rules \o todo
  BY <1>1, OneRuleMore
<1>3. work'[t].todo = Tail(todo) /\ work'[t].rows = work[t].rows /\ work'[t].op = work[t].op
      /\ \A s \in Tasks \ {t} : work'[s] = work[s]
  BY <1>1, TodoIs
<1>4. Filling(t)'
  <2>1. Holds(chain.rules \o todo, work[t].rows, astray) /\ Len(chain.rules \o todo) <= MaxRows
    BY <1>1 DEF TruthInv, InHand, Filling
  <2> QED  BY <1>1, <1>2, <1>3, <2>1 DEF Filling
<1>5. at' = [at EXCEPT ![t] = "append"]
  BY <1>1 DEF ChainInv, Shapes
<1>6. \A s \in Tasks : work'[s].rows = work[s].rows /\ work'[s].op = work[s].op
  BY <1>3
<1>7. astray' \subseteq {"unflushed", "deployed"}
  BY <1>1 DEF TruthInv, ChainTypes
<1> QED
  BY <1>1, <1>2, <1>3, <1>4, <1>5, <1>6, <1>7, TruthStep DEF ChainSteps, Writing

LEMMA TruthFailing ==
  ASSUME ChainInv, TruthInv, NEW t \in Tasks, SshFails(t)
  PROVE  TruthInv'
<1>1. /\ at[t] \in {"flush", "append"} /\ at' = [at EXCEPT ![t] = "failed"]
      /\ UNCHANGED <<copy, bak, running, work, astray>>
  BY DEF SshFails
<1>2. chain \in [exists : BOOLEAN, rules : Seq(Rules)] /\ Len(chain.rules) <= MaxRows
      /\ astray \subseteq {"unflushed", "deployed"} /\ MaxRows \in Nat
  BY ChainAssumption DEF TruthInv, ChainTypes
<1>3. chain' \in [exists : BOOLEAN, rules : Seq(Rules)] /\ Len(chain'.rules) <= MaxRows
  <2>1. CASE at[t] = "append" /\ work[t].todo # <<>>
             /\ chain' = [chain EXCEPT !.rules = Append(@, Head(work[t].todo))]
    BY <2>1, OneRuleMore
  <2>2. CASE chain' = [chain EXCEPT !.rules = <<>>]
    <3>1. <<>> \in Seq(Rules) /\ Len(<<>>) = 0
      OBVIOUS
    <3>2. chain' \in [exists : BOOLEAN, rules : Seq(Rules)] /\ chain'.rules = <<>>
      BY <1>2, <2>2, <3>1
    <3> QED  BY <1>2, <3>1, <3>2
  <2>3. CASE chain' = [chain EXCEPT !.rules = @]
    BY <1>2, <2>3
  <2>4. CASE chain' = chain
    BY <1>2, <2>4
  <2> QED  BY <2>1, <2>2, <2>3, <2>4 DEF SshFails
<1> QED  BY <1>1, <1>2, <1>3, TruthStep DEF ChainSteps, Writing

\* All rules are in the chain when a push is recorded.
LEMMA TruthPushed ==
  ASSUME ChainInv, TruthInv, NEW t \in Tasks, RecordPushed(t)
  PROVE  TruthInv'
<1>1. at[t] = "append" /\ work[t].todo = <<>> /\ chain' = chain
  BY DEF RecordPushed
<1>2. work[t].rows \in Rows /\ chain.rules \in Seq(Rules) /\ Len(chain.rules) <= MaxRows
      /\ chain \in [exists : BOOLEAN, rules : Seq(Rules)] /\ running \in Tasks \cup {NoTask}
      /\ bak \in Files /\ astray \subseteq {"unflushed", "deployed"}
  BY DEF TruthInv, ChainTypes
<1>3. Holds(chain.rules, work[t].rows, astray)
  <2>1. Holds(chain.rules \o <<>>, work[t].rows, astray)
    BY <1>1 DEF TruthInv, InHand, Filling
  <2>2. chain.rules \o <<>> = chain.rules
    BY <1>2
  <2> QED  BY <2>1, <2>2
<1>4. CASE /\ copy' = Agreeing(work[t].rows) /\ bak' \in {NoFile, bak}
           /\ astray' = astray \cap {"unflushed"}
           /\ Rest(t) /\ Done(t)
  <2>1. copy' \in Files /\ bak' \in Files /\ running' \in Tasks \cup {NoTask}
    BY <1>2, <1>4, MarkedTyped, NoFileTyped DEF Done
  <2>2. SaysTheTruth'
    BY <1>1, <1>3, <1>4 DEF SaysTheTruth, Agreeing, Holds
  <2>3. \A s \in Tasks \ {t} : at[s] # "append"
    BY <1>1, NoneWrites DEF Writing
  <2>4. astray' \subseteq {"unflushed", "deployed"}
    BY <1>4
  <2> QED  BY <1>1, <1>4, <2>1, <2>2, <2>3, <2>4, TruthRest
<1>5. CASE /\ at' = [at EXCEPT ![t] = "failed"]
           /\ UNCHANGED <<copy, bak, running, work, astray>>
  BY <1>1, <1>2, <1>5, TruthStep DEF ChainSteps, Writing
<1> QED  BY <1>4, <1>5 DEF RecordPushed

LEMMA TruthFailed ==
  ASSUME ChainInv, TruthInv, NEW t \in Tasks, RecordFailed(t)
  PROVE  TruthInv'
<1>1. at[t] = "failed" /\ Writing(t) /\ Rest(t) /\ UNCHANGED <<chain, bak>>
      /\ running' \in {running, NoTask}
  BY DEF RecordFailed, Writing, Done
<1>2. /\ work[t].rows \in Rows /\ running \in Tasks \cup {NoTask}
      /\ copy \in Files /\ bak \in Files /\ astray \subseteq {"unflushed", "deployed"}
  BY DEF TruthInv, ChainTypes
<1>3. copy.pending
  BY <1>1 DEF TruthInv, CopyTrue
<1>4. copy' \in Files /\ copy'.pending /\ astray' = astray
  <2>1. bak.kept => [bak EXCEPT !.pending = TRUE] \in Files
                    /\ [bak EXCEPT !.pending = TRUE].pending
    BY <1>2 DEF Files
  <2>2. Pending(work[t].rows) \in Files /\ Pending(work[t].rows).pending
    BY <1>2, MarkedTyped DEF Pending
  <2>3. /\ \/ copy' = IF bak.kept THEN [bak EXCEPT !.pending = TRUE] ELSE Pending(work[t].rows)
           \/ UNCHANGED copy
        /\ UNCHANGED astray
    BY DEF RecordFailed
  <2> QED  BY <1>2, <1>3, <2>1, <2>2, <2>3
<1>5. SaysTheTruth'
  BY <1>4 DEF SaysTheTruth
<1> QED  BY <1>1, <1>2, <1>4, <1>5, TruthRest

LEMMA TruthReading ==
  ASSUME ChainInv, TruthInv, NEW t \in Tasks, ReadChain(t) \/ Superseded(t)
  PROVE  TruthInv'
<1>1. at[t] \in {"read", "fetched"} /\ UNCHANGED <<chain, copy, bak, running, astray>>
  BY DEF ReadChain, Superseded
<1>2. \A s \in Tasks : ~Writing(s)
  BY <1>1, NobodyWrites
<1>3. /\ copy \in Files /\ bak \in Files /\ running \in Tasks \cup {NoTask}
      /\ astray \subseteq {"unflushed", "deployed"}
      /\ chain \in [exists : BOOLEAN, rules : Seq(Rules)] /\ Len(chain.rules) <= MaxRows
  BY DEF TruthInv, ChainTypes
<1>4. CASE Rest(t)
  <2>1. SaysTheTruth'
    BY <1>1, <1>2 DEF TruthInv, CopyTrue, SaysTheTruth, Holds
  <2> QED  BY <1>1, <1>3, <1>4, <2>1, TruthRest
<1>5. CASE at[t] = "read" /\ work' = [work EXCEPT ![t].snap = chain.rules]
           /\ at' = [at EXCEPT ![t] = "fetched"]
  <2>1. /\ work'[t].snap = chain.rules /\ work'[t].rows = work[t].rows
        /\ work'[t].op = work[t].op /\ \A s \in Tasks \ {t} : work'[s] = work[s]
    BY <1>5 DEF ChainInv, Shapes, WholeWork
  <2> QED  BY <1>1, <1>2, <1>3, <1>5, <2>1, TruthStep DEF ChainSteps
<1> QED  BY <1>4, <1>5 DEF ReadChain, Superseded

\* What was read is still there: nobody has written since.
LEMMA TruthFetched ==
  ASSUME ChainInv, TruthInv, NEW t \in Tasks, RecordFetched(t)
  PROVE  TruthInv'
<1>1. at[t] = "fetched" /\ Rest(t) /\ UNCHANGED <<chain, running>>
  BY DEF RecordFetched
<1>2. /\ chain.rules \in Seq(Rules) /\ Len(chain.rules) <= MaxRows
      /\ running \in Tasks \cup {NoTask} /\ copy \in Files /\ bak \in Files
      /\ astray \subseteq {"unflushed", "deployed"}
  BY DEF TruthInv, ChainTypes
<1>3. \A s \in Tasks : ~Writing(s)
  BY <1>1, NobodyWrites
<1>4. \A s \in Tasks \ {t} : at[s] # "append"
  BY <1>3 DEF Writing
<1>5. CASE copy' = Agreeing(AllOn(work[t].snap)) /\ bak' \in {NoFile, bak} /\ astray' = {}
  <2>1. work[t].snap = chain.rules
    BY <1>1 DEF TruthInv, InHand
  <2>2. AllOn(chain.rules) \in Rows
    BY <1>2, AllOnRows, RowsAre
  <2>3. SaysTheTruth'
    BY <1>1, <1>2, <1>5, <2>1, PushedBack DEF SaysTheTruth, Agreeing, Holds
  <2>4. copy' \in Files /\ bak' \in Files
    BY <1>2, <1>5, <2>1, <2>2, MarkedTyped, NoFileTyped
  <2>5. astray' \subseteq {"unflushed", "deployed"}
    BY <1>5
  <2> QED  BY <1>1, <1>2, <1>4, <2>3, <2>4, <2>5, TruthRest
<1>6. CASE bak' = NoFile /\ UNCHANGED <<copy, astray>>
  <2>1. SaysTheTruth'
    BY <1>1, <1>3, <1>6 DEF TruthInv, CopyTrue, SaysTheTruth, Holds
  <2> QED  BY <1>1, <1>2, <1>6, <2>1, NoFileTyped, TruthRest
<1> QED  BY <1>5, <1>6 DEF RecordFetched, SnapshotRows

LEMMA NewChain ==
  ASSUME NEW e \in BOOLEAN, NEW l \in Seq(Rules), Len(l) <= MaxRows
  PROVE  [exists |-> e, rules |-> l] \in [exists : BOOLEAN, rules : Seq(Rules)]
         /\ Len([exists |-> e, rules |-> l].rules) <= MaxRows
  OBVIOUS

LEMMA TruthSite ==
  ASSUME ChainInv, TruthInv, SiteDeployed \/ SiteRemoved
  PROVE  TruthInv'
<1>1. /\ Busy = {} /\ astray' = astray \cup {"deployed"}
      /\ UNCHANGED <<copy, bak, running, at, work>>
      /\ \/ chain' = [exists |-> TRUE, rules |-> <<SiteRule>>]
         \/ chain' = [exists |-> FALSE, rules |-> <<>>]
         \/ /\ Len(chain.rules) < MaxRows
            /\ chain' = [exists |-> TRUE, rules |-> Append(chain.rules, SiteRule)]
  BY DEF SiteDeployed, SiteRemoved
<1>2. SiteRule \in Rules /\ MaxRows \in Nat /\ MaxRows >= 1
  BY ChainAssumption
<1>3. chain' \in [exists : BOOLEAN, rules : Seq(Rules)] /\ Len(chain'.rules) <= MaxRows
  <2>1. <<>> \in Seq(Rules) /\ Len(<<>>) = 0
    OBVIOUS
  <2>2. <<SiteRule>> \in Seq(Rules) /\ Len(<<SiteRule>>) = 1
    BY <1>2
  <2>3. Len(<<>>) <= MaxRows /\ Len(<<SiteRule>>) <= MaxRows
    BY <1>2, <2>1, <2>2
  <2>4. chain.rules \in Seq(Rules)
    BY DEF TruthInv, ChainTypes
  <2>5. Append(chain.rules, SiteRule) \in Seq(Rules)
        /\ Len(Append(chain.rules, SiteRule)) = Len(chain.rules) + 1
    BY <1>2, <2>4
  <2>6. Len(chain.rules) < MaxRows => Len(Append(chain.rules, SiteRule)) <= MaxRows
    BY <1>2, <2>4, <2>5
  <2> QED  BY <1>1, <2>1, <2>2, <2>3, <2>5, <2>6, NewChain
<1>4. \A t \in Tasks : at'[t] = "idle"
  BY <1>1 DEF Busy
<1>5. ChainTypes'
  BY <1>1, <1>3 DEF TruthInv, ChainTypes
<1>6. InHand' /\ CopyTrue'
  BY <1>1, <1>4 DEF InHand, CopyTrue, SaysTheTruth, Writing
<1> QED  BY <1>5, <1>6 DEF TruthInv

\* A write that the death cuts off leaves a copy that is pending.
LEMMA TruthCrash ==
  ASSUME ChainInv, TruthInv, ChainCrash
  PROVE  TruthInv'
<1>1. /\ at' = [t \in Tasks |-> "idle"] /\ work' = [t \in Tasks |-> NoWork]
      /\ UNCHANGED <<chain, copy, bak, astray>> /\ running' = NoTask
  BY DEF ChainCrash
<1>2. \A t \in Tasks : at'[t] = "idle" /\ work'[t] = NoWork
  BY <1>1
<1>3. ChainTypes'
  BY <1>1, <1>2, NoFileTyped DEF TruthInv, ChainTypes
<1>4. InHand'
  BY <1>2 DEF InHand
<1>5. SaysTheTruth'
  BY <1>1 DEF TruthInv, CopyTrue, SaysTheTruth, Holds
<1>6. CopyTrue'
  BY <1>2, <1>5 DEF CopyTrue, Writing
<1> QED  BY <1>3, <1>4, <1>6 DEF TruthInv

LEMMA TruthInit == ChainInit => TruthInv
<1> SUFFICES ASSUME ChainInit PROVE TruthInv
  OBVIOUS
<1>1. /\ \A t \in Tasks : at[t] = "idle" /\ work[t] = NoWork
      /\ chain = [exists |-> TRUE, rules |-> <<SiteRule>>]
      /\ copy = NoFile /\ bak = NoFile /\ running = NoTask /\ astray = {}
  BY DEF ChainInit
<1>2. SiteRule \in Rules /\ MaxRows \in Nat /\ MaxRows >= 1
  BY ChainAssumption
<1>3. chain \in [exists : BOOLEAN, rules : Seq(Rules)] /\ Len(chain.rules) <= MaxRows
  BY <1>1, <1>2
<1>4. ChainTypes
  BY <1>1, <1>3, NoFileTyped DEF ChainTypes
<1>5. InHand /\ CopyTrue
  BY <1>1 DEF InHand, CopyTrue, SaysTheTruth, Writing, NoFile
<1> QED  BY <1>4, <1>5 DEF TruthInv

LEMMA TruthNext ==
  ASSUME GuardedOverlap, ChainInv, TruthInv, [ChainNext]_chainVars
  PROVE  TruthInv'
<1>1. CASE UNCHANGED chainVars
  BY <1>1 DEF chainVars, TruthInv, ChainTypes, InHand, Filling, Holds, CopyTrue,
     SaysTheTruth, Writing
<1>2. ASSUME NEW t \in Tasks, ChainTask(t)
      PROVE  TruthInv'
  BY <1>2, TruthFlush, TruthAppend, TruthFailing, TruthPushed, TruthFailed, TruthReading,
     TruthFetched DEF ChainTask
<1>3. ASSUME NEW t \in Tasks, NEW op \in Edits \cup Guarded, Write(t, op)
      PROVE  TruthInv'
  BY <1>3, TruthWrite
<1>4. ASSUME NEW t \in Tasks, NEW op \in Fetches, Fetch(t, op)
      PROVE  TruthInv'
  BY <1>4, TruthFetch
<1>5. CASE SiteDeployed \/ SiteRemoved
  BY <1>5, TruthSite
<1>6. CASE ChainCrash
  BY <1>6, TruthCrash
<1> QED  BY <1>1, <1>2, <1>3, <1>4, <1>5, <1>6 DEF ChainNext

\* A working copy that is not pending is the peer's chain, or its end where -F failed
\* unnoticed, as long as the site's firewall was not deployed or removed since: every
\* write marks the copy before it touches the chain, and a push that breaks off, a record
\* that fails and a death leave the mark.
THEOREM PendingIsTrue ==
  ASSUME GuardedOverlap
  PROVE  ChainSpec => []PendingTellsTheTruth
<1>1. TruthInv => PendingTellsTheTruth
  BY DEF TruthInv, CopyTrue, SaysTheTruth, Holds, Writing, Busy, LooksPushed,
     PendingTellsTheTruth
<1>2. ChainInv /\ TruthInv /\ [ChainNext]_chainVars => ChainInv' /\ TruthInv'
  BY ChainNextInv, TruthNext
<1>3. ChainInit => ChainInv /\ TruthInv
  BY ChainInitInv, TruthInit
<1> QED  BY <1>1, <1>2, <1>3, PTL DEF ChainSpec

\* Every file, chain and task keeps its type, within the bound of the rows.
THEOREM ChainTyped ==
  ASSUME GuardedOverlap
  PROVE  ChainSpec => []ChainTypeOK
<1>1. ChainInv /\ TruthInv => ChainTypeOK
  BY DEF ChainInv, Shapes, ChainSteps, TruthInv, ChainTypes, ChainTypeOK
<1>2. ChainInv /\ TruthInv /\ [ChainNext]_chainVars => ChainInv' /\ TruthInv'
  BY ChainNextInv, TruthNext
<1>3. ChainInit => ChainInv /\ TruthInv
  BY ChainInitInv, TruthInit
<1> QED  BY <1>1, <1>2, <1>3, PTL DEF ChainSpec

(***************************************************************************)
(* MCPeers: the four components side by side                               *)
(***************************************************************************)
\* What is proved of a component by itself holds where it runs beside the others: none
\* of them touches another one's state.
THEOREM PeersParts == PeersSpec => SiteSpec /\ CcdSpec /\ HostSpec /\ ChainSpec
<1>1. PeersInit => SiteInit /\ CcdInit /\ HostInit /\ ChainInit
  BY DEF PeersInit
<1>2. [PeersNext]_peersVars => [SiteNext]_siteVars
  BY DEF PeersNext, peersVars
<1>3. [PeersNext]_peersVars => [CcdNext]_ccdVars
  BY DEF PeersNext, peersVars
<1>4. [PeersNext]_peersVars => [HostNext]_hostVars
  BY DEF PeersNext, peersVars
<1>5. [PeersNext]_peersVars => [ChainNext]_chainVars
  BY DEF PeersNext, peersVars
<1> QED  BY <1>1, <1>2, <1>3, <1>4, <1>5, PTL
         DEF PeersSpec, SiteSpec, CcdSpec, HostSpec, ChainSpec

\* The state of the peers has its types: rows and what follows from them, a user's file,
\* a peer's host, and the working copy of its chain.
THEOREM PeersTyped ==
  ASSUME GuardedOverlap
  PROVE  PeersSpec => []PeersTypeOK
<1>1. SiteSpec => []SiteTypeOK
  <2>1. SiteInv => SiteTypeOK
    BY DEF SiteInv
  <2> QED  BY <2>1, SiteInitInv, SiteNextInv, PTL DEF SiteSpec
<1>2. HostSpec => []HostTypeOK
  BY PeerHostTyped
<1>3. ChainSpec => []ChainTypeOK
  BY ChainTyped
<1>4. SiteTypeOK /\ CcdTypeOK /\ HostTypeOK /\ ChainTypeOK => PeersTypeOK
  BY DEF PeersTypeOK
<1> QED  BY <1>1, <1>2, <1>3, <1>4, CcdTyped, PeersParts, PTL
=============================================================================
