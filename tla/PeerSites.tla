------------------------------ MODULE PeerSites ------------------------------
(***************************************************************************)
(* PeerService: a peer is a user whose client is the gateway of a site.    *)
(* Its row in SQLite is the source of three things: the forward rules of   *)
(* the centre, the iroute block in the CCD file of the bound user, and the *)
(* push-route ("mesh") block in the CCD file of every user who may reach   *)
(* the site.  Nothing spans these stores.                                  *)
(*                                                                         *)
(* One call runs at a time; it may fail or die between any two writes.     *)
(***************************************************************************)
EXTENDS Naturals, Sequences, FiniteSets

CONSTANTS
    Peers, Members, Teams, Nets,   \* peers, VPN users, groups, LAN networks
    Nobody, NoPeer,
    SiteFaults                     \* kinds of failure that may happen

ASSUME SiteAssumption ==
    /\ Nobody \notin Members /\ NoPeer \notin Peers /\ IsFiniteSet(Members)
    /\ Teams # {} /\ {"forward", "mesh"} \cap Peers = {}
    /\ SiteFaults \subseteq {"forward", "ccd", "crash"}

VARIABLES
    site,       \* rows of peers: bound user (Nobody: no row), LANs, groups, switch
    member,     \* users: group, whether active, whether the CCD file is there
    iroute,     \* CCD files: the peers' iroute blocks
    pushed,     \* CCD files: the push-route block
    forward,    \* the networks the centre lets through to a peer
    call,       \* the running call
    troubled,   \* history: what a failure left behind its row
    skipped     \* history: users whom a sync passed over

siteVars == <<site, member, iroute, pushed, forward, call, troubled, skipped>>

SiteRow == [bound : Members \cup {Nobody}, lan : SUBSET Nets, to : SUBSET Teams,
            open : BOOLEAN]
NoSite  == [bound |-> Nobody, lan |-> {}, to |-> {}, open |-> TRUE]
Exists(p) == site[p].bound # Nobody

SiteSteps == {"idle", "forward", "merge", "strip", "drop", "mesh"}

NoCall == [todo |-> <<>>, peer |-> NoPeer]   \* the steps still to do, and for which peer

SiteInit ==
    /\ site = [p \in Peers |-> NoSite]
    /\ member = [u \in Members |-> [team |-> CHOOSE g \in Teams : TRUE,
                                    active |-> FALSE, file |-> FALSE]]
    /\ iroute = [u \in Members |-> [p \in Peers |-> {}]]
    /\ pushed = [u \in Members |-> {}]
    /\ forward = [p \in Peers |-> {}]
    /\ call = NoCall /\ troubled = {} /\ skipped = {}

Idle == call.todo = <<>>
Step(s) == ~Idle /\ call.todo[1] = s
NextStep == call' = IF Len(call.todo) = 1 THEN NoCall ELSE [call EXCEPT !.todo = Tail(@)]
EndSiteCall == call' = NoCall

\* A call that stops leaves behind its row what it has not come to.
Raise ==
    /\ EndSiteCall
    /\ troubled' = troubled \cup UNION {
           IF call.todo[i] \in {"forward", "mesh"} THEN {call.todo[i]} ELSE {call.peer} :
               i \in DOMAIN call.todo}

Bound(except) == {site[p].bound : p \in Peers \ {except}} \ {Nobody}

\* The fingerprints update compares.  Mutants: the groups, the networks left out.
MeshPrintOfLan(row) == <<row.lan>>
CcdPrintOfUser(row) == <<row.bound>>

ForwardPrint(row) == <<row.lan, row.open>>
MeshPrint(row)    == <<row.lan, row.to>>
CcdPrint(row)     == <<row.bound, row.lan>>

Unless(same, step) == IF same THEN <<>> ELSE <<step>>

(***************************************************************************)
(* PeerService's operations: the row is stored first                       *)
(***************************************************************************)

CreateSite(p, row) ==
    /\ Idle /\ ~Exists(p) /\ row.bound \notin Bound(p) \cup {Nobody}
    /\ site' = [site EXCEPT ![p] = row]
    /\ call' = [NoCall EXCEPT !.peer = p, !.todo = <<"forward", "merge", "mesh">>]
    /\ UNCHANGED <<member, iroute, pushed, forward, troubled, skipped>>

\* update reads the row, stores the whole new one, and does what the two differ in.
UpdateSite(p, row) ==
    /\ Idle /\ Exists(p) /\ row.bound \notin Bound(p) \cup {Nobody}
    /\ site' = [site EXCEPT ![p] = row]
    /\ call' = [NoCall EXCEPT !.peer = p, !.todo =
                  Unless(ForwardPrint(site[p]) = ForwardPrint(row), "forward")
                  \o Unless(CcdPrint(site[p]) = CcdPrint(row), "merge")
                  \o Unless(MeshPrint(site[p]) = MeshPrint(row), "mesh")]
    /\ UNCHANGED <<member, iroute, pushed, forward, troubled, skipped>>

\* The rule centre deletes a peer's line: the row loses its networks, and the
\* centre refreshes the rules itself, afterwards.
ClearSite(p) ==
    /\ Idle /\ Exists(p) /\ site[p].lan # {}
    /\ site' = [site EXCEPT ![p].lan = {}]
    /\ call' = [NoCall EXCEPT !.peer = p, !.todo = <<"merge", "mesh", "forward">>]
    /\ UNCHANGED <<member, iroute, pushed, forward, troubled, skipped>>

SwitchSite(p, open) ==
    /\ Idle /\ Exists(p)
    /\ site' = [site EXCEPT ![p].open = open]
    /\ call' = [NoCall EXCEPT !.peer = p, !.todo = <<"forward">>]
    /\ UNCHANGED <<member, iroute, pushed, forward, troubled, skipped>>

\* delete: the CCD block goes before the row.
DeleteSite(p) ==
    /\ Idle /\ Exists(p)
    /\ call' = [NoCall EXCEPT !.peer = p, !.todo = <<"strip", "drop", "forward", "mesh">>]
    /\ UNCHANGED <<site, member, iroute, pushed, forward, troubled, skipped>>

\* The button on the page; and the service's start, which rebuilds the rules too.
SyncMesh ==
    /\ Idle
    /\ call' = [NoCall EXCEPT !.todo = <<"mesh">>]
    /\ UNCHANGED <<site, member, iroute, pushed, forward, troubled, skipped>>

Startup ==
    /\ Idle
    /\ call' = [NoCall EXCEPT !.todo = <<"forward", "mesh">>]
    /\ UNCHANGED <<site, member, iroute, pushed, forward, troubled, skipped>>

(***************************************************************************)
(* Users come, move and go; only the first two rewrite the mesh routes     *)
(***************************************************************************)

AddMember(u, g) ==
    /\ Idle /\ ~member[u].file
    /\ member' = [member EXCEPT ![u] = [team |-> g, active |-> TRUE, file |-> TRUE]]
    /\ call' = [NoCall EXCEPT !.todo = <<"mesh">>]
    /\ UNCHANGED <<site, iroute, pushed, forward, troubled, skipped>>

MoveMember(u, g) ==
    /\ Idle /\ member[u].file /\ member[u].team # g
    /\ member' = [member EXCEPT ![u].team = g]
    /\ call' = [NoCall EXCEPT !.todo = <<"mesh">>]
    /\ UNCHANGED <<site, iroute, pushed, forward, troubled, skipped>>

SwitchMember(u) ==
    /\ Idle /\ member[u].file
    /\ member' = [member EXCEPT ![u].active = ~@]
    /\ UNCHANGED <<site, iroute, pushed, forward, call, troubled, skipped>>

\* The CCD file goes with the user; a peer may still be bound to the name.
RemoveMember(u) ==
    /\ Idle /\ member[u].file
    /\ member' = [member EXCEPT ![u].active = FALSE, ![u].file = FALSE]
    /\ iroute' = [iroute EXCEPT ![u] = [p \in Peers |-> {}]]
    /\ pushed' = [pushed EXCEPT ![u] = {}]
    /\ troubled' = troubled \cup {p \in Peers : site[p].bound = u}
    /\ UNCHANGED <<site, forward, call, skipped>>

(***************************************************************************)
(* The steps of a call                                                     *)
(***************************************************************************)

\* refresh_vpn_forward_only, as ForwardRefresh has it: all or nothing.
RefreshForward ==
    /\ Step("forward")
    /\ \/ /\ forward' = [p \in Peers |-> IF Exists(p) /\ site[p].open THEN site[p].lan ELSE {}]
          /\ troubled' = troubled \ {"forward"}
          /\ NextStep
       \/ /\ "forward" \in SiteFaults /\ Raise
          /\ UNCHANGED forward
    /\ UNCHANGED <<site, member, iroute, pushed, skipped>>

\* _merge_ccd into the file of the user bound now; ValueError if there is none.
MergeCcd ==
    /\ Step("merge")
    /\ LET p == call.peer  u == site[p].bound IN
       \/ /\ member[u].file
          /\ iroute' = [iroute EXCEPT ![u][p] = site[p].lan]
          /\ troubled' = troubled \ {p}
          /\ NextStep
       \/ /\ ~member[u].file \/ "ccd" \in SiteFaults
          /\ Raise /\ UNCHANGED iroute
    /\ UNCHANGED <<site, member, pushed, forward, skipped>>

StripCcd ==
    /\ Step("strip")
    /\ \/ /\ iroute' = [iroute EXCEPT ![site[call.peer].bound][call.peer] = {}]
          /\ NextStep /\ UNCHANGED troubled
       \/ /\ "ccd" \in SiteFaults /\ Raise /\ UNCHANGED iroute
    /\ UNCHANGED <<site, member, pushed, forward, skipped>>

DropRow ==
    /\ Step("drop")
    /\ site' = [site EXCEPT ![call.peer] = NoSite]
    /\ NextStep
    /\ UNCHANGED <<member, iroute, pushed, forward, troubled, skipped>>

\* mesh_lan_cidrs_for_user_group: no groups means every group.
\* Mutant: no groups means nobody.
MeshLanListed(rows, g) == UNION {rows[p].lan : p \in {q \in Peers : g \in rows[q].to}}

MeshLan(rows, g) ==
    UNION {rows[p].lan : p \in {q \in Peers : rows[q].to = {} \/ g \in rows[q].to}}

\* A user who is not active, or has no CCD file, is passed over.
Written == {u \in Members : member[u].active /\ member[u].file}

\* sync_all_mesh_push_routes_in_ccd visits the users one by one; a file that
\* cannot be written does not stop the rest, but the call raises at the end.
\* cut: the process dies when it has done some of them.
SyncStep ==
    /\ Step("mesh")
    /\ \E done \in SUBSET Written, cut \in BOOLEAN :
         /\ done # Written => "ccd" \in SiteFaults \/ cut
         /\ cut => "crash" \in SiteFaults
         /\ pushed' = [u \in Members |-> IF u \in done THEN MeshLan(site, member[u].team)
                                                      ELSE pushed[u]]
         /\ IF cut \/ done # Written
            THEN Raise
            ELSE NextStep /\ troubled' = troubled \ {"mesh"}
    /\ skipped' = {u \in Members : member[u].file /\ ~member[u].active}
    /\ UNCHANGED <<site, member, iroute, forward>>

SiteCrash ==
    /\ "crash" \in SiteFaults /\ ~Idle
    /\ Raise
    /\ UNCHANGED <<site, member, iroute, pushed, forward, skipped>>

SiteNext ==
    \/ \E p \in Peers, row \in SiteRow : CreateSite(p, row) \/ UpdateSite(p, row)
    \/ \E p \in Peers : ClearSite(p) \/ DeleteSite(p) \/ \E b \in BOOLEAN : SwitchSite(p, b)
    \/ SyncMesh \/ Startup
    \/ \E u \in Members : SwitchMember(u) \/ RemoveMember(u)
    \/ \E u \in Members, g \in Teams : AddMember(u, g) \/ MoveMember(u, g)
    \/ RefreshForward \/ MergeCcd \/ StripCcd \/ DropRow \/ SyncStep \/ SiteCrash

SiteSpec == SiteInit /\ [][SiteNext]_siteVars

(***************************************************************************)
(* Properties                                                              *)
(***************************************************************************)

SiteTypeOK ==
    /\ site \in [Peers -> SiteRow]
    /\ member \in [Members -> [team : Teams, active : BOOLEAN, file : BOOLEAN]]
    /\ iroute \in [Members -> [Peers -> SUBSET Nets]]
    /\ pushed \in [Members -> SUBSET Nets] /\ forward \in [Peers -> SUBSET Nets]
    /\ skipped \subseteq Members

\* After every call the centre lets through exactly the networks of the peers
\* that are switched on, and the file of a bound user has exactly the peer's
\* networks, whatever the fingerprints made update leave out; unless a call
\* failed half-way or the bound user was deleted.
ServedAsStored ==
    Idle => \A p \in Peers :
        /\ "forward" \notin troubled =>
             forward[p] = (IF Exists(p) /\ site[p].open THEN site[p].lan ELSE {})
        /\ Exists(p) /\ p \notin troubled /\ member[site[p].bound].file =>
             iroute[site[p].bound][p] = site[p].lan

\* After every call an active user is pushed the networks of the peers his
\* group may reach and no others, unless a file could not be written, or the
\* user was disabled when the routes were written last.
MeshAsStored ==
    Idle /\ "mesh" \notin troubled =>
        \A u \in Members \ skipped : member[u].active =>
            pushed[u] = MeshLan(site, member[u].team)
=============================================================================
