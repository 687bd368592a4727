---------------------------- MODULE UserAccounts ----------------------------
(***************************************************************************)
(* UserService, GroupService and CertService: an account is a row in       *)
(* SQLite, a number in its group's row, lines of EasyRSA's index.txt, an   *)
(* .ovpn profile and a CCD file.  No transaction spans these stores; every *)
(* write to one of them is a step.                                         *)
(*                                                                         *)
(* Callers are the pages (event loop), the API's thread pool and the CLI.  *)
(* Only create holds a lock, and only against other creates.  An address   *)
(* is a number; the free address taken is the smallest, as hosts() goes    *)
(* upwards.  Hosts excludes the server's own address.                      *)
(***************************************************************************)
EXTENDS Naturals, Sequences, FiniteSets

CONSTANTS
    Callers, Users, Groups, Subnets,
    Root,       \* the group the wizard creates
    RootNet,    \* its subnet: the global pool
    Hosts,      \* addresses of a subnet
    NoUser, NoGroup, NoCaller,
    Faults,     \* kinds of failure that may happen
    Overlap,    \* calls that may run while another of them does
    Stale,      \* a page or a request may delete a user deleted meanwhile
    MaxCerts,   \* bound: certificates a name is ever issued
    MaxCount    \* bound: user_count at which no call adds a user

\* "group" is every operation of GroupService, "revoke" is CertService's.
Calls == {"create", "delete", "toggle", "change", "regenerate", "renew",
          "revoke", "group"}

FaultKinds == {"pki", "crl", "sql", "crash"}

ASSUME AccountsAssumption ==
    /\ Root \in Groups /\ RootNet \in Subnets
    /\ Hosts \in [Subnets -> SUBSET (Nat \ {0})]
    /\ \A s \in Subnets : IsFiniteSet(Hosts[s]) /\ Hosts[s] \subseteq Hosts[RootNet]
    /\ NoUser \notin Users /\ NoGroup \notin Groups /\ NoCaller \notin Callers
    /\ Faults \subseteq FaultKinds /\ Overlap \subseteq Calls /\ Stale \in BOOLEAN
    /\ MaxCerts \in Nat /\ MaxCount \in Nat

\* Users and groups are rows of two tables; "unsettled" holds both.
ASSUME NamesAssumption == Users \cap Groups = {}

VARIABLES
    record,     \* users: status, group, number of the recorded certificate
    group,      \* groups: existence, status, subnet, user_count
    ccd,        \* CCD files: fixed address, and whether it says "disable"
    ovpn,       \* certificate in the .ovpn profile; 0: no file
    index,      \* index.txt: the certificates of a name, oldest first
    issued,     \* names with certificate and key under issued/ and private/
    crl,        \* certificates in the published crl.pem
    unrevoked,  \* history: names deleted although their revocation failed, until
                \* a crl.pem has their certificate
    lock,       \* holder of _USER_CREATE_LOCK
    pc,         \* the caller's next step
    job,        \* its arguments and what it has read
    unsettled   \* history: users and groups a failure left between two stores

pki    == <<index, issued, crl, unrevoked>>
vars   == <<record, group, ccd, ovpn, pki, lock, pc, job, unsettled>>

Live == {"active", "disabled"}

Records == [status : Live \cup {"none", "deleted"},
            group : Groups \cup {NoGroup}, serial : 0 .. MaxCerts]
NoRecord == [status |-> "none", group |-> NoGroup, serial |-> 0]

GroupRows == [exists : BOOLEAN, active : BOOLEAN, net : Subnets, count : Nat]
NoRow == [exists |-> FALSE, active |-> FALSE, net |-> RootNet, count |-> 0]

\* Address 0: no ifconfig-push line.
Addresses == {0} \cup Hosts[RootNet]
Ccds  == [exists : BOOLEAN, ip : Addresses, off : BOOLEAN]
NoCcd == [exists |-> FALSE, ip |-> 0, off |-> FALSE]

\* The arguments of a call; rec and row are what it has read of a user and of
\* a group, due the groups whose user_count it still has to change.
Jobs == [op : Calls \cup {"none"},
         user : Users \cup {NoUser}, to : Groups \cup {NoGroup},
         rec : Records, row : GroupRows, ip : Addresses,
         due : Seq(Groups \X {"leave", "join"})]
Steps == {"idle", "enter", "sign", "profile", "address", "newccd", "store",
          "count", "counted", "revoke", "crl", "files", "switch", "move",
          "serial", "reload", "group"}

NoJob == [op |-> "none", user |-> NoUser, to |-> NoGroup, rec |-> NoRecord,
          row |-> NoRow, ip |-> 0, due |-> <<>>]

Init ==
    /\ record = [u \in Users |-> NoRecord]
    /\ group = [g \in Groups |-> IF g = Root THEN [NoRow EXCEPT !.exists = TRUE, !.active = TRUE]
                                             ELSE NoRow]
    /\ ccd = [u \in Users |-> NoCcd] /\ ovpn = [u \in Users |-> 0]
    /\ index = [u \in Users |-> <<>>] /\ issued = {} /\ crl = {} /\ unrevoked = {}
    /\ lock = NoCaller
    /\ pc = [c \in Callers |-> "idle"] /\ job = [c \in Callers |-> NoJob]
    /\ unsettled = {}

Goto(c, step) == pc' = [pc EXCEPT ![c] = step]

Call(c, step, j) ==
    /\ pc[c] = "idle"
    /\ \A d \in Callers : pc[d] # "idle" => {j.op, job[d].op} \subseteq Overlap
    /\ Goto(c, step)
    /\ job' = [job EXCEPT ![c] = j]

\* The call returns or raises.
Leave(c) ==
    /\ Goto(c, "idle")
    /\ job' = [job EXCEPT ![c] = NoJob]
    /\ lock' = IF lock = c THEN NoCaller ELSE lock

Me(c) == job[c].user
Latest(u) == Len(index[u])

\* get_cert_info: the first line of index.txt with that name, 0 for none.
Serial(u) == IF index[u] = <<>> THEN 0 ELSE 1

\* Mutant: only the addresses of the group's own users count as taken.
FreeInGroup(s) ==
    LET members == {u \in Users : \E g \in Groups : record[u].group = g /\ group[g].net = s}
    IN  Hosts[s] \ {ccd[u].ip : u \in members}

\* Addresses of a subnet that no CCD file of any user has.
Free(s) == Hosts[s] \ {ccd[u].ip : u \in Users}
Lowest(S) == CHOOSE i \in S : \A j \in S : i <= j

(***************************************************************************)
(* create, under _USER_CREATE_LOCK                                         *)
(***************************************************************************)

Create(c, u, g) ==
    /\ Latest(u) < MaxCerts /\ group[g].count < MaxCount
    /\ Call(c, "enter", [NoJob EXCEPT !.op = "create", !.user = u, !.to = g,
                             !.due = <<<<g, "join">>>>])
    /\ UNCHANGED <<record, group, ccd, ovpn, pki, lock, unsettled>>

\* The name is taken, the group is gone, or it has no address left: ValueError.
Enter(c) ==
    /\ pc[c] = "enter" /\ lock = NoCaller
    /\ LET row == group[job[c].to] IN
       IF record[Me(c)].status \in Live \/ ~row.exists \/ Free(row.net) = {}
       THEN Leave(c)
       ELSE /\ lock' = c
            /\ job' = [job EXCEPT ![c].row = row]
            /\ Goto(c, "sign")
    /\ UNCHANGED <<record, group, ccd, ovpn, pki, unsettled>>

\* gen-req and sign-req.  A certificate that is still there is not replaced.
Sign(c) ==
    /\ pc[c] = "sign"
    /\ \/ /\ Me(c) \notin issued /\ Latest(Me(c)) < MaxCerts
          /\ index' = [index EXCEPT ![Me(c)] = Append(@, "V")]
          /\ issued' = issued \cup {Me(c)}
          /\ Goto(c, "profile") /\ UNCHANGED <<job, lock>>
       \/ /\ Me(c) \in issued \/ Latest(Me(c)) = MaxCerts \/ "pki" \in Faults
          /\ Leave(c) /\ UNCHANGED <<index, issued>>
    /\ UNCHANGED <<record, group, ccd, ovpn, crl, unrevoked, unsettled>>

\* The tls-crypt-v2 key, the serial and the profile.
Profile(c) ==
    /\ pc[c] = "profile"
    /\ \/ /\ ovpn' = [ovpn EXCEPT ![Me(c)] = Latest(Me(c))]
          /\ job' = [job EXCEPT ![c].rec = [status |-> "active", group |-> job[c].to,
                                            serial |-> Serial(Me(c))]]
          /\ Goto(c, "address") /\ UNCHANGED <<lock, unsettled>>
       \/ /\ "pki" \in Faults
          /\ unsettled' = unsettled \cup {Me(c)}
          /\ Leave(c) /\ UNCHANGED ovpn
    /\ UNCHANGED <<record, group, ccd, pki>>

\* The address is looked for again, in the subnet read at the beginning.
Address(c) ==
    /\ pc[c] = "address"
    /\ IF Free(job[c].row.net) = {}
       THEN Leave(c) /\ unsettled' = unsettled \cup {Me(c)}
       ELSE /\ job' = [job EXCEPT ![c].ip = Lowest(Free(job[c].row.net))]
            /\ Goto(c, "newccd") /\ UNCHANGED <<lock, unsettled>>
    /\ UNCHANGED <<record, group, ccd, ovpn, pki>>

WriteCcd(c) ==
    /\ pc[c] = "newccd"
    /\ ccd' = [ccd EXCEPT ![Me(c)] = [exists |-> TRUE, ip |-> job[c].ip, off |-> FALSE]]
    /\ Goto(c, "store")
    /\ UNCHANGED <<record, group, ovpn, pki, lock, job, unsettled>>

(***************************************************************************)
(* Steps the calls share: the row, user_count, the mesh routes             *)
(***************************************************************************)

\* upsert_user of the record as it was read, with the call's change.
Store(c) ==
    /\ pc[c] = "store"
    /\ record' = [record EXCEPT ![Me(c)] = job[c].rec]
    /\ CASE job[c].op \in {"create", "delete", "change"} ->
              /\ Goto(c, "count")
              /\ unsettled' = IF job[c].op = "delete" THEN unsettled \ {Me(c)} ELSE unsettled
              /\ UNCHANGED <<job, lock>>
         [] job[c].op = "toggle" -> Goto(c, "switch") /\ UNCHANGED <<job, lock, unsettled>>
         [] job[c].op = "renew"  -> Goto(c, "reload") /\ UNCHANGED <<job, lock, unsettled>>
         [] job[c].op = "regenerate" -> Leave(c) /\ UNCHANGED unsettled
    /\ UNCHANGED <<group, ccd, ovpn, pki>>

\* _increment_group_user_count: get_group, then upsert_group.
ReadCount(c) ==
    /\ pc[c] = "count" /\ job[c].due # <<>>
    /\ LET row == group[Head(job[c].due)[1]] IN
       IF row.exists
       THEN job' = [job EXCEPT ![c].row = row] /\ Goto(c, "counted")
       ELSE job' = [job EXCEPT ![c].due = Tail(@)] /\ UNCHANGED pc
    /\ UNCHANGED <<record, group, ccd, ovpn, pki, lock, unsettled>>

\* Mutants: the floor is missing; a user who leaves is not counted off.
CountedDown(n, change) == IF change = "join" THEN n + 1 ELSE n - 1
CountedUp(n, change)   == IF change = "join" THEN n + 1 ELSE n

Counted(n, change) == IF change = "join" THEN n + 1 ELSE IF n = 0 THEN 0 ELSE n - 1

WriteCount(c) ==
    /\ pc[c] = "counted"
    /\ LET due == Head(job[c].due)
           row == job[c].row
       IN  group' = [group EXCEPT ![due[1]] = [row EXCEPT !.count = Counted(@, due[2])]]
    /\ job' = [job EXCEPT ![c].due = Tail(@), ![c].row = NoRow]
    /\ Goto(c, "count")
    /\ UNCHANGED <<record, ccd, ovpn, pki, lock, unsettled>>

\* create and change_group end with sync_all_mesh_push_routes_in_ccd, delete
\* with the refresh of the tags.  What they raise undoes nothing.
Finish(c) ==
    /\ pc[c] = "count" /\ job[c].due = <<>>
    /\ Leave(c)
    /\ UNCHANGED <<record, group, ccd, ovpn, pki, unsettled>>

\* What a call that ends at this step leaves between two stores.
Torn(c) ==
    CASE pc[c] \in {"profile", "address", "newccd", "switch", "serial"} -> {Me(c)}
      [] pc[c] = "store" /\ job[c].op \in {"create", "delete", "change", "renew"} -> {Me(c)}
      [] pc[c] = "reload" /\ job[c].op = "renew" -> {Me(c)}
      [] pc[c] \in {"count", "counted"} -> {job[c].due[i][1] : i \in DOMAIN job[c].due}
      [] OTHER -> {}

\* The database is busy or the disk is full: the call raises.
StoreFails(c) ==
    /\ pc[c] \in {"store", "count", "counted"} /\ "sql" \in Faults
    /\ unsettled' = unsettled \cup Torn(c)
    /\ Leave(c)
    /\ UNCHANGED <<record, group, ccd, ovpn, pki>>

(***************************************************************************)
(* delete                                                                  *)
(***************************************************************************)

\* Any row will do, one already marked deleted too.
Delete(c, u) ==
    /\ record[u].status \in Live \cup (IF Stale THEN {"deleted"} ELSE {})
    /\ Call(c, "revoke", [NoJob EXCEPT !.op = "delete", !.user = u,
                              !.rec = [record[u] EXCEPT !.status = "deleted"],
                              !.due = <<<<record[u].group, "leave">>>>])
    /\ UNCHANGED <<record, group, ccd, ovpn, pki, lock, unsettled>>

\* easyrsa revoke takes the certificate out of issued/.  It fails if there is none
\* there, because an earlier attempt revoked it, or for any other reason: delete
\* goes on all the same, CertService ends the call.
Revoke(c) ==
    /\ pc[c] = "revoke"
    /\ \/ /\ Me(c) \in issued
          /\ index' = [index EXCEPT ![Me(c)][Latest(Me(c))] = "R"]
          /\ issued' = issued \ {Me(c)}
          /\ Goto(c, "crl") /\ UNCHANGED <<job, lock, unrevoked>>
       \/ /\ Me(c) \notin issued \/ "pki" \in Faults
          /\ IF job[c].op = "delete"
             THEN /\ unrevoked' = unrevoked \cup ({Me(c)} \cap issued)
                  /\ Goto(c, "crl") /\ UNCHANGED <<job, lock>>
             ELSE Leave(c) /\ UNCHANGED unrevoked
          /\ UNCHANGED <<index, issued>>
    /\ UNCHANGED <<record, group, ccd, ovpn, crl, unsettled>>

Revoked == {e \in Users \X (1 .. MaxCerts) :
                e[2] <= Latest(e[1]) /\ index[e[1]][e[2]] = "R"}

\* Mutant: a failure of gen-crl is passed over.
GenCrlGoesOn(c) ==
    /\ pc[c] = "crl"
    /\ \/ crl' = Revoked
       \/ "crl" \in Faults /\ UNCHANGED crl
    /\ unrevoked' = {u \in unrevoked : <<u, Latest(u)>> \notin Revoked}
    /\ IF job[c].op = "delete" THEN Goto(c, "files") /\ UNCHANGED <<job, lock>> ELSE Leave(c)
    /\ UNCHANGED <<record, group, ccd, ovpn, index, issued, unsettled>>

\* Without a new crl.pem the deletion is aborted.
GenCrl(c) ==
    /\ pc[c] = "crl"
    /\ \/ /\ crl' = Revoked
          /\ unrevoked' = {u \in unrevoked : <<u, Latest(u)>> \notin Revoked}
          /\ IF job[c].op = "delete" THEN Goto(c, "files") /\ UNCHANGED <<job, lock>>
                                     ELSE Leave(c)
       \/ "crl" \in Faults /\ Leave(c) /\ UNCHANGED <<crl, unrevoked>>
    /\ UNCHANGED <<record, group, ccd, ovpn, index, issued, unsettled>>

\* The PKI files, unless the first line of the name says valid; the profile,
\* the CCD file, the device binding.
RemoveFiles(c) ==
    /\ pc[c] = "files"
    /\ issued' = IF Serial(Me(c)) = 0 \/ index[Me(c)][1] = "R" THEN issued \ {Me(c)} ELSE issued
    /\ ovpn' = [ovpn EXCEPT ![Me(c)] = 0]
    /\ ccd' = [ccd EXCEPT ![Me(c)] = NoCcd]
    /\ Goto(c, "store")
    /\ UNCHANGED <<record, group, index, crl, unrevoked, lock, job, unsettled>>

(***************************************************************************)
(* toggle_status, change_group                                             *)
(***************************************************************************)

Flip(status) == IF status = "active" THEN "disabled" ELSE "active"

ToggleStatus(c, u) ==
    /\ record[u].status \in Live
    /\ Call(c, "store", [NoJob EXCEPT !.op = "toggle", !.user = u,
                             !.rec = [record[u] EXCEPT !.status = Flip(@)]])
    /\ UNCHANGED <<record, group, ccd, ovpn, pki, lock, unsettled>>

\* _update_ccd_disable: a user without CCD file gets one to be refused by.
SwitchCcd(c) ==
    /\ pc[c] = "switch"
    /\ LET off == job[c].rec.status = "disabled" IN
       ccd' = [ccd EXCEPT ![Me(c)] = IF @.exists THEN [@ EXCEPT !.off = off]
                                     ELSE [@ EXCEPT !.exists = off, !.off = off]]
    /\ Leave(c)
    /\ UNCHANGED <<record, group, ovpn, pki, unsettled>>

\* The new address is looked for at once.
ChangeGroup(c, u, g) ==
    /\ record[u].status \in Live /\ record[u].group # g
    /\ group[g].exists /\ group[g].active /\ group[g].count < MaxCount
    /\ Free(group[g].net) # {}
    /\ Call(c, "move", [NoJob EXCEPT !.op = "change", !.user = u, !.to = g,
                            !.rec = [record[u] EXCEPT !.group = g],
                            !.ip = Lowest(Free(group[g].net)),
                            !.due = <<<<record[u].group, "leave">>, <<g, "join">>>>])
    /\ UNCHANGED <<record, group, ccd, ovpn, pki, lock, unsettled>>

\* Mutant: the file is written anew.
MoveCcdAnew(c) ==
    /\ pc[c] = "move"
    /\ ccd' = [ccd EXCEPT ![Me(c)] = [exists |-> TRUE, ip |-> job[c].ip, off |-> FALSE]]
    /\ Goto(c, "store")
    /\ UNCHANGED <<record, group, ovpn, pki, lock, job, unsettled>>

\* The address line is replaced, the others are kept.
MoveCcd(c) ==
    /\ pc[c] = "move"
    /\ ccd' = [ccd EXCEPT ![Me(c)].exists = TRUE, ![Me(c)].ip = job[c].ip]
    /\ Goto(c, "store")
    /\ UNCHANGED <<record, group, ovpn, pki, lock, job, unsettled>>

(***************************************************************************)
(* regenerate_ovpn, and CertService: revoke, renew                         *)
(***************************************************************************)

RegenerateOvpn(c, u) ==
    /\ record[u].status \in Live
    /\ Call(c, "reload", [NoJob EXCEPT !.op = "regenerate", !.user = u])
    /\ UNCHANGED <<record, group, ccd, ovpn, pki, lock, unsettled>>

RevokeCert(c, u) ==
    /\ u \in issued
    /\ Call(c, "revoke", [NoJob EXCEPT !.op = "revoke", !.user = u])
    /\ UNCHANGED <<record, group, ccd, ovpn, pki, lock, unsettled>>

\* easyrsa renew adds a line and leaves the old certificate valid.
Renew(c, u) ==
    /\ u \in issued /\ Latest(u) < MaxCerts
    /\ index' = [index EXCEPT ![u] = Append(@, "V")]
    /\ Call(c, "serial", [NoJob EXCEPT !.op = "renew", !.user = u])
    /\ UNCHANGED <<record, group, ccd, ovpn, issued, crl, unrevoked, lock, unsettled>>

\* A certificate without user, the server's for example, has no profile.
UpdateSerial(c) ==
    /\ pc[c] = "serial"
    /\ IF record[Me(c)].status = "none"
       THEN Leave(c)
       ELSE /\ job' = [job EXCEPT ![c].rec = [record[Me(c)] EXCEPT !.serial = Serial(Me(c))]]
            /\ Goto(c, "store") /\ UNCHANGED lock
    /\ UNCHANGED <<record, group, ccd, ovpn, pki, unsettled>>

\* Mutant: the profile is not written again after a renewal.
ReloadOnly(c) ==
    /\ pc[c] = "reload"
    /\ Leave(c)
    /\ UNCHANGED <<record, group, ccd, ovpn, pki, unsettled>>

\* The row is read, the profile written from what is under issued/, and the
\* row stored again with the path of the profile.
Reload(c) ==
    /\ pc[c] = "reload"
    /\ LET rec == record[Me(c)] IN
       \/ /\ rec.status \in Live /\ group[rec.group].exists /\ Me(c) \in issued
          /\ ovpn' = [ovpn EXCEPT ![Me(c)] = Latest(Me(c))]
          /\ job' = [job EXCEPT ![c].op = "regenerate", ![c].rec = rec]
          /\ Goto(c, "store") /\ UNCHANGED <<lock, unsettled>>
       \/ /\ ~(rec.status \in Live /\ group[rec.group].exists /\ Me(c) \in issued)
             \/ "pki" \in Faults
          /\ unsettled' = IF job[c].op = "renew" THEN unsettled \cup {Me(c)} ELSE unsettled
          /\ Leave(c) /\ UNCHANGED ovpn
    /\ UNCHANGED <<record, group, ccd, pki>>

(***************************************************************************)
(* GroupService                                                            *)
(***************************************************************************)

\* check_subnet_conflict: no other group but the root's covers an address.
Conflict(s, g) ==
    \E h \in Groups \ {g} :
        group[h].exists /\ group[h].net # RootNet /\ Hosts[s] \cap Hosts[group[h].net] # {}

\* Every operation reads the row, checks, and then writes the whole row.
Group(c, g, row) ==
    /\ Call(c, "group", [NoJob EXCEPT !.op = "group", !.to = g, !.row = row])
    /\ UNCHANGED <<record, group, ccd, ovpn, pki, lock, unsettled>>

CreateGroup(c, g, s) ==
    /\ ~group[g].exists /\ ~Conflict(s, g)
    /\ Group(c, g, [exists |-> TRUE, active |-> TRUE, net |-> s, count |-> 0])

\* Mutant: users of the group are not looked for.
UpdateSubnetAnyway(c, g, s) ==
    /\ group[g].exists /\ g # Root /\ ~Conflict(s, g)
    /\ Group(c, g, [group[g] EXCEPT !.net = s])

UpdateSubnet(c, g, s) ==
    /\ group[g].exists /\ g # Root /\ ~Conflict(s, g)
    /\ group[g].count = 0
    /\ Group(c, g, [group[g] EXCEPT !.net = s])

SetStatus(c, g) ==
    /\ group[g].exists
    /\ Group(c, g, [group[g] EXCEPT !.active = ~@])

DeleteGroup(c, g) ==
    /\ group[g].exists /\ g # Root
    /\ group[g].count = 0
    /\ Group(c, g, NoRow)

StoreGroup(c) ==
    /\ pc[c] = "group"
    /\ group' = [group EXCEPT ![job[c].to] = job[c].row]
    /\ Leave(c)
    /\ UNCHANGED <<record, ccd, ovpn, pki, unsettled>>

(***************************************************************************)
(* Specification                                                           *)
(***************************************************************************)

\* The process dies in the middle of its calls.
Crash ==
    /\ "crash" \in Faults /\ \E c \in Callers : pc[c] # "idle"
    /\ unsettled' = unsettled \cup UNION {Torn(c) : c \in Callers}
    /\ pc' = [c \in Callers |-> "idle"] /\ job' = [c \in Callers |-> NoJob]
    /\ lock' = NoCaller
    /\ UNCHANGED <<record, group, ccd, ovpn, pki>>

Start(c) ==
    \/ \E u \in Users :
           \/ Delete(c, u) \/ ToggleStatus(c, u) \/ RegenerateOvpn(c, u)
           \/ RevokeCert(c, u) \/ Renew(c, u)
           \/ \E g \in Groups : Create(c, u, g) \/ ChangeGroup(c, u, g)
    \/ \E g \in Groups :
           \/ SetStatus(c, g) \/ DeleteGroup(c, g)
           \/ \E s \in Subnets : CreateGroup(c, g, s) \/ UpdateSubnet(c, g, s)

Step(c) ==
    \/ Enter(c) \/ Sign(c) \/ Profile(c) \/ Address(c) \/ WriteCcd(c)
    \/ Store(c) \/ ReadCount(c) \/ WriteCount(c) \/ Finish(c) \/ StoreFails(c)
    \/ Revoke(c) \/ GenCrl(c) \/ RemoveFiles(c) \/ SwitchCcd(c) \/ MoveCcd(c)
    \/ UpdateSerial(c) \/ Reload(c) \/ StoreGroup(c)

Next == \/ \E c \in Callers : Start(c) \/ Step(c)
        \/ Crash

Spec == Init /\ [][Next]_vars

(***************************************************************************)
(* Properties                                                              *)
(***************************************************************************)

\* Every variable stays in its range.
TypeOK ==
    /\ record \in [Users -> Records]
    /\ group \in [Groups -> GroupRows]
    /\ ccd \in [Users -> Ccds] /\ ovpn \in [Users -> 0 .. MaxCerts]
    /\ index \in [Users -> Seq({"V", "R"})] /\ issued \subseteq Users
    /\ crl \subseteq Users \X (1 .. MaxCerts) /\ unrevoked \subseteq Users
    /\ lock \in Callers \cup {NoCaller}
    /\ pc \in [Callers -> Steps]
    /\ job \in [Callers -> Jobs]
    /\ unsettled \subseteq Users \cup Groups

\* No two CCD files fix the same address, whatever groups overlap (every
\* group lies within the root's) and however creates overlap in time
\* (crud.py:618-644, under _USER_CREATE_LOCK).
AddressesUnique ==
    \A u, v \in Users : u # v /\ ccd[u].ip # 0 => ccd[u].ip # ccd[v].ip

AtRest == \A c \in Callers : pc[c] = "idle"

Has(u) == record[u].status \in Live

\* When no call is running, a user's group exists and the CCD file fixes an
\* address of the group's subnet, unless a failure left the user or the group
\* unsettled (FR-011, FR-012: a group with users keeps its subnet and stays).
Placed ==
    AtRest => \A u \in Users \ unsettled :
        Has(u) /\ record[u].group \notin unsettled =>
            /\ group[record[u].group].exists
            /\ ccd[u].ip \in Hosts[group[record[u].group].net]

\* user_count, on which those two rules rest, is the number of users.
CountsMatch ==
    AtRest => \A g \in Groups \ unsettled :
        group[g].exists =>
            group[g].count = Cardinality({u \in Users : Has(u) /\ record[u].group = g})

\* A user is refused by the CCD file exactly while disabled, whatever calls
\* have rewritten the file since.
DisabledEnforced ==
    AtRest => \A u \in Users \ unsettled :
        Has(u) => (ccd[u].off <=> record[u].status = "disabled")

\* The newest certificate of a deleted user is revoked and in crl.pem, also
\* when the deletion had to be repeated after a failure or a crash; but for the
\* users whose revocation failed with the certificate there, which the deletion
\* passes over, until a later one succeeds (crud.py:245-261; spec.md:219, FR-007,
\* allows no such exception).
RevokedWhenDeleted ==
    AtRest => \A u \in Users \ (unsettled \cup unrevoked) :
        record[u].status = "deleted" =>
            /\ index[u][Latest(u)] = "R" /\ u \notin issued
            /\ <<u, Latest(u)>> \in crl

\* The profile a user can download holds the newest certificate of the name.
ProfileCurrent ==
    AtRest => \A u \in Users \ unsettled :
        Has(u) /\ u \in issued => ovpn[u] = Latest(u)

\* No group is deleted under its users (spec.md:227, FR-012).
GroupsKeepUsers == AtRest => \A u \in Users : Has(u) => group[record[u].group].exists
=============================================================================
