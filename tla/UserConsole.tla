---------------------------- MODULE UserConsole ----------------------------
(***************************************************************************)
(* The page of the users (UsersPage): its paged list, which drops a        *)
(* refresh while another one runs, the selection across pages, the actions *)
(* on one user and on the selection, and the two background jobs, creating *)
(* several users and importing a list, that a thread works off while a     *)
(* timer of the page polls it.  What a call of UserService does inside is  *)
(* UserAccounts' business: here it is one step that succeeds or raises.    *)
(***************************************************************************)
EXTENDS Naturals, FiniteSets, Sequences, SequencesExt, Subsequences

CONSTANTS
    Logins,        \* the names, numbers in their order
    Batches,       \* the lists of names one can enter for a job
    PageSizes,
    NoTable,       \* nothing shown: loading, empty or an error
    Nobody,        \* nothing under way
    MaxJobs, MaxChangesU, MaxFailsU

ASSUME UserConsoleAssumption ==
    /\ Logins \subseteq Nat /\ IsFiniteSet(Logins) /\ PageSizes \subseteq Nat \ {0}
    /\ Batches \subseteq Seq(Logins)
    /\ MaxJobs \in Nat /\ MaxChangesU \in Nat /\ MaxFailsU \in Nat

VARIABLES
    account,       \* SQLite: status of each login
    wanted,        \* page, page_size and filter of the page
    refresh,       \* the refresh that runs (_refresh_running), or Nobody
    table,         \* the grid as rendered and the query it answers
    gridRows,      \* all_grid_rows
    picked,        \* selected_users
    asking,        \* a grid handler that waits for the browser
    job,           \* kind -> the job the page knows of
    orphan,        \* a job whose page is gone, or Nobody
    report,        \* the last report of each kind
    jobs, turns, mishaps

userListVars == <<wanted, refresh, table, gridRows, picked, asking>>
userVars == <<account, userListVars, job, orphan, report, jobs, turns, mishaps>>

Kinds == {"create", "import"}
NoJob == [running |-> FALSE, todo |-> <<>>, created |-> <<>>, result |-> "none",
          made |-> {}]
NoReport == [ok |-> TRUE, created |-> {}, made |-> {}, failed |-> 0]

Existing  == {u \in Logins : account[u] # "none"}
Filtered(f) == IF f = "all" THEN Existing ELSE {u \in Existing : account[u] = "active"}
InOrderOf(S) == [i \in 1..Cardinality(S) |-> CHOOSE u \in S : PlaceIn(S, u) = i]
PageCount(f, size) ==
    LET n == Cardinality(Filtered(f)) IN IF n = 0 THEN 1 ELSE (n + size - 1) \div size
RowsOf(q) ==
    LET all == InOrderOf(Filtered(q.filter))
        end == q.page * q.size
    IN  SubSeq(all, (q.page - 1) * q.size + 1, IF end > Len(all) THEN Len(all) ELSE end)

StartRefresh(q) == [step |-> "timer", asked |-> q, rows |-> <<>>]

UserInit ==
    /\ account \in [Logins -> {"none", "active"}]
    /\ \E s \in PageSizes : wanted = [page |-> 1, size |-> s, filter |-> "all"]
    /\ refresh = StartRefresh(wanted)
    /\ table = NoTable /\ gridRows = <<>> /\ picked = {} /\ asking = Nobody
    /\ job = [k \in Kinds |-> NoJob] /\ orphan = Nobody
    /\ report = [k \in Kinds |-> NoReport]
    /\ jobs = 0 /\ turns = 0 /\ mishaps = 0

(***************************************************************************)
(* The list                                                                *)
(***************************************************************************)

\* _refresh_user_list after the page has come to want q: dropped while one runs.
RefreshList(q) ==
    /\ wanted' = q
    /\ IF refresh = Nobody
       THEN refresh' = StartRefresh(q) /\ table' = NoTable
       ELSE UNCHANGED <<refresh, table>>

\* The names of the groups are there: the query is put together, and what it does not
\* say of itself (the page) is read from the page as it is now.
RefreshQueries ==
    /\ refresh # Nobody /\ refresh.step = "timer"
    /\ refresh' = [refresh EXCEPT !.step = "read", !.asked = wanted]
    /\ UNCHANGED <<account, wanted, table, gridRows, picked, asking, job, orphan, report,
                   jobs, turns, mishaps>>

\* Past the last page the page itself moves to the last one, and reads it.
RefreshReads ==
    /\ refresh # Nobody /\ refresh.step = "read"
    /\ LET last == PageCount(refresh.asked.filter, wanted.size)
           page == IF wanted.page > last THEN last ELSE refresh.asked.page
           q == [refresh.asked EXCEPT !.page = page]
       IN  /\ wanted' = IF wanted.page > last THEN [wanted EXCEPT !.page = last]
                                              ELSE wanted
           /\ refresh' = [step |-> "rest", asked |-> q, rows |-> RowsOf(q)]
    /\ UNCHANGED <<account, table, gridRows, picked, asking, job, orphan, report,
                   jobs, turns, mishaps>>

\* Sessions, bindings, addresses are joined; those that fail only leave a warning.
RefreshDone ==
    /\ refresh # Nobody /\ refresh.step = "rest"
    /\ refresh' = Nobody /\ gridRows' = refresh.rows
    /\ table' = IF refresh.rows = <<>> /\ wanted.filter = "all" THEN NoTable
                ELSE [rows |-> refresh.rows, asked |-> refresh.asked]
    /\ UNCHANGED <<account, wanted, picked, asking, job, orphan, report, jobs, turns,
                   mishaps>>

RefreshFails ==
    /\ refresh # Nobody /\ mishaps < MaxFailsU /\ mishaps' = mishaps + 1
    /\ refresh' = Nobody /\ table' = NoTable
    /\ UNCHANGED <<account, wanted, gridRows, picked, asking, job, orphan, report, jobs,
                   turns>>

\* What a turn at the list changes besides: nothing.
ListTurn ==
    /\ turns < MaxChangesU /\ turns' = turns + 1
    /\ UNCHANGED <<account, gridRows, job, orphan, report, jobs, mishaps>>

ToPage(p) ==
    /\ table # NoTable /\ p # wanted.page /\ p <= PageCount(wanted.filter, wanted.size)
    /\ RefreshList([wanted EXCEPT !.page = p]) /\ ListTurn /\ UNCHANGED <<picked, asking>>

\* Mutant: the page that holds the first row shown is counted from zero.
ToSizeFromZero(s) ==
    /\ table # NoTable /\ s # wanted.size
    /\ RefreshList([wanted EXCEPT !.page = ((@ - 1) * wanted.size) \div s, !.size = s])
    /\ ListTurn /\ UNCHANGED <<picked, asking>>

ToSize(s) ==
    /\ table # NoTable /\ s # wanted.size
    /\ RefreshList([wanted EXCEPT !.page = ((@ - 1) * wanted.size) \div s + 1, !.size = s])
    /\ ListTurn /\ UNCHANGED <<picked, asking>>

TryAgain ==
    /\ table = NoTable /\ refresh = Nobody
    /\ RefreshList(wanted) /\ ListTurn /\ UNCHANGED <<picked, asking>>

\* The handlers of the grid ask the browser for its filter or its ticks ...
AskFilter(f) ==
    /\ table # NoTable /\ asking = Nobody
    /\ asking' = [about |-> "filter", answer |-> f]
    /\ ListTurn /\ UNCHANGED <<wanted, refresh, table, picked>>

AskTicks(S) ==
    /\ table # NoTable /\ asking = Nobody /\ S \subseteq ToSet(table.rows)
    /\ asking' = [about |-> "ticks", answer |-> S]
    /\ ListTurn /\ UNCHANGED <<wanted, refresh, table, picked>>

\* ... and take the answer for the page as it is by then.
Answered ==
    /\ asking # Nobody /\ asking' = Nobody
    /\ IF asking.about = "filter"
       THEN /\ IF asking.answer = wanted.filter
               THEN UNCHANGED <<wanted, refresh, table>>
               ELSE RefreshList([wanted EXCEPT !.filter = asking.answer, !.page = 1])
            /\ picked' = picked
       ELSE /\ picked' = (picked \ ToSet(gridRows)) \cup asking.answer
            /\ UNCHANGED <<wanted, refresh, table>>
    /\ UNCHANGED <<account, gridRows, job, orphan, report, jobs, turns, mishaps>>

\* The grid was taken away before it answered.
AnswerLost ==
    /\ asking # Nobody /\ table = NoTable /\ asking' = Nobody
    /\ UNCHANGED <<account, wanted, refresh, table, gridRows, picked, job, orphan, report,
                   jobs, turns, mishaps>>

(***************************************************************************)
(* One user, or the selection                                              *)
(***************************************************************************)

\* A call of UserService for each of `done`; the others are skipped or raise.
Called(new) ==
    /\ turns < MaxChangesU /\ turns' = turns + 1
    /\ account' = new
    /\ UNCHANGED <<gridRows, asking, job, orphan, report, jobs, mishaps>>

\* The panel of a user whose row is shown.
Offered(u) == u \in ToSet(gridRows) /\ u \in Existing

Flipped(s) == IF s = "active" THEN "disabled" ELSE "active"

\* Also behind 确定停用: what is confirmed is a toggle of the status as it is by then.
ToggleUser(u) ==
    /\ Offered(u)
    /\ Called([account EXCEPT ![u] = Flipped(@)])
    /\ RefreshList(wanted) /\ UNCHANGED picked

\* Deleting one user opens the page anew: its jobs lose their timers, not their threads.
DeleteUser(u) ==
    /\ Offered(u)
    /\ turns < MaxChangesU /\ turns' = turns + 1
    /\ account' = [account EXCEPT ![u] = "none"]
    /\ wanted' = [wanted EXCEPT !.page = 1, !.filter = "all"]
    /\ refresh' = StartRefresh(wanted')
    /\ table' = NoTable /\ gridRows' = <<>> /\ picked' = {} /\ asking' = Nobody
    /\ orphan = Nobody /\ Cardinality({k \in Kinds : job[k].running}) <= 1
    /\ orphan' = IF \E k \in Kinds : job[k].running
                 THEN job[CHOOSE k \in Kinds : job[k].running] ELSE Nobody
    /\ job' = [k \in Kinds |-> NoJob] /\ report' = [k \in Kinds |-> NoReport]
    /\ UNCHANGED <<jobs, mishaps>>

\* The current status is read again before the toggle; the selection stays.
BatchSetStatus(target, done) ==
    /\ picked # {} /\ done \subseteq {u \in picked \cap Existing : account[u] # target}
    /\ Called([u \in Logins |-> IF u \in done THEN Flipped(account[u]) ELSE account[u]])
    /\ RefreshList(wanted) /\ UNCHANGED picked

\* Kicking, changing the group: nothing this module keeps.
BatchOther ==
    /\ picked # {} /\ Called(account) /\ RefreshList(wanted) /\ picked' = picked

\* Resetting the device bindings drops the selection.
BatchReset ==
    /\ picked # {} /\ Called(account) /\ RefreshList(wanted) /\ picked' = {}

BatchDeleteUsers(done) ==
    /\ picked # {} /\ done \subseteq picked \cap Existing
    /\ Called([u \in Logins |-> IF u \in done THEN "none" ELSE account[u]])
    /\ picked' = {} /\ RefreshList(wanted)

\* The API or the command line.
OtherProcess(u) ==
    /\ turns < MaxChangesU /\ turns' = turns + 1
    /\ account' \in {[account EXCEPT ![u] = s] : s \in {"none", "active", "disabled"}}
    /\ UNCHANGED <<userListVars, job, orphan, report, jobs, mishaps>>

(***************************************************************************)
(* The jobs                                                                *)
(***************************************************************************)

\* validate_all: the lot or nothing, as far as it can be seen now.
Valid(names) == IsInjective(names) /\ ToSet(names) \cap Existing = {}

\* _do_create, _do_import: refused while one of the kind runs.
StartJob(k, names) ==
    /\ ~job[k].running /\ jobs < MaxJobs /\ jobs' = jobs + 1
    /\ k = "import" => Valid(names)
    /\ job' = [job EXCEPT ![k] = [NoJob EXCEPT !.running = TRUE, !.todo = names]]
    /\ UNCHANGED <<account, userListVars, orphan, report, turns, mishaps>>

Finished(j, result) == [j EXCEPT !.result = result]

\* Mutant: a name is counted before the user is created.
CreatedFirst(j) == [j EXCEPT !.todo = Tail(@), !.created = Append(@, Head(j.todo)),
                             !.result = "failed"]

\* create raises: the loop ends; the name is not counted.
CreateRaises(j) == Finished(j, "failed")

Created(j) == [j EXCEPT !.todo = Tail(@), !.created = Append(@, Head(j.todo)),
                        !.made = @ \cup {Head(j.todo)}]

\* What a turn of the thread of job j may do: what becomes of the job, whom it creates.
Outcomes(j) ==
    IF j.todo = <<>> THEN {[after |-> Finished(j, "ok"), new |-> {}, fault |-> 0]} ELSE
    LET name   == Head(j.todo)
        raised == [after |-> CreateRaises(j), new |-> {}, fault |-> 0]
        stored == [CreateRaises(j) EXCEPT !.made = @ \cup {name}]
    IN  IF account[name] # "none" THEN {raised}
        ELSE {[after |-> Created(j), new |-> {name}, fault |-> 0],
              [raised EXCEPT !.fault = 1],
              [after |-> stored, new |-> {name}, fault |-> 1]}

Work(j, o) ==
    /\ j.running /\ j.result = "none" /\ o \in Outcomes(j)
    /\ mishaps + o.fault <= MaxFailsU /\ mishaps' = mishaps + o.fault
    /\ account' = [u \in Logins |-> IF u \in o.new THEN "active" ELSE account[u]]

JobWorks(k) ==
    /\ \E o \in Outcomes(job[k]) :
         Work(job[k], o) /\ job' = [job EXCEPT ![k] = o.after]
    /\ UNCHANGED <<userListVars, orphan, report, jobs, turns>>

OrphanWorks ==
    /\ orphan # Nobody
    /\ \E o \in Outcomes(orphan) :
         /\ Work(orphan, o)
         /\ orphan' = IF o.after.result = "none" THEN o.after ELSE Nobody
    /\ UNCHANGED <<userListVars, job, report, jobs, turns>>

\* 成功 and 失败 of the summary; an interrupted job has failed with one name at least.
ReportOf(j) ==
    LET left == Len(j.todo)
    IN  [ok |-> j.result = "ok", created |-> ToSet(j.created), made |-> j.made,
         failed |-> IF j.result = "ok" THEN 0 ELSE IF left > 1 THEN left ELSE 1]

\* The timer: a result is taken, reported once, and the list read again.
PollJob(k) ==
    /\ job[k].running /\ job[k].result # "none"
    /\ report' = [report EXCEPT ![k] = ReportOf(job[k])]
    /\ job' = [job EXCEPT ![k] = NoJob]
    /\ RefreshList(wanted)
    /\ UNCHANGED <<account, gridRows, picked, asking, orphan, jobs, turns, mishaps>>

ListMoves ==
    \/ RefreshQueries \/ RefreshReads \/ RefreshDone \/ RefreshFails \/ TryAgain
    \/ \E p \in 1..Cardinality(Logins) : ToPage(p)
    \/ \E s \in PageSizes : ToSize(s)
    \/ \E f \in {"all", "active"} : AskFilter(f)
    \/ \E S \in SUBSET Logins : AskTicks(S)
    \/ Answered \/ AnswerLost

UserMoves ==
    \/ \E u \in Logins : ToggleUser(u) \/ DeleteUser(u) \/ OtherProcess(u)
    \/ \E S \in SUBSET Logins, t \in {"active", "disabled"} : BatchSetStatus(t, S)
    \/ \E S \in SUBSET Logins : BatchDeleteUsers(S)
    \/ BatchOther \/ BatchReset

JobMoves ==
    \/ \E k \in Kinds : JobWorks(k) \/ PollJob(k) \/ \E b \in Batches : StartJob(k, b)
    \/ OrphanWorks

UserNext == ListMoves \/ UserMoves \/ JobMoves

UserSpec == UserInit /\ [][UserNext]_userVars

(***************************************************************************)
(* Properties                                                              *)
(***************************************************************************)

\* Types; what runs, is shown or selected are logins.
UserTypeOK ==
    /\ account \in [Logins -> {"none", "active", "disabled"}]
    /\ wanted.page \in Nat \ {0} /\ wanted.size \in PageSizes
    /\ wanted.filter \in {"all", "active"}
    /\ ToSet(gridRows) \subseteq Logins /\ picked \subseteq Logins
    /\ \A k \in Kinds : /\ job[k].result \in {"none", "ok", "failed"}
                        /\ ToSet(job[k].created) \cup job[k].made \subseteq Logins
    /\ jobs \in 0..MaxJobs /\ turns \in 0..MaxChangesU /\ mishaps \in 0..MaxFailsU

\* A report of a job says what its thread has done: every name it counts was created by
\* that job, at most one name more was (by a call that stored the user and then raised),
\* and that only where the report calls the job interrupted.
ReportTrue ==
    \A k \in Kinds : LET r == report[k] IN
        /\ r.created \subseteq r.made
        /\ Cardinality(r.made \ r.created) <= (IF r.ok THEN 0 ELSE 1)
        /\ r.ok <=> r.failed = 0
=============================================================================
