---------------------------- MODULE RuleConsole ----------------------------
(***************************************************************************)
(* The page of the centre rules (FirewallPage): its paged list, which is   *)
(* loaded in the background and may be overtaken by a newer load, its      *)
(* selection across pages, the mode in which priorities are dragged and    *)
(* saved, and the calls it makes of FirewallRuleService, next to another   *)
(* session that changes the same rules.                                    *)
(*                                                                         *)
(* SQLite is the priority of every rule (0: there is no such rule) and the *)
(* set of rules enabled; the rows that stand for peers are left out. What a*)
(* call of the service does inside is CenterRules' business: here it is one*)
(* step that succeeds or raises, and where it saves owner by owner it may  *)
(* have saved some of them when it raises. There are two owners: the one   *)
(* of Owned and another of the rest. The filter stands for column filters, *)
(* search and sorting: "all" shows everything by priority, "owner" the     *)
(* rules of one owner.                                                     *)
(***************************************************************************)
EXTENDS Naturals, FiniteSets, Sequences, SequencesExt, Subsequences

CONSTANTS
    RuleIds,      \* the rules there can be, numbers
    Owned,        \* those of the owner one can filter by
    Sizes,        \* page sizes to choose from
    Step,         \* distance of two priorities given in a row
    MaxPriority,
    BackupPrio,   \* the priorities in a backup file, 0: not in it
    NoGrid,       \* nothing is shown: loading, empty or an error
    NoRule,
    MaxLoads,     \* loads under way at once
    MaxEdits      \* changes of the store, by either session

ASSUME RuleConsoleAssumption ==
    /\ RuleIds \subseteq Nat /\ IsFiniteSet(RuleIds) /\ Owned \subseteq RuleIds
    /\ Sizes \subseteq Nat \ {0} /\ Sizes # {}
    /\ Step \in Nat \ {0} /\ MaxPriority \in Nat /\ MaxLoads \in Nat /\ MaxEdits \in Nat
    /\ BackupPrio \in [RuleIds -> 0..MaxPriority]

VARIABLES
    prio, enabled,          \* SQLite
    centre,                 \* _center_tab_active
    query,                  \* page, page size and filter the page wants
    busy,                   \* _center_refresh_running
    loads,                  \* loads under way
    rows, total,            \* _center_all_rows, ids in order; _center_total_rows
    raw,                    \* _center_raw_by_id: what was read of them
    grid,                   \* _center_display_rows as rendered, with their query
    reorder,                \* _center_reorder_mode
    pending, original,      \* the order being edited, the order it began with
    selected,               \* selected_rule_ids
    ticks,                  \* a selectionChanged handler that waits for the browser
    filtering,              \* a filterChanged handler that waits for the browser
    entering,               \* _enter_center_reorder_mode waits for the full list
    dialog,                 \* rule whose panel or form is open, as it was read
    importing,              \* _center_import_running: what is to be written
    edits,                  \* changes of the store so far
    odd                     \* history: what was not meant to happen, see below

store    == <<prio, enabled>>
listVars == <<query, busy, loads, rows, total, raw, grid>>
dragVars == <<reorder, pending, original, entering>>
formVars == <<dialog, importing>>
asked    == <<ticks, filtering>>
ruleVars == <<store, centre, listVars, dragVars, selected, asked, formVars,
              edits, odd>>

Queries == [page : 1..Cardinality(RuleIds), size : Sizes, filter : {"all", "owner"}]
Exists(r) == prio[r] > 0
TheRules == {r \in RuleIds : Exists(r)}
Orders  == BoundedSeq(RuleIds, Cardinality(RuleIds))

\* list_unified_flat: by priority, then by id.
Ahead(r, S) == {k \in S : prio[k] < prio[r] \/ (prio[k] = prio[r] /\ k < r)}
ByPriority(S) ==
    [i \in 1..Cardinality(S) |-> CHOOSE r \in S : Cardinality(Ahead(r, S)) = i - 1]

Matching(f) == IF f = "all" THEN TheRules ELSE TheRules \cap Owned

PagesOf(n, size) == IF n = 0 THEN 1 ELSE (n + size - 1) \div size

\* list_unified_page.
PageRows(q) ==
    LET all == ByPriority(Matching(q.filter))
        first == (q.page - 1) * q.size
    IN  SubSeq(all, first + 1, IF first + q.size > Len(all) THEN Len(all)
                                                            ELSE first + q.size)

\* What the page keeps of the rows it has read.
RawOf(S) == [r \in RuleIds |-> IF r \in S THEN [on |-> r \in enabled, prio |-> prio[r]]
                                          ELSE NoRule]

NoRaw == [r \in RuleIds |-> NoRule]

RuleInit ==
    /\ prio \in [RuleIds -> 0..MaxPriority]
    /\ \A r \in RuleIds : prio[r] \in {0, r * Step}
    /\ enabled = TheRules
    /\ centre = TRUE
    /\ query = [page |-> 1, size |-> CHOOSE s \in Sizes : TRUE, filter |-> "all"]
    /\ busy = TRUE
    /\ loads = {[step |-> "timer", current |-> TRUE, asked |-> query, rows |-> <<>>,
                 total |-> 0, raw |-> NoRaw]}
    /\ rows = <<>> /\ total = 0 /\ raw = NoRaw /\ grid = NoGrid
    /\ reorder = FALSE /\ pending = <<>> /\ original = <<>> /\ entering = NoRule
    /\ selected = {} /\ ticks = NoRule /\ filtering = NoRule
    /\ dialog = NoRule /\ importing = NoRule
    /\ edits = 0 /\ odd = {}

(***************************************************************************)
(* Loading a page of the list                                              *)
(***************************************************************************)

\* A new generation: older loads go on and no longer count; a timer that has not fired
\* yet goes with the container it was put in.
Overtaken == {[l EXCEPT !.current = FALSE] : l \in {k \in loads : k.step # "timer"}}

NewLoad(q) == [step |-> "timer", current |-> TRUE, asked |-> q, rows |-> <<>>,
               total |-> 0, raw |-> NoRaw]

\* _refresh_rules, with the query q from now on.
Reload(q) ==
    /\ query' = q
    /\ IF centre'
       THEN /\ Cardinality(Overtaken) < MaxLoads
            /\ loads' = Overtaken \cup {NewLoad(q)}
            /\ busy' = TRUE /\ grid' = NoGrid
       ELSE UNCHANGED <<loads, busy, grid>>
    /\ UNCHANGED <<rows, total, raw>>

Again == Reload(query)

Replaced(l, k) == loads' = (loads \ {l}) \cup {k}

\* The timer: the names of groups, peers and tags are asked for.
LoadBegins(l) ==
    /\ l \in loads /\ l.step = "timer"
    /\ Replaced(l, [l EXCEPT !.step = "names"])
    /\ UNCHANGED <<store, centre, query, busy, rows, total, raw, grid, dragVars, selected,
                   asked, formVars, edits, odd>>

\* The names are there, overtaken or not: the query is put together from what the page
\* wants now.
LoadNames(l) ==
    /\ l \in loads /\ l.step = "names"
    /\ Replaced(l, [l EXCEPT !.step = "read", !.asked = query])
    /\ UNCHANGED <<store, centre, query, busy, rows, total, raw, grid, dragVars, selected,
                   asked, formVars, edits, odd>>

\* What the rows for q, and their number, are now.
Answer(l, q) == [l EXCEPT !.step = "done", !.asked = q, !.rows = PageRows(q),
                          !.total = Cardinality(Matching(q.filter)),
                          !.raw = RawOf(ToSet(PageRows(q)))]

\* Past the last page: the page itself is put on the last one, whichever load
\* finds out, and the rows are read once more.
LoadPage(l) ==
    /\ l \in loads /\ l.step = "read"
    /\ LET last == PagesOf(Cardinality(Matching(l.asked.filter)), query.size)
       IN  IF query.page > last
           THEN /\ query' = [query EXCEPT !.page = last]
                /\ Replaced(l, [l EXCEPT !.step = "again"])
                /\ odd' = IF l.current THEN odd ELSE odd \cup {"clamped"}
           ELSE /\ Replaced(l, Answer(l, l.asked))
                /\ UNCHANGED <<query, odd>>
    /\ UNCHANGED <<store, centre, busy, rows, total, raw, grid, dragVars, selected, asked,
                   formVars, edits>>

LoadAgain(l) ==
    /\ l \in loads /\ l.step = "again"
    /\ LET q == [l.asked EXCEPT !.page = query.page, !.size = query.size]
       IN  Replaced(l, Answer(l, q))
    /\ UNCHANGED <<store, centre, query, busy, rows, total, raw, grid, dragVars, selected,
                   asked, formVars, edits, odd>>

\* Mutant: a load that was overtaken is shown all the same.
CountsAlways(l) == centre

\* The generation it was started for is still the page's.
Counts(l) == l.current /\ centre

\* The pending order of the rows there are, then the rows that are new.
Arranged(all) ==
    LET kept == Subsequence(pending, {i \in DOMAIN pending : pending[i] \in ToSet(all)})
        fresh == Subsequence(all, {i \in DOMAIN all : all[i] \notin ToSet(kept)})
    IN  kept \o fresh

\* _render_center_rules for the rows `all`; q is the query they answer.
Render(all, q) ==
    /\ pending' = IF reorder' THEN Arranged(all) ELSE pending
    /\ grid' = IF all = <<>> THEN NoGrid
               ELSE [rows |-> IF reorder' THEN Arranged(all) ELSE all, asked |-> q]

LoadDone(l) ==
    /\ l \in loads /\ l.step = "done"
    /\ loads' = loads \ {l}
    /\ IF Counts(l)
       THEN /\ busy' = FALSE /\ rows' = l.rows /\ total' = l.total
            /\ raw' = l.raw
            /\ reorder' = reorder /\ Render(l.rows, l.asked)
            /\ odd' = IF reorder THEN odd \cup {"partial"} ELSE odd
       ELSE UNCHANGED <<busy, rows, total, raw, reorder, pending, grid, odd>>
    /\ UNCHANGED <<store, centre, query, original, entering, selected, asked, formVars,
                   edits>>

\* The values to filter by or the rows cannot be read.
LoadFails(l) ==
    /\ l \in loads /\ l.step \notin {"timer", "done"}
    /\ loads' = loads \ {l}
    /\ IF l.current
       THEN busy' = FALSE /\ rows' = <<>> /\ total' = 0 /\ grid' = NoGrid
       ELSE UNCHANGED <<busy, rows, total, grid>>
    /\ UNCHANGED <<store, centre, query, raw, dragVars, selected, asked, formVars,
                   edits, odd>>

LoadStep == \E l \in loads : LoadBegins(l) \/ LoadNames(l) \/ LoadPage(l) \/ LoadAgain(l)
                             \/ LoadDone(l) \/ LoadFails(l)

(***************************************************************************)
(* Paging, filtering, the tabs                                             *)
(***************************************************************************)

Shown == grid # NoGrid
Listing == centre /\ Shown /\ ~reorder

\* As many pages as the last load counted rows for.
ChangePage(p) ==
    /\ Listing /\ p # query.page /\ p <= PagesOf(total, query.size)
    /\ centre' = centre /\ Reload([query EXCEPT !.page = p])
    /\ UNCHANGED <<store, dragVars, selected, asked, formVars, edits, odd>>

\* page_after_size_change: the first row shown stays in view.
PageAfter(q, s) == ((q.page - 1) * q.size) \div s + 1

ChangeSize(s) ==
    /\ Listing /\ s # query.size
    /\ centre' = centre
    /\ Reload([query EXCEPT !.page = PageAfter(query, s), !.size = s])
    /\ UNCHANGED <<store, dragVars, selected, asked, formVars, edits, odd>>

Narrow(f) == Reload([query EXCEPT !.page = 1, !.filter = f])

\* The search field.
ChangeSearch(f) ==
    /\ centre /\ ~reorder /\ f # query.filter
    /\ centre' = centre /\ Narrow(f)
    /\ UNCHANGED <<store, dragVars, selected, asked, formVars, edits, odd>>

\* A column filter or the sort order: the browser is asked what is set ...
ChangeFilter(f) ==
    /\ Listing /\ filtering = NoRule /\ filtering' = f
    /\ UNCHANGED <<store, centre, listVars, dragVars, selected, ticks, formVars, edits,
                   odd>>

\* ... and its answer is put in, whatever mode the page is in by then.
FilterRead ==
    /\ filtering # NoRule /\ filtering' = NoRule
    /\ centre' = centre
    /\ IF filtering = query.filter THEN UNCHANGED listVars ELSE Narrow(filtering)
    /\ UNCHANGED <<store, dragVars, selected, ticks, formVars, edits, odd>>

FilterLost ==
    /\ filtering # NoRule /\ filtering' = NoRule
    /\ UNCHANGED <<store, centre, listVars, dragVars, selected, ticks, formVars, edits,
                   odd>>

ClearFilters ==
    /\ centre /\ ~Shown /\ ~busy /\ query.filter # "all" /\ rows = <<>>
    /\ centre' = centre
    /\ Reload([query EXCEPT !.page = 1, !.filter = "all"])
    /\ UNCHANGED <<store, dragVars, selected, asked, formVars, edits, odd>>

\* The retry button of a failed load.
Retry ==
    /\ centre /\ ~Shown /\ ~busy /\ centre' = centre /\ Again
    /\ UNCHANGED <<store, dragVars, selected, asked, formVars, edits, odd>>

\* Leaving drops an unsaved order and the selection; a load under way is void.
LeaveCentre ==
    /\ centre /\ centre' = FALSE
    /\ reorder' = FALSE
    /\ IF reorder THEN pending' = <<>> /\ original' = <<>>
                  ELSE UNCHANGED <<pending, original>>
    /\ busy' = FALSE /\ selected' = {}
    /\ loads' = {[l EXCEPT !.current = FALSE] : l \in loads}
    /\ UNCHANGED <<store, query, rows, total, raw, grid, entering, asked, formVars, edits,
                   odd>>

EnterCentre ==
    /\ ~centre /\ centre' = TRUE /\ Again
    /\ UNCHANGED <<store, dragVars, selected, asked, formVars, edits, odd>>

(***************************************************************************)
(* Selecting rules across pages                                            *)
(***************************************************************************)

InRows == ToSet(rows)

\* The browser is asked which rows of the page are ticked ...
Tick(S) ==
    /\ Listing /\ ticks = NoRule /\ S \subseteq ToSet(grid.rows)
    /\ ticks' = S
    /\ UNCHANGED <<store, centre, listVars, dragVars, selected, filtering, formVars, edits,
                   odd>>

\* ... and its answer replaces what was selected of the rows there are now.
Ticked ==
    /\ ticks # NoRule
    /\ selected' = (selected \ InRows) \cup ticks
    /\ ticks' = NoRule
    /\ UNCHANGED <<store, centre, listVars, dragVars, filtering, formVars, edits,
                   odd>>

\* The grid is gone before it answers.
TickLost ==
    /\ ticks # NoRule /\ ~Shown
    /\ ticks' = NoRule
    /\ UNCHANGED <<store, centre, listVars, dragVars, selected, filtering, formVars, edits,
                   odd>>

(***************************************************************************)
(* Dragging priorities                                                     *)
(***************************************************************************)

EnterReorder ==
    /\ centre /\ ~reorder /\ query.filter = "all" /\ entering = NoRule
    /\ entering' = [read |-> FALSE, rows |-> <<>>, raw |-> NoRaw]
    /\ UNCHANGED <<store, centre, listVars, reorder, pending, original, selected,
                   asked, formVars, edits, odd>>

\* A thread reads every rule, and replaces what the page keeps of them at once.
EnterRead ==
    /\ entering # NoRule /\ ~entering.read
    /\ entering' = [read |-> TRUE, rows |-> ByPriority(TheRules), raw |-> RawOf(TheRules)]
    /\ raw' = RawOf(TheRules)
    /\ UNCHANGED <<store, centre, query, busy, loads, rows, total, grid, reorder,
                   pending, original, selected, asked, formVars, edits, odd>>

EnterDone ==
    /\ entering # NoRule /\ entering.read
    /\ entering' = NoRule
    /\ IF entering.rows = <<>>
       THEN UNCHANGED <<rows, total, raw, original, pending, reorder, selected, grid, odd>>
       ELSE /\ rows' = entering.rows /\ raw' = entering.raw
            /\ total' = Len(entering.rows)
            /\ original' = entering.rows /\ reorder' = TRUE /\ selected' = {}
            /\ IF centre /\ ~busy
               THEN /\ pending' = entering.rows
                    /\ grid' = [rows |-> entering.rows, asked |-> query]
                    /\ odd' = odd
               ELSE /\ pending' = entering.rows /\ grid' = grid
                    /\ odd' = odd \cup {"midload"}
    /\ UNCHANGED <<store, centre, query, busy, loads, asked, formVars, edits>>

EnterFails ==
    /\ entering # NoRule /\ ~entering.read
    /\ entering' = NoRule
    /\ UNCHANGED <<store, centre, listVars, reorder, pending, original, selected, asked,
                   formVars, edits, odd>>

ReorderOff == reorder' = FALSE /\ pending' = <<>> /\ original' = <<>>

Dragging == reorder /\ centre

CancelReorder ==
    /\ Dragging /\ ReorderOff
    /\ centre' = centre /\ Again
    /\ UNCHANGED <<store, entering, selected, asked, formVars, edits, odd>>

\* move_order.
Moved(s, i, j) == InsertAt(RemoveAt(s, i), j, s[i])

Drag(i, j) ==
    /\ Dragging /\ Shown /\ i # j
    /\ {i, j} \subseteq DOMAIN pending /\ pending[i] \in ToSet(grid.rows)
    /\ pending' = Moved(pending, i, j)
    /\ grid' = [grid EXCEPT !.rows =
                  Subsequence(pending', {k \in DOMAIN pending' : pending'[k] \in InRows})]
    /\ UNCHANGED <<store, centre, query, busy, loads, rows, total, raw, reorder, original,
                   entering, selected, asked, formVars, edits, odd>>

\* The order covers the rows the page holds, each once.
OrderFits ==
    /\ pending # <<>> /\ Len(pending) = Cardinality(InRows)
    /\ ToSet(pending) = InRows

\* _reorder_unified_global: the i-th gets i * Step; a rule not in the order, or gone,
\* is left as it is.
InOrder(order) ==
    [r \in RuleIds |-> IF Exists(r) /\ r \in ToSet(order)
                       THEN Step * CHOOSE i \in DOMAIN order : order[i] = r
                       ELSE prio[r]]

\* An order that did not change is not written.  Once it is, it is an order again,
\* whatever an earlier attempt left behind.
SaveReorder ==
    /\ Dragging /\ OrderFits
    /\ IF pending = original
       THEN prio' = prio /\ edits' = edits /\ odd' = odd
       ELSE prio' = InOrder(pending) /\ edits' = edits + 1 /\ odd' = odd \ {"halfway"}
    /\ edits' <= MaxEdits
    /\ ReorderOff
    /\ centre' = centre /\ Again
    /\ UNCHANGED <<enabled, entering, selected, asked, formVars>>

\* The owners whose rules are saved when one save, or the way back, raises.
SomeOwners == {UNION S : S \in SUBSET {Owned, RuleIds \ Owned}}

\* The order is kept to be saved again.
SaveFails(saved) ==
    /\ Dragging /\ OrderFits /\ pending # original
    /\ prio' = [r \in RuleIds |-> IF r \in saved THEN InOrder(pending)[r] ELSE prio[r]]
    /\ edits < MaxEdits /\ edits' = edits + 1
    /\ odd' = IF prio' \in {prio, InOrder(pending)} THEN odd ELSE odd \cup {"halfway"}
    /\ UNCHANGED <<enabled, centre, listVars, dragVars, selected, asked, formVars>>

(***************************************************************************)
(* Changing rules                                                          *)
(***************************************************************************)

\* What a change of the store in this page ends with.  A call that raises leaves
\* everything as it is.
Saved ==
    /\ edits < MaxEdits /\ edits' = edits + 1
    /\ centre' = centre /\ Again

\* A rule that appears while an order is edited is not part of the order.
Appears == odd' = IF reorder \/ entering # NoRule THEN odd \cup {"grew"} ELSE odd

\* Mutant: the priority of a disabled rule counts as free.
TakenByEnabled(p, S) == \E r \in S \cap enabled : prio[r] = p

Taken(p, S) == \E r \in S : prio[r] = p

\* The form's priority is one that nobody has: create and update_by_id check it.
CreateRule(r, p) ==
    /\ centre /\ ~Exists(r) /\ ~Taken(p, TheRules)
    /\ prio' = [prio EXCEPT ![r] = p] /\ enabled' = enabled \cup {r}
    /\ Saved /\ Appears
    /\ UNCHANGED <<dragVars, selected, asked, formVars>>

OpenRule(r) ==
    /\ centre /\ Shown /\ r \in ToSet(grid.rows) /\ dialog = NoRule
    /\ raw[r] # NoRule
    /\ dialog' = [rule |-> r, on |-> raw[r].on, prio |-> raw[r].prio]
    /\ UNCHANGED <<store, centre, listVars, dragVars, selected, asked, importing,
                   edits, odd>>

CloseRule ==
    /\ dialog # NoRule /\ dialog' = NoRule
    /\ UNCHANGED <<store, centre, listVars, dragVars, selected, asked, importing,
                   edits, odd>>

SetEnabled(r, on) == enabled' = IF on THEN enabled \cup {r} ELSE enabled \ {r}

\* 启用 / 停用: the opposite of what was read.
ToggleRule ==
    /\ dialog # NoRule /\ Exists(dialog.rule)
    /\ SetEnabled(dialog.rule, ~dialog.on) /\ prio' = prio
    /\ dialog' = NoRule /\ Saved
    /\ UNCHANGED <<dragVars, selected, asked, importing, odd>>

DeleteRule ==
    /\ dialog # NoRule /\ Exists(dialog.rule)
    /\ prio' = [prio EXCEPT ![dialog.rule] = 0] /\ enabled' = enabled \ {dialog.rule}
    /\ dialog' = NoRule /\ Saved
    /\ UNCHANGED <<dragVars, selected, asked, importing, odd>>

\* The form shows the rule as it was read; here one field of it is changed.
FormHolds(p, on) ==
    /\ p \in {dialog.prio} \cup 1..MaxPriority
    /\ p = dialog.prio \/ on = dialog.on

\* It is saved over the whole rule, changed fields or not.
EditRule(p, on) ==
    /\ dialog # NoRule /\ centre /\ Exists(dialog.rule) /\ FormHolds(p, on)
    /\ ~Taken(p, TheRules \ {dialog.rule})
    /\ prio' = [prio EXCEPT ![dialog.rule] = p] /\ SetEnabled(dialog.rule, on)
    /\ dialog' = NoRule /\ Saved
    /\ UNCHANGED <<dragVars, selected, asked, importing, odd>>

\* One after the other; some calls may raise.
BatchDelete(gone) ==
    /\ centre /\ selected # {} /\ gone \subseteq selected \cap TheRules
    /\ prio' = [r \in RuleIds |-> IF r \in gone THEN 0 ELSE prio[r]]
    /\ enabled' = enabled \ gone
    /\ selected' = {} /\ Saved
    /\ UNCHANGED <<dragVars, asked, formVars, odd>>

\* A rule the page believes to be so already is skipped.
BatchSetEnabled(on, done) ==
    /\ centre /\ selected # {}
    /\ done \subseteq {r \in selected \cap TheRules : raw[r] = NoRule \/ raw[r].on # on}
    /\ enabled' = (IF on THEN enabled \cup done ELSE enabled \ done) /\ prio' = prio
    /\ selected' = {} /\ Saved
    /\ UNCHANGED <<dragVars, asked, formVars, odd>>

(***************************************************************************)
(* Import                                                                  *)
(***************************************************************************)

HighestOf(S) == IF S = {} THEN 0 ELSE CHOOSE p \in {prio[r] : r \in S} :
                                         \A r \in S : prio[r] <= p

\* Lines to append to the owner filtered by: their priorities follow the highest.
ImportLines(new) ==
    /\ centre /\ importing = NoRule /\ query.filter = "owner"
    /\ new # {} /\ new \subseteq Owned \ TheRules
    /\ importing' = [r \in new |-> HighestOf(TheRules)
                                   + Step * Cardinality({k \in new : k <= r})]
    /\ \A r \in new : importing'[r] <= MaxPriority
    /\ UNCHANGED <<store, centre, listVars, dragVars, selected, asked, dialog, edits, odd>>

\* create_many refuses the lot if one of the priorities is taken by now.
Unused(given) == \A r \in DOMAIN given : ~Exists(r) /\ ~Taken(given[r], TheRules)

ImportWritten ==
    /\ importing # NoRule /\ Unused(importing)
    /\ prio' = [r \in RuleIds |-> IF r \in DOMAIN importing THEN importing[r]
                                                            ELSE prio[r]]
    /\ enabled' = enabled \cup DOMAIN importing
    /\ importing' = NoRule /\ Saved /\ Appears
    /\ UNCHANGED <<dragVars, selected, asked, dialog>>

ImportFails ==
    /\ importing # NoRule /\ importing' = NoRule
    /\ UNCHANGED <<store, centre, listVars, dragVars, selected, asked, dialog, edits, odd>>

\* A backup replaces the rules of the owners it has rules of; others stay beside it.
InFile == {r \in RuleIds : BackupPrio[r] > 0}
Covered == (IF InFile \cap Owned # {} THEN Owned ELSE {})
           \cup (IF InFile \ Owned # {} THEN RuleIds \ Owned ELSE {})

\* The rules of S are replaced by those of the backup.
PutBack(S) ==
    /\ centre /\ importing = NoRule /\ InFile # {}
    /\ prio' = [r \in RuleIds |-> IF r \in S THEN BackupPrio[r] ELSE prio[r]]
    /\ enabled' = (enabled \ S) \cup (InFile \cap S)
    /\ odd' = odd \cup (IF S = {} \/ TheRules \subseteq S THEN {} ELSE {"beside"})
                  \cup (IF reorder \/ entering # NoRule THEN {"grew"} ELSE {})
    /\ UNCHANGED <<dragVars, selected, asked, formVars>>

Restore == PutBack(Covered) /\ Saved

\* A save, a peer or the way back fails: the owners saved by then stay replaced.
RestoreFails(saved) ==
    /\ PutBack(Covered \cap saved)
    /\ edits < MaxEdits /\ edits' = edits + 1
    /\ UNCHANGED <<centre, listVars>>

(***************************************************************************)
(* The other session, through the same service                             *)
(***************************************************************************)

OtherChanges(r) ==
    /\ edits < MaxEdits /\ edits' = edits + 1
    /\ \/ /\ ~Exists(r) /\ HighestOf(TheRules) + Step <= MaxPriority
          /\ prio' = [prio EXCEPT ![r] = HighestOf(TheRules) + Step]
          /\ enabled' = enabled \cup {r} /\ Appears
       \/ /\ Exists(r) /\ prio' = [prio EXCEPT ![r] = 0] /\ enabled' = enabled \ {r}
          /\ odd' = odd
       \/ /\ Exists(r) /\ SetEnabled(r, r \notin enabled) /\ UNCHANGED <<prio, odd>>
    /\ UNCHANGED <<centre, listVars, dragVars, selected, asked, formVars>>

ListStep ==
    \/ LoadStep
    \/ \E p \in 1..Cardinality(RuleIds) : ChangePage(p)
    \/ \E s \in Sizes : ChangeSize(s)
    \/ \E f \in {"all", "owner"} : ChangeSearch(f) \/ ChangeFilter(f)
    \/ FilterRead \/ FilterLost \/ ClearFilters \/ Retry \/ LeaveCentre \/ EnterCentre
    \/ \E S \in SUBSET RuleIds : Tick(S)
    \/ Ticked \/ TickLost

DragStep ==
    \/ EnterReorder \/ EnterRead \/ EnterDone \/ EnterFails
    \/ CancelReorder \/ SaveReorder
    \/ \E saved \in SomeOwners : SaveFails(saved)
    \/ \E i, j \in DOMAIN pending : Drag(i, j)

ChangeStep ==
    \/ \E r \in RuleIds, p \in 1..MaxPriority : CreateRule(r, p)
    \/ \E r \in RuleIds : OpenRule(r) \/ OtherChanges(r)
    \/ \E p \in 1..MaxPriority, on \in BOOLEAN : EditRule(p, on)
    \/ CloseRule \/ ToggleRule \/ DeleteRule
    \/ \E S \in SUBSET RuleIds : BatchDelete(S) \/ ImportLines(S)
    \/ \E S \in SUBSET RuleIds, on \in BOOLEAN : BatchSetEnabled(on, S)
    \/ ImportWritten \/ ImportFails \/ Restore
    \/ \E saved \in SomeOwners : RestoreFails(saved)

RuleNext == ListStep \/ DragStep \/ ChangeStep

RuleSpec == RuleInit /\ [][RuleNext]_ruleVars

(***************************************************************************)
(* Properties                                                              *)
(***************************************************************************)

Snapshots == [on : BOOLEAN, prio : Nat] \cup {NoRule}

\* Types; what is selected, shown or dragged are rules.
RuleTypeOK ==
    /\ prio \in [RuleIds -> Nat] /\ enabled \subseteq RuleIds
    /\ {centre, busy, reorder} \subseteq BOOLEAN
    /\ query.page \in Nat \ {0} /\ query.size \in Sizes /\ query.filter \in {"all", "owner"}
    /\ \A l \in loads : l.step \in {"timer", "names", "read", "again", "done"}
                        /\ ToSet(l.rows) \subseteq RuleIds
    /\ {ToSet(rows), ToSet(pending), ToSet(original), selected} \subseteq SUBSET RuleIds
    /\ raw \in [RuleIds -> Snapshots] /\ total \in Nat
    /\ filtering \in {NoRule, "all", "owner"}
    /\ odd \subseteq {"clamped", "partial", "midload", "grew", "beside", "halfway"}
    /\ edits \in 0..MaxEdits

\* The list: while the spinner turns there is a load that will replace it, and rows
\* that are shown answer the page, page size and filter the page stands at, whatever
\* loads were overtaken on the way (unless one of those moved the page number).
ListAsAsked ==
    "clamped" \notin odd /\ centre =>
        /\ busy => \E l \in loads : l.current
        /\ Shown /\ ~reorder => grid.asked = query

\* No two rules of the centre have the same priority, whichever writer was the last and
\* whatever came in between.  It may end when a page was dragged for the whole list, a
\* rule appeared while an order was edited, or a backup was restored beside rules it does
\* not replace; and while an order is saved for some owners only, until it is saved after
\* all: whatever the failed attempt left, saving again puts it right.
PrioritiesDistinct ==
    odd \cap {"partial", "midload", "grew", "beside", "halfway"} = {} =>
        \A r, k \in TheRules : prio[r] = prio[k] => r = k

\* What _render_center_rules says: in the mode that drags priorities the complete list
\* of rules is rendered, not a page of it (seen by a session that is alone and entered
\* the mode while no page was loading).
DragsWholeList ==
    (odd \cap {"grew", "midload"} = {} /\ reorder /\ centre /\ ~busy /\ Shown)
        => TheRules \subseteq ToSet(grid.rows)
=============================================================================
