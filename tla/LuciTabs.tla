------------------------------- MODULE LuciTabs -------------------------------
(***************************************************************************)
(* The older pages (resources/cbi.js): fields that leave the page when     *)
(* what they depend on does not hold, and come back to their place, and    *)
(* the tabs they stand in (tabs of resources/ui.js), which follow.  A      *)
(* page's tab is remembered for the session, for one page at a time.       *)
(***************************************************************************)
EXTENDS Integers, SequencesExt, FiniteSetsExt

CONSTANTS
  Forms,     \* pages: [pane, deps, stored] of their fields
  Pane,      \* panes of a page: 1..n
  Value, Nil

VARIABLES
  cbi,       \* the page there is
  val,       \* what its fields hold
  nodes,     \* the fields in each pane, as they stand
  tabs,      \* panes whose tab is displayed
  active,    \* the pane with data-tab-active
  loaded,    \* dependencies have been looked at
  passes,    \* passes the last update took
  remembered \* session data `tab': [page, tab]

vars == <<cbi, val, nodes, tabs, active, loaded, passes, remembered>>

FieldsOf(p) == 1..Len(p.pane)

-----------------------------------------------------------------------------
(* Dependencies                                                            *)

Shown(d, f) == Contains(d[cbi.pane[f]], f)

(* A field that is not on the page has the empty value.                    *)
cbi_d_checkvalue(d, c) == (IF Shown(d, c.on) THEN val[c.on] ELSE "") = c.is
cbi_d_check(d, f) ==
  \E alt \in cbi.deps[f] : (\A c \in alt.if : cbi_d_checkvalue(d, c)) # alt.reverse

(* Back before the first that has a higher index                           *)
Placed(seq, f) ==
  LET later == {i \in DOMAIN seq : seq[i] > f}
  IN InsertAt(seq, IF later = {} THEN Len(seq) + 1 ELSE Min(later), f)

(* A pass over the fields that have dependencies, last registered first,   *)
(* each seeing the page as the pass left it; passes until one does         *)
(* nothing.                                                                *)
Entries == SelectSeq([i \in 1..Len(cbi.pane) |-> Len(cbi.pane) + 1 - i],
                     LAMBDA f : cbi.deps[f] # {})
Pass(d) ==
  FoldLeft(LAMBDA e, f :
             CASE Shown(e, f) /\ ~cbi_d_check(e, f) ->
                    [e EXCEPT ![cbi.pane[f]] = SelectSeq(@, LAMBDA g : g # f)]
               [] ~Shown(e, f) /\ cbi_d_check(e, f) ->
                    [e EXCEPT ![cbi.pane[f]] = Placed(@, f)]
               [] OTHER -> e,
           d, Entries)
RECURSIVE Settle(_, _)
Settle(d, k) ==
  IF Pass(d) = d THEN [nodes |-> d, passes |-> k] ELSE Settle(Pass(d), k + 1)

-----------------------------------------------------------------------------
(* Tabs                                                                    *)

isEmptyPane(d, p) == d[p] = << >>
updateTabs(d) == tabs' = {p \in Pane : ~isEmptyPane(d, p)}

(* getActiveTabId, and what initTabGroup makes of it: an empty pane gives  *)
(* way to the first that is not.                                           *)
getActiveTabId(form) ==
  IF remembered # Nil /\ remembered.page = form THEN remembered.tab ELSE 1
initTabGroup(form, d) ==
  LET last == getActiveTabId(form)
      full == {p \in Pane : ~isEmptyPane(d, p)}
  IN IF last \in full \/ full = {} THEN last ELSE Min(full)
setActiveTabId(form, p) == remembered' = [page |-> form, tab |-> p]

(* cbi_d_update, at the end of which the tabs are told.                    *)
cbi_d_update ==
  LET done == Settle(nodes, 1)
  IN /\ nodes' = done.nodes /\ passes' = done.passes
     /\ updateTabs(done.nodes)

-----------------------------------------------------------------------------
(* A page is loaded with all its fields; the tabs are made before the      *)
(* dependencies are looked at.                                             *)
Load(form, stored) ==
  LET d == [p \in Pane |-> SelectSeq([f \in 1..Len(form.pane) |-> f], LAMBDA f : form.pane[f] = p)]
      first == initTabGroup(form, d)
  IN /\ cbi' = form /\ val' = stored
     /\ nodes' = d /\ passes' = 0
     /\ active' = first
     /\ setActiveTabId(form, first)
     /\ updateTabs(d)
     /\ loaded' = FALSE

(* What runs when the widgets have been rendered                           *)
cbi_init ==
  /\ cbi # Nil /\ ~loaded
  /\ cbi_d_update
  /\ loaded' = TRUE
  /\ UNCHANGED <<cbi, val, active, remembered>>

(* The user fills in a field, and the change is looked at.                 *)
Change(f, v) ==
  /\ loaded /\ Shown(nodes, f) /\ val[f] # v
  /\ val' = [val EXCEPT ![f] = v]
  /\ UNCHANGED <<cbi, nodes, tabs, active, passes, remembered>>
  /\ loaded' = FALSE

switchTab(p) ==
  /\ loaded /\ p \in tabs /\ p # active
  /\ active' = p
  /\ setActiveTabId(cbi, p)
  /\ UNCHANGED <<cbi, val, nodes, tabs, loaded, passes>>

(* The same page again, saved or not, or another.                          *)
Reload ==
  /\ loaded
  /\ \E stored \in {val} \cup cbi.stored : Load(cbi, stored)
Follow(form) ==
  /\ cbi = Nil \/ (loaded /\ form # cbi)
  /\ \E stored \in form.stored : Load(form, stored)

-----------------------------------------------------------------------------
Init ==
  /\ cbi = Nil /\ val = Nil /\ nodes = Nil /\ tabs = {} /\ active = Nil
  /\ loaded = FALSE /\ passes = 0 /\ remembered = Nil

Next ==
  \/ \E form \in Forms : Follow(form)
  \/ cbi_init \/ Reload
  \/ cbi # Nil /\ \E f \in FieldsOf(cbi), v \in Value : Change(f, v)
  \/ \E p \in Pane : switchTab(p)

Spec == Init /\ [][Next]_vars

-----------------------------------------------------------------------------
(* When the dependencies have been looked at, a field is on the page if    *)
(* and only if they hold for what is on the page, in the order of the      *)
(* form, a tab is displayed if its pane has a field, and no more passes    *)
(* were needed than there are fields.  The tab on the page is the one it   *)
(* had last time; it may be empty, because it is chosen before fields go.  *)
PageSettles ==
  loaded =>
    /\ \A f \in FieldsOf(cbi) : Shown(nodes, f) <=> (cbi.deps[f] = {} \/ cbi_d_check(nodes, f))
    /\ \A p \in Pane : \A i, j \in DOMAIN nodes[p] : i < j => nodes[p][i] < nodes[p][j]
    /\ tabs = {p \in Pane : nodes[p] # << >>}
    /\ passes <= Len(cbi.pane) + 1
    /\ active \notin tabs => \E f \in FieldsOf(cbi) : cbi.pane[f] = active
=============================================================================
