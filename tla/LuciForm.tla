------------------------------ MODULE LuciForm ------------------------------
(***************************************************************************)
(* A page's form (resources/form.js): a grid of sections that are added,   *)
(* removed, dragged, sorted and edited in a dialog, fields that depend on  *)
(* one another, and what a save writes.  The page's copy of the            *)
(* configuration is one table here: LuciUci shows that its layers are one. *)
(* One save is under way at a time; its dialog can be dismissed, and       *)
(* others opened, before it ends.                                          *)
(***************************************************************************)
EXTENDS Integers, SequencesExt, FiniteSetsExt, Subsequence

CONSTANTS
  Shapes,    \* forms: [uci, deps, required, retain, hidden, onMap, stored]
  Field,     \* fields in the order they were declared: 1..n
  Key,       \* options of a section
  Value, Bad,\* what can be entered; Bad fails its datatype
  Old, New,  \* sections there are, and one that is added
  MaxSteps, Nil

VARIABLES
  shape,
  store,     \* the page's copy: [order, opts]
  server,    \* the configuration as the server has it
  rows,      \* sections in the table
  dialog,    \* the modal map and its fields, Nil if there is none
  added,     \* addedSection
  saving,    \* the save under way
  sorting,   \* the order handleSort puts the rows in at the next frame
  redrawn,   \* the table was drawn anew before that frame
  astray,    \* history: rows were moved among ones that are gone
  steps      \* bound

vars == <<shape, store, server, rows, dialog, added, saving, sorting, redrawn, astray, steps>>

Sid == Old \cup {New}
NoOptions == [k \in Key |-> Nil]

(* A copy of the configuration, and an open dialog.                        *)
Copy == [order : Seq(Sid), opts : [Sid -> [Key -> Value \cup {Nil}]]]
Dialog == [sid : Sid, val : [Field -> Value \cup {Nil}], cval : [Field -> Value \cup {Nil}],
           active : [Field -> BOOLEAN], ok : [Field -> BOOLEAN],
           before : Copy, refused : BOOLEAN, overtaken : BOOLEAN]

-----------------------------------------------------------------------------
(* Dependencies                                                            *)

(* isDependencySatisfied: one of the alternatives, each a set of           *)
(* conditions or its reverse; a field that is hidden has no value.         *)
Holds(form, c) == (IF form.active[c.on] THEN form.val[c.on] ELSE Nil) = c.is
isDependencySatisfied(form, f) ==
  \/ shape.deps[f] = {}
  \/ \E alt \in shape.deps[f] : (\A c \in alt.if : Holds(form, c)) # alt.reverse

Required(f) == f \in shape.required
IsValid(val, f) == val # Bad /\ (val = Nil => ~Required(f))

(* One pass over the fields, each seeing what the pass did before it.      *)
Visited(form, f, first) ==
  LET sat == isDependencySatisfied(form, f)
  IN [form EXCEPT !.active[f] = sat,
                  !.ok[f] = IF first /\ sat THEN IsValid(form.val[f], f) ELSE @]
Pass(form, first) ==
  LET after[f \in 0..Cardinality(Field)] ==
        IF f = 0 THEN form ELSE Visited(after[f - 1], f, first)
  IN after[Cardinality(Field)]

(* A pass that changed something is followed by a second, and never by a   *)
(* third: the count starts at ten.                                         *)
checkDepends(form) ==
  LET once == Pass(form, TRUE)
  IN IF once.active # form.active THEN Pass(once, FALSE) ELSE once

-----------------------------------------------------------------------------
(* What a save writes                                                      *)

(* remove(): not while a sibling of the same option is shown.              *)
Sibling(form, f) == \E g \in Field \ {f} : shape.uci[g] = shape.uci[f] /\ form.active[g]
Removed_Always(opts, form, f) == [opts EXCEPT ![shape.uci[f]] = Nil]
Removed(opts, form, f) ==
  IF Sibling(form, f) THEN opts ELSE [opts EXCEPT ![shape.uci[f]] = Nil]

Parsed(opts, form, f) ==
  LET val == form.val[f]
  IN CASE form.active[f] /\ form.ok[f] /\ val # Nil /\ val # form.cval[f] ->
            [opts EXCEPT ![shape.uci[f]] = val]
       [] form.active[f] /\ form.ok[f] /\ val = Nil /\ ~Required(f) ->
            Removed(opts, form, f)
       [] ~form.active[f] /\ f \notin shape.retain -> Removed(opts, form, f)
       [] OTHER -> opts
Refuses(form, f) == form.active[f] /\ (~form.ok[f] \/ (form.val[f] = Nil /\ Required(f)))

(* parse(): all fields in order, those that can be written although        *)
(* another is refused.                                                     *)
Parse(opts, form) ==
  LET after[f \in 0..Cardinality(Field)] ==
        IF f = 0 THEN opts ELSE Parsed(after[f - 1], form, f)
  IN after[Cardinality(Field)]

Others(list, sid) == Picked(list, {i \in DOMAIN list : list[i] # sid})
Without(st, sid) == [st EXCEPT !.order = Others(@, sid), !.opts[sid] = NoOptions]
Has(st, sid) == Contains(st.order, sid)

-----------------------------------------------------------------------------
Step == steps < MaxSteps /\ steps' = steps + 1
Shown(sh, st) == Picked(st.order, {i \in DOMAIN st.order : st.order[i] \notin sh.hidden})

(* The modal map of a section, loaded and rendered: fields with            *)
(* dependencies start hidden, none has been validated.                     *)
Rendered(st, sid) ==
  checkDepends([sid |-> sid,
                val |-> [f \in Field |-> st.opts[sid][shape.uci[f]]],
                cval |-> [f \in Field |-> st.opts[sid][shape.uci[f]]],
                active |-> [f \in Field |-> shape.deps[f] = {}],
                ok |-> [f \in Field |-> TRUE],
                before |-> store, refused |-> FALSE, overtaken |-> FALSE])

(* handleAdd: the section is there at once, then its dialog.  The pages    *)
(* for rules and for wireless note it where nobody looks: on the section,  *)
(* not on its map.                                                         *)
handleAdd ==
  LET st == [store EXCEPT !.order = Append(@, New)]
  IN /\ dialog = Nil /\ Step
     /\ ~Has(store, New) /\ ~Has(server, New) /\ ~Contains(rows, New)  \* names are fresh
     /\ store' = st
     /\ added' = IF shape.onMap THEN New ELSE Nil
     /\ dialog' = Rendered(st, New)
     /\ UNCHANGED <<shape, server, rows, saving, sorting, redrawn, astray>>

renderMoreOptionsModal(sid) ==
  /\ dialog = Nil /\ Contains(rows, sid) /\ Has(store, sid) /\ Step
  /\ dialog' = Rendered(store, sid)
  /\ UNCHANGED <<shape, store, server, rows, added, saving, sorting, redrawn, astray>>

(* A field is filled in: its own validator runs, then checkDepends.        *)
Fill(f, v) ==
  /\ dialog # Nil /\ dialog.active[f] /\ dialog.val[f] # v /\ Step
  /\ dialog' = checkDepends([dialog EXCEPT !.val[f] = v, !.ok[f] = IsValid(v, f)])
  /\ UNCHANGED <<shape, store, server, rows, added, saving, sorting, redrawn, astray>>

(* handleModalSave.  A refused save keeps what it wrote and the dialog     *)
(* stays; what a field is compared with is not loaded again.               *)
handleModalSave ==
  /\ dialog # Nil /\ saving = Nil /\ Step
  /\ LET form == checkDepends(dialog)
         sid == form.sid
         refused == \E f \in Field : Refuses(form, f)
     IN /\ store' = IF Has(store, sid)
                    THEN [store EXCEPT !.opts[sid] = Parse(@, form)] ELSE store
        /\ dialog' = [form EXCEPT !.refused = TRUE]
        /\ saving' = IF refused THEN Nil
                     ELSE [form |-> form, sent |-> store', served |-> FALSE]
  /\ UNCHANGED <<shape, server, rows, added, sorting, redrawn, astray>>

(* handleModalCancel: a section that was added goes again.                 *)
Cancelled_Keeps(st) == st
Cancelled(st) == IF added = Nil THEN st ELSE Without(st, added)
handleModalCancel ==
  /\ dialog # Nil /\ Step
  /\ store' = Cancelled(store)
  /\ added' = Nil /\ dialog' = Nil
  /\ UNCHANGED <<shape, server, rows, saving, sorting, redrawn, astray>>

(* The page's own save and Delete, which saves too.                        *)
Saving(st) == [form |-> Nil, sent |-> st, served |-> FALSE]
handleSave ==
  /\ dialog = Nil /\ saving = Nil /\ Step
  /\ saving' = Saving(store)
  /\ UNCHANGED <<shape, store, server, rows, dialog, added, sorting, redrawn, astray>>
handleRemove(sid) ==
  /\ dialog = Nil /\ saving = Nil /\ Contains(rows, sid) /\ Step
  /\ store' = Without(store, sid)
  /\ saving' = Saving(store')
  /\ UNCHANGED <<shape, server, rows, dialog, added, sorting, redrawn, astray>>

(* The answer: the copy is loaded anew, whatever was done to it meanwhile, *)
(* the table drawn again, and a dialog's save closes the dialog there is.  *)
ServeSave ==
  /\ saving # Nil /\ ~saving.served
  /\ server' = saving.sent
  /\ saving' = [saving EXCEPT !.served = TRUE]
  /\ UNCHANGED <<shape, store, rows, dialog, added, sorting, redrawn, astray, steps>>
SaveReturns ==
  /\ saving # Nil /\ saving.served
  /\ saving' = Nil
  /\ store' = server
  /\ rows' = Shown(shape, server)
  /\ redrawn' = (sorting # Nil) /\ astray' = FALSE
  /\ IF saving.form # Nil THEN dialog' = Nil /\ added' = Nil
     ELSE /\ dialog' = IF dialog = Nil THEN Nil ELSE [dialog EXCEPT !.overtaken = TRUE]
          /\ UNCHANGED added
  /\ UNCHANGED <<shape, server, sorting, steps>>

(* Refused, or the answer was lost: the edits stay pending; the page's own *)
(* save draws the table, a dialog's swallows the error.                    *)
SaveFails ==
  /\ saving # Nil
  /\ saving' = Nil
  /\ UNCHANGED <<shape, store, server, rows, dialog, added, sorting, redrawn, astray, steps>>

-----------------------------------------------------------------------------
(* Order                                                                   *)

Placed(seq, a, b, after) ==
  LET rest == Others(seq, a)
      at == CHOOSE i \in DOMAIN rest : rest[i] = b
  IN InsertAt(rest, IF after THEN at + 1 ELSE at, a)
move(st, a, b, after) ==
  IF a = b \/ ~Has(st, a) \/ ~Has(st, b) THEN st
  ELSE [st EXCEPT !.order = Placed(@, a, b, after)]

handleDrop(a, b, below) ==
  /\ dialog = Nil /\ {a, b} \subseteq ToSet(rows) /\ a # b /\ Step
  /\ rows' = Placed(rows, a, b, below)
  /\ store' = move(store, a, b, below)
  /\ astray' = (astray \/ ~Has(store, a) \/ ~Has(store, b))
  /\ UNCHANGED <<shape, server, dialog, added, saving, sorting, redrawn>>

handleSort(list) ==
  /\ dialog = Nil /\ Step
  /\ sorting' = list
  /\ UNCHANGED <<shape, store, server, rows, dialog, added, saving, redrawn, astray>>
(* Each row after the one before it; the rows of a table that was drawn    *)
(* anew are not the ones on the page.                                      *)
Lined(st, list) ==
  LET after[i \in 0..Len(list)] ==
        IF i < 2 THEN st ELSE move(after[i - 1], list[i], list[i - 1], TRUE)
  IN after[Len(list)]
SortFrame ==
  /\ sorting # Nil
  /\ store' = Lined(store, sorting)
  /\ rows' = IF redrawn THEN rows
             ELSE sorting \o Picked(rows, {i \in DOMAIN rows : ~Contains(sorting, rows[i])})
  /\ sorting' = Nil
  /\ astray' = (astray \/ \E s \in ToSet(sorting) : ~Has(store, s))
  /\ UNCHANGED <<shape, server, dialog, added, saving, redrawn, steps>>

-----------------------------------------------------------------------------
NoStore == [order |-> << >>, opts |-> [s \in Sid |-> NoOptions]]
Init ==
  /\ shape = Nil /\ store = NoStore /\ server = NoStore /\ rows = << >>
  /\ dialog = Nil /\ added = Nil /\ saving = Nil /\ sorting = Nil
  /\ redrawn = FALSE /\ astray = FALSE /\ steps = 0

(* The page's map is rendered with what the server has.                    *)
Open(sh, opts) ==
  /\ shape = Nil
  /\ shape' = sh
  /\ server' = [order |-> SetToSeq(Old), opts |-> [s \in Sid |->
                  IF s \in Old THEN opts ELSE NoOptions]]
  /\ store' = server'
  /\ rows' = Shown(sh, server')
  /\ UNCHANGED <<dialog, added, saving, sorting, redrawn, astray, steps>>

User ==
  \/ handleAdd \/ handleModalSave \/ handleModalCancel \/ handleSave
  \/ \E s \in Sid : renderMoreOptionsModal(s) \/ handleRemove(s)
  \/ \E f \in Field, v \in Value \cup {Nil} : Fill(f, v)
  \/ \E a, b \in Sid, below \in BOOLEAN : handleDrop(a, b, below)
  \/ \E list \in SetToSeqs(ToSet(rows)) : handleSort(list)
Next ==
  \/ \E sh \in Shapes : \E opts \in sh.stored : Open(sh, opts)
  \/ shape # Nil /\ sorting = Nil /\ User   \* a frame comes before the user's next event
  \/ shape # Nil /\ (ServeSave \/ SaveReturns \/ SaveFails \/ SortFrame)

Spec == Init /\ [][Next]_vars

-----------------------------------------------------------------------------
(* The option a dialog's save leaves: the value of the field that is shown *)
(* for it, nothing if it is empty or none is, unless one is retained.      *)
Meant(form, k) ==
  LET fields == {f \in Field : shape.uci[f] = k}
      on == {f \in fields : form.active[f]}
  IN IF on # {} THEN {form.val[f] : f \in on}
     ELSE IF fields \cap shape.retain # {} THEN Value \cup {Nil} ELSE {Nil}

(* A dialog's save sends what the dialog shows, and shows the fields whose *)
(* dependencies hold, on every form whose longest chain of dependencies    *)
(* the passes of a save settle, as those of the pages that are modelled.   *)
(* It is wrong about a field set back after a save was refused:            *)
(* the refused save wrote it, and the value loaded before hides that.      *)
SavesMeant ==
  saving # Nil /\ saving.form # Nil =>
    LET form == saving.form
    IN /\ \A f \in Field : form.active[f] = isDependencySatisfied(form, f)
       /\ ~form.refused /\ ~form.overtaken => \A k \in Key : saving.sent.opts[form.sid][k] \in Meant(form, k)

(* Dismissing a dialog takes back what it did, and a section added in it,  *)
(* also when a save of it was refused; only to a section that was there    *)
(* before does a refused save do half of what it was to do.  Exceptions:   *)
(* a dialog under which an earlier save loaded the copy anew, and pages    *)
(* that note the new section in the wrong place, where it stays.           *)
LeftBehind == dialog.sid = New /\ ~shape.onMap /\ ~Has(dialog.before, New)
Undone ==
  (dialog # Nil /\ dialog' = Nil /\ saving = Nil /\ ~dialog.overtaken) =>
    IF LeftBehind THEN store'.order = Append(dialog.before.order, New)
    ELSE /\ store'.order = dialog.before.order
         /\ (added # Nil \/ ~dialog.refused) => store' = dialog.before
DismissUndoes == [][Undone]_vars

(* The table has the rows in the order the configuration has them, but for *)
(* a sort whose frame comes after the table was drawn anew, and rows moved *)
(* next to one that was deleted and is still shown.                        *)
OrderShown ==
  ~redrawn /\ ~astray =>
    SelectSeq(rows, LAMBDA s : Has(store, s))
      = SelectSeq(store.order, LAMBDA s : Contains(rows, s))
=============================================================================
