------------------------------ MODULE LuciLists ------------------------------
(***************************************************************************)
(* The page's own choice widgets (resources/ui.js): the dropdown, its      *)
(* combobox in a list of values, and the firewall's choice of protocols,   *)
(* in which "all" excludes the others (tools/firewall.js).  What the form  *)
(* reads is not the selection but a copy that is kept beside it, and one   *)
(* click may come back to the widget as an event of its own.               *)
(***************************************************************************)
EXTENDS Integers, SequencesExt, FiniteSetsExt

CONSTANTS
  Kinds,     \* widgets: [widget, optional, create, stored, offered]
  Words,     \* what can be typed, in the order that sort() gives
  Protos,    \* rows of the table `protocols': [name, number]
  All,       \* "all"
  MaxSteps, Nil

Select == "select"  Multi == "multi"  Protocols == "protocols"  List == "list"

VARIABLES
  kind,      \* the widget there is
  choices,   \* the li: [val, made, locked, custom] in order
  sel,       \* the selected ones; Nil is the placeholder
  value,     \* the hidden inputs, what getValue reads
  items,     \* of a list: its values in order
  asked,     \* history: the last operation, for the properties
  steps

vars == <<kind, choices, sel, value, items, asked, steps>>
box == [choices |-> choices, sel |-> sel, value |-> value, items |-> items]
Multiple == kind.widget \in {Multi, Protocols}

Choice(v) == [val |-> v, made |-> FALSE, locked |-> FALSE, custom |-> FALSE]
Offers(b, v) == \E i \in DOMAIN b.choices : b.choices[i].val = v
Locked(b, v) == \E i \in DOMAIN b.choices : b.choices[i].val = v /\ b.choices[i].locked
Marked(cs, v, mark(_)) == [i \in DOMAIN cs |-> IF cs[i].val = v THEN mark(cs[i]) ELSE cs[i]]
Vals(cs) == [i \in DOMAIN cs |-> cs[i].val]

-----------------------------------------------------------------------------
(* saveValues: the selection, without the placeholder, in the order of the *)
(* choices.                                                                *)
Selected(b) == SelectSeq(Vals(b.choices), LAMBDA v : v \in b.sel)
saveValues(b) == [b EXCEPT !.value = Selected(b)]

(* DynamicList.addItem: a value that is there is not added again.          *)
addItem(b, v) ==
  IF Contains(b.items, v) THEN b ELSE [b EXCEPT !.items = Append(@, v)]

(* handleDropdownChange: the choice becomes an item, the combobox shows    *)
(* its placeholder again, and the choice cannot be taken until it is free. *)
Taken(c) == [c EXCEPT !.locked = TRUE, !.custom = @ \/ c.made, !.made = FALSE]
handleDropdownChange(b, v) ==
  addItem([b EXCEPT !.choices = Marked(@, v, Taken), !.sel = {Nil}, !.value = << >>], v)

(* Dropdown.toggleItem.  With one value there is no unselecting; of        *)
(* several the last stays unless none is a choice.                         *)
Toggled(b, v, force) ==
  IF v \in b.sel
  THEN IF force # "on" /\ (Cardinality(b.sel) > 1 \/ kind.optional)
       THEN b.sel \ {v} ELSE b.sel
  ELSE IF force # "off" THEN b.sel \cup {v} ELSE b.sel
toggleItem(b, v, force) ==
  CASE Locked(b, v)        -> b
    [] Multiple            -> saveValues([b EXCEPT !.sel = Toggled(b, v, force)])
    [] kind.widget = List  -> IF v = Nil THEN saveValues([b EXCEPT !.sel = {Nil}])
                              ELSE handleDropdownChange(b, v)
    [] OTHER               -> saveValues([b EXCEPT !.sel = {v}])

(* The choice of protocols has a toggle of its own: it passes no force on. *)
Excluding_None(b, v) == toggleItem(b, v, "toggle")
Excluding(b, v) ==
  FoldLeft(LAMBDA c, w : toggleItem(c, w, "off"), toggleItem(b, v, "toggle"),
           IF v = All THEN SelectSeq(Vals(b.choices), LAMBDA w : w # All) ELSE <<All>>)
Toggle(b, v, force) ==
  IF kind.widget = Protocols THEN Excluding(b, v) ELSE toggleItem(b, v, force)

(* createItems: one by one; the former value made in a single dropdown     *)
(* goes.                                                                   *)
WithoutMade(cs) == SelectSeq(cs, LAMBDA c : ~c.made)
createItem(b, v) ==
  LET made == IF Offers(b, v) THEN b
              ELSE IF Multiple THEN [b EXCEPT !.choices = Append(@, Choice(v))]
              ELSE [b EXCEPT !.choices =
                      Append(WithoutMade(@), [Choice(v) EXCEPT !.made = TRUE])]
  IN Toggle(made, v, "on")

(* lookupProto: the first row with that name or number; protocols typed    *)
(* are looked up and sorted first.                                         *)
lookupProto(w) ==
  LET rows == {i \in DOMAIN Protos : w \in {Protos[i].name, Protos[i].number}}
  IN IF rows = {} THEN w ELSE Protos[Min(rows)].name
Normal(words) ==
  SortSeq([i \in DOMAIN words |-> lookupProto(words[i])], LAMBDA v, w :
            (CHOOSE i \in DOMAIN Words : Words[i] = v) < (CHOOSE i \in DOMAIN Words : Words[i] = w))
createItems(b, words) ==
  FoldLeft(createItem, b, IF kind.widget = Protocols THEN Normal(words) ELSE words)

(* setValues: values that are no choices are made, the first of them where *)
(* one is taken; then each choice is set.                                  *)
setValues(b, given) ==
  LET vs == ToSet(given)
      made == IF ~kind.create THEN b
              ELSE createItems(b, IF Multiple THEN given
                                  ELSE SubSeq(given, 1, Min({1, Len(given)})))
      each(c, vals) == FoldLeft(LAMBDA d, v :
                         IF Multiple THEN Toggle(d, v, IF v \in vs THEN "on" ELSE "off")
                         ELSE IF v \in vs THEN Toggle(d, v, Nil) ELSE d, c, vals)
      placed == IF ~Multiple /\ kind.optional THEN Toggle(made, Nil, Nil) ELSE made
  IN each(placed, Vals(made.choices))

(* clearChoices keeps the value; addChoices adds what is missing.          *)
clearChoices(b) ==
  [b EXCEPT !.choices = SelectSeq(@, LAMBDA c : Contains(b.value, c.val))]
addChoices(b, vs) ==
  [b EXCEPT !.choices = @ \o [i \in DOMAIN SelectSeq(vs, LAMBDA v : ~Offers(b, v)) |->
                                Choice(SelectSeq(vs, LAMBDA v : ~Offers(b, v))[i])]]

(* DynamicList.removeItem: its choice is free again, or goes if it was     *)
(* typed.                                                                  *)
Freed(c) == [c EXCEPT !.locked = FALSE]
removeItem(b, v) ==
  [b EXCEPT !.items = SelectSeq(@, LAMBDA w : w # v),
            !.choices = SelectSeq(Marked(@, v, Freed), LAMBDA c : c.val = v => ~c.custom)]

-----------------------------------------------------------------------------
Becomes(b) ==
  /\ choices' = b.choices /\ sel' = b.sel /\ value' = b.value /\ items' = b.items
Step(op, vals) ==
  /\ kind # Nil /\ steps < MaxSteps /\ steps' = steps + 1
  /\ asked' = [op |-> op, vals |-> vals, before |-> value]
  /\ UNCHANGED kind

(* handleClick, and the keys that do the same                              *)
handleClick(v) ==
  /\ Step("click", <<v>>)
  /\ (v = Nil => kind.optional /\ ~Multiple)
  /\ Becomes(Toggle(box, v, Nil))
handleCreateKeydown(words) ==
  /\ Step("type", words)
  /\ kind.create
  /\ (~Multiple => Len(words) = 1)
  /\ Becomes(createItems(box, words))

(* setValue; nothing sets protocols.                                       *)
ListOf(vs) == SelectSeq(kind.offered, LAMBDA v : v \in vs)
setValue(vs) ==
  /\ Step("set", ListOf(vs))
  /\ kind.widget # Protocols
  /\ (kind.widget = Select => Cardinality(vs) <= 1)
  /\ Becomes(IF kind.widget = List
             THEN FoldLeft(addItem, FoldLeft(removeItem, box, items), ListOf(vs))
             ELSE setValues(box, ListOf(vs)))

(* updateHostHints: other choices for another address family               *)
updateHostHints(vs) ==
  /\ Step("hints", ListOf(vs))
  /\ kind.widget \in {Select, List} /\ kind.create
  /\ Becomes(addChoices(clearChoices(box), ListOf(vs)))

handleItemClick(v) ==
  /\ Step("remove", <<v>>)
  /\ Contains(items, v)
  /\ Becomes(removeItem(box, v))

-----------------------------------------------------------------------------
Init ==
  /\ kind = Nil /\ choices = << >> /\ sel = {} /\ value = << >> /\ items = << >>
  /\ asked = Nil /\ steps = 0

(* render and bind: choices offered, values stored that are none become    *)
(* choices if the widget creates any; without one, the first choice.       *)
Open(k) ==
  /\ kind = Nil
  /\ kind' = k
  /\ LET extra == IF k.create /\ k.widget # List
                  THEN SelectSeq(k.stored, LAMBDA v : ~Contains(k.offered, v)) ELSE << >>
         cs == [i \in DOMAIN (k.offered \o extra) |-> Choice((k.offered \o extra)[i])]
         found == ToSet(k.stored) \cap ToSet(Vals(cs))
         chosen == CASE k.widget = List           -> {Nil}
                     [] k.widget # Select         -> found
                     [] found # {} /\ k.stored # << >> -> found
                     [] k.optional                -> {Nil}
                     [] OTHER                     -> {cs[1].val}
     IN /\ choices' = cs /\ sel' = chosen
        /\ value' = SelectSeq(Vals(cs), LAMBDA v : v \in chosen)
        /\ items' = IF k.widget = List THEN k.stored ELSE << >>
  /\ UNCHANGED <<asked, steps>>

Next ==
  \/ \E k \in Kinds : Open(k)
  \/ \E v \in ToSet(Vals(choices)) \cup {Nil} : handleClick(v)
  \/ \E a \in ToSet(Words) : \/ handleCreateKeydown(<<a>>)
                           \/ \E b \in ToSet(Words) : handleCreateKeydown(<<a, b>>)
  \/ kind # Nil /\ \E vs \in SUBSET ToSet(kind.offered) : setValue(vs) \/ updateHostHints(vs)
  \/ \E v \in ToSet(items) : handleItemClick(v)

Spec == Init /\ [][Next]_vars

-----------------------------------------------------------------------------
(* The form reads what the page shows: the copy is the selection, one      *)
(* value where one may be chosen, and some value where one must be; "all"  *)
(* stands alone; a list has no value twice, and a choice is locked only    *)
(* while the list has it, whatever is clicked, typed, set or renewed.      *)
ListsAgree ==
  kind # Nil =>
    /\ value = Selected(box)
    /\ ~Multiple => Cardinality(sel) = 1
    /\ kind.optional \/ value # << >> \/ (kind.widget = Select /\ choices = << >>)
    /\ kind.widget = Protocols /\ Contains(value, All) => value = <<All>>
    /\ IsInjective(items) /\ IsInjective(Vals(choices))
    /\ \A i \in DOMAIN choices : choices[i].locked \/ choices[i].custom => Contains(items, choices[i].val)

(* What was typed or set is there afterwards.  It is not: a protocol typed *)
(* that was chosen already, beside others, is taken out; and of several    *)
(* values, one of which must be chosen, the last of the old ones stays if  *)
(* it comes before the new ones.                                           *)
InputTaken ==
  (asked # Nil /\ asked.op \in {"type", "set"}) =>
    LET got == IF kind.widget = List THEN ToSet(items) ELSE ToSet(value)
        had == ToSet(asked.before)
        given == IF kind.widget = Protocols THEN ToSet(Normal(asked.vals)) ELSE ToSet(asked.vals)
    IN CASE asked.op = "set" /\ kind.widget = List -> items = asked.vals
         [] asked.op = "set" /\ given \cap ToSet(Vals(choices)) = {} -> kind.optional => got = {}
         [] asked.op = "set" /\ ~kind.optional /\ Multiple ->
              given \cap ToSet(Vals(choices)) \subseteq got /\ Cardinality(got \ given) <= 1
         [] asked.op = "set" -> got = given \cap ToSet(Vals(choices))
         [] kind.widget # Protocols -> given \subseteq got
         [] OTHER -> given \ (had \cup {All}) \subseteq got \/ Len(asked.vals) > 1
=============================================================================
