------------------------------- MODULE LuciUci -------------------------------
(***************************************************************************)
(* LuCI's uci class (resources/uci.js), the browser's copy of one          *)
(* configuration package: what was loaded of it, the edits that wait to be *)
(* saved (created, changed and deleted), and save(), which sends them as   *)
(* one batch of calls, patches the names of the sections it created, sends *)
(* the new order, and drops and reloads the package.  rpcd, which stages   *)
(* the calls, is external.  A page makes one save at a time: createHandlerFn *)
(* disables the button until the handler's promise settles.                *)
(***************************************************************************)
EXTENDS Integers, SequencesExt, FiniteSetsExt, Subsequence

CONSTANTS
  Stored,         \* sections of the package at the start
  Temp,           \* names createSID can invent
  Fresh,          \* names rpcd gives to sections that are added without one
  Opt, Val,       \* options and their values; Empty is the empty string
  Empty, Nil,
  InitialOrder,   \* the sections of the package at the start, in file order
  InitialOptions, \* and their options, Nil for the other names
  FirstNewIndex,  \* 1000 in the code: new sections sort behind loaded ones
  MaxEdits, MaxFails

Sid == Stored \cup Temp \cup Fresh

Remote == Stored \cup Fresh

OptionsOf(V) == [Opt -> V \cup {Nil}]
LoadedSection == [index : Nat, key : Nat, opts : OptionsOf(Val)]
CreatedSection == [name : Sid \cup {Nil}, named : BOOLEAN, index : Nat,
                   born : Nat, opts : OptionsOf(Val \cup {Empty})]

ASSUME ValuesAssumption == Nil \notin Val /\ Empty \notin Val /\ Empty # Nil
ASSUME NilAssumption ==
  Nil \notin Sid \cup LoadedSection \cup CreatedSection \cup OptionsOf(Val \cup {Empty})

(* createSID's names are not those of sections that are stored or that     *)
(* rpcd makes up, and rpcd makes up none that a user chose.                *)
ASSUME NamesAssumption == Temp \cap Remote = {} /\ Stored \cap Fresh = {}

(* The indexes of loaded sections end below those of new ones.             *)
ASSUME IndexAssumption ==
  FirstNewIndex \in Nat /\ IsFiniteSet(Remote) /\ Cardinality(Remote) <= FirstNewIndex

ASSUME InitialAssumption ==
  /\ InitialOrder \in Seq(Stored)
  /\ \A i, j \in DOMAIN InitialOrder : InitialOrder[i] = InitialOrder[j] => i = j
  /\ InitialOptions \in [Sid -> OptionsOf(Val) \cup {Nil}]
  /\ \A s \in Sid : InitialOptions[s] # Nil <=> s \in ToSet(InitialOrder)

VARIABLES
  values,     \* state.values: the loaded sections
  present,    \* state.values has the package
  creates,    \* state.creates: sections that exist only here
  changes,    \* state.changes: options set, per loaded section
  removed,    \* sections whose entry in state.deletes is `true'
  deletes,    \* state.deletes: options unset, per loaded section
  reorder,    \* state.reorder has the package
  touched,    \* one of creates, changes, deletes has an entry for the package
  newidx,     \* state.newidx
  jammed,     \* loaded[] holds a promise that was rejected
  phase,      \* where load() or save() stands
  tasks,      \* the calls of the batch under way
  replies,    \* their replies so far
  refused,    \* one of them is an error, or the batch has no reply
  listed,     \* the names of the order call under way
  snap,       \* rpcd's answer to the load under way
  options,    \* rpcd: the staged package, section by section
  order,      \* rpcd: its sections in order
  rendered,   \* a view has loaded the package and shows it
  edits, fails,                    \* bounds
  sent, names, late, folded, drift \* history, for the properties

client == <<values, present, creates, changes, removed, deletes, reorder,
            touched, newidx, jammed>>
server == <<options, order>>
calls == <<phase, tasks, replies, refused, listed, snap>>
history == <<sent, names, late, folded, drift>>
vars == <<client, server, calls, rendered, edits, fails, history>>

-----------------------------------------------------------------------------
(* Reading                                                                 *)

NoOptions == [o \in Opt |-> Nil]

(* A section get() finds: the page's own, or a loaded one not removed.     *)
Visible(s) == creates[s] # Nil \/ (values[s] # Nil /\ s \notin removed)

(* get(conf, sid, opt)                                                     *)

Get(s, o) ==
  IF creates[s] # Nil THEN creates[s].opts[o]
  ELSE IF s \in removed \/ o \in deletes[s] THEN Nil
  ELSE IF changes[s][o] # Nil THEN changes[s][o]
  ELSE IF values[s] # Nil THEN values[s].opts[o]
  ELSE Nil

Table == [s \in Sid |-> IF Visible(s) THEN [o \in Opt |-> Get(s, o)] ELSE Nil]

(* get(conf, sid) of a loaded section writes the pending edits of its      *)
(* options into the loaded copy and returns that.                          *)
Fold(s) ==
  [values[s] EXCEPT !.opts = [o \in Opt |->
     IF o \in deletes[s] THEN Nil
     ELSE IF changes[s][o] # Nil THEN changes[s][o]
     ELSE values[s].opts[o]]]

(* Sorted by index; the sort is stable, and sections() lists the loaded    *)
(* sections first, reorderSections() the page's own (ownFirst), each kind  *)
(* in the order it came in.                                                *)
Before(x, y, ownFirst) ==
  \/ x.index < y.index
  \/ x.index = y.index /\ x.create # y.create /\ x.create = ownFirst
  \/ x.index = y.index /\ x.create = y.create /\ x.key < y.key
ByIndex(entries, ownFirst) ==
  [i \in 1..Cardinality(entries) |->
     CHOOSE e \in entries :
       Cardinality({x \in entries : Before(x, e, ownFirst)}) = i - 1]

Created == {[sid |-> s, name |-> creates[s].name, index |-> creates[s].index,
             key |-> creates[s].born, create |-> TRUE] :
               s \in {x \in Sid : creates[x] # Nil}}
Loaded == {[sid |-> s, name |-> s, index |-> values[s].index,
            key |-> values[s].key, create |-> FALSE] :
              s \in {x \in Sid : values[x] # Nil}}

(* sections(conf): nothing before the package is loaded.                   *)
Sections ==
  IF present THEN ByIndex(Created \cup {e \in Loaded : e.sid \notin removed}, FALSE)
  ELSE << >>

-----------------------------------------------------------------------------
(* Edits                                                                   *)

Edit ==
  /\ rendered /\ edits < MaxEdits
  /\ edits' = edits + 1
  /\ late' = (late \/ phase # "idle")
  /\ UNCHANGED <<server, calls, rendered, fails, sent, names, drift,
                 present, jammed>>

SetCreated(s, o, v) ==
  /\ Edit
  /\ creates[s] # Nil
  /\ creates' = [creates EXCEPT ![s].opts[o] = v]
  /\ UNCHANGED <<values, changes, removed, deletes, reorder, touched, newidx,
                 folded>>

(* A value, as opposed to null and the empty string.                       *)
IsValue(v) == v # Nil /\ v # Empty

Undelete_Not(s, o) == deletes
Undelete(s, o) == [deletes EXCEPT ![s] = @ \ {o}]

SetLoaded(s, o, v) ==
  /\ Edit
  /\ creates[s] = Nil /\ IsValue(v)
  /\ values[s] # Nil /\ s \notin removed
  /\ changes' = [changes EXCEPT ![s][o] = v]
  /\ deletes' = Undelete(s, o)
  /\ touched' = TRUE
  /\ UNCHANGED <<values, creates, removed, reorder, newidx, folded>>

UnsetLoaded(s, o) ==
  /\ Edit
  /\ creates[s] = Nil
  /\ values[s] # Nil /\ s \notin removed
  /\ changes' = [changes EXCEPT ![s][o] = Nil]
  /\ IF values[s].opts[o] # Nil
       THEN /\ deletes' = [deletes EXCEPT ![s] = @ \cup {o}]
            /\ touched' = TRUE
       ELSE UNCHANGED <<deletes, touched>>
  /\ UNCHANGED <<values, creates, removed, reorder, newidx, folded>>

(* set() with a value, and with null or the empty string (also unset()).   *)
Set(s, o, v) ==
  \/ SetCreated(s, o, v)
  \/ SetLoaded(s, o, v)
  \/ ~IsValue(v) /\ UnsetLoaded(s, o)

NextIndex == FirstNewIndex + newidx

(* add(): with a name of the user's choice that no section of the list     *)
(* has, or with one that createSID invents and rpcd replaces.              *)
Add(s, named) ==
  /\ Edit
  /\ creates[s] = Nil
  /\ IF named THEN present /\ s \in Stored /\ ~Visible(s) ELSE s \in Temp /\ values[s] = Nil
  /\ creates' = [creates EXCEPT ![s] =
       [name |-> s, named |-> named, index |-> NextIndex,
        born |-> newidx, opts |-> NoOptions]]
  /\ newidx' = newidx + 1
  /\ touched' = TRUE
  /\ UNCHANGED <<values, changes, removed, deletes, reorder, folded>>

RemoveCreated(s) ==
  /\ Edit
  /\ creates[s] # Nil
  /\ creates' = [creates EXCEPT ![s] = Nil]
  /\ UNCHANGED <<values, changes, removed, deletes, reorder, touched, newidx,
                 folded>>

RemoveLoaded(s) ==
  /\ Edit
  /\ creates[s] = Nil
  /\ values[s] # Nil /\ s \notin removed
  /\ changes' = [changes EXCEPT ![s] = NoOptions]
  /\ removed' = removed \cup {s}
  /\ deletes' = [deletes EXCEPT ![s] = {}]
  /\ touched' = TRUE
  /\ UNCHANGED <<values, creates, reorder, newidx, folded>>

(* A loaded section whose pending edits the loaded copy does not show yet. *)
Unfolded(s) == creates[s] = Nil /\ values[s] # Nil /\ Fold(s) # values[s]

(* get() of a whole section.                                               *)
GetSection(s) ==
  /\ rendered /\ s \notin removed /\ Unfolded(s)
  /\ values' = [values EXCEPT ![s] = Fold(s)]
  /\ folded' = TRUE
  /\ UNCHANGED <<present, creates, changes, removed, deletes, reorder, touched,
                 newidx, jammed, server, calls, rendered, edits, fails, sent,
                 names, late, drift>>

(* move(sid1, sid2, after): to the end if sid2 is null.  Each section of   *)
(* the new order is read as a whole and given its index; the name a failed *)
(* order call left on a created section is not found, and throws.          *)
Placed(rest, e, s2, after) ==
  InsertAt(rest, IF s2 = Nil THEN Len(rest) + 1
                 ELSE SelectInSeq(rest, LAMBDA x : x.name = s2)
                      + (IF after THEN 1 ELSE 0), e)
Found(name) == name \in Sid /\ Visible(name)

(* How many of the sections of the new order are found one after another.  *)
Reach(moved) ==
  Max({n \in 0..Len(moved) : \A i \in 1..n : Found(moved[i].name)})

Renumber(moved, reach) ==
  LET seen == {moved[i].name : i \in 1..reach}
      index(s) == Max({i \in 0..(reach - 1) : moved[i + 1].name = s})
  IN /\ values' = [s \in Sid |->
          IF s \in seen /\ creates[s] = Nil
          THEN [Fold(s) EXCEPT !.index = index(s)] ELSE values[s]]
     /\ creates' = [s \in Sid |->
          IF s \in seen /\ creates[s] # Nil
          THEN [creates[s] EXCEPT !.index = index(s)] ELSE creates[s]]
     /\ reorder' = (reorder \/ reach = Len(moved))
     /\ folded' = (folded \/ \E s \in seen : Unfolded(s))

Move(s1, s2, after) ==
  /\ Edit
  /\ \E sa \in {Sections} : \E at \in DOMAIN sa : \E rest \in {RemoveAt(sa, at)} :
       /\ sa[at].name = s1
       /\ s2 # Nil => \E i \in DOMAIN rest : rest[i].name = s2
       /\ \E moved \in {Placed(rest, sa[at], s2, after)} :
            \E reach \in {Reach(moved)} : Renumber(moved, reach)
  /\ UNCHANGED <<changes, removed, deletes, touched, newidx>>

-----------------------------------------------------------------------------
(* save(), and load() before it                                            *)

(* The calls in the order the code makes them: deletions, additions,       *)
(* changes.                                                                *)
Deletions == SetToSeq({[op |-> "remove", sid |-> s] : s \in removed}
  \cup {[op |-> "unset", sid |-> s, opts |-> deletes[s]] :
        s \in {x \in Sid : deletes[x] # {}}})
Additions ==
  LET new == {s \in Sid : creates[s] # Nil}
      nth(i) == CHOOSE s \in new :
        Cardinality({x \in new : creates[x].born < creates[s].born}) = i - 1
  IN [i \in 1..Cardinality(new) |-> [op |-> "add", sid |-> nth(i),
        named |-> creates[nth(i)].named, opts |-> creates[nth(i)].opts,
        born |-> creates[nth(i)].born]]
Changed == SetToSeq({[op |-> "set", sid |-> s, opts |-> changes[s]] :
                       s \in {x \in Sid : changes[x] # NoOptions}})

Batch_AddsFirst == Additions \o Deletions \o Changed
Batch == Deletions \o Additions \o Changed

(* Only a package that was touched or reordered is saved and reloaded.     *)
Save ==
  /\ rendered /\ phase = "idle"
  /\ touched \/ reorder
  /\ phase' = "tasks"
  /\ tasks' = Batch
  /\ replies' = << >> /\ refused' = FALSE
  /\ sent' = [table |-> Table, clean |-> present /\ ~folded /\ ~drift,
              order |-> [i \in DOMAIN Sections |-> Sections[i].sid],
              mixed |-> reorder /\ Deletions # << >> /\ Additions # << >>]
  /\ names' = [s \in Sid |-> s]
  /\ late' = FALSE
  /\ UNCHANGED <<client, server, listed, snap, rendered, edits, fails, folded,
                 drift>>

(* Where a section stands; none stands twice.                              *)
Place(seq, s) == CHOOSE i \in DOMAIN seq : seq[i] = s

(* Empty strings are not stored.                                           *)
StoredOptions(old, new) ==
  [o \in Opt |-> IF new[o] = Nil THEN old[o]
                 ELSE IF new[o] = Empty THEN Nil ELSE new[o]]

(* rpcd carries out a call on a section that is there, or adds one.        *)
Perform(t) ==
  \/ /\ t.op = "remove" /\ options[t.sid] # Nil
     /\ options' = [options EXCEPT ![t.sid] = Nil]
     /\ order' = RemoveAt(order, Place(order, t.sid))
     /\ replies' = Append(replies, Nil)
     /\ UNCHANGED names
  \/ /\ t.op = "unset" /\ options[t.sid] # Nil
     /\ options' = [options EXCEPT ![t.sid] =
                      [o \in Opt |-> IF o \in t.opts THEN Nil ELSE @[o]]]
     /\ replies' = Append(replies, Nil)
     /\ UNCHANGED <<order, names>>
  \/ /\ t.op = "set" /\ options[t.sid] # Nil
     /\ options' = [options EXCEPT ![t.sid] = StoredOptions(@, t.opts)]
     /\ replies' = Append(replies, Nil)
     /\ UNCHANGED <<order, names>>
  \/ /\ t.op = "add"
     /\ \E s \in IF t.named THEN {t.sid} ELSE {x \in Fresh : options[x] = Nil} :
          /\ options' = [options EXCEPT ![s] =
               StoredOptions(IF @ = Nil THEN NoOptions ELSE @, t.opts)]
          /\ order' = IF s \in ToSet(order) THEN order ELSE Append(order, s)
          /\ replies' = Append(replies, s)
          /\ names' = [names EXCEPT ![t.sid] = s]

Possible(t) ==
  IF t.op = "add" THEN t.named \/ \E s \in Fresh : options[s] = Nil
  ELSE options[t.sid] # Nil

Answered_Accepted ==
  phase = "tasks" /\ Len(replies) = Len(tasks) /\ ~refused
Serving == phase = "tasks" /\ Len(replies) < Len(tasks)
Answered == phase = "tasks" /\ Len(replies) = Len(tasks)
NextTask == tasks[Len(replies) + 1]

ServeTask ==
  /\ Serving
  /\ Perform(NextTask)
  /\ UNCHANGED <<client, phase, tasks, refused, listed, snap, rendered, edits,
                 fails, sent, late, folded, drift>>

(* A call fails: its section is gone, or for a reason of rpcd's own.       *)
RefuseTask ==
  /\ Serving
  /\ \/ ~Possible(NextTask) /\ UNCHANGED fails
     \/ Possible(NextTask) /\ fails < MaxFails /\ fails' = fails + 1
  /\ replies' = Append(replies, Nil)
  /\ refused' = TRUE
  /\ UNCHANGED <<client, server, phase, tasks, listed, snap, rendered, edits,
                 history>>

(* The request times out although rpcd has carried the calls out.          *)
LoseReplies ==
  /\ Answered /\ ~refused /\ fails < MaxFails
  /\ refused' = TRUE
  /\ fails' = fails + 1
  /\ UNCHANGED <<client, server, phase, tasks, replies, listed, snap, rendered,
                 edits, history>>

Done ==
  /\ tasks' = << >> /\ replies' = << >> /\ listed' = << >>
  /\ refused' = FALSE

(* Promise.all resolves if no call was refused, and rejects otherwise.     *)
Accepted == ~refused

(* The pending edits stay as they are.                                     *)
SaveFails ==
  /\ Answered \/ phase = "ordered"
  /\ ~Accepted
  /\ phase' = "idle"
  /\ drift' = TRUE
  /\ Done
  /\ UNCHANGED <<client, server, snap, rendered, edits, fails, sent, names,
                 late, folded>>

(* The i-th section of snew gets the i-th reply as its name, which is its  *)
(* own reply if the batch deleted nothing.                                 *)
NamesPatched ==
  LET new == Picked(tasks, {i \in DOMAIN tasks : tasks[i].op = "add"})
  IN [s \in Sid |->
       IF creates[s] # Nil /\ \E i \in DOMAIN new :
            new[i].sid = s /\ new[i].born = creates[s].born
       THEN [creates[s] EXCEPT !.name =
              replies[CHOOSE i \in DOMAIN new : new[i].sid = s]]
       ELSE creates[s]]

(* reorderSections() with sections to order: the loaded ones count, the    *)
(* removed ones among them too.                                            *)
SaveOrders ==
  /\ Answered /\ Accepted
  /\ reorder /\ Created \cup Loaded # {}
  /\ creates' = NamesPatched
  /\ reorder' = FALSE
  /\ listed' = LET entries == ByIndex(Created' \cup Loaded, TRUE)
               IN [i \in DOMAIN entries |-> entries[i].name]
  /\ phase' = "order"
  /\ UNCHANGED <<values, present, changes, removed, deletes, touched, newidx,
                 jammed, server, tasks, replies, refused, snap, rendered,
                 edits, fails, history>>

(* rpcd moves each section it knows to the next place from the front.      *)
OrderStep(old, acc, s) ==
  IF s \in ToSet(old)
  THEN [place |-> acc.place + 1,
        seq |-> InsertAt(RemoveAt(acc.seq, Place(acc.seq, s)),
                         Min({acc.place, Len(old)}), s)]
  ELSE acc
Ordered(old, wanted) ==
  LET acc[n \in 0..Len(wanted)] ==
        IF n = 0 THEN [place |-> 1, seq |-> old]
        ELSE OrderStep(old, acc[n - 1], wanted[n])
  IN acc[Len(wanted)].seq

ServeOrder ==
  /\ phase = "order"
  /\ \/ order' = Ordered(order, listed) /\ UNCHANGED <<refused, fails>>
     \/ /\ fails < MaxFails /\ fails' = fails + 1
        /\ refused' = TRUE
        /\ UNCHANGED order
  /\ phase' = "ordered"
  /\ UNCHANGED <<client, options, tasks, replies, listed, snap, rendered, edits,
                 history>>

Unload_KeepsCreates ==
  /\ values' = [s \in Sid |-> Nil] /\ present' = FALSE
  /\ UNCHANGED creates
  /\ changes' = [s \in Sid |-> NoOptions]
  /\ removed' = {} /\ deletes' = [s \in Sid |-> {}]
Unload ==
  /\ values' = [s \in Sid |-> Nil] /\ present' = FALSE
  /\ creates' = [s \in Sid |-> Nil]
  /\ changes' = [s \in Sid |-> NoOptions]
  /\ removed' = {} /\ deletes' = [s \in Sid |-> {}]

(* unload() and the load() after it, in one go.                            *)
Reload ==
  /\ Accepted
  /\ \/ Answered /\ (reorder => Created \cup Loaded = {})
     \/ phase = "ordered"
  /\ Unload
  /\ reorder' = (reorder /\ phase = "ordered")
  /\ touched' = FALSE /\ jammed' = FALSE
  /\ folded' = FALSE
  /\ phase' = "load"
  /\ Done
  /\ UNCHANGED <<newidx, server, snap, rendered, edits, fails, sent, names, late,
                 drift>>

(* load() sends a request only if there was none for the package yet.      *)
Load ==
  /\ phase = "idle" /\ ~present /\ ~jammed
  /\ phase' = "load"
  /\ UNCHANGED <<client, server, tasks, replies, refused, listed, snap, rendered,
                 edits, fails, history>>

ServeLoad ==
  /\ phase = "load"
  /\ snap' = [options |-> options, order |-> order]
  /\ phase' = "loaded"
  /\ UNCHANGED <<client, server, tasks, replies, refused, listed, rendered, edits,
                 fails, history>>

PackageArrives ==
  /\ phase = "loaded"
  /\ values' = [s \in Sid |->
       IF s \in ToSet(snap.order)
       THEN LET place == Place(snap.order, s) - 1
            IN [index |-> place, key |-> place, opts |-> snap.options[s]]
       ELSE Nil]
  /\ present' = TRUE /\ rendered' = TRUE
  /\ snap' = Nil /\ phase' = "idle"
  /\ drift' = FALSE
  /\ UNCHANGED <<creates, changes, removed, deletes, reorder, touched, newidx,
                 jammed, server, tasks, replies, refused, listed, edits, fails,
                 sent, names, late, folded>>

(* The rejected promise stays in loaded[], and load() returns it from then *)
(* on.                                                                     *)
PackageLost ==
  /\ phase = "load" /\ fails < MaxFails
  /\ fails' = fails + 1
  /\ jammed' = TRUE
  /\ phase' = "idle"
  /\ UNCHANGED <<values, present, creates, changes, removed, deletes, reorder,
                 touched, newidx, server, tasks, replies, refused, listed, snap,
                 rendered, edits, history>>

-----------------------------------------------------------------------------
Init ==
  /\ values = [s \in Sid |-> Nil] /\ present = FALSE
  /\ creates = [s \in Sid |-> Nil]
  /\ changes = [s \in Sid |-> NoOptions]
  /\ removed = {} /\ deletes = [s \in Sid |-> {}]
  /\ reorder = FALSE /\ touched = FALSE /\ newidx = 0 /\ jammed = FALSE
  /\ phase = "idle" /\ tasks = << >> /\ replies = << >> /\ refused = FALSE
  /\ listed = << >> /\ snap = Nil
  /\ order = InitialOrder
  /\ options = InitialOptions
  /\ rendered = FALSE /\ edits = 0 /\ fails = 0
  /\ sent = Nil /\ names = [s \in Sid |-> s]
  /\ late = FALSE /\ folded = FALSE /\ drift = FALSE

Edits ==
  \/ \E s \in Sid, o \in Opt, v \in Val \cup {Empty, Nil} : Set(s, o, v)
  \/ \E s \in Sid, named \in BOOLEAN : Add(s, named)
  \/ \E s \in Sid : RemoveCreated(s) \/ RemoveLoaded(s)
  \/ \E s1 \in {s \in Sid : Visible(s)}, after \in BOOLEAN :
       \E s2 \in {s \in Sid : Visible(s)} \cup {Nil} : Move(s1, s2, after)
  \/ \E s \in Sid : GetSection(s)

Calls ==
  \/ ServeTask \/ RefuseTask \/ SaveFails \/ SaveOrders \/ ServeOrder \/ Reload
  \/ ServeLoad \/ PackageArrives

Next == Edits \/ Save \/ Load \/ LoseReplies \/ PackageLost \/ Calls

Spec == Init /\ [][Next]_vars

(* The browser sends what it has queued, rpcd answers, and the answer is   *)
(* handled; only edits and saves wait for the user.                        *)
FairSpec == Spec /\ WF_vars(Calls) /\ WF_vars(Load)
-----------------------------------------------------------------------------
TypeOK ==
  /\ values \in [Sid -> LoadedSection \cup {Nil}]
  /\ creates \in [Sid -> CreatedSection \cup {Nil}]
  /\ changes \in [Sid -> OptionsOf(Val)]
  /\ removed \in SUBSET Sid
  /\ deletes \in [Sid -> SUBSET Opt]
  /\ present \in BOOLEAN /\ reorder \in BOOLEAN /\ touched \in BOOLEAN
  /\ jammed \in BOOLEAN /\ rendered \in BOOLEAN /\ newidx \in Nat
  /\ phase \in {"idle", "tasks", "order", "ordered", "load", "loaded"}
  /\ options \in [Sid -> OptionsOf(Val) \cup {Nil}]

(* The three kinds of pending edits of a loaded section never contradict   *)
(* each other (uci.js:20-23, 50-68): what is removed or unset is not set   *)
(* as well, and only loaded sections have them.  The order of the calls    *)
(* of one save does not matter because of it.                              *)
PendingConsistent ==
  /\ \A s \in Sid : \A o \in deletes[s] : changes[s][o] = Nil
  /\ \A s \in removed : changes[s] = NoOptions /\ deletes[s] = {}
  /\ \A s \in Sid : values[s] = Nil =>
       s \notin removed /\ deletes[s] = {} /\ changes[s] = NoOptions

(* Reading an option alone and reading it from the whole section give the  *)
(* same answer (uci.js:33-50), whatever edits are pending.                 *)
ReadsAgree ==
  \A s \in Sid, o \in Opt :
    (creates[s] = Nil /\ values[s] # Nil /\ s \notin removed) =>
      Get(s, o) = Fold(s).opts[o]

Index(s) == IF creates[s] # Nil THEN creates[s].index ELSE values[s].index

(* Sections never share an index (uci.js:20, 70-79), or the order shown    *)
(* and the order sent could differ.  Once the names of new sections are    *)
(* patched, until the package is loaded again, a move throws halfway and   *)
(* leaves two sections at one index.                                       *)
IndexesDistinct ==
  (present /\ ~drift /\ phase \notin {"order", "ordered"}) =>
    \A s, t \in {x \in Sid : Visible(x)} : Index(s) = Index(t) => s = t

Renamed(s) == names[s]
Expected(s) == [o \in Opt |->
  IF sent.table[s][o] = Empty THEN Nil ELSE sent.table[s][o]]
Shown == {s \in Sid : sent.table[s] # Nil}
Undisturbed == phase = "load" /\ sent # Nil /\ rendered /\ ~late

(* A save that nothing failed before or during, and that no edit came      *)
(* into, leaves on the server exactly the sections and the options the     *)
(* page showed (uci.js:79-97), unless a whole section was read while it    *)
(* had edits pending: the copy then forgets what the server still has.     *)
SaveDelivers ==
  (Undisturbed /\ sent.clean) =>
    /\ ToSet(order) = {Renamed(s) : s \in Shown}
    /\ \A s \in Shown : options[Renamed(s)] = Expected(s)

(* A retried save may add a section twice, but no section the page showed  *)
(* is missing after it (uci.js:96-97).                                     *)
RetryKeepsSections ==
  Undisturbed => \A s \in Shown : Renamed(s) \in ToSet(order)

(* The sections are in the order the page showed, unless the same save     *)
(* deleted, added and reordered: the names of the new sections are then    *)
(* taken from the wrong replies (uci.js:96-97).                            *)
OrderDelivered ==
  (Undisturbed /\ sent.clean /\ ~sent.mixed) =>
    order = [i \in DOMAIN sent.order |-> Renamed(sent.order[i])]

(* With nothing pending and nothing under way, the page shows what the     *)
(* server has, unless a save failed on the way or the copy was folded.     *)
ViewIsStore ==
  (/\ phase = "idle" /\ present /\ ~folded /\ ~drift
   /\ removed = {} /\ \A s \in Sid :
        creates[s] = Nil /\ deletes[s] = {} /\ changes[s] = NoOptions) =>
  Table = options

(* The copy is of one mind whatever edits are pending, and agrees with the *)
(* server when none are.                                                   *)
EditsAgree ==
  TypeOK /\ PendingConsistent /\ ReadsAgree /\ IndexesDistinct /\ ViewIsStore

(* What was saved is what was shown: options, sections and their order.    *)
SavedIsShown == SaveDelivers /\ RetryKeepsSections /\ OrderDelivered

(* The pending-edit layer is one table (LuciTable).                        *)
T == INSTANCE LuciTable WITH table <- Table
ImplementsTable == T!Spec

(* A save ends (uci.js:79-97), and leaves the package loaded, or gives up  *)
(* and keeps the edits, or the package cannot be loaded.                   *)
SaveEnds == phase = "tasks" ~> (phase = "idle" /\ (present \/ jammed))
=============================================================================
