------------------------------- MODULE LuciClass -------------------------------
(***************************************************************************)
(* Classes and the instances bound to the page (resources/luci.js): the    *)
(* method `super' of Class, which finds the definition to call in a stack  *)
(* kept per class id and name, and the registry by which DOM finds the     *)
(* instance a node belongs to.  One name of a method is looked at.         *)
(***************************************************************************)
EXTENDS Naturals, SequencesExt, FiniteSetsExt

CONSTANTS
  Obj,        \* objects
  ClassOf,    \* the class of each
  Parent,     \* base class of each class, Nil for the last
  Id,         \* __id__ of each class: shared by named ones
  Defines,    \* the classes that define the method
  Own,        \* the objects that have the method themselves
  MaxDepth,   \* bound: calls under way
  Root, Node, \* the document, and elements
  Inst,       \* instances to bind
  MaxBinds,   \* bound: ids given out
  Nil

VARIABLES
  frames,     \* calls under way, the innermost last: [obj, at, by, from]
  superContext,
  thrown,     \* history: an exception left a method
  parentNode, \* of each element
  idref,      \* data-idref of each element
  registry,   \* the instance under each id given out, Nil if deleted
  bound,      \* history: the instance last bound to each element
  taken       \* history: the elements that were taken out

calls == <<frames, superContext, thrown>>
page == <<parentNode, idref, registry, bound, taken>>
vars == <<calls, page>>

-----------------------------------------------------------------------------
(* The next definition from a class upwards.                               *)
RECURSIVE Nearest(_)
Nearest(c) == IF c = Nil \/ c \in Defines THEN c ELSE Nearest(Parent[c])
First(o) == IF o \in Own THEN o ELSE Nearest(ClassOf[o])
Slot(o) == Id[ClassOf[o]]

Frame(o, at, by, from) == [obj |-> o, at |-> at, by |-> by, from |-> from]
Room == Len(frames) < MaxDepth

(* A method is called, from outside or from the method that runs.          *)
Call(o) ==
  /\ Room /\ First(o) # Nil
  /\ frames' = Append(frames, Frame(o, First(o), "call", Nil))
  /\ UNCHANGED <<superContext, thrown, page>>

(* super(): the first one starts above the object's class, one under way   *)
(* above the definition on top of the slot's stack.                        *)
Start(o) ==
  LET stack == superContext[Slot(o)]
  IN IF stack = << >> THEN Parent[ClassOf[o]] ELSE Parent[stack[1]]
super ==
  LET f == Last(frames)
      found == Nearest(Start(f.obj))
      under == superContext[Slot(f.obj)] # << >>
  IN /\ frames # << >> /\ Room /\ found # Nil
     /\ frames' = Append(frames, Frame(f.obj, found, IF under THEN "deeper" ELSE "super", f.at))
     /\ superContext' = [superContext EXCEPT ![Slot(f.obj)] = <<found>> \o @]
     /\ UNCHANGED <<thrown, page>>

(* What super() does when the method it called is back.                    *)
Popped(f) ==
  IF f.by = "call" THEN superContext
  ELSE [superContext EXCEPT ![Slot(f.obj)] =
          IF f.by = "deeper" /\ Len(@) > 1 THEN Tail(@) ELSE << >>]
Return ==
  /\ frames # << >>
  /\ superContext' = Popped(Last(frames))
  /\ frames' = Front(frames)
  /\ UNCHANGED <<thrown, page>>

(* An exception, caught by one of the methods or by none: the slots stay.  *)
Throw ==
  /\ frames # << >> /\ ~thrown
  /\ \E n \in 0..(Len(frames) - 1) : frames' = SubSeq(frames, 1, n)
  /\ thrown' = TRUE
  /\ UNCHANGED <<superContext, page>>

-----------------------------------------------------------------------------
RECURSIVE Path(_)
Path(n) == IF n = Nil THEN << >> ELSE <<n>> \o Path(IF n = Root THEN Nil ELSE parentNode[n])
Within(n, m) == Contains(Path(n), m)

(* bindClassInstance: data() makes an id for a node that has none.  With   *)
(* an id whose entry is gone it throws.                                    *)
bindClassInstance(n, i) ==
  /\ IF idref[n] = Nil
     THEN /\ Len(registry) < MaxBinds
          /\ registry' = Append(registry, i)
          /\ idref' = [idref EXCEPT ![n] = Len(registry) + 1]
     ELSE /\ registry[idref[n]] # Nil
          /\ registry' = [registry EXCEPT ![idref[n]] = i]
          /\ UNCHANGED idref
  /\ bound' = [bound EXCEPT ![n] = i]
  /\ UNCHANGED <<calls, parentNode, taken>>

(* content: the entries of all elements below go, the elements are taken   *)
(* out, and the new content is put in, be it an old one.                   *)
content(n, child) ==
  LET below == {m \in Node : m # n /\ Within(m, n)}
  IN /\ child # Nil => ~Within(n, child)
     /\ registry' = [r \in DOMAIN registry |->
          IF \E m \in below : idref[m] = r THEN Nil ELSE registry[r]]
     /\ parentNode' = [m \in Node |->
          IF m = child THEN n ELSE IF parentNode[m] = n THEN Nil ELSE parentNode[m]]
     /\ taken' = taken \cup below
     /\ UNCHANGED <<calls, idref, bound>>

(* findClassInstance: upwards to the first node with an instance.  `Nil'   *)
(* is none; a node whose entry is gone makes it throw.                     *)
findClassInstance(n) ==
  LET marked == SelectSeq(Path(n), LAMBDA m : m # Root /\ idref[m] # Nil)
  IN IF marked = << >> THEN [throws |-> FALSE, inst |-> Nil]
     ELSE [throws |-> registry[idref[marked[1]]] = Nil, inst |-> registry[idref[marked[1]]]]

-----------------------------------------------------------------------------
Init ==
  /\ frames = << >> /\ superContext = [c \in Range(Id) |-> << >>] /\ thrown = FALSE
  /\ parentNode = [n \in Node |-> Nil] /\ idref = [n \in Node |-> Nil]
  /\ registry = << >> /\ bound = [n \in Node |-> Nil] /\ taken = {}

CallStep == (\E o \in Obj : Call(o)) \/ super \/ Return \/ Throw
NodeStep ==
  \/ \E n \in Node, i \in Inst : bindClassInstance(n, i)
  \/ \E n \in Node \cup {Root}, child \in Node \cup {Nil} : content(n, child)
Next == CallStep \/ NodeStep

Spec == Init /\ [][Next]_vars

-----------------------------------------------------------------------------
(* The calls of a slot come from one method only, so far.                  *)
Alone(i) ==
  \A j, k \in 1..i : (frames[j].by = "call" /\ frames[k].by = "call"
                       /\ Slot(frames[j].obj) = Slot(frames[k].obj)) => j = k
Above(f) == IF f.from \in Own THEN Nearest(ClassOf[f.obj]) ELSE Nearest(Parent[f.from])

(* super() reaches the definition above the one that calls it.  It does    *)
(* not when an exception passed a super() before, when a method of another *)
(* object whose class has the same id (or of the same object) is under     *)
(* way, when the object's own method hides one of its class, and when the  *)
(* method that calls it is inherited: such a method calls itself.  When no *)
(* call is under way nothing is left in a slot, but for an exception.      *)
SuperIsNext ==
  /\ \A i \in DOMAIN frames :
       LET f == frames[i]
           class == ClassOf[f.obj]
       IN (f.by # "call" /\ ~thrown /\ Alone(i)) =>
            \/ f.at = Above(f)
            \/ f.by = "super" /\ f.from \in Own /\ class \in Defines
            \/ f.by = "super" /\ f.from \notin Own /\ f.from # class /\ f.at = f.from
  /\ (frames = << >> /\ ~thrown) => \A s \in DOMAIN superContext : superContext[s] = << >>

(* The instance found for an element is the one last bound to the nearest  *)
(* element above it that has one.  Only an element that was taken out and  *)
(* put back has none any more, and then the search throws.                 *)
FindsOwner ==
  \A n \in Node :
    LET found == findClassInstance(n)
        owners == SelectSeq(Path(n), LAMBDA m : m # Root /\ bound[m] # Nil)
    IN /\ ~found.throws => found.inst = (IF owners = << >> THEN Nil ELSE bound[owners[1]])
       /\ found.throws => owners[1] \in taken
=============================================================================
