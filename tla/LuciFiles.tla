------------------------------ MODULE LuciFiles ------------------------------
(***************************************************************************)
(* The file picker (resources/ui.js, UIFileUpload): a button that opens a  *)
(* listing of a directory on the router, in which the user walks, picks,   *)
(* uploads and deletes.  The handlers of the rows do not wait for the      *)
(* listing they ask for, so requests overlap and answer in any order.      *)
(***************************************************************************)
EXTENDS Integers, FiniteSets

CONSTANTS
  Dir, Root,  \* directories; the one the picker starts in and stays below
  Up,         \* Up[d]: the directory an entry of whose is d, for d # Root
  Name,       \* names of files
  Disk,       \* what may be on the router at the start: sets of entries
  MaxAsks,    \* requests for listings
  Nil

VARIABLES
  disk,       \* external: the entries on the router, [dir, name]
  picked,     \* the value: an entry or Nil
  stat,       \* the entry picked last: the picker opens beside it
  open,
  listing,    \* the rows shown, [dir, rows, drawn], rows = Nil: loading
  asks,       \* requests for a listing, [dir, opens, rows]
  change,     \* the upload or removal under way, [kind, entry, drawn, done]
  drawings,   \* how often the listing was drawn
  asked,      \* history: the directory of the last request, number of them
  raced       \* history: something was clicked while a request was under way

vars == <<disk, picked, stat, open, listing, asks, change, drawings, asked, raced>>

Entry(d, n) == [dir |-> d, name |-> n]
AnyEntry == [dir : Dir, name : Dir \cup Name]
Listing == [dir : Dir, rows : (SUBSET AnyEntry) \cup {Nil}, drawn : Nat]
Change == [kind : {"remove", "upload"}, entry : AnyEntry, drawn : Nat, done : BOOLEAN \cup {Nil}]
Asked == [dir : Dir, opens : BOOLEAN, rows : (SUBSET AnyEntry) \cup {Nil}, n : Nat]
Beside(e) == IF e = Nil THEN Root ELSE e.dir
Below(d) == {e \in disk : e.dir = d}
(* A directory is removed with all that is in it.                          *)
Gone(e) == {e} \cup (IF e.name \in Dir THEN {x \in disk : x.dir = e.name} ELSE {})

Init ==
  /\ disk \in Disk
  /\ picked \in disk \cup {Nil}
  /\ picked # Nil => picked.name \notin Dir
  /\ stat = picked
  /\ open = FALSE
  /\ listing = Nil
  /\ asks = {}
  /\ change = Nil
  /\ drawings = 0
  /\ asked = [dir |-> Nil, n |-> 0]
  /\ raced = FALSE

-----------------------------------------------------------------------------
Ask(d, opens) ==
  /\ asked.n < MaxAsks
  /\ asks' = asks \cup {[dir |-> d, opens |-> opens, rows |-> Nil, n |-> asked.n]}
  /\ asked' = [dir |-> d, n |-> asked.n + 1]

Overlaps == asks # {} \/ change # Nil
Clickable == open /\ listing # Nil

handleFileBrowser ==
  /\ ~open /\ ~\E a \in asks : a.opens
  /\ Ask(Beside(stat), TRUE)
  /\ raced' = (raced \/ Overlaps)
  /\ UNCHANGED <<disk, picked, stat, open, listing, change, drawings>>

(* A directory: the rows give way to the spinner at once.                  *)
List(d) ==
  /\ Ask(d, FALSE)
  /\ listing' = [listing EXCEPT !.rows = Nil]

(* The way back up in the head of the listing: splitPath().                *)
Crumbs(d) == {Root, d} \cup {x \in Dir \ {Root} : d # Root /\ Up[d] = x}

handleSelect ==
  /\ Clickable
  /\ \/ \E d \in Crumbs(listing.dir) : List(d) /\ UNCHANGED <<picked, stat, open>>
     \/ /\ listing.rows # Nil
        /\ \E e \in listing.rows :
             \/ /\ e.name \in Dir
                /\ List(e.name) /\ UNCHANGED <<picked, stat, open>>
             \/ /\ e.name \notin Dir
                /\ picked' = e /\ stat' = e /\ open' = FALSE
                /\ UNCHANGED <<listing, asks, asked>>
  /\ raced' = (raced \/ Overlaps)
  /\ UNCHANGED <<disk, change, drawings>>

(* The router reads the directory; one that is gone lists as empty.        *)
ServeListing == \E a \in asks :
  /\ a.rows = Nil
  /\ asks' = (asks \ {a}) \cup {[a EXCEPT !.rows = Below(a.dir)]}
  /\ UNCHANGED <<disk, picked, stat, open, listing, change, drawings, asked, raced>>

renderListing == \E a \in asks :
  /\ a.rows # Nil
  /\ asks' = asks \ {a}
  /\ listing' = [dir |-> a.dir, rows |-> a.rows, drawn |-> drawings + 1]
  /\ drawings' = drawings + 1
  /\ open' = (open \/ a.opens)
  /\ UNCHANGED <<disk, picked, stat, change, asked, raced>>

handleCancel ==
  /\ Clickable
  /\ open' = FALSE
  /\ UNCHANGED <<disk, picked, stat, listing, asks, change, drawings, asked, raced>>

handleReset ==
  /\ Clickable /\ listing.rows # Nil /\ picked \in listing.rows
  /\ picked' = Nil /\ open' = FALSE
  /\ UNCHANGED <<disk, stat, listing, asks, change, drawings, asked, raced>>

-----------------------------------------------------------------------------
(* Removing the value's own file empties the value before the router has   *)
(* answered.                                                               *)
handleDelete_KeepsPicked == \E e \in disk \cup {picked} :
  /\ Clickable /\ listing.rows # Nil /\ e \in listing.rows /\ change = Nil
  /\ change' = [kind |-> "remove", entry |-> e, drawn |-> listing.drawn, done |-> Nil]
  /\ raced' = (raced \/ Overlaps)
  /\ UNCHANGED <<disk, picked, stat, open, listing, asks, drawings, asked>>
handleDelete == \E e \in disk \cup {picked} :
  /\ Clickable /\ listing.rows # Nil /\ e \in listing.rows /\ change = Nil
  /\ change' = [kind |-> "remove", entry |-> e, drawn |-> listing.drawn, done |-> Nil]
  /\ picked' = IF e = picked THEN Nil ELSE picked
  /\ raced' = (raced \/ Overlaps)
  /\ UNCHANGED <<disk, stat, open, listing, asks, drawings, asked>>

(* The form of an upload knows the rows it was drawn with: the user is     *)
(* asked before a file in them is written over.                            *)
handleUpload == \E n \in Name :
  /\ Clickable /\ change = Nil
  /\ change' = [kind |-> "upload", entry |-> Entry(listing.dir, n),
                drawn |-> listing.drawn, done |-> Nil]
  /\ raced' = (raced \/ Overlaps)
  /\ UNCHANGED <<disk, picked, stat, open, listing, asks, drawings, asked>>

ServeChange(ok) ==
  /\ change # Nil /\ change.done = Nil
  /\ change' = [change EXCEPT !.done = ok]
  /\ disk' = IF ~ok THEN disk
             ELSE IF change.kind = "remove" THEN disk \ Gone(change.entry)
             ELSE IF change.entry.dir # Root /\ Entry(Up[change.entry.dir], change.entry.dir) \notin disk
             THEN disk ELSE disk \cup {change.entry}
  /\ UNCHANGED <<picked, stat, open, listing, asks, drawings, asked, raced>>

(* The directory is listed again from the row that was clicked; a listing  *)
(* drawn meanwhile has thrown that row away, and the handler fails.  A     *)
(* removal that failed is only reported, an upload lists in any case.      *)
ChangeReturns ==
  /\ change # Nil /\ change.done # Nil
  /\ change' = Nil
  /\ IF listing.drawn = change.drawn /\ (change.done \/ change.kind = "upload")
     THEN List(change.entry.dir) ELSE UNCHANGED <<asks, asked, listing>>
  /\ UNCHANGED <<disk, picked, stat, open, drawings, raced>>

Next ==
  \/ handleFileBrowser \/ handleSelect \/ handleCancel \/ handleReset
  \/ handleDelete \/ handleUpload
  \/ ServeListing \/ renderListing \/ (\E ok \in BOOLEAN : ServeChange(ok)) \/ ChangeReturns

Spec == Init /\ [][Next]_vars

-----------------------------------------------------------------------------
(* At rest, unless requests overlapped, the open picker shows the          *)
(* directory asked for last, as it is on the router, and the value names a *)
(* file that is there, or one whose directory was removed around it.       *)
FilesShown ==
  ~raced =>
    /\ open /\ asks = {} /\ change = Nil =>
         listing.dir = asked.dir /\ listing.rows = Below(asked.dir)
    /\ picked # Nil /\ change = Nil /\ picked \notin disk => Below(picked.dir) = {}
=============================================================================
