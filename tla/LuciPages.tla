------------------------------ MODULE LuciPages ------------------------------
(***************************************************************************)
(* Three parts of the pages that share nothing with each other: a form     *)
(* (LuciForm), the file picker (LuciFiles) and the wireless page           *)
(* (LuciWireless).  A behaviour takes one part, chosen at the start; the   *)
(* variables of the part stand in v1, v2, ..., and those it has no use for *)
(* are Null.                                                               *)
(***************************************************************************)
EXTENDS Integers, SequencesExt, FiniteSetsExt, Subsequence

CONSTANTS
  Shapes, Field, Key, FormValue, Bad, Old, NewSection, FormSteps,
  Dir, TopDir, Up, FileName, Disk, MaxAsks,
  WifiRadio, Bss, WifiStart, MaxNets, WifiSteps,
  Null

VARIABLES part, v1, v2, v3, v4, v5, v6, v7, v8, v9, v10, v11

Form == INSTANCE LuciForm WITH
  Nil <- Null, New <- NewSection, Value <- FormValue, MaxSteps <- FormSteps, shape <- v1, store <- v2,
  server <- v3, rows <- v4, dialog <- v5, added <- v6, saving <- v7,
  sorting <- v8, redrawn <- v9, astray <- v10, steps <- v11
Files == INSTANCE LuciFiles WITH
  Nil <- Null, Root <- TopDir, Name <- FileName, disk <- v1, picked <- v2,
  stat <- v3, open <- v4, listing <- v5, asks <- v6, change <- v7,
  drawings <- v8, asked <- v9, raced <- v10
Wireless == INSTANCE LuciWireless WITH
  Nil <- Null, Radio <- WifiRadio, Start <- WifiStart, MaxSteps <- WifiSteps,
  radioOff <- v1, nets <- v2, dialog <- v3, scan <- v4, on <- v5,
  may <- v6, seen <- v7, steps <- v8

(* Fields are numbered as they were declared, section and form are not     *)
(* nothing, and a form's fields are options of its sections.               *)
ASSUME FormAssumption ==
  /\ IsFiniteSet(Field) /\ Field = 1..Cardinality(Field)
  /\ IsFiniteSet(Old) /\ NewSection \notin Old
  /\ Null \notin Old \cup {NewSection} \cup Form!Dialog
  /\ \A sh \in Shapes : /\ sh.uci \in [Field -> Key] /\ sh.onMap \in BOOLEAN
                        /\ sh.stored \subseteq [Key -> FormValue \cup {Null}]

(* Files are not called like directories, and an entry that is a directory *)
(* is in the one above it.                                                 *)
Filed(disk) ==
  /\ disk \subseteq Files!AnyEntry
  /\ \A e \in disk : e.name \in Dir => e.name # TopDir /\ e.dir = Up[e.name]
ASSUME FilesAssumption ==
  /\ TopDir \in Dir /\ Up \in [Dir \ {TopDir} -> Dir] /\ FileName \cap Dir = {}
  /\ \A disk \in Disk : Filed(disk)
  /\ Null \notin Files!AnyEntry /\ \A rows \in SUBSET Files!AnyEntry : rows # Null
  /\ Null \notin BOOLEAN /\ Null \notin Files!Change /\ Null \notin Files!Listing

(* Sections have names of their own, the anonymous ones too.               *)
ASSUME WirelessAssumption ==
  /\ \A s \in WifiStart :
        /\ s.off \in [WifiRadio -> BOOLEAN] /\ s.nets \in Seq(Wireless!Net)
        /\ \A i, k \in DOMAIN s.nets : s.nets[i].sid = s.nets[k].sid => i = k
  /\ Null \notin Wireless!Dialog

PagesInit ==
  \/ part = "form" /\ Form!Init
  \/ part = "files" /\ Files!Init /\ v11 = Null
  \/ part = "wireless" /\ Wireless!Init /\ v9 = Null /\ v10 = Null /\ v11 = Null
PagesNext ==
  \/ part = "form" /\ Form!Next /\ UNCHANGED part
  \/ part = "files" /\ Files!Next /\ UNCHANGED <<part, v11>>
  \/ part = "wireless" /\ Wireless!Next /\ UNCHANGED <<part, v9, v10, v11>>

pagesVars == <<part, v1, v2, v3, v4, v5, v6, v7, v8, v9, v10, v11>>
PagesSpec == PagesInit /\ [][PagesNext]_pagesVars

-----------------------------------------------------------------------------
(* A dismissed dialog leaves nothing behind.                               *)
FormUndoes == [][part = "form" => Form!Undone]_pagesVars

(* The picker shows the directory as it is on the router, and the value    *)
(* names a file that is there.                                             *)
ListingsShown == part = "files" => Files!FilesShown

(* Networks are only turned on and off by the user, whatever radios they   *)
(* share, and the scan shows what is there.                                *)
WirelessKept == part = "wireless" => Wireless!UserDecides /\ Wireless!ScanShown
=============================================================================
