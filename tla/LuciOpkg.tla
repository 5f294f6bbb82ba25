------------------------------ MODULE LuciOpkg ------------------------------
(***************************************************************************)
(* The software page (resources/view/opkg.js): the two package lists the   *)
(* page parses, what it makes of dependencies and versions, the table with *)
(* its filter and pages, the dialogs, and the commands it has              *)
(* /usr/libexec/opkg-call run.  opkg itself is external.  An open dialog   *)
(* covers the page, answers arrive all the same.                           *)
(***************************************************************************)
EXTENDS Integers, SequencesExt, FiniteSetsExt

CONSTANTS
  Names,       \* names of packages and of what they provide, in sort order
  Top,         \* what a user asks for by hand
  PageSize,    \* rows per page: 100 in the code
  Routers,     \* [feed, installed]: what the feeds and the router can hold
  MaxCommands, MaxDownloads, Nil

Name == ToSet(Names)

VARIABLES
  router,      \* external: the feeds, and what is installed
  lists,       \* packages.available and packages.installed, as parsed
  mode,        \* currentDisplayMode
  filter,      \* the names the filter lets through
  typed,       \* inputTimeout is set
  rows,        \* currentDisplayRows
  table,       \* the rows on the page
  offset,      \* data-offset of the pagers
  dialog,      \* what the modal shows, Nil if it is hidden
  upload,      \* /tmp/upload.ipk exists
  downloads,   \* downloads under way
  commands,    \* commands so far
  overlapped, lost, paged, failed, raised   \* history, for the properties

page == <<lists, mode, filter, typed, rows, table, offset>>
history == <<overlapped, lost, paged, failed, raised>>
vars == <<router, page, dialog, upload, downloads, commands, history>>

-----------------------------------------------------------------------------
(* Versions: sequences of character codes.  "~" sorts before the end, and  *)
(* that before letters and everything else.                                *)

Digit == 48..57
Letter == 65..90 \cup 97..122
CharAt(v, i) == IF i <= Len(v) THEN v[i] ELSE 0

orderOf(c) ==
  CASE c = 126                  -> -1
    [] c = 0 \/ c \in Digit     -> 0
    [] c \in Letter             -> c
    [] OTHER                    -> c + 256

(* The first position from i on that holds no zero.                        *)
SkipZeros(v, i) == CHOOSE k \in i..Len(v) + 1 :
                     CharAt(v, k) # 48 /\ \A j \in i..k - 1 : v[j] = 48

RECURSIVE CompareWords(_, _, _, _), CompareNumbers(_, _, _, _, _)
CompareWords(v, w, i, j) ==
  LET a == CharAt(v, i)
      b == CharAt(w, j)
      more == a \notin Digit \cup {0} \/ b \notin Digit \cup {0}
  IN CASE more /\ orderOf(a) # orderOf(b) -> orderOf(a) - orderOf(b)
       [] more                            -> CompareWords(v, w, i + 1, j + 1)
       [] a = 0 /\ b = 0                  -> 0
       [] OTHER -> CompareNumbers(v, w, SkipZeros(v, i), SkipZeros(w, j), 0)
CompareNumbers(v, w, i, j, first) ==
  LET a == CharAt(v, i)
      b == CharAt(w, j)
  IN CASE a \in Digit /\ b \in Digit ->
            CompareNumbers(v, w, i + 1, j + 1, IF first = 0 THEN a - b ELSE first)
       [] a \in Digit    -> 1
       [] b \in Digit    -> -1
       [] first # 0      -> first
       [] OTHER          -> CompareWords(v, w, i, j)

compareVersion(v, w) ==
  IF v = w THEN 0
  ELSE CompareWords(v, w, 1, 1)

versionSatisfied(ver, ref, vop) ==
  LET r == compareVersion(ver, ref)
  IN CASE vop \in {"<", "<="} -> r <= 0
       [] vop \in {">", ">="} -> r >= 0
       [] vop = "<<"          -> r < 0
       [] vop = ">>"          -> r > 0
       [] vop = "="           -> r = 0
       [] OTHER               -> FALSE

-----------------------------------------------------------------------------
(* Lists: what parseList was given, in order.  A package replaces the one  *)
(* of its name; it is entered as a provider of its own name only if nobody *)
(* provides that name yet.                                                 *)

Pkgs(list, n) ==
  LET at == {i \in 1..Len(list) : list[i].name = n}
  IN IF at = {} THEN Nil ELSE list[Max(at)]

Provide(providers, pkg) ==
  LET own == IF providers[pkg.name] = << >> THEN {pkg.name} ELSE {}
  IN [n \in Name |-> IF n \in own \cup pkg.provides
                     THEN Append(providers[n], pkg) ELSE providers[n]]
Providers(list) == FoldLeft(Provide, [n \in Name |-> << >>], list)

(* pkgStatus: what one package means for the plan.                         *)
Installed(pkg) == pkg # Nil /\ pkg.installed
pkgStatus(pkg, dep, info) ==
  LET fits(p) == dep.vop = Nil \/ versionSatisfied(p.version, dep.ver, dep.vop)
      updates == SelectSeq(Providers(lists.available)[pkg.name],
                           LAMBDA p : versionSatisfied(p.version, dep.ver, dep.vop))
  IN CASE pkg.installed /\ fits(pkg) -> info
       [] pkg.installed /\ updates # << >> ->
            [info EXCEPT !.install = Append(@, updates[1])]
       [] ~pkg.installed /\ fits(pkg) ->
            [info EXCEPT !.install = Append(@, pkg)]
       [] OTHER -> [info EXCEPT !.errors = @ + 1]

(* The packages that provide a name: the installed ones, then the others.  *)
Alternatives(n) ==
  FoldLeft(LAMBDA s, p : IF Contains(s, p.name) THEN s ELSE Append(s, p.name),
           << >>, Providers(lists.installed)[n] \o Providers(lists.available)[n])
Known(n) == IF Pkgs(lists.installed, n) # Nil THEN Pkgs(lists.installed, n)
            ELSE Pkgs(lists.available, n)

(* renderDependencies and renderDependencyItem: depth first, each name     *)
(* once, under the first version it was asked for in.                      *)
RECURSIVE renderDependencies(_, _)
renderDependencyItem_Shallow(dep, info) ==
  IF Alternatives(dep.on) = << >> THEN [info EXCEPT !.errors = @ + 1]
  ELSE FoldLeft(LAMBDA inf, n : pkgStatus(Known(n), dep, inf), info, Alternatives(dep.on))
renderDependencyItem(dep, info) ==
  LET pkgs == [i \in DOMAIN Alternatives(dep.on) |-> Known(Alternatives(dep.on)[i])]
      status == FoldLeft(LAMBDA inf, p : pkgStatus(p, dep, inf), info, pkgs)
      depends == FoldLeft(LAMBDA s, p : s \o p.depends, << >>, pkgs)
  IN CASE pkgs = << >> -> [info EXCEPT !.errors = @ + 1]
       [] OTHER        -> renderDependencies(depends, status)
Seen(dep, info) == dep.on \in info.seen
renderDependencies(deps, info) ==
  FoldLeft(LAMBDA inf, dep :
             IF Seen(dep, inf) THEN inf
             ELSE renderDependencyItem(dep, [inf EXCEPT !.seen = @ \cup {dep.on}]),
           info, deps)

NoInfo == [seen |-> {}, install |-> << >>, errors |-> 0]
Plan(pkg) == renderDependencies(pkg.depends, NoInfo)

-----------------------------------------------------------------------------
(* The table                                                               *)

(* The button of a row, Nil if the mode leaves the package out.            *)
Button(ls, m, n) ==
  LET inst == Pkgs(ls.installed, n)
      avail == Pkgs(ls.available, n)
  IN CASE m = "updates" ->
            IF /\ Installed(inst) /\ avail # Nil
               /\ compareVersion(avail.version, inst.version) > 0
            THEN "install" ELSE Nil
       [] m = "installed" -> IF Installed(inst) THEN "remove" ELSE Nil
       [] OTHER ->
            CASE avail = Nil -> Nil
              [] Installed(inst) /\ inst.version = avail.version -> "disabled"
              [] OTHER -> "install"

Rows(ls, m, f) ==
  SelectSeq(Names, LAMBDA n : n \in f /\ Button(ls, m, n) # Nil)
Row(ls, m, n) == [name |-> n, button |-> Button(ls, m, n)]

Slice(rs, from) == SubSeq(rs, from + 1, Min({from + PageSize, Len(rs)}))

(* display(pattern): all rows, from the first page.                        *)
Display(ls, m, f) ==
  /\ rows' = [i \in DOMAIN Rows(ls, m, f) |-> Row(ls, m, Rows(ls, m, f)[i])]
  /\ offset' = 0
  /\ table' = Slice(rows', 0)

quiet == <<router, dialog, upload, downloads, commands, overlapped, lost,
           failed, raised>>

handlePage(next) ==
  /\ dialog = Nil
  /\ IF next THEN offset + PageSize < Len(rows) ELSE offset >= PageSize
  /\ offset' = IF next THEN offset + PageSize ELSE offset - PageSize
  /\ table' = Slice(rows, offset')
  /\ paged' = (paged \/ table # Slice(rows, offset))
  /\ UNCHANGED <<quiet, lists, mode, filter, typed, rows>>

handleMode(m) ==
  /\ dialog = Nil /\ m # mode
  /\ mode' = m
  /\ Display(lists, m, filter)
  /\ paged' = FALSE
  /\ UNCHANGED <<quiet, lists, filter, typed>>

(* handleInput restarts its timer; the timer reads the field.              *)
handleInput(f) ==
  /\ dialog = Nil /\ f # filter
  /\ filter' = f /\ typed' = TRUE
  /\ UNCHANGED <<quiet, lists, mode, rows, table, offset, paged>>
InputTimer ==
  /\ typed
  /\ typed' = FALSE
  /\ Display(lists, mode, filter)
  /\ paged' = FALSE
  /\ UNCHANGED <<quiet, lists, mode, filter>>
handleReset ==
  /\ dialog = Nil /\ filter # Name
  /\ filter' = Name
  /\ Display(lists, mode, Name)
  /\ paged' = FALSE
  /\ UNCHANGED <<quiet, lists, mode, typed>>

-----------------------------------------------------------------------------
(* Downloads                                                               *)

(* updateLists() empties table and lists at once; the rows stay.           *)
NoLists == [available |-> << >>, installed |-> << >>]
updateLists ==
  /\ table' = << >> /\ lists' = NoLists /\ paged' = FALSE
  /\ downloads' = Append(downloads, Nil)
  /\ overlapped' = (downloads # << >>) /\ lost' = FALSE
  /\ UNCHANGED <<mode, filter, typed, rows, offset>>

(* The router answers a download with what it holds at that moment.        *)
ServeLists(d) ==
  /\ downloads[d] = Nil
  /\ downloads' = [downloads EXCEPT ![d] = [available |-> router.feed,
                                            installed |-> router.installed]]
  /\ UNCHANGED <<router, page, dialog, upload, commands, history>>

(* Its answer is parsed into the lists there are now.                      *)
Parsed(answer) == [available |-> lists.available \o answer.available,
                   installed |-> lists.installed \o answer.installed]
ListsArrive(d) ==
  /\ downloads[d] # Nil
  /\ lists' = Parsed(downloads[d])
  /\ downloads' = RemoveAt(downloads, d)
  /\ Display(Parsed(downloads[d]), mode, filter)
  /\ paged' = FALSE
  /\ UNCHANGED <<router, mode, filter, typed, dialog, upload, commands, overlapped,
                 lost, failed, raised>>
ListsLost(d) ==
  /\ downloads' = RemoveAt(downloads, d)
  /\ lost' = TRUE
  /\ UNCHANGED <<router, page, dialog, upload, commands, overlapped, paged, failed, raised>>

-----------------------------------------------------------------------------
(* Dialogs and commands                                                    *)

Shows(d) ==
  /\ dialog' = d
  /\ UNCHANGED <<router, page, downloads, commands, overlapped, lost, paged, failed>>

Pressed(n, button) == \E i \in DOMAIN table : table[i] = [name |-> n, button |-> button]

(* handleInstall and handleRemove look the package up again; without it    *)
(* they throw.                                                             *)
handleInstall(n) ==
  /\ dialog = Nil /\ Pressed(n, "install")
  /\ LET pkg == Pkgs(lists.available, n)
     IN IF pkg = Nil THEN raised' = TRUE /\ Shows(Nil)
        ELSE /\ Shows([kind |-> "install", pkg |-> n, plan |-> Plan(pkg)])
             /\ UNCHANGED raised
  /\ UNCHANGED upload
handleRemove(n) ==
  /\ dialog = Nil /\ Pressed(n, "remove")
  /\ IF Pkgs(lists.installed, n) = Nil THEN raised' = TRUE /\ Shows(Nil)
     ELSE Shows([kind |-> "remove", pkg |-> n]) /\ UNCHANGED raised
  /\ UNCHANGED upload
handleManualInstall ==
  /\ dialog = Nil
  /\ Shows([kind |-> IF Providers(lists.available)[Top] = << >>
                     THEN "unknown" ELSE "install by hand", pkg |-> Top])
  /\ UNCHANGED <<upload, raised>>
handleUpload ==
  /\ dialog = Nil
  /\ upload' = TRUE
  /\ Shows([kind |-> "install upload", pkg |-> Top])
  /\ UNCHANGED raised
Cancel ==
  /\ dialog # Nil /\ dialog.kind \notin {"running", "result"}
  /\ upload' = (upload /\ dialog.kind # "install upload")
  /\ Shows(Nil)
  /\ UNCHANGED raised

handleOpkg ==
  /\ dialog # Nil /\ dialog.kind \notin {"running", "result", "unknown"}
  /\ commands < MaxCommands
  /\ commands' = commands + 1
  /\ dialog' = [kind |-> "running", of |-> dialog.kind, pkg |-> dialog.pkg]
  /\ UNCHANGED <<router, page, upload, downloads, history>>

(* opkg: a command that succeeds has installed its package with others of  *)
(* the feeds, or removed it with those that needed it.                     *)
After(new, gone) ==
  SelectSeq(router.installed, LAMBDA p : p.name \notin gone \cup new)
    \o SetToSeq({[p EXCEPT !.installed = TRUE] : p \in
                   {q \in ToSet(router.feed) : q.name \in new}})
Opkg ==
  \/ UNCHANGED router
  \/ /\ dialog.of = "install"
     /\ \E new \in SUBSET Name : /\ dialog.pkg \in new
                                /\ router' = [router EXCEPT !.installed = After(new, {})]
  \/ /\ dialog.of = "remove"
     /\ \E gone \in SUBSET Name : /\ dialog.pkg \in gone
                                 /\ router' = [router EXCEPT !.installed = After({}, gone)]
OpkgAnswers ==
  /\ dialog # Nil /\ dialog.kind = "running"
  /\ Opkg
  /\ dialog' = [kind |-> "result", of |-> dialog.of]
  /\ UNCHANGED <<page, upload, downloads, commands, history>>

(* No answer: the dialog goes, its promise never settles.                  *)
OpkgLost ==
  /\ dialog # Nil /\ dialog.kind = "running"
  /\ Opkg
  /\ dialog' = Nil /\ failed' = TRUE /\ lost' = TRUE
  /\ UNCHANGED <<page, upload, downloads, commands, overlapped, paged, raised>>

(* Dismiss: the lists are loaded again, and the upload's promise settles.  *)
Dismiss ==
  /\ dialog # Nil /\ dialog.kind = "result"
  /\ Len(downloads) < MaxDownloads
  /\ dialog' = Nil
  /\ upload' = (upload /\ dialog.of # "install upload")
  /\ updateLists
  /\ UNCHANGED <<router, commands, failed, raised>>

-----------------------------------------------------------------------------
Init ==
  /\ router = Nil /\ lists = NoLists /\ mode = "available" /\ filter = Name
  /\ typed = FALSE /\ rows = << >> /\ table = << >> /\ offset = 0
  /\ dialog = Nil /\ upload = FALSE /\ downloads = << >> /\ commands = 0
  /\ overlapped = FALSE /\ lost = FALSE /\ paged = FALSE /\ failed = FALSE /\ raised = FALSE

(* load() and the first frame.                                             *)
Open(r) ==
  /\ router = Nil
  /\ router' = r
  /\ downloads' = <<[available |-> r.feed, installed |-> r.installed]>>
  /\ UNCHANGED <<page, dialog, upload, commands, history>>

User ==
  \/ \E next \in BOOLEAN : handlePage(next)
  \/ \E m \in {"available", "installed", "updates"} : handleMode(m)
  \/ \E n \in Name : handleInput({n})
  \/ handleReset
  \/ \E n \in Name : handleInstall(n) \/ handleRemove(n)
  \/ handleManualInstall \/ handleUpload \/ Cancel \/ handleOpkg \/ Dismiss
Next ==
  \/ \E r \in Routers : Open(r)
  \/ router # Nil /\ (User \/ InputTimer \/ OpkgAnswers \/ OpkgLost)
  \/ \E d \in DOMAIN downloads : ServeLists(d) \/ ListsArrive(d) \/ ListsLost(d)

Spec == Init /\ [][Next]_vars

-----------------------------------------------------------------------------
(* A plan without an error leaves nothing open: everything that the        *)
(* package, or a package the plan installs anew, depends on has each of    *)
(* its alternatives installed or in the plan.  renderDependencies visits   *)
(* a name once, whoever asks first.                                        *)
PlanCloses ==
  dialog # Nil /\ dialog.kind = "install" /\ dialog.plan.errors = 0 =>
    LET planned == ToSet(dialog.plan.install)
        new == {p \in planned : ~Installed(Pkgs(lists.installed, p.name))}
        names == {p.name : p \in planned}
    IN \A p \in new \cup {Pkgs(lists.available, dialog.pkg)} :
         \A dep \in ToSet(p.depends) :
           /\ Alternatives(dep.on) # << >>
           /\ \A n \in ToSet(Alternatives(dep.on)) :
                n \in names \/ Installed(Pkgs(lists.installed, n))

(* At rest the page's lists are the router's, whatever commands ran, if no *)
(* answer was lost and no reload overtook another: overlapping reloads are *)
(* parsed into one list.                                                   *)
ListsFollow ==
  /\ router # Nil /\ dialog = Nil /\ downloads = << >> /\ ~lost /\ ~overlapped
  => lists = [available |-> router.feed, installed |-> router.installed]

(* Every button on the page does what its row says by the lists there are, *)
(* and finds its package, unless the user turned a page while the lists    *)
(* were loading: handlePage shows the rows of before.                      *)
ButtonsAnswer ==
  /\ ~paged => \A i \in DOMAIN table : table[i] = Row(lists, mode, table[i].name)
  /\ \A i \in DOMAIN table : Contains(rows, table[i])

(* An uploaded package is deleted when its dialog ends, unless the command *)
(* got no answer: then its promise never settles.                          *)
UploadEnds ==
  upload => failed \/ (dialog # Nil /\ (dialog.kind = "install upload"
                         \/ (dialog.kind \in {"running", "result"}
                               /\ dialog.of = "install upload")))
=============================================================================
