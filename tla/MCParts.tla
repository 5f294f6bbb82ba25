-------------------------------- MODULE MCParts --------------------------------
(***************************************************************************)
(* One model for the parts that share nothing with each other: those of    *)
(* the pages (LuciOpkg, LuciForm and so on), a modem's SIMs, the updaters  *)
(* of a name and eco's condition variable.  A behaviour takes one part,    *)
(* chosen at the start.  The three daemons have their own variables, which *)
(* stay as they are at the start in the other parts; the variables of a    *)
(* part of the pages stand in v1, v2, ..., and those it has no use for are *)
(* Nil.  Two processes switch the SIM, with three calls; three updaters    *)
(* have one retry; three coroutines wait four times.                       *)
(***************************************************************************)
EXTENDS LuciPages, DualSim, DdnsUpdater, EcoSync, SequencesExt, FiniteSetsExt

VARIABLES v12, v13, v14, v15, v16, v17

-----------------------------------------------------------------------------
(* LuciOpkg: packages "a" and "b", which depend on each other and on a     *)
(* package "v" that "b" may provide.                                       *)
Names == <<"a", "b", "v">>
Top == "a"
PageSize == 1
MaxCommands == 1
MaxDownloads == 2
One == <<49>>
Two == <<50>>
On(n) == [on |-> n, vop |-> Nil, ver |-> Nil]
AtLeast(n, v) == [on |-> n, vop |-> ">=", ver |-> v]
Pkg(n, v, deps, provides, installed) ==
  [name |-> n, version |-> v, depends |-> deps, provides |-> provides, installed |-> installed]
Present(n) == Pkg(n, One, << >>, {}, TRUE)
Routers ==
  {[feed |-> <<Pkg("a", One, da, pa, FALSE), Pkg("b", vb, db, pb, FALSE)>>, installed |-> ins] :
     da \in {<<On("b")>>, <<AtLeast("b", Two)>>, <<On("v"), On("b")>>},
     pa \in {{}, {"b"}}, vb \in {One}, db \in {<< >>, <<On("a")>>, <<On("v")>>}, pb \in {{"v"}},
     ins \in {<< >>, <<Present("b")>>, <<Present("a"), Present("b")>>}}
Opkg == INSTANCE LuciOpkg WITH
  router <- v1, lists <- v2, mode <- v3, filter <- v4, typed <- v5,
  rows <- v6, table <- v7, offset <- v8, dialog <- v9, upload <- v10,
  downloads <- v11, commands <- v12, overlapped <- v13, lost <- v14,
  paged <- v15, failed <- v16, raised <- v17

-----------------------------------------------------------------------------
(* LuciForm: a chain of dependencies, two fields that share an option, and *)
(* fields that keep their values or depend on not having one.              *)
If(f, v) == [if |-> {[on |-> f, is |-> v]}, reverse |-> FALSE]
IfNot(f, v) == [if |-> {[on |-> f, is |-> v]}, reverse |-> TRUE]
Options(a, b, c) == [k \in {"a", "b", "c"} |-> IF k = "a" THEN a ELSE IF k = "b" THEN b ELSE c]
FormShapes == {
  [uci |-> <<"a", "b", "c">>, deps |-> <<{If(2, "x")}, {If(3, "x")}, {}>>, required |-> {1},
   retain |-> {}, hidden |-> {}, onMap |-> TRUE,
   stored |-> {Options(Nil, Nil, Nil), Options("y", "x", "x")}],
  [uci |-> <<"a", "a", "c">>, deps |-> <<{If(3, "x")}, {If(3, "y")}, {}>>, required |-> {2},
   retain |-> {}, hidden |-> {}, onMap |-> TRUE, stored |-> {Options("x", Nil, "x")}],
  [uci |-> <<"a", "b", "c">>, deps |-> <<{IfNot(2, "x")}, {}, {If(2, "x"), If(1, "x")}>>,
   required |-> {}, retain |-> {1}, hidden |-> {"s2"}, onMap |-> FALSE,
   stored |-> {Options("x", "x", "y")}]}

-----------------------------------------------------------------------------
(* LuciNetwork: three wifi-ifaces on two radios, one with a name.          *)
NetRadio == {"r0", "r1"}
NetName == {"lan", "wwan"}
Bridged == {"lan"}
Fresh == {"n"}
NetSteps == 3
MaxLoads == 2
Ifs(s, d, a, ns) == [sid |-> s, device |-> d, anon |-> a, nets |-> ns]
NetStart == {
  <<Ifs("a", "r0", TRUE, {"lan"}), Ifs("b", "r0", TRUE, {"wwan"}), Ifs("c", "r1", FALSE, {"lan"})>>,
  <<Ifs("a", "r0", FALSE, {"lan"}), Ifs("b", "r0", FALSE, {"wwan"}), Ifs("c", "r0", TRUE, {})>>}
Network == INSTANCE LuciNetwork WITH
  Radio <- NetRadio, Net <- NetName, Start <- NetStart,
  MaxSteps <- NetSteps, ifs <- v1, live <- v2, state <- v3,
  loads <- v4, wrote <- v5, steps <- v6

-----------------------------------------------------------------------------
(* LuciLists: dropdowns, multiple ones, protocols and lists.               *)
Words == <<"1", "a", "all", "x">>
ListProtos == <<[name |-> "a", number |-> "1"], [name |-> "b", number |-> "1"]>>
All == "all"
ListSteps == 3
Kind(w, o, c, s, offered) ==
  [widget |-> w, optional |-> o, create |-> c, stored |-> s, offered |-> offered]
Kinds ==
  {Kind("select", o, c, s, <<"a", "b", "c">>) : o, c \in BOOLEAN, s \in {<< >>, <<"b">>, <<"x">>}}
  \cup {Kind("multi", o, c, s, <<"a", "b", "c">>) : o, c \in BOOLEAN, s \in {<<"b">>, <<"a", "c">>}}
  \cup {Kind("protocols", FALSE, TRUE, s, <<"all", "a", "b">>) :
          s \in {<<"all">>, <<"b">>, <<"a", "x">>}}
  \cup {Kind("list", TRUE, TRUE, s, <<"a", "b">>) : s \in {<< >>, <<"b">>, <<"x">>}}
Lists == INSTANCE LuciLists WITH
  Protos <- ListProtos, MaxSteps <- ListSteps, kind <- v1, choices <- v2,
  sel <- v3, value <- v4, items <- v5, asked <- v6, steps <- v7

-----------------------------------------------------------------------------
(* LuciTabs: fields on two or three panes.                                 *)
Pane == 1..3
TabValue == {"x", "y"}
Forms == {
  [pane |-> <<1, 1, 2, 2>>,
   deps |-> <<{}, {If(1, "x")}, {If(2, "y")}, {If(3, "x"), IfNot(1, "x")}>>,
   stored |-> [1..4 -> TabValue]],
  [pane |-> <<2, 1, 1, 2>>, deps |-> <<{If(2, "x")}, {If(3, "y")}, {}, {IfNot(1, "y")}>>,
   stored |-> {<<"x", "x", "y", "x">>}],
  [pane |-> <<3, 3, 2>>, deps |-> <<{IfNot(2, "x")}, {If(3, "x")}, {}>>,
   stored |-> {<<"x", "x", "y">>}]}
Tabs == INSTANCE LuciTabs WITH
  Value <- TabValue, cbi <- v1, val <- v2, nodes <- v3, tabs <- v4,
  active <- v5, loaded <- v6, passes <- v7, remembered <- v8

-----------------------------------------------------------------------------
(* LuciLoader: class files with and without circles.                       *)
Class == {"ui", "rpc", "form", "val"}
PageClass == {"ui", "form", "rpc"}
Graph == {
  [ui |-> <<"rpc", "val">>, form |-> <<"ui", "rpc">>, rpc |-> << >>, val |-> <<"rpc">>],
  [ui |-> <<"form", "val">>, form |-> <<"ui", "rpc">>, rpc |-> << >>, val |-> << >>],
  [ui |-> <<"val">>, form |-> <<"rpc", "val">>, rpc |-> << >>, val |-> <<"rpc", "val">>]}
Loader == INSTANCE LuciLoader WITH
  Root <- PageClass, head <- v1, class <- v2, from <- v3, made <- v4,
  lost <- v5

-----------------------------------------------------------------------------
(* LuciFiles: a directory in the one where the browser opens.              *)
FilesUp == [d \in {"d"} |-> "r"]
In(d, n) == [dir |-> d, name |-> n]
Disks == {{In("r", "f"), In("r", "d"), In("d", "f")}, {In("r", "d")}}

-----------------------------------------------------------------------------
(* LuciWireless: two radios, networks with names and without.              *)
Wifi(s, d, off, anon) == [sid |-> s, device |-> d, off |-> off, anon |-> anon]
WifiStarts == {
  [off |-> [r \in {"r0", "r1"} |-> r = "r0"],
   nets |-> <<Wifi(0, "r0", FALSE, FALSE), Wifi(1, "r0", TRUE, FALSE)>>],
  [off |-> [r \in {"r0", "r1"} |-> r = "r1"],
   nets |-> <<Wifi(100, "r0", FALSE, TRUE), Wifi(1, "r0", FALSE, FALSE), Wifi(101, "r1", TRUE, TRUE)>>]}

-----------------------------------------------------------------------------
(* LuciRadio: a radio with 802.11n and ac on two bands.                    *)
Modes == <<"", "n", "ac">>
Ciphered == {"psk2"}
Device(ht, hw, band, chan) == [ht |-> ht, hw |-> hw, band |-> band, chan |-> chan]
Stored == {Device("HT40", "11g", Nil, "6"), Device("VHT80", Nil, "5g", "36"),
           Device("", Nil, "2g", Nil), Device("VHT80", "11g", Nil, "1")}
Crypto == {[enc |-> "psk2", cipher |-> "aes"], [enc |-> "sae", cipher |-> Nil],
           [enc |-> "psk2", cipher |-> "tkip+aes"]}
Widths == [m \in Range(Modes) |-> CASE m = "" -> <<"">> [] m = "n" -> <<"HT20", "HT40">>
                                    [] m = "ac" -> <<"VHT20", "VHT80">>]
Bands == [m \in Range(Modes) |-> IF m = "ac" THEN <<"5g">> ELSE <<"2g", "5g">>]
Channels == [b \in {"2g", "5g"} |-> IF b = "2g" THEN <<"auto", "1", "6">> ELSE <<"auto", "36">>]
ModeOf == [w \in {"", "HT20", "HT40", "VHT20", "VHT80"} |->
             IF w = "" THEN "" ELSE IF w \in {"HT20", "HT40"} THEN "n" ELSE "ac"]
MaxPicks == 3
Radio == INSTANCE LuciRadio WITH
  stored <- v1, sel <- v2, rem <- v3, chosen <- v4, crypto <- v5,
  shown <- v6, meant <- v7, picks <- v8

-----------------------------------------------------------------------------
(* LuciValidate: the data types of the pages, and short texts.             *)
V4 == "v4"
V6 == "v6"
HostName == "lan"
Number == {"n24", "n40", "n200", "n70000"}
NumberOf == [n \in Number |-> CASE n = "n24" -> 24 [] n = "n40" -> 40 [] n = "n200" -> 200
                                [] n = "n70000" -> 70000]
Type(t, a, of) == [type |-> t, arg |-> a, of |-> of]
Leaf(t, a) == Type(t, a, << >>)
Checks == {
  Type("list", 0, <<Type("neg", 0, <<Leaf("ipmask", TRUE)>>)>>),
  Type("list", 0, <<Type("neg", 0, <<Type("or", 0, <<Leaf("uciname", 0), Leaf("hostname", 0),
                                                    Leaf("ipmask", FALSE)>>)>>)>>),
  Type("or", 0, <<Leaf("cidr4", FALSE), Leaf("ipmask4", FALSE)>>),
  Type("neg", 0, <<Leaf("portrange", 0)>>),
  Type("and", 0, <<Leaf("port", 0), Leaf("min", 30)>>),
  Leaf("host", 0), Leaf("network", 0), Leaf("ipaddr", FALSE), Leaf("cidr", TRUE)}
Tok == {V4, V6, HostName} \cup Number \cup {"/", "-", "!", " "}
Wordy == {V4, V6, HostName} \cup Number
SpacesApart(v) == \A i \in 1..(Len(v) - 1) : ~(v[i] \in Wordy /\ v[i + 1] \in Wordy)
Texts ==
  {v \in UNION {[1..n -> Tok] : n \in 0..3} : SpacesApart(v)}
  \cup {<<V4, "/", "-", "n24">>, <<V6, "/", "-", "n200">>, <<"!", V4, "/", "n24">>,
        <<HostName, " ", V4, "/", "n40">>}
Typed == {<< >>, <<" ", " ">>, <<"!", V4, "/", "n24", " ", V6>>, <<"n40">>}
Validate == INSTANCE LuciValidate WITH
  Name <- HostName, check <- v1, optional <- v2, text <- v3,
  valid <- v4, current <- v5

-----------------------------------------------------------------------------
(* LuciAddress: all spellings with one gap, and masks of three octets.     *)
Address0 == [i \in 1..8 |-> 20 + i]
Join(ws) == [i \in 1..(2 * Len(ws) - 1) |-> IF i % 2 = 1 THEN ws[(i + 1) \div 2] ELSE -1]
Gapped(l, r) ==
  LET w == [i \in 1..8 |-> IF i > l /\ i <= 8 - r THEN 0 ELSE 20 + i]
  IN [text |-> Join(SubSeq(w, 1, l)) \o <<-1, -1>> \o Join(SubSeq(w, 9 - r, 8)),
      words |-> w, bits |-> Nil]
Quaded(s) == [s EXCEPT !.text = SubSeq(@, 1, Len(@) - 3) \o <<-2>>,
                       !.words = SubSeq(@, 1, 6) \o <<258, 772>>]
Full == [text |-> Join(Address0), words |-> Address0, bits |-> Nil]
Spelled ==
  {Gapped(p[1], p[2]) : p \in {q \in (0..7) \X (0..7) : q[1] + q[2] <= 7}}
  \cup {Full, Quaded(Full)} \cup {Quaded(Gapped(l, r)) : l \in 0..4, r \in 2..3}
  \cup {[text |-> t, words |-> Nil, bits |-> Nil] : t \in {
          << >>, <<-1>>, <<-2>>, <<-1, -2>>, Full.text \o <<-1>>, Full.text \o <<-1, 9>>,
          <<-1>> \o Full.text, SubSeq(Full.text, 1, 13), Full.text \o <<-1, -1>>,
          <<1, -1, -1, 2, -1, -1, 3>>, <<1, -1, -1, -1, 2>>, <<1, -1, -1, -4>>, <<-1, -1, -3>>,
          <<-1, -1, -2, -1, 1>>, <<1, -1, -1>> \o SubSeq(Full.text, 1, 13)}}
Addr == {<<10, 1, 7, 200>>}
Mask == [1..4 -> {0, 128, 255}] \cup {<<24>>, <<255, 255, 254, 0>>, <<255, 255, 253, 0>>}
MaxEdits == 3
Address == INSTANCE LuciAddress WITH
  spelled <- v1, words <- v2, addr <- v3, mask <- v4, subnets <- v5,
  switched <- v6, edits <- v7

-----------------------------------------------------------------------------
(* LuciSorted: routes, leases with times, counters.                        *)
Cell(k, of, m) == [kind |-> k, of |-> of, mask |-> m]
Ip4(a, m) == Cell("v4", <<10, 0, 2, a>>, m)
Net4(a, m) == Cell("v4mask", <<10, 0, 2, a>>, <<255, 255, m, 0>>)
Ip6(a, m) == Cell("v6", <<8193, 3512, 0, 0, 0, 0, 0, a>>, m)
Uptime(d, h) == Cell("time", <<d, h, 5, 30>>, Nil)
Count(n, unit) == Cell("count", <<n>>, unit)
Columns == 2
Contents == {
  << >>,
  << <<Ip4(10, Nil), Uptime(1, 2)>>, <<Ip4(9, 24), Uptime(0, 23)>>, <<Ip4(10, 24), Uptime(0, 3)>> >>,
  << <<Ip4(9, 24), Count(7, <<12>>)>>, <<Net4(9, 0), Count(90, << >>)>>, <<Net4(9, 255), Count(9, << >>)>> >>,
  << <<Ip6(161, 64), Count(90, <<11>>)>>, <<Ip6(9, 64), Count(1000, <<11>>)>> >>,
  << <<Ip6(4096, Nil), Cell("text", <<12, 1, 0>>, Nil)>>, <<Ip6(2, 50), Cell("text", <<12, 9>>, Nil)>>,
     <<Ip6(2, 16), Cell("text", <<12, 10>>, Nil)>> >>}
Sections == <<"a", "b", "c">>
MaxEvents == 5
Sorted == INSTANCE LuciSorted WITH
  page <- v1, data <- v2, sortState <- v3, direction <- v4,
  sortable <- v5, rowOrder <- v6, store <- v7, events <- v8

-----------------------------------------------------------------------------
(* LuciClass: sections and fields, of named classes that share an id.      *)
Obj == {"s", "t", "v"}
ClassOf == [o \in Obj |-> IF o = "v" THEN "View" ELSE "Grid"]
Parent == [c \in {"Grid", "Table", "Typed", "View", "Value"} |->
             CASE c = "Grid" -> "Table" [] c = "Table" -> "Typed" [] c = "View" -> "Value"
               [] OTHER -> Nil]
Id == [c \in DOMAIN Parent |-> IF c = "View" THEN 2 ELSE 1]
Defines == {"Grid", "Typed", "Value"}
Own == {"s"}
MaxDepth == 4
Document == "document"
Node == {"p", "q"}
Inst == {"i", "j"}
MaxBinds == 3
Classes == INSTANCE LuciClass WITH
  Root <- Document, frames <- v1, superContext <- v2, thrown <- v3,
  parentNode <- v4, idref <- v5, registry <- v6, bound <- v7,
  taken <- v8

-----------------------------------------------------------------------------
From12 == v12 = Nil /\ v13 = Nil /\ v14 = Nil /\ v15 = Nil /\ v16 = Nil /\ v17 = Nil
From11 == v11 = Nil /\ From12
From9 == v9 = Nil /\ v10 = Nil /\ From11
From8 == v8 = Nil /\ From9
From7 == v7 = Nil /\ From8
From6 == v6 = Nil /\ From7

None == v1 = Nil /\ v2 = Nil /\ v3 = Nil /\ v4 = Nil /\ v5 = Nil /\ From6

Rest12 == <<v12, v13, v14, v15, v16, v17>>
Rest11 == <<part, v11, Rest12>>
Rest9 == <<v9, v10, Rest11>>
Rest8 == <<v8, Rest9>>
Rest7 == <<v7, Rest8>>
Rest6 == <<v6, Rest7>>
Rest1 == <<v1, v2, v3, v4, v5, Rest6>>
vars == <<Rest1, simVars, ddnsVars, ecoVars>>

(* A modem, a name and a loop that are left alone.                         *)
SimsRest == SimInit /\ ~simEnabled /\ slot = Main
UpdatersRest == DdnsInit /\ ~ddnsEnabled

PageInit ==
  \/ part = "opkg" /\ Opkg!Init
  \/ PagesInit /\ From12
  \/ part = "network" /\ Network!Init /\ From7
  \/ part = "lists" /\ Lists!Init /\ From8
  \/ part = "tabs" /\ Tabs!Init /\ From9
  \/ part = "loader" /\ Loader!Init /\ From6
  \/ part = "radio" /\ Radio!Init /\ From9
  \/ part = "validate" /\ Validate!Init /\ From6
  \/ part = "address" /\ Address!Init /\ From8
  \/ part = "sorted" /\ Sorted!Init /\ From9
  \/ part \in {"calls", "nodes"} /\ Classes!Init /\ From9

Init ==
  \/ PageInit /\ SimsRest /\ UpdatersRest /\ EcoInit
  \/ part = "sims" /\ None /\ SimInit /\ UpdatersRest /\ EcoInit
  \/ part = "updaters" /\ None /\ SimsRest /\ DdnsInit /\ EcoInit
  \/ part = "eco" /\ None /\ SimsRest /\ UpdatersRest /\ EcoInit

PageNext ==
  \/ part = "opkg" /\ Opkg!Next /\ UNCHANGED part
  \/ PagesNext /\ UNCHANGED Rest12
  \/ part = "network" /\ Network!Next /\ UNCHANGED Rest7
  \/ part = "lists" /\ Lists!Next /\ UNCHANGED Rest8
  \/ part = "tabs" /\ Tabs!Next /\ UNCHANGED Rest9
  \/ part = "loader" /\ Loader!Next /\ UNCHANGED Rest6
  \/ part = "radio" /\ Radio!Next /\ UNCHANGED Rest9
  \/ part = "validate" /\ Validate!Next /\ UNCHANGED Rest6
  \/ part = "address" /\ Address!Next /\ UNCHANGED Rest8
  \/ part = "sorted" /\ Sorted!Next /\ UNCHANGED Rest9
  \/ part = "calls" /\ Classes!CallStep /\ UNCHANGED Rest9
  \/ part = "nodes" /\ Classes!NodeStep /\ UNCHANGED Rest9

Next ==
  \/ PageNext /\ UNCHANGED <<simVars, ddnsVars, ecoVars>>
  \/ part = "sims" /\ SimNext /\ UNCHANGED <<Rest1, ddnsVars, ecoVars>>
  \/ part = "updaters" /\ DdnsNext /\ UNCHANGED <<Rest1, simVars, ecoVars>>
  \/ part = "eco" /\ EcoNext /\ UNCHANGED <<Rest1, simVars, ddnsVars>>

Spec == Init /\ [][Next]_vars

-----------------------------------------------------------------------------
(* The packages page plans what an installation needs, and its lists,      *)
(* buttons and uploads follow what the router has.                         *)
PackagesPlanned ==
  part = "opkg" => /\ Opkg!PlanCloses /\ Opkg!ListsFollow
                   /\ Opkg!ButtonsAnswer /\ Opkg!UploadEnds

(* A saved form is what the user meant, and its table shows the order.     *)
FormSaves == part = "form" => Form!SavesMeant /\ Form!OrderShown

(* Dropdowns and lists agree with the value they stand for; dependent      *)
(* fields and tabs come to rest where the values say; fields accept what   *)
(* their type says, addresses and masks are read for what they are, tables *)
(* stay sorted, the selects of a radio remember, and an interface of the   *)
(* network has the status of its own.                                      *)
WidgetsAgree ==
  /\ part = "lists" => Lists!ListsAgree /\ Lists!InputTaken
  /\ part = "tabs" => Tabs!PageSettles
  /\ part = "validate" => Validate!FieldsJudged
  /\ part = "address" => Address!AddressesRead /\ Address!MasksKept
  /\ part = "sorted" => Sorted!TablesSorted
  /\ part = "radio" => Radio!SelectsRemember /\ Radio!SavedIsShown
  /\ part = "network" => /\ Network!StatusIsOwn /\ Network!OthersUntouched
                         /\ Network!NetworksTaken

(* Classes are loaded and made once, super() and the registry of the page  *)
(* reach the right definition and the right instance.                      *)
ClassesFound ==
  /\ part = "loader" => Loader!ClassesCome
  /\ part = "calls" => Classes!SuperIsNext
  /\ part = "nodes" => Classes!FindsOwner
=============================================================================
