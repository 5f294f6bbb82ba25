------------------------------ MODULE LuciRadio ------------------------------
(***************************************************************************)
(* Two fields of the wireless editor that are more than a text             *)
(* (resources/view/network/wireless.js).  The frequency widget is four     *)
(* selects: the mode decides which widths and bands there are, the band    *)
(* which channels, and a select that changes its list remembers the place  *)
(* it had in the old one.  The options `encryption' and `cipher' are shown *)
(* apart and stored as one, by whichever of the two is written.            *)
(***************************************************************************)
EXTENDS Integers, SequencesExt

CONSTANTS
  Stored,     \* frequencies stored: [ht, hw, band, chan], hw or band is Nil
  Crypto,     \* encryptions stored: [enc, cipher], cipher may be Nil
  Widths,     \* Widths[mode], Bands[mode], Channels[band]: the options the
  Bands,      \*   device has, as sequences; "" is a mode and a width
  Channels,
  ModeOf,     \* ModeOf[ht]: the mode of a width
  Modes,      \* the modes of the device, in order
  Ciphered,   \* encryptions that have a cipher
  MaxPicks,
  Nil

VARIABLES
  stored,     \* uci: the radio's frequency options
  sel,        \* the selects: [list, at], at = 0: nothing is selected
  rem,        \* vals.selected: the remembered place in each list, -1: none
  chosen,     \* history: the value last chosen in each list
  crypto,     \* uci: option `encryption'
  shown,      \* the fields `encryption' and `cipher', [enc, cipher]
  meant,      \* history: what the fields showed when they were saved
  picks       \* history: changes since the fields were filled

vars == <<stored, sel, rem, chosen, crypto, shown, meant, picks>>

List == {<<"mode", "">>} \cup {<<"width", m>> : m \in DOMAIN Widths}
        \cup {<<"band", m>> : m \in DOMAIN Bands} \cup {<<"chan", b>> : b \in DOMAIN Channels}
Options(l) ==
  CASE l = Nil -> << >>
    [] l[1] = "mode" -> Modes
    [] l[1] = "width" -> Widths[l[2]]
    [] l[1] = "band" -> Bands[l[2]]
    [] OTHER -> Channels[l[2]]

-----------------------------------------------------------------------------
(* A page is [sel, rem].                                                   *)
Value(p, w) == IF p.sel[w].at = 0 THEN "" ELSE Options(p.sel[w].list)[p.sel[w].at]
Place(l, v) == IF Contains(Options(l), v)
               THEN CHOOSE i \in DOMAIN Options(l) : Options(l)[i] = v ELSE 0
(* select.value = v                                                        *)
Assign(p, w, v) == [p EXCEPT !.sel[w].at = Place(p.sel[w].list, v)]

setValues(p, w, l) ==
  LET r == IF p.sel[w].list = Nil THEN p.rem
           ELSE [p.rem EXCEPT ![p.sel[w].list] = p.sel[w].at]
      first == IF Options(l) = << >> THEN 0 ELSE 1
      at == IF l = Nil THEN 0 ELSE IF r[l] # -1 THEN r[l] ELSE first
  IN [sel |-> [p.sel EXCEPT ![w] = [list |-> l, at |-> at]], rem |-> r]

toggleWifiHTMode(p) == setValues(p, "width", <<"width", Value(p, "mode")>>)
toggleWifiChannel(p) ==
  setValues(p, "chan", IF Value(p, "band") \in DOMAIN Channels
                       THEN <<"chan", Value(p, "band")>> ELSE Nil)
toggleWifiBand(p) == toggleWifiChannel(setValues(p, "band", <<"band", Value(p, "mode")>>))
toggleWifiMode(p) == toggleWifiBand(toggleWifiHTMode(p))

BandOf(s) == IF s.hw = Nil THEN s.band ELSE IF s.hw = "11a" THEN "5g" ELSE "2g"
setInitialValues(s) ==
  LET blank == [sel |-> [w \in {"mode", "width", "band", "chan"} |-> [list |-> Nil, at |-> 0]],
                rem |-> [l \in List |-> -1]]
      mode == Assign(setValues(blank, "mode", <<"mode", "">>), "mode", ModeOf[s.ht])
      band == toggleWifiBand(Assign(toggleWifiMode(mode), "band", BandOf(s)))
      width == Assign(band, "width", s.ht)
  IN IF s.chan # Nil THEN Assign(width, "chan", s.chan)
     ELSE [width EXCEPT !.sel["chan"].at =
             IF Options(width.sel["chan"].list) = << >> THEN 0 ELSE 1]

(* formvalue and write: a radio configured with hwmode keeps it.           *)
Written(p, s) ==
  LET band == Value(p, "band")  chan == Value(p, "chan")
  IN [ht |-> Value(p, "width"), chan |-> IF chan = "" THEN Nil ELSE chan,
      hw |-> IF s.hw = Nil THEN Nil ELSE IF band = "2g" THEN "11g" ELSE "11a",
      band |-> IF s.hw = Nil THEN band ELSE s.band]

page == [sel |-> sel, rem |-> rem]
Shows(p) == sel' = p.sel /\ rem' = p.rem

Pick(w, v) ==
  LET p == Assign(page, w, v)
      l == sel[w].list
  IN
  /\ l # Nil /\ v \in Range(Options(l)) /\ v # Value(page, w)
  /\ Shows(CASE w = "mode" -> toggleWifiMode(p)
             [] w = "band" -> toggleWifiBand(p)
             [] OTHER -> p)
  /\ chosen' = [chosen EXCEPT ![l] = v]
  /\ picks < MaxPicks /\ picks' = picks + 1
  /\ UNCHANGED <<stored, crypto, shown, meant>>

-----------------------------------------------------------------------------
(* The two fields of one option.  Without a cipher in it the field         *)
(* `cipher' reads the encryption, which is none of its choices, and shows  *)
(* the first.                                                              *)
EncOf(c) == IF c.enc = "wep" THEN "wep-open" ELSE c.enc
CipherOf(c) ==
  CASE c.cipher = "aes" -> "ccmp"
    [] c.cipher \in {"tkip+aes", "aes+tkip", "ccmp+tkip"} -> "tkip+ccmp"
    [] OTHER -> c.cipher
ShownCipher(c) == IF c.cipher = Nil THEN "auto" ELSE CipherOf(c)
Fields(c) == [enc |-> EncOf(c), cipher |-> ShownCipher(c)]

(* Either field writes both; the cipher only counts where it is shown.     *)
CryptoWritten(f) ==
  [enc |-> f.enc,
   cipher |-> IF f.enc \in Ciphered /\ f.cipher # "auto" THEN f.cipher ELSE Nil]
CryptoChanged(f, c) ==
  f.enc # EncOf(c) \/ (f.enc \in Ciphered /\ (c.cipher = Nil \/ f.cipher # CipherOf(c)))

PickCrypto(f) ==
  /\ f # shown
  /\ f.cipher # shown.cipher => shown.enc \in Ciphered
  /\ shown' = f
  /\ picks < MaxPicks /\ picks' = picks + 1
  /\ UNCHANGED <<stored, sel, rem, chosen, crypto, meant>>

-----------------------------------------------------------------------------
Fill(s, c) ==
  LET p == setInitialValues(s)
      in(l) == {w \in DOMAIN p.sel : p.sel[w].list = l}
  IN [sel |-> p.sel, rem |-> p.rem, shown |-> Fields(c),
      chosen |-> [l \in List |-> IF in(l) = {} THEN Nil ELSE Value(p, CHOOSE w \in in(l) : TRUE)]]

(* What the user sees in the fields; a cipher only where there is one.     *)
Seen(p, f) ==
  [freq |-> [w \in {"mode", "width", "band", "chan"} |-> Value(p, w)],
   enc |-> f.enc, cipher |-> IF f.enc \in Ciphered THEN f.cipher ELSE Nil]

Init ==
  /\ stored \in Stored
  /\ crypto \in Crypto
  /\ \E f \in {Fill(stored, crypto)} :
       sel = f.sel /\ rem = f.rem /\ chosen = f.chosen /\ shown = f.shown
  /\ meant = Seen(page, shown)
  /\ picks = 0

(* Save writes the fields that differ and fills the form anew.             *)
Save ==
  /\ picks > 0
  /\ stored' = Written(page, stored)
  /\ crypto' = IF CryptoChanged(shown, crypto) THEN CryptoWritten(shown) ELSE crypto
  /\ \E f \in {Fill(stored', crypto')} :
       /\ sel' = f.sel /\ rem' = f.rem /\ chosen' = f.chosen
       /\ shown' = f.shown
  /\ meant' = Seen(page, shown)
  /\ picks' = 0

Next ==
  \/ \E w \in DOMAIN sel : \E v \in Range(Options(sel[w].list)) : Pick(w, v)
  \/ \E e \in {EncOf(c) : c \in Crypto}, c \in {"auto", "ccmp", "tkip", "tkip+ccmp"} :
       PickCrypto([enc |-> e, cipher |-> c])
  \/ Save

Spec == Init /\ [][Next]_vars

-----------------------------------------------------------------------------
Known(s) ==
  LET m == ModeOf[s.ht]
  IN /\ m \in Range(Modes) /\ s.ht \in Range(Widths[m]) /\ BandOf(s) \in Range(Bands[m])
     /\ s.chan \in Range(Channels[BandOf(s)])

(* Each select shows the list its mode or band asks for and in it the      *)
(* value last chosen there, however often the user went to another mode or *)
(* band and back; a form that was opened and not touched holds what is     *)
(* stored, if the device knows it.                                         *)
SelectsRemember ==
  /\ sel["width"].list = <<"width", Value(page, "mode")>>
  /\ sel["band"].list = <<"band", Value(page, "mode")>>
  /\ \A w \in DOMAIN sel : LET l == sel[w].list IN
       l # Nil => Value(page, w) = IF chosen[l] # Nil THEN chosen[l]
                                   ELSE IF Options(l) = << >> THEN "" ELSE Options(l)[1]
  /\ picks = 0 /\ Known(stored) => Written(page, stored) = stored

(* What was saved is what the fields show when the form is filled anew,    *)
(* whichever of the fields were changed in whatever order, if a band and   *)
(* so a channel was chosen: a band the mode does not have shows as none,   *)
(* and none is saved as 11a.                                               *)
SavedIsShown ==
  picks = 0 /\ meant.freq["band"] # "" => Seen(page, shown) = meant
=============================================================================
