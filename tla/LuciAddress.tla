----------------------------- MODULE LuciAddress -----------------------------
(***************************************************************************)
(* How the pages read addresses and masks: parseIPv6 of validation.js,     *)
(* prefixToMask and maskToPrefix of network.js, and the address fields of  *)
(* a static interface (protocol/static.js), which keep an address and a    *)
(* mask until the user switches to a list of addresses with prefixes.      *)
(* An IPv6 text is a sequence of groups, colons and dotted quads.          *)
(***************************************************************************)
EXTENDS Integers, SequencesExt, FiniteSetsExt, Bitwise

CONSTANTS
  Spelled,    \* IPv6 texts, with the words they stand for, Nil for none
  Addr,       \* IPv4 addresses, four octets
  Mask,       \* what the user enters for a mask: four octets, or a number
  MaxEdits,   \* bound on what the user does
  Nil

(* Signs of an IPv6 text that are no group; Long has more than four digits,*)
(* Quad is 1.2.3.4 and BadQuad has a number above 255.                     *)
Colon == -1
Quad == -2
BadQuad == -3
Long == -4

VARIABLES
  spelled,    \* the text in an IPv6 field; Nil on the page of an interface
  words,      \* what parseIPv6 made of it, once it did
  addr, mask, \* the fields of the interface; Nil if empty
  subnets,    \* the list of addresses that replaces them, Nil before
  switched,   \* history: the fields the list was made from
  edits

vars == <<spelled, words, addr, mask, subnets, switched, edits>>

-----------------------------------------------------------------------------
Spread(groups) ==
  [i \in 1..(2 * Len(groups) - 1) |-> IF i % 2 = 1 THEN groups[(i + 1) \div 2] ELSE Colon]
Groups(t) == [i \in 1..((Len(t) + 1) \div 2) |-> t[2 * i - 1]]
Grouped(t) == t = Spread(Groups(t)) /\ \A i \in DOMAIN Groups(t) : Groups(t)[i] >= 0

Unquoted(t) ==
  LET n == Len(t)
  IN IF n > 2 /\ t[n] = Quad /\ t[n - 1] = Colon
     THEN SubSeq(t, 1, n - 1) \o <<258, Colon, 772>> ELSE t
Gaps(t) == {i \in 1..(Len(t) - 1) : t[i] = Colon /\ t[i + 1] = Colon}
OrZero(t) == IF t = << >> THEN <<0>> ELSE t

(* Of the two sides of a gap an empty one counts as a group "0".           *)
parseIPv6(text) ==
  LET t == Unquoted(text)
      at == Min(Gaps(t))
      left == OrZero(SubSeq(t, 1, at - 1))
      right == OrZero(SubSeq(t, at + 2, Len(t)))
      zeros == 8 - Len(Groups(left)) - Len(Groups(right))
  IN IF Gaps(t) = {}
     THEN IF Grouped(t) /\ Len(Groups(t)) = 8 THEN Groups(t) ELSE Nil
     ELSE IF zeros < 1 \/ Gaps(right) # {} \/ ~Grouped(left) \/ ~Grouped(right) THEN Nil
     ELSE Groups(left) \o [i \in 1..zeros |-> 0] \o Groups(right)

-----------------------------------------------------------------------------
(* Masks: pieces of w bits, all ones before all zeros.                     *)
prefixToWords(bits, n) ==
  [i \in 1..n |-> LET b == Min({16, Max({0, bits - 16 * (i - 1)})})
                  IN 65536 - 2 ^ (16 - b)]
prefixToMask(bits) ==
  LET m == prefixToWords(bits, 2)
  IN IF bits > 32 THEN Nil
     ELSE <<m[1] \div 256, m[1] % 256, m[2] \div 256, m[2] % 256>>
(* Two zeros and more at the end are written "::".                         *)
prefixToMask6(bits) ==
  LET m == prefixToWords(bits, 8)
      tail == Max({0} \cup {k \in 1..7 : \A i \in (9 - k)..8 : m[i] = 0})
  IN IF tail < 2 THEN Spread(m) ELSE Spread(SubSeq(m, 1, 8 - tail)) \o <<Colon, Colon>>

Ones(piece, w) == Max({k \in 0..w : piece >= 2 ^ w - 2 ^ (w - k)})
Rest(piece, w) == piece % 2 ^ (w - Ones(piece, w))
BitsOf(m, w) == FoldLeft(LAMBDA bits, piece : bits + Ones(piece, w), 0, m)
maskToPrefix_EachPiece(m, w) ==
  IF m = Nil \/ \E i \in DOMAIN m : Rest(m[i], w) # 0
  THEN Nil ELSE BitsOf(m, w)
maskToPrefix(m, w) ==
  LET zero(i) == \E j \in 1..i : m[j] = 0
      rest(i) == IF zero(i) THEN m[i] ELSE Rest(m[i], w)
  IN IF m = Nil \/ \E i \in DOMAIN m : rest(i) # 0 THEN Nil ELSE BitsOf(m, w)

-----------------------------------------------------------------------------
(* The static interface.  A mask is <<n>> for a number typed in.           *)
Edit == edits < MaxEdits /\ edits' = edits + 1

Octets(m) == IF Len(m) = 1 THEN prefixToMask(m[1]) ELSE m
Broadcast(a, m) == [i \in 1..4 |-> a[i] | (255 - Octets(m)[i])]

(* Of the fields, or of the first entry of the list that has a mask.       *)
calculateBroadcast ==
  LET masked == {i \in DOMAIN subnets : subnets[i].mask # Nil}
  IN IF subnets # Nil
     THEN IF masked = {} THEN Nil ELSE Broadcast(subnets[Min(masked)].addr, subnets[Min(masked)].mask)
     ELSE IF mask = Nil THEN Nil ELSE Broadcast(addr, mask)

EnterAddress ==
  /\ subnets = Nil /\ Edit
  /\ addr' \in Addr
  /\ UNCHANGED <<spelled, words, mask, subnets, switched>>
EnterMask ==
  /\ subnets = Nil /\ addr # Nil /\ Edit
  /\ mask' \in Mask \cup {Nil}
  /\ UNCHANGED <<spelled, words, addr, subnets, switched>>

(* Nothing happens when the mask has no prefix; a number is no mask.       *)
handleSwitch ==
  LET prefix == IF mask = Nil THEN 32
                ELSE IF Len(mask) = 1 THEN Nil ELSE maskToPrefix(mask, 8)
  IN /\ subnets = Nil /\ prefix # Nil /\ Edit
     /\ subnets' = IF addr = Nil THEN << >> ELSE <<[addr |-> addr, mask |-> <<prefix>>]>>
     /\ mask' = Nil
     /\ switched' = [addr |-> addr, mask |-> mask, broadcast |-> calculateBroadcast]
     /\ UNCHANGED <<spelled, words, addr>>

AddSubnet ==
  /\ subnets # Nil /\ Edit
  /\ \E a \in Addr, m \in Mask \cup {Nil} : subnets' = Append(subnets, [addr |-> a, mask |-> m])
  /\ UNCHANGED <<spelled, words, addr, mask, switched>>

Parse ==
  /\ spelled # Nil /\ words = Nil
  /\ words' = [read |-> parseIPv6(spelled.text)]
  /\ UNCHANGED <<spelled, addr, mask, subnets, switched, edits>>

(* The masks the pages write, and the words they stand for.                *)
MaskTexts ==
  LET word(bits, i) == IF bits >= 16 * i THEN 65535
                       ELSE IF bits <= 16 * (i - 1) THEN 0 ELSE 65536 - 2 ^ (16 * i - bits)
  IN {[text |-> prefixToMask6(b), words |-> [i \in 1..8 |-> word(b, i)], bits |-> b] :
        b \in 0..128}

Init ==
  /\ spelled \in Spelled \cup MaskTexts \cup {Nil} /\ words = Nil
  /\ addr = Nil /\ mask = Nil /\ subnets = Nil /\ switched = Nil
  /\ edits = IF spelled = Nil THEN 0 ELSE MaxEdits
Next == EnterAddress \/ EnterMask \/ handleSwitch \/ AddSubnet \/ Parse
Spec == Init /\ [][Next]_vars

-----------------------------------------------------------------------------
Contiguous(m) == \E bits \in 0..32 : prefixToMask(bits) = m
(* An octet with ones and zeros, followed by one that has ones again.      *)
Broken(m) == \E i, j \in DOMAIN m : i < j /\ m[i] \in 1..254 /\ m[j] # 0
Edge(t) == \/ Len(t) > 1 /\ Gaps(t) \cap {1, Len(t) - 1} # {}
           \/ Len(t) > 1 /\ t[Len(t)] = Quad /\ Gaps(t) \cap {1} # {}

(* A text is read as the eight words it stands for, and one that stands    *)
(* for none is refused.  One spelling is refused that should not be: a gap *)
(* at an edge that stands for a single group.  The text of a mask is read  *)
(* as the mask, and it has the prefix that it was made from.               *)
AddressesRead ==
  words # Nil =>
    \/ words.read = spelled.words /\ (spelled.bits # Nil =>
         maskToPrefix(words.read, 16) = spelled.bits)
    \/ /\ words.read = Nil /\ Edge(spelled.text)
       /\ Len(SelectSeq(Unquoted(spelled.text), LAMBDA t : t = Colon)) = 8

(* A list made from the two fields has the network and the broadcast       *)
(* address that the fields had.  The mask that gets another meaning        *)
(* without a word is one with a broken octet.                              *)
MasksKept ==
  (switched # Nil /\ switched.addr # Nil /\ switched.broadcast # Nil) =>
    IF Contiguous(switched.mask)
    THEN subnets[1].addr = switched.addr /\ calculateBroadcast = switched.broadcast
    ELSE Broken(switched.mask)
=============================================================================
