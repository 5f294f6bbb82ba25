---------------------------- MODULE LuciValidate ----------------------------
(***************************************************************************)
(* Fields and their validators (resources/validation.js, ui.js, cbi.js).   *)
(* A data type is a tree of checks.  The checks do not pass the value on:  *)
(* they read and overwrite this.value, so what an alternative sees depends *)
(* on the alternatives that failed before it.  A value is a sequence of    *)
(* tokens; two words never stand side by side.                             *)
(***************************************************************************)
EXTENDS Integers, SequencesExt

CONSTANTS
  V4, V6,     \* words: an IPv4 address and an IPv6 address
  Name,       \* a word of letters
  Number,     \* words of digits
  NumberOf,   \*   and their values
  Checks,     \* data types of fields: [type, arg, of]
  Texts,      \* what a field may hold at first
  Typed,      \* what the user types
  Nil

Slash == "/"  Dash == "-"  Bang == "!"  Space == " "
Word == {V4, V6, Name} \cup Number

VARIABLES
  check,      \* the field's data type
  optional,
  text,       \* what the field holds
  valid,      \* validState: Nil until an event was heard
  current     \* history: the text was validated since it changed

vars == <<check, optional, text, valid, current>>

Short(w, max) == w \in Number /\ NumberOf[w] <= max

-----------------------------------------------------------------------------
(* Checks that leave this.value as it is.                                  *)
HostWord(w) == w \in {V4, Name} \cup Number
hostname(v) ==
  \/ Len(v) = 1 /\ v[1] \in {Name} \cup Number
  \/ /\ Len(v) > 1 /\ HostWord(v[1]) /\ HostWord(v[Len(v)])
     /\ \A i \in DOMAIN v : HostWord(v[i]) \/ v[i] = Dash
uciname(v) == Len(v) = 1 /\ v[1] \in {Name} \cup Number
port(v) == Len(v) = 1 /\ Short(v[1], 65535)
portrange(v) ==
  IF Len(v) = 3 /\ v[1] \in Number /\ v[2] = Dash /\ v[3] \in Number
  THEN NumberOf[v[1]] <= NumberOf[v[3]] /\ Short(v[3], 65535)
  ELSE port(v)

Plain(c, v) ==
  CASE c.type = "hostname" -> hostname(v)
    [] c.type = "uciname" -> uciname(v)
    [] c.type = "uinteger" -> Len(v) = 1 /\ v[1] \in Number
    [] c.type = "port" -> port(v)
    [] c.type = "portrange" -> portrange(v)
    [] c.type = "min" -> Len(v) = 1 /\ v[1] \in Number /\ NumberOf[v[1]] >= c.arg
    [] c.type = "ipnet4" -> v = <<V4, Slash, V4>>
    [] c.type = "ipnet6" -> v = <<V6, Slash, V6>>

(* Checks that look at a part of the value and leave that part behind: the *)
(* prefix of an address.                                                   *)
Answer(ok, v) == [ok |-> ok, value |-> v]
Digits(w, n) == w \in Number /\ NumberOf[w] < n
prefix(w, max) == Answer(Short(w, max), <<w>>)
ip4addr(v, nomask) ==
  IF v = <<V4>> THEN Answer(TRUE, v)
  ELSE IF nomask \/ Len(v) # 3 \/ SubSeq(v, 1, 2) # <<V4, Slash>> THEN Answer(FALSE, v)
  ELSE IF Digits(v[3], 100) THEN prefix(v[3], 32) ELSE Answer(v[3] = V4, v)
ip6addr(v, nomask) ==
  IF v = <<V6>> THEN Answer(TRUE, v)
  ELSE IF nomask \/ Len(v) # 3 \/ SubSeq(v, 1, 2) # <<V6, Slash>> \/ ~Digits(v[3], 1000)
  THEN Answer(FALSE, v) ELSE prefix(v[3], 128)
cidr(v, negative, addr, digits, max) ==
  IF Len(v) = 3 /\ SubSeq(v, 1, 2) = <<addr, Slash>> /\ Digits(v[3], digits)
  THEN prefix(v[3], max)
  ELSE IF negative /\ Len(v) = 4 /\ SubSeq(v, 1, 3) = <<addr, Slash, Dash>> /\ Digits(v[4], digits)
  THEN prefix(v[4], max) ELSE Answer(FALSE, v)

(* Checks that are alternatives of others.                                 *)
Check(t, a) == [type |-> t, arg |-> a, of |-> << >>]
Alternatives(c) ==
  CASE c.type = "ipaddr" -> <<Check("ip4addr", c.arg), Check("ip6addr", c.arg)>>
    [] c.type = "cidr" -> <<Check("cidr4", c.arg), Check("cidr6", c.arg)>>
    [] c.type = "ipmask4" -> <<Check("cidr4", c.arg), Check("ipnet4", 0), Check("ip4addr", FALSE)>>
    [] c.type = "ipmask6" -> <<Check("cidr6", c.arg), Check("ipnet6", 0), Check("ip6addr", FALSE)>>
    [] c.type = "ipmask" -> <<Check("ipmask4", c.arg), Check("ipmask6", c.arg)>>
    [] c.type = "host" -> <<Check("hostname", 0), Check("ipaddr", TRUE)>>
    [] c.type = "network" -> <<Check("uciname", 0), Check("hostname", 0),
                               Check("ip4addr", FALSE), Check("ip6addr", FALSE)>>
    [] OTHER -> c.of
Either == {"ipaddr", "cidr", "ipmask4", "ipmask6", "ipmask", "host", "network", "or"}

(* neg: blanks, one "!", blanks.                                           *)
Blanks(v) == CHOOSE n \in 0..Len(v) :
               (\A i \in 1..n : v[i] = Space) /\ (n < Len(v) => v[n + 1] # Space)
After(v, n) == SubSeq(v, n + 1, Len(v))
Unnegated(v) ==
  LET w == After(v, Blanks(v))
  IN IF w # << >> /\ w[1] = Bang THEN After(After(w, 1), Blanks(After(w, 1))) ELSE v
Items(v) ==
  LET starts == {i \in DOMAIN v : v[i] # Space /\ (i > 1 => v[i - 1] = Space)}
      end(i) == CHOOSE j \in i..Len(v) :
                  (\A k \in i..j : v[k] # Space) /\ (j < Len(v) => v[j + 1] = Space)
  IN {SubSeq(v, i, end(i)) : i \in starts}
ItemSeq(v) ==
  FoldLeft(LAMBDA acc, t : IF t = Space THEN Append(acc, << >>)
                           ELSE [acc EXCEPT ![Len(acc)] = Append(@, t)], <<<< >>>>, v)

(* The whole type, this.value threaded through.  A list without an item    *)
(* throws: its answer is Nil.                                              *)
RECURSIVE apply(_, _)
apply(c, v) ==
  CASE c.type = "ip4addr" -> ip4addr(v, c.arg)
    [] c.type = "ip6addr" -> ip6addr(v, c.arg)
    [] c.type = "cidr4" -> cidr(v, c.arg, V4, 100, 32)
    [] c.type = "cidr6" -> cidr(v, c.arg, V6, 1000, 128)
    [] c.type \in Either ->
         FoldLeft(LAMBDA r, d : IF r.ok THEN r ELSE apply(d, r.value), Answer(FALSE, v),
                  Alternatives(c))
    [] c.type = "and" ->
         FoldLeft(LAMBDA r, d : IF r.ok THEN apply(d, r.value) ELSE r, Answer(TRUE, v), c.of)
    [] c.type = "neg" -> apply(c.of[1], Unnegated(v))
    [] c.type = "list" ->
         LET items == SelectSeq(ItemSeq(v), LAMBDA i : i # << >>)
         IN IF items = << >> THEN Answer(Nil, v)
            ELSE FoldLeft(LAMBDA r, i : IF r.ok THEN apply(c.of[1], i) ELSE r,
                          Answer(TRUE, v), items)
    [] OTHER -> Answer(Plain(c, v), v)

-----------------------------------------------------------------------------
(* validate(): the answer is heard by the widget, which keeps it.          *)
Judged(c, v, opt, before) ==
  IF v = << >> THEN opt
  ELSE LET ok == apply(c, v).ok IN IF ok = Nil THEN before ELSE ok
validate(v) == valid' = Judged(check, v, optional, valid) /\ current' = TRUE

(* The first validation comes before the widget listens.                   *)
Init ==
  /\ check \in Checks /\ optional \in BOOLEAN /\ text \in Texts
  /\ valid = Nil /\ current = FALSE

Type(v) ==
  /\ text' = v /\ validate(v)
  /\ UNCHANGED <<check, optional>>
triggerValidation ==
  /\ validate(text)
  /\ UNCHANGED <<check, optional, text>>
(* A value set by the page itself is validated when the form asks.         *)
setValue(v) ==
  /\ text' = v /\ current' = FALSE
  /\ UNCHANGED <<check, optional, valid>>

Next == triggerValidation \/ \E v \in Typed : Type(v) \/ setValue(v)

Spec == Init /\ [][Next]_vars

-----------------------------------------------------------------------------
(* What the types mean, each value read by itself.                         *)
Addr4 == {<<V4>>}
Addr6 == {<<V6>>}
Prefixed(a, max) == {<<a, Slash, n>> : n \in {n \in Number : NumberOf[n] <= max}}
Negated(a, max) == {<<a, Slash, Dash, n>> : n \in {n \in Number : NumberOf[n] <= max}}
Net4 == {<<V4, Slash, V4>>}
RECURSIVE Means(_, _)
Means(c, v) ==
  CASE c.type = "ip4addr" -> v \in Addr4 \cup (IF c.arg THEN {} ELSE Prefixed(V4, 32) \cup Net4)
    [] c.type = "ip6addr" -> v \in Addr6 \cup (IF c.arg THEN {} ELSE Prefixed(V6, 128))
    [] c.type = "cidr4" -> v \in Prefixed(V4, 32) \cup (IF c.arg THEN Negated(V4, 32) ELSE {})
    [] c.type = "cidr6" -> v \in Prefixed(V6, 128) \cup (IF c.arg THEN Negated(V6, 128) ELSE {})
    [] c.type \in Either -> \E i \in DOMAIN Alternatives(c) : Means(Alternatives(c)[i], v)
    [] c.type = "and" -> \A i \in DOMAIN c.of : Means(c.of[i], v)
    [] c.type = "neg" -> Means(c.of[1], Unnegated(v))
    [] c.type = "list" -> \A i \in Items(v) : Means(c.of[1], i)
    [] OTHER -> Plain(c, v)

OnlyBlanks == \A i \in DOMAIN text : text[i] = Space

(* A field that was validated since it changed is valid if and only if its *)
(* type, read without the overwriting of this.value, accepts what it       *)
(* holds, or it is empty and may be.  A list of nothing but blanks throws  *)
(* and leaves the answer to the text before it.                            *)
FieldsJudged ==
  current /\ ~(check.type = "list" /\ text # << >> /\ OnlyBlanks) =>
    valid = IF text = << >> THEN optional ELSE Means(check, text)
=============================================================================
