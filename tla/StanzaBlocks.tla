---------------------------- MODULE StanzaBlocks ----------------------------
(***************************************************************************)
(* orchestrate of src/src/engines/parser.js (34-135), with the helpers of  *)
(* src/src/util/parse: the lines of one stanza, grouped by groupObjects    *)
(* (ConfParser), become an object.                                         *)
(*                                                                         *)
(* A line has an indentation, a key, a value, and the form its text has:   *)
(*   open   "key {"             empty  "key { }"      array  "key { a b }" *)
(*   close  "}"                 word   "key"          pair   "key value"   *)
(*   quote  'key "text', an odd number of quotes after a key               *)
(*   end    'more text"', the line that ends such a string                 *)
(* A line of text inside of a quoted string has one of these forms, too.   *)
(***************************************************************************)
EXTENDS Integers, Sequences, SequencesExt

Line(indent, form, key, val) ==
    [indent |-> indent, form |-> form, key |-> key, val |-> val]
HasOddQuotes(l) == l.form \in {"quote", "end"}
IsEnd(l) == l.form = "close" /\ l.indent = 4

(* What a property of the object may be.                                   *)
Word == <<"word">>
String(v) == <<"string", v>>
Array(v) == <<"array", v>>
Multiline(v, text) == <<"lines", v, text>>
Object(f) == <<"object", f>>
Nothing == [k \in {} |-> Word]
Broken == [k \in {"Missing or mis-indented"} |-> Word]

Assign(obj, k, v) == (k :> v) @@ obj
-----------------------------------------------------------------------------
(* Slips one could make in the definitions below, for the mutation runs.   *)
NumberedFromZero(ls) ==
    [i \in DOMAIN ls |-> IF ls[i].form = "open" /\ ls[i].indent = 4 /\ ls[i].key = ""
                         THEN [ls[i] EXCEPT !.key = "0"] ELSE ls[i]]
-----------------------------------------------------------------------------
(* removeIndent: four characters of a line that has two blanks or more.    *)
Unindented(l) ==
    CASE l.indent <= 1 -> l
      [] l.indent \in {2, 3} -> [l EXCEPT !.indent = 0, !.form = "cut"]
      [] OTHER -> [l EXCEPT !.indent = @ - 4]

RemoveIndent(ls) == [i \in DOMAIN ls |-> Unindented(ls[i])]

(* Unnamed objects get the numbers 0, 1, ... for names (62-69).            *)
Unnamed(l) == l.form = "open" /\ l.indent = 4 /\ l.key = ""

Coerced(ls) ==
    [i \in DOMAIN ls |->
        IF Unnamed(ls[i])
        THEN [ls[i] EXCEPT !.key = ToString(Len(SelectSeq(SubSeq(ls, 1, i - 1), Unnamed)))]
        ELSE ls[i]]

(* The line that ends a block that opens at i (54-60), 0 if none does, and *)
(* the one that ends a string (95-98), the last one if none does.          *)
EndOfBlock(ls, i) ==
    LET ends == {j \in i..Len(ls) : IsEnd(ls[j])}
    IN  IF ends = {} THEN 0 ELSE CHOOSE j \in ends : \A h \in ends : j <= h

EndOfString(ls, i) ==
    LET ends == {j \in i + 1..Len(ls) : HasOddQuotes(ls[j])} \cup {Len(ls)}
    IN  CHOOSE j \in ends : \A h \in ends : j <= h

RECURSIVE Orchestrate(_, _), From(_, _, _, _)

(* One line, or the lines of one block or string, from the i-th on; obj is *)
(* the object so far.  The order is that of the cases of the code.         *)
From(key, ls, i, obj) ==
    IF i > Len(ls) \/ obj = Broken THEN obj
    ELSE LET l == ls[i]
             block == EndOfBlock(ls, i)
             string == EndOfString(ls, i)
         IN  CASE l.form = "open" /\ Len(ls) # 1 ->
                    IF block = 0 THEN Broken
                    ELSE LET sub == Coerced(RemoveIndent(SubSeq(ls, i, block)))
                             part == Orchestrate(sub[1].key, SubSeq(sub, 2, Len(sub) - 1))
                         IN  From(key, ls, block + 1,
                                  IF part = Broken THEN Broken ELSE part @@ obj)
               [] l.form = "empty" -> From(key, ls, i + 1, Assign(obj, l.key, Object(Nothing)))
               [] l.form = "array" -> From(key, ls, i + 1, Assign(obj, l.key, Array(l.val)))
               [] l.form = "word"  -> From(key, ls, i + 1, Assign(obj, l.key, Word))
               [] l.indent = 4 /\ HasOddQuotes(l) ->
                    From(key, ls, string + 1,
                         Assign(obj, l.key, Multiline(l.val, SubSeq(ls, i + 1, string))))
               [] l.indent = 4 /\ ~ HasOddQuotes(l) ->
                    From(key, ls, i + 1,
                         IF key = "gtm monitor external" /\ l.key = "user-defined"
                         THEN Assign(obj, l.key,
                                  Object((l.val :> String("defined")) @@
                                         (IF l.key \in DOMAIN obj THEN obj[l.key][2] ELSE Nothing)))
                         ELSE Assign(obj, l.key, IF l.form = "close" THEN Word ELSE String(l.val)))
               [] OTHER -> From(key, ls, i + 1, obj)     \* UNRECOGNIZED LINE

(* iRules keep their lines (42-44), 'monitor min' blocks become an array   *)
(* of the words of all of them (46-49), scripts are skipped (53).          *)
Orchestrate(key, body) ==
    LET obj == CASE key = "ltm rule" -> Multiline("", body)
                 [] key = "monitor min" -> Array([i \in DOMAIN body |-> body[i].key])
                 [] key = "cli script" -> Object(Nothing)
                 [] OTHER -> LET o == From(key, body, 1, Nothing)
                             IN  IF o = Broken THEN <<"broken">> ELSE Object(o)
    IN  IF obj = <<"broken">> THEN Broken ELSE key :> obj
-----------------------------------------------------------------------------
(* The reference: stanzas as trees, how the BIG-IP writes one, and what it *)
(* means.  An item is a property or a block, which may have no name.       *)
Item(t, key, val, sub) == [t |-> t, key |-> key, val |-> val, sub |-> sub]

RECURSIVE LinesOf(_, _), MeaningOf(_, _)

LinesOf(items, d) ==
    FlattenSeq([i \in DOMAIN items |->
        LET m == items[i]
        IN  CASE m.t = "block" -> <<Line(4 * d, "open", m.key, "")>>
                                  \o LinesOf(m.sub, d + 1) \o <<Line(4 * d, "close", "}", "")>>
              [] m.t = "string" -> <<Line(4 * d, "quote", m.key, m.val)>> \o m.sub
              [] OTHER -> <<Line(4 * d, m.t, m.key, m.val)>>])

NameIn(items, i, nested) ==
    LET BlockWithout(m) == m.t = "block" /\ m.key = ""
    IN  IF nested /\ BlockWithout(items[i])
        THEN ToString(Len(SelectSeq(SubSeq(items, 1, i - 1), BlockWithout))) ELSE items[i].key

Latest(S) == CHOOSE i \in S : \A j \in S : j <= i

(* Of several properties of a name the last one counts.                    *)
MeaningOf(items, nested) ==
    [k \in {NameIn(items, i, nested) : i \in DOMAIN items} |->
        LET m == items[Latest({i \in DOMAIN items : NameIn(items, i, nested) = k})]
        IN  CASE m.t = "block" /\ k = "monitor min" -> Array([i \in DOMAIN m.sub |-> m.sub[i].key])
              [] m.t = "block" /\ k # "monitor min" -> Object(MeaningOf(m.sub, TRUE))
              [] m.t = "string" -> Multiline(m.val, m.sub)
              [] m.t = "empty"  -> Object(Nothing)
              [] m.t = "array"  -> Array(m.val)
              [] m.t = "word"   -> Word
              [] m.t = "pair"   -> String(m.val)]

(* What a whole stanza means: user-defined properties of an external       *)
(* monitor are collected, iRules are text, scripts nothing.                *)
Meant(title, items) ==
    CASE title = "ltm rule" -> Multiline("", LinesOf(items, 1))
      [] title = "cli script" -> Object(Nothing)
      [] title = "gtm monitor external" ->
            LET defined == {items[i].val : i \in {i \in DOMAIN items : items[i].key = "user-defined"}}
            IN  Object((IF defined = {} THEN Nothing
                        ELSE "user-defined" :> Object([d \in defined |-> String("defined")]))
                       @@ MeaningOf(items, FALSE))
      [] OTHER -> Object(MeaningOf(items, FALSE))

(* The strings of nested blocks whose lines are indented: the indentation  *)
(* of the block is taken from them, and a line that is just a bracket may  *)
(* end the block.                                                          *)
RECURSIVE FlushIn(_, _)
FlushIn(items, nested) ==
    \A i \in DOMAIN items :
        /\ items[i].t = "block" => FlushIn(items[i].sub, TRUE)
        /\ items[i].t = "string" /\ nested => \A j \in DOMAIN items[i].sub : items[i].sub[j].indent <= 1
=============================================================================
