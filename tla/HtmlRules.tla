----------------------------- MODULE HtmlRules ------------------------------
(***************************************************************************)
(* HTML rules, whose two nested blocks share a property: convertEngine     *)
(* (src/src/engines/as3Converter.js 170-244) attaches the properties of a  *)
(* nested block directly to those of the stanza, and the handlers of       *)
(* src/src/lib/AS3/customMaps/html_rule.js (44-203) take them apart again. *)
(*                                                                         *)
(* A stanza is a function from the blocks and properties it has; a block   *)
(* is a function from property names to values.                            *)
(***************************************************************************)
EXTENDS Naturals, Sequences, TLC

Comments == {"comment-raise-event", "comment-remove"}
Inserts == {"tag-append-html", "tag-prepend-html"}
Removes == {"tag-raise-event", "tag-remove"}
Attribute == "tag-remove-attribute"
RuleTypes == Comments \cup Inserts \cup Removes \cup {Attribute}

None == [p \in {} |-> ""]
Has(f, p) == p \in DOMAIN f
Only(f, ps) == [p \in DOMAIN f \cap ps |-> f[p]]
Except(f, ps) == [p \in DOMAIN f \ ps |-> f[p]]

MatchProperties == {"tagName", "attributeName", "attributeValue"}

(* The properties the dictionary knows, by type and block.                 *)
Known(type, block) ==
    CASE block = "match" /\ type \notin Comments -> MatchProperties
      [] block = "action" /\ type \in Inserts -> {"text"}
      [] block = "action" /\ type = Attribute -> {"attributeName"}
      [] OTHER -> {}

(* A block the stanza does not have is an empty one.                       *)
BlockOf(stanza, block) == IF Has(stanza, block) THEN stanza[block] ELSE None
-----------------------------------------------------------------------------
(* Slips one could make in the definitions below, for the mutation runs.   *)
ActionLast(type, stanza) ==
    Only(BlockOf(stanza, "action"), Known(type, "action"))
    @@ Only(BlockOf(stanza, "match"), Known(type, "match"))
-----------------------------------------------------------------------------
(* Object.assign(obj, recurse) for one block after the other (194-206); the *)
(* BIG-IP writes action before match.                                      *)
Flattened(type, stanza) ==
    Only(BlockOf(stanza, "match"), Known(type, "match"))
    @@ Only(BlockOf(stanza, "action"), Known(type, "action"))

(* The handler of the type; the one of tag-remove-attribute reads the      *)
(* block action of the stanza once more, and fails if it has none.         *)
Handled(type, stanza, flat) ==
    LET rest == Except(flat, MatchProperties)
        match == Only(flat, MatchProperties)
    IN  CASE type \in Comments -> [class |-> type, own |-> flat, match |-> None]
          [] type \in Inserts ->
                [class |-> type, match |-> match,
                 own |-> [p \in {"content" : q \in DOMAIN rest} |-> rest["text"]]]
          [] type \in Removes -> [class |-> type, own |-> rest, match |-> match]
          [] type = Attribute /\ Has(stanza, "action") ->
                [class |-> type, own |-> BlockOf(stanza, "action"), match |-> match]
          [] OTHER -> [class |-> "thrown", own |-> None, match |-> None]

Converted(type, stanza) == Handled(type, stanza, Flattened(type, stanza))
-----------------------------------------------------------------------------
(* What the action of a stanza says, under the name AS3 has for it.        *)
SaidByAction(type, stanza) ==
    IF type \in Inserts
    THEN [p \in {"content" : q \in DOMAIN BlockOf(stanza, "action")} |-> stanza["action"]["text"]]
    ELSE BlockOf(stanza, "action")
=============================================================================
