----------------------------- MODULE ConfParser -----------------------------
(***************************************************************************)
(* The line-level half of src/src/engines/parser.js: the pass over a       *)
(* configuration file that marks comments outside iRules and lifts GTM     *)
(* topology statements out (lines 211-272), and groupObjects (138-192),    *)
(* which cuts the remaining lines into one group per root-level object by  *)
(* counting braces.                                                        *)
(*                                                                         *)
(* A line is a record of what the code asks of its text.  The texts        *)
(* themselves, and what orchestrate (34-134) makes of a group, are left    *)
(* out.                                                                    *)
(***************************************************************************)
EXTENDS Integers, Sequences, SequencesExt

CONSTANT Files      \* the files considered: sequences of lines

Line == [indent    : BOOLEAN,   \* starts with a blank
         opens     : BOOLEAN,   \* trimmed, ends with '{'
         oneLine   : BOOLEAN,   \* holds a '{' and a '}'
         close     : BOOLEAN,   \* is exactly '}'
         rule      : BOOLEAN,   \* isRule: names an ltm, gtm or pem rule
         hash      : BOOLEAN,   \* trimmed, starts with '#'
         hashSpace : BOOLEAN,   \* trimmed, starts with '# '
         special   : BOOLEAN,   \* trimmed, starts with 'set' or 'STREAM'
         topology  : BOOLEAN,   \* starts with 'gtm topology ldns:'
         blank     : BOOLEAN,   \* is the empty string
         net       : Int,       \* '{' minus '}', unquoted and unescaped ones
         raw       : Int]       \* '{' minus '}', all of them

ASSUME FilesAssumption == Files \subseteq Seq(Line)

(* What the questions have to do with each other, whatever the text.       *)
Possible(l) == /\ l.blank => ~l.opens /\ ~l.oneLine /\ ~l.hash /\ l.net = 0
               /\ l.hashSpace => l.hash
               /\ l.close => ~l.hash /\ l.net = -1
               /\ l.topology => ~l.hash

ASSUME LinesAssumption == \A f \in Files : \A k \in DOMAIN f : Possible(f[k])

VARIABLES
    file,           \* fileArr as split from the input
    n,              \* the line the filter pass looks at next
    irule,          \* the filter pass's count of open braces in an iRule
    inTopology,     \* inside a topology statement
    topology,       \* topologyArr
    conf,           \* the lines groupObjects receives
    i, c,           \* groupObjects' line index and offset into a block
    bracketCount,
    groups,         \* the groups so far, as intervals of conf
    pc

vars == <<file, n, irule, inTopology, topology, conf, i, c, bracketCount,
          groups, pc>>

-----------------------------------------------------------------------------
(* The lines the code writes itself for the topology object.               *)

Text == [indent |-> TRUE, opens |-> FALSE, oneLine |-> FALSE, close |-> FALSE,
         rule |-> FALSE, hash |-> FALSE, hashSpace |-> FALSE,
         special |-> FALSE, topology |-> FALSE, blank |-> FALSE,
         net |-> 0, raw |-> 0]
Opening == [Text EXCEPT !.opens = TRUE, !.net = 1, !.raw = 1]
Closing == [Text EXCEPT !.net = -1, !.raw = -1]

TopologyHead == <<[Opening EXCEPT !.indent = FALSE], Opening>>
TopologyRecord == <<Opening, Text, Text>>
TopologyTail ==
    <<Text, Closing, [Closing EXCEPT !.indent = FALSE, !.close = TRUE]>>
Indented(l) == [l EXCEPT !.indent = TRUE, !.close = FALSE, !.topology = FALSE,
                         !.blank = FALSE]

-----------------------------------------------------------------------------
(* Slips one could make in the definitions below, for the mutation runs.   *)

NextIruleCountingComments(l) ==
    IF irule = 0 THEN IF l.rule THEN 1 ELSE 0 ELSE irule + l.raw

CountedAlways(l) == TRUE

NeverRunsIntoRule(l) == FALSE

CloseBlockAt(next) ==
    /\ pc = "close"
    /\ groups' = Append(groups, [from |-> i, to |-> i + c])
    /\ i' = next
    /\ pc' = "group"
    /\ UNCHANGED <<file, n, irule, inTopology, topology, conf, c, bracketCount>>

CloseBlockTooEarly == CloseBlockAt(i + c)

CloseBlockTooLate == CloseBlockAt(i + c + 2)

-----------------------------------------------------------------------------
Init == /\ file \in Files
        /\ n = 1
        /\ irule = 0
        /\ inTopology = FALSE
        /\ topology = << >>
        /\ conf = << >>
        /\ i = 1
        /\ c = 0
        /\ bracketCount = 0
        /\ groups = << >>
        /\ pc = "filter"

(* Lines 223-231: a '# ' line outside an iRule gets the #comment# prefix   *)
(* (and is filtered out at 272); a rule header enters an iRule; inside one *)
(* every brace of a line that is no comment counts, quoted ones included.  *)
IsOuterComment(l) == irule = 0 /\ l.hashSpace

NextIrule(l) ==
    IF irule = 0 THEN IF l.rule /\ ~l.hashSpace THEN 1 ELSE 0
    ELSE IF l.hash THEN irule ELSE irule + l.raw

Reading == /\ pc = "filter"
           /\ n <= Len(file)
           /\ n' = n + 1
           /\ irule' = NextIrule(file[n])
           /\ UNCHANGED <<file, i, c, bracketCount, groups, pc>>

(* Lines 238-252: a topology statement opens a record of the one topology  *)
(* object the code writes.                                                 *)
FilterTopologyHeader ==
    /\ Reading
    /\ file[n].topology
    /\ inTopology' = TRUE
    /\ topology' = topology \o (IF topology = << >> THEN TopologyHead ELSE << >>)
                            \o TopologyRecord
    /\ UNCHANGED conf

(* Lines 253-259: up to the closing brace, lines move into that record.    *)
FilterTopologyBody ==
    /\ Reading
    /\ ~file[n].topology
    /\ inTopology
    /\ inTopology' = ~file[n].close
    /\ topology' = IF file[n].close THEN Append(topology, Closing)
                   ELSE IF IsOuterComment(file[n]) THEN topology
                   ELSE Append(topology, Indented(file[n]))
    /\ UNCHANGED conf

(* Lines 260-262 and 272: any other line stays, unless blank or marked.    *)
FilterLine ==
    /\ Reading
    /\ ~file[n].topology
    /\ ~inTopology
    /\ conf' = IF file[n].blank \/ IsOuterComment(file[n]) THEN conf
               ELSE Append(conf, file[n])
    /\ UNCHANGED <<inTopology, topology>>

(* Lines 264-269: the topology object goes to the end of the file.         *)
FilterEnd ==
    /\ pc = "filter"
    /\ n > Len(file)
    /\ conf' = IF topology = << >> THEN conf
               ELSE conf \o topology \o TopologyTail
    /\ pc' = "group"
    /\ UNCHANGED <<file, n, irule, inTopology, topology, i, c, bracketCount,
                   groups>>

-----------------------------------------------------------------------------
(* groupObjects.                                                           *)

IsEmptyObject(l) == l.oneLine /\ ~l.indent      \* line 146
IsHeader(l) == l.opens /\ ~l.indent             \* line 148

Grouping == /\ pc = "group"
            /\ i <= Len(conf)
            /\ UNCHANGED <<file, n, irule, inTopology, topology, conf>>

GroupOneLine ==
    /\ Grouping
    /\ IsEmptyObject(conf[i])
    /\ groups' = Append(groups, [from |-> i, to |-> i])
    /\ i' = i + 1
    /\ UNCHANGED <<c, bracketCount, pc>>

SkipLine ==
    /\ Grouping
    /\ ~IsEmptyObject(conf[i])
    /\ ~IsHeader(conf[i])
    /\ i' = i + 1
    /\ UNCHANGED <<c, bracketCount, groups, pc>>

OpenBlock ==
    /\ Grouping
    /\ ~IsEmptyObject(conf[i])
    /\ IsHeader(conf[i])
    /\ c' = 0
    /\ bracketCount' = 1
    /\ pc' = "advance"
    /\ UNCHANGED <<i, groups>>

(* Lines 157-165: the next line of the block; there may be none, and       *)
(* line.trim() then throws.                                                *)
Advance ==
    /\ pc = "advance"
    /\ c' = c + 1
    /\ pc' = IF i + c' <= Len(conf) THEN "count" ELSE "error"
    /\ UNCHANGED <<file, n, irule, inTopology, topology, conf, i, bracketCount,
                   groups>>

(* Lines 165-166: comments and special lines of an iRule are not read.     *)
Counted(l) == ~((l.hash \/ l.special) /\ conf[i].rule)

(* Lines 180-183.                                                          *)
RunsIntoRule(l) == Counted(l) /\ l.rule

(* Lines 165-185.  A line that names a rule steps c back and clears the    *)
(* count, and the line's own braces are then added to the cleared count.   *)
CountLine ==
    /\ pc = "count"
    /\ LET l == conf[i + c]
       IN  /\ c' = IF RunsIntoRule(l) THEN c - 1 ELSE c
           /\ bracketCount' = (IF RunsIntoRule(l) THEN 0 ELSE bracketCount)
                               + (IF Counted(l) THEN l.net ELSE 0)
    /\ pc' = IF bracketCount' = 0 THEN "close" ELSE "advance"
    /\ UNCHANGED <<file, n, irule, inTopology, topology, conf, i, groups>>

(* Lines 187-188 and the loop's own increment.                             *)
CloseBlock ==
    /\ pc = "close"
    /\ groups' = Append(groups, [from |-> i, to |-> i + c])
    /\ i' = i + c + 1
    /\ pc' = "group"
    /\ UNCHANGED <<file, n, irule, inTopology, topology, conf, c, bracketCount>>

Finish ==
    /\ pc = "group"
    /\ i > Len(conf)
    /\ pc' = "done"
    /\ UNCHANGED <<file, n, irule, inTopology, topology, conf, i, c,
                   bracketCount, groups>>

Next == \/ FilterTopologyHeader \/ FilterTopologyBody \/ FilterLine \/ FilterEnd
        \/ GroupOneLine \/ SkipLine \/ OpenBlock \/ Advance \/ CountLine
        \/ CloseBlock \/ Finish

(* The parse is one synchronous call: it runs on until it returns or       *)
(* throws.                                                                 *)
Spec == Init /\ [][Next]_vars /\ WF_vars(Next)

-----------------------------------------------------------------------------
TypeOK ==
    /\ file \in Seq(Line) /\ topology \in Seq(Line) /\ conf \in Seq(Line)
    /\ n \in 1 .. Len(file) + 1
    /\ irule \in Int /\ bracketCount \in Int
    /\ inTopology \in BOOLEAN
    /\ i \in Nat \ {0} /\ c \in Nat
    /\ groups \in Seq([from : Nat, to : Nat])
    /\ pc \in {"filter", "group", "advance", "count", "close", "done", "error"}

(* Whatever the file holds, the groups are non-empty intervals of the      *)
(* filtered file that follow one another without overlap: no line ends up  *)
(* in two objects, however the brace count was led astray.                 *)
GroupsDisjoint ==
    \A k \in 1 .. Len(groups) :
        /\ 1 <= groups[k].from
        /\ groups[k].from <= groups[k].to
        /\ groups[k].to <= Len(conf)
        /\ \A m \in 1 .. k - 1 : groups[m].to < groups[k].from

Covered(p) == \E k \in 1 .. Len(groups) : groups[k].from <= p /\ p <= groups[k].to

(* Skipping from group to group loses no root-level header: a parse that   *)
(* returns has every line that opens or holds a root object in some group. *)
NoHeaderLost ==
    pc = "done" =>
        \A p \in 1 .. Len(conf) :
            IsHeader(conf[p]) \/ IsEmptyObject(conf[p]) => Covered(p)

(* "abort if run into next rule" (line 179): a group never reaches past    *)
(* its first line into a line that names a rule, but for the comments and  *)
(* special lines of an iRule, which are not read.                          *)
NoRuleSwallowed ==
    \A k \in 1 .. Len(groups) :
        \A p \in groups[k].from + 1 .. groups[k].to :
            conf[p].rule => /\ conf[p].hash \/ conf[p].special
                            /\ conf[groups[k].from].rule

-----------------------------------------------------------------------------
(* What the file says, read off its brace depth instead of by scanning.    *)

Depth(f) ==
    LET d[k \in 0 .. Len(f)] ==
            IF k = 0 THEN 0 ELSE d[k - 1] + (IF f[k].hash THEN 0 ELSE f[k].net)
    IN  d

IsRoot(l) == /\ ~l.indent /\ ~l.hash
             /\ \/ l.opens /\ ~l.oneLine /\ l.net = 1
                \/ l.oneLine /\ l.net = 0

(* The objects of f, as intervals of its lines.                            *)
Spans(f) ==
    LET d == Depth(f)
        IsSpan(k, m) == /\ d[k - 1] = 0 /\ IsRoot(f[k]) /\ d[m] = 0
                        /\ \A p \in k .. m - 1 : d[p] # 0
    IN  {s \in [from : DOMAIN f, to : DOMAIN f] :
            s.from <= s.to /\ IsSpan(s.from, s.to)}

(* Files as tmsh writes them, with the iRules it is given: braces nest and *)
(* are all functional, objects start at depth zero, an iRule has a body,   *)
(* names a rule in no line but its header and has no lone brace in a line  *)
(* that starts with 'set' or 'STREAM', a topology statement is closed by   *)
(* its first '}' line, and no comment without a blank behind its '#' names *)
(* a rule outside of one, which the filter would take for its header.      *)
Regular(f) ==
    LET d == Depth(f)
        IsTop(k) == f[k].blank \/ f[k].hashSpace \/ IsRoot(f[k])
                    \/ (f[k].hash /\ ~f[k].opens /\ ~f[k].oneLine /\ ~f[k].rule)
    IN  /\ d[Len(f)] = 0
        /\ \A k \in DOMAIN f :
            /\ d[k] >= 0
            /\ ~f[k].hash => f[k].raw = f[k].net
            /\ d[k - 1] = 0 => IsTop(k)
            /\ (f[k].rule \/ f[k].topology) /\ ~f[k].hash =>
                  /\ d[k - 1] = 0 /\ f[k].opens /\ ~f[k].oneLine
                  /\ f[k].rule # f[k].topology
        /\ \A s \in Spans(f) : \A k \in s.from + 1 .. s.to :
            /\ f[k].special /\ f[s.from].rule => f[k].net = 0
            /\ f[k].hash /\ ~f[s.from].rule => f[k].hashSpace
            /\ f[s.from].topology => f[k].close = (k = s.to)

(* The lines of an object: all of an iRule but its blank lines, and all of *)
(* another object but its blank lines and its comments.                    *)
LinesOf(f, s) == {k \in s.from .. s.to :
                    ~f[k].blank /\ (f[k].hashSpace => f[s.from].rule)}
ObjectLines(f, s) ==
    FlattenSeq([k \in DOMAIN f |-> IF k \in LinesOf(f, s) THEN <<f[k]>> ELSE << >>])

Topologies(f) == {s \in Spans(f) : f[s.from].topology}

(* What becomes of a line of a topology statement.                         *)
TopologyLine(f, s, k) ==
    CASE k = s.from -> TopologyRecord
      [] k \in s.from + 1 .. s.to - 1 -> IF f[k].hashSpace THEN << >> ELSE <<Indented(f[k])>>
      [] k = s.to -> <<Closing>>

TopologyLines(f) ==
    [k \in DOMAIN f |->
        IF \E s \in Topologies(f) : k \in s.from .. s.to
        THEN TopologyLine(f, CHOOSE s \in Topologies(f) : k \in s.from .. s.to, k)
        ELSE << >>]

TopologyObject(f) ==
    IF Topologies(f) = {} THEN << >>
    ELSE <<TopologyHead \o FlattenSeq(TopologyLines(f)) \o TopologyTail>>

(* The other spans, in order.                                              *)
Plain(f) == Spans(f) \ Topologies(f)
PlainSpans(f) ==
    FlattenSeq([k \in DOMAIN f |-> IF \E s \in Plain(f) : s.from = k
                                   THEN <<CHOOSE s \in Plain(f) : s.from = k>>
                                   ELSE << >>])

Objects(f) == [k \in DOMAIN PlainSpans(f) |-> ObjectLines(f, PlainSpans(f)[k])]
              \o TopologyObject(f)

(* For a regular file the groups are its objects, in the file's order, and *)
(* then the topology object: comments are gone exactly outside iRules, the *)
(* filter's count of an iRule's braces agrees with groupObjects' own, and  *)
(* no object's line is taken for a topology record.                        *)
GroupsAreObjects ==
    pc = "done" /\ Regular(file) =>
        [k \in DOMAIN groups |-> SubSeq(conf, groups[k].from, groups[k].to)]
            = Objects(file)

(* A regular file is parsed to the end: neither an exception nor a scan    *)
(* that goes on for ever.                                                  *)
RegularParses == (n = 1 /\ pc = "filter" /\ Regular(file)) ~> (pc = "done")

(* Line 179, "abort if run into next rule", and the release note on the    *)
(* indefinite hang of iRule parsing: on any file the parse ends, in a      *)
(* result or in an error.                                                  *)
ParseEnds == <>(pc \in {"done", "error"})
=============================================================================
