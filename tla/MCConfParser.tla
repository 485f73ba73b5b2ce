---------------------------- MODULE MCConfParser ----------------------------
(* Small files for ConfParser: every file of at most MaxLines lines of the *)
(* kinds below, and every concatenation of at most MaxChunks whole or      *)
(* damaged objects.                                                        *)
EXTENDS ConfParser

CONSTANTS MaxLines, MaxChunks

Blank     == [Text EXCEPT !.blank = TRUE, !.indent = FALSE]
Comment   == [Text EXCEPT !.hash = TRUE, !.hashSpace = TRUE]
HashBrace == [Comment EXCEPT !.opens = TRUE, !.net = 1, !.raw = 1]   \* '# if {'
Header     == [Opening EXCEPT !.indent = FALSE]                       \* 'ltm pool p {'
RuleHead  == [Header EXCEPT !.rule = TRUE]                             \* 'ltm rule r {'
OneLine   == [Text EXCEPT !.indent = FALSE, !.oneLine = TRUE]        \* 'ltm profile f { }'
OneLineRule == [OneLine EXCEPT !.rule = TRUE]                        \* 'ltm rule r { }'
Close     == [Closing EXCEPT !.indent = FALSE, !.close = TRUE]
Topo      == [Header EXCEPT !.topology = TRUE]
Code      == Header                                                    \* 'when HTTP_REQUEST {'
Set       == [Text EXCEPT !.special = TRUE]                          \* 'set x 1'
SetOpen   == [Opening EXCEPT !.special = TRUE]                       \* 'set x {'
Quoted    == [Text EXCEPT !.raw = 1]                                 \* 'log "{"'
Mention   == [Text EXCEPT !.rule = TRUE]                             \* 'description "ltm rule"'
HashRule  == [Mention EXCEPT !.hash = TRUE]                          \* '#ltm rule r'

Kinds == {Text, Opening, Closing, Comment, HashBrace, Header, RuleHead, OneLine,
          OneLineRule, Close, Topo, SetOpen, Mention}

Chunks == {
    <<Header, Text, Opening, Text, Closing, Close>>,
    <<Header, Comment, HashBrace, Blank, Close>>,
    <<RuleHead, Code, HashBrace, Set, Close, Close>>,
    <<RuleHead, Comment, Opening, Closing, Close>>,
    <<OneLine>>,
    <<Topo, Text, Comment, Blank, Close>>,
    <<Comment, Blank>>,
    \* damaged, or read differently by the two brace counts
    <<Header, Opening, Text, Close>>,
    <<RuleHead, SetOpen, Close, Close>>,
    <<RuleHead, Quoted, Comment, Close>>,
    <<RuleHead, Mention, Code, Close, Close>>,
    <<HashRule>>,
    <<OneLineRule>> }

MCFiles == BoundedSeq(Kinds, MaxLines)
           \cup {FlattenSeq(s) : s \in BoundedSeq(Chunks, MaxChunks)}
=============================================================================
