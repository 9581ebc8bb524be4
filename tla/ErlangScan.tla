----------------------------- MODULE ErlangScan -----------------------------
(***************************************************************************)
(* The readers that find the arguments of a call, of a declaration and the *)
(* elements of a list in a piece of Erlang source, without parsing it.     *)
(*                                                                         *)
(* A text is a sequence of tokens.  A literal, a variable, a string, a     *)
(* quoted atom, a character and a reference fun m:f/1 are all "x": spans   *)
(* that the readers skip alike.  "case" is any keyword that opens a block, *)
(* "%" a comment up to the end of its line.                                *)
(***************************************************************************)
EXTENDS Integers, Sequences, FiniteSets

Closer == [o \in {"(", "[", "{", "<<"} |->
             CASE o = "(" -> ")" [] o = "[" -> "]" [] o = "{" -> "}" [] OTHER -> ">>"]

Openers == DOMAIN Closer
Closers == {Closer[o] : o \in Openers}

Tokens == Openers \cup Closers
            \cup {"x", ",", "case", "end", "fun", "maybe", "->", "#", "|", "%"}

-----------------------------------------------------------------------------
(* Blocks have no brackets: a keyword opens one and end closes it.  What    *)
(* fun and maybe open depends on what follows them.                         *)

Least(S, otherwise) == IF S = {} THEN otherwise ELSE CHOOSE k \in S : \A j \in S : k <= j

TokenAfter(text, i) ==  \* the first token after i that is not a comment
  Least({k \in (i + 1)..Len(text) : text[k] # "%"}, Len(text) + 1)

TokenAt(text, i) == IF i \in DOMAIN text THEN text[i] ELSE "none"

(* The bracket that closes the one at i, counting its own kind only; 0 if   *)
(* there is none.                                                           *)
BracketDepth(text, i) ==
  LET depth[k \in (i - 1)..Len(text)] ==
        IF k < i THEN 0
        ELSE depth[k - 1] + (IF text[k] = text[i] THEN 1
                             ELSE IF text[k] = Closer[text[i]] THEN -1 ELSE 0)
  IN  depth

ClosedAt(depth, ks) == Least({k \in ks : depth[k] = 0}, 0)

MatchingBracket(text, i) == ClosedAt(BracketDepth(text, i), i..Len(text))

(* A clause of a fun goes on with an arrow behind its arguments; a type     *)
(* fun((...) -> ...) does not.                                              *)
ArrowBehind(text, close) == close # 0 /\ TokenAt(text, TokenAfter(text, close)) = "->"

FunHead(text, open) == TokenAt(text, open) = "(" /\ ArrowBehind(text, MatchingBracket(text, open))

FunNamed(text, name) == FunHead(text, IF TokenAt(text, name) = "x" THEN TokenAfter(text, name) ELSE name)

FunOpensBlock(text, i) == FunNamed(text, TokenAfter(text, i))

(* MaybeOpensBlock if maybe were a keyword alone. *)
MaybeIsKeyword(text, i) == TRUE

(* maybe is also an atom: it opens a block only before what can begin a     *)
(* body and cannot follow an atom.                                          *)
MaybeOpensBlock(text, i) ==
  TokenAt(text, TokenAfter(text, i)) \in {"x", "[", "{", "<<", "case", "fun", "maybe"}

(* The depth of blocks behind token i, where it was d.  Behind # a keyword  *)
(* is the name of a record.                                                 *)
Observe(text, i, d) ==
  IF i > 1 /\ text[i - 1] = "#" THEN d
  ELSE CASE text[i] = "case" -> d + 1
         [] text[i] = "fun"   -> IF FunOpensBlock(text, i) THEN d + 1 ELSE d
         [] text[i] = "maybe" -> IF MaybeOpensBlock(text, i) THEN d + 1 ELSE d
         [] text[i] = "end"   -> IF d = 0 THEN 0 ELSE d - 1
         [] OTHER -> d

BlockDepth(text) ==
  LET depth[k \in 0..Len(text)] == IF k = 0 THEN 0 ELSE Observe(text, k, depth[k - 1])
  IN  depth

-----------------------------------------------------------------------------
(* The arguments behind an opening parenthesis that is already consumed.    *)
(* Brackets of all kinds share one depth, and >> counts only inside one.    *)

Deeper(t, d) == IF t \in Openers THEN d + 1
                ELSE IF t = ">>" THEN (IF d > 1 THEN d - 1 ELSE d)
                ELSE IF t \in Closers THEN d - 1 ELSE d

Depth(text) ==
  LET depth[k \in 0..Len(text)] == IF k = 0 THEN 1 ELSE Deeper(text[k], depth[k - 1])
  IN  depth

Unterminated == [arity |-> -1, consumed |-> 0]

ArgsTo(commas, end) ==
  [arity |-> IF commas = {} /\ end = 1 THEN 0 ELSE Cardinality(commas) + 1, consumed |-> end]

ArgsUpTo(text, depth, blocks, end) ==
  IF end = 0 THEN Unterminated
  ELSE ArgsTo({k \in 1..(end - 1) : text[k] = "," /\ depth[k] = 1 /\ blocks[k] = 0}, end)

ArgsWith(text, depth, blocks) ==
  ArgsUpTo(text, depth, blocks,
           Least({k \in DOMAIN text : text[k] = ")" /\ depth[k] = 0 /\ blocks[k] = 0}, 0))

ScanArgs(text) == ArgsWith(text, Depth(text), BlockDepth(text))

-----------------------------------------------------------------------------
(* The arguments of a declaration, between its parentheses: each kind of    *)
(* bracket has a depth of its own, and >> always counts.                    *)

KindDepth(text, o) ==
  LET depth[k \in 0..Len(text)] ==
        IF k = 0 THEN 0
        ELSE depth[k - 1] + (IF text[k] = o THEN 1 ELSE IF text[k] = Closer[o] THEN -1 ELSE 0)
  IN  depth

CommasWhere(text, depths, blocks) ==
  {k \in DOMAIN text : text[k] = "," /\ blocks[k] = 0 /\ \A o \in Openers : depths[o][k] = 0}

TopLevelCommas(text) == CommasWhere(text, [o \in Openers |-> KindDepth(text, o)], BlockDepth(text))

ArityOfArgs(text) == Cardinality(TopLevelCommas(text)) + (IF text = <<>> THEN 0 ELSE 1)

(* The inner text of a parenthesis that is open at the start: only         *)
(* parentheses are counted.                                                 *)
BalancedTo(text, close) == IF close = 0 THEN <<>> ELSE SubSeq(text, 1, close - 2)

BalancedParens(text) == BalancedTo(text, MatchingBracket(<<"(">> \o text, 1))

-----------------------------------------------------------------------------
(* The elements behind an opening [: no length when there is a tail, and    *)
(* blocks are not looked for.                                               *)

ListUpTo(text, depth, end) ==
  IF end = 0 \/ \E k \in 1..end : text[k] = "|" /\ depth[k] = 1 THEN Unterminated
  ELSE ArgsTo({k \in 1..end : text[k] = "," /\ depth[k] = 1}, end)

ListWith(text, depth) == ListUpTo(text, depth, Least({k \in DOMAIN text : text[k] = "]" /\ depth[k] = 0}, 0))

ScanList(text) == ListWith(text, Depth(text))
=============================================================================
