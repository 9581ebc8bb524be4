------------------------------ MODULE MCCallSites ------------------------------
(***************************************************************************)
(* Forms of Erlang, composed with what they refer to, and laid out on lines  *)
(* of which the hunk adds some.  A piece of source is its tokens, with the   *)
(* references in it, each with the places of its first and its last token,   *)
(* and the places of the calls that no text can resolve.                     *)
(***************************************************************************)
EXTENDS CallSites, TLC

Piece(toks) == [toks |-> toks, refs |-> {}, dynamic |-> {}, shape |-> "unknown"]
Shift(piece, by) ==
  [piece EXCEPT !.refs = {[r EXCEPT !.at = @ + by, !.to = @ + by] : r \in @}, !.dynamic = {i + by : i \in @}]
Join(a, b) ==
  LET moved == Shift(b, Len(a.toks)) IN
  [toks |-> a.toks \o b.toks, refs |-> a.refs \cup moved.refs,
   dynamic |-> a.dynamic \cup moved.dynamic, shape |-> "unknown"]
Cat(pieces) == FoldLeft(Join, Piece(<<>>), pieces)
Shaped(shape, piece) == [piece EXCEPT !.shape = shape]

Refers(piece, ref, is) ==
  [piece EXCEPT !.refs = @ \cup {[ref |-> ref, at |-> 1, to |-> Len(piece.toks), is |-> is]}]
Unresolved(piece) == [piece EXCEPT !.dynamic = @ \cup {1}]

Listed(open, items, close) ==
  Cat(<<Piece(open)>>
      \o FlattenSeq([i \in DOMAIN items |-> IF i = 1 THEN <<items[i]>> ELSE <<Piece(<<",">>), items[i]>>])
      \o <<Piece(close)>>)

(* Calls know the shapes of their arguments, to be compared with clauses.     *)
Call(m, f, args) ==
  LET piece == Listed(<<m, ":", f, "(">>, args, <<")">>)
      ref == Function(m, f, Len(args))
  IN  [piece EXCEPT !.refs = @ \cup {[ref |-> ref, at |-> 1, to |-> Len(piece.toks), is |-> "call",
                                     shapes |-> [i \in DOMAIN args |-> args[i].shape]]}]
Macro(name) == Refers(Piece(<<"?", name>>), Of("macro", name), "macro")
ThroughMacro(name, behind, ref) ==
  Refers(Cat(<<Macro(name), behind>>), ref, "macro call")
Record(inner) ==
  Shaped("record", Refers(Cat(<<Piece(<<"#", "r", "{">>), inner, Piece(<<"}">>)>>), Of("record", "r"), "record"))
List(items) == Shaped("list", Listed(<<"[">>, items, <<"]">>))
Tuple(items) == Shaped("tuple", Listed(<<"{">>, items, <<"}">>))
Binary(l) == Shaped("binary", Cat(<<Piece(<<"<<">>), l, Piece(<<":", "1", ">>">>)>>))
Atom(a) == Shaped("atom", Piece(<<a>>))
X == Shaped("variable", Piece(<<"X">>))

Leaves ==
  {Atom("a"), X, Shaped("integer", Piece(<<"1">>)), Shaped("string", Piece(<<"string">>)),
   Shaped("atom", Piece(<<"quoted">>)), Shaped("integer", Piece(<<"16", "#", "a">>)),
   Record(Piece(<<>>)), Macro("ANY"), Macro("MOD"), Call("m", "f", <<>>), Piece(<<"g", "(", ")">>), List(<<>>),
   Shaped("fun", Refers(Piece(<<"fun", "m", ":", "f", "/", "2">>), Function("m", "f", 2), "fun")),
   Shaped("fun", Refers(Cat(<<Piece(<<"fun">>), Macro("MOD"), Piece(<<":", "f", "/", "2">>)>>), Function("m", "f", 2), "fun")),
   ThroughMacro("MOD", Piece(<<":", "f", "(", ")">>), Function("m", "f", 0)),
   ThroughMacro("MF", Piece(<<"(", "X", ")">>), Function("m", "f", 1)),
   Shaped("variable", Unresolved(Piece(<<"Mod", ":", "f", "(", ")">>))), Unresolved(Piece(<<"m", ":", "F", "(", "X", ")">>)),
   Shaped("fun", Unresolved(Piece(<<"fun", "Mod", ":", "f", "/", "2">>)))}

(* apply and spawn are calls that the text resolves when it names all three.  *)
Apply(m, f, items) ==
  LET piece == Listed(<<"apply", "(">>, <<m, f, List(items)>>, <<")">>) IN
  Unresolved(Refers(piece, Function("m", "f", Len(items)), "application"))
Spawn(node, items) ==
  LET piece == Listed(<<"spawn", "(">>, <<node, Atom("m"), Atom("f"), List(items)>>, <<")">>) IN
  Unresolved(Refers(piece, Function("m", "f", Len(items)), "application"))

Composites(l) ==
  {Call("m", "g", <<l>>), Call("m", "g", <<X, l>>), Record(Cat(<<Piece(<<"a", "=">>), l>>)),
   Apply(Atom("m"), Atom("f"), <<l, X>>), Apply(Macro("MOD"), Atom("f"), <<l>>), Spawn(X, <<l>>),
   Unresolved(Listed(<<"apply", "(">>, <<X, Atom("f"), List(<<l>>)>>, <<")">>)),
   ThroughMacro("MOD", Listed(<<":", "g", "(">>, <<l, X>>, <<")">>), Function("m", "g", 2)),
   Tuple(<<l, X>>), Binary(l),
   Cat(<<Piece(<<"case">>), l, Piece(<<"->", "X", ",", "X", "end">>)>>),
   Shaped("fun", Cat(<<Piece(<<"fun", "(", "X", ")", "->">>), l, Piece(<<",", "X", "end">>)>>))}

Expressions == UNION {Composites(l) : l \in Leaves} \cup {Call("m", "f", <<c, X>>) : c \in Composites(Macro("MOD")) \cup Composites(Call("m", "f", <<>>))}
               \cup {Apply(Atom("m"), Atom("f"), <<c>>) : c \in Composites(X)}
               \cup {Tuple(<<Atom("m"), Atom("f"), List(<<X>>)>>)}   \* in a body it is data

-----------------------------------------------------------------------------
(* Forms.  A name at the margin before its arguments defines a function.      *)
Type(m, t, args) ==
  LET piece == Listed(<<m, ":", t, "(">>, args, <<")">>) IN
  Refers(piece, [Function(m, t, Len(args)) EXCEPT !.kind = "type"], "type")
Types == {Piece(<<"t", "(", ")">>), Type("m", "t", <<>>), Type("m", "t", <<Type("m", "u", <<>>), Piece(<<"X">>)>>),
          Cat(<<Piece(<<"[">>), Macro("ANY"), Piece(<<"]">>)>>), Listed(<<"{">>, <<Type("m", "t", <<>>), Piece(<<"a">>)>>, <<"}">>),
          Cat(<<Piece(<<"<<", "X", ":", "1", ",", "X", ":", "X", ">>", "|">>), Type("m", "t", <<>>)>>)}

Clause(e) == Cat(<<Piece(<<"f", "(", "X", ",", "X", ")", "->">>), e, Piece(<<".">>)>>)
Spec(keyword, type) == Cat(<<Piece(<<"-", keyword, "f", "(">>), type, Piece(<<",", "X", ")", "->">>), type, Piece(<<".">>)>>)
Define(e) == Cat(<<Piece(<<"-", "define", "(", "X", ",">>), e, Piece(<<")", ".">>)>>)
RecordOf(e, type) ==
  Cat(<<Piece(<<"-", "record", "(", "r", ",", "{", "a", "=">>), e, Piece(<<"::">>), type, Piece(<<",", "X", "=">>), e,
        Piece(<<",", "u", "::">>), type, Piece(<<"}", ")", ".">>)>>)
Boot(items) ==
  Cat(<<Piece(<<"-", "boot", "(", "{", "a", ",", "[">>),
        Refers(Tuple(<<Atom("m"), Atom("f"), List(items)>>), Function("m", "f", Len(items)), "tuple"),
        Piece(<<"]", "}", ")", ".">>)>>)
Doc == Piece(<<"-", "doc", Quotes, "X", "m", ":", "f", "(", ")", ".", "a", "end", Quotes, ".">>)

Attributes ==
  {Spec(k, t) : k \in {"spec", "callback"}, t \in Types} \cup {Boot(<<>>), Boot(<<X, Call("m", "f", <<X>>)>>), Doc}
  \cup {RecordOf(e, Type("m", "t", <<>>)) : e \in {Binary(X), Tuple(<<X, X>>)}}
  \cup {RecordOf(Call("m", "f", <<X, X>>), t) : t \in Types}

-----------------------------------------------------------------------------
(* Layout: forms begin lines, a string of many lines has lines of its own,    *)
(* and a form may go on over the line's end wherever tokens may be apart.      *)
Program(forms) ==
  LET whole == Cat(forms) IN
  [toks |-> whole.toks, refs |-> whole.refs, dynamic |-> whole.dynamic,
   starts |-> {1} \cup {1 + Len(Cat(SubSeq(forms, 1, k)).toks) : k \in 1..(Len(forms) - 1)}]

Glued == {"-", "#", "?", "16"}
MustStart(p) ==
  p.starts \cup {i \in DOMAIN p.toks : p.toks[i] = Quotes /\ i > 1 /\ p.toks[i - 1] # "doc"}
           \cup {i \in DOMAIN p.toks : i > 1 /\ p.toks[i - 1] = Quotes /\ p.toks[i] # "."}
MayStart(p) ==
  {i \in DOMAIN p.toks : i > 1 /\ p.toks[i - 1] \notin Glued /\ p.toks[i] # Quotes /\ p.toks[i] # "-"}

(* The lines of a program that begin at starts, those in added being new.     *)
(* A line that is not ends in a comment, which refers to nothing.              *)
Lines(p, starts, added) ==
  LET at == SelectSeq([i \in DOMAIN p.toks |-> i], LAMBDA i : i \in starts)
      next == Append(Tail(at), Len(p.toks) + 1)
  IN  [k \in DOMAIN at |->
         [from |-> at[k], margin |-> at[k] \in p.starts, origin |-> IF k \in added THEN "added" ELSE "context",
          toks |-> SubSeq(p.toks, at[k], next[k] - 1)
                     \o IF k \in added \/ p.toks[next[k] - 1] \in {"X", Quotes} THEN <<>> ELSE <<"%", "m", ":", "f", "(">>]]

LineOf(lines, at) ==
  CHOOSE k \in DOMAIN lines : lines[k].from <= at /\ (k = Len(lines) \/ at < lines[k + 1].from)

-----------------------------------------------------------------------------
(* The hunk refers to what its forms do, each at its place, with the origin   *)
(* of the line where it begins, however the forms are laid out: neither what  *)
(* a string tells nor a type is a call.  The calls of the added lines are     *)
(* those that the added lines hold as a whole.                                *)
SitesAreFound(q, lines, found) ==
  LET At(r) == [ref |-> r.ref, at |-> r.at, origin |-> lines[LineOf(lines, r.at)].origin]
      Function0(i) == [ref |-> Function(Null, "f", 2), at |-> i, origin |-> lines[LineOf(lines, i)].origin]
  IN  /\ found.referenced = {At(r) : r \in {x \in q.refs : x.is # "tuple"}}
      /\ found.defined = {Function0(i) : i \in q.defines}
      /\ q.dynamic \subseteq found.dynamic
      /\ \A i \in found.dynamic \ q.dynamic : \E r \in q.refs : r.is = "macro call" /\ r.at = i - 1
      /\ {[at |-> s.at, shapes |-> s.shapes] : s \in found.shapes}
           = {[at |-> r.at, shapes |-> r.shapes] :
                r \in {x \in q.refs : x.is = "call" /\ lines[LineOf(lines, x.at)].origin = "added"}}

AddedAreFound(q, lines, calls) ==
  LET Added(r) == \A k \in LineOf(lines, r.at)..LineOf(lines, r.to) : lines[k].origin = "added"
  IN  /\ {c.at : c \in calls} = {r.at : r \in {x \in q.refs : x.is \in {"call", "tuple"} /\ Added(x)}}
      /\ \A c \in calls : \E r \in q.refs : r.at = c.at /\ r.ref = c.ref /\ r.is \in {"call", "tuple"}

SitesAreRead(q) == SitesAreFound(q, q.lines, ScanHunk(q.lines)) /\ AddedAreFound(q, q.lines, QualifiedCalls(q.lines))

-----------------------------------------------------------------------------
SiteSeeds ==
  {[kind |-> "site seed", forms |-> <<Clause(e)>>] : e \in Expressions}
  \cup {[kind |-> "site seed", forms |-> <<Define(e), Clause(X)>>] : e \in Composites(Macro("ANY")) \cup Composites(Call("m", "f", <<>>))}
  \cup {[kind |-> "site seed", forms |-> <<a, Clause(Call("m", "f", <<X>>)), b>>] : a \in Attributes, b \in {Boot(<<X>>)}}

Layouts(p) ==
  LET must == MustStart(p)
      may == MayStart(p) \ must
  IN  {<<must, {1}>>} \cup {<<must \cup {i}, {2}>> : i \in may} \cup {<<must \cup {i}, 1..9>> : i \in {k \in may : k % 2 = 0}}
      \cup {<<must \cup {i, k}, {1, 3}>> : i \in {j \in may : j % 2 = 1}, k \in {j \in may : \A other \in may : j >= other}}

SiteQuestions(seed) ==
  LET p == Program(seed.forms)
      defines == {i \in p.starts : p.toks[i] = "f"}
  IN  {[kind |-> "site", refs |-> p.refs, dynamic |-> p.dynamic, defines |-> defines,
        lines |-> Lines(p, layout[1], layout[2])] : layout \in Layouts(p)}

-----------------------------------------------------------------------------
(* The arguments of a call, and the elements of a list, as an author writes *)
(* them one token after another: what a text means is known because it is    *)
(* written by the grammar of the language, and every prefix that a hunk may  *)
(* cut off occurs on the way.                                                *)

(* open holds what must still be closed, the innermost last; commas counts  *)
(* those between the items; ready tells that an operand has just ended.     *)
Begun(closer) ==
  [of |-> closer, text |-> <<>>, open |-> <<closer>>, ready |-> FALSE, commas |-> 0]

Top(w) == IF w.open = <<>> THEN "done" ELSE Last(w.open)

FreshlyOpened(w) == w.text = <<>> \/ Last(w.text) \in {"(", "[", "{", "<<"}

Said(w, tokens, open, ready) ==
  [w EXCEPT !.text = @ \o tokens, !.open = open, !.ready = ready]

Pushed(w, closer) == Append(w.open, closer)
Popped(w) == Front(w.open)

Operands(w) ==
  IF w.ready \/ Top(w) = "->" THEN {}
  ELSE {Said(w, <<"x">>, w.open, TRUE),
        Said(w, <<"maybe">>, w.open, TRUE),                  \* the atom
        Said(w, <<"maybe", "x">>, Pushed(w, "end"), TRUE),   \* the block
        Said(w, <<"case">>, Pushed(w, "end"), FALSE),
        Said(w, <<"#", "case", "{">>, Pushed(w, "}"), FALSE),
        Said(w, <<"fun", "(">>, Pushed(w, "head"), FALSE),
        Said(w, <<"fun", "x", "(">>, Pushed(w, "head"), FALSE),
        Said(w, <<"fun", "(", "(", ")", "->", "x", ")">>, w.open, TRUE)}  \* a type
       \cup {Said(w, <<o>>, Pushed(w, Closer[o]), FALSE) : o \in Openers}

WithArguments(w) == IF w.ready THEN {Said(w, <<"(">>, Pushed(w, ")"), FALSE)} ELSE {}

Separators(w) ==
  IF ~w.ready THEN {}
  ELSE {[Said(w, <<",">>, w.open, FALSE) EXCEPT !.commas = IF Len(w.open) = 1 THEN @ + 1 ELSE @]}
         \cup (IF Top(w) = "end" THEN {Said(w, <<"->">>, w.open, FALSE)} ELSE {})

Ends(w) ==
  CASE Top(w) = "head" ->
         IF w.ready \/ FreshlyOpened(w)
         THEN {Said(w, <<")">>, Append(Popped(w), "->"), TRUE)} ELSE {}
    [] Top(w) = "->"   -> {Said(w, <<"->">>, Append(Popped(w), "end"), FALSE)}
    [] Top(w) = "done" -> {}
    [] OTHER ->
         IF w.ready \/ (FreshlyOpened(w) /\ Top(w) # "end")
         THEN {Said(w, <<Top(w)>>, Popped(w), TRUE)} ELSE {}

Comment(w) ==
  IF w.text # <<>> /\ Last(w.text) = "%" THEN {}
  ELSE {[w EXCEPT !.text = Append(@, "%")]}

Items(w) == IF Len(w.text) = 1 THEN 0 ELSE w.commas + 1

(* Every way to go on with a text. *)
Longer(w) ==
  IF w.open = <<>> THEN {}
  ELSE IF Top(w) = "->" THEN Ends(w) \cup Comment(w)
  ELSE Operands(w) \cup WithArguments(w) \cup Separators(w) \cup Ends(w) \cup Comment(w)

(* Texts of up to MaxTokens tokens, closers still owed among them. *)
MaxTokens == 8

TextSeeds == {[kind |-> "text", w |-> Begun(closer)] : closer \in {")", "]"}}

TextQuestions(q) ==
  {[kind |-> "text", w |-> w] : w \in {v \in Longer(q.w) : Len(v.text) + Len(v.open) <= MaxTokens}}

Blocked(text) == \E i \in DOMAIN text : text[i] \in {"case", "fun", "maybe"}

(* The arguments of a call are counted as Erlang counts them, whatever blocks, *)
(* funs, types and comments stand in them, up to the parenthesis that closes   *)
(* them and no further, and a text that a hunk cuts off is never counted; so   *)
(* are the elements of a list without blocks.                                  *)
ArgumentsAreRead(q) ==
  LET text == q.w.text
      read == [arity |-> Items(q.w), consumed |-> Len(text)]
  IN  CASE q.w.of = ")" /\ q.w.open = <<>> ->
             /\ ScanArgs(text) = read
             /\ ArityOfArgs(Front(text)) = Items(q.w)
             /\ BalancedParens(text) = Front(text)
             /\ \A t \in {",", ")", "->", "end", "x"} : ScanArgs(Append(text, t)) = read
        [] q.w.of = ")" -> ScanArgs(text) = Unterminated
        [] Blocked(text) -> TRUE
        [] OTHER -> ScanList(text) = IF q.w.open = <<>> THEN read ELSE Unterminated
=============================================================================
