------------------------- MODULE MCSourceAttributes -------------------------
(***************************************************************************)
(* Sources of one form or two, composed with what they say, and laid out     *)
(* with a new line or a comment somewhere in them.  A piece of source is its *)
(* tokens, the facts it states, each at its place, and the places before     *)
(* which no comment is read: in the head of a macro, a type or a             *)
(* specification, before a name that is all, and anywhere in compile.        *)
(***************************************************************************)
EXTENDS SourceAttributes, TLC

Fact(is, m, name, n, value) == [is |-> is, m |-> m, name |-> name, n |-> n, value |-> value]
Stating(toks, fact) == [toks |-> toks, facts |-> {[fact |-> fact, at |-> 1]}, solid |-> {}]
Piece(toks) == [toks |-> toks, facts |-> {}, solid |-> {}]

Join(a, b) ==
  LET by == Len(a.toks) IN
  [toks |-> a.toks \o b.toks, solid |-> a.solid \cup {i + by : i \in b.solid},
   facts |-> a.facts \cup {[f EXCEPT !.at = @ + by] : f \in b.facts}]
Cat(pieces) == FoldLeft(Join, Piece(<<>>), pieces)
Add(piece, facts) == [piece EXCEPT !.facts = @ \cup {[fact |-> f, at |-> 1] : f \in facts}]
Solid(piece) == [piece EXCEPT !.solid = DOMAIN piece.toks]
Listing(open, items, close) ==
  Cat(<<Piece(open)>>
      \o FlattenSeq([i \in DOMAIN items |-> IF i = 1 THEN <<items[i]>> ELSE <<Piece(<<",">>), items[i]>>])
      \o <<Piece(close)>>)

-----------------------------------------------------------------------------
(* Expressions.  A call in the arguments of a local call is nested. *)
Numeral(n) == CASE n = 0 -> "0" [] n = 1 -> "1" [] OTHER -> "2"
Use(toks, is, name) == Stating(toks, Fact(is, Null, name, Null, Null))
Var == Piece(<<"X">>)
Nested(piece) ==
  [piece EXCEPT !.facts = {IF f.fact.is = "call" THEN [f EXCEPT !.fact.is = "nested"] ELSE f : f \in @}]
Call(name, args) ==
  Add(Nested(Listing(<<name, "(">>, args, <<")">>)), {Fact("call", Null, name, Len(args), Null)})

FieldOf == Cat(<<Piece(<<"X">>), Use(<<"#", "r", ".", "a">>, "record", "r")>>)

Leaves ==
  {Var, Call("g", <<>>), Use(<<"?", "Y">>, "macro", "Y"), Use(<<"?", "?", "X">>, "macro", "X"),
   Use(<<"#", "r", "{", "}">>, "record", "r"), FieldOf,
   Use(<<"#", "quoted", "{", "}">>, "record", "quoted"), Piece(<<"2", "#", "a">>), Piece(<<"#", "{", "}">>),
   Piece(<<"string">>), Piece(<<"fun", "g", "/", "1">>), Piece(<<"m", ":", "g", "(", "X", ")">>)}
Composites(l) ==
  {Call("h", <<l>>), Call("h", <<Var, l>>), Listing(<<"m", ":", "g", "(">>, <<l>>, <<")">>), Listing(<<"{">>, <<l, Var>>, <<"}">>),
   Cat(<<Piece(<<"case">>), l, Piece(<<"of", "X", "->", "X", ",", "X", "end">>)>>),
   Call("h", <<Cat(<<Piece(<<"fun", "(", ")", "->", "X", ",">>), l, Piece(<<"end">>)>>), Var>>),
   Cat(<<Piece(<<"X", "-">>), Call("g", <<l>>)>>)}

Clause(e) ==
  Add(Cat(<<Piece(<<"f", "(", "X", ",", "X", ")", "->">>), e, Piece(<<".">>)>>), {Fact("definition", Null, "f", 2, Null)})
Guarded(e) ==
  Add(Cat(<<Piece(<<"f", "(", "X", ")", "when", "X", "->">>), e, Piece(<<".">>)>>), {Fact("definition", Null, "f", 1, Null)})

-----------------------------------------------------------------------------
(* Attributes. *)
Attribute(name, inner) == Cat(<<Piece(<<"-", name, "(">>), inner, Piece(<<")", ".">>)>>)
Slash(name, n) == Piece(<<name, "/", Numeral(n)>>)
Lists(name, is) ==
  {Attribute(name, Listing(<<"[">>, <<>>, <<"]">>)),
   Add(Attribute(name, Listing(<<"[">>, <<Slash("f", 2), Slash("g", 0)>>, <<"]">>)),
       {Fact(is, Null, "f", 2, Null), Fact(is, Null, "g", 0, Null)})}
HiddenLists(name, is) ==
  {Add(Attribute(name, Listing(<<"[">>, <<Slash("f", 2), Use(<<"?", "X", "/", "1">>, "macro", "X")>>, <<"]">>)),
       {Fact(is, Null, "f", 2, Null), Fact("hidden", Null, is, Null, Null)})}

Compile(word) ==
  Solid(Add(Attribute("compile", Piece(IF word = "parse_transform" THEN <<"{", word, ",", "m", "}">> ELSE <<"[", word, "]">>)),
            IF word = "a" THEN {} ELSE {Fact("hidden", Null, word, Null, Null)}))
Import ==
  Add(Attribute("import", Listing(<<"m", ",", "[">>, <<Slash("f", 2), Slash("g", 1)>>, <<"]">>)),
      {Fact("import", "m", "f", 2, Null), Fact("import", "m", "g", 1, Null)})

Heading(toks) == Solid(Piece(toks))
(* A macro's value is read as its words, whatever its layout. *)
Define(params, value) ==
  LET head == IF params = Null THEN <<"X">> ELSE <<"X", "(">> \o [i \in 1..(2 * params - 1) |-> IF i % 2 = 1 THEN "Y" ELSE ","] \o <<")">>
  IN  Add(Cat(<<Heading(<<"-", "define", "(">> \o head \o <<",">>), value, Piece(<<")", ".">>)>>),
          {Fact("define", Null, "X", params, value.toks)})

TypeOf(name, args, body) ==
  Cat(<<Heading(<<name, "(">> \o args \o <<")", "::">>), body>>)
TypeForm(keyword, parens, n) ==
  LET type == TypeOf("t", IF n = 0 THEN <<>> ELSE <<"X", ",", "X">>, Piece(<<"g", "(", "X", ")">>))
  IN  Add(IF parens THEN Cat(<<Heading(<<"-", keyword, "(">>), type, Piece(<<")", ".">>)>>)
          ELSE Cat(<<Heading(<<"-", keyword>>), type, Piece(<<".">>)>>),
          {Fact("type", Null, "t", n, Null)})
SpecForm(keyword, parens, returns) ==
  LET head == Heading(<<"f", "(", "t", "(", ")", ",", "X", ")", "->">>)
  IN  Add(IF parens THEN Cat(<<Heading(<<"-", keyword, "(">>), head, returns, Piece(<<")", ".">>)>>)
          ELSE Cat(<<Heading(<<"-", keyword>>), head, returns, Piece(<<".">>)>>),
          {Fact(keyword, Null, "f", 2, returns.toks)})

Returns == {Piece(<<"g", "(", ")">>), Use(<<"#", "r", "{", "}">>, "record", "r"), Piece(<<"m", ":", "t", "(", ")">>)}
AttributeForms ==
  UNION {Lists(a, a) \cup HiddenLists(a, a) : a \in {"export", "export_type"}} \cup Lists("optional_callbacks", "optional_callbacks")
  \cup {Compile(w) : w \in {"export_all", "parse_transform", "a"}} \cup {Import}
  \cup {Define(p, v) : p \in {Null, 1, 2}, v \in {Var, Cat(<<FieldOf, Piece(<<"+", "g", "(", "X", ")">>)>>), Piece(<<"{", "X", ",", "string", "}">>), Use(<<"#", "r", "{", "}">>, "record", "r")}}
  \cup {TypeForm(k, p, n) : k \in {"type", "opaque"}, p \in BOOLEAN, n \in {0, 2}}
  \cup {SpecForm(k, p, r) : k \in {"spec", "callback"}, p \in BOOLEAN, r \in Returns}
  \cup {Add(Attribute("record", Join(Solid(Piece(<<"r">>)), Piece(<<",", "{", "a", "}">>))), {Fact("defined record", Null, "r", Null, Null)}),
        Add(Attribute("behaviour", Solid(Piece(<<"m">>))), {Fact("behaviour", Null, "m", Null, Null)}),
        Add(Attribute("include", Solid(Piece(<<"string">>))), {Fact("include", Null, Null, Null, Null)}),
        Add(Cat(<<Piece(<<"-">>), Use(<<"?", "X">>, "macro", "X"), Piece(<<"(", "t", "(", ")", ")", ".">>)>>),
            {Fact("hidden", Null, "attributes", Null, Null)})}

-----------------------------------------------------------------------------
(* What is read of a source. *)
Keys(is, keys) == {[fact |-> Fact(is, Null, k.name, k.n, Null), line |-> 0] : k \in keys}
Uses(is, uses) == {[fact |-> Fact(is, Null, u.name, Null, Null), line |-> u.line] : u \in uses}
Specified(is, specified) == {[fact |-> Fact(is, Null, s.name, s.n, s.returns), line |-> 0] : s \in specified}
TypeKeys(types) == IF types.is = "listed" THEN Keys("export_type", types.types) ELSE {}

FactsOf(src, functions) ==
  Keys("export", ExportSurface(src).listed)
  \cup TypeKeys(ExportedTypes(src))
  \cup Keys("optional_callbacks", OptionalCallbacks(src)) \cup Keys("type", DefinedTypes(src))
  \cup {[fact |-> Fact("import", i.m, i.name, i.n, Null), line |-> 0] : i \in Imports(src)}
  \cup {[fact |-> Fact("define", Null, "X", v.params, v.body), line |-> 0] : v \in Range(MacroValues(src, "X"))}
  \cup Specified("spec", Signatures(src, "spec")) \cup Specified("callback", Signatures(src, "callback"))
  \cup Uses("macro", MacroUses(src)) \cup Uses("record", RecordUses(src)) \cup Uses("behaviour", Behaviours(src))
  \cup {[fact |-> Fact("include", Null, Null, Null, Null), line |-> l] : l \in Includes(src)}
  \cup {[fact |-> Fact("defined record", Null, r, Null, Null), line |-> 0] : r \in DefinedRecords(src)}
  \cup (IF MacroExpandedAttribute(src) THEN {[fact |-> Fact("hidden", Null, "attributes", Null, Null), line |-> 0]} ELSE {})
  \cup {[fact |-> Fact(IF s.defines THEN "definition" ELSE "call", Null, s.name, s.n, Null), line |-> s.line] : s \in functions}

Lined == {"macro", "record", "behaviour", "include", "definition", "call", "nested"}

(* A source reads as its forms state it, wherever its lines end and comments   *)
(* stand: a call in the arguments of another may be missed, and a list of       *)
(* exported types that hides one is not read at all.                            *)
Stated(q) ==
  {[fact |-> f.fact, line |-> IF f.fact.is \in Lined THEN q.line[f.at] ELSE 0] : f \in q.facts}

HidesTypes(stated) == \E f \in stated : f.fact.is = "hidden" /\ f.fact.name \in {"export_type", "parse_transform"}
MayBeMissed(stated, hiddenTypes) ==
  {f \in stated : \/ f.fact.is = "hidden" /\ f.fact.name # "attributes"
                  \/ f.fact.is = "nested"
                  \/ f.fact.is = "export_type" /\ hiddenTypes}
AsCall(f) == IF f.fact.is = "nested" THEN [f EXCEPT !.fact.is = "call"] ELSE f

ReadsAs(q, found, stated) ==
  /\ stated \ MayBeMissed(stated, HidesTypes(stated)) \subseteq found
  /\ found \subseteq {AsCall(f) : f \in stated}
  /\ HidesTypes(stated) <=> ExportedTypes(q.src).is # "listed"
  /\ DefinedMacros(q.src) = {f.fact.name : f \in {x \in stated : x.fact.is = "define"}}

SourceReadsAsStated(q) == ReadsAs(q, FactsOf(q.src, FunctionSignatures(q.src, Null)), Stated(q))

(* Of a source that lacks a line, as the added lines of a hunk do, no call is  *)
(* read that the whole has not: what began before the gap is told by within.    *)
GapsInvent(q, last, stated) ==
  LET Kept(d) == SelectSeq([i \in DOMAIN q.src |-> i], LAMBDA i : LineOf(q.src, i) # d)
      Within(d) == [l \in 1..(last - 1) |-> q.within[IF l < d THEN l ELSE l + 1]]
      Blob(kept) == [i \in DOMAIN kept |-> q.src[kept[i]]]
      Whole(l, d) == IF l < d THEN l ELSE l + 1
  IN  \A d \in {x \in 1..last : last > 1} :
        \A s \in FunctionSignatures(Blob(Kept(d)), Within(d)) :
          \E f \in stated : f.fact.is \in {"call", "nested", "definition"} /\ f.fact.name = s.name /\ f.line = Whole(s.line, d)

GapsInventNoCall(q) == GapsInvent(q, LineOf(q.src, Len(q.src) + 1), Stated(q))

(* The surface of a module whose source comes in two halves is that of the     *)
(* whole; what is exported is never absent from it, and what is present is      *)
(* exported.                                                                    *)
Hides(q, what) == \E f \in q.facts : f.fact.is = "hidden" /\ f.fact.name = what
Injected(q) == Hides(q, "parse_transform")
Hidden(q) == Injected(q) \/ Hides(q, "export") \/ Hides(q, "export_all")

SurfaceAnswers(q, whole, merged) ==
  \A name \in {"f", "g", "h"}, n \in 0..2 :
    LET k == [name |-> name, n |-> n]
        exported == \E f \in q.facts : f.fact = Fact("export", Null, name, n, Null)
    IN  /\ Lookup(merged, k) = Lookup(whole, k)
        /\ Lookup(whole, k) = "absent" <=> ~exported /\ ~Hidden(q)
        /\ Lookup(whole, k) = "present" <=> exported /\ ~Injected(q)

SurfacesAnswer(q) ==
  SurfaceAnswers(q, ExportSurface(q.src), Merge(ExportSurface(q.first), ExportSurface(q.second)))

SourceIsReadIn(q) == SourceReadsAsStated(q) /\ GapsInventNoCall(q) /\ SurfacesAnswer(q)

-----------------------------------------------------------------------------
(* Two forms, each on a line of its own, and a new line or a comment before    *)
(* the token at gap; none with a gap of 0.                                      *)
Layouts(forms) ==
  LET whole == Join(Join(forms[1], Piece(<<"nl">>)), forms[2])
      toks == whole.toks
      NameBefore(k) == toks[k] = "(" /\ toks[k - 1] \in Names \cup {"?"}
      Breaks == {k \in 2..Len(toks) : /\ toks[k] \notin {"-", "nl"} /\ ~NameBefore(k)
                                      /\ toks[k - 1] \notin {"-", "?", "#", ":", "nl"} /\ toks[k] # ":"
                                      /\ (toks[k] = "#" => toks[k - 1] # "2") /\ toks[k - 1] # "." /\ toks[k] # "."}
  IN  {<<0, <<>>>>} \cup {<<k, <<"in">>>> : k \in Breaks}
      \cup {<<k, <<"%", "-", "export", "(", "[", "h", "/", "1", "]", ")", ".", "?", "Y", "in">>>> :
              k \in {j \in Breaks : j \notin whole.solid /\ <<toks[j - 1], toks[j]>> # <<"(", ")">>}}

SourceQuestions(seed) ==
  LET whole == Join(Join(seed.forms[1], Piece(<<"nl">>)), seed.forms[2])
      split == Len(seed.forms[1].toks) + 1
      Source(gap, layout) == IF gap = 0 THEN whole.toks ELSE SubSeq(whole.toks, 1, gap - 1) \o layout \o SubSeq(whole.toks, gap, Len(whole.toks))
      Question(gap, layout) ==
        LET src == Source(gap, layout)
            by == Len(layout)
            cut == IF gap # 0 /\ gap < split THEN split + by ELSE split
            attribute(k) == IF k <= split THEN seed.attribute[1] ELSE seed.attribute[2]
        IN  [kind |-> "source", src |-> src, facts |-> whole.facts,
             first |-> SubSeq(src, 1, cut - 1), second |-> SubSeq(src, cut + 1, Len(src)),
             line |-> [k \in DOMAIN whole.toks |-> LineOf(src, IF gap # 0 /\ k >= gap THEN k + by ELSE k)],
             within |-> [l \in 1..LineOf(src, Len(src) + 1) |->
                           LET at == CHOOSE k \in DOMAIN whole.toks : LineOf(src, IF gap # 0 /\ k >= gap THEN k + by ELSE k) = l /\ whole.toks[k] # "nl"
                           IN  attribute(at)]]
  IN  {Question(l[1], l[2]) : l \in Layouts(seed.forms)}

SourceSeeds ==
  {[kind |-> "source seed", forms |-> <<a, Clause(Call("g", <<Var>>))>>, attribute |-> <<TRUE, FALSE>>] : a \in AttributeForms}
  \cup {[kind |-> "source seed", forms |-> <<Attribute("a", Var), Clause(e)>>, attribute |-> <<TRUE, FALSE>>] :
          e \in UNION {Composites(l) : l \in Leaves}}
  \cup {[kind |-> "source seed", forms |-> <<Guarded(FieldOf), a>>, attribute |-> <<FALSE, TRUE>>] :
          a \in {x \in AttributeForms : \E f \in x.facts : f.fact.is \in {"spec", "type", "define"}}}
  \cup {[kind |-> "source seed", forms |-> <<a, b>>, attribute |-> <<TRUE, TRUE>>] :
          a, b \in {x \in AttributeForms : \E f \in x.facts : f.fact.is \in {"export", "export_type", "hidden"}}}
=============================================================================
