--------------------------- MODULE SourceAttributes ---------------------------
(***************************************************************************)
(* What the attributes of a source file say, read off its text: the names   *)
(* it exports, imports and defines, its types, specifications, behaviours    *)
(* and includes, and the macros, records and functions it uses.              *)
(*                                                                         *)
(* A source is its tokens with the ends of its lines: "nl" before a line     *)
(* that begins at the margin, "in" before one that is indented.  A comment   *)
(* goes from "%" to the end of its line.                                     *)
(***************************************************************************)
EXTENDS ErlangScan, SequencesExt

CONSTANT Null

Atoms == {"m", "f", "g", "h", "t", "r", "a", "spec", "callback", "type", "opaque", "define", "record", "export",
          "import", "compile", "export_type", "optional_callbacks", "behaviour", "include", "export_all",
          "parse_transform"}
Variables == {"X", "Y"}
Names == Atoms \cup Variables
NumberOf == [n \in {"0", "1", "2"} |-> CASE n = "0" -> 0 [] n = "1" -> 1 [] OTHER -> 2]
Newlines == {"nl", "in"}

LineOf(src, i) == 1 + Cardinality({k \in 1..(i - 1) : src[k] \in Newlines})

(* The source without what its comments say. *)
Commented(src, marks, i) == \E k \in marks : k <= i /\ \A j \in k..i : src[j] \notin Newlines
BlankFrom(src, marks) ==
  IF marks = {} THEN src ELSE [i \in DOMAIN src |-> IF Commented(src, marks, i) THEN "%" ELSE src[i]]
Blank(src) == BlankFrom(src, {k \in DOMAIN src : src[k] = "%"})

(* normalize_macro_body: neither comments nor layout. *)
Words(toks) == SelectSeq(Blank(toks), LAMBDA t : t \notin Newlines \cup {"%"})

FromFirst(toks, ink) ==
  IF ink = {} THEN <<>> ELSE SubSeq(toks, CHOOSE i \in ink : \A k \in ink : i <= k, Len(toks))
TrimStart(toks) == FromFirst(toks, {i \in DOMAIN toks : toks[i] \notin Newlines})
Trim(toks) == Reverse(TrimStart(Reverse(TrimStart(toks))))
Begins(toks, t) == toks # <<>> /\ Head(toks) = t

Spans(ink) == [i \in DOMAIN ink |-> IF ink[i] \in Tokens THEN ink[i] ELSE "x"]
Texts(toks) == Spans(SelectSeq(Blank(toks), LAMBDA t : t \notin Newlines))

(* The parenthesis that closes each one, 0 for what nothing closes. *)
Closing(text) ==
  LET Step(s, i) ==
        CASE text[i] = "(" -> [s EXCEPT !.open = <<i>> \o @]
          [] text[i] = ")" /\ s.open # <<>> -> [open |-> Tail(s.open), close |-> [s.close EXCEPT ![Head(s.open)] = i]]
          [] OTHER -> s
      after[i \in 0..Len(text)] ==
        IF i = 0 THEN [open |-> <<>>, close |-> [k \in DOMAIN text |-> 0]] ELSE Step(after[i - 1], i)
  IN  after[Len(text)].close

(* A name with its arguments, and what is behind them. *)
ArityOf(args) == IF Trim(args) = <<>> THEN 0 ELSE ArityOfArgs(Texts(args))

NameClosed(name, open, close) ==
  IF close = 0 THEN Null
  ELSE [name |-> name, n |-> ArityOf(SubSeq(open, 2, close - 1)),
        rest |-> TrimStart(SubSeq(open, close + 1, Len(open)))]

NameOpened(name, open) ==
  IF name \notin Names \/ ~Begins(open, "(") THEN Null ELSE NameClosed(name, open, Closing(Blank(open))[1])

NameIn(text) == IF text = <<>> THEN Null ELSE NameOpened(Head(text), TrimStart(Tail(text)))

NameAndArgs(toks) == NameIn(TrimStart(toks))

-----------------------------------------------------------------------------
(* Every -name(...) of names, its body up to the parenthesis that closes it.   *)
AttributesIn(src, names, text, close) ==
  LET Opens(i) == /\ text[i] = "-" /\ i + 2 <= Len(text)
                  /\ text[i + 1] \in names /\ text[i + 2] = "("
                  /\ close[i + 2] # 0
      Step(s, i) ==
        IF i <= s.past \/ ~Opens(i) THEN s
        ELSE [past |-> close[i + 2],
              hits |-> Append(s.hits, [name |-> src[i + 1], body |-> SubSeq(src, i + 3, close[i + 2] - 1),
                                       line |-> LineOf(src, i)])]
      after[i \in 0..Len(src)] == IF i = 0 THEN [past |-> 0, hits |-> <<>>] ELSE Step(after[i - 1], i)
  IN  after[Len(src)].hits

AttributesOf(src, names, text) == AttributesIn(src, names, text, Closing(text))

Attributes(src, names) == AttributesOf(src, names, Blank(src))

Bodies(src, names) == {hit.body : hit \in Range(Attributes(src, names))}

(* The list in a body, without its comments, and the words before it; Null if *)
(* there is none.                                                             *)
Entry(words) ==
  IF \E i \in DOMAIN words : words[i] = "?" THEN [is |-> "macro"]
  ELSE IF Len(words) = 3 /\ words[1] \in Names /\ words[2] = "/" /\ words[3] \in DOMAIN NumberOf
       THEN [is |-> "name", name |-> words[1], n |-> NumberOf[words[3]]]
  ELSE [is |-> "unparsed"]

Cut(rest, ends) == [k \in DOMAIN ends |-> SubSeq(rest, IF k = 1 THEN 1 ELSE ends[k - 1] + 1, ends[k] - 1)]

EndsIn(text, depth, upto) ==
  SelectSeq([k \in 1..upto |-> k], LAMBDA k : k = upto \/ (text[k] = "," /\ depth[k] = 1))

ListScanned(head, rest, text, scan) ==
  IF scan = Unterminated THEN Null
  ELSE [head |-> head, entries |-> {Entry(e) : e \in Range(Cut(rest, EndsIn(text, Depth(text), scan.consumed))) \ {<<>>}}]

ListIn(head, rest, text) == ListScanned(head, rest, text, ScanList(text))

ListBehind(head, rest) == ListIn(head, rest, Texts(rest))

ListFrom(words, open) ==
  IF open = 0 THEN Null ELSE ListBehind(SubSeq(words, 1, open - 1), SubSeq(words, open + 1, Len(words)))

ListAmong(words) == ListFrom(words, SelectInSeq(words, LAMBDA t : t = "["))

AttributeList(body) == ListAmong(Words(body))

Listed(src, name) == {list \in {AttributeList(b) : b \in Bodies(src, {name})} : list # Null}
NamedEntries(list) == {[name |-> e.name, n |-> e.n] : e \in {x \in list.entries : x.is = "name" /\ x.name \in Atoms}}
HasMacro(list) == [is |-> "macro"] \in list.entries

(* extract_imports *)
Imports(src) ==
  UNION {{[m |-> list.head[1], name |-> e.name, n |-> e.n] : e \in NamedEntries(list)} :
           list \in {l \in Listed(src, "import") : Len(l.head) = 2 /\ l.head[1] \in Atoms /\ l.head[2] = ","}}

-----------------------------------------------------------------------------
(* A surface: what is listed, and why the list may not be all of it.          *)
Record(held, found) == IF held = Null \/ found = "parse transform" THEN found ELSE held

Lookup(surface, key) ==
  IF surface.unreadable = "parse transform" THEN "unknowable"
  ELSE IF key \in surface.listed THEN "present"
  ELSE IF surface.unreadable = Null THEN "absent" ELSE "unknowable"

Merge(a, b) ==
  [listed |-> a.listed \cup b.listed,
   unreadable |-> IF b.unreadable = Null THEN a.unreadable ELSE Record(a.unreadable, b.unreadable)]

(* In compile a word is looked for anywhere, in a comment too. *)
Says(src, word) == \E body \in Bodies(src, {"compile"}) : \E i \in DOMAIN body : body[i] = word

Compiled(src) ==
  IF Says(src, "parse_transform") THEN "parse transform" ELSE IF Says(src, "export_all") THEN "export_all" ELSE Null

Surface(lists, compiled) ==
  [listed |-> UNION {NamedEntries(l) : l \in lists},
   unreadable |-> IF \E l \in lists : HasMacro(l) THEN Record(compiled, "macro") ELSE compiled]

ExportSurface(src) == Surface(Listed(src, "export"), Compiled(src))

TypesIn(lists) ==
  IF \E l \in lists : HasMacro(l) THEN [is |-> "macro"]
  ELSE [is |-> "listed", types |-> UNION {NamedEntries(l) : l \in lists}]

ExportedTypes(src) ==
  IF Says(src, "parse_transform") THEN [is |-> "parse transform"] ELSE TypesIn(Listed(src, "export_type"))

OptionalCallbacks(src) == UNION {NamedEntries(l) : l \in Listed(src, "optional_callbacks")}

-----------------------------------------------------------------------------
(* parse_macro_define: no comment may stand before the comma.                 *)
MacroWith(name, params, value) ==
  IF Begins(value, ",") THEN [name |-> name, params |-> params, body |-> Words(Tail(value))] ELSE Null

MacroCalled(called) == IF called = Null THEN Null ELSE MacroWith(called.name, called.n, called.rest)

MacroNamed(text, after) ==
  IF Head(text) \notin Names THEN Null
  ELSE IF Begins(after, "(") THEN MacroCalled(NameIn(text))
  ELSE MacroWith(Head(text), Null, after)

MacroIn(text) == IF text = <<>> THEN Null ELSE MacroNamed(text, TrimStart(Tail(text)))

MacroDefine(body) == MacroIn(TrimStart(body))

DefinedMacros(src) ==
  {Head(body) : body \in {b \in {TrimStart(x) : x \in Bodies(src, {"define"})} : b # <<>> /\ Head(b) \in Names \cup {"quoted"}}}

(* Every definition of a name is kept, in the order of the source. *)
DefinesIn(hits) == [i \in DOMAIN hits |-> MacroDefine(hits[i].body)]
Values(of) == [i \in DOMAIN of |-> [params |-> of[i].params, body |-> of[i].body]]
MacroValues(src, name) ==
  Values(SelectSeq(DefinesIn(Attributes(src, {"define"})), LAMBDA d : d # Null /\ d.name = name))

(* The one name or string that an attribute is about. *)
AtomIn(text) == IF text # <<>> /\ Head(text) \in Atoms \cup {"quoted"} THEN Head(text) ELSE Null
AtomArgument(body) == AtomIn(TrimStart(body))
StringArgument(body) == IF Begins(TrimStart(body), "string") THEN "string" ELSE Null

DefinedRecords(src) == {AtomArgument(b) : b \in Bodies(src, {"record"})} \ {Null}
Behaviours(src) ==
  {[name |-> AtomArgument(hit.body), line |-> hit.line] :
     hit \in {x \in Range(Attributes(src, {"behaviour", "behavior"})) : AtomArgument(x.body) # Null}}
Includes(src) ==
  {hit.line : hit \in {x \in Range(Attributes(src, {"include", "include_lib"})) : StringArgument(x.body) # Null}}

-----------------------------------------------------------------------------
(* Forms without parentheses of their own: from the hyphen that begins a line  *)
(* to the full stop.                                                           *)
AtFormStart(text, i) == i = 1 \/ text[i - 1] \in Newlines
Terminates(text, i) == text[i] = "." /\ (i = Len(text) \/ text[i + 1] \in Newlines \cup {"%"})

FormEnd(text, i) ==
  CHOOSE k \in i..(Len(text) + 1) :
    /\ k = Len(text) + 1 \/ Terminates(text, k)
    /\ \A j \in i..(k - 1) : ~Terminates(text, j)

Unwrapped(text) ==
  IF Len(text) >= 2 /\ Head(text) = "(" /\ Last(text) = ")" THEN Trim(SubSeq(text, 2, Len(text) - 1)) ELSE text
StripParens(toks) == Unwrapped(Trim(toks))

FormsIn(src, keywords, text) ==
  LET Taken(s, i, end) ==
        [past |-> end - 1, forms |-> Append(s.forms, NameAndArgs(StripParens(SubSeq(src, i + 2, end - 1))))]
      Step(s, i) ==
        IF i <= s.past \/ i = Len(src) \/ text[i] # "-" \/ ~AtFormStart(text, i) THEN s
        ELSE IF text[i + 1] \notin keywords THEN s
        ELSE Taken(s, i, FormEnd(text, i + 2))
      after[i \in 0..Len(src)] == IF i = 0 THEN [past |-> 0, forms |-> <<>>] ELSE Step(after[i - 1], i)
  IN  after[Len(src)].forms

Forms(src, keywords) == FormsIn(src, keywords, Blank(src))

DefinedTypes(src) ==
  {[name |-> form.name, n |-> form.n] :
     form \in {f \in Range(Forms(src, {"type", "opaque", "nominal"})) \ {Null} : Begins(f.rest, "::") /\ f.name \in Atoms}}

(* -spec and -callback: of two signatures of a function the last is kept.     *)
LastOfEach(forms) ==
  {[name |-> forms[i].name, n |-> forms[i].n, returns |-> Words(Tail(forms[i].rest))] :
     i \in {k \in DOMAIN forms : \A j \in (k + 1)..Len(forms) :
              <<forms[j].name, forms[j].n>> # <<forms[k].name, forms[k].n>>}}
Signatures(src, keyword) ==
  LastOfEach(SelectSeq(Forms(src, {keyword}), LAMBDA f : f # Null /\ Begins(f.rest, "->")))

ExpandsIn(text) ==
  \E i \in DOMAIN text : text[i] = "-" /\ AtFormStart(text, i) /\ Begins(TrimStart(SubSeq(text, i + 1, Len(text))), "?")
MacroExpandedAttribute(src) == ExpandsIn(Blank(src))

-----------------------------------------------------------------------------
(* Uses: ?M, as a string ??M, and #r, but for the # of a number in a base.    *)
UsesIn(src, text, at) == {[name |-> text[i + 1], line |-> LineOf(src, i)] : i \in at}

MacrosAt(text) == {k \in 1..(Len(text) - 1) : text[k] = "?" /\ text[k + 1] \in Names}
MacroUses(src) == UsesIn(src, Blank(src), MacrosAt(Blank(src)))

RecordsAt(text) ==
  {k \in 1..(Len(text) - 1) :
     /\ text[k] = "#" /\ text[k + 1] \in Atoms \cup {"quoted"}
     /\ k = 1 \/ text[k - 1] \notin DOMAIN NumberOf}
RecordUses(src) == UsesIn(src, Blank(src), RecordsAt(Blank(src)))

(* Each name(...) outside attributes, but for those in the arguments of         *)
(* another: a definition before an arrow or a guard, or at the margin.  Within  *)
(* tells of each line whether it begins in an attribute; Null if nobody can.    *)
(* What is behind the arguments, or the margin, tells a definition. *)
IsDefinition(text, i, behind) ==
  Begins(behind, "->") \/ Begins(behind, "when") \/ i = 1 \/ text[i - 1] = "nl"

FunctionsIn(src, within, text, close) ==
  LET WithinAt(line, otherwise) == IF within = Null THEN otherwise ELSE line \in DOMAIN within /\ within[line]
      Named(i) ==
        /\ text[i] \in Atoms /\ i < Len(text) /\ text[i + 1] = "("
        /\ i = 1 \/ text[i - 1] \notin {":", "?", "#"}
        /\ close[i + 1] # 0
      Signature(i) ==
        [name |-> text[i], n |-> ArityOfArgs(Texts(SubSeq(src, i + 2, close[i + 1] - 1))), line |-> LineOf(src, i),
         defines |-> IsDefinition(text, i, TrimStart(SubSeq(text, close[i + 1] + 1, Len(text))))]
      Step(s, i) ==
        CASE i <= s.past -> s
          [] text[i] \in Newlines -> [s EXCEPT !.attribute = WithinAt(LineOf(src, i + 1), @)]
          [] text[i] = "-" /\ AtFormStart(text, i) -> [s EXCEPT !.attribute = TRUE]
          [] Terminates(text, i) -> [s EXCEPT !.attribute = FALSE]
          [] Named(i) -> [s EXCEPT !.past = close[i + 1], !.found = IF s.attribute THEN @ ELSE @ \cup {Signature(i)}]
          [] OTHER -> s
      after[i \in 0..Len(src)] ==
        IF i = 0 THEN [past |-> 0, attribute |-> WithinAt(1, FALSE), found |-> {}] ELSE Step(after[i - 1], i)
  IN  after[Len(src)].found

FunctionsOf(src, within, text) == FunctionsIn(src, within, text, Closing(text))

FunctionSignatures(src, within) == FunctionsOf(src, within, Blank(src))
=============================================================================
