------------------------------- MODULE CallSites -------------------------------
(***************************************************************************)
(* What a hunk of Erlang refers to: its lines are told apart as bodies and   *)
(* attributes, joined into runs where they follow one another, and each run  *)
(* is searched for calls, references, records, macros and definitions.       *)
(*                                                                           *)
(* A line is its tokens, with the place of its first one in the file, its    *)
(* origin and whether it begins at the margin.  A string is one token; three *)
(* quotes open or close one of many lines.                                   *)
(***************************************************************************)
EXTENDS ErlangScan, SequencesExt

CONSTANT Null

Atoms == {"m", "f", "g", "a", "r", "t", "u", "ok", "erlang", "apply", "spawn", "record", "define", "boot"}
Variables == {"X", "Mod", "F"}
MacroNames == {"MOD", "MF", "ANY"}
Numbers == {"1", "2", "16"}
Quotes == "triple"
NumberOf == [n \in {"1", "2", "16"} |-> CASE n = "1" -> 1 [] n = "2" -> 2 [] OTHER -> 16]

(* The macros in force: a module, and a module with its function. *)
ModuleOf(macro) == IF macro = "MOD" THEN "m" ELSE Null
CallOf(macro) == IF macro = "MF" THEN <<"m", "f">> ELSE Null

TypeAttributes == {"spec", "callback", "type", "opaque"}
ApplyFamily == {"apply", "spawn"}

-----------------------------------------------------------------------------
(* Telling lines apart.  A region is open from the line of an attribute to    *)
(* the line that ends in a full stop, but for a string of many lines in it.   *)

StripComment(toks) ==
  LET comments == {i \in DOMAIN toks : toks[i] = "%"} IN
  IF comments = {} THEN toks ELSE SubSeq(toks, 1, (CHOOSE i \in comments : \A k \in comments : i <= k) - 1)

Opens(toks) ==
  IF Len(toks) < 2 \/ toks[1] # "-" THEN Null
  ELSE IF toks[2] \in TypeAttributes THEN "type"
  ELSE IF toks[2] = "record" THEN "record"
  ELSE "other"

Closes(toks) == toks # <<>> /\ Last(toks) = "."
OpensString(toks) == toks # <<>> /\ Last(toks) = Quotes
ClosesString(toks) == toks # <<>> /\ Head(toks) = Quotes

(* The fields of a record, one token on: depth is -1 before their brace.      *)
Fields == [depth |-> -1, angle |-> 0, typed |-> FALSE]
NextField(s, t) ==
  LET atField == s.depth = 0 /\ s.angle = 0 IN
  CASE t = "<<" -> [s EXCEPT !.angle = @ + 1]
    [] t = ">>" -> [s EXCEPT !.angle = IF @ > 0 THEN @ - 1 ELSE 0]
    [] t = "{" /\ s.depth < 0 -> [s EXCEPT !.depth = 0]
    [] t \in {"(", "[", "{"} /\ s.depth >= 0 -> [s EXCEPT !.depth = @ + 1]
    [] t \in {")", "]", "}"} /\ s.depth >= 0 -> [s EXCEPT !.depth = @ - 1, !.typed = @ /\ ~atField]
    [] t = "::" /\ atField -> [s EXCEPT !.typed = TRUE]
    [] t = "," /\ atField -> [s EXCEPT !.typed = FALSE]
    [] OTHER -> s

FieldsAlong(s, toks) == FoldLeft(LAMBDA states, tok : Append(states, NextField(Last(states), tok)), <<s>>, toks)

(* The tokens of a line that are the types of fields. *)
TypeSpan(s, toks) ==
  LET state == FieldsAlong(s, toks) IN {i \in DOMAIN toks : state[i].typed /\ state[i + 1].typed}

Outside == [is |-> "none"]
Within(context, split) == [is |-> "open", context |-> context, split |-> split]
AfterLine(context, split, toks) ==
  IF OpensString(toks) THEN [is |-> "string", context |-> context, split |-> split]
  ELSE IF Closes(toks) THEN Outside
  ELSE Within(context, split)

(* The context of a line, the types in it, and the region behind it. *)
Classify(region, toks) ==
  LET Line(context, split) ==
        [context |-> context,
         types |-> IF context = "record" THEN TypeSpan(split, toks) ELSE {},
         region |-> AfterLine(context,
                              IF context = "record" THEN Last(FieldsAlong(split, toks)) ELSE split, toks)]
  IN  CASE region.is = "string" ->
             [context |-> "string", types |-> {},
              region |-> IF ~ClosesString(toks) THEN region
                         ELSE IF Closes(toks) THEN Outside
                         ELSE Within(region.context, region.split)]
        [] region.is = "open" -> Line(region.context, region.split)
        [] region.is = "none" /\ Opens(toks) # Null -> Line(Opens(toks), Fields)
        [] OTHER -> [context |-> "body", types |-> {}, region |-> Outside]

Contexts(lines) ==
  Tail(FoldLeft(LAMBDA classes, line : Append(classes, Classify(Last(classes).region, StripComment(line.toks))),
                << [context |-> "body", types |-> {}, region |-> Outside] >>, lines))

HoldsCalls == {"body", "other", "record"}

-----------------------------------------------------------------------------
(* A run is its tokens, each with its place and its line's origin.            *)
Cells(line, keep) ==
  LET toks == StripComment(line.toks)
      kept == SelectSeq([i \in DOMAIN toks |-> i], LAMBDA i : i \in keep)
  IN  [k \in DOMAIN kept |->
         [t |-> toks[kept[k]], at |-> line.from + kept[k] - 1, origin |-> line.origin,
          margin |-> kept[k] = 1 /\ line.margin]]

Texts(run) == [i \in DOMAIN run |-> IF run[i].t \in Tokens THEN run[i].t ELSE "x"]
Behind(run, i) == SubSeq(run, i + 1, Len(run))
TokenOf(run, i) == IF i \in DOMAIN run THEN run[i].t ELSE Null
Reads(run, i, sets) == \A k \in DOMAIN sets : TokenOf(run, i + k - 1) \in sets[k]

(* The arguments behind an open parenthesis; Null when the run ends before.   *)
Cut(rest, ends) == [k \in DOMAIN ends |-> SubSeq(rest, IF k = 1 THEN 1 ELSE ends[k - 1] + 1, ends[k] - 1)]

CommasIn(text, depth, blocks) == {k \in DOMAIN text : text[k] = "," /\ depth[k] = 1 /\ blocks[k] = 0}
TopCommas(text) == CommasIn(text, Depth(text), BlockDepth(text))

ArgsCut(rest, read, commas) ==
  IF read.arity = 0 THEN <<>>
  ELSE Cut(rest, SelectSeq([k \in 1..read.consumed |-> k], LAMBDA k : k = read.consumed \/ k \in commas))

ArgsRead(rest, text, read) == IF read = Unterminated THEN Null ELSE ArgsCut(rest, read, TopCommas(text))

ArgsIn(rest, text) == ArgsRead(rest, text, ScanArgs(text))

ArgsAt(rest) == ArgsIn(rest, Texts(rest))

ArgsBehind(run, i) == ArgsAt(Behind(run, i))

LenOrNull(args) == IF args = Null THEN Null ELSE Len(args)
ArityBehind(run, i) == LenOrNull(ArgsBehind(run, i))

Function(m, f, n) == [kind |-> "function", m |-> m, f |-> f, n |-> n]
Of(kind, name) == [kind |-> kind, m |-> Null, f |-> name, n |-> Null]
Hit(run, i, ref) == [ref |-> ref, at |-> run[i].at, origin |-> run[i].origin]

IsCall(run, i) == Reads(run, i, <<Atoms, {":"}, Atoms, {"("}>>)
Calls(run) ==
  {Hit(run, i, Function(run[i].t, run[i + 2].t, ArityBehind(run, i + 3))) : i \in {k \in DOMAIN run : IsCall(run, k)}}

FunReferences(run) ==
  LET Plain(i) == Reads(run, i, <<{"fun"}, Atoms, {":"}, Atoms, {"/"}, Numbers>>)
      Macro(i) == /\ Reads(run, i, <<{"fun"}, {"?"}, MacroNames, {":"}, Atoms, {"/"}, Numbers>>)
                  /\ ModuleOf(run[i + 2].t) # Null
  IN  {Hit(run, i, Function(run[i + 1].t, run[i + 3].t, NumberOf[run[i + 5].t])) : i \in {k \in DOMAIN run : Plain(k)}}
      \cup {Hit(run, i, Function(ModuleOf(run[i + 2].t), run[i + 4].t, NumberOf[run[i + 6].t])) :
              i \in {k \in DOMAIN run : Macro(k)}}

(* The # of a number in a base is not that of a record. *)
Records(run) ==
  {Hit(run, i, Of("record", run[i + 1].t)) :
     i \in {k \in DOMAIN run : Reads(run, k, <<{"#"}, Atoms>>) /\ TokenOf(run, k - 1) \notin Numbers}}

IsMacro(run, i) == Reads(run, i, <<{"?"}, MacroNames>>)
MacroUses(run) == {Hit(run, i, Of("macro", run[i + 1].t)) : i \in {k \in DOMAIN run : IsMacro(run, k)}}
MacroCalls(run) ==
  LET Whole(i) == IsMacro(run, i) /\ TokenOf(run, i + 2) = "(" /\ CallOf(run[i + 1].t) # Null
      Module(i) == IsMacro(run, i) /\ Reads(run, i + 2, <<{":"}, Atoms, {"("}>>) /\ ModuleOf(run[i + 1].t) # Null
  IN  {Hit(run, i, Function(CallOf(run[i + 1].t)[1], CallOf(run[i + 1].t)[2], ArityBehind(run, i + 2))) :
         i \in {k \in DOMAIN run : Whole(k)}}
      \cup {Hit(run, i, Function(ModuleOf(run[i + 1].t), run[i + 3].t, ArityBehind(run, i + 4))) :
              i \in {k \in DOMAIN run : Module(k)}}

(* A module or a function that an argument names; the length of a list that   *)
(* is written out.                                                            *)
Named(arg) ==
  IF Len(arg) = 1 /\ arg[1].t \in Atoms THEN arg[1].t
  ELSE IF Len(arg) = 2 /\ IsMacro(arg, 1) THEN ModuleOf(arg[2].t) ELSE Null
ItemsIn(text) == IF text = <<>> THEN 0 ELSE Cardinality(TopCommas(text)) + 1
Length(arg) ==
  IF Len(arg) < 2 \/ Head(arg).t # "[" \/ Last(arg).t # "]" THEN Null
  ELSE ItemsIn(Texts(SubSeq(arg, 2, Len(arg) - 1)))

FunctionOrNull(m, f, n) == IF m = Null \/ f = Null \/ n = Null THEN Null ELSE Function(m, f, n)
Applied(m, f, args) == FunctionOrNull(Named(m), Named(f), Length(args))

FamilyAt(run) == {i \in DOMAIN run : Reads(run, i, <<ApplyFamily, {"("}>>)}
ResolvedBy(name, args) ==
  CASE args = Null -> Null
    [] args # Null /\ Len(args) = 3 -> Applied(args[1], args[2], args[3])
    [] args # Null /\ Len(args) = 4 /\ name = "spawn" -> Applied(args[2], args[3], args[4])
    [] OTHER -> Null
Resolved(run, i) == ResolvedBy(run[i].t, ArgsBehind(run, i + 1))
Applications(run) ==
  {hit \in {Hit(run, IF Reads(run, i - 2, <<{"erlang"}, {":"}>>) THEN i - 2 ELSE i, Resolved(run, i)) :
             i \in FamilyAt(run)} : hit.ref # Null}

(* The items between the commas of a tuple, when it has three. *)
TripleAt(inner, commas) ==
  IF Len(commas) # 2 THEN Null
  ELSE Applied(SubSeq(inner, 1, commas[1] - 1), SubSeq(inner, commas[1] + 1, commas[2] - 1),
               SubSeq(inner, commas[2] + 1, Len(inner)))
TripleIn(inner, top) == TripleAt(inner, SelectSeq([k \in DOMAIN inner |-> k], LAMBDA k : k \in top))
Triple(inner) == TripleIn(inner, TopLevelCommas(Texts(inner)))
TripleTo(run, i, close) == IF close = 0 THEN Null ELSE Triple(SubSeq(run, i + 1, close - 1))

MfaTuples(run) ==
  {hit \in {Hit(run, i, TripleTo(run, i, MatchingBracket([k \in DOMAIN run |-> run[k].t], i))) :
             i \in {k \in DOMAIN run : run[k].t = "{"}} : hit.ref # Null}

Definitions(run) ==
  {Hit(run, i, Function(Null, run[i].t, ArityBehind(run, i + 1))) :
     i \in {k \in DOMAIN run : run[k].margin /\ Reads(run, k, <<Atoms, {"("}>>)}}

(* Calls whose target the text does not tell. *)
Dynamic(run) ==
  LET variable == Variables \cup MacroNames
      ByModule(i) == Reads(run, i, <<variable, {":"}, Atoms \cup variable, {"("}>>)
      ByFunction(i) == Reads(run, i, <<Atoms, {":"}, variable, {"("}>>)
      ByFun(i) == Reads(run, i, <<{"fun"}, Atoms \cup Variables, {":"}, Atoms \cup Variables, {"/"}, Numbers \cup Variables>>)
                  /\ (run[i + 1].t \in Variables \/ run[i + 3].t \in Variables \/ run[i + 5].t \in Variables)
  IN  {run[i].at : i \in FamilyAt(run) \cup {k \in DOMAIN run : ByModule(k) \/ ByFunction(k) \/ ByFun(k)}}

(* What an argument is, by its first token. *)
ShapeOf(arg) ==
  LET t == TokenOf(arg, 1) IN
  CASE t = "#" -> "record" [] t = "{" -> "tuple" [] t = "[" -> "list" [] t = "<<" -> "binary"
    [] t = "string" -> "string" [] t = "quoted" -> "atom" [] t \in Numbers -> "integer"
    [] t \in Variables -> "variable" [] t = "fun" -> "fun"
    [] t \in Atoms /\ Len(arg) = 1 -> "atom" [] OTHER -> "unknown"
ShapesOf(args) == [k \in DOMAIN args |-> ShapeOf(args[k])]
CallShapes(run) ==
  {[at |-> run[i].at, origin |-> run[i].origin,
    shapes |-> ShapesOf(ArgsBehind(run, i + 3))] :
     i \in {k \in DOMAIN run : IsCall(run, k) /\ ArityBehind(run, k + 3) # Null}}

-----------------------------------------------------------------------------
(* Types: a qualified name with its arity, and macros. *)
TypeReferences(run) ==
  {hit \in {Hit(run, i, [Function(run[i].t, run[i + 2].t, ArityBehind(run, i + 3)) EXCEPT !.kind = "type"]) :
              i \in {k \in DOMAIN run : IsCall(run, k)}} : hit.ref.n # Null}
  \cup MacroUses(run)

References(run) ==
  Calls(run) \cup FunReferences(run) \cup Records(run) \cup MacroUses(run) \cup MacroCalls(run) \cup Applications(run)

(* The runs of a hunk: its lines joined as long as they are types, or are     *)
(* not; the types of a record's fields are a run of their own, and a string   *)
(* of many lines ends one.                                                    *)
Closed(s) == IF s.run = <<>> THEN s ELSE [s EXCEPT !.runs = Append(@, [typed |-> s.typed, run |-> s.run]), !.run = <<>>]
ClosedRecord(s) ==
  IF s.record = <<>> THEN s ELSE [s EXCEPT !.runs = Append(@, [typed |-> TRUE, run |-> s.record]), !.record = <<>>]
Turned(s, typed) == IF s.typed = typed THEN s ELSE [Closed(s) EXCEPT !.typed = typed]

Joined(s, line, class) ==
  IF class.context = "string" THEN Closed(s)
  ELSE [Turned(s, class.context = "type") EXCEPT
          !.run = @ \o Cells(line, DOMAIN line.toks \ class.types), !.record = @ \o Cells(line, class.types)]
AddLine(s, line, class) == Joined(IF class.context = "record" THEN s ELSE ClosedRecord(s), line, class)

RunsOf(lines, classes) ==
  ClosedRecord(Closed(FoldLeft(LAMBDA s, i : AddLine(s, lines[i], classes[i]),
                               [runs |-> <<>>, run |-> <<>>, record |-> <<>>, typed |-> FALSE],
                               [i \in DOMAIN lines |-> i]))).runs

HunkRuns(lines) == RunsOf(lines, Contexts(lines))

ScanRuns(bodies, types) ==
  [referenced |-> UNION ({References(r) : r \in bodies} \cup {TypeReferences(r) : r \in types}),
   defined |-> UNION {Definitions(r) : r \in bodies},
   dynamic |-> UNION {Dynamic(r) : r \in bodies},
   shapes |-> {s \in UNION {CallShapes(r) : r \in bodies} : s.origin = "added"}]

RunsThat(runs, typed) == {r.run : r \in {q \in Range(runs) : q.typed = typed}}
ScanBoth(runs) == ScanRuns(RunsThat(runs, FALSE), RunsThat(runs, TRUE))
ScanHunk(lines) == ScanBoth(HunkRuns(lines))

-----------------------------------------------------------------------------
(* The calls of the added lines alone, classified among the lines around      *)
(* them: a run goes no further than the lines that follow one another.        *)
AddedRunsOf(lines, class, contexts) ==
  LET In(i) == lines[i].origin = "added" /\ class[i].context \in contexts
      Add(s, i) == IF ~In(i) THEN Append(s, <<>>)
                   ELSE Append(Front(s), Last(s) \o Cells(lines[i], DOMAIN lines[i].toks \ class[i].types))
  IN  {r \in Range(FoldLeft(Add, << <<>> >>, [i \in DOMAIN lines |-> i])) : r # <<>>}

AddedRuns(lines, contexts) == AddedRunsOf(lines, Contexts(lines), contexts)

QualifiedCalls(lines) ==
  {hit \in UNION {Calls(r) : r \in AddedRuns(lines, HoldsCalls)} : hit.ref.n # Null}
  \cup UNION {MfaTuples(r) : r \in AddedRuns(lines, {"other"})}
=============================================================================
