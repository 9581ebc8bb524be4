------------------------------- MODULE MCXref -------------------------------
(***************************************************************************)
(* Relations on a few vertices, and programs of two modules, a and b, that *)
(* call each other and a module that was not loaded in every form a source *)
(* can write a call in.                                                     *)
(***************************************************************************)
EXTENDS Xref, TLC

RelationSeeds == [kind : {"relation"}, size : {4}, half : SUBSET ({1, 2} \X (1..4))]

RelationQuestions(seed) ==
  {[kind |-> "closure", size |-> seed.size, relation |-> seed.half \cup other] :
     other \in SUBSET ({3, 4} \X {1, 2, 4})}

(* Pairs joined by a path of at least one edge: of at most 2^k edges, for k. *)
Paths(r) ==
  LET vertices == {e[1] : e \in r}
      joined[k \in 0..Cardinality(vertices)] ==
        LET p == joined[k - 1]
        IN  IF k = 0 THEN r ELSE p \cup UNION {{e[1]} \X Image(p, {e[2]}) : e \in p}
  IN  joined[Cardinality(vertices)]

(* The closure that list_callers --transitive and list_module_cycles are read *)
(* from holds two vertices exactly when a path leads from one to the other,    *)
(* and the components come in an order in which none reaches a later one.      *)
ClosureIsReach(q) ==
  LET cs == Components(q.size, Neighbours(q.size, q.relation)) IN
  /\ Closure(q.size, q.relation) = Paths(q.relation)
  /\ \A i \in DOMAIN cs, k \in DOMAIN cs : i < k => cs[k] \cap Image(q.relation, cs[i]) = {}

-----------------------------------------------------------------------------
Attribute(name, value) == [name |-> name, value |-> value]
Define(x, n, body) == Attribute("define", [key |-> <<x, n>>, body |-> body])
Clause(f, calls) == [function |-> f, calls |-> calls]

Source(path, attributes, clauses) ==
  [path |-> path, kind |-> "erl", text |-> "text", attributes |-> attributes, clauses |-> clauses]
Header(path, attributes) == [path |-> path, kind |-> "hrl", text |-> "text", attributes |-> attributes]

(* A source with a header beside it and two of one name in other applications, *)
(* each of which may include one more; and another source.                     *)
Beside1 == <<"deps", "a", "src", "n.hrl">>
InB == <<"deps", "b", "include", "h.hrl">>
InC == <<"deps", "c", "include", "h.hrl">>

Named == {<<"n.hrl">>, <<"b", "include", "h.hrl">>, <<"c", "include", "h.hrl">>, <<"h.hrl">>, <<"gone.hrl">>}
NamedByOne == {<<>>} \cup {<<raw>> : raw \in Named \ {<<"gone.hrl">>}}

Meant(raw) ==
  CASE raw = <<"n.hrl">> -> {Beside1}
    [] raw \in {<<"b", "include", "h.hrl">>, <<"h.hrl">>} -> {InB}
    [] raw = <<"c", "include", "h.hrl">> -> {InC}
    [] OTHER -> {}

Including(raws) == [i \in DOMAIN raws |-> Attribute("include", raws[i])]

Another(q) ==
  CASE q.other = "of the same name" -> <<Source(<<"deps", "b", "src", "a.erl">>, <<Attribute("module", "a")>>, <<>>)>>
    [] q.other = "of no name" -> <<Source(<<"deps", "b", "src", "a.erl">>, <<Attribute("module", Null)>>, <<>>)>>
    [] q.other = "of no text" -> <<[Source(<<"deps", "b", "src", "a.erl">>, <<>>, <<>>) EXCEPT !.text = "not text"]>>
    [] OTHER -> <<>>

Tree(q) ==
  <<Source(<<"deps", "a", "src", "a.erl">>,
           <<Attribute("module", "a"), Define("M", Null, <<AtomTerm("a")>>)>> \o Including(q.includes), <<>>),
    Header(Beside1, <<Define("M", Null, <<AtomTerm("n")>>)>> \o Including(q.beside)),
    Header(InB, <<Define("B", Null, <<AtomTerm("b")>>)>> \o Including(q.ofB)),
    Header(InC, Including(q.ofC) \o <<Define("M", Null, <<AtomTerm("c")>>), Define("C", 1, <<AtomTerm("c")>>)>>)>>
  \o Another(q)

TreeSeeds == [kind : {"tree seed"}, beside : NamedByOne, ofB : NamedByOne, ofC : NamedByOne]

TreeQuestions(seed) ==
  {[kind |-> "tree", includes |-> i, beside |-> seed.beside, ofB |-> seed.ofB, ofC |-> seed.ofC, other |-> o] :
     i \in BoundedSeq(Named, 2), o \in {"none", "of the same name", "of no name", "of no text"}}

(* However the headers include one another, those that can be reached are folded *)
(* in, each once, and no other: a macro is known exactly when one of them or the  *)
(* source defines it, as one of them does, and the analyses of a patch know the   *)
(* same; what is named and is not there is told.  Of two sources of one name the  *)
(* later is read, and of one that is no text the whole tree is refused.           *)
TreesAreRead(q) ==
  LET files == Tree(q)
      walk == ResolveIncludes(files, files[1])
      table == BuildMacroTable(files, files[1])
      includedBy(h) == CASE h = Beside1 -> q.beside [] h = InB -> q.ofB [] OTHER -> q.ofC
      first == UNION {Meant(raw) : raw \in ToSet(q.includes)}
      edges == UNION {{<<h, g>> : g \in UNION {Meant(raw) : raw \in ToSet(includedBy(h))}} : h \in {Beside1, InB, InC}}
      reached == first \cup Image(Paths(edges), first)
      folded == {files[1]} \cup {f \in ToSet(files) : f.path \in reached}
      named == UNION {ToSet(Includes(f)) : f \in folded}
      definers(k) == {f \in folded : k \in DOMAIN Defines(f)}
      data == ReadTree(files)
  IN  /\ walk.pending = <<>> /\ walk.seen = reached
      /\ ToSet(walk.unresolved) = {raw \in named : Meant(raw) = {}}
      /\ DOMAIN walk.macros = UNION {DOMAIN Defines(f) : f \in folded} /\ DOMAIN table = DOMAIN walk.macros
      /\ \A k \in DOMAIN table : {walk.macros[k], table[k]} \subseteq {Defines(f)[k] : f \in definers(k)}
      /\ IsReadable(files) <=> q.other # "of no text"
      /\ DOMAIN data = {"a"}
      /\ data["a"].application = IF q.other = "of the same name" THEN "b" ELSE "a"

-----------------------------------------------------------------------------
V == Term("variable")

F1 == <<"f", 1>>
G0 == <<"g", 0>>
H1 == <<"h", 1>>

Given(m, f, args) == <<AtomTerm(m), AtomTerm(f), args>>
OneItem(c) == ListTerm(<<c>>, FALSE)

Macros ==
  <<Define("M", Null, <<AtomTerm("b")>>), Define("BH", Null, <<[form |-> "name", module |-> "b", name |-> "h"]>>),
    Define("LOG", 1, <<Qualified("x", "q", <<V>>), Local("g", <<>>)>>), Define("CALL", Null, <<Qualified("b", "g", <<>>)>>),
    Define("DEEP", 1, <<Qualified("b", "h", <<Local("g", <<>>)>>)>>), Define("CASE", 1, <<Word("if", <<V>>)>>),
    Define("OF", 1, <<OfVariable("F", "g", <<>>)>>), Define("ANY", 0, <<OfVariable("Mod", "g", <<>>)>>),
    Define("RUN", 1, <<Local("apply", Given("b", "h", OneItem(V)))>>)>>

(* Calls as they can be written in module m, and the functions they run: by a *)
(* name of their own module or an imported one, or by a module and a name.     *)
Own(m, f, n) == InModule(m, f, n)
Remote(m, f, n) == External(m, f, n)

Plain(m) ==
  {<<V, {}>>, <<Word("fun", <<V>>), {}>>, <<Word("F", <<V>>), {}>>, <<Value("M"), {}>>,
   <<Local("g", <<>>), {Own(m, "g", 0)}>>,
   <<Local("h", <<V>>), {IF m = "a" THEN Remote("b", "h", 1) ELSE Own("b", "h", 1)}>>,
   <<Qualified("b", "h", <<V>>), {Remote("b", "h", 1)}>>, <<Qualified("b", "g", <<>>), {Remote("b", "g", 0)}>>,
   <<Qualified("a", "f", <<V>>), {Remote("a", "f", 1)}>>, <<Qualified("x", "q", <<>>), {Remote("x", "q", 0)}>>,
   <<Self("g", <<>>), {Remote(m, "g", 0)}>>, <<ViaMacro("M", "h", <<V>>), {Remote("b", "h", 1)}>>,
   <<Macro("BH", <<V>>), {Remote("b", "h", 1)}>>, <<Macro("LOG", <<V>>), {Remote("x", "q", 1), Own(m, "g", 0)}>>,
   <<Value("CALL"), {Remote("b", "g", 0)}>>,
   <<Local("apply", Given("b", "h", OneItem(V))), {Remote("b", "h", 1)}>>,
   <<Local("apply", Given("b", "h", V)), {}>>, <<Local("spawn", <<V>>), {}>>,
   <<Local("spawn", <<V>> \o Given("b", "g", ListTerm(<<>>, FALSE))), {Remote("b", "g", 0)}>>,
   <<Qualified("erlang", "spawn_opt", <<V>> \o Given("x", "q", ListTerm(<<V, V>>, FALSE)) \o <<V>>),
     {Remote("x", "q", 2)}>>,
   <<OfVariable("F", "h", <<V>>), {}>>, <<VariableOf("b", "F", <<V>>), {}>>,
   <<Ref("b", "h", 1), {Remote("b", "h", 1)}>>, <<Ref("x", "q", 3), {Remote("x", "q", 3)}>>}

Written(m) ==
  Plain(m) \cup {<<Qualified("x", "q", <<p[1]>>), p[2] \cup {Remote("x", "q", 1)}>> : p \in Plain(m)}
    \cup {<<Local("apply", Given("a", "f", OneItem(p[1]))), p[2] \cup {Remote("a", "f", 1)}>> : p \in Plain(m)}

(* What the reader takes for something else than the call it is: fun g/0, a     *)
(* guard of an if, a macro it cannot read as an atom, in a macro a call in the  *)
(* arguments of a call, a keyword, a call by a variable and an apply, and a     *)
(* list with a tail.                                                            *)
Misread ==
  {<<OwnRef("g", 0), {Own("a", "g", 0)}>>, <<Word("if", <<V>>), {}>>, <<ViaMacro("U", "g", <<>>), {}>>,
   <<Macro("DEEP", <<V>>), {Remote("b", "h", 1), Own("a", "g", 0)}>>, <<Macro("CASE", <<V>>), {}>>,
   <<Macro("OF", <<V>>), {}>>, <<Macro("ANY", <<>>), {}>>, <<Macro("RUN", <<V>>), {Remote("b", "h", 1)}>>,
   <<Local("apply", Given("b", "h", ListTerm(<<V>>, TRUE))), {}>>}

OfModule(m, exported) ==
  <<Attribute("module", m), Attribute("module", m), Attribute("export", exported), Attribute("include_lib", <<"b", "include", "m.hrl">>)>>

Program(q) ==
  <<Source(<<"deps", "a", "src", "a.erl">>,
           OfModule("a", q.exported \cup {H1}) \o
             <<Attribute("on_load", q.onload), Attribute("import", [module |-> "b", functions |-> {H1}]),
               Attribute("behaviour", "b")>>,
           <<Clause(F1, <<>>), Clause(G0, <<>>), Clause(F1, <<q.first[1]>>)>>),
    Header(<<"deps", "b", "include", "m.hrl">>, Macros),
    Source(<<"apps", "b", "src", "b.erl">>,
           OfModule("b", {H1}) \o <<Attribute("export", {G0}), Attribute("deprecated", {H1}), Attribute("callback", G0)>>,
           <<Clause(H1, <<q.second[1]>>), Clause(G0, <<>>)>>)>>

ProgramSeeds == [kind : {"program"}, first : Written("a") \cup Misread]

OnLoads == {Null, [form |-> "tuple", function |-> G0], [form |-> "slash", function |-> G0]}

ProgramQuestions(seed) ==
  {[kind |-> "xref", first |-> seed.first, second |-> b, exported |-> e, onload |-> o] :
     b \in Plain("b"), e \in {{}, {F1}, {F1, G0}}, o \in OnLoads}

Runs(q, way) ==
  {<<<<"a", "f", 1>>, r.mfa>> : r \in {x \in q.first[2] : x.to = way}}
    \cup {<<<<"b", "h", 1>>, r.mfa>> : r \in {x \in q.second[2] : x.to = way}}

(* The analyses of a program answer for what it runs: a call is undefined when *)
(* neither module has the function, an export is unused when no call by module *)
(* and name runs it, a local when no call of its own module does, nor loading; *)
(* callers are those it is reached from, and the cycle is found when there is  *)
(* one.  As a suite, which is read without its headers, the first refers to no *)
(* module it does not run or import from.  (What is misread has no part in this, nor an -on_load as Erlang has   *)
(* it: the reader takes {f, n}.)                                               *)
XrefAnswersHold(q) ==
  LET data == ReadTree(Program(q))
      remote == Runs(q, "external")
      own == Runs(q, "local")
      runs == remote \cup own
      defined == {<<"a", "f", 1>>, <<"a", "g", 0>>, <<"b", "h", 1>>, <<"b", "g", 0>>}
      isExport(f) == f[1] = "b" \/ SigOf(f) \in q.exported
      onload(f) == q.onload # Null /\ f = <<"a", "g", 0>>
      between(m, n) == \E e \in remote : e[1][1] = m /\ e[2][1] = n
      reaches == Paths(runs)
      suite == LoadSuiteModules(Program(q)[1])
  IN  q.first \notin Misread /\ (q.onload = Null \/ q.onload.form = "tuple") =>
        /\ UndefinedFunctionCalls(data, {}) = {e \in remote : e[2] \notin defined}
        /\ ExportsNotUsed(data) =
             {[mfa |-> f, callback |-> f[2] = "g", onload |-> onload(f)] :
                f \in {x \in defined : isExport(x) /\ \A e \in remote : e[2] # x}}
        /\ LocalsNotUsed(data) =
             {f \in defined : ~isExport(f) /\ ~onload(f) /\ \A e \in own : e[2] # f}
        /\ DeprecatedFunctionCalls(data) = {e \in remote : e[2] = <<"b", "h", 1>>}
        /\ \A f \in defined : /\ CalledBy(data, f, TRUE) = Preimage(reaches, {f})
                              /\ CallsFrom(data, f, FALSE) \cap defined = Image(runs, {f}) \cap defined
        /\ ModuleCycles(data) = IF between("a", "b") /\ between("b", "a") THEN {{"a", "b"}} ELSE {}
        /\ "b" \in ModuleCall(data, "a") <=> between("a", "b")
        /\ ModuleCalledBy(data, "x") = {m \in {"a", "b"} : between(m, "x")}
        /\ ImplementersOf(data, "b") = {"a"}
        /\ \A u \in UnresolvedCalls(data) : u[1] \in {<<"a", "f", 1>>, <<"b", "h", 1>>}
        /\ "b" \in suite /\ suite \ {"b"} \subseteq {e[2][1] : e \in remote}
        /\ SuitesReferencing(data, {"b"}, {"a"}) =
             IF between("a", "b") THEN {[application |-> "a", module |-> "a"]} ELSE {}
        /\ SuitesReferencingMfas(data, {<<"b", "h", 1>>}, {"a"}) =
             IF \E e \in remote : e[1][1] = "a" /\ e[2] = <<"b", "h", 1>> THEN {[application |-> "a", module |-> "a"]} ELSE {}
=============================================================================
