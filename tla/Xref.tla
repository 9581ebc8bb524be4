------------------------------- MODULE Xref ---------------------------------
(***************************************************************************)
(* backhopper-xref-reader, backhopper-xref-graph and backhopper-xref: what *)
(* is recorded of a source, as its calls are written; the call graph of the*)
(* modules that were read and its transitive closure by strongly connected *)
(* components; and the analyses `backhopper xref` and `backhopper suites`  *)
(* print.                                                                  *)
(*                                                                         *)
(* A call is a record of its form, what it names and its arguments, which  *)
(* are calls or plain terms; text is abstracted to that.  Of a word that is*)
(* no call, such as a keyword before a parenthesis, the scan goes on with  *)
(* its second letter: Rest[word] is the name read there.                   *)
(***************************************************************************)
EXTENDS Naturals, FiniteSets, SequencesExt

CONSTANTS
  Null,         \* no value
  Rest,         \* of a keyword or a variable: the name that is left of it, or Null
  MaxNesting    \* calls are nested at most so deep (a bound of the model)

Term(form) == [form |-> form, args |-> <<>>]
AtomTerm(a) == [form |-> "atom", name |-> a, args |-> <<>>]
ListTerm(items, open) == [form |-> "list", open |-> open, args |-> items]

(* f(..), fun(..) or Var(..), m:f(..), ?MODULE:f(..), ?X:f(..), ?X(..), ?X, Var:f(..), m:Var(..) *)
Local(f, args) == [form |-> "local", name |-> f, args |-> args]
Word(w, args) == [form |-> "word", name |-> w, args |-> args]
Qualified(m, f, args) == [form |-> "qualified", module |-> m, name |-> f, args |-> args]
Self(f, args) == [form |-> "self", name |-> f, args |-> args]
ViaMacro(x, f, args) == [form |-> "via macro", macro |-> x, name |-> f, args |-> args]
Macro(x, args) == [form |-> "macro", macro |-> x, args |-> args]
Value(x) == [form |-> "value", macro |-> x, args |-> <<>>]
OfVariable(v, f, args) == [form |-> "of variable", variable |-> v, name |-> f, args |-> args]
VariableOf(m, v, args) == [form |-> "variable of", module |-> m, variable |-> v, args |-> args]

(* fun m:f/n, and fun f/n *)
Ref(m, f, n) == [form |-> "ref", module |-> m, name |-> f, arity |-> n, args |-> <<>>]
OwnRef(f, n) == [form |-> "own ref", name |-> f, arity |-> n, args |-> <<>>]

-----------------------------------------------------------------------------
External(m, f, n) == [to |-> "external", mfa |-> <<m, f, n>>]
InModule(m, f, n) == [to |-> "local", mfa |-> <<m, f, n>>]
Unresolved(m, f, n) == [to |-> "unresolved", module |-> m, name |-> f, arity |-> n]

(* A name that is imported is a call of the module it is imported from: Erlang *)
(* allows one.  src is a module as it is read: name, imports and macros.       *)
LocalCall(src, f, n) ==
  LET from == {m \in DOMAIN src.imports : <<f, n>> \in src.imports[m]}
  IN  IF from = {} THEN {InModule(src.name, f, n)} ELSE {External(CHOOSE m \in from : TRUE, f, n)}

Spawns == {"spawn", "spawn_link", "spawn_monitor"}
ApplyFamily == Spawns \cup {"apply", "spawn_opt", "hibernate"}

(* Where the module, the function and the list of arguments are given. *)
ModuleArgument(f, count) ==
  CASE f \in Spawns \cup {"apply", "hibernate"} /\ count = 3 -> 1
    [] f \in Spawns /\ count = 4 -> 2
    [] f = "spawn_opt" /\ count \in {4, 5} -> count - 3
    [] OTHER -> Null

(* What an argument is taken for; a list with a tail has the length of its head. *)
AtomOf(t) == IF t.form = "atom" THEN t.name ELSE Null
LengthOf(t) == IF t.form = "list" THEN Len(t.args) ELSE Null

(* Of a module and a function whose arguments are unknown the arity is taken for 0. *)
Applied(f, args) ==
  LET at == ModuleArgument(f, Len(args))
      m == AtomOf(args[at])
      g == AtomOf(args[at + 1])
      n == LengthOf(args[at + 2])
  IN  IF at = Null THEN {Unresolved(Null, Null, Null)}
      ELSE IF Null \notin {m, g, n} THEN {External(m, g, n)}
      ELSE {Unresolved(m, g, IF n = Null /\ Null \notin {m, g} THEN 0 ELSE n)}

NamedCall(src, f, args) ==
  IF f \in ApplyFamily THEN Applied(f, args) ELSE LocalCall(src, f, Len(args))

(* The name that is read of a word, if a rest of it is one. *)
Remainder(w) == {Rest[w]} \ {Null}

(* The calls of a sequence and those in the arguments of calls that are not *)
(* found whole.                                                             *)
Nested(calls, whole) ==
  LET level[d \in 0..MaxNesting] ==
        IF d = 0 THEN ToSet(calls) ELSE UNION {ToSet(c.args) : c \in level[d - 1] \ whole}
  IN  UNION {level[d] : d \in 0..MaxNesting}

(* The text of a macro is read where it is used, with less care: the apply     *)
(* family is not looked into, nor the arguments of what was found; of ?X:f(..) *)
(* and Var:f(..) only the letters in lower case are left.                      *)
CallInBody(src, c) ==
  LET n == Len(c.args)
      named(f) == LocalCall(src, f, n)
      rest(w) == UNION {named(f) : f \in Remainder(w)}
  IN  CASE c.form \in {"local", "self", "via macro"} -> named(c.name)
        [] c.form = "word" -> rest(c.name)
        [] c.form = "qualified" -> {External(c.module, c.name, n)}
        [] c.form = "of variable" -> IF Rest[c.variable] = Null THEN named(c.name)
                                     ELSE {External(Rest[c.variable], c.name, n)}
        [] c.form = "variable of" -> rest(c.variable)
        [] OTHER -> {}

InBody(src, body) ==
  LET found == {c \in Nested(body, {}) : CallInBody(src, c) # {}}
  IN  UNION {CallInBody(src, c) : c \in Nested(body, found)}

(* A macro by its name and, for one with parameters, their number. *)
MacroBody(src, x, n) ==
  IF <<x, n>> \in DOMAIN src.macros THEN src.macros[<<x, n>>] ELSE <<>>

IsAtom(body) == Len(body) = 1 /\ body[1].form = "atom"
IsName(body) == Len(body) = 1 /\ body[1].form = "name"

(* ?X(..): the macro of that many parameters, or the function that ?X names, *)
(* or ?X with something in parentheses behind it.                             *)
MacroUse(src, c) ==
  LET n == Len(c.args)
      value == MacroBody(src, c.macro, Null)
  IN  IF <<c.macro, n>> \in DOMAIN src.macros THEN InBody(src, MacroBody(src, c.macro, n))
      ELSE IF IsName(value) THEN {External(value[1].module, value[1].name, n)}
      ELSE InBody(src, value)

(* Of a macro that is no atom, the name after the colon is read on its own. *)
ThroughMacro(src, c) ==
  LET value == MacroBody(src, c.macro, Null)
  IN  IF IsAtom(value) THEN {External(value[1].name, c.name, Len(c.args))}
      ELSE InBody(src, value) \cup NamedCall(src, c.name, c.args)

ReadCall(src, c) ==
  LET n == Len(c.args)
      named(f) == NamedCall(src, f, c.args)
  IN  CASE c.form = "local" -> named(c.name)
        [] c.form = "word" -> UNION {named(f) : f \in Remainder(c.name)}
        [] c.form = "qualified" -> IF c.module = "erlang" /\ c.name \in ApplyFamily
                                   THEN Applied(c.name, c.args) ELSE {External(c.module, c.name, n)}
        [] c.form = "self" -> {External(src.name, c.name, n)}
        [] c.form = "via macro" -> ThroughMacro(src, c)
        [] c.form = "macro" -> MacroUse(src, c)
        [] c.form = "value" -> InBody(src, MacroBody(src, c.macro, Null))
        [] c.form = "of variable" -> {Unresolved(Null, c.name, n)}
        [] c.form = "variable of" -> {Unresolved(c.module, Null, n)}
        [] c.form = "ref" -> {External(c.module, c.name, c.arity)}
        [] OTHER -> {}

(* Of every form the arguments are read as well. *)
ReadCalls(src, calls) == UNION {ReadCall(src, c) : c \in Nested(calls, {})}

-----------------------------------------------------------------------------
(* Sources.  A file has its path, the names along it; its kind, "erl", "hrl"   *)
(* or another; and its text: "empty", "not text", or "text" with attributes    *)
(* and, in a source, the clauses of its functions, each in their order.  An    *)
(* attribute is its name and its value, Null where that cannot be read.        *)

Stated(attributes, names) ==
  LET said == SelectSeq(attributes, LAMBDA a : a.name \in names /\ a.value # Null)
  IN  [i \in DOMAIN said |-> said[i].value]
AllStated(file, name) == UNION ToSet(Stated(file.attributes, {name}))

(* The first -module counts; another name is only warned of. *)
ModuleNames(file) == Stated(file.attributes, {"module"})
NameOf(file) == IF ModuleNames(file) = <<>> THEN Null ELSE ModuleNames(file)[1]

Imports(file) ==
  LET said == ToSet(Stated(file.attributes, {"import"}))
  IN  [m \in {x.module : x \in said} |-> UNION {x.functions : x \in {y \in said : y.module = m}}]

(* Of an -on_load attribute only the form {f, n} is read, which is no Erlang. *)
OnLoad(file) ==
  LET read == SelectSeq(Stated(file.attributes, {"on_load"}), LAMBDA o : o.form = "tuple")
  IN  IF read = <<>> THEN Null ELSE Last(read).function

(* A macro that is defined again is the last of its definitions. *)
Defines(file) ==
  LET said == Stated(file.attributes, {"define"})
      last(k) == CHOOSE i \in DOMAIN said : said[i].key = k /\ \A j \in DOMAIN said : said[j].key = k => j <= i
  IN  [k \in {d.key : d \in ToSet(said)} |-> said[last(k)].body]

Includes(file) == Stated(file.attributes, {"include", "include_lib"})

-----------------------------------------------------------------------------
(* Headers, by their path; by application, the directory include and what is  *)
(* below it; and by their last name, of which the first file counts.          *)

Headers(files) == SelectSeq(files, LAMBDA f : f.kind = "hrl" /\ f.text # "not text")

LibraryKey(path) ==
  LET at == {i \in DOMAIN path : path[i] = "include"}
      first == CHOOSE i \in at : \A j \in at : i <= j
  IN  IF at = {} \/ 1 \in at THEN Null ELSE SubSeq(path, first - 1, Len(path))

FirstRead(found) == IF found = <<>> THEN Null ELSE found[1]
LastRead(found) == IF found = <<>> THEN Null ELSE Last(found)

AtPath(files, path) == LastRead(SelectSeq(Headers(files), LAMBDA h : h.path = path))
OfLibrary(files, raw) == LastRead(SelectSeq(Headers(files), LAMBDA h : LibraryKey(h.path) = raw))
OfBasename(files, raw) == FirstRead(SelectSeq(Headers(files), LAMBDA h : Last(h.path) = Last(raw)))

(* The first that is found of several. *)
FirstOf(candidates) ==
  LET found == SelectSeq(candidates, LAMBDA h : h # Null) IN IF found = <<>> THEN Null ELSE found[1]

(* As it is named from the directory of the source, whatever includes it; a   *)
(* name with a directory include inside it is looked up as a library's first. *)
Beside(files, directory, raw) ==
  <<AtPath(files, directory \o raw), AtPath(files, raw), OfBasename(files, raw)>>
ResolveInclude(files, directory, raw) ==
  LET isLibrary == \E i \in 2..(Len(raw) - 1) : raw[i] = "include"
  IN  FirstOf((IF isLibrary THEN <<OfLibrary(files, raw), OfBasename(files, raw)>> ELSE <<>>)
                \o Beside(files, directory, raw))

(* The reader takes what is pending, then what that includes, and so on; a     *)
(* header counts once.  What is folded later defines a macro again.            *)
FoldHeader(w, raw, h) ==
  IF h = Null THEN [w EXCEPT !.unresolved = Append(@, raw)]
  ELSE IF h.path \in w.seen THEN w
  ELSE [w EXCEPT !.seen = @ \cup {h.path}, !.macros = Defines(h) @@ @, !.pending = @ \o Includes(h)]

StartWalk(file) ==
  [macros |-> Defines(file), pending |-> Includes(file), seen |-> {}, unresolved |-> <<>>]

(* In each round but the last a header is folded. *)
ResolveIncludes(files, file) ==
  LET take(w, raw) == FoldHeader(w, raw, ResolveInclude(files, Front(file.path), raw))
      rounds[n \in 0..(Len(Headers(files)) + 1)] ==
        LET w == rounds[n - 1]
        IN  IF n = 0 THEN StartWalk(file) ELSE FoldLeft(take, [w EXCEPT !.pending = <<>>], w.pending)
  IN  rounds[Len(Headers(files)) + 1]

(* The analyses of a patch take the last that is pending, and of a library's   *)
(* header look beside the source first.                                        *)
ResolveHeader(files, directory, raw) ==
  FirstOf(<<AtPath(files, directory \o raw), AtPath(files, raw), OfLibrary(files, raw), OfBasename(files, raw)>>)

BuildMacroTable(files, file) ==
  LET named == Len(Includes(file)) + FoldLeft(LAMBDA n, h : n + Len(Includes(h)), 0, Headers(files))
      next(w) == LET raw == Last(w.pending)
                 IN  FoldHeader([w EXCEPT !.pending = Front(@)], raw, ResolveHeader(files, Front(file.path), raw))
      taken[n \in 0..named] ==
        LET w == taken[n - 1]
        IN  IF n = 0 THEN StartWalk(file) ELSE IF w.pending = <<>> THEN w ELSE next(w)
  IN  taken[named].macros

-----------------------------------------------------------------------------
(* The application of a file is the name behind deps or apps, the first there *)
(* is of each; when they differ, none.                                         *)
Layout == {"deps", "apps"}

UnderPrefix(prefix, path) ==
  LET at == {i \in 1..(Len(path) - 1) : path[i] = prefix}
  IN  IF at = {} THEN {} ELSE {path[(CHOOSE i \in at : \A j \in at : i <= j) + 1]}

ApplicationOf(path) ==
  LET candidates == UNION {UnderPrefix(p, path) : p \in Layout}
  IN  IF Cardinality(candidates) = 1 THEN CHOOSE a \in candidates : TRUE ELSE Null

Definitions(file) == {c.function : c \in ToSet(file.clauses)}

(* Of -export what the module defines. *)
Exports(file) == AllStated(file, "export") \cap Definitions(file)

(* What is read of a source, its calls once the macros of its headers are known. *)
ModuleData(files, file) ==
  LET src == [name |-> NameOf(file), imports |-> Imports(file), macros |-> ResolveIncludes(files, file).macros]
      of(f) == {c \in ToSet(file.clauses) : c.function = f}
  IN  [application |-> ApplicationOf(file.path), exports |-> Exports(file), locals |-> Definitions(file) \ Exports(file),
       onload |-> OnLoad(file), deprecated |-> AllStated(file, "deprecated"),
       behaviours |-> ToSet(Stated(file.attributes, {"behaviour"})),
       callbacks |-> ToSet(Stated(file.attributes, {"callback"})) \cup AllStated(file, "optional_callbacks"),
       calls |-> [f \in Definitions(file) |-> UNION {ReadCalls(src, c.calls) : c \in of(f)}]]

(* A tree is not read when a source in it is no text; a source without a name  *)
(* is left out, and of two of one name the later is kept.                       *)
IsReadable(files) == \A f \in ToSet(files) : f.kind = "erl" => f.text # "not text"

ReadTree(files) ==
  LET named == SelectSeq(files, LAMBDA f : f.kind = "erl" /\ f.text = "text" /\ NameOf(f) # Null)
      last(m) == CHOOSE i \in DOMAIN named : /\ NameOf(named[i]) = m
                                             /\ \A j \in DOMAIN named : NameOf(named[j]) = m => j <= i
  IN  [m \in {NameOf(f) : f \in ToSet(named)} |-> ModuleData(files, named[last(m)])]

(* The modules a suite refers to, read on its own: no header is looked up.  Of *)
(* a suite that is no module nothing is known, and its text is searched.       *)
CollectReferencedModules(file) ==
  LET calls == UNION {ReadCalls([name |-> NameOf(file), imports |-> Imports(file), macros |-> Defines(file)], c.calls)
                      : c \in ToSet(file.clauses)}
      partials == {c.module : c \in {x \in calls : x.to = "unresolved"}} \ {Null}
  IN  {c.mfa[1] : c \in {x \in calls : x.to = "external"}} \cup partials \cup DOMAIN Imports(file)

LoadSuiteModules(file) ==
  IF file.text = "text" /\ NameOf(file) # Null THEN CollectReferencedModules(file) ELSE Null

-----------------------------------------------------------------------------
(* The graph.  data is a function from module names to what was read of them. *)

MfaOf(m, f) == <<m, f[1], f[2]>>
SigOf(mfa) == <<mfa[2], mfa[3]>>

CallEdges(data, to) ==
  UNION {UNION {{<<MfaOf(m, f), c.mfa>> : c \in {x \in data[m].calls[f] : x.to = to}}
                : f \in DOMAIN data[m].calls} : m \in DOMAIN data}

LocalCalls(data) == CallEdges(data, "local")
ExternalCalls(data) == CallEdges(data, "external")
AllCalls(data) == LocalCalls(data) \cup ExternalCalls(data)

ModuleEdges(data) == {e \in {<<c[1][1], c[2][1]>> : c \in ExternalCalls(data)} : e[1] # e[2]}
BehaviourEdges(data) == UNION {{m} \X data[m].behaviours : m \in DOMAIN data}

Image(r, s) == {e[2] : e \in {x \in r : x[1] \in s}}
Preimage(r, s) == {e[1] : e \in {x \in r : x[2] \in s}}

-----------------------------------------------------------------------------
(* Tarjan's algorithm with its own stack of work: a frame is a vertex and the *)
(* number of its neighbours that were looked at.  Vertices are 1..n, in the   *)
(* order of their names, and neighbours come in that order.                   *)
(* The vertices of a set in their order: before the i-th there are i - 1. *)
Sorted(vs) == [i \in 1..Cardinality(vs) |-> CHOOSE v \in vs : Cardinality({w \in vs : w < v}) = i - 1]

Neighbours(n, r) == [v \in 1..n |-> Sorted(Image(r, {v}))]

Start(n) ==
  [index |-> [v \in 1..n |-> 0], low |-> [v \in 1..n |-> 0], next |-> 1,
   stack |-> <<>>, work |-> <<>>, components |-> <<>>]

Frame(v) == [v |-> v, at |-> 0]

Opened(t, v) ==
  [t EXCEPT !.index[v] = t.next, !.low[v] = t.next, !.next = t.next + 1, !.stack = Append(@, v)]

(* The neighbours that were found already tell what v is linked to, up to the *)
(* first that was not, for which v waits.                                      *)
LookedAt(t, v, ns, at) ==
  LET new == {i \in at..Len(ns) : t.index[ns[i]] = 0}
      stop == IF new = {} THEN Len(ns) + 1 ELSE Min(new)
      links == {t.index[ns[i]] : i \in {j \in at..(stop - 1) : Contains(t.stack, ns[j])}}
      linked == [t EXCEPT !.low[v] = Min({@} \cup links)]
  IN  [waits |-> new # {},
       t |-> IF new = {} THEN linked
             ELSE [linked EXCEPT !.work = Front(@) \o <<[v |-> v, at |-> stop], Frame(ns[stop])>>]]

Closed(t, v) ==
  LET at == CHOOSE i \in DOMAIN t.stack : t.stack[i] = v
      popped == IF t.low[v] # t.index[v] THEN t
                ELSE [t EXCEPT !.components = Append(@, ToSet(SubSeq(t.stack, at, Len(t.stack)))),
                               !.stack = SubSeq(@, 1, at - 1)]
      work == Front(t.work)
      low == IF work = <<>> THEN t.low
             ELSE [t.low EXCEPT ![Last(work).v] = Min({@, t.low[v]})]
  IN  [popped EXCEPT !.work = work, !.low = low]

Advanced(t, ns) ==
  LET frame == Last(t.work)
      opened == IF frame.at = 0 THEN Opened(t, frame.v) ELSE t
      looked == LookedAt(opened, frame.v, ns[frame.v], frame.at + 1)
  IN  IF looked.waits THEN looked.t ELSE Closed(looked.t, frame.v)

(* A vertex is begun with, waited for or closed once each. *)
Components(n, ns) ==
  LET new(t) == {v \in 1..n : t.index[v] = 0}
      step[k \in 0..(3 * n)] ==
        LET t == step[k - 1] IN
        IF k = 0 THEN Start(n)
        ELSE IF t.work # <<>> THEN Advanced(t, ns)
        ELSE IF new(t) # {} THEN [t EXCEPT !.work = <<Frame(Min(new(t)))>>]
        ELSE t
  IN  step[3 * n].components

(* Whether the vertices of a component reach themselves. *)
Cyclic(r, c) == Cardinality(c) > 1 \/ \E v \in c : <<v, v>> \in r

(* What the vertices of each component reach outside it.  The components are  *)
(* sorted once more, those first that are reached; cs has them in such an      *)
(* order already.                                                              *)
Beyond(cs, r) ==
  LET beyond[k \in 0..Len(cs)] ==
        LET out == Image(r, cs[k]) \ cs[k]
            reached == {j \in 1..(k - 1) : cs[j] \cap out # {}}
            before == beyond[k - 1]
        IN  IF k = 0 THEN <<>> ELSE Append(before, out \cup UNION {cs[j] \cup before[j] : j \in reached})
  IN  beyond[Len(cs)]

Closure(n, r) ==
  LET cs == Components(n, Neighbours(n, r))
      beyond == Beyond(cs, r)
  IN  UNION {cs[k] \X (beyond[k] \cup IF Cyclic(r, cs[k]) THEN cs[k] ELSE {}) : k \in DOMAIN cs}

(* The vertices of a relation by their rank, and back. *)
ClosureOf(r) ==
  LET names == SetToSeq({e[1] : e \in r} \cup {e[2] : e \in r})
      rank == [v \in ToSet(names) |-> CHOOSE i \in DOMAIN names : names[i] = v]
  IN  {<<names[e[1]], names[e[2]]>> : e \in Closure(Len(names), {<<rank[e[1]], rank[e[2]]>> : e \in r})}

-----------------------------------------------------------------------------
(* As DefinedFunctions, of what other modules can call (a mutant). *)
ExportedFunctions(data) == UNION {{MfaOf(m, f) : f \in data[m].exports} : m \in DOMAIN data}

DefinedFunctions(data) ==
  UNION {{MfaOf(m, f) : f \in data[m].exports \cup data[m].locals} : m \in DOMAIN data}

UndefinedFunctionCalls(data, builtins) ==
  {c \in ExternalCalls(data) : c[2] \notin DefinedFunctions(data) \cup builtins}

SatisfiesAnyCallback(data, m, f) ==
  \/ f \in data[m].callbacks
  \/ \E b \in data[m].behaviours \cap DOMAIN data : f \in data[b].callbacks

ExportsNotUsed(data) ==
  UNION {{[mfa |-> MfaOf(m, f), callback |-> SatisfiesAnyCallback(data, m, f),
           onload |-> f = data[m].onload]
          : f \in {x \in data[m].exports : MfaOf(m, x) \notin {c[2] : c \in ExternalCalls(data)}}}
         : m \in DOMAIN data}

LocalsNotUsed(data) ==
  UNION {{MfaOf(m, f) : f \in {x \in data[m].locals : /\ x # data[m].onload
                                                      /\ MfaOf(m, x) \notin {c[2] : c \in LocalCalls(data)}}}
         : m \in DOMAIN data}

DeprecatedFunctionCalls(data) ==
  {c \in ExternalCalls(data) : c[2][1] \in DOMAIN data /\ SigOf(c[2]) \in data[c[2][1]].deprecated}

CalledBy(data, target, transitive) ==
  Preimage(IF transitive THEN ClosureOf(AllCalls(data)) ELSE AllCalls(data), {target})

CallsFrom(data, source, transitive) ==
  Image(IF transitive THEN ClosureOf(AllCalls(data)) ELSE AllCalls(data), {source})

UnresolvedCalls(data) ==
  UNION {UNION {{<<MfaOf(m, f), c>> : c \in {x \in data[m].calls[f] : x.to = "unresolved"}}
                : f \in DOMAIN data[m].calls} : m \in DOMAIN data}

ModuleCalledBy(data, target) == Preimage(ModuleEdges(data), {target})
ModuleCall(data, source) == Image(ModuleEdges(data), {source})
ImplementersOf(data, b) == Preimage(BehaviourEdges(data), {b})

(* Groups of modules that reach one another. *)
ModuleCycles(data) ==
  LET closure == ClosureOf(ModuleEdges(data))
      beside(m) == {x \in Image(closure, {m}) : x # m /\ <<x, m>> \in closure}
  IN  {g \in {beside(m) \cup {m} : m \in {e[1] : e \in closure}} : Cardinality(g) > 1}

SuiteRefs(data, modules) == {[application |-> data[m].application, module |-> m] : m \in modules}

SuitesReferencing(data, modules, suites) ==
  SuiteRefs(data, Preimage(ModuleEdges(data), modules) \cap suites)

SuitesReferencingMfas(data, targets, suites) ==
  SuiteRefs(data, {f[1] : f \in Preimage(ExternalCalls(data), targets)} \cap suites)
=============================================================================
