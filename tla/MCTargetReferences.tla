-------------------------- MODULE MCTargetReferences --------------------------
(***************************************************************************)
(* A module s that a patch touches, a module m that it calls, the headers   *)
(* of s, and a suite, on small target trees.  What holds after the patch is  *)
(* applied is read from the patched tree, in which the lines the patch adds  *)
(* stand beside those of the target.                                         *)
(***************************************************************************)
EXTENDS TargetReferences, TLC

File(dir, name, ext) == [dir |-> dir, name |-> name, ext |-> ext]
Src == <<"deps", "a", "src">>
Inc == <<"deps", "a", "include">>
SPath == File(Src, "s", "erl")
MPath == File(Src, "m", "erl")
Clash == File(<<"deps", "b", "src">>, "m", "erl")

Blank ==
  [compile |-> {}, exports |-> {}, macroInExports |-> FALSE, macroInTypes |-> FALSE, defs |-> {},
   specs |-> <<>>, imports |-> <<>>, macros |-> <<>>, declares |-> {}, expands |-> FALSE,
   includes |-> <<>>, behaviours |-> {}, callbacks |-> <<>>, optional |-> {}, qualified |-> {},
   marked |-> FALSE, words |-> {}]

In(target, source, added, new) ==
  [target |-> target, source |-> source, added |-> added, new |-> new,
   covered |-> {}, checkout |-> TRUE, globs |-> {}]

Listed(s) == FoldSet(LAMBDA x, seq : Append(seq, x), <<>>, s)

Plus(a, b) == [k \in DOMAIN a \cup DOMAIN b |-> IF k \in DOMAIN b THEN b[k] ELSE a[k]]

(* A text with the lines the patch adds to it. *)
Patched(in, p) ==
  LET t == TextOf(in.target, p)
      a == TextOf(in.added, p)
  IN  IF a = Null THEN t
      ELSE IF t = Null THEN a
      ELSE [t EXCEPT !.compile = @ \cup a.compile, !.exports = @ \cup a.exports,
                     !.macroInExports = @ \/ a.macroInExports, !.defs = @ \cup a.defs,
                     !.specs = Plus(@, a.specs), !.imports = Plus(@, a.imports),
                     !.macros = Plus(@, a.macros), !.declares = @ \cup a.declares,
                     !.includes = @ \o a.includes, !.words = @ \cup a.words]

F == <<"f", 1>>
G == <<"length", 2>>

Question(axis, in, what) == [kind |-> "reference", axis |-> axis, in |-> in, what |-> what]

-----------------------------------------------------------------------------
(* Calls of m:f/1 and of f/1, whoever defines, exports or imports it. *)
Compiles == {{}, {"export_all"}, {"parse_transform"}, {"export_all", "parse_transform"}}
Modules ==
  {Null} \cup
  {[Blank EXCEPT !.compile = c, !.exports = e, !.macroInExports = q, !.defs = d] :
     c \in Compiles, e \in {{}, {F}}, q \in BOOLEAN, d \in {{}, {F}}}

CallQuestions(m) ==
  {Question("qualified",
     [In(MPath :> m @@ (IF clash THEN Clash :> Blank ELSE <<>>), <<>>,
         IF a = Null THEN SPath :> Blank ELSE MPath :> a @@ SPath :> Blank, {})
        EXCEPT !.covered = c], F) :
     a \in Modules, clash \in BOOLEAN, c \in {{}, {"m"}}}
  \cup
  {Question("local",
     In(MPath :> m @@ SPath :> [Blank EXCEPT !.defs = d, !.imports = i, !.compile = c], <<>>,
        SPath :> [Blank EXCEPT !.defs = e, !.imports = j], {}), k) :
     d \in {{}, {F}}, i \in {<<>>, F :> "m"}, c \in {{}, {"parse_transform"}},
     e \in {{}, {F}}, j \in {<<>>, F :> "m"}, k \in {F, G}}

MayExport(t, k) ==
  \/ "parse_transform" \in t.compile \/ k \in t.exports
  \/ k \in t.defs /\ ("export_all" \in t.compile \/ t.macroInExports)
Hides(in, p) == LET t == Patched(in, p) IN t.compile # {} \/ t.macroInExports
Defined(t, k) == k \in t.defs

(* A qualified call is reported only if m will not export the function, and   *)
(* is reported if it will not, unless m is not to be asked or hides something. *)
QualifiedHolds(in, answer) ==
  LET after == Patched(in, MPath) IN
  /\ answer = "missing" => ~MayExport(after, F) /\ FirstParty(in, "m") # Null
  /\ /\ "m" \notin in.covered /\ Clash \notin DOMAIN in.target /\ TextOf(in.target, MPath) # Null
     /\ ~Hides(in, MPath) /\ F \notin after.exports
     => answer = (IF MPath \in DOMAIN in.added /\ F \in in.added[MPath].defs THEN "silent" ELSE "missing")

(* A call without a module is reported only if nothing will define it. *)
LocalHolds(in, key, answer) ==
  LET after == Patched(in, SPath)
      gone == /\ ~Defined(after, key) /\ key[1] \notin Bifs
              /\ "parse_transform" \notin after.compile
  IN  /\ answer = "missing" =>
           gone /\ (key \in DOMAIN after.imports => ~MayExport(Patched(in, MPath), key))
      /\ gone /\ key \notin DOMAIN after.imports => answer = "missing"
      /\ answer = "imported" => key \notin after.defs

-----------------------------------------------------------------------------
(* The return types of f/1 on either side, and in the lines of the patch. *)
Spec(text, returns) == [text |-> text, returns |-> returns]
Specs ==
  {<<>>} \cup {F :> s : s \in {Spec("int", {S!Builtin("integer")}), Spec(" int", {S!Builtin("integer")}),
                               Spec("atom", {S!Builtin("atom")}), Spec("T", S!Unknown)}}

ReturnQuestions(ts) ==
  {Question("returns",
     [In(MPath :> [Blank EXCEPT !.exports = {F}, !.specs = ts] @@
         SPath :> [Blank EXCEPT !.defs = {F}, !.specs = ts],
         IF s = Null THEN <<>>
         ELSE MPath :> [Blank EXCEPT !.specs = s] @@ SPath :> [Blank EXCEPT !.specs = s],
         SPath :> [Blank EXCEPT !.specs = a] @@ MPath :> [Blank EXCEPT !.specs = a], {})
        EXCEPT !.checkout = c], F) :
     s \in {Null} \cup Specs, a \in Specs, c \in BOOLEAN}

(* A drift is between what the patched target and the source really return, *)
(* and what is counted as compared was the same on both sides.               *)
ReturnsHold(in, p, answer) ==
  LET after == Patched(in, p).specs
      source == TextOf(in.source, p).specs
  IN  /\ answer = "drift" =>
           {s.returns : s \in {after[F], source[F]}} =
             {{S!Builtin("integer")}, {S!Builtin("atom")}}
      /\ answer = "compared" => after[F].returns = source[F].returns
      /\ answer = "silent" <=> F \in DOMAIN in.added[p].specs
      /\ answer = "no source" => ~in.checkout \/ in.source = <<>>

-----------------------------------------------------------------------------
(* Calls that carry f/1 of m, or of another, and what they carry. *)
AtomTerm(n) == [is |-> "atom", name |-> n]
Var == [is |-> "var"]
FunTerm(n) == [is |-> "fun", size |-> n]
IntTerm(n) == [is |-> "int", size |-> n]
ListTerm(items) == [is |-> "list", items |-> items]
Carried(m, f, args) == [module |-> m, function |-> f, args |-> args]

Expecting ==
  {<<<<AtomTerm("m"), AtomTerm("f"), FunTerm(1)>>, 1>>, <<<<AtomTerm("m"), AtomTerm("f"), FunTerm(2)>>, 2>>,
   <<<<AtomTerm("m"), AtomTerm("f"), IntTerm(1), Var>>, 1>>, <<<<AtomTerm("m"), AtomTerm("f"), Var>>, Null>>,
   <<<<Var, AtomTerm("f"), FunTerm(1)>>, Null>>, <<<<AtomTerm("m"), AtomTerm("f")>>, Null>>,
   <<<<AtomTerm("m"), AtomTerm("f"), ListTerm(<<Var>>), Var>>, Null>>}
Applying ==
  {<<<<AtomTerm("m"), AtomTerm("f"), ListTerm(<<Var>>)>>, 1>>, <<<<AtomTerm("m"), AtomTerm("f"), ListTerm(<<>>)>>, 0>>,
   <<<<AtomTerm("m"), AtomTerm("f"), Var>>, Null>>, <<<<Var, AtomTerm("f"), ListTerm(<<Var>>)>>, Null>>}
  \cup {<<<<AtomTerm("meck"), AtomTerm("expect"), ListTerm(e[1])>>, e[2]>> : e \in Expecting}
Wrapped(w, a) ==
  CASE w = "rpc" -> Carried("rpc", "call", <<Var>> \o a)
    [] w = "rpc timeout" -> Carried("erpc", "call", <<Var>> \o a \o <<Var>>)
    [] w = "misc" -> Carried("rabbit_misc", "rpc_call", <<AtomTerm("n")>> \o a)
    [] w = "ct" -> Carried("rabbit_ct_broker_helpers", "rpc", <<Var>> \o a)
    [] w = "ct node" -> Carried("rabbit_ct_broker_helpers", "rpc", <<Var, IntTerm(0)>> \o a)
    [] w = "ct all" -> Carried("rabbit_ct_broker_helpers", "rpc_all", <<Var>> \o a \o <<Var>>)
Carriers ==
  {<<Carried("meck", "expect", e[1]), e[2]>> : e \in Expecting}
  \cup {<<Wrapped(w, a[1]), a[2]>> : w \in {"rpc", "rpc timeout", "misc", "ct", "ct node", "ct all"}, a \in Applying}

XPath == File(<<"deps", "a", "test">>, "x", "ex")
Carrying == Listed(Carriers)
IndirectQuestions(m) ==
  {Question("indirect", In(MPath :> m, <<>>, p :> Blank @@ (IF a = Null THEN <<>> ELSE MPath :> a), {}),
            <<p, i>>) :
     p \in {SPath, XPath}, i \in DOMAIN Carrying, a \in {Null, [Blank EXCEPT !.defs = {F}]}}

HasFun(args) == \E i \in DOMAIN args : args[i].is = "fun"
HoldsFun(args) ==
  HasFun(args) \/ \E i \in DOMAIN args : args[i].is = "list" /\ HasFun(args[i].items)

(* A carried function is reported only if neither m nor the patch has it, but *)
(* for what a module with a transform exports without defining it; and every   *)
(* one is read, but for the arity of a fun in Elixir.                          *)
IndirectHolds(in, p, i, answer) ==
  LET call == Carrying[i][1]
      size == Carrying[i][2]
      key == <<"f", size>>
      m == TextOf(in.target, MPath)
      after == Patched(in, MPath)
  IN  /\ answer \in {"missing", "checked"} <=>
           size # Null /\ (p = XPath => ~HoldsFun(call.args)) /\ m # Null
      /\ answer = "missing" =>
           key \notin after.defs /\ (key \in after.exports => "parse_transform" \in m.compile)
      /\ answer = "checked" => key \in after.exports \cup after.defs

-----------------------------------------------------------------------------
(* Headers h and g: where they are, what they define and include. *)
Include(lib, dir, name) == [lib |-> lib, dir |-> dir, name |-> name]
ToH == Include(TRUE, <<"a", "include">>, "h")
ToG == Include(FALSE, <<>>, "g")
ToK == Include(FALSE, <<>>, "k")
ToStd == Include(TRUE, <<"stdlib">>, "std")
HPath == File(Inc, "h", "hrl")
GPath == File(Inc, "g", "hrl")
KPath == File(Inc, "k", "hrl")
U == <<"macro", "U">>
T == <<"type", "t">>

Header(defs, incs) == [Blank EXCEPT !.declares = defs, !.includes = incs]
Headers(p, incs) == {<<p :> Header(d, i), <<>>>> : d \in {{}, {U, T}}, i \in incs}
                    \cup {<<<<>>, p :> Header({U, T}, <<>>)>>, <<p :> Null, <<>>>>, <<<<>>, <<>>>>}

DefineQuestions(own) ==
  {Question("defines",
     In(SPath :> Header({}, own) @@ h[1] @@ g[1] @@ KPath :> Header(k, <<ToH>>), <<>>,
        SPath :> Header({}, a) @@ h[2] @@ g[2], DOMAIN h[2] \cup DOMAIN g[2]), what) :
     h \in Headers(HPath, {<<>>, <<ToG>>, <<ToG, ToK>>}), g \in Headers(GPath, {<<>>, <<ToH>>, <<ToK>>}),
     k \in {{}, {U, T}}, a \in {<<>>, <<ToH>>, <<ToStd, ToH>>}, what \in {U, T}}

ResolvedIn(in, p, inc) ==
  FirstIn(IncludeCandidates(p, inc), DOMAIN in.target \cup in.new)
IncludesOf(in, p) ==
  LET t == Patched(in, p) IN IF t = Null THEN {} ELSE {t.includes[i] : i \in DOMAIN t.includes}
RECURSIVE Reached(_, _)
Reached(in, ps) ==
  LET more == ps \cup ({ResolvedIn(in, x[1], x[2]) : x \in UNION {{p} \X IncludesOf(in, p) : p \in ps}} \ {Null})
  IN  IF more = ps THEN ps ELSE Reached(in, more)

(* A symbol is reported only if no header that the patched file reaches       *)
(* declares it; and if all of them are there to be read, and none too deep, it *)
(* is reported.  What a skipped header of Erlang's own may declare is a macro  *)
(* or a record, never a type of the module.                                    *)
DefinesHold(in, what, answer) ==
  LET reached == Reached(in, {SPath})
      declared == \E p \in reached : Patched(in, p) # Null /\ what \in Patched(in, p).declares
      open == \E p \in reached : Patched(in, p) = Null \/
                \E inc \in IncludesOf(in, p) : ResolvedIn(in, p, inc) = Null /\ (IsStdlib(inc) => what = U)
      deep == Cardinality(reached) > MaxIncludeDepth + 1
  IN  /\ answer = "missing" => ~declared /\ ~open
      /\ ~declared /\ ~open /\ ~deep => answer = "missing"

-----------------------------------------------------------------------------
(* Callbacks of a behaviour m on both sides. *)
Callbacks == {<<>>, F :> "one", F :> "two", G :> "one", F :> "one" @@ G :> "one"}
BehaviourQuestions(t) ==
  {Question("behaviour",
     [In(MPath :> [Blank EXCEPT !.callbacks = t, !.optional = o], MPath :> [Blank EXCEPT !.callbacks = s],
         SPath :> [Blank EXCEPT !.behaviours = {"m"}], {}) EXCEPT !.checkout = c], "m") :
     s \in Callbacks, o \in {{}, {F}, {G}}, c \in BOOLEAN}

(* A module that implements what the source declares satisfies the target, or *)
(* what it fails is reported, and only that.                                   *)
BehaviourHolds(in, answer) ==
  LET t == in.target[MPath]
      s == in.source[MPath]
      Satisfied(k) == IF k \in DOMAIN s.callbacks THEN s.callbacks[k] = t.callbacks[k] ELSE k \in t.optional
  IN  in.checkout => {a[1] : a \in answer} = {k \in DOMAIN t.callbacks : ~Satisfied(k)}

-----------------------------------------------------------------------------
(* A suite that the patch creates, which calls the helper m. *)
SuitePath == File(<<"deps", "a", "test">>, "s", "_SUITE.erl")
Places == {File(d, "m", "erl") : d \in {<<"deps", "a", "test">>, <<"deps", "b", "test">>, <<"test">>, <<"deps", "a", "src">>}}
GlobSets == SUBSET {<<"deps", "*", "test">>, <<"test">>, <<"deps", "part*", "test">>, <<"*", "*", "test">>}
MakefileOf == Makefile(SuitePath)
Schema == <<"b", "key">>

SuiteQuestions(places) ==
  {Question("suite",
     [In([p \in places |-> [Blank EXCEPT !.words = w]] @@ MakefileOf :> [Blank EXCEPT !.marked = x, !.words = y], <<>>,
         SuitePath :> [Blank EXCEPT !.qualified = {<<"m", F>>, <<"ct", F>>}, !.behaviours = {"m", "gen_server"}]
           @@ MakefileOf :> [Blank EXCEPT !.words = z],
         {SuitePath}) EXCEPT !.globs = gs], "m") :
     gs \in GlobSets, w \in {{}, {"key"}}, x \in BOOLEAN, y \in {{}, {"s"}}, z \in {{}, {"s"}}}

Star(glob) == Cardinality({i \in DOMAIN glob : glob[i] = "*"}) = 1

(* A helper is missing exactly when no file of its name stands where a search *)
(* path leads, however many files of that name there are; a suite, when the    *)
(* Makefile as patched registers suites but not this one.                      *)
SuiteHolds(in) ==
  LET found == \E p \in DOMAIN in.target \ {MakefileOf}, glob \in in.globs :
                 /\ "part*" \notin {glob[i] : i \in DOMAIN glob} /\ glob # <<"*", "*", "test">>
                 /\ Len(p.dir) = Len(glob)
                 /\ \A i \in DOMAIN glob : p.dir[i] = glob[i] \/ glob[i] = "*"
      created == AnswerCreated(in, SuitePath)
      make == Patched(in, MakefileOf)
  IN  /\ created.helpers = created.behaviours
      /\ created.helpers = IF found THEN {} ELSE {"m"}
      /\ AnswerSuite(in, SuitePath) = IF make.marked /\ "s" \notin make.words THEN "unregistered" ELSE "silent"
      /\ AnswerMapping(in, "a", "key") =
           IF \E p \in DOMAIN in.target : p.dir = Src /\ "key" \in in.target[p].words THEN "silent" ELSE "unread"

-----------------------------------------------------------------------------
(* The values of macros of s, on either side and in the lines of the patch. *)
Values == {<<>>, "V" :> <<"one">>, "V" :> <<"two">>, "V" :> <<"one", "two">>}
MacroQuestions(t) ==
  {Question("macro",
     [In(SPath :> [Blank EXCEPT !.macros = t], SPath :> [Blank EXCEPT !.macros = s],
         SPath :> [Blank EXCEPT !.macros = a], {}) EXCEPT !.checkout = c], "V") :
     s \in Values, a \in Values, c \in BOOLEAN}

(* A macro drifts only if the patched target has one value of it that is not  *)
(* the one value of the source.                                                *)
MacroHolds(in, answer) ==
  LET after == Patched(in, SPath).macros
      source == in.source[SPath].macros
      single(m) == "V" \in DOMAIN m /\ Len(m["V"]) = 1
  IN  (answer = "drift") =
        (in.checkout /\ DOMAIN in.added[SPath].macros = {} /\ single(after) /\ single(source) /\ after # source)

-----------------------------------------------------------------------------
Seed(axis, part) == [kind |-> "reference seed", axis |-> axis, part |-> part]
Own == <<<<>>, <<ToH>>, <<ToStd>>, <<ToH, Include(FALSE, <<"x">>, "g")>>>>
TreeSeq == Listed(Modules)
SpecSeq == Listed(Specs)
CallbackSeq == Listed(Callbacks)
PlaceSeq == Listed(SUBSET Places)
ValueSeq == Listed(Values)

TargetSeeds ==
  {Seed("calls", i) : i \in DOMAIN TreeSeq} \cup {Seed("indirect", i) : i \in DOMAIN TreeSeq}
  \cup {Seed("returns", i) : i \in DOMAIN SpecSeq} \cup {Seed("defines", i) : i \in DOMAIN Own}
  \cup {Seed("behaviour", i) : i \in DOMAIN CallbackSeq} \cup {Seed("suite", i) : i \in DOMAIN PlaceSeq}
  \cup {Seed("macro", i) : i \in DOMAIN ValueSeq}

TargetQuestions(seed) ==
  CASE seed.axis = "calls" -> CallQuestions(TreeSeq[seed.part])
    [] seed.axis = "indirect" -> IndirectQuestions(TreeSeq[seed.part])
    [] seed.axis = "returns" -> ReturnQuestions(SpecSeq[seed.part])
    [] seed.axis = "defines" -> DefineQuestions(Own[seed.part])
    [] seed.axis = "behaviour" -> BehaviourQuestions(CallbackSeq[seed.part])
    [] seed.axis = "suite" -> SuiteQuestions(PlaceSeq[seed.part])
    [] seed.axis = "macro" -> MacroQuestions(ValueSeq[seed.part])

(* What is reported missing is missing once the patch is applied, and what is *)
(* missing and can be known to be is reported.                                 *)
TargetAnswersHold(q) ==
  CASE q.axis = "qualified" -> QualifiedHolds(q.in, AnswerQualified(q.in, "m", q.what))
    [] q.axis = "local" -> LocalHolds(q.in, q.what, AnswerLocal(q.in, SPath, q.what))
    [] q.axis = "returns" ->
         /\ ReturnsHold(q.in, MPath, AnswerQualified(q.in, "m", q.what))
         /\ ReturnsHold(q.in, SPath, AnswerLocal(q.in, SPath, q.what))
    [] q.axis = "indirect" ->
         IndirectHolds(q.in, q.what[1], q.what[2], AnswerIndirect(q.in, q.what[1], Carrying[q.what[2]][1]))
    [] q.axis = "defines" ->
         DefinesHold(q.in, q.what, IF q.what = U THEN AnswerUse(q.in, SPath, U)
                                   ELSE AnswerExportedType(q.in, SPath, T))
    [] q.axis = "behaviour" -> BehaviourHolds(q.in, AnswerBehaviour(q.in, "m"))
    [] q.axis = "suite" -> SuiteHolds(q.in)
    [] q.axis = "macro" -> MacroHolds(q.in, AnswerMacroValue(q.in, SPath, "V"))
=============================================================================
