--------------------------- MODULE TargetReferences ---------------------------
(***************************************************************************)
(* The references that a patch adds, resolved against the tree it is to be  *)
(* applied to.  The input is a record of that tree and of the checkout the  *)
(* patch comes from (functions from paths to texts, Null for what cannot be *)
(* read), the lines the patch adds to each file it touches, the files that  *)
(* it creates, the modules that a snapshot covers, and the search paths of  *)
(* the configured projects.  A text is the record of what its attributes    *)
(* and its clauses say; the answer to a reference is what is reported, or   *)
(* counted as not compared, or "silent".                                    *)
(***************************************************************************)
EXTENDS Naturals, FiniteSets, SequencesExt

CONSTANTS
  Null,
  MaxIncludeDepth   \* MAX_INCLUDE_DEPTH: headers are followed this deep

S == INSTANCE Shapes

(* Of the lists of what Erlang itself provides, one name stands for each. *)
Bifs == {"length"}
Predefined == {<<"macro", "MODULE">>}
OtpApps == {"stdlib"}
OtpModules == {"gen_server", "ct"}

TextOf(tree, p) == IF p \in DOMAIN tree THEN tree[p] ELSE Null

-----------------------------------------------------------------------------
(* A path ends in a file: its name, and what tells its kind. *)
IsErl(p) == p.ext \in {"erl", "_SUITE.erl"}
IsSource(p) == IsErl(p) \/ p.ext = "hrl"
ModuleOf(p) == IF p.ext = "erl" THEN p.name ELSE p.name \o "_SUITE"

FilesOf(tree, m) == {p \in DOMAIN tree : IsErl(p) /\ ModuleOf(p) = m}

(* Of two files with one name, neither is the module. *)
ModulePath(tree, m) ==
  LET files == FilesOf(tree, m) IN
  IF Cardinality(files) = 1 THEN CHOOSE p \in files : TRUE ELSE Null

(* A search path has one segment that is a star, or is taken literally. *)
Starred == {"*", "part*"}
IsWildcard(glob) ==
  \E i \in DOMAIN glob :
    glob[i] = "*" /\ \A k \in DOMAIN glob \ {i} : glob[k] \notin Starred

MatchesWildcard(p, glob) ==
  Len(p.dir) = Len(glob) /\ \A i \in DOMAIN glob : glob[i] \in {"*", p.dir[i]}

(* As Candidates, with the files the index has alone (a mutant). *)
CandidatesIndexed(tree, m) ==
  IF ModulePath(tree, m) # Null THEN {ModulePath(tree, m)} ELSE {}

(* The one file the index has for a module, or every file of that name. *)
Candidates(tree, m) ==
  IF ModulePath(tree, m) # Null THEN {ModulePath(tree, m)} ELSE FilesOf(tree, m)

HelperResolves(tree, globs, m) ==
  \/ \E g \in globs : ~IsWildcard(g) /\ \E p \in FilesOf(tree, m) : p.dir = g
  \/ \E g \in globs : IsWildcard(g) /\ \E p \in Candidates(tree, m) : MatchesWildcard(p, g)

-----------------------------------------------------------------------------
(* What a module exports as far as its text tells: a list, and why the list *)
(* is not the whole truth, if it is not.  A parse transform answers for no   *)
(* key at all; the other grounds leave what is listed exported.              *)
Record(held, found) ==
  IF found # "none" /\ (held = "none" \/ found = "transform") THEN found ELSE held

ExportSurface(text) ==
  LET compiled == IF "parse_transform" \in text.compile THEN "transform"
                  ELSE IF "export_all" \in text.compile THEN "all" ELSE "none"
  IN  [listed |-> text.exports,
       hidden |-> Record(compiled, IF text.macroInExports THEN "macro" ELSE "none")]

Lookup(surface, key) ==
  IF surface.hidden = "transform" THEN "unknowable"
  ELSE IF key \in surface.listed THEN "present"
  ELSE IF surface.hidden = "none" THEN "absent" ELSE "unknowable"

Merge(a, b) == [listed |-> a.listed \cup b.listed, hidden |-> Record(a.hidden, b.hidden)]

(* What the added lines provide of a module, in whichever file they stand. *)
TouchedModules(in) == {p \in DOMAIN in.added : IsErl(p)}
Provided(in, m) ==
  FoldSet(LAMBDA p, held :
            Merge(Merge(held, [listed |-> in.added[p].defs, hidden |-> "none"]),
                  ExportSurface(in.added[p])),
          [listed |-> {}, hidden |-> "none"],
          {p \in TouchedModules(in) : ModuleOf(p) = m})

PatchCovers(in, m, key) == Lookup(Provided(in, m), key) # "absent"

SpecsRewritten(in, m) ==
  UNION {DOMAIN in.added[p].specs : p \in {x \in TouchedModules(in) : ModuleOf(x) = m}}

-----------------------------------------------------------------------------
(* The return types of two specs, compared when both sides have one that is *)
(* understood; what was not compared is counted by its reason.               *)
CompareSpecs(target, source, key) ==
  IF key \notin DOMAIN target \/ key \notin DOMAIN source THEN "no spec"
  ELSE IF target[key].text = source[key].text THEN "compared"
  ELSE IF S!Unknown \in {target[key].returns, source[key].returns} THEN "unknown type"
  ELSE IF S!Matches(target[key].returns, source[key].returns) THEN "compared"
  ELSE "drift"

CompareReturns(in, p, key) ==
  LET source == TextOf(in.source, p) IN
  IF ~in.checkout \/ source = Null THEN "no source"
  ELSE CompareSpecs(TextOf(in.target, p).specs, source.specs, key)

(* Only a module of the target tree that no snapshot covers is asked about. *)
FirstParty(in, m) ==
  IF m \in in.covered THEN Null
  ELSE IF TextOf(in.target, ModulePath(in.target, m)) = Null THEN Null
  ELSE ModulePath(in.target, m)

AnswerQualified(in, m, key) ==
  LET p == FirstParty(in, m) IN
  IF p = Null \/ PatchCovers(in, m, key) THEN "silent"
  ELSE LET presence == Lookup(ExportSurface(in.target[p]), key) IN
       IF presence = "absent" THEN "missing"
       ELSE IF presence = "unknowable" \/ key \in SpecsRewritten(in, m) THEN "silent"
       ELSE CompareReturns(in, p, key)

AnswerLocal(in, p, key) ==
  LET added == in.added[p]
      target == TextOf(in.target, p)
  IN  IF target = Null THEN "silent"
      ELSE IF "parse_transform" \in target.compile \/ key[1] \in Bifs \/ key \in added.defs
      THEN "silent"
      ELSE IF key \in target.defs
      THEN IF key \in DOMAIN added.specs THEN "silent" ELSE CompareReturns(in, p, key)
      ELSE IF key \in DOMAIN target.imports THEN "imported"
      ELSE IF key \in DOMAIN added.imports
      THEN AnswerQualified(in, added.imports[key], key)
      ELSE "missing"

-----------------------------------------------------------------------------
(* A call that carries a module, a function and what tells the arity as     *)
(* arguments: where they stand depends on how many arguments there are.      *)
Form(module, function, arity, how) ==
  [module |-> module, function |-> function, arity |-> arity, how |-> how]

FormOf(m, f, argc) ==
  CASE <<m, f>> = <<"meck", "expect">> /\ argc = 3 -> Form(1, 2, 3, "fun")
    [] <<m, f>> = <<"meck", "expect">> /\ argc = 4 -> Form(1, 2, 3, "int")
    [] <<m, f>> \in {<<"rpc", "call">>, <<"erpc", "call">>, <<"rabbit_misc", "rpc_call">>}
       /\ argc \in {4, 5} -> Form(2, 3, 4, "list")
    [] m = "rabbit_ct_broker_helpers" /\ <<f, argc>> \in {<<"rpc", 4>>, <<"rpc_all", 4>>, <<"rpc_all", 5>>}
       -> Form(2, 3, 4, "list")
    [] m = "rabbit_ct_broker_helpers" /\ <<f, argc>> \in {<<"rpc", 5>>, <<"rpc", 6>>}
       -> Form(3, 4, 5, "list")
    [] OTHER -> Null

(* An expectation of meck that is itself called remotely is unwrapped once. *)
RECURSIVE ReadReference(_, _, _)
ReadReference(form, args, elixir) ==
  LET m == args[form.module]
      f == args[form.function]
      a == args[form.arity]
      inner == FormOf("meck", "expect", Len(a.items))
  IN  IF m.is # "atom" \/ f.is # "atom" THEN <<"skipped">>
      ELSE IF a.is # form.how \/ (a.is = "fun" /\ elixir) THEN <<"dynamic">>
      ELSE IF a.is # "list" THEN <<"reads", m.name, f.name, a.size>>
      ELSE IF <<m.name, f.name>> # <<"meck", "expect">> THEN <<"reads", m.name, f.name, Len(a.items)>>
      ELSE IF inner = Null THEN <<"dynamic">> ELSE ReadReference(inner, a.items, elixir)

ReadIndirect(call, elixir) ==
  LET form == FormOf(call.module, call.function, Len(call.args)) IN
  IF form = Null THEN <<"skipped">> ELSE ReadReference(form, call.args, elixir)

(* An expectation may be of a function that is defined and not exported. *)
AnswerIndirect(in, p, call) ==
  LET read == ReadIndirect(call, p.ext = "ex")
      at == FirstParty(in, read[2])
      key == <<read[3], read[4]>>
  IN  IF read[1] # "reads" THEN read[1]
      ELSE IF at = Null THEN "silent"
      ELSE IF \/ Lookup(ExportSurface(in.target[at]), key) = "present"
              \/ key \in in.target[at].defs
              \/ PatchCovers(in, read[2], key)
      THEN "checked"
      ELSE "missing"

-----------------------------------------------------------------------------
(* Headers: where an include may be found, and the walk over them. *)
IncludeCandidates(from, inc) ==
  IF ~inc.lib THEN <<[dir |-> from.dir \o inc.dir, name |-> inc.name, ext |-> "hrl"]>>
  ELSE IF inc.dir = <<>> THEN <<>>
  ELSE [i \in 1..3 |-> [dir |-> <<(<<"deps", "apps", "lib">>)[i]>> \o inc.dir,
                        name |-> inc.name, ext |-> "hrl"]]

FirstIn(candidates, paths) ==
  LET hits == {i \in DOMAIN candidates : candidates[i] \in paths} IN
  IF hits = {} THEN Null ELSE candidates[CHOOSE i \in hits : \A k \in hits : i <= k]

IsStdlib(inc) == inc.lib /\ inc.dir # <<>> /\ inc.dir[1] \in OtpApps

Macros(text) == {<<"macro", n>> : n \in DOMAIN text.macros}
Defines(text) == Macros(text) \cup text.declares

Absorb(walk, text) ==
  [walk EXCEPT !.defines = @ \cup Defines(text), !.expands = @ \/ text.expands]

(* A header counts as visited before it is known to be too deep. *)
Push(walk, p, depth, tree) ==
  IF p \in walk.visited THEN walk
  ELSE IF depth > MaxIncludeDepth
  THEN [walk EXCEPT !.visited = @ \cup {p}, !.unread = @ \cup {"first-party"}]
  ELSE [walk EXCEPT !.visited = @ \cup {p},
                    !.stack = Append(@, [path |-> p, depth |-> depth, tree |-> tree])]

Created(in) == {p \in in.new : IsSource(p) /\ p \in DOMAIN in.added}

FollowIncludes(in, walk, includes, from, depth) ==
  FoldLeft(LAMBDA w, inc :
             LET candidates == IncludeCandidates(from, inc)
                 target == FirstIn(candidates, DOMAIN in.target)
                 created == FirstIn(candidates, Created(in))
             IN  IF IsStdlib(inc) THEN [w EXCEPT !.unread = @ \cup {"stdlib"}]
                 ELSE IF target # Null THEN Push(w, target, depth, "target")
                 ELSE IF created # Null THEN Push(w, created, depth, "patch")
                 ELSE [w EXCEPT !.unread = @ \cup {"first-party"}],
           walk, includes)

RECURSIVE WalkOn(_, _)
WalkOn(in, walk) ==
  IF walk.stack = <<>> THEN walk
  ELSE LET top == Last(walk.stack)
           rest == [walk EXCEPT !.stack = Front(@)]
           text == TextOf(IF top.tree = "target" THEN in.target ELSE in.added, top.path)
       IN  WalkOn(in, IF text = Null THEN [rest EXCEPT !.unread = @ \cup {"first-party"}]
                      ELSE FollowIncludes(in, Absorb(rest, text), text.includes,
                                          top.path, top.depth + 1))

(* What the file and the headers it reaches define, the patch's included. *)
TargetDefines(in, p) ==
  LET start == [defines |-> {}, expands |-> FALSE, unread |-> {}, visited |-> {p}, stack |-> <<>>]
      text == TextOf(in.target, p)
      own == IF text = Null THEN start ELSE FollowIncludes(in, Absorb(start, text), text.includes, p, 1)
  IN  WalkOn(in, FollowIncludes(in, own, in.added[p].includes, p, 1))

(* A macro or a record that nothing defines; an unread header may. *)
AnswerUse(in, p, use) ==
  LET found == TargetDefines(in, p) IN
  IF found.unread # {} \/ use \in Predefined \cup Defines(in.added[p]) \cup found.defines
  THEN "silent" ELSE "missing"

AnswerExportedType(in, p, type) ==
  LET added == in.added[p]
      target == TextOf(in.target, p)
      found == TargetDefines(in, p)
  IN  IF target = Null \/ added.macroInTypes THEN "silent"
      ELSE IF "parse_transform" \in added.compile \cup target.compile THEN "silent"
      ELSE IF "first-party" \in found.unread \/ found.expands THEN "silent"
      ELSE IF type \in found.defines \cup Defines(added) THEN "silent" ELSE "missing"

(* The value of a macro, when each side defines it once in the file itself. *)
AnswerMacroValue(in, p, name) ==
  LET target == TextOf(in.target, p)
      source == TextOf(in.source, p)
  IN  IF target = Null \/ <<"macro", name>> \in Predefined \cup Macros(in.added[p]) THEN "silent"
      ELSE IF ~in.checkout \/ source = Null THEN "no source"
      ELSE IF name \notin DOMAIN target.macros \/ name \notin DOMAIN source.macros THEN "elsewhere"
      ELSE IF Len(target.macros[name]) # 1 \/ Len(source.macros[name]) # 1 THEN "several"
      ELSE IF target.macros[name] # source.macros[name] THEN "drift" ELSE "compared"

-----------------------------------------------------------------------------
(* The callbacks of a behaviour that an added line declares. *)
AnswerBehaviour(in, m) ==
  LET p == FirstParty(in, m)
      source == TextOf(in.source, p)
      target == in.target[p]
      new == {k \in DOMAIN target.callbacks :
                k \notin DOMAIN source.callbacks /\ k \notin target.optional}
      drifted == {k \in DOMAIN target.callbacks \cap DOMAIN source.callbacks :
                    source.callbacks[k] # target.callbacks[k]}
  IN  IF ~in.checkout \/ p = Null \/ source = Null THEN {}
      ELSE (new \X {"added"}) \cup (drifted \X {"drift"})

(* Of a file that the patch creates: helpers of a suite, behaviours, headers. *)
AnswerCreated(in, p) ==
  LET text == in.added[p]
      Absent(ms) == {m \in ms : m \notin OtpModules /\ ~HelperResolves(in.target, in.globs, m)}
      helpers == IF p.ext = "_SUITE.erl" THEN Absent({q[1] : q \in text.qualified}) ELSE {}
      behaviours == IF IsErl(p) THEN Absent(text.behaviours) ELSE {}
      headers == {i \in DOMAIN text.includes :
                    /\ ~IsStdlib(text.includes[i])
                    /\ FirstIn(IncludeCandidates(p, text.includes[i]), DOMAIN in.target) = Null}
  IN  [helpers |-> helpers, behaviours |-> behaviours, headers |-> headers]

(* A suite that is created directly under test/ must be named in the Makefile *)
(* of its application, when that one registers suites; the added lines of the *)
(* Makefile count.                                                            *)
Makefile(p) == [dir |-> Front(p.dir), name |-> "Makefile", ext |-> ""]
AnswerSuite(in, p) ==
  LET target == TextOf(in.target, Makefile(p))
      added == TextOf(in.added, Makefile(p))
  IN  IF p \notin in.new \/ p.ext # "_SUITE.erl" \/ p.dir = <<>> THEN "silent"
      ELSE IF Last(p.dir) # "test" \/ target = Null THEN "silent"
      ELSE IF ~target.marked \/ p.name \in target.words THEN "silent"
      ELSE IF added # Null /\ p.name \in added.words THEN "silent"
      ELSE "unregistered"

(* A key that a schema maps to must be read under src/ of its application. *)
UnderApp(p, app) ==
  \/ p.dir # <<>> /\ p.dir[1] = app
  \/ Len(p.dir) > 1 /\ p.dir[1] = "deps" /\ p.dir[2] = app
SourcesOf(tree, app) ==
  {p \in DOMAIN tree : IsErl(p) /\ \E d \in {<<app, "src">>, <<"deps", app, "src">>} : IsPrefix(d, p.dir)}
AnswerMapping(in, app, key) ==
  IF (\E p \in DOMAIN in.target : UnderApp(p, app))
     /\ \E p \in SourcesOf(in.target, app) : in.target[p] # Null /\ key \in in.target[p].words
  THEN "silent" ELSE "unread"
=============================================================================
