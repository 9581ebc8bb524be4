------------------------------ MODULE MCDriverApi ------------------------------
(***************************************************************************)
(* Every builder with every combination of what can be set on it, answers   *)
(* of every shape, and mocks of up to two handlers.                         *)
(***************************************************************************)
EXTENDS DriverApi, TLC

Payload == [of |-> "payload", id |-> "answer"]
VersionOf(verbs) == [of |-> "version", verbs |-> verbs]

Globals ==
  [config : {Null, "backhopper.toml"}, store : {Null, "snapshots"}, repo : {Null, "repo"},
   on : {{}, {"quiet"}, {"quiet", "verbose"}, {"non_interactive", "dry_run"}}]
Options == {{}, {"--explain"}, {"--terse"}, {"--suggest-prereqs", "--auto-generate"}, CheckFlags \ {"--terse"}}
Targets == {[is |-> "series", name |-> "main", tag |-> Null], [is |-> "pin", name |-> "dep", tag |-> "v1"]}

Lists == {[is |-> "file", path |-> "list", lines |-> Null]}
         \cup {[is |-> "bytes", path |-> Null, lines |-> CommitLines(s)] : s \in {<<>>, <<"c1">>, <<"c1", "c2", "c1">>}}
Patches == {[is |-> "file", path |-> p, lines |-> Null] : p \in {"patch", "-odd"}}
           \cup {[is |-> "bytes", path |-> Null, lines |-> <<"diff">>]}
Positionals == {[is |-> "file", path |-> "sha", lines |-> Null]}
Nothing == [is |-> "nothing"]

Call(verb, globals, rest) == [kind |-> "call", verb |-> verb, globals |-> globals] @@ rest

CallsOf(verb, globals) ==
  CASE verb \in {"check patch", "check commit", "check merge", "check range"} ->
         {Call(verb, globals, [target |-> t, options |-> o, input |-> i]) :
            t \in Targets, o \in Options, i \in IF verb = "check patch" THEN Patches ELSE Positionals}
    [] verb = "check batch" ->
         {Call(verb, globals, [scope |-> s, options |-> o, dir |-> d, ref |-> r, input |-> i]) :
            s \in {<<>>, <<"main">>, <<"main", "v1">>}, o \in Options, d \in {Null, "target"},
            r \in {Null, "head"}, i \in Lists}
    [] verb = "suites plan" ->
         {Call(verb, globals, [auto |-> a, apps |-> s, rules |-> r, input |-> i]) :
            a \in BOOLEAN, s \in {<<>>, <<"rabbit">>, <<"rabbit", "ra">>}, r \in {Null, "rules"}, i \in Lists}
    [] OTHER -> {Call(verb, globals, [name |-> "dep", from |-> "v1", to |-> "v2", input |-> Nothing])}

CallVerbs == AcceptsRepoDir \cup {"snapshots project_diff", "snapshots series_diff"}

-----------------------------------------------------------------------------
(* A call whose caller asked for what the command line excludes, left out what *)
(* it needs, or gave a path that looks like an option.                         *)
CallerErred(q) ==
  \/ {"quiet", "verbose"} \subseteq q.globals.on
  \/ q.verb = "check batch" /\ q.scope = <<>>
  \/ q.input.is = "file" /\ q.input.path = "-odd"

Flags(q) == IF q.verb \in AcceptsRepoDir \ {"suites plan"} THEN q.options ELSE {}

(* The command line reads in the words what was asked of the builder: no flag   *)
(* lost, none added, each value with its option, standard input exactly when    *)
(* it is named, and a repository whenever the verb would otherwise take the     *)
(* current directory; then the driver gets the payload.  Nothing is claimed of   *)
(* a call whose caller erred, nor of a range (RangeCallsAreAnswered).            *)
CallsAreUnderstood(q) ==
  LET sent == Dispatch(q)
      read == Understood(q.verb, sent.args)
      The(option) == Values(read, option)
  IN  IF sent.is = "refused" THEN q.globals.repo = Null /\ q.verb \in RequiresRepoDir
      ELSE ~CallerErred(q) /\ q.verb # "check range" =>
        /\ read.ok
        /\ The("--formatter") = <<"json">> /\ ~Has(read, "--dry-run")
        /\ The("--config-file-path") = IF q.globals.config = Null THEN <<>> ELSE <<q.globals.config>>
        /\ The("--snapshot-dir-path") = IF q.globals.store = Null THEN <<>> ELSE <<q.globals.store>>
        /\ {o \in CheckFlags : Has(read, o)} = Flags(q)
        /\ q.verb \in RequiresRepoDir => The("--repo-dir-path") = <<q.globals.repo>>
        /\ q.verb \in {"check batch", "suites plan"} =>
             LET list == The(IF q.verb = "check batch" THEN "--commits-file-path"
                             ELSE "--modified-paths-file-path")
             IN  (list = <<"-">>) <=> (sent.stdin # Null)
        /\ q.verb = "suites plan" =>
             /\ The("--library-app") = q.apps
             /\ The("--extra-rules-file-path") = IF q.rules = Null THEN <<>> ELSE <<q.rules>>
        /\ q.verb = "check batch" =>
             /\ The("--series") = q.scope
             /\ The("--target-repo-dir-path") = IF q.dir = Null THEN <<>> ELSE <<q.dir>>
             /\ The("--target-ref") = IF q.dir = Null \/ q.ref = Null THEN <<>> ELSE <<q.ref>>
             /\ sent.stdin # Null => IsInjective(sent.stdin)
        /\ q.verb \in {"check patch", "check commit", "check merge"} =>
             /\ IF q.target.is = "series" THEN The("--series") = <<q.target.name>> /\ ~Has(read, "--project")
                ELSE The("--project") = <<q.target.name>> /\ The("--tag") = <<q.target.tag>>
             /\ read.words = IF q.input.is = "bytes" THEN <<>> ELSE <<q.input.path>>
        /\ \A clean \in BOOLEAN :
             LET got == Decode(q.verb, Answer(q.verb, sent.args, sent.stdin, clean, Payload)) IN
             IF q.verb = "check batch" /\ ("--terse" \in q.options \/ sent.stdin = <<>>) THEN got.is = "tool error"
             ELSE IF "--terse" \in Flags(q) THEN got.is = "unparseable"
             ELSE got.is = "envelope" /\ got.data = Payload

(* The builder of `check range` sends its range as a position, as its           *)
(* documentation and its test have it (builder/check.rs:429,                     *)
(* check_builder_unit_tests.rs:117), and a usage error is what "the driver       *)
(* should never produce" (exit.rs:25): a call whose caller did not err gets its   *)
(* payload.                                                                      *)
RangeCallsAreAnswered(q) ==
  LET sent == Dispatch(q)
      got == Decode(q.verb, Answer(q.verb, sent.args, sent.stdin, TRUE, Payload))
  IN  q.verb = "check range" /\ sent.is = "sent" /\ ~CallerErred(q) /\ "--terse" \notin q.options =>
        got.is = "envelope" /\ got.data = Payload

-----------------------------------------------------------------------------
Outs ==
  {[is |-> "text"], [is |-> "json", schema |-> Null], [is |-> "json", schema |-> 18]}
  \cup [is : {"envelope"}, schema : {0, 1, 17, 18, WordSize - 1, WordSize, WordSize + 1},
        command : {"check patch", "version", "tree show"},
        data : {Payload, [of |-> "newer"], VersionOf({"check patch"}), VersionOf({"check patch", "suites plan"})}]
Exits == {0, 1, 2, 3, 4, 64, 65, 66, 70, 74}

(* A payload is returned of a known schema alone, as it came; an envelope of    *)
(* another schema is a mismatch whatever it holds; and the lenient probe says   *)
(* compatible of an answer the strict one takes and the required verbs are in,   *)
(* and of no other whose schema is a word of 32 bits.                            *)
AnswersAreDecoded(q) ==
  LET got == Decode(q.verb, q.answer)
      out == q.answer.out
      fits == out.is = "text" \/ out.schema = Null \/ out.schema < WordSize
      report == Compatibility(q.answer, {"suites plan"})
      version == Version(q.answer)
  IN  /\ got.is = "tool error" <=> q.answer.exit >= 64
      /\ got.is = "envelope" =>
           /\ got.data = out.data /\ out.schema \in SupportedSchema
           /\ got.command # Null /\ (out.command \in KnownVerbs => got.command = out.command)
      /\ q.answer.exit \in SuccessShaped /\ out.is # "text" /\ fits =>
           /\ out.schema # Null /\ out.schema \notin SupportedSchema <=> got.is = "schema mismatch"
      /\ version # Null /\ "suites plan" \in version => report.compatible
      /\ fits /\ q.answer.exit \in SuccessShaped /\ report.compatible =>
           version # Null /\ "suites plan" \in version
      /\ got.is = "unparseable" => ~(out.is = "envelope" /\ fits /\ out.schema \in SupportedSchema
                                     /\ out.data.of = Expects(q.verb))

-----------------------------------------------------------------------------
Responses == {[is |-> "json", exit |-> e, data |-> Payload] : e \in {0, 3, 66}}
             \cup {[is |-> "raw", exit |-> 0], [is |-> "error"]}
Handlers ==
  {[is |-> i, verb |-> v, word |-> "--explain", response |-> r] :
     i \in {"verb", "where", "custom"}, v \in {"check patch", "check batch"}, r \in Responses}

(* Over a mock, a call gets the answer of the first handler that is for it.     *)
MocksAnswer(q) ==
  LET words == IF q.explain THEN <<"--series", "main", "--explain">> ELSE <<"--series", "main">>
      got == MockAnswer(q.handlers, q.fallthrough, "check patch", words)
      for == SelectSeq(q.handlers, LAMBDA h : (h.is = "custom" \/ h.verb = "check patch") /\ (h.is = "verb" \/ q.explain))
  IN  IF for = <<>> THEN got.is # "answer" \/ Decode("check patch", got).is = "unparseable"
      ELSE CASE for[1].response.is = "error" -> got.is = "transport"
             [] for[1].response.is = "raw" -> Decode("check patch", got).is = "unparseable"
             [] for[1].response.is = "json" ->
                  Decode("check patch", got) =
                    IF for[1].response.exit = 66 THEN [is |-> "tool error", exit |-> 66]
                    ELSE [is |-> "envelope", data |-> Payload, command |-> "check patch"]

-----------------------------------------------------------------------------
CallSeeds ==
  {[kind |-> "call seed", axis |-> "call", verb |-> v, globals |-> g] : v \in CallVerbs, g \in Globals}
  \cup {[kind |-> "call seed", axis |-> "answer", verb |-> v] : v \in {"check patch", "version"}}
  \cup {[kind |-> "call seed", axis |-> "mock", handler |-> h] : h \in Handlers}

CallQuestions(seed) ==
  CASE seed.axis = "call" -> CallsOf(seed.verb, seed.globals)
    [] seed.axis = "answer" ->
         {[kind |-> "answer", verb |-> seed.verb, answer |-> [exit |-> e, out |-> o]] : e \in Exits, o \in Outs}
    [] seed.axis = "mock" ->
         {[kind |-> "mock", handlers |-> s, fallthrough |-> f, explain |-> x] :
            s \in {<<seed.handler>>} \cup {<<seed.handler, h>> : h \in Handlers},
            f \in {"transport", "empty", "panic"}, x \in BOOLEAN}
=============================================================================
