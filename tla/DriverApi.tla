------------------------------- MODULE DriverApi -------------------------------
(***************************************************************************)
(* One call of the driver's builders: the arguments it sends, what the     *)
(* command line reads in them, and what the driver makes of the answer.    *)
(* Arguments are words; a word that is an option begins with a hyphen.  A   *)
(* payload is a value, and standard output is what it holds: an envelope,   *)
(* another JSON line, or no JSON.                                           *)
(***************************************************************************)
EXTENDS Naturals, SequencesExt

CONSTANTS Null, WordSize   \* WordSize stands for 2^32, which TLC's integers end below

SupportedSchema == 1..17

RequiresRepoDir ==
  {"check commit", "check range", "check merge", "check batch", "suites plan"}
AcceptsRepoDir == RequiresRepoDir \cup {"check patch"}
AcceptsDryRun == {"snapshots generate", "snapshots rebuild", "snapshots migrate"}

When(condition, words) == IF condition THEN words ELSE <<>>
Given(option, value) == IF value = Null THEN <<>> ELSE <<option, value>>

-----------------------------------------------------------------------------
(* The arguments of a call. *)
GlobalFlags(verb, globals) ==
  Given("--config-file-path", globals.config) \o Given("--snapshot-dir-path", globals.store)
  \o When(verb \in AcceptsRepoDir, Given("--repo-dir-path", globals.repo))
  \o When("non_interactive" \in globals.on, <<"--non-interactive">>)
  \o When("quiet" \in globals.on, <<"--quiet">>)
  \o When("verbose" \in globals.on, <<"--verbose">>)
  \o When("dry_run" \in globals.on /\ verb \in AcceptsDryRun, <<"--dry-run">>)

CheckOptions == <<"--explain", "--suggest-prereqs", "--show-untracked-calls", "--auto-generate", "--terse">>
PushOptions(options) == SelectSeq(CheckOptions, LAMBDA o : o \in options)

PushTarget(target) ==
  IF target.is = "series" THEN <<"--series", target.name>>
  ELSE <<"--project", target.name, "--tag", target.tag>>

(* A list is framed on standard input, or named by its file. *)
ListInput(option, input) == <<option, IF input.is = "bytes" THEN "-" ELSE input.path>>
StdinOf(input) == IF input.is = "bytes" THEN input.lines ELSE Null

(* The rows of a batch are one per commit: a commit is framed once. *)
CommitLines(commits) ==
  FoldLeft(LAMBDA lines, c : IF c \in Range(lines) THEN lines ELSE Append(lines, c), <<>>, commits)

BatchArgs(call) ==
  FlattenSeq([i \in DOMAIN call.scope |-> <<"--series", call.scope[i]>>])
  \o PushOptions(call.options)
  \o When(call.dir # Null, Given("--target-repo-dir-path", call.dir) \o Given("--target-ref", call.ref))
  \o ListInput("--commits-file-path", call.input)

PlanArgs(call) ==
  When(call.auto, <<"--auto-library-apps">>)
  \o FlattenSeq([i \in DOMAIN call.apps |-> <<"--library-app", call.apps[i]>>])
  \o Given("--extra-rules-file-path", call.rules)
  \o ListInput("--modified-paths-file-path", call.input)

TargetArgs(call) ==
  PushTarget(call.target) \o PushOptions(call.options)
  \o When(call.verb # "check patch" \/ call.input.is = "file", <<call.input.path>>)

DiffArgs(call) ==
  IF call.verb = "snapshots project_diff"
  THEN <<"--project", call.name, "--from", call.from, "--to", call.to>>
  ELSE <<"--from-series", call.from, "--to-series", call.to>>

ArgsOf(call) ==
  CASE call.verb = "check batch" -> BatchArgs(call)
    [] call.verb = "suites plan" -> PlanArgs(call)
    [] call.verb \in {"check patch", "check commit", "check range", "check merge"} -> TargetArgs(call)
    [] call.verb \in {"snapshots project_diff", "snapshots series_diff"} -> DiffArgs(call)

(* A verb that would take the current directory for its repository is not      *)
(* called without one.                                                         *)
Dispatch(call) ==
  IF call.verb \in RequiresRepoDir /\ call.globals.repo = Null THEN [is |-> "refused"]
  ELSE [is |-> "sent", stdin |-> StdinOf(call.input),
        args |-> GlobalFlags(call.verb, call.globals) \o <<"--formatter", "json">> \o ArgsOf(call)]

-----------------------------------------------------------------------------
(* What the command line takes: options without and with a value, those that   *)
(* must be there, positional words, and who needs or excludes whom.            *)
Everywhere == [flags |-> {"--non-interactive", "--quiet", "--verbose"},
               values |-> {"--config-file-path", "--snapshot-dir-path", "--formatter"}]
CheckFlags == Range(CheckOptions)
TargetRepo == {"--target-repo-dir-path", "--target-ref"}

Grammar(verb) ==
  LET G(flags, values, needed, words) == [flags |-> flags, values |-> values, needed |-> needed, words |-> words]
      selector == {"--project", "--tag", "--series", "--repo-dir-path"} \cup TargetRepo
  IN  CASE verb = "check patch" -> G(CheckFlags, selector, {}, 0..1)
        [] verb \in {"check commit", "check merge"} -> G(CheckFlags, selector, {}, {1})
        [] verb = "check range" -> G(CheckFlags, selector \cup {"--range", "--merge-commit"}, {}, {0})
        [] verb = "check batch" ->
             G(CheckFlags, {"--series", "--commits-file-path", "--repo-dir-path"} \cup TargetRepo,
               {"--series", "--commits-file-path"}, {0})
        [] verb = "suites plan" ->
             G({"--auto-library-apps"}, {"--repo-dir-path", "--modified-paths-file-path", "--library-app",
                                         "--extra-rules-file-path"},
               {"--repo-dir-path"}, {0})
        [] verb = "snapshots project_diff" ->
             G({}, {"--project", "--from", "--to"}, {"--project", "--from", "--to"}, {0})
        [] verb = "snapshots series_diff" ->
             G({}, {"--from-series", "--to-series"}, {"--from-series", "--to-series"}, {0})

Needs == {<<"--tag", "--project">>, <<"--target-ref", "--target-repo-dir-path">>}
Excludes == {<<"--quiet", "--verbose">>, <<"--project", "--series">>}

(* The words in order; a value that looks like an option is refused. *)
LooksLikeOption(word) == word \in Range(CheckOptions) \cup {"-odd"}
ReadWord(grammar, read, word) ==
  IF ~read.ok THEN read
  ELSE IF read.awaits # Null
  THEN [read EXCEPT !.given = Append(@, <<read.awaits, word>>), !.awaits = Null, !.ok = ~LooksLikeOption(word)]
  ELSE IF word \in grammar.flags \cup Everywhere.flags THEN [read EXCEPT !.given = Append(@, <<word, "">>)]
  ELSE IF word \in grammar.values \cup Everywhere.values THEN [read EXCEPT !.awaits = word]
  ELSE IF LooksLikeOption(word) THEN [read EXCEPT !.ok = FALSE]
  ELSE [read EXCEPT !.words = Append(@, word)]

Values(read, option) ==
  LET hits == SelectSeq(read.given, LAMBDA g : g[1] = option) IN [i \in DOMAIN hits |-> hits[i][2]]
Has(read, option) == Values(read, option) # <<>>

Understood(verb, words) ==
  LET grammar == Grammar(verb)
      read == FoldLeft(LAMBDA r, w : ReadWord(grammar, r, w),
                       [ok |-> TRUE, awaits |-> Null, given |-> <<>>, words |-> <<>>], words)
  IN  [read EXCEPT !.ok = /\ @ /\ read.awaits = Null
                          /\ Len(read.words) \in grammar.words
                          /\ \A option \in grammar.needed : Has(read, option)
                          /\ \A pair \in Needs : Has(read, pair[1]) => Has(read, pair[2])
                          /\ \A pair \in Excludes : ~(Has(read, pair[1]) /\ Has(read, pair[2]))]

(* The answer of a verb that could do its work, clean or not.  Words the       *)
(* command line refuses end in 2, a call the verb refuses in 64.               *)
Refuses(verb, read, stdin) ==
  verb = "check batch" /\ (Has(read, "--terse") \/ (Values(read, "--commits-file-path") = <<"-">> /\ stdin = <<>>))
Emitted(verb) ==
  IF verb \in {"check commit", "check range", "check merge"} THEN "check patch" ELSE verb

Answer(verb, words, stdin, clean, payload) ==
  LET read == Understood(verb, words)
      exit == IF clean THEN 0 ELSE 3
  IN  IF ~read.ok THEN [exit |-> 2, out |-> [is |-> "text"]]
      ELSE IF Refuses(verb, read, stdin) THEN [exit |-> 64, out |-> [is |-> "text"]]
      ELSE IF Has(read, "--terse") THEN [exit |-> exit, out |-> [is |-> "json", schema |-> Null]]
      ELSE [exit |-> exit,
            out |-> [is |-> "envelope", schema |-> 17, command |-> Emitted(verb), data |-> payload]]

-----------------------------------------------------------------------------
(* What the driver makes of an answer.  The schema is read first, so that an   *)
(* envelope that is too new is not called a payload that cannot be read; a     *)
(* number that is no word of 32 bits is not read at all.                       *)
SuccessShaped == {0, 1, 2, 3, 4}
Probed(out) ==
  IF out.is = "text" THEN Null
  ELSE IF out.schema = Null \/ out.schema >= WordSize THEN Null ELSE out.schema
Expects(verb) == IF verb = "version" THEN "version" ELSE "payload"

KnownVerbs == AcceptsRepoDir \cup AcceptsDryRun \cup {"snapshots project_diff", "snapshots series_diff", "version"}

Decode(verb, answer) ==
  IF answer.exit \notin SuccessShaped THEN [is |-> "tool error", exit |-> answer.exit]
  ELSE IF Probed(answer.out) # Null /\ Probed(answer.out) \notin SupportedSchema
  THEN [is |-> "schema mismatch", got |-> answer.out.schema]
  ELSE IF answer.out.is # "envelope" \/ Probed(answer.out) = Null \/ answer.out.data.of # Expects(verb)
  THEN [is |-> "unparseable"]
  ELSE [is |-> "envelope", data |-> answer.out.data,
        command |-> IF answer.out.command \in KnownVerbs THEN answer.out.command
                    ELSE IF verb \in KnownVerbs THEN verb ELSE Null]

(* The version probe: lenient, of whatever came back; and the strict one.      *)
Version(answer) ==
  LET decoded == Decode("version", answer) IN
  IF decoded.is = "envelope" THEN decoded.data.verbs ELSE Null

Compatibility(answer, required) ==
  LET json == answer.out.is # "text"
      schema == IF ~json \/ answer.out.schema = Null THEN Null ELSE answer.out.schema % WordSize
      verbs == IF answer.out.is = "envelope" /\ answer.out.data.of = "version" THEN answer.out.data.verbs ELSE {}
      missing == required \ verbs
  IN  [schema |-> schema, missing |-> missing,
       compatible |-> schema # Null /\ schema \in SupportedSchema /\ missing = {}]

-----------------------------------------------------------------------------
(* The mock: the first handler that matches answers; a mock knows no grammar.  *)
Matches(handler, verb, words) ==
  \/ handler.is = "verb" /\ handler.verb = verb /\ verb \in KnownVerbs
  \/ handler.is = "where" /\ handler.verb = verb /\ verb \in KnownVerbs /\ handler.word \in Range(words)
  \/ handler.is = "custom" /\ handler.word \in Range(words)

Materialise(response, verb) ==
  IF response.is = "error" THEN [is |-> "transport"]
  ELSE IF response.is = "json"
  THEN [is |-> "answer", exit |-> response.exit,
        out |-> [is |-> "envelope", schema |-> 1, command |-> verb, data |-> response.data]]
  ELSE [is |-> "answer", exit |-> response.exit, out |-> [is |-> "text"]]

MockAnswer(handlers, fallthrough, verb, words) ==
  LET hits == {i \in DOMAIN handlers : Matches(handlers[i], verb, words)} IN
  IF hits # {} THEN Materialise(handlers[CHOOSE i \in hits : \A k \in hits : i <= k].response, verb)
  ELSE IF fallthrough = "empty" THEN [is |-> "answer", exit |-> 0, out |-> [is |-> "text"]]
  ELSE [is |-> fallthrough]
=============================================================================
