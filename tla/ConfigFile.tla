----------------------------- MODULE ConfigFile -----------------------------
(***************************************************************************)
(* The config file and the verbs that edit it: series sync merge, replace  *)
(* and diff, check commit --write-suggestions, and init.                   *)
(*                                                                         *)
(* A verb loads the file, infers the pins of a branch for the projects it  *)
(* knows, reads the text again, edits that text and writes it in place     *)
(* (truncate, then write).  Nothing locks the file.  A text is the projects*)
(* and the series it declares, in the order of the file; the tag that a    *)
(* dependency of a branch stands for is given with the branch.             *)
(***************************************************************************)
EXTENDS Integers, FiniteSets, Sequences, SequencesExt, FiniteSetsExt

CONSTANTS Procs,
          Names,        \* what a project may be called
          InvalidNames, \* prefixes of module names that no project may have
          Self,         \* the program's own project
          Series, Tags,
          Branches,     \* a branch: its series and the tag of each dependency
          Initial,      \* the texts the file may hold at first
          Missing,      \* there is no file
          Broken,       \* a text that does not parse, or lacks a key
          Asked,        \* what the verbs are asked to do
          MaxVerbs      \* bounds how many verbs are started

NoTag == "none"

Pin == [project : Names, kind : {"literal"}, tag : Tags]
         \cup [project : Names, kind : {"pattern", "self"}, tag : {NoTag}]

(* What a project stub or an inferred table says of a project that matters   *)
(* to the file is its name, and whether it is the program itself.            *)
Project == [name : Names \cup InvalidNames, self : BOOLEAN]

Texts == [projects : Seq(Project),
          series : Seq([name : Series, pins : Seq(Pin), untracked : SUBSET Names])]

EmptyText == [projects |-> <<>>, series |-> <<>>]

Verbs == [verb : {"merge", "diff"}, branch : Branches, overwrite : BOOLEAN]
           \cup [verb : {"replace"}, branch : Branches]
           \cup [verb : {"suggest"}, prefixes : SUBSET (Names \cup InvalidNames)]
           \cup [verb : {"init"}, force : BOOLEAN, branches : Seq(Branches)]

ASSUME ConfigAssumption ==
  /\ Self \in Names /\ InvalidNames \cap Names = {}
  /\ Branches \subseteq [series : Series, deps : UNION {[D -> Tags] : D \in SUBSET (Names \ {Self})}]
  /\ Initial \subseteq Texts \cup {Missing}
  /\ \A b \in Branches : IsFiniteSet(DOMAIN b.deps)
  /\ Asked \subseteq Verbs
  /\ \A j \in Asked : j.verb = "suggest" => IsFiniteSet(j.prefixes)
  /\ Missing \notin Texts /\ Broken \notin Texts /\ Missing # Broken
  /\ MaxVerbs \in Nat

VARIABLES
  file,      \* the text on disk, Missing or Broken
  pc,        \* off, loaded, read, truncated
  job,       \* what each process was asked to do
  known,     \* the names of the projects in the config it loaded
  text,      \* the text it read to edit
  started,
  overtaken, \* the processes whose file somebody else wrote since they loaded it
  raced,     \* those it was written under between their reading and their writing
  intact,    \* no write failed, no process died, no two edits overlapped
  promised   \* what finished verbs reported as written, and nobody took back

vars == <<file, pc, job, known, text, started, overtaken, raced, intact, promised>>

Idle == [verb |-> "none"]

Init ==
  /\ file \in Initial
  /\ pc = [p \in Procs |-> "off"]
  /\ job = [p \in Procs |-> Idle]
  /\ known = [p \in Procs |-> {}]
  /\ text = [p \in Procs |-> EmptyText]
  /\ started = 0
  /\ overtaken = {} /\ raced = {}
  /\ intact = TRUE
  /\ promised = {}

-----------------------------------------------------------------------------
(* Loading: what parses as a config.                                         *)

NamesOf(d) == {d.projects[i].name : i \in DOMAIN d.projects}

(* Of projects with one name the last decides whether it is the program. *)
IsSelf(d, n) ==
  LET last == Max({i \in DOMAIN d.projects : d.projects[i].name = n})
  IN  d.projects[last].self

(* Duplicated projects, series and pins are accepted. *)
Loads(d) ==
  /\ d \notin {Missing, Broken}
  /\ NamesOf(d) \cap InvalidNames = {}
  /\ Cardinality({i \in DOMAIN d.projects : d.projects[i].self}) <= 1
  /\ \A i \in DOMAIN d.series :
       /\ \A j \in DOMAIN d.series[i].pins :
            LET pin == d.series[i].pins[j]
            IN  pin.project \in NamesOf(d) /\ (pin.kind = "self" => IsSelf(d, pin.project))
       /\ d.series[i].untracked \subseteq NamesOf(d)

-----------------------------------------------------------------------------
(* Editing.  The pins inferred from a branch are of the projects the config  *)
(* knew when it was loaded; the others are dropped.                          *)

InferredAll(branch, names) == branch.deps

Inferred(branch, names) == [n \in DOMAIN branch.deps \cap names |-> branch.deps[n]]

Literal(n, t) == [project |-> n, kind |-> "literal", tag |-> t]

PinsOf(deps) == [i \in 1..Cardinality(DOMAIN deps) |->
                   LET n == SetToSeq(DOMAIN deps)[i] IN Literal(n, deps[n])]

BlockOf(s, deps) == [name |-> s, pins |-> PinsOf(deps), untracked |-> {}]

Has(d, s) == \E i \in DOMAIN d.series : d.series[i].name = s

(* The first block of a series is the one that is edited. *)
Position(d, s) == Min({i \in DOMAIN d.series : d.series[i].name = s})

ReplaceAppended(d, s, deps) == [d EXCEPT !.series = Append(@, BlockOf(s, deps))]

(* replace clobbers the block: pins of other kinds and settings go too. *)
ReplaceBlock(d, s, deps) ==
  IF Has(d, s) THEN [d EXCEPT !.series[Position(d, s)] = BlockOf(s, deps)]
  ELSE [d EXCEPT !.series = Append(@, BlockOf(s, deps))]

At(pins, n) == {i \in DOMAIN pins : pins[i].project = n}

Tagged(pins, n) == {i \in At(pins, n) : pins[i].tag # NoTag}

(* The pins whose tag is not the inferred one: of several pins of a project  *)
(* the last that has a tag is compared, and the first of any kind is edited. *)
Differing(pins, deps) ==
  {n \in DOMAIN deps : Tagged(pins, n) # {} /\ pins[Max(Tagged(pins, n))].tag # deps[n]}

Unpinned(pins, deps) == {n \in DOMAIN deps : At(pins, n) = {}}

MergePinsOfAnyKind(pins, deps, overwrite) ==
  LET updated == IF overwrite THEN Differing(pins, deps) ELSE {}
      kept == [i \in DOMAIN pins |->
                 IF pins[i].project \in updated /\ i = Min(At(pins, pins[i].project))
                 THEN [pins[i] EXCEPT !.tag = deps[pins[i].project]] ELSE pins[i]]
  IN  kept \o PinsOf([n \in Unpinned(pins, deps) |-> deps[n]])

(* A pin with a tag is a literal pin, whatever other keys it has. *)
MergePins(pins, deps, overwrite) ==
  LET updated == IF overwrite THEN Differing(pins, deps) ELSE {}
      kept == [i \in DOMAIN pins |->
                 IF pins[i].project \in updated /\ i = Min(At(pins, pins[i].project))
                 THEN Literal(pins[i].project, deps[pins[i].project]) ELSE pins[i]]
  IN  kept \o PinsOf([n \in Unpinned(pins, deps) |-> deps[n]])

MergeAfresh(d, s, deps, overwrite) == ReplaceBlock(d, s, deps)

MergeBlock(d, s, deps, overwrite) ==
  IF Has(d, s)
  THEN [d EXCEPT !.series[Position(d, s)].pins = MergePins(@, deps, overwrite)]
  ELSE [d EXCEPT !.series = Append(@, BlockOf(s, deps))]

(* A module outside the known projects suggests the part of its name before  *)
(* the first underscore, whatever that is.                                   *)
Suggested(prefixes, names) == prefixes \ names

StubsOf(prefixes) == [i \in 1..Cardinality(prefixes) |->
                        [name |-> SetToSeq(prefixes)[i], self |-> FALSE]]

AppendStubs(d, prefixes) == [d EXCEPT !.projects = @ \o StubsOf(prefixes \ NamesOf(d))]

(* init declares every dependency of any branch, and the program when there  *)
(* is one; of two branches that give one series the first makes it.          *)
InitBlock(b) ==
  [name |-> b.series,
   pins |-> <<[project |-> Self, kind |-> "self", tag |-> NoTag]>> \o PinsOf(b.deps),
   untracked |-> {}]

Nth(positions, k) ==
  CHOOSE i \in positions : Cardinality({l \in positions : l <= i}) = k

InitText(branches) ==
  LET deps == UNION {DOMAIN branches[i].deps : i \in DOMAIN branches}
      first == {i \in DOMAIN branches :
                  \A k \in 1..(i - 1) : branches[k].series # branches[i].series}
  IN  [projects |-> IF deps = {} THEN <<>>
                    ELSE <<[name |-> Self, self |-> TRUE]>> \o StubsOf(deps),
       series |-> [k \in 1..Cardinality(first) |-> InitBlock(branches[Nth(first, k)])]]

Edited(j, names, d) ==
  CASE j.verb = "merge"   -> MergeBlock(d, j.branch.series, Inferred(j.branch, names), j.overwrite)
    [] j.verb = "replace" -> ReplaceBlock(d, j.branch.series, Inferred(j.branch, names))
    [] j.verb = "suggest" -> AppendStubs(d, Suggested(j.prefixes, names))
    [] j.verb = "init"    -> InitText(j.branches)

-----------------------------------------------------------------------------
(* What a verb reports to have written, and what it takes back of what       *)
(* others reported: the promises of the file.                                *)

PinPromise(s, n, t) == [what |-> "pin", series |-> s, project |-> n, tag |-> t]

ProjectPromise(n) == [what |-> "project", project |-> n]

Reported(j, names, d) ==
  CASE j.verb = "merge" ->
         LET s == j.branch.series
             deps == Inferred(j.branch, names)
             pins == IF Has(d, s) THEN d.series[Position(d, s)].pins ELSE <<>>
             skipped == {n \in DOMAIN deps : At(pins, n) # {} /\ Tagged(pins, n) = {}}
                          \cup IF j.overwrite THEN {} ELSE Differing(pins, deps)
         IN  {PinPromise(s, n, deps[n]) : n \in DOMAIN deps \ skipped}
    [] j.verb = "replace" ->
         LET deps == Inferred(j.branch, names)
         IN  {PinPromise(j.branch.series, n, deps[n]) : n \in DOMAIN deps}
    [] j.verb = "suggest" -> {ProjectPromise(n) : n \in Suggested(j.prefixes, names)}
    [] j.verb = "init" -> {ProjectPromise(n) : n \in NamesOf(InitText(j.branches))}

TakenBack(j, names) ==
  CASE j.verb = "merge" ->
         IF ~j.overwrite THEN {}
         ELSE {f \in promised : /\ f.what = "pin" /\ f.series = j.branch.series
                                /\ f.project \in DOMAIN Inferred(j.branch, names)}
    [] j.verb = "replace" ->
         {f \in promised : f.what = "pin" /\ f.series = j.branch.series}
    [] j.verb = "suggest" -> {}
    [] j.verb = "init" -> promised

Kept(promise, d) ==
  IF promise.what = "project" THEN promise.project \in NamesOf(d)
  ELSE /\ Has(d, promise.series)
       /\ LET pins == d.series[Position(d, promise.series)].pins
          IN  \E i \in DOMAIN pins : pins[i] = Literal(promise.project, promise.tag)

-----------------------------------------------------------------------------
(* The verbs.                                                                *)

(* Whoever changes the file does so under all the others. *)
Under(p) == [changed |-> overtaken \cup {q \in Procs \ {p} : pc[q] # "off"},
             raced |-> raced \cup {q \in Procs \ {p} : pc[q] \in {"read", "truncated"}}]

Finish(p) ==
  /\ pc' = [pc EXCEPT ![p] = "off"]
  /\ job' = [job EXCEPT ![p] = Idle]
  /\ known' = [known EXCEPT ![p] = {}]
  /\ text' = [text EXCEPT ![p] = EmptyText]

(* A config that does not load is an error, and the verb changes nothing. *)
Load(p, j) ==
  /\ pc[p] = "off" /\ started < MaxVerbs
  /\ j.verb # "init" /\ Loads(file)
  /\ started' = started + 1
  /\ pc' = [pc EXCEPT ![p] = "loaded"]
  /\ job' = [job EXCEPT ![p] = j]
  /\ known' = [known EXCEPT ![p] = NamesOf(file)]
  /\ UNCHANGED <<file, text, overtaken, raced, intact, promised>>

(* init only asks whether the file exists; it reads git before it writes. *)
BeginInit(p, j) ==
  /\ pc[p] = "off" /\ started < MaxVerbs
  /\ j.verb = "init" /\ (file = Missing \/ j.force)
  /\ started' = started + 1
  /\ pc' = [pc EXCEPT ![p] = "read"]
  /\ job' = [job EXCEPT ![p] = j]
  /\ UNCHANGED <<file, known, text, overtaken, raced, intact, promised>>

(* Nothing is read or written when there is nothing to suggest. *)
Read(p) ==
  /\ pc[p] = "loaded" /\ file \notin {Missing, Broken}
  /\ job[p].verb = "suggest" => Suggested(job[p].prefixes, known[p]) # {}
  /\ pc' = [pc EXCEPT ![p] = "read"]
  /\ text' = [text EXCEPT ![p] = file]
  /\ UNCHANGED <<file, job, known, started, overtaken, raced, intact, promised>>

(* A diff is shown, there is nothing to suggest, the text does not parse, git *)
(* fails, or the process is killed.                                           *)
Leave(p) ==
  /\ pc[p] \in {"loaded", "read"}
  /\ Finish(p)
  /\ overtaken' = overtaken \ {p} /\ raced' = raced \ {p}
  /\ UNCHANGED <<file, started, intact, promised>>

Truncate(p) ==
  /\ pc[p] = "read" /\ job[p].verb # "diff"
  /\ pc' = [pc EXCEPT ![p] = "truncated"]
  /\ file' = EmptyText
  /\ overtaken' = Under(p).changed /\ raced' = Under(p).raced
  /\ UNCHANGED <<job, known, text, started, intact, promised>>

(* Bytes that somebody wrote since the truncation and that reach beyond the  *)
(* new text stay behind it.                                                  *)
Write(p) ==
  LET new == Edited(job[p], known[p], text[p])
  IN  /\ pc[p] = "truncated"
      /\ file' \in (IF file = EmptyText THEN {new} ELSE {new, Broken})
      /\ overtaken' = Under(p).changed \ {p} /\ raced' = Under(p).raced \ {p}
      /\ intact' = (intact /\ p \notin raced)
      /\ promised' = (promised \ TakenBack(job[p], known[p]))
                       \cup Reported(job[p], known[p], text[p])
      /\ Finish(p)
      /\ UNCHANGED started

(* The disk fills up, or the process is killed: a prefix is left. *)
CutsOf(d) ==
  {Broken} \cup {[projects |-> SubSeq(d.projects, 1, i), series |-> <<>>] : i \in 0..Len(d.projects)}
           \cup {[d EXCEPT !.series = SubSeq(@, 1, i)] : i \in 0..Len(d.series)}

WriteCut(p) ==
  /\ pc[p] = "truncated"
  /\ file' \in CutsOf(Edited(job[p], known[p], text[p])) \cup {file}
  /\ overtaken' = Under(p).changed \ {p} /\ raced' = Under(p).raced \ {p}
  /\ intact' = FALSE
  /\ Finish(p)
  /\ UNCHANGED <<started, promised>>

Next ==
  \E p \in Procs :
    \/ \E j \in Asked : Load(p, j) \/ BeginInit(p, j)
    \/ Read(p) \/ Leave(p) \/ Truncate(p) \/ Write(p) \/ WriteCut(p)

Spec == Init /\ [][Next]_vars

-----------------------------------------------------------------------------
TypeOK ==
  /\ file \in {Missing, Broken}
       \/ /\ \A i \in DOMAIN file.projects : file.projects[i] \in Project
          /\ \A i \in DOMAIN file.series :
               /\ file.series[i].name \in Series /\ file.series[i].untracked \subseteq Names
               /\ \A k \in DOMAIN file.series[i].pins : file.series[i].pins[k] \in Pin
  /\ pc \in [Procs -> {"off", "loaded", "read", "truncated"}]
  /\ \A p \in Procs : job[p] \in Asked \cup {Idle} /\ (job[p] = Idle <=> pc[p] = "off")
  /\ \A p \in Procs : known[p] \subseteq Names \cup InvalidNames
  /\ started \in 0..MaxVerbs
  /\ raced \subseteq overtaken /\ overtaken \subseteq {p \in Procs : pc[p] # "off"}
  /\ intact \in BOOLEAN

(* What a finished verb reported as written is in the file until a verb that  *)
(* says so takes it back, however the verbs of several processes follow each  *)
(* other, as long as no two overlap between reading and writing and no write  *)
(* is cut short (sync_merge, sync_replace, apply_suggestions_to_config read   *)
(* the text again for this).                                                  *)
ReportsAreKept ==
  intact /\ (\A p \in Procs : pc[p] # "truncated") =>
    /\ file # Broken
    /\ \A promise \in promised : file # Missing /\ Kept(promise, file)

(* A verb that nobody overtook leaves a config that loads again: what it puts *)
(* in comes from the projects the config knows, or is declared with it.  Two  *)
(* are the exceptions: a stub whose name no project may have, and an init     *)
(* from branches that pin nothing, which pins a program it does not declare.  *)
PinsNothing(j) ==
  /\ j.verb = "init" /\ j.branches # <<>>
  /\ \A i \in DOMAIN j.branches : DOMAIN j.branches[i].deps = {}

EditedConfigsLoad ==
  [][\A p \in Procs :
       /\ Write(p) /\ p \notin overtaken
       /\ ~PinsNothing(job[p]) /\ NamesOf(file') \cap InvalidNames = {}
       => Loads(file')]_vars

(* The same sync once more changes nothing, so that a sync that was repeated  *)
(* or retried is harmless and a diff after it is empty.                       *)
SinglePins(d) == \A i \in DOMAIN d.series : \A n \in Names : Cardinality(At(d.series[i].pins, n)) <= 1

SyncsConverge ==
  [][\A p \in Procs :
       /\ Write(p) /\ p \notin overtaken
       /\ job[p].verb \in {"merge", "replace"} /\ SinglePins(text[p])
       => Edited(job[p], NamesOf(file'), file') = file']_vars
=============================================================================
