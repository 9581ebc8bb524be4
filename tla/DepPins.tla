------------------------------ MODULE DepPins -------------------------------
(***************************************************************************)
(* What a RabbitMQ tree says of applications and dependencies: the .app.src*)
(* files, that is which application a path is of and which applications it *)
(* starts before its own, and the pins of rabbitmq-components.mk, those that*)
(* a patch changes and those on which the branch of a commit and a target  *)
(* differ.                                                                 *)
(*                                                                         *)
(* A text is a sequence of marks and of words; a word stands for a run of  *)
(* letters, digits and underscores.  Positions in it begin at 1; 0 is a    *)
(* reading that failed.  A line that sets dep_NAME is a record of its name,*)
(* which may have a last part "_commit", "_branch" or "_repo", and of the  *)
(* words after "="; any other line is one without a name.                  *)
(***************************************************************************)
EXTENDS Integers, FiniteSets, SequencesExt

CONSTANT Null  \* no application, no pin

Marks == {"{", "}", "[", "]", "(", ")", ",", "'", "\"", "\\", "%", "\n", " "}
Openers == {"[", "{", "("}
Closers == {"]", "}", ")"}
NoAtoms == {"1", "Name"}  \* words that begin with a digit or a capital

At(text, i) == IF i \in DOMAIN text THEN text[i] ELSE "the end"
IsAtomWord(s) == s \notin Marks \cup NoAtoms \cup {"the end"}

-----------------------------------------------------------------------------
(* A quoted atom is not known to this step. *)
NextIn(within, ch) ==
  CASE within = "escape" -> "string"
    [] within = "string" -> IF ch = "\\" THEN "escape" ELSE IF ch = "\"" THEN "text" ELSE "string"
    [] within = "comment" -> IF ch = "\n" THEN "text" ELSE "comment"
    [] OTHER -> IF ch = "%" THEN "comment" ELSE IF ch = "\"" THEN "string" ELSE "text"

Picked(text, kept) == [k \in DOMAIN kept |-> text[kept[k]]]

StripComments(text) ==
  LET within[i \in 0..Len(text)] == IF i = 0 THEN "text" ELSE NextIn(within[i - 1], text[i])
  IN  Picked(text, SelectSeq([i \in DOMAIN text |-> i], LAMBDA i : within[i] # "comment"))

SkipWs(text, i) == Min({j \in i..(Len(text) + 1) : At(text, j) \notin {" ", "\n"}})

Read(value, next) == [value |-> value, next |-> next]
Unread == Read({}, 0)
NoAtom == Read(<<>>, 0)

Expect(text, i, mark) ==
  IF i # 0 /\ At(text, SkipWs(text, i)) = mark THEN SkipWs(text, i) + 1 ELSE 0

(* The quoted atom that begins here. *)
QuotedTo(text, at, closing) ==
  IF closing = {} THEN NoAtom ELSE Read(SubSeq(text, at + 1, Min(closing) - 1), Min(closing) + 1)

AtomAt(text, at) ==
  CASE IsAtomWord(At(text, at)) -> Read(<<text[at]>>, at + 1)
    [] At(text, at) = "'" -> QuotedTo(text, at, {j \in (at + 1)..Len(text) : text[j] = "'"})
    [] OTHER -> NoAtom

Atom(text, i) == IF i = 0 THEN NoAtom ELSE AtomAt(text, SkipWs(text, i))

(* What follows "[": atoms, however many commas are between them. *)
Adding(values, rest) == Read(values \cup rest.value, rest.next)

AtomList(text, i) ==
  LET from[j \in 1..(Len(text) + 1)] ==
        LET Behind(atom) == IF atom.next = 0 THEN Unread ELSE Adding({atom.value}, from[atom.next])
            FromMark(at) == CASE At(text, at) = "]" -> Read({}, at + 1)
                              [] At(text, at) = "," -> from[at + 1]
                              [] OTHER -> Behind(Atom(text, at))
        IN  FromMark(SkipWs(text, j))
  IN  from[i]

(* The place after the string that begins here, 0 when there is none. *)
StringEnd(text, i) ==
  LET from[j \in i..(Len(text) + 2)] ==
        CASE At(text, j) = "the end" -> 0
          [] At(text, j) = "\\" -> from[j + 2]
          [] At(text, j) = "\"" -> j + 1
          [] OTHER -> from[j + 1]
  IN  IF At(text, i) = "\"" THEN from[i + 1] ELSE 0

(* The comma or the closing bracket that ends the value that begins here; a   *)
(* quote is the one that strings or atoms within it are in, or none.           *)
SkipValue(text, i) ==
  LET from[j \in i..(Len(text) + 2), depth \in 0..Len(text), quote \in {"\"", "'", "none"}] ==
        LET ch == At(text, j) IN
        CASE ch = "the end" -> 0
          [] quote # "none" /\ ch = "\\" -> from[j + 2, depth, quote]
          [] quote # "none" /\ ch = quote -> from[j + 1, depth, "none"]
          [] quote = "none" /\ ch \in {"\"", "'"} -> from[j + 1, depth, ch]
          [] quote = "none" /\ ch \in Openers -> from[j + 1, depth + 1, quote]
          [] quote = "none" /\ ch \in Closers -> IF depth = 0 THEN j ELSE from[j + 1, depth - 1, quote]
          [] quote = "none" /\ ch = "," /\ depth = 0 -> j
          [] OTHER -> from[j + 1, depth, quote]
  IN  from[i, 0, "none"]

(* The properties of an application: a set of pairs of a key and an atom that  *)
(* is listed for it.                                                           *)
ListedFor(key, atoms) == Read({key} \X atoms.value, atoms.next)
OrSkipped(text, at, end) == Read({}, IF end # 0 THEN end ELSE SkipValue(text, at))

ValueAt(text, key, at) ==
  CASE key \in {<<"modules">>, <<"applications">>} /\ At(text, at) = "[" -> ListedFor(key, AtomList(text, at + 1))
    [] key = <<"vsn">> -> OrSkipped(text, at, StringEnd(text, at))
    [] OTHER -> OrSkipped(text, at, 0)

Ended(text, value) == Read(value.value, Expect(text, value.next, "}"))

BehindComma(text, key, comma) ==
  IF comma = 0 THEN Unread ELSE Ended(text, ValueAt(text, key, SkipWs(text, comma)))

BehindKey(text, key) == BehindComma(text, key.value, Expect(text, key.next, ","))

Properties(text, i) ==
  LET from[j \in 1..(Len(text) + 1)] ==
        LET Behind(property) == IF property.next = 0 THEN Unread ELSE Adding(property.value, from[property.next])
            FromMark(at) == CASE At(text, at) = "]" -> Read({}, at + 1)
                              [] At(text, at) = "," -> from[at + 1]
                              [] At(text, at) = "{" -> Behind(BehindKey(text, Atom(text, at + 1)))
                              [] OTHER -> Unread
        IN  FromMark(SkipWs(text, j))
  IN  from[i]

(* A file that names its own application by another atom is refused, and an   *)
(* atom like that is left out of a list.                                       *)
IsName(atom) == Len(atom) = 1 /\ IsAtomWord(atom[1])

AtomsOf(pairs, key) == {a[1] : a \in {a \in {p[2] : p \in {p \in pairs : p[1] = <<key>>}} : IsName(a)}}

Application(name, pairs) ==
  [name |-> name, applications |-> AtomsOf(pairs, "applications"), modules |-> AtomsOf(pairs, "modules")]

FromProperties(text, name, properties) ==
  IF Expect(text, properties.next, "}") = 0 THEN Null ELSE Application(name, properties.value)

FromList(text, name, list) == IF list = 0 THEN Null ELSE FromProperties(text, name, Properties(text, list))

FromName(text, name) ==
  IF name.next = 0 \/ ~IsName(name.value) THEN Null
  ELSE FromList(text, name.value[1], Expect(text, Expect(text, name.next, ","), "["))

FromHead(text, head) ==
  IF head.value # <<"application">> THEN Null ELSE FromName(text, Atom(text, Expect(text, head.next, ",")))

FromText(text) == FromHead(text, Atom(text, Expect(text, 1, "{")))

ParseAppSrc(text) == FromText(StripComments(text))

-----------------------------------------------------------------------------
(* An application and its directory, a sequence of names.  Of files that are  *)
(* read in the order of their paths those that are refused are left out.       *)

AppRootDir(dir) == IF dir # <<>> /\ Last(dir) \in {"src", "ebin"} THEN Front(dir) ELSE dir

(* Of the applications whose directory holds the path, the first of the deepest. *)
ApplicationOfPath(apps, path) ==
  LET holds(app) == IsPrefix(AppRootDir(app.dir), path)
      depth(app) == Len(AppRootDir(app.dir))
      deepest(app) == holds(app) /\ \A b \in ToSet(apps) : holds(b) => depth(b) <= depth(app)
      found == SelectInSeq(apps, deepest)
  IN  IF found = 0 THEN Null ELSE apps[found].name

(* What is reached over what applications start before themselves, those of a *)
(* name that is there twice being those of the last.                           *)
ReachableAppNames(apps, start) ==
  LET starts(name) == LET last == SelectLastInSeq(apps, LAMBDA a : a.name = name)
                      IN  IF last = 0 THEN {} ELSE apps[last].applications
      reached[n \in 0..Len(apps)] ==
        IF n = 0 THEN start
        ELSE LET before == reached[n - 1] IN before \cup UNION {starts(a) : a \in before}
  IN  reached[Len(apps)]

-----------------------------------------------------------------------------
(* Pins.                                                                     *)

Auxiliary == {"_commit", "_branch", "_repo"}

(* The version of `hex` is the word after it; `git` and `git_rmq` have a URL or *)
(* a name before theirs.  A comment after it is no matter.                      *)
VersionAt(kind) == IF kind = "hex" THEN 2 ELSE 3

ParsePinLine(line) ==
  IF line.name = <<>> \/ Last(line.name) \in Auxiliary THEN Null
  ELSE IF line.words[1] \notin {"hex", "git", "git_rmq"} \/ Len(line.words) < VersionAt(line.words[1]) THEN Null
  ELSE [name |-> line.name[1], source |-> line.words[1], version |-> line.words[VersionAt(line.words[1])]]

ParseComponentsMk(lines) ==
  SelectSeq([i \in DOMAIN lines |-> ParsePinLine(lines[i])], LAMBDA p : p # Null)

NamesIn(pins) == {p.name : p \in ToSet(pins)}

(* The last of a name is kept. *)
ByName(pins) == [n \in NamesIn(pins) |-> pins[SelectLastInSeq(pins, LAMBDA p : p.name = n)]]

(* What a patch does to the file at path, whose lines lineOf reads. *)
DetectPinBumps(files, path, lineOf) ==
  LET of == SelectSeq(files, LAMBDA f : (IF f.new # Null THEN f.new ELSE f.old) = path)
      lines == FlattenSeq([i \in DOMAIN of |->
                 FlattenSeq([k \in DOMAIN of[i].hunks |-> of[i].hunks[k].lines])])
      marked(mark) == LET these == SelectSeq(lines, LAMBDA l : l.mark = mark)
                      IN  ByName(ParseComponentsMk([i \in DOMAIN these |-> lineOf[these[i].text]]))
      removed == marked("-")
      added == marked("+")
      from(n) == IF n \in DOMAIN removed THEN removed[n] ELSE Null
  IN  {[dep |-> n, from |-> from(n), to |-> added[n]] : n \in {n \in DOMAIN added : from(n) # added[n]}}

(* Where a bump leads: a project's tag, which for `hex` has its prefix. *)
VersionToTag(version, prefix) == IF IsPrefix(prefix, version) THEN version ELSE prefix \o version

DepToTag(pin, prefix) == IF pin.source = "hex" THEN VersionToTag(pin.version, prefix) ELSE pin.version

BumpTarget(projects, bump) ==
  IF bump.dep \in DOMAIN projects THEN [project |-> bump.dep, tag |-> DepToTag(bump.to, projects[bump.dep])]
  ELSE Null

-----------------------------------------------------------------------------
(* `series pins`: two branches beside each other. *)
Divergence(branch, against) ==
  LET b == ByName(branch)
      a == ByName(against)
  IN  [diverged |-> {n \in DOMAIN b \cap DOMAIN a : b[n] # a[n]},
       onlyOnBranch |-> DOMAIN b \ DOMAIN a,
       onlyOnAgainst |-> DOMAIN a \ DOMAIN b]

(* The diagnostic of a check: what differs and is reached from what the patch  *)
(* touched, or all of it when that is of no application.  The pins of the      *)
(* source are Null when it has no such file.                                   *)
DivergenceFor(target, commit) ==
  LET pinned == ByName(target)
      differs(p) == p.name \in DOMAIN pinned /\ pinned[p.name] # p
      divergent == IF commit.pins = Null THEN {} ELSE {p.name : p \in {p \in ToSet(commit.pins) : differs(p)}}
      touched == {ApplicationOfPath(commit.apps, path) : path \in commit.touched} \ {Null}
  IN  IF divergent = {} \/ touched = {} THEN divergent
      ELSE divergent \cap ReachableAppNames(commit.apps, touched)

(* Kept for each commit, for the other series of a batch. *)
Diverging(target, memo, sha, commit) ==
  IF sha \in DOMAIN memo THEN [answer |-> memo[sha], memo |-> memo]
  ELSE LET found == DivergenceFor(target, commit)
       IN  [answer |-> found, memo |-> [s \in DOMAIN memo \cup {sha} |-> IF s = sha THEN found ELSE memo[s]]]
=============================================================================
