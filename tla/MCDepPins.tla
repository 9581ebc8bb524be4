------------------------------ MODULE MCDepPins ------------------------------
(***************************************************************************)
(* Files of applications, spaced and commented in every place and ended    *)
(* early; the pins of two commits of one file and the patch between them;  *)
(* and a batch that checks a commit, another one, and the first again,     *)
(* among three applications.                                               *)
(***************************************************************************)
EXTENDS DepPins, TLC

CONSTANTS Malformed, NotText

(* A property, as tokens, and the applications and modules it lists. *)
Property(tokens, applications, modules) ==
  [tokens |-> tokens, applications |-> applications, modules |-> modules]

Keyed(key, value) == <<<<"{">>, <<key>>, <<",">>>> \o value \o <<<<"}">>>>
Quoted(words) == <<"\"">> \o words \o <<"\"">>
Listed(atoms) == <<<<"[">>>> \o atoms \o <<<<"]">>>>

Known == {
  Property(Keyed("applications", Listed(<<<<"kernel">>, <<",">>, <<"'", "ra", "'">>>>)), {"kernel", "ra"}, {}),
  Property(Keyed("applications", Listed(<<<<"'", "Name", "'">>, <<",">>, <<"stdlib">>>>)), {"stdlib"}, {}),
  Property(Keyed("modules", Listed(<<<<"m">>>>)), {}, {"m"}),
  Property(Keyed("description", <<Quoted(<<"]", "\\", "\"", "%", "}", ",">>)>>), {}, {}),
  Property(Keyed("vsn", <<Quoted(<<"1", ",", "{">>)>>), {}, {}),
  Property(Keyed("vsn", <<<<"git">>>>), {}, {}),
  Property(Keyed("mod", <<<<"{">>, <<"m">>, <<",">>, <<"[">>, <<"]">>, <<"}">>>>), {}, {}),
  Property(Keyed("env", Listed(<<<<"{">>, <<"'", "k", "}", "'">>, <<",">>, Quoted(<<"%">>), <<"}">>>>)), {}, {})}

TokensOf(properties) ==
  LET listed(i) == (IF i = 1 THEN <<>> ELSE <<<<",">>>>) \o properties[i].tokens
  IN  <<<<"{">>, <<"application">>, <<",">>, <<"rabbit">>, <<",">>, <<"[">>>>
        \o FlattenSeq([i \in DOMAIN properties |-> listed(i)]) \o <<<<"]">>, <<"}">>>>

AppSeeds ==
  [kind : {"app seed"},
   properties : {<<>>} \cup {<<p>> : p \in Known} \cup {<<p[1], p[2]>> : p \in Known \X Known}]

Comment == <<"%", "\"", "\n">>

(* What stands before token at, or before each of them, when at is 0; and the *)
(* number of tokens of a file that is all there.                               *)
AppQuestions(seed) ==
  LET n == Len(TokensOf(seed.properties))
  IN  {q \in [kind : {"app"}, properties : {seed.properties}, gap : {<<" ">>, Comment}, at : 0..n, tokens : 0..n] :
         (q.at # 0 => q.gap = Comment /\ q.tokens = n) /\ (q.tokens # n => q.gap = <<" ">>)
         /\ (q.at = 0 /\ Len(q.properties) = 2 => q.gap = <<" ">>)}

TextOf(q) ==
  LET tokens == TokensOf(q.properties)
      spaced(i) == IF q.at \in {0, i} THEN q.gap \o tokens[i] ELSE tokens[i]
  IN  FlattenSeq([i \in 1..q.tokens |-> spaced(i)])

(* An application is read with what it starts before itself and with its       *)
(* modules, whatever its other properties say and wherever a comment stands,   *)
(* and a file that ends early is not read as one that lists less.              *)
AppsReadBack(q) ==
  LET all(of(_)) == UNION {of(p) : p \in ToSet(q.properties)}
  IN  ParseAppSrc(TextOf(q)) =
        IF q.tokens < Len(TokensOf(q.properties)) THEN Null
        ELSE [name |-> "rabbit", applications |-> all(LAMBDA p : p.applications),
              modules |-> all(LAMBDA p : p.modules)]

-----------------------------------------------------------------------------
Path == <<"rabbitmq-components.mk">>

Set(name, words) == [name |-> name, words |-> words]

LineOf == [
  ra       |-> Set(<<"ra">>, <<"hex", <<"1">>>>),
  ra2      |-> Set(<<"ra">>, <<"hex", <<"v", "1">>, <<"#">>>>),
  raGit    |-> Set(<<"ra">>, <<"git", <<"url">>, <<"v", "1">>>>),
  raUrl    |-> Set(<<"ra">>, <<"git", <<"url">>>>),
  raBranch |-> Set(<<"ra", "_branch">>, <<"git", <<"url">>, <<"main">>>>),
  cowboy   |-> Set(<<"cowboy">>, <<"git_rmq", <<"cowboy">>, <<"2">>>>),
  cowboy2  |-> Set(<<"cowboy">>, <<"git_rmq", <<"cowboy">>, <<"v", "2">>>>),
  local    |-> Set(<<"local">>, <<"cp", <<"dir">>, <<"1">>>>),
  comment  |-> Set(<<>>, <<>>)]

PinsIn(file) == ParseComponentsMk([i \in DOMAIN file |-> LineOf[file[i]]])

(* A name is pinned once. *)
PinFiles ==
  {f \in UNION {[1..n -> DOMAIN LineOf] : n \in 0..2} : Len(PinsIn(f)) = Cardinality(NamesIn(PinsIn(f)))}

PinSeeds == [kind : {"pin seed"}, old : PinFiles]
PinQuestions(seed) == [kind : {"pin"}, old : {seed.old}, new : PinFiles]

D == INSTANCE Patches

(* The lines between what both files begin with and what both end with. *)
ChangeOf(old, new) ==
  LET most == Min({Len(old), Len(new)})
      head == Max({n \in 0..most : SubSeq(old, 1, n) = SubSeq(new, 1, n)})
      same(n) == SubSeq(old, Len(old) - n + 1, Len(old)) = SubSeq(new, Len(new) - n + 1, Len(new))
      tail == Max({n \in 0..(most - head) : same(n)})
  IN  IF old = new THEN <<>> ELSE <<D!Change(head, Len(old) - tail, head, Len(new) - tail)>>

Bumps(old, new) ==
  DetectPinBumps(D!Parse(D!AppendUnifiedDiff(Path, old, new, ChangeOf(old, new))), Path, LineOf)

Prefixed == [ra |-> <<"v">>]

(* What a patch bumps is what `series pins` and the diagnostic of a check say  *)
(* of the file before and after it, lines that only moved are no bump, and the *)
(* two branches are beside each other the other way round as well.  A release  *)
(* leads to a tag of the project.                                              *)
BumpsAreDivergences(q) ==
  LET old == PinsIn(q.old)
      new == PinsIn(q.new)
      sides == Divergence(new, old)
      back == Divergence(old, new)
      pin(pins, n) == IF n \in NamesIn(pins) THEN ByName(pins)[n] ELSE Null
  IN  /\ Bumps(q.old, q.new)
           = {[dep |-> n, from |-> pin(old, n), to |-> pin(new, n)] : n \in sides.diverged \cup sides.onlyOnBranch}
      /\ back = [diverged |-> sides.diverged, onlyOnBranch |-> sides.onlyOnAgainst,
                 onlyOnAgainst |-> sides.onlyOnBranch]
      /\ DivergenceFor(old, [pins |-> new, apps |-> <<>>, touched |-> {<<>>}]) = sides.diverged
      /\ NamesIn(old) \cup NamesIn(new) \subseteq {"ra", "cowboy"}
      /\ \A b \in Bumps(q.old, q.new) :
           IF b.dep = "ra" THEN BumpTarget(Prefixed, b).tag = <<"v", "1">> ELSE BumpTarget(Prefixed, b) = Null

-----------------------------------------------------------------------------
(* The applications of a commit: rabbit with one of its own under its tests,   *)
(* and web, which has its file beside its sources' directory.  A commit may    *)
(* have no file of pins.                                                       *)
Apps(starts) ==
  <<[name |-> "rabbit", dir |-> <<"deps", "rabbit", "src">>, applications |-> starts[1]],
    [name |-> "helper", dir |-> <<"deps", "rabbit", "test">>, applications |-> starts[2]],
    [name |-> "web", dir |-> <<"deps", "web">>, applications |-> starts[3]]>>

Paths == {<<"deps", "rabbit", "priv", "a">>, <<"deps", "rabbit", "test", "a">>, <<"deps", "web", "ebin", "a">>, <<"a">>}

OwnerOf(path) ==
  CASE path = <<"a">> -> {} [] path[2] = "web" -> {"web"}
    [] path[3] = "test" -> {"helper"} [] OTHER -> {"rabbit"}

Pins(names, version) == SetToSeq({[name |-> n, source |-> "hex", version |-> version] : n \in names})

ReachSeeds ==
  [kind : {"reach seed"},
   starts : (SUBSET {"helper", "cowboy"}) \X (SUBSET {"web", "rabbit"}) \X (SUBSET {"rabbit", "cowboy"})]

CommitsOf(seed, pinned, touches) ==
  [pins : {Pins(pinned, <<"2">>) \o Pins({"rabbit", "absent"}, <<"1">>)}, apps : {Apps(seed.starts)}, touched : touches]

\* Two commits, each checked twice in turns.
ReachQuestions(seed) ==
  {[kind |-> "reach", target |-> Pins({"cowboy", "web", "ra", "rabbit"}, <<"1">>),
    commits |-> <<c, o>>, batch |-> <<1, 2, 1, 2>>] :
     c \in UNION {CommitsOf(seed, pinned, SUBSET Paths) : pinned \in {{}, {"cowboy"}, {"cowboy", "web", "ra"}}},
     o \in CommitsOf(seed, {"cowboy", "web"}, SUBSET {<<"a">>, <<"deps", "web", "ebin", "a">>})
             \cup {[pins |-> Null, apps |-> <<>>, touched |-> {}]}}

OwnersAreFound(q) ==
  \A path \in Paths : {ApplicationOfPath(q.commits[1].apps, path)} \ {Null} = OwnerOf(path)

(* The first of the deepest applications whose directory a path is in. *)
OwnersOf(apps, path) ==
  LET root(i) == AppRootDir(apps[i].dir)
      holding == {i \in DOMAIN apps : IsPrefix(root(i), path)}
      nearer(j, i) == Len(root(j)) > Len(root(i)) \/ (Len(root(j)) = Len(root(i)) /\ j < i)
  IN  {apps[i].name : i \in {i \in holding : \A j \in holding : ~nearer(j, i)}}

(* What is named by the applications that are touched, or reached from them:   *)
(* the least set that holds them and what each of its members starts, the last *)
(* of a name being the one.                                                    *)
Reached(apps, touched) ==
  LET is(i) == \A j \in DOMAIN apps : apps[j].name = apps[i].name => j <= i
      all == touched \cup UNION {apps[i].applications : i \in DOMAIN apps}
      closed(S) == touched \subseteq S /\ \A i \in DOMAIN apps : apps[i].name \in S /\ is(i) => apps[i].applications \subseteq S
  IN  {n \in all : \A S \in SUBSET all : closed(S) => n \in S}

(* The names that are pinned as another than the last of the target's.         *)
Differing(target, pins) ==
  LET is(i) == \A j \in DOMAIN target : target[j].name = target[i].name => j <= i
      other(p) == \E i \in DOMAIN target : target[i].name = p.name /\ is(i) /\ target[i] # p
  IN  IF pins = Null THEN {} ELSE {p.name : p \in {p \in ToSet(pins) : other(p)}}

ToTell(target, commit) ==
  LET owners == UNION {OwnersOf(commit.apps, path) : path \in commit.touched}
      differing == Differing(target, commit.pins)
  IN  IF owners = {} THEN differing ELSE differing \cap Reached(commit.apps, owners)

(* Each time a commit is checked the pins that differ and that its own         *)
(* applications reach are told, or all that differ when it touches none,       *)
(* whichever commit of the batch was checked before it.                        *)
DivergenceIsReached(q) ==
  LET run[i \in 0..Len(q.batch)] ==
        IF i = 0 THEN [answer |-> {}, memo |-> [sha \in {} |-> {}]]
        ELSE LET before == run[i - 1]
             IN  Diverging(q.target, before.memo, q.batch[i], q.commits[q.batch[i]])
  IN  \A i \in 1..Len(q.batch) : run[i].answer = ToTell(q.target, q.commits[q.batch[i]])
=============================================================================
