---------------------------- MODULE MCGitHistory ----------------------------
(***************************************************************************)
(* Histories of six commits in which branches are cut, merged and merged   *)
(* both ways; a candidate, and a commit of the target that may have picked *)
(* it; the branch of a pull request; and the objects a prefix may name.    *)
(***************************************************************************)
EXTENDS GitHistory, TLC

Shapes == {
  <<<<>>, <<1>>, <<2>>, <<1>>, <<4>>, <<5>>>>,       \* a release branch behind the main one
  <<<<>>, <<1>>, <<1>>, <<3, 2>>, <<4>>, <<2>>>>,    \* cut from a branch that was merged
  <<<<>>, <<1>>, <<1>>, <<2, 3>>, <<3, 2>>, <<5>>>>, \* merged both ways
  <<<<>>, <<1>>, <<>>, <<3>>, <<4>>, <<5>>>>,        \* two histories
  <<<<>>, <<1>>, <<1>>, <<2, 3>>, <<1>>, <<5>>>>,    \* a merge to be picked
  <<<<>>, <<1>>, <<2>>, <<2>>, <<3, 4>>, <<1, 5>>>>} \* a branch with a merge of its own

Ids == 1..6
Inner == 8    \* a commit that a merge brought in, not in the target
Elsewhere == 9

Plain(shape, c) ==
  [parents |-> shape[c], time |-> c, picked |-> <<>>, paths |-> {"src"}, patch |-> c, subject |-> Null]

HistorySeeds == [kind : {"history seed"}, shape : Shapes, tip : {5, 6}, cand : Ids]

(* How commit pick came by the patch of the candidate, and how that is told.  *)
Ways == {"none", "trailer", "trailer of inner", "trailer of origin", "half a trailer", "patch", "patch of nothing"}

HistoryQuestions(seed) ==
  {q \in [kind : {"history"}, shape : {seed.shape}, tip : {seed.tip}, cand : {seed.cand}, pick : Ids,
          way : Ways, early : BOOLEAN, origin : {Null, 2, Elsewhere}, limit : {1, 9}, clone : {"whole", "shallow", "of the target"}] :
     /\ q.cand # q.tip /\ q.pick # q.cand
     /\ (q.way = "none" => q.pick = q.tip) /\ (q.origin # Null \/ q.clone # "whole" => q.limit = 9)
     /\ (q.clone = "shallow" => q.origin = Null /\ 1 \notin {q.pick, q.cand})}

Message(q) ==
  CASE q.way = "trailer" -> <<[names |-> q.cand, whole |-> TRUE]>>
    [] q.way = "trailer of inner" ->
         <<[names |-> Elsewhere + 1, whole |-> TRUE], [names |-> Inner, whole |-> TRUE]>>
    [] q.way = "trailer of origin" -> <<[names |-> Elsewhere, whole |-> TRUE]>>
    [] q.way = "half a trailer" -> <<[names |-> q.cand, whole |-> FALSE]>>
    [] OTHER -> <<>>

(* An early pick has a clock that is behind every other. *)
Source(q) ==
  [c \in Ids |->
     IF c = q.pick
     THEN [Plain(q.shape, c) EXCEPT !.picked = Message(q), !.time = IF q.early THEN 0 - Slack ELSE @,
             !.patch = CASE q.way = "patch" -> q.cand [] q.way = "patch of nothing" -> Null [] OTHER -> @]
     ELSE IF c = q.cand
     THEN [Plain(q.shape, c) EXCEPT !.picked = IF q.origin = Null THEN <<>> ELSE <<[names |-> q.origin, whole |-> TRUE]>>,
             !.patch = IF q.way = "patch of nothing" THEN Null ELSE @]
     ELSE Plain(q.shape, c)]

(* A shallow clone ends before commit 1; a clone of the target alone does not  *)
(* have a candidate that only the source has.                                  *)
Cloned(q, full) ==
  [c \in CASE q.clone = "whole" -> Ids [] q.clone = "shallow" -> Ids \ {1} [] OTHER -> Ancestors(full, q.tip)
     |-> full[c]]

Target(q) == Cloned(q, Source(q))

CandidateOf(q, c) ==
  Candidate(Source(q), c, [inner |-> IF c = q.cand THEN {Inner} ELSE {}, patch |-> Source(q)[c].patch,
                           touched |-> IF Source(q)[c].patch = Null THEN {} ELSE {"src"}])

(* The batch: another commit of the source first, then the candidate. *)
Earlier(q) == CHOOSE c \in Ids : c \notin {q.cand, q.tip}

OrNull(bases) == IF bases = {} THEN {Null} ELSE bases

Bases(q, repo, c) == OrNull(IF c \in DOMAIN repo THEN MergeBases(repo, c, q.tip) ELSE {})

(* The index of the first commit's window is there for the second. *)
Answers(q, repo, bases) ==
  LET probe == [repo |-> repo, tip |-> q.tip, limit |-> q.limit]
      before == {Detect(probe, <<>>, CandidateOf(q, Earlier(q)), b).indexes : b \in Bases(q, repo, Earlier(q))}
  IN  {Detect(probe, indexes, CandidateOf(q, q.cand), b).answer : indexes \in before, b \in bases}

(* What names or repeats the candidate. *)
TellsIn(q, repo, c) ==
  \/ \E t \in ToSet(repo[c].picked) : t.whole /\ t.names \in {q.cand, Inner, q.origin}
  \/ repo[c].patch = repo[q.cand].patch /\ repo[c].patch # Null

Tells(q, c) == TellsIn(q, Source(q), c)

(* The commits of the target's own line since the candidate's was left. *)
Line(q, repo, chain) ==
  {i \in DOMAIN chain : chain[i] \in DOMAIN repo /\ ~IsAncestor(repo, chain[i], q.cand)}

(* A match is of a commit that the target has and that is the origin, names    *)
(* the candidate or repeats its patch; it is among the newest that are looked   *)
(* at, and not one that the candidate builds on.  An origin that the target has *)
(* is found, and so is a commit of the target's own line, among the newest,     *)
(* that names or repeats the candidate: however the clocks stood when the two   *)
(* parted on that line, and if it is later than the candidate when they did     *)
(* not.  What a shallow clone does not show is not answered with no match.      *)
(* Behind a commit of another branch a walk goes on until the clocks are too    *)
(* far behind its own, and lists what is later.                                 *)
MatchesAreTold(q, repo, chain, bases, matches) ==
  \A a \in matches :
    /\ a.commit \in DOMAIN repo /\ IsAncestor(repo, a.commit, q.tip)
    /\ a.commit # q.origin =>
         /\ Tells(q, a.commit)
         /\ Cardinality(bases) = 1 => ~IsAncestor(repo, a.commit, q.cand)
         /\ bases \subseteq ToSet(chain) => \E i \in 1..q.limit : chain[i] = a.commit

(* The commits of the line that name or repeat the candidate, and are looked at. *)
Due(q, repo, chain, bases) ==
  {i \in Line(q, repo, chain) :
     /\ i <= q.limit /\ Tells(q, chain[i])
     /\ bases \subseteq ToSet(chain) \/ repo[chain[i]].time > repo[q.cand].time}

MatchesAreFound(q, repo, chain, bases, answers, found) ==
  /\ q.origin \in DOMAIN repo /\ IsAncestor(repo, q.origin, q.tip) => found
  /\ q.cand \in DOMAIN repo /\ bases # {Null} =>
       IF q.clone = "shallow" /\ ~(bases \subseteq ToSet(chain))
       THEN bases \cap ToSet(chain) = {} /\ Last(chain) \notin DOMAIN repo => answers = {Skipped("walk failed")}
       ELSE (Due(q, repo, chain, bases) # {} => found) /\ Skipped("walk failed") \notin answers
  /\ q.cand \notin DOMAIN repo => found \/ answers = {Skipped("not in the target")}

ClocksBound(q, repo, chain) ==
  q.clone = "whole" /\ ~IsAncestor(repo, q.cand, q.tip) =>
    ToSet(WalkSince(repo, q.tip, q.cand))
      = {chain[i] : i \in {i \in DOMAIN chain :
           /\ repo[chain[i]].time > repo[q.cand].time
           /\ \A j \in 1..i : repo[chain[j]].time >= repo[q.cand].time - Slack}}

MatchesAreGood(q, repo, chain, bases, answers) ==
  /\ MatchesAreTold(q, repo, chain, bases, {a \in answers : a.answer = "match"})
  /\ MatchesAreFound(q, repo, chain, bases, answers, \A a \in answers : a.answer = "match")

MatchesAlong(q, repo, chain, bases) == MatchesAreGood(q, repo, chain, bases, Answers(q, repo, bases))

MatchesIn(q, repo) ==
  /\ MatchesAlong(q, repo, FirstParents(repo, q.tip), Bases(q, repo, q.cand))
  /\ ClocksBound(q, repo, FirstParents(repo, q.tip))

MatchesHold(q) == MatchesIn(q, Target(q))

-----------------------------------------------------------------------------
(* The commits of a merge touch files a and b; a commit of its branch may have *)
(* a clock that is ahead of all others.                                        *)
MergeSeeds ==
  [kind : {"merge seed"}, shape : {s \in Shapes : \E c \in Ids : Len(s[c]) = 2},
   ahead : {Null, 2, 3}, small : {Null, "fixup"}]

MergeQuestions(seed) ==
  [kind : {"merge"}, shape : {seed.shape}, clock : {[c \in Ids |-> IF c = seed.ahead THEN 10 ELSE c]},
   subject : {[c \in Ids |-> IF c = 2 THEN "fixup" ELSE seed.small]},
   paths : {[c \in Ids |-> IF c \in DOMAIN f THEN f[c] ELSE {"a"}] : f \in [2..5 -> SUBSET {"a", "b"}]}]

MergeRepo(q) ==
  [c \in DOMAIN q.shape |->
     [Plain(q.shape, c) EXCEPT !.time = q.clock[c], !.paths = q.paths[c], !.subject = q.subject[c]]]

(* No commit is as early as one it builds on. *)
ClocksAgree(repo) == \A c \in DOMAIN repo : \A p \in Known(repo, c) : repo[p].time < repo[c].time

Verbs == {"commit", "bisect", "merge", "range_merge_commit", "batch"}

(* The commits a merge is taken apart into are those it brought in, once each, *)
(* and when the clocks agree none before one it builds on.  One that is        *)
(* set aside as bookkeeping touches some, not all, of what those before it did. *)
(* `check batch` takes for a commit what `check commit` or `check merge` does, *)
(* whichever does not refuse it, and only a commit without parents is refused  *)
(* by all.                                                                      *)
MergesAreTakenApart(q) ==
  LET repo == MergeRepo(q)
      input(c, verb) == FromParents(repo, c, verb)
      refused(c, verb) == "refused" \in DOMAIN input(c, verb)
  IN  \A c \in DOMAIN q.shape :
        LET taken == PrCommitsFor(repo, c)
            at(i) == taken[i].sha
            before(i) == UNION {PathsOf(repo, at(j)) : j \in 1..(i - 1)}
        IN  /\ taken # Null =>
                 /\ IsInjective([i \in DOMAIN taken |-> at(i)])
                 /\ {at(i) : i \in DOMAIN taken}
                      = Ancestors(repo, repo[c].parents[2]) \ Ancestors(repo, repo[c].parents[1])
                 /\ \A i, j \in DOMAIN taken :
                      i < j /\ ClocksAgree(repo) => ~IsAncestor(repo, at(j), at(i))
                 /\ \A i \in DOMAIN taken : taken[i].kind # Substantive =>
                      /\ repo[at(i)].subject # Null
                      /\ PathsOf(repo, at(i)) \subseteq before(i) /\ PathsOf(repo, at(i)) # before(i)
                 /\ input(c, "merge").base \notin {at(i) : i \in DOMAIN taken}
            /\ Len(repo[c].parents) = 1 => input(c, "batch") = input(c, "commit")
            /\ Len(repo[c].parents) > 1 => input(c, "batch") = input(c, "merge")
            /\ (\A verb \in Verbs : refused(c, verb)) <=> repo[c].parents = <<>>
            /\ ~refused(c, "batch") => input(c, "batch").base \in DOMAIN repo
            /\ refused(c, "commit") \/ refused(c, "merge")

-----------------------------------------------------------------------------
(* Ids of two digits, 0 to 2, and prefixes that leave out one or none; objects *)
(* of every kind.                                                              *)
Objects == {[kind |-> "commit"], [kind |-> "tree"], [kind |-> "tag", of |-> 4], [kind |-> "tag", of |-> 1]}

PrefixSeeds == [kind : {"prefix seed"}, others : SUBSET {0, 1, 3, 5}, span : {1, 3}]

PrefixQuestions(seed) ==
  UNION {[kind : {"prefix"}, objects : [seed.others \cup {4} -> Objects],
          prefix : {[value |-> v, span |-> seed.span]}, cap : {2}]
           : v \in IF seed.span = 1 THEN 0..5 ELSE 0..2}

(* A prefix names a commit exactly when it is the beginning of one object's id, *)
(* and that object is the commit or a tag of it; when it is the beginning of     *)
(* more it is refused with the first of them, in their order, and the count of  *)
(* all.                                                                         *)
PrefixesHold(q) ==
  LET answer == ResolveShaPrefix(q.objects, q.prefix, q.cap)
      begun == {o \in DOMAIN q.objects :
                  \E rest \in 0..(q.prefix.span - 1) : o = q.prefix.value * q.prefix.span + rest}
      is(c) == c \in DOMAIN q.objects /\ q.objects[c].kind = "commit"
  IN  /\ "commit" \in DOMAIN answer => is(answer.commit)
      /\ \A o \in begun : begun = {o} /\ is(o) => answer = [commit |-> o]
      /\ \A o \in begun : begun = {o} /\ q.objects[o].kind = "tag" /\ is(q.objects[o].of) =>
           answer = [commit |-> q.objects[o].of]
      /\ Cardinality(begun) > 1 =>
           /\ answer.total = Cardinality(begun)
           /\ Len(answer.sample) = Min({q.cap, answer.total})
           /\ \A i \in DOMAIN answer.sample :
                /\ answer.sample[i] \in begun
                /\ \A o \in begun : o < answer.sample[i] <=> \E j \in 1..(i - 1) : o = answer.sample[j]
=============================================================================
