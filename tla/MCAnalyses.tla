----------------------------- MODULE MCAnalyses -----------------------------
(***************************************************************************)
(* The sequential analyses, asked one question after another: a state is   *)
(* the seed of a family of questions, or one question.  Each property is   *)
(* about the questions of its own family, which the module of that family  *)
(* enumerates; five of them are in Analyses, for theorems.                *)
(***************************************************************************)
EXTENDS Analyses

CONSTANTS MaxIncludeDepth, MaxNesting, WrapWidth

P == INSTANCE MCPatch
C == INSTANCE MCCallSites
A == INSTANCE MCSourceAttributes
V == INSTANCE MCEvaluation
F == INSTANCE MCSnapshotFormat
R == INSTANCE MCTargetReferences
Q == INSTANCE MCSnapshotQueries

LOCAL Remains == [fun |-> "un", if |-> "f", F |-> Null, Mod |-> "od"]
X == INSTANCE MCXref WITH Rest <- Remains

Init ==
  \/ asked \in P!PatchSeeds
  \/ asked \in C!TextSeeds
  \/ asked \in V!ShapeSeeds
  \/ asked \in V!ReferenceSeeds
  \/ asked \in V!CallbackSeeds
  \/ asked \in X!RelationSeeds
  \/ asked \in X!ProgramSeeds
  \/ asked \in X!TreeSeeds
  \/ asked \in V!PlanSeeds
  \/ \E seed \in Q!QuerySeeds : asked = seed
  \/ \E seed \in D!CallSeeds : asked = seed
  \/ asked \in F!FileSeeds
  \/ asked \in R!TargetSeeds
  \/ asked \in F!SignatureSeeds
  \/ \E seed \in C!SiteSeeds : asked = seed
  \/ \E seed \in A!SourceSeeds : asked = seed
  \/ \E seed \in G!HistorySeeds : asked = seed
  \/ \E seed \in G!MergeSeeds : asked = seed
  \/ \E seed \in G!PrefixSeeds : asked = seed
  \/ \E seed \in P!DiffSeeds : asked = seed
  \/ \E seed \in P!TouchSeeds : asked = seed
  \/ \E seed \in B!AppSeeds : asked = seed
  \/ \E seed \in B!PinSeeds : asked = seed
  \/ \E seed \in B!ReachSeeds : asked = seed

AskPatch == asked.kind = "base" /\ asked' \in P!PatchQuestions(asked)
AskText == asked.kind = "text" /\ asked' \in C!TextQuestions(asked)
AskSite == asked.kind = "site seed" /\ \E site \in C!SiteQuestions(asked) : asked' = site
AskSource == asked.kind = "source seed" /\ \E source \in A!SourceQuestions(asked) : asked' = source
AskShapes == asked.kind \in {"args", "returns"} /\ asked' \in V!ShapeQuestions(asked)
AskReferences == asked.kind = "references" /\ asked' \in V!ReferenceQuestions(asked)
AskCallbacks == asked.kind = "callbacks" /\ asked' \in V!CallbackQuestions(asked)
AskClosure == asked.kind = "relation" /\ asked' \in X!RelationQuestions(asked)
AskProgram == asked.kind = "program" /\ asked' \in X!ProgramQuestions(asked)
AskTree == asked.kind = "tree seed" /\ asked' \in X!TreeQuestions(asked)
AskPlan == asked.kind = "plan" /\ asked' \in V!PlanQuestions(asked)
AskFile == asked.kind = "file seed" /\ asked' \in F!FileQuestions(asked)
AskSignature == asked.kind = "signature seed" /\ asked' \in F!SignatureQuestions(asked)
AskTarget == asked.kind = "reference seed" /\ asked' \in R!TargetQuestions(asked)
AskQuery == asked.kind = "query seed" /\ asked' \in Q!QueryQuestions(asked)
AskCall == asked.kind = "call seed" /\ \E call \in D!CallQuestions(asked) : asked' = call
AskHistory == asked.kind = "history seed" /\ \E question \in G!HistoryQuestions(asked) : asked' = question
AskMerge == asked.kind = "merge seed" /\ \E question \in G!MergeQuestions(asked) : asked' = question
AskPrefix == asked.kind = "prefix seed" /\ \E question \in G!PrefixQuestions(asked) : asked' = question
AskDiff == asked.kind = "diff seed" /\ \E question \in P!DiffQuestions(asked) : asked' = question
AskTouch == asked.kind = "touch seed" /\ \E question \in P!TouchQuestions(asked) : asked' = question
AskApp == asked.kind = "app seed" /\ \E question \in B!AppQuestions(asked) : asked' = question
AskPins == asked.kind = "pin seed" /\ \E question \in B!PinQuestions(asked) : asked' = question
AskReach == asked.kind = "reach seed" /\ \E question \in B!ReachQuestions(asked) : asked' = question

Next ==
  \/ AskPatch
  \/ AskText
  \/ AskSite
  \/ AskSource
  \/ AskShapes
  \/ AskReferences
  \/ AskCallbacks
  \/ AskClosure
  \/ AskProgram
  \/ AskTree
  \/ AskPlan
  \/ AskFile
  \/ AskSignature
  \/ AskTarget
  \/ AskQuery
  \/ AskCall
  \/ AskHistory
  \/ AskMerge
  \/ AskPrefix
  \/ AskDiff
  \/ AskTouch
  \/ AskApp
  \/ AskPins
  \/ AskReach

Spec == Init /\ [][Next]_asked

-----------------------------------------------------------------------------
(* A diff reads back as what was printed, and the one the program writes       *)
(* between two commits as what was done; and what a patch is said to touch is   *)
(* what it touches (MCPatch).                                                  *)
PatchesReadBack ==
  /\ asked.kind = "patch" => P!PatchesReadBack(asked)
  /\ asked.kind = "diff" => P!DiffsReadBack(asked)
  /\ asked.kind = "touch" => P!TouchIsRead(asked)

(* A patch is forecast to apply exactly when it does (MCPatch). *)
ForecastsHold == asked.kind = "patch" => P!ForecastsHold(asked)

(* Arguments and elements are counted as Erlang counts them, and a hunk refers *)
(* to what its forms do, however they are laid out (MCCallSites); and a source *)
(* says what its attributes state (MCSourceAttributes).                        *)
SourceIsRead ==
  /\ asked.kind = "text" => C!ArgumentsAreRead(asked)
  /\ asked.kind = "site" => C!SitesAreRead(asked)
  /\ asked.kind = "source" => A!SourceIsReadIn(asked)

(* The closure of a relation is reachability; the headers that a source         *)
(* includes are folded into it; and the analyses answer for what the program   *)
(* runs (MCXref).                                                              *)
XrefAnswersHold ==
  /\ asked.kind = "closure" => X!ClosureIsReach(asked)
  /\ asked.kind = "tree" => X!TreesAreRead(asked)
  /\ asked.kind = "xref" => X!XrefAnswersHold(asked)

(* A snapshot reads back from its file, and a signature from its one text,    *)
(* however it was laid out (MCSnapshotFormat); so does the file of an          *)
(* application (MCDepPins).                                                    *)
FilesReadBack ==
  /\ asked.kind = "file" => F!FilesReadBackIn(asked)
  /\ asked.kind = "signature" => F!SignaturesHaveOneTextIn(asked)
  /\ asked.kind = "app" => B!AppsReadBack(asked)

(* What a patch refers to on its target is reported missing when it will be,   *)
(* and only then (MCTargetReferences); what it has of a commit already is       *)
(* found where the code says it looks (MCGitHistory); and the pins of two       *)
(* commits differ in what a patch between them bumps (MCDepPins).               *)
TargetAnswersHold ==
  /\ asked.kind = "reference" => R!TargetAnswersHold(asked)
  /\ asked.kind = "history" => G!MatchesHold(asked)
  /\ asked.kind = "pin" => B!BumpsAreDivergences(asked)
  /\ asked.kind = "reach" => B!OwnersAreFound(asked)


(* A call for a range gets its payload (MCDriverApi). *)
RangeCallsAreAnswered == asked.kind = "call" => D!RangeCallsAreAnswered(asked)
=============================================================================
