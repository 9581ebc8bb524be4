--------------------------- MODULE SnapshotTable ---------------------------
(***************************************************************************)
(* What the snapshot store is to its users: for each tag, the edition of   *)
(* its snapshot or none.  A snapshot is captured by the running extractor  *)
(* in the running format where there was none, or in the place of one that *)
(* a user asked to replace; it is reformatted without being captured       *)
(* again, or dropped to be replaced.                                       *)
(***************************************************************************)
CONSTANTS Tags, Extractors, Formats, Extractor, Format, None

VARIABLES
    edition,  \* of each tag's snapshot, None when there is none
    asked     \* the tags whose snapshot is to be replaced, as the users please

Editions == [tag : Tags, extractor : Extractors, format : Formats]

Init == /\ edition \in [Tags -> Editions \cup {None}]
        /\ \A t \in Tags : edition[t] # None => edition[t].tag = t
        /\ asked \in SUBSET Tags

Capture(t) ==
    /\ edition[t] = None \/ t \in asked
    /\ edition' = [edition EXCEPT
                     ![t] = [tag |-> t, extractor |-> Extractor, format |-> Format]]

Reformat(t) ==
    /\ edition[t] # None
    /\ edition' = [edition EXCEPT ![t].format = Format]

Drop(t) ==
    /\ edition[t] # None /\ t \in asked
    /\ edition' = [edition EXCEPT ![t] = None]

Next == /\ \/ \E t \in Tags : Capture(t) \/ Reformat(t) \/ Drop(t)
           \/ UNCHANGED edition
        /\ asked' \in SUBSET Tags

Spec == Init /\ [][Next]_<<edition, asked>>
=============================================================================
