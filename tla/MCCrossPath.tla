---------------------------- MODULE MCCrossPath ----------------------------
(***************************************************************************)
(* Model-checking instance of CrossPath: every alert with priority P1 or  *)
(* P5 (no severity); tag lists made of the "monitor" marker Datadog puts   *)
(* in "$TAGS" and up to two tags among plain key:value tags, a duplicate   *)
(* key, a value holding ':' and a bare tag; no, one or two groups.         *)
(***************************************************************************)
EXTENDS CrossPath, TLC

CONSTANTS g1, g2

TagChoices ==
    {<<"env", "prod">>, <<"env", "dev">>, <<"image", "repo", "v1">>,
     <<"prod">>}

MCTagLists == {<<Marker>> \o s : s \in BoundedSeq(TagChoices, 2)}

\* Well-formed tags without the "monitor" marker: an empty "$TAGS", or an
\* event whose tags Datadog did not mark.
MCUnmarkedTagLists == {<<>>, <<<<"env", "prod">>>>}

MCAllTagLists == MCTagLists \cup MCUnmarkedTagLists

MCGroupLists == {<<>>, <<g1>>, <<g1, g2>>}

=============================================================================
