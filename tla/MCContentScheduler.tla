--------------------------- MODULE MCContentScheduler ---------------------------
(* Small instances of ContentScheduler: actions that meet in one minute.       *)
EXTENDS ContentScheduler

CONSTANTS a1, a2

PostsAndComments == {<<a1, "post">>, <<a1, "comment">>, <<a2, "post">>}
PostsOnly == {<<a1, "post">>}
FirstMinute == [k \in Keys |-> 0]
=============================================================================
