------------------------- MODULE MCWhiteboardServer -------------------------
(* Instances of WhiteboardServer for TLC.  Workers, boards and elements are  *)
(* model values; elements, and in the runs with one kind of start also       *)
(* workers, are interchangeable when no liveness is checked.                 *)
EXTENDS WhiteboardServer, TLC

\* A board that user 1 owns and opened a session on, then left by a crash.
OneShared ==
  {[NoDoc EXCEPT !.state = "stored", !.uid = 1, !.shared = TRUE,
                 !.active = {1}]}

\* The same board with user 2 active on it as well.
OneSharedByTwo ==
  {[NoDoc EXCEPT !.state = "stored", !.uid = 1, !.shared = TRUE,
                 !.active = {1, 2}]}

\* A board of user 1 with no session yet, one with user 1 active, and one
\* whose session everybody has left.
AnyStart ==
  {NoDoc} \cup OneShared \cup
  {[NoDoc EXCEPT !.state = "stored", !.uid = 1],
   [NoDoc EXCEPT !.state = "stored", !.uid = 1, !.shared = TRUE]}

Sessions    == {"createSession", "joinSession", "quitSession"}
Members     == {"joinSession", "quitSession"}
Drawing     == {"joinSession", "quitSession", "addElement"}
AllTypes    == Sessions \cup {"createWhiteboard", "addElement", "modifyElement"}

Symmetry == Permutations(Workers) \cup Permutations(Elements)
=============================================================================
