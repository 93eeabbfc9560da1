----------------------------- MODULE MCFraming -----------------------------
EXTENDS Framing

\* Packets below and above every size: one read, several reads, one that
\* fills the parser's blocks, two records; newlines at the end only, in the
\* length, in the message, in both.
MCShapes ==
  {[size |-> 3, newlines |-> {3}],    [size |-> 3, newlines |-> {1, 3}],
   [size |-> 6, newlines |-> {6}],    [size |-> 6, newlines |-> {2, 6}],
   [size |-> 8, newlines |-> {3, 5, 8}], [size |-> 9, newlines |-> {9}],
   [size |-> 9, newlines |-> {4, 9}], [size |-> 11, newlines |-> {2, 11}]}
=============================================================================
