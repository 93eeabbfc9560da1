--------------------------- MODULE MCClientSession ---------------------------
(* Instances of ClientSession for TLC: two boards, one of them shared by     *)
(* somebody else, and so few packet ids that they are used again.            *)
EXTENDS ClientSession, FiniteSets

AllTypes == {"createWhiteboard", "createSession", "joinSession", "quitSession",
             "addElement", "registerRequest", "loginRequest"}
=============================================================================
