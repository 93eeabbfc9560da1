----------------------------- MODULE MCPackets -----------------------------
(***************************************************************************)
(* What a packet goes through besides its handlers, for TLC: the framing   *)
(* of the packets, and the two conversions that are functions of their     *)
(* input, of the elements a packet carries and of the password a user      *)
(* types.  The three share no state, so that a behaviour is one of the     *)
(* framing's, of the element's or of the digest's.                         *)
(***************************************************************************)
EXTENDS MCFraming, ElementCodec, Sha256

VARIABLE machine

allvars == <<vars, element, hashvars, machine>>

PacketsInit ==
  /\ Init /\ ElementInit /\ HashInit
  /\ machine \in {"framing", "element", "digest"}
  /\ machine # "framing" => keeps

PacketsNext ==
  /\ \/ machine = "framing" /\ Next        /\ UNCHANGED <<element, hashvars>>
     \/ machine = "element" /\ ElementNext /\ UNCHANGED <<vars, hashvars>>
     \/ machine = "digest"  /\ HashNext    /\ UNCHANGED <<vars, element>>
  /\ UNCHANGED machine

ReadingStep ==
  machine = "framing" /\ ReaderStep /\ UNCHANGED <<element, hashvars, machine>>

PacketsSpec == PacketsInit /\ [][PacketsNext]_allvars /\ WF_allvars(ReadingStep)
=============================================================================
