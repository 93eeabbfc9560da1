------------------------------ MODULE Framing ------------------------------
(***************************************************************************)
(* How packets travel over one TLS connection, in one direction.  A packet *)
(* is its length as a varint, the message and one newline byte             *)
(* (packet.cpp:26).  The receiver calls read_until for a newline and then  *)
(* parses by the length: two framings that need not agree, because the     *)
(* bytes of the length and of the message may be newlines themselves (10   *)
(* is also the protobuf tag of every message's first length-delimited      *)
(* field).                                                                 *)
(*                                                                         *)
(* TLS carries each write as records, and one read_some returns bytes of   *)
(* one record.  The server and handle_receive read every packet into a     *)
(* fresh buffer and drop what the parser leaves; handle_receive_async      *)
(* reads into the member input_buffer_, which keeps it.  The sizes 512     *)
(* (first read), 65536 (largest read), 16384 (record) and 8192 (block of   *)
(* an IstreamInputStream) are the constants below, scaled down.            *)
(***************************************************************************)
EXTENDS Naturals, Sequences

CONSTANTS
  Block,        \* bytes the first read of a fresh buffer asks for
  MaxBlock,     \* the most that a later read may ask for
  Record,       \* bytes of a TLS record
  Drain,        \* bytes the parser takes out of the buffer at a time
  Shapes,       \* packets: their size and the places of their newlines
  MaxPackets    \* bound on the packets sent

ASSUME SizesAssumption ==
  /\ Block \in Nat \ {0} /\ Record \in Nat \ {0} /\ Drain \in Nat \ {0}
  /\ MaxBlock \in Nat /\ Block <= MaxBlock /\ Block <= Record /\ Block <= Drain

\* serialize appends a newline to every packet.
ASSUME ShapesAssumption ==
  \A s \in Shapes : /\ s.size \in Nat \ {0, 1}
                    /\ s.newlines \subseteq 1 .. s.size /\ s.size \in s.newlines

VARIABLES
  sent,         \* history: the shape of every packet written
  wire,         \* the records under way, each the bytes it holds
  buffer,       \* the bytes read and not yet parsed
  keeps,        \* the reader is handle_receive_async
  open,         \* the connection is up
  reader,       \* the reader's loop goes on or has ended
  pieces        \* history: what each parse_packet got to see

vars == <<sent, wire, buffer, keeps, open, reader, pieces>>

\* A byte is the packet it belongs to and its place: 1 is the length, the
\* last is the newline that serialize appends, the message is in between.
Bytes(p, size) == [i \in 1 .. size |-> <<p, i>>]

Least(m, n) == IF m <= n THEN m ELSE n

Records(bytes) ==
  [i \in 1 .. ((Len(bytes) + Record - 1) \div Record) |->
     SubSeq(bytes, (i - 1) * Record + 1, Least(i * Record, Len(bytes)))]

IsNewline(byte) == byte[2] \in sent[byte[1]].newlines

\* read_until returns: the buffer holds a newline.
Matched == \E i \in DOMAIN buffer : IsNewline(buffer[i])

\* The buffer starts with a packet, of which the length and message are here.
HoldsWhole ==
  LET size == sent[buffer[1][1]].size
  IN  /\ Len(buffer) >= size - 1
      /\ \A i \in 1 .. size - 1 : buffer[i] = <<buffer[1][1], i>>

Kind == IF HoldsWhole THEN "whole" ELSE IF buffer[1][2] = 1 THEN "head" ELSE "rest"

Init ==
  /\ sent = <<>> /\ wire = <<>> /\ buffer = <<>> /\ pieces = <<>>
  /\ keeps \in BOOLEAN
  /\ open = TRUE
  /\ reader = "reading"

-----------------------------------------------------------------------------
\* Mistake: serialize does not end the packet with a newline.
SendUnterminated(s) ==
  /\ open
  /\ Len(sent) < MaxPackets
  /\ sent' = Append(sent, [s EXCEPT !.newlines = @ \ {s.size}])
  /\ wire' = wire \o Records(Bytes(Len(sent) + 1, s.size))
  /\ UNCHANGED <<buffer, keeps, open, reader, pieces>>

\* send_packet: serialize into a streambuf and write all of it.
Send(s) ==
  /\ open
  /\ Len(sent) < MaxPackets
  /\ sent' = Append(sent, s)
  /\ wire' = wire \o Records(Bytes(Len(sent) + 1, s.size))
  /\ UNCHANGED <<buffer, keeps, open, reader, pieces>>

\* Mistake: the connection is a plain socket, a stream without records.
ReadStream ==
  /\ reader = "reading"
  /\ ~Matched
  /\ wire # <<>>
  /\ \E room \in Block .. MaxBlock :
       LET all == wire[1] \o IF Len(wire) > 1 THEN wire[2] ELSE <<>>
           n   == Least(room, Len(all))
       IN  /\ buffer' = buffer \o SubSeq(all, 1, n)
           /\ wire' = (IF n = Len(all) THEN <<>> ELSE <<SubSeq(all, n + 1, Len(all))>>)
                        \o SubSeq(wire, 3, Len(wire))
  /\ UNCHANGED <<sent, keeps, open, reader, pieces>>

\* One read_some of read_until, into a buffer that holds no newline yet.  A
\* fresh streambuf is asked for Block bytes; one that grew has spare room.
Read ==
  /\ reader = "reading"
  /\ ~Matched
  /\ wire # <<>>
  /\ \E room \in Block .. IF buffer = <<>> /\ ~keeps THEN Block ELSE MaxBlock :
       LET n == Least(room, Len(wire[1]))
       IN  /\ buffer' = buffer \o SubSeq(wire[1], 1, n)
           /\ wire' = IF n = Len(wire[1]) THEN Tail(wire)
                      ELSE [wire EXCEPT ![1] = SubSeq(@, n + 1, Len(@))]
  /\ UNCHANGED <<sent, keeps, open, reader, pieces>>

\* Mistake: the parser's length does not count the newline, and only what it
\* parsed leaves the buffer.
DrainedByLength ==
  IF Kind = "whole" THEN {sent[buffer[1][1]].size - 1} ELSE {Len(buffer)}

\* The bytes parse_packet takes out of the buffer: whole blocks, until it has
\* the length it read.  A length read from the middle of a packet is any.
Drained ==
  LET blocks == {n \in 1 .. Len(buffer) : n % Drain = 0 \/ n = Len(buffer)}
  IN  CASE Kind = "whole" -> {n \in blocks :
                                /\ n >= sent[buffer[1][1]].size - 1
                                /\ n - Drain < sent[buffer[1][1]].size - 1}
        [] Kind = "head"  -> {Len(buffer)}
        [] Kind = "rest"  -> blocks

\* parse_packet and the handler.  A failed ReadRaw or ParseFromString is only
\* logged and the packet handled as far as it was understood: whatever its
\* type comes out as, the loop goes on, or ends by an exception.
Parse ==
  /\ reader = "reading"
  /\ Matched
  /\ pieces' = Append(pieces, [pkt |-> buffer[1][1], kind |-> Kind])
  /\ \E n \in Drained :
       buffer' = IF keeps THEN SubSeq(buffer, n + 1, Len(buffer)) ELSE <<>>
  /\ reader' \in {"reading", "ended"}
  /\ UNCHANGED <<sent, wire, keeps, open>>

\* The connection breaks: the last n records are lost.
Break ==
  /\ open
  /\ open' = FALSE
  /\ \E n \in 0 .. Len(wire) : wire' = SubSeq(wire, 1, n)
  /\ UNCHANGED <<sent, buffer, keeps, reader, pieces>>

\* read_until fails with eof or an error; what it had read is not looked at.
ReadFails ==
  /\ reader = "reading"
  /\ ~Matched
  /\ ~open /\ wire = <<>>
  /\ reader' = "ended"
  /\ UNCHANGED <<sent, wire, buffer, keeps, open, pieces>>

ReaderStep == Read \/ Parse \/ ReadFails

Next == (\E s \in Shapes : Send(s)) \/ Break \/ ReaderStep

Spec == Init /\ [][Next]_vars

\* The reading thread goes on while it can: bytes that arrived are read.
FairSpec == Spec /\ WF_vars(ReaderStep)

-----------------------------------------------------------------------------
PacketNos == 1 .. Len(sent)

\* A buffer never holds bytes of two packets, although the receiver takes as
\* many bytes as there are and drops what is left over: otherwise it would
\* drop the start of the next packet.  It rests on one packet per TLS write,
\* on the newline at the end and on the order parse and read take turns in.
PacketsDoNotMix ==
  \A i \in 1 .. Len(buffer) - 1 :
    buffer[i + 1] = <<buffer[i][1], buffer[i][2] + 1>>

\* However badly packets are cut, the reader is back in step at the next
\* one: each packet is begun exactly once, in the order sent, and a rest
\* belongs to the packet begun last.
ResumesAtNextPacket ==
  /\ pieces # <<>> => pieces[1].pkt = 1 /\ pieces[1].kind # "rest"
  /\ \A i \in 1 .. Len(pieces) - 1 :
       pieces[i + 1].pkt =
         pieces[i].pkt + IF pieces[i + 1].kind = "rest" THEN 0 ELSE 1

\* A packet is cut only when it is longer than the first read and a byte
\* before its last is a newline; what is left of a packet is taken for
\* another one only then, or when the message fills the parser's blocks.
CutOnlyAtNewlines ==
  \A i \in DOMAIN pieces :
    LET s == sent[pieces[i].pkt]
    IN  \/ s.size > Block /\ s.newlines # {s.size}
        \/ pieces[i].kind = "whole"
        \/ pieces[i].kind = "rest" /\ keeps /\ (s.size - 1) % Drain = 0

\* No packet waits for a newline that is not to come: what was sent is read,
\* unless the connection breaks or the loop ended.
EveryPacketIsRead ==
  \A p \in 1 .. MaxPackets :
    p \in PacketNos ~> \/ \E i \in DOMAIN pieces : pieces[i].pkt = p
                       \/ ~open \/ reader = "ended"

\* "Extract the newline-delimited message from the buffer." (client.cpp:82)
EveryPieceIsAPacket == \A i \in DOMAIN pieces : pieces[i].kind = "whole"
=============================================================================
