------------------------------- MODULE Sha256 -------------------------------
(***************************************************************************)
(* base/utils.cpp: how SHA256 cuts what it is given into blocks of 64      *)
(* bytes, and pads the last.  The compression function is abstract: the    *)
(* model keeps the blocks that transform() was given.  A byte of the       *)
(* message is its number; a byte of the padding is its value.              *)
(***************************************************************************)
EXTENDS Naturals, Sequences

CONSTANTS
  Chunks,       \* how many bytes one call of update passes
  MaxLength     \* bound on the message's length

ASSUME ChunksAssumption == Chunks \subseteq Nat /\ MaxLength \in Nat

VARIABLES
  sha,          \* the object: m_data, m_blocklen, m_bitlen, blocks transformed
  ahead,        \* how many bytes update's loop has yet to come to
  length,       \* history: bytes absorbed
  digested      \* digest was called

hashvars == <<sha, ahead, length, digested>>

Message(i) == <<"message", i>>
Padding(v) == <<"padding", v>>

\* A byte of m_data before it is assigned to: the constructor leaves it alone.
Uninitialised == <<"uninitialised", 0>>

HashInit ==
  /\ sha = [data |-> [i \in 0 .. 63 |-> Uninitialised], blocklen |-> 0, bitlen |-> 0,
            blocks |-> <<>>]
  /\ ahead = 0 /\ length = 0
  /\ digested = FALSE

BlockOf(data) == [i \in 1 .. 64 |-> data[i - 1]]
Transform(s)  == [s EXCEPT !.blocks = Append(@, BlockOf(s.data))]

\* The body of update's loop.
Absorb(s, byte) ==
  LET t == [s EXCEPT !.data[s.blocklen] = byte, !.blocklen = @ + 1]
  IN  IF t.blocklen = 64
      THEN [Transform(t) EXCEPT !.blocklen = 0, !.bitlen = @ + 512]
      ELSE t

\* A call of update with n bytes, and one turn of its loop.
Update(n) ==
  /\ ~digested /\ ahead = 0
  /\ length + n <= MaxLength
  /\ ahead' = n
  /\ UNCHANGED <<sha, length, digested>>

UpdateLoop ==
  /\ ahead > 0
  /\ sha' = Absorb(sha, Message(length + 1))
  /\ ahead' = ahead - 1 /\ length' = length + 1
  /\ UNCHANGED digested

\* Mistake: the length has room in a block up to the 57th byte.
PadTight(s) ==
  LET end    == IF s.blocklen < 57 THEN 56 ELSE 64
      padded == [s EXCEPT !.data = [i \in 0 .. 63 |->
                   CASE i = s.blocklen                -> Padding(128)
                     [] i > s.blocklen /\ i < end     -> Padding(0)
                     [] OTHER                         -> s.data[i]]]
  IN  IF s.blocklen < 57 THEN padded
      ELSE [Transform(padded) EXCEPT !.data = [i \in 0 .. 63 |->
              IF i < 56 THEN Padding(0) ELSE padded.data[i]]]

\* pad: the byte 0x80 and zeros; when there is no room left for the length,
\* the block is transformed and the next one is all zeros up to it.
Pad(s) ==
  LET end    == IF s.blocklen < 56 THEN 56 ELSE 64
      padded == [s EXCEPT !.data = [i \in 0 .. 63 |->
                   CASE i = s.blocklen                -> Padding(128)
                     [] i > s.blocklen /\ i < end     -> Padding(0)
                     [] OTHER                         -> s.data[i]]]
  IN  IF s.blocklen < 56 THEN padded
      ELSE [Transform(padded) EXCEPT !.data = [i \in 0 .. 63 |->
              IF i < 56 THEN Padding(0) ELSE padded.data[i]]]

\* The k-th byte of a number, 0 being the lowest.
Byte(n, k) ==
  LET shifted[j \in 0 .. 7] == IF j = 0 THEN n ELSE shifted[j - 1] \div 256
  IN  shifted[k] % 256

\* The length in bits goes into the last eight bytes, the highest first.
WithLength(s) ==
  LET bits == s.bitlen + s.blocklen * 8
  IN  [s EXCEPT !.bitlen = bits,
                !.data = [i \in 0 .. 63 |->
                            IF i < 56 THEN s.data[i] ELSE Padding(Byte(bits, 63 - i))]]

Digest ==
  /\ ~digested /\ ahead = 0
  /\ sha' = Transform(WithLength(Pad(sha)))
  /\ digested' = TRUE
  /\ UNCHANGED <<ahead, length>>

HashNext == (\E n \in Chunks : Update(n)) \/ UpdateLoop \/ Digest

HashSpec == HashInit /\ [][HashNext]_hashvars

-----------------------------------------------------------------------------
\* FIPS 180-4, 5.1.1: the message, a one bit, the fewest zeros that fill a
\* block together with the length in 64 bits, and that length.
Zeros == CHOOSE z \in 0 .. 63 : (length + 1 + z + 8) % 64 = 0

PaddedMessage ==
  LET last == length + 1 + Zeros + 8
  IN  [i \in 1 .. last |->
         CASE i <= length                   -> Message(i)
           [] i = length + 1                -> Padding(128)
           [] i > length + 1 /\ i <= last - 8 -> Padding(0)
           [] i > last - 8                  -> Padding(Byte(length * 8, last - i))]

\* What digest hashed is the padded message, at every length around the
\* boundary where the length no longer fits into the message's last block.
DigestsPaddedMessage ==
  digested =>
    /\ DOMAIN PaddedMessage = 1 .. 64 * Len(sha.blocks)
    /\ \A b \in 1 .. Len(sha.blocks), j \in 1 .. 64 :
         sha.blocks[b][j] = PaddedMessage[64 * (b - 1) + j]
=============================================================================
