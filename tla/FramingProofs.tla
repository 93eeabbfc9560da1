---------------------------- MODULE FramingProofs --------------------------
(***************************************************************************)
(* Why the two framings of Framing stay in step: theorems for packets of   *)
(* any shape and for any sizes of blocks and records.  The argument is     *)
(* about stretches, runs of consecutive bytes of one packet: every record  *)
(* under way is one, so is the buffer, each continues the one before, and  *)
(* what is parsed next is the next packet or the rest of one that was cut  *)
(* for a reason.                                                           *)
(***************************************************************************)
EXTENDS Framing, SequenceTheorems, TLAPS

\* The packet that a run of bytes is of, and its first and last place in it.
Of(r)   == r[1][1]
From(r) == r[1][2]
To(r)   == r[1][2] + Len(r) - 1

Places == Nat \X Nat

Consecutive(r) ==
  /\ r \in Seq(Places)
  /\ r # <<>>
  /\ \A i \in 1 .. Len(r) : r[i] = <<Of(r), From(r) + i - 1>>

\* Consecutive bytes of one of the packets.  The first of them hold at least
\* what the first read of a fresh buffer asks for.
Stretch(r, packets) ==
  /\ Consecutive(r)
  /\ Of(r) \in 1 .. Len(packets)
  /\ From(r) >= 1 /\ To(r) <= packets[Of(r)].size
  /\ From(r) = 1 => Len(r) >= Least(Block, packets[Of(r)].size)

\* The bytes of s come next after those of r.
Continues(r, s, packets) ==
  \/ To(r) < packets[Of(r)].size /\ Of(s) = Of(r) /\ From(s) = To(r) + 1
  \/ To(r) = packets[Of(r)].size /\ Of(s) = Of(r) + 1 /\ From(s) = 1

\* Nothing comes after r.
Final(r, packets) == Of(r) = Len(packets) /\ To(r) = packets[Of(r)].size

\* The packet that was begun last.
Begun(seen) == IF seen = <<>> THEN 0 ELSE seen[Len(seen)].pkt

\* Why a packet may be seen in pieces.
MayBeCut(s, kept) ==
  \/ s.size > Block /\ s.newlines # {s.size}
  \/ kept /\ (s.size - 1) % Drain = 0

\* What is parsed next is the next packet, or the rest of one that was cut.
IsNext(r, packets, seen, kept) ==
  /\ From(r) = 1 => Of(r) = Begun(seen) + 1
  /\ From(r) > 1 => Of(r) = Begun(seen) /\ MayBeCut(packets[Of(r)], kept)

-----------------------------------------------------------------------------
TypeOK ==
  /\ sent \in Seq(Shapes)
  /\ wire \in Seq(Seq(Places))
  /\ buffer \in Seq(Places)
  /\ keeps \in BOOLEAN /\ open \in BOOLEAN
  /\ reader \in {"reading", "ended"}
  /\ pieces \in Seq([pkt : Nat, kind : {"whole", "head", "rest"}])
  /\ \A i \in 1 .. Len(pieces) : pieces[i].pkt \in 1 .. Len(sent)

\* What is under way is all that was sent and not read, in order; only a
\* connection that broke has lost its end.
PipeInOrder ==
  /\ \A i \in 1 .. Len(wire) : Stretch(wire[i], sent)
  /\ \A i \in 1 .. Len(wire) - 1 : Continues(wire[i], wire[i + 1], sent)
  /\ buffer # <<>> => Stretch(buffer, sent)
  /\ buffer # <<>> /\ wire # <<>> => Continues(buffer, wire[1], sent)
  /\ open /\ wire # <<>> => Final(wire[Len(wire)], sent)
  /\ open /\ wire = <<>> /\ buffer # <<>> => Final(buffer, sent)

NextInOrder ==
  /\ buffer # <<>> => IsNext(buffer, sent, pieces, keeps)
  /\ buffer = <<>> /\ wire # <<>> => IsNext(wire[1], sent, pieces, keeps)
  /\ buffer = <<>> /\ wire = <<>> /\ open => Begun(pieces) = Len(sent)

IInv == TypeOK /\ PipeInOrder /\ NextInOrder /\ ResumesAtNextPacket /\ CutOnlyAtNewlines

-----------------------------------------------------------------------------
\* The numbers that describe a run of bytes are natural numbers.
LEMMA RunNumbers ==
  ASSUME NEW r, Consecutive(r)
  PROVE  /\ Len(r) \in Nat \ {0} /\ Of(r) \in Nat /\ From(r) \in Nat
         /\ To(r) = From(r) + Len(r) - 1
<1>1. Len(r) \in Nat \ {0}
  BY EmptySeq DEF Consecutive
<1>2. r[1] \in Places
  BY <1>1, ElementOfSeq DEF Consecutive
<1>. QED  BY <1>1, <1>2 DEF Of, From, To, Places

\* A product with a natural number grows with its other factor.
LEMMA TimesMonotone ==
  ASSUME NEW a \in Nat, NEW b \in Nat, NEW r \in Nat, a <= b
  PROVE  a * r \in Nat /\ b * r \in Nat /\ a * r <= b * r
OBVIOUS

\* A part of consecutive bytes is consecutive: what a read takes of a record,
\* what it leaves, and what the parser leaves in the buffer.
LEMMA PartOfRun ==
  ASSUME NEW r, Consecutive(r), NEW m \in 1 .. Len(r), NEW n \in m .. Len(r),
         NEW q, q = SubSeq(r, m, n)
  PROVE  /\ Consecutive(q) /\ Len(q) = n - m + 1
         /\ Of(q) = Of(r) /\ From(q) = From(r) + m - 1
<1>1. m \in Nat /\ n \in Nat /\ Len(r) \in Nat /\ m <= n /\ n <= Len(r)
  BY LenProperties DEF Consecutive
<1>2. \A i \in m .. n : r[i] \in Places
  <2>1. TAKE i \in m .. n
  <2>2. i \in 1 .. Len(r)
    BY <1>1, <2>1
  <2>. QED  BY <2>2, ElementOfSeq DEF Consecutive
<1>3. /\ q \in Seq(Places) /\ Len(q) = n - m + 1
      /\ \A i \in 1 .. n - m + 1 : q[i] = r[m + i - 1]
  BY <1>1, <1>2, SubSeqProperties
<1>4. Of(r) \in Nat /\ From(r) \in Nat
  <2>1. r[1] \in Places
    BY <1>1, ElementOfSeq DEF Consecutive
  <2>. QED  BY <2>1 DEF Of, From, Places
<1>5. Of(q) = Of(r) /\ From(q) = From(r) + m - 1
  BY <1>1, <1>3, <1>4 DEF Of, From, Consecutive
<1>6. ASSUME NEW i \in 1 .. Len(q) PROVE q[i] = <<Of(q), From(q) + i - 1>>
  <2>1. i \in 1 .. n - m + 1 /\ m + i - 1 \in 1 .. Len(r)
    BY <1>1, <1>3
  <2>2. q[i] = r[m + i - 1]
    BY <1>3, <2>1
  <2>3. r[m + i - 1] = <<Of(r), From(r) + (m + i - 1) - 1>>
    BY <2>1 DEF Consecutive
  <2>4. From(r) + (m + i - 1) - 1 = From(q) + i - 1
    BY <1>1, <1>4, <1>5, <2>1
  <2>. QED  BY <1>5, <2>2, <2>3, <2>4
<1>7. q # <<>>
  BY <1>1, <1>3
<1>. QED  BY <1>3, <1>5, <1>6, <1>7 DEF Consecutive

\* Consecutive bytes and those that follow them, in the same packet, are
\* consecutive: what is read is appended to the buffer.
LEMMA JoinOfRuns ==
  ASSUME NEW r, Consecutive(r), NEW s, Consecutive(s),
         Of(s) = Of(r), From(s) = To(r) + 1, NEW q, q = r \o s
  PROVE  /\ Consecutive(q) /\ Len(q) = Len(r) + Len(s)
         /\ Of(q) = Of(r) /\ From(q) = From(r)
<1>1. Len(r) \in Nat /\ Len(s) \in Nat /\ Len(r) >= 1 /\ Len(s) >= 1
  BY LenProperties DEF Consecutive
<1>2. /\ q \in Seq(Places) /\ Len(q) = Len(r) + Len(s)
      /\ \A i \in 1 .. Len(r) + Len(s) : q[i] = IF i <= Len(r) THEN r[i] ELSE s[i - Len(r)]
  BY ConcatProperties DEF Consecutive
<1>3. q[1] = r[1] /\ q # <<>>
  BY <1>1, <1>2
<1>4. Of(r) \in Nat /\ From(r) \in Nat
  <2>1. r[1] \in Places
    BY <1>1, ElementOfSeq DEF Consecutive
  <2>. QED  BY <2>1 DEF Of, From, Places
<1>5. Of(q) = Of(r) /\ From(q) = From(r)
  BY <1>3 DEF Of, From
<1>6. ASSUME NEW i \in 1 .. Len(q) PROVE q[i] = <<Of(q), From(q) + i - 1>>
  <2>1. CASE i <= Len(r)
    BY <1>1, <1>2, <1>5, <2>1 DEF Consecutive
  <2>2. CASE ~(i <= Len(r))
    <3>1. i - Len(r) \in 1 .. Len(s)
      BY <1>1, <1>2, <2>2
    <3>2. q[i] = s[i - Len(r)]
      BY <1>1, <1>2, <2>2
    <3>3. s[i - Len(r)] = <<Of(s), From(s) + (i - Len(r)) - 1>>
      BY <3>1 DEF Consecutive
    <3>4. From(s) = From(r) + Len(r)
      BY <1>1, <1>4 DEF To, From
    <3>5. From(s) + (i - Len(r)) - 1 = From(q) + i - 1
      BY <1>1, <1>4, <1>5, <3>1, <3>4
    <3>. QED  BY <1>5, <3>2, <3>3, <3>5
  <2>. QED  BY <2>1, <2>2
<1>. QED  BY <1>2, <1>3, <1>5, <1>6 DEF Consecutive

\* What is appended to a sequence comes after all of it.
LEMMA AppendedAfter ==
  ASSUME NEW S, NEW s \in Seq(S), NEW t \in Seq(S), NEW st, st = s \o t
  PROVE  /\ st \in Seq(S) /\ Len(s) \in Nat /\ Len(t) \in Nat
         /\ Len(st) = Len(s) + Len(t)
         /\ \A i \in 1 .. Len(s) : st[i] = s[i]
         /\ \A j \in 1 .. Len(t) : st[Len(s) + j] = t[j]
<1>1. Len(s) \in Nat /\ Len(t) \in Nat
  BY LenProperties
<1>2. /\ st \in Seq(S) /\ Len(st) = Len(s) + Len(t)
      /\ \A i \in 1 .. Len(s) + Len(t) : st[i] = IF i <= Len(s) THEN s[i] ELSE t[i - Len(s)]
  BY ConcatProperties
<1>3. \A i \in 1 .. Len(s) : st[i] = s[i]
  BY <1>1, <1>2
<1>4. ASSUME NEW j \in 1 .. Len(t) PROVE st[Len(s) + j] = t[j]
  <2>1. Len(s) + j \in 1 .. Len(s) + Len(t) /\ ~(Len(s) + j <= Len(s))
    BY <1>1
  <2>2. (Len(s) + j) - Len(s) = j
    BY <1>1
  <2>. QED  BY <1>2, <2>1, <2>2
<1>. QED  BY <1>1, <1>2, <1>3, <1>4

\* A packet's records are its bytes in order: consecutive runs that begin at
\* the first byte, continue each other and end at the last.
LEMMA RecordsOfPacket ==
  ASSUME NEW p \in Nat, NEW size \in Nat \ {0}, NEW rs, rs = Records(Bytes(p, size))
  PROVE  /\ rs \in Seq(Seq(Places)) /\ Len(rs) \in Nat \ {0}
         /\ \A i \in 1 .. Len(rs) :
              /\ Consecutive(rs[i]) /\ Of(rs[i]) = p
              /\ From(rs[i]) = (i - 1) * Record + 1
              /\ To(rs[i]) = Least(i * Record, size)
              /\ i < Len(rs) => i * Record < size
              /\ i = Len(rs) => i * Record >= size
<1>. DEFINE bs == Bytes(p, size)
            k  == (size + Record - 1) \div Record
<1>1. Record \in Nat /\ Record >= 1
  BY SizesAssumption
<1>2. /\ bs \in Seq(Places) /\ Len(bs) = size
      /\ \A i \in 1 .. size : bs[i] = <<p, i>>
  <2>1. bs = [i \in 1 .. size |-> <<p, i>>]
    BY DEF Bytes
  <2>. HIDE DEF bs
  <2>2. \A i \in 1 .. size : <<p, i>> \in Places
    BY DEF Places
  <2>. QED  BY <2>1, <2>2
<1>3. k \in Nat /\ k * Record <= size + Record - 1 /\ size + Record - 1 < (k + 1) * Record
  <2>1. size + Record - 1 \in Nat
    BY <1>1
  <2>. QED  BY <1>1, <2>1
<1>4. rs = [i \in 1 .. k |-> SubSeq(bs, (i - 1) * Record + 1, Least(i * Record, size))]
  BY <1>2 DEF Records
<1>. HIDE DEF k, bs
<1>5. k >= 1 /\ k * Record >= size
  BY <1>1, <1>3
<1>6. ASSUME NEW i \in 1 .. k
      PROVE  /\ (i - 1) * Record \in Nat /\ i * Record \in Nat
             /\ i * Record = (i - 1) * Record + Record
             /\ (i - 1) * Record < size
             /\ i < k => i * Record < size
  <2>1. i \in Nat /\ i - 1 \in Nat /\ i - 1 <= k - 1 /\ k - 1 \in Nat
    BY <1>3, <1>5
  <2>2. (i - 1) * Record <= (k - 1) * Record
    BY <1>1, <2>1, TimesMonotone
  <2>3. (k - 1) * Record < size
    BY <1>1, <1>3
  <2>4. ASSUME i < k PROVE i * Record <= (k - 1) * Record
    <3>1. i <= k - 1
      BY <1>3, <2>1, <2>4
    <3>2. i \in Nat /\ k - 1 \in Nat /\ Record \in Nat
      BY <1>1, <2>1
    <3>. QED  BY <3>1, <3>2, TimesMonotone
  <2>5. (i - 1) * Record \in Nat /\ i * Record \in Nat /\ (k - 1) * Record \in Nat
    BY <1>1, <2>1
  <2>6. i * Record = (i - 1) * Record + Record
    BY <1>1, <2>1
  <2>. QED  BY <1>1, <2>2, <2>3, <2>4, <2>5, <2>6
<1>7. ASSUME NEW i \in 1 .. k
      PROVE  /\ Consecutive(rs[i]) /\ Of(rs[i]) = p
             /\ From(rs[i]) = (i - 1) * Record + 1
             /\ To(rs[i]) = Least(i * Record, size)
  <2>. DEFINE a == (i - 1) * Record + 1
              b == Least(i * Record, size)
  <2>1. a \in Nat /\ b \in Nat /\ a \in 1 .. size /\ b \in a .. size
    BY <1>1, <1>6 DEF Least
  <2>2. rs[i] = SubSeq(bs, a, b)
    BY <1>4
  <2>. HIDE DEF a, b
  <2>3. Consecutive(bs) /\ Of(bs) = p /\ From(bs) = 1
    <3>1. bs[1] = <<p, 1>>
      BY <1>2
    <3>2. Of(bs) = p /\ From(bs) = 1
      BY <3>1 DEF Of, From
    <3>3. \A j \in 1 .. Len(bs) : bs[j] = <<Of(bs), From(bs) + j - 1>>
      BY <1>2, <3>2
    <3>. QED  BY <1>2, <3>2, <3>3 DEF Consecutive
  <2>4. /\ Consecutive(rs[i]) /\ Len(rs[i]) = b - a + 1
        /\ Of(rs[i]) = p /\ From(rs[i]) = 1 + a - 1
    <3>1. a \in 1 .. Len(bs) /\ b \in a .. Len(bs)
      BY <1>2, <2>1
    <3>2. /\ Consecutive(rs[i]) /\ Len(rs[i]) = b - a + 1
          /\ Of(rs[i]) = Of(bs) /\ From(rs[i]) = From(bs) + a - 1
      BY <2>2, <2>3, <3>1, PartOfRun
    <3>. QED  BY <2>3, <3>2
  <2>5. To(rs[i]) = b
    <3>1. To(rs[i]) = From(rs[i]) + Len(rs[i]) - 1
      BY <2>4, RunNumbers
    <3>. QED  BY <2>1, <2>4, <3>1
  <2>. QED  BY <2>1, <2>4, <2>5 DEF a, b
<1>8. rs \in Seq(Seq(Places)) /\ Len(rs) = k
  <2>1. \A i \in 1 .. k : rs[i] \in Seq(Places)
    BY <1>7 DEF Consecutive
  <2>. QED  BY <1>3, <1>4, <2>1
<1>. QED  BY <1>3, <1>5, <1>6, <1>7, <1>8, SMTT(30)

\* The numbers that describe a stretch, and the packet it is of.
LEMMA StretchNumbers ==
  ASSUME NEW packets \in Seq(Shapes), NEW r, Stretch(r, packets)
  PROVE  /\ Len(r) \in Nat \ {0} /\ From(r) \in Nat \ {0} /\ To(r) \in Nat
         /\ To(r) = From(r) + Len(r) - 1
         /\ Of(r) \in Nat \ {0} /\ Of(r) <= Len(packets)
         /\ packets[Of(r)] \in Shapes
         /\ packets[Of(r)].size \in Nat /\ packets[Of(r)].size >= 2
         /\ To(r) <= packets[Of(r)].size
<1>1. /\ Len(r) \in Nat \ {0} /\ Of(r) \in Nat /\ From(r) \in Nat
      /\ To(r) = From(r) + Len(r) - 1
  BY RunNumbers DEF Stretch
<1>2. Of(r) \in 1 .. Len(packets) /\ From(r) >= 1 /\ To(r) <= packets[Of(r)].size
  BY DEF Stretch
<1>3. packets[Of(r)] \in Shapes
  BY <1>2, ElementOfSeq
<1>4. packets[Of(r)].size \in Nat /\ packets[Of(r)].size >= 2
  BY <1>3, ShapesAssumption
<1>. QED  BY <1>1, <1>2, <1>3, <1>4

\* A packet more leaves what is known of the others.
LEMMA MorePackets ==
  ASSUME NEW packets \in Seq(Shapes), NEW s \in Shapes, NEW more, more = Append(packets, s)
  PROVE  /\ more \in Seq(Shapes)
         /\ Len(packets) \in Nat /\ Len(more) = Len(packets) + 1
         /\ more[Len(more)] = s
         /\ \A p \in 1 .. Len(packets) : more[p] = packets[p]
         /\ \A r : Stretch(r, packets) => Stretch(r, more)
         /\ \A r, t : /\ Stretch(r, packets) /\ Continues(r, t, packets)
                      => Continues(r, t, more)
<1>1. /\ more \in Seq(Shapes)
      /\ Len(packets) \in Nat /\ Len(more) = Len(packets) + 1
      /\ more[Len(more)] = s
      /\ \A p \in 1 .. Len(packets) : more[p] = packets[p]
  BY AppendProperties, LenProperties
<1>2. ASSUME NEW r, Stretch(r, packets)
      PROVE  Stretch(r, more) /\ more[Of(r)] = packets[Of(r)]
  BY <1>1, <1>2 DEF Stretch
<1>3. ASSUME NEW r, NEW t, Stretch(r, packets), Continues(r, t, packets)
      PROVE  Continues(r, t, more)
  BY <1>2, <1>3 DEF Continues
<1>. QED  BY <1>1, <1>2, <1>3

\* The records of the packet sent last are stretches of it, in order.
LEMMA RecordsInOrder ==
  ASSUME NEW packets \in Seq(Shapes), packets # <<>>, NEW rs,
         rs = Records(Bytes(Len(packets), packets[Len(packets)].size))
  PROVE  /\ rs \in Seq(Seq(Places)) /\ Len(rs) \in Nat \ {0}
         /\ \A i \in 1 .. Len(rs) : Stretch(rs[i], packets)
         /\ \A i \in 1 .. Len(rs) - 1 : Continues(rs[i], rs[i + 1], packets)
         /\ Of(rs[1]) = Len(packets) /\ From(rs[1]) = 1
         /\ Final(rs[Len(rs)], packets)
<1>. DEFINE p == Len(packets)
            size == packets[Len(packets)].size
<1>1. p \in Nat \ {0} /\ packets[p] \in Shapes
  BY EmptySeq, ElementOfSeq
<1>2. size \in Nat /\ size >= 2
  BY <1>1, ShapesAssumption
<1>a. rs = Records(Bytes(p, size))
  OBVIOUS
<1>. HIDE DEF p, size
<1>3. /\ rs \in Seq(Seq(Places)) /\ Len(rs) \in Nat \ {0}
      /\ \A i \in 1 .. Len(rs) :
           /\ Consecutive(rs[i]) /\ Of(rs[i]) = p
           /\ From(rs[i]) = (i - 1) * Record + 1
           /\ To(rs[i]) = Least(i * Record, size)
           /\ i < Len(rs) => i * Record < size
           /\ i = Len(rs) => i * Record >= size
  <2>1. p \in Nat /\ size \in Nat \ {0}
    BY <1>1, <1>2
  <2>. QED  BY <1>a, <2>1, RecordsOfPacket
<1>4. /\ Record \in Nat /\ Record >= 1 /\ Block \in Nat /\ Block <= Record
  BY SizesAssumption
<1>5. ASSUME NEW i \in 1 .. Len(rs) PROVE Stretch(rs[i], packets)
  <2>1. i \in Nat /\ i - 1 \in Nat
    BY <1>3
  <2>2. (i - 1) * Record \in Nat /\ i * Record \in Nat
    BY <1>4, <2>1
  <2>3. From(rs[i]) >= 1
    BY <1>3, <2>2
  <2>4. To(rs[i]) <= size
    BY <1>2, <1>3, <2>2 DEF Least
  <2>5. Of(rs[i]) \in 1 .. Len(packets) /\ packets[Of(rs[i])].size = size
    BY <1>1, <1>3 DEF p, size
  <2>6. ASSUME From(rs[i]) = 1 PROVE Len(rs[i]) >= Least(Block, size)
    <3>1. i = 1
      <4>1. SUFFICES ASSUME 1 <= i - 1 PROVE FALSE
        BY <1>3
      <4>2. 1 * Record <= (i - 1) * Record
        BY <1>4, <2>1, <4>1, TimesMonotone
      <4>. QED  BY <1>3, <1>4, <2>2, <2>6, <4>2
    <3>2. To(rs[i]) = Least(Record, size)
      BY <1>3, <1>4, <3>1
    <3>3. Len(rs[i]) \in Nat /\ To(rs[i]) = 1 + Len(rs[i]) - 1
      BY <1>3, <2>6, RunNumbers
    <3>. QED  BY <1>2, <1>4, <3>2, <3>3 DEF Least
  <2>. QED  BY <1>3, <2>3, <2>4, <2>5, <2>6 DEF Stretch
<1>6. ASSUME NEW i \in 1 .. Len(rs) - 1 PROVE Continues(rs[i], rs[i + 1], packets)
  <2>1. i \in 1 .. Len(rs) /\ i + 1 \in 1 .. Len(rs) /\ i < Len(rs) /\ i * Record \in Nat
    BY <1>3, <1>4
  <2>2. i * Record < size /\ To(rs[i]) = Least(i * Record, size)
    BY <1>3, <2>1
  <2>3. To(rs[i]) = i * Record
    BY <1>2, <2>1, <2>2 DEF Least
  <2>4. From(rs[i + 1]) = ((i + 1) - 1) * Record + 1
    BY <1>3, <2>1
  <2>5. (i + 1) - 1 = i
    BY <2>1
  <2>6. Of(rs[i]) = p /\ Of(rs[i + 1]) = p
    BY <1>3, <2>1
  <2>. QED  BY <2>2, <2>3, <2>4, <2>5, <2>6 DEF Continues, p, size
<1>7. Of(rs[1]) = Len(packets) /\ From(rs[1]) = 1
  <2>1. 1 \in 1 .. Len(rs) /\ (1 - 1) * Record + 1 = 1
    BY <1>3, <1>4
  <2>2. From(rs[1]) = (1 - 1) * Record + 1 /\ Of(rs[1]) = p
    BY <1>3, <2>1
  <2>. QED  BY <2>1, <2>2 DEF p
<1>8. Final(rs[Len(rs)], packets)
  <2>1. Len(rs) \in 1 .. Len(rs) /\ Len(rs) * Record \in Nat
    BY <1>3, <1>4
  <2>2. /\ Of(rs[Len(rs)]) = p /\ Len(rs) * Record >= size
        /\ To(rs[Len(rs)]) = Least(Len(rs) * Record, size)
    BY <1>3, <2>1
  <2>3. To(rs[Len(rs)]) = size
    BY <1>2, <2>1, <2>2 DEF Least
  <2>. QED  BY <2>2, <2>3 DEF Final, p, size
<1>. QED  BY <1>3, <1>5, <1>6, <1>7, <1>8

-----------------------------------------------------------------------------
\* Nothing is under way at the start, and nothing was parsed.
LEMMA InitIInv == Init => IInv
<1>. SUFFICES ASSUME Init PROVE IInv
  OBVIOUS
<1>1. Len(<<>>) = 0
  BY EmptySeq
<1>2. TypeOK
  BY <1>1, EmptySeq DEF Init, TypeOK
<1>3. PipeInOrder
  BY <1>1 DEF Init, PipeInOrder
<1>4. NextInOrder
  BY <1>1 DEF Init, NextInOrder, Begun
<1>5. ResumesAtNextPacket /\ CutOnlyAtNewlines
  BY <1>1 DEF Init, ResumesAtNextPacket, CutOnlyAtNewlines
<1>. QED  BY <1>2, <1>3, <1>4, <1>5 DEF IInv

\* A packet sent is the last of what is under way.
LEMMA SendKeeps ==
  ASSUME IInv, NEW s \in Shapes, Send(s)
  PROVE  IInv'
<1>. USE DEF IInv
<1>. DEFINE rs == Records(Bytes(Len(sent) + 1, s.size))
<1>1. /\ open /\ sent' = Append(sent, s) /\ wire' = wire \o rs
      /\ UNCHANGED <<buffer, keeps, open, reader, pieces>>
  BY DEF Send
<1>2. /\ sent' \in Seq(Shapes)
      /\ Len(sent) \in Nat /\ Len(sent') = Len(sent) + 1
      /\ sent'[Len(sent')] = s /\ sent' # <<>>
      /\ \A p \in 1 .. Len(sent) : sent'[p] = sent[p]
      /\ \A r : Stretch(r, sent) => Stretch(r, sent')
      /\ \A r, t : /\ Stretch(r, sent) /\ Continues(r, t, sent)
                   => Continues(r, t, sent')
  <2>1. sent \in Seq(Shapes)
    BY DEF TypeOK
  <2>2. /\ sent' \in Seq(Shapes)
        /\ Len(sent) \in Nat /\ Len(sent') = Len(sent) + 1
        /\ sent'[Len(sent')] = s
        /\ \A p \in 1 .. Len(sent) : sent'[p] = sent[p]
        /\ \A r : Stretch(r, sent) => Stretch(r, sent')
        /\ \A r, t : /\ Stretch(r, sent) /\ Continues(r, t, sent)
                     => Continues(r, t, sent')
    BY <1>1, <2>1, MorePackets, ZenonT(60)
  <2>3. sent' # <<>>
    BY <2>2, EmptySeq
  <2>. QED  BY <2>2, <2>3
<1>3. /\ rs \in Seq(Seq(Places)) /\ Len(rs) \in Nat \ {0}
      /\ \A i \in 1 .. Len(rs) : Stretch(rs[i], sent')
      /\ \A i \in 1 .. Len(rs) - 1 : Continues(rs[i], rs[i + 1], sent')
      /\ Of(rs[1]) = Len(sent) + 1 /\ From(rs[1]) = 1
      /\ Final(rs[Len(rs)], sent')
  BY <1>2, RecordsInOrder
<1>. HIDE DEF rs
<1>4. /\ Len(wire) \in Nat /\ wire' \in Seq(Seq(Places))
      /\ Len(wire') = Len(wire) + Len(rs) /\ Len(wire') \in Nat \ {0} /\ wire' # <<>>
      /\ \A i \in 1 .. Len(wire) : wire'[i] = wire[i]
      /\ \A j \in 1 .. Len(rs) : wire'[Len(wire) + j] = rs[j]
  <2>1. wire \in Seq(Seq(Places))
    BY DEF TypeOK
  <2>2. /\ wire' \in Seq(Seq(Places)) /\ Len(wire) \in Nat
        /\ Len(wire') = Len(wire) + Len(rs)
        /\ \A i \in 1 .. Len(wire) : wire'[i] = wire[i]
        /\ \A j \in 1 .. Len(rs) : wire'[Len(wire) + j] = rs[j]
    BY <1>1, <1>3, <2>1, AppendedAfter
  <2>. QED  BY <1>3, <2>2, EmptySeq
<1>5. ASSUME NEW r, Final(r, sent), Stretch(r, sent)
      PROVE  Continues(r, rs[1], sent')
  BY <1>2, <1>3, <1>5 DEF Final, Continues, Stretch
<1>6. wire # <<>> => Len(wire) \in 1 .. Len(wire)
  BY <1>4, EmptySeq DEF TypeOK
<1>7. TypeOK'
  <2>1. \A i \in 1 .. Len(pieces) : pieces[i].pkt \in 1 .. Len(sent')
    BY <1>2 DEF TypeOK
  <2>. QED  BY <1>1, <1>2, <1>4, <2>1 DEF TypeOK
<1>8. PipeInOrder'
  <2>1. ASSUME NEW i \in 1 .. Len(wire') PROVE Stretch(wire'[i], sent')
    <3>1. CASE i <= Len(wire)
      <4>1. i \in 1 .. Len(wire) /\ wire'[i] = wire[i]
        BY <1>4, <3>1
      <4>. QED  BY <1>2, <4>1 DEF PipeInOrder
    <3>2. CASE ~(i <= Len(wire))
      <4>1. i - Len(wire) \in 1 .. Len(rs) /\ i = Len(wire) + (i - Len(wire))
        BY <1>3, <1>4, <3>2
      <4>. QED  BY <1>3, <1>4, <4>1
    <3>. QED  BY <3>1, <3>2
  <2>2. ASSUME NEW i \in 1 .. Len(wire') - 1 PROVE Continues(wire'[i], wire'[i + 1], sent')
    <3>1. CASE i < Len(wire)
      <4>1. /\ i \in 1 .. Len(wire) /\ i \in 1 .. Len(wire) - 1
            /\ wire'[i] = wire[i] /\ wire'[i + 1] = wire[i + 1]
        BY <1>3, <1>4, <3>1, SMTT(30)
      <4>2. Stretch(wire[i], sent) /\ Continues(wire[i], wire[i + 1], sent)
        BY <4>1 DEF PipeInOrder
      <4>. QED  BY <1>2, <4>1, <4>2
    <3>2. CASE i = Len(wire)
      <4>1. /\ wire # <<>> /\ Len(wire) \in 1 .. Len(wire)
            /\ wire'[i] = wire[Len(wire)] /\ wire'[i + 1] = rs[1]
        BY <1>3, <1>4, <1>6, <3>2, EmptySeq
      <4>2. Final(wire[Len(wire)], sent) /\ Stretch(wire[Len(wire)], sent)
        BY <1>1, <4>1 DEF PipeInOrder
      <4>. QED  BY <1>5, <4>1, <4>2
    <3>3. CASE i > Len(wire)
      <4>1. i - Len(wire) \in 1 .. Len(rs) - 1 /\ i = Len(wire) + (i - Len(wire))
        BY <1>3, <1>4, <3>3
      <4>2. PICK j \in 1 .. Len(rs) - 1 : i = Len(wire) + j
        BY <4>1
      <4>3. /\ j \in 1 .. Len(rs) /\ j + 1 \in 1 .. Len(rs)
            /\ i + 1 = Len(wire) + (j + 1)
        BY <1>3, <1>4, <4>2
      <4>4. wire'[i] = rs[j] /\ wire'[i + 1] = rs[j + 1]
        BY <1>4, <4>2, <4>3
      <4>. QED  BY <1>3, <4>2, <4>4
    <3>. QED  BY <1>4, <3>1, <3>2, <3>3
  <2>3. buffer # <<>> => Stretch(buffer, sent')
    BY <1>2 DEF PipeInOrder
  <2>4. ASSUME buffer # <<>> PROVE Continues(buffer, wire'[1], sent')
    <3>1. Stretch(buffer, sent)
      BY <2>4 DEF PipeInOrder
    <3>2. CASE wire = <<>>
      <4>1. wire'[1] = rs[1] /\ Final(buffer, sent)
        BY <1>1, <1>3, <1>4, <2>4, <3>2, EmptySeq DEF PipeInOrder
      <4>. QED  BY <1>5, <3>1, <4>1
    <3>3. CASE wire # <<>>
      <4>1. wire'[1] = wire[1] /\ Continues(buffer, wire[1], sent)
        BY <1>3, <1>4, <1>6, <2>4, <3>3 DEF PipeInOrder
      <4>. QED  BY <1>2, <3>1, <4>1
    <3>. QED  BY <3>2, <3>3
  <2>5. Final(wire'[Len(wire')], sent')
    <3>1. wire'[Len(wire')] = rs[Len(rs)]
      BY <1>3, <1>4
    <3>. QED  BY <1>3, <3>1
  <2>. QED  BY <1>1, <1>4, <2>1, <2>2, <2>3, <2>4, <2>5 DEF PipeInOrder
<1>9. NextInOrder'
  <2>1. ASSUME NEW r, Stretch(r, sent), IsNext(r, sent, pieces, keeps)
        PROVE  IsNext(r, sent', pieces, keeps)
    BY <1>2, <2>1 DEF IsNext, Stretch
  <2>2. buffer # <<>> => IsNext(buffer, sent', pieces, keeps)
    BY <2>1 DEF NextInOrder, PipeInOrder
  <2>3. ASSUME buffer = <<>> PROVE IsNext(wire'[1], sent', pieces, keeps)
    <3>1. CASE wire = <<>>
      <4>1. wire'[1] = rs[1] /\ Begun(pieces) = Len(sent)
        BY <1>1, <1>3, <1>4, <2>3, <3>1, EmptySeq DEF NextInOrder
      <4>. QED  BY <1>3, <4>1 DEF IsNext
    <3>2. CASE wire # <<>>
      <4>1. wire'[1] = wire[1] /\ 1 \in 1 .. Len(wire)
        BY <1>3, <1>4, <1>6, <3>2
      <4>2. Stretch(wire[1], sent) /\ IsNext(wire[1], sent, pieces, keeps)
        BY <2>3, <3>2, <4>1 DEF NextInOrder, PipeInOrder
      <4>. QED  BY <2>1, <4>1, <4>2
    <3>. QED  BY <3>1, <3>2
  <2>. QED  BY <1>1, <1>4, <2>2, <2>3 DEF NextInOrder
<1>10. ResumesAtNextPacket'
  BY <1>1 DEF ResumesAtNextPacket
<1>11. CutOnlyAtNewlines'
  <2>1. DOMAIN pieces = 1 .. Len(pieces)
    BY LenProperties DEF TypeOK
  <2>2. ASSUME NEW i \in DOMAIN pieces PROVE sent'[pieces[i].pkt] = sent[pieces[i].pkt]
    BY <1>2, <2>1, <2>2 DEF TypeOK
  <2>. QED  BY <1>1, <2>2 DEF CutOnlyAtNewlines
<1>. QED  BY <1>7, <1>8, <1>9, <1>10, <1>11

\* The packet at the front of the buffer cannot be over when the buffer holds
\* no newline.
LEMMA UnmatchedIsOpen ==
  ASSUME IInv, ~Matched, buffer # <<>>
  PROVE  To(buffer) < sent[Of(buffer)].size
<1>1. Stretch(buffer, sent) /\ sent \in Seq(Shapes)
  BY DEF IInv, TypeOK, PipeInOrder
<1>2. /\ Len(buffer) \in Nat \ {0} /\ From(buffer) \in Nat \ {0} /\ To(buffer) \in Nat
      /\ To(buffer) = From(buffer) + Len(buffer) - 1
      /\ sent[Of(buffer)] \in Shapes /\ sent[Of(buffer)].size \in Nat
      /\ To(buffer) <= sent[Of(buffer)].size
  BY <1>1, StretchNumbers
<1>3. SUFFICES ASSUME To(buffer) = sent[Of(buffer)].size PROVE FALSE
  BY <1>2
<1>4. DOMAIN buffer = 1 .. Len(buffer) /\ Len(buffer) \in 1 .. Len(buffer)
  BY <1>1, <1>2, LenProperties DEF Stretch, Consecutive
<1>5. buffer[Len(buffer)] = <<Of(buffer), From(buffer) + Len(buffer) - 1>>
  BY <1>1, <1>4 DEF Stretch, Consecutive
<1>6. buffer[Len(buffer)] = <<Of(buffer), sent[Of(buffer)].size>>
  BY <1>2, <1>3, <1>5
<1>7. sent[Of(buffer)].size \in sent[Of(buffer)].newlines
  BY <1>2, ShapesAssumption
<1>8. IsNewline(buffer[Len(buffer)])
  BY <1>6, <1>7 DEF IsNewline
<1>. QED  BY <1>4, <1>8 DEF Matched

\* What is read continues the buffer, and the rest of the record what is read.
LEMMA ReadKeeps ==
  ASSUME IInv, Read
  PROVE  IInv'
<1>. USE DEF IInv
<1>1. PICK room \in Block .. (IF buffer = <<>> /\ ~keeps THEN Block ELSE MaxBlock) :
        LET n == Least(room, Len(wire[1]))
        IN  /\ buffer' = buffer \o SubSeq(wire[1], 1, n)
            /\ wire' = IF n = Len(wire[1]) THEN Tail(wire)
                       ELSE [wire EXCEPT ![1] = SubSeq(@, n + 1, Len(@))]
  BY DEF Read
<1>. DEFINE n     == Least(room, Len(wire[1]))
            taken == SubSeq(wire[1], 1, n)
            left  == SubSeq(wire[1], n + 1, Len(wire[1]))
<1>2. /\ wire # <<>> /\ ~Matched
      /\ UNCHANGED <<sent, keeps, open, reader, pieces>>
  BY DEF Read
<1>3. /\ sent \in Seq(Shapes) /\ wire \in Seq(Seq(Places)) /\ buffer \in Seq(Places)
      /\ Len(wire) \in Nat \ {0} /\ 1 \in 1 .. Len(wire) /\ Len(wire) \in 1 .. Len(wire)
  BY <1>2, EmptySeq DEF TypeOK
<1>4. /\ Stretch(wire[1], sent) /\ Consecutive(wire[1])
      /\ Len(wire[1]) \in Nat \ {0} /\ From(wire[1]) \in Nat \ {0} /\ To(wire[1]) \in Nat
      /\ To(wire[1]) = From(wire[1]) + Len(wire[1]) - 1
      /\ sent[Of(wire[1])].size \in Nat
      /\ To(wire[1]) <= sent[Of(wire[1])].size
  BY <1>3, StretchNumbers DEF PipeInOrder, Stretch
<1>5. /\ n \in 1 .. Len(wire[1]) /\ n \in Nat
      /\ n >= Least(Block, Len(wire[1]))
  BY <1>4, SizesAssumption DEF Least
<1>6. /\ Consecutive(taken) /\ Len(taken) = n
      /\ Of(taken) = Of(wire[1]) /\ From(taken) = From(wire[1])
      /\ To(taken) = From(wire[1]) + n - 1
  <2>1. 1 \in 1 .. Len(wire[1]) /\ n \in 1 .. Len(wire[1])
    BY <1>4, <1>5
  <2>2. /\ Consecutive(taken) /\ Len(taken) = n - 1 + 1
        /\ Of(taken) = Of(wire[1]) /\ From(taken) = From(wire[1]) + 1 - 1
    BY <1>4, <2>1, PartOfRun
  <2>3. To(taken) = From(taken) + Len(taken) - 1
    BY <2>2, RunNumbers
  <2>. QED  BY <1>4, <1>5, <2>2, <2>3
<1>7. n # Len(wire[1]) =>
        /\ Consecutive(left)
        /\ Of(left) = Of(wire[1]) /\ From(left) = From(wire[1]) + n
        /\ To(left) = To(wire[1])
  <2>1. SUFFICES ASSUME n # Len(wire[1])
                 PROVE  /\ Consecutive(left)
                        /\ Of(left) = Of(wire[1]) /\ From(left) = From(wire[1]) + n
                        /\ To(left) = To(wire[1])
    OBVIOUS
  <2>2. n + 1 \in 1 .. Len(wire[1]) /\ Len(wire[1]) \in (n + 1) .. Len(wire[1])
    BY <1>4, <1>5, <2>1
  <2>3. /\ Consecutive(left) /\ Len(left) = Len(wire[1]) - (n + 1) + 1
        /\ Of(left) = Of(wire[1]) /\ From(left) = From(wire[1]) + (n + 1) - 1
    BY <1>4, <2>2, PartOfRun
  <2>4. To(left) = From(left) + Len(left) - 1
    BY <2>3, RunNumbers
  <2>5. PICK from, len, to :
          from = From(wire[1]) /\ len = Len(wire[1]) /\ to = To(wire[1])
    OBVIOUS
  <2>6. from \in Nat /\ len \in Nat /\ n \in Nat /\ to = from + len - 1
    BY <1>4, <1>5, <2>5, RunNumbers
  <2>7. from + (n + 1) - 1 = from + n
    BY <2>6
  <2>8. (from + n) + (len - (n + 1) + 1) - 1 = to
    BY <2>6
  <2>. QED  BY <2>3, <2>4, <2>5, <2>7, <2>8
<1>8. /\ buffer' = buffer \o taken
      /\ wire' = IF n = Len(wire[1]) THEN Tail(wire) ELSE [wire EXCEPT ![1] = left]
  BY <1>1
<1>. HIDE DEF n, taken, left
<1>9. /\ Consecutive(buffer') /\ buffer' # <<>> /\ Stretch(buffer', sent)
      /\ Of(buffer') = Of(wire[1]) /\ To(buffer') = From(wire[1]) + n - 1
      /\ IsNext(buffer', sent, pieces, keeps)
  <2>1. CASE buffer = <<>>
    <3>1. buffer' = taken
      BY <1>6, <1>8, <2>1, ConcatEmptySeq DEF Consecutive
    <3>2. IsNext(wire[1], sent, pieces, keeps)
      BY <1>2, <2>1 DEF NextInOrder
    <3>3. IsNext(taken, sent, pieces, keeps)
      BY <1>6, <3>2 DEF IsNext
    <3>4. From(taken) = 1 => Len(taken) >= Least(Block, sent[Of(taken)].size)
      <4>1. From(wire[1]) = 1 => Len(wire[1]) >= Least(Block, sent[Of(wire[1])].size)
        BY <1>4 DEF Stretch
      <4>. QED  BY <1>4, <1>5, <1>6, <4>1, SizesAssumption DEF Least
    <3>5. Stretch(taken, sent)
      <4>1. Of(wire[1]) \in 1 .. Len(sent)
        BY <1>4 DEF Stretch
      <4>2. From(taken) >= 1 /\ To(taken) <= sent[Of(taken)].size
        BY <1>4, <1>5, <1>6
      <4>. QED  BY <1>6, <3>4, <4>1, <4>2 DEF Stretch
    <3>. QED  BY <1>6, <3>1, <3>3, <3>5 DEF Consecutive
  <2>2. CASE buffer # <<>>
    <3>1. Stretch(buffer, sent) /\ Continues(buffer, wire[1], sent)
      BY <1>2, <2>2 DEF PipeInOrder
    <3>2. To(buffer) < sent[Of(buffer)].size
      BY <1>2, <2>2, UnmatchedIsOpen
    <3>3. /\ Len(buffer) \in Nat \ {0} /\ From(buffer) \in Nat \ {0} /\ To(buffer) \in Nat
          /\ To(buffer) = From(buffer) + Len(buffer) - 1
          /\ sent[Of(buffer)].size \in Nat
      BY <1>3, <3>1, StretchNumbers
    <3>4. Of(wire[1]) = Of(buffer) /\ From(wire[1]) = To(buffer) + 1
      BY <3>1, <3>2, <3>3 DEF Continues
    <3>5. /\ Consecutive(buffer') /\ Len(buffer') = Len(buffer) + n
          /\ Of(buffer') = Of(buffer) /\ From(buffer') = From(buffer)
      BY <1>6, <1>8, <3>1, <3>4, JoinOfRuns DEF Stretch
    <3>6. To(buffer') = From(buffer') + Len(buffer') - 1
      BY <3>5, RunNumbers
    <3>7. To(buffer') = From(wire[1]) + n - 1
      BY <1>5, <3>3, <3>4, <3>5, <3>6
    <3>8. Stretch(buffer', sent)
      <4>1. To(buffer') <= sent[Of(buffer')].size
        BY <1>4, <1>5, <3>4, <3>5, <3>7
      <4>2. From(buffer') = 1 => Len(buffer') >= Least(Block, sent[Of(buffer')].size)
        BY <1>5, <3>1, <3>3, <3>5, SizesAssumption DEF Stretch, Least
      <4>. QED  BY <3>1, <3>5, <4>1, <4>2 DEF Stretch
    <3>9. IsNext(buffer', sent, pieces, keeps)
      BY <2>2, <3>5 DEF NextInOrder, IsNext
    <3>. QED  BY <3>4, <3>5, <3>7, <3>8, <3>9 DEF Consecutive
  <2>. QED  BY <2>1, <2>2
<1>10. /\ wire' \in Seq(Seq(Places))
       /\ \A i \in 1 .. Len(wire') : Stretch(wire'[i], sent)
       /\ \A i \in 1 .. Len(wire') - 1 : Continues(wire'[i], wire'[i + 1], sent)
       /\ wire' # <<>> => Continues(buffer', wire'[1], sent)
       /\ open /\ wire' # <<>> => Final(wire'[Len(wire')], sent)
       /\ open /\ wire' = <<>> => Final(buffer', sent)
  <2>1. CASE n = Len(wire[1])
    <3>1. To(buffer') = To(wire[1]) /\ Of(buffer') = Of(wire[1])
      BY <1>4, <1>9, <2>1
    <3>2. /\ wire' = Tail(wire) /\ wire' \in Seq(Seq(Places))
          /\ Len(wire') = Len(wire) - 1
          /\ \A i \in 1 .. Len(wire') : wire'[i] = wire[i + 1]
      BY <1>2, <1>3, <1>8, <2>1, HeadTailProperties
    <3>3. ASSUME NEW i \in 1 .. Len(wire') PROVE Stretch(wire'[i], sent)
      <4>1. i + 1 \in 1 .. Len(wire)
        BY <1>3, <3>2
      <4>. QED  BY <3>2, <4>1 DEF PipeInOrder
    <3>4. ASSUME NEW i \in 1 .. Len(wire') - 1 PROVE Continues(wire'[i], wire'[i + 1], sent)
      <4>1. /\ i + 1 \in 1 .. Len(wire) - 1
            /\ i \in 1 .. Len(wire') /\ i + 1 \in 1 .. Len(wire')
        BY <1>3, <3>2
      <4>2. Continues(wire[i + 1], wire[(i + 1) + 1], sent)
        BY <4>1 DEF PipeInOrder
      <4>3. wire'[i] = wire[i + 1] /\ wire'[i + 1] = wire[(i + 1) + 1]
        BY <3>2, <4>1
      <4>. QED  BY <4>2, <4>3
    <3>5. ASSUME wire' # <<>>
          PROVE  /\ Continues(buffer', wire'[1], sent)
                 /\ open => Final(wire'[Len(wire')], sent)
      <4>1. /\ 1 \in 1 .. Len(wire) - 1 /\ 1 \in 1 .. Len(wire')
            /\ Len(wire') \in 1 .. Len(wire') /\ Len(wire') + 1 = Len(wire)
        BY <1>3, <3>2, <3>5, EmptySeq
      <4>2. Continues(wire[1], wire[1 + 1], sent)
        BY <4>1 DEF PipeInOrder
      <4>3. wire'[1] = wire[1 + 1] /\ wire'[Len(wire')] = wire[Len(wire)]
        BY <3>2, <4>1
      <4>4. open => Final(wire[Len(wire)], sent)
        BY <1>2 DEF PipeInOrder
      <4>. QED  BY <3>1, <4>2, <4>3, <4>4 DEF Continues
    <3>6. ASSUME wire' = <<>>, open PROVE Final(buffer', sent)
      <4>1. Len(wire) = 1
        <5>1. Len(wire') = 0
          BY <3>6, EmptySeq
        <5>2. Len(wire) \in Nat /\ Len(wire') = Len(wire) - 1
          BY <1>3, <3>2
        <5>. QED  BY <5>1, <5>2
      <4>2. Final(wire[1], sent)
        BY <1>2, <3>6, <4>1 DEF PipeInOrder
      <4>. QED  BY <3>1, <4>2 DEF Final
    <3>. QED  BY <3>2, <3>3, <3>4, <3>5, <3>6
  <2>2. CASE n # Len(wire[1])
    <3>1. /\ Consecutive(left)
          /\ Of(left) = Of(wire[1]) /\ From(left) = From(wire[1]) + n
          /\ To(left) = To(wire[1])
      BY <1>7, <2>2
    <3>2. /\ wire' \in Seq(Seq(Places)) /\ Len(wire') = Len(wire) /\ wire' # <<>>
          /\ wire'[1] = left /\ \A i \in 2 .. Len(wire) : wire'[i] = wire[i]
      <4>1. wire' = [wire EXCEPT ![1] = left] /\ left \in Seq(Places)
        BY <1>8, <2>2, <3>1 DEF Consecutive
      <4>2. /\ wire' \in Seq(Seq(Places)) /\ Len(wire') = Len(wire)
            /\ \A j \in 1 .. Len(wire) : wire'[j] = IF j = 1 THEN left ELSE wire[j]
        BY <1>3, <4>1, ExceptSeq
      <4>3. wire' # <<>>
        BY <1>3, <4>2, EmptySeq
      <4>. QED  BY <1>3, <4>2, <4>3
    <3>3. Stretch(left, sent)
      <4>1. From(left) >= 1 /\ From(left) # 1 /\ To(left) <= sent[Of(left)].size
        BY <1>4, <1>5, <3>1
      <4>2. Of(left) \in 1 .. Len(sent)
        BY <1>4, <3>1 DEF Stretch
      <4>. QED  BY <3>1, <4>1, <4>2 DEF Stretch
    <3>4. ASSUME NEW i \in 1 .. Len(wire') PROVE Stretch(wire'[i], sent)
      <4>1. CASE i = 1
        BY <3>2, <3>3, <4>1
      <4>2. CASE i # 1
        <5>1. i \in 2 .. Len(wire) /\ i \in 1 .. Len(wire)
          BY <1>3, <3>2, <4>2
        <5>. QED  BY <3>2, <5>1 DEF PipeInOrder
      <4>. QED  BY <4>1, <4>2
    <3>5. ASSUME NEW i \in 1 .. Len(wire') - 1 PROVE Continues(wire'[i], wire'[i + 1], sent)
      <4>1. i \in 1 .. Len(wire) - 1 /\ i + 1 \in 2 .. Len(wire)
        BY <1>3, <3>2
      <4>2. Continues(wire[i], wire[i + 1], sent) /\ wire'[i + 1] = wire[i + 1]
        BY <3>2, <4>1 DEF PipeInOrder
      <4>3. CASE i = 1
        BY <3>1, <3>2, <4>2, <4>3 DEF Continues
      <4>4. CASE i # 1
        <5>1. i \in 2 .. Len(wire)
          BY <1>3, <4>1, <4>4
        <5>. QED  BY <3>2, <4>2, <5>1
      <4>. QED  BY <4>3, <4>4
    <3>6. Continues(buffer', wire'[1], sent)
      <4>1. To(buffer') < sent[Of(buffer')].size
        BY <1>4, <1>5, <1>9, <2>2
      <4>2. From(left) = To(buffer') + 1
        BY <1>4, <1>5, <1>9, <3>1
      <4>. QED  BY <1>9, <3>1, <3>2, <4>1, <4>2 DEF Continues
    <3>7. ASSUME open PROVE Final(wire'[Len(wire')], sent)
      <4>1. Final(wire[Len(wire)], sent)
        BY <1>2, <3>7 DEF PipeInOrder
      <4>2. CASE Len(wire) = 1
        BY <3>1, <3>2, <4>1, <4>2 DEF Final
      <4>3. CASE Len(wire) # 1
        <5>1. Len(wire) \in 2 .. Len(wire)
          <6>1. Len(wire) \in Nat /\ Len(wire) >= 1
            BY <1>3
          <6>. QED  BY <4>3, <6>1
        <5>2. wire'[Len(wire')] = wire[Len(wire)]
          BY <3>2, <5>1
        <5>. QED  BY <4>1, <5>2
      <4>. QED  BY <4>2, <4>3
    <3>. QED  BY <3>2, <3>4, <3>5, <3>6, <3>7
  <2>. QED  BY <2>1, <2>2
<1>11. TypeOK'
  BY <1>2, <1>9, <1>10 DEF TypeOK, Consecutive
<1>12. PipeInOrder'
  BY <1>2, <1>9, <1>10 DEF PipeInOrder
<1>13. NextInOrder'
  BY <1>2, <1>9 DEF NextInOrder
<1>14. ResumesAtNextPacket' /\ CutOnlyAtNewlines'
  BY <1>2 DEF ResumesAtNextPacket, CutOnlyAtNewlines
<1>. QED  BY <1>11, <1>12, <1>13, <1>14

\* What parse_packet makes of a buffer that is one stretch of a packet.
LEMMA KindOfStretch ==
  ASSUME NEW r, r = buffer, Stretch(r, sent), sent \in Seq(Shapes)
  PROVE  /\ Kind \in {"whole", "head", "rest"}
         /\ Kind = "whole" <=> From(r) = 1 /\ Len(r) >= sent[Of(r)].size - 1
         /\ Kind = "head" <=> From(r) = 1 /\ Len(r) < sent[Of(r)].size - 1
         /\ Kind = "rest" <=> From(r) > 1
<1>1. /\ Len(r) \in Nat \ {0} /\ From(r) \in Nat \ {0}
      /\ sent[Of(r)].size \in Nat /\ sent[Of(r)].size >= 2
  BY StretchNumbers
<1>2. \A i \in 1 .. Len(r) : r[i] = <<Of(r), From(r) + i - 1>>
  BY DEF Stretch, Consecutive
<1>. DEFINE size == sent[Of(r)].size
<1>3. HoldsWhole <=> From(r) = 1 /\ Len(r) >= size - 1
  <2>1. HoldsWhole <=> /\ Len(r) >= size - 1
                       /\ \A i \in 1 .. size - 1 : r[i] = <<Of(r), i>>
    BY DEF HoldsWhole, Of
  <2>. HIDE DEF size
  <2>2. ASSUME From(r) = 1, Len(r) >= size - 1
        PROVE  \A i \in 1 .. size - 1 : r[i] = <<Of(r), i>>
    <3>1. TAKE i \in 1 .. size - 1
    <3>2. i \in 1 .. Len(r) /\ From(r) + i - 1 = i
      BY <1>1, <2>2 DEF size
    <3>. QED  BY <1>2, <3>2
  <2>3. ASSUME \A i \in 1 .. size - 1 : r[i] = <<Of(r), i>>
        PROVE  From(r) = 1
    <3>1. 1 \in 1 .. size - 1
      BY <1>1 DEF size
    <3>2. r[1] = <<Of(r), 1>>
      BY <2>3, <3>1
    <3>. QED  BY <3>2 DEF From
  <2>. QED  BY <2>1, <2>2, <2>3
<1>4. From(r) = 1 <=> buffer[1][2] = 1
  BY DEF From
<1>. QED  BY <1>1, <1>3, <1>4 DEF Kind

\* A packet of which the beginning was in the buffer, and more is to come, is
\* longer than the first read and holds a newline before its end.
LEMMA CutForAReason ==
  ASSUME IInv, Matched, buffer # <<>>, From(buffer) = 1,
         To(buffer) < sent[Of(buffer)].size
  PROVE  sent[Of(buffer)].size > Block /\ sent[Of(buffer)].newlines # {sent[Of(buffer)].size}
<1>1. Stretch(buffer, sent) /\ sent \in Seq(Shapes)
  BY DEF IInv, TypeOK, PipeInOrder
<1>2. /\ Len(buffer) \in Nat \ {0} /\ To(buffer) = Len(buffer)
      /\ sent[Of(buffer)].size \in Nat
  <2>1. /\ Len(buffer) \in Nat \ {0} /\ To(buffer) = From(buffer) + Len(buffer) - 1
        /\ sent[Of(buffer)].size \in Nat
    BY <1>1, StretchNumbers
  <2>. QED  BY <2>1
<1>3. sent[Of(buffer)].size > Block
  <2>1. Len(buffer) >= Least(Block, sent[Of(buffer)].size)
    BY <1>1 DEF Stretch
  <2>. QED  BY <1>2, <2>1, SizesAssumption DEF Least
<1>4. PICK i \in DOMAIN buffer : IsNewline(buffer[i])
  BY DEF Matched
<1>5. i \in 1 .. Len(buffer)
  BY <1>1, <1>4, LenProperties DEF Stretch, Consecutive
<1>6. buffer[i] = <<Of(buffer), i>>
  <2>1. buffer[i] = <<Of(buffer), From(buffer) + i - 1>>
    BY <1>1, <1>5 DEF Stretch, Consecutive
  <2>. QED  BY <1>2, <1>5, <2>1
<1>7. i \in sent[Of(buffer)].newlines /\ i < sent[Of(buffer)].size
  BY <1>2, <1>4, <1>5, <1>6 DEF IsNewline
<1>. QED  BY <1>2, <1>3, <1>5, <1>7

\* What parse_packet leaves in the buffer is the rest of a packet it has seen
\* cut; when it leaves nothing, the rest is still to come or there is none.
LEMMA ParseKeeps ==
  ASSUME IInv, Parse
  PROVE  IInv'
<1>. USE DEF IInv
<1>. DEFINE p    == Of(buffer)
            size == sent[Of(buffer)].size
<1>1. /\ Matched
      /\ pieces' = Append(pieces, [pkt |-> p, kind |-> Kind])
      /\ reader' \in {"reading", "ended"}
      /\ UNCHANGED <<sent, wire, keeps, open>>
  BY DEF Parse, Of
<1>2. PICK n \in Drained :
        buffer' = IF keeps THEN SubSeq(buffer, n + 1, Len(buffer)) ELSE <<>>
  BY DEF Parse
<1>3. sent \in Seq(Shapes) /\ buffer \in Seq(Places) /\ buffer # <<>>
  <2>1. DOMAIN buffer # {}
    BY <1>1 DEF Matched
  <2>. QED  BY <2>1 DEF TypeOK
<1>4. Stretch(buffer, sent) /\ Consecutive(buffer) /\ IsNext(buffer, sent, pieces, keeps)
  BY <1>3 DEF PipeInOrder, NextInOrder, Stretch
<1>5. /\ Len(buffer) \in Nat \ {0} /\ From(buffer) \in Nat \ {0} /\ To(buffer) \in Nat
      /\ To(buffer) = From(buffer) + Len(buffer) - 1
      /\ p \in Nat \ {0} /\ p \in 1 .. Len(sent)
      /\ size \in Nat /\ size >= 2 /\ To(buffer) <= size
  <2>1. p \in 1 .. Len(sent)
    BY <1>4 DEF Stretch
  <2>. QED  BY <1>3, <1>4, <2>1, StretchNumbers
<1>6. /\ Kind \in {"whole", "head", "rest"}
      /\ Kind = "whole" <=> From(buffer) = 1 /\ Len(buffer) >= size - 1
      /\ Kind = "head" <=> From(buffer) = 1 /\ Len(buffer) < size - 1
      /\ Kind = "rest" <=> From(buffer) > 1
  BY <1>3, <1>4, KindOfStretch
<1>7. From(buffer) = 1 /\ To(buffer) < size => size > Block /\ sent[p].newlines # {size}
  BY <1>1, <1>3, CutForAReason
<1>8. From(buffer) > 1 => p = Begun(pieces) /\ MayBeCut(sent[p], keeps)
  BY <1>4 DEF IsNext
<1>9. From(buffer) = 1 => p = Begun(pieces) + 1
  BY <1>4 DEF IsNext
<1>a. Of(buffer) = p /\ sent[Of(buffer)].size = size /\ sent[p].size = size
  OBVIOUS
<1>. HIDE DEF p, size
<1>10. /\ pieces' \in Seq([pkt : Nat, kind : {"whole", "head", "rest"}])
       /\ Len(pieces) \in Nat /\ Len(pieces') = Len(pieces) + 1 /\ pieces' # <<>>
       /\ pieces'[Len(pieces')] = [pkt |-> p, kind |-> Kind]
       /\ \A i \in 1 .. Len(pieces) : pieces'[i] = pieces[i]
       /\ Begun(pieces') = p
  <2>1. [pkt |-> p, kind |-> Kind] \in [pkt : Nat, kind : {"whole", "head", "rest"}]
    BY <1>5, <1>6
  <2>2. pieces \in Seq([pkt : Nat, kind : {"whole", "head", "rest"}]) /\ Len(pieces) \in Nat
    BY LenProperties DEF TypeOK
  <2>3. /\ pieces' \in Seq([pkt : Nat, kind : {"whole", "head", "rest"}])
        /\ Len(pieces') = Len(pieces) + 1
        /\ pieces'[Len(pieces')] = [pkt |-> p, kind |-> Kind]
        /\ \A i \in 1 .. Len(pieces) : pieces'[i] = pieces[i]
    BY <1>1, <2>1, <2>2, AppendProperties
  <2>4. pieces' # <<>>
    BY <2>2, <2>3, EmptySeq
  <2>. QED  BY <2>2, <2>3, <2>4 DEF Begun
<1>11. /\ n \in 1 .. Len(buffer) /\ n \in Nat
       /\ n % Drain = 0 \/ n = Len(buffer)
       /\ Kind = "whole" => n >= size - 1
       /\ Kind = "head" => n = Len(buffer)
  <2>1. CASE Kind = "whole"
    BY <1>2, <1>5, <2>1 DEF Drained, Of, p, size
  <2>2. CASE Kind = "head"
    BY <1>2, <1>5, <2>2 DEF Drained
  <2>3. CASE Kind = "rest"
    BY <1>2, <1>5, <2>3 DEF Drained
  <2>. QED  BY <1>6, <2>1, <2>2, <2>3
<1>12. buffer' # <<>> =>
         /\ Stretch(buffer', sent) /\ Of(buffer') = p /\ To(buffer') = To(buffer)
         /\ IsNext(buffer', sent, pieces', keeps)
  <2>1. SUFFICES ASSUME buffer' # <<>>
                 PROVE  /\ Stretch(buffer', sent) /\ Of(buffer') = p /\ To(buffer') = To(buffer)
                        /\ IsNext(buffer', sent, pieces', keeps)
    OBVIOUS
  <2>2. keeps /\ buffer' = SubSeq(buffer, n + 1, Len(buffer))
    BY <1>2, <2>1
  <2>3. n < Len(buffer)
    <3>1. SUFFICES ASSUME n = Len(buffer) PROVE FALSE
      BY <1>5, <1>11
    <3>. QED  BY <1>5, <1>11, <2>1, <2>2, <3>1, SubSeqEmpty
  <2>4. n + 1 \in 1 .. Len(buffer) /\ Len(buffer) \in (n + 1) .. Len(buffer)
    BY <1>5, <1>11, <2>3
  <2>5. /\ Consecutive(buffer') /\ Len(buffer') = Len(buffer) - (n + 1) + 1
        /\ Of(buffer') = p /\ From(buffer') = From(buffer) + (n + 1) - 1
    <3>1. /\ Consecutive(buffer') /\ Len(buffer') = Len(buffer) - (n + 1) + 1
          /\ Of(buffer') = Of(buffer) /\ From(buffer') = From(buffer) + (n + 1) - 1
      <4>. DEFINE rest == SubSeq(buffer, n + 1, Len(buffer))
      <4>1. /\ Consecutive(rest) /\ Len(rest) = Len(buffer) - (n + 1) + 1
            /\ Of(rest) = Of(buffer) /\ From(rest) = From(buffer) + (n + 1) - 1
        BY <1>4, <2>4, PartOfRun
      <4>2. buffer' = rest
        BY <2>2
      <4>. HIDE DEF rest
      <4>. QED  BY <4>1, <4>2
    <3>. QED  BY <1>a, <3>1
  <2>6. To(buffer') = From(buffer') + Len(buffer') - 1
    BY <2>5, RunNumbers
  <2>7. From(buffer') >= 1 /\ From(buffer') > 1 /\ From(buffer') # 1 /\ To(buffer') = To(buffer)
    BY <1>5, <1>11, <2>5, <2>6
  <2>8. Stretch(buffer', sent)
    <3>1. Of(buffer') \in 1 .. Len(sent) /\ To(buffer') <= sent[Of(buffer')].size
      BY <1>5, <1>a, <2>5, <2>7
    <3>2. From(buffer') >= 1 /\ ~(From(buffer') = 1) /\ Consecutive(buffer')
      BY <2>5, <2>7
    <3>. QED  BY <3>1, <3>2 DEF Stretch
  <2>9. MayBeCut(sent[p], keeps)
    <3>1. CASE Kind = "whole"
      <4>1. n = size - 1 /\ n % Drain = 0
        BY <1>5, <1>6, <1>11, <2>3, <3>1
      <4>. QED  BY <2>2, <4>1 DEF MayBeCut, size, p
    <3>2. CASE Kind = "head"
      BY <1>5, <1>11, <2>3, <3>2
    <3>3. CASE Kind = "rest"
      BY <1>6, <1>8, <3>3
    <3>. QED  BY <1>6, <3>1, <3>2, <3>3
  <2>. QED  BY <1>10, <2>5, <2>7, <2>8, <2>9 DEF IsNext
<1>13. wire # <<>> => /\ Stretch(wire[1], sent) /\ Continues(buffer, wire[1], sent)
                      /\ IsNext(wire[1], sent, pieces', keeps)
  <2>1. SUFFICES ASSUME wire # <<>>
                 PROVE  /\ Stretch(wire[1], sent) /\ Continues(buffer, wire[1], sent)
                        /\ IsNext(wire[1], sent, pieces', keeps)
    OBVIOUS
  <2>2. 1 \in 1 .. Len(wire)
    BY <2>1, EmptySeq DEF TypeOK
  <2>3. Stretch(wire[1], sent) /\ Continues(buffer, wire[1], sent)
    BY <1>3, <2>1, <2>2 DEF PipeInOrder
  <2>4. CASE To(buffer) < size
    <3>1. Of(wire[1]) = p /\ From(wire[1]) = To(buffer) + 1
      BY <1>5, <1>a, <2>3, <2>4 DEF Continues
    <3>2. MayBeCut(sent[p], keeps)
      <4>1. CASE From(buffer) = 1
        <5>1. sent[p].size > Block /\ sent[p].newlines # {sent[p].size}
          BY <1>7, <1>a, <2>4, <4>1
        <5>. QED  BY <5>1 DEF MayBeCut
      <4>2. CASE From(buffer) > 1
        BY <1>8, <4>2
      <4>. QED  BY <1>5, <4>1, <4>2
    <3>3. From(wire[1]) # 1
      BY <1>5, <3>1
    <3>. QED  BY <1>10, <2>3, <3>1, <3>2, <3>3 DEF IsNext
  <2>5. CASE To(buffer) = size
    <3>1. Of(wire[1]) = p + 1 /\ From(wire[1]) = 1
      BY <1>5, <1>a, <2>3, <2>5 DEF Continues
    <3>. QED  BY <1>10, <2>3, <3>1 DEF IsNext
  <2>. QED  BY <1>5, <2>4, <2>5
<1>14. TypeOK'
  <2>1. buffer' \in Seq(Places)
    <3>1. CASE buffer' = <<>>
      BY <3>1, EmptySeq
    <3>2. CASE buffer' # <<>>
      BY <1>12, <3>2 DEF Stretch, Consecutive
    <3>. QED  BY <3>1, <3>2
  <2>2. ASSUME NEW i \in 1 .. Len(pieces') PROVE pieces'[i].pkt \in 1 .. Len(sent)
    <3>1. CASE i = Len(pieces')
      BY <1>5, <1>10, <3>1
    <3>2. CASE i # Len(pieces')
      <4>1. i \in 1 .. Len(pieces)
        BY <1>10, <3>2
      <4>. QED  BY <1>10, <4>1 DEF TypeOK
    <3>. QED  BY <3>1, <3>2
  <2>. QED  BY <1>1, <1>10, <2>1, <2>2 DEF TypeOK
<1>15. PipeInOrder'
  <2>1. buffer' # <<>> /\ wire # <<>> => Continues(buffer', wire[1], sent)
    BY <1>12, <1>13 DEF Continues, p
  <2>2. open /\ wire = <<>> /\ buffer' # <<>> => Final(buffer', sent)
    BY <1>3, <1>12 DEF PipeInOrder, Final, p
  <2>. QED  BY <1>1, <1>12, <2>1, <2>2 DEF PipeInOrder
<1>16. NextInOrder'
  <2>1. wire = <<>> /\ open => Begun(pieces') = Len(sent)
    BY <1>3, <1>10 DEF PipeInOrder, Final, p
  <2>. QED  BY <1>1, <1>12, <1>13, <2>1 DEF NextInOrder
<1>17. ResumesAtNextPacket'
  <2>1. CASE pieces = <<>>
    <3>1. Len(pieces') = 1 /\ Begun(pieces) = 0
      BY <1>10, <2>1, EmptySeq DEF Begun
    <3>2. pieces'[1] = [pkt |-> p, kind |-> Kind]
      BY <1>10, <3>1
    <3>3. From(buffer) = 1 /\ p = 1 /\ Kind # "rest"
      BY <1>5, <1>6, <1>8, <1>9, <3>1
    <3>. QED  BY <3>1, <3>2, <3>3 DEF ResumesAtNextPacket
  <2>2. CASE pieces # <<>>
    <3>1. Len(pieces) \in 1 .. Len(pieces) /\ 1 \in 1 .. Len(pieces)
      BY <1>10, <2>2, EmptySeq DEF TypeOK
    <3>2. pieces'[1].pkt = 1 /\ pieces'[1].kind # "rest"
      BY <1>10, <2>2, <3>1 DEF ResumesAtNextPacket
    <3>3. ASSUME NEW i \in 1 .. Len(pieces') - 1
          PROVE  pieces'[i + 1].pkt =
                   pieces'[i].pkt + IF pieces'[i + 1].kind = "rest" THEN 0 ELSE 1
      <4>1. CASE i = Len(pieces)
        <5>1. /\ pieces'[i + 1] = [pkt |-> p, kind |-> Kind]
              /\ pieces'[i] = pieces[Len(pieces)]
          BY <1>10, <3>1, <4>1
        <5>2. pieces'[i].pkt = Begun(pieces) /\ pieces'[i].pkt \in Nat
          BY <2>2, <3>1, <5>1 DEF Begun, TypeOK
        <5>. QED  BY <1>5, <1>6, <1>8, <1>9, <5>1, <5>2, SMTT(30)
      <4>2. CASE i # Len(pieces)
        <5>1. /\ i \in 1 .. Len(pieces) - 1 /\ i \in 1 .. Len(pieces)
              /\ i + 1 \in 1 .. Len(pieces)
          BY <1>10, <4>2
        <5>2. pieces'[i] = pieces[i] /\ pieces'[i + 1] = pieces[i + 1]
          BY <1>10, <5>1
        <5>. QED  BY <5>1, <5>2 DEF ResumesAtNextPacket
      <4>. QED  BY <4>1, <4>2
    <3>. QED  BY <3>2, <3>3 DEF ResumesAtNextPacket
  <2>. QED  BY <2>1, <2>2
<1>18. CutOnlyAtNewlines'
  <2>1. DOMAIN pieces' = 1 .. Len(pieces') /\ DOMAIN pieces = 1 .. Len(pieces)
    BY <1>10, LenProperties DEF TypeOK
  <2>2. ASSUME NEW i \in 1 .. Len(pieces')
        PROVE  \/ /\ sent[pieces'[i].pkt].size > Block
                  /\ sent[pieces'[i].pkt].newlines # {sent[pieces'[i].pkt].size}
               \/ pieces'[i].kind = "whole"
               \/ pieces'[i].kind = "rest" /\ keeps /\ (sent[pieces'[i].pkt].size - 1) % Drain = 0
    <3>1. CASE i = Len(pieces')
      <4>1. pieces'[i].pkt = p /\ pieces'[i].kind = Kind
        BY <1>10, <3>1
      <4>2. CASE Kind = "whole"
        BY <4>1, <4>2
      <4>3. CASE Kind = "head"
        <5>1. From(buffer) = 1 /\ To(buffer) < size
          BY <1>5, <1>6, <4>3
        <5>. QED  BY <1>7, <4>1, <5>1 DEF size, p
      <4>4. CASE Kind = "rest"
        BY <1>6, <1>8, <4>1, <4>4 DEF MayBeCut
      <4>. QED  BY <1>6, <4>2, <4>3, <4>4
    <3>2. CASE i # Len(pieces')
      <4>1. i \in 1 .. Len(pieces) /\ pieces'[i] = pieces[i]
        BY <1>10, <3>2
      <4>. QED  BY <2>1, <4>1 DEF CutOnlyAtNewlines
    <3>. QED  BY <3>1, <3>2
  <2>. QED  BY <1>1, <2>1, <2>2 DEF CutOnlyAtNewlines
<1>. QED  BY <1>14, <1>15, <1>16, <1>17, <1>18

\* A connection that breaks keeps the first of what was under way.
LEMMA BreakKeeps ==
  ASSUME IInv, Break
  PROVE  IInv'
<1>. USE DEF IInv
<1>1. /\ open' = FALSE /\ UNCHANGED <<sent, buffer, keeps, reader, pieces>>
  BY DEF Break
<1>2. PICK n \in 0 .. Len(wire) : wire' = SubSeq(wire, 1, n)
  BY DEF Break
<1>3. /\ n \in Nat /\ Len(wire) \in Nat /\ n <= Len(wire)
      /\ wire' \in Seq(Seq(Places)) /\ Len(wire') = n
      /\ \A i \in 1 .. n : wire'[i] = wire[i]
  <2>1. n \in Nat /\ Len(wire) \in Nat /\ n <= Len(wire)
    BY LenProperties DEF TypeOK
  <2>2. \A i \in 1 .. n : wire[i] \in Seq(Places)
    <3>1. TAKE i \in 1 .. n
    <3>2. i \in 1 .. Len(wire)
      BY <2>1
    <3>. QED  BY <3>2, ElementOfSeq DEF TypeOK
  <2>3. /\ wire' \in Seq(Seq(Places)) /\ Len(wire') = IF 1 <= n THEN n - 1 + 1 ELSE 0
        /\ \A i \in 1 .. n - 1 + 1 : wire'[i] = wire[1 + i - 1]
    BY <1>2, <2>1, <2>2, SubSeqProperties
  <2>4. \A i \in 1 .. n : wire'[i] = wire[i]
    <3>1. TAKE i \in 1 .. n
    <3>2. i \in 1 .. n - 1 + 1 /\ 1 + i - 1 = i
      BY <2>1
    <3>. QED  BY <2>3, <3>2
  <2>. QED  BY <2>1, <2>3, <2>4
<1>4. wire' # <<>> => wire # <<>> /\ wire'[1] = wire[1]
  <2>1. SUFFICES ASSUME wire' # <<>> PROVE wire # <<>> /\ wire'[1] = wire[1]
    OBVIOUS
  <2>2. n >= 1
    BY <1>3, <2>1, EmptySeq
  <2>3. Len(<<>>) = 0
    BY EmptySeq
  <2>. QED  BY <1>3, <2>2, <2>3
<1>5. TypeOK'
  BY <1>1, <1>3 DEF TypeOK
<1>6. PipeInOrder'
  <2>1. \A i \in 1 .. Len(wire') : Stretch(wire'[i], sent)
    BY <1>3, SMTT(30) DEF PipeInOrder
  <2>2. \A i \in 1 .. Len(wire') - 1 : Continues(wire'[i], wire'[i + 1], sent)
    <3>1. TAKE i \in 1 .. Len(wire') - 1
    <3>2. /\ i \in 1 .. Len(wire) - 1 /\ i \in 1 .. n /\ i + 1 \in 1 .. n
      BY <1>3
    <3>. QED  BY <1>3, <3>2 DEF PipeInOrder
  <2>. QED  BY <1>1, <1>4, <2>1, <2>2 DEF PipeInOrder
<1>7. NextInOrder'
  BY <1>1, <1>4 DEF NextInOrder
<1>8. ResumesAtNextPacket' /\ CutOnlyAtNewlines'
  BY <1>1 DEF ResumesAtNextPacket, CutOnlyAtNewlines
<1>. QED  BY <1>5, <1>6, <1>7, <1>8

\* Every step of the connection and of its reader keeps the invariant.
LEMMA NextKeeps == IInv /\ [Next]_vars => IInv'
<1>. SUFFICES ASSUME IInv, [Next]_vars PROVE IInv'
  OBVIOUS
<1>1. ASSUME NEW s \in Shapes, Send(s) PROVE IInv'
  BY <1>1, SendKeeps
<1>2. CASE Break
  BY <1>2, BreakKeeps
<1>3. CASE Read
  BY <1>3, ReadKeeps
<1>4. CASE Parse
  BY <1>4, ParseKeeps
<1>5. CASE ReadFails
  BY <1>5 DEF ReadFails, IInv, TypeOK, PipeInOrder, NextInOrder, ResumesAtNextPacket,
              CutOnlyAtNewlines
<1>6. CASE UNCHANGED vars
  BY <1>6 DEF vars, IInv, TypeOK, PipeInOrder, NextInOrder, ResumesAtNextPacket,
              CutOnlyAtNewlines
<1>. QED  BY <1>1, <1>2, <1>3, <1>4, <1>5, <1>6 DEF Next, ReaderStep

\* The invariant of Framing: what is under way are the packets in order, and
\* what is parsed next is the next packet or the rest of one that was cut.
THEOREM FramingInvariant == Spec => []IInv
<1>1. Init => IInv
  BY InitIInv
<1>2. IInv /\ [Next]_vars => IInv'
  BY NextKeeps
<1>. QED  BY <1>1, <1>2, PTL DEF Spec

\* A buffer that is a stretch holds bytes of one packet only.
LEMMA StretchesDoNotMix == IInv => PacketsDoNotMix
<1>. SUFFICES ASSUME IInv, NEW i \in 1 .. Len(buffer) - 1
              PROVE  buffer[i + 1] = <<buffer[i][1], buffer[i][2] + 1>>
  BY DEF PacketsDoNotMix
<1>1. sent \in Seq(Shapes) /\ buffer \in Seq(Places)
  BY DEF IInv, TypeOK
<1>2. buffer # <<>>
  <2>1. SUFFICES ASSUME buffer = <<>> PROVE FALSE
    OBVIOUS
  <2>2. Len(buffer) = 0
    BY <2>1, EmptySeq
  <2>. QED  BY <2>2
<1>3. Stretch(buffer, sent)
  BY <1>2 DEF IInv, PipeInOrder
<1>4. Len(buffer) \in Nat \ {0} /\ From(buffer) \in Nat
  BY <1>1, <1>3, StretchNumbers
<1>5. i \in 1 .. Len(buffer) /\ i + 1 \in 1 .. Len(buffer)
  BY <1>4
<1>6. /\ buffer[i] = <<Of(buffer), From(buffer) + i - 1>>
      /\ buffer[i + 1] = <<Of(buffer), From(buffer) + (i + 1) - 1>>
  BY <1>3, <1>5 DEF Stretch, Consecutive
<1>7. From(buffer) + (i + 1) - 1 = (From(buffer) + i - 1) + 1
  BY <1>4, <1>5
<1>. QED  BY <1>6, <1>7

\* A buffer never holds bytes of two packets, whatever the packets' sizes and
\* the sizes of reads, records and blocks: nothing is dropped with what the
\* parser leaves.
THEOREM BuffersHoldOnePacket == Spec => []PacketsDoNotMix
<1>1. IInv => PacketsDoNotMix
  BY StretchesDoNotMix
<1>. QED  BY <1>1, FramingInvariant, PTL

\* The reader begins each packet exactly once and in the order sent, however
\* the packets before were cut.
THEOREM ReaderResumes == Spec => []ResumesAtNextPacket
<1>1. IInv => ResumesAtNextPacket
  BY DEF IInv
<1>. QED  BY <1>1, FramingInvariant, PTL

\* Only a packet that is longer than the first read and has a newline before
\* its last byte is cut, or one that fills the parser's blocks exactly.
THEOREM PacketsCutForAReason == Spec => []CutOnlyAtNewlines
<1>1. IInv => CutOnlyAtNewlines
  BY DEF IInv
<1>. QED  BY <1>1, FramingInvariant, PTL

\* Every packet was parsed whole, once, and in the order sent.
WholeInOrder == \A i \in 1 .. Len(pieces) : pieces[i] = [pkt |-> i, kind |-> "whole"]

\* What a packet must be like for that: it fits the first read or has no newline
\* byte but the last, and its message does not fill the parser's blocks.
Tame(s) ==
  /\ s.size <= Block \/ s.newlines = {s.size}
  /\ (s.size - 1) % Drain # 0

\* A piece that is parsed after whole ones is the next packet.
LEMMA ParsedWhole ==
  ASSUME \A s \in Shapes : Tame(s), IInv, IInv', WholeInOrder, Parse
  PROVE  WholeInOrder'
<1>1. PICK p : p = [pkt |-> buffer[1][1], kind |-> Kind] /\ pieces' = Append(pieces, p)
  BY DEF Parse
<1>2. pieces \in Seq([pkt : Nat, kind : {"whole", "head", "rest"}])
  BY DEF IInv, TypeOK
<1>3. pieces' \in Seq([pkt : Nat, kind : {"whole", "head", "rest"}])
  BY DEF IInv, TypeOK
<1>4. PICK n : n = Len(pieces)
  OBVIOUS
<1>5. /\ n \in Nat /\ Len(pieces') = n + 1 /\ pieces'[n + 1] = p
      /\ \A i \in 1 .. n : pieces'[i] = pieces[i]
  BY <1>1, <1>2, <1>4, LenProperties
<1>6. n + 1 \in 1 .. Len(pieces') /\ n + 1 \in DOMAIN pieces'
  BY <1>3, <1>5
<1>7. p.kind = "whole"
  <2>1. sent' \in Seq(Shapes) /\ p.pkt \in 1 .. Len(sent')
    BY <1>5, <1>6 DEF IInv, TypeOK
  <2>2. PICK s : s = sent'[p.pkt]
    OBVIOUS
  <2>3. s \in Shapes
    BY <2>1, <2>2
  <2>4. Tame(s)
    BY <2>3
  <2>5. s.size \in Nat
    BY <2>3, ShapesAssumption
  <2>6. \/ s.size > Block /\ s.newlines # {s.size}
        \/ p.kind = "whole"
        \/ p.kind = "rest" /\ keeps' /\ (s.size - 1) % Drain = 0
    BY <1>5, <1>6, <2>2 DEF IInv, CutOnlyAtNewlines
  <2>. QED  BY <2>4, <2>5, <2>6, SizesAssumption DEF Tame
<1>8. p.pkt = n + 1
  <2>1. CASE n = 0
    <3>1. pieces' # <<>>
      BY <1>5, EmptySeq, <2>1
    <3>2. pieces'[1].pkt = 1
      BY <3>1 DEF IInv, ResumesAtNextPacket
    <3>. QED  BY <1>5, <2>1, <3>2
  <2>2. CASE n # 0
    <3>1. n \in 1 .. Len(pieces') - 1 /\ n \in 1 .. n
      BY <1>5, <2>2
    <3>2. pieces'[n + 1].pkt = pieces'[n].pkt + IF pieces'[n + 1].kind = "rest" THEN 0 ELSE 1
      BY <3>1 DEF IInv, ResumesAtNextPacket
    <3>3. pieces'[n] = [pkt |-> n, kind |-> "whole"]
      BY <1>4, <1>5, <3>1 DEF WholeInOrder
    <3>4. pieces'[n].pkt = n /\ pieces'[n + 1].kind # "rest"
      BY <1>5, <1>7, <3>3
    <3>. QED  BY <1>5, <3>2, <3>4
  <2>. QED  BY <2>1, <2>2
<1>9. p = [pkt |-> n + 1, kind |-> "whole"]
  BY <1>1, <1>7, <1>8
<1>10. ASSUME NEW i \in 1 .. n + 1
       PROVE  pieces'[i] = [pkt |-> i, kind |-> "whole"]
  <2>1. i \in 1 .. n \/ i = n + 1
    BY <1>5
  <2>. QED  BY <1>4, <1>5, <1>9, <2>1 DEF WholeInOrder
<1>. QED  BY <1>5, <1>10 DEF WholeInOrder

\* What the modules of the sessions take for granted: of packets without a
\* newline byte where it matters each is parsed whole, once, and in the order
\* sent, by whichever of the two receivers.
THEOREM PacketsArriveWhole ==
  ASSUME \A s \in Shapes : Tame(s)
  PROVE  Spec => []WholeInOrder
<1>1. Init => IInv /\ WholeInOrder
  <2>1. ASSUME Init PROVE Len(pieces) = 0
    BY <2>1, EmptySeq DEF Init
  <2>2. ASSUME Init PROVE WholeInOrder
    BY <2>1, <2>2 DEF WholeInOrder
  <2>. QED  BY <2>2, InitIInv
<1>2. IInv /\ WholeInOrder /\ [Next]_vars => (IInv /\ WholeInOrder)'
  <2>. SUFFICES ASSUME IInv, WholeInOrder, [Next]_vars
                PROVE  IInv' /\ WholeInOrder'
    OBVIOUS
  <2>1. IInv'
    BY NextKeeps
  <2>2. CASE Parse
    BY <2>1, <2>2, ParsedWhole
  <2>3. CASE ~Parse
    <3>1. pieces' = pieces
      BY <2>3 DEF Next, ReaderStep, Send, Break, Read, ReadFails, vars
    <3>. QED  BY <2>1, <3>1 DEF WholeInOrder
  <2>. QED  BY <2>1, <2>2, <2>3
<1>. QED  BY <1>1, <1>2, PTL DEF Spec
=============================================================================
