--------------------------- MODULE TcpFramingProofs ---------------------------
(* Theorems about TcpFraming, for any well-formed packets, size of the     *)
(* buffer and of the status array, and whatever memory nobody has written  *)
(* may hold.                                                               *)
EXTENDS TcpFraming, TLAPS

(* Packets lie in the stream one after the other. *)
GridInv ==
    /\ ends[0] = 0
    /\ \A i \in 0..Len(sent) : ends[i] % 4 = 0
    /\ \A i \in 1..Len(sent) : ends[i] = ends[i - 1] + sent[i][2]
    /\ \A i, j \in 0..Len(sent) : i < j => ends[i] < ends[j]

(* What is to be read, and what was read last, are the halves of packets   *)
(* in their places.                                                        *)
StreamInv ==
    \A i \in 1..Len(sent) : \A j \in 1..Len(sent[i]), h \in 1..Len(stream) :
        base + nread + 2 * h = ends[i - 1] + 2 * j => stream[h] = sent[i][j]

BufferInv ==
    handler = "deal" =>
        /\ nread <= 2 * Len(msg)
        /\ \A i \in 1..Len(sent) : \A j \in 1..Len(sent[i]), h \in 1..Len(msg) :
              2 * h <= nread /\ base + 2 * h = ends[i - 1] + 2 * j => msg[h] = sent[i][j]

(* The loop goes forward. *)
DoneInv ==
    \A k \in 1..Len(done) :
        /\ done[k].at + done[k].left <= base + nread
        /\ done[k].at < base + nread
        /\ handler # "spins" => done[k].at < base + nwrite
        /\ \A l \in 1..Len(done) : k < l => done[k].at < done[l].at

(* In a read that starts with a packet the loop is where a packet starts,  *)
(* or in the packet that the read has cut.                                 *)
SyncInv ==
    handler = "deal" /\ base \in Boundaries =>
        /\ WholePackets(base, base + nread) \subseteq due
        /\ \/ base + nwrite \in Boundaries
           \/ \A b \in Boundaries : b < base + nwrite \/ b > base + nread

Pending(i) ==
    /\ handler = "deal" /\ base \in Boundaries
    /\ base + nwrite <= ends[i - 1] /\ ends[i] <= base + nread

ServedInv ==
    /\ \A i \in due : Pending(i) \/ \E k \in 1..Len(done) : done[k].sync /\ Serves(done[k], i)
    /\ \A k \in 1..Len(done), i \in 1..Len(sent) :
          done[k].sync /\ Serves(done[k], i) => i \in due /\ Carries(done[k], sent[i])

IInv == TypeOK /\ GridInv /\ StreamInv /\ BufferInv /\ DoneInv /\ SyncInv /\ ServedInv
        /\ NothingMadeUp /\ OwnStatusFirst

-----------------------------------------------------------------------------
(* Facts about the operators and the constants. *)

LEMMA MinFact ==
    ASSUME NEW a \in Int, NEW b \in Int
    PROVE  /\ Min({a, b}) \in Int
           /\ Min({a, b}) <= a /\ Min({a, b}) <= b
           /\ Min({a, b}) = a \/ Min({a, b}) = b
  <1>1. \E x \in {a, b} : \A y \in {a, b} : x <= y
    <2>1. CASE a <= b
      <3>1. \A y \in {a, b} : a <= y
        BY <2>1
      <3> QED
        BY <3>1
    <2>2. CASE b <= a
      <3>1. \A y \in {a, b} : b <= y
        BY <2>2
      <3> QED
        BY <3>1
    <2> QED
      BY <2>1, <2>2
  <1>2. Min({a, b}) \in {a, b} /\ \A y \in {a, b} : Min({a, b}) <= y
    BY <1>1 DEF Min
  <1> QED
    BY <1>2

LEMMA MaxFact ==
    ASSUME NEW a \in Int, NEW b \in Int
    PROVE  /\ Max({a, b}) \in Int
           /\ a <= Max({a, b}) /\ b <= Max({a, b})
  <1>1. \E x \in {a, b} : \A y \in {a, b} : x >= y
    <2>1. CASE a <= b
      <3>1. \A y \in {a, b} : b >= y
        BY <2>1
      <3> QED
        BY <3>1
    <2>2. CASE b <= a
      <3>1. \A y \in {a, b} : a >= y
        BY <2>2
      <3> QED
        BY <3>1
    <2> QED
      BY <2>1, <2>2
  <1>2. Max({a, b}) \in {a, b} /\ \A y \in {a, b} : Max({a, b}) >= y
    BY <1>1 DEF Max
  <1> QED
    BY <1>2

LEMMA ModFact ==
    ASSUME NEW a \in Int, NEW b \in Nat, b > 0
    PROVE  a % b \in 0..(b - 1) /\ (0 <= a /\ a < b => a % b = a)
  OBVIOUS

LEMMA FourFact ==
    ASSUME NEW a \in Nat, NEW b \in Nat, a % 4 = 0, b % 4 = 0
    PROVE  (a + b) % 4 = 0
  OBVIOUS

LEMMA ShiftFact ==
    ASSUME NEW a \in Int, NEW b \in Int, NEW c \in Int, NEW d \in Int
    PROVE  /\ c < d => a + c < a + d
           /\ b < a + c /\ c <= d => b < a + d
           /\ b <= a + c /\ c < d => b < a + d
  OBVIOUS

LEMMA ChainFact ==
    ASSUME NEW a \in Int, NEW b \in Int, NEW c \in Int, NEW d \in Int
    PROVE  /\ a <= b /\ b <= c /\ c <= d => a <= d
           /\ a <= b /\ c >= 0 => a <= b + c
           /\ a < b /\ c >= 0 => a < b + c
  OBVIOUS

(* Where a half of a packet lies, in halves. *)
LEMMA PlaceFact ==
    ASSUME NEW w \in Nat, NEW j \in Nat, NEW l \in Nat, NEW r \in Nat,
           j <= l, 2 * w + 2 * l <= r
    PROVE  2 * (w + j) <= r
  OBVIOUS

LEMMA QuarterFact ==
    ASSUME NEW x \in Nat, NEW y \in Nat, 8 <= x, x <= y
    PROVE  /\ (x - 8) \div 4 \in Nat /\ 4 * ((x - 8) \div 4) <= x - 8
           /\ (y - 8) \div 4 >= (x - 8) \div 4
  OBVIOUS

LEMMA HalfFact ==
    ASSUME NEW x \in Half
    PROVE  x \in Nat
  BY DEF Half

LEMMA PacketFact ==
    ASSUME NEW p \in Packets
    PROVE  /\ p \in Seq(Half) /\ Len(p) \in Nat /\ Len(p) >= 2
           /\ p[1] \in Half /\ p[2] \in Nat /\ HSB_CMD_VALID(p[1])
           /\ p[2] = 2 * Len(p) /\ p[2] % 4 = 0 /\ p[2] <= BufSize
           /\ p[1] = HSB_CMD_SET_STATUS => p[2] >= 8
  <1>1. p \in Seq(Half) /\ Len(p) >= 2 /\ p[2] = 2 * Len(p)
    BY PacketsAssumption
  <1>2. Len(p) \in Nat /\ p[1] \in Half /\ p[2] \in Half
    BY <1>1
  <1>3. p[2] \in Nat
    BY <1>1, <1>2
  <1>4. HSB_CMD_VALID(p[1]) /\ p[2] % 4 = 0 /\ p[2] <= BufSize
    BY PacketsAssumption
  <1>5. p[1] = HSB_CMD_SET_STATUS => p[2] >= 8
    BY PacketsAssumption
  <1> QED
    BY <1>1, <1>2, <1>3, <1>4, <1>5

(* What a read leaves in the buffer starts with what was read. *)
LEMMA OverwrittenFact ==
    ASSUME msg \in Seq(Half), NEW s \in Seq(Half)
    PROVE  /\ Overwritten(s) \in Seq(Half)
           /\ Len(s) <= Len(Overwritten(s))
           /\ Len(Overwritten(s)) = Len(s) \/ Len(Overwritten(s)) = Len(msg)
           /\ \A h \in 1..Len(s) : Overwritten(s)[h] = s[h]
  BY DEF Overwritten

(* What is seen of the buffer is 16 bits; what lies in the read is what    *)
(* was read.                                                               *)
LEMMA FieldFact ==
    ASSUME TypeOK, NEW stray \in Strays, NEW off \in Nat
    PROVE  /\ Field(off, stray) \in Half
           /\ \A h \in 1..Len(msg) :
                 nwrite + off = 2 * (h - 1) => Field(off, stray) = msg[h]
  <1>1. nwrite + off \in Nat /\ msg \in Seq(Half) /\ stray \in Half
    BY StraysAssumption DEF TypeOK
  <1> DEFINE o == nwrite + off
  <1>2. Field(off, stray) = IF o % 2 = 0 /\ o \div 2 < Len(msg)
                            THEN msg[o \div 2 + 1] ELSE stray
    BY DEF Field, GetCmdField
  <1>3. o \div 2 \in Nat
    BY <1>1
  <1> HIDE DEF o
  <1>4. Field(off, stray) \in Half
    BY <1>1, <1>2, <1>3
  <1>5. ASSUME NEW h \in 1..Len(msg), o = 2 * (h - 1)
        PROVE  Field(off, stray) = msg[h]
    <2>1. o % 2 = 0 /\ o \div 2 = h - 1 /\ h - 1 < Len(msg)
      BY <1>1, <1>5
    <2> QED
      BY <2>1, <1>2, <1>1
  <1> QED
    BY <1>4, <1>5 DEF o

(* A step that leaves the stream, or the buffer, alone. *)
LEMMA SameStream ==
    ASSUME StreamInv, UNCHANGED <<sent, ends, base, nread, stream>>
    PROVE  StreamInv'
  <1>1. ASSUME NEW i \in 1..Len(sent), NEW j \in 1..Len(sent[i]), NEW h \in 1..Len(stream),
               base + nread + 2 * h = ends[i - 1] + 2 * j
        PROVE  stream[h] = sent[i][j]
    BY <1>1 DEF StreamInv
  <1>2. ASSUME NEW i \in 1..Len(sent'), NEW j \in 1..Len(sent'[i]), NEW h \in 1..Len(stream'),
               base' + nread' + 2 * h = ends'[i - 1] + 2 * j
        PROVE  stream'[h] = sent'[i][j]
    <2>1. /\ i \in 1..Len(sent) /\ j \in 1..Len(sent[i]) /\ h \in 1..Len(stream)
          /\ base + nread + 2 * h = ends[i - 1] + 2 * j
      BY <1>2, Zenon
    <2> QED
      BY <2>1, <1>1, Zenon
  <1> QED
    BY <1>2 DEF StreamInv

LEMMA SameBuffer ==
    ASSUME BufferInv, UNCHANGED <<sent, ends, base, nread, msg>>,
           handler' = "deal" => handler = "deal"
    PROVE  BufferInv'
  <1> SUFFICES ASSUME handler' = "deal"
               PROVE  BufferInv'
    BY DEF BufferInv
  <1>1. nread <= 2 * Len(msg)
    BY DEF BufferInv
  <1>2. ASSUME NEW i \in 1..Len(sent), NEW j \in 1..Len(sent[i]), NEW h \in 1..Len(msg),
               2 * h <= nread, base + 2 * h = ends[i - 1] + 2 * j
        PROVE  msg[h] = sent[i][j]
    BY <1>2 DEF BufferInv
  <1>3. nread' <= 2 * Len(msg') /\ handler' = "deal"
    BY <1>1
  <1>4. ASSUME NEW i \in 1..Len(sent'), NEW j \in 1..Len(sent'[i]), NEW h \in 1..Len(msg'),
               2 * h <= nread', base' + 2 * h = ends'[i - 1] + 2 * j
        PROVE  msg'[h] = sent'[i][j]
    <2>1. /\ i \in 1..Len(sent) /\ j \in 1..Len(sent[i]) /\ h \in 1..Len(msg)
          /\ 2 * h <= nread /\ base + 2 * h = ends[i - 1] + 2 * j
      BY <1>4, Zenon
    <2> QED
      BY <2>1, <1>2, Zenon
  <1> QED
    BY <1>3, <1>4 DEF BufferInv

-----------------------------------------------------------------------------
(* The pad sends: the new packet lies beyond all that was read. *)

LEMMA SizeFact ==
    ASSUME TypeOK
    PROVE  /\ Len(sent) \in Nat /\ Len(stream) \in Nat /\ Len(msg) \in Nat /\ Len(done) \in Nat
           /\ base \in Nat /\ nread \in Nat /\ nwrite \in Nat
           /\ ends[Len(sent)] \in Nat /\ ends[Len(sent)] = base + nread + 2 * Len(stream)
           /\ \A i \in 0..Len(sent) : ends[i] \in Nat
           /\ \A i \in 1..Len(sent) : i - 1 \in 0..Len(sent) /\ ends[i - 1] \in Nat
           /\ \A i \in 1..Len(sent) : sent[i] \in Packets
  <1>1. /\ sent \in Seq(Packets) /\ stream \in Seq(Half) /\ msg \in Seq(Half) /\ done \in Seq(Done)
        /\ base \in Nat /\ nread \in 0..BufSize /\ nwrite \in 0..nread
        /\ ends \in [0..Len(sent) -> Nat]
        /\ base + nread + 2 * Len(stream) = ends[Len(sent)]
    BY DEF TypeOK
  <1>2. Len(sent) \in Nat /\ \A i \in 1..Len(sent) : sent[i] \in Packets
    BY <1>1
  <1>3. Len(stream) \in Nat /\ Len(msg) \in Nat /\ Len(done) \in Nat
    BY <1>1
  <1>4. nread \in Nat /\ nwrite \in Nat
    BY <1>1, SizesAssumption
  <1>5. \A i \in 0..Len(sent) : ends[i] \in Nat
    BY <1>1
  <1>6. \A i \in 1..Len(sent) : i - 1 \in 0..Len(sent)
    BY <1>2
  <1>7. Len(sent) \in 0..Len(sent)
    BY <1>2
  <1> QED
    BY <1>1, <1>2, <1>3, <1>4, <1>5, <1>6, <1>7

LEMMA DoneFact ==
    ASSUME TypeOK, NEW k \in 1..Len(done)
    PROVE  /\ done[k] \in Done /\ done[k].at \in Nat /\ done[k].left \in Nat
           /\ done[k].sync \in BOOLEAN /\ done[k].cmd \in Half
  <1>1. done \in Seq(Done)
    BY DEF TypeOK
  <1>2. done[k] \in Done
    BY <1>1
  <1> QED
    BY <1>2 DEF Done

(* Where packets lie before and after one is sent. *)
LEMMA SendFact ==
    ASSUME TypeOK, NEW p \in Packets, PadSends(p)
    PROVE  /\ Len(sent') = Len(sent) + 1 /\ sent'[Len(sent) + 1] = p
           /\ \A i \in 1..Len(sent) : sent'[i] = sent[i]
           /\ \A i \in 0..Len(sent) : ends'[i] = ends[i]
           /\ ends'[Len(sent) + 1] = ends[Len(sent)] + p[2]
           /\ ends' \in [0..(Len(sent) + 1) -> Nat]
           /\ ends'[Len(sent) + 1] > base + nread
           /\ \A b \in Int : b <= base + nread => (b \in Boundaries' <=> b \in Boundaries)
  <1>1. /\ sent' = Append(sent, p)
        /\ ends' = [i \in 0..(Len(sent) + 1) |->
                      IF i <= Len(sent) THEN ends[i] ELSE ends[Len(sent)] + p[2]]
    BY DEF PadSends
  <1>2. sent \in Seq(Packets)
    BY DEF TypeOK
  <1>3. Len(sent) \in Nat /\ ends[Len(sent)] \in Nat /\ \A i \in 0..Len(sent) : ends[i] \in Nat
    BY SizeFact
  <1>4. p[2] \in Nat /\ p[2] >= 4
    BY PacketFact
  <1>5. /\ Len(sent') = Len(sent) + 1 /\ sent'[Len(sent) + 1] = p
        /\ \A i \in 1..Len(sent) : sent'[i] = sent[i]
    BY <1>1, <1>2
  <1>6. /\ \A i \in 0..Len(sent) : ends'[i] = ends[i]
        /\ ends'[Len(sent) + 1] = ends[Len(sent)] + p[2]
        /\ ends' \in [0..(Len(sent) + 1) -> Nat]
    BY <1>1, <1>3, <1>4
  <1>7. ends'[Len(sent) + 1] > base + nread
    <2>0. /\ ends[Len(sent)] \in Nat /\ 2 * Len(stream) \in Nat
          /\ ends[Len(sent)] = base + nread + 2 * Len(stream)
      BY SizeFact
    <2>1. PICK e \in Nat, x \in Nat, s \in Nat :
              /\ e = ends[Len(sent)] /\ x = p[2] /\ s = 2 * Len(stream)
              /\ e = base + nread + s /\ x >= 4
      BY <2>0, <1>4
    <2>2. base \in Nat /\ nread \in Nat
      BY SizeFact
    <2>3. e + x > base + nread
      BY <2>1, <2>2
    <2> QED
      BY <2>1, <2>3, <1>6
  <1>8. ASSUME NEW b \in Int, b <= base + nread
        PROVE  b \in Boundaries' <=> b \in Boundaries
    <2>1. b \in Boundaries <=> \E i \in 0..Len(sent) : b = ends[i]
      BY DEF Boundaries
    <2>2. b \in Boundaries' <=> \E i \in 0..(Len(sent) + 1) : b = ends'[i]
      BY <1>5 DEF Boundaries
    <2>3. b # ends'[Len(sent) + 1]
      BY <1>7, <1>8, SizeFact
    <2>4. \A i \in 0..(Len(sent) + 1) : i \in 0..Len(sent) \/ i = Len(sent) + 1
      BY <1>3
    <2>5. \A i \in 0..Len(sent) : i \in 0..(Len(sent) + 1)
      BY <1>3
    <2> QED
      BY <2>1, <2>2, <2>3, <2>4, <2>5, <1>6
  <1> QED
    BY <1>5, <1>6, <1>7, <1>8

LEMMA SendServes ==
    ASSUME TypeOK, DoneInv, NEW p \in Packets, PadSends(p), NEW k \in 1..Len(done)
    PROVE  \A i \in 1..Len(sent') :
               Serves(done[k], i)' <=> (i \in 1..Len(sent) /\ Serves(done[k], i))
  <1>1. done' = done
    BY DEF PadSends
  <1>2. ASSUME NEW i \in 1..Len(sent)
        PROVE  Serves(done[k], i)' <=> Serves(done[k], i)
    <2>1. sent'[i] = sent[i] /\ ends'[i - 1] = ends[i - 1]
      BY SendFact, SizeFact
    <2> QED
      BY <2>1, <1>1 DEF Serves
  <1>3. done[k].at < base + nread /\ done[k].at \in Nat
    BY DoneFact DEF DoneInv
  <1>4. ends'[Len(sent)] = ends[Len(sent)] /\ (Len(sent) + 1) - 1 = Len(sent)
    BY SendFact, SizeFact
  <1>5. done[k].at # ends'[Len(sent)]
    BY <1>3, <1>4, SizeFact
  <1>6. ASSUME NEW i, i = Len(sent) + 1
        PROVE  ~ Serves(done[k], i)'
    BY <1>1, <1>4, <1>5, <1>6 DEF Serves
  <1>7. \A i \in 1..Len(sent') : i \in 1..Len(sent) \/ i = Len(sent) + 1
    <2>1. Len(sent') = Len(sent) + 1 /\ Len(sent) \in Nat
      BY SendFact, SizeFact
    <2> QED
      BY <2>1
  <1>8. \A i \in 1..Len(sent) : i # Len(sent) + 1
    BY SizeFact
  <1> QED
    BY <1>2, <1>6, <1>7, <1>8

LEMMA SendTypeOK ==
    ASSUME TypeOK, NEW p \in Packets, PadSends(p)
    PROVE  TypeOK'
  <1>1. /\ Len(sent) < MaxPackets /\ sent' = Append(sent, p) /\ stream' = stream \o p
        /\ UNCHANGED <<open, handler, msg, nread, nwrite, notes, done, base, due>>
    BY DEF PadSends
  <1>2. sent \in Seq(Packets) /\ stream \in Seq(Half) /\ due \subseteq 1..Len(sent)
    BY DEF TypeOK
  <1>3. p \in Seq(Half) /\ p[2] = 2 * Len(p) /\ Len(p) \in Nat
    BY PacketFact
  <1>4. sent' \in Seq(Packets) /\ Len(sent') <= MaxPackets
    BY <1>1, <1>2, BoundsAssumption
  <1>5. stream' \in Seq(Half) /\ Len(stream') = Len(stream) + Len(p)
    BY <1>1, <1>2, <1>3
  <1>6. ends' \in [0..Len(sent') -> Nat]
    BY SendFact
  <1>7. base' + nread' + 2 * Len(stream') = ends'[Len(sent')]
    BY <1>1, <1>3, <1>5, SendFact, SizeFact
  <1>8. due' \subseteq 1..Len(sent')
    BY <1>1, <1>2, SendFact, SizeFact
  <1> QED
    BY <1>1, <1>4, <1>5, <1>6, <1>7, <1>8 DEF TypeOK

LEMMA SendGrid ==
    ASSUME TypeOK, GridInv, NEW p \in Packets, PadSends(p)
    PROVE  GridInv'
  <1> DEFINE n == Len(sent)
  <1>1. /\ Len(sent') = n + 1 /\ sent'[n + 1] = p
        /\ \A i \in 1..n : sent'[i] = sent[i]
        /\ \A i \in 0..n : ends'[i] = ends[i]
        /\ ends'[n + 1] = ends[n] + p[2]
    BY SendFact
  <1>2. n \in Nat /\ \A i \in 0..n : ends[i] \in Nat
    BY SizeFact
  <1>3. p[2] \in Nat /\ p[2] >= 4 /\ p[2] % 4 = 0
    BY PacketFact
  <1>4. /\ ends[0] = 0 /\ \A i \in 0..n : ends[i] % 4 = 0
        /\ \A i \in 1..n : ends[i] = ends[i - 1] + sent[i][2]
        /\ \A i, j \in 0..n : i < j => ends[i] < ends[j]
    BY DEF GridInv
  <1> HIDE DEF n
  <1>5. ends'[0] = 0
    BY <1>1, <1>2, <1>4
  <1>6. \A i \in 0..(n + 1) : ends'[i] % 4 = 0
    <2>1. ends[n] % 4 = 0 /\ ends[n] \in Nat
      BY <1>2, <1>4
    <2>2. (ends[n] + p[2]) % 4 = 0
      BY <2>1, <1>3, FourFact
    <2>3. ends'[n + 1] % 4 = 0
      BY <2>2, <1>1
    <2> QED
      BY <2>3, <1>1, <1>2, <1>4
  <1>7. \A i \in 1..(n + 1) : ends'[i] = ends'[i - 1] + sent'[i][2]
    <2>1. ASSUME NEW i \in 1..n
          PROVE  ends'[i] = ends'[i - 1] + sent'[i][2]
      <3>1. i \in 0..n /\ i - 1 \in 0..n
        BY <1>2
      <3> QED
        BY <3>1, <1>1, <1>4
    <2>2. ends'[n + 1] = ends'[(n + 1) - 1] + sent'[n + 1][2]
      <3>1. (n + 1) - 1 = n /\ n \in 0..n
        BY <1>2
      <3> QED
        BY <3>1, <1>1
    <2> QED
      BY <2>1, <2>2, <1>2
  <1>8. \A i, j \in 0..(n + 1) : i < j => ends'[i] < ends'[j]
    <2>1. ASSUME NEW i \in 0..(n + 1), NEW j \in 0..(n + 1), i < j
          PROVE  ends'[i] < ends'[j]
      <3>1. i \in 0..n
        BY <2>1, <1>2
      <3>2. CASE j = n + 1
        <4>1. ends[i] <= ends[n] /\ ends[i] \in Nat /\ ends[n] \in Nat
          BY <3>1, <1>2, <1>4
        <4> QED
          BY <4>1, <3>1, <3>2, <1>1, <1>3
      <3>3. CASE j \in 0..n
        BY <2>1, <3>1, <3>3, <1>1, <1>4
      <3> QED
        BY <3>2, <3>3, <1>2
    <2> QED
      BY <2>1
  <1> QED
    BY <1>1, <1>5, <1>6, <1>7, <1>8 DEF GridInv

LEMMA SendStream ==
    ASSUME TypeOK, GridInv, StreamInv, NEW p \in Packets, PadSends(p)
    PROVE  StreamInv'
  <1> DEFINE n == Len(sent)
             m == Len(stream)
  <1>1. /\ Len(sent') = n + 1 /\ sent'[n + 1] = p
        /\ \A i \in 1..n : sent'[i] = sent[i]
        /\ \A i \in 0..n : ends'[i] = ends[i]
    BY SendFact
  <1>2. /\ n \in Nat /\ m \in Nat /\ base \in Nat /\ nread \in Nat
        /\ ends[n] = base + nread + 2 * m /\ \A i \in 0..n : ends[i] \in Nat
        /\ \A i \in 1..n : sent[i] \in Packets
    BY SizeFact
  <1>3. p \in Seq(Half) /\ Len(p) \in Nat
    BY PacketFact
  <1>4. stream \in Seq(Half) /\ stream' = stream \o p /\ base' = base /\ nread' = nread
    BY DEF TypeOK, PadSends
  <1>5. /\ Len(stream') = m + Len(p)
        /\ \A h \in 1..m : stream'[h] = stream[h]
        /\ \A h \in 1..Len(p) : stream'[m + h] = p[h]
    BY <1>3, <1>4
  <1>6. /\ \A i \in 1..n : ends[i] = ends[i - 1] + sent[i][2]
        /\ \A i, j \in 0..n : i < j => ends[i] < ends[j]
    BY DEF GridInv
  <1> HIDE DEF n, m
  <1>7. ASSUME NEW i \in 1..Len(sent'), NEW j \in 1..Len(sent'[i]), NEW h \in 1..Len(stream'),
               base' + nread' + 2 * h = ends'[i - 1] + 2 * j
        PROVE  stream'[h] = sent'[i][j]
    <2>1. CASE i = n + 1
      <3>1. ends'[i - 1] = base + nread + 2 * m /\ sent'[i] = p
        BY <2>1, <1>1, <1>2
      <3>2. h = m + j /\ j \in 1..Len(p)
        BY <3>1, <1>7, <1>4, <1>5, <1>3, <1>2
      <3> QED
        BY <3>1, <3>2, <1>5
    <2>2. CASE i \in 1..n
      <3>1. /\ i \in 0..n /\ i - 1 \in 0..n /\ n \in 0..n /\ sent'[i] = sent[i]
            /\ ends'[i - 1] = ends[i - 1]
        <4>1. i \in 0..n /\ i - 1 \in 0..n /\ n \in 0..n
          BY <2>2, <1>2
        <4> QED
          BY <2>2, <4>1, <1>1
      <3>2. sent[i] \in Packets /\ ends[i - 1] \in Nat /\ ends[i] \in Nat /\ ends[n] \in Nat
        BY <2>2, <3>1, <1>2
      <3>3. Len(sent[i]) \in Nat /\ sent[i][2] = 2 * Len(sent[i])
        BY <3>2, PacketFact
      <3>4. ends[i] = ends[i - 1] + sent[i][2] /\ ends[i] <= ends[n]
        <4>1. i = n \/ i < n
          BY <2>2, <1>2
        <4>2. i < n => ends[i] < ends[n]
          BY <3>1, <1>6
        <4> QED
          BY <2>2, <4>1, <4>2, <3>2, <1>6
      <3>5. h \in Nat /\ h >= 1 /\ j \in Nat /\ j <= Len(sent[i])
        BY <3>1, <3>3, <1>2, <1>3, <1>5
      <3>6. base + nread + 2 * h = ends[i - 1] + 2 * j
        BY <1>7, <3>1, <1>4
      <3>7. h <= m
        <4>1. /\ base \in Nat /\ nread \in Nat /\ m \in Nat
              /\ ends[i - 1] + 2 * Len(sent[i]) <= base + nread + 2 * m
          BY <3>2, <3>3, <3>4, <1>2
        <4>2. PICK e \in Nat, l \in Nat :
                  /\ e = ends[i - 1] /\ l = Len(sent[i]) /\ j <= l
                  /\ base + nread + 2 * h = e + 2 * j /\ e + 2 * l <= base + nread + 2 * m
          BY <4>1, <3>2, <3>3, <3>5, <3>6
        <4>3. PICK r \in Nat, y \in Nat : r = base + nread /\ y = h
          BY <4>1, <3>5
        <4>4. r + 2 * y = e + 2 * j /\ j <= l /\ e + 2 * l <= r + 2 * m
          BY <4>2, <4>3
        <4>5. y <= m
          BY <4>1, <4>4, <3>5
        <4> QED
          BY <4>3, <4>5
      <3>8. h \in 1..m /\ j \in 1..Len(sent[i])
        BY <3>1, <3>5, <3>7, <1>2
      <3>9. stream[h] = sent[i][j]
        BY <2>2, <3>6, <3>8 DEF StreamInv, n, m
      <3> QED
        BY <3>1, <3>8, <3>9, <1>5
    <2> QED
      BY <2>1, <2>2, <1>1, <1>2
  <1> QED
    BY <1>7 DEF StreamInv

LEMMA SendBuffer ==
    ASSUME TypeOK, BufferInv, NEW p \in Packets, PadSends(p)
    PROVE  BufferInv'
  <1>1. UNCHANGED <<handler, msg, nread, base>>
    BY DEF PadSends
  <1> SUFFICES ASSUME handler = "deal"
               PROVE  /\ nread <= 2 * Len(msg)
                      /\ \A i \in 1..Len(sent') : \A j \in 1..Len(sent'[i]), h \in 1..Len(msg) :
                            2 * h <= nread /\ base + 2 * h = ends'[i - 1] + 2 * j =>
                                msg[h] = sent'[i][j]
    BY <1>1 DEF BufferInv
  <1>2. ASSUME NEW i \in 1..Len(sent'), NEW j \in 1..Len(sent'[i]), NEW h \in 1..Len(msg),
               2 * h <= nread, base + 2 * h = ends'[i - 1] + 2 * j
        PROVE  msg[h] = sent'[i][j]
    <2>1. CASE i = Len(sent) + 1
      <3>1. ends'[i - 1] = ends[Len(sent)] /\ sent'[i] = p
        BY <2>1, SendFact, SizeFact
      <3>2. Len(p) \in Nat
        BY PacketFact
      <3>3. j \in Nat /\ j >= 1 /\ h \in Nat
        BY <3>1, <3>2, SizeFact
      <3>4. /\ base \in Nat /\ nread \in Nat /\ ends[Len(sent)] \in Nat
            /\ ends[Len(sent)] >= base + nread
        BY SizeFact
      <3>5. FALSE
        BY <3>1, <3>3, <3>4, <1>2
      <3> QED
        BY <3>5
    <2>2. CASE i \in 1..Len(sent)
      <3>1. sent'[i] = sent[i] /\ ends'[i - 1] = ends[i - 1]
        BY <2>2, SendFact, SizeFact
      <3>2. j \in 1..Len(sent[i]) /\ base + 2 * h = ends[i - 1] + 2 * j
        BY <3>1, <1>2
      <3>3. msg[h] = sent[i][j]
        BY <2>2, <3>2, <1>2 DEF BufferInv
      <3> QED
        BY <3>1, <3>3
    <2>3. Len(sent') = Len(sent) + 1 /\ Len(sent) \in Nat
      BY SendFact, SizeFact
    <2> QED
      BY <2>1, <2>2, <2>3
  <1>3. nread <= 2 * Len(msg)
    BY DEF BufferInv
  <1> QED
    BY <1>2, <1>3

LEMMA SendSync ==
    ASSUME TypeOK, SyncInv, NEW p \in Packets, PadSends(p)
    PROVE  SyncInv'
  <1>1. UNCHANGED <<handler, nread, nwrite, base, due>>
    BY DEF PadSends
  <1>2. /\ base \in Nat /\ nread \in Nat /\ nwrite \in Nat /\ nwrite <= nread
    BY SizeFact DEF TypeOK
  <1>3. \A b \in Int : b <= base + nread => (b \in Boundaries' <=> b \in Boundaries)
    BY SendFact
  <1>4. base \in Boundaries' <=> base \in Boundaries
    BY <1>2, <1>3
  <1>5. base + nwrite \in Boundaries' <=> base + nwrite \in Boundaries
    BY <1>2, <1>3
  <1>6. Boundaries' \subseteq Nat
    <2>1. ends' \in [0..Len(sent') -> Nat]
      BY SendFact
    <2> QED
      BY <2>1 DEF Boundaries
  <1>7. \A b \in Boundaries' : b \in Boundaries \/ b > base + nread
    BY <1>2, <1>3, <1>6
  <1>8. WholePackets(base, base + nread)' \subseteq WholePackets(base, base + nread)
    <2>1. ASSUME NEW i \in 1..Len(sent'), base <= ends'[i - 1], ends'[i] <= base + nread
          PROVE  i \in 1..Len(sent) /\ base <= ends[i - 1] /\ ends[i] <= base + nread
      <3>1. Len(sent') = Len(sent) + 1 /\ Len(sent) \in Nat /\ ends'[Len(sent) + 1] > base + nread
        BY SendFact, SizeFact
      <3>2. ends'[Len(sent) + 1] \in Nat
        BY SendFact, <3>1
      <3>3. i # Len(sent) + 1
        BY <2>1, <3>1, <3>2, <1>2
      <3>4. i \in 1..Len(sent)
        BY <3>1, <3>3
      <3>5. i \in 0..Len(sent) /\ i - 1 \in 0..Len(sent)
        BY <3>1, <3>4
      <3> QED
        BY <2>1, <3>4, <3>5, SendFact
    <2> QED
      BY <2>1, <1>1 DEF WholePackets
  <1> SUFFICES ASSUME handler = "deal", base \in Boundaries
               PROVE  /\ WholePackets(base, base + nread)' \subseteq due
                      /\ \/ base + nwrite \in Boundaries'
                         \/ \A b \in Boundaries' : b < base + nwrite \/ b > base + nread
    BY <1>1, <1>4 DEF SyncInv
  <1>9. /\ WholePackets(base, base + nread) \subseteq due
        /\ \/ base + nwrite \in Boundaries
           \/ \A b \in Boundaries : b < base + nwrite \/ b > base + nread
    BY DEF SyncInv
  <1> QED
    BY <1>5, <1>7, <1>8, <1>9

LEMMA SendServed ==
    ASSUME TypeOK, DoneInv, ServedInv, NEW p \in Packets, PadSends(p)
    PROVE  ServedInv'
  <1>1. UNCHANGED <<handler, nread, nwrite, base, due, done>>
    BY DEF PadSends
  <1>2. due \subseteq 1..Len(sent)
    BY DEF TypeOK
  <1>3. \A i \in 1..Len(sent) : i \in 1..Len(sent')
    BY SendFact, SizeFact
  <1>4. ASSUME NEW i \in due
        PROVE  Pending(i)' \/ \E k \in 1..Len(done) : done[k].sync /\ Serves(done[k], i)'
    <2>1. i \in 1..Len(sent) /\ i \in 1..Len(sent')
      BY <1>2, <1>3
    <2>2. CASE Pending(i)
      <3>1. base \in Boundaries' <=> base \in Boundaries
        BY SendFact, SizeFact
      <3>2. i \in 0..Len(sent) /\ i - 1 \in 0..Len(sent)
        BY <2>1, SizeFact
      <3>3. ends'[i] = ends[i] /\ ends'[i - 1] = ends[i - 1]
        BY <3>2, SendFact
      <3> QED
        BY <2>2, <3>1, <3>3, <1>1 DEF Pending
    <2>3. CASE \E k \in 1..Len(done) : done[k].sync /\ Serves(done[k], i)
      BY <2>1, <2>3, SendServes
    <2> QED
      BY <2>2, <2>3 DEF ServedInv
  <1>5. ASSUME NEW k \in 1..Len(done), NEW i \in 1..Len(sent'), done[k].sync,
               Serves(done[k], i)'
        PROVE  i \in due /\ Carries(done[k], sent'[i])
    <2>1. i \in 1..Len(sent) /\ Serves(done[k], i)
      BY <1>5, SendServes
    <2>2. sent'[i] = sent[i]
      BY <2>1, SendFact
    <2> QED
      BY <2>1, <2>2, <1>5 DEF ServedInv
  <1> QED
    BY <1>1, <1>4, <1>5 DEF ServedInv

LEMMA SendNothing ==
    ASSUME TypeOK, DoneInv, NothingMadeUp, NEW p \in Packets, PadSends(p)
    PROVE  NothingMadeUp'
  <1>1. done' = done
    BY DEF PadSends
  <1> SUFFICES ASSUME NEW k \in 1..Len(done), done[k].sync,
                      done[k].at + done[k].left \in Boundaries'
               PROVE  Genuine(done[k])'
    BY <1>1 DEF NothingMadeUp
  <1>2. done[k].at + done[k].left \in Int /\ done[k].at + done[k].left <= base + nread
    BY DoneFact DEF DoneInv
  <1>3. Genuine(done[k])
    BY <1>2, SendFact DEF NothingMadeUp
  <1>4. PICK i \in 1..Len(sent) : Serves(done[k], i)
    BY <1>3 DEF Genuine
  <1>5. i \in 1..Len(sent')
    BY SendFact, SizeFact
  <1>6. Serves(done[k], i)'
    BY <1>4, <1>5, SendServes
  <1> QED
    BY <1>5, <1>6 DEF Genuine

LEMMA SendStatus ==
    ASSUME TypeOK, DoneInv, OwnStatusFirst, NEW p \in Packets, PadSends(p)
    PROVE  OwnStatusFirst'
  <1>1. done' = done
    BY DEF PadSends
  <1>2. \A k \in 1..Len(done), i \in 1..Len(sent') : Serves(done[k], i)' =>
            i \in 1..Len(sent) /\ Serves(done[k], i) /\ sent'[i] = sent[i]
    BY SendServes, SendFact
  <1> QED
    BY <1>1, <1>2 DEF OwnStatusFirst

LEMMA SendStep ==
    ASSUME IInv, NEW p \in Packets, PadSends(p)
    PROVE  IInv'
  <1>1. UNCHANGED <<handler, nread, nwrite, base, done>>
    BY DEF PadSends
  <1>2. DoneInv'
    BY <1>1 DEF IInv, DoneInv
  <1> QED
    BY <1>2, SendTypeOK, SendGrid, SendStream, SendBuffer, SendSync, SendServed,
       SendNothing, SendStatus DEF IInv

-----------------------------------------------------------------------------
(* A read moves the window of the buffer on over the stream. *)

LEMMA ReadFact ==
    ASSUME TypeOK, NEW n \in 1..(BufSize \div 2), Read(n)
    PROVE  /\ n \in Nat /\ n >= 1 /\ n <= Len(stream) /\ 2 * n <= BufSize
           /\ msg' \in Seq(Half) /\ n <= Len(msg') /\ (Len(msg') = n \/ Len(msg') = Len(msg))
           /\ \A h \in 1..n : msg'[h] = stream[h]
           /\ stream' \in Seq(Half) /\ Len(stream') = Len(stream) - n
           /\ \A h \in 1..(Len(stream) - n) : stream'[h] = stream[n + h]
  <1>1. /\ n <= Len(stream) /\ 2 * n <= BufSize /\ msg' = Overwritten(SubSeq(stream, 1, n))
        /\ stream' = SubSeq(stream, n + 1, Len(stream))
    BY DEF Read
  <1>2. stream \in Seq(Half) /\ msg \in Seq(Half)
    BY DEF TypeOK
  <1>3. n \in Nat /\ n >= 1
    BY SizesAssumption
  <1> DEFINE s == SubSeq(stream, 1, n)
  <1>4. s \in Seq(Half) /\ Len(s) = n /\ \A h \in 1..n : s[h] = stream[h]
    BY <1>1, <1>2, <1>3
  <1>5. msg' = Overwritten(s)
    BY <1>1
  <1> HIDE DEF s
  <1>6. /\ msg' \in Seq(Half) /\ Len(s) <= Len(msg') /\ (Len(msg') = Len(s) \/ Len(msg') = Len(msg))
        /\ \A h \in 1..Len(s) : msg'[h] = s[h]
    BY <1>2, <1>4, <1>5, OverwrittenFact
  <1>7. /\ stream' \in Seq(Half) /\ Len(stream') = Len(stream) - n
        /\ \A h \in 1..(Len(stream) - n) : stream'[h] = stream[n + h]
    BY <1>1, <1>2, <1>3
  <1> QED
    BY <1>1, <1>3, <1>4, <1>6, <1>7

LEMMA ReadTypeOK ==
    ASSUME TypeOK, NEW n \in 1..(BufSize \div 2), Read(n)
    PROVE  TypeOK'
  <1>1. /\ nread' = 2 * n /\ nwrite' = 0 /\ handler' = "deal" /\ base' = base + nread
        /\ UNCHANGED <<sent, open, notes, done, ends>>
    BY DEF Read
  <1>2. /\ n \in Nat /\ n >= 1 /\ n <= Len(stream) /\ 2 * n <= BufSize
        /\ msg' \in Seq(Half) /\ (Len(msg') = n \/ Len(msg') = Len(msg))
        /\ stream' \in Seq(Half) /\ Len(stream') = Len(stream) - n
    BY ReadFact
  <1>3. 2 * Len(msg') <= Max({BufSize, 6})
    <2>1. BufSize \in Nat
      BY SizesAssumption
    <2>2. Max({BufSize, 6}) \in Int /\ BufSize <= Max({BufSize, 6})
      BY <2>1, MaxFact
    <2>3. 2 * Len(msg) <= Max({BufSize, 6})
      BY DEF TypeOK
    <2>4. CASE Len(msg') = n
      BY <2>1, <2>2, <2>4, <1>2
    <2>5. CASE Len(msg') = Len(msg)
      BY <2>3, <2>5
    <2> QED
      BY <2>4, <2>5, <1>2
  <1>4. nread' \in 0..BufSize /\ nwrite' \in 0..nread' /\ nwrite' < nread'
    BY <1>1, <1>2, SizesAssumption
  <1>5. base' \in Nat /\ base' + nread' + 2 * Len(stream') = ends'[Len(sent')]
    <2>1. /\ base \in Nat /\ nread \in Nat /\ Len(stream) \in Nat
          /\ base + nread + 2 * Len(stream) = ends[Len(sent)]
      BY SizeFact
    <2>2. base + nread + 2 * n + 2 * Len(stream') = ends[Len(sent)]
      BY <2>1, <1>2
    <2> QED
      BY <2>1, <2>2, <1>1
  <1>6. due' \subseteq 1..Len(sent')
    <2>1. due \subseteq 1..Len(sent)
      BY DEF TypeOK
    <2>2. due' \subseteq due \cup WholePackets(base', base' + nread')
      BY DEF Read
    <2> QED
      BY <2>1, <2>2, <1>1 DEF WholePackets
  <1> QED
    BY <1>1, <1>2, <1>3, <1>4, <1>5, <1>6 DEF TypeOK

LEMMA ReadStep ==
    ASSUME IInv, NEW n \in 1..(BufSize \div 2), Read(n)
    PROVE  IInv'
  <1>1. /\ handler = "select" /\ handler' = "deal"
        /\ nread' = 2 * n /\ nwrite' = 0 /\ base' = base + nread
        /\ due' = IF base' \in Boundaries
                  THEN due \cup WholePackets(base', base' + nread')
                  ELSE due
        /\ UNCHANGED <<sent, done, ends>>
    BY DEF Read
  <1>2. TypeOK /\ GridInv /\ StreamInv /\ DoneInv /\ ServedInv /\ NothingMadeUp /\ OwnStatusFirst
    BY DEF IInv
  <1>3. /\ base \in Nat /\ nread \in Nat /\ nwrite \in Nat /\ nwrite <= nread
        /\ Len(stream) \in Nat
    BY <1>2, SizeFact DEF TypeOK
  <1>4. /\ n \in Nat /\ n >= 1 /\ n <= Len(stream)
        /\ msg' \in Seq(Half) /\ n <= Len(msg')
        /\ \A h \in 1..n : msg'[h] = stream[h]
        /\ Len(stream') = Len(stream) - n
        /\ \A h \in 1..(Len(stream) - n) : stream'[h] = stream[n + h]
    BY <1>2, ReadFact
  <1>5. TypeOK'
    BY <1>2, ReadTypeOK
  <1>6. GridInv' /\ NothingMadeUp' /\ OwnStatusFirst'
    <2>1. GridInv'
      BY <1>1, <1>2 DEF GridInv
    <2>2. NothingMadeUp'
      BY <1>1, <1>2 DEF NothingMadeUp, Genuine, Serves, Boundaries
    <2>3. OwnStatusFirst'
      BY <1>1, <1>2 DEF OwnStatusFirst, Serves
    <2> QED
      BY <2>1, <2>2, <2>3
  <1>7. StreamInv'
    <2>1. ASSUME NEW i \in 1..Len(sent), NEW j \in 1..Len(sent[i]), NEW h \in 1..Len(stream'),
                 base + nread + 2 * n + 2 * h = ends[i - 1] + 2 * j
          PROVE  stream'[h] = sent[i][j]
      <3>1. /\ h \in Nat /\ h \in 1..(Len(stream) - n) /\ n + h \in 1..Len(stream)
            /\ 2 * (n + h) = 2 * n + 2 * h
        <4>1. PICK l \in Nat : l = Len(stream) /\ h \in 1..(l - n)
          BY <1>3, <1>4
        <4>2. n \in Nat
          BY <1>4
        <4>3. h \in Nat /\ n + h \in 1..l /\ 2 * (n + h) = 2 * n + 2 * h
          BY <4>1, <4>2
        <4> QED
          BY <4>1, <4>3
      <3>2. base + nread + 2 * (n + h) = ends[i - 1] + 2 * j
        BY <2>1, <3>1, <1>3, <1>4
      <3>3. stream[n + h] = sent[i][j]
        BY <3>1, <3>2, <1>2 DEF StreamInv
      <3> QED
        BY <3>1, <3>3, <1>4
    <2>2. base' + nread' = base + nread + 2 * n
      BY <1>1
    <2>3. ASSUME NEW i \in 1..Len(sent'), NEW j \in 1..Len(sent'[i]), NEW h \in 1..Len(stream'),
                 base' + nread' + 2 * h = ends'[i - 1] + 2 * j
          PROVE  stream'[h] = sent'[i][j]
      <3>1. /\ i \in 1..Len(sent) /\ j \in 1..Len(sent[i])
            /\ base + nread + 2 * n + 2 * h = ends[i - 1] + 2 * j
        BY <2>2, <2>3, <1>1
      <3> QED
        BY <3>1, <2>1, <1>1
    <2> QED
      BY <2>3 DEF StreamInv
  <1>8. BufferInv'
    <2>1. ASSUME NEW i \in 1..Len(sent), NEW j \in 1..Len(sent[i]), NEW h \in 1..Len(msg'),
                 2 * h <= 2 * n, base + nread + 2 * h = ends[i - 1] + 2 * j
          PROVE  msg'[h] = sent[i][j]
      <3>1. h \in 1..n /\ h \in 1..Len(stream)
        <4>1. h \in Nat /\ h >= 1
          BY <1>4
        <4>2. h <= n /\ n \in Nat /\ n <= Len(stream) /\ Len(stream) \in Nat
          BY <2>1, <4>1, <1>3, <1>4
        <4> QED
          BY <4>1, <4>2
      <3>2. stream[h] = sent[i][j]
        BY <2>1, <3>1, <1>2 DEF StreamInv
      <3> QED
        BY <3>1, <3>2, <1>4
    <2>2. 2 * n <= 2 * Len(msg')
      BY <1>4
    <2> QED
      BY <2>1, <2>2, <1>1 DEF BufferInv
  <1>9. DoneInv'
    <2>1. ASSUME NEW k \in 1..Len(done)
          PROVE  /\ done[k].at + done[k].left <= base' + nread'
                 /\ done[k].at < base' + nread'
                 /\ done[k].at < base' + nwrite'
                 /\ \A l \in 1..Len(done) : k < l => done[k].at < done[l].at
      <3>1. /\ done[k].at + done[k].left <= base + nread
            /\ done[k].at < base + nwrite
            /\ \A l \in 1..Len(done) : k < l => done[k].at < done[l].at
        BY <1>1, <1>2 DEF DoneInv
      <3>2. done[k].at \in Nat /\ done[k].left \in Nat
        BY <1>2, DoneFact
      <3>3. /\ base' + nread' = base + nread + 2 * n /\ base' + nwrite' = base + nread
            /\ 2 * n \in Nat /\ base + nread \in Nat /\ base + nwrite <= base + nread
        BY <1>1, <1>3, <1>4
      <3>4. PICK x \in Nat, y \in Nat :
                /\ x = done[k].at /\ y = done[k].left
                /\ x + y <= base + nread /\ x < base + nwrite
        BY <3>1, <3>2
      <3>5. x < base + nread
        BY <3>3, <3>4, <1>3
      <3>6. x + y <= (base + nread) + 2 * n /\ x < (base + nread) + 2 * n
        <4>1. x + y \in Int /\ x \in Int /\ base + nread \in Int /\ 2 * n \in Int /\ 2 * n >= 0
          BY <3>3, <3>4
        <4> QED
          BY <3>4, <3>5, <4>1, ChainFact
      <3> QED
        BY <3>1, <3>3, <3>4, <3>5, <3>6
    <2> QED
      BY <2>1, <1>1 DEF DoneInv
  <1>10. /\ Boundaries' = Boundaries
         /\ WholePackets(base', base' + nread') = WholePackets(base, base + nread)'
    BY <1>1 DEF Boundaries, WholePackets
  <1>11. base' + nwrite' = base'
    BY <1>1, <1>3
  <1>12. SyncInv'
    BY <1>1, <1>10, <1>11 DEF SyncInv
  <1>13. ServedInv'
    <2>1. ASSUME NEW i \in due'
          PROVE  Pending(i)' \/ \E k \in 1..Len(done) : done[k].sync /\ Serves(done[k], i)'
      <3>1. CASE i \in due
        <4>1. ~ Pending(i)
          BY <1>1 DEF Pending
        <4>2. \E k \in 1..Len(done) : done[k].sync /\ Serves(done[k], i)
          BY <3>1, <4>1, <1>2 DEF ServedInv
        <4> QED
          BY <4>2, <1>1 DEF Serves
      <3>2. CASE i \notin due
        <4>1. base' \in Boundaries /\ i \in WholePackets(base', base' + nread')
          BY <2>1, <3>2, <1>1
        <4> QED
          BY <4>1, <1>1, <1>10, <1>11 DEF Pending, WholePackets
      <3> QED
        BY <3>1, <3>2
    <2>2. due \subseteq due'
      BY <1>1
    <2>3. \A k \in 1..Len(done), i \in 1..Len(sent) :
              done[k].sync /\ Serves(done[k], i)' => i \in due' /\ Carries(done[k], sent[i])
      BY <2>2, <1>1, <1>2 DEF ServedInv, Serves
    <2> QED
      BY <2>1, <2>3, <1>1 DEF ServedInv
  <1> QED
    BY <1>5, <1>6, <1>7, <1>8, <1>9, <1>12, <1>13 DEF IInv

-----------------------------------------------------------------------------
(* One round of the loop over a read. *)

LEMMA LeftFact ==
    ASSUME TypeOK, handler = "deal"
    PROVE  /\ base \in Nat /\ nread \in Nat /\ nwrite \in Nat /\ nwrite < nread
           /\ Left \in Nat /\ Left >= 1 /\ Left = nread - nwrite
  <1>1. base \in Nat /\ nread \in Nat /\ nwrite \in Nat
    BY SizeFact
  <1>2. nwrite < nread
    BY DEF TypeOK
  <1> QED
    BY <1>1, <1>2 DEF Left

(* How many entries _get_dev_status takes, and what it copies. *)
LEMMA TotalFact ==
    ASSUME NEW len \in Nat
    PROVE  /\ StatusesIn(len) \in Int /\ StatusTotal(len) \in Int
           /\ StatusTotal(len) <= MaxStatus
           /\ StatusTotal(len) = StatusesIn(len) \/ StatusTotal(len) = MaxStatus
  <1>1. StatusesIn(len) \in Int
    BY DEF StatusesIn
  <1>2. MaxStatus \in Int
    BY SizesAssumption
  <1> QED
    BY <1>1, <1>2, MinFact DEF StatusTotal

LEMMA StatusSeqFact ==
    ASSUME NEW t \in Int, NEW F(_), NEW S, \A i \in 1..t : F(i) \in S
    PROVE  [i \in 1..t |-> F(i)] \in Seq(S)
  <1>1. CASE t >= 0
    BY <1>1
  <1>2. CASE t < 0
    <2>1. 1..t = 1..0
      BY <1>2
    <2>2. [i \in 1..t |-> F(i)] = [i \in 1..0 |-> F(i)]
      BY <2>1
    <2>3. [i \in 1..0 |-> F(i)] \in Seq(S)
      OBVIOUS
    <2> QED
      BY <2>2, <2>3
  <1> QED
    BY <1>1, <1>2

LEMMA RequestFact ==
    ASSUME TypeOK, handler = "deal", NEW stray \in Strays
    PROVE  /\ Request(stray) \in Done
           /\ Request(stray).at = base + nwrite /\ Request(stray).left = Left
           /\ Request(stray).cmd = Field(0, stray)
           /\ Request(stray).by = AnsweredBy(Field(0, stray), Field(8, stray), Field(10, stray),
                                             <<Field(12, stray), Field(14, stray)>>)
           /\ Request(stray).sync <=> base \in Boundaries
  <1> DEFINE cmd == Field(0, stray)
             total == IF cmd = HSB_CMD_SET_STATUS THEN StatusTotal(Left) ELSE 0
             by == AnsweredBy(cmd, Field(8, stray), Field(10, stray),
                              <<Field(12, stray), Field(14, stray)>>)
             F(i) == <<Field(4 + 4 * i, stray), Field(6 + 4 * i, stray)>>
             sync == base \in Boundaries
             num == total % WordSize
             status == [i \in 1..total |-> F(i)]
  <1>1. Left \in Nat /\ base + nwrite \in Nat
    BY LeftFact
  <1>2. total \in Int
    BY <1>1, TotalFact
  <1>3. cmd \in Half
    BY FieldFact
  <1>4. by \in {"handler", "async"}
    BY DEF AnsweredBy
  <1>5. num \in Nat
    BY <1>2, SizesAssumption, ModFact
  <1>6. \A i \in 1..total : F(i) \in Half \X Half
    <2>1. ASSUME NEW i \in 1..total
          PROVE  F(i) \in Half \X Half
      <3>1. 4 + 4 * i \in Nat /\ 6 + 4 * i \in Nat
        BY <1>2
      <3>2. Field(4 + 4 * i, stray) \in Half /\ Field(6 + 4 * i, stray) \in Half
        BY <3>1, FieldFact
      <3> QED
        BY <3>2
    <2> QED
      BY <2>1
  <1>7. status \in Seq(Half \X Half)
    <2> HIDE DEF total, F
    <2> QED
      BY <1>2, <1>6, StatusSeqFact
  <1>8. sync \in BOOLEAN
    OBVIOUS
  <1>9. Request(stray) = [at |-> base + nwrite, cmd |-> cmd, left |-> Left, sync |-> sync,
                          by |-> by, num |-> num, status |-> status]
    BY DEF Request
  <1> HIDE DEF cmd, total, by, F, sync, num, status
  <1>10. Request(stray) \in Done
    BY <1>1, <1>3, <1>4, <1>5, <1>7, <1>8, <1>9 DEF Done
  <1>11. /\ Request(stray).at = base + nwrite /\ Request(stray).left = Left
         /\ Request(stray).cmd = cmd /\ Request(stray).sync = sync
         /\ Request(stray).by = by
    BY <1>9
  <1> QED
    BY <1>10, <1>11 DEF cmd, sync, by

(* A round goes forward, or the loop spins. *)
LEMMA RoundFact ==
    ASSUME TypeOK, NEW stray \in Strays, DealTcpPacket(stray)
    PROVE  /\ nwrite' \in Nat /\ nwrite <= nwrite' /\ nwrite' <= nread
           /\ nwrite' = nwrite + (IF Valid(stray) THEN Field(2, stray) ELSE Left)
           /\ handler' \in {"spins", "deal", "select"}
           /\ handler' # "spins" => nwrite < nwrite'
           /\ handler' = "deal" => nwrite' < nread
           /\ nwrite < nwrite' /\ nwrite' < nread => handler' = "deal"
  <1>1. /\ handler = "deal"
        /\ nwrite' = nwrite + Used(Valid(stray), Field(2, stray), Left)
        /\ handler' = CASE nwrite' = nwrite -> "spins"
                        [] nwrite' # nwrite /\ MoreToDeal(nwrite') -> "deal"
                        [] OTHER -> "select"
    BY DEF DealTcpPacket
  <1>2. nread \in Nat /\ nwrite \in Nat /\ Left \in Nat /\ Left = nread - nwrite
    BY <1>1, LeftFact
  <1>3. Field(2, stray) \in Nat
    BY FieldFact, HalfFact
  <1>4. nwrite' = nwrite + (IF Valid(stray) THEN Field(2, stray) ELSE Left)
    BY <1>1 DEF Used
  <1>5. nwrite' \in Nat /\ nwrite <= nwrite' /\ nwrite' <= nread
    <2>1. CASE Valid(stray)
      <3>1. Left >= Field(2, stray)
        BY <2>1 DEF Valid, CheckTcpPktValid
      <3> QED
        BY <2>1, <3>1, <1>2, <1>3, <1>4
    <2>2. CASE ~ Valid(stray)
      BY <2>2, <1>2, <1>4
    <2> QED
      BY <2>1, <2>2
  <1>6. MoreToDeal(nwrite') <=> nwrite' < nread
    BY DEF MoreToDeal
  <1>7. CASE nwrite' = nwrite
    BY <1>1, <1>2, <1>4, <1>5, <1>7
  <1>8. CASE nwrite' # nwrite /\ nwrite' < nread
    BY <1>1, <1>2, <1>4, <1>5, <1>6, <1>8
  <1>9. CASE nwrite' # nwrite /\ ~(nwrite' < nread)
    BY <1>1, <1>2, <1>4, <1>5, <1>6, <1>9
  <1> QED
    BY <1>7, <1>8, <1>9

(* Packet i starts where the loop is, and the read has all of it. *)
Whole(i) ==
    /\ handler = "deal" /\ base \in Boundaries
    /\ base + nwrite = ends[i - 1] /\ ends[i] <= base + nread

LEMMA BoundaryFact ==
    ASSUME TypeOK, GridInv
    PROVE  /\ Boundaries \subseteq Nat
           /\ \A b \in Boundaries : b % 4 = 0
           /\ \A i \in 0..Len(sent) : ends[i] \in Boundaries
  <1>1. \A b \in Boundaries : \E i \in 0..Len(sent) : b = ends[i]
    BY DEF Boundaries
  <1>2. \A i \in 0..Len(sent) : ends[i] \in Nat /\ ends[i] % 4 = 0
    BY SizeFact DEF GridInv
  <1>3. \A i \in 0..Len(sent) : ends[i] \in Boundaries
    BY DEF Boundaries
  <1> QED
    BY <1>1, <1>2, <1>3

LEMMA ForwardFact ==
    ASSUME TypeOK, GridInv, NEW i \in 1..Len(sent)
    PROVE  ends[i - 1] \in Nat /\ ends[i] \in Nat /\ ends[i - 1] < ends[i]
  <1>1. sent[i] \in Packets /\ i \in 0..Len(sent)
    BY SizeFact
  <1>2. sent[i][2] \in Nat /\ sent[i][2] >= 4
    BY <1>1, PacketFact
  <1>3. ends[i - 1] \in Nat /\ ends[i] \in Nat /\ ends[i] = ends[i - 1] + sent[i][2]
    BY <1>1, SizeFact DEF GridInv
  <1> QED
    BY <1>2, <1>3

(* The next boundary after the start of a packet is its end. *)
LEMMA NextFact ==
    ASSUME TypeOK, GridInv, NEW i \in 1..Len(sent), NEW q \in 0..Len(sent)
    PROVE  ends[q] <= ends[i - 1] \/ ends[q] >= ends[i]
  <1>1. /\ i \in 0..Len(sent) /\ i - 1 \in 0..Len(sent) /\ Len(sent) \in Nat
        /\ i \in Nat /\ q \in Nat
    BY SizeFact
  <1>2. ends[q] \in Nat /\ ends[i - 1] \in Nat /\ ends[i] \in Nat
    BY <1>1, SizeFact
  <1>3. q < i - 1 \/ q = i - 1 \/ q = i \/ q > i
    BY <1>1
  <1>4. q < i - 1 => ends[q] < ends[i - 1]
    BY <1>1 DEF GridInv
  <1>5. q > i => ends[q] > ends[i]
    BY <1>1, <1>2 DEF GridInv
  <1> QED
    BY <1>2, <1>3, <1>4, <1>5

(* Two packets do not start at the same place. *)
LEMMA StartFact ==
    ASSUME TypeOK, GridInv, NEW i \in 1..Len(sent), NEW q \in 1..Len(sent),
           ends[i - 1] = ends[q - 1]
    PROVE  i = q
  <1>1. i - 1 \in 0..Len(sent) /\ q - 1 \in 0..Len(sent) /\ i \in Nat /\ q \in Nat
    BY SizeFact
  <1>2. ends[q - 1] \in Nat /\ ends[i - 1] \in Nat
    BY <1>1, SizeFact
  <1>3. /\ i - 1 < q - 1 => ends[i - 1] < ends[q - 1]
        /\ q - 1 < i - 1 => ends[q - 1] < ends[i - 1]
    BY <1>1 DEF GridInv
  <1> QED
    BY <1>1, <1>2, <1>3

(* A loop that is at a boundary is at the start of a packet. *)
LEMMA AlignedFact ==
    ASSUME TypeOK, GridInv, handler = "deal", base + nwrite \in Boundaries
    PROVE  \E i \in 1..Len(sent) : base + nwrite = ends[i - 1]
  <1>1. PICK m \in 0..Len(sent) : base + nwrite = ends[m]
    BY DEF Boundaries
  <1>2. base + nwrite < ends[Len(sent)]
    BY LeftFact, SizeFact
  <1>3. m # Len(sent)
    <2>1. base + nwrite \in Nat
      BY LeftFact
    <2> QED
      BY <2>1, <1>1, <1>2
  <1>4. m + 1 \in 1..Len(sent) /\ (m + 1) - 1 = m
    BY <1>3, SizeFact
  <1> QED
    BY <1>1, <1>4

LEMMA WholeFields ==
    ASSUME TypeOK, GridInv, BufferInv, NEW i \in 1..Len(sent), Whole(i),
           NEW stray \in Strays, NEW j \in 1..Len(sent[i])
    PROVE  Field(2 * (j - 1), stray) = sent[i][j]
  <1>1. /\ handler = "deal" /\ base \in Boundaries
        /\ base + nwrite = ends[i - 1] /\ ends[i] <= base + nread
    BY DEF Whole
  <1>2. /\ base \in Nat /\ nread \in Nat /\ nwrite \in Nat /\ Len(msg) \in Nat
        /\ nread <= 2 * Len(msg)
    BY <1>1, LeftFact, SizeFact DEF BufferInv
  <1>3. sent[i] \in Packets /\ i - 1 \in 0..Len(sent) /\ i \in 0..Len(sent)
    BY SizeFact
  <1>4. Len(sent[i]) \in Nat /\ sent[i][2] = 2 * Len(sent[i])
    BY <1>3, PacketFact
  <1>5. ends[i - 1] \in Nat /\ ends[i] \in Nat /\ ends[i] = ends[i - 1] + sent[i][2]
    BY <1>3, SizeFact DEF GridInv
  <1>6. base % 4 = 0 /\ ends[i - 1] % 4 = 0
    BY <1>1, <1>3, BoundaryFact DEF GridInv
  <1>7. nwrite % 2 = 0
    <2>1. (base + nwrite) % 4 = 0
      BY <1>1, <1>6
    <2> QED
      BY <2>1, <1>2, <1>6
  <1>8. PICK w \in Nat : nwrite = 2 * w
    <2>1. nwrite = 2 * (nwrite \div 2) /\ nwrite \div 2 \in Nat
      BY <1>2, <1>7
    <2> QED
      BY <2>1
  <1>9. j \in Nat /\ j >= 1 /\ j <= Len(sent[i])
    BY <1>4
  <1>10. nwrite + 2 * Len(sent[i]) <= nread
    <2>1. PICK e \in Nat, l \in Nat :
              l = 2 * Len(sent[i]) /\ e = ends[i - 1] /\ ends[i] = e + l
      BY <1>4, <1>5
    <2>2. base + nwrite = e /\ e + l <= base + nread
      BY <2>1, <1>1
    <2>3. base \in Nat /\ nread \in Nat /\ nwrite \in Nat
      BY <1>2
    <2>4. nwrite + l <= nread
      BY <2>2, <2>3
    <2> QED
      BY <2>1, <2>4
  <1>11. w + j \in 1..Len(msg) /\ 2 * (w + j) <= nread
    <2>1. PICK l \in Nat : l = Len(sent[i]) /\ j <= l /\ nwrite + 2 * l <= nread
      BY <1>4, <1>9, <1>10
    <2>2. nread \in Nat /\ 2 * w + 2 * l <= nread
      BY <2>1, <1>2, <1>8
    <2>3. 2 * (w + j) <= nread
      BY <2>1, <2>2, <1>9, PlaceFact
    <2>4. w + j \in Nat /\ w + j >= 1
      BY <1>8, <1>9
    <2>5. w + j <= Len(msg)
      BY <2>3, <2>4, <1>2
    <2> QED
      BY <2>3, <2>4, <2>5, <1>2
  <1>12. base + 2 * (w + j) = ends[i - 1] + 2 * j
    BY <1>1, <1>2, <1>5, <1>8, <1>9
  <1>13. msg[w + j] = sent[i][j]
    BY <1>1, <1>11, <1>12 DEF BufferInv
  <1>14. 2 * (j - 1) \in Nat /\ nwrite + 2 * (j - 1) = 2 * ((w + j) - 1)
    BY <1>8, <1>9
  <1>15. Field(2 * (j - 1), stray) = msg[w + j]
    BY <1>11, <1>14, FieldFact
  <1> QED
    BY <1>13, <1>15

(* A whole packet is recognised, and the round ends where it ends. *)
LEMMA WholeFact ==
    ASSUME TypeOK, GridInv, BufferInv, NEW i \in 1..Len(sent), Whole(i),
           NEW stray \in Strays
    PROVE  /\ Valid(stray) /\ Field(0, stray) = sent[i][1] /\ Field(2, stray) = sent[i][2]
           /\ sent[i][2] \in Nat /\ sent[i][2] >= 4 /\ sent[i][2] <= Left
           /\ ends[i] = base + nwrite + sent[i][2]
  <1>1. sent[i] \in Packets /\ i - 1 \in 0..Len(sent) /\ i \in 0..Len(sent)
    BY SizeFact
  <1>2. /\ Len(sent[i]) \in Nat /\ Len(sent[i]) >= 2 /\ sent[i][2] = 2 * Len(sent[i])
        /\ HSB_CMD_VALID(sent[i][1])
    BY <1>1, PacketFact
  <1>3. 1 \in 1..Len(sent[i]) /\ 2 \in 1..Len(sent[i]) /\ 2 * (1 - 1) = 0 /\ 2 * (2 - 1) = 2
    BY <1>2
  <1>4. Field(2 * (1 - 1), stray) = sent[i][1]
    BY <1>3, WholeFields
  <1>5. Field(2 * (2 - 1), stray) = sent[i][2]
    BY <1>3, WholeFields
  <1>6. Field(0, stray) = sent[i][1] /\ Field(2, stray) = sent[i][2]
    BY <1>3, <1>4, <1>5
  <1>7. sent[i][2] \in Nat /\ sent[i][2] >= 4
    BY <1>2
  <1>8. ends[i - 1] \in Nat /\ ends[i] \in Nat /\ ends[i] = ends[i - 1] + sent[i][2]
    BY <1>1, SizeFact DEF GridInv
  <1>9. /\ base \in Nat /\ nread \in Nat /\ nwrite \in Nat /\ Left = nread - nwrite
        /\ base + nwrite = ends[i - 1] /\ ends[i] <= base + nread
    BY LeftFact DEF Whole
  <1>10. sent[i][2] <= Left /\ ends[i] = base + nwrite + sent[i][2]
    <2>1. PICK e \in Nat, x \in Nat : e = ends[i - 1] /\ x = sent[i][2] /\ ends[i] = e + x
      BY <1>7, <1>8
    <2>2. base + nwrite = e /\ e + x <= base + nread
      BY <2>1, <1>9
    <2>3. base \in Nat /\ nread \in Nat /\ nwrite \in Nat /\ Left = nread - nwrite
      BY <1>9
    <2>4. x <= Left /\ e + x = base + nwrite + x
      BY <2>2, <2>3
    <2> QED
      BY <2>1, <2>4
  <1>11. Left \in Int
    BY <1>9
  <1>12. Valid(stray)
    BY <1>2, <1>6, <1>7, <1>10, <1>11 DEF Valid, CheckTcpPktValid
  <1> QED
    BY <1>6, <1>7, <1>10, <1>12

(* What the round serves is a whole packet. *)
LEMMA ServesFact ==
    ASSUME TypeOK, GridInv, handler = "deal", NEW stray \in Strays,
           Request(stray).sync, NEW i \in 1..Len(sent), Serves(Request(stray), i)
    PROVE  Whole(i)
  <1>1. base \in Boundaries /\ base + nwrite = ends[i - 1] /\ sent[i][2] <= Left
    BY RequestFact DEF Serves
  <1>2. sent[i] \in Packets /\ i - 1 \in 0..Len(sent) /\ i \in 0..Len(sent)
    BY SizeFact
  <1>3. sent[i][2] \in Nat
    BY <1>2, PacketFact
  <1>4. ends[i - 1] \in Nat /\ ends[i] \in Nat /\ ends[i] = ends[i - 1] + sent[i][2]
    BY <1>2, SizeFact DEF GridInv
  <1>5. base \in Nat /\ nread \in Nat /\ nwrite \in Nat /\ Left = nread - nwrite
    BY LeftFact
  <1>6. ends[i] <= base + nread
    BY <1>1, <1>3, <1>4, <1>5
  <1> QED
    BY <1>1, <1>6 DEF Whole

LEMMA WholeServes ==
    ASSUME TypeOK, GridInv, BufferInv, NEW i \in 1..Len(sent), Whole(i),
           NEW stray \in Strays
    PROVE  Request(stray).sync /\ Serves(Request(stray), i)
  <1>1. handler = "deal" /\ base \in Boundaries /\ base + nwrite = ends[i - 1]
    BY DEF Whole
  <1>2. sent[i][2] <= Left
    BY WholeFact
  <1> QED
    BY <1>1, <1>2, RequestFact DEF Serves

(* A whole packet is answered by whom its own fields say. *)
LEMMA CarriesFact ==
    ASSUME TypeOK, GridInv, BufferInv, NEW i \in 1..Len(sent), Whole(i),
           NEW stray \in Strays
    PROVE  Carries(Request(stray), sent[i])
  <1>1. handler = "deal"
    BY DEF Whole
  <1>2. PICK c, a, x, y, z :
          /\ c = Field(0, stray) /\ a = Field(8, stray) /\ x = Field(10, stray)
          /\ y = Field(12, stray) /\ z = Field(14, stray)
    OBVIOUS
  <1>3. Request(stray).cmd = c /\ Request(stray).by = AnsweredBy(c, a, x, <<y, z>>)
    BY <1>1, <1>2, RequestFact
  <1>4. c = sent[i][1]
    BY <1>2, WholeFact
  <1>5. CASE c # HSB_CMD_DO_ACTION
    BY <1>3, <1>4, <1>5 DEF Carries, AnsweredBy
  <1>6. CASE c = HSB_CMD_DO_ACTION
    <2>1. sent[i] \in Packets
      BY SizeFact
    <2>2. sent[i][2] = 2 * Len(sent[i]) /\ Len(sent[i]) \in Nat
      BY <2>1, PacketFact
    <2>3. sent[i][2] >= 16
      BY <2>1, <1>4, <1>6, PacketsAssumption
    <2>4. PICK n \in Nat : n = Len(sent[i]) /\ 2 * n >= 16
      BY <2>2, <2>3
    <2>5. 5 \in 1..Len(sent[i]) /\ 6 \in 1..Len(sent[i]) /\ 7 \in 1..Len(sent[i]) /\ 8 \in 1..Len(sent[i])
      BY <2>4
    <2>6. 2 * (5 - 1) = 8 /\ 2 * (6 - 1) = 10 /\ 2 * (7 - 1) = 12 /\ 2 * (8 - 1) = 14
      OBVIOUS
    <2>7. a = sent[i][5]
      <3>1. Field(2 * (5 - 1), stray) = sent[i][5]
        BY <2>5, WholeFields
      <3> QED BY <1>2, <2>6, <3>1
    <2>8. x = sent[i][6]
      <3>1. Field(2 * (6 - 1), stray) = sent[i][6]
        BY <2>5, WholeFields
      <3> QED BY <1>2, <2>6, <3>1
    <2>9. y = sent[i][7]
      <3>1. Field(2 * (7 - 1), stray) = sent[i][7]
        BY <2>5, WholeFields
      <3> QED BY <1>2, <2>6, <3>1
    <2>10. z = sent[i][8]
      <3>1. Field(2 * (8 - 1), stray) = sent[i][8]
        BY <2>5, WholeFields
      <3> QED BY <1>2, <2>6, <3>1
    <2> QED
      BY <1>3, <1>4, <2>7, <2>8, <2>9, <2>10 DEF Carries
  <1> QED
    BY <1>5, <1>6

(* The entries of a whole SET_STATUS come first. *)
LEMMA WholeStatus ==
    ASSUME TypeOK, GridInv, BufferInv, NEW i \in 1..Len(sent), Whole(i),
           NEW stray \in Strays, Request(stray).cmd = HSB_CMD_SET_STATUS
    PROVE  EntriesFirst(Request(stray), sent[i])
  <1> DEFINE own == (sent[i][2] - 8) \div 4
             total == StatusTotal(Left)
             bound == Min({own, MaxStatus})
             F(j) == <<Field(4 + 4 * j, stray), Field(6 + 4 * j, stray)>>
  <1>1. handler = "deal" /\ Field(0, stray) = HSB_CMD_SET_STATUS
    BY RequestFact DEF Whole
  <1>2. Request(stray).num = total % WordSize /\ Request(stray).status = [j \in 1..total |-> F(j)]
    BY <1>1 DEF Request
  <1>3. sent[i] \in Packets
    BY SizeFact
  <1>4. /\ Len(sent[i]) \in Nat /\ sent[i][2] = 2 * Len(sent[i])
        /\ sent[i][2] \in Nat /\ sent[i][2] <= Left /\ sent[i][1] = HSB_CMD_SET_STATUS
    BY <1>1, <1>3, PacketFact, WholeFact
  <1>5. sent[i][2] >= 8
    BY <1>3, <1>4, PacketFact
  <1>6. Left \in Nat
    BY <1>1, LeftFact
  <1>7. MaxStatus \in Nat /\ WordSize \in Nat /\ MaxStatus < WordSize
    BY SizesAssumption
  <1>8. /\ own \in Nat /\ 4 * own <= sent[i][2] - 8
        /\ (Left - 8) \div 4 >= own
    BY <1>4, <1>5, <1>6, QuarterFact
  <1>9. StatusesIn(Left) \in Int /\ StatusesIn(Left) >= own
    <2>1. Left >= 8
      BY <1>4, <1>5, <1>6
    <2>2. StatusesIn(Left) = (Left - 8) \div 4
      BY <2>1 DEF StatusesIn
    <2>3. StatusesIn(Left) \in Int
      BY <1>6, TotalFact
    <2> QED
      BY <2>2, <2>3, <1>8
  <1> HIDE DEF own
  <1>10. bound \in Int /\ bound <= own /\ bound <= MaxStatus
    <2>1. own \in Int /\ MaxStatus \in Int
      BY <1>7, <1>8
    <2> QED
      BY <2>1, MinFact
  <1>11. total \in Int /\ total <= MaxStatus /\ total >= bound /\ total >= 0
    <2>1. /\ total \in Int /\ total <= MaxStatus
          /\ total = StatusesIn(Left) \/ total = MaxStatus
      BY <1>6, TotalFact
    <2> HIDE DEF total, bound
    <2> QED
      BY <2>1, <1>7, <1>8, <1>9, <1>10
  <1>12. total % WordSize = total
    <2> HIDE DEF total
    <2> QED
      BY <1>7, <1>11, ModFact
  <1>13. ASSUME NEW j \in 1..bound
         PROVE  F(j) = <<sent[i][3 + 2 * j], sent[i][4 + 2 * j]>>
    <2>1. j \in Nat /\ j >= 1 /\ j <= own
      BY <1>8, <1>10
    <2>2. 4 * j + 8 <= 2 * Len(sent[i])
      BY <2>1, <1>4, <1>8
    <2>3. 3 + 2 * j \in 1..Len(sent[i]) /\ 4 + 2 * j \in 1..Len(sent[i])
      BY <2>1, <2>2, <1>4
    <2>4. Field(2 * ((3 + 2 * j) - 1), stray) = sent[i][3 + 2 * j]
      BY <2>3, WholeFields
    <2>5. Field(2 * ((4 + 2 * j) - 1), stray) = sent[i][4 + 2 * j]
      BY <2>3, WholeFields
    <2>6. 2 * ((3 + 2 * j) - 1) = 4 + 4 * j /\ 2 * ((4 + 2 * j) - 1) = 6 + 4 * j
      BY <2>1
    <2> QED
      BY <2>4, <2>5, <2>6
  <1>14. \A j \in 1..bound : j \in 1..total
    <2> HIDE DEF total, bound
    <2> QED
      BY <1>10, <1>11
  <1>15. \A j \in 1..bound : Request(stray).status[j] = F(j)
    BY <1>2, <1>14
  <1>16. Request(stray).num <= MaxStatus /\ Request(stray).num >= bound
    BY <1>2, <1>11, <1>12
  <1>17. \A j \in 1..bound :
             Request(stray).status[j] = <<sent[i][3 + 2 * j], sent[i][4 + 2 * j]>>
    BY <1>13, <1>15
  <1> QED
    BY <1>16, <1>17 DEF EntriesFirst, own, bound

(* What a round adds to the commands carried out. *)
LEMMA AppendFact ==
    ASSUME TypeOK, NEW stray \in Strays, DealTcpPacket(stray)
    PROVE  /\ done' \in Seq(Done)
           /\ ~ Valid(stray) => done' = done
           /\ Valid(stray) => /\ Len(done') = Len(done) + 1
                              /\ done'[Len(done) + 1] = Request(stray)
           /\ Len(done') >= Len(done) /\ Len(done') \in Nat
           /\ \A k \in 1..Len(done) : k \in 1..Len(done') /\ done'[k] = done[k]
           /\ \A k \in 1..Len(done') :
                 k \in 1..Len(done) \/ (k = Len(done) + 1 /\ done'[k] = Request(stray))
  <1>1. /\ handler = "deal"
        /\ done' = IF Valid(stray) THEN Append(done, Request(stray)) ELSE done
    BY DEF DealTcpPacket
  <1>2. done \in Seq(Done)
    BY DEF TypeOK
  <1>3. Request(stray) \in Done
    BY <1>1, RequestFact
  <1>4. PICK R \in Done : R = Request(stray)
    BY <1>3
  <1>5. CASE Valid(stray)
    <2>1. done' = Append(done, R)
      BY <1>1, <1>4, <1>5
    <2>2. /\ done' \in Seq(Done) /\ Len(done') = Len(done) + 1 /\ done'[Len(done) + 1] = R
          /\ Len(done) \in Nat /\ \A k \in 1..Len(done) : done'[k] = done[k]
      BY <2>1, <1>2
    <2> QED
      BY <2>2, <1>4, <1>5
  <1>6. CASE ~ Valid(stray)
    <2>1. done' = done /\ Len(done) \in Nat
      BY <1>1, <1>2, <1>6
    <2> QED
      BY <2>1, <1>2, <1>6
  <1> QED
    BY <1>5, <1>6

LEMMA DealTypeOK ==
    ASSUME TypeOK, NEW stray \in Strays, DealTcpPacket(stray)
    PROVE  TypeOK'
  <1>1. UNCHANGED <<sent, stream, open, msg, nread, notes, ends, base, due>>
    BY DEF DealTcpPacket
  <1>2. /\ nwrite' \in 0..nread /\ handler' \in {"select", "deal", "spins", "ended"}
        /\ handler' = "deal" => nwrite' < nread
    BY RoundFact, SizeFact
  <1>3. done' \in Seq(Done)
    BY AppendFact
  <1> QED
    BY <1>1, <1>2, <1>3 DEF TypeOK

LEMMA DealDone ==
    ASSUME TypeOK, DoneInv, NEW stray \in Strays, DealTcpPacket(stray)
    PROVE  DoneInv'
  <1>1. handler = "deal" /\ base' = base /\ nread' = nread
    BY DEF DealTcpPacket
  <1>2. /\ base \in Nat /\ nread \in Nat /\ nwrite \in Nat /\ nwrite < nread
        /\ Left = nread - nwrite
    BY <1>1, LeftFact
  <1>3. /\ nwrite' \in Nat /\ nwrite <= nwrite'
        /\ handler' # "spins" => nwrite < nwrite'
    BY RoundFact
  <1>4. /\ Request(stray).at = base + nwrite /\ Request(stray).left = Left
    BY <1>1, RequestFact
  <1>5. \A k \in 1..Len(done) :
            /\ done[k].at \in Nat /\ done[k].left \in Nat
            /\ done[k].at + done[k].left <= base + nread
            /\ done[k].at < base + nwrite
            /\ \A l \in 1..Len(done) : k < l => done[k].at < done[l].at
    BY <1>1, DoneFact DEF DoneInv
  <1>6. /\ \A k \in 1..Len(done) : done'[k] = done[k]
        /\ \A k \in 1..Len(done') :
               k \in 1..Len(done) \/ (k = Len(done) + 1 /\ done'[k] = Request(stray))
    BY AppendFact
  <1>7. Len(done) \in Nat
    BY SizeFact
  <1>8. ASSUME NEW k \in 1..Len(done')
        PROVE  /\ done'[k].at + done'[k].left <= base + nread
               /\ done'[k].at < base + nread
               /\ handler' # "spins" => done'[k].at < base + nwrite'
    <2>1. CASE k \in 1..Len(done)
      <3>1. PICK x \in Nat, y \in Nat :
                /\ x = done'[k].at /\ y = done'[k].left
                /\ x + y <= base + nread /\ x < base + nwrite
        BY <2>1, <1>5, <1>6
      <3>2. x < base + nread
        BY <3>1, <1>2
      <3>3. x < base + nwrite'
        <4>1. x \in Int /\ base \in Int /\ nwrite \in Int /\ nwrite' \in Int
          BY <3>1, <1>2, <1>3
        <4> QED
          BY <3>1, <4>1, <1>3, ShiftFact
      <3> QED
        BY <3>1, <3>2, <3>3
    <2>2. CASE done'[k] = Request(stray)
      <3>1. done'[k].at = base + nwrite /\ done'[k].left = nread - nwrite
        BY <2>2, <1>2, <1>4
      <3>2. (base + nwrite) + (nread - nwrite) <= base + nread /\ base + nwrite < base + nread
        BY <1>2
      <3>3. nwrite < nwrite' => base + nwrite < base + nwrite'
        <4>1. base \in Int /\ nwrite \in Int /\ nwrite' \in Int
          BY <1>2, <1>3
        <4> QED
          BY <4>1, ShiftFact
      <3>4. handler' # "spins" => done'[k].at < base + nwrite'
        BY <3>1, <3>3, <1>3
      <3> QED
        BY <3>1, <3>2, <3>4
    <2> QED
      BY <2>1, <2>2, <1>6
  <1>9. ASSUME NEW k \in 1..Len(done'), NEW l \in 1..Len(done'), k < l
        PROVE  done'[k].at < done'[l].at
    <2>1. k \in 1..Len(done)
      BY <1>6, <1>7, <1>9
    <2>2. CASE l \in 1..Len(done)
      BY <2>1, <2>2, <1>5, <1>6, <1>9
    <2>3. CASE done'[l] = Request(stray)
      BY <2>1, <2>3, <1>4, <1>5, <1>6
    <2> QED
      BY <2>2, <2>3, <1>6
  <1> QED
    BY <1>1, <1>8, <1>9 DEF DoneInv

LEMMA DealSync ==
    ASSUME TypeOK, GridInv, BufferInv, SyncInv, NEW stray \in Strays, DealTcpPacket(stray)
    PROVE  SyncInv'
  <1>1. handler = "deal" /\ UNCHANGED <<sent, ends, base, nread, due>>
    BY DEF DealTcpPacket
  <1>2. /\ Boundaries' = Boundaries
        /\ WholePackets(base, base + nread)' = WholePackets(base, base + nread)
    BY <1>1 DEF Boundaries, WholePackets
  <1>3. base \in Nat /\ nread \in Nat /\ nwrite \in Nat
    BY <1>1, LeftFact
  <1>4. nwrite' \in Nat /\ nwrite <= nwrite' /\ (handler' = "deal" => nwrite < nwrite')
    BY RoundFact
  <1>5. Boundaries \subseteq Nat
    BY BoundaryFact
  <1> SUFFICES ASSUME handler' = "deal", base \in Boundaries
               PROVE  \/ base + nwrite' \in Boundaries
                      \/ \A b \in Boundaries : b < base + nwrite' \/ b > base + nread
    BY <1>1, <1>2 DEF SyncInv
  <1>6. CASE \A b \in Boundaries : b < base + nwrite \/ b > base + nread
    <2>1. ASSUME NEW b \in Boundaries, b < base + nwrite
          PROVE  b < base + nwrite'
      <3>1. b \in Nat
        BY <1>5
      <3>2. PICK w \in Nat : w = nwrite' /\ nwrite <= w
        BY <1>4
      <3>3. b < base + w
        <4>1. b \in Int /\ base \in Int /\ nwrite \in Int /\ w \in Int
          BY <3>1, <3>2, <1>3
        <4> QED
          BY <2>1, <3>2, <4>1, ShiftFact
      <3> QED
        BY <3>2, <3>3
    <2> QED
      BY <2>1, <1>6
  <1>7. CASE base + nwrite \in Boundaries
    <2>1. PICK i \in 1..Len(sent) : base + nwrite = ends[i - 1]
      BY <1>1, <1>7, AlignedFact
    <2>2. CASE ends[i] <= base + nread
      <3>1. Whole(i)
        BY <1>1, <2>1, <2>2 DEF Whole
      <3>2. Valid(stray) /\ Field(2, stray) = sent[i][2] /\ sent[i][2] \in Nat
            /\ ends[i] = base + nwrite + sent[i][2]
        BY <3>1, WholeFact
      <3>3. nwrite' = nwrite + sent[i][2]
        BY <3>2, RoundFact
      <3>4. base + nwrite' = ends[i]
        BY <3>2, <3>3, <1>3
      <3>5. ends[i] \in Boundaries
        BY BoundaryFact, SizeFact
      <3> QED
        BY <3>4, <3>5
    <2>3. CASE ~ (ends[i] <= base + nread)
      <3>1. ends[i] \in Nat /\ ends[i] > base + nread
        BY <2>3, <1>3, SizeFact
      <3>2. ASSUME NEW b \in Boundaries
            PROVE  b < base + nwrite' \/ b > base + nread
        <4>1. PICK q \in 0..Len(sent) : b = ends[q]
          BY DEF Boundaries
        <4>2. b <= base + nwrite \/ b >= ends[i]
          BY <2>1, <4>1, NextFact
        <4>3. b \in Nat
          BY <1>5
        <4>4. b <= base + nwrite => b < base + nwrite'
          <5>1. PICK w \in Nat : w = nwrite' /\ nwrite < w
            BY <1>4
          <5>2. b \in Int /\ base \in Int /\ nwrite \in Int /\ w \in Int
            BY <4>3, <5>1, <1>3
          <5>3. b <= base + nwrite => b < base + w
            BY <5>1, <5>2, ShiftFact
          <5> QED
            BY <5>1, <5>3
        <4>5. b >= ends[i] => b > base + nread
          BY <4>3, <3>1, <1>3
        <4> QED
          BY <4>2, <4>4, <4>5
      <3> QED
        BY <3>2
    <2> QED
      BY <2>2, <2>3
  <1> QED
    BY <1>1, <1>6, <1>7 DEF SyncInv

(* The loop reaches a pending packet: it deals with it, or with one before. *)
LEMMA PendingFact ==
    ASSUME TypeOK, GridInv, SyncInv, NEW i \in 1..Len(sent), Pending(i)
    PROVE  \E q \in 1..Len(sent) : Whole(q) /\ (q = i \/ ends[q] <= ends[i - 1])
  <1>1. /\ handler = "deal" /\ base \in Boundaries
        /\ base + nwrite <= ends[i - 1] /\ ends[i] <= base + nread
    BY DEF Pending
  <1>2. base \in Nat /\ nread \in Nat /\ nwrite \in Nat
    BY <1>1, LeftFact
  <1>3. i - 1 \in 0..Len(sent) /\ i \in 0..Len(sent) /\ i \in Nat
    BY SizeFact
  <1>4. /\ ends[i - 1] \in Nat /\ ends[i] \in Nat
        /\ ends[i - 1] \in Boundaries /\ ends[i - 1] < ends[i]
    BY <1>3, ForwardFact, BoundaryFact
  <1>5. base + nwrite \in Boundaries
    <2>1. ~ (ends[i - 1] < base + nwrite \/ ends[i - 1] > base + nread)
      BY <1>1, <1>2, <1>4
    <2> QED
      BY <2>1, <1>1, <1>4 DEF SyncInv
  <1>6. PICK q \in 1..Len(sent) : base + nwrite = ends[q - 1]
    BY <1>1, <1>5, AlignedFact
  <1>7. ends[i - 1] <= ends[q - 1] \/ ends[i - 1] >= ends[q]
    BY <1>3, NextFact
  <1>8. q - 1 \in 0..Len(sent) /\ q \in 0..Len(sent)
    BY SizeFact
  <1>9. ends[q - 1] \in Nat /\ ends[q] \in Nat
    BY <1>8, SizeFact
  <1>10. CASE ends[i - 1] <= ends[q - 1]
    <2>1. ends[i - 1] = ends[q - 1]
      BY <1>1, <1>4, <1>6, <1>9, <1>10
    <2>2. q = i
      BY <2>1, StartFact
    <2> QED
      BY <2>2, <1>1, <1>6 DEF Whole
  <1>11. CASE ends[i - 1] >= ends[q]
    <2>1. ends[q] <= base + nread
      <3>1. ends[q] \in Int /\ ends[i - 1] \in Int /\ ends[i] \in Int /\ base + nread \in Int
        BY <1>2, <1>4, <1>9
      <3>2. ends[q] <= ends[i - 1] /\ ends[i - 1] <= ends[i] /\ ends[i] <= base + nread
        BY <3>1, <1>1, <1>4, <1>11
      <3> QED
        BY <3>1, <3>2, ChainFact
    <2>2. Whole(q)
      BY <2>1, <1>1, <1>6 DEF Whole
    <2> QED
      BY <2>2, <1>4, <1>9, <1>11
  <1> QED
    BY <1>7, <1>10, <1>11

LEMMA DealServed ==
    ASSUME TypeOK, GridInv, BufferInv, SyncInv, ServedInv,
           NEW stray \in Strays, DealTcpPacket(stray)
    PROVE  ServedInv'
  <1>1. handler = "deal" /\ UNCHANGED <<sent, ends, base, nread, due>>
    BY DEF DealTcpPacket
  <1>2. Boundaries' = Boundaries
    BY <1>1 DEF Boundaries
  <1>3. \A d, i : Serves(d, i)' <=> Serves(d, i)
    BY <1>1 DEF Serves
  <1>4. /\ \A k \in 1..Len(done) : k \in 1..Len(done') /\ done'[k] = done[k]
        /\ \A k \in 1..Len(done') : k \in 1..Len(done) \/ done'[k] = Request(stray)
    BY AppendFact
  <1>5. base \in Nat /\ nread \in Nat /\ nwrite \in Nat
    BY <1>1, LeftFact
  <1>6. ASSUME NEW i \in due
        PROVE  Pending(i)' \/ \E k \in 1..Len(done') : done'[k].sync /\ Serves(done'[k], i)
    <2>1. i \in 1..Len(sent)
      BY DEF TypeOK
    <2>2. CASE \E k \in 1..Len(done) : done[k].sync /\ Serves(done[k], i)
      BY <2>2, <1>4
    <2>3. CASE Pending(i)
      <3>1. PICK q \in 1..Len(sent) : Whole(q) /\ (q = i \/ ends[q] <= ends[i - 1])
        BY <2>1, <2>3, PendingFact
      <3>2. /\ Valid(stray) /\ Field(2, stray) = sent[q][2]
            /\ sent[q][2] \in Nat /\ sent[q][2] >= 4
            /\ ends[q] = base + nwrite + sent[q][2]
        BY <3>1, WholeFact
      <3>3. CASE q = i
        <4>1. Request(stray).sync /\ Serves(Request(stray), i)
          BY <3>1, <3>3, WholeServes
        <4>2. Len(done) + 1 \in 1..Len(done') /\ done'[Len(done) + 1] = Request(stray)
          <5>1. Len(done') = Len(done) + 1 /\ done'[Len(done) + 1] = Request(stray)
            BY <3>2, AppendFact
          <5> QED
            BY <5>1, SizeFact
        <4> QED
          BY <4>1, <4>2
      <3>4. CASE ends[q] <= ends[i - 1]
        <4>1. nwrite' = nwrite + sent[q][2]
          BY <3>2, RoundFact
        <4>2. base + nwrite' = ends[q] /\ nwrite < nwrite' /\ nwrite' \in Nat
          <5>1. PICK x \in Nat : x = sent[q][2] /\ x >= 4
            BY <3>2
          <5>2. nwrite < nwrite + x /\ nwrite + x \in Nat /\ base + (nwrite + x) = base + nwrite + x
            BY <5>1, <1>5
          <5> QED
            BY <5>1, <5>2, <3>2, <4>1
        <4>3. /\ base \in Boundaries /\ ends[i] <= base + nread
          BY <2>3 DEF Pending
        <4>4. ends[i - 1] \in Nat /\ ends[i] \in Nat /\ ends[i - 1] < ends[i]
          BY <2>1, ForwardFact
        <4>5. nwrite' < nread
          BY <3>4, <4>2, <4>3, <4>4, <1>5
        <4>6. handler' = "deal"
          BY <4>2, <4>5, RoundFact
        <4> QED
          BY <3>4, <4>2, <4>3, <4>6, <1>1, <1>2 DEF Pending
      <3> QED
        BY <3>1, <3>3, <3>4
    <2> QED
      BY <2>2, <2>3 DEF ServedInv
  <1>7. ASSUME NEW k \in 1..Len(done'), NEW i \in 1..Len(sent), done'[k].sync,
               Serves(done'[k], i)
        PROVE  i \in due /\ Carries(done'[k], sent[i])
    <2>1. CASE k \in 1..Len(done)
      BY <2>1, <1>4, <1>7 DEF ServedInv
    <2>2. CASE done'[k] = Request(stray)
      <3>1. Whole(i)
        BY <2>2, <1>1, <1>7, ServesFact
      <3>2. Carries(done'[k], sent[i])
        BY <2>2, <3>1, CarriesFact
      <3>3. base \in Boundaries /\ base + nwrite = ends[i - 1] /\ ends[i] <= base + nread
        BY <3>1 DEF Whole
      <3>4. base <= ends[i - 1]
        BY <3>3, <1>5
      <3>5. i \in WholePackets(base, base + nread)
        BY <3>3, <3>4 DEF WholePackets
      <3> QED
        BY <3>2, <3>3, <3>5, <1>1 DEF SyncInv
    <2> QED
      BY <2>1, <2>2, <1>4
  <1> QED
    BY <1>1, <1>3, <1>6, <1>7 DEF ServedInv

LEMMA DealNothing ==
    ASSUME TypeOK, GridInv, SyncInv, NothingMadeUp, NEW stray \in Strays, DealTcpPacket(stray)
    PROVE  NothingMadeUp'
  <1>1. handler = "deal" /\ UNCHANGED <<sent, ends>>
    BY DEF DealTcpPacket
  <1>2. Boundaries' = Boundaries
    BY <1>1 DEF Boundaries
  <1>3. \A d : Genuine(d)' <=> Genuine(d)
    BY <1>1 DEF Genuine, Serves
  <1>4. /\ \A k \in 1..Len(done) : done'[k] = done[k]
        /\ \A k \in 1..Len(done') : k \in 1..Len(done) \/ done'[k] = Request(stray)
    BY AppendFact
  <1>5. /\ base \in Nat /\ nread \in Nat /\ nwrite \in Nat /\ nwrite < nread
        /\ Left = nread - nwrite
    BY <1>1, LeftFact
  <1>6. ASSUME Request(stray).sync, Request(stray).at + Request(stray).left \in Boundaries
        PROVE  Genuine(Request(stray))
    <2>1. /\ Request(stray).at = base + nwrite /\ Request(stray).left = Left
          /\ base \in Boundaries
      BY <1>1, <1>6, RequestFact
    <2>2. base + nread \in Boundaries
      <3>1. (base + nwrite) + Left = base + nread
        BY <1>5
      <3> QED
        BY <3>1, <2>1, <1>6
    <2>3. base + nwrite \in Boundaries
      <3>1. ~ (base + nread < base + nwrite \/ base + nread > base + nread)
        BY <1>5
      <3> QED
        BY <3>1, <2>1, <2>2, <1>1 DEF SyncInv
    <2>4. PICK i \in 1..Len(sent) : base + nwrite = ends[i - 1]
      BY <2>3, <1>1, AlignedFact
    <2>5. PICK q \in 0..Len(sent) : base + nread = ends[q]
      BY <2>2 DEF Boundaries
    <2>6. ends[q] <= ends[i - 1] \/ ends[q] >= ends[i]
      BY NextFact
    <2>7. sent[i] \in Packets /\ i \in 0..Len(sent)
      BY SizeFact
    <2>8. sent[i][2] \in Nat /\ ends[i] \in Nat /\ ends[i] = ends[i - 1] + sent[i][2]
      BY <2>7, SizeFact, PacketFact DEF GridInv
    <2>9. sent[i][2] <= Left
      BY <2>4, <2>5, <2>6, <2>8, <1>5
    <2> QED
      BY <2>1, <2>4, <2>9 DEF Genuine, Serves
  <1>7. ASSUME NEW k \in 1..Len(done'), done'[k].sync,
               done'[k].at + done'[k].left \in Boundaries
        PROVE  Genuine(done'[k])
    <2>1. CASE k \in 1..Len(done)
      BY <2>1, <1>4, <1>7 DEF NothingMadeUp
    <2>2. CASE done'[k] = Request(stray)
      BY <2>2, <1>6, <1>7
    <2> QED
      BY <2>1, <2>2, <1>4
  <1> QED
    BY <1>2, <1>3, <1>7 DEF NothingMadeUp

LEMMA DealStatus ==
    ASSUME TypeOK, GridInv, BufferInv, OwnStatusFirst, NEW stray \in Strays, DealTcpPacket(stray)
    PROVE  OwnStatusFirst'
  <1>1. handler = "deal" /\ UNCHANGED <<sent, ends>>
    BY DEF DealTcpPacket
  <1>2. \A d, i : Serves(d, i)' <=> Serves(d, i)
    BY <1>1 DEF Serves
  <1>3. /\ \A k \in 1..Len(done) : done'[k] = done[k]
        /\ \A k \in 1..Len(done') : k \in 1..Len(done) \/ done'[k] = Request(stray)
    BY AppendFact
  <1>4. ASSUME NEW k \in 1..Len(done'), NEW i \in 1..Len(sent), done'[k].sync,
               Serves(done'[k], i), done'[k].cmd = HSB_CMD_SET_STATUS
        PROVE  EntriesFirst(done'[k], sent[i])
    <2>1. CASE k \in 1..Len(done)
      BY <2>1, <1>3, <1>4 DEF OwnStatusFirst
    <2>2. CASE done'[k] = Request(stray)
      <3>1. Whole(i)
        BY <2>2, <1>1, <1>4, ServesFact
      <3>2. EntriesFirst(Request(stray), sent[i])
        BY <2>2, <3>1, <1>4, WholeStatus
      <3> QED
        BY <2>2, <3>2
    <2> QED
      BY <2>1, <2>2, <1>3
  <1> QED
    BY <1>1, <1>2, <1>4 DEF OwnStatusFirst

LEMMA DealStep ==
    ASSUME IInv, NEW stray \in Strays, DealTcpPacket(stray)
    PROVE  IInv'
  <1>1. handler = "deal" /\ UNCHANGED <<sent, stream, msg, nread, ends, base>>
    BY DEF DealTcpPacket
  <1>2. GridInv' /\ StreamInv' /\ BufferInv'
    <2>0. GridInv /\ StreamInv /\ BufferInv
      BY DEF IInv
    <2>1. GridInv'
      BY <1>1, <2>0, Zenon DEF GridInv
    <2>2. StreamInv'
      BY <1>1, <2>0, SameStream
    <2>3. BufferInv'
      BY <1>1, <2>0, SameBuffer
    <2> QED
      BY <2>1, <2>2, <2>3
  <1> QED
    BY <1>2, DealTypeOK, DealDone, DealSync, DealServed, DealNothing, DealStatus DEF IInv

-----------------------------------------------------------------------------
(* The inductive invariant. *)

LEMMA InitInv == Init => IInv
  <1> SUFFICES ASSUME Init
               PROVE  IInv
    OBVIOUS
  <1>1. /\ sent = <<>> /\ stream = <<>> /\ open = TRUE /\ handler = "select" /\ msg = <<>>
        /\ nread = 0 /\ nwrite = 0 /\ notes = 0 /\ done = <<>>
        /\ ends = [i \in 0..0 |-> 0] /\ base = 0 /\ due = {}
    BY DEF Init
  <1>2. Len(sent) = 0 /\ Len(stream) = 0 /\ Len(msg) = 0 /\ Len(done) = 0 /\ ends[0] = 0
    BY <1>1
  <1>3. BufSize \in Nat /\ MaxPackets \in Nat /\ MaxNotes \in Nat
    BY SizesAssumption, BoundsAssumption
  <1>4. TypeOK
    <2>1. 0 <= Max({BufSize, 6})
      BY <1>3, MaxFact
    <2>2. sent \in Seq(Packets) /\ stream \in Seq(Half) /\ msg \in Seq(Half) /\ done \in Seq(Done)
      BY <1>1
    <2>3. ends \in [0..Len(sent) -> Nat]
      BY <1>1, <1>2
    <2> QED
      BY <1>1, <1>2, <1>3, <2>1, <2>2, <2>3 DEF TypeOK
  <1>5. GridInv
    BY <1>1, <1>2 DEF GridInv
  <1>6. StreamInv /\ BufferInv /\ DoneInv /\ SyncInv /\ ServedInv /\ NothingMadeUp /\ OwnStatusFirst
    <2>1. 1..Len(sent) = {} /\ 1..Len(done) = {}
      BY <1>2
    <2> QED
      BY <2>1, <1>1 DEF StreamInv, BufferInv, DoneInv, SyncInv, ServedInv, NothingMadeUp,
                        OwnStatusFirst
  <1> QED
    BY <1>4, <1>5, <1>6 DEF IInv

(* Whatever does not touch the loop keeps the invariant. *)
LEMMA IdleStep ==
    ASSUME IInv, TypeOK', UNCHANGED <<sent, stream, nread, nwrite, done, ends, base, due>>,
           \/ handler' = handler /\ msg' = msg
           \/ handler = "select" /\ handler' \in {"select", "ended"}
    PROVE  IInv'
  <1>0. /\ GridInv /\ StreamInv /\ BufferInv /\ DoneInv /\ SyncInv /\ ServedInv
        /\ NothingMadeUp /\ OwnStatusFirst
    BY DEF IInv
  <1>1. GridInv' /\ StreamInv'
    <2>1. GridInv'
      BY <1>0 DEF GridInv
    <2>2. StreamInv'
      BY <1>0, SameStream
    <2> QED
      BY <2>1, <2>2
  <1>2. NothingMadeUp'
    <2>1. Boundaries' = Boundaries /\ \A k : Genuine(done[k])' <=> Genuine(done[k])
      BY DEF Genuine, Serves, Boundaries
    <2> QED
      BY <2>1, <1>0 DEF NothingMadeUp
  <1>3. OwnStatusFirst'
    BY <1>0 DEF OwnStatusFirst, Serves
  <1>4. BufferInv'
    <2>1. CASE handler' = handler /\ msg' = msg
      BY <2>1, <1>0, SameBuffer
    <2>2. CASE handler' \in {"select", "ended"}
      BY <2>2 DEF BufferInv
    <2> QED
      BY <2>1, <2>2
  <1>5. DoneInv'
    BY <1>0 DEF DoneInv
  <1>6. /\ Boundaries' = Boundaries
        /\ WholePackets(base, base + nread)' = WholePackets(base, base + nread)
    BY DEF Boundaries, WholePackets
  <1>7. SyncInv'
    BY <1>0, <1>6 DEF SyncInv
  <1>8. ServedInv'
    <2>1. \A i : Pending(i) => Pending(i)'
      BY <1>6 DEF Pending
    <2>2. \A k, i : Serves(done[k], i)' <=> Serves(done[k], i)
      BY DEF Serves
    <2> QED
      BY <2>1, <2>2, <1>0 DEF ServedInv
  <1> QED
    BY <1>1, <1>2, <1>3, <1>4, <1>5, <1>7, <1>8 DEF IInv

LEMMA NextInv == IInv /\ [Next]_vars => IInv'
  <1> SUFFICES ASSUME IInv, [Next]_vars
               PROVE  IInv'
    OBVIOUS
  <1>0. TypeOK
    BY DEF IInv
  <1>1. ASSUME NEW p \in Packets, PadSends(p)
        PROVE  IInv'
    BY <1>1, SendStep
  <1>2. CASE PadCloses
    <2>1. TypeOK'
      BY <1>0, <1>2 DEF TypeOK, PadCloses
    <2> QED
      BY <2>1, <1>2, IdleStep DEF PadCloses
  <1>3. ASSUME NEW n \in 1..(BufSize \div 2), Read(n)
        PROVE  IInv'
    BY <1>3, ReadStep
  <1>4. CASE Deals
    BY <1>4, DealStep DEF Deals
  <1>5. CASE Notified
    <2>1. msg \in Seq(Half) /\ 2 * Len(msg) <= Max({BufSize, 6}) /\ Len(msg) \in Nat
      BY <1>0, SizeFact DEF TypeOK
    <2>2. Notify \in Seq(Half) /\ Len(Notify) = 3
      <3>1. 28526 \in Half /\ 26996 \in Half /\ 31078 \in Half
        BY DEF Half, UINT16_MAX
      <3>2. PICK a \in Half, b \in Half, c \in Half : Notify = <<a, b, c>>
        BY <3>1 DEF Notify
      <3> QED
        BY <3>2
    <2>3. /\ msg' \in Seq(Half)
          /\ Len(msg') = 3 \/ Len(msg') = Len(msg)
      <3>1. msg' = Overwritten(Notify)
        BY <1>5 DEF Notified
      <3> QED
        BY <3>1, <2>1, <2>2, OverwrittenFact
    <2>4. Max({BufSize, 6}) \in Int /\ 6 <= Max({BufSize, 6})
      <3>1. BufSize \in Int /\ 6 \in Int
        BY SizesAssumption
      <3> QED
        BY <3>1, MaxFact
    <2>5. 2 * Len(msg') <= Max({BufSize, 6})
      <3>1. CASE Len(msg') = 3
        BY <3>1, <2>4
      <3>2. CASE Len(msg') = Len(msg)
        BY <3>2, <2>1
      <3> QED
        BY <3>1, <3>2, <2>3
    <2>6. notes' \in 0..MaxNotes
      BY <1>0, <1>5, BoundsAssumption DEF TypeOK, Notified
    <2>7. TypeOK'
      BY <1>0, <1>5, <2>3, <2>5, <2>6 DEF TypeOK, Notified
    <2> QED
      BY <2>7, <1>5, IdleStep DEF Notified
  <1>6. CASE HandlerEnds
    <2>1. TypeOK'
      BY <1>0, <1>6 DEF TypeOK, HandlerEnds
    <2> QED
      BY <2>1, <1>6, IdleStep DEF HandlerEnds
  <1>7. CASE UNCHANGED vars
    <2>1. TypeOK'
      BY <1>0, <1>7 DEF TypeOK, vars
    <2> QED
      BY <2>1, <1>7, IdleStep DEF vars
  <1> QED
    BY <1>1, <1>2, <1>3, <1>4, <1>5, <1>6, <1>7 DEF Next

LEMMA SpecInv == Spec => []IInv
  BY InitInv, NextInv, PTL DEF Spec

-----------------------------------------------------------------------------
(* The buffer, the place of the loop in it and the place of the read in    *)
(* the stream stay within their bounds, whatever the bytes are and         *)
(* wherever the network cuts them: tcp_client_handler never looks for a    *)
(* packet beyond what it has read.                                         *)
THEOREM TypeCorrect == Spec => []TypeOK
  <1>1. IInv => TypeOK
    BY DEF IInv
  <1> QED
    BY <1>1, SpecInv, PTL

(* On every read that starts where a packet starts tcp_client_handler      *)
(* serves the packets that lie wholly in it, those alone, each once and in *)
(* order, for any number and size of packets and any cut.                  *)
THEOREM ServedCorrect == Spec => []WholePacketsServed
  <1>1. IInv => WholePacketsServed
    <2> SUFFICES ASSUME IInv, handler \in {"select", "ended"}
                 PROVE  /\ \A i \in due : \E k \in 1..Len(done) :
                              done[k].sync /\ Serves(done[k], i) /\ Carries(done[k], sent[i])
                        /\ \A k \in 1..Len(done), i \in 1..Len(sent) :
                              done[k].sync /\ Serves(done[k], i) => i \in due
                        /\ \A k, l \in 1..Len(done) : k < l => done[k].at < done[l].at
      BY DEF WholePacketsServed
    <2>1. due \subseteq 1..Len(sent)
      BY DEF IInv, TypeOK
    <2>2. \A i : ~ Pending(i)
      BY DEF Pending
    <2>3. ServedInv /\ DoneInv
      BY DEF IInv
    <2>4. \A k, l \in 1..Len(done) : k < l => done[k].at < done[l].at
      BY <2>3 DEF DoneInv
    <2> QED
      BY <2>1, <2>2, <2>3, <2>4 DEF ServedInv
  <1> QED
    BY <1>1, SpecInv, PTL

(* Of a read that starts and ends where packets do deal_tcp_packet carries *)
(* nothing out that the pad has not sent.                                  *)
THEOREM NothingCorrect == Spec => []NothingMadeUp
  <1>1. IInv => NothingMadeUp
    BY DEF IInv
  <1> QED
    BY <1>1, SpecInv, PTL

(* Although _get_dev_status counts the bytes left of the read instead of   *)
(* those of the packet, the entries of a SET_STATUS come first, complete   *)
(* as far as the arrays of HSB_STATUS_T go, and never overrun them.        *)
THEOREM StatusCorrect == Spec => []OwnStatusFirst
  <1>1. IInv => OwnStatusFirst
    BY DEF IInv
  <1> QED
    BY <1>1, SpecInv, PTL
=============================================================================
