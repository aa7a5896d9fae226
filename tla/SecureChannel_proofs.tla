-------------------------- MODULE SecureChannel_proofs --------------------------
(***************************************************************************)
(* The secure channel is a queue, for any messages and any limits of the   *)
(* frames.  The frames on their way, those on the wire and those that are  *)
(* yet to be sent, are the rest of the message that the receiver has begun *)
(* and then the frames of the messages after it.                           *)
(***************************************************************************)
EXTENDS SecureChannel, Integers, SequenceTheorems, TLAPS

-----------------------------------------------------------------------------
(***************************************************************************)
(* The chunks of a message.                                                *)
(***************************************************************************)

LEMMA ChunkSizeType == ChunkSize \in Nat \ {0}
<1>1. MaxPlain \in Nat /\ Header \in Nat /\ Header < MaxPlain
  BY SecureChannelAssumption
<1> QED
  BY <1>1 DEF ChunkSize

\* The chunks reach the end of the message, and the last of them is needed.
LEMMA ChunksCover ==
  ASSUME NEW length \in Nat \ {0}
  PROVE  /\ Chunks(length) \in Nat \ {0}
         /\ length <= Chunks(length) * ChunkSize
         /\ (Chunks(length) - 1) * ChunkSize < length
<1> DEFINE c == ChunkSize
           q == (length + c - 1) \div c
<1>1. c \in Nat \ {0}
  BY ChunkSizeType
<1> HIDE DEF c
<1>2. q \in Nat /\ q * c <= length + c - 1 /\ length + c - 1 < (q + 1) * c
  BY <1>1
<1> HIDE DEF q
<1>3. (q + 1) * c = q * c + c /\ (q - 1) * c = q * c - c /\ q * c \in Nat
  BY <1>1, <1>2
<1>4. q # 0
  BY <1>1, <1>2, <1>3
<1>5. q \in Nat \ {0} /\ length <= q * c /\ (q - 1) * c < length
  BY <1>1, <1>2, <1>3, <1>4
<1> QED
  BY <1>5 DEF Chunks, q, c

\* The chunk of an index ends the message, or is a whole chunk before its end.
LEMMA ChunkEnds ==
  ASSUME NEW length \in Nat \ {0}, NEW i \in 0..Chunks(length) - 1
  PROVE  LET chunk == Smaller(ChunkSize, length - i * ChunkSize) IN
         /\ i + 1 = Chunks(length) => i * ChunkSize + chunk = length
         /\ i + 1 # Chunks(length) => /\ i * ChunkSize + chunk = (i + 1) * ChunkSize
                                      /\ (i + 1) * ChunkSize <= length
<1>1. PICK c \in Nat \ {0} : c = ChunkSize
  BY ChunkSizeType
<1>2. PICK q \in Nat \ {0} : q = Chunks(length) /\ length <= q * c /\ (q - 1) * c < length
  BY <1>1, ChunksCover
<1>3. i \in Nat /\ i + 1 <= q
  BY <1>2
<1>4. (i + 1) * c = i * c + c /\ i * c \in Nat
  BY <1>1, <1>3
<1>5. CASE i + 1 = q
  <2>1. length <= i * c + c
    BY <1>2, <1>4, <1>5
  <2>2. Smaller(c, length - i * c) = length - i * c
    BY <1>1, <1>4, <2>1 DEF Smaller
  <2> QED
    BY <1>1, <1>2, <1>4, <1>5, <2>2
<1>6. CASE i + 1 # q
  <2>1. PICK d \in Nat : q - 1 = i + 1 + d
    <3>1. i \in Nat /\ i + 1 <= q /\ i + 1 # q
      BY <1>3, <1>6
    <3>2. (q - 1) - (i + 1) \in Nat
      BY <3>1
    <3>3. q - 1 = i + 1 + ((q - 1) - (i + 1))
      BY <3>1
    <3> QED
      BY <3>2, <3>3
  <2>2. (i + 1 + d) * c = (i + 1) * c + d * c /\ d * c \in Nat
    BY <1>1, <1>3
  <2>3. i * c + c < length
    BY <1>1, <1>2, <1>4, <2>1, <2>2
  <2>4. Smaller(c, length - i * c) = c
    BY <1>1, <1>4, <2>3 DEF Smaller
  <2> QED
    BY <1>1, <1>2, <1>4, <1>6, <2>3, <2>4
<1> QED
  BY <1>5, <1>6

-----------------------------------------------------------------------------
(***************************************************************************)
(* The frames on their way.                                                *)
(***************************************************************************)

FrameType == [cut : BOOLEAN, id : Id \union {0}, index : Nat, total : Nat, length : Int,
              of : Message]

\* A frame as the sender makes it of a message that is not too large; encrypted, it
\* is not larger than the limit of the frames either.
WellMade(f) ==
    /\ Size(f.of) <= MaxMessage
    /\ Encrypted(f) <= MaxFrame
    /\ ~f.cut => f.length = Size(f.of)
    /\ f.cut => /\ f.total = Chunks(Size(f.of))
                /\ f.index \in 0..f.total - 1
                /\ f.length = Smaller(ChunkSize, Size(f.of) - f.index * ChunkSize)

Starts(f) == f.cut => f.index = 0
Ends(f) == f.cut => f.index + 1 = f.total

\* The frame after a frame: of the same message, or the first of another.
Follows(f, g) ==
    IF Ends(f) THEN Starts(g)
    ELSE g.cut /\ g.index = f.index + 1 /\ g.id = f.id /\ g.of = f.of

\* What the receiver has of the message before it gets the frame.
Before(f) ==
    IF Starts(f) THEN NoIncoming
    ELSE [id |-> f.id, total |-> f.total, next |-> f.index, payload |-> f.index * ChunkSize]

\* The frames s, each of the message with the number m, after d messages of all that
\* were accepted, and the receiver's beginning of the next one.
Flow(s, m, d, all, begun) ==
    LET n == Len(s) IN
    /\ s \in Seq(FrameType)
    /\ m \in [1..n -> 1..Len(all)]
    /\ \A i \in 1..n : WellMade(s[i]) /\ s[i].of = all[m[i]]
    /\ \A i, j \in 1..n : j = i + 1 => /\ Follows(s[i], s[j])
                                       /\ m[j] = IF Ends(s[i]) THEN m[i] + 1 ELSE m[i]
    /\ n = 0 => d = Len(all) /\ begun = NoIncoming
    /\ n > 0 => /\ m[1] = d + 1 /\ begun = Before(s[1])
                /\ m[n] = Len(all) /\ Ends(s[n])

ChannelInv ==
    /\ accepted \in Seq(Message) /\ delivered \in Seq(Message)
    /\ wire \in Seq(FrameType) /\ unsent \in Seq(FrameType)
    /\ ~rejected
    /\ \E m : Flow(wire \o unsent, m, Len(delivered), accepted, incoming)

\* The first frame is of the message that is next.
LEMMA FlowHead ==
  ASSUME NEW s, NEW m, NEW d \in Nat, NEW all \in Seq(Message), NEW begun,
         Flow(s, m, d, all, begun), s # << >>
  PROVE  /\ d < Len(all) /\ s[1].of = all[d + 1]
         /\ s[1] \in FrameType /\ WellMade(s[1]) /\ begun = Before(s[1])
<1>1. PICK n \in Nat : n = Len(s) /\ n > 0
  BY DEF Flow
<1>2. PICK l \in Nat : l = Len(all)
  OBVIOUS
<1>3. /\ s \in Seq(FrameType) /\ m \in [1..n -> 1..l]
      /\ \A i \in 1..n : WellMade(s[i]) /\ s[i].of = all[m[i]]
      /\ m[1] = d + 1 /\ begun = Before(s[1])
  BY <1>1, <1>2 DEF Flow
<1>4. 1 \in 1..n
  BY <1>1
<1>5. m[1] \in 1..l /\ s[1] \in FrameType
  BY <1>1, <1>3, <1>4
<1> QED
  BY <1>2, <1>3, <1>4, <1>5

\* Without the first frame.
LEMMA FlowTail ==
  ASSUME NEW s, NEW m, NEW d \in Nat, NEW all \in Seq(Message), NEW begun,
         Flow(s, m, d, all, begun), s # << >>
  PROVE  LET f == s[1] IN
         /\ Ends(f) => \E k : Flow(Tail(s), k, d + 1, all, NoIncoming)
         /\ ~Ends(f) => \E k : Flow(Tail(s), k, d, all,
               [id |-> f.id, total |-> f.total, next |-> f.index + 1,
                payload |-> (f.index + 1) * ChunkSize])
<1>1. PICK n \in Nat : n = Len(s) /\ n > 0
  BY DEF Flow
<1>2. PICK l \in Nat : l = Len(all)
  OBVIOUS
<1>3. /\ s \in Seq(FrameType) /\ m \in [1..n -> 1..l]
      /\ \A i \in 1..n : WellMade(s[i]) /\ s[i].of = all[m[i]]
      /\ m[1] = d + 1 /\ m[n] = l /\ Ends(s[n])
  BY <1>1, <1>2 DEF Flow
<1>4. \A i, j \in 1..n : j = i + 1 => /\ Follows(s[i], s[j])
                                      /\ m[j] = IF Ends(s[i]) THEN m[i] + 1 ELSE m[i]
  BY <1>1 DEF Flow
<1>5. PICK p \in Nat : n = p + 1
  <2>1. n - 1 \in Nat /\ n = n - 1 + 1
    BY <1>1
  <2> QED
    BY <2>1
<1> DEFINE t == Tail(s)
           k == [i \in 1..p |-> m[i + 1]]
<1>6. /\ t \in Seq(FrameType) /\ Len(t) = p
      /\ \A i \in 1..p : t[i] = s[i + 1]
  <2>1. t \in Seq(FrameType) /\ Len(t) = n - 1
    BY <1>1, <1>3, HeadTailProperties
  <2>2. \A i \in 1..n - 1 : t[i] = s[i + 1]
    BY <1>1, <1>3, <2>1, HeadTailProperties
  <2>3. n - 1 = p
    BY <1>5
  <2> QED
    BY <2>1, <2>2, <2>3
<1> HIDE DEF t
<1>7. \A i \in 1..p : i + 1 \in 1..n
  BY <1>5
<1>8. k \in [1..p -> 1..l] /\ \A i \in 1..p : k[i] = m[i + 1]
  BY <1>3, <1>7
<1> HIDE DEF k
<1>9. \A i \in 1..p : WellMade(t[i]) /\ t[i].of = all[k[i]]
  <2> SUFFICES ASSUME NEW i \in 1..p PROVE WellMade(t[i]) /\ t[i].of = all[k[i]]
    OBVIOUS
  <2>1. t[i] = s[i + 1] /\ k[i] = m[i + 1] /\ i + 1 \in 1..n
    BY <1>6, <1>7, <1>8
  <2>2. WellMade(s[i + 1]) /\ s[i + 1].of = all[m[i + 1]]
    BY <1>3, <2>1
  <2> QED
    BY <2>1, <2>2
<1>10. \A i, j \in 1..p : j = i + 1 => /\ Follows(t[i], t[j])
                                       /\ k[j] = IF Ends(t[i]) THEN k[i] + 1 ELSE k[i]
  <2> SUFFICES ASSUME NEW i \in 1..p, NEW j \in 1..p, j = i + 1
               PROVE  /\ Follows(t[i], t[j])
                      /\ k[j] = IF Ends(t[i]) THEN k[i] + 1 ELSE k[i]
    OBVIOUS
  <2>1. PICK u \in 1..n, v \in 1..n : u = i + 1 /\ v = j + 1 /\ v = u + 1
    BY <1>7
  <2>2. t[i] = s[u] /\ t[j] = s[v] /\ k[i] = m[u] /\ k[j] = m[v]
    BY <1>6, <1>8, <2>1
  <2> QED
    BY <1>4, <2>1, <2>2
<1>11. CASE p = 0
  <2>1. n = 1
    BY <1>5, <1>11
  <2>2. Ends(s[1]) /\ d + 1 = l
    BY <1>3, <2>1
  <2>3. Flow(t, k, d + 1, all, NoIncoming)
    BY <1>2, <1>6, <1>8, <1>9, <1>10, <1>11, <2>2 DEF Flow
  <2> QED
    BY <2>2, <2>3 DEF t
<1>12. CASE p > 0
  <2>1. 1 \in 1..p /\ p \in 1..p /\ p + 1 = n /\ 1 \in 1..n /\ 2 \in 1..n /\ 2 = 1 + 1
    BY <1>5, <1>12
  <2>2. t[1] = s[2] /\ k[1] = m[2] /\ t[p] = s[n] /\ k[p] = m[n]
    BY <1>6, <1>8, <2>1
  <2>3. Follows(s[1], s[2]) /\ m[2] = IF Ends(s[1]) THEN m[1] + 1 ELSE m[1]
    BY <1>4, <2>1
  <2>4. CASE Ends(s[1])
    <3>1. Before(t[1]) = NoIncoming
      BY <2>2, <2>3, <2>4 DEF Follows, Before
    <3>2. k[1] = d + 1 + 1
      BY <1>3, <2>2, <2>3, <2>4
    <3>3. Flow(t, k, d + 1, all, NoIncoming)
      BY <1>2, <1>3, <1>6, <1>8, <1>9, <1>10, <1>12, <2>2, <3>1, <3>2 DEF Flow
    <3> QED
      BY <2>4, <3>3 DEF t
  <2>5. CASE ~Ends(s[1])
    <3> DEFINE f == s[1]
               begins == [id |-> f.id, total |-> f.total, next |-> f.index + 1,
                          payload |-> (f.index + 1) * ChunkSize]
    <3>1. t[1].cut /\ t[1].index = f.index + 1 /\ t[1].id = f.id /\ t[1].of = f.of
      BY <2>2, <2>3, <2>5 DEF Follows
    <3>2. f.cut /\ f \in FrameType /\ WellMade(f) /\ WellMade(t[1])
      BY <1>1, <1>3, <1>9, <2>1, <2>5 DEF Ends
    <3>3. f.index \in Nat /\ t[1].total = f.total
      BY <3>1, <3>2 DEF WellMade, FrameType
    <3>4. Before(t[1]) = begins
      BY <3>1, <3>3 DEF Before, Starts
    <3>5. k[1] = d + 1
      BY <1>3, <2>2, <2>3, <2>5
    <3> HIDE DEF begins
    <3>6. Flow(t, k, d, all, begins)
      BY <1>2, <1>3, <1>6, <1>8, <1>9, <1>10, <1>12, <2>2, <3>4, <3>5 DEF Flow
    <3> QED
      BY <2>5, <3>6 DEF t, begins
  <2> QED
    BY <2>4, <2>5
<1> QED
  BY <1>11, <1>12

\* The frames of one message.
WholeMessage(t, message) ==
    LET n == Len(t) IN
    /\ t \in Seq(FrameType) /\ n > 0
    /\ \A i \in 1..n : WellMade(t[i]) /\ t[i].of = message
    /\ \A i, j \in 1..n : j = i + 1 => Follows(t[i], t[j]) /\ ~Ends(t[i])
    /\ Starts(t[1]) /\ Ends(t[n])

LEMMA FramesMade ==
  ASSUME NEW message \in Message, NEW id \in Id, Size(message) <= MaxMessage
  PROVE  WholeMessage(Frames(message, id), message)
<1>1. PICK length \in Nat \ {0} : length = Size(message)
  BY SecureChannelAssumption
<1>2. /\ MaxPlain \in Nat /\ Header \in Nat /\ Tag \in Nat
      /\ ChunkSize = MaxPlain - Header /\ ChunkSize \in Nat
  BY SecureChannelAssumption, ChunkSizeType DEF ChunkSize
<1>3. CASE length <= MaxPlain
  <2> DEFINE f == [cut |-> FALSE, id |-> 0, index |-> 0, total |-> 0, length |-> length,
                   of |-> message]
  <2>1. Frames(message, id) = <<f>>
    BY <1>1, <1>3 DEF Frames
  <2>2. f \in FrameType
    BY DEF FrameType
  <2>3. f.cut = FALSE /\ f.length = length /\ f.of = message
    OBVIOUS
  <2>4. WellMade(f) /\ Starts(f) /\ Ends(f)
    <3>1. Encrypted(f) = length + Tag
      BY <1>2, <2>3 DEF Encrypted
    <3>2. Encrypted(f) <= MaxFrame
      BY <1>2, <1>3, <3>1 DEF MaxFrame
    <3> QED
      BY <1>1, <2>3, <3>2 DEF WellMade, Starts, Ends
  <2> HIDE DEF f
  <2>5. <<f>> \in Seq(FrameType) /\ Len(<<f>>) = 1 /\ <<f>>[1] = f
    BY <2>2
  <2>6. \A i \in 1..1 : i = 1
    OBVIOUS
  <2>7. ~\E i, j \in 1..1 : j = i + 1
    OBVIOUS
  <2> QED
    BY <2>1, <2>3, <2>4, <2>5, <2>6, <2>7 DEF WholeMessage
<1>4. CASE ~(length <= MaxPlain)
  <2>1. PICK q \in Nat \ {0} : q = Chunks(length)
    BY ChunksCover
  <2> DEFINE chunk(i) == Smaller(ChunkSize, length - (i - 1) * ChunkSize)
             f(i) == [cut |-> TRUE, id |-> id, index |-> i - 1, total |-> q,
                      length |-> chunk(i), of |-> message]
             t == [i \in 1..q |-> f(i)]
  <2>2. Frames(message, id) = t
    BY <1>1, <1>4, <2>1 DEF Frames
  <2>3. \A i \in 1..q : chunk(i) \in Int /\ chunk(i) <= ChunkSize
    <3> SUFFICES ASSUME NEW i \in 1..q PROVE chunk(i) \in Int /\ chunk(i) <= ChunkSize
      OBVIOUS
    <3>1. PICK rest \in Int : rest = length - (i - 1) * ChunkSize
      BY <1>2
    <3> QED
      BY <1>2, <3>1 DEF Smaller
  <2>4. ASSUME NEW i \in 1..q
        PROVE  /\ f(i) \in FrameType
               /\ f(i).cut /\ f(i).id = id /\ f(i).index = i - 1 /\ f(i).total = q
               /\ f(i).length = chunk(i) /\ f(i).of = message
    <3> HIDE DEF chunk
    <3>1. i - 1 \in Nat /\ chunk(i) \in Int
      BY <2>3
    <3> QED
      BY <3>1 DEF FrameType
  <2>5. ASSUME NEW i \in 1..q PROVE WellMade(f(i))
    <3>1. i - 1 \in 0..q - 1
      OBVIOUS
    <3>2. /\ Size(f(i).of) = length /\ length <= MaxMessage
          /\ chunk(i) = Smaller(ChunkSize, length - f(i).index * ChunkSize)
      BY <1>1, <2>4
    <3>3. Encrypted(f(i)) = Header + chunk(i) + Tag
      BY <2>4 DEF Encrypted
    <3>4. chunk(i) \in Int /\ chunk(i) <= ChunkSize
      BY <2>3
    <3> HIDE DEF f, chunk
    <3>5. Encrypted(f(i)) <= MaxFrame
      BY <1>2, <3>3, <3>4 DEF MaxFrame
    <3> QED
      BY <2>1, <2>4, <3>1, <3>2, <3>5 DEF WellMade
  <2> HIDE DEF f
  <2>6. /\ t \in Seq(FrameType) /\ Len(t) = q
        /\ \A i \in 1..q : t[i] = f(i)
    BY <2>4
  <2> HIDE DEF t
  <2>7. \A i, j \in 1..q : j = i + 1 => Follows(t[i], t[j]) /\ ~Ends(t[i])
    <3> SUFFICES ASSUME NEW i \in 1..q, NEW j \in 1..q, j = i + 1
                 PROVE  Follows(t[i], t[j]) /\ ~Ends(t[i])
      OBVIOUS
    <3>1. t[i] = f(i) /\ t[j] = f(j)
      BY <2>6
    <3>2. i - 1 + 1 # q /\ j - 1 = i - 1 + 1
      OBVIOUS
    <3>3. ~Ends(t[i])
      BY <2>4, <3>1, <3>2 DEF Ends
    <3> QED
      BY <2>4, <3>1, <3>2, <3>3 DEF Follows
  <2>8. 1 \in 1..q /\ q \in 1..q /\ 1 - 1 = 0 /\ q - 1 + 1 = q
    OBVIOUS
  <2>9. Starts(t[1]) /\ Ends(t[q])
    BY <2>4, <2>6, <2>8 DEF Starts, Ends
  <2>10. \A i \in 1..q : WellMade(t[i]) /\ t[i].of = message
    BY <2>4, <2>5, <2>6
  <2>11. WholeMessage(t, message)
    BY <2>6, <2>7, <2>9, <2>10 DEF WholeMessage
  <2> QED
    BY <2>2, <2>11
<1> QED
  BY <1>3, <1>4

\* With the frames of a message that is accepted.
LEMMA FlowGrows ==
  ASSUME NEW s, NEW m, NEW d \in Nat, NEW all \in Seq(Message), NEW begun,
         Flow(s, m, d, all, begun), NEW message \in Message, NEW t, WholeMessage(t, message)
  PROVE  \E k : Flow(s \o t, k, d, Append(all, message), begun)
<1>1. PICK n \in Nat : n = Len(s)
  BY DEF Flow
<1>2. PICK l \in Nat : l = Len(all)
  OBVIOUS
<1>3. /\ s \in Seq(FrameType) /\ m \in [1..n -> 1..l]
      /\ \A i \in 1..n : WellMade(s[i]) /\ s[i].of = all[m[i]]
      /\ n = 0 => d = l /\ begun = NoIncoming
      /\ n > 0 => m[1] = d + 1 /\ begun = Before(s[1]) /\ m[n] = l /\ Ends(s[n])
  BY <1>1, <1>2 DEF Flow
<1>4. \A i, j \in 1..n : j = i + 1 => /\ Follows(s[i], s[j])
                                      /\ m[j] = IF Ends(s[i]) THEN m[i] + 1 ELSE m[i]
  BY <1>1 DEF Flow
<1>5. PICK q \in Nat \ {0} : q = Len(t)
  BY DEF WholeMessage
<1>6. /\ t \in Seq(FrameType)
      /\ \A i \in 1..q : WellMade(t[i]) /\ t[i].of = message
      /\ \A i, j \in 1..q : j = i + 1 => Follows(t[i], t[j]) /\ ~Ends(t[i])
      /\ Starts(t[1]) /\ Ends(t[q])
  BY <1>5 DEF WholeMessage
<1>7. PICK w \in Nat : w = n + q
  OBVIOUS
<1> DEFINE u == s \o t
           k == [i \in 1..w |-> IF i <= n THEN m[i] ELSE l + 1]
           more == Append(all, message)
<1>8. /\ u \in Seq(FrameType) /\ Len(u) = w
      /\ \A i \in 1..w : u[i] = IF i <= n THEN s[i] ELSE t[i - n]
  BY <1>1, <1>3, <1>5, <1>6, <1>7, ConcatProperties
<1>9. /\ more \in Seq(Message) /\ Len(more) = l + 1 /\ more[l + 1] = message
      /\ \A i \in 1..l : more[i] = all[i]
  BY <1>2, AppendProperties
<1> HIDE DEF u, more
<1>10. /\ k \in [1..w -> 1..l + 1]
       /\ \A i \in 1..n : i \in 1..w /\ k[i] = m[i]
       /\ \A i \in n + 1..w : i \in 1..w /\ k[i] = l + 1
  <2>0. m \in [1..n -> 1..l]
    BY <1>3
  <2>1. \A i \in 1..n : i \in 1..w /\ m[i] \in 1..l + 1
    <3> HIDE DEF k
    <3> SUFFICES ASSUME NEW i \in 1..n PROVE i \in 1..w /\ m[i] \in 1..l + 1
      OBVIOUS
    <3>1. m[i] \in 1..l
      BY <2>0
    <3>2. i \in 1..w
      BY <1>7
    <3>3. \A x \in 1..l : x \in 1..l + 1
      OBVIOUS
    <3> QED
      BY <3>1, <3>2, <3>3
  <2>2. \A i \in n + 1..w : i \in 1..w /\ ~(i <= n)
    BY <1>7
  <2>3. \A i \in 1..w : i <= n => i \in 1..n
    OBVIOUS
  <2> QED
    BY <2>1, <2>2, <2>3
<1> HIDE DEF k
<1>11. /\ \A i \in 1..n : u[i] = s[i]
       /\ \A i \in n + 1..w : i - n \in 1..q /\ u[i] = t[i - n]
  <2>1. \A i \in 1..n : i \in 1..w /\ i <= n
    BY <1>7
  <2>2. \A i \in n + 1..w : i \in 1..w /\ ~(i <= n) /\ i - n \in 1..q
    BY <1>7
  <2> QED
    BY <1>8, <2>1, <2>2
<1>12. \A i \in 1..w : i \in 1..n \/ i \in n + 1..w
  OBVIOUS
<1>13. \A i \in 1..w : WellMade(u[i]) /\ u[i].of = more[k[i]]
  <2>1. ASSUME NEW i \in 1..n PROVE WellMade(u[i]) /\ u[i].of = more[k[i]]
    <3>1. u[i] = s[i] /\ k[i] = m[i] /\ m[i] \in 1..l
      BY <1>3, <1>10, <1>11
    <3>2. WellMade(s[i]) /\ s[i].of = all[m[i]]
      BY <1>3
    <3>3. more[m[i]] = all[m[i]]
      BY <1>9, <3>1
    <3> QED
      BY <3>1, <3>2, <3>3
  <2>2. ASSUME NEW i \in n + 1..w PROVE WellMade(u[i]) /\ u[i].of = more[k[i]]
    <3>1. PICK x \in 1..q : u[i] = t[x] /\ k[i] = l + 1
      BY <1>10, <1>11
    <3>2. WellMade(t[x]) /\ t[x].of = message
      BY <1>6
    <3> QED
      BY <1>9, <3>1, <3>2
  <2> QED
    BY <1>12, <2>1, <2>2
<1>14. \A i, j \in 1..w : j = i + 1 => /\ Follows(u[i], u[j])
                                       /\ k[j] = IF Ends(u[i]) THEN k[i] + 1 ELSE k[i]
  <2> SUFFICES ASSUME NEW i \in 1..w, NEW j \in 1..w, j = i + 1
               PROVE  /\ Follows(u[i], u[j])
                      /\ k[j] = IF Ends(u[i]) THEN k[i] + 1 ELSE k[i]
    OBVIOUS
  <2>1. CASE j \in 1..n
    <3>1. i \in 1..n
      BY <2>1
    <3>2. u[i] = s[i] /\ u[j] = s[j] /\ k[i] = m[i] /\ k[j] = m[j]
      BY <1>10, <1>11, <2>1, <3>1
    <3>3. Follows(s[i], s[j]) /\ m[j] = IF Ends(s[i]) THEN m[i] + 1 ELSE m[i]
      BY <1>4, <2>1, <3>1
    <3> QED
      BY <3>2, <3>3
  <2>2. CASE i \in n + 1..w
    <3>1. j \in n + 1..w
      BY <2>2
    <3>2. PICK x \in 1..q, y \in 1..q : x = i - n /\ y = j - n /\ y = x + 1
      BY <1>11, <2>2, <3>1
    <3>3. u[i] = t[x] /\ u[j] = t[y]
      BY <1>11, <2>2, <3>1, <3>2
    <3> QED
      BY <1>6, <1>10, <2>2, <3>1, <3>2, <3>3
  <2>3. CASE i = n /\ j = n + 1
    <3>1. n \in 1..n /\ n + 1 \in n + 1..w /\ n > 0
      BY <2>3
    <3>2. n + 1 - n = 1
      OBVIOUS
    <3>3. u[i] = s[n] /\ u[j] = t[1] /\ k[i] = m[n] /\ k[j] = l + 1
      BY <1>10, <1>11, <2>3, <3>1, <3>2
    <3>4. Ends(s[n]) /\ m[n] = l
      BY <1>3, <3>1
    <3> QED
      BY <1>6, <3>3, <3>4 DEF Follows
  <2> QED
    BY <1>12, <2>1, <2>2, <2>3
<1>15. k[1] = d + 1 /\ begun = Before(u[1])
  <2>1. CASE n > 0
    <3>1. 1 \in 1..n
      BY <2>1
    <3> QED
      BY <1>3, <1>10, <1>11, <2>1, <3>1
  <2>2. CASE n = 0
    <3>1. 1 \in n + 1..w /\ 1 - n = 1
      BY <1>7, <2>2
    <3>2. u[1] = t[1] /\ k[1] = l + 1
      BY <1>10, <1>11, <3>1
    <3> QED
      BY <1>3, <1>6, <2>2, <3>2 DEF Before
  <2> QED
    BY <2>1, <2>2
<1>16. k[w] = l + 1 /\ Ends(u[w])
  <2>1. w \in n + 1..w /\ w - n = q
    BY <1>7
  <2> QED
    BY <1>6, <1>10, <1>11, <2>1
<1>17. Flow(u, k, d, more, begun)
  <2>1. w > 0 /\ w = Len(u) /\ l + 1 = Len(more)
    BY <1>7, <1>8, <1>9
  <2>2. u \in Seq(FrameType) /\ k \in [1..Len(u) -> 1..Len(more)]
    BY <1>8, <1>9, <1>10
  <2>3. \A i \in 1..Len(u) : WellMade(u[i]) /\ u[i].of = more[k[i]]
    BY <1>8, <1>13
  <2>4. \A i, j \in 1..Len(u) : j = i + 1 => /\ Follows(u[i], u[j])
                                             /\ k[j] = IF Ends(u[i]) THEN k[i] + 1 ELSE k[i]
    BY <1>8, <1>14
  <2>5. Len(u) # 0 /\ k[Len(u)] = Len(more) /\ Ends(u[Len(u)])
    BY <1>16, <2>1
  <2> QED
    BY <1>15, <2>2, <2>3, <2>4, <2>5 DEF Flow
<1> QED
  BY <1>17 DEF u, more

-----------------------------------------------------------------------------
(***************************************************************************)
(* Heads and tails.                                                        *)
(***************************************************************************)

LEMMA HeadThenTail ==
  ASSUME NEW S, NEW s \in Seq(S), s # << >>
  PROVE  /\ Head(s) \in S /\ Tail(s) \in Seq(S) /\ Head(s) = s[1]
         /\ s = <<Head(s)>> \o Tail(s)
<1>1. PICK n \in Nat : n = Len(s) /\ n > 0
  BY EmptySeq
<1>2. /\ Head(s) \in S /\ Tail(s) \in Seq(S) /\ Head(s) = s[1] /\ Len(Tail(s)) = n - 1
      /\ \A i \in 1..n - 1 : Tail(s)[i] = s[i + 1]
  BY <1>1, HeadTailProperties
<1> DEFINE h == <<Head(s)>>
           t == Tail(s)
           u == h \o t
<1>3. h \in Seq(S) /\ Len(h) = 1 /\ h[1] = s[1] /\ t \in Seq(S) /\ Len(t) = n - 1
  BY <1>2
<1> HIDE DEF h, t
<1>4. /\ u \in Seq(S) /\ Len(u) = n
      /\ \A i \in 1..n : u[i] = IF i <= 1 THEN h[i] ELSE t[i - 1]
  <2>1. /\ u \in Seq(S) /\ Len(u) = Len(h) + Len(t)
        /\ \A i \in 1..Len(h) + Len(t) : u[i] = IF i <= Len(h) THEN h[i] ELSE t[i - Len(h)]
    BY <1>3, ConcatProperties
  <2>2. Len(h) + Len(t) = n
    BY <1>1, <1>3
  <2> HIDE DEF u
  <2> QED
    BY <1>3, <2>1, <2>2
<1> HIDE DEF u
<1>5. ASSUME NEW i \in 1..n PROVE u[i] = s[i]
  <2>1. CASE i = 1
    BY <1>3, <1>4, <2>1
  <2>2. CASE i > 1
    <3>1. i - 1 \in 1..n - 1 /\ ~(i <= 1) /\ i - 1 + 1 = i
      BY <2>2
    <3> QED
      BY <1>2, <1>4, <3>1 DEF t
  <2> QED
    BY <2>1, <2>2
<1>6. u = s
  BY <1>1, <1>4, <1>5, SeqEqual
<1> QED
  BY <1>2, <1>6 DEF u, h, t

LEMMA TailAfterHead ==
  ASSUME NEW S, NEW h \in S, NEW t \in Seq(S)
  PROVE  LET u == <<h>> \o t IN
         u \in Seq(S) /\ u # << >> /\ u[1] = h /\ Tail(u) = t
<1> DEFINE u == <<h>> \o t
<1>1. PICK n \in Nat : n = Len(t)
  OBVIOUS
<1>2. <<h>> \in Seq(S) /\ Len(<<h>>) = 1 /\ <<h>>[1] = h
  OBVIOUS
<1>3. /\ u \in Seq(S) /\ Len(u) = 1 + n
      /\ \A i \in 1..1 + n : u[i] = IF i <= 1 THEN <<h>>[i] ELSE t[i - 1]
  BY <1>1, <1>2, ConcatProperties
<1> HIDE DEF u
<1>4. u # << >> /\ u[1] = h
  <2>1. 1 \in 1..1 + n
    OBVIOUS
  <2> QED
    BY <1>2, <1>3, <2>1
<1>5. /\ Tail(u) \in Seq(S) /\ Len(Tail(u)) = n
      /\ \A i \in 1..n : Tail(u)[i] = u[i + 1]
  <2>1. Tail(u) \in Seq(S) /\ Len(Tail(u)) = Len(u) - 1
    BY <1>3, <1>4, HeadTailProperties
  <2>2. Len(Tail(u)) = n
    BY <1>3, <2>1
  <2>3. \A i \in 1..Len(Tail(u)) : Tail(u)[i] = u[i + 1]
    BY <1>3, <1>4, HeadTailProperties
  <2> QED
    BY <2>1, <2>2, <2>3
<1>6. \A i \in 1..n : u[i + 1] = t[i]
  <2> SUFFICES ASSUME NEW i \in 1..n PROVE u[i + 1] = t[i]
    OBVIOUS
  <2>1. i + 1 \in 1..1 + n /\ ~(i + 1 <= 1) /\ i + 1 - 1 = i
    OBVIOUS
  <2> QED
    BY <1>3, <2>1
<1>7. Tail(u) = t
  BY <1>1, <1>5, <1>6, SeqEqual
<1> QED
  BY <1>3, <1>4, <1>7 DEF u

\* A frame is sent, or received, from the front of those before it.
LEMMA SendingKeepsFrames ==
  ASSUME NEW S, NEW w \in Seq(S), NEW u \in Seq(S), u # << >>
  PROVE  Append(w, Head(u)) \in Seq(S) /\ Append(w, Head(u)) \o Tail(u) = w \o u
<1>1. /\ Head(u) \in S /\ Tail(u) \in Seq(S) /\ u = <<Head(u)>> \o Tail(u)
  BY HeadThenTail
<1>2. Append(w, Head(u)) = w \o <<Head(u)>> /\ Append(w, Head(u)) \in Seq(S)
  BY <1>1, AppendIsConcat, AppendProperties
<1>3. <<Head(u)>> \in Seq(S)
  BY <1>1
<1>4. (w \o <<Head(u)>>) \o Tail(u) = w \o (<<Head(u)>> \o Tail(u))
  BY <1>1, <1>3, ConcatAssociative
<1> QED
  BY <1>1, <1>2, <1>4

LEMMA ReceivingTakesFirst ==
  ASSUME NEW S, NEW w \in Seq(S), NEW u \in Seq(S), w # << >>
  PROVE  /\ w \o u # << >> /\ (w \o u)[1] = Head(w)
         /\ Tail(w) \in Seq(S) /\ Tail(w) \o u = Tail(w \o u)
<1>1. /\ Head(w) \in S /\ Tail(w) \in Seq(S) /\ w = <<Head(w)>> \o Tail(w)
  BY HeadThenTail
<1>2. <<Head(w)>> \in Seq(S) /\ Tail(w) \o u \in Seq(S)
  BY <1>1, ConcatProperties
<1>3. (<<Head(w)>> \o Tail(w)) \o u = <<Head(w)>> \o (Tail(w) \o u)
  BY <1>1, <1>2, ConcatAssociative
<1>4. w \o u = <<Head(w)>> \o (Tail(w) \o u)
  BY <1>1, <1>3
<1> DEFINE v == <<Head(w)>> \o (Tail(w) \o u)
<1>5. v # << >> /\ v[1] = Head(w) /\ Tail(v) = Tail(w) \o u
  BY <1>1, <1>2, TailAfterHead
<1> QED
  BY <1>1, <1>4, <1>5

-----------------------------------------------------------------------------
(***************************************************************************)
(* The steps.                                                              *)
(***************************************************************************)

FifoStep == Fifo!FifoNext \/ UNCHANGED <<accepted, delivered, lost>>

LEMMA EncryptKeeps ==
  ASSUME ChannelInv, NEW message \in Message, NEW id \in Id, EncryptMessage(message, id)
  PROVE  ChannelInv' /\ FifoStep
<1>1. CASE Size(message) > MaxMessage
  <2>1. /\ ~lost /\ lost' = TRUE /\ UNCHANGED <<accepted, delivered>>
        /\ UNCHANGED <<unsent, wire, incoming, rejected>>
    BY <1>1 DEF EncryptMessage, Connected
  <2> QED
    BY <2>1 DEF ChannelInv, FifoStep, Fifo!FifoNext, Fifo!Lose
<1>2. CASE ~(Size(message) > MaxMessage)
  <2>1. /\ ~lost /\ unsent = << >> /\ Len(accepted) < MaxSent
        /\ accepted' = Append(accepted, message) /\ unsent' = Frames(message, id)
        /\ UNCHANGED <<delivered, lost, wire, incoming, rejected>>
    BY <1>2 DEF EncryptMessage, Connected
  <2>2. Size(message) \in Nat /\ MaxMessage \in Nat
    BY SecureChannelAssumption
  <2>3. WholeMessage(Frames(message, id), message)
    BY <1>2, <2>2, FramesMade
  <2>4. accepted \in Seq(Message) /\ delivered \in Seq(Message) /\ wire \in Seq(FrameType)
    BY DEF ChannelInv
  <2>5. PICK m : Flow(wire \o unsent, m, Len(delivered), accepted, incoming)
    BY DEF ChannelInv
  <2>6. Flow(wire, m, Len(delivered), accepted, incoming)
    <3>1. wire \o << >> = wire
      BY <2>4, ConcatEmptySeq
    <3> QED
      BY <2>1, <2>5, <3>1
  <2>7. \E k : Flow(wire \o Frames(message, id), k, Len(delivered), Append(accepted, message),
                    incoming)
    <3>1. Len(delivered) \in Nat
      BY <2>4
    <3> QED
      BY <2>3, <2>4, <2>6, <3>1, FlowGrows
  <2>8. Frames(message, id) \in Seq(FrameType) /\ Append(accepted, message) \in Seq(Message)
    BY <2>3, <2>4 DEF WholeMessage
  <2>9. ChannelInv'
    BY <2>1, <2>4, <2>7, <2>8 DEF ChannelInv
  <2>10. Fifo!AcceptMessage(message)
    BY <2>1 DEF Fifo!AcceptMessage
  <2> QED
    BY <2>9, <2>10 DEF FifoStep, Fifo!FifoNext
<1> QED
  BY <1>1, <1>2

LEMMA SendKeeps ==
  ASSUME ChannelInv, SendFrame
  PROVE  ChannelInv' /\ FifoStep
<1>1. /\ unsent # << >> /\ wire' = Append(wire, Head(unsent)) /\ unsent' = Tail(unsent)
      /\ UNCHANGED <<accepted, delivered, incoming, lost, rejected>>
  BY DEF SendFrame
<1>2. wire \in Seq(FrameType) /\ unsent \in Seq(FrameType)
  BY DEF ChannelInv
<1>3. wire' \in Seq(FrameType) /\ wire' \o unsent' = wire \o unsent
  BY <1>1, <1>2, SendingKeepsFrames
<1>4. unsent' \in Seq(FrameType)
  BY <1>1, <1>2, HeadTailProperties
<1> QED
  BY <1>1, <1>3, <1>4 DEF ChannelInv, FifoStep

\* What the receiver makes of a frame that is next.
LEMMA FrameTaken ==
  ASSUME NEW f \in FrameType, WellMade(f), incoming = Before(f),
         IF f.cut THEN ReceiveChunk(f) ELSE ReceiveWhole(f)
  PROVE  /\ UNCHANGED rejected
         /\ Ends(f) => delivered' = Append(delivered, f.of) /\ incoming' = NoIncoming
         /\ ~Ends(f) => /\ UNCHANGED delivered
                        /\ incoming' = [id |-> f.id, total |-> f.total, next |-> f.index + 1,
                                        payload |-> (f.index + 1) * ChunkSize]
<1>1. PICK length \in Nat \ {0} : length = Size(f.of)
  <2>1. f.of \in Message
    BY DEF FrameType
  <2> QED
    BY <2>1, SecureChannelAssumption
<1>2. MaxMessage \in Nat /\ length <= MaxMessage
  BY <1>1, SecureChannelAssumption DEF WellMade
<1>3. CASE ~f.cut
  <2>1. f.length = length /\ incoming = NoIncoming /\ Ends(f)
    BY <1>1, <1>3 DEF WellMade, Before, Starts, Ends
  <2>2. ~(f.length > MaxMessage)
    BY <1>2, <2>1
  <2>3. Decoded(f, f.length) /\ UNCHANGED incoming
    BY <1>3, <2>1, <2>2 DEF ReceiveWhole
  <2> QED
    BY <1>1, <2>1, <2>3 DEF Decoded
<1>4. CASE f.cut
  <2> DEFINE done == f.index * ChunkSize
             chunk == Smaller(ChunkSize, length - done)
             payload == Begun(f).payload + f.length
  <2>1. /\ f.total = Chunks(length) /\ f.index \in 0..Chunks(length) - 1
        /\ f.length = chunk /\ Chunks(length) \in Nat \ {0} /\ ChunkSize \in Nat \ {0}
    BY <1>1, <1>4, ChunksCover, ChunkSizeType DEF WellMade
  <2>2. /\ Begun(f).id = f.id /\ Begun(f).total = f.total /\ Begun(f).next = f.index
        /\ Begun(f).payload = done
        /\ Begun(f) = [id |-> f.id, total |-> f.total, next |-> f.index, payload |-> done]
        /\ f.index = 0 <=> incoming = NoIncoming
    <3>1. CASE f.index = 0
      <4>1. incoming = NoIncoming /\ done = 0
        BY <2>1, <3>1 DEF Before, Starts
      <4> HIDE DEF done
      <4>2. Begun(f) = [id |-> f.id, total |-> f.total, next |-> f.index, payload |-> done]
        BY <3>1, <4>1 DEF Begun
      <4> QED
        BY <3>1, <4>1, <4>2
    <3>2. CASE f.index # 0
      <4> HIDE DEF done
      <4>1. incoming = [id |-> f.id, total |-> f.total, next |-> f.index, payload |-> done]
        BY <1>4, <3>2 DEF Before, Starts, done
      <4>2. incoming.next # 0
        BY <3>2, <4>1
      <4>3. NoIncoming.next = 0
        BY DEF NoIncoming
      <4>4. Begun(f) = incoming
        BY <3>2 DEF Begun
      <4> QED
        BY <3>2, <4>1, <4>2, <4>3, <4>4
    <3> QED
      BY <3>1, <3>2
  <2>3. InSequence(f)
    BY <2>1, <2>2 DEF InSequence
  <2>4. ReceiveChunk(f)
    BY <1>4
  <2>5. /\ f.index + 1 = Chunks(length) => payload = length
        /\ f.index + 1 # Chunks(length) => /\ payload = (f.index + 1) * ChunkSize
                                           /\ payload <= length
    <3>1. /\ f.index + 1 = Chunks(length) => done + chunk = length
          /\ f.index + 1 # Chunks(length) => /\ done + chunk = (f.index + 1) * ChunkSize
                                             /\ (f.index + 1) * ChunkSize <= length
      BY <2>1, ChunkEnds
    <3>2. payload = done + chunk
      BY <2>1, <2>2
    <3> HIDE DEF payload, done, chunk
    <3> QED
      BY <3>1, <3>2
  <2> HIDE DEF payload
  <2>6. payload <= length
    BY <2>5
  <2>7. payload \in Nat
    <3>1. (f.index + 1) * ChunkSize \in Nat
      BY <2>1
    <3> QED
      BY <2>5, <3>1
  <2>8. ~(payload > MaxMessage)
    BY <1>2, <2>6, <2>7
  <2>9. IF f.index + 1 # f.total
        THEN /\ incoming' = [Begun(f) EXCEPT !.next = @ + 1, !.payload = payload]
             /\ UNCHANGED <<delivered, rejected>>
        ELSE incoming' = NoIncoming /\ Decoded(f, payload)
    BY <2>3, <2>4, <2>8 DEF ReceiveChunk, payload
  <2>10. CASE f.index + 1 = f.total
    <3>1. payload = length
      BY <2>1, <2>5, <2>10
    <3> QED
      BY <1>1, <2>9, <2>10, <3>1 DEF Decoded, Ends
  <2>11. CASE f.index + 1 # f.total
    <3>1. payload = (f.index + 1) * ChunkSize
      BY <2>1, <2>5, <2>11
    <3>2. incoming' = [Begun(f) EXCEPT !.next = @ + 1, !.payload = payload]
      BY <2>9, <2>11
    <3> HIDE DEF done
    <3>3. incoming' = [id |-> f.id, total |-> f.total, next |-> f.index + 1, payload |-> payload]
      BY <2>2, <3>2
    <3> QED
      BY <1>4, <2>9, <2>11, <3>1, <3>3 DEF Ends
  <2> QED
    BY <2>10, <2>11
<1> QED
  BY <1>3, <1>4

LEMMA DecryptKeeps ==
  ASSUME ChannelInv, DecryptFrame
  PROVE  ChannelInv' /\ FifoStep
<1>1. /\ ~lost /\ wire # << >> /\ wire' = Tail(wire)
      /\ IF Encrypted(Head(wire)) > MaxFrame THEN Reject
         ELSE IF Head(wire).cut THEN ReceiveChunk(Head(wire)) ELSE ReceiveWhole(Head(wire))
      /\ UNCHANGED <<accepted, unsent, lost>>
  BY DEF DecryptFrame, Connected
<1>2. /\ wire \in Seq(FrameType) /\ unsent \in Seq(FrameType)
      /\ accepted \in Seq(Message) /\ delivered \in Seq(Message) /\ ~rejected
  BY DEF ChannelInv
<1> DEFINE s == wire \o unsent
           f == Head(wire)
           d == Len(delivered)
<1>3. /\ s # << >> /\ s[1] = f
      /\ Tail(wire) \in Seq(FrameType) /\ Tail(wire) \o unsent = Tail(s)
  BY <1>1, <1>2, ReceivingTakesFirst
<1>4. PICK m : Flow(s, m, d, accepted, incoming)
  BY DEF ChannelInv
<1>5. d \in Nat
  BY <1>2
<1> HIDE DEF s, f, d
<1>6. /\ d < Len(accepted) /\ f.of = accepted[d + 1]
      /\ f \in FrameType /\ WellMade(f) /\ incoming = Before(f)
  BY <1>2, <1>3, <1>4, <1>5, FlowHead
<1>7. /\ UNCHANGED rejected
      /\ Ends(f) => delivered' = Append(delivered, f.of) /\ incoming' = NoIncoming
      /\ ~Ends(f) => /\ UNCHANGED delivered
                     /\ incoming' = [id |-> f.id, total |-> f.total, next |-> f.index + 1,
                                     payload |-> (f.index + 1) * ChunkSize]
  <2>1. ~(Encrypted(f) > MaxFrame)
    <3>1. Encrypted(f) <= MaxFrame
      BY <1>6 DEF WellMade
    <3>2. Encrypted(f) \in Int /\ MaxFrame \in Int
      <4>1. f.length \in Int /\ {Header, Tag, MaxPlain} \subseteq Nat
        BY <1>6, SecureChannelAssumption DEF FrameType
      <4> QED
        BY <4>1 DEF Encrypted, MaxFrame
    <3> QED
      BY <3>1, <3>2
  <2>2. IF f.cut THEN ReceiveChunk(f) ELSE ReceiveWhole(f)
    BY <1>1, <2>1 DEF f
  <2> QED
    BY <1>6, <2>2, FrameTaken
<1>8. CASE Ends(f)
  <2>1. \E k : Flow(Tail(s), k, d + 1, accepted, NoIncoming)
    BY <1>2, <1>3, <1>4, <1>5, <1>8, FlowTail
  <2>2. f.of \in Message
    BY <1>6 DEF FrameType
  <2>3. delivered' \in Seq(Message) /\ Len(delivered') = d + 1
    <3>1. delivered' = Append(delivered, f.of)
      BY <1>7, <1>8
    <3>2. /\ Append(delivered, f.of) \in Seq(Message)
          /\ Len(Append(delivered, f.of)) = Len(delivered) + 1
      BY <1>2, <2>2, AppendProperties
    <3> QED
      BY <3>1, <3>2 DEF d
  <2>4. ChannelInv'
    BY <1>1, <1>2, <1>3, <1>7, <1>8, <2>1, <2>3 DEF ChannelInv
  <2>5. Fifo!Deliver
    BY <1>1, <1>6, <1>7, <1>8 DEF Fifo!Deliver, d
  <2> QED
    BY <2>4, <2>5 DEF FifoStep, Fifo!FifoNext
<1>9. CASE ~Ends(f)
  <2>1. \E k : Flow(Tail(s), k, d, accepted, incoming')
    BY <1>2, <1>3, <1>4, <1>5, <1>7, <1>9, FlowTail
  <2>2. ChannelInv'
    BY <1>1, <1>2, <1>3, <1>7, <1>9, <2>1 DEF ChannelInv, d
  <2> QED
    BY <1>1, <1>7, <1>9, <2>2 DEF FifoStep
<1> QED
  BY <1>8, <1>9

LEMMA ChannelStarts ==
  ASSUME ChannelInit
  PROVE  ChannelInv
<1>1. /\ accepted = << >> /\ delivered = << >> /\ unsent = << >> /\ wire = << >>
      /\ incoming = NoIncoming /\ ~rejected
  BY DEF ChannelInit
<1>2. \A S : << >> \in Seq(S) /\ Len(<< >>) = 0
  OBVIOUS
<1>3. << >> \o << >> = << >>
  BY <1>2, ConcatEmptySeq
<1>4. << >> \in [1..0 -> 1..0]
  OBVIOUS
<1>5. Flow(<< >>, << >>, 0, << >>, NoIncoming)
  <2>1. \A i : i \notin 1..0
    OBVIOUS
  <2> QED
    BY <1>2, <1>4, <2>1 DEF Flow
<1> QED
  BY <1>1, <1>2, <1>3, <1>5 DEF ChannelInv

LEMMA ChannelStep ==
  ASSUME ChannelInv, [ChannelNext]_channelVars
  PROVE  ChannelInv' /\ FifoStep
<1>1. CASE Break
  BY <1>1 DEF Break, Connected, ChannelInv, FifoStep, Fifo!FifoNext, Fifo!Lose
<1>2. CASE UNCHANGED channelVars
  BY <1>2 DEF channelVars, ChannelInv, FifoStep
<1> QED
  BY <1>1, <1>2, EncryptKeeps, SendKeeps, DecryptKeeps DEF ChannelNext

\* However messages are cut, they arrive whole, once and in their order: every step of
\* the channel is one of a queue of messages, or leaves the queue alone (encrypt_message,
\* decrypt_frame).
THEOREM ChannelIsQueue ==
  ChannelInit /\ [][ChannelNext]_channelVars
     => Fifo!FifoInit /\ [][Fifo!FifoNext]_(Fifo!fifoVars)
<1>1. ChannelInit => ChannelInv /\ Fifo!FifoInit
  BY ChannelStarts DEF ChannelInit, Fifo!FifoInit
<1>2. ChannelInv /\ [ChannelNext]_channelVars => ChannelInv'
  BY ChannelStep
<1>3. ChannelInv /\ [ChannelNext]_channelVars => [Fifo!FifoNext]_(Fifo!fifoVars)
  BY ChannelStep DEF FifoStep, Fifo!fifoVars
<1> QED
  BY <1>1, <1>2, <1>3, PTL

\* No frame that the one side makes is refused by the other: none is too large when it
\* is encrypted, none out of its place, and no message put together of them is too long
\* or is not what was sent (decrypt_frame, whose first check is that of the frame's size).
THEOREM NothingIsRefused ==
  ChannelInit /\ [][ChannelNext]_channelVars => []~rejected
<1>1. ChannelInit => ChannelInv
  BY ChannelStarts
<1>2. ChannelInv /\ [ChannelNext]_channelVars => ChannelInv'
  BY ChannelStep
<1>3. ChannelInv => ~rejected
  BY DEF ChannelInv
<1> QED
  BY <1>1, <1>2, <1>3, PTL
================================================================================
