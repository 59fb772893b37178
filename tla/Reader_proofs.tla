----------------------------- MODULE Reader_proofs -----------------------------
(***************************************************************************)
(* Proofs about Reader: the bytes that are on their way are those of the   *)
(* events due, what is dispatched is one frame without a gap up to its     *)
(* end, and no frame is lost that the queue can hold; for any size of an   *)
(* event, the buffer, the queue and the kernel's buffer, and any frames.   *)
(***************************************************************************)
EXTENDS Reader, TLAPS

(* Places of bytes: events and what is left *)

\* A product of positive numbers is at least its factor.
LEMMA AtLeastOnce ==
  ASSUME NEW d \in Nat \ {0}, NEW n \in Nat \ {0}
  PROVE  d * n >= d
<1>1. d * (n - 1) >= 0
  BY SMT
<1> QED
  BY <1>1, SMT

\* Quotient and rest are determined by d * q + r.
LEMMA OneQuotient ==
  ASSUME NEW d \in Nat \ {0}, NEW q \in Int, NEW p \in Int,
         NEW r \in 0..(d - 1), NEW t \in 0..(d - 1),
         d * q + r = d * p + t
  PROVE  q = p /\ r = t
<1>1. ~(q < p)
  <2> SUFFICES ASSUME q < p
               PROVE  FALSE
    OBVIOUS
  <2>1. d * (p - q) >= d
    BY AtLeastOnce
  <2>2. d * (p - q) = d * p - d * q
    BY SMT
  <2> QED
    BY <2>1, <2>2
<1>2. ~(p < q)
  <2> SUFFICES ASSUME p < q
               PROVE  FALSE
    OBVIOUS
  <2>1. d * (q - p) >= d
    BY AtLeastOnce
  <2>2. d * (q - p) = d * q - d * p
    BY SMT
  <2> QED
    BY <2>1, <2>2
<1> QED
  BY <1>1, <1>2

\* n events further on the place in the event is the same.
LEMMA Further ==
  ASSUME NEW d \in Nat \ {0}, NEW n \in Nat, NEW x \in Nat
  PROVE  /\ (x + d * n) \div d = (x \div d) + n
         /\ (x + d * n) % d = x % d
<1> DEFINE q == x \div d
           r == x % d
           y == x + d * n
           p == y \div d
           t == y % d
<1>1. x = d * q + r /\ q \in Int /\ r \in 0..(d - 1)
  BY SMT
<1>2. y \in Nat
  BY SMT
<1>3. y = d * p + t /\ p \in Int /\ t \in 0..(d - 1)
  BY <1>2, SMT
<1>4. d * (q + n) = d * q + d * n
  BY <1>1, SMT
<1>5. d * (q + n) + r = d * p + t
  BY <1>1, <1>3, <1>4, SMT
<1>6. q + n = p /\ r = t
  BY <1>1, <1>3, <1>5, OneQuotient
<1> QED
  BY <1>6

\* A byte of the first n events is in one of them.
LEMMA Within ==
  ASSUME NEW d \in Nat \ {0}, NEW n \in Nat, NEW x \in Nat, x < d * n
  PROVE  /\ x \div d \in 0..(n - 1)
         /\ x % d \in 0..(d - 1)
<1> DEFINE q == x \div d
           r == x % d
<1>1. x = d * q + r /\ q \in Nat /\ r \in 0..(d - 1)
  BY SMT
<1>2. ~(q >= n)
  <2> SUFFICES ASSUME q >= n
               PROVE  FALSE
    OBVIOUS
  <2>1. d * (q - n) >= 0
    BY <1>1, SMT
  <2>2. d * (q - n) = d * q - d * n
    BY <1>1, SMT
  <2> QED
    BY <1>1, <2>1, <2>2, SMT
<1> QED
  BY <1>1, <1>2

-----------------------------------------------------------------------------
(* Sequences, taken apart and put together *)

LEMMA ConcatOf ==
  ASSUME NEW T, NEW s \in Seq(T), NEW r \in Seq(T)
  PROVE  /\ s \o r \in Seq(T) /\ Len(s \o r) = Len(s) + Len(r)
         /\ \A i \in 1..Len(s) : (s \o r)[i] = s[i]
         /\ \A i \in 1..Len(r) : (s \o r)[Len(s) + i] = r[i]
  OBVIOUS

\* Two sequences with the same items are the same.
LEMMA SameItems ==
  ASSUME NEW T, NEW s \in Seq(T), NEW r \in Seq(T), Len(s) = Len(r),
         \A i \in 1..Len(s) : s[i] = r[i]
  PROVE  s = r
  OBVIOUS

LEMMA PartOf ==
  ASSUME NEW T, NEW s \in Seq(T), NEW n \in 0..Len(s)
  PROVE  /\ SubSeq(s, 1, n) \in Seq(T) /\ Len(SubSeq(s, 1, n)) = n
         /\ \A i \in 1..n : SubSeq(s, 1, n)[i] = s[i]
         /\ SubSeq(s, n + 1, Len(s)) \in Seq(T)
         /\ Len(SubSeq(s, n + 1, Len(s))) = Len(s) - n
         /\ \A i \in 1..(Len(s) - n) : SubSeq(s, n + 1, Len(s))[i] = s[n + i]
  OBVIOUS

\* Two parts that make a whole.
LEMMA PartsJoin ==
  ASSUME NEW T, NEW s \in Seq(T), NEW n \in 0..Len(s)
  PROVE  SubSeq(s, 1, n) \o SubSeq(s, n + 1, Len(s)) = s
<1> DEFINE a == SubSeq(s, 1, n)
           b == SubSeq(s, n + 1, Len(s))
<1>1. /\ a \in Seq(T) /\ Len(a) = n /\ \A i \in 1..n : a[i] = s[i]
      /\ b \in Seq(T) /\ Len(b) = Len(s) - n
      /\ \A i \in 1..(Len(s) - n) : b[i] = s[n + i]
  BY PartOf
<1> HIDE DEF a, b
<1>2. /\ a \o b \in Seq(T) /\ Len(a \o b) = Len(a) + Len(b)
      /\ \A i \in 1..Len(a) : (a \o b)[i] = a[i]
      /\ \A i \in 1..Len(b) : (a \o b)[Len(a) + i] = b[i]
  <2>1. a \in Seq(T) /\ b \in Seq(T)
    BY <1>1
  <2> QED
    BY <2>1, ConcatOf
<1>3. ASSUME NEW i \in 1..Len(s)
      PROVE  (a \o b)[i] = s[i]
  <2>1. CASE i <= n
    BY <1>1, <1>2, <2>1
  <2>2. CASE ~(i <= n)
    <3> DEFINE j == i - n
    <3>1. j \in 1..Len(b) /\ i = Len(a) + j /\ i = n + j
      BY <1>1, <2>2
    <3> HIDE DEF j
    <3>2. (a \o b)[Len(a) + j] = b[j]
      BY <1>2, <3>1
    <3>3. b[j] = s[n + j]
      BY <1>1, <3>1
    <3> QED
      BY <3>1, <3>2, <3>3
  <2> QED
    BY <2>1, <2>2
<1> DEFINE w == a \o b
<1>4. w \in Seq(T) /\ Len(w) = Len(s) /\ \A i \in 1..Len(w) : w[i] = s[i]
  BY <1>1, <1>2, <1>3
<1> HIDE DEF w
<1>5. w = s
  BY <1>4, SameItems
<1> QED
  BY <1>5 DEF a, b, w

LEMMA Associative ==
  ASSUME NEW T, NEW s \in Seq(T), NEW r \in Seq(T), NEW u \in Seq(T)
  PROVE  (s \o r) \o u = s \o (r \o u)
  OBVIOUS

\* What is behind the first of two sequences is the second.
LEMMA CutOff ==
  ASSUME NEW T, NEW s \in Seq(T), NEW r \in Seq(T)
  PROVE  SubSeq(s \o r, Len(s) + 1, Len(s \o r)) = r
<1> DEFINE w == s \o r
           b == SubSeq(w, Len(s) + 1, Len(w))
<1>1. /\ w \in Seq(T) /\ Len(w) = Len(s) + Len(r)
      /\ \A i \in 1..Len(r) : w[Len(s) + i] = r[i]
  BY ConcatOf
<1> HIDE DEF w
<1>2. /\ b \in Seq(T) /\ Len(b) = Len(r)
      /\ \A i \in 1..Len(r) : b[i] = w[Len(s) + i]
  BY <1>1, PartOf
<1> HIDE DEF b
<1>3. b = r
  BY <1>1, <1>2, SameItems
<1> QED
  BY <1>3 DEF b, w

-----------------------------------------------------------------------------
(* The bytes of events *)

LEMMA SizesAre == EventSize \in Nat \ {0} /\ BufferSize \in Nat /\ MaxEvents \in Nat \ {0}
  BY ReaderAssumption

LEMMA BytesAre ==
  ASSUME NEW T, NEW s \in Seq(T)
  PROVE  /\ BytesOf(s) \in Seq(T \X Nat)
         /\ Len(BytesOf(s)) = EventSize * Len(s)
         /\ \A k \in 1..(EventSize * Len(s)) : BytesOf(s)[k] = ByteOf(s, k)
<1>1. EventSize * Len(s) \in Nat
  BY SizesAre, SMT
<1>2. ASSUME NEW k \in 1..(EventSize * Len(s))
      PROVE  ByteOf(s, k) \in T \X Nat
  <2> DEFINE x == k - 1
  <2>1. x \in Nat /\ x < EventSize * Len(s) /\ Len(s) \in Nat
    BY <1>1
  <2> HIDE DEF x
  <2>2. /\ x \div EventSize \in 0..(Len(s) - 1)
        /\ x % EventSize \in 0..(EventSize - 1)
    BY <2>1, SizesAre, Within
  <2>3. (x \div EventSize) + 1 \in 1..Len(s) /\ (x % EventSize) + 1 \in Nat
    BY <2>1, <2>2, SizesAre
  <2> QED
    BY <2>3 DEF ByteOf, x
<1>3. BytesOf(s) \in [1..(EventSize * Len(s)) -> T \X Nat]
  BY <1>2 DEF BytesOf
<1> QED
  BY <1>1, <1>3 DEF BytesOf

\* Events one after the other are their bytes one after the other.
LEMMA BytesConcat ==
  ASSUME NEW T, NEW s \in Seq(T), NEW r \in Seq(T)
  PROVE  BytesOf(s \o r) = BytesOf(s) \o BytesOf(r)
<1> DEFINE w == s \o r
           n == EventSize * Len(s)
           m == EventSize * Len(r)
<1>1. /\ w \in Seq(T) /\ Len(w) = Len(s) + Len(r)
      /\ \A i \in 1..Len(s) : w[i] = s[i]
      /\ \A i \in 1..Len(r) : w[Len(s) + i] = r[i]
  BY ConcatOf
<1> HIDE DEF w
<1>2. n \in Nat /\ m \in Nat /\ EventSize * Len(w) = n + m
  BY <1>1, SizesAre, SMT
<1>3. /\ BytesOf(s) \in Seq(T \X Nat) /\ Len(BytesOf(s)) = n
      /\ \A k \in 1..n : BytesOf(s)[k] = ByteOf(s, k)
  BY BytesAre
<1>4. /\ BytesOf(r) \in Seq(T \X Nat) /\ Len(BytesOf(r)) = m
      /\ \A k \in 1..m : BytesOf(r)[k] = ByteOf(r, k)
  BY BytesAre
<1>5. /\ BytesOf(w) \in Seq(T \X Nat) /\ Len(BytesOf(w)) = n + m
      /\ \A k \in 1..(n + m) : BytesOf(w)[k] = ByteOf(w, k)
  BY <1>1, <1>2, BytesAre
<1> DEFINE bs == BytesOf(s)
           br == BytesOf(r)
           c == bs \o br
<1> HIDE DEF bs, br, n, m
<1>6. /\ c \in Seq(T \X Nat) /\ Len(c) = n + m
      /\ \A k \in 1..n : c[k] = bs[k]
      /\ \A k \in 1..m : c[n + k] = br[k]
  <2>1. bs \in Seq(T \X Nat) /\ br \in Seq(T \X Nat) /\ Len(bs) = n /\ Len(br) = m
    BY <1>3, <1>4 DEF bs, br
  <2> DEFINE B == T \X Nat
  <2>2. bs \in Seq(B) /\ br \in Seq(B)
    BY <2>1
  <2> HIDE DEF B
  <2>3. /\ c \in Seq(B) /\ Len(c) = Len(bs) + Len(br)
        /\ \A k \in 1..Len(bs) : c[k] = bs[k]
        /\ \A k \in 1..Len(br) : c[Len(bs) + k] = br[k]
    BY <2>2, ConcatOf
  <2> QED
    BY <2>1, <2>3 DEF B
<1> HIDE DEF c
<1> USE DEF bs, br, n, m
<1>7. ASSUME NEW k \in 1..n
      PROVE  ByteOf(w, k) = ByteOf(s, k)
  <2> DEFINE x == k - 1
  <2>1. x \in Nat /\ x < EventSize * Len(s) /\ Len(s) \in Nat
    BY <1>2
  <2> HIDE DEF x
  <2>2. x \div EventSize \in 0..(Len(s) - 1)
    BY <2>1, SizesAre, Within
  <2>3. (x \div EventSize) + 1 \in 1..Len(s)
    BY <2>1, <2>2
  <2>4. w[(x \div EventSize) + 1] = s[(x \div EventSize) + 1]
    BY <1>1, <2>3
  <2> QED
    BY <2>4 DEF ByteOf, x
<1>8. ASSUME NEW k \in 1..m
      PROVE  ByteOf(w, n + k) = ByteOf(r, k)
  <2> DEFINE x == k - 1
             y == (n + k) - 1
  <2>1. /\ x \in Nat /\ x < EventSize * Len(r) /\ Len(r) \in Nat /\ Len(s) \in Nat
        /\ y = x + EventSize * Len(s)
    BY <1>2
  <2> HIDE DEF x, y
  <2>2. x \div EventSize \in 0..(Len(r) - 1)
    BY <2>1, SizesAre, Within
  <2>3. /\ (x + EventSize * Len(s)) \div EventSize = (x \div EventSize) + Len(s)
        /\ (x + EventSize * Len(s)) % EventSize = x % EventSize
    BY <2>1, SizesAre, Further
  <2>4. y \div EventSize = (x \div EventSize) + Len(s) /\ y % EventSize = x % EventSize
    BY <2>1, <2>3
  <2> DEFINE i == (x \div EventSize) + 1
  <2>5. i \in 1..Len(r) /\ (y \div EventSize) + 1 = Len(s) + i
    BY <2>1, <2>2, <2>4
  <2>6. w[(y \div EventSize) + 1] = r[i]
    BY <1>1, <2>5
  <2> QED
    BY <2>4, <2>6 DEF ByteOf, x, y
<1> HIDE DEF n, m
<1>9. ASSUME NEW k \in 1..(n + m)
      PROVE  BytesOf(w)[k] = c[k]
  <2>1. CASE k <= n
    <3>1. k \in 1..n
      BY <2>1, <1>2
    <3> QED
      BY <3>1, <1>3, <1>5, <1>6, <1>7
  <2>2. CASE ~(k <= n)
    <3> DEFINE j == k - n
    <3>1. j \in 1..m /\ k = n + j
      BY <1>2, <2>2
    <3> HIDE DEF j
    <3>2. BytesOf(w)[n + j] = ByteOf(w, n + j) /\ c[n + j] = ByteOf(r, j)
      BY <3>1, <1>4, <1>5, <1>6
    <3> QED
      BY <3>1, <3>2, <1>8
  <2> QED
    BY <2>1, <2>2
<1>10. BytesOf(w) = c
  BY <1>5, <1>6, <1>9, <1>2, SameItems
<1> QED
  BY <1>10 DEF w, c

\* The first event, its bytes, and those of the events behind it.
LEMMA BytesTail ==
  ASSUME NEW T, NEW s \in Seq(T), s # <<>>
  PROVE  /\ Tail(s) \in Seq(T) /\ Len(Tail(s)) = Len(s) - 1
         /\ BytesOf(s)[1][1] = s[1]
         /\ SubSeq(BytesOf(s), EventSize + 1, Len(BytesOf(s))) = BytesOf(Tail(s))
<1> DEFINE h == <<s[1]>>
           t == Tail(s)
<1>1. /\ h \in Seq(T) /\ Len(h) = 1
      /\ t \in Seq(T) /\ Len(t) = Len(s) - 1
      /\ s = h \o t
  OBVIOUS
<1>2. Len(s) >= 1
  OBVIOUS
<1>3. /\ BytesOf(h) \in Seq(T \X Nat) /\ Len(BytesOf(h)) = EventSize
  <2>1. EventSize * 1 = EventSize
    BY SizesAre
  <2> HIDE DEF h
  <2> QED
    BY <1>1, <2>1, BytesAre
<1>4. BytesOf(t) \in Seq(T \X Nat)
  BY <1>1, BytesAre
<1> HIDE DEF h, t
<1>5. BytesOf(s) = BytesOf(h) \o BytesOf(t)
  BY <1>1, BytesConcat
<1>6. SubSeq(BytesOf(s), EventSize + 1, Len(BytesOf(s))) = BytesOf(t)
  BY <1>3, <1>4, <1>5, CutOff
<1>7. BytesOf(s)[1][1] = s[1]
  <2>1. EventSize * Len(s) >= EventSize
    BY <1>2, SizesAre, AtLeastOnce
  <2>2. 1 \in 1..(EventSize * Len(s))
    BY <2>1, SizesAre
  <2>3. BytesOf(s)[1] = ByteOf(s, 1)
    BY <2>2, BytesAre
  <2>4. (1 - 1) \div EventSize = 0
    BY SizesAre, SMT
  <2> QED
    BY <2>3, <2>4 DEF ByteOf
<1> QED
  BY <1>1, <1>6, <1>7 DEF t

-----------------------------------------------------------------------------
(* The inductive invariant *)

EventType == [frame : Nat, break : Nat, kind : ReadKinds, index : Nat, size : Nat]
ByteType == EventType \X Nat

\* The sequences hold events and their bytes; the queue and the buffer keep to their
\* sizes; between two reads less than an event stays in the buffer, at its front.
ReadTypeOK ==
  /\ pipe \in Seq(ByteType)
  /\ buffer \in Seq(ByteType) /\ Len(buffer) <= BufferSize
  /\ pos \in 0..Len(buffer)
  /\ reading \in BOOLEAN
  /\ ~reading => pos = 0 /\ Len(buffer) < EventSize
  /\ queue \in Seq(EventType) /\ Len(queue) <= MaxEvents
  /\ dispatched \in Seq(EventType)
  /\ due \in Seq(EventType)
  /\ expected \subseteq Nat
  /\ reports \in Nat /\ breaks \in Nat
  /\ leftover \in BOOLEAN

\* g is the next event of the frame of e.
Continues(e, g) == /\ g.frame = e.frame /\ g.size = e.size /\ g.break = e.break
                   /\ g.index = e.index + 1

\* The events due are of frames in order, from their place on to their end.
DueOrdered ==
  \A i \in 1..Len(due) :
    /\ due[i].break = breaks
    /\ due[i].frame < reports
    /\ IF due[i].kind = "syn" THEN due[i].index = due[i].size
       ELSE /\ due[i].index < due[i].size
            /\ i < Len(due) /\ Continues(due[i], due[i + 1])

\* What is queued since the kernel last lost events is of one frame and without a gap,
\* and the first event that is due goes on with it.
QueueOrdered ==
  /\ \A i \in 1..Len(queue) :
       /\ queue[i].kind \notin {"syn", "zero"}
       /\ queue[i].break <= EndOf(queue).break
       /\ queue[i].break = EndOf(queue).break =>
            /\ queue[i].frame = EndOf(queue).frame
            /\ queue[i].index = EndOf(queue).index - Len(queue) + i
  /\ queue # <<>> =>
       /\ EndOf(queue).break <= breaks
       /\ EndOf(queue).break = breaks =>
            /\ due # <<>> /\ Continues(EndOf(queue), due[1])
            /\ EndOf(queue).index < EndOf(queue).size
  /\ due = <<>> => queue = <<>> \/ leftover

\* A whole frame n of data lies in the stream s of events from its i-th event on,
\* and ends behind its first q events.
FrameAt(n, s, q, i) ==
  /\ i + s[i].size - 1 <= Len(s) /\ i + s[i].size - 1 > q
  /\ s[i].size <= MaxEvents
  /\ \A j \in 1..s[i].size :
       /\ s[i + j - 1].frame = n /\ s[i + j - 1].index = j
       /\ s[i + j - 1].size = s[i].size
       /\ s[i + j - 1].kind # "zero"
  /\ \E j \in 1..s[i].size : s[i + j - 1].kind = "data"
  /\ i = 1 \/ s[i - 1].kind = "syn"

\* A frame that is expected is all there, in the queue and among the events due, and
\* the queue is empty when its first event is parsed.
Awaited ==
  \A n \in expected : \E i \in 1..Len(queue \o due) :
    FrameAt(n, queue \o due, Len(queue), i)

\* What holds of the frames in every state.
FramesKept == DueOrdered /\ QueueOrdered /\ FramesWhole /\ Awaited
ReadInv == ReadTypeOK /\ BytesKept /\ FramesKept

LEMMA InitKept ==
  ReadInit => ReadInv
<1> SUFFICES ASSUME ReadInit
             PROVE  ReadInv
  OBVIOUS
<1> USE DEF ReadInit
<1>1. ReadTypeOK
  <2>1. \A T : <<>> \in Seq(T)
    OBVIOUS
  <2>2. Len(<<>>) = 0 /\ 0 \in 0..0
    OBVIOUS
  <2>3. 0 <= BufferSize /\ 0 < EventSize /\ 0 <= MaxEvents
    BY SizesAre
  <2> QED
    BY <2>1, <2>2, <2>3 DEF ReadTypeOK
<1>2. BytesKept
  <2> DEFINE B == EventType \X Nat
  <2>1. <<>> \in Seq(EventType) /\ Len(<<>>) = 0 /\ EventSize * 0 = 0
    BY SizesAre
  <2>2. BytesOf(<<>>) \in Seq(B) /\ Len(BytesOf(<<>>)) = 0
    BY <2>1, BytesAre
  <2> HIDE DEF B
  <2>3. BytesOf(<<>>) = <<>>
    BY <2>2
  <2>4. SubSeq(<<>>, 0 + 1, Len(<<>>)) \o <<>> = <<>>
    OBVIOUS
  <2> QED
    BY <2>3, <2>4 DEF BytesKept
<1>3. DueOrdered /\ QueueOrdered /\ FramesWhole /\ Awaited
  BY DEF DueOrdered, QueueOrdered, FramesWhole, Awaited
<1> QED
  BY <1>1, <1>2, <1>3 DEF ReadInv, FramesKept

-----------------------------------------------------------------------------
(* Reading and moving: the frames stay as they are *)

LEMMA FramesStay ==
  FramesKept /\ UNCHANGED <<queue, dispatched, due, expected, reports, breaks, leftover>>
  => FramesKept'
<1> SUFFICES ASSUME FramesKept, queue' = queue, dispatched' = dispatched, due' = due,
                    expected' = expected, reports' = reports, breaks' = breaks,
                    leftover' = leftover
             PROVE  FramesKept'
  OBVIOUS
<1>1. DueOrdered'
  BY DEF FramesKept, DueOrdered, Continues
<1>2. QueueOrdered'
  BY DEF FramesKept, QueueOrdered, Continues, EndOf
<1>3. FramesWhole'
  BY DEF FramesKept, FramesWhole, EndOf
<1>4. Awaited'
  <2> SUFFICES ASSUME NEW n \in expected
               PROVE  \E i \in 1..Len(queue' \o due') :
                        FrameAt(n, queue' \o due', Len(queue'), i)
    BY DEF Awaited, FrameAt
  <2> QED
    BY DEF FramesKept, Awaited
<1> QED
  BY <1>1, <1>2, <1>3, <1>4 DEF FramesKept

LEMMA FillKeeps ==
  ASSUME ReadInv, NEW n \in 1..BufferSize, Fill(n)
  PROVE  ReadInv'
<1> USE DEF ReadInv
<1>1. /\ pipe \in Seq(ByteType) /\ buffer \in Seq(ByteType) /\ pos = 0
      /\ n \in 0..Len(pipe) /\ n <= BufferSize - Len(buffer)
  BY SizesAre DEF ReadTypeOK, Fill
<1> DEFINE a == SubSeq(pipe, 1, n)
           b == SubSeq(pipe, n + 1, Len(pipe))
<1>2. /\ a \in Seq(ByteType) /\ Len(a) = n /\ b \in Seq(ByteType)
  BY <1>1, PartOf
<1>3. a \o b = pipe
  BY <1>1, PartsJoin
<1>4. buffer' = buffer \o a /\ pipe' = b /\ pos' = 0 /\ reading' = TRUE
  BY DEF Fill
<1> HIDE DEF a, b
<1>5. buffer' \in Seq(ByteType) /\ Len(buffer') = Len(buffer) + n
  BY <1>1, <1>2, <1>4, ConcatOf
<1>6. ReadTypeOK'
  <2>1. Len(buffer') <= BufferSize /\ pos' \in 0..Len(buffer')
    BY <1>1, <1>4, <1>5, SizesAre
  <2>2. UNCHANGED <<queue, dispatched, due, expected, reports, breaks, leftover>>
    BY DEF Fill
  <2> QED
    BY <1>2, <1>4, <1>5, <2>1, <2>2 DEF ReadTypeOK
<1>7. BytesKept'
  <2>1. SubSeq(buffer', 1, Len(buffer')) = buffer'
    BY <1>5
  <2>2. SubSeq(buffer, 1, Len(buffer)) = buffer
    BY <1>1
  <2>3. (buffer \o a) \o b = buffer \o (a \o b)
    BY <1>1, <1>2, Associative
  <2>4. buffer \o pipe = BytesOf(due)
    <3>1. pos = 0 /\ 0 + 1 = 1
      BY <1>1
    <3>2. SubSeq(buffer, 0 + 1, Len(buffer)) \o pipe = BytesOf(due)
      BY <3>1 DEF BytesKept
    <3> QED
      BY <2>2, <3>1, <3>2
  <2>5. due' = due
    BY DEF Fill
  <2>6. BytesOf(due)' = BytesOf(due)
    BY <2>5 DEF BytesOf, ByteOf
  <2> QED
    BY <1>3, <1>4, <2>1, <2>3, <2>4, <2>6 DEF BytesKept
<1> QED
  BY <1>6, <1>7, FramesStay DEF Fill

LEMMA MoveKeeps ==
  ASSUME ReadInv, Move
  PROVE  ReadInv'
<1> USE DEF ReadInv
<1>1. buffer \in Seq(ByteType) /\ pos \in 0..Len(buffer) /\ Len(buffer) - pos < EventSize
  BY SizesAre DEF ReadTypeOK, Move, WholeEvent
<1> DEFINE b == SubSeq(buffer, pos + 1, Len(buffer))
<1>2. b \in Seq(ByteType) /\ Len(b) = Len(buffer) - pos
  BY <1>1, PartOf
<1>3. buffer' = b /\ pos' = 0 /\ reading' = FALSE /\ pipe' = pipe
  BY DEF Move
<1>4. SubSeq(b, 1, Len(b)) \o pipe = BytesOf(due)
  <2>1. b \o pipe = BytesOf(due)
    BY DEF BytesKept
  <2> HIDE DEF b
  <2>2. SubSeq(b, 1, Len(b)) = b
    BY <1>2
  <2> QED
    BY <2>1, <2>2
<1> HIDE DEF b
<1>5. UNCHANGED <<queue, dispatched, due, expected, reports, breaks, leftover>>
  BY DEF Move
<1>6. ReadTypeOK'
  <2>1. /\ Len(b) < EventSize /\ Len(b) <= BufferSize /\ 0 \in 0..Len(b)
    BY <1>1, <1>2, SizesAre DEF ReadTypeOK
  <2> QED
    BY <1>2, <1>3, <1>5, <2>1 DEF ReadTypeOK
<1>7. BytesKept'
  <2>1. BytesOf(due)' = BytesOf(due)
    BY <1>5 DEF BytesOf, ByteOf
  <2>2. SubSeq(b, 0 + 1, Len(b)) = SubSeq(b, 1, Len(b))
    OBVIOUS
  <2> QED
    BY <1>3, <1>4, <2>1, <2>2 DEF BytesKept
<1> QED
  BY <1>5, <1>6, <1>7, FramesStay

-----------------------------------------------------------------------------
(* The kernel's steps *)

\* The events of a frame of the hardware with its SYN_REPORT.
FrameEvents(n, b, f) == [i \in DOMAIN Append(f, "syn") |-> ReadEvent(n, b, Append(f, "syn"), i)]

LEMMA FrameEventsAre ==
  ASSUME NEW f \in Frames, NEW n \in Nat, NEW b \in Nat
  PROVE  /\ Len(f) \in Nat
         /\ FrameEvents(n, b, f) \in Seq(EventType)
         /\ Len(FrameEvents(n, b, f)) = Len(f) + 1
         /\ \A i \in 1..(Len(f) + 1) :
              /\ FrameEvents(n, b, f)[i].frame = n /\ FrameEvents(n, b, f)[i].break = b
              /\ FrameEvents(n, b, f)[i].index = i
              /\ FrameEvents(n, b, f)[i].size = Len(f) + 1
              /\ FrameEvents(n, b, f)[i].kind = Append(f, "syn")[i]
              /\ FrameEvents(n, b, f)[i].kind \in ReadKinds
              /\ FrameEvents(n, b, f)[i].kind = "syn" <=> i = Len(f) + 1
<1> DEFINE g == Append(f, "syn")
           K == {"data", "serial", "zero"}
<1>1. f \in Seq(K)
  BY ReaderAssumption
<1>2. /\ g \in Seq(ReadKinds) /\ Len(g) = Len(f) + 1 /\ Len(f) \in Nat
      /\ DOMAIN g = 1..(Len(f) + 1)
      /\ \A i \in 1..Len(f) : g[i] = f[i] /\ f[i] \in K
      /\ g[Len(f) + 1] = "syn"
  BY <1>1 DEF ReadKinds
<1> HIDE DEF g
<1>3. \A i \in 1..(Len(f) + 1) : g[i] = "syn" <=> i = Len(f) + 1
  <2> TAKE i \in 1..(Len(f) + 1)
  <2>1. CASE i = Len(f) + 1
    BY <1>2, <2>1
  <2>2. CASE i # Len(f) + 1
    <3>1. i \in 1..Len(f)
      BY <1>2, <2>2
    <3> QED
      BY <1>2, <2>2, <3>1
  <2> QED
    BY <2>1, <2>2
<1>4. FrameEvents(n, b, f) = [i \in 1..(Len(f) + 1) |-> ReadEvent(n, b, g, i)]
  BY <1>2 DEF FrameEvents, g
<1>5. \A i \in 1..(Len(f) + 1) :
        /\ ReadEvent(n, b, g, i) \in EventType
        /\ ReadEvent(n, b, g, i).frame = n /\ ReadEvent(n, b, g, i).break = b
        /\ ReadEvent(n, b, g, i).index = i /\ ReadEvent(n, b, g, i).size = Len(f) + 1
        /\ ReadEvent(n, b, g, i).kind = g[i] /\ g[i] \in ReadKinds
  BY <1>2 DEF ReadEvent, EventType
<1> HIDE DEF ReadEvent
<1>6. Len(f) + 1 \in Nat
  BY <1>2
<1>7. /\ FrameEvents(n, b, f) \in Seq(EventType)
      /\ Len(FrameEvents(n, b, f)) = Len(f) + 1
      /\ \A i \in 1..(Len(f) + 1) : FrameEvents(n, b, f)[i] = ReadEvent(n, b, g, i)
  BY <1>4, <1>5, <1>6
<1> QED
  BY <1>2, <1>3, <1>5, <1>7 DEF g

\* A frame stays where it is when events arrive behind it.
LEMMA FrameStays ==
  ASSUME NEW s \in Seq(EventType), NEW r \in Seq(EventType), NEW n, NEW q \in Nat,
         NEW i \in 1..Len(s), FrameAt(n, s, q, i)
  PROVE  FrameAt(n, s \o r, q, i)
<1> DEFINE w == s \o r
<1>1. /\ w \in Seq(EventType) /\ Len(w) = Len(s) + Len(r)
      /\ \A k \in 1..Len(s) : w[k] = s[k]
  BY ConcatOf
<1> HIDE DEF w
<1>2. s[i] \in EventType /\ w[i] = s[i]
  BY <1>1
<1>3. s[i].size \in Nat
  BY <1>2 DEF EventType
<1>4. \A j \in 1..s[i].size : i + j - 1 \in 1..Len(s)
  BY <1>3 DEF FrameAt
<1>5. i + s[i].size - 1 <= Len(w)
  BY <1>1, <1>3 DEF FrameAt
<1>6. \A j \in 1..s[i].size : w[i + j - 1] = s[i + j - 1]
  BY <1>1, <1>4
<1>7. i = 1 \/ w[i - 1].kind = "syn"
  <2>1. i = 1 \/ s[i - 1].kind = "syn"
    BY DEF FrameAt
  <2>2. i # 1 => i - 1 \in 1..Len(s)
    BY <1>1
  <2> QED
    BY <1>1, <2>1, <2>2
<1>8. FrameAt(n, w, q, i)
  BY <1>2, <1>5, <1>6, <1>7 DEF FrameAt
<1> QED
  BY <1>8 DEF w

LEMMA ReportKeeps ==
  ASSUME ReadInv, NEW f \in Frames, Report(f)
  PROVE  ReadInv'
<1> DEFINE ev == FrameEvents(reports, breaks, f)
           m == Len(f) + 1
<1> USE DEF ReadInv, FramesKept
<1>1. /\ reports \in Nat /\ breaks \in Nat /\ due \in Seq(EventType) /\ pipe \in Seq(ByteType)
      /\ queue \in Seq(EventType) /\ expected \subseteq Nat
  BY DEF ReadTypeOK
<1>2. /\ ev \in Seq(EventType) /\ Len(ev) = m /\ m \in Nat /\ m >= 1
      /\ \A i \in 1..m : /\ ev[i].frame = reports /\ ev[i].break = breaks
                         /\ ev[i].index = i /\ ev[i].size = m
                         /\ ev[i].kind = Append(f, "syn")[i]
                         /\ ev[i].kind = "syn" <=> i = m
  <2> HIDE DEF ReadInv, FramesKept
  <2>0. reports \in Nat /\ breaks \in Nat
    BY <1>1
  <2>1. /\ Len(f) \in Nat /\ ev \in Seq(EventType) /\ Len(ev) = m
        /\ \A i \in 1..m : /\ ev[i].frame = reports /\ ev[i].break = breaks
                           /\ ev[i].index = i /\ ev[i].size = m
                           /\ ev[i].kind = Append(f, "syn")[i]
                           /\ ev[i].kind = "syn" <=> i = m
    BY <2>0, FrameEventsAre
  <2> QED
    BY <2>1
<1>3. /\ pipe' = pipe \o BytesOf(ev) /\ due' = due \o ev
      /\ expected' = IF Dispatchable(Append(f, "syn")) /\ ~leftover
                     THEN expected \cup {reports} ELSE expected
      /\ reports' = reports + 1 /\ leftover' = FALSE
      /\ UNCHANGED <<buffer, pos, reading, queue, dispatched, breaks>>
  BY DEF Report, FrameEvents
<1> HIDE DEF ev
<1>4. /\ due' \in Seq(EventType) /\ Len(due') = Len(due) + m
      /\ \A i \in 1..Len(due) : due'[i] = due[i]
      /\ \A i \in 1..m : due'[Len(due) + i] = ev[i]
  <2>1. ev \in Seq(EventType) /\ Len(ev) = m /\ due' = due \o ev
    BY <1>2, <1>3
  <2>2. /\ due \o ev \in Seq(EventType) /\ Len(due \o ev) = Len(due) + Len(ev)
        /\ \A i \in 1..Len(due) : (due \o ev)[i] = due[i]
        /\ \A i \in 1..Len(ev) : (due \o ev)[Len(due) + i] = ev[i]
    <3>1. due \in Seq(EventType)
      BY <1>1
    <3>2. ev \in Seq(EventType)
      BY <2>1
    <3> QED
      BY <3>1, <3>2, ConcatOf
  <2> QED
    BY <2>1, <2>2
<1>5. BytesOf(ev) \in Seq(ByteType)
  BY <1>2, BytesAre DEF ByteType
<1> HIDE DEF m
<1>6. ReadTypeOK'
  <2>1. pipe' \in Seq(ByteType)
    BY <1>1, <1>3, <1>5, ConcatOf
  <2>2. reports' \in Nat /\ leftover' \in BOOLEAN
    <3>1. reports' = reports + 1 /\ leftover' = FALSE
      BY <1>3
    <3>2. reports \in Nat
      BY <1>1
    <3>3. reports' \in Nat
      BY <3>1, <3>2
    <3>4. leftover' \in BOOLEAN
      BY <3>1
    <3> QED
      BY <3>3, <3>4
  <2>3. expected' \subseteq expected \cup {reports}
    BY <1>3
  <2> QED
    BY <1>1, <1>3, <1>4, <2>1, <2>2, <2>3 DEF ReadTypeOK
<1>7. BytesKept'
  <2> DEFINE r == SubSeq(buffer, pos + 1, Len(buffer))
  <2>1. r \in Seq(ByteType)
    BY PartOf DEF ReadTypeOK
  <2>2. r \o pipe = BytesOf(due)
    BY DEF BytesKept
  <2>3. r' = r
    BY <1>3
  <2> HIDE DEF r
  <2>4. (r \o pipe) \o BytesOf(ev) = r \o (pipe \o BytesOf(ev))
    BY <1>1, <1>5, <2>1, Associative
  <2>5. BytesOf(due \o ev) = BytesOf(due) \o BytesOf(ev)
    BY <1>1, <1>2, BytesConcat
  <2>6. r \o pipe' = BytesOf(due \o ev)
    BY <1>3, <2>2, <2>4, <2>5
  <2>7. BytesOf(due \o ev) = BytesOf(due')
    BY <1>3
  <2>8. BytesOf(due)' = BytesOf(due')
    BY DEF BytesOf, ByteOf
  <2> QED
    BY <2>3, <2>6, <2>7, <2>8 DEF BytesKept, r
<1>8. DueOrdered'
  <2> SUFFICES ASSUME NEW i \in 1..Len(due')
               PROVE  /\ due'[i].break = breaks
                      /\ due'[i].frame < reports + 1
                      /\ IF due'[i].kind = "syn" THEN due'[i].index = due'[i].size
                         ELSE /\ due'[i].index < due'[i].size
                              /\ i < Len(due') /\ Continues(due'[i], due'[i + 1])
    BY <1>3 DEF DueOrdered, Continues
  <2>1. CASE i \in 1..Len(due)
    <3>1. /\ due[i].break = breaks /\ due[i].frame < reports
          /\ IF due[i].kind = "syn" THEN due[i].index = due[i].size
             ELSE /\ due[i].index < due[i].size
                  /\ i < Len(due) /\ Continues(due[i], due[i + 1])
      BY <2>1 DEF DueOrdered
    <3>2. due[i].frame \in Nat
      <4>1. due[i] \in EventType
        BY <1>1, <2>1
      <4> QED
        BY <4>1 DEF EventType
    <3>3. i < Len(due) => i + 1 \in 1..Len(due) /\ due'[i + 1] = due[i + 1]
      BY <1>1, <1>4, <2>1
    <3>4. due'[i] = due[i] /\ i < Len(due')
      BY <1>1, <1>2, <1>4, <2>1
    <3> QED
      BY <1>1, <3>1, <3>2, <3>3, <3>4
  <2>2. CASE i \notin 1..Len(due)
    <3> DEFINE j == i - Len(due)
    <3>1. j \in 1..m /\ i = Len(due) + j
      BY <1>1, <1>2, <1>4, <2>2
    <3> HIDE DEF j
    <3>2. due'[i] = ev[j]
      BY <1>4, <3>1
    <3>3. CASE j = m
      BY <1>1, <1>2, <3>1, <3>2, <3>3
    <3>4. CASE j # m
      <4>1. j + 1 \in 1..m /\ i + 1 = Len(due) + (j + 1) /\ i < Len(due') /\ j < m
        BY <1>1, <1>2, <1>4, <3>1, <3>4
      <4>2. due'[i + 1] = ev[j + 1]
        BY <1>4, <4>1
      <4>3. Continues(ev[j], ev[j + 1])
        BY <1>2, <3>1, <4>1 DEF Continues
      <4> QED
        BY <1>1, <1>2, <3>1, <3>2, <3>4, <4>1, <4>2, <4>3
    <3> QED
      BY <3>3, <3>4
  <2> QED
    BY <2>1, <2>2
<1>9. QueueOrdered'
  <2>1. due' # <<>>
    BY <1>1, <1>2, <1>4
  <2>2. due # <<>> => due'[1] = due[1]
    BY <1>1, <1>4
  <2> QED
    BY <1>3, <2>1, <2>2 DEF QueueOrdered, EndOf, Continues
<1>10. FramesWhole'
  BY <1>3 DEF FramesWhole, EndOf
<1>11. Awaited'
  <2> DEFINE s == queue \o due
             w == queue \o due'
  <2>1. s \in Seq(EventType) /\ Len(s) = Len(queue) + Len(due) /\ Len(queue) \in Nat
        /\ \A k \in 1..Len(due) : s[Len(queue) + k] = due[k]
    BY <1>1, ConcatOf
  <2>2. w = s \o ev
    BY <1>1, <1>2, <1>3, Associative
  <2> HIDE DEF s
  <2>3. /\ s \o ev \in Seq(EventType) /\ Len(s \o ev) = Len(s) + m
        /\ \A k \in 1..Len(s) : (s \o ev)[k] = s[k]
        /\ \A k \in 1..m : (s \o ev)[Len(s) + k] = ev[k]
    <3>1. /\ s \o ev \in Seq(EventType) /\ Len(s \o ev) = Len(s) + Len(ev)
          /\ \A k \in 1..Len(s) : (s \o ev)[k] = s[k]
          /\ \A k \in 1..Len(ev) : (s \o ev)[Len(s) + k] = ev[k]
      <4>1. ev \in Seq(EventType) /\ s \in Seq(EventType)
        BY <1>2, <2>1
      <4> QED
        BY <4>1, ConcatOf
    <3> QED
      BY <1>2, <3>1
  <2> HIDE DEF w
  <2> SUFFICES ASSUME NEW n \in expected'
               PROVE  \E i \in 1..Len(w) : FrameAt(n, w, Len(queue), i)
    <3>1. Awaited' <=> \A n \in expected' : \E i \in 1..Len(queue' \o due') :
                                 FrameAt(n, queue' \o due', Len(queue'), i)
      BY DEF Awaited, FrameAt
    <3> QED
      BY <1>3, <3>1 DEF w
  <2>4. CASE n \in expected
    <3>1. PICK i \in 1..Len(s) : FrameAt(n, s, Len(queue), i)
      BY <2>4 DEF Awaited, s
    <3>2. FrameAt(n, s \o ev, Len(queue), i)
      BY <1>2, <2>1, <3>1, FrameStays
    <3>3. i \in 1..Len(w)
      BY <1>2, <2>1, <2>2, <2>3
    <3> QED
      BY <2>2, <3>2, <3>3
  <2>5. CASE n \notin expected
    <3>1. n = reports /\ Dispatchable(Append(f, "syn")) /\ ~leftover
      BY <1>3, <2>5
    <3> DEFINE g == Append(f, "syn")
               i == Len(s) + 1
    <3>2. Len(g) = m /\ DOMAIN g = 1..m
      BY ReaderAssumption DEF m
    <3> HIDE DEF g
    <3>3. m <= MaxEvents /\ (\E k \in 1..m : g[k] = "data") /\ \A k \in 1..m : g[k] # "zero"
      BY <3>1, <3>2 DEF Dispatchable, g
    <3>4. i = 1 \/ s[i - 1].kind = "syn"
      <4>1. CASE due = <<>>
        <5>1. queue = <<>>
          BY <3>1, <4>1 DEF QueueOrdered
        <5> QED
          BY <2>1, <4>1, <5>1
      <4>2. CASE due # <<>>
        <5>1. Len(due) \in 1..Len(due)
          BY <1>1, <4>2
        <5>2. due[Len(due)].kind = "syn"
          BY <1>1, <5>1 DEF DueOrdered
        <5>3. s[Len(s)] = due[Len(due)] /\ i - 1 = Len(s)
          BY <2>1, <5>1
        <5> QED
          BY <5>2, <5>3
      <4> QED
        BY <4>1, <4>2
    <3>5. i \in 1..Len(w) /\ Len(s) \in Nat /\ Len(w) = Len(s) + m
      BY <1>2, <2>1, <2>2, <2>3
    <3>6. \A j \in 1..m : w[i + j - 1] = ev[j]
      <4> TAKE j \in 1..m
      <4>1. i + j - 1 = Len(s) + j
        BY <1>2, <3>5
      <4> QED
        BY <2>2, <2>3, <4>1
    <3>7. w[i].size = m
      <4>1. w[Len(s) + 1] = ev[1] /\ 1 \in 1..m
        BY <1>2, <2>2, <2>3
      <4> QED
        BY <1>2, <4>1
    <3>8. i = 1 \/ w[i - 1].kind = "syn"
      BY <2>1, <2>2, <2>3, <3>4, <3>5
    <3>9. i + m - 1 <= Len(w) /\ i + m - 1 > Len(queue)
      BY <1>1, <1>2, <2>1, <3>5
    <3> HIDE DEF i
    <3>10. \A j \in 1..m : ev[j].kind = g[j] /\ ev[j].frame = n /\ ev[j].index = j
                           /\ ev[j].size = m
      BY <1>2, <3>1 DEF g
    <3>11. FrameAt(n, w, Len(queue), i)
      BY <3>3, <3>6, <3>7, <3>8, <3>9, <3>10 DEF FrameAt
    <3> QED
      BY <3>5, <3>11
  <2> QED
    BY <2>4, <2>5
<1> QED
  BY <1>6, <1>7, <1>8, <1>9, <1>10, <1>11

\* The events of a frame that follow a SYN_DROPPED, and that one.
DroppedEvents(n, b, f, k) ==
  <<[FrameEvents(n, b, f)[k] EXCEPT !.kind = "dropped", !.index = k - 1]>>
  \o SubSeq(FrameEvents(n, b, f), k, Len(FrameEvents(n, b, f)))

\* The events of a frame of size m from its k-th on, and the one before them.
RestOfFrame(ev, n, b, m, k) ==
  /\ ev \in Seq(EventType) /\ Len(ev) = m + 2 - k /\ Len(ev) \in Nat /\ Len(ev) >= 2
  /\ \A i \in 1..Len(ev) :
       /\ ev[i].frame = n /\ ev[i].break = b /\ ev[i].size = m
       /\ ev[i].index = k - 2 + i
       /\ ev[i].kind = "syn" <=> i = Len(ev)

LEMMA DroppedEventsAre ==
  ASSUME NEW f \in Frames, NEW n \in Nat, NEW b \in Nat, NEW k \in 2..(Len(f) + 1)
  PROVE  RestOfFrame(DroppedEvents(n, b, f, k), n, b, Len(f) + 1, k)
<1> DEFINE r == FrameEvents(n, b, f)
           m == Len(f) + 1
           h == [r[k] EXCEPT !.kind = "dropped", !.index = k - 1]
           t == SubSeq(r, k, Len(r))
           ev == DroppedEvents(n, b, f, k)
           l == Len(f) + 3 - k
<1>1. /\ Len(f) \in Nat /\ r \in Seq(EventType) /\ Len(r) = m
      /\ \A i \in 1..m : /\ r[i].frame = n /\ r[i].break = b /\ r[i].index = i
                         /\ r[i].size = m
                         /\ r[i].kind = "syn" <=> i = m
  <2> HIDE DEF h, t, ev, l
  <2>1. Len(f) \in Nat /\ r \in Seq(EventType) /\ Len(r) = m
    BY FrameEventsAre
  <2>2. \A i \in 1..m : /\ r[i].frame = n /\ r[i].break = b /\ r[i].index = i
                        /\ r[i].size = m
    BY FrameEventsAre
  <2>3. \A i \in 1..m : r[i].kind = "syn" <=> i = m
    BY FrameEventsAre
  <2> QED
    BY <2>1, <2>2, <2>3
<1>2. k \in 1..m /\ k - 1 \in Nat /\ m \in Nat /\ l \in Nat /\ l >= 2 /\ l = m - (k - 1) + 1
  BY <1>1
<1> HIDE DEF r, m, l
<1>3. r[k] \in EventType
  BY <1>1, <1>2
<1>4. /\ h \in EventType /\ h.kind = "dropped" /\ h.index = k - 1
      /\ h.frame = r[k].frame /\ h.break = r[k].break /\ h.size = r[k].size
  BY <1>2, <1>3 DEF EventType, ReadKinds
<1> HIDE DEF h
<1>5. /\ t \in Seq(EventType) /\ Len(t) = m - (k - 1)
      /\ \A i \in 1..(m - (k - 1)) : t[i] = r[k - 1 + i]
  <2> DEFINE p == k - 1
  <2>1. p \in 0..Len(r) /\ t = SubSeq(r, p + 1, Len(r))
    BY <1>1, <1>2
  <2> HIDE DEF p, t
  <2>2. /\ t \in Seq(EventType) /\ Len(t) = Len(r) - p
        /\ \A i \in 1..(Len(r) - p) : t[i] = r[p + i]
    BY <1>1, <2>1, PartOf
  <2> QED
    BY <1>1, <2>2 DEF p
<1>6. ev = <<h>> \o t
  BY DEF DroppedEvents, h, r
<1> HIDE DEF ev, t
<1>7. /\ ev \in Seq(EventType) /\ Len(ev) = 1 + Len(t) /\ ev[1] = h
      /\ \A i \in 1..Len(t) : ev[1 + i] = t[i]
  <2> DEFINE g == <<h>>
  <2>1. g \in Seq(EventType) /\ Len(g) = 1 /\ g[1] = h
    BY <1>4
  <2> HIDE DEF g
  <2>2. t \in Seq(EventType)
    BY <1>5
  <2>3. /\ g \o t \in Seq(EventType) /\ Len(g \o t) = Len(g) + Len(t)
        /\ \A i \in 1..Len(g) : (g \o t)[i] = g[i]
        /\ \A i \in 1..Len(t) : (g \o t)[Len(g) + i] = t[i]
    <3>1. g \in Seq(EventType)
      BY <2>1
    <3> QED
      BY <2>2, <3>1, ConcatOf
  <2>4. ev = g \o t
    BY <1>6 DEF g
  <2> QED
    BY <2>1, <2>3, <2>4
<1>8. Len(ev) = l
  BY <1>2, <1>5, <1>7
<1>9. ASSUME NEW i \in 1..l
      PROVE  /\ ev[i].frame = n /\ ev[i].break = b /\ ev[i].size = m
             /\ ev[i].index = k - 2 + i
             /\ ev[i].kind = "syn" <=> i = l
  <2>1. CASE i = 1
    <3>1. ev[i] = h
      BY <1>7, <2>1
    <3>2. r[k].frame = n /\ r[k].break = b /\ r[k].size = m
      BY <1>1, <1>2
    <3>3. i # l /\ k - 1 = k - 2 + i
      BY <1>2, <2>1
    <3>4. /\ h.kind = "dropped" /\ h.index = k - 2 + i
          /\ h.frame = n /\ h.break = b /\ h.size = m
      BY <1>4, <3>2, <3>3
    <3>5. ev[i].kind = "syn" <=> i = l
      BY <3>1, <3>3, <3>4
    <3> QED
      BY <3>1, <3>4, <3>5
  <2>2. CASE i # 1
    <3> DEFINE j == i - 1
               p == k - 1 + j
    <3>1. j \in 1..(m - (k - 1)) /\ i = 1 + j /\ p \in 1..m /\ p = k - 2 + i /\ (i = l <=> p = m)
      BY <1>2, <2>2
    <3> HIDE DEF j
    <3>2. ev[i] = t[j] /\ t[j] = r[p]
      BY <1>5, <1>7, <3>1
    <3> HIDE DEF p
    <3>3. /\ r[p].frame = n /\ r[p].break = b /\ r[p].index = p /\ r[p].size = m
          /\ r[p].kind = "syn" <=> p = m
      BY <1>1, <3>1
    <3>4. p = k - 2 + i /\ (i = l <=> p = m)
      BY <3>1
    <3> QED
      BY <3>2, <3>3, <3>4
  <2> QED
    BY <2>1, <2>2
<1>10. l = m + 2 - k
  BY <1>1 DEF l, m
<1>11. RestOfFrame(ev, n, b, m, k)
  BY <1>2, <1>7, <1>8, <1>9, <1>10 DEF RestOfFrame
<1> QED
  BY <1>11 DEF ev, m

\* Nothing is awaited but what ends among the events due.
LEMMA AwaitedAreDue ==
  ASSUME ReadTypeOK, Awaited
  PROVE  expected \subseteq {due[i].frame : i \in DOMAIN due}
<1> SUFFICES ASSUME NEW n \in expected
             PROVE  \E i \in 1..Len(due) : due[i].frame = n
  BY DEF ReadTypeOK
<1> DEFINE s == queue \o due
<1>1. queue \in Seq(EventType) /\ due \in Seq(EventType)
  BY DEF ReadTypeOK
<1>2. /\ s \in Seq(EventType) /\ Len(s) = Len(queue) + Len(due)
      /\ \A i \in 1..Len(due) : s[Len(queue) + i] = due[i]
  BY <1>1, ConcatOf
<1> HIDE DEF s
<1>3. PICK i \in 1..Len(s) : FrameAt(n, s, Len(queue), i)
  BY DEF Awaited, s
<1>4. s[i].size \in Nat
  <2>1. s[i] \in EventType
    BY <1>2
  <2> QED
    BY <2>1 DEF EventType
<1> DEFINE m == s[i].size
           j == i + m - 1 - Len(queue)
<1>5. /\ i + m - 1 <= Len(s) /\ i + m - 1 > Len(queue)
      /\ \E k \in 1..m : TRUE
      /\ \A k \in 1..m : s[i + k - 1].frame = n
  BY <1>3 DEF FrameAt
<1>6. m \in 1..m
  BY <1>4, <1>5
<1>7. s[i + m - 1].frame = n
  BY <1>5, <1>6
<1>8. j \in 1..Len(due) /\ Len(queue) + j = i + m - 1
  BY <1>1, <1>2, <1>4, <1>5
<1> HIDE DEF j
<1>9. due[j].frame = n
  BY <1>2, <1>7, <1>8
<1> QED
  BY <1>8, <1>9

LEMMA OverrunKeeps ==
  ASSUME ReadInv, NEW f \in Frames, NEW k \in 2..(Len(f) + 1), Overrun(f, k)
  PROVE  ReadInv'
<1> DEFINE b == breaks + 1
           ev == DroppedEvents(reports, b, f, k)
           l == Len(ev)
           m == Len(f) + 1
<1>1. /\ ReadTypeOK /\ BytesKept /\ DueOrdered /\ QueueOrdered /\ FramesWhole /\ Awaited
  BY DEF ReadInv, FramesKept
<1>2. reports \in Nat /\ breaks \in Nat
  BY <1>1 DEF ReadTypeOK
<1>3. b \in Nat
  BY <1>2
<1>4. /\ ev \in Seq(EventType) /\ l = m + 2 - k /\ l \in Nat /\ l >= 2
      /\ \A i \in 1..l : /\ ev[i].frame = reports /\ ev[i].break = breaks + 1
                         /\ ev[i].size = m /\ ev[i].index = k - 2 + i
                         /\ ev[i].kind = "syn" <=> i = l
  <2>1. RestOfFrame(ev, reports, b, m, k)
    BY <1>2, <1>3, DroppedEventsAre
  <2> HIDE DEF ev, m
  <2> QED
    BY <2>1 DEF RestOfFrame
<1>5. Len(f) \in Nat
  BY <1>2, FrameEventsAre
<1>6. /\ ~reading /\ buffer = <<>> /\ pipe' = BytesOf(ev) /\ due' = ev
      /\ expected' = expected \ {due[i].frame : i \in DOMAIN due}
      /\ reports' = reports + 1 /\ leftover' = FALSE /\ breaks' = breaks + 1
      /\ buffer' = buffer /\ pos' = pos /\ reading' = reading
      /\ queue' = queue /\ dispatched' = dispatched
  BY DEF Overrun, DroppedEvents, FrameEvents
<1> HIDE DEF ev
<1>7. expected' = {}
  BY <1>1, <1>6, AwaitedAreDue
<1>8. reports' \in Nat /\ breaks' \in Nat
  BY <1>2, <1>6
<1>9. ReadTypeOK'
  <2>1. pipe' \in Seq(ByteType)
    BY <1>4, <1>6, BytesAre DEF ByteType
  <2>2. due' \in Seq(EventType) /\ leftover' \in BOOLEAN
    BY <1>4, <1>6
  <2>3. /\ buffer' = buffer /\ pos' = pos /\ reading' = reading
        /\ queue' = queue /\ dispatched' = dispatched
    BY <1>6
  <2> QED
    BY <1>1, <1>7, <1>8, <2>1, <2>2, <2>3 DEF ReadTypeOK
<1>10. BytesKept'
  <2>1. pos = 0
    BY <1>1, <1>6 DEF ReadTypeOK
  <2>2. SubSeq(<<>>, 0 + 1, Len(<<>>)) \o BytesOf(ev) = BytesOf(ev)
    <3>1. BytesOf(ev) \in Seq(EventType \X Nat)
      BY <1>4, BytesAre
    <3>2. \A T : \A u \in Seq(T) : SubSeq(<<>>, 0 + 1, Len(<<>>)) \o u = u
      OBVIOUS
    <3> QED
      BY <3>1, <3>2
  <2>3. BytesOf(due)' = BytesOf(due')
    BY DEF BytesOf, ByteOf
  <2> QED
    BY <1>6, <2>1, <2>2, <2>3 DEF BytesKept
<1>11. DueOrdered'
  <2> SUFFICES ASSUME NEW i \in 1..Len(ev)
               PROVE  /\ ev[i].break = breaks + 1
                      /\ ev[i].frame < reports + 1
                      /\ IF ev[i].kind = "syn" THEN ev[i].index = ev[i].size
                         ELSE /\ ev[i].index < ev[i].size
                              /\ i < Len(ev) /\ Continues(ev[i], ev[i + 1])
    BY <1>6 DEF DueOrdered, Continues
  <2>1. i \in 1..l /\ l = Len(ev)
    BY <1>4
  <2> HIDE DEF l
  <2>2. /\ ev[i].frame = reports /\ ev[i].break = breaks + 1
        /\ ev[i].size = m /\ ev[i].index = k - 2 + i
        /\ ev[i].kind = "syn" <=> i = l
    BY <1>4, <2>1
  <2>3. reports < reports + 1
    BY <1>2
  <2>4. CASE i = l
    <3>1. k - 2 + i = m
      BY <1>4, <1>5, <2>4
    <3> QED
      BY <2>2, <2>3, <2>4, <3>1
  <2>5. CASE i # l
    <3>1. i + 1 \in 1..l /\ i < l
      BY <1>4, <2>1, <2>5
    <3>2. /\ ev[i + 1].frame = reports /\ ev[i + 1].break = breaks + 1
          /\ ev[i + 1].size = m /\ ev[i + 1].index = k - 2 + (i + 1)
      BY <1>4, <3>1
    <3>3. k - 2 + i < m /\ k - 2 + (i + 1) = (k - 2 + i) + 1
      BY <1>4, <1>5, <3>1
    <3>4. Continues(ev[i], ev[i + 1])
      BY <2>2, <3>2, <3>3 DEF Continues
    <3> QED
      BY <2>1, <2>2, <2>3, <2>5, <3>1, <3>3, <3>4
  <2> QED
    BY <2>4, <2>5
<1>12. QueueOrdered'
  <2>1. ev # <<>>
    BY <1>4
  <2>2. queue # <<>> => EndOf(queue).break <= breaks + 1 /\ EndOf(queue).break # breaks + 1
    <3> SUFFICES ASSUME queue # <<>>
                 PROVE  EndOf(queue).break <= breaks + 1 /\ EndOf(queue).break # breaks + 1
      OBVIOUS
    <3>1. queue \in Seq(EventType)
      BY <1>1 DEF ReadTypeOK
    <3>2. EndOf(queue) \in EventType
      BY <3>1 DEF EndOf
    <3>3. EndOf(queue).break \in Nat /\ EndOf(queue).break <= breaks
      BY <1>1, <3>2 DEF EventType, QueueOrdered
    <3> QED
      BY <1>2, <3>3
  <2> QED
    BY <1>1, <1>6, <2>1, <2>2 DEF QueueOrdered, EndOf, Continues
<1>13. FramesWhole'
  BY <1>1, <1>6 DEF FramesWhole, EndOf
<1>14. Awaited'
  BY <1>7 DEF Awaited
<1> QED
  BY <1>9, <1>10, <1>11, <1>12, <1>13, <1>14 DEF ReadInv, FramesKept

LEMMA ReopenKeeps ==
  ASSUME ReadInv, Reopen
  PROVE  ReadInv'
<1>1. /\ ReadTypeOK /\ BytesKept /\ DueOrdered /\ QueueOrdered /\ FramesWhole /\ Awaited
  BY DEF ReadInv, FramesKept
<1>2. /\ ~reading /\ buffer = <<>> /\ pipe' = <<>> /\ due' = <<>> /\ expected' = {}
      /\ leftover' = (queue # <<>>) /\ breaks' = breaks + 1
      /\ buffer' = buffer /\ pos' = pos /\ reading' = reading
      /\ queue' = queue /\ dispatched' = dispatched /\ reports' = reports
  BY DEF Reopen
<1>3. breaks \in Nat /\ breaks' \in Nat
  <2>1. breaks \in Nat
    BY <1>1 DEF ReadTypeOK
  <2> QED
    BY <1>2, <2>1
<1>4. ReadTypeOK'
  <2>1. \A T : <<>> \in Seq(T)
    OBVIOUS
  <2>2. leftover' \in BOOLEAN
    BY <1>2
  <2>3. /\ buffer' = buffer /\ pos' = pos /\ reading' = reading
        /\ queue' = queue /\ dispatched' = dispatched /\ reports' = reports
        /\ pipe' = <<>> /\ due' = <<>> /\ expected' = {}
    BY <1>2
  <2> QED
    BY <1>1, <1>3, <2>1, <2>2, <2>3 DEF ReadTypeOK
<1>5. BytesKept'
  <2>1. pos = 0
    BY <1>1, <1>2 DEF ReadTypeOK
  <2>2. SubSeq(<<>>, 0 + 1, Len(<<>>)) \o <<>> = <<>>
    OBVIOUS
  <2>3. BytesOf(<<>>) = <<>>
    <3>1. <<>> \in Seq(EventType) /\ Len(<<>>) = 0 /\ EventSize * 0 = 0
      BY SizesAre
    <3>2. BytesOf(<<>>) \in Seq(EventType \X Nat) /\ Len(BytesOf(<<>>)) = 0
      BY <3>1, BytesAre
    <3> QED
      BY <3>2
  <2>4. BytesOf(due)' = BytesOf(due')
    BY DEF BytesOf, ByteOf
  <2> QED
    BY <1>2, <2>1, <2>2, <2>3, <2>4 DEF BytesKept
<1>6. DueOrdered'
  BY <1>2 DEF DueOrdered
<1>7. QueueOrdered'
  <2>1. queue # <<>> => EndOf(queue).break <= breaks + 1 /\ EndOf(queue).break # breaks + 1
    <3> SUFFICES ASSUME queue # <<>>
                 PROVE  EndOf(queue).break <= breaks + 1 /\ EndOf(queue).break # breaks + 1
      OBVIOUS
    <3>1. queue \in Seq(EventType)
      BY <1>1 DEF ReadTypeOK
    <3>2. EndOf(queue) \in EventType
      BY <3>1 DEF EndOf
    <3>3. EndOf(queue).break \in Nat /\ EndOf(queue).break <= breaks
      BY <1>1, <3>2 DEF EventType, QueueOrdered
    <3> QED
      BY <1>3, <3>3
  <2>2. queue = <<>> \/ leftover'
    BY <1>2
  <2> QED
    BY <1>1, <1>2, <2>1, <2>2 DEF QueueOrdered, EndOf, Continues
<1>8. FramesWhole'
  BY <1>1, <1>2 DEF FramesWhole, EndOf
<1>9. Awaited'
  BY <1>2 DEF Awaited
<1> QED
  BY <1>4, <1>5, <1>6, <1>7, <1>8, <1>9 DEF ReadInv, FramesKept

-----------------------------------------------------------------------------
(* An event is parsed *)

\* What is parsed is the first event due, and the bytes of the others are kept.
LEMMA ParsesFirst ==
  ASSUME ReadInv, Parse
  PROVE  /\ due # <<>> /\ due[1] \in EventType
         /\ due' = Tail(due) /\ due' \in Seq(EventType) /\ Len(due') = Len(due) - 1
         /\ \A i \in 1..Len(due') : due'[i] = due[i + 1]
         /\ buffer[pos + 1][1] = due[1]
         /\ pos' \in 0..Len(buffer)
         /\ BytesKept'
<1> DEFINE r == SubSeq(buffer, pos + 1, Len(buffer))
           d == EventSize
<1>1. /\ buffer \in Seq(ByteType) /\ pipe \in Seq(ByteType) /\ due \in Seq(EventType)
      /\ pos \in 0..Len(buffer)
  BY DEF ReadInv, ReadTypeOK
<1>2. /\ Len(buffer) - pos >= d /\ pos' = pos + d /\ due' = Tail(due)
      /\ buffer' = buffer /\ pipe' = pipe
  BY DEF Parse, WholeEvent
<1>3. /\ r \in Seq(ByteType) /\ Len(r) = Len(buffer) - pos
      /\ \A i \in 1..(Len(buffer) - pos) : r[i] = buffer[pos + i]
  BY <1>1, PartOf
<1>4. r \o pipe = BytesOf(due)
  BY DEF ReadInv, BytesKept
<1>5. d \in Nat /\ d >= 1
  BY SizesAre
<1>6. BytesOf(due) \in Seq(ByteType) /\ Len(BytesOf(due)) = d * Len(due)
  BY <1>1, BytesAre DEF ByteType
<1> HIDE DEF r, d
<1>7. /\ r \o pipe \in Seq(ByteType) /\ Len(r \o pipe) = Len(r) + Len(pipe)
      /\ \A i \in 1..Len(r) : (r \o pipe)[i] = r[i]
  BY <1>1, <1>3, ConcatOf
<1>8. due # <<>>
  <2>1. d * Len(due) >= d
    <3>1. d * Len(due) = Len(r) + Len(pipe)
      BY <1>4, <1>6, <1>7
    <3>2. Len(r) >= d /\ Len(pipe) \in Nat /\ Len(r) \in Nat
      BY <1>1, <1>2, <1>3
    <3> QED
      BY <1>5, <3>1, <3>2
  <2>2. d * 0 = 0
    BY <1>5
  <2>3. Len(due) # 0
    BY <1>5, <2>1, <2>2
  <2> QED
    BY <1>1, <2>3
<1>9. /\ Tail(due) \in Seq(EventType) /\ Len(Tail(due)) = Len(due) - 1
      /\ BytesOf(due)[1][1] = due[1]
      /\ SubSeq(BytesOf(due), d + 1, Len(BytesOf(due))) = BytesOf(Tail(due))
  BY <1>1, <1>8, BytesTail DEF d
<1>10. buffer[pos + 1][1] = due[1]
  <2>1. 1 \in 1..Len(r) /\ 1 \in 1..(Len(buffer) - pos)
    BY <1>1, <1>2, <1>3, <1>5
  <2>2. (r \o pipe)[1] = r[1] /\ r[1] = buffer[pos + 1]
    BY <1>3, <1>7, <2>1
  <2> QED
    BY <1>4, <1>9, <2>2
<1> DEFINE x == SubSeq(r, 1, d)
           y == SubSeq(r, d + 1, Len(r))
           z == SubSeq(buffer, pos' + 1, Len(buffer))
<1>11. d \in 0..Len(r) /\ pos' \in 0..Len(buffer) /\ Len(r) - d = Len(buffer) - pos'
  BY <1>1, <1>2, <1>3, <1>5
<1>12. /\ x \in Seq(ByteType) /\ Len(x) = d
       /\ y \in Seq(ByteType) /\ Len(y) = Len(r) - d
       /\ \A i \in 1..(Len(r) - d) : y[i] = r[d + i]
       /\ x \o y = r
  BY <1>3, <1>11, PartOf, PartsJoin
<1>13. /\ z \in Seq(ByteType) /\ Len(z) = Len(buffer) - pos'
       /\ \A i \in 1..(Len(buffer) - pos') : z[i] = buffer[pos' + i]
  BY <1>1, <1>11, PartOf
<1> HIDE DEF x, y, z
<1>14. z = y
  <2>1. ASSUME NEW i \in 1..Len(z)
        PROVE  z[i] = y[i]
    <3>1. i \in 1..(Len(r) - d) /\ d + i \in 1..(Len(buffer) - pos)
      BY <1>1, <1>2, <1>3, <1>5, <1>11, <1>13
    <3>2. y[i] = buffer[pos + (d + i)]
      BY <1>3, <1>12, <3>1
    <3>3. pos + (d + i) = pos' + i
      BY <1>1, <1>2, <1>5
    <3> QED
      BY <1>13, <3>2, <3>3
  <2> QED
    BY <1>11, <1>12, <1>13, <2>1, SameItems
<1>15. BytesOf(due) = x \o (z \o pipe)
  <2>1. x \in Seq(ByteType) /\ y \in Seq(ByteType) /\ pipe \in Seq(ByteType)
    BY <1>1, <1>12
  <2>2. (x \o y) \o pipe = x \o (y \o pipe)
    BY <2>1, Associative
  <2>3. x \o y = r
    BY <1>12
  <2> QED
    BY <1>4, <1>14, <2>2, <2>3
<1>16. z \o pipe = BytesOf(Tail(due))
  <2>1. z \o pipe \in Seq(ByteType)
    BY <1>1, <1>13, ConcatOf
  <2>2. SubSeq(x \o (z \o pipe), Len(x) + 1, Len(x \o (z \o pipe))) = z \o pipe
    BY <1>12, <2>1, CutOff
  <2> QED
    BY <1>9, <1>12, <1>15, <2>2
<1>17. BytesKept'
  <2>1. BytesOf(due)' = BytesOf(due')
    BY DEF BytesOf, ByteOf
  <2> QED
    BY <1>2, <1>16, <2>1 DEF BytesKept, z
<1>18. due[1] \in EventType
  BY <1>1, <1>8
<1>19. \A i \in 1..Len(due') : due'[i] = due[i + 1]
  BY <1>1, <1>2, <1>8
<1> QED
  BY <1>2, <1>8, <1>9, <1>10, <1>11, <1>17, <1>18, <1>19

\* What becomes of an event: it is lost with the queue, it ends a frame, it drops the
\* frame, or it is queued.
LEMMA ParseCases ==
  ASSUME ReadInv, Parse
  PROVE  LET e == due[1]
             u == Append(queue, e)
         IN \/ /\ Len(queue) >= MaxEvents
               /\ queue' = <<>> /\ dispatched' = <<>> /\ expected' = expected
            \/ /\ Len(queue) < MaxEvents /\ e.kind = "syn" /\ queue' = <<>>
               /\ \/ /\ "data" \notin KindsIn(u)
                     /\ dispatched' = <<>> /\ expected' = expected
                  \/ /\ dispatched' = u
                     /\ expected' = IF Complete(u) THEN expected \ {e.frame} ELSE expected
            \/ /\ Len(queue) < MaxEvents /\ e.kind = "zero"
               /\ queue' = <<>> /\ dispatched' = <<>> /\ expected' = expected
            \/ /\ Len(queue) < MaxEvents /\ e.kind \notin {"syn", "zero"}
               /\ queue' = u /\ dispatched' = <<>> /\ expected' = expected
<1> DEFINE e == due[1]
           u == Append(queue, e)
           p == ParseEvent(queue, e)
<1>1. queue \in Seq(EventType) /\ Len(queue) \in Nat /\ MaxEvents \in Nat
  BY SizesAre DEF ReadInv, ReadTypeOK
<1>2. e \in EventType /\ buffer[pos + 1][1] = e
  BY ParsesFirst
<1>3. u # <<>> /\ EndOf(u) = e
  BY <1>1, <1>2 DEF EndOf
<1>4. /\ queue' = p.queue /\ dispatched' = p.out
      /\ expected' = IF p.out # <<>> /\ Complete(p.out)
                     THEN expected \ {EndOf(p.out).frame} ELSE expected
  BY <1>2 DEF Parse
<1>5. CASE Len(queue) >= MaxEvents
  <2>1. p = [queue |-> <<>>, out |-> <<>>]
    BY <1>5 DEF ParseEvent
  <2> QED
    BY <1>4, <1>5, <2>1
<1>6. CASE Len(queue) < MaxEvents /\ e.kind = "syn"
  <2>1. p = SynEvent(u)
    BY <1>1, <1>6 DEF ParseEvent
  <2>2. CASE KindsIn(u) \subseteq {"syn", "serial", "zero", "dropped"}
    <3>1. p = [queue |-> <<>>, out |-> <<>>]
      BY <2>1, <2>2 DEF SynEvent
    <3>2. "data" \notin KindsIn(u)
      BY <2>2
    <3> QED
      BY <1>4, <1>6, <3>1, <3>2
  <2>3. CASE ~(KindsIn(u) \subseteq {"syn", "serial", "zero", "dropped"})
    <3>1. p = [queue |-> <<>>, out |-> u]
      BY <2>1, <2>3 DEF SynEvent
    <3> HIDE DEF u
    <3>2. p.queue = <<>> /\ p.out = u
      BY <3>1
    <3>3. expected' = IF Complete(u) THEN expected \ {e.frame} ELSE expected
      BY <1>3, <1>4, <3>2
    <3>4. queue' = <<>> /\ dispatched' = u
      BY <1>4, <3>2
    <3> QED
      BY <1>6, <3>3, <3>4 DEF u
  <2> QED
    BY <2>2, <2>3
<1>7. CASE Len(queue) < MaxEvents /\ e.kind # "syn"
  <2>1. p = MscEvent(u, e)
    BY <1>1, <1>7 DEF ParseEvent
  <2>2. CASE e.kind = "zero"
    <3>1. p = [queue |-> <<>>, out |-> <<>>]
      BY <2>1, <2>2 DEF MscEvent
    <3> QED
      BY <1>4, <1>7, <2>2, <3>1
  <2>3. CASE e.kind # "zero"
    <3>1. p = [queue |-> u, out |-> <<>>]
      BY <2>1, <2>3 DEF MscEvent
    <3> QED
      BY <1>4, <1>7, <2>3, <3>1
  <2> QED
    BY <2>2, <2>3
<1> QED
  BY <1>1, <1>5, <1>6, <1>7

\* With the next event the queue still is of one frame without a gap.
LEMMA QueueGoesOn ==
  ASSUME ReadTypeOK, DueOrdered, QueueOrdered, due # <<>>
  PROVE  LET e == due[1]
             u == Append(queue, e)
         IN /\ u \in Seq(EventType) /\ Len(u) = Len(queue) + 1 /\ EndOf(u) = e
            /\ \A i \in 1..Len(queue) : u[i] = queue[i]
            /\ u[Len(u)] = e
            /\ \A i \in 1..Len(u) :
                 /\ u[i].kind = "zero" => i = Len(u)
                 /\ u[i].kind = "syn" => i = Len(u)
                 /\ u[i].break <= e.break
                 /\ u[i].break = e.break => /\ u[i].frame = e.frame
                                            /\ u[i].index = e.index - Len(u) + i
<1> DEFINE e == due[1]
           u == Append(queue, e)
           q == Len(queue)
           l == EndOf(queue)
<1>1. queue \in Seq(EventType) /\ due \in Seq(EventType) /\ breaks \in Nat
  BY DEF ReadTypeOK
<1>2. e \in EventType
  BY <1>1
<1>3. e.break = breaks /\ e.index \in Nat
  BY <1>1, <1>2 DEF DueOrdered, EventType
<1>4. /\ u \in Seq(EventType) /\ Len(u) = q + 1 /\ q \in Nat
      /\ \A i \in 1..q : u[i] = queue[i]
      /\ u[Len(u)] = e
  BY <1>1, <1>2
<1> HIDE DEF u
<1>5. ASSUME NEW i \in 1..Len(u)
      PROVE  /\ u[i].kind = "zero" => i = Len(u)
             /\ u[i].kind = "syn" => i = Len(u)
             /\ u[i].break <= e.break
             /\ u[i].break = e.break => /\ u[i].frame = e.frame
                                        /\ u[i].index = e.index - Len(u) + i
  <2>1. CASE i = Len(u)
    BY <1>1, <1>3, <1>4, <2>1
  <2>2. CASE i # Len(u)
    <3>1. i \in 1..q /\ u[i] = queue[i]
      BY <1>4, <2>2
    <3>2. /\ queue[i].kind \notin {"syn", "zero"}
          /\ queue[i].break <= l.break
          /\ queue[i].break = l.break => /\ queue[i].frame = l.frame
                                         /\ queue[i].index = l.index - q + i
      BY <3>1 DEF QueueOrdered
    <3>3. queue # <<>>
      BY <1>1, <3>1
    <3>4. l.break <= breaks /\ (l.break = breaks => Continues(l, e))
      BY <3>3 DEF QueueOrdered
    <3>5. queue[i] \in EventType /\ l \in EventType
      BY <1>1, <3>1, <3>3 DEF EndOf
    <3>6. queue[i].break \in Nat /\ l.break \in Nat /\ l.index \in Nat
      BY <3>5 DEF EventType
    <3> HIDE DEF l, e, q
    <3>7. queue[i].break <= e.break
      BY <1>1, <1>3, <3>2, <3>4, <3>6
    <3>8. ASSUME queue[i].break = e.break
          PROVE  queue[i].frame = e.frame /\ queue[i].index = e.index - Len(u) + i
      <4>1. l.break = breaks /\ queue[i].break = l.break
        BY <1>1, <1>3, <3>2, <3>4, <3>6, <3>8
      <4>2. e.frame = l.frame /\ e.index = l.index + 1
        BY <3>4, <4>1 DEF Continues
      <4>3. l.index - q + i = e.index - (q + 1) + i
        BY <1>4, <3>1, <3>6, <4>2
      <4> QED
        BY <1>4, <3>2, <4>1, <4>2, <4>3
    <3> QED
      BY <2>2, <3>1, <3>2, <3>7, <3>8
  <2> QED
    BY <2>1, <2>2
<1>6. EndOf(u) = e
  BY <1>4 DEF EndOf
<1> QED
  BY <1>4, <1>5, <1>6 DEF u

\* A frame awaited begins with the queue or behind the next event.
LEMMA BeginsLater ==
  ASSUME ReadTypeOK, QueueOrdered, NEW n, NEW i \in 1..Len(queue \o due),
         FrameAt(n, queue \o due, Len(queue), i)
  PROVE  i = 1 \/ i >= Len(queue) + 2
<1> DEFINE s == queue \o due
<1>1. queue \in Seq(EventType) /\ due \in Seq(EventType) /\ Len(queue) \in Nat
  BY DEF ReadTypeOK
<1>2. \A k \in 1..Len(queue) : s[k] = queue[k]
  BY <1>1, ConcatOf
<1>3. Len(s) \in Nat
  BY <1>1
<1>4. i = 1 \/ s[i - 1].kind = "syn"
  BY DEF FrameAt
<1> HIDE DEF s
<1>5. i # 1 /\ i < Len(queue) + 2 => i - 1 \in 1..Len(queue)
  BY <1>1, <1>3 DEF s
<1>6. i # 1 /\ i < Len(queue) + 2 => queue[i - 1].kind = "syn"
  BY <1>2, <1>4, <1>5
<1>7. ~(i # 1 /\ i < Len(queue) + 2)
  BY <1>5, <1>6 DEF QueueOrdered
<1> QED
  BY <1>1, <1>3, <1>7 DEF s

\* A frame in the second of two sequences.
LEMMA FrameShifts ==
  ASSUME NEW u \in Seq(EventType), NEW r \in Seq(EventType), NEW n, NEW q \in Nat,
         NEW i \in (Len(u) + 1)..Len(u \o r), FrameAt(n, u \o r, q, i)
  PROVE  i - Len(u) \in 1..Len(r) /\ FrameAt(n, r, 0, i - Len(u))
<1> DEFINE s == u \o r
           d == Len(u)
           k == i - d
           m == s[i].size
<1>1. /\ s \in Seq(EventType) /\ Len(s) = d + Len(r) /\ d \in Nat /\ Len(r) \in Nat
      /\ \A j \in 1..Len(r) : s[d + j] = r[j]
  BY ConcatOf
<1> HIDE DEF s
<1>2. k \in 1..Len(r) /\ i = d + k
  <2>1. i \in (d + 1)..(d + Len(r))
    BY <1>1 DEF s
  <2> QED
    BY <1>1, <2>1
<1> HIDE DEF d, k
<1>3. s[i] = r[k] /\ s[i] \in EventType
  BY <1>1, <1>2
<1>4. m \in Nat
  BY <1>3 DEF EventType
<1>5. /\ i + m - 1 <= Len(s) /\ m <= MaxEvents
      /\ \A j \in 1..m : /\ s[i + j - 1].frame = n /\ s[i + j - 1].index = j
                         /\ s[i + j - 1].size = m /\ s[i + j - 1].kind # "zero"
      /\ \E j \in 1..m : s[i + j - 1].kind = "data"
      /\ i = 1 \/ s[i - 1].kind = "syn"
  BY DEF FrameAt, s
<1> HIDE DEF m
<1>6. m >= 1
  BY <1>4, <1>5
<1>7. k + m - 1 <= Len(r) /\ k + m - 1 > 0
  BY <1>1, <1>2, <1>4, <1>5, <1>6
<1>8. \A j \in 1..m : r[k + j - 1] = s[i + j - 1]
  <2> TAKE j \in 1..m
  <2>1. k + j - 1 \in 1..Len(r) /\ d + (k + j - 1) = i + j - 1
    BY <1>1, <1>2, <1>4, <1>7
  <2> QED
    BY <1>1, <2>1
<1>9. k = 1 \/ r[k - 1].kind = "syn"
  <2>1. CASE k # 1
    <3>1. k - 1 \in 1..Len(r) /\ d + (k - 1) = i - 1 /\ i # 1
      BY <1>1, <1>2, <2>1
    <3> QED
      BY <1>1, <1>5, <3>1
  <2> QED
    BY <2>1
<1>10. r[k].size = m
  BY <1>3 DEF m
<1>11. FrameAt(n, r, 0, k)
  BY <1>5, <1>7, <1>8, <1>9, <1>10 DEF FrameAt
<1> QED
  BY <1>2, <1>11 DEF k, d

LEMMA ParseKeepsAwaited ==
  ASSUME ReadInv, Parse
  PROVE  Awaited'
<1> DEFINE e == due[1]
           u == Append(queue, e)
           t == Tail(due)
           s == queue \o due
           q == Len(queue)
<1>1. ReadTypeOK /\ DueOrdered /\ QueueOrdered /\ Awaited
  BY DEF ReadInv, FramesKept
<1>2. /\ queue \in Seq(EventType) /\ due \in Seq(EventType) /\ q \in Nat
      /\ MaxEvents \in Nat
  BY <1>1, SizesAre DEF ReadTypeOK
<1>3. /\ due # <<>> /\ due' = t /\ t \in Seq(EventType)
  BY ParsesFirst
<1>4. /\ u \in Seq(EventType) /\ Len(u) = q + 1 /\ EndOf(u) = e
      /\ (\A i \in 1..q : u[i] = queue[i]) /\ u[Len(u)] = e
  BY <1>1, <1>3, QueueGoesOn
<1>5. s = u \o t
  BY <1>2, <1>3
<1>6. /\ s \in Seq(EventType) /\ Len(s) = Len(u) + Len(t) /\ Len(t) \in Nat
      /\ \A i \in 1..Len(u) : s[i] = u[i]
  <2> HIDE DEF s, t, u
  <2>1. u \in Seq(EventType) /\ t \in Seq(EventType)
    BY <1>3, <1>4
  <2> QED
    BY <1>5, <2>1, ConcatOf
<1>7. IF e.kind = "syn" THEN e.index = e.size ELSE e.index < e.size
  <2>1. 1 \in 1..Len(due)
    BY <1>2, <1>3
  <2> QED
    BY <1>1, <2>1 DEF DueOrdered
<1>8. e \in EventType
  BY <1>2, <1>3
<1>9. e.index \in Nat /\ e.size \in Nat
  BY <1>8 DEF EventType
<1> DEFINE c == \/ /\ q >= MaxEvents
                   /\ queue' = <<>> /\ dispatched' = <<>> /\ expected' = expected
                \/ /\ q < MaxEvents /\ e.kind = "syn" /\ queue' = <<>>
                   /\ \/ /\ "data" \notin KindsIn(u)
                         /\ dispatched' = <<>> /\ expected' = expected
                      \/ /\ dispatched' = u
                         /\ expected' = IF Complete(u) THEN expected \ {e.frame}
                                        ELSE expected
                \/ /\ q < MaxEvents /\ e.kind = "zero"
                   /\ queue' = <<>> /\ dispatched' = <<>> /\ expected' = expected
                \/ /\ q < MaxEvents /\ e.kind \notin {"syn", "zero"}
                   /\ queue' = u /\ dispatched' = <<>> /\ expected' = expected
<1>10. c
  BY ParseCases
<1>11. expected' \subseteq expected /\ (queue' = <<>> \/ queue' = u)
  BY <1>10
<1> SUFFICES ASSUME NEW n \in expected'
             PROVE  \E k \in 1..Len(queue' \o t) : FrameAt(n, queue' \o t, Len(queue'), k)
  <2>1. Awaited' <=> \A n \in expected' : \E k \in 1..Len(queue' \o due') :
                               FrameAt(n, queue' \o due', Len(queue'), k)
    BY DEF Awaited, FrameAt
  <2> HIDE DEF t, c
  <2> QED
    BY <1>3, <2>1
<1>12. PICK i \in 1..Len(s) : FrameAt(n, s, q, i)
  BY <1>1, <1>11 DEF Awaited
<1>13. i = 1 \/ i >= q + 2
  BY <1>1, <1>12, BeginsLater
<1> DEFINE m == s[i].size
<1> HIDE DEF s, t, u, c
<1>14. m \in Nat
  <2>1. s[i] \in EventType
    BY <1>6
  <2> QED
    BY <2>1 DEF EventType
<1>15. /\ i + m - 1 <= Len(s) /\ i + m - 1 > q /\ m <= MaxEvents
       /\ \A j \in 1..m : /\ s[i + j - 1].frame = n /\ s[i + j - 1].index = j
                          /\ s[i + j - 1].size = m /\ s[i + j - 1].kind # "zero"
       /\ \E j \in 1..m : s[i + j - 1].kind = "data"
  BY <1>12 DEF FrameAt
<1> HIDE DEF m
<1>16. m >= 1
  BY <1>14, <1>15
\* What is known of the next event if the frame began with the queue.
<1>17. ASSUME i = 1
       PROVE  /\ q + 1 <= m /\ s[q + 1] = e
              /\ e.frame = n /\ e.index = q + 1 /\ e.size = m /\ e.kind # "zero"
  <2>1. q + 1 \in 1..m
    BY <1>2, <1>14, <1>15, <1>17
  <2>2. i + (q + 1) - 1 = q + 1
    BY <1>2, <1>17
  <2>3. s[q + 1] = e
    BY <1>2, <1>4, <1>6
  <2> QED
    BY <1>2, <1>15, <2>1, <2>2, <2>3
<1>18. CASE queue' = u
  <2>1. e.kind # "syn"
    <3>1. u # <<>>
      BY <1>2, <1>4
    <3> QED
      BY <1>10, <1>18, <3>1 DEF c
  <2>2. i + m - 1 > q + 1
    <3>1. CASE i = 1
      <4>1. e.index < e.size /\ e.index = q + 1 /\ e.size = m
        BY <1>7, <1>17, <2>1, <3>1
      <4> QED
        BY <1>2, <1>14, <3>1, <4>1
    <3>2. CASE i >= q + 2
      BY <1>2, <1>6, <1>14, <1>16, <3>2
    <3> QED
      BY <1>13, <3>1, <3>2
  <2>3. FrameAt(n, s, q + 1, i)
    BY <1>12, <2>2 DEF FrameAt, m
  <2> QED
    BY <1>4, <1>5, <1>18, <2>3
<1>19. CASE queue' = <<>> /\ i >= q + 2
  <2>1. i \in (Len(u) + 1)..Len(u \o t)
    BY <1>2, <1>4, <1>5, <1>6, <1>19
  <2>2. FrameAt(n, u \o t, q, i)
    BY <1>5, <1>12
  <2>3. i - Len(u) \in 1..Len(t) /\ FrameAt(n, t, 0, i - Len(u))
    BY <1>2, <1>3, <1>4, <2>1, <2>2, FrameShifts
  <2>4. <<>> \o t = t /\ Len(<<>>) = 0
    BY <1>3
  <2> QED
    BY <1>19, <2>3, <2>4
<1>20. CASE queue' = <<>> /\ i = 1
  <2>1. /\ q + 1 <= m /\ e.frame = n /\ e.index = q + 1 /\ e.size = m
        /\ e.kind # "zero"
    BY <1>17, <1>20
  <2>2. q < MaxEvents
    BY <1>2, <1>14, <1>15, <2>1
  <2>3. u # <<>>
    BY <1>2, <1>4
  <2>4. /\ e.kind = "syn"
        /\ \/ "data" \notin KindsIn(u)
           \/ expected' = IF Complete(u) THEN expected \ {e.frame} ELSE expected
    BY <1>2, <1>10, <1>20, <2>1, <2>2, <2>3 DEF c
  <2>5. m = q + 1 /\ m = Len(u)
    BY <1>4, <1>7, <2>1, <2>4
  <2>6. \A j \in 1..m : s[i + j - 1] = u[j] /\ i + j - 1 = j
    <3> TAKE j \in 1..m
    <3>1. i + j - 1 = j
      BY <1>14, <1>20
    <3> QED
      BY <1>6, <2>5, <3>1
  <2>7. "data" \in KindsIn(u)
    <3>1. PICK j \in 1..m : s[i + j - 1].kind = "data"
      BY <1>15
    <3>2. u[j].kind = "data" /\ j \in DOMAIN u
      BY <1>4, <2>5, <2>6, <3>1
    <3> QED
      BY <3>2 DEF KindsIn
  <2>8. Complete(u)
    <3>1. EndOf(u).size = m /\ EndOf(u).frame = n
      BY <1>4, <2>1
    <3>2. \A j \in 1..m : Len(u) - m + j = j
      BY <1>14, <2>5
    <3>3. \A j \in 1..m : u[j].frame = n /\ u[j].index = j
      BY <1>15, <2>6
    <3> QED
      BY <1>14, <2>5, <3>1, <3>2, <3>3 DEF Complete
  <2>9. n \notin expected'
    BY <2>1, <2>4, <2>7, <2>8
  <2> QED
    BY <2>9
<1> QED
  BY <1>11, <1>13, <1>18, <1>19, <1>20

LEMMA ParseKeeps ==
  ASSUME ReadInv, Parse
  PROVE  ReadInv'
<1> DEFINE e == due[1]
           u == Append(queue, e)
<1>1. ReadTypeOK /\ DueOrdered /\ QueueOrdered /\ FramesWhole /\ Awaited
  BY DEF ReadInv, FramesKept
<1>2. /\ queue \in Seq(EventType) /\ due \in Seq(EventType) /\ Len(queue) \in Nat
      /\ MaxEvents \in Nat
  BY <1>1, SizesAre DEF ReadTypeOK
<1>3. /\ due # <<>> /\ e \in EventType
      /\ due' \in Seq(EventType) /\ Len(due') = Len(due) - 1
      /\ \A i \in 1..Len(due') : due'[i] = due[i + 1]
      /\ pos' \in 0..Len(buffer) /\ BytesKept'
  BY ParsesFirst
<1>4. /\ u \in Seq(EventType) /\ Len(u) = Len(queue) + 1 /\ EndOf(u) = e
      /\ u[Len(u)] = e
      /\ \A i \in 1..Len(u) :
           /\ u[i].kind = "zero" => i = Len(u)
           /\ u[i].kind = "syn" => i = Len(u)
           /\ u[i].break <= e.break
           /\ u[i].break = e.break => /\ u[i].frame = e.frame
                                      /\ u[i].index = e.index - Len(u) + i
  BY <1>1, <1>3, QueueGoesOn
<1>5. 1 \in 1..Len(due)
  BY <1>2, <1>3
<1>6. /\ e.break = breaks
      /\ IF e.kind = "syn" THEN e.index = e.size
         ELSE e.index < e.size /\ 1 < Len(due) /\ Continues(e, due[2])
  BY <1>1, <1>5 DEF DueOrdered
<1>7. UNCHANGED <<pipe, buffer, reading, reports, breaks, leftover>> /\ reading
  BY DEF Parse
<1> DEFINE c == \/ /\ Len(queue) >= MaxEvents
                   /\ queue' = <<>> /\ dispatched' = <<>> /\ expected' = expected
                \/ /\ Len(queue) < MaxEvents /\ e.kind = "syn" /\ queue' = <<>>
                   /\ \/ /\ "data" \notin KindsIn(u)
                         /\ dispatched' = <<>> /\ expected' = expected
                      \/ /\ dispatched' = u
                         /\ expected' = IF Complete(u) THEN expected \ {e.frame}
                                        ELSE expected
                \/ /\ Len(queue) < MaxEvents /\ e.kind = "zero"
                   /\ queue' = <<>> /\ dispatched' = <<>> /\ expected' = expected
                \/ /\ Len(queue) < MaxEvents /\ e.kind \notin {"syn", "zero"}
                   /\ queue' = u /\ dispatched' = <<>> /\ expected' = expected
<1>8. c
  BY ParseCases
<1> HIDE DEF u, c
<1>9. ReadTypeOK'
  <2>1. expected' \subseteq expected
    BY <1>8 DEF c
  <2>2. queue' \in Seq(EventType) /\ Len(queue') <= MaxEvents
    <3>1. CASE queue' = <<>>
      BY <1>2, <3>1
    <3>2. CASE queue' = u /\ Len(queue) < MaxEvents
      BY <1>2, <1>4, <3>2
    <3> QED
      BY <1>8, <3>1, <3>2 DEF c
  <2>3. dispatched' \in Seq(EventType)
    <3>1. dispatched' = <<>> \/ dispatched' = u
      BY <1>8 DEF c
    <3>2. <<>> \in Seq(EventType)
      OBVIOUS
    <3> QED
      BY <1>4, <3>1, <3>2
  <2>4. /\ pipe' = pipe /\ buffer' = buffer /\ reading' = reading /\ reports' = reports
        /\ breaks' = breaks /\ leftover' = leftover
    BY <1>7
  <2> QED
    BY <1>1, <1>3, <1>7, <2>1, <2>2, <2>3, <2>4 DEF ReadTypeOK
<1>10. DueOrdered'
  <2> SUFFICES ASSUME NEW i \in 1..Len(due')
               PROVE  /\ due'[i].break = breaks
                      /\ due'[i].frame < reports
                      /\ IF due'[i].kind = "syn" THEN due'[i].index = due'[i].size
                         ELSE /\ due'[i].index < due'[i].size
                              /\ i < Len(due') /\ Continues(due'[i], due'[i + 1])
    BY <1>7 DEF DueOrdered, Continues
  <2>1. i + 1 \in 1..Len(due) /\ due'[i] = due[i + 1]
    BY <1>2, <1>3
  <2>2. /\ due[i + 1].break = breaks /\ due[i + 1].frame < reports
        /\ IF due[i + 1].kind = "syn" THEN due[i + 1].index = due[i + 1].size
           ELSE /\ due[i + 1].index < due[i + 1].size
                /\ i + 1 < Len(due) /\ Continues(due[i + 1], due[(i + 1) + 1])
    BY <1>1, <2>1 DEF DueOrdered
  <2>3. i + 1 < Len(due) => i < Len(due') /\ due'[i + 1] = due[(i + 1) + 1]
    BY <1>2, <1>3, <2>1
  <2> QED
    BY <2>1, <2>2, <2>3
<1>11. QueueOrdered'
  <2>1. CASE queue' = <<>>
    BY <2>1 DEF QueueOrdered
  <2>2. CASE queue' = u /\ e.kind \notin {"syn", "zero"}
    <3>1. u # <<>>
      BY <1>2, <1>4
    <3>2. Continues(e, due[2]) /\ e.index < e.size /\ 1 < Len(due)
      BY <1>6, <2>2
    <3>3. due' # <<>> /\ due'[1] = due[2]
      <4>1. Len(due') >= 1 /\ 1 \in 1..Len(due') /\ 1 + 1 = 2
        BY <1>2, <1>3, <3>2
      <4> QED
        BY <1>3, <4>1
    <3>4. \A i \in 1..Len(u) :
            /\ u[i].kind \notin {"syn", "zero"}
            /\ u[i].break <= EndOf(u).break
            /\ u[i].break = EndOf(u).break =>
                 /\ u[i].frame = EndOf(u).frame
                 /\ u[i].index = EndOf(u).index - Len(u) + i
      <4> TAKE i \in 1..Len(u)
      <4>1. u[i].kind \notin {"syn", "zero"}
        BY <1>4, <2>2
      <4> QED
        BY <1>4, <4>1
    <3>5. EndOf(u).break = breaks /\ breaks <= breaks
      BY <1>1, <1>4, <1>6 DEF ReadTypeOK
    <3>6. Continues(EndOf(u), due'[1]) /\ EndOf(u).index < EndOf(u).size
      BY <1>4, <3>2, <3>3
    <3>7. queue' = u /\ breaks' = breaks
      BY <1>7, <2>2
    <3> HIDE DEF e
    <3>8. EndOf(queue)' = EndOf(u)
      BY <3>7 DEF EndOf
    <3> QED
      BY <3>1, <3>3, <3>4, <3>5, <3>6, <3>7, <3>8 DEF QueueOrdered, Continues
  <2> QED
    BY <1>8, <2>1, <2>2 DEF c
<1>12. FramesWhole'
  <2>1. CASE dispatched' = <<>>
    BY <2>1 DEF FramesWhole
  <2>2. CASE dispatched' = u /\ e.kind = "syn"
    <3>1. e.index = e.size
      BY <1>6, <2>2
    <3>2. \A i \in DOMAIN u :
            /\ u[i].kind # "zero"
            /\ u[i].break = EndOf(u).break =>
                 /\ u[i].frame = EndOf(u).frame
                 /\ u[i].index = EndOf(u).size - Len(u) + i
      <4> TAKE i \in DOMAIN u
      <4>1. i \in 1..Len(u)
        BY <1>4
      <4>2. u[i].kind # "zero"
        BY <1>4, <2>2, <4>1
      <4> QED
        BY <1>4, <3>1, <4>1, <4>2
    <3>3. EndOf(dispatched)' = EndOf(u)
      BY <2>2 DEF EndOf
    <3>4. EndOf(u).kind = "syn" /\ EndOf(u).index = EndOf(u).size
      BY <1>4, <2>2, <3>1
    <3> QED
      BY <2>2, <3>2, <3>3, <3>4 DEF FramesWhole
  <2> QED
    BY <1>8, <2>1, <2>2 DEF c
<1>13. Awaited'
  BY ParseKeepsAwaited
<1> QED
  BY <1>3, <1>9, <1>10, <1>11, <1>12, <1>13 DEF ReadInv, FramesKept

-----------------------------------------------------------------------------
(* The theorems *)

LEMMA StepKept ==
  ReadInv /\ [ReadNext]_readVars => ReadInv'
<1> SUFFICES ASSUME ReadInv, [ReadNext]_readVars
             PROVE  ReadInv'
  OBVIOUS
<1>1. CASE ReadSome
  BY <1>1, FillKeeps DEF ReadSome
<1>2. CASE Parse
  BY <1>2, ParseKeeps
<1>3. CASE Move
  BY <1>3, MoveKeeps
<1>4. ASSUME NEW f \in Frames, Report(f)
      PROVE  ReadInv'
  BY <1>4, ReportKeeps
<1>5. ASSUME NEW f \in Frames, NEW k \in 2..(Len(f) + 1), Overrun(f, k)
      PROVE  ReadInv'
  BY <1>5, OverrunKeeps
<1>6. CASE Reopen
  BY <1>6, ReopenKeeps
<1>7. CASE UNCHANGED readVars
  <2>1. /\ pipe' = pipe /\ buffer' = buffer /\ pos' = pos /\ reading' = reading
        /\ queue' = queue /\ dispatched' = dispatched /\ due' = due
        /\ expected' = expected /\ reports' = reports /\ breaks' = breaks
        /\ leftover' = leftover
    BY <1>7 DEF readVars
  <2>2. FramesKept'
    BY <2>1, FramesStay DEF ReadInv
  <2>3. ReadTypeOK'
    BY <2>1 DEF ReadInv, ReadTypeOK
  <2>4. BytesKept'
    BY <2>1 DEF ReadInv, BytesKept, BytesOf, ByteOf
  <2> QED
    BY <2>2, <2>3, <2>4 DEF ReadInv
<1> QED
  BY <1>1, <1>2, <1>3, <1>4, <1>5, <1>6, <1>7 DEF ReadNext

LEMMA AlwaysKept == ReadSpec => []ReadInv
  BY InitKept, StepKept, PTL DEF ReadSpec

\* The variables keep their types, for any sizes: the buffer of wcmReadPacket and the
\* queue of usbParseEvent never hold more than there is room for, and wcmReadPacket
\* leaves less than one event in the buffer.
THEOREM TypeCorrect == ReadSpec => []ReadTypeOK
<1>1. ReadInv => ReadTypeOK
  BY DEF ReadInv
<1> QED
  BY <1>1, AlwaysKept, PTL

\* In whatever pieces read delivers them, the bytes that wcmReadPacket has not parsed
\* and those the kernel holds are those of the events due, in order.
THEOREM BytesInOrder == ReadSpec => []BytesKept
<1>1. ReadInv => BytesKept
  BY DEF ReadInv
<1> QED
  BY <1>1, AlwaysKept, PTL

\* What usbParseSynEvent dispatches is one frame without a gap up to its SYN_REPORT and
\* without a serial number of 0, for any size of the queue, wherever the queue
\* overflows, the kernel loses events or the node is opened again.
THEOREM FramesUnmixed == ReadSpec => []FramesWhole
<1>1. ReadInv => FramesWhole
  BY DEF ReadInv, FramesKept
<1> QED
  BY <1>1, AlwaysKept, PTL

\* Each frame of data that fits the queue of usbParseEvent, and that the kernel does not
\* lose, is dispatched from its first event to its last once all is parsed.
THEOREM NothingLost == ReadSpec => []NoFrameLost
<1>1. ReadInv => NoFrameLost
  <2> SUFFICES ASSUME ReadInv, due = <<>>
               PROVE  expected = {}
    BY DEF NoFrameLost
  <2>1. expected \subseteq {due[i].frame : i \in DOMAIN due}
    BY AwaitedAreDue DEF ReadInv, FramesKept
  <2> QED
    BY <2>1
<1> QED
  BY <1>1, AlwaysKept, PTL
=============================================================================
