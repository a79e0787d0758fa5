------------------------ MODULE ChunkReEncoderProofs ------------------------
(***************************************************************************)
(* For every chunk size and every client body: the types, the memory       *)
(* bound, the order of the bytes, the chain of signatures, and that what   *)
(* is delivered is whole.                                                  *)
(***************************************************************************)
EXTENDS ChunkReEncoder, WellFoundedInduction, TLAPS

-----------------------------------------------------------------------------
(* Sequences                                                               *)

\* Read bytes are positions, and stay so at the end of the buffer.
LEMMA BytesGrow ==
    ASSUME NEW b \in Bytes, NEW n \in Nat, NEW a \in Nat
    PROVE  /\ b \o [i \in 1..a |-> n + i] \in Bytes
           /\ Len(b \o [i \in 1..a |-> n + i]) = Len(b) + a
  <1>1. [i \in 1..a |-> n + i] \in Bytes
    BY DEF Bytes
  <1>2. Len([i \in 1..a |-> n + i]) = a
    BY <1>1
  <1> QED
    BY <1>1, <1>2 DEF Bytes

LEMMA EmptySeq == \A S : << >> \in Seq(S)
  OBVIOUS

LEMMA JoinOne ==
    ASSUME NEW a, NEW b
    PROVE  /\ << >> \o << >> = << >>
           /\ <<a>> \o << >> = <<a>> /\ << >> \o <<b>> = <<b>>
           /\ <<a>> \o <<b>> = <<a, b>>
  <1>1. << >> \in Seq({a, b}) /\ <<a>> \in Seq({a, b}) /\ <<b>> \in Seq({a, b})
    OBVIOUS
  <1>2. << >> \o << >> = << >>
    OBVIOUS
  <1>3. <<a>> \o << >> = <<a>>
    BY <1>1
  <1>4. << >> \o <<b>> = <<b>>
    BY <1>1
  <1>5. <<a>> \o <<b>> = <<a, b>>
    <2> DEFINE s == <<a>> \o <<b>>
               t == <<a, b>>
    <2>1. s \in Seq({a, b}) /\ Len(s) = 2 /\ s[1] = a /\ s[2] = b
      BY <1>1
    <2>2. t \in Seq({a, b}) /\ Len(t) = 2 /\ t[1] = a /\ t[2] = b
      OBVIOUS
    <2> HIDE DEF s, t
    <2>3. \A i \in 1..2 : s[i] = t[i]
      BY <2>1, <2>2
    <2>4. s = t
      BY <2>1, <2>2, <2>3
    <2> QED
      BY <2>4 DEF s, t
  <1> QED
    BY <1>2, <1>3, <1>4, <1>5

LEMMA ShortLists ==
    ASSUME NEW S, NEW a \in S, NEW b \in S
    PROVE  /\ << >> \in Seq(S) /\ <<a>> \in Seq(S) /\ <<a, b>> \in Seq(S)
           /\ Len(<< >>) = 0 /\ Len(<<a>>) = 1 /\ Len(<<a, b>>) = 2
           /\ <<a>>[1] = a /\ <<a, b>>[1] = a /\ <<a, b>>[2] = b
  OBVIOUS

\* Moving the head of one list to the end of another keeps the whole.
LEMMA MoveHead ==
    ASSUME NEW S, NEW p \in Seq(S), NEW q \in Seq(S), q # << >>
    PROVE  /\ Append(p, Head(q)) \in Seq(S) /\ Tail(q) \in Seq(S)
           /\ Len(Tail(q)) = Len(q) - 1
           /\ \A i \in 1..Len(Tail(q)) : Tail(q)[i] = q[i + 1]
           /\ Append(p, Head(q)) \o Tail(q) = p \o q
  <1>1. Append(p, Head(q)) \in Seq(S) /\ Tail(q) \in Seq(S)
    OBVIOUS
  <1>2. Len(Tail(q)) = Len(q) - 1
    OBVIOUS
  <1>3. \A i \in 1..Len(Tail(q)) : Tail(q)[i] = q[i + 1]
    OBVIOUS
  <1>4. Append(p, Head(q)) \o Tail(q) = p \o q
    OBVIOUS
  <1> QED
    BY <1>1, <1>2, <1>3, <1>4

\* What Emit cuts off and what it leaves.
LEMMA CutBuffer ==
    ASSUME TypeOK
    PROVE  /\ EmitSize \in 0..Len(rawBuf)
           /\ EmitSize <= ChunkSize
           /\ EmitData \in Bytes
           /\ Len(EmitData) = EmitSize
           /\ \A j \in 1..EmitSize : EmitData[j] = rawBuf[j]
           /\ Leftover \in Bytes
           /\ Len(Leftover)
                = Len(rawBuf) - EmitSize
           /\ \A j \in 1..(Len(rawBuf) - EmitSize) :
                 Leftover[j]
                   = rawBuf[EmitSize + j]
  <1>1. rawBuf \in Seq(Nat \ {0}) /\ ChunkSize \in Nat
    BY ChunkAssumption DEF TypeOK, Bytes
  <1>2. EmitSize \in 0..Len(rawBuf) /\ EmitSize <= ChunkSize
    BY <1>1 DEF EmitSize
  <1>3. /\ EmitData \in Bytes
        /\ Len(EmitData) = EmitSize
        /\ \A j \in 1..EmitSize : EmitData[j] = rawBuf[j]
    BY <1>1, <1>2 DEF Bytes, EmitData
  <1>4. /\ Leftover \in Bytes
        /\ Len(Leftover)
             = Len(rawBuf) - EmitSize
        /\ \A j \in 1..(Len(rawBuf) - EmitSize) :
              Leftover[j]
                = rawBuf[EmitSize + j]
    BY <1>1, <1>2 DEF Bytes, Leftover
  <1> QED
    BY <1>2, <1>3, <1>4

-----------------------------------------------------------------------------
(* Types                                                                   *)

\* A body that stops inside its last frame never gives all of that frame.
FrameStaysShort ==
    InLastFrame /\ upload.cut = "data" =>
        srcRemaining >= upload.frames[Len(upload.frames)] - upload.got

TypeInv == TypeOK /\ FrameStaysShort

LEMMA InitTypeInv == Init => TypeInv
  <1> SUFFICES ASSUME Init PROVE TypeInv
    OBVIOUS
  <1>1. ValidUpload(upload)
    BY ChunkAssumption DEF Init
  <1>2. upload.frames \in Seq(Nat \ {0}) /\ Len(upload.frames) \in Nat
    BY <1>1 DEF ValidUpload
  <1>3. TypeOK
    <2>1. /\ << >> \in Bytes /\ << >> \in Seq(Bytes)
          /\ << >> \in Seq(ChunkSet)
      BY EmptySeq DEF Bytes
    <2>2. 1 \in 1..(Len(upload.frames) + 1)
      BY <1>2
    <2> QED
      BY <1>1, <2>1, <2>2 DEF Init, TypeOK
  <1>4. FrameStaysShort
    BY <1>1, <1>2 DEF Init, FrameStaysShort, InLastFrame, ValidUpload
  <1> QED
    BY <1>3, <1>4 DEF TypeInv

\* A read gives no more than the frame still has, and no more than a chunk.
LEMMA ArrivesInFrame ==
    ASSUME TypeInv, srcRemaining > 0
    PROVE  /\ Arrives \in 0..srcRemaining
           /\ Arrives <= ChunkSize
           /\ Arrives <= Unread
  <1>1. /\ srcRemaining \in Nat /\ ChunkSize \in Nat
        /\ upload.got \in Nat /\ upload.frames \in Seq(Nat \ {0})
    BY ChunkAssumption DEF TypeInv, TypeOK, ValidUpload
  <1>2. CASE InLastFrame /\ upload.cut = "data"
    <2>1. /\ upload.frames[Len(upload.frames)] \in Nat
          /\ upload.got < upload.frames[Len(upload.frames)]
      BY <1>1, <1>2 DEF TypeInv, TypeOK, ValidUpload
    <2>2. Unread \in 0..srcRemaining
      BY <1>1, <1>2, <2>1 DEF TypeInv, FrameStaysShort, Unread
    <2> QED
      BY <1>1, <2>2 DEF Arrives, ToRead
  <1>3. CASE ~(InLastFrame /\ upload.cut = "data")
    <2>1. Unread = srcRemaining
      BY <1>3 DEF Unread
    <2> QED
      BY <1>1, <2>1 DEF Arrives, ToRead
  <1> QED
    BY <1>2, <1>3

\* Emit writes a chunk of data, the final chunk, or both in this order.
LEMMA EmitWrites ==
    ASSUME Emit
    PROVE  LET final == Chunk(<< >>, Append(NextSig, << >>))
           IN \/ EmitData = << >> /\ done' /\ outputBuf' = <<final>>
              \/ EmitData = << >> /\ ~done' /\ outputBuf' = << >>
              \/ /\ EmitData # << >> /\ done'
                 /\ outputBuf' = <<Chunk(EmitData, NextSig), final>>
              \/ /\ EmitData # << >> /\ ~done'
                 /\ outputBuf' = <<Chunk(EmitData, NextSig)>>
  <1>1. outputBuf' = DataChunk \o (IF done' THEN FinalChunk ELSE << >>)
    BY DEF Emit
  <1>2. done' \in BOOLEAN
    BY DEF Emit
  <1> QED
    BY <1>1, <1>2, JoinOne DEF DataChunk, FinalChunk

\* A chunk that Emit writes is a chunk.
LEMMA EmitTypes ==
    ASSUME TypeOK, Emit
    PROVE  /\ rawBuf' \in Bytes /\ prevSig' \in Seq(Bytes)
           /\ done' \in BOOLEAN /\ outputBuf' \in Seq(ChunkSet)
  <1>1. rawBuf' = Leftover /\ prevSig' = NextSig /\ done' \in BOOLEAN
    BY DEF Emit
  <1>2. EmitData \in Bytes /\ Leftover \in Bytes /\ << >> \in Bytes
    BY CutBuffer, EmptySeq DEF Bytes
  <1>3. NextSig \in Seq(Bytes)
    BY <1>2 DEF NextSig, Sign, TypeOK
  <1>4. Append(NextSig, << >>) \in Seq(Bytes)
    BY <1>2, <1>3
  <1>5. /\ Chunk(EmitData, NextSig) \in ChunkSet
        /\ Chunk(<< >>, Append(NextSig, << >>)) \in ChunkSet
    BY <1>2, <1>3, <1>4 DEF Chunk, ChunkSet
  <1>6. outputBuf' \in Seq(ChunkSet)
    <2> DEFINE c1 == Chunk(EmitData, NextSig)
               c2 == Chunk(<< >>, Append(NextSig, << >>))
    <2>1. outputBuf' \in {<< >>, <<c1>>, <<c2>>, <<c1, c2>>}
      BY EmitWrites
    <2>2. c1 \in ChunkSet /\ c2 \in ChunkSet
      BY <1>5
    <2> HIDE DEF c1, c2
    <2>3. << >> \in Seq(ChunkSet)
      BY EmptySeq
    <2>4. <<c1>> \in Seq(ChunkSet) /\ <<c2>> \in Seq(ChunkSet)
      BY <2>2
    <2>5. <<c1, c2>> \in Seq(ChunkSet)
      BY <2>2
    <2> QED
      BY <2>1, <2>3, <2>4, <2>5, Zenon
  <1> QED
    BY <1>1, <1>2, <1>3, <1>6

LEMMA NextTypeInv == TypeInv /\ [Next]_vars => TypeInv'
  <1> SUFFICES ASSUME TypeInv, [Next]_vars PROVE TypeInv'
    OBVIOUS
  <1> USE DEF TypeInv
  <1>1. CASE ReadData
    <2>1. /\ Arrives \in 0..srcRemaining /\ Arrives <= Unread
          /\ srcRemaining \in Nat /\ taken \in Nat /\ rawBuf \in Bytes
      BY <1>1, ArrivesInFrame DEF ReadData, TypeOK
    <2>2. rawBuf' \in Bytes /\ taken' \in Nat /\ srcRemaining' \in Nat
      BY <1>1, <2>1, BytesGrow DEF ReadData
    <2>3. status' \in {"sending", "failed"}
      BY <1>1 DEF ReadData, Filling, Reading
    <2>4. TypeOK'
      BY <1>1, <2>2, <2>3 DEF ReadData, TypeOK
    <2>5. FrameStaysShort'
      <3>1. UNCHANGED <<upload, next>> /\ srcRemaining' = srcRemaining - Arrives
        BY <1>1 DEF ReadData
      <3> SUFFICES ASSUME InLastFrame, upload.cut = "data"
                   PROVE srcRemaining - Arrives
                           >= upload.frames[Len(upload.frames)] - upload.got
        BY <3>1 DEF FrameStaysShort, InLastFrame
      <3>2. /\ upload.frames[Len(upload.frames)] \in Nat
            /\ upload.got \in Nat
        BY DEF TypeOK, ValidUpload
      <3> QED
        BY <2>1, <3>2 DEF Unread
    <2> QED
      BY <2>4, <2>5
  <1>2. CASE ReadHeader
    <2>1. /\ upload.frames \in Seq(Nat \ {0}) /\ Len(upload.frames) \in Nat
          /\ next \in 1..Len(upload.frames)
          /\ upload.got \in Nat
      BY <1>2 DEF ReadHeader, InLastFrame, TypeOK, ValidUpload
    <2>2. srcRemaining' \in Nat /\ next' \in 1..(Len(upload.frames) + 1)
      BY <1>2, <2>1 DEF ReadHeader
    <2>3. TypeOK'
      BY <1>2, <2>2 DEF ReadHeader, TypeOK, encoder
    <2>4. FrameStaysShort'
      <3>1. /\ upload' = upload /\ next' = next + 1
            /\ srcRemaining' = upload.frames[next]
        BY <1>2 DEF ReadHeader
      <3>2. InLastFrame' => next = Len(upload.frames)
        BY <2>1, <3>1 DEF InLastFrame
      <3>3. upload.frames[next] \in Nat
        BY <2>1
      <3> QED
        BY <2>1, <3>1, <3>2, <3>3 DEF FrameStaysShort
    <2> QED
      BY <2>3, <2>4
  <1>3. CASE ReadEnd
    BY <1>3 DEF ReadEnd, TypeOK, FrameStaysShort, InLastFrame, encoder
  <1>4. CASE ReadFails \/ Break \/ Close
    <2>1. /\ UNCHANGED <<upload, source, encoder, wire>>
          /\ status' \in {"failed", "broken", "delivered"}
      BY <1>4 DEF ReadFails, Break, Close
    <2> QED
      BY <2>1 DEF TypeOK, FrameStaysShort, InLastFrame, source, encoder
  <1>5. CASE Emit
    <2>1. UNCHANGED <<upload, source, wire, status>>
      BY <1>5 DEF Emit
    <2>2. TypeOK'
      BY <1>5, <2>1, EmitTypes DEF TypeOK, source
    <2>3. FrameStaysShort'
      BY <2>1 DEF FrameStaysShort, InLastFrame, source
    <2> QED
      BY <2>2, <2>3
  <1>6. CASE Drain
    <2>1. /\ UNCHANGED <<upload, source, rawBuf, prevSig, done, status>>
          /\ wire' = Append(wire, Head(outputBuf))
          /\ outputBuf' = Tail(outputBuf) /\ outputBuf # << >>
      BY <1>6 DEF Drain
    <2>2. wire' \in Seq(ChunkSet) /\ outputBuf' \in Seq(ChunkSet)
      BY <2>1, MoveHead DEF TypeOK
    <2>3. TypeOK'
      BY <2>1, <2>2 DEF TypeOK, source
    <2>4. FrameStaysShort'
      BY <2>1 DEF FrameStaysShort, InLastFrame, source
    <2> QED
      BY <2>3, <2>4
  <1>7. CASE UNCHANGED vars
    BY <1>7 DEF vars, TypeOK, FrameStaysShort, InLastFrame
  <1> QED
    BY <1>1, <1>2, <1>3, <1>4, <1>5, <1>6, <1>7 DEF Next, Ended

\* Every state of an upload is well typed.
THEOREM TypeCorrect == Spec => []TypeOK
  <1>1. TypeInv => TypeOK
    BY DEF TypeInv
  <1> QED
    BY <1>1, InitTypeInv, NextTypeInv, PTL DEF Spec

-----------------------------------------------------------------------------
(* Memory                                                                  *)

LEMMA InitMemory == Init => MemoryBounded
  BY ChunkAssumption DEF Init, MemoryBounded

\* A read starts below one chunk and adds at most one; Emit finds its output
\* buffer empty.
LEMMA NextMemory ==
    TypeInv /\ MemoryBounded /\ [Next]_vars => MemoryBounded'
  <1> SUFFICES ASSUME TypeInv, MemoryBounded, [Next]_vars
               PROVE MemoryBounded'
    OBVIOUS
  <1>0. /\ rawBuf \in Bytes /\ taken \in Nat /\ ChunkSize \in Nat \ {0}
        /\ outputBuf \in Seq(ChunkSet)
    BY ChunkAssumption DEF TypeInv, TypeOK
  <1>1. CASE ReadData
    <2>1. /\ Arrives \in Nat /\ Arrives <= ChunkSize
          /\ Len(rawBuf) < ChunkSize /\ outputBuf' = outputBuf
      BY <1>1, ArrivesInFrame DEF ReadData, Filling
    <2>2. Len(rawBuf') = Len(rawBuf) + Arrives
      BY <1>0, <1>1, <2>1, BytesGrow DEF ReadData
    <2>3. Len(rawBuf) \in Nat
      BY <1>0 DEF Bytes
    <2>4. Len(rawBuf') < 2 * ChunkSize
      BY <1>0, <2>1, <2>2, <2>3
    <2> QED
      BY <2>1, <2>4 DEF MemoryBounded
  <1>2. CASE Emit
    <2>1. rawBuf' = Leftover
      BY <1>2 DEF Emit
    <2>2. /\ Len(EmitData) <= ChunkSize
          /\ Len(Leftover) \in Nat /\ Len(Leftover) <= Len(rawBuf)
      BY CutBuffer DEF TypeInv, TypeOK, Bytes
    <2>3. Len(Leftover) < 2 * ChunkSize
      BY <1>0, <2>2 DEF MemoryBounded, Bytes
    <2>4. Len(Chunk(EmitData, NextSig).data) <= ChunkSize
          /\ Len(Chunk(<< >>, Append(NextSig, << >>)).data) <= ChunkSize
      BY <1>0, <2>2 DEF Chunk
    <2>5. /\ Len(outputBuf') <= 2
          /\ \A i \in 1..Len(outputBuf') : Len(outputBuf'[i].data) <= ChunkSize
      <3> DEFINE c1 == Chunk(EmitData, NextSig)
                 c2 == Chunk(<< >>, Append(NextSig, << >>))
      <3>1. outputBuf' \in {<< >>, <<c1>>, <<c2>>, <<c1, c2>>}
        BY <1>2, EmitWrites
      <3>2. Len(c1.data) <= ChunkSize /\ Len(c2.data) <= ChunkSize
        BY <2>4
      <3> HIDE DEF c1, c2
      <3>3. CASE outputBuf' = << >>
        BY <3>3, ShortLists
      <3>4. CASE outputBuf' = <<c1>>
        BY <3>2, <3>4, ShortLists
      <3>5. CASE outputBuf' = <<c2>>
        BY <3>2, <3>5, ShortLists
      <3>6. CASE outputBuf' = <<c1, c2>>
        BY <3>2, <3>6, ShortLists
      <3> QED
        BY <3>1, <3>3, <3>4, <3>5, <3>6
    <2> QED
      BY <2>1, <2>3, <2>5 DEF MemoryBounded
  <1>3. CASE Drain
    <2>1. /\ rawBuf' = rawBuf /\ outputBuf' = Tail(outputBuf)
          /\ outputBuf # << >>
      BY <1>3 DEF Drain
    <2>2. /\ Len(outputBuf') = Len(outputBuf) - 1
          /\ \A i \in 1..Len(outputBuf') : outputBuf'[i] = outputBuf[i + 1]
      BY <1>0, <2>1
    <2> QED
      BY <1>0, <2>1, <2>2 DEF MemoryBounded
  <1>4. CASE UNCHANGED <<rawBuf, outputBuf>>
    BY <1>4 DEF MemoryBounded
  <1>5. ASSUME ReadHeader \/ ReadEnd \/ ReadFails \/ Break \/ Close
                 \/ UNCHANGED vars
        PROVE  UNCHANGED <<rawBuf, outputBuf>>
    BY <1>5 DEF ReadHeader, ReadEnd, ReadFails, Break, Close, encoder, vars
  <1> QED
    BY <1>1, <1>2, <1>3, <1>4, <1>5 DEF Next, Ended

\* The router's memory for an upload does not grow with the object or with the
\* client's frames.
THEOREM MemoryIsBounded == Spec => []MemoryBounded
  <1>1. TypeInv /\ MemoryBounded /\ [Next]_vars
          => TypeInv' /\ MemoryBounded'
    BY NextTypeInv, NextMemory
  <1> QED
    BY <1>1, InitTypeInv, InitMemory, PTL DEF Spec

-----------------------------------------------------------------------------
(* The order of the bytes                                                  *)

\* What makes InOrder inductive: a chunk is cut short only at the end.
Order ==
    /\ InOrder
    /\ ~done => Len(Chunks) * ChunkSize <= taken
    /\ srcEOF => Len(rawBuf) < ChunkSize
    /\ done => srcEOF

LEMMA SameList ==
    ASSUME NEW S, NEW s \in Seq(S), NEW t \in Seq(S), Len(s) = Len(t),
           \A i \in 1..Len(s) : s[i] = t[i]
    PROVE  s = t
  OBVIOUS

LEMMA JoinedLists ==
    ASSUME NEW S, NEW p \in Seq(S), NEW q \in Seq(S)
    PROVE  /\ p \o q \in Seq(S) /\ Len(p \o q) = Len(p) + Len(q)
           /\ \A j \in 1..(Len(p) + Len(q)) :
                 (p \o q)[j] = IF j <= Len(p) THEN p[j] ELSE q[j - Len(p)]
  OBVIOUS

\* The positions after b, up to n.
Run(b, n) == [j \in 1..(n - b) |-> b + j]

LEMMA RunIsBytes ==
    ASSUME NEW b \in Nat, NEW n \in Nat, b <= n
    PROVE  /\ Run(b, n) \in Bytes /\ Len(Run(b, n)) = n - b
           /\ \A j \in 1..(n - b) : Run(b, n)[j] = b + j
  BY DEF Run, Bytes

LEMMA RunsJoin ==
    ASSUME NEW b \in Nat, NEW n \in Nat, NEW a \in Nat, b <= n
    PROVE  Run(b, n) \o [i \in 1..a |-> n + i] = Run(b, n + a)
  <1> DEFINE d == n - b
             N == n + a
             p == Run(b, n)
             q == [i \in 1..a |-> n + i]
             r == Run(b, N)
             s == p \o q
  <1>1. d \in Nat /\ N \in Nat /\ b <= N /\ n = b + d /\ N - b = d + a
    OBVIOUS
  <1>2. p \in Bytes /\ Len(p) = d /\ \A j \in 1..d : p[j] = b + j
    BY RunIsBytes
  <1>3. q \in Bytes /\ Len(q) = a /\ \A j \in 1..a : q[j] = n + j
    BY DEF Bytes
  <1> HIDE DEF d, p, q, N
  <1>4. r \in Bytes /\ Len(r) = d + a /\ \A j \in 1..(d + a) : r[j] = b + j
    BY <1>1, RunIsBytes
  <1> HIDE DEF r
  <1>5. /\ s \in Bytes /\ Len(s) = d + a
        /\ \A j \in 1..(d + a) : s[j] = IF j <= d THEN p[j] ELSE q[j - d]
    BY <1>1, <1>2, <1>3, JoinedLists DEF Bytes
  <1> HIDE DEF s
  <1>6. ASSUME NEW j \in 1..(d + a) PROVE s[j] = r[j]
    <2>1. CASE j <= d
      <3>1. j \in 1..d
        BY <1>1, <2>1
      <3> QED
        BY <1>2, <1>4, <1>5, <2>1, <3>1
    <2>2. CASE ~(j <= d)
      <3>1. j - d \in 1..a
        BY <1>1, <2>2
      <3>2. s[j] = q[j - d]
        BY <1>5, <2>2
      <3>3. q[j - d] = n + (j - d)
        BY <1>3, <3>1
      <3>4. n + (j - d) = b + j
        BY <1>1
      <3> QED
        BY <1>4, <3>2, <3>3, <3>4
    <2> QED
      BY <2>1, <2>2
  <1>7. s = r
    BY <1>4, <1>5, <1>6, SameList DEF Bytes
  <1> QED
    BY <1>7 DEF p, q, r, s, N

\* Multiples of the chunk size.
LEMMA Multiples ==
    ASSUME NEW m \in Nat, NEW i \in 1..m
    PROVE  /\ m * ChunkSize \in Nat
           /\ (m + 1) * ChunkSize = m * ChunkSize + ChunkSize
           /\ (i - 1) * ChunkSize \in Nat
           /\ (i - 1) * ChunkSize + ChunkSize <= m * ChunkSize
  <1>1. ChunkSize \in Nat
    BY ChunkAssumption
  <1>2. m * ChunkSize \in Nat /\ (m + 1) * ChunkSize = m * ChunkSize + ChunkSize
    BY <1>1
  <1>3. PICK d \in Nat : m = i + d
    <2>1. m - i \in Nat /\ m = i + (m - i)
      OBVIOUS
    <2> QED
      BY <2>1
  <1>4. d * ChunkSize \in Nat /\ i * ChunkSize \in Nat /\ (i - 1) * ChunkSize \in Nat
    BY <1>1
  <1>5. /\ m * ChunkSize = i * ChunkSize + d * ChunkSize
        /\ (i - 1) * ChunkSize + ChunkSize = i * ChunkSize
    BY <1>1, <1>3
  <1> QED
    BY <1>1, <1>2, <1>4, <1>5

\* A full piece stays what it is when more is read.
LEMMA PieceStays ==
    ASSUME NEW m \in Nat, NEW i \in 1..m, NEW n \in Nat, NEW k \in Nat,
           m * ChunkSize <= n
    PROVE  Piece(i, n) = Piece(i, n + k)
  <1> DEFINE p == (i - 1) * ChunkSize
             N == n + k
  <1>1. p \in Nat /\ p + ChunkSize <= m * ChunkSize /\ m * ChunkSize \in Nat
    BY Multiples
  <1>2. ChunkSize \in Nat
    BY ChunkAssumption
  <1>3. N \in Nat /\ n <= N
    OBVIOUS
  <1>4. \A x \in Nat :
           Piece(i, x) = [j \in 1..(IF x - p < ChunkSize THEN x - p ELSE ChunkSize)
                            |-> p + j]
    BY DEF Piece
  <1> HIDE DEF p, N
  <1>5. ~(n - p < ChunkSize) /\ ~(N - p < ChunkSize)
    BY <1>1, <1>2, <1>3
  <1>6. Piece(i, n) = Piece(i, N)
    BY <1>3, <1>4, <1>5
  <1> QED
    BY <1>6 DEF N

\* While the final chunk is not written, rawBuf is the run after the chunks.
LEMMA BufferIsRun ==
    ASSUME TypeOK, Order, ~done
    PROVE  /\ Len(Chunks) \in Nat /\ Len(Chunks) * ChunkSize \in Nat
           /\ Len(Chunks) * ChunkSize <= taken
           /\ rawBuf = Run(Len(Chunks) * ChunkSize, taken)
           /\ Len(rawBuf) = taken - Len(Chunks) * ChunkSize
  <1>1. Len(Chunks) \in Nat /\ ChunkSize \in Nat /\ taken \in Nat
    BY ChunkAssumption DEF TypeOK, Chunks
  <1>2. Len(Chunks) * ChunkSize \in Nat
    BY <1>1
  <1>3. rawBuf = Run(Len(Chunks) * ChunkSize, taken)
    BY DEF Order, InOrder, Run
  <1>4. Len(Chunks) * ChunkSize <= taken
    BY DEF Order
  <1> QED
    BY <1>1, <1>2, <1>3, <1>4, RunIsBytes

LEMMA InitOrder == Init => Order
  <1> SUFFICES ASSUME Init PROVE Order
    OBVIOUS
  <1>1. Chunks = << >> /\ Len(Chunks) = 0 /\ ChunkSize \in Nat \ {0}
    BY ChunkAssumption DEF Init, Chunks
  <1>2. 0 * ChunkSize = 0
    BY <1>1
  <1>3. [j \in 1..(0 - 0) |-> 0 + j] = << >>
    OBVIOUS
  <1> QED
    BY <1>1, <1>2, <1>3 DEF Init, Order, InOrder

LEMMA ReadDataKeepsOrder ==
    ASSUME TypeInv, Order, ReadData
    PROVE  Order'
  <1>1. /\ ~done /\ ~srcEOF /\ done' = done /\ srcEOF' = srcEOF
        /\ Chunks' = Chunks
        /\ rawBuf' = rawBuf \o [i \in 1..Arrives |-> taken + i]
        /\ taken' = taken + Arrives
    BY DEF ReadData, Filling, Reading, Chunks
  <1>2. taken \in Nat /\ Arrives \in Nat
    BY ArrivesInFrame DEF ReadData, TypeInv, TypeOK
  <1> DEFINE m == Len(Chunks)
             b == m * ChunkSize
  <1>3. m \in Nat /\ b \in Nat /\ b <= taken /\ rawBuf = Run(b, taken)
    BY <1>1, BufferIsRun DEF TypeInv
  <1>4. rawBuf' = Run(b, taken')
    <2> HIDE DEF b
    <2> QED
      BY <1>1, <1>2, <1>3, RunsJoin
  <1>5. \A i \in 1..m : Chunks[i].data = Piece(i, taken')
    <2> SUFFICES ASSUME NEW i \in 1..m
                 PROVE  Piece(i, taken) = Piece(i, taken')
      BY DEF Order, InOrder
    <2>1. Piece(i, taken) = Piece(i, taken + Arrives)
      BY <1>2, <1>3, PieceStays
    <2> QED
      BY <2>1, <1>1
  <1>6. b <= taken'
    <2> HIDE DEF b
    <2> QED
      BY <1>1, <1>2, <1>3
  <1> QED
    BY <1>1, <1>4, <1>5, <1>6 DEF Order, InOrder, Run

\* Emit takes a whole piece while the source goes on, and all that is left,
\* with the final chunk, when it has ended.
LEMMA EmitCases ==
    ASSUME TypeInv, Order, Emit
    PROVE  LET m == Len(Chunks)
               b == m * ChunkSize
               c == Chunk(EmitData, NextSig)
               f == Chunk(<< >>, Append(NextSig, << >>))
           IN /\ outputBuf = << >> /\ Chunks = wire /\ ~done
              /\ EmitData = Piece(m + 1, taken)
              /\ \/ /\ ~srcEOF /\ ~done' /\ outputBuf' = <<c>>
                    /\ taken >= b + ChunkSize
                    /\ rawBuf' = Run(b + ChunkSize, taken)
                 \/ /\ srcEOF /\ done' /\ rawBuf' = << >>
                    /\ taken < b + ChunkSize
                    /\ \/ taken = b /\ outputBuf' = <<f>>
                       \/ taken > b /\ outputBuf' = <<c, f>>
  <1> DEFINE m == Len(Chunks)
             b == m * ChunkSize
             c == Chunk(EmitData, NextSig)
             f == Chunk(<< >>, Append(NextSig, << >>))
  <1>1. outputBuf = << >> /\ Chunks = wire /\ ~done
    BY DEF Emit, Reading, Chunks, TypeInv, TypeOK
  <1>2. /\ m \in Nat /\ b \in Nat /\ b <= taken /\ taken \in Nat
        /\ rawBuf = Run(b, taken) /\ Len(rawBuf) = taken - b
    BY <1>1, BufferIsRun DEF TypeInv, TypeOK
  <1>3. /\ rawBuf' = Leftover /\ (done' <=> srcEOF /\ Leftover = << >>)
        /\ Len(rawBuf) >= ChunkSize \/ srcEOF
        /\ srcEOF => Len(rawBuf) < ChunkSize
        /\ srcEOF \in BOOLEAN
    <2>1. Len(rawBuf) \in Nat /\ ChunkSize \in Nat
      BY <1>2, ChunkAssumption
    <2>2. srcEOF \in BOOLEAN
      BY DEF TypeInv, TypeOK
    <2>3. Len(rawBuf) >= ChunkSize \/ srcEOF
      BY <2>1 DEF Emit, Filling
    <2>4. rawBuf' = Leftover /\ (done' <=> srcEOF /\ Leftover = << >>)
      BY DEF Emit
    <2>5. srcEOF => Len(rawBuf) < ChunkSize
      BY DEF Order
    <2> QED
      BY <2>2, <2>3, <2>4, <2>5
  <1>4. /\ EmitSize \in 0..Len(rawBuf)
        /\ EmitData \in Bytes /\ Len(EmitData) = EmitSize
        /\ \A j \in 1..EmitSize : EmitData[j] = rawBuf[j]
        /\ Leftover \in Bytes /\ Len(Leftover) = Len(rawBuf) - EmitSize
        /\ \A j \in 1..(Len(rawBuf) - EmitSize) :
              Leftover[j] = rawBuf[EmitSize + j]
    BY CutBuffer DEF TypeInv
  <1>5. EmitSize = IF taken - b < ChunkSize THEN taken - b ELSE ChunkSize
    BY <1>2, ChunkAssumption DEF EmitSize
  <1>6. Piece(m + 1, taken) = [j \in 1..EmitSize |-> b + j]
    <2>1. (m + 1) - 1 = m
      BY <1>2
    <2> QED
      BY <1>5, <2>1 DEF Piece
  <1>7. \A j \in 1..(taken - b) : rawBuf[j] = b + j
    BY <1>2, RunIsBytes
  <1> HIDE DEF b, c, f
  <1>8. EmitData = Piece(m + 1, taken)
    <2> DEFINE p == [j \in 1..EmitSize |-> b + j]
    <2>1. p \in Bytes /\ Len(p) = EmitSize /\ \A j \in 1..EmitSize : p[j] = b + j
      BY <1>2, <1>4 DEF Bytes
    <2>2. \A j \in 1..EmitSize : EmitData[j] = b + j
      BY <1>2, <1>4, <1>7
    <2> HIDE DEF p
    <2>3. EmitData = p
      BY <1>4, <2>1, <2>2, SameList DEF Bytes
    <2> QED
      BY <1>6, <2>3 DEF p
  <1>9. /\ EmitData = << >> <=> EmitSize = 0
        /\ Leftover = << >> <=> Len(rawBuf) - EmitSize = 0
    BY <1>4 DEF Bytes
  <1>10. \/ EmitData = << >> /\ done' /\ outputBuf' = <<f>>
         \/ EmitData = << >> /\ ~done' /\ outputBuf' = << >>
         \/ EmitData # << >> /\ done' /\ outputBuf' = <<c, f>>
         \/ EmitData # << >> /\ ~done' /\ outputBuf' = <<c>>
    BY EmitWrites DEF c, f
  <1>11. CASE ~srcEOF
    <2>1. taken - b >= ChunkSize /\ EmitSize = ChunkSize /\ EmitSize # 0
      BY <1>2, <1>3, <1>5, <1>11, ChunkAssumption
    <2>2. ~done' /\ outputBuf' = <<c>>
      BY <1>3, <1>9, <1>10, <1>11, <2>1
    <2> DEFINE e == b + ChunkSize
               r == Run(e, taken)
    <2>3. e \in Nat /\ e <= taken /\ e = b + ChunkSize
      BY <1>2, <2>1, ChunkAssumption
    <2> HIDE DEF e
    <2>4. r \in Bytes /\ Len(r) = taken - e /\ \A j \in 1..(taken - e) : r[j] = e + j
      BY <1>2, <2>3, RunIsBytes
    <2>5. Len(Leftover) = taken - e
      BY <1>2, <1>4, <2>1, <2>3
    <2>6. ASSUME NEW j \in 1..(taken - e) PROVE Leftover[j] = e + j
      <3>1. ChunkSize + j \in 1..(taken - b) /\ b + (ChunkSize + j) = e + j
        BY <1>2, <2>3, ChunkAssumption
      <3>2. Leftover[j] = rawBuf[ChunkSize + j]
        BY <1>2, <1>4, <2>1, <2>3
      <3> QED
        BY <1>7, <3>1, <3>2
    <2> HIDE DEF r
    <2>7. Leftover = r
      <3>1. Len(Leftover) = Len(r)
        BY <2>4, <2>5
      <3>2. \A j \in 1..Len(Leftover) : Leftover[j] = r[j]
        BY <2>4, <2>5, <2>6
      <3>3. Leftover \in Seq(Nat \ {0}) /\ r \in Seq(Nat \ {0})
        BY <1>4, <2>4 DEF Bytes
      <3> QED
        BY <3>1, <3>2, <3>3, SameList
    <2>8. rawBuf' = Run(e, taken)
      BY <1>3, <2>7 DEF r
    <2> QED
      BY <1>1, <1>8, <1>11, <2>2, <2>3, <2>8 DEF e, b, c, f
  <1>12. CASE srcEOF
    <2>1. taken - b < ChunkSize /\ EmitSize = taken - b
      BY <1>2, <1>3, <1>5, <1>12
    <2>2. Leftover = << >> /\ done' /\ rawBuf' = << >>
      BY <1>2, <1>3, <1>9, <1>12, <2>1
    <2>3. taken < b + ChunkSize
      BY <1>2, <2>1, ChunkAssumption
    <2>4. \/ taken = b /\ outputBuf' = <<f>>
          \/ taken > b /\ outputBuf' = <<c, f>>
      BY <1>2, <1>9, <1>10, <2>1, <2>2
    <2> QED
      BY <1>1, <1>8, <1>12, <2>2, <2>3, <2>4 DEF b, c, f
  <1> QED
    BY <1>3, <1>11, <1>12

\* The chunks after Emit: the old ones, then what Emit wrote.
LEMMA EmitChunks ==
    ASSUME TypeOK, Emit
    PROVE  LET m == Len(Chunks)
           IN /\ m \in Nat /\ Len(outputBuf') \in Nat
              /\ Len(Chunks') = m + Len(outputBuf')
              /\ \A i \in 1..m : Chunks'[i] = Chunks[i]
              /\ \A i \in 1..Len(outputBuf') : Chunks'[m + i] = outputBuf'[i]
  <1> DEFINE m == Len(Chunks)
             k == Len(outputBuf')
  <1>1. outputBuf = << >> /\ wire' = wire
    BY DEF Emit, Reading
  <1>2. /\ Chunks = wire /\ Chunks' = wire \o outputBuf'
        /\ wire \in Seq(ChunkSet) /\ outputBuf' \in Seq(ChunkSet)
    BY <1>1, EmitTypes DEF Chunks, TypeOK
  <1>3. m \in Nat /\ k \in Nat /\ m = Len(wire)
    BY <1>2
  <1>4. /\ Len(Chunks') = m + k
        /\ \A j \in 1..(m + k) :
              Chunks'[j] = IF j <= m THEN wire[j] ELSE outputBuf'[j - m]
    BY <1>2, <1>3, JoinedLists
  <1> HIDE DEF m, k
  <1>5. \A i \in 1..m : Chunks'[i] = Chunks[i]
    BY <1>2, <1>3, <1>4
  <1>6. ASSUME NEW i \in 1..k PROVE Chunks'[m + i] = outputBuf'[i]
    <2>1. m + i \in 1..(m + k) /\ ~(m + i <= m) /\ (m + i) - m = i
      BY <1>3
    <2> QED
      BY <1>4, <2>1
  <1> QED
    BY <1>3, <1>4, <1>5, <1>6 DEF m, k

LEMMA EmitKeepsOrder ==
    ASSUME TypeInv, Order, Emit
    PROVE  Order'
  <1> DEFINE m == Len(Chunks)
             b == m * ChunkSize
             c == Chunk(EmitData, NextSig)
             f == Chunk(<< >>, Append(NextSig, << >>))
  <1>1. /\ taken' = taken /\ srcEOF' = srcEOF
        /\ taken \in Nat /\ ChunkSize \in Nat \ {0} /\ srcEOF \in BOOLEAN
    BY ChunkAssumption DEF Emit, source, TypeInv, TypeOK
  <1>2. /\ m \in Nat /\ b \in Nat
        /\ (m + 1) * ChunkSize = b + ChunkSize
        /\ (m + 2) * ChunkSize = b + ChunkSize + ChunkSize
    BY <1>1 DEF Chunks, TypeInv, TypeOK
  <1>3. /\ Len(Chunks') = m + Len(outputBuf')
        /\ \A i \in 1..m : Chunks'[i] = Chunks[i]
        /\ \A i \in 1..Len(outputBuf') : Chunks'[m + i] = outputBuf'[i]
    BY EmitChunks DEF TypeInv
  <1>4. ~done /\ EmitData = Piece(m + 1, taken)
    BY EmitCases
  <1>5. \A i \in 1..m : Chunks'[i].data = Piece(i, taken)
    BY <1>3, <1>4 DEF Order, InOrder
  <1>6. c.data = Piece(m + 1, taken) /\ f.data = << >>
    BY <1>4 DEF Chunk
  <1>7. \/ /\ ~srcEOF /\ ~done' /\ outputBuf' = <<c>>
           /\ taken >= b + ChunkSize
           /\ rawBuf' = Run(b + ChunkSize, taken)
        \/ /\ srcEOF /\ done' /\ rawBuf' = << >>
           /\ taken < b + ChunkSize
           /\ \/ taken = b /\ outputBuf' = <<f>>
              \/ taken > b /\ outputBuf' = <<c, f>>
    BY EmitCases
  <1> DEFINE e == b + ChunkSize
  <1>8. e \in Nat /\ (m + 1) * ChunkSize = e /\ (m + 2) * ChunkSize = e + ChunkSize
    BY <1>1, <1>2
  <1> HIDE DEF c, f
  <1>9. CASE ~srcEOF /\ ~done' /\ outputBuf' = <<c>>
    <2>1. taken >= e /\ rawBuf' = Run(e, taken)
      BY <1>7, <1>9
    <2> HIDE DEF b, e, m
    <2>2. Len(Chunks') = m + 1 /\ Chunks'[m + 1] = c
      BY <1>3, <1>9
    <2>3. \A i \in 1..Len(Chunks') : Chunks'[i].data = Piece(i, taken)
      BY <1>2, <1>5, <1>6, <2>2
    <2>4. Len(Chunks') * ChunkSize = e
      BY <1>8, <2>2
    <2>5. rawBuf' = [j \in 1..(taken - Len(Chunks') * ChunkSize) |->
                        Len(Chunks') * ChunkSize + j]
      BY <2>1, <2>4 DEF Run
    <2>6. InOrder'
      BY <1>1, <1>9, <2>3, <2>5 DEF InOrder
    <2>7. e <= taken
      BY <1>1, <1>8, <2>1
    <2> QED
      BY <1>1, <1>9, <2>4, <2>6, <2>7 DEF Order
  <1>10. CASE srcEOF /\ done' /\ taken = b /\ outputBuf' = <<f>>
    <2>1. rawBuf' = << >> /\ taken < e
      BY <1>7, <1>10
    <2>2. Len(Chunks') = m + 1 /\ Chunks'[m + 1] = f
      BY <1>3, <1>10
    <2>3. Piece(m + 1, taken) = << >>
      <3>1. (m + 1) - 1 = m
        BY <1>2
      <3>2. taken - m * ChunkSize = 0 /\ 0 < ChunkSize
        BY <1>1, <1>2, <1>10
      <3>3. Piece(m + 1, taken) = [j \in 1..0 |-> m * ChunkSize + j]
        BY <3>1, <3>2 DEF Piece
      <3> QED
        BY <3>3
    <2> HIDE DEF b, e, m
    <2>4. \A i \in 1..Len(Chunks') : Chunks'[i].data = Piece(i, taken)
      BY <1>2, <1>5, <1>6, <2>2, <2>3
    <2>5. taken <= Len(Chunks') * ChunkSize
      BY <1>1, <1>8, <2>1, <2>2
    <2>6. Chunks'[Len(Chunks')].data = << >>
      BY <1>6, <2>2
    <2>7. InOrder'
      BY <1>1, <1>10, <2>1, <2>4, <2>5, <2>6 DEF InOrder
    <2>8. Len(rawBuf') < ChunkSize
      BY <1>1, <2>1
    <2> QED
      BY <1>1, <1>10, <2>7, <2>8 DEF Order
  <1>11. CASE srcEOF /\ done' /\ taken > b /\ outputBuf' = <<c, f>>
    <2>1. rawBuf' = << >> /\ taken < e
      BY <1>7, <1>11
    <2>2. /\ Len(Chunks') = m + 2
          /\ Chunks'[m + 1] = c /\ Chunks'[m + 2] = f
      BY <1>3, <1>11
    <2>3. Piece(m + 2, taken) = << >>
      <3>1. (m + 2) - 1 = m + 1
        BY <1>2
      <3> DEFINE n == taken - e
      <3>2. n < 0 /\ n \in Int /\ n < ChunkSize
        BY <1>1, <1>8, <2>1
      <3>3. Piece(m + 2, taken) = [j \in 1..n |-> e + j]
        BY <1>8, <3>1, <3>2 DEF Piece
      <3> HIDE DEF n
      <3> QED
        BY <3>2, <3>3
    <2> HIDE DEF b, e, m
    <2>4. \A i \in 1..Len(Chunks') : Chunks'[i].data = Piece(i, taken)
      <3> SUFFICES ASSUME NEW i \in 1..(m + 2)
                   PROVE  Chunks'[i].data = Piece(i, taken)
        BY <2>2
      <3>1. i \in 1..m \/ i = m + 1 \/ i = m + 2
        BY <1>2
      <3> QED
        BY <1>5, <1>6, <2>2, <2>3, <3>1
    <2>5. taken <= Len(Chunks') * ChunkSize
      BY <1>1, <1>8, <2>1, <2>2
    <2>6. Chunks'[Len(Chunks')].data = << >>
      BY <1>6, <2>2
    <2>7. InOrder'
      BY <1>1, <1>11, <2>1, <2>4, <2>5, <2>6 DEF InOrder
    <2>8. Len(rawBuf') < ChunkSize
      BY <1>1, <2>1
    <2> QED
      BY <1>1, <1>11, <2>7, <2>8 DEF Order
  <1> QED
    BY <1>7, <1>9, <1>10, <1>11

\* What the other steps leave alone.
LEMMA OtherSteps ==
    ASSUME TypeInv,
           ReadHeader \/ ReadEnd \/ ReadFails \/ Break \/ Close \/ Drain
             \/ UNCHANGED vars
    PROVE  /\ Chunks' = Chunks
           /\ UNCHANGED <<taken, rawBuf, prevSig, done>>
           /\ srcEOF' = srcEOF \/ Filling
  <1>1. CASE Drain
    <2>1. /\ wire \in Seq(ChunkSet) /\ outputBuf \in Seq(ChunkSet)
          /\ outputBuf # << >> /\ wire' = Append(wire, Head(outputBuf))
          /\ outputBuf' = Tail(outputBuf)
      BY <1>1 DEF Drain, TypeInv, TypeOK
    <2>2. Chunks' = Chunks
      BY <2>1, MoveHead DEF Chunks
    <2> QED
      BY <1>1, <2>2 DEF Drain, source
  <1>2. CASE ReadHeader \/ ReadEnd
    BY <1>2 DEF ReadHeader, ReadEnd, encoder, Chunks
  <1>3. CASE ReadFails \/ Break \/ Close \/ UNCHANGED vars
    BY <1>3 DEF ReadFails, Break, Close, source, encoder, vars, Chunks
  <1> QED
    BY <1>1, <1>2, <1>3

LEMMA NextOrder == TypeInv /\ Order /\ [Next]_vars => Order'
  <1> SUFFICES ASSUME TypeInv, Order, [Next]_vars PROVE Order'
    OBVIOUS
  <1>1. CASE ReadData
    BY <1>1, ReadDataKeepsOrder
  <1>2. CASE Emit
    BY <1>2, EmitKeepsOrder
  <1>3. CASE ReadHeader \/ ReadEnd \/ ReadFails \/ Break \/ Close \/ Drain
               \/ UNCHANGED vars
    <2>1. /\ Chunks' = Chunks
          /\ taken' = taken /\ rawBuf' = rawBuf /\ done' = done
          /\ srcEOF' = srcEOF \/ Filling
      BY <1>3, OtherSteps
    <2>2. InOrder'
      BY <2>1 DEF Order, InOrder
    <2>3. srcEOF' => Len(rawBuf') < ChunkSize
      BY <2>1 DEF Order, Filling
    <2>4. done' => srcEOF'
      BY <2>1 DEF Order, Filling, Reading
    <2> QED
      BY <2>1, <2>2, <2>3, <2>4 DEF Order
  <1> QED
    BY <1>1, <1>2, <1>3 DEF Next, Ended

\* What the backend is sent is what the client's frames held, byte for byte
\* and in order, in chunks of ChunkSize but the last.
THEOREM BytesInOrder == Spec => []InOrder
  <1>1. TypeInv /\ Order /\ [Next]_vars => TypeInv' /\ Order'
    BY NextTypeInv, NextOrder
  <1>2. Order => InOrder
    BY DEF Order
  <1> QED
    BY <1>1, <1>2, InitTypeInv, InitOrder, PTL DEF Spec

-----------------------------------------------------------------------------
(* The chain of signatures                                                 *)

\* The encoder's memory of the chain is the chain it has written.
Chain ==
    /\ SignaturesChain
    /\ ~done => prevSig = [k \in 1..Len(Chunks) |-> Chunks[k].data]

LEMMA InitChain == Init => Chain
  <1> SUFFICES ASSUME Init PROVE Chain
    OBVIOUS
  <1>1. Chunks = << >> /\ Len(Chunks) = 0
    BY DEF Init, Chunks
  <1>2. [k \in 1..0 |-> Chunks[k].data] = << >>
    OBVIOUS
  <1> QED
    BY <1>1, <1>2 DEF Init, Chain, SignaturesChain

\* Appending the next element of a list to what comes before it.
LEMMA AppendNext ==
    ASSUME NEW S, NEW m \in Nat, NEW D, \A k \in 1..(m + 1) : D[k] \in S
    PROVE  Append([k \in 1..m |-> D[k]], D[m + 1]) = [k \in 1..(m + 1) |-> D[k]]
  <1> DEFINE p == [k \in 1..m |-> D[k]]
             t == Append(p, D[m + 1])
             r == [k \in 1..(m + 1) |-> D[k]]
  <1>1. p \in Seq(S) /\ Len(p) = m /\ \A k \in 1..m : p[k] = D[k]
    OBVIOUS
  <1>2. r \in Seq(S) /\ Len(r) = m + 1 /\ \A k \in 1..(m + 1) : r[k] = D[k]
    OBVIOUS
  <1>3. D[m + 1] \in S
    OBVIOUS
  <1> HIDE DEF p, r
  <1>4. /\ t \in Seq(S) /\ Len(t) = m + 1 /\ t[m + 1] = D[m + 1]
        /\ \A k \in 1..m : t[k] = p[k]
    BY <1>1, <1>3
  <1> HIDE DEF t
  <1>5. \A k \in 1..Len(t) : t[k] = r[k]
    BY <1>1, <1>2, <1>4
  <1>6. t = r
    BY <1>2, <1>4, <1>5, SameList
  <1> QED
    BY <1>6 DEF p, r, t

LEMMA EmitKeepsChain ==
    ASSUME TypeInv, Chain, Emit
    PROVE  Chain'
  <1> DEFINE m == Len(Chunks)
             c == Chunk(EmitData, NextSig)
             f == Chunk(<< >>, Append(NextSig, << >>))
             D == [k \in 1..Len(Chunks') |-> Chunks'[k].data]
  <1>1. /\ m \in Nat /\ Len(outputBuf') \in Nat
        /\ Len(Chunks') = m + Len(outputBuf')
        /\ \A i \in 1..m : Chunks'[i] = Chunks[i]
        /\ \A i \in 1..Len(outputBuf') : Chunks'[m + i] = outputBuf'[i]
    BY EmitChunks DEF TypeInv
  <1>2. Chunks' \in Seq(ChunkSet)
    <2>1. wire' \in Seq(ChunkSet) /\ outputBuf' \in Seq(ChunkSet)
      BY EmitTypes DEF TypeInv, TypeOK, Emit
    <2> QED
      BY <2>1 DEF Chunks
  <1>3. \A k \in 1..Len(Chunks') : D[k] = Chunks'[k].data /\ D[k] \in Bytes
    <2> TAKE k \in 1..Len(Chunks')
    <2>1. Chunks'[k] \in ChunkSet
      BY <1>2
    <2>2. Chunks'[k].data \in Bytes
      BY <2>1 DEF ChunkSet
    <2>3. D[k] = Chunks'[k].data
      OBVIOUS
    <2> QED
      BY <2>2, <2>3
  <1>4. /\ prevSig = [k \in 1..m |-> Chunks[k].data]
        /\ prevSig' = NextSig
        /\ NextSig = IF EmitData = << >> THEN prevSig ELSE Append(prevSig, EmitData)
    BY DEF Chain, Emit, Reading, NextSig, Sign
  <1>5. \A i \in 1..m : Chunks'[i].sig = [k \in 1..i |-> Chunks[k].data]
    BY <1>1 DEF Chain, SignaturesChain
  <1>6. /\ c.data = EmitData /\ c.sig = NextSig
        /\ f.data = << >> /\ f.sig = Append(NextSig, << >>)
    BY DEF Chunk
  <1>7. \/ EmitData = << >> /\ done' /\ outputBuf' = <<f>>
        \/ EmitData = << >> /\ ~done' /\ outputBuf' = << >>
        \/ EmitData # << >> /\ done' /\ outputBuf' = <<c, f>>
        \/ EmitData # << >> /\ ~done' /\ outputBuf' = <<c>>
    BY EmitWrites
  <1> HIDE DEF m, c, f, D
  <1>8. \A k \in 1..m : D[k] = Chunks[k].data
    BY <1>1, <1>3
  <1>9. prevSig = [k \in 1..m |-> D[k]]
    BY <1>4, <1>8
  <1>10. \A i \in 1..m : Chunks'[i].sig = [k \in 1..i |-> D[k]]
    <2> TAKE i \in 1..m
    <2>1. \A k \in 1..i : D[k] = Chunks[k].data
      BY <1>1, <1>8
    <2>2. [k \in 1..i |-> Chunks[k].data] = [k \in 1..i |-> D[k]]
      BY <2>1
    <2> QED
      BY <1>5, <2>2
  <1>11. ASSUME \A i \in 1..Len(Chunks') : Chunks'[i].sig = [k \in 1..i |-> D[k]],
                done' \/ prevSig' = [k \in 1..Len(Chunks') |-> D[k]]
         PROVE  Chain'
    <2>1. \A i \in 1..Len(Chunks') :
             Chunks'[i].sig = [k \in 1..i |-> Chunks'[k].data]
      <3> TAKE i \in 1..Len(Chunks')
      <3>1. \A k \in 1..i : D[k] = Chunks'[k].data
        BY <1>1, <1>3
      <3> QED
        BY <1>11, <3>1
    <2>2. [k \in 1..Len(Chunks') |-> D[k]]
            = [k \in 1..Len(Chunks') |-> Chunks'[k].data]
      BY <1>3
    <2> QED
      BY <1>11, <2>1, <2>2 DEF Chain, SignaturesChain
  <1>12. CASE EmitData = << >> /\ done' /\ outputBuf' = <<f>>
    <2>1. Len(Chunks') = m + 1 /\ Chunks'[m + 1] = f
      BY <1>1, <1>12
    <2>2. D[m + 1] = << >> /\ \A k \in 1..(m + 1) : D[k] \in Bytes
      BY <1>1, <1>3, <1>6, <2>1
    <2>3. f.sig = [k \in 1..(m + 1) |-> D[k]]
      BY <1>1, <1>4, <1>6, <1>9, <1>12, <2>2, AppendNext
    <2>4. \A i \in 1..Len(Chunks') : Chunks'[i].sig = [k \in 1..i |-> D[k]]
      BY <1>1, <1>10, <2>1, <2>3
    <2> QED
      BY <1>11, <1>12, <2>4
  <1>13. CASE EmitData = << >> /\ ~done' /\ outputBuf' = << >>
    <2>1. Len(Chunks') = m
      BY <1>1, <1>13
    <2> QED
      BY <1>4, <1>9, <1>10, <1>11, <1>13, <2>1
  <1>14. ASSUME EmitData # << >>, Len(Chunks') >= m + 1, Chunks'[m + 1] = c
         PROVE  NextSig = [k \in 1..(m + 1) |-> D[k]]
    <2>1. D[m + 1] = EmitData /\ \A k \in 1..(m + 1) : D[k] \in Bytes
      BY <1>1, <1>3, <1>6, <1>14
    <2> QED
      BY <1>1, <1>4, <1>9, <1>14, <2>1, AppendNext
  <1>15. CASE EmitData # << >> /\ done' /\ outputBuf' = <<c, f>>
    <2>1. /\ Len(Chunks') = m + 2
          /\ Chunks'[m + 1] = c /\ Chunks'[m + 2] = f
      BY <1>1, <1>15
    <2>2. c.sig = [k \in 1..(m + 1) |-> D[k]]
      BY <1>1, <1>6, <1>14, <1>15, <2>1
    <2>3. f.sig = [k \in 1..(m + 2) |-> D[k]]
      <3> DEFINE n == m + 1
      <3>1. n \in Nat /\ n + 1 = m + 2 /\ n + 1 \in 1..Len(Chunks')
        BY <1>1, <2>1
      <3>2. D[n + 1] = << >> /\ \A k \in 1..(n + 1) : D[k] \in Bytes
        BY <1>1, <1>3, <1>6, <2>1
      <3>3. NextSig = [k \in 1..n |-> D[k]]
        BY <1>6, <2>2
      <3> HIDE DEF n
      <3>4. Append(NextSig, << >>) = [k \in 1..(n + 1) |-> D[k]]
        BY <3>1, <3>2, <3>3, AppendNext
      <3> QED
        BY <1>6, <3>1, <3>4
    <2>4. \A i \in 1..Len(Chunks') : Chunks'[i].sig = [k \in 1..i |-> D[k]]
      <3> SUFFICES ASSUME NEW i \in 1..(m + 2)
                   PROVE  Chunks'[i].sig = [k \in 1..i |-> D[k]]
        BY <2>1
      <3>1. i \in 1..m \/ i = m + 1 \/ i = m + 2
        BY <1>1
      <3> QED
        BY <1>10, <2>1, <2>2, <2>3, <3>1
    <2> QED
      BY <1>11, <1>15, <2>4
  <1>16. CASE EmitData # << >> /\ ~done' /\ outputBuf' = <<c>>
    <2>1. Len(Chunks') = m + 1 /\ Chunks'[m + 1] = c
      BY <1>1, <1>16
    <2>2. NextSig = [k \in 1..(m + 1) |-> D[k]]
      BY <1>1, <1>14, <1>16, <2>1
    <2>3. \A i \in 1..Len(Chunks') : Chunks'[i].sig = [k \in 1..i |-> D[k]]
      <3> SUFFICES ASSUME NEW i \in 1..(m + 1)
                   PROVE  Chunks'[i].sig = [k \in 1..i |-> D[k]]
        BY <2>1
      <3>1. i \in 1..m \/ i = m + 1
        BY <1>1
      <3> QED
        BY <1>6, <1>10, <2>1, <2>2, <3>1
    <2> QED
      BY <1>4, <1>11, <2>1, <2>2, <2>3
  <1> QED
    BY <1>7, <1>12, <1>13, <1>15, <1>16

LEMMA NextChain == TypeInv /\ Chain /\ [Next]_vars => Chain'
  <1> SUFFICES ASSUME TypeInv, Chain, [Next]_vars PROVE Chain'
    OBVIOUS
  <1>1. CASE Emit
    BY <1>1, EmitKeepsChain
  <1>2. CASE ReadData
    BY <1>2 DEF ReadData, Chain, SignaturesChain, Chunks
  <1>3. CASE ReadHeader \/ ReadEnd \/ ReadFails \/ Break \/ Close \/ Drain
               \/ UNCHANGED vars
    BY <1>3, OtherSteps DEF Chain, SignaturesChain
  <1> QED
    BY <1>1, <1>2, <1>3 DEF Next, Ended

\* The backend can verify every chunk it is sent from the seed signature on.
THEOREM SignaturesAreChained == Spec => []SignaturesChain
  <1>1. TypeInv /\ Chain /\ [Next]_vars => TypeInv' /\ Chain'
    BY NextTypeInv, NextChain
  <1>2. Chain => SignaturesChain
    BY DEF Chain
  <1> QED
    BY <1>1, <1>2, InitTypeInv, InitChain, PTL DEF Spec

-----------------------------------------------------------------------------
(* Numbers.  The induction theorems of the library take an operator; these *)
(* take a set, and follow from the order of the numbers being well-founded. *)

\* A set of numbers with 0, and with n + 1 if with n, has them all.
LEMMA Induction ==
    ASSUME NEW S, 0 \in S, \A n \in Nat : n \in S => n + 1 \in S
    PROVE  \A n \in Nat : n \in S
<1> SUFFICES ASSUME NEW n \in Nat, n \notin S PROVE FALSE
  OBVIOUS
<1> DEFINE R == OpToRel(<, Nat)
           T == Nat \ S
<1>1. PICK x \in T : \A y \in T : <<y, x>> \notin R
  <2>1. IsWellFoundedOn(R, Nat)
    BY NatLessThanWellFounded
  <2>2. T \subseteq Nat /\ T # {}
    OBVIOUS
  <2> HIDE DEF R, T
  <2> QED  BY <2>1, <2>2, WFMin
<1>2. x # 0 /\ x - 1 \in Nat /\ x - 1 < x
  OBVIOUS
<1>3. x - 1 \in T => <<x - 1, x>> \in R
  BY <1>2 DEF OpToRel
<1>4. x - 1 \in S
  BY <1>1, <1>2, <1>3
<1> QED  BY <1>2, <1>4

\* The same with all smaller numbers at hand.
LEMMA StrongInduction ==
    ASSUME NEW S, \A n \in Nat : (\A m \in Nat : m < n => m \in S) => n \in S
    PROVE  \A n \in Nat : n \in S
<1> DEFINE T == {n \in Nat : \A m \in Nat : m < n => m \in S}
<1>1. 0 \in T
  OBVIOUS
<1>2. ASSUME NEW n \in Nat, n \in T PROVE n + 1 \in T
  <2>1. n \in S
    BY <1>2
  <2>2. \A m \in Nat : m < n + 1 => m < n \/ m = n
    OBVIOUS
  <2> QED  BY <1>2, <2>1, <2>2
<1> HIDE DEF T
<1>3. \A n \in Nat : n \in T
  BY <1>1, <1>2, Induction
<1> QED  BY <1>3 DEF T

-----------------------------------------------------------------------------
(* The announced length.  Digits is defined by recursion: it exists because *)
(* its values up to each k do.                                             *)

\* f gives the number of digits up to k.
HasDigits(f, k) ==
    /\ f \in [0..k -> Nat \ {0}]
    /\ \A n \in 0..k : f[n] = IF n < Base THEN 1 ELSE 1 + f[n \div Base]

LEMMA Quotient ==
    ASSUME NEW n \in Nat, n >= Base
    PROVE  n \div Base \in Nat /\ n \div Base < n
<1>1. Base \in Nat /\ Base > 1
  BY ChunkAssumption
<1> DEFINE q == n \div Base
<1>2. q \in Nat /\ q * Base <= n
  BY <1>1
<1> HIDE DEF q
<1>3. q > 0 => q * Base > q
  BY <1>1, <1>2
<1>4. q < n
  <2>1. q * Base \in Nat
    BY <1>1, <1>2
  <2> QED  BY <1>1, <1>2, <1>3, <2>1
<1> QED  BY <1>2, <1>4 DEF q

LEMMA DigitsExist == \A k \in Nat : \E f : HasDigits(f, k)
<1> DEFINE S == {k \in Nat : \E f : HasDigits(f, k)}
<1>0. Base \in Nat /\ Base > 1
  BY ChunkAssumption
<1>1. 0 \in S
  <2> DEFINE f == [n \in 0..0 |-> 1]
  <2>1. HasDigits(f, 0)
    BY <1>0 DEF HasDigits
  <2> QED  BY <2>1
<1>2. ASSUME NEW k \in Nat, k \in S PROVE k + 1 \in S
  <2>1. PICK f : HasDigits(f, k)
    BY <1>2
  <2> DEFINE c == k + 1
             g == [n \in 0..c |-> IF n <= k THEN f[n]
                                  ELSE IF c < Base THEN 1 ELSE 1 + f[c \div Base]]
  <2>2. c >= Base => c \div Base \in 0..k
    BY Quotient
  <2>3. \A n \in 0..k : n >= Base => n \div Base \in 0..k
    <3> SUFFICES ASSUME NEW n \in 0..k, n >= Base PROVE n \div Base \in 0..k
      OBVIOUS
    <3>1. n \in Nat /\ n \div Base \in Nat /\ n \div Base < n
      BY Quotient
    <3> QED  BY <3>1
  <2>4. \A n \in 0..k : f[n] \in Nat \ {0}
    BY <2>1 DEF HasDigits
  <2>5. g \in [0..c -> Nat \ {0}]
    <3> SUFFICES ASSUME NEW n \in 0..c PROVE g[n] \in Nat \ {0}
      OBVIOUS
    <3>1. CASE n <= k
      BY <2>4, <3>1
    <3>2. CASE ~(n <= k) /\ c < Base
      BY <3>2
    <3>3. CASE ~(n <= k) /\ ~(c < Base)
      <4>1. c \div Base \in 0..k
        BY <1>0, <2>2, <3>3
      <4>2. f[c \div Base] \in Nat \ {0}
        BY <2>4, <4>1
      <4>3. g[n] = 1 + f[c \div Base]
        BY <3>3
      <4> QED  BY <4>2, <4>3
    <3> QED  BY <3>1, <3>2, <3>3
  <2>6. ASSUME NEW n \in 0..c
        PROVE  g[n] = IF n < Base THEN 1 ELSE 1 + g[n \div Base]
    <3>1. CASE n <= k
      <4>1. n \in 0..k
        BY <3>1
      <4>2. g[n] = IF n < Base THEN 1 ELSE 1 + f[n \div Base]
        BY <2>1, <4>1, <3>1 DEF HasDigits
      <4>3. n >= Base => g[n \div Base] = f[n \div Base]
        BY <2>3, <4>1
      <4> QED  BY <1>0, <4>1, <4>2, <4>3
    <3>2. CASE ~(n <= k)
      <4>1. n = c
        BY <3>2
      <4>2. g[n] = IF c < Base THEN 1 ELSE 1 + f[c \div Base]
        BY <3>2
      <4>3. c >= Base => g[c \div Base] = f[c \div Base]
        BY <2>2
      <4> HIDE DEF g
      <4> QED  BY <1>0, <4>1, <4>2, <4>3
    <3> QED  BY <3>1, <3>2
  <2> HIDE DEF g, c
  <2>7. HasDigits(g, c)
    BY <2>5, <2>6 DEF HasDigits
  <2> QED  BY <2>7 DEF c
<1> HIDE DEF S
<1>3. \A k \in Nat : k \in S
  BY <1>1, <1>2, Induction
<1> QED  BY <1>3 DEF S

LEMMA DigitsAgree ==
    ASSUME NEW j \in Nat, NEW f, HasDigits(f, j), NEW k \in Nat, NEW g, HasDigits(g, k)
    PROVE  \A n \in Nat : n <= j /\ n <= k => f[n] = g[n]
<1> DEFINE S == {n \in Nat : n <= j /\ n <= k => f[n] = g[n]}
<1>1. ASSUME NEW n \in Nat, \A m \in Nat : m < n => m \in S
      PROVE  n \in S
  <2> SUFFICES ASSUME n <= j, n <= k PROVE f[n] = g[n]
    OBVIOUS
  <2>1. /\ f[n] = IF n < Base THEN 1 ELSE 1 + f[n \div Base]
        /\ g[n] = IF n < Base THEN 1 ELSE 1 + g[n \div Base]
    BY DEF HasDigits
  <2>2. n >= Base => f[n \div Base] = g[n \div Base]
    <3> HAVE n >= Base
    <3>1. n \div Base \in Nat /\ n \div Base < n
      BY Quotient
    <3> DEFINE q == n \div Base
    <3> HIDE DEF q
    <3> QED  BY <1>1, <3>1 DEF q
  <2> QED  BY <2>1, <2>2, ChunkAssumption
<1> HIDE DEF S
<1>2. \A n \in Nat : n \in S
  BY <1>1, StrongInduction
<1> QED  BY <1>2 DEF S

LEMMA DigitsShape ==
    /\ Digits \in [Nat -> Nat \ {0}]
    /\ \A n \in Nat : Digits[n] = IF n < Base THEN 1 ELSE 1 + Digits[n \div Base]
<1> DEFINE part(k) == CHOOSE f : HasDigits(f, k)
           D == [n \in Nat |-> part(n)[n]]
<1>0. Base \in Nat /\ Base > 1
  BY ChunkAssumption
<1>1. \A k \in Nat : HasDigits(part(k), k)
  BY DigitsExist
<1> HIDE DEF part
<1>2. ASSUME NEW n \in Nat
      PROVE  D[n] = IF n < Base THEN 1 ELSE 1 + D[n \div Base]
  <2>1. D[n] = IF n < Base THEN 1 ELSE 1 + part(n)[n \div Base]
    BY <1>1 DEF HasDigits
  <2>2. n >= Base => D[n \div Base] = part(n)[n \div Base]
    <3> HAVE n >= Base
    <3> DEFINE q == n \div Base
    <3>1. q \in Nat /\ q < n
      BY Quotient
    <3> HIDE DEF q
    <3>2. part(q)[q] = part(n)[q]
      <4>1. q <= n /\ q <= q
        BY <3>1
      <4> QED  BY <1>1, <3>1, <4>1, DigitsAgree
    <3>3. D[q] = part(q)[q]
      BY <3>1
    <3> QED  BY <3>2, <3>3 DEF q
  <2> HIDE DEF D
  <2> QED  BY <1>0, <2>1, <2>2
<1>3. D \in [Nat -> Nat \ {0}]
  BY <1>1 DEF HasDigits
<1>4. D = [n \in Nat |-> IF n < Base THEN 1 ELSE 1 + D[n \div Base]]
  <2>1. D = [n \in Nat |-> D[n]]
    OBVIOUS
  <2> HIDE DEF D
  <2> QED  BY <1>2, <2>1
<1> HIDE DEF D
<1>5. Digits = [n \in Nat |-> IF n < Base THEN 1 ELSE 1 + Digits[n \div Base]]
  BY <1>4 DEF Digits
<1>6. ASSUME NEW n \in Nat PROVE Digits[n] = D[n]
  <2> DEFINE S == {m \in Nat : Digits[m] = D[m]}
  <2>1. ASSUME NEW m \in Nat, \A l \in Nat : l < m => l \in S PROVE m \in S
    <3>1. Digits[m] = IF m < Base THEN 1 ELSE 1 + Digits[m \div Base]
      BY <1>5
    <3>2. m >= Base => Digits[m \div Base] = D[m \div Base]
      BY <2>1, Quotient
    <3> QED  BY <1>0, <1>2, <3>1, <3>2
  <2> HIDE DEF S
  <2>2. \A m \in Nat : m \in S
    BY <2>1, StrongInduction
  <2> QED  BY <2>2 DEF S
<1>7. Digits = D
  <2>1. Digits = [n \in Nat |-> Digits[n]]
    BY <1>5
  <2> QED  BY <1>3, <1>6, <2>1
<1> QED  BY <1>2, <1>3, <1>7

\* A longer chunk has no fewer digits, and is longer when encoded.
LEMMA QuotientsGrow ==
    ASSUME NEW m \in Nat, NEW n \in Nat, m <= n
    PROVE  m \div Base <= n \div Base
<1>1. Base \in Nat /\ Base > 1
  BY ChunkAssumption
<1> DEFINE p == m \div Base
           q == n \div Base
<1>2. p \in Nat /\ p * Base <= m /\ q \in Nat /\ n < (q + 1) * Base
  BY <1>1
<1> HIDE DEF p, q
<1>3. ASSUME p > q PROVE FALSE
  <2>1. PICK d \in Nat : p = q + 1 + d
    <3>1. p - q - 1 \in Nat /\ p = q + 1 + (p - q - 1)
      BY <1>2, <1>3
    <3> QED  BY <3>1
  <2>2. p * Base = (q + 1) * Base + d * Base /\ d * Base \in Nat
    BY <1>1, <1>2, <2>1
  <2>3. (q + 1) * Base \in Nat /\ p * Base \in Nat
    BY <1>1, <1>2
  <2> QED  BY <1>2, <2>2, <2>3
<1> QED  BY <1>2, <1>3 DEF p, q

LEMMA DigitsGrow ==
    ASSUME NEW m \in Nat, NEW n \in Nat, m <= n
    PROVE  Digits[m] <= Digits[n]
<1> DEFINE S == {k \in Nat : \A l \in Nat : l <= k => Digits[l] <= Digits[k]}
<1>0. Base \in Nat /\ Base > 1
  BY ChunkAssumption
<1>1. ASSUME NEW k \in Nat, \A j \in Nat : j < k => j \in S
      PROVE  k \in S
  <2> SUFFICES ASSUME NEW l \in Nat, l <= k PROVE Digits[l] <= Digits[k]
    OBVIOUS
  <2>1. /\ Digits[l] \in Nat \ {0} /\ Digits[k] \in Nat \ {0}
        /\ Digits[l] = IF l < Base THEN 1 ELSE 1 + Digits[l \div Base]
        /\ Digits[k] = IF k < Base THEN 1 ELSE 1 + Digits[k \div Base]
    BY DigitsShape
  <2>2. CASE l < Base
    BY <2>1, <2>2
  <2>3. CASE ~(l < Base)
    <3> DEFINE p == l \div Base
               q == k \div Base
    <3>1. l >= Base /\ k >= Base
      BY <1>0, <2>3
    <3>2. p \in Nat /\ q \in Nat /\ q < k /\ p <= q
      BY <3>1, Quotient, QuotientsGrow
    <3> HIDE DEF p, q
    <3>3. Digits[p] <= Digits[q]
      BY <1>1, <3>2
    <3>4. Digits[p] \in Nat /\ Digits[q] \in Nat
      BY <3>2, DigitsShape
    <3>5. Digits[l] = 1 + Digits[p] /\ Digits[k] = 1 + Digits[q]
      BY <1>0, <2>1, <3>1 DEF p, q
    <3> QED  BY <3>3, <3>4, <3>5
  <2> QED  BY <2>2, <2>3
<1> HIDE DEF S
<1>2. n \in S
  BY <1>1, StrongInduction
<1> QED  BY <1>2 DEF S

LEMMA EncodedGrows ==
    /\ \A n \in Nat : Encoded(n) \in Nat \ {0}
    /\ \A m, n \in Nat : m < n => Encoded(m) < Encoded(n)
<1>1. \A n \in Nat : Digits[n] \in Nat
  BY DigitsShape
<1>2. \A m, n \in Nat : m < n => Digits[m] <= Digits[n]
  <2> SUFFICES ASSUME NEW m \in Nat, NEW n \in Nat, m < n
               PROVE  Digits[m] <= Digits[n]
    OBVIOUS
  <2>1. m <= n
    OBVIOUS
  <2> QED  BY <2>1, DigitsGrow
<1> QED  BY <1>1, <1>2 DEF Encoded

\* The length announced for full chunks and a last one of d bytes.
LEMMA AnnouncedOf ==
    ASSUME NEW k \in Nat, NEW d \in 1..ChunkSize
    PROVE  Announced(k * ChunkSize + d)
             = k * Encoded(ChunkSize) + Encoded(d) + Encoded(0)
<1> DEFINE C == ChunkSize
           E == Encoded(C)
           n == k * C + d
<1>1. C \in Nat /\ C > 0 /\ k * C \in Nat /\ d \in Nat /\ d <= C /\ d > 0
  BY ChunkAssumption
<1>2. E \in Nat /\ Encoded(d) \in Nat /\ Encoded(0) \in Nat
  BY <1>1, EncodedGrows
<1> HIDE DEF E
<1>3. CASE d < C
  <2>1. n \div C = k /\ n % C = d
    BY <1>1, <1>3
  <2> HIDE DEF n
  <2> QED  BY <1>1, <2>1 DEF Announced, E, n
<1>4. CASE d = C
  <2>1. n \div C = k + 1 /\ n % C = 0
    <3>1. n = (k + 1) * C + 0
      BY <1>1, <1>4
    <3> HIDE DEF n
    <3> QED  BY <1>1, <3>1
  <2>2. (k + 1) * E = k * E + E
    BY <1>2
  <2>3. Announced(n) = (k + 1) * E + 0 + Encoded(0)
    <3> HIDE DEF n
    <3> QED  BY <2>1 DEF Announced, E
  <2>4. k * E \in Nat
    BY <1>2
  <2> QED  BY <1>2, <1>4, <2>2, <2>3, <2>4 DEF E
<1> QED  BY <1>1, <1>3, <1>4

LEMMA AnnouncedNothing == Announced(0) = Encoded(0)
<1>1. ChunkSize \in Nat \ {0}
  BY ChunkAssumption
<1>2. 0 \div ChunkSize = 0 /\ 0 % ChunkSize = 0
  BY <1>1
<1>3. Encoded(ChunkSize) \in Nat /\ Encoded(0) \in Nat
  BY <1>1, EncodedGrows
<1>4. 0 * Encoded(ChunkSize) = 0
  BY <1>3
<1> QED  BY <1>2, <1>3, <1>4 DEF Announced

\* A length is full chunks and a last one that is not empty, or nothing.
LEMMA Splits ==
    ASSUME NEW n \in Nat \ {0}
    PROVE  \E k \in Nat, d \in 1..ChunkSize : n = k * ChunkSize + d
<1> DEFINE C == ChunkSize
           k == (n - 1) \div C
           r == (n - 1) % C
<1>1. C \in Nat \ {0} /\ n - 1 \in Nat
  BY ChunkAssumption
<1>2. k \in Nat /\ r \in 0..(C - 1) /\ n - 1 = k * C + r
  BY <1>1
<1> HIDE DEF k, r
<1>3. r + 1 \in 1..C /\ n = k * C + (r + 1)
  <2>1. k * C \in Nat
    BY <1>1, <1>2
  <2> QED  BY <1>1, <1>2, <2>1
<1> QED  BY <1>2, <1>3

LEMMA AnnouncedNat == \A n \in Nat : Announced(n) \in Nat
<1> SUFFICES ASSUME NEW n \in Nat PROVE Announced(n) \in Nat
  OBVIOUS
<1>1. CASE n = 0
  BY <1>1, AnnouncedNothing, EncodedGrows
<1>2. CASE n # 0
  <2>1. PICK k \in Nat, d \in 1..ChunkSize : n = k * ChunkSize + d
    BY <1>2, Splits
  <2>2. ChunkSize \in Nat /\ d \in Nat
    BY ChunkAssumption
  <2>3. k * Encoded(ChunkSize) \in Nat /\ Encoded(d) \in Nat /\ Encoded(0) \in Nat
    BY <2>2, EncodedGrows
  <2> QED  BY <2>1, <2>3, AnnouncedOf
<1> QED  BY <1>1, <1>2

\* More bytes are announced as more: the announced length gives the bytes away.
LEMMA AnnouncedGrows ==
    ASSUME NEW m \in Nat, NEW n \in Nat, m < n
    PROVE  Announced(m) < Announced(n)
<1> DEFINE C == ChunkSize
           E == Encoded(C)
<1>1. C \in Nat \ {0} /\ E \in Nat \ {0} /\ Encoded(0) \in Nat \ {0}
  BY ChunkAssumption, EncodedGrows
<1>2. \A d \in 1..C : Encoded(d) \in Nat \ {0} /\ Encoded(d) <= E
  <2> SUFFICES ASSUME NEW d \in 1..C PROVE Encoded(d) \in Nat \ {0} /\ Encoded(d) <= E
    OBVIOUS
  <2>1. d \in Nat /\ (d < C \/ d = C)
    BY <1>1
  <2> QED  BY <1>1, <2>1, EncodedGrows
<1>3. PICK l \in Nat, e \in 1..C : n = l * C + e
  BY Splits
<1>4. Announced(n) = l * E + Encoded(e) + Encoded(0)
  BY <1>3, AnnouncedOf
<1>5. l * E \in Nat /\ l * C \in Nat
  BY <1>1
<1>6. CASE m = 0
  <2>1. Announced(m) = Encoded(0)
    BY <1>6, AnnouncedNothing
  <2> HIDE DEF E
  <2> QED  BY <1>1, <1>2, <1>4, <1>5, <2>1
<1>7. CASE m # 0
  <2>1. PICK k \in Nat, d \in 1..C : m = k * C + d
    BY <1>7, Splits
  <2>2. Announced(m) = k * E + Encoded(d) + Encoded(0)
    BY <2>1, AnnouncedOf
  <2>3. k * E \in Nat /\ k * C \in Nat
    BY <1>1
  <2>4. CASE k < l
    <3>1. PICK j \in Nat : l = k + 1 + j
      <4>1. l - k - 1 \in Nat /\ l = k + 1 + (l - k - 1)
        BY <2>4
      <4> QED  BY <4>1
    <3>2. l * E = k * E + E + j * E /\ j * E \in Nat
      BY <1>1, <3>1
    <3>3. Encoded(d) <= E /\ Encoded(d) \in Nat /\ Encoded(e) \in Nat \ {0}
      BY <1>2
    <3> HIDE DEF E
    <3> QED  BY <1>1, <1>4, <1>5, <2>2, <2>3, <3>2, <3>3
  <2>5. CASE k = l
    <3>1. d < e
      BY <1>1, <1>3, <1>5, <2>1, <2>3, <2>5
    <3>2. Encoded(d) < Encoded(e) /\ Encoded(d) \in Nat /\ Encoded(e) \in Nat
      BY <1>1, <3>1, EncodedGrows
    <3> HIDE DEF E
    <3> QED  BY <1>1, <1>4, <1>5, <2>2, <2>5, <3>2
  <2>6. CASE k > l
    <3>1. PICK j \in Nat : k = l + 1 + j
      <4>1. k - l - 1 \in Nat /\ k = l + 1 + (k - l - 1)
        BY <2>6
      <4> QED  BY <4>1
    <3>2. k * C = l * C + C + j * C /\ j * C \in Nat
      BY <1>1, <3>1
    <3>3. m > l * C + C
      BY <1>1, <1>5, <2>1, <3>2
    <3> QED  BY <1>1, <1>3, <1>5, <3>3
  <2> QED  BY <2>4, <2>5, <2>6
<1> QED  BY <1>6, <1>7

-----------------------------------------------------------------------------
(* Sums of lists                                                           *)

\* Numbers up to a bound have a greatest.
LEMMA GreatestIs ==
    ASSUME NEW k \in Nat, NEW d \in SUBSET (1..k), d # {}
    PROVE  Max(d) \in d /\ \A x \in d : x <= Max(d)
<1> DEFINE HasGreatest(e) == \E x \in e : \A y \in e : x >= y
           Have(j) == \A e \in SUBSET (1..j) : e # {} => HasGreatest(e)
           S == {j \in Nat : Have(j)}
<1>1. 0 \in S
  <2>1. 1..0 = {}
    OBVIOUS
  <2> QED  BY <2>1
<1>2. ASSUME NEW j \in Nat, Have(j) PROVE Have(j + 1)
  <2> SUFFICES ASSUME NEW e \in SUBSET (1..(j + 1)), e # {} PROVE HasGreatest(e)
    BY Zenon
  <2>1. CASE j + 1 \in e
    <3>1. \A y \in e : j + 1 >= y
      OBVIOUS
    <3> QED  BY <2>1, <3>1
  <2>2. CASE j + 1 \notin e
    <3>1. \A y \in e : y \in 1..j
      BY <2>2
    <3> QED  BY <1>2, <3>1
  <2> QED  BY <2>1, <2>2
<1> HIDE DEF Have
<1>3. \A j \in Nat : j \in S
  <2> SUFFICES ASSUME NEW j \in Nat, j \in S PROVE j + 1 \in S
    <3> HIDE DEF S
    <3> QED  BY <1>1, Induction
  <2> QED  BY <1>2
<1>4. HasGreatest(d)
  BY <1>3 DEF Have
<1>5. Max(d) \in d /\ \A y \in d : Max(d) >= y
  BY <1>4 DEF Max
<1>6. d \subseteq Int
  OBVIOUS
<1> QED  BY <1>5, <1>6

\* What FoldLeft adds up, from the last element down: f gives the sum of the
\* elements of s in each set of places up to k.
SumsUpTo(s, f, k) ==
    f = [d \in SUBSET (1..k) |->
           IF d = {} THEN 0 ELSE f[d \ {Max(d)}] + s[Max(d)]]

LEMMA SumsExist ==
    ASSUME NEW s, NEW k \in Nat
    PROVE  \E f : SumsUpTo(s, f, k)
<1> DEFINE S == {j \in Nat : \E f : SumsUpTo(s, f, j)}
<1>1. 0 \in S
  <2> DEFINE f == [d \in SUBSET (1..0) |-> 0]
  <2>1. 1..0 = {}
    OBVIOUS
  <2>2. SumsUpTo(s, f, 0)
    BY <2>1 DEF SumsUpTo
  <2> QED  BY <2>2
<1>2. ASSUME NEW j \in Nat, j \in S PROVE j + 1 \in S
  <2>1. PICK f : SumsUpTo(s, f, j)
    BY <1>2
  <2> DEFINE c == j + 1
             g == [d \in SUBSET (1..c) |->
                     IF c \in d THEN f[d \ {c}] + s[c] ELSE f[d]]
  <2>2. ASSUME NEW d \in SUBSET (1..c)
        PROVE  g[d] = IF d = {} THEN 0 ELSE g[d \ {Max(d)}] + s[Max(d)]
    <3>1. CASE c \in d
      <4>1. Max(d) = c
        <5>1. c \in Nat /\ d # {} /\ \A x \in d : x <= c /\ x \in Nat
          BY <3>1
        <5> HIDE DEF c
        <5>2. Max(d) \in d /\ c <= Max(d)
          BY <3>1, <5>1, GreatestIs
        <5>3. Max(d) <= c /\ Max(d) \in Nat
          BY <5>1, <5>2
        <5> QED  BY <5>1, <5>2, <5>3
      <4>2. d \ {c} \in SUBSET (1..c) /\ c \notin d \ {c}
        OBVIOUS
      <4>3. g[d \ {c}] = f[d \ {c}]
        BY <4>2
      <4>4. g[d] = f[d \ {c}] + s[c]
        BY <3>1
      <4> QED  BY <3>1, <4>1, <4>3, <4>4
    <3>2. CASE c \notin d
      <4>1. d \in SUBSET (1..j)
        BY <3>2
      <4>2. g[d] = f[d]
        BY <3>2
      <4>3. f[d] = IF d = {} THEN 0 ELSE f[d \ {Max(d)}] + s[Max(d)]
        BY <2>1, <4>1 DEF SumsUpTo
      <4>4. d \ {Max(d)} \in SUBSET (1..c) /\ c \notin d \ {Max(d)}
        BY <3>2
      <4>5. g[d \ {Max(d)}] = f[d \ {Max(d)}]
        BY <4>4
      <4> QED  BY <4>2, <4>3, <4>5
    <3> QED  BY <3>1, <3>2
  <2>3. g = [d \in SUBSET (1..c) |-> g[d]]
    OBVIOUS
  <2> HIDE DEF g, c
  <2>4. SumsUpTo(s, g, c)
    BY <2>2, <2>3 DEF SumsUpTo
  <2> QED  BY <2>4 DEF c
<1> HIDE DEF S
<1>3. k \in S
  BY <1>1, <1>2, Induction
<1> QED  BY <1>3 DEF S

\* The sums of the first elements of a list.
PartialSums(list) ==
    LET sum == CHOOSE f : SumsUpTo(list, f, Len(list))
    IN  [k \in 0..Len(list) |-> sum[1..k]]

LEMMA SumsStep ==
    ASSUME NEW s \in Seq(Nat)
    PROVE  /\ PartialSums(s)[0] = 0
           /\ \A k \in 1..Len(s) : PartialSums(s)[k] = PartialSums(s)[k - 1] + s[k]
           /\ PartialSums(s)[Len(s)] = Total(s)
<1> DEFINE n == Len(s)
           F == CHOOSE f : SumsUpTo(s, f, n)
<1>1. n \in Nat /\ DOMAIN s = 1..n
  OBVIOUS
<1>2. Total(s) = F[1..n]
  BY <1>1 DEF Total, FoldLeft, MapThenFoldSet, SumsUpTo
<1>3. SumsUpTo(s, F, n)
  BY <1>1, SumsExist
<1>4. PartialSums(s) = [k \in 0..n |-> F[1..k]]
  BY DEF PartialSums
<1> HIDE DEF F, n
<1>5. \A d \in SUBSET (1..n) :
         F[d] = IF d = {} THEN 0 ELSE F[d \ {Max(d)}] + s[Max(d)]
  BY <1>3 DEF SumsUpTo
<1>6. F[1..0] = 0
  <2>1. 1..0 = {} /\ 1..0 \in SUBSET (1..n)
    OBVIOUS
  <2> QED  BY <1>5, <2>1
<1>7. ASSUME NEW c \in 1..n PROVE F[1..c] = F[1..(c - 1)] + s[c]
  <2> DEFINE d == 1..c
  <2>1. c \in Nat /\ 1 <= c /\ c <= n
    BY <1>1
  <2>2. c \in d /\ d \in SUBSET (1..n) /\ d # {}
    <3>1. \A x \in d : x \in 1..n
      BY <1>1, <2>1
    <3>2. c \in d
      BY <2>1
    <3> QED  BY <3>1, <3>2
  <2>3. d \ {c} = 1..(c - 1)
    BY <2>1
  <2>4. d \in SUBSET (1..c) /\ \A x \in d : x <= c /\ x \in Nat
    BY <2>1
  <2> HIDE DEF d
  <2>5. Max(d) = c
    <3>1. Max(d) \in d /\ c <= Max(d)
      BY <2>1, <2>2, <2>4, GreatestIs
    <3>2. Max(d) <= c /\ Max(d) \in Nat
      BY <2>4, <3>1
    <3> QED  BY <2>1, <3>1, <3>2
  <2>6. F[d] = F[d \ {c}] + s[c]
    BY <1>5, <2>2, <2>5
  <2> QED  BY <2>3, <2>6 DEF d
<1>8. PartialSums(s)[0] = 0 /\ PartialSums(s)[n] = Total(s)
  BY <1>1, <1>2, <1>4, <1>6
<1>9. ASSUME NEW k \in 1..n PROVE PartialSums(s)[k] = PartialSums(s)[k - 1] + s[k]
  <2>1. k \in 0..n /\ k - 1 \in 0..n
    BY <1>1
  <2> QED  BY <1>4, <1>7, <2>1
<1> QED  BY <1>8, <1>9 DEF n

\* To add up a list, give its partial sums.
LEMMA TotalIs ==
    ASSUME NEW s \in Seq(Nat), NEW T, T[0] = 0,
           \A i \in 1..Len(s) : T[i] = T[i - 1] + s[i]
    PROVE  Total(s) = T[Len(s)]
<1> DEFINE n == Len(s)
           P == PartialSums(s)
           S == {k \in Nat : k <= n => P[k] = T[k]}
<1>1. n \in Nat
  OBVIOUS
<1>2. 0 \in S
  BY SumsStep
<1>3. ASSUME NEW k \in Nat, k \in S PROVE k + 1 \in S
  <2> SUFFICES ASSUME k + 1 <= n PROVE P[k + 1] = T[k + 1]
    OBVIOUS
  <2>1. k + 1 \in 1..n /\ (k + 1) - 1 = k /\ P[k] = T[k]
    BY <1>1, <1>3
  <2>2. /\ P[k + 1] = P[(k + 1) - 1] + s[k + 1]
        /\ T[k + 1] = T[(k + 1) - 1] + s[k + 1]
    BY <2>1, SumsStep
  <2> QED  BY <2>1, <2>2
<1> HIDE DEF S
<1>4. n \in S
  BY <1>1, <1>2, <1>3, Induction
<1>5. P[n] = T[n]
  BY <1>1, <1>4 DEF S
<1> QED  BY <1>5, SumsStep

\* A run of k equal numbers and two more.
IsRun(s, k, a, b, c) ==
    /\ k \in Nat /\ a \in Nat /\ b \in Nat /\ c \in Nat
    /\ s \in Seq(Nat) /\ Len(s) = k + 2
    /\ \A i \in 1..k : s[i] = a
    /\ s[k + 1] = b /\ s[k + 2] = c

LEMMA TotalOfRun ==
    ASSUME NEW s, NEW k, NEW a, NEW b, NEW c, IsRun(s, k, a, b, c)
    PROVE  Total(s) = k * a + b + c
<1> USE DEF IsRun
<1> DEFINE n == k + 2
           T == [i \in 0..n |-> IF i <= k THEN i * a
                                ELSE IF i = k + 1 THEN k * a + b ELSE k * a + b + c]
<1>1. k * a \in Nat /\ 0 * a = 0
  OBVIOUS
<1>2. T[0] = 0
  BY <1>1
<1>3. ASSUME NEW i \in 1..n PROVE T[i] = T[i - 1] + s[i]
  <2>1. CASE i <= k
    <3>1. i \in 1..k /\ i - 1 \in 0..n /\ i \in 0..n /\ i - 1 <= k
      BY <2>1
    <3>2. T[i] = i * a /\ T[i - 1] = (i - 1) * a /\ s[i] = a
      BY <2>1, <3>1
    <3>3. i * a = (i - 1) * a + a
      BY <3>1
    <3> HIDE DEF T
    <3> QED  BY <3>2, <3>3
  <2>2. CASE i = k + 1
    <3>1. T[i] = k * a + b /\ T[i - 1] = k * a
      BY <2>2
    <3> HIDE DEF T
    <3> QED  BY <2>2, <3>1
  <2>3. CASE i = k + 2
    <3>1. T[i] = k * a + b + c /\ T[i - 1] = k * a + b
      BY <2>3
    <3> HIDE DEF T
    <3> QED  BY <2>3, <3>1
  <2> QED  BY <2>1, <2>2, <2>3
<1>4. T[n] = k * a + b + c
  OBVIOUS
<1> HIDE DEF T
<1>5. Total(s) = T[n]
  BY <1>2, <1>3, TotalIs
<1> QED  BY <1>4, <1>5

-----------------------------------------------------------------------------
(* What is delivered                                                       *)

\* How the pieces of n bytes are long: a chunk, what is left, or nothing.
LEMMA PieceLength ==
    ASSUME NEW i \in Nat \ {0}, NEW n \in Nat
    PROVE  LET before == (i - 1) * ChunkSize
           IN  /\ Piece(i, n) \in Seq(Nat)
               /\ before + ChunkSize <= n => Len(Piece(i, n)) = ChunkSize
               /\ before <= n /\ n <= before + ChunkSize =>
                    Len(Piece(i, n)) = n - before
               /\ Piece(i, n) = << >> => n <= before
               /\ n <= before => Len(Piece(i, n)) = 0
<1> DEFINE before == (i - 1) * ChunkSize
           size == IF n - before < ChunkSize THEN n - before ELSE ChunkSize
<1>1. before \in Nat /\ ChunkSize \in Nat \ {0}
  BY ChunkAssumption
<1>2. Piece(i, n) = [j \in 1..size |-> before + j]
  BY DEF Piece
<1> HIDE DEF before
<1>3. size \in Int
  BY <1>1
<1> DEFINE p == [j \in 1..size |-> before + j]
<1>4. CASE size >= 0
  <2> HIDE DEF size
  <2>1. p \in Seq(Nat) /\ Len(p) = size /\ (p = << >> => size = 0)
    BY <1>1, <1>3, <1>4
  <2> HIDE DEF p
  <2>2. /\ before + ChunkSize <= n => size = ChunkSize
        /\ before <= n /\ n <= before + ChunkSize => size = n - before
        /\ size = 0 => n <= before
        /\ n <= before => size = 0
    BY <1>1, <1>4 DEF size
  <2> QED  BY <1>2, <2>1, <2>2 DEF before, p
<1>5. CASE ~(size >= 0)
  <2>1. p = << >>
    <3>1. 1..size = {}
      BY <1>3, <1>5
    <3> HIDE DEF size
    <3> QED  BY <3>1
  <2>2. n < before
    BY <1>1, <1>5
  <2>3. Piece(i, n) = << >>
    BY <1>2, <2>1
  <2> QED  BY <1>1, <2>2, <2>3 DEF before
<1> QED  BY <1>3, <1>4, <1>5

\* What TypeInv and Order leave open about an upload as a whole: where its end
\* was found, that no chunk before the final one is empty, what was read of
\* the frames, and what it means to be delivered and to have failed.
Whole ==
    /\ srcEOF => EndsCleanly /\ InLastFrame /\ srcRemaining = 0
    /\ done => /\ Len(Chunks) > 0
               /\ Len(Chunks) > 1 => (Len(Chunks) - 2) * ChunkSize < taken
    /\ taken + srcRemaining = PartialSums(upload.frames)[next - 1]
    /\ status = "delivered" => /\ done /\ outputBuf = << >>
                               /\ WireLength = Announced(upload.decoded)
    /\ WellFormed => status # "failed"

LEMMA InitWhole == Init => Whole
<1> SUFFICES ASSUME Init PROVE Whole
  OBVIOUS
<1>1. upload.frames \in Seq(Nat)
  BY ChunkAssumption DEF Init, ValidUpload
<1>2. PartialSums(upload.frames)[0] = 0
  BY <1>1, SumsStep
<1> QED  BY <1>2 DEF Init, Whole

\* All chunks are out: full ones, the last bytes, and the final chunk.
LEMMA WireShape ==
    ASSUME TypeInv, Order, Whole, done, outputBuf = << >>
    PROVE  /\ wire # << >> /\ Last(wire).data = << >>
           /\ WireLength = Announced(taken)
           /\ Total([i \in DOMAIN wire |-> Len(wire[i].data)]) = taken
<1> DEFINE n == Len(wire)
           lens == [i \in 1..n |-> Len(wire[i].data)]
           codes == [i \in 1..n |-> Encoded(Len(wire[i].data))]
<1>1. Chunks = wire /\ wire \in Seq(ChunkSet) /\ DOMAIN wire = 1..n /\ n \in Nat
  BY DEF Chunks, TypeInv, TypeOK
<1>2. /\ n > 0 /\ (n > 1 => (n - 2) * ChunkSize < taken)
      /\ \A i \in 1..n : wire[i].data = Piece(i, taken)
      /\ wire[n].data = << >>
  BY <1>1 DEF Whole, Order, InOrder
<1>3. /\ taken \in Nat /\ ChunkSize \in Nat \ {0}
      /\ \A d \in Nat : Encoded(d) \in Nat
  BY ChunkAssumption, EncodedGrows DEF TypeInv, TypeOK
<1>4. WireLength = Total(codes)
  BY <1>1 DEF WireLength
<1>5. \A i \in 1..n : Len(wire[i].data) \in Nat
  <2> SUFFICES ASSUME NEW i \in 1..n PROVE Len(wire[i].data) \in Nat
    OBVIOUS
  <2>1. i \in Nat \ {0} /\ wire[i].data = Piece(i, taken)
    BY <1>1, <1>2
  <2>2. Piece(i, taken) \in Seq(Nat)
    BY <1>3, <2>1, PieceLength
  <2> QED  BY <2>1, <2>2
<1>6. wire # << >> /\ Last(wire).data = << >>
  BY <1>1, <1>2 DEF Last
<1>7. Piece(n, taken) = << >> /\ n \in Nat \ {0}
  BY <1>1, <1>2
<1>8. taken <= (n - 1) * ChunkSize
  BY <1>3, <1>7, PieceLength
<1>9. lens \in Seq(Nat) /\ codes \in Seq(Nat) /\ Len(lens) = n /\ Len(codes) = n
  <2>1. lens \in [1..n -> Nat] /\ codes \in [1..n -> Nat]
    BY <1>3, <1>5
  <2> HIDE DEF lens, codes, n
  <2> QED  BY <1>1, <2>1
<1>10. \A i \in 1..n : lens[i] = Len(Piece(i, taken)) /\ codes[i] = Encoded(lens[i])
  BY <1>2
<1>11. CASE n = 1
  <2>1. taken = 0
    BY <1>3, <1>8, <1>11
  <2>2. lens[1] = 0 /\ codes[1] = Encoded(0)
    BY <1>2, <1>11
  <2> HIDE DEF lens, codes
  <2>3. Total(lens) = 0
    <3> DEFINE T == [i \in 0..1 |-> 0]
    <3>1. T[0] = 0 /\ \A i \in 1..1 : T[i] = T[i - 1] + lens[i]
      BY <2>2
    <3>2. T[1] = 0
      OBVIOUS
    <3> HIDE DEF T
    <3> QED  BY <1>9, <1>11, <3>1, <3>2, TotalIs
  <2>4. Total(codes) = Encoded(0)
    <3> DEFINE T == [i \in 0..1 |-> IF i = 0 THEN 0 ELSE Encoded(0)]
    <3>1. T[0] = 0 /\ \A i \in 1..1 : T[i] = T[i - 1] + codes[i]
      BY <1>3, <2>2
    <3>2. T[1] = Encoded(0)
      OBVIOUS
    <3> HIDE DEF T
    <3> QED  BY <1>9, <1>11, <3>1, <3>2, TotalIs
  <2> QED
    BY <1>1, <1>4, <1>6, <2>1, <2>3, <2>4, AnnouncedNothing DEF lens
<1>12. CASE n > 1
  <2> DEFINE k == n - 2
             d == taken - k * ChunkSize
  <2>1. /\ k \in Nat /\ n = k + 2 /\ k * ChunkSize \in Nat
        /\ (n - 1) * ChunkSize = k * ChunkSize + ChunkSize
    <3> HIDE DEF n
    <3>1. k \in Nat /\ n = k + 2 /\ n - 1 = k + 1
      BY <1>1, <1>12
    <3> HIDE DEF k
    <3> QED  BY <1>3, <3>1
  <2>2. d \in 1..ChunkSize /\ d \in Nat /\ taken = k * ChunkSize + d
    <3>1. k * ChunkSize < taken
      BY <1>2, <1>12
    <3>2. taken <= k * ChunkSize + ChunkSize
      BY <1>8, <2>1
    <3> HIDE DEF k
    <3> QED  BY <1>3, <2>1, <3>1, <3>2
  <2>3. ASSUME NEW i \in 1..k PROVE Len(Piece(i, taken)) = ChunkSize
    <3>1. (i - 1) * ChunkSize + ChunkSize <= k * ChunkSize
      BY <2>1, Multiples
    <3>2. (i - 1) * ChunkSize \in Nat /\ i \in Nat \ {0}
      <4>1. i \in Nat \ {0} /\ i - 1 \in Nat
        BY <2>1
      <4> QED  BY <1>3, <4>1
    <3>3. (i - 1) * ChunkSize + ChunkSize <= taken
      BY <1>3, <2>1, <2>2, <3>1, <3>2
    <3> QED  BY <1>3, <3>2, <3>3, PieceLength
  <2> HIDE DEF k
  <2>4. Len(Piece(k + 1, taken)) = d
    <3>1. (k + 1) - 1 = k /\ k + 1 \in Nat \ {0}
      BY <2>1
    <3>2. k * ChunkSize <= taken /\ taken <= k * ChunkSize + ChunkSize
      BY <1>3, <2>1, <2>2
    <3> QED  BY <1>3, <3>1, <3>2, PieceLength
  <2>5. Len(Piece(k + 2, taken)) = 0
    BY <1>7, <2>1
  <2>6. /\ \A i \in 1..k : i \in 1..n
        /\ k + 1 \in 1..n /\ k + 2 \in 1..n
    BY <2>1
  <2> HIDE DEF lens, codes, d, n
  <2>7. /\ \A i \in 1..k : lens[i] = ChunkSize
        /\ lens[k + 1] = d /\ lens[k + 2] = 0
    BY <1>10, <2>3, <2>4, <2>5, <2>6
  <2>8. /\ \A i \in 1..k : codes[i] = Encoded(ChunkSize)
        /\ codes[k + 1] = Encoded(d) /\ codes[k + 2] = Encoded(0)
    BY <1>10, <2>6, <2>7
  <2>9. Total(lens) = k * ChunkSize + d + 0
    <3>1. ChunkSize \in Nat /\ d \in Nat /\ 0 \in Nat /\ k \in Nat /\ Len(lens) = k + 2
      BY <1>3, <1>9, <2>1, <2>2
    <3>2. IsRun(lens, k, ChunkSize, d, 0)
      BY <1>9, <2>7, <3>1 DEF IsRun
    <3> QED  BY <3>2, TotalOfRun
  <2>10. Total(codes) = k * Encoded(ChunkSize) + Encoded(d) + Encoded(0)
    <3>1. /\ Encoded(ChunkSize) \in Nat /\ Encoded(d) \in Nat /\ Encoded(0) \in Nat
          /\ k \in Nat /\ Len(codes) = k + 2
      BY <1>3, <1>9, <2>1, <2>2
    <3>2. IsRun(codes, k, Encoded(ChunkSize), Encoded(d), Encoded(0))
      BY <1>9, <2>8, <3>1 DEF IsRun
    <3> QED  BY <3>2, TotalOfRun
  <2>11. Total(lens) = taken
    BY <1>3, <2>1, <2>2, <2>9
  <2>12. Total(codes) = Announced(taken)
    BY <2>1, <2>2, <2>10, AnnouncedOf
  <2> QED  BY <1>1, <1>4, <1>6, <2>11, <2>12 DEF lens
<1> QED  BY <1>1, <1>2, <1>11, <1>12

\* All that the frames hold has been read when the end is found, if no frame
\* is cut.
LEMMA AllRead ==
    ASSUME TypeInv, Whole, srcEOF, WellFormed
    PROVE  taken = upload.decoded
<1>1. /\ upload.frames \in Seq(Nat) /\ next \in 1..(Len(upload.frames) + 1)
      /\ taken \in Nat /\ Len(upload.frames) \in Nat
  BY DEF TypeInv, TypeOK, ValidUpload
<1>2. next - 1 = Len(upload.frames) /\ srcRemaining = 0
  BY <1>1 DEF Whole, InLastFrame
<1>3. taken = PartialSums(upload.frames)[Len(upload.frames)]
  BY <1>1, <1>2 DEF Whole
<1> QED  BY <1>1, <1>3, SumsStep DEF WellFormed

LEMMA EmitKeepsWhole ==
    ASSUME TypeInv, Order, Whole, Emit
    PROVE  done' => /\ Len(Chunks') > 0
                    /\ Len(Chunks') > 1 => (Len(Chunks') - 2) * ChunkSize < taken'
<1> DEFINE m == Len(Chunks)
           b == m * ChunkSize
<1> SUFFICES ASSUME done'
             PROVE  /\ Len(Chunks') > 0
                    /\ Len(Chunks') > 1 => (Len(Chunks') - 2) * ChunkSize < taken'
  OBVIOUS
<1>1. taken' = taken /\ taken \in Nat /\ ChunkSize \in Nat \ {0}
  BY ChunkAssumption DEF Emit, source, TypeInv, TypeOK
<1>2. m \in Nat /\ Len(Chunks') = m + Len(outputBuf')
  BY EmitChunks DEF TypeInv
<1>3. \/ taken = b /\ Len(outputBuf') = 1
      \/ taken > b /\ Len(outputBuf') = 2
  BY EmitCases
<1>4. CASE taken = b /\ Len(outputBuf') = 1
  <2>1. Len(Chunks') = m + 1
    BY <1>2, <1>4
  <2>2. m > 0 => (m - 1) * ChunkSize < taken
    <3> HAVE m > 0
    <3>1. b = (m - 1) * ChunkSize + ChunkSize /\ (m - 1) * ChunkSize \in Nat
      BY <1>1, <1>2
    <3> QED  BY <1>1, <1>4, <3>1
  <2>3. (m + 1) - 2 = m - 1
    BY <1>2
  <2> QED  BY <1>1, <1>2, <2>1, <2>2, <2>3
<1>5. CASE taken > b /\ Len(outputBuf') = 2
  <2>1. Len(Chunks') = m + 2 /\ (m + 2) - 2 = m
    BY <1>2, <1>5
  <2> QED  BY <1>1, <1>2, <1>5, <2>1
<1> QED  BY <1>3, <1>4, <1>5

LEMMA NextWhole == TypeInv /\ Order /\ Whole /\ [Next]_vars => Whole'
<1> SUFFICES ASSUME TypeInv, Order, Whole, [Next]_vars PROVE Whole'
  OBVIOUS
<1> DEFINE Ending == srcEOF => EndsCleanly /\ InLastFrame /\ srcRemaining = 0
           Tight == done => /\ Len(Chunks) > 0
                            /\ Len(Chunks) > 1 =>
                                 (Len(Chunks) - 2) * ChunkSize < taken
           Received == taken + srcRemaining = PartialSums(upload.frames)[next - 1]
           Delivered == status = "delivered" =>
                          /\ done /\ outputBuf = << >>
                          /\ WireLength = Announced(upload.decoded)
           Unfailed == WellFormed => status # "failed"
<1>1. Ending /\ Tight /\ Received /\ Delivered /\ Unfailed
  BY DEF Whole
<1>2. SUFFICES Ending' /\ Tight' /\ Received' /\ Delivered' /\ Unfailed'
  BY DEF Whole
<1>3. CASE ReadData
  <2>1. /\ UNCHANGED <<upload, next, srcEOF, done>> /\ ~srcEOF /\ ~done
        /\ taken' = taken + Arrives /\ srcRemaining' = srcRemaining - Arrives
        /\ status' \in {"sending", "failed"}
        /\ status' = "failed" => LineEndFails
    BY <1>3 DEF ReadData, Filling, Reading
  <2>2. Arrives \in 0..srcRemaining /\ taken \in Nat /\ srcRemaining \in Nat
    BY <1>3, ArrivesInFrame DEF ReadData, TypeInv, TypeOK
  <2>3. taken' + srcRemaining' = taken + srcRemaining
    BY <2>1, <2>2
  <2>4. Received'
    BY <1>1, <2>1, <2>3
  <2>5. Unfailed'
    BY <2>1 DEF WellFormed, LineEndFails
  <2> QED  BY <2>1, <2>4, <2>5
<1>4. CASE ReadHeader
  <2>1. /\ UNCHANGED <<upload, taken, srcEOF, done, status>> /\ ~srcEOF /\ ~done
        /\ srcRemaining = 0 /\ srcRemaining' = upload.frames[next]
        /\ next' = next + 1 /\ ~InLastFrame /\ status = "sending"
    BY <1>4 DEF ReadHeader, Filling, Reading, encoder
  <2>2. /\ upload.frames \in Seq(Nat) /\ next \in 1..(Len(upload.frames) + 1)
        /\ Len(upload.frames) \in Nat /\ taken \in Nat
    BY DEF TypeInv, TypeOK, ValidUpload
  <2>3. next \in 1..Len(upload.frames)
    BY <2>1, <2>2 DEF InLastFrame
  <2>4. PartialSums(upload.frames)[next]
          = PartialSums(upload.frames)[next - 1] + upload.frames[next]
    BY <2>2, <2>3, SumsStep
  <2>5. Received'
    <3>1. (next + 1) - 1 = next
      BY <2>2
    <3>2. PartialSums(upload.frames)[next - 1] = taken
      BY <1>1, <2>1, <2>2
    <3> QED  BY <2>1, <2>4, <3>1, <3>2
  <2>6. Unfailed'
    BY <2>1
  <2> QED  BY <2>1, <2>5, <2>6
<1>5. CASE ReadEnd
  <2>1. /\ UNCHANGED <<upload, next, taken, srcRemaining, done, status>> /\ ~done
        /\ srcRemaining = 0 /\ InLastFrame /\ EndsCleanly /\ status = "sending"
    BY <1>5 DEF ReadEnd, Filling, Reading, encoder
  <2>2. EndsCleanly' /\ InLastFrame'
    BY <2>1 DEF EndsCleanly, InLastFrame
  <2> QED  BY <1>1, <2>1, <2>2
<1>6. CASE ReadFails
  <2>1. UNCHANGED <<upload, next, taken, srcRemaining, srcEOF, done, Chunks>>
        /\ status' = "failed"
    BY <1>6 DEF ReadFails, source, encoder, Chunks
  <2>2. ~WellFormed
    <3> SUFFICES ASSUME WellFormed PROVE FALSE
      OBVIOUS
    <3>1. upload.cut = "none" /\ EndsCleanly
      BY DEF WellFormed, EndsCleanly
    <3>2. srcRemaining > 0 /\ Arrives < ToRead
      BY <1>6, <3>1 DEF ReadFails
    <3>3. /\ Unread = srcRemaining /\ srcRemaining \in Nat /\ ChunkSize \in Nat
      BY <3>1, ChunkAssumption DEF Unread, TypeInv, TypeOK
    <3> QED  BY <3>2, <3>3 DEF Arrives, ToRead
  <2>3. ~WellFormed'
    BY <2>1, <2>2 DEF WellFormed
  <2>4. Ending'
    BY <1>1, <2>1 DEF EndsCleanly, InLastFrame
  <2> QED  BY <1>1, <2>1, <2>3, <2>4
<1>7. CASE Emit
  <2>1. UNCHANGED <<upload, next, taken, srcRemaining, srcEOF, status>>
        /\ status = "sending"
    BY <1>7 DEF Emit, source, Reading
  <2>2. Ending'
    BY <1>1, <2>1 DEF EndsCleanly, InLastFrame
  <2>3. Tight'
    BY <1>7, EmitKeepsWhole
  <2> QED  BY <1>1, <2>1, <2>2, <2>3
<1>8. CASE Drain \/ Break
  <2>1. Chunks' = Chunks /\ UNCHANGED <<taken, done>>
    BY <1>8, OtherSteps
  <2>2. UNCHANGED <<upload, next, srcRemaining, srcEOF>>
        /\ status' \in {"sending", "broken"}
    BY <1>8 DEF Drain, Break, source
  <2>3. Ending'
    BY <1>1, <2>2 DEF EndsCleanly, InLastFrame
  <2> QED  BY <1>1, <2>1, <2>2, <2>3
<1>9. CASE Close
  <2>1. Chunks' = Chunks
        /\ UNCHANGED <<upload, next, taken, srcRemaining, srcEOF, done, wire, outputBuf>>
    BY <1>9, OtherSteps DEF Close, source, encoder
  <2>2. done /\ outputBuf = << >> /\ srcEOF
    BY <1>9 DEF Close, Order
  <2>3. WireLength = Announced(taken)
    BY <2>2, WireShape
  <2>4. status' = IF WireLength = Announced(upload.decoded)
                  THEN "delivered" ELSE "failed"
    BY <1>9 DEF Close
  <2>5. WellFormed => status' = "delivered"
    BY <2>2, <2>3, <2>4, AllRead
  <2>6. WellFormed' <=> WellFormed
    BY <2>1 DEF WellFormed
  <2>7. WireLength' = WireLength /\ Announced(upload.decoded)' = Announced(upload.decoded)
    BY <2>1 DEF WireLength, Announced
  <2>8. Ending'
    BY <1>1, <2>1 DEF EndsCleanly, InLastFrame
  <2>9. Delivered'
    BY <2>1, <2>2, <2>4, <2>7
  <2>10. Unfailed'
    BY <2>5, <2>6
  <2> QED  BY <1>1, <2>1, <2>8, <2>9, <2>10
<1>10. CASE UNCHANGED vars
  <2>1. Ending'
    BY <1>1, <1>10 DEF vars, EndsCleanly, InLastFrame
  <2>2. Tight'
    BY <1>1, <1>10 DEF vars, Chunks
  <2>3. Delivered'
    BY <1>1, <1>10 DEF vars, WireLength, Announced
  <2>4. Received' /\ Unfailed'
    BY <1>1, <1>10 DEF vars, WellFormed
  <2> QED  BY <2>1, <2>2, <2>3, <2>4
<1> QED
  BY <1>3, <1>4, <1>5, <1>6, <1>7, <1>8, <1>9, <1>10 DEF Next, Ended

LEMMA AlwaysWhole == Spec => [](TypeInv /\ Order /\ Whole)
<1>1. TypeInv /\ Order /\ Whole /\ [Next]_vars => (TypeInv /\ Order /\ Whole)'
  BY NextTypeInv, NextOrder, NextWhole
<1> QED  BY <1>1, InitTypeInv, InitOrder, InitWhole, PTL DEF Spec

\* An upload the backend accepts, because the announced number of bytes has
\* arrived, is what the client declared, to the byte, with its final chunk, of
\* a body that was not cut off by a client that hung up: Close compares nothing
\* but lengths, and no two numbers of bytes are announced as the same length.
THEOREM UploadsAreWhole == Spec => []DeliveredWhole
<1>1. ASSUME TypeInv, Order, Whole PROVE DeliveredWhole
  <2> SUFFICES ASSUME status = "delivered"
               PROVE  /\ upload.cut = "none" \/ upload.why = "EOF"
                      /\ taken = upload.decoded
                      /\ wire # << >> /\ Last(wire).data = << >>
                      /\ Total([i \in DOMAIN wire |-> Len(wire[i].data)]) = taken
    BY DEF DeliveredWhole
  <2>1. done /\ outputBuf = << >> /\ WireLength = Announced(upload.decoded)
    BY <1>1 DEF Whole
  <2>2. EndsCleanly
    BY <1>1, <2>1 DEF Whole, Order
  <2>3. /\ wire # << >> /\ Last(wire).data = << >>
        /\ WireLength = Announced(taken)
        /\ Total([i \in DOMAIN wire |-> Len(wire[i].data)]) = taken
    BY <1>1, <2>1, WireShape
  <2>4. taken \in Nat /\ upload.decoded \in Nat
    BY <1>1 DEF TypeInv, TypeOK, ValidUpload
  <2>5. /\ ~(taken < upload.decoded) /\ ~(upload.decoded < taken)
    <3>1. Announced(taken) = Announced(upload.decoded)
      BY <2>1, <2>3
    <3>2. Announced(taken) \in Int
      BY <2>4, AnnouncedNat
    <3> QED  BY <2>4, <3>1, <3>2, AnnouncedGrows
  <2> QED  BY <2>2, <2>3, <2>4, <2>5 DEF EndsCleanly
<1> QED  BY <1>1, AlwaysWhole, PTL

\* An honest upload never fails at the router's own hands: the length that was
\* announced before the first byte was read is met, so that only the backend's
\* connection can end it otherwise (the safety half of UploadsArrive).
THEOREM HonestNeverFails == Spec => [](WellFormed => status # "failed")
<1>1. Whole => (WellFormed => status # "failed")
  BY DEF Whole
<1> QED  BY <1>1, AlwaysWhole, PTL
=============================================================================
