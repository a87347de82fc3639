--------------------------- MODULE FlvMux_proofs ---------------------------
(***************************************************************************)
(* Theorems about the muxer: its types, the space of the rewritten index,  *)
(* and the output of a session (OutputInv): tags go forward, keep their    *)
(* times and lie where the index says, the header comes first and          *)
(* announces every stream, and the rewritten duration covers them all.     *)
(***************************************************************************)
EXTENDS FlvMux, SequenceTheorems, FiniteSetTheorems, TLAPS

\* Division of naturals, as the prover needs it.
LEMMA Division ==
  ASSUME NEW a \in Nat, NEW b \in Nat \ {0}
  PROVE  /\ a \div b \in Nat /\ a % b \in 0..(b - 1)
         /\ a = b * (a \div b) + (a % b)
OBVIOUS

LEMMA TimesMonotone ==
  ASSUME NEW a \in Nat, NEW b \in Nat, NEW c \in Nat, a >= b
  PROVE  c * a >= c * b
<1>. DEFINE d == a - b
<1>1. d \in Nat /\ a = b + d
  OBVIOUS
<1>2. c * (b + d) = c * b + c * d /\ c * b \in Nat /\ c * d \in Nat
  BY <1>1
<1>. QED BY <1>1, <1>2

\* Thinning keeps at most MAX_INDEX_ENTRIES entries, and at least one.
LEMMA IndexLenBound ==
  ASSUME NEW len \in Nat \ {0}
  PROVE  IndexLen(len) \in 1..MAX_INDEX_ENTRIES
<1>. DEFINE M == MAX_INDEX_ENTRIES
           q == len \div M
           s == IndexSkip(len)
           n == len + s - 1
<1>1. M \in Nat \ {0}
  BY MuxAssumption
<1>2. /\ q \in Nat /\ len = M * q + (len % M)
      /\ len % M \in 0..(M - 1)
  BY <1>1, Division
<1>3. s \in Nat \ {0}
  BY <1>1, <1>2 DEF IndexSkip
<1>4. len =< M * s
  <2>1. CASE len =< M
    <3>1. s = 1
      BY <2>1, <1>1 DEF IndexSkip
    <3>. QED BY <3>1, <2>1, <1>1
  <2>2. CASE ~(len =< M)
    <3>1. s = 1 + q
      BY <2>2, <1>1 DEF IndexSkip
    <3>2. M * (1 + q) = M + M * q
      BY <1>1, <1>2
    <3>. QED BY <3>1, <3>2, <1>1, <1>2
  <2>. QED BY <2>1, <2>2
<1>5. /\ n \div s \in Nat /\ n = s * (n \div s) + (n % s)
      /\ n % s \in 0..(s - 1)
  <2>1. n \in Nat
    BY <1>3
  <2>. QED BY <2>1, <1>3, Division
<1>6. n \div s >= 1
  <2>1. SUFFICES ASSUME n \div s = 0 PROVE FALSE
    BY <1>5
  <2>2. n = n % s
    BY <2>1, <1>3, <1>5
  <2>. QED BY <2>2, <1>3, <1>5
<1>7. n \div s =< M
  <2>1. SUFFICES ASSUME n \div s >= M + 1 PROVE FALSE
    BY <1>1, <1>5
  <2>2. s * (n \div s) >= s * (M + 1)
    <3>1. M + 1 \in Nat /\ s \in Nat
      BY <1>1, <1>3
    <3>2. \A d \in Nat : d >= M + 1 => s * d >= s * (M + 1)
      BY <3>1, TimesMonotone
    <3>. QED BY <3>2, <2>1, <1>5
  <2>3. s * (M + 1) = M * s + s
    BY <1>1, <1>3
  <2>. QED BY <2>2, <2>3, <1>1, <1>3, <1>4, <1>5
<1>. QED BY <1>1, <1>5, <1>6, <1>7 DEF IndexLen

(***************************************************************************)
(* Types.  Each operator on the muxer keeps its type, and all but          *)
(* RewriteHeader leave the rewritten file alone.                           *)
(***************************************************************************)

LEMMA MsType ==
  ASSUME NEW t \in Times \cup {STIME_NONE}
  PROVE  Ms(t) \in 0..(U32 - 1)
<1>1. CASE t < 0
  BY <1>1, MuxAssumption DEF Ms
<1>2. CASE ~(t < 0)
  <2>1. t \in Nat
    BY <1>2 DEF Times, TIME_NONE, STIME_NONE
  <2>2. t \div MSECOND \in Nat
    BY <2>1, MuxAssumption, Division
  <2>3. (t \div MSECOND) % U32 \in 0..(U32 - 1)
    BY <2>2, MuxAssumption, Division
  <2>. QED BY <2>3, <1>2 DEF Ms
<1>. QED BY <1>1, <1>2

LEMMA TimesOfPad ==
  ASSUME NEW m \in MuxType, NEW q \in PadType
  PROVE  /\ Dts(m, q) \in 0..(U32 - 1)
         /\ Cts(m, q) \in 0..(U32 - 1)
<1>1. /\ q.last_timestamp \in Times \cup {STIME_NONE}
      /\ q.dts \in Times \cup {STIME_NONE}
      /\ q.pts \in Times \cup {STIME_NONE}
  BY DEF PadType, Times
<1>2. RawDts(q) \in 0..(U32 - 1) /\ RawPts(q) \in 0..(U32 - 1)
  BY <1>1, MsType DEF RawDts, RawPts
<1>3. m.last_dts \in 0..(U32 - 1)
  BY DEF MuxType
<1>4. Dts(m, q) \in 0..(U32 - 1)
  BY <1>2, <1>3 DEF Dts
<1>. QED BY <1>2, <1>4, MuxAssumption DEF Cts

LEMMA TagType ==
  ASSUME NEW m \in MuxType, NEW p \in Streams, NEW q \in PadType,
         NEW kind \in {"codec", "media", "eos"},
         NEW b \in Buffers \cup {NoBuffer}
  PROVE  Tag(m, p, q, kind, b) \in ChunkType
<1>. DEFINE ts == IF m.first_timestamp = STIME_NONE THEN Dts(m, q)
                  ELSE (Dts(m, q) - Ms(m.first_timestamp)) % U32
<1>1. /\ Dts(m, q) \in 0..(U32 - 1) /\ Cts(m, q) \in 0..(U32 - 1)
      /\ Ms(m.first_timestamp) \in 0..(U32 - 1)
  BY TimesOfPad, MsType DEF MuxType
<1>2. ts \in 0..(U32 - 1)
  <2>1. U32 \in Nat \ {0}
    BY MuxAssumption
  <2>2. \A i \in Int : i % U32 \in 0..(U32 - 1)
    BY <2>1
  <2>. QED BY <1>1, <2>1, <2>2
<1>. QED BY <1>1, <1>2 DEF Tag, ChunkType

LEMMA PushType ==
  ASSUME NEW m \in MuxType, NEW chunks \in Seq(ChunkType)
  PROVE  /\ Push(m, chunks) \in MuxType
         /\ Push(m, chunks).file = m.file
         /\ Push(m, chunks).last_dts = m.last_dts
         /\ Push(m, chunks).state = m.state
         /\ Push(m, chunks).first_timestamp = m.first_timestamp
<1>1. /\ Len(chunks) \in Nat /\ m.room \in Nat /\ m.byte_count \in Nat
      /\ m.out \in Seq(ChunkType)
  BY DEF MuxType
<1>2. CASE Len(chunks) =< m.room
  <2>1. /\ m.out \o chunks \in Seq(ChunkType) /\ m.room - Len(chunks) \in Nat
        /\ m.byte_count + Len(chunks) \in Nat
    BY <1>1, <1>2
  <2>. QED BY <1>2, <2>1 DEF Push, MuxType
<1>3. CASE ~(Len(chunks) =< m.room)
  <2>1. m.out \o SubSeq(chunks, 1, m.room) \in Seq(ChunkType)
    BY <1>1, <1>3
  <2>2. m.byte_count + m.room + 1 \in Nat
    BY <1>1
  <2>. QED BY <1>3, <2>1, <2>2 DEF Push, MuxType
<1>. QED BY <1>2, <1>3

LEMMA PushTagType ==
  ASSUME NEW m \in MuxType, NEW p \in Streams, NEW q \in PadType,
         NEW kind \in {"codec", "media", "eos"},
         NEW b \in Buffers \cup {NoBuffer}
  PROVE  /\ PushTag(m, p, q, kind, b) \in MuxType
         /\ PushTag(m, p, q, kind, b).file = m.file
<1>. DEFINE m1 == [m EXCEPT !.last_dts = Dts(m, q)]
<1>1. m1 \in MuxType /\ m1.file = m.file
  BY TimesOfPad DEF MuxType
<1>2. <<Tag(m, p, q, kind, b)>> \in Seq(ChunkType)
  BY TagType
<1>. QED BY <1>1, <1>2, PushType DEF PushTag

LEMMA ChunksType ==
  ASSUME TypeOK, NEW m \in MuxType
  PROVE  /\ \A set \in SUBSET Streams : Chunk("header", set) \in ChunkType
         /\ Chunk("meta", {}) \in ChunkType
         /\ \A p \in Streams : CodecTag(m, p) \in Seq(ChunkType)
<1>1. 0 \in 0..(U32 - 1)
  BY MuxAssumption
<1>2. \A set \in SUBSET Streams : Chunk("header", set) \in ChunkType
  BY <1>1 DEF Chunk, ChunkType
<1>3. Chunk("meta", {}) \in ChunkType
  BY <1>1 DEF Chunk, ChunkType
<1>4. ASSUME NEW p \in Streams
      PROVE  CodecTag(m, p) \in Seq(ChunkType)
  <2>1. pad[p] \in PadType
    BY DEF TypeOK
  <2>2. Tag(m, p, pad[p], "codec", NoBuffer) \in ChunkType
    BY <2>1, TagType
  <2>. QED BY <2>2 DEF CodecTag
<1>. QED BY <1>2, <1>3, <1>4

LEMMA WriteHeaderType ==
  ASSUME TypeOK, NEW m \in MuxType, NEW seekable \in BOOLEAN
  PROVE  /\ WriteHeader(m, seekable) \in MuxType
         /\ WriteHeader(m, seekable).file = m.file
<1>. DEFINE m1 == [m EXCEPT !.streamable = m.streamable \/ ~seekable]
           announced == {p \in Present : pad[p].codec}
           start == <<Chunk("header", announced), Chunk("meta", {})>>
           chunks == start \o CodecTag(m, "video") \o CodecTag(m, "audio")
<1>1. m1 \in MuxType /\ m1.file = m.file
  BY DEF MuxType
<1>2. announced \subseteq Streams
  BY DEF TypeOK, Present, Streams
<1>3. chunks \in Seq(ChunkType)
  <2>1. start \in Seq(ChunkType)
    BY <1>2, ChunksType
  <2>2. /\ CodecTag(m, "video") \in Seq(ChunkType)
        /\ CodecTag(m, "audio") \in Seq(ChunkType)
    BY ChunksType DEF Streams
  <2>. QED BY <2>1, <2>2
<1>4. WriteHeader(m, seekable) = Push(m1, chunks)
  BY DEF WriteHeader
<1>. HIDE DEF m1, chunks
<1>. QED BY <1>1, <1>3, <1>4, PushType

LEMMA PadsWaiting ==
  ASSUME TypeOK
  PROVE  /\ Waiting \in SUBSET {1, 2} /\ Timed \subseteq Waiting
         /\ \A i \in Waiting : /\ sinkpads[i] \in Streams
                               /\ pad[sinkpads[i]].queue[1] \in Buffers
                               /\ TimeAt(i) \in Times
<1>1. DOMAIN sinkpads \in SUBSET {1, 2} /\ \A i \in DOMAIN sinkpads : sinkpads[i] \in Streams
  BY DEF TypeOK, Streams
<1>2. ASSUME NEW i \in Waiting
      PROVE  pad[sinkpads[i]].queue[1] \in Buffers
  <2>1. sinkpads[i] \in Streams /\ pad[sinkpads[i]].queue # <<>>
    BY <1>1 DEF Waiting
  <2>2. pad[sinkpads[i]] \in PadType
    BY <2>1 DEF TypeOK
  <2>. QED BY <2>1, <2>2 DEF PadType
<1>3. \A b \in Buffers : Time(b) \in Times
  BY MuxAssumption DEF Time
<1>. QED BY <1>1, <1>2, <1>3 DEF Waiting, Timed, TimeAt

LEMMA BestIsWaiting ==
  ASSUME TypeOK, Waiting # {}
  PROVE  BestIndex \in Waiting
<1>1. /\ Waiting \in SUBSET {1, 2} /\ Timed \subseteq Waiting
      /\ \A i \in Timed : TimeAt(i) \in Int
  BY PadsWaiting DEF Times, TIME_NONE
<1>2. CASE Timed # {}
  <2>1. \E i \in Timed : \A j \in Timed :
          TimeAt(i) < TimeAt(j) \/ (TimeAt(i) = TimeAt(j) /\ i =< j)
    <3>1. CASE Timed = {1, 2}
      <4>1. CASE TimeAt(1) =< TimeAt(2)
        BY <3>1, <4>1, <1>1
      <4>2. CASE ~(TimeAt(1) =< TimeAt(2))
        BY <3>1, <4>2, <1>1
      <4>. QED BY <4>1, <4>2
    <3>2. CASE Timed # {1, 2}
      <4>1. PICK i : Timed = {i} /\ i \in {1, 2}
        BY <3>2, <1>1, <1>2
      <4>. QED BY <4>1, <1>1
    <3>. QED BY <3>1, <3>2
  <2>. QED BY <2>1, <1>1, <1>2 DEF BestIndex
<1>3. CASE Timed = {}
  <2>1. \E i \in Waiting : \A j \in Waiting : j =< i
    <3>1. CASE 2 \in Waiting
      BY <3>1, <1>1
    <3>2. CASE Waiting = {1}
      BY <3>2
    <3>. QED BY <3>1, <3>2, <1>1
  <2>. QED BY <2>1, <1>3 DEF BestIndex
<1>. QED BY <1>2, <1>3

LEMMA BeginType ==
  ASSUME TypeOK, NEW m \in MuxType, NEW seekable \in BOOLEAN
  PROVE  Begin(m, seekable) \in MuxType /\ Begin(m, seekable).file = m.file
<1>. DEFINE h == WriteHeader(m, seekable)
           t == IF Waiting # {} THEN TimeAt(BestIndex) ELSE 0
           started == [h EXCEPT !.state = "DATA", !.first_timestamp = t]
<1>1. h \in MuxType /\ h.file = m.file
  BY WriteHeaderType
<1>2. t \in Times
  BY PadsWaiting, BestIsWaiting DEF Times
<1>3. Begin(m, seekable) \in {m, h, started}
  BY DEF Begin
<1>. HIDE DEF h, t
<1>4. started \in MuxType /\ started.file = m.file
  BY <1>1, <1>2 DEF MuxType
<1>. HIDE DEF started
<1>. QED BY <1>1, <1>3, <1>4

LEMMA TakeTagsType ==
  ASSUME TypeOK, NEW m \in MuxType, NEW written \in BOOLEAN
  PROVE  TakeTags(m, written) \in MuxType /\ TakeTags(m, written).file = m.file
<1>. DEFINE m1 == IF m.new_tags /\ written THEN Push(m, <<Chunk("meta", {})>>) ELSE m
<1>1. <<Chunk("meta", {})>> \in Seq(ChunkType)
  BY ChunksType
<1>2. m1 \in MuxType /\ m1.file = m.file
  BY <1>1, PushType
<1>3. TakeTags(m, written) = [m1 EXCEPT !.new_tags = FALSE]
  BY DEF TakeTags
<1>. HIDE DEF m1
<1>. QED BY <1>2, <1>3 DEF MuxType

LEMMA PoppedType ==
  ASSUME TypeOK, Waiting # {}
  PROVE  LET p == sinkpads[BestIndex] IN
           /\ p \in Streams /\ pad[p].queue[1] \in Buffers
           /\ Popped(p) \in PadType
           /\ \A t \in Nat : [Popped(p) EXCEPT !.last_timestamp = t] \in PadType
<1>. DEFINE p == sinkpads[BestIndex]
           b == pad[p].queue[1]
<1>1. p \in Streams /\ b \in Buffers
  BY BestIsWaiting, PadsWaiting
<1>2. pad[p] \in PadType
  BY <1>1 DEF TypeOK
<1>3. Time(b) \in Times /\ b.pts \in Times
  BY <1>1, MuxAssumption DEF Time
<1>. DEFINE pts == IF b.pts # TIME_NONE THEN b.pts ELSE Time(b)
<1>4. pts \in Times
  BY <1>3
<1>5. Popped(p) = [pad[p] EXCEPT !.queue = <<>>, !.dts = Time(b), !.pts = pts]
  BY DEF Popped
<1>. HIDE DEF b, p, pts
<1>6. Popped(p) \in PadType
  BY <1>2, <1>3, <1>4, <1>5 DEF PadType
<1>7. ASSUME NEW t \in Nat
      PROVE  [Popped(p) EXCEPT !.last_timestamp = t] \in PadType
  BY <1>6 DEF PadType
<1>. QED BY <1>1, <1>6, <1>7 DEF p, b

LEMMA WriteBufferType ==
  ASSUME NEW m \in MuxType, NEW p \in Streams, NEW q \in PadType,
         NEW b \in Buffers
  PROVE  /\ WriteBuffer(m, p, q, b) \in MuxType
         /\ WriteBuffer(m, p, q, b).file = m.file
<1>. DEFINE m1 == IF m.streamable THEN m ELSE UpdateIndex(m, p, b)
<1>1. UpdateIndex(m, p, b) \in MuxType /\ UpdateIndex(m, p, b).file = m.file
  <2>1. CASE (p = "video" /\ b.delta) \/ b.pts = TIME_NONE
    BY <2>1 DEF UpdateIndex
  <2>2. CASE ~((p = "video" /\ b.delta) \/ b.pts = TIME_NONE)
    <3>. DEFINE e == [position |-> m.byte_count, time |-> b.pts]
    <3>1. b.pts \in Nat
      BY <2>2, MuxAssumption DEF Times
    <3>2. m.index \in Seq([position : Nat, time : Nat]) /\ m.byte_count \in Nat
      BY DEF MuxType
    <3>3. Append(m.index, e) \in Seq([position : Nat, time : Nat])
      BY <3>1, <3>2
    <3>4. UpdateIndex(m, p, b) = [m EXCEPT !.index = Append(m.index, e)]
      BY <2>2 DEF UpdateIndex
    <3>. HIDE DEF e
    <3>. QED BY <3>3, <3>4 DEF MuxType
  <2>. QED BY <2>1, <2>2
<1>2. m1 \in MuxType /\ m1.file = m.file
  BY <1>1
<1>. HIDE DEF m1
<1>3. /\ PushTag(m1, p, q, "media", b) \in MuxType
      /\ PushTag(m1, p, q, "media", b).file = m.file
  BY <1>2, PushTagType
<1>. QED BY <1>3 DEF WriteBuffer, m1

LEMMA WriteEosType ==
  ASSUME TypeOK, NEW m \in MuxType
  PROVE  WriteEos(m) \in MuxType /\ WriteEos(m).file = m.file
<1>1. "video" \in Streams /\ pad["video"] \in PadType
  BY DEF TypeOK, Streams
<1>2. /\ PushTag(m, "video", pad["video"], "eos", NoBuffer) \in MuxType
      /\ PushTag(m, "video", pad["video"], "eos", NoBuffer).file = m.file
  BY <1>1, PushTagType
<1>. QED BY <1>2 DEF WriteEos

LEMMA DurationType ==
  ASSUME TypeOK, Present # {}
  PROVE  DetermineDuration \in Nat
<1>. DEFINE T(p) == pad[p].last_timestamp
<1>1. Present \in SUBSET {"audio", "video"}
  BY DEF TypeOK, Present
<1>2. \A p \in Present : T(p) \in Nat
  BY <1>1 DEF TypeOK, Streams, PadType
<1>3. \E r \in Present : \A p \in Present : T(p) =< T(r)
  <2>1. CASE Present = {"audio", "video"}
    <3>1. CASE T("audio") =< T("video")
      BY <2>1, <3>1, <1>2
    <3>2. CASE ~(T("audio") =< T("video"))
      BY <2>1, <3>2, <1>2
    <3>. QED BY <3>1, <3>2
  <2>2. CASE Present # {"audio", "video"}
    <3>1. PICK r : Present = {r}
      BY <2>2, <1>1
    <3>. QED BY <3>1, <1>2
  <2>. QED BY <2>1, <2>2
<1>4. \E t \in {T(p) : p \in Present} : \A p \in Present : T(p) =< t
  BY <1>3
<1>5. DetermineDuration \in {T(p) : p \in Present}
  BY <1>4 DEF DetermineDuration
<1>. QED BY <1>2, <1>5

LEMMA RewriteHeaderType ==
  ASSUME TypeOK, Present # {}, NEW m \in MuxType,
         m.file.index_len =< MAX_INDEX_ENTRIES
  PROVE  /\ RewriteHeader(m) \in MuxType
         /\ RewriteHeader(m).file.index_len =< MAX_INDEX_ENTRIES
<1>. DEFINE len == Len(m.index)
           index_len == IF len = 0 THEN 0 ELSE IndexLen(len)
           entries == {i \in 1..len : (i - 1) % IndexSkip(len) = 0}
           file == [written |-> TRUE, duration |-> DetermineDuration,
                    index_len |-> index_len, entries |-> entries]
           byte_count == m.byte_count + 1
<1>1. len \in Nat /\ byte_count \in Nat /\ MAX_INDEX_ENTRIES \in Nat
  BY MuxAssumption DEF MuxType
<1>2. index_len \in 0..MAX_INDEX_ENTRIES
  <2>1. CASE len = 0
    BY <2>1, <1>1
  <2>2. CASE len # 0
    BY <2>2, <1>1, IndexLenBound
  <2>. QED BY <2>1, <2>2
<1>3. entries \in SUBSET Nat
  BY <1>1
<1>4. RewriteHeader(m) \in {m, [m EXCEPT !.file = file, !.byte_count = byte_count]}
  BY DEF RewriteHeader, Rewritten
<1>. HIDE DEF len, index_len, entries, byte_count
<1>5. file \in [written : BOOLEAN, duration : Nat, index_len : Nat, entries : SUBSET Nat]
  BY <1>1, <1>2, <1>3, DurationType
<1>6. file.index_len =< MAX_INDEX_ENTRIES
  BY <1>1, <1>2
<1>. HIDE DEF file
<1>7. [m EXCEPT !.file = file, !.byte_count = byte_count] \in MuxType
  BY <1>1, <1>5 DEF MuxType
<1>8. [m EXCEPT !.file = file, !.byte_count = byte_count].file = file
  BY DEF MuxType
<1>. QED BY <1>4, <1>6, <1>7, <1>8

(***************************************************************************)
(* The invariant.                                                          *)
(***************************************************************************)

\* The header that was rewritten has no more entries than were reserved.
MuxInv == TypeOK /\ mux.file.index_len =< MAX_INDEX_ENTRIES

LEMMA InitMuxInv ==
  ASSUME Init
  PROVE  MuxInv
<1>1. PICK s \in Streamables :
        mux = [state |-> "HEADER", streamable |-> s, new_tags |-> FALSE,
               first_timestamp |-> STIME_NONE, last_dts |-> 0,
               byte_count |-> 0, index |-> <<>>,
               flow |-> "OK", room |-> 0, out |-> <<>>, file |-> NoFile]
  BY DEF Init
<1>2. s \in BOOLEAN /\ 0 \in 0..(U32 - 1)
  BY MuxAssumption
<1>3. NoFile \in [written : BOOLEAN, duration : Nat, index_len : Nat, entries : SUBSET Nat]
  BY DEF NoFile
<1>4. mux \in MuxType /\ mux.room = 0
  BY <1>1, <1>2, <1>3 DEF MuxType
<1>5. NewPad \in PadType
  BY DEF NewPad, PadType
<1>6. TypeOK
  BY <1>4, <1>5, MuxAssumption DEF Init, TypeOK
<1>7. mux.file.index_len =< MAX_INDEX_ENTRIES
  BY <1>1, MuxAssumption DEF NoFile
<1>. QED BY <1>6, <1>7 DEF MuxInv

\* Leave ends every call of aggregate: with a pad that has its type, and a
\* muxer that has its own, the step keeps the invariant.
LEMMA LeaveMuxInv ==
  ASSUME MuxInv, NEW m \in MuxType, Leave(m), pad' \in [Streams -> PadType],
         m.file.index_len =< MAX_INDEX_ENTRIES
  PROVE  MuxInv'
<1>1. mux' = [m EXCEPT !.room = 0]
  BY DEF Leave
<1>2. mux' \in MuxType /\ mux'.room = 0 /\ mux'.file = m.file
  BY <1>1 DEF MuxType
<1>3. UNCHANGED <<sinkpads, arrived, restarts>>
  BY DEF Leave
<1>4. TypeOK'
  BY <1>2, <1>3 DEF MuxInv, TypeOK
<1>. QED BY <1>2, <1>4 DEF MuxInv

LEMMA WithRoomType ==
  ASSUME TypeOK, NEW room \in Rooms
  PROVE  WithRoom(room) \in MuxType /\ WithRoom(room).file = mux.file
<1>1. mux \in MuxType /\ room \in Nat
  BY DEF TypeOK, Rooms
<1>. QED BY <1>1 DEF WithRoom, MuxType

(***************************************************************************)
(* What happens outside aggregate.                                         *)
(***************************************************************************)

LEMMA NewPadType == NewPad \in PadType
BY DEF NewPad, PadType

LEMMA AppendToOne ==
  ASSUME NEW r, NEW p
  PROVE  Append(<<r>>, p) = <<r, p>>
<1>. DEFINE s == Append(<<r>>, p)
           t == <<r, p>>
<1>1. <<r>> \in Seq({r, p}) /\ Len(<<r>>) = 1 /\ <<r>>[1] = r
  OBVIOUS
<1>2. s \in Seq({r, p}) /\ Len(s) = 2 /\ s[1] = r /\ s[2] = p
  BY <1>1
<1>3. t \in Seq({r, p}) /\ Len(t) = 2 /\ t[1] = r /\ t[2] = p
  OBVIOUS
<1>4. \A i \in 1..2 : s[i] = t[i]
  BY <1>2, <1>3
<1>. HIDE DEF s, t
<1>5. s = t
  BY <1>2, <1>3, <1>4, SeqEqual
<1>. QED BY <1>5 DEF s, t

LEMMA PadsMuxInv ==
  ASSUME MuxInv, NEW p \in Streams, RequestPad(p) \/ ReleasePad(p)
  PROVE  MuxInv'
<1>1. pad' \in [Streams -> PadType]
  BY NewPadType DEF MuxInv, TypeOK, RequestPad, ReleasePad
<1>2. sinkpads' \in {<<>>, <<"audio">>, <<"video">>,
                    <<"audio", "video">>, <<"video", "audio">>}
  <2>1. CASE RequestPad(p)
    <3>1. p \notin {sinkpads[i] : i \in DOMAIN sinkpads}
      BY <2>1 DEF RequestPad, Present
    <3>2. sinkpads \in {<<>>, <<"audio">>, <<"video">>}
      BY <3>1 DEF MuxInv, TypeOK, Streams
    <3>3. sinkpads' = Append(sinkpads, p) /\ p \in {"audio", "video"}
      BY <2>1 DEF RequestPad, Streams
    <3>4. CASE sinkpads = <<>>
      <4>1. sinkpads' = <<p>>
        BY <3>3, <3>4
      <4>. QED BY <3>3, <4>1
    <3>5. CASE sinkpads = <<"audio">>
      <4>1. p = "video"
        BY <3>1, <3>3, <3>5
      <4>. QED BY <3>3, <3>5, <4>1, AppendToOne
    <3>6. CASE sinkpads = <<"video">>
      <4>1. p = "audio"
        BY <3>1, <3>3, <3>6
      <4>. QED BY <3>3, <3>6, <4>1, AppendToOne
    <3>. QED BY <3>2, <3>4, <3>5, <3>6
  <2>2. CASE ReleasePad(p)
    <3>1. sinkpads # <<>>
      BY <2>2 DEF ReleasePad, Present
    <3>2. sinkpads' \in {Tail(sinkpads), <<Head(sinkpads)>>}
      BY <2>2 DEF ReleasePad
    <3>3. ASSUME NEW r \in Streams, sinkpads = <<r>>
          PROVE  Tail(sinkpads) = <<>> /\ <<Head(sinkpads)>> = <<r>>
      BY <3>3
    <3>4. ASSUME NEW r \in Streams, NEW t \in Streams, sinkpads = <<r, t>>
          PROVE  Tail(sinkpads) = <<t>> /\ <<Head(sinkpads)>> = <<r>>
      BY <3>4
    <3>5. \/ \E r \in Streams : sinkpads = <<r>>
          \/ \E r, t \in Streams : sinkpads = <<r, t>>
      BY <3>1 DEF MuxInv, TypeOK, Streams
    <3>6. \E r \in Streams : sinkpads' \in {<<>>, <<r>>}
      BY <3>2, <3>3, <3>4, <3>5
    <3>. QED BY <3>6 DEF Streams
  <2>. QED BY <2>1, <2>2
<1>. QED BY <1>1, <1>2 DEF MuxInv, TypeOK, RequestPad, ReleasePad

LEMMA NewTagsMuxInv ==
  ASSUME MuxInv, NEW p \in Streams, NewTags(p)
  PROVE  MuxInv'
<1>1. mux' = [mux EXCEPT !.new_tags = TRUE]
  BY DEF NewTags
<1>2. mux' \in MuxType /\ mux'.room = 0 /\ mux'.file = mux.file
  BY <1>1 DEF MuxInv, TypeOK, MuxType
<1>. QED BY <1>2 DEF MuxInv, TypeOK, NewTags

LEMMA InputMuxInv ==
  ASSUME MuxInv, NEW p \in Streams,
         \/ Eos(p)
         \/ \E codec_data \in BOOLEAN : SetCaps(p, codec_data)
         \/ \E b \in Buffers : Arrive(p, b)
  PROVE  MuxInv'
<1>1. pad[p] \in PadType /\ mux.state \in {"HEADER", "DATA"}
  BY DEF MuxInv, TypeOK, MuxType
<1>2. CASE Eos(p)
  <2>1. pad' = [pad EXCEPT ![p] = [pad[p] EXCEPT !.eos = TRUE]]
    BY <1>2 DEF Eos
  <2>2. [pad[p] EXCEPT !.eos = TRUE] \in PadType
    BY <1>1 DEF PadType
  <2>3. UNCHANGED <<mux, sinkpads, arrived, restarts>>
    BY <1>2 DEF Eos
  <2>4. pad' \in [Streams -> PadType]
    BY <2>1, <2>2 DEF MuxInv, TypeOK
  <2>. QED BY <2>3, <2>4 DEF MuxInv, TypeOK
<1>3. ASSUME NEW codec_data \in BOOLEAN, SetCaps(p, codec_data)
      PROVE  MuxInv'
  <2>. DEFINE data == pad[p].codec_data \/ codec_data
             renewed == pad[p].renewed \/ mux.state = "DATA"
             q == [pad[p] EXCEPT !.codec = TRUE, !.codec_data = data,
                                 !.renewed = renewed]
  <2>1. data \in BOOLEAN /\ renewed \in BOOLEAN
    BY <1>1 DEF PadType
  <2>2. pad' = [pad EXCEPT ![p] = q]
    BY <1>3 DEF SetCaps, MuxInv, TypeOK
  <2>. HIDE DEF data, renewed
  <2>3. q \in PadType
    BY <1>1, <2>1 DEF PadType
  <2>. HIDE DEF q
  <2>4. UNCHANGED <<mux, sinkpads, arrived, restarts>>
    BY <1>3 DEF SetCaps
  <2>5. pad' \in [Streams -> PadType]
    BY <2>2, <2>3 DEF MuxInv, TypeOK
  <2>. QED BY <2>4, <2>5 DEF MuxInv, TypeOK
<1>4. ASSUME NEW b \in Buffers, Arrive(p, b)
      PROVE  MuxInv'
  <2>1. pad' = [pad EXCEPT ![p] = [pad[p] EXCEPT !.queue = <<b>>]]
    BY <1>4 DEF Arrive
  <2>2. [pad[p] EXCEPT !.queue = <<b>>] \in PadType
    BY <1>1 DEF PadType
  <2>3. arrived' \in 0..MaxBuffers
    BY <1>4, MuxAssumption DEF Arrive, MuxInv, TypeOK
  <2>4. UNCHANGED <<mux, sinkpads, restarts>>
    BY <1>4 DEF Arrive
  <2>5. pad' \in [Streams -> PadType]
    BY <2>1, <2>2 DEF MuxInv, TypeOK
  <2>. QED BY <2>3, <2>4, <2>5 DEF MuxInv, TypeOK
<1>. QED BY <1>2, <1>3, <1>4

LEMMA RestartMuxInv ==
  ASSUME MuxInv, Restart
  PROVE  MuxInv'
<1>1. 0 \in 0..(U32 - 1) /\ 0 \in 0..MaxBuffers /\ MAX_INDEX_ENTRIES \in Nat
  BY MuxAssumption
<1>2. /\ NoFile \in [written : BOOLEAN, duration : Nat, index_len : Nat,
                     entries : SUBSET Nat]
      /\ NoFile.index_len = 0
  BY DEF NoFile
<1>3. mux' = Reset(mux)
  BY DEF Restart
<1>4. mux' \in MuxType /\ mux'.room = 0 /\ mux'.file = NoFile
  <2>1. /\ <<>> \in Seq([position : Nat, time : Nat])
        /\ <<>> \in Seq(ChunkType)
        /\ STIME_NONE \in Times \cup {STIME_NONE}
    OBVIOUS
  <2>2. mux \in MuxType /\ mux.room = 0
    BY DEF MuxInv, TypeOK
  <2>. QED BY <1>1, <1>2, <1>3, <2>1, <2>2 DEF Reset, MuxType
<1>5. \A q \in PadType : FlushedPad(q) \in PadType
  BY DEF FlushedPad, PadType
<1>6. pad' \in [Streams -> PadType]
  BY <1>5 DEF Restart, MuxInv, TypeOK
<1>7. restarts' \in 0..MaxRestarts
  BY MuxAssumption DEF Restart, MuxInv, TypeOK
<1>. QED BY <1>1, <1>2, <1>4, <1>6, <1>7 DEF Restart, MuxInv, TypeOK

(***************************************************************************)
(* The calls of aggregate.                                                 *)
(***************************************************************************)

\* Where aggregate starts from: a muxer whose header is out, or refused.
LEMMA BegunType ==
  ASSUME MuxInv, NEW room \in Rooms, NEW seekable \in Seekables
  PROVE  /\ Begin(WithRoom(room), seekable) \in MuxType
         /\ Begin(WithRoom(room), seekable).file.index_len =< MAX_INDEX_ENTRIES
<1>1. seekable \in BOOLEAN
  BY MuxAssumption
<1>. QED BY <1>1, WithRoomType, BeginType DEF MuxInv

LEMMA AggregateHeaderFailsMuxInv ==
  ASSUME MuxInv, NEW room \in Rooms, NEW seekable \in Seekables,
         AggregateHeaderFails(room, seekable)
  PROVE  MuxInv'
<1>. DEFINE m == Begin(WithRoom(room), seekable)
<1>1. Leave(m) /\ pad' = pad
  BY DEF AggregateHeaderFails
<1>2. pad' \in [Streams -> PadType]
  BY <1>1 DEF MuxInv, TypeOK
<1>. QED BY <1>1, <1>2, BegunType, LeaveMuxInv

LEMMA AggregateBufferMuxInv ==
  ASSUME MuxInv, NEW room \in Rooms, NEW seekable \in Seekables,
         NEW written \in BOOLEAN, AggregateBuffer(room, seekable, written)
  PROVE  MuxInv'
<1>. DEFINE begun == Begin(WithRoom(room), seekable)
           tagged == TakeTags(begun, written)
           p == sinkpads[BestIndex]
           b == pad[p].queue[1]
           q == Popped(p)
           m == WriteBuffer(tagged, p, q, b)
           r == IF m.flow = "OK" /\ b.dts # TIME_NONE
                THEN [q EXCEPT !.last_timestamp = b.dts] ELSE q
<1>1. Leave(m) /\ pad' = [pad EXCEPT ![p] = r] /\ Waiting # {} /\ TypeOK
  BY DEF AggregateBuffer, MuxInv
<1>2. begun \in MuxType /\ begun.file.index_len =< MAX_INDEX_ENTRIES
  BY BegunType
<1>3. tagged \in MuxType /\ tagged.file = begun.file
  BY <1>1, <1>2, TakeTagsType
<1>4. /\ p \in Streams /\ b \in Buffers /\ q \in PadType
      /\ \A t \in Nat : [q EXCEPT !.last_timestamp = t] \in PadType
  BY <1>1, PoppedType
<1>5. r \in PadType
  <2>1. b.dts = TIME_NONE \/ b.dts \in Nat
    BY <1>4, MuxAssumption DEF Times
  <2>. QED BY <1>4, <2>1
<1>6. m \in MuxType /\ m.file = tagged.file
  BY <1>3, <1>4, WriteBufferType
<1>. HIDE DEF begun, tagged, p, b, q, m, r
<1>7. pad' \in [Streams -> PadType]
  BY <1>1, <1>4, <1>5 DEF TypeOK
<1>. QED BY <1>1, <1>2, <1>3, <1>6, <1>7, LeaveMuxInv

LEMMA AggregateTooLargeMuxInv ==
  ASSUME MuxInv, NEW room \in Rooms, NEW seekable \in Seekables,
         NEW written \in BOOLEAN, AggregateTooLarge(room, seekable, written)
  PROVE  MuxInv'
<1>. DEFINE begun == Begin(WithRoom(room), seekable)
           m == TakeTags(begun, written)
           p == sinkpads[BestIndex]
           q == Popped(p)
<1>1. Leave(m) /\ pad' = [pad EXCEPT ![p] = q] /\ Waiting # {} /\ TypeOK
  BY DEF AggregateTooLarge, MuxInv
<1>2. begun \in MuxType /\ begun.file.index_len =< MAX_INDEX_ENTRIES
  BY BegunType
<1>3. m \in MuxType /\ m.file = begun.file
  BY <1>1, <1>2, TakeTagsType
<1>4. p \in Streams /\ q \in PadType
  BY <1>1, PoppedType
<1>. HIDE DEF begun, m, p, q
<1>5. pad' \in [Streams -> PadType]
  BY <1>1, <1>4 DEF TypeOK
<1>. QED BY <1>1, <1>2, <1>3, <1>5, LeaveMuxInv

\* At the end no buffer waits, so aggregate was called because every pad has
\* ended and there is one: the duration is that of a pad.
LEMMA AggregateEosMuxInv ==
  ASSUME MuxInv, NEW room \in Rooms, NEW seekable \in Seekables,
         NEW written \in BOOLEAN, AggregateEos(room, seekable, written)
  PROVE  MuxInv'
<1>. DEFINE begun == Begin(WithRoom(room), seekable)
           tagged == TakeTags(begun, written)
           ended == WriteEos(tagged)
           m == RewriteHeader(ended)
           last == [m EXCEPT !.flow = "EOS"]
<1>1. Leave(last) /\ pad' = pad /\ Waiting = {} /\ Called /\ TypeOK
  BY DEF AggregateEos, MuxInv
<1>2. Present # {}
  BY <1>1 DEF Called, AllPadsReady, NextTimeKnown
<1>3. begun \in MuxType /\ begun.file.index_len =< MAX_INDEX_ENTRIES
  BY BegunType
<1>4. tagged \in MuxType /\ tagged.file = begun.file
  BY <1>1, <1>3, TakeTagsType
<1>5. ended \in MuxType /\ ended.file = tagged.file
  BY <1>1, <1>4, WriteEosType
<1>6. m \in MuxType /\ m.file.index_len =< MAX_INDEX_ENTRIES
  BY <1>1, <1>2, <1>3, <1>4, <1>5, RewriteHeaderType
<1>. HIDE DEF begun, tagged, ended, m
<1>7. last \in MuxType /\ last.file = m.file
  BY <1>6 DEF MuxType
<1>8. pad' \in [Streams -> PadType]
  BY <1>1 DEF TypeOK
<1>. HIDE DEF last
<1>. QED BY <1>1, <1>6, <1>7, <1>8, LeaveMuxInv

LEMMA MuxInvStep == MuxInv /\ [Next]_vars => MuxInv'
<1>. SUFFICES ASSUME MuxInv, [Next]_vars PROVE MuxInv'
  OBVIOUS
<1>1. ASSUME NEW p \in Streams, RequestPad(p) \/ ReleasePad(p)
      PROVE  MuxInv'
  BY <1>1, PadsMuxInv
<1>2. ASSUME NEW p \in Streams, NewTags(p)
      PROVE  MuxInv'
  BY <1>2, NewTagsMuxInv
<1>3. ASSUME NEW p \in Streams,
             \/ Eos(p)
             \/ \E codec_data \in BOOLEAN : SetCaps(p, codec_data)
             \/ \E b \in Buffers : Arrive(p, b)
      PROVE  MuxInv'
  BY <1>3, InputMuxInv
<1>4. CASE Restart
  BY <1>4, RestartMuxInv
<1>5. ASSUME NEW room \in Rooms, NEW seekable \in Seekables,
             AggregateHeaderFails(room, seekable)
      PROVE  MuxInv'
  BY <1>5, AggregateHeaderFailsMuxInv
<1>6. ASSUME NEW room \in Rooms, NEW seekable \in Seekables,
             NEW written \in BOOLEAN, AggregateBuffer(room, seekable, written)
      PROVE  MuxInv'
  BY <1>6, AggregateBufferMuxInv
<1>7. ASSUME NEW room \in Rooms, NEW seekable \in Seekables,
             NEW written \in BOOLEAN, AggregateTooLarge(room, seekable, written)
      PROVE  MuxInv'
  BY <1>7, AggregateTooLargeMuxInv
<1>8. ASSUME NEW room \in Rooms, NEW seekable \in Seekables,
             NEW written \in BOOLEAN, AggregateEos(room, seekable, written)
      PROVE  MuxInv'
  BY <1>8, AggregateEosMuxInv
<1>9. CASE UNCHANGED vars
  BY <1>9 DEF vars, MuxInv, TypeOK
<1>. QED BY <1>1, <1>2, <1>3, <1>4, <1>5, <1>6, <1>7, <1>8, <1>9
            DEF Next, Aggregate

LEMMA MuxInvHolds == Spec => []MuxInv
<1>1. Init => MuxInv
  BY InitMuxInv
<1>. QED BY <1>1, MuxInvStep, PTL DEF Spec

\* Every variable keeps its type, for every set of buffers and every width:
\* no sequence of arrivals, refusals and flushes makes a tag's time or
\* composition time negative or too wide.
THEOREM MuxTypeCorrect == Spec => []TypeOK
<1>1. MuxInv => TypeOK
  BY DEF MuxInv
<1>. QED BY <1>1, MuxInvHolds, PTL

\* gst_flv_mux_rewrite_header never writes past the space the header
\* reserved, and leaves the filler at least its fourteen bytes unless the
\* index fills that space: for every MAX_INDEX_ENTRIES and every number of
\* entries recorded.
THEOREM IndexSpace == Spec => []IndexFits
<1>1. MuxInv => IndexFits
  <2>. SUFFICES ASSUME MuxInv PROVE IndexFits
    OBVIOUS
  <2>1. /\ mux.file.index_len \in Nat /\ MAX_INDEX_ENTRIES \in Nat
        /\ mux.file.index_len =< MAX_INDEX_ENTRIES
    BY MuxAssumption DEF MuxInv, TypeOK, MuxType
  <2>. QED BY <2>1 DEF IndexFits, FIXED, FILLER
<1>. QED BY <1>1, MuxInvHolds, PTL

(***************************************************************************)
(* The output of a session.                                                *)
(***************************************************************************)

Numbered == {"codec", "media", "eos"}
MediaIn(m) == {i \in DOMAIN m.out : m.out[i].kind = "media"}
HeadersIn(m) == {i \in DOMAIN m.out : m.out[i].kind = "header"}
CodecsIn(m, p) ==
  {i \in DOMAIN m.out : m.out[i].kind = "codec" /\ m.out[i].streams = {p}}

\* How far the last tag is from the first, by the times in their headers.
Elapsed(m) == m.last_dts - Ms(m.first_timestamp)

\* Tags go forward, up to the last; those of the header are at 0.
Forward(m) ==
  \A i \in DOMAIN m.out : m.out[i].kind \in Numbered =>
    /\ m.out[i].ts = 0 \/ m.out[i].ts =< Elapsed(m)
    /\ \A j \in DOMAIN m.out :
         (j < i /\ m.out[j].kind \in Numbered) => m.out[j].ts =< m.out[i].ts

\* A tag is where its index entry says, unless downstream refused it.
Positioned(m) ==
  \A k \in DOMAIN m.index :
    LET e == m.index[k] IN
      \/ e.position + 1 \in MediaIn(m) /\ m.out[e.position + 1].buffer.pts = e.time
      \/ e.position >= Len(m.out) /\ m.flow = "FLUSHING"

Counted(m) ==
  /\ m.byte_count >= Len(m.out)
  /\ m.flow = "OK" => m.byte_count = Len(m.out)

\* A tag with a decoding time is covered by the last of its stream.
Covered(m, pads) ==
  \A i \in MediaIn(m), p \in Present :
    (m.out[i].streams = {p} /\ m.out[i].buffer.dts # TIME_NONE)
      => m.out[i].buffer.dts =< pads[p].last_timestamp

\* The time of tag i, as TimesKept has it.
InOrderIn(m, i) ==
  \A j \in MediaIn(m) :
    j < i => MsOf(Time(m.out[j].buffer)) =< MsOf(Time(m.out[i].buffer))

TimeKept(m, i) ==
  LET b == m.out[i].buffer
      t == MsOf(Time(b))
      shown == MsOf(b.pts) - MsOf(m.first_timestamp)
  IN t < U32 =>
       /\ InOrderIn(m, i) => m.out[i].ts = t - MsOf(m.first_timestamp)
       /\ (b.pts # TIME_NONE /\ MsOf(b.pts) < U32 /\ m.out[i].ts =< shown)
            => m.out[i].ts + m.out[i].cts = shown

\* Media tags are of streams that the header announces.
Streamed(m) ==
  \A i \in MediaIn(m) : \E p \in m.out[1].streams : m.out[i].streams = {p}

\* A stream that it does not announce has ended without a buffer, and the
\* codec data of one that it does came before the first buffer.
Announced(m, pads, p) ==
  p \in m.out[1].streams \/ (pads[p].queue = <<>> /\ pads[p].eos)

Prepared(m, pads, p) ==
  (p \in m.out[1].streams /\ pads[p].codec_data /\ ~pads[p].renewed) =>
    \E k \in DOMAIN m.out : CodecsIn(m, p) = {k} /\ \A i \in MediaIn(m) : k < i

\* What holds of the output from the header on; pads is pad, or what it will be.
Whole(m, pads) ==
  /\ m.state = "DATA" /\ m.first_timestamp \in Times
  /\ m.out # <<>> /\ HeadersIn(m) = {1} /\ Streamed(m)
  /\ Forward(m) /\ Positioned(m) /\ Counted(m) /\ Covered(m, pads)
  /\ \A i \in MediaIn(m) : TimeKept(m, i)
  /\ \A p \in Present : Announced(m, pads, p) /\ Prepared(m, pads, p)

\* A tag has the first time, and another one the last.
Noted(m) ==
  /\ \E j \in MediaIn(m) : Time(m.out[j].buffer) = m.first_timestamp
  /\ m.last_dts = 0 \/ \E j \in MediaIn(m) : m.last_dts = Ms(Time(m.out[j].buffer))

\* Before the header is out no time has been noted, and nothing is out but a
\* part of the header, after which downstream takes no more.
HeaderInv ==
  mux.state = "HEADER" =>
    /\ mux.first_timestamp = STIME_NONE /\ mux.last_dts = 0
    /\ mux.index = <<>> /\ ~mux.file.written
    /\ \A i \in DOMAIN mux.out :
         mux.out[i].kind \in {"header", "meta", "codec"} /\ mux.out[i].ts = 0
    /\ mux.out # <<>> => HeadersIn(mux) = {1}
    /\ mux.flow = "OK" => mux.out = <<>> /\ mux.byte_count = 0
    /\ \A p \in Streams : pad[p].last_timestamp = 0 /\ pad[p].dts = STIME_NONE

DataInv ==
  mux.state = "DATA" =>
    /\ Whole(mux, pad)
    /\ mux.flow = "OK" => Noted(mux) /\ Elapsed(mux) >= 0

\* What waits has come after the caps and is not before what was taken.
QueueInv ==
  \A p \in Streams : pad[p].queue # <<>> =>
    /\ pad[p].codec
    /\ LET b == pad[p].queue[1] IN
         b.dts # TIME_NONE => b.dts >= pad[p].last_timestamp

\* The duration that was rewritten covers the tags that are out.
FileInv ==
  mux.file.written =>
    /\ mux.flow = "EOS"
    /\ \A i \in MediaIn(mux), p \in Present :
         (mux.out[i].streams = {p} /\ mux.out[i].buffer.dts # TIME_NONE)
           => mux.out[i].buffer.dts =< mux.file.duration

OutputInv == HeaderInv /\ DataInv /\ QueueInv /\ FileInv


LEMMA Appended ==
  ASSUME NEW S, NEW s \in Seq(S), NEW c \in S
  PROVE  /\ Append(s, c) \in Seq(S) /\ Len(s) \in Nat
         /\ Len(Append(s, c)) = Len(s) + 1
         /\ DOMAIN s = 1..Len(s) /\ DOMAIN Append(s, c) = 1..(Len(s) + 1)
         /\ \A i \in 1..Len(s) : Append(s, c)[i] = s[i]
         /\ Append(s, c)[Len(s) + 1] = c
<1>1. /\ Append(s, c) \in Seq(S) /\ Len(Append(s, c)) = Len(s) + 1
      /\ \A i \in 1..Len(s) : Append(s, c)[i] = s[i]
      /\ Append(s, c)[Len(s) + 1] = c
  BY AppendProperties
<1>2. Len(s) \in Nat /\ DOMAIN s = 1..Len(s)
  BY LenProperties
<1>3. DOMAIN Append(s, c) = 1..(Len(s) + 1)
  BY <1>1, LenProperties
<1>. QED BY <1>1, <1>2, <1>3

\* r is m with chunk c behind its output, or m after a refusal.
Same(m, r) ==
  /\ r.state = m.state /\ r.first_timestamp = m.first_timestamp
  /\ r.streamable = m.streamable /\ r.file = m.file

Pushed(m, r, c) ==
  /\ m.room >= 1 /\ r.out = Append(m.out, c) /\ r.byte_count = m.byte_count + 1
  /\ r.flow = m.flow

Refused(m, r) ==
  /\ m.room = 0 /\ r.room = 0 /\ r.out = m.out /\ r.flow = "FLUSHING"
  /\ r.byte_count = m.byte_count + 1

LEMMA PushOne ==
  ASSUME NEW m \in MuxType, NEW c \in ChunkType
  PROVE  LET r == Push(m, <<c>>) IN
           /\ r \in MuxType /\ Same(m, r)
           /\ r.last_dts = m.last_dts /\ r.index = m.index
           /\ Pushed(m, r, c) \/ Refused(m, r)
<1>. DEFINE r == Push(m, <<c>>)
<1>1. <<c>> \in Seq(ChunkType) /\ Len(<<c>>) = 1
  OBVIOUS
<1>2. m.out \in Seq(ChunkType) /\ m.room \in Nat /\ m.byte_count \in Nat
  BY DEF MuxType
<1>3. r \in MuxType
  BY <1>1, PushType
<1>4. CASE m.room >= 1
  <2>1. r = [m EXCEPT !.out = m.out \o <<c>>, !.room = m.room - 1,
                      !.byte_count = m.byte_count + 1]
    BY <1>1, <1>2, <1>4 DEF Push
  <2>2. m.out \o <<c>> = Append(m.out, c)
    BY <1>2
  <2>. QED BY <2>1, <2>2, <1>3, <1>4 DEF MuxType, Same, Pushed
<1>5. CASE m.room = 0
  <2>1. r = [m EXCEPT !.out = m.out \o SubSeq(<<c>>, 1, 0), !.room = 0,
                      !.byte_count = m.byte_count + 0 + 1, !.flow = "FLUSHING"]
    BY <1>1, <1>2, <1>5 DEF Push
  <2>2. m.out \o SubSeq(<<c>>, 1, 0) = m.out
    <3>1. SubSeq(<<c>>, 1, 0) = <<>>
      BY <1>1
    <3>. QED BY <3>1, <1>2, ConcatEmptySeq
  <2>3. m.byte_count + 0 + 1 = m.byte_count + 1
    BY <1>2
  <2>. QED BY <2>1, <2>2, <2>3, <1>3, <1>5 DEF MuxType, Same, Refused
<1>. QED BY <1>2, <1>3, <1>4, <1>5

(***************************************************************************)
(* One chunk more, and what holds of those before it.                      *)
(***************************************************************************)

\* Where the chunks of a kind are, with one chunk more.
LEMMA OutAppended ==
  ASSUME NEW m \in MuxType, NEW r \in MuxType, NEW c \in ChunkType,
         r.out = Append(m.out, c), NEW n, n = Len(m.out) + 1
  PROVE  /\ n \in Nat /\ n >= 1 /\ n = Len(r.out)
         /\ DOMAIN m.out = 1..(n - 1) /\ DOMAIN r.out = 1..n
         /\ \A i \in DOMAIN m.out : i \in 1..(n - 1) /\ i < n /\ i \in DOMAIN r.out
                                    /\ r.out[i] = m.out[i]
         /\ \A i \in DOMAIN r.out : i = n \/ i \in DOMAIN m.out
         /\ r.out[n] = c
         /\ IF c.kind = "media" THEN MediaIn(r) = MediaIn(m) \cup {n}
                                ELSE MediaIn(r) = MediaIn(m)
         /\ c.kind # "header" => HeadersIn(r) = HeadersIn(m)
         /\ c.kind # "codec" => \A p : CodecsIn(r, p) = CodecsIn(m, p)
<1>1. m.out \in Seq(ChunkType)
  BY DEF MuxType
<1>2. /\ Len(m.out) \in Nat /\ Len(r.out) = Len(m.out) + 1
      /\ DOMAIN m.out = 1..Len(m.out) /\ DOMAIN r.out = 1..(Len(m.out) + 1)
      /\ \A i \in 1..Len(m.out) : r.out[i] = m.out[i]
      /\ r.out[Len(m.out) + 1] = c
  BY <1>1, Appended
<1>3. /\ n \in Nat /\ n >= 1 /\ n = Len(r.out)
      /\ DOMAIN m.out = 1..(n - 1) /\ DOMAIN r.out = 1..n
      /\ \A i \in DOMAIN m.out : i \in 1..(n - 1) /\ i < n /\ i \in DOMAIN r.out
                                 /\ r.out[i] = m.out[i]
      /\ \A i \in DOMAIN r.out : i = n \/ i \in DOMAIN m.out
      /\ n \in DOMAIN r.out /\ n \notin DOMAIN m.out
      /\ r.out[n] = c
  BY <1>2
<1>4. IF c.kind = "media" THEN MediaIn(r) = MediaIn(m) \cup {n}
                          ELSE MediaIn(r) = MediaIn(m)
  BY <1>3 DEF MediaIn
<1>5. c.kind # "header" => HeadersIn(r) = HeadersIn(m)
  BY <1>3 DEF HeadersIn
<1>6. c.kind # "codec" => \A p : CodecsIn(r, p) = CodecsIn(m, p)
  BY <1>3 DEF CodecsIn
<1>. QED BY <1>3, <1>4, <1>5, <1>6

LEMMA ElapsedType ==
  ASSUME NEW m \in MuxType
  PROVE  Elapsed(m) \in Int /\ Ms(m.first_timestamp) \in 0..(U32 - 1)
         /\ m.last_dts \in 0..(U32 - 1)
<1>1. m.first_timestamp \in Times \cup {STIME_NONE} /\ m.last_dts \in 0..(U32 - 1)
  BY DEF MuxType
<1>2. Ms(m.first_timestamp) \in 0..(U32 - 1)
  BY <1>1, MsType
<1>. QED BY <1>1, <1>2, MuxAssumption DEF Elapsed

LEMMA OutTyped ==
  ASSUME NEW m \in MuxType
  PROVE  \A i \in DOMAIN m.out : /\ m.out[i] \in ChunkType /\ i \in Nat /\ i >= 1
                                 /\ m.out[i].ts \in Nat
<1>1. m.out \in Seq(ChunkType)
  BY DEF MuxType
<1>2. \A i \in DOMAIN m.out : m.out[i] \in ChunkType /\ i \in Nat /\ i >= 1
  BY <1>1, ElementOfSeq, LenProperties
<1>3. \A c \in ChunkType : c.ts \in 0..(U32 - 1)
  BY DEF ChunkType
<1>. QED BY <1>2, <1>3, MuxAssumption

\* A numbered chunk comes at the time that has passed; that never shrinks.
LEMMA ForwardAppended ==
  ASSUME NEW m \in MuxType, NEW r \in MuxType, NEW c \in ChunkType,
         r.out = Append(m.out, c), Forward(m), Elapsed(m) =< Elapsed(r),
         c.kind \in Numbered => c.ts = Elapsed(r)
  PROVE  Forward(r)
<1>. DEFINE n == Len(m.out) + 1
<1>1. /\ n \in Nat
      /\ \A i \in DOMAIN m.out : i < n /\ r.out[i] = m.out[i] /\ m.out[i].ts \in Nat
      /\ \A i \in DOMAIN r.out : (i = n \/ i \in DOMAIN m.out) /\ i \in Nat
      /\ r.out[n] = c /\ c.ts \in Nat
  <2>1. c.ts \in Nat
    BY MuxAssumption DEF ChunkType
  <2>. QED BY <2>1, OutAppended, OutTyped
<1>2. Elapsed(m) \in Int /\ Elapsed(r) \in Int
  BY ElapsedType
<1>. HIDE DEF n
<1>. SUFFICES ASSUME NEW i \in DOMAIN r.out, r.out[i].kind \in Numbered
     PROVE  /\ r.out[i].ts = 0 \/ r.out[i].ts =< Elapsed(r)
            /\ \A j \in DOMAIN r.out : (j < i /\ r.out[j].kind \in Numbered)
                                         => r.out[j].ts =< r.out[i].ts
  BY DEF Forward
<1>3. CASE i \in DOMAIN m.out
  <2>1. m.out[i].kind \in Numbered /\ r.out[i] = m.out[i] /\ i < n
    BY <1>1, <1>3
  <2>2. m.out[i].ts = 0 \/ m.out[i].ts =< Elapsed(m)
    BY <2>1, <1>3 DEF Forward
  <2>3. ASSUME NEW j \in DOMAIN r.out, j < i, r.out[j].kind \in Numbered
        PROVE  r.out[j].ts =< r.out[i].ts
    <3>1. j \in DOMAIN m.out
      BY <1>1, <2>1, <2>3
    <3>. QED BY <3>1, <2>1, <2>3, <1>1, <1>3 DEF Forward
  <2>. QED BY <1>1, <1>2, <1>3, <2>1, <2>2, <2>3
<1>4. CASE i = n
  <2>1. r.out[i].ts = Elapsed(r) /\ Elapsed(r) \in Nat
    BY <1>1, <1>4
  <2>2. ASSUME NEW j \in DOMAIN r.out, j < i, r.out[j].kind \in Numbered
        PROVE  r.out[j].ts =< r.out[i].ts
    <3>1. j \in DOMAIN m.out /\ r.out[j] = m.out[j] /\ m.out[j].ts \in Nat
      BY <1>1, <1>4, <2>2
    <3>2. m.out[j].ts = 0 \/ m.out[j].ts =< Elapsed(m)
      BY <3>1, <2>2 DEF Forward
    <3>. QED BY <3>1, <3>2, <2>1, <1>2
  <2>. QED BY <2>1, <2>2, <1>2
<1>. QED BY <1>1, <1>3, <1>4

\* What is out keeps its time, and what comes behind does not disturb it.
LEMMA TimeKeptAppended ==
  ASSUME NEW m \in MuxType, NEW r \in MuxType, NEW c \in ChunkType,
         r.out = Append(m.out, c), Same(m, r), NEW i \in MediaIn(m),
         TimeKept(m, i)
  PROVE  TimeKept(r, i)
<1>. DEFINE n == Len(m.out) + 1
<1>1. /\ \A j \in DOMAIN m.out : j < n /\ r.out[j] = m.out[j] /\ j \in Nat
      /\ i \in DOMAIN m.out
      /\ n \in Nat
      /\ \A j \in MediaIn(m) : j \in DOMAIN m.out
      /\ \A j \in MediaIn(r) : j = n \/ j \in MediaIn(m)
      /\ MediaIn(m) \subseteq MediaIn(r)
  BY OutAppended, OutTyped DEF MediaIn
<1>. HIDE DEF n
<1>2. InOrderIn(r, i) => InOrderIn(m, i)
  BY <1>1 DEF InOrderIn
<1>3. r.out[i] = m.out[i] /\ r.first_timestamp = m.first_timestamp
  BY <1>1 DEF Same
<1>. QED BY <1>2, <1>3 DEF TimeKept

\* The header, and what it says of the streams, stay.
LEMMA HeaderAppended ==
  ASSUME NEW m \in MuxType, NEW r \in MuxType, NEW c \in ChunkType,
         r.out = Append(m.out, c), Same(m, r), NEW pads, Whole(m, pads),
         c.kind \in {"meta", "eos", "media"}
  PROVE  /\ r.out # <<>> /\ HeadersIn(r) = {1} /\ r.out[1] = m.out[1]
         /\ \A p \in Present : Announced(r, pads, p) /\ Prepared(r, pads, p)
<1>. DEFINE n == Len(m.out) + 1
<1>1. /\ n \in Nat /\ n >= 1
      /\ \A i \in DOMAIN m.out : i < n /\ i \in DOMAIN r.out /\ r.out[i] = m.out[i]
      /\ r.out[n] = c /\ n \in DOMAIN r.out
      /\ MediaIn(r) \subseteq MediaIn(m) \cup {n}
      /\ HeadersIn(r) = HeadersIn(m) /\ \A p : CodecsIn(r, p) = CodecsIn(m, p)
  <2>1. c.kind # "header" /\ c.kind # "codec"
    OBVIOUS
  <2>2. n \in 1..n
    BY OutAppended
  <2>. QED BY <2>1, <2>2, OutAppended
<1>2. 1 \in DOMAIN m.out
  BY DEF Whole, HeadersIn
<1>3. r.out # <<>> /\ HeadersIn(r) = {1} /\ r.out[1] = m.out[1]
  BY <1>1, <1>2 DEF Whole
<1>. HIDE DEF n
<1>4. ASSUME NEW p \in Present PROVE Announced(r, pads, p) /\ Prepared(r, pads, p)
  <2>1. Announced(r, pads, p)
    BY <1>3 DEF Whole, Announced
  <2>2. ASSUME p \in r.out[1].streams, pads[p].codec_data, ~pads[p].renewed
        PROVE  \E k \in DOMAIN r.out : CodecsIn(r, p) = {k} /\ \A i \in MediaIn(r) : k < i
    <3>1. PICK k \in DOMAIN m.out : CodecsIn(m, p) = {k} /\ \A i \in MediaIn(m) : k < i
      BY <2>2, <1>3 DEF Whole, Prepared
    <3>2. k < n /\ k \in DOMAIN r.out
      BY <1>1
    <3>. QED BY <3>1, <3>2, <1>1
  <2>. QED BY <2>1, <2>2 DEF Prepared
<1>. QED BY <1>3, <1>4

(***************************************************************************)
(* Each kind of chunk behind what is out: everything that holds stays.     *)
(***************************************************************************)

\* New tags, or the end of the stream, behind what is out.
LEMMA WholeBesides ==
  ASSUME NEW m \in MuxType, NEW r \in MuxType, NEW c \in ChunkType, NEW pads,
         Whole(m, pads), m.flow = "OK", Same(m, r), Pushed(m, r, c),
         r.index = m.index, c.kind \in {"meta", "eos"},
         Elapsed(m) =< Elapsed(r), c.kind = "eos" => c.ts = Elapsed(r)
  PROVE  Whole(r, pads) /\ MediaIn(r) = MediaIn(m)
         /\ \A i \in MediaIn(m) : r.out[i] = m.out[i]
<1>. DEFINE n == Len(m.out) + 1
<1>0. r.out = Append(m.out, c)
  BY DEF Pushed
<1>1. /\ n \in Nat /\ n = Len(r.out)
      /\ \A i \in DOMAIN m.out : i < n /\ r.out[i] = m.out[i]
      /\ MediaIn(r) = MediaIn(m) /\ MediaIn(m) \subseteq DOMAIN m.out
      /\ 1 \in DOMAIN m.out
  <2>1. c.kind # "media"
    OBVIOUS
  <2>2. 1 \in DOMAIN m.out /\ MediaIn(m) \subseteq DOMAIN m.out
    BY DEF Whole, HeadersIn, MediaIn
  <2>. QED BY <1>0, <2>1, <2>2, OutAppended
<1>2. \A i \in MediaIn(m) : r.out[i] = m.out[i]
  BY <1>1
<1>3. /\ r.out # <<>> /\ HeadersIn(r) = {1} /\ r.out[1] = m.out[1]
      /\ \A p \in Present : Announced(r, pads, p) /\ Prepared(r, pads, p)
  BY <1>0, HeaderAppended
<1>4. Forward(r)
  BY <1>0, ForwardAppended DEF Whole, Numbered
<1>5. \A i \in MediaIn(r) : TimeKept(r, i)
  BY <1>0, <1>1, TimeKeptAppended DEF Whole
<1>6. Positioned(r)
  BY <1>1, <1>2 DEF Whole, Positioned
<1>7. Counted(r)
  <2>1. Len(m.out) \in Nat
    BY <1>1, LenProperties DEF MuxType
  <2>. QED BY <1>1, <2>1 DEF Whole, Counted, Pushed, MuxType
<1>8. Covered(r, pads) /\ Streamed(r)
  BY <1>1, <1>2, <1>3 DEF Whole, Covered, Streamed
<1>. QED BY <1>1, <1>2, <1>3, <1>4, <1>5, <1>6, <1>7, <1>8 DEF Whole, Same

\* Downstream refused: what is out is what was out.
LEMMA WholeRefused ==
  ASSUME NEW m \in MuxType, NEW r \in MuxType, NEW pads,
         Whole(m, pads), Same(m, r), Refused(m, r), Elapsed(m) =< Elapsed(r),
         \A k \in DOMAIN r.index : \/ k \in DOMAIN m.index /\ r.index[k] = m.index[k]
                                   \/ r.index[k].position >= Len(m.out)
  PROVE  Whole(r, pads)
<1>1. r.out = m.out /\ r.flow = "FLUSHING" /\ r.byte_count = m.byte_count + 1
  BY DEF Refused
<1>2. r.first_timestamp = m.first_timestamp /\ r.state = m.state
  BY DEF Same
<1>3. MediaIn(r) = MediaIn(m) /\ HeadersIn(r) = HeadersIn(m)
      /\ \A p : CodecsIn(r, p) = CodecsIn(m, p)
  BY <1>1 DEF MediaIn, HeadersIn, CodecsIn
<1>4. Streamed(r) /\ Covered(r, pads)
  BY <1>1, <1>3 DEF Whole, Streamed, Covered
<1>5. Forward(r)
  <2>1. Elapsed(m) \in Int /\ Elapsed(r) \in Int
        /\ \A i \in DOMAIN m.out : m.out[i].ts \in Nat
    BY ElapsedType, OutTyped
  <2>. QED BY <1>1, <2>1 DEF Whole, Forward
<1>6. Positioned(r)
  <2>. SUFFICES ASSUME NEW k \in DOMAIN r.index
       PROVE  \/ /\ r.index[k].position + 1 \in MediaIn(r)
                 /\ r.out[r.index[k].position + 1].buffer.pts = r.index[k].time
              \/ r.index[k].position >= Len(r.out)
    BY <1>1 DEF Positioned
  <2>1. CASE k \in DOMAIN m.index /\ r.index[k] = m.index[k]
    BY <1>1, <1>3, <2>1 DEF Whole, Positioned
  <2>2. CASE r.index[k].position >= Len(m.out)
    BY <1>1, <2>2
  <2>. QED BY <2>1, <2>2
<1>7. Counted(r)
  <2>1. Len(m.out) \in Nat /\ m.byte_count \in Nat
    BY LenProperties DEF MuxType
  <2>. QED BY <1>1, <2>1 DEF Whole, Counted
<1>8. \A i \in MediaIn(r) : TimeKept(r, i)
  <2>1. \A i \in MediaIn(m) : InOrderIn(r, i) = InOrderIn(m, i)
    BY <1>1, <1>3 DEF InOrderIn
  <2>. QED BY <1>1, <1>2, <1>3, <2>1 DEF Whole, TimeKept
<1>9. \A p \in Present : Announced(r, pads, p) /\ Prepared(r, pads, p)
  BY <1>1, <1>3 DEF Whole, Announced, Prepared
<1>. QED BY <1>1, <1>2, <1>3, <1>4, <1>5, <1>6, <1>7, <1>8, <1>9 DEF Whole

\* A buffer of a stream that was announced, at its place and in its time.
LEMMA WholeMedia ==
  ASSUME NEW m \in MuxType, NEW r \in MuxType, NEW c \in ChunkType, NEW pads,
         NEW p \in Present,
         Whole(m, pads), m.flow = "OK", Same(m, r), Pushed(m, r, c),
         c.kind = "media", c.streams = {p}, p \in m.out[1].streams,
         c.buffer.dts # TIME_NONE => c.buffer.dts =< pads[p].last_timestamp,
         Elapsed(m) =< Elapsed(r), c.ts = Elapsed(r),
         \A k \in DOMAIN r.index :
           \/ k \in DOMAIN m.index /\ r.index[k] = m.index[k]
           \/ r.index[k].position = Len(m.out) /\ r.index[k].time = c.buffer.pts,
         TimeKept(r, Len(m.out) + 1)
  PROVE  Whole(r, pads)
<1>. DEFINE n == Len(m.out) + 1
<1>0. r.out = Append(m.out, c)
  BY DEF Pushed
<1>1. /\ n \in Nat /\ n = Len(r.out) /\ Len(m.out) \in Nat
      /\ \A i \in DOMAIN m.out : i < n /\ r.out[i] = m.out[i]
      /\ MediaIn(r) = MediaIn(m) \cup {n} /\ MediaIn(m) \subseteq DOMAIN m.out
      /\ r.out[n] = c
  <2>1. MediaIn(m) \subseteq DOMAIN m.out /\ Len(m.out) \in Nat
    BY LenProperties DEF MediaIn, MuxType
  <2>. QED BY <1>0, <2>1, OutAppended
<1>2. \A i \in MediaIn(m) : r.out[i] = m.out[i]
  BY <1>1
<1>3. /\ r.out # <<>> /\ HeadersIn(r) = {1} /\ r.out[1] = m.out[1]
      /\ \A q \in Present : Announced(r, pads, q) /\ Prepared(r, pads, q)
  BY <1>0, HeaderAppended
<1>4. Forward(r)
  BY <1>0, ForwardAppended DEF Whole
<1>5. \A i \in MediaIn(r) : TimeKept(r, i)
  BY <1>0, <1>1, TimeKeptAppended DEF Whole
<1>6. Positioned(r)
  <2>. SUFFICES ASSUME NEW k \in DOMAIN r.index
       PROVE  /\ r.index[k].position + 1 \in MediaIn(r)
              /\ r.out[r.index[k].position + 1].buffer.pts = r.index[k].time
    BY DEF Positioned
  <2>1. CASE k \in DOMAIN m.index /\ r.index[k] = m.index[k]
    BY <1>1, <1>2, <2>1 DEF Whole, Positioned
  <2>2. CASE r.index[k].position = Len(m.out) /\ r.index[k].time = c.buffer.pts
    BY <1>1, <2>2
  <2>. QED BY <2>1, <2>2
<1>7. Counted(r)
  BY <1>1 DEF Whole, Counted, Pushed, MuxType
<1>8. Streamed(r)
  BY <1>1, <1>2, <1>3 DEF Whole, Streamed
<1>9. Covered(r, pads)
  <2>. SUFFICES ASSUME NEW i \in MediaIn(r), NEW q \in Present,
                       r.out[i].streams = {q}, r.out[i].buffer.dts # TIME_NONE
       PROVE  r.out[i].buffer.dts =< pads[q].last_timestamp
    BY DEF Covered
  <2>1. CASE i \in MediaIn(m)
    BY <1>2, <2>1 DEF Whole, Covered
  <2>2. CASE i = n
    <3>1. q = p
      BY <1>1, <2>2
    <3>. QED BY <1>1, <2>2, <3>1
  <2>. QED BY <1>1, <2>1, <2>2
<1>. QED BY <1>1, <1>2, <1>3, <1>4, <1>5, <1>6, <1>7, <1>8, <1>9 DEF Whole, Same

(***************************************************************************)
(* Times.                                                                  *)
(***************************************************************************)

\* A time is kept by a clock of U32 milliseconds that it does not fill.
LEMMA MsSmall ==
  ASSUME NEW t \in Times \cup {STIME_NONE}
  PROVE  MsOf(t) \in Nat /\ (MsOf(t) < U32 => Ms(t) = MsOf(t))
<1>1. CASE t < 0
  BY <1>1 DEF MsOf, Ms
<1>2. CASE ~(t < 0)
  <2>1. t \in Nat /\ MSECOND \in Nat \ {0} /\ U32 \in Nat \ {0}
    BY <1>2, MuxAssumption DEF Times, TIME_NONE, STIME_NONE
  <2>2. t \div MSECOND \in Nat
    BY <2>1, Division
  <2>3. \A a \in Nat : a < U32 => a % U32 = a
    BY <2>1
  <2>. QED BY <1>2, <2>2, <2>3 DEF MsOf, Ms
<1>. QED BY <1>1, <1>2

LEMMA MsOfMonotone ==
  ASSUME NEW a \in Times, NEW b \in Times, a =< b
  PROVE  MsOf(a) =< MsOf(b)
<1>1. MsOf(b) \in Nat
  BY MsSmall
<1>2. CASE a < 0
  BY <1>1, <1>2 DEF MsOf
<1>3. CASE ~(a < 0)
  <2>. DEFINE qa == a \div MSECOND
             qb == b \div MSECOND
  <2>1. a \in Nat /\ b \in Nat /\ MSECOND \in Nat \ {0}
    BY <1>3, MuxAssumption DEF Times, TIME_NONE
  <2>2. /\ qa \in Nat /\ a % MSECOND \in 0..(MSECOND - 1)
        /\ a = MSECOND * qa + (a % MSECOND)
    BY <2>1, Division
  <2>3. /\ qb \in Nat /\ b % MSECOND \in 0..(MSECOND - 1)
        /\ b = MSECOND * qb + (b % MSECOND)
    BY <2>1, Division
  <2>4. MsOf(a) = qa /\ MsOf(b) = qb
    BY <1>3, <2>1 DEF MsOf
  <2>. HIDE DEF qa, qb
  <2>5. ASSUME qa >= qb + 1 PROVE FALSE
    <3>1. MSECOND * qa >= MSECOND * (qb + 1)
      BY <2>1, <2>2, <2>3, <2>5, TimesMonotone
    <3>2. MSECOND * (qb + 1) = MSECOND * qb + MSECOND
      BY <2>1, <2>3
    <3>3. MSECOND * qb \in Nat /\ MSECOND * qa \in Nat
      BY <2>1, <2>2, <2>3
    <3>. QED BY <3>1, <3>2, <3>3, <2>1, <2>2, <2>3
  <2>. QED BY <2>2, <2>3, <2>4, <2>5
<1>. QED BY <1>2, <1>3

\* The buffer that comes next is the first, or another one was before it.
Ready(m, b) ==
  \/ MediaIn(m) = {} /\ m.last_dts = 0 /\ m.first_timestamp = Time(b)
  \/ Noted(m) /\ Elapsed(m) >= 0

\* What gst_flv_mux_buffer_to_tag finds in the pad.
PadOf(q, b) ==
  q.dts = Time(b) /\ q.pts = (IF b.pts # TIME_NONE THEN b.pts ELSE Time(b))

LEMMA BufferTimes ==
  ASSUME NEW b \in Buffers \cup {NoBuffer}
  PROVE  Time(b) \in Times /\ b.pts \in Times /\ b.dts \in Times
         /\ Time(b) # STIME_NONE
<1>1. b.pts \in Times /\ b.dts \in Times
  BY MuxAssumption DEF NoBuffer, Times
<1>2. STIME_NONE \notin Times
  BY DEF STIME_NONE, Times, TIME_NONE
<1>. QED BY <1>1, <1>2 DEF Time

\* The time in a tag, when it is not before the first.
LEMMA TagTime ==
  ASSUME NEW m \in MuxType, NEW q \in PadType, NEW p, NEW kind, NEW b,
         m.first_timestamp \in Times, Ms(m.first_timestamp) =< Dts(m, q)
  PROVE  LET c == Tag(m, p, q, kind, b) IN
           /\ c.ts = Dts(m, q) - Ms(m.first_timestamp)
           /\ c.cts = Cts(m, q) /\ c.kind = kind /\ c.streams = {p} /\ c.buffer = b
<1>1. /\ Dts(m, q) \in 0..(U32 - 1)
      /\ Ms(m.first_timestamp) \in 0..(U32 - 1)
  BY TimesOfPad, ElapsedType
<1>2. \A x \in 0..(U32 - 1) : x % U32 = x
  BY MuxAssumption
<1>3. Dts(m, q) - Ms(m.first_timestamp) \in 0..(U32 - 1)
  BY <1>1, MuxAssumption
<1>4. m.first_timestamp # STIME_NONE
  BY DEF Times, STIME_NONE, TIME_NONE
<1>. QED BY <1>2, <1>3, <1>4 DEF Tag

LEMMA NotBeforeFirst ==
  ASSUME NEW m \in MuxType, NEW q \in PadType, NEW b \in Buffers, PadOf(q, b),
         m.first_timestamp \in Times, Ready(m, b)
  PROVE  /\ RawDts(q) = Ms(Time(b)) /\ RawPts(q) = Ms(q.pts)
         /\ m.last_dts =< Dts(m, q) /\ Ms(m.first_timestamp) =< Dts(m, q)
         /\ RawDts(q) =< Dts(m, q) /\ Dts(m, q) \in {RawDts(q), m.last_dts}
<1>1. RawDts(q) = Ms(Time(b)) /\ RawPts(q) = Ms(q.pts)
  BY BufferTimes DEF RawDts, RawPts, PadOf
<1>2. Ms(Time(b)) \in 0..(U32 - 1)
  BY BufferTimes, MsType
<1>3. m.last_dts \in 0..(U32 - 1) /\ Ms(m.first_timestamp) \in 0..(U32 - 1)
  BY ElapsedType
<1>4. /\ m.last_dts =< Dts(m, q) /\ Ms(Time(b)) =< Dts(m, q)
      /\ Dts(m, q) \in {RawDts(q), m.last_dts}
  BY <1>1, <1>2, <1>3, MuxAssumption DEF Dts
<1>5. Dts(m, q) \in 0..(U32 - 1)
  BY TimesOfPad
<1>6. Ms(m.first_timestamp) =< Dts(m, q)
  BY <1>2, <1>3, <1>4, <1>5, MuxAssumption DEF Ready, Elapsed
<1>. QED BY <1>1, <1>4, <1>6

\* A media tag keeps its buffer's time, as TimesKept has it.
LEMMA NewTagKept ==
  ASSUME NEW m \in MuxType, NEW r \in MuxType, NEW q \in PadType,
         NEW b \in Buffers, NEW p \in Streams, PadOf(q, b),
         m.first_timestamp \in Times, Ready(m, b), Same(m, r),
         Tag(m, p, q, "media", b) \in ChunkType,
         r.out = Append(m.out, Tag(m, p, q, "media", b))
  PROVE  TimeKept(r, Len(m.out) + 1)
<1>. DEFINE n == Len(m.out) + 1
           c == Tag(m, p, q, "media", b)
           t == MsOf(Time(b))
           D == Dts(m, q)
           F == Ms(m.first_timestamp)
           first == MsOf(m.first_timestamp)
<1>1. /\ c.ts = D - F /\ c.cts = Cts(m, q) /\ c.kind = "media" /\ c.buffer = b
      /\ RawDts(q) = Ms(Time(b)) /\ RawPts(q) = Ms(q.pts)
      /\ m.last_dts =< D /\ F =< D /\ RawDts(q) =< D
      /\ D \in {RawDts(q), m.last_dts}
  BY NotBeforeFirst, TagTime
<1>2. /\ r.out[n] = c /\ n \in Nat /\ r.first_timestamp = m.first_timestamp
      /\ \A j \in MediaIn(m) : j \in MediaIn(r) /\ j < n /\ r.out[j] = m.out[j]
                               /\ Time(m.out[j].buffer) \in Times
  <2>1. \A j \in MediaIn(m) : j \in DOMAIN m.out /\ m.out[j].buffer \in Buffers \cup {NoBuffer}
    BY OutTyped DEF MediaIn, ChunkType
  <2>. QED BY <1>1, <2>1, OutAppended, BufferTimes DEF Same
<1>3. /\ D \in 0..(U32 - 1) /\ F \in 0..(U32 - 1) /\ U32 \in Nat
      /\ m.last_dts \in 0..(U32 - 1) /\ t \in Nat /\ first \in Nat
      /\ (t < U32 => Ms(Time(b)) = t) /\ (first < U32 => F = first)
  BY TimesOfPad, ElapsedType, BufferTimes, MsSmall, MuxAssumption
<1>0. r.out[n].ts = D - F /\ r.out[n].cts = Cts(m, q) /\ r.out[n].buffer = b
  BY <1>1, <1>2
<1>. HIDE DEF n, c, t, D, F, first
<1>4. SUFFICES ASSUME t < U32
               PROVE  /\ InOrderIn(r, n) => r.out[n].ts = t - first
                      /\ (b.pts # TIME_NONE /\ MsOf(b.pts) < U32
                            /\ r.out[n].ts =< MsOf(b.pts) - first)
                           => r.out[n].ts + r.out[n].cts = MsOf(b.pts) - first
  BY <1>0, <1>2 DEF TimeKept, t, first, n
<1>5. ASSUME InOrderIn(r, n) PROVE r.out[n].ts = t - first
  <2>1. \A j \in MediaIn(m) : MsOf(Time(m.out[j].buffer)) =< t
    BY <1>0, <1>2, <1>5 DEF InOrderIn, t
  <2>2. \A j \in MediaIn(m) : Ms(Time(m.out[j].buffer)) =< t
    <3>1. \A j \in MediaIn(m) : MsOf(Time(m.out[j].buffer)) \in Nat
      BY <1>2, MsSmall
    <3>. QED BY <2>1, <3>1, <1>2, <1>3, <1>4, MsSmall
  <2>3. m.last_dts =< t
    BY <2>2, <1>3 DEF Ready, Noted
  <2>4. D = t
    BY <2>3, <1>1, <1>3, <1>4
  <2>5. first =< t
    BY <2>1, <1>3 DEF Ready, Noted, first, t
  <2>6. F = first
    BY <2>5, <1>3, <1>4
  <2>. QED BY <2>4, <2>6, <1>1, <1>2
<1>6. ASSUME NEW P, P = MsOf(b.pts), b.pts # TIME_NONE, P < U32, r.out[n].ts =< P - first
      PROVE  r.out[n].ts + r.out[n].cts = P - first
  <2>1. q.pts = b.pts /\ b.pts \in Times
    BY <1>6, BufferTimes DEF PadOf
  <2>2. P \in Nat /\ RawPts(q) = P
    BY <2>1, <1>1, <1>6, MsSmall
  <2>3. D - F =< P - first
    BY <1>0, <1>6
  <2>4. F = first
    BY <2>2, <2>3, <1>1, <1>3, <1>6
  <2>5. Cts(m, q) = IF P > D THEN P - D ELSE 0
    BY <2>2 DEF Cts, D
  <2>6. D =< P
    BY <2>2, <2>3, <2>4, <1>3
  <2>7. Cts(m, q) = P - D
    BY <2>2, <2>5, <2>6, <1>3
  <2>8. r.out[n].ts = D - first /\ r.out[n].cts = P - D
    BY <2>4, <2>7, <1>0
  <2>9. (D - first) + (P - D) = P - first
    BY <2>2, <1>3
  <2>. QED BY <2>8, <2>9
<1>. QED BY <1>5, <1>6

(***************************************************************************)
(* A tag is made and pushed.                                               *)
(***************************************************************************)

\* m1 differs from m in its index only.
Indexed(m, m1) ==
  /\ m1.out = m.out /\ m1.room = m.room /\ m1.flow = m.flow
  /\ m1.byte_count = m.byte_count /\ m1.last_dts = m.last_dts
  /\ m1.first_timestamp = m.first_timestamp /\ Same(m, m1)

\* A tag is made and pushed, perhaps with an index entry made before.
LEMMA PushTagPushes ==
  ASSUME NEW m \in MuxType, NEW m1 \in MuxType, NEW p \in Streams, NEW q \in PadType,
         NEW kind \in {"codec", "media", "eos"}, NEW b \in Buffers \cup {NoBuffer},
         Indexed(m, m1)
  PROVE  LET c == Tag(m, p, q, kind, b)
             r == PushTag(m1, p, q, kind, b)
         IN /\ c \in ChunkType /\ r \in MuxType /\ Same(m, r)
            /\ r.last_dts = Dts(m, q) /\ r.index = m1.index
            /\ Pushed(m, r, c) \/ Refused(m, r)
<1>. DEFINE c == Tag(m, p, q, kind, b)
           m2 == [m1 EXCEPT !.last_dts = Dts(m, q)]
           r == Push(m2, <<c>>)
<1>1. /\ m1.out = m.out /\ m1.room = m.room /\ m1.flow = m.flow
      /\ m1.byte_count = m.byte_count /\ m1.last_dts = m.last_dts
      /\ m1.first_timestamp = m.first_timestamp /\ Same(m, m1)
  BY DEF Indexed
<1>2. Dts(m1, q) = Dts(m, q) /\ Tag(m1, p, q, kind, b) = c
  BY <1>1 DEF Dts, Cts, Tag
<1>3. c \in ChunkType
  BY TagType
<1>4. Dts(m, q) \in 0..(U32 - 1)
  BY TimesOfPad
<1>. HIDE DEF c
<1>5. /\ m2 \in MuxType /\ m2.out = m1.out /\ m2.room = m1.room /\ m2.flow = m1.flow
      /\ m2.byte_count = m1.byte_count /\ m2.index = m1.index
      /\ m2.last_dts = Dts(m, q) /\ Same(m1, m2)
  BY <1>4 DEF MuxType, Same
<1>6. PushTag(m1, p, q, kind, b) = r
  BY <1>2 DEF PushTag
<1>. HIDE DEF m2
<1>7. /\ r \in MuxType /\ Same(m2, r) /\ r.last_dts = m2.last_dts
      /\ r.index = m2.index /\ (Pushed(m2, r, c) \/ Refused(m2, r))
  BY <1>3, <1>5, PushOne
<1>. HIDE DEF r
<1>8. Same(m, r)
  BY <1>1, <1>5, <1>7 DEF Same
<1>9. Pushed(m, r, c) \/ Refused(m, r)
  BY <1>1, <1>5, <1>7 DEF Pushed, Refused
<1>. QED BY <1>3, <1>5, <1>6, <1>7, <1>8, <1>9 DEF c

\* A buffer is written: its entry is for the byte that comes next.
LEMMA WriteBufferPushes ==
  ASSUME NEW m \in MuxType, NEW p \in Streams, NEW q \in PadType, NEW b \in Buffers
  PROVE  LET c == Tag(m, p, q, "media", b)
             r == WriteBuffer(m, p, q, b)
         IN /\ c \in ChunkType /\ r \in MuxType /\ Same(m, r)
            /\ r.last_dts = Dts(m, q)
            /\ Pushed(m, r, c) \/ Refused(m, r)
            /\ \A k \in DOMAIN r.index :
                 \/ k \in DOMAIN m.index /\ r.index[k] = m.index[k]
                 \/ r.index[k].position = m.byte_count /\ r.index[k].time = b.pts
<1>. DEFINE e == [position |-> m.byte_count, time |-> b.pts]
           m1 == IF m.streamable THEN m ELSE UpdateIndex(m, p, b)
<1>1. m1 = m \/ (b.pts # TIME_NONE /\ m1 = [m EXCEPT !.index = Append(m.index, e)])
  BY DEF UpdateIndex
<1>2. m1 \in MuxType
  <2>1. CASE m1 = m
    BY <2>1
  <2>2. CASE b.pts # TIME_NONE /\ m1 = [m EXCEPT !.index = Append(m.index, e)]
    <3>1. b.pts \in Nat
      BY <2>2, MuxAssumption DEF Times
    <3>2. e \in [position : Nat, time : Nat]
      BY <3>1 DEF MuxType
    <3>3. Append(m.index, e) \in Seq([position : Nat, time : Nat])
      BY <3>2, AppendProperties DEF MuxType
    <3>. HIDE DEF e
    <3>. QED BY <2>2, <3>3 DEF MuxType
  <2>. QED BY <1>1, <2>1, <2>2
<1>3. \A k \in DOMAIN m1.index :
        \/ k \in DOMAIN m.index /\ m1.index[k] = m.index[k]
        \/ m1.index[k].position = m.byte_count /\ m1.index[k].time = b.pts
  <2>1. CASE m1 = m
    BY <2>1
  <2>2. CASE b.pts # TIME_NONE /\ m1 = [m EXCEPT !.index = Append(m.index, e)]
    <3>1. b.pts \in Nat
      BY <2>2, MuxAssumption DEF Times
    <3>2. e \in [position : Nat, time : Nat] /\ m.index \in Seq([position : Nat, time : Nat])
      BY <3>1 DEF MuxType
    <3>3. m1.index = Append(m.index, e)
      BY <2>2 DEF MuxType
    <3>4. e.position = m.byte_count /\ e.time = b.pts
      OBVIOUS
    <3>. HIDE DEF e, m1
    <3>. QED BY <3>2, <3>3, <3>4, Appended
  <2>. QED BY <1>1, <2>1, <2>2
<1>4. Indexed(m, m1)
  BY <1>1 DEF Indexed, Same, MuxType
<1>5. WriteBuffer(m, p, q, b) = PushTag(m1, p, q, "media", b)
  BY DEF WriteBuffer
<1>. HIDE DEF m1, e
<1>6. "media" \in {"codec", "media", "eos"} /\ b \in Buffers \cup {NoBuffer}
  OBVIOUS
<1>7. /\ Tag(m, p, q, "media", b) \in ChunkType
      /\ PushTag(m1, p, q, "media", b) \in MuxType
      /\ Same(m, PushTag(m1, p, q, "media", b))
      /\ PushTag(m1, p, q, "media", b).last_dts = Dts(m, q)
      /\ PushTag(m1, p, q, "media", b).index = m1.index
      /\ \/ Pushed(m, PushTag(m1, p, q, "media", b), Tag(m, p, q, "media", b))
         \/ Refused(m, PushTag(m1, p, q, "media", b))
  BY <1>2, <1>4, <1>6, PushTagPushes
<1>. QED BY <1>3, <1>5, <1>7

(***************************************************************************)
(* New tags, and the end.                                                  *)
(***************************************************************************)

\* m and r have the same output, and the same said of it.
Alike(m, r) ==
  /\ r.state = m.state /\ r.first_timestamp = m.first_timestamp
  /\ r.out = m.out /\ r.index = m.index /\ r.last_dts = m.last_dts
  /\ r.byte_count = m.byte_count /\ r.flow = m.flow

LEMMA WholeSame ==
  ASSUME NEW m, NEW r, NEW pads, Whole(m, pads), r.state = m.state,
         r.first_timestamp = m.first_timestamp, r.out = m.out,
         r.last_dts = m.last_dts, Positioned(r), Counted(r)
  PROVE  Whole(r, pads)
<1>1. /\ r.state = m.state /\ r.first_timestamp = m.first_timestamp
      /\ r.out = m.out /\ r.last_dts = m.last_dts
  OBVIOUS
<1>2. MediaIn(r) = MediaIn(m) /\ HeadersIn(r) = HeadersIn(m)
      /\ \A p : CodecsIn(r, p) = CodecsIn(m, p)
  BY <1>1 DEF MediaIn, HeadersIn, CodecsIn
<1>3. Elapsed(r) = Elapsed(m)
  BY <1>1 DEF Elapsed
<1>4. Streamed(r) /\ Covered(r, pads)
  BY <1>1, <1>2 DEF Whole, Streamed, Covered
<1>5. Forward(r)
  BY <1>1, <1>3 DEF Whole, Forward
<1>6. \A i \in MediaIn(r) : TimeKept(r, i)
  <2>1. \A i : InOrderIn(r, i) = InOrderIn(m, i)
    BY <1>1, <1>2 DEF InOrderIn
  <2>. QED BY <1>1, <1>2, <2>1 DEF Whole, TimeKept
<1>7. \A p \in Present : Announced(r, pads, p) /\ Prepared(r, pads, p)
  BY <1>1, <1>2 DEF Whole, Announced, Prepared
<1>. QED BY <1>1, <1>2, <1>4, <1>5, <1>6, <1>7 DEF Whole

LEMMA WholeAlike ==
  ASSUME NEW m, NEW r, NEW pads, Alike(m, r), Whole(m, pads)
  PROVE  Whole(r, pads)
<1>1. Positioned(r) /\ Counted(r)
  BY DEF Alike, Whole, Positioned, Counted, MediaIn
<1>. QED BY <1>1, WholeSame DEF Alike

\* The media tags of m are those of r, and so are the index and the first time.
Besides(m, r) ==
  /\ MediaIn(r) = MediaIn(m) /\ \A i \in MediaIn(m) : r.out[i] = m.out[i]
  /\ r.index = m.index /\ r.first_timestamp = m.first_timestamp
  /\ r.file = m.file

\* New tags leave everything else as it was; once they are refused, downstream
\* takes no more.
LEMMA TakeTagsKeeps ==
  ASSUME TypeOK, NEW m \in MuxType, NEW written \in BOOLEAN, NEW pads,
         Whole(m, pads), m.flow = "OK"
  PROVE  LET r == TakeTags(m, written) IN
           /\ r \in MuxType /\ Whole(r, pads) /\ Besides(m, r)
           /\ r.last_dts = m.last_dts /\ r.out[1] = m.out[1]
           /\ r.flow = "OK" \/ (r.room = 0 /\ r.flow = "FLUSHING")
           /\ Noted(m) => Noted(r)
<1>. DEFINE c == Chunk("meta", {})
           m1 == IF m.new_tags /\ written THEN Push(m, <<c>>) ELSE m
           r == [m1 EXCEPT !.new_tags = FALSE]
<1>1. c \in ChunkType /\ c.kind = "meta"
  BY ChunksType DEF Chunk
<1>2. TakeTags(m, written) = r
  BY DEF TakeTags
<1>. HIDE DEF c
<1>3. /\ m1 \in MuxType /\ m1.last_dts = m.last_dts /\ m1.index = m.index /\ Same(m, m1)
      /\ m1 = m \/ Pushed(m, m1, c) \/ Refused(m, m1)
  BY <1>1, PushOne DEF Same
<1>. HIDE DEF m1
<1>4. Elapsed(m1) = Elapsed(m) /\ Elapsed(m) \in Int
  BY <1>3, ElapsedType DEF Same, Elapsed
<1>5. 1 \in DOMAIN m.out
  BY DEF Whole, HeadersIn
<1>6. /\ Whole(m1, pads) /\ Besides(m, m1) /\ m1.out[1] = m.out[1]
      /\ m1.flow = "OK" \/ (m1.room = 0 /\ m1.flow = "FLUSHING")
  <2>1. CASE m1 = m
    BY <2>1 DEF Besides
  <2>2. CASE Pushed(m, m1, c)
    <3>1. /\ Whole(m1, pads) /\ MediaIn(m1) = MediaIn(m)
          /\ \A i \in MediaIn(m) : m1.out[i] = m.out[i]
      BY <2>2, <1>1, <1>3, <1>4, WholeBesides
    <3>2. m1.out = Append(m.out, c)
      BY <2>2 DEF Pushed
    <3>3. m1.out[1] = m.out[1]
      BY <3>2, <1>1, <1>3, <1>5, OutAppended
    <3>. QED BY <3>1, <3>3, <2>2, <1>3 DEF Besides, Same, Pushed
  <2>3. CASE Refused(m, m1)
    <3>1. Whole(m1, pads)
      BY <2>3, <1>3, <1>4, WholeRefused
    <3>2. m1.out = m.out
      BY <2>3 DEF Refused
    <3>. QED BY <3>1, <3>2, <2>3, <1>3 DEF Besides, Same, Refused, MediaIn
  <2>. QED BY <1>3, <2>1, <2>2, <2>3
<1>7. /\ r \in MuxType /\ Alike(m1, r) /\ r.room = m1.room /\ r.file = m1.file
  BY <1>3 DEF MuxType, Alike
<1>. HIDE DEF r
<1>8. Whole(r, pads)
  BY <1>6, <1>7, WholeAlike
<1>9. /\ Besides(m, r) /\ r.last_dts = m.last_dts /\ r.out[1] = m.out[1]
      /\ r.flow = "OK" \/ (r.room = 0 /\ r.flow = "FLUSHING")
  BY <1>3, <1>6, <1>7 DEF Besides, Alike, MediaIn
<1>10. Noted(m) => Noted(r)
  BY <1>9 DEF Besides, Noted
<1>. QED BY <1>2, <1>7, <1>8, <1>9, <1>10

\* The end of the video is behind everything else.
LEMMA WriteEosKeeps ==
  ASSUME TypeOK, NEW m \in MuxType, Whole(m, pad),
         m.flow = "OK" \/ m.room = 0,
         Elapsed(m) >= 0
  PROVE  LET r == WriteEos(m) IN
           r \in MuxType /\ Whole(r, pad) /\ Besides(m, r)
<1>. DEFINE p == "video"
           q == pad[p]
           c == Tag(m, p, q, "eos", NoBuffer)
           r == PushTag(m, p, q, "eos", NoBuffer)
<1>1. p \in Streams /\ q \in PadType
  BY DEF TypeOK, Streams
<1>2. /\ c \in ChunkType /\ r \in MuxType /\ Same(m, r)
      /\ r.last_dts = Dts(m, q) /\ r.index = m.index
      /\ Pushed(m, r, c) \/ Refused(m, r)
  <2>1. Indexed(m, m)
    BY DEF Indexed, Same
  <2>2. "eos" \in {"codec", "media", "eos"} /\ NoBuffer \in Buffers \cup {NoBuffer}
    OBVIOUS
  <2>. QED BY <1>1, <2>1, <2>2, PushTagPushes
<1>3. /\ Dts(m, q) \in 0..(U32 - 1) /\ m.last_dts \in 0..(U32 - 1)
      /\ Ms(m.first_timestamp) \in 0..(U32 - 1) /\ m.first_timestamp \in Times
      /\ RawDts(q) \in 0..(U32 - 1)
  <2>1. q.last_timestamp \in Times \cup {STIME_NONE} /\ q.dts \in Times \cup {STIME_NONE}
    BY <1>1 DEF PadType, Times
  <2>2. RawDts(q) \in 0..(U32 - 1)
    BY <2>1, MsType DEF RawDts
  <2>. QED BY <1>1, <2>2, TimesOfPad, ElapsedType DEF Whole
<1>4. m.last_dts =< Dts(m, q)
  BY <1>3, MuxAssumption DEF Dts
<1>5. Ms(m.first_timestamp) =< Dts(m, q)
  BY <1>3, <1>4, MuxAssumption DEF Elapsed
<1>6. c.ts = Dts(m, q) - Ms(m.first_timestamp) /\ c.kind = "eos"
  BY <1>1, <1>3, <1>5, TagTime
<1>7. Elapsed(r) = Dts(m, q) - Ms(m.first_timestamp) /\ Elapsed(m) =< Elapsed(r)
  BY <1>2, <1>3, <1>4, MuxAssumption DEF Elapsed, Same
<1>. HIDE DEF c, r, q
<1>8. Whole(r, pad) /\ Besides(m, r)
  <2>1. CASE Pushed(m, r, c)
    <3>1. m.flow = "OK"
      BY <2>1 DEF Pushed
    <3>2. /\ Whole(r, pad) /\ MediaIn(r) = MediaIn(m)
          /\ \A i \in MediaIn(m) : r.out[i] = m.out[i]
      BY <2>1, <3>1, <1>2, <1>6, <1>7, WholeBesides
    <3>. QED BY <3>2, <1>2 DEF Besides, Same
  <2>2. CASE Refused(m, r)
    <3>1. Whole(r, pad)
      BY <2>2, <1>2, <1>7, WholeRefused
    <3>. QED BY <3>1, <2>2, <1>2 DEF Besides, Same, Refused, MediaIn
  <2>. QED BY <1>2, <2>1, <2>2
<1>9. WriteEos(m) = IF p \in Present THEN r ELSE m
  BY DEF WriteEos, r, q
<1>. QED BY <1>2, <1>8, <1>9 DEF Besides

(***************************************************************************)
(* The header.                                                             *)
(***************************************************************************)

\* Two chunks, and at most one more for each stream.
LEMMA TwoAndMore ==
  ASSUME NEW S, NEW h \in S, NEW t \in S, NEW v \in Seq(S), NEW a \in Seq(S),
         Len(v) \in {0, 1}, Len(a) \in {0, 1}, NEW s, s = <<h, t>> \o v \o a
  PROVE  /\ s \in Seq(S) /\ Len(s) = 2 + Len(v) + Len(a)
         /\ s[1] = h /\ s[2] = t
         /\ Len(v) = 1 => s[3] = v[1]
         /\ Len(a) = 1 => s[3 + Len(v)] = a[1]
<1>1. PICK w : w = <<h, t>>
  OBVIOUS
<1>2. w \in Seq(S) /\ Len(w) = 2 /\ w[1] = h /\ w[2] = t
  BY <1>1
<1>3. PICK u : u = w \o v
  OBVIOUS
<1>4. /\ u \in Seq(S) /\ Len(u) = 2 + Len(v)
      /\ \A i \in 1..(2 + Len(v)) : u[i] = IF i =< 2 THEN w[i] ELSE v[i - 2]
  <2>1. /\ u \in Seq(S) /\ Len(u) = Len(w) + Len(v)
        /\ \A i \in 1..(Len(w) + Len(v)) :
             u[i] = IF i =< Len(w) THEN w[i] ELSE v[i - Len(w)]
    BY <1>2, <1>3, ConcatProperties
  <2>. QED BY <2>1, <1>2
<1>5. u[1] = h /\ u[2] = t /\ (Len(v) = 1 => u[3] = v[1])
  BY <1>2, <1>4
<1>6. s = u \o a
  BY <1>1, <1>3
<1>7. /\ s \in Seq(S) /\ Len(s) = Len(u) + Len(a)
      /\ \A i \in 1..(Len(u) + Len(a)) :
           s[i] = IF i =< Len(u) THEN u[i] ELSE a[i - Len(u)]
  BY <1>4, <1>6, ConcatProperties
<1>8. s[1] = u[1] /\ s[2] = u[2] /\ (Len(v) = 1 => s[3] = u[3])
  <2>1. \A i \in 1..Len(u) : s[i] = u[i]
    BY <1>4, <1>7
  <2>2. 1 \in 1..Len(u) /\ 2 \in 1..Len(u) /\ (Len(v) = 1 => 3 \in 1..Len(u))
    BY <1>4
  <2>. QED BY <2>1, <2>2
<1>9. Len(a) = 1 => s[3 + Len(v)] = a[1]
  <2>1. Len(a) = 1 => /\ 3 + Len(v) \in 1..(Len(u) + Len(a))
                      /\ ~(3 + Len(v) =< Len(u)) /\ (3 + Len(v)) - Len(u) = 1
    BY <1>4
  <2>. QED BY <2>1, <1>7
<1>. QED BY <1>4, <1>5, <1>7, <1>8, <1>9

WithCodec == {p \in Present : pad[p].codec}
CodecsOf(s, p) == {i \in 1..Len(s) : s[i].kind = "codec" /\ s[i].streams = {p}}

\* What gst_flv_mux_write_header pushes, on one pad or two.
HeaderChunks(m) ==
  <<Chunk("header", WithCodec), Chunk("meta", {})>>
    \o CodecTag(m, "video") \o CodecTag(m, "audio")

CodecTagOf(m, p) == Tag(m, p, pad[p], "codec", NoBuffer)
HasCodecData(p) == p \in Present /\ pad[p].codec /\ pad[p].codec_data

\* The tags of the header are at zero.
LEMMA CodecTagContents ==
  ASSUME TypeOK, HeaderInv, mux.state = "HEADER", NEW m \in MuxType,
         m.first_timestamp = STIME_NONE, m.last_dts = 0, NEW p \in Streams
  PROVE  /\ CodecTagOf(m, p) \in ChunkType /\ CodecTagOf(m, p).kind = "codec"
         /\ CodecTagOf(m, p).ts = 0 /\ CodecTagOf(m, p).streams = {p}
         /\ CodecTag(m, p) \in Seq(ChunkType)
         /\ Len(CodecTag(m, p)) \in {0, 1} /\ (Len(CodecTag(m, p)) = 1 <=> HasCodecData(p))
         /\ HasCodecData(p) => CodecTag(m, p)[1] = CodecTagOf(m, p)
<1>. DEFINE c == CodecTagOf(m, p)
<1>1. pad[p] \in PadType /\ pad[p].dts = STIME_NONE /\ pad[p].last_timestamp = 0
  BY DEF TypeOK, HeaderInv
<1>2. "codec" \in {"codec", "media", "eos"} /\ NoBuffer \in Buffers \cup {NoBuffer}
  OBVIOUS
<1>3. c \in ChunkType
  BY <1>1, <1>2, TagType DEF CodecTagOf
<1>4. Ms(0) = 0
  BY MuxAssumption DEF Ms
<1>5. Dts(m, pad[p]) = 0
  BY <1>1, <1>4 DEF Dts, RawDts
<1>6. c.kind = "codec" /\ c.ts = 0 /\ c.streams = {p}
  BY <1>5 DEF Tag, CodecTagOf
<1>7. CodecTag(m, p) = IF HasCodecData(p) THEN <<c>> ELSE <<>>
  BY DEF CodecTag, CodecTagOf, HasCodecData
<1>. HIDE DEF c
<1>8. /\ <<c>> \in Seq(ChunkType) /\ Len(<<c>>) = 1 /\ <<c>>[1] = c
      /\ <<>> \in Seq(ChunkType) /\ Len(<<>>) = 0
  BY <1>3
<1>. QED BY <1>3, <1>6, <1>7, <1>8 DEF c

\* The streams with a codec, and then once each codec data.
LEMMA HeaderContents ==
  ASSUME TypeOK, HeaderInv, mux.state = "HEADER", NEW m \in MuxType,
         m.first_timestamp = STIME_NONE, m.last_dts = 0,
         NEW s, s = HeaderChunks(m)
  PROVE  /\ s \in Seq(ChunkType) /\ Len(s) \in 2..4
         /\ \A i \in 1..Len(s) : /\ s[i].kind \in {"header", "meta", "codec"}
                                 /\ s[i].kind = "header" <=> i = 1
                                 /\ s[i].ts = 0
         /\ s[1].streams = WithCodec
         /\ \A p \in Present : pad[p].codec /\ pad[p].codec_data =>
              \E k \in 1..Len(s) : CodecsOf(s, p) = {k}
<1>. DEFINE announced == WithCodec
<1>1. PICK h \in ChunkType, t \in ChunkType :
        /\ h = Chunk("header", announced) /\ h.kind = "header" /\ h.ts = 0
        /\ h.streams = announced
        /\ t = Chunk("meta", {}) /\ t.kind = "meta" /\ t.ts = 0
  <2>1. announced \in SUBSET Streams
    BY DEF TypeOK, Present, Streams, WithCodec
  <2>2. Chunk("header", announced) \in ChunkType /\ Chunk("meta", {}) \in ChunkType
    BY <2>1, ChunksType
  <2>. QED BY <2>2 DEF Chunk
<1>2. "video" \in Streams /\ "audio" \in Streams /\ Present \subseteq {"video", "audio"}
  BY DEF Streams, TypeOK, Present
<1>3. PICK v \in Seq(ChunkType), cv \in ChunkType :
        /\ v = CodecTag(m, "video") /\ cv.kind = "codec" /\ cv.ts = 0 /\ cv.streams = {"video"}
        /\ Len(v) \in {0, 1} /\ (Len(v) = 1 <=> HasCodecData("video"))
        /\ HasCodecData("video") => v[1] = cv
  BY <1>2, CodecTagContents
<1>4. PICK a \in Seq(ChunkType), ca \in ChunkType :
        /\ a = CodecTag(m, "audio") /\ ca.kind = "codec" /\ ca.ts = 0 /\ ca.streams = {"audio"}
        /\ Len(a) \in {0, 1} /\ (Len(a) = 1 <=> HasCodecData("audio"))
        /\ HasCodecData("audio") => a[1] = ca
  BY <1>2, CodecTagContents
<1>5. s = <<h, t>> \o v \o a
  BY <1>1, <1>3, <1>4 DEF HeaderChunks
<1>. HIDE DEF announced
<1>6. Len(v) \in {0, 1} /\ Len(a) \in {0, 1}
  BY <1>3, <1>4
<1>7. /\ s \in Seq(ChunkType) /\ Len(s) = 2 + Len(v) + Len(a)
      /\ s[1] = h /\ s[2] = t
      /\ Len(v) = 1 => s[3] = v[1]
      /\ Len(a) = 1 => s[3 + Len(v)] = a[1]
  BY <1>5, <1>6, TwoAndMore
<1>8. PICK nv \in {0, 1}, na \in {0, 1} :
        /\ Len(s) = 2 + nv + na
        /\ nv = 1 <=> HasCodecData("video")
        /\ na = 1 <=> HasCodecData("audio")
        /\ s[1] = h /\ s[2] = t /\ (nv = 1 => s[3] = cv) /\ (na = 1 => s[3 + nv] = ca)
  <2>1. (Len(v) = 1 => HasCodecData("video")) /\ (Len(a) = 1 => HasCodecData("audio"))
    BY <1>3, <1>4
  <2>2. (Len(v) = 1 => s[3] = cv) /\ (Len(a) = 1 => s[3 + Len(v)] = ca)
    BY <2>1, <1>3, <1>4, <1>7
  <2>. QED BY <2>2, <1>3, <1>4, <1>6, <1>7
<1>. DEFINE IsCodec(i, p) == s[i].kind = "codec" /\ s[i].streams = {p}
           K(p) == CodecsOf(s, p)
<1>9. /\ Len(s) \in 2..4 /\ (nv = 1 => 3 \in 1..Len(s)) /\ (na = 1 => 3 + nv \in 1..Len(s))
      /\ \A i \in 1..Len(s) : i = 1 \/ i = 2 \/ (nv = 1 /\ i = 3) \/ (na = 1 /\ i = 3 + nv)
      /\ 3 + nv > 2
  BY <1>8
<1>10. /\ s[1].kind = "header" /\ s[1].ts = 0 /\ s[2].kind = "meta" /\ s[2].ts = 0
       /\ nv = 1 => s[3].kind = "codec" /\ s[3].ts = 0 /\ s[3].streams = {"video"}
       /\ na = 1 => s[3 + nv].kind = "codec" /\ s[3 + nv].ts = 0 /\ s[3 + nv].streams = {"audio"}
  BY <1>1, <1>3, <1>4, <1>8
<1>11. \A i \in 1..Len(s) : /\ s[i].kind \in {"header", "meta", "codec"}
                            /\ s[i].kind = "header" <=> i = 1
                            /\ s[i].ts = 0
  BY <1>9, <1>10
<1>12. {"video"} # {"audio"}
  OBVIOUS
<1>13. nv = 1 => 3 \in 1..Len(s) /\ K("video") = {3}
  <2>1. nv = 1 => \A i \in 1..Len(s) : IsCodec(i, "video") <=> i = 3
    BY <1>9, <1>10, <1>12
  <2>. QED BY <2>1, <1>9 DEF CodecsOf
<1>14. na = 1 => 3 + nv \in 1..Len(s) /\ K("audio") = {3 + nv}
  <2>1. na = 1 => \A i \in 1..Len(s) : IsCodec(i, "audio") <=> i = 3 + nv
    BY <1>9, <1>10, <1>12
  <2>. QED BY <2>1, <1>9 DEF CodecsOf
<1>15. ASSUME NEW p \in Present, pad[p].codec, pad[p].codec_data
       PROVE  \E k \in 1..Len(s) : K(p) = {k}
  <2>1. p \in {"video", "audio"} /\ HasCodecData(p)
    BY <1>2, <1>15 DEF HasCodecData
  <2>. HIDE DEF K
  <2>. QED BY <2>1, <1>8, <1>13, <1>14
<1>16. Len(s) \in 2..4 /\ s[1].streams = announced
  BY <1>1, <1>8
<1>. QED BY <1>7, <1>11, <1>15, <1>16 DEF announced

(***************************************************************************)
(* Where aggregate starts: the header is out, now or since long.           *)
(***************************************************************************)

\* Where a call of aggregate starts: the flow is OK, the header is out or not.
LEMMA RoomMade ==
  ASSUME TypeOK, NEW room \in Rooms, NEW m, m = WithRoom(room)
  PROVE  m \in MuxType /\ m.room = room /\ Alike(mux, m) /\ m.file = mux.file
         /\ m.streamable = mux.streamable /\ room \in Nat
<1>1. mux \in MuxType /\ room \in Nat
  BY DEF TypeOK, Rooms
<1>. QED BY <1>1 DEF WithRoom, MuxType, Alike

\* The header goes out, or a part of it.
LEMMA HeaderPushed ==
  ASSUME TypeOK, HeaderInv, mux.state = "HEADER", mux.flow = "OK",
         NEW room \in Rooms, NEW seekable \in BOOLEAN,
         NEW m, m = WithRoom(room), NEW h, h = WriteHeader(m, seekable)
  PROVE  /\ h \in MuxType /\ h.state = "HEADER" /\ h.first_timestamp = STIME_NONE
         /\ h.last_dts = 0 /\ h.index = <<>> /\ h.file = mux.file
         /\ \A i \in DOMAIN h.out : /\ h.out[i].kind \in {"header", "meta", "codec"}
                                    /\ h.out[i].kind = "header" <=> i = 1
                                    /\ h.out[i].ts = 0
         /\ h.flow = "OK" => h.out = HeaderChunks(m) /\ h.byte_count = Len(h.out)
<1>1. /\ m \in MuxType /\ m.room = room /\ Alike(mux, m) /\ m.file = mux.file
      /\ room \in Nat
  BY RoomMade
<1>2. /\ m.state = "HEADER" /\ m.first_timestamp = STIME_NONE /\ m.last_dts = 0
      /\ m.index = <<>> /\ m.out = <<>> /\ m.byte_count = 0 /\ m.flow = "OK"
  BY <1>1 DEF Alike, HeaderInv
<1>3. PICK m1 : m1 = [m EXCEPT !.streamable = m.streamable \/ ~seekable]
  OBVIOUS
<1>4. m1 \in MuxType /\ Alike(m, m1) /\ m1.room = room /\ m1.file = m.file
  BY <1>1, <1>3 DEF MuxType, Alike
<1>5. PICK s : s = HeaderChunks(m)
  OBVIOUS
<1>6. /\ s \in Seq(ChunkType) /\ Len(s) \in 2..4 /\ DOMAIN s = 1..Len(s)
      /\ \A i \in 1..Len(s) : /\ s[i].kind \in {"header", "meta", "codec"}
                              /\ s[i].kind = "header" <=> i = 1
                              /\ s[i].ts = 0
  <2>1. /\ s \in Seq(ChunkType) /\ Len(s) \in 2..4
        /\ \A i \in 1..Len(s) : /\ s[i].kind \in {"header", "meta", "codec"}
                                /\ s[i].kind = "header" <=> i = 1
                                /\ s[i].ts = 0
    BY <1>1, <1>2, <1>5, HeaderContents
  <2>. QED BY <2>1, LenProperties
<1>7. h = Push(m1, s)
  BY <1>3, <1>5 DEF WriteHeader, HeaderChunks, WithCodec
<1>8. h \in MuxType /\ h.file = m1.file /\ h.last_dts = m1.last_dts
      /\ h.state = m1.state /\ h.first_timestamp = m1.first_timestamp
  BY <1>4, <1>6, <1>7, PushType
<1>9. m1.out = <<>> /\ m1.byte_count = 0 /\ m1.index = <<>> /\ m1.flow = "OK"
  BY <1>2, <1>4 DEF Alike
<1>10. \A u \in Seq(ChunkType) : m1.out \o u = u
  BY <1>9, ConcatEmptySeq
<1>11. CASE Len(s) =< room
  <2>1. h = [m1 EXCEPT !.out = m1.out \o s, !.room = m1.room - Len(s),
                       !.byte_count = m1.byte_count + Len(s)]
    BY <1>4, <1>7, <1>11 DEF Push
  <2>2. h.out = s /\ h.byte_count = Len(s) /\ h.index = <<>> /\ h.flow = "OK"
    BY <2>1, <1>4, <1>6, <1>9, <1>10 DEF MuxType
  <2>. QED BY <2>2, <1>1, <1>2, <1>4, <1>5, <1>6, <1>8 DEF Alike
<1>12. CASE ~(Len(s) =< room)
  <2>1. PICK u : u = SubSeq(s, 1, room)
    OBVIOUS
  <2>2. /\ u \in Seq(ChunkType) /\ DOMAIN u = 1..room
        /\ \A i \in 1..room : u[i] = s[i] /\ i \in 1..Len(s)
    <3>1. 1 \in 1..(Len(s) + 1) /\ room \in 0..Len(s)
      BY <1>1, <1>6, <1>12
    <3>. QED BY <2>1, <3>1, <1>1, <1>6
  <2>3. h = [m1 EXCEPT !.out = m1.out \o u, !.room = 0,
                       !.byte_count = m1.byte_count + room + 1, !.flow = "FLUSHING"]
    BY <1>4, <1>7, <1>12, <2>1 DEF Push
  <2>4. h.out = u /\ h.index = <<>> /\ h.flow = "FLUSHING"
    BY <2>2, <2>3, <1>4, <1>9, <1>10 DEF MuxType
  <2>. QED BY <2>2, <2>4, <1>1, <1>2, <1>4, <1>6, <1>8 DEF Alike
<1>. QED BY <1>11, <1>12

LEMMA StartedType ==
  ASSUME NEW h \in MuxType, NEW t \in Times,
         NEW m, m = [h EXCEPT !.state = "DATA", !.first_timestamp = t]
  PROVE  m \in MuxType
<1>1. t \in Times \cup {STIME_NONE}
  OBVIOUS
<1>. QED BY <1>1 DEF MuxType

\* The stream begins: what aggregate finds once the header is out.
LEMMA StreamBegins ==
  ASSUME TypeOK, OutputInv, Called, NEW room \in Rooms, NEW seekable \in BOOLEAN,
         NEW m, m = Begin(WithRoom(room), seekable), m.flow = "OK"
  PROVE  /\ m \in MuxType /\ Whole(m, pad) /\ m.file = mux.file
         /\ \/ Noted(m) /\ Elapsed(m) >= 0
            \/ /\ MediaIn(m) = {} /\ m.last_dts = 0
               /\ m.first_timestamp = (IF Waiting # {} THEN TimeAt(BestIndex) ELSE 0)
<1>1. PICK w : w = WithRoom(room)
  OBVIOUS
<1>2. w \in MuxType /\ Alike(mux, w) /\ w.file = mux.file
  BY <1>1, RoomMade
<1>3. mux.flow = "OK" /\ mux.state \in {"HEADER", "DATA"} /\ w.state = mux.state
  BY <1>2 DEF Called, TypeOK, MuxType, Alike
<1>4. CASE mux.state = "DATA"
  <2>1. m = w
    BY <1>1, <1>3, <1>4 DEF Begin
  <2>2. Whole(m, pad)
    BY <2>1, <1>2, <1>4, WholeAlike DEF OutputInv, DataInv
  <2>3. Noted(mux) /\ Elapsed(mux) >= 0
    BY <1>3, <1>4 DEF OutputInv, DataInv
  <2>4. Noted(m) /\ Elapsed(m) >= 0
    BY <2>1, <2>3, <1>2 DEF Alike, Noted, MediaIn, Elapsed
  <2>. QED BY <2>1, <2>2, <2>4, <1>2
<1>5. CASE mux.state = "HEADER"
  <2>1. PICK h : h = WriteHeader(w, seekable)
    OBVIOUS
  <2>2. PICK t : t = IF Waiting # {} THEN TimeAt(BestIndex) ELSE 0
    OBVIOUS
  <2>3. t \in Times
    BY <2>2, PadsWaiting, BestIsWaiting DEF Times
  <2>4. /\ h \in MuxType /\ h.state = "HEADER" /\ h.first_timestamp = STIME_NONE
        /\ h.last_dts = 0 /\ h.index = <<>> /\ h.file = mux.file
        /\ \A i \in DOMAIN h.out : /\ h.out[i].kind \in {"header", "meta", "codec"}
                                   /\ h.out[i].kind = "header" <=> i = 1
                                   /\ h.out[i].ts = 0
        /\ h.flow = "OK" => h.out = HeaderChunks(w) /\ h.byte_count = Len(h.out)
    BY <1>1, <1>3, <1>5, <2>1, HeaderPushed DEF OutputInv
  <2>5. h.flow = "OK" /\ m = [h EXCEPT !.state = "DATA", !.first_timestamp = t]
    <3>1. m = IF h.flow # "OK" THEN h ELSE [h EXCEPT !.state = "DATA", !.first_timestamp = t]
      BY <1>1, <1>3, <1>5, <2>1, <2>2 DEF Begin
    <3>. QED BY <3>1
  <2>6. /\ m \in MuxType /\ m.state = "DATA" /\ m.first_timestamp = t /\ m.last_dts = 0
        /\ m.index = <<>> /\ m.file = mux.file /\ m.out = h.out
        /\ m.byte_count = Len(m.out) /\ m.flow = "OK"
    <3>1. h.out \in Seq(ChunkType) /\ h.byte_count = Len(h.out)
      BY <2>4, <2>5 DEF MuxType
    <3>2. m \in MuxType
      <4>1. h \in MuxType /\ m = [h EXCEPT !.state = "DATA", !.first_timestamp = t]
        BY <2>4, <2>5
      <4>. QED BY <4>1, <2>3, StartedType
    <3>3. /\ m.state = "DATA" /\ m.first_timestamp = t /\ m.last_dts = h.last_dts
          /\ m.index = h.index /\ m.file = h.file /\ m.out = h.out
          /\ m.byte_count = h.byte_count /\ m.flow = h.flow
      BY <2>4, <2>5 DEF MuxType
    <3>. QED BY <3>1, <3>2, <3>3, <2>4, <2>5
  <2>7. PICK s : s = HeaderChunks(w)
    OBVIOUS
  <2>8. /\ s \in Seq(ChunkType) /\ Len(s) \in 2..4
        /\ \A i \in 1..Len(s) : /\ s[i].kind \in {"header", "meta", "codec"}
                                /\ s[i].kind = "header" <=> i = 1
                                /\ s[i].ts = 0
        /\ s[1].streams = WithCodec
        /\ \A p \in Present : pad[p].codec /\ pad[p].codec_data =>
             \E k \in 1..Len(s) : CodecsOf(s, p) = {k}
    <3>1. w.first_timestamp = STIME_NONE /\ w.last_dts = 0
      BY <1>2, <1>5 DEF Alike, OutputInv, HeaderInv
    <3>. QED BY <3>1, <1>2, <1>5, <2>7, HeaderContents DEF OutputInv
  <2>9. m.out = s /\ DOMAIN s = 1..Len(s)
    BY <2>4, <2>5, <2>6, <2>7, <2>8, LenProperties
  <2>10. MediaIn(m) = {} /\ HeadersIn(m) = {1} /\ m.out # <<>>
    <3>1. MediaIn(m) = {} /\ HeadersIn(m) = {1}
      BY <2>8, <2>9 DEF MediaIn, HeadersIn
    <3>. QED BY <3>1, <2>8, <2>9
  <2>11. Forward(m) /\ Positioned(m) /\ Counted(m) /\ Covered(m, pad) /\ Streamed(m)
    <3>1. Forward(m)
      BY <2>8, <2>9 DEF Forward
    <3>2. Positioned(m)
      BY <2>6 DEF Positioned
    <3>3. Counted(m)
      BY <2>6, <2>8, <2>9 DEF Counted
    <3>. QED BY <3>1, <3>2, <3>3, <2>10 DEF Covered, Streamed
  <2>12. ASSUME NEW p \in Present
         PROVE  Announced(m, pad, p) /\ Prepared(m, pad, p)
    <3>1. p \in Streams
      BY DEF TypeOK, Present, Streams
    <3>2. pad[p].codec \/ (pad[p].queue = <<>> /\ pad[p].eos)
      BY <3>1, <1>5 DEF Called, AllPadsReady, NextTimeKnown, OutputInv, QueueInv
    <3>3. Announced(m, pad, p)
      BY <3>2, <2>8, <2>9 DEF Announced, WithCodec
    <3>4. CodecsIn(m, p) = CodecsOf(s, p)
      BY <2>9 DEF CodecsIn, CodecsOf
    <3>5. Prepared(m, pad, p)
      BY <3>4, <2>8, <2>9, <2>10 DEF Prepared, WithCodec
    <3>. QED BY <3>3, <3>5
  <2>13. Whole(m, pad)
    BY <2>3, <2>6, <2>10, <2>11, <2>12 DEF Whole
  <2>. QED BY <2>2, <2>6, <2>10, <2>13
<1>. QED BY <1>3, <1>4, <1>5

(***************************************************************************)
(* The pads: from what an operator returns to the state a step leaves.     *)
(***************************************************************************)

\* A pad that goes on: its time does not go back, its stream is announced or
\* over, and its codec data is as it was or came later.
GoesOn(m, pads, pads2, p) ==
  /\ pads2[p].last_timestamp >= pads[p].last_timestamp
  /\ Announced(m, pads2, p)
  /\ pads2[p].renewed \/ ( /\ pads2[p].codec_data = pads[p].codec_data
                           /\ pads2[p].renewed = pads[p].renewed)

LEMMA WholePads ==
  ASSUME TypeOK, NEW m \in MuxType, NEW pads \in [Streams -> PadType],
         NEW pads2 \in [Streams -> PadType], Whole(m, pads),
         \A p \in Present : GoesOn(m, pads, pads2, p)
  PROVE  Whole(m, pads2)
<1>1. Present \subseteq Streams
  BY DEF TypeOK, Present, Streams
<1>2. \A p \in Present : pads[p].last_timestamp \in Int /\ pads2[p].last_timestamp \in Int
  BY <1>1 DEF PadType
<1>3. Covered(m, pads2)
  <2>. SUFFICES ASSUME NEW i \in MediaIn(m), NEW p \in Present,
                       m.out[i].streams = {p}, m.out[i].buffer.dts # TIME_NONE
       PROVE  m.out[i].buffer.dts =< pads2[p].last_timestamp
    BY DEF Covered
  <2>1. m.out[i].buffer.dts =< pads[p].last_timestamp
    BY DEF Whole, Covered
  <2>2. m.out[i].buffer.dts \in Int
    <3>1. m.out[i].buffer \in Buffers \cup {NoBuffer}
      BY OutTyped DEF MediaIn, ChunkType
    <3>2. m.out[i].buffer.dts \in Times
      BY <3>1, BufferTimes
    <3>. QED BY <3>2 DEF Times, TIME_NONE
  <2>. QED BY <2>1, <2>2, <1>2 DEF GoesOn
<1>4. \A p \in Present : Announced(m, pads2, p) /\ Prepared(m, pads2, p)
  BY DEF GoesOn, Whole, Prepared
<1>. QED BY <1>3, <1>4 DEF Whole

\* From what an operator returns to the state that a step leaves.
LEMMA WholeAfter ==
  ASSUME NEW m, NEW pads, Whole(m, pads), Alike(m, mux'), Present' \subseteq Present,
         \A p \in Present' : pad'[p] = pads[p]
  PROVE  Whole(mux, pad)'
<1>1. Whole(mux', pads)
  BY WholeAlike
<1>2. /\ mux'.state = "DATA" /\ mux'.first_timestamp \in Times /\ mux'.out # <<>>
      /\ HeadersIn(mux)' = {1} /\ Streamed(mux)'
  BY <1>1 DEF Whole, HeadersIn, Streamed, MediaIn
<1>3. Forward(mux)' /\ Positioned(mux)' /\ Counted(mux)'
  BY <1>1 DEF Whole, Forward, Positioned, Counted, MediaIn, Elapsed
<1>4. Covered(mux, pad)'
  BY <1>1 DEF Whole, Covered, MediaIn
<1>5. \A i \in MediaIn(mux') : TimeKept(mux', i)
  BY <1>1 DEF Whole
<1>6. (\A i \in MediaIn(mux) : TimeKept(mux, i))'
  BY <1>5 DEF MediaIn, TimeKept, InOrderIn
<1>7. (\A p \in Present : Announced(mux, pad, p) /\ Prepared(mux, pad, p))'
  BY <1>1 DEF Whole, Announced, Prepared, MediaIn, CodecsIn
<1>. QED BY <1>2, <1>3, <1>4, <1>6, <1>7 DEF Whole

LEMMA NotedAfter ==
  ASSUME NEW m, Alike(m, mux')
  PROVE  /\ Noted(m) => Noted(mux)'
         /\ Elapsed(m) >= 0 => Elapsed(mux)' >= 0
BY DEF Alike, Noted, Elapsed, MediaIn

LEMMA AlikeLeft ==
  ASSUME NEW m \in MuxType, Leave(m)
  PROVE  Alike(m, mux') /\ mux'.file = m.file /\ Present' = Present
BY DEF Leave, MuxType, Alike, Present

\* What is done to the pads outside aggregate.
LEMMA OutsideOutputInv ==
  ASSUME TypeOK, OutputInv, pad' \in [Streams -> PadType],
         Alike(mux, mux'), mux'.file = mux.file, QueueInv',
         mux.state = "HEADER" =>
           \A p \in Streams : pad'[p].last_timestamp = 0 /\ pad'[p].dts = STIME_NONE,
         mux.state = "DATA" =>
           Present' \subseteq Present /\ \A p \in Present' : GoesOn(mux, pad, pad', p)
  PROVE  OutputInv'
<1>1. mux \in MuxType /\ pad \in [Streams -> PadType] /\ mux.state \in {"HEADER", "DATA"}
  BY DEF TypeOK, MuxType
<1>2. CASE mux.state = "HEADER"
  <2>1. HeaderInv'
    BY <1>2 DEF Alike, OutputInv, HeaderInv, HeadersIn
  <2>2. ~mux'.file.written /\ mux'.state = "HEADER"
    BY <1>2 DEF OutputInv, HeaderInv, Alike
  <2>. QED BY <2>1, <2>2 DEF OutputInv, DataInv, FileInv
<1>3. CASE mux.state = "DATA"
  <2>1. PICK pads2 : pads2 = [p \in Streams |-> IF p \in Present' THEN pad'[p] ELSE pad[p]]
    OBVIOUS
  <2>2. pads2 \in [Streams -> PadType] /\ Present \subseteq Streams
    BY <2>1, <1>1 DEF TypeOK, Present, Streams
  <2>3. Whole(mux, pad)
    BY <1>3 DEF OutputInv, DataInv
  <2>4. ASSUME NEW p \in Present PROVE GoesOn(mux, pad, pads2, p)
    <3>1. CASE p \in Present'
      BY <3>1, <2>1, <2>2, <1>3 DEF GoesOn, Announced
    <3>2. CASE p \notin Present'
      <4>1. pads2[p] = pad[p] /\ pad[p].last_timestamp \in Nat
        BY <3>2, <2>1, <2>2, <1>1 DEF PadType
      <4>. QED BY <4>1, <2>3 DEF GoesOn, Announced, Whole
    <3>. QED BY <3>1, <3>2
  <2>5. Whole(mux, pads2)
    BY <2>2, <2>3, <2>4, <1>1, WholePads
  <2>6. Whole(mux, pad)'
    BY <2>1, <2>2, <2>5, <1>3, WholeAfter
  <2>7. mux'.state = "DATA" /\ mux'.flow = mux.flow /\ mux'.out = mux.out
    BY <1>3 DEF Alike
  <2>8. (mux.flow = "OK" => Noted(mux) /\ Elapsed(mux) >= 0)'
    BY <2>7, <1>3, NotedAfter DEF OutputInv, DataInv
  <2>9. FileInv'
    BY <2>7, <1>3 DEF OutputInv, FileInv, MediaIn
  <2>. QED BY <2>6, <2>7, <2>8, <2>9 DEF OutputInv, DataInv, HeaderInv
<1>. QED BY <1>1, <1>2, <1>3

(***************************************************************************)
(* What happens to the output outside aggregate: nothing.                  *)
(***************************************************************************)

LEMMA AnnouncedNow ==
  ASSUME OutputInv, mux.state = "DATA", NEW p \in Present
  PROVE  Announced(mux, pad, p)
BY DEF OutputInv, DataInv, Whole

LEMMA InitOutputInv == Init => OutputInv
<1>. SUFFICES ASSUME Init PROVE OutputInv
  OBVIOUS
<1>1. /\ mux.state = "HEADER" /\ mux.first_timestamp = STIME_NONE /\ mux.last_dts = 0
      /\ mux.index = <<>> /\ mux.out = <<>> /\ mux.byte_count = 0
      /\ ~mux.file.written
  BY DEF Init, NoFile
<1>2. \A p \in Streams : /\ pad[p].last_timestamp = 0 /\ pad[p].dts = STIME_NONE
                         /\ pad[p].queue = <<>>
  BY DEF Init, NewPad
<1>. QED BY <1>1, <1>2 DEF OutputInv, HeaderInv, DataInv, QueueInv, FileInv

\* Only a pad that is there can be released, and the other one stays.
LEMMA Released ==
  ASSUME TypeOK, NEW p \in Streams, ReleasePad(p)
  PROVE  Present' \subseteq Present \ {p}
<1>1. sinkpads' = IF Head(sinkpads) = p THEN Tail(sinkpads) ELSE <<Head(sinkpads)>>
  BY DEF ReleasePad
<1>2. p \in Present /\ p \in {"audio", "video"}
  BY DEF ReleasePad, Streams
<1>3. ASSUME NEW r \in {"audio", "video"}, sinkpads = <<r>> PROVE Present' = {}
  <2>1. r = p
    BY <1>2, <1>3 DEF Present
  <2>2. sinkpads' = <<>>
    BY <1>1, <1>3, <2>1
  <2>. QED BY <2>2 DEF Present
<1>4. ASSUME NEW r \in {"audio", "video"}, NEW t \in {"audio", "video"}, r # t,
             sinkpads = <<r, t>>
      PROVE  Present' \subseteq Present \ {p}
  <2>1. Present = {r, t} /\ DOMAIN sinkpads = {1, 2}
    BY <1>4 DEF Present
  <2>2. CASE r = p
    <3>1. sinkpads' = <<t>>
      BY <1>1, <1>4, <2>2
    <3>. QED BY <3>1, <2>1, <2>2, <1>4 DEF Present
  <2>3. CASE r # p
    <3>1. sinkpads' = <<r>>
      BY <1>1, <1>4, <2>3
    <3>. QED BY <3>1, <2>1, <2>3 DEF Present
  <2>. QED BY <2>2, <2>3
<1>5. sinkpads # <<>>
  BY <1>2 DEF Present
<1>. QED BY <1>3, <1>4, <1>5 DEF TypeOK

LEMMA PadsOutputInv ==
  ASSUME MuxInv, OutputInv, NEW p \in Streams, RequestPad(p) \/ ReleasePad(p)
  PROVE  OutputInv'
<1>1. mux' = mux /\ pad' = [pad EXCEPT ![p] = NewPad] /\ TypeOK
  BY DEF RequestPad, ReleasePad, MuxInv
<1>2. pad' \in [Streams -> PadType] /\ pad \in [Streams -> PadType]
  BY <1>1, NewPadType DEF TypeOK
<1>3. QueueInv'
  BY <1>1, <1>2 DEF OutputInv, QueueInv, NewPad
<1>4. mux.state = "HEADER" =>
        \A r \in Streams : pad'[r].last_timestamp = 0 /\ pad'[r].dts = STIME_NONE
  BY <1>1, <1>2 DEF OutputInv, HeaderInv, NewPad
<1>5. mux.state = "DATA" =>
        Present' \subseteq Present /\ \A r \in Present' : GoesOn(mux, pad, pad', r)
  <2>. SUFFICES ASSUME mux.state = "DATA"
       PROVE  Present' \subseteq Present /\ \A r \in Present' : GoesOn(mux, pad, pad', r)
    OBVIOUS
  <2>1. ReleasePad(p)
    BY DEF RequestPad
  <2>2. Present' \subseteq Present \ {p}
    BY <2>1, <1>1, Released
  <2>3. ASSUME NEW r \in Present' PROVE GoesOn(mux, pad, pad', r)
    <3>1. r \in Present /\ r \in Streams /\ pad'[r] = pad[r]
      BY <2>2, <1>1 DEF TypeOK, Present, Streams
    <3>2. pad[r].last_timestamp \in Nat
      BY <3>1, <1>2 DEF PadType
    <3>. QED BY <3>1, <3>2, AnnouncedNow DEF GoesOn, Announced
  <2>. QED BY <2>2, <2>3
<1>6. Alike(mux, mux') /\ mux'.file = mux.file
  BY <1>1 DEF Alike
<1>. QED BY <1>1, <1>2, <1>3, <1>4, <1>5, <1>6, OutsideOutputInv

\* What comes at a pad: only a pad that has not ended gets anything.
LEMMA InputOutputInv ==
  ASSUME MuxInv, OutputInv, NEW p \in Streams,
         \/ NewTags(p) \/ Eos(p)
         \/ \E codec_data \in BOOLEAN : SetCaps(p, codec_data)
         \/ \E b \in Buffers : Arrive(p, b)
  PROVE  OutputInv'
<1>1. /\ p \in Present /\ pad[p].queue = <<>> /\ ~pad[p].eos /\ TypeOK
      /\ pad[p] \in PadType /\ pad \in [Streams -> PadType] /\ sinkpads' = sinkpads
  BY DEF MuxInv, TypeOK, NewTags, Eos, SetCaps, Arrive, Input
<1>2. pad' \in [Streams -> PadType]
  <2>1. MuxInv'
    BY InputMuxInv, NewTagsMuxInv
  <2>. QED BY <2>1 DEF MuxInv, TypeOK
<1>3. Alike(mux, mux') /\ mux'.file = mux.file
  BY <1>1 DEF TypeOK, MuxType, Alike, NewTags, Eos, SetCaps, Arrive
<1>4. \A r \in Streams \ {p} : pad'[r] = pad[r]
  BY <1>1 DEF NewTags, Eos, SetCaps, Arrive
<1>. DEFINE
       TimesStay ==
         pad'[p].last_timestamp = pad[p].last_timestamp /\ pad'[p].dts = pad[p].dts
       Queued ==
         pad'[p].queue # <<>> =>
           /\ pad'[p].codec
           /\ pad'[p].queue[1].dts # TIME_NONE
                => pad'[p].queue[1].dts >= pad[p].last_timestamp
       CodecDataStays ==
         mux.state = "DATA" =>
           pad'[p].renewed \/ ( /\ pad'[p].codec_data = pad[p].codec_data
                                /\ pad'[p].renewed = pad[p].renewed)
<1>5. TimesStay /\ Queued /\ CodecDataStays
  <2>1. CASE NewTags(p)
    BY <2>1, <1>1 DEF NewTags
  <2>2. CASE Eos(p)
    <3>1. pad'[p] = [pad[p] EXCEPT !.eos = TRUE]
      BY <2>2, <1>1 DEF Eos
    <3>. QED BY <3>1, <1>1 DEF PadType
  <2>3. ASSUME NEW codec_data \in BOOLEAN, SetCaps(p, codec_data)
        PROVE  TimesStay /\ Queued /\ CodecDataStays
    <3>. DEFINE data == pad[p].codec_data \/ codec_data
               renewed == pad[p].renewed \/ mux.state = "DATA"
    <3>1. pad'[p] = [pad[p] EXCEPT !.codec = TRUE, !.codec_data = data, !.renewed = renewed]
      BY <2>3, <1>1 DEF SetCaps
    <3>2. mux.state = "DATA" => renewed
      OBVIOUS
    <3>. HIDE DEF data, renewed
    <3>3. /\ pad'[p].queue = <<>> /\ pad'[p].last_timestamp = pad[p].last_timestamp
          /\ pad'[p].dts = pad[p].dts /\ pad'[p].renewed = renewed
      BY <3>1, <1>1 DEF PadType
    <3>. QED BY <3>2, <3>3
  <2>4. ASSUME NEW b \in Buffers, Arrive(p, b)
        PROVE  TimesStay /\ Queued /\ CodecDataStays
    <3>1. /\ pad'[p] = [pad[p] EXCEPT !.queue = <<b>>] /\ pad[p].codec
          /\ b.dts # TIME_NONE => b.dts >= pad[p].last_timestamp
      BY <2>4, <1>1 DEF Arrive
    <3>2. pad'[p].queue = <<b>> /\ pad'[p].queue[1] = b /\ pad'[p].codec
      BY <3>1, <1>1 DEF PadType
    <3>3. /\ pad'[p].last_timestamp = pad[p].last_timestamp /\ pad'[p].dts = pad[p].dts
          /\ pad'[p].codec_data = pad[p].codec_data /\ pad'[p].renewed = pad[p].renewed
      BY <3>1, <1>1 DEF PadType
    <3>. QED BY <3>1, <3>2, <3>3
  <2>. QED BY <2>1, <2>2, <2>3, <2>4
<1>6. QueueInv'
  BY <1>4, <1>5 DEF OutputInv, QueueInv
<1>7. mux.state = "HEADER" =>
        \A r \in Streams : pad'[r].last_timestamp = 0 /\ pad'[r].dts = STIME_NONE
  BY <1>4, <1>5 DEF OutputInv, HeaderInv
<1>8. mux.state = "DATA" =>
        Present' \subseteq Present /\ \A r \in Present' : GoesOn(mux, pad, pad', r)
  <2>. SUFFICES ASSUME mux.state = "DATA", NEW r \in Present'
       PROVE  r \in Present /\ GoesOn(mux, pad, pad', r)
    OBVIOUS
  <2>1. r \in Present /\ r \in Streams
    BY <1>1 DEF Present, TypeOK, Streams
  <2>2. pad[r].last_timestamp \in Nat
    BY <2>1, <1>1 DEF PadType
  <2>3. CASE r = p
    <3>1. r \in mux.out[1].streams
      BY <2>1, <2>3, <1>1, AnnouncedNow DEF Announced
    <3>. QED BY <3>1, <2>1, <2>2, <2>3, <1>5 DEF GoesOn, Announced
  <2>4. CASE r # p
    BY <2>1, <2>2, <2>4, <1>4, AnnouncedNow DEF GoesOn, Announced
  <2>. QED BY <2>1, <2>3, <2>4
<1>. QED BY <1>1, <1>2, <1>3, <1>6, <1>7, <1>8, OutsideOutputInv

LEMMA RestartOutputInv ==
  ASSUME MuxInv, OutputInv, Restart
  PROVE  OutputInv'
<1>1. mux' = Reset(mux) /\ mux \in MuxType
  BY DEF Restart, MuxInv, TypeOK
<1>2. /\ mux'.state = "HEADER" /\ mux'.first_timestamp = STIME_NONE /\ mux'.last_dts = 0
      /\ mux'.index = <<>> /\ mux'.out = <<>> /\ mux'.byte_count = 0
      /\ mux'.file = NoFile
  BY <1>1 DEF Reset, MuxType
<1>3. ~mux'.file.written
  BY <1>2 DEF NoFile
<1>4. \A q \in PadType : /\ FlushedPad(q).last_timestamp = 0 /\ FlushedPad(q).dts = STIME_NONE
                         /\ FlushedPad(q).queue = <<>>
  BY DEF FlushedPad, PadType
<1>5. \A p \in Streams : /\ pad'[p].last_timestamp = 0 /\ pad'[p].dts = STIME_NONE
                         /\ pad'[p].queue = <<>>
  BY <1>4 DEF Restart, MuxInv, TypeOK
<1>. QED BY <1>2, <1>3, <1>5 DEF OutputInv, HeaderInv, DataInv, QueueInv, FileInv

(***************************************************************************)
(* What the calls of aggregate have in common.                             *)
(***************************************************************************)

\* What a step of aggregate leaves behind, once the header is out.
LEMMA AggregateLeaves ==
  ASSUME OutputInv, NEW m \in MuxType, Leave(m), Whole(m, pad'),
         m.flow = "OK" => Noted(m) /\ Elapsed(m) >= 0,
         QueueInv', FileInv'
  PROVE  OutputInv'
<1>1. Alike(m, mux') /\ Present' = Present
  BY AlikeLeft
<1>2. Whole(mux, pad)'
  BY <1>1, WholeAfter
<1>3. (mux.flow = "OK" => Noted(mux) /\ Elapsed(mux) >= 0)'
  BY <1>1, NotedAfter DEF Alike
<1>4. mux'.state = "DATA"
  BY <1>1 DEF Whole, Alike
<1>. QED BY <1>2, <1>3, <1>4, QueueInv', FileInv' DEF OutputInv, HeaderInv, DataInv

\* No file is written before the end.
LEMMA NotRewritten ==
  ASSUME OutputInv, Called
  PROVE  ~mux.file.written
BY DEF OutputInv, FileInv, Called

LEMMA AggregateHeaderFailsOutputInv ==
  ASSUME MuxInv, OutputInv, NEW room \in Rooms, NEW seekable \in Seekables,
         AggregateHeaderFails(room, seekable)
  PROVE  OutputInv'
<1>1. PICK m : m = Begin(WithRoom(room), seekable)
  OBVIOUS
<1>2. PICK w : w = WithRoom(room)
  OBVIOUS
<1>3. /\ Called /\ m.flow # "OK" /\ Leave(m) /\ pad' = pad /\ TypeOK
      /\ seekable \in BOOLEAN /\ mux.flow = "OK"
  BY <1>1, MuxAssumption DEF AggregateHeaderFails, MuxInv, Called
<1>4. w \in MuxType /\ Alike(mux, w)
  BY <1>2, <1>3, RoomMade
<1>5. w.state = mux.state /\ w.flow = "OK" /\ mux.state \in {"HEADER", "DATA"}
  BY <1>3, <1>4 DEF Alike, TypeOK, MuxType
<1>6. PICK h : h = WriteHeader(w, seekable)
  OBVIOUS
<1>7. mux.state = "HEADER" /\ (h.flow # "OK" => m = h)
      /\ (h.flow = "OK" => m.flow = h.flow)
  <2>1. w.state # "DATA"
    BY <1>1, <1>2, <1>3, <1>5 DEF Begin
  <2>2. m = IF h.flow # "OK" THEN h
            ELSE [h EXCEPT !.state = "DATA",
                           !.first_timestamp =
                              IF Waiting # {} THEN TimeAt(BestIndex) ELSE 0]
    BY <2>1, <1>1, <1>2, <1>6 DEF Begin
  <2>3. h \in MuxType
    BY <1>3, <1>4, <1>6, WriteHeaderType
  <2>. QED BY <2>1, <2>2, <2>3, <1>5 DEF MuxType
<1>8. m = h
  BY <1>3, <1>7
<1>9. /\ h \in MuxType /\ h.state = "HEADER" /\ h.first_timestamp = STIME_NONE
      /\ h.last_dts = 0 /\ h.index = <<>> /\ h.file = mux.file
      /\ \A i \in DOMAIN h.out : /\ h.out[i].kind \in {"header", "meta", "codec"}
                                 /\ h.out[i].kind = "header" <=> i = 1
                                 /\ h.out[i].ts = 0
  BY <1>2, <1>3, <1>6, <1>7, HeaderPushed DEF OutputInv
<1>10. Alike(h, mux') /\ mux'.file = mux.file
  BY <1>3, <1>8, <1>9, AlikeLeft
<1>11. h.out # <<>> => HeadersIn(h) = {1}
  <2>1. h.out \in Seq(ChunkType)
    BY <1>9 DEF MuxType
  <2>2. h.out # <<>> => 1 \in DOMAIN h.out
    BY <2>1
  <2>. QED BY <2>2, <1>9 DEF HeadersIn
<1>12. mux'.out # <<>> => HeadersIn(mux)' = {1}
  BY <1>10, <1>11 DEF Alike, HeadersIn
<1>13. ~mux'.file.written /\ mux'.flow # "OK"
  BY <1>3, <1>8, <1>10, NotRewritten DEF Alike
<1>14. HeaderInv'
  BY <1>3, <1>7, <1>9, <1>10, <1>12, <1>13 DEF Alike, OutputInv, HeaderInv
<1>15. mux'.state = "HEADER"
  BY <1>9, <1>10 DEF Alike
<1>. QED BY <1>3, <1>13, <1>14, <1>15 DEF OutputInv, DataInv, QueueInv, FileInv

\* The buffer that is taken: its stream was announced, and it is not before
\* what was taken from its pad.
LEMMA Taken ==
  ASSUME TypeOK, OutputInv, Waiting # {}, NEW p, p = sinkpads[BestIndex],
         NEW b, b = pad[p].queue[1]
  PROVE  /\ p \in Streams /\ p \in Present /\ b \in Buffers /\ pad[p].queue # <<>>
         /\ Popped(p) \in PadType /\ PadOf(Popped(p), b)
         /\ Popped(p).queue = <<>> /\ Popped(p).last_timestamp = pad[p].last_timestamp
         /\ Popped(p).codec_data = pad[p].codec_data
         /\ Popped(p).renewed = pad[p].renewed
         /\ b.dts # TIME_NONE => b.dts >= pad[p].last_timestamp
         /\ TimeAt(BestIndex) = Time(b)
<1>1. BestIndex \in Waiting
  BY BestIsWaiting
<1>2. p \in Streams /\ b \in Buffers /\ Popped(p) \in PadType
  BY PoppedType
<1>3. p \in Present /\ pad[p].queue # <<>>
  BY <1>1 DEF Waiting, Present
<1>. DEFINE pts == IF b.pts # TIME_NONE THEN b.pts ELSE Time(b)
<1>4. Popped(p) = [pad[p] EXCEPT !.queue = <<>>, !.dts = Time(b), !.pts = pts]
  BY DEF Popped
<1>5. pad[p] \in PadType
  BY <1>2 DEF TypeOK
<1>. HIDE DEF pts
<1>6. /\ Popped(p).queue = <<>> /\ Popped(p).last_timestamp = pad[p].last_timestamp
      /\ Popped(p).codec_data = pad[p].codec_data /\ Popped(p).renewed = pad[p].renewed
      /\ Popped(p).dts = Time(b) /\ Popped(p).pts = pts
  BY <1>4, <1>5 DEF PadType
<1>7. PadOf(Popped(p), b)
  BY <1>6 DEF PadOf, pts
<1>8. b.dts # TIME_NONE => b.dts >= pad[p].last_timestamp
  BY <1>2, <1>3 DEF OutputInv, QueueInv
<1>. QED BY <1>2, <1>3, <1>6, <1>7, <1>8 DEF TimeAt

\* Its pad afterwards.
LEMMA TakenPads ==
  ASSUME TypeOK, OutputInv, NEW m \in MuxType, Whole(m, pad), NEW p \in Streams,
         p \in Present, pad[p].queue # <<>>, NEW q \in PadType, q.queue = <<>>,
         q.last_timestamp >= pad[p].last_timestamp,
         q.codec_data = pad[p].codec_data, q.renewed = pad[p].renewed,
         NEW pads \in [Streams -> PadType], pads[p] = q,
         \A r \in Streams \ {p} : pads[r] = pad[r]
  PROVE  Whole(m, pads) /\ p \in m.out[1].streams
<1>1. pad \in [Streams -> PadType] /\ Present \subseteq Streams
  BY DEF TypeOK, Present, Streams
<1>2. p \in m.out[1].streams
  BY DEF Whole, Announced
<1>3. ASSUME NEW r \in Present PROVE GoesOn(m, pad, pads, r)
  <2>1. CASE r = p
    BY <2>1, <1>2 DEF GoesOn, Announced
  <2>2. CASE r # p
    <3>1. pads[r] = pad[r] /\ pad[r].last_timestamp \in Nat
      BY <2>2, <1>1 DEF PadType
    <3>. QED BY <3>1 DEF GoesOn, Announced, Whole
  <2>. QED BY <2>1, <2>2
<1>. QED BY <1>1, <1>2, <1>3, WholePads

(***************************************************************************)
(* A buffer is written.                                                    *)
(***************************************************************************)

\* A muxer that is ready for its next buffer, and new tags before it.
LEMMA ReadyAfterTags ==
  ASSUME TypeOK, OutputInv, Called, NEW room \in Rooms, NEW seekable \in BOOLEAN,
         NEW m, m = Begin(WithRoom(room), seekable), m.flow = "OK",
         Waiting # {}, NEW b, b = pad[sinkpads[BestIndex]].queue[1],
         NEW r \in MuxType, Besides(m, r), r.last_dts = m.last_dts,
         Noted(m) => Noted(r)
  PROVE  Ready(r, b)
<1>1. \/ Noted(m) /\ Elapsed(m) >= 0
      \/ /\ MediaIn(m) = {} /\ m.last_dts = 0
         /\ m.first_timestamp = TimeAt(BestIndex)
  BY StreamBegins
<1>2. TimeAt(BestIndex) = Time(b)
  BY DEF TimeAt
<1>. QED BY <1>1, <1>2 DEF Ready, Besides, Elapsed

\* The buffer's tag is at its place, in its time, or was refused.
LEMMA WriteBufferKeeps ==
  ASSUME TypeOK, NEW m \in MuxType, NEW pads, Whole(m, pads),
         m.flow = "OK" \/ (m.room = 0 /\ m.flow = "FLUSHING"),
         NEW p \in Streams, p \in Present, p \in m.out[1].streams,
         NEW q \in PadType, NEW b \in Buffers, PadOf(q, b), Ready(m, b),
         NEW r, r = WriteBuffer(m, p, q, b),
         r.flow = "OK" => (b.dts # TIME_NONE => b.dts =< pads[p].last_timestamp)
  PROVE  /\ r \in MuxType /\ Whole(r, pads) /\ r.file = m.file
         /\ r.flow = "OK" => Noted(r) /\ Elapsed(r) >= 0
<1>1. PICK c : c = Tag(m, p, q, "media", b)
  OBVIOUS
<1>2. /\ c \in ChunkType /\ r \in MuxType /\ Same(m, r) /\ r.last_dts = Dts(m, q)
      /\ Pushed(m, r, c) \/ Refused(m, r)
      /\ \A k \in DOMAIN r.index :
           \/ k \in DOMAIN m.index /\ r.index[k] = m.index[k]
           \/ r.index[k].position = m.byte_count /\ r.index[k].time = b.pts
  BY <1>1, WriteBufferPushes
<1>3. m.first_timestamp \in Times
  BY DEF Whole
<1>4. /\ RawDts(q) = Ms(Time(b)) /\ m.last_dts =< Dts(m, q)
      /\ Ms(m.first_timestamp) =< Dts(m, q) /\ Dts(m, q) \in {RawDts(q), m.last_dts}
  BY <1>3, NotBeforeFirst
<1>5. /\ c.ts = Dts(m, q) - Ms(m.first_timestamp) /\ c.kind = "media"
      /\ c.streams = {p} /\ c.buffer = b
  BY <1>1, <1>3, <1>4, TagTime
<1>6. /\ m.last_dts \in Int /\ Dts(m, q) \in Int /\ Ms(m.first_timestamp) \in Int
  BY ElapsedType, TimesOfPad
<1>7. /\ Elapsed(r) = Dts(m, q) - Ms(m.first_timestamp) /\ Elapsed(r) >= 0
      /\ Elapsed(m) =< Elapsed(r)
  BY <1>2, <1>4, <1>6 DEF Elapsed, Same
<1>8. CASE Pushed(m, r, c)
  <2>1. m.flow = "OK" /\ r.flow = "OK" /\ r.out = Append(m.out, c)
    BY <1>8 DEF Pushed
  <2>2. m.byte_count = Len(m.out)
    BY <2>1 DEF Whole, Counted
  <2>3. TimeKept(r, Len(m.out) + 1)
    BY <1>1, <1>2, <1>3, <2>1, NewTagKept
  <2>4. c.buffer.dts # TIME_NONE => c.buffer.dts =< pads[p].last_timestamp
    BY <1>5, <2>1
  <2>5. \A k \in DOMAIN r.index :
          \/ k \in DOMAIN m.index /\ r.index[k] = m.index[k]
          \/ r.index[k].position = Len(m.out) /\ r.index[k].time = c.buffer.pts
    BY <1>2, <1>5, <2>2
  <2>6. Whole(r, pads)
    BY <1>2, <1>5, <1>7, <1>8, <2>1, <2>3, <2>4, <2>5, WholeMedia
  <2>7. Noted(r)
    <3>. DEFINE n == Len(m.out) + 1
    <3>1. /\ MediaIn(r) = MediaIn(m) \cup {n} /\ r.out[n] = c
          /\ \A j \in MediaIn(m) : r.out[j] = m.out[j]
      BY <1>2, <1>5, <2>1, OutAppended DEF MediaIn
    <3>. HIDE DEF n
    <3>2. r.first_timestamp = m.first_timestamp
      BY <1>2 DEF Same
    <3>3. \E j \in MediaIn(r) : Time(r.out[j].buffer) = r.first_timestamp
      BY <3>1, <3>2, <1>5 DEF Ready, Noted
    <3>4. CASE Dts(m, q) = RawDts(q)
      BY <3>1, <3>3, <3>4, <1>2, <1>4, <1>5 DEF Noted
    <3>5. CASE Dts(m, q) = m.last_dts
      BY <3>1, <3>3, <3>5, <1>2 DEF Ready, Noted
    <3>. QED BY <3>4, <3>5, <1>4
  <2>. QED BY <1>2, <1>7, <2>6, <2>7 DEF Same
<1>9. CASE Refused(m, r)
  <2>1. r.flow # "OK"
    BY <1>9 DEF Refused
  <2>2. m.byte_count >= Len(m.out)
    BY DEF Whole, Counted
  <2>3. Whole(r, pads)
    BY <1>2, <1>7, <1>9, <2>2, WholeRefused
  <2>. QED BY <1>2, <2>1, <2>3 DEF Same
<1>. QED BY <1>2, <1>8, <1>9

LEMMA AggregateBufferOutputInv ==
  ASSUME MuxInv, OutputInv, NEW room \in Rooms, NEW seekable \in Seekables,
         NEW written \in BOOLEAN, AggregateBuffer(room, seekable, written)
  PROVE  OutputInv'
<1>1. PICK begun : begun = Begin(WithRoom(room), seekable)
  OBVIOUS
<1>2. PICK p : p = sinkpads[BestIndex]
  OBVIOUS
<1>3. PICK b : b = pad[p].queue[1]
  OBVIOUS
<1>4. PICK tagged : tagged = TakeTags(begun, written)
  OBVIOUS
<1>5. PICK m : m = WriteBuffer(tagged, p, Popped(p), b)
  OBVIOUS
<1>6. PICK q : q = IF m.flow = "OK" /\ b.dts # TIME_NONE
                   THEN [Popped(p) EXCEPT !.last_timestamp = b.dts] ELSE Popped(p)
  OBVIOUS
<1>7. /\ TypeOK /\ Called /\ begun.flow = "OK" /\ Waiting # {} /\ Leave(m)
      /\ pad' = [pad EXCEPT ![p] = q] /\ seekable \in BOOLEAN
  BY <1>1, <1>2, <1>3, <1>4, <1>5, <1>6, MuxAssumption DEF AggregateBuffer, MuxInv
<1>8. begun \in MuxType /\ Whole(begun, pad) /\ begun.file = mux.file
  BY <1>1, <1>7, StreamBegins
<1>9. /\ p \in Streams /\ p \in Present /\ b \in Buffers /\ pad[p].queue # <<>>
      /\ Popped(p) \in PadType /\ PadOf(Popped(p), b)
      /\ Popped(p).queue = <<>> /\ Popped(p).last_timestamp = pad[p].last_timestamp
      /\ Popped(p).codec_data = pad[p].codec_data
      /\ Popped(p).renewed = pad[p].renewed
      /\ b.dts # TIME_NONE => b.dts >= pad[p].last_timestamp
  BY <1>2, <1>3, <1>7, Taken
<1>10. /\ q \in PadType /\ q.queue = <<>> /\ q.last_timestamp >= pad[p].last_timestamp
       /\ q.codec_data = pad[p].codec_data /\ q.renewed = pad[p].renewed
       /\ m.flow = "OK" => (b.dts # TIME_NONE => b.dts =< q.last_timestamp)
  <2>1. pad[p].last_timestamp \in Nat /\ b.dts \in Times
    BY <1>7, <1>9, BufferTimes DEF TypeOK, PadType
  <2>2. CASE m.flow = "OK" /\ b.dts # TIME_NONE
    <3>1. b.dts \in Nat /\ q = [Popped(p) EXCEPT !.last_timestamp = b.dts]
      BY <1>6, <2>1, <2>2 DEF Times
    <3>2. /\ q \in PadType /\ q.queue = Popped(p).queue /\ q.last_timestamp = b.dts
          /\ q.codec_data = Popped(p).codec_data /\ q.renewed = Popped(p).renewed
      BY <3>1, <1>9 DEF PadType
    <3>. QED BY <3>1, <3>2, <1>9, <2>2
  <2>3. CASE ~(m.flow = "OK" /\ b.dts # TIME_NONE)
    BY <1>6, <1>9, <2>1, <2>3
  <2>. QED BY <2>2, <2>3
<1>11. PICK pads : pads = [pad EXCEPT ![p] = q]
  OBVIOUS
<1>12. /\ pads \in [Streams -> PadType] /\ Whole(begun, pads)
       /\ p \in begun.out[1].streams /\ pads[p] = q
       /\ \A r \in Streams \ {p} : pads[r] = pad[r]
  <2>1. /\ pads \in [Streams -> PadType] /\ pads[p] = q
        /\ \A r \in Streams \ {p} : pads[r] = pad[r]
    BY <1>7, <1>9, <1>10, <1>11 DEF TypeOK
  <2>. QED BY <2>1, <1>7, <1>8, <1>9, <1>10, TakenPads
<1>13. /\ tagged \in MuxType /\ Whole(tagged, pads) /\ Besides(begun, tagged)
       /\ tagged.last_dts = begun.last_dts /\ tagged.out[1] = begun.out[1]
       /\ tagged.flow = "OK" \/ (tagged.room = 0 /\ tagged.flow = "FLUSHING")
       /\ Noted(begun) => Noted(tagged)
  BY <1>4, <1>7, <1>8, <1>12, TakeTagsKeeps
<1>14. Ready(tagged, b)
  BY <1>1, <1>2, <1>3, <1>7, <1>13, ReadyAfterTags
<1>15. /\ m \in MuxType /\ Whole(m, pads) /\ m.file = tagged.file
       /\ m.flow = "OK" => Noted(m) /\ Elapsed(m) >= 0
  BY <1>5, <1>7, <1>9, <1>10, <1>12, <1>13, <1>14, WriteBufferKeeps
<1>16. QueueInv'
  BY <1>7, <1>10, <1>11, <1>12 DEF OutputInv, QueueInv
<1>17. FileInv'
  <2>1. m.file = mux.file
    BY <1>8, <1>13, <1>15 DEF Besides
  <2>2. mux'.file = m.file
    BY <1>7, <1>15, AlikeLeft
  <2>. QED BY <1>7, <2>1, <2>2, NotRewritten DEF FileInv
<1>. QED BY <1>7, <1>11, <1>15, <1>16, <1>17, AggregateLeaves

(***************************************************************************)
(* A buffer is dropped, and the end of the session.                        *)
(***************************************************************************)

\* The first buffer of a stream always fits: too large is only a later one.
LEMMA AggregateTooLargeOutputInv ==
  ASSUME MuxInv, OutputInv, NEW room \in Rooms, NEW seekable \in Seekables,
         NEW written \in BOOLEAN, AggregateTooLarge(room, seekable, written)
  PROVE  OutputInv'
<1>1. PICK begun : begun = Begin(WithRoom(room), seekable)
  OBVIOUS
<1>2. PICK p : p = sinkpads[BestIndex]
  OBVIOUS
<1>3. PICK b : b = pad[p].queue[1]
  OBVIOUS
<1>4. PICK m : m = TakeTags(begun, written)
  OBVIOUS
<1>5. PICK q : q = Popped(p)
  OBVIOUS
<1>6. /\ TypeOK /\ Called /\ begun.flow = "OK" /\ Waiting # {} /\ Leave(m)
      /\ pad' = [pad EXCEPT ![p] = q] /\ seekable \in BOOLEAN /\ ~Fits(begun, q)
  BY <1>1, <1>2, <1>4, <1>5, MuxAssumption DEF AggregateTooLarge, MuxInv
<1>7. /\ begun \in MuxType /\ Whole(begun, pad) /\ begun.file = mux.file
      /\ \/ Noted(begun) /\ Elapsed(begun) >= 0
         \/ begun.first_timestamp = TimeAt(BestIndex)
  BY <1>1, <1>6, StreamBegins
<1>8. /\ p \in Streams /\ p \in Present /\ b \in Buffers /\ pad[p].queue # <<>>
      /\ q \in PadType /\ PadOf(q, b) /\ q.queue = <<>>
      /\ q.last_timestamp = pad[p].last_timestamp
      /\ q.codec_data = pad[p].codec_data /\ q.renewed = pad[p].renewed
      /\ TimeAt(BestIndex) = Time(b)
  BY <1>2, <1>3, <1>5, <1>6, Taken
<1>9. Noted(begun) /\ Elapsed(begun) >= 0
  <2>. SUFFICES ASSUME begun.first_timestamp = Time(b) PROVE FALSE
    BY <1>7, <1>8
  <2>1. q.dts = Time(b) /\ Time(b) \in Int
    BY <1>8, BufferTimes DEF PadOf, Times, TIME_NONE
  <2>2. q.dts - begun.first_timestamp = 0
    BY <2>1
  <2>3. 0 \div MSECOND = 0 /\ U32 \div 2 >= 1
    BY MuxAssumption
  <2>4. 0 =< G_MAXINT32
    BY <2>3, MuxAssumption DEF G_MAXINT32
  <2>. QED BY <2>2, <2>3, <2>4, <1>6 DEF Fits
<1>10. PICK pads : pads = [pad EXCEPT ![p] = q]
  OBVIOUS
<1>11. /\ pads \in [Streams -> PadType] /\ Whole(begun, pads)
       /\ \A r \in Streams \ {p} : pads[r] = pad[r]
       /\ pads[p].queue = <<>>
  <2>1. /\ pads \in [Streams -> PadType] /\ pads[p] = q
        /\ \A r \in Streams \ {p} : pads[r] = pad[r]
    BY <1>6, <1>8, <1>10 DEF TypeOK
  <2>2. q.last_timestamp >= pad[p].last_timestamp
    BY <1>8 DEF PadType
  <2>. QED BY <2>1, <2>2, <1>6, <1>7, <1>8, TakenPads
<1>12. /\ m \in MuxType /\ Whole(m, pads) /\ Besides(begun, m)
       /\ m.last_dts = begun.last_dts /\ Noted(m)
  BY <1>4, <1>6, <1>7, <1>9, <1>11, TakeTagsKeeps
<1>13. Elapsed(m) >= 0
  BY <1>9, <1>12 DEF Elapsed, Besides
<1>14. QueueInv'
  <2>1. pad' = pads
    BY <1>6, <1>10
  <2>2. \A r \in Streams : pad'[r].queue # <<>> => pad'[r] = pad[r]
    BY <2>1, <1>11
  <2>. QED BY <2>2 DEF OutputInv, QueueInv
<1>15. FileInv'
  <2>1. m.file = mux.file
    BY <1>7, <1>12 DEF Besides
  <2>2. mux'.file = m.file
    BY <1>6, <1>12, AlikeLeft
  <2>. QED BY <1>6, <2>1, <2>2, NotRewritten DEF FileInv
<1>. QED BY <1>6, <1>10, <1>12, <1>13, <1>14, <1>15, AggregateLeaves

\* The duration is that of the stream that goes on longest.
LEMMA DurationIsGreatest ==
  ASSUME TypeOK, NEW p \in Present
  PROVE  pad[p].last_timestamp =< DetermineDuration
<1>. DEFINE T(r) == pad[r].last_timestamp
<1>1. Present \in SUBSET {"audio", "video"}
  BY DEF TypeOK, Present
<1>2. \A r \in Present : T(r) \in Nat
  BY <1>1 DEF TypeOK, Streams, PadType
<1>3. \E r \in Present : \A s \in Present : T(s) =< T(r)
  <2>1. CASE Present = {"audio", "video"}
    <3>1. CASE T("audio") =< T("video")
      BY <2>1, <3>1, <1>2
    <3>2. CASE ~(T("audio") =< T("video"))
      BY <2>1, <3>2, <1>2
    <3>. QED BY <3>1, <3>2
  <2>2. CASE Present # {"audio", "video"}
    <3>1. PICK r : Present = {r}
      BY <2>2, <1>1
    <3>. QED BY <3>1, <1>2
  <2>. QED BY <2>1, <2>2
<1>4. \E t \in {T(r) : r \in Present} : \A r \in Present : T(r) =< t
  BY <1>3
<1>5. \A r \in Present : T(r) =< DetermineDuration
  BY <1>4 DEF DetermineDuration
<1>. QED BY <1>5

\* Nothing that was out is disturbed by the end.
LEMMA AggregateEosOutputInv ==
  ASSUME MuxInv, OutputInv, NEW room \in Rooms, NEW seekable \in Seekables,
         NEW written \in BOOLEAN, AggregateEos(room, seekable, written)
  PROVE  OutputInv'
<1>1. PICK begun : begun = Begin(WithRoom(room), seekable)
  OBVIOUS
<1>2. PICK tagged : tagged = TakeTags(begun, written)
  OBVIOUS
<1>3. PICK ended : ended = WriteEos(tagged)
  OBVIOUS
<1>4. PICK m : m = RewriteHeader(ended)
  OBVIOUS
<1>5. PICK last : last = [m EXCEPT !.flow = "EOS"]
  OBVIOUS
<1>6. /\ TypeOK /\ Called /\ begun.flow = "OK" /\ Waiting = {} /\ Leave(last)
      /\ pad' = pad /\ seekable \in BOOLEAN /\ Present # {}
  BY <1>1, <1>2, <1>3, <1>4, <1>5, MuxAssumption
     DEF AggregateEos, MuxInv, Called, AllPadsReady, NextTimeKnown
<1>7. /\ begun \in MuxType /\ Whole(begun, pad) /\ begun.file = mux.file
      /\ \/ Elapsed(begun) >= 0
         \/ begun.last_dts = 0 /\ begun.first_timestamp = 0
  BY <1>1, <1>6, StreamBegins
<1>8. Elapsed(begun) >= 0
  <2>1. Ms(0) = 0
    BY MuxAssumption DEF Ms
  <2>. QED BY <2>1, <1>7 DEF Elapsed
<1>9. /\ tagged \in MuxType /\ Whole(tagged, pad) /\ Besides(begun, tagged)
      /\ tagged.last_dts = begun.last_dts
      /\ tagged.flow = "OK" \/ tagged.room = 0
  BY <1>2, <1>6, <1>7, TakeTagsKeeps
<1>10. Elapsed(tagged) >= 0
  BY <1>8, <1>9 DEF Elapsed, Besides
<1>11. ended \in MuxType /\ Whole(ended, pad) /\ Besides(tagged, ended)
  BY <1>3, <1>6, <1>9, <1>10, WriteEosKeeps
<1>12. /\ MediaIn(ended) = MediaIn(begun) /\ ended.index = begun.index
       /\ \A i \in MediaIn(begun) : ended.out[i] = begun.out[i]
       /\ ended.file = mux.file
  BY <1>7, <1>9, <1>11 DEF Besides
<1>13. /\ last \in MuxType /\ last.state = ended.state
       /\ last.first_timestamp = ended.first_timestamp /\ last.out = ended.out
       /\ last.last_dts = ended.last_dts /\ last.index = ended.index
       /\ last.byte_count >= ended.byte_count /\ last.flow = "EOS"
       /\ last.file = ended.file \/ last.file.duration = DetermineDuration
  <2>1. m \in MuxType
    <3>1. ended.file.index_len =< MAX_INDEX_ENTRIES
      BY <1>12 DEF MuxInv
    <3>. QED BY <3>1, <1>4, <1>6, <1>11, RewriteHeaderType
  <2>2. ended.byte_count \in Nat
    BY <1>11 DEF MuxType
  <2>3. \/ m = ended
        \/ m = [ended EXCEPT !.file = Rewritten(ended), !.byte_count = ended.byte_count + 1]
    BY <1>4 DEF RewriteHeader
  <2>4. Rewritten(ended).duration = DetermineDuration
    BY DEF Rewritten
  <2>5. /\ m.state = ended.state
        /\ m.first_timestamp = ended.first_timestamp /\ m.out = ended.out
        /\ m.last_dts = ended.last_dts /\ m.index = ended.index
        /\ m.byte_count >= ended.byte_count
        /\ m.file = ended.file \/ m.file.duration = DetermineDuration
    <3>1. CASE m = ended
      BY <3>1, <2>2
    <3>2. CASE m = [ended EXCEPT !.file = Rewritten(ended), !.byte_count = ended.byte_count + 1]
      <4>. DEFINE file == Rewritten(ended)
      <4>1. file.duration = DetermineDuration
        BY <2>4
      <4>. HIDE DEF file
      <4>2. /\ m.state = ended.state
            /\ m.first_timestamp = ended.first_timestamp /\ m.out = ended.out
            /\ m.last_dts = ended.last_dts /\ m.index = ended.index
            /\ m.byte_count = ended.byte_count + 1 /\ m.file = file
        BY <3>2, <1>11 DEF MuxType, file
      <4>. QED BY <4>1, <4>2, <2>2
    <3>. QED BY <2>3, <3>1, <3>2
  <2>. QED BY <2>1, <2>5, <1>5 DEF MuxType
<1>14. Positioned(last)
  <2>1. \A k \in DOMAIN begun.index :
          /\ begun.index[k].position + 1 \in MediaIn(begun)
          /\ begun.out[begun.index[k].position + 1].buffer.pts = begun.index[k].time
    BY <1>6, <1>7 DEF Whole, Positioned
  <2>2. MediaIn(last) = MediaIn(ended)
    BY <1>13 DEF MediaIn
  <2>. QED BY <2>1, <2>2, <1>12, <1>13 DEF Positioned
<1>15. Counted(last)
  <2>1. Len(ended.out) \in Nat /\ ended.byte_count \in Nat /\ last.byte_count \in Nat
    BY <1>11, <1>13, LenProperties DEF MuxType
  <2>. QED BY <2>1, <1>11, <1>13 DEF Whole, Counted
<1>16. Whole(last, pad)
  BY <1>11, <1>13, <1>14, <1>15, WholeSame
<1>17. QueueInv'
  BY <1>6 DEF OutputInv, QueueInv
<1>18. FileInv'
  <2>1. /\ mux'.file = last.file /\ mux'.flow = "EOS" /\ mux'.out = last.out
        /\ Present' = Present
    BY <1>6, <1>13, AlikeLeft DEF Alike
  <2>2. ~ended.file.written
    BY <1>6, <1>12, NotRewritten
  <2>. SUFFICES ASSUME mux'.file.written, NEW i \in MediaIn(last), NEW p \in Present,
                       last.out[i].streams = {p}, last.out[i].buffer.dts # TIME_NONE
       PROVE  last.out[i].buffer.dts =< mux'.file.duration
    BY <2>1 DEF FileInv, MediaIn
  <2>3. mux'.file.duration = DetermineDuration
    BY <2>1, <2>2, <1>13
  <2>4. last.out[i].buffer.dts =< pad[p].last_timestamp
    BY <1>16 DEF Whole, Covered
  <2>5. last.out[i].buffer.dts \in Int
    <3>1. last.out[i].buffer \in Buffers \cup {NoBuffer}
      BY <1>13, OutTyped DEF MediaIn, ChunkType
    <3>2. last.out[i].buffer.dts \in Times
      BY <3>1, BufferTimes
    <3>. QED BY <3>2 DEF Times, TIME_NONE
  <2>6. pad[p].last_timestamp \in Nat /\ DetermineDuration \in Nat
    <3>1. p \in Streams
      BY <1>6 DEF TypeOK, Present, Streams
    <3>. QED BY <3>1, <1>6, DurationType DEF TypeOK, PadType
  <2>. QED BY <2>3, <2>4, <2>5, <2>6, <1>6, DurationIsGreatest
<1>. QED BY <1>6, <1>13, <1>16, <1>17, <1>18, AggregateLeaves

(***************************************************************************)
(* The theorems about the output.                                          *)
(***************************************************************************)

LEMMA OutputInvStep == MuxInv /\ OutputInv /\ [Next]_vars => OutputInv'
<1>. SUFFICES ASSUME MuxInv, OutputInv, [Next]_vars PROVE OutputInv'
  OBVIOUS
<1>1. ASSUME NEW p \in Streams, RequestPad(p) \/ ReleasePad(p)
      PROVE  OutputInv'
  BY <1>1, PadsOutputInv
<1>2. ASSUME NEW p \in Streams,
             \/ NewTags(p) \/ Eos(p)
             \/ \E codec_data \in BOOLEAN : SetCaps(p, codec_data)
             \/ \E b \in Buffers : Arrive(p, b)
      PROVE  OutputInv'
  BY <1>2, InputOutputInv
<1>3. CASE Restart
  BY <1>3, RestartOutputInv
<1>4. ASSUME NEW room \in Rooms, NEW seekable \in Seekables,
             AggregateHeaderFails(room, seekable)
      PROVE  OutputInv'
  BY <1>4, AggregateHeaderFailsOutputInv
<1>5. ASSUME NEW room \in Rooms, NEW seekable \in Seekables,
             NEW written \in BOOLEAN, AggregateBuffer(room, seekable, written)
      PROVE  OutputInv'
  BY <1>5, AggregateBufferOutputInv
<1>6. ASSUME NEW room \in Rooms, NEW seekable \in Seekables,
             NEW written \in BOOLEAN, AggregateTooLarge(room, seekable, written)
      PROVE  OutputInv'
  BY <1>6, AggregateTooLargeOutputInv
<1>7. ASSUME NEW room \in Rooms, NEW seekable \in Seekables,
             NEW written \in BOOLEAN, AggregateEos(room, seekable, written)
      PROVE  OutputInv'
  BY <1>7, AggregateEosOutputInv
<1>8. CASE UNCHANGED vars
  <2>1. Alike(mux, mux') /\ mux'.file = mux.file /\ pad' = pad /\ Present' = Present
    BY <1>8 DEF vars, Alike, Present
  <2>2. TypeOK /\ pad \in [Streams -> PadType] /\ Present \subseteq Streams
    BY DEF MuxInv, TypeOK, Present, Streams
  <2>3. QueueInv'
    BY <2>1 DEF OutputInv, QueueInv
  <2>4. mux.state = "HEADER" =>
          \A p \in Streams : pad'[p].last_timestamp = 0 /\ pad'[p].dts = STIME_NONE
    BY <2>1 DEF OutputInv, HeaderInv
  <2>5. mux.state = "DATA" => \A p \in Present' : GoesOn(mux, pad, pad', p)
    <3>1. \A p \in Present : pad[p].last_timestamp >= pad[p].last_timestamp
      BY <2>2 DEF PadType
    <3>. QED BY <2>1, <3>1, AnnouncedNow DEF GoesOn, Announced
  <2>. QED BY <2>1, <2>2, <2>3, <2>4, <2>5, OutsideOutputInv
<1>. QED BY <1>1, <1>2, <1>3, <1>4, <1>5, <1>6, <1>7, <1>8 DEF Next, Aggregate

LEMMA OutputInvHolds == Spec => [](TypeOK /\ OutputInv)
<1>1. MuxInv => TypeOK
  BY DEF MuxInv
<1>. QED BY <1>1, InitOutputInv, OutputInvStep, MuxInvHolds, PTL DEF Spec

\* Before the header is out there is no media tag, and afterwards all is whole.
LEMMA MediaAreWhole ==
  ASSUME TypeOK, OutputInv
  PROVE  /\ mux \in MuxType /\ Media = MediaIn(mux)
         /\ mux.state = "DATA" => Whole(mux, pad)
         /\ mux.state # "DATA" =>
              /\ Media = {} /\ mux.index = <<>> /\ ~mux.file.written
              /\ \A i \in DOMAIN mux.out : mux.out[i].ts = 0
              /\ mux.out # <<>> => HeadersIn(mux) = {1}
<1>1. mux \in MuxType /\ mux.state \in {"HEADER", "DATA"}
  BY DEF TypeOK, MuxType
<1>2. Media = MediaIn(mux)
  BY DEF Media, Kind, out, MediaIn
<1>. QED BY <1>1, <1>2 DEF OutputInv, HeaderInv, DataInv, MediaIn

\* librtmp never sees a time go back: for any two tags of a session, of
\* whichever streams, the later one does not have the earlier time.
THEOREM TagsForward == Spec => []NeverBackwards
<1>1. TypeOK /\ OutputInv => NeverBackwards
  <2>. SUFFICES ASSUME TypeOK, OutputInv,
                       NEW i \in Media \cup Kind("codec") \cup Kind("eos"),
                       NEW j \in Media \cup Kind("codec") \cup Kind("eos"), i < j
       PROVE  out[i].ts =< out[j].ts
    BY DEF NeverBackwards
  <2>1. /\ i \in DOMAIN mux.out /\ mux.out[i].kind \in Numbered
        /\ j \in DOMAIN mux.out /\ mux.out[j].kind \in Numbered
    BY DEF Media, Kind, out, Numbered
  <2>2. CASE mux.state = "DATA"
    BY <2>1, <2>2, MediaAreWhole DEF Whole, Forward, out
  <2>3. CASE mux.state # "DATA"
    BY <2>1, <2>3, MediaAreWhole DEF out
  <2>. QED BY <2>2, <2>3
<1>. QED BY <1>1, OutputInvHolds, PTL

\* A buffer that comes in order keeps its time relative to the first, and one
\* that is moved is shown when it was to be.
THEOREM TagsInTime == Spec => []TimesKept
<1>1. TypeOK /\ OutputInv => TimesKept
  <2>. SUFFICES ASSUME TypeOK, OutputInv, NEW i \in Media
       PROVE  LET b == out[i].buffer
                  t == MsOf(Time(b))
                  shown == MsOf(b.pts) - MsOf(mux.first_timestamp)
              IN t < U32 =>
                   /\ InOrder(i) => out[i].ts = t - MsOf(mux.first_timestamp)
                   /\ (b.pts # TIME_NONE /\ MsOf(b.pts) < U32 /\ out[i].ts =< shown)
                        => out[i].ts + out[i].cts = shown
    BY DEF TimesKept
  <2>1. i \in MediaIn(mux) /\ TimeKept(mux, i)
    BY MediaAreWhole DEF Whole
  <2>2. InOrder(i) = InOrderIn(mux, i)
    BY MediaAreWhole DEF InOrder, InOrderIn, out
  <2>. QED BY <2>1, <2>2 DEF TimeKept, out
<1>. QED BY <1>1, OutputInvHolds, PTL

\* An index entry is where its tag is, whatever was pushed in between.
THEOREM IndexPointsAtTags == Spec => []IndexPositions
<1>1. TypeOK /\ OutputInv => IndexPositions
  <2>. SUFFICES ASSUME TypeOK, OutputInv PROVE IndexPositions
    OBVIOUS
  <2>1. CASE mux.state = "DATA"
    BY <2>1, MediaAreWhole DEF Whole, Positioned, IndexPositions, out
  <2>2. CASE mux.state # "DATA"
    BY <2>2, MediaAreWhole DEF IndexPositions
  <2>. QED BY <2>1, <2>2
<1>. QED BY <1>1, OutputInvHolds, PTL

\* The duration that is rewritten is not before any tag of a stream that is
\* still there.
THEOREM DurationIsEnough == Spec => []DurationCovers
<1>1. TypeOK /\ OutputInv => DurationCovers
  <2>. SUFFICES ASSUME TypeOK, OutputInv, mux.file.written, NEW i \in Media,
                       out[i].streams \subseteq Present, out[i].buffer.dts # TIME_NONE
       PROVE  MsOf(Time(out[i].buffer)) =< MsOf(mux.file.duration)
    BY DEF DurationCovers
  <2>1. mux.state = "DATA" /\ i \in MediaIn(mux) /\ mux \in MuxType
    BY MediaAreWhole
  <2>2. PICK p \in mux.out[1].streams : mux.out[i].streams = {p}
    BY <2>1, MediaAreWhole DEF Whole, Streamed
  <2>3. p \in Present
    BY <2>2 DEF out
  <2>4. mux.out[i].buffer.dts =< mux.file.duration
    BY <2>1, <2>2, <2>3 DEF OutputInv, FileInv, out
  <2>5. mux.out[i].buffer \in Buffers \cup {NoBuffer} /\ mux.file.duration \in Nat
    BY <2>1, OutTyped DEF MediaIn, ChunkType, MuxType
  <2>6. Time(out[i].buffer) = mux.out[i].buffer.dts
    BY DEF Time, out
  <2>. QED BY <2>4, <2>5, <2>6, BufferTimes, MsOfMonotone DEF Times
<1>. QED BY <1>1, OutputInvHolds, PTL

\* One header begins a session, and announces each stream that has a tag; the
\* codec data of the stream is there once, before its first.
THEOREM HeaderBeforeMedia == Spec => []HeaderPrepares
<1>1. TypeOK /\ OutputInv => HeaderPrepares
  <2>. SUFFICES ASSUME TypeOK, OutputInv PROVE HeaderPrepares
    OBVIOUS
  <2>1. Kind("header") = HeadersIn(mux)
    BY DEF Kind, out, HeadersIn
  <2>2. out # <<>> => Kind("header") = {1}
    BY <2>1, MediaAreWhole DEF Whole, out
  <2>3. ASSUME NEW i \in Media
        PROVE  LET p == Of(i) IN
               /\ p \in out[1].streams
               /\ (p \in Present /\ pad[p].codec_data /\ ~pad[p].renewed) =>
                    Cardinality({j \in Kind("codec") : out[j].streams = {p} /\ j < i}) = 1
    <3>1. i \in MediaIn(mux) /\ Whole(mux, pad) /\ mux \in MuxType
      BY <2>3, MediaAreWhole
    <3>2. PICK p \in mux.out[1].streams : mux.out[i].streams = {p}
      BY <3>1 DEF Whole, Streamed
    <3>3. p \in Streams
      <4>1. mux.out[i] \in ChunkType
        BY <3>1, OutTyped DEF MediaIn
      <4>. QED BY <4>1, <3>2 DEF ChunkType
    <3>4. Of(i) = p
      BY <3>2, <3>3 DEF Of, out
    <3>5. ASSUME p \in Present, pad[p].codec_data, ~pad[p].renewed
          PROVE  Cardinality({j \in Kind("codec") : out[j].streams = {p} /\ j < i}) = 1
      <4>1. PICK k \in DOMAIN mux.out : CodecsIn(mux, p) = {k} /\ k < i
        BY <3>1, <3>2, <3>5 DEF Whole, Prepared
      <4>2. {j \in Kind("codec") : out[j].streams = {p} /\ j < i} = {k}
        BY <4>1 DEF Kind, CodecsIn, out
      <4>. QED BY <4>2, FS_Singleton
    <3>. QED BY <3>2, <3>4, <3>5 DEF out
  <2>. QED BY <2>2, <2>3 DEF HeaderPrepares
<1>. QED BY <1>1, OutputInvHolds, PTL
=============================================================================
