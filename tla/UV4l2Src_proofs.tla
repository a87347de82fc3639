--------------------------- MODULE UV4l2Src_proofs ---------------------------
(***************************************************************************)
(* What the camera source keeps to for every rate and every grant of       *)
(* buffers: its types, the buffers it shares with the driver, the times of *)
(* its frames, the wait that unlock ends, and what stop leaves behind.     *)
(***************************************************************************)
EXTENDS UV4l2Src, SequenceTheorems, TLAPS

-----------------------------------------------------------------------------
(* Rounding down.                                                          *)

LEMMA DivType ==
  ASSUME NEW a \in Nat, NEW b \in Nat \ {0}
  PROVE  a \div b \in Nat
  OBVIOUS

LEMMA DivBounds ==
  ASSUME NEW a \in Nat, NEW b \in Nat \ {0}
  PROVE  b * (a \div b) =< a /\ a < b * (a \div b) + b
  OBVIOUS

LEMMA Mono ==
  ASSUME NEW a \in Int, NEW c \in Int, NEW b \in Nat, a =< c
  PROVE  b * a =< b * c
  OBVIOUS

LEMMA MonoBack ==
  ASSUME NEW a \in Int, NEW c \in Int, NEW b \in Nat \ {0}, b * a < b * c
  PROVE  a < c
  OBVIOUS

\* The quotient is the largest number that fits.
LEMMA DivGreatest ==
  ASSUME NEW a \in Nat, NEW b \in Nat \ {0}, NEW q \in Nat
  PROVE  q =< a \div b <=> b * q =< a
  BY DivType, DivBounds, Mono, MonoBack

LEMMA TimeTypes ==
  ASSUME NEW t \in Nat
  PROVE  FrameAt(t) \in Nat /\ TimeOf(t) \in Nat
  BY SourceAssumption, DivType DEF FrameAt, TimeOf

\* A frame's time has come when the clock is in its period.
LEMMA FrameHasCome ==
  ASSUME NEW t \in Nat, NEW n \in Nat, n =< FrameAt(t)
  PROVE  TimeOf(n) =< t
<1>1. SECOND \in Nat \ {0} /\ Rate \in Nat \ {0}
  BY SourceAssumption
<1>2. SECOND * n =< t * Rate
  BY <1>1, DivGreatest DEF FrameAt
<1>3. n * SECOND < Rate * t + Rate
  BY <1>1, <1>2
<1>4. TimeOf(n) \in Nat /\ Rate * TimeOf(n) =< n * SECOND
  BY <1>1, DivType, DivBounds DEF TimeOf
<1>5. Rate * TimeOf(n) < Rate * (t + 1)
  BY <1>1, <1>3, <1>4
<1>6. TimeOf(n) < t + 1
  BY <1>1, <1>4, <1>5, MonoBack
<1> QED
  BY <1>4, <1>6

\* The time of the next frame is not before the clock: a late frame's length
\* is not negative.
LEMMA NextIsAhead ==
  ASSUME NEW t \in Nat
  PROVE  t =< TimeOf(FrameAt(t) + 1)
<1> DEFINE f == FrameAt(t)
<1>1. SECOND \in Nat \ {0} /\ Rate \in Nat \ {0} /\ f \in Nat
  BY SourceAssumption, TimeTypes
<1>2. t * Rate < SECOND * f + SECOND
  BY <1>1, DivBounds DEF FrameAt
<1>3. Rate * t =< (f + 1) * SECOND
  BY <1>1, <1>2
<1> HIDE DEF f
<1>4. (f + 1) * SECOND \in Nat
  BY <1>1
<1>5. t =< TimeOf(f + 1)
  BY <1>1, <1>3, <1>4, DivGreatest DEF TimeOf
<1> QED
  BY <1>5 DEF f

\* One unit after a frame's rounded time, the clock is in its period.
LEMMA AfterItsTime ==
  ASSUME NEW t \in Nat, NEW n \in Nat, TimeOf(n) < t
  PROVE  n =< FrameAt(t)
<1>1. SECOND \in Nat \ {0} /\ Rate \in Nat \ {0}
  BY SourceAssumption
<1>2. n * SECOND < Rate * TimeOf(n) + Rate /\ TimeOf(n) \in Nat
  BY <1>1, DivBounds, DivType DEF TimeOf
<1>3. Rate * (TimeOf(n) + 1) =< Rate * t
  BY <1>1, <1>2, Mono
<1>4. SECOND * n =< t * Rate
  <2>1. Rate * (TimeOf(n) + 1) = Rate * TimeOf(n) + Rate
    BY <1>1, <1>2
  <2>2. n * SECOND < Rate * t
    <3> HIDE DEF TimeOf
    <3>1. n * SECOND \in Int /\ Rate * TimeOf(n) \in Int /\ Rate * t \in Int
      BY <1>1, <1>2
    <3> QED
      BY <1>1, <1>2, <1>3, <2>1, <3>1
  <2> QED
    BY <1>1, <2>2
<1> QED
  BY <1>1, <1>4, DivGreatest DEF FrameAt

\* A rounded period from a rounded time ends before the next rounded time.
LEMMA PeriodFits ==
  ASSUME NEW n \in Nat
  PROVE  TimeOf(n) + (SECOND \div Rate) =< TimeOf(n + 1)
<1> DEFINE p == SECOND \div Rate
<1>1. SECOND \in Nat \ {0} /\ Rate \in Nat \ {0}
  BY SourceAssumption
<1>2. Rate * TimeOf(n) =< n * SECOND /\ TimeOf(n) \in Nat
  BY <1>1, DivBounds, DivType DEF TimeOf
<1>3. Rate * p =< SECOND /\ p \in Nat
  BY <1>1, DivBounds, DivType
<1> HIDE DEF p
<1>4. Rate * (TimeOf(n) + p) =< (n + 1) * SECOND
  BY <1>1, <1>2, <1>3
<1>5. (n + 1) * SECOND \in Nat
  BY <1>1
<1>6. TimeOf(n) + p =< TimeOf(n + 1)
  BY <1>1, <1>2, <1>3, <1>4, <1>5, DivGreatest DEF TimeOf
<1> QED
  BY <1>6 DEF p

-----------------------------------------------------------------------------
(* The queue of the driver.                                                *)

NoTwice(s) == \A j, k \in DOMAIN s : s[j] = s[k] => j = k

LEMMA AtTheEnd ==
  ASSUME NEW S, NEW s \in Seq(S), NEW i \in S
  PROVE  /\ Append(s, i) \in Seq(S)
         /\ Range(Append(s, i)) = Range(s) \cup {i}
         /\ NoTwice(s) /\ i \notin Range(s) => NoTwice(Append(s, i))
<1> DEFINE a == Append(s, i)
           n == Len(s)
<1>1. /\ a \in Seq(S) /\ Len(a) = n + 1 /\ n \in Nat
      /\ \A k \in 1..n : a[k] = s[k]
      /\ a[n + 1] = i
  BY AppendProperties, LenProperties
<1>2. DOMAIN a = 1..(n + 1) /\ DOMAIN s = 1..n
  BY <1>1, LenProperties
<1> HIDE DEF a, n
<1>3. Range(a) = Range(s) \cup {i}
  <2>1. ASSUME NEW x \in Range(s) PROVE x \in Range(a)
    <3>1. PICK k \in 1..n : x = s[k]
      BY <1>2, <2>1 DEF Range
    <3>2. k \in 1..(n + 1) /\ a[k] = x
      BY <1>1, <3>1
    <3> QED
      BY <1>2, <3>2 DEF Range
  <2>2. i \in Range(a)
    <3>1. n + 1 \in 1..(n + 1)
      BY <1>1
    <3> QED
      BY <1>1, <1>2, <3>1 DEF Range
  <2>3. ASSUME NEW x \in Range(a) PROVE x \in Range(s) \cup {i}
    <3>1. PICK k \in 1..(n + 1) : x = a[k]
      BY <1>2, <2>3 DEF Range
    <3>2. CASE k = n + 1
      BY <1>1, <3>1, <3>2
    <3>3. CASE k \in 1..n
      BY <1>1, <1>2, <3>1, <3>3 DEF Range
    <3> QED
      BY <1>1, <3>1, <3>2, <3>3
  <2> QED
    BY <2>1, <2>2, <2>3
<1>4. ASSUME NoTwice(s), i \notin Range(s) PROVE NoTwice(a)
  <2> SUFFICES ASSUME NEW j \in 1..(n + 1), NEW k \in 1..(n + 1), a[j] = a[k]
               PROVE  j = k
    BY <1>2 DEF NoTwice
  <2>1. \A m \in 1..n : a[m] # i
    BY <1>1, <1>2, <1>4 DEF Range
  <2>2. CASE j \in 1..n /\ k \in 1..n
    BY <1>1, <1>2, <1>4, <2>2 DEF NoTwice
  <2> QED
    BY <1>1, <2>1, <2>2
<1> QED
  BY <1>1, <1>3, <1>4 DEF a

LEMMA OffTheHead ==
  ASSUME NEW S, NEW s \in Seq(S), s # <<>>
  PROVE  /\ Head(s) \in S /\ Tail(s) \in Seq(S)
         /\ Range(s) = Range(Tail(s)) \cup {Head(s)}
         /\ NoTwice(s) => NoTwice(Tail(s)) /\ Head(s) \notin Range(Tail(s))
<1> DEFINE t == Tail(s)
           n == Len(s)
<1>1. /\ Head(s) \in S /\ t \in Seq(S) /\ Len(t) = n - 1
      /\ \A k \in 1..Len(t) : t[k] = s[k + 1]
  BY HeadTailProperties
<1>2. n \in Nat /\ n # 0 /\ Head(s) = s[1]
  BY EmptySeq, LenProperties
<1>3. DOMAIN t = 1..(n - 1) /\ DOMAIN s = 1..n
  BY <1>1, LenProperties
<1> HIDE DEF t, n
<1>4. \A k \in 1..(n - 1) : k + 1 \in 1..n /\ t[k] = s[k + 1]
  BY <1>1, <1>2
<1>5. Range(s) = Range(t) \cup {Head(s)}
  <2>1. ASSUME NEW x \in Range(s) PROVE x \in Range(t) \cup {Head(s)}
    <3>1. PICK k \in 1..n : x = s[k]
      BY <1>3, <2>1 DEF Range
    <3>2. CASE k = 1
      BY <1>2, <3>1, <3>2
    <3>3. CASE k # 1
      <4>1. k - 1 \in 1..(n - 1) /\ (k - 1) + 1 = k
        BY <1>2, <3>1, <3>3
      <4>2. t[k - 1] = x
        BY <1>4, <3>1, <4>1
      <4> QED
        BY <1>3, <4>1, <4>2 DEF Range
    <3> QED
      BY <3>2, <3>3
  <2>2. ASSUME NEW x \in Range(t) PROVE x \in Range(s)
    <3>1. PICK k \in 1..(n - 1) : x = t[k]
      BY <1>3, <2>2 DEF Range
    <3> QED
      BY <1>3, <1>4, <3>1 DEF Range
  <2>3. Head(s) \in Range(s)
    <3>1. 1 \in 1..n
      BY <1>2
    <3> QED
      BY <1>2, <1>3, <3>1 DEF Range
  <2> QED
    BY <2>1, <2>2, <2>3
<1>6. ASSUME NoTwice(s) PROVE NoTwice(t) /\ Head(s) \notin Range(t)
  <2>1. ASSUME NEW j \in 1..(n - 1), NEW k \in 1..(n - 1), t[j] = t[k] PROVE j = k
    <3>1. j + 1 = k + 1
      BY <1>3, <1>4, <1>6, <2>1 DEF NoTwice
    <3> QED
      BY <3>1
  <2>2. ASSUME NEW k \in 1..(n - 1) PROVE t[k] # Head(s)
    <3>1. 1 \in 1..n /\ k + 1 \in 1..n /\ k + 1 # 1
      BY <1>2
    <3> QED
      BY <1>2, <1>3, <1>4, <1>6, <3>1 DEF NoTwice
  <2>3. NoTwice(t)
    BY <1>3, <2>1 DEF NoTwice
  <2>4. Head(s) \notin Range(t)
    BY <1>3, <2>2 DEF Range
  <2> QED
    BY <2>3, <2>4
<1> QED
  BY <1>1, <1>5, <1>6 DEF t

-----------------------------------------------------------------------------
(* Types.                                                                  *)

\* What is closed and unmapped was opened and mapped by this element.
Held == app # "down" => opened >= 1 /\ mapped >= src.buf_count

TypeInv == TypeOK /\ Held

LEMMA SrcAtRateType ==
  ASSUME NEW fps \in {0, Rate}
  PROVE  SrcAtRate(fps) \in SrcType
  BY DEF SrcAtRate, SrcType

LEMMA NewSrcType ==
  ASSUME src \in SrcType
  PROVE  NewSrc \in SrcType
<1>1. src.rate_numerator \in {0, Rate}
  BY DEF SrcType
<1> QED
  BY <1>1, SrcAtRateType DEF NewSrc

LEMMA GrantedType ==
  ASSUME src \in SrcType, NEW n \in 1..4, NEW s, s = [NewSrc EXCEPT !.fd = TRUE, !.buf_count = n]
  PROVE  s \in SrcType /\ s.buf_count = n
<1>1. n \in 0..4
  OBVIOUS
<1> QED
  BY <1>1, NewSrcType DEF SrcType

\* The changes of src that create makes keep its type.
LEMMA CreateSrcType ==
  ASSUME src \in SrcType, NEW n \in Nat
  PROVE  /\ [src EXCEPT !.clock_id = FALSE, !.frame_number = n] \in SrcType
         /\ [src EXCEPT !.clock_id = FALSE, !.frame_number = n].buf_count = src.buf_count
         /\ [src EXCEPT !.is_capture = TRUE, !.index = 0] \in SrcType
         /\ [src EXCEPT !.is_capture = TRUE, !.index = 0].buf_count = src.buf_count
<1>1. /\ [src EXCEPT !.clock_id = FALSE, !.frame_number = n] \in SrcType
      /\ [src EXCEPT !.clock_id = FALSE, !.frame_number = n].buf_count = src.buf_count
  BY DEF SrcType
<1>2. 0 \in 0..3
  OBVIOUS
<1>3. [src EXCEPT !.is_capture = TRUE, !.index = 0] \in SrcType
  BY <1>2 DEF SrcType
<1>4. [src EXCEPT !.is_capture = TRUE, !.index = 0].buf_count = src.buf_count
  BY DEF SrcType
<1> QED
  BY <1>1, <1>3, <1>4

LEMMA InitTypeInv == Init => TypeInv
<1> SUFFICES ASSUME Init PROVE TypeInv
  OBVIOUS
<1>1. drv \in DeviceType
  BY EmptySeq DEF Init, NoDevice, DeviceType
<1>2. src \in SrcType
  BY SrcAtRateType DEF Init
<1>3. now \in 0..(MaxTime + 1) /\ starts \in 0..MaxStarts
  BY SourceAssumption DEF Init
<1> QED
  BY <1>1, <1>2, <1>3 DEF Init, TypeInv, TypeOK, Held

LEMMA StartTypeInv == TypeInv /\ Start => TypeInv'
<1> SUFFICES ASSUME TypeInv, Start PROVE TypeInv'
  OBVIOUS
<1>1. NewElement
  BY DEF Start, StartOpenFails, StartRefused, StartOk, StartBuffersFail
<1>2. /\ task' = "ready" /\ now' \in 0..(MaxTime + 1) /\ woken' = FALSE /\ last' = 0
      /\ starts' \in 0..MaxStarts /\ app = "down" /\ src \in SrcType
  BY <1>1, SourceAssumption DEF NewElement, TypeInv, TypeOK
<1>3. ASSUME src' \in SrcType, drv' \in DeviceType, app' \in {"down", "running"},
             opened' \in Nat, mapped' \in Nat, failed' \in BOOLEAN, Held'
      PROVE  TypeInv'
  BY <1>2, <1>3 DEF TypeInv, TypeOK
<1>4. CASE StartOpenFails
  BY <1>2, <1>3, <1>4, NewSrcType DEF StartOpenFails, device, TypeInv, TypeOK, Held
<1>5. CASE StartRefused
  <2>1. src' \in SrcType
    BY <1>2, <1>5, NewSrcType DEF StartRefused, SrcType
  <2> QED
    BY <1>2, <1>3, <1>5, <2>1 DEF StartRefused, TypeInv, TypeOK, Held
<1>6. ASSUME NEW count \in Granted, StartOk(count) PROVE TypeInv'
  <2>1. count \in 1..4
    BY SourceAssumption
  <2>2. app' = "running" /\ opened' = opened + 1 /\ mapped' = mapped + count
        /\ failed' = failed
    BY <1>6 DEF StartOk
  <2>3. src' \in SrcType /\ src'.buf_count = count
    BY <1>2, <1>6, <2>1, GrantedType DEF StartOk
  <2>4. 0..(count - 1) \in SUBSET (0..3)
    BY <2>1
  <2>5. drv' \in DeviceType
    BY <1>6, <2>4 DEF StartOk, DeviceType, TypeInv, TypeOK
  <2>6. opened' \in Nat /\ mapped' \in Nat /\ opened' >= 1 /\ mapped' >= count
    BY <2>1, <2>2 DEF TypeInv, TypeOK
  <2>7. failed' \in BOOLEAN
    BY <2>2 DEF TypeInv, TypeOK
  <2> QED
    BY <1>3, <2>2, <2>3, <2>5, <2>6, <2>7 DEF Held
<1>7. ASSUME NEW count \in Granted, NEW i \in 1..count,
             NEW step \in {"query", "map", "queue"}, StartBuffersFail(count, i, step)
      PROVE  TypeInv'
  <2>1. count \in 1..4 /\ i \in 1..4
    BY SourceAssumption
  <2>2. [query |-> i - 1, map |-> 0, queue |-> 1][step] \in Nat
    BY <2>1
  <2>3. opened' \in Nat /\ mapped' \in Nat
    BY <1>7, <2>2 DEF StartBuffersFail, TypeInv, TypeOK
  <2>4. src' \in SrcType
    BY <1>2, <1>7, <2>1, GrantedType DEF StartBuffersFail
  <2>5. drv' \in DeviceType
    BY <1>7 DEF StartBuffersFail, DeviceType, TypeInv, TypeOK
  <2>6. app' = "down" /\ failed' = TRUE
    BY <1>2, <1>7 DEF StartBuffersFail
  <2> QED
    BY <1>3, <2>3, <2>4, <2>5, <2>6 DEF Held
<1> QED
  BY <1>4, <1>5, <1>6, <1>7 DEF Start

\* create and what is like it: the element's own state and the device.
LEMMA KeepsTypeInv ==
  ASSUME TypeInv, UNCHANGED <<app, opened, mapped, failed, starts>>,
         task' \in {"ready", "id", "wait", "waited", "unscheduled", "capture",
                   "dequeue", "copy", "blank", "paused"},
         src' \in SrcType, src'.buf_count = src.buf_count, drv' \in DeviceType,
         now' \in 0..(MaxTime + 1), last' \in Nat, woken' \in BOOLEAN
  PROVE  TypeInv'
  BY DEF TypeInv, TypeOK, Held

LEMMA CreateTypeInv == TypeInv /\ (Create \/ CaptureFails) => TypeInv'
<1> SUFFICES ASSUME TypeInv, Create \/ CaptureFails PROVE TypeInv'
  OBVIOUS
<1>1. FrameAt(now) \in Nat /\ TimeOf(FrameAt(now) + 1) \in Nat /\ now \in Nat
  <2>1. now \in Nat
    BY DEF TypeInv, TypeOK
  <2> QED
    BY <2>1, TimeTypes
<1>2. /\ src \in SrcType /\ drv \in DeviceType /\ now \in 0..(MaxTime + 1)
      /\ last \in Nat /\ woken \in BOOLEAN
  BY DEF TypeInv, TypeOK
<1>3. CASE CreateWaits
  <2>1. SECOND \div Rate \in Nat
    BY SourceAssumption, DivType
  <2>2. src' \in SrcType /\ src'.buf_count = src.buf_count
    BY <1>1, <1>2, <1>3, <2>1 DEF CreateWaits, SrcType
  <2> QED
    BY <1>2, <1>3, <2>2, KeepsTypeInv DEF CreateWaits, device
<1>4. CASE CreateAtOnce
  <2>1. TimeOf(FrameAt(now) + 1) - now \in Nat
    BY <1>1, NextIsAhead
  <2>2. src' \in SrcType /\ src'.buf_count = src.buf_count
    BY <1>1, <1>2, <1>4, <2>1 DEF CreateAtOnce, SrcType
  <2> QED
    BY <1>2, <1>4, <2>2, KeepsTypeInv DEF CreateAtOnce, device
<1>5. CASE SetClockId
  <2>1. src' \in SrcType /\ src'.buf_count = src.buf_count
    BY <1>2, <1>5 DEF SetClockId, SrcType
  <2> QED
    BY <1>2, <1>5, <2>1, KeepsTypeInv DEF SetClockId, device
<1>6. CASE WaitEnds \/ RequeueRefused \/ CaptureFails
  BY <1>2, <1>6, KeepsTypeInv DEF WaitEnds, RequeueRefused, CaptureFails, device
<1>7. CASE ClearClockId
  <2>1. src' = [src EXCEPT !.clock_id = FALSE,
                          !.frame_number = IF task = "waited" THEN @ + 1 ELSE @]
    BY <1>7 DEF ClearClockId
  <2>2. (IF task = "waited" THEN src.frame_number + 1 ELSE src.frame_number) \in Nat
    BY <1>2 DEF SrcType
  <2>3. src' \in SrcType /\ src'.buf_count = src.buf_count
    BY <1>2, <2>1, <2>2, CreateSrcType
  <2> QED
    BY <1>2, <1>7, <2>3, KeepsTypeInv DEF ClearClockId, device
<1>8. CASE StreamOn
  <2>1. src' \in SrcType /\ src'.buf_count = src.buf_count
    BY <1>2, <1>8, CreateSrcType DEF StreamOn
  <2>2. drv' \in DeviceType
    BY <1>2, <1>8 DEF StreamOn, DeviceType
  <2> QED
    BY <1>2, <1>8, <2>1, <2>2, KeepsTypeInv DEF StreamOn
<1>9. CASE Requeue
  <2>1. drv' \in DeviceType
    BY <1>2, <1>9 DEF Requeue, SrcType, DeviceType
  <2> QED
    BY <1>2, <1>9, <2>1, KeepsTypeInv DEF Requeue
<1>10. CASE Dequeue
  <2>1. Head(drv.filled) \in 0..3 /\ Tail(drv.filled) \in Seq(0..3)
    BY <1>2, <1>10, OffTheHead DEF Dequeue, DeviceType
  <2>2. src' \in SrcType /\ src'.buf_count = src.buf_count
    BY <1>2, <1>10, <2>1 DEF Dequeue, SrcType
  <2>3. drv' \in DeviceType
    BY <1>2, <1>10, <2>1 DEF Dequeue, DeviceType
  <2> QED
    BY <1>2, <1>10, <2>2, <2>3, KeepsTypeInv DEF Dequeue
<1>12. CASE CreateUnnumbered
  <2>1. src' \in SrcType /\ src'.buf_count = src.buf_count
    BY <1>1, <1>2, <1>12 DEF CreateUnnumbered, NoDuration, SrcType
  <2> QED
    BY <1>2, <1>12, <2>1, KeepsTypeInv DEF CreateUnnumbered, device
<1>11. CASE HandOn
  <2>1. last' \in Nat
    BY <1>2, <1>11 DEF HandOn, SrcType
  <2> QED
    BY <1>2, <1>11, <2>1, KeepsTypeInv DEF HandOn, device
<1> QED
  BY <1>3, <1>4, <1>5, <1>6, <1>7, <1>8, <1>9, <1>10, <1>11, <1>12 DEF Create

LEMMA OtherTypeInv == TypeInv /\ (Unlock \/ Stop \/ Fill \/ Unplug \/ Tick) => TypeInv'
<1> SUFFICES ASSUME TypeInv, Unlock \/ Stop \/ Fill \/ Unplug \/ Tick PROVE TypeInv'
  OBVIOUS
<1>1. /\ src \in SrcType /\ drv \in DeviceType /\ now \in 0..(MaxTime + 1)
      /\ last \in Nat /\ woken \in BOOLEAN
  BY DEF TypeInv, TypeOK
<1>2. CASE Unlock
  <2>1. src' \in SrcType /\ src'.buf_count = src.buf_count
    BY <1>1, <1>2 DEF Unlock, SrcType
  <2>2. woken' \in BOOLEAN
    BY <1>2, Zenon DEF Unlock
  <2> QED
    BY <1>2, <2>1, <2>2 DEF Unlock, device, TypeInv, TypeOK, Held
<1>3. CASE Stop
  <2>1. drv' \in DeviceType
    BY <1>1, <1>3, EmptySeq DEF Stop, NoDevice, DeviceType
  <2>2. opened' \in Nat /\ mapped' \in Nat
    BY <1>1, <1>3 DEF Stop, SrcType, TypeInv, TypeOK, Held
  <2>3. app' = "down" /\ UNCHANGED <<task, src, failed, now, woken, last, starts>>
    BY <1>3 DEF Stop
  <2> QED
    BY <2>1, <2>2, <2>3 DEF TypeInv, TypeOK, Held
<1>4. CASE Fill
  <2>1. PICK i \in drv.queued :
          drv' = [drv EXCEPT !.queued = @ \ {i}, !.filled = Append(@, i)]
    BY <1>4 DEF Fill
  <2>2. i \in 0..3 /\ drv.filled \in Seq(0..3)
    BY <1>1 DEF DeviceType
  <2>3. Append(drv.filled, i) \in Seq(0..3)
    BY <2>2, AtTheEnd
  <2>4. drv' \in DeviceType
    BY <1>1, <2>1, <2>3 DEF DeviceType
  <2> QED
    BY <1>4, <2>4 DEF Fill, TypeInv, TypeOK, Held
<1>5. CASE Unplug
  <2>1. drv' \in DeviceType
    BY <1>1, <1>5 DEF Unplug, DeviceType
  <2> QED
    BY <1>5, <2>1 DEF Unplug, TypeInv, TypeOK, Held
<1>6. CASE Tick
  <2>1. now' \in 0..(MaxTime + 1)
    BY <1>1, <1>6, SourceAssumption DEF Tick
  <2> QED
    BY <1>6, <2>1 DEF Tick, device, TypeInv, TypeOK, Held
<1> QED
  BY <1>2, <1>3, <1>4, <1>5, <1>6

LEMMA NextTypeInv == TypeInv /\ [Next]_vars => TypeInv'
<1>1. TypeInv /\ UNCHANGED vars => TypeInv'
  BY DEF vars, device, TypeInv, TypeOK, Held
<1> QED
  BY <1>1, StartTypeInv, CreateTypeInv, OtherTypeInv DEF Next

LEMMA SourceTypeInv == Spec => []TypeInv
<1> QED
  BY InitTypeInv, NextTypeInv, PTL DEF Spec

\* The types of the source hold for every rate and every grant of buffers; a
\* late frame's length is not negative, and nothing is closed or unmapped that
\* was not opened and mapped.
THEOREM SourceTypeCorrect == Spec => []TypeOK
<1>1. TypeInv => TypeOK
  BY DEF TypeInv
<1> QED
  BY <1>1, SourceTypeInv, PTL

-----------------------------------------------------------------------------
(* The wait for the clock.                                                 *)

WaitInv ==
  /\ task = "wait" => src.clock_id
  /\ woken => src.unscheduled
  /\ UnlockWakes

LEMMA NextWaitInv == TypeInv /\ WaitInv /\ [Next]_vars => WaitInv'
<1> SUFFICES ASSUME TypeInv, WaitInv, [Next]_vars PROVE WaitInv'
  OBVIOUS
<1>1. src \in SrcType
  BY DEF TypeInv, TypeOK
<1>2. CASE Start
  BY <1>2 DEF Start, StartOpenFails, StartRefused, StartOk, StartBuffersFail,
              NewElement, WaitInv, UnlockWakes
<1>3. CASE CreateWaits
  BY <1>3 DEF CreateWaits, WaitInv, UnlockWakes
<1>4. CASE CreateAtOnce \/ CreateUnnumbered
  BY <1>4 DEF CreateAtOnce, CreateUnnumbered, WaitInv, UnlockWakes
<1>5. CASE SetClockId
  BY <1>1, <1>5 DEF SetClockId, SrcType, WaitInv, UnlockWakes
<1>6. CASE WaitEnds
  BY <1>6 DEF WaitEnds, WaitInv, UnlockWakes
<1>7. CASE ClearClockId
  <2>1. src'.unscheduled = src.unscheduled
    BY <1>1, <1>7 DEF ClearClockId, SrcType
  <2> QED
    BY <1>7, <2>1 DEF ClearClockId, WaitInv, UnlockWakes
<1>8. CASE StreamOn \/ Requeue \/ RequeueRefused \/ Dequeue \/ HandOn \/ CaptureFails
  BY <1>8 DEF StreamOn, Requeue, RequeueRefused, Dequeue, HandOn, CaptureFails,
              WaitInv, UnlockWakes
<1>9. CASE Unlock
  <2>1. src'.clock_id = src.clock_id /\ (src.clock_id => src'.unscheduled)
    BY <1>1, <1>9 DEF Unlock, SrcType
  <2> QED
    BY <1>9, <2>1 DEF Unlock, WaitInv, UnlockWakes
<1>10. CASE Stop \/ Fill \/ Unplug \/ Tick \/ UNCHANGED vars
  <2>1. UNCHANGED <<task, src, woken>>
    BY <1>10 DEF Stop, Fill, Unplug, Tick, vars
  <2> QED
    BY <2>1 DEF WaitInv, UnlockWakes
<1> QED
  BY <1>2, <1>3, <1>4, <1>5, <1>6, <1>7, <1>8, <1>9, <1>10 DEF Next, Create

\* A call of create that waits for the clock when unlock comes never goes on
\* to the driver, where nothing could wake it.
THEOREM UnlockEndsTheWait == Spec => []UnlockWakes
<1>1. Init => WaitInv
  BY DEF Init, WaitInv, UnlockWakes
<1>2. WaitInv => UnlockWakes
  BY DEF WaitInv
<1> QED
  BY <1>1, <1>2, NextWaitInv, SourceTypeInv, PTL DEF Spec

-----------------------------------------------------------------------------
(* What stop leaves behind.                                                *)

\* Without a start that failed, an element has what it opened and mapped.
CleanInv ==
  ~failed =>
    /\ app = "down" => opened = 0 /\ mapped = 0 /\ drv.owner = "none"
    /\ app # "down" => opened = 1 /\ mapped = src.buf_count

LEMMA NextCleanInv == TypeInv /\ CleanInv /\ [Next]_vars => CleanInv'
<1> SUFFICES ASSUME TypeInv, CleanInv, [Next]_vars, ~failed' PROVE CleanInv'
  BY DEF CleanInv
<1>1. src \in SrcType /\ drv \in DeviceType
  BY DEF TypeInv, TypeOK
<1>2. ~failed
  BY DEF Next, Start, StartOpenFails, StartRefused, StartOk, StartBuffersFail,
         Create, CreateWaits, CreateAtOnce, CreateUnnumbered, SetClockId, WaitEnds,
         ClearClockId, StreamOn, Requeue, RequeueRefused, Dequeue, HandOn, CaptureFails,
         Unlock, Stop, Fill, Unplug, Tick, vars, device
<1>3. CASE Start
  <2>1. CASE StartOpenFails
    BY <1>2, <2>1 DEF StartOpenFails, NewElement, device, CleanInv
  <2>2. ASSUME NEW count \in Granted, StartOk(count) PROVE CleanInv'
    <3>1. src'.buf_count = count
      BY <1>1, <2>2, NewSrcType DEF StartOk, SrcType
    <3>2. opened' = opened + 1 /\ mapped' = mapped + count /\ app' = "running"
          /\ app = "down"
      BY <2>2 DEF StartOk, NewElement
    <3>3. count \in Nat
      BY SourceAssumption
    <3> QED
      BY <1>2, <3>1, <3>2, <3>3 DEF CleanInv
  <2> QED
    BY <1>3, <2>1, <2>2 DEF Start, StartRefused, StartBuffersFail
<1>4. CASE Stop
  BY <1>1, <1>2, <1>4 DEF Stop, NoDevice, SrcType, CleanInv
<1>5. ASSUME UNCHANGED <<opened, mapped>>, app' # "down", app # "down",
             src'.buf_count = src.buf_count
      PROVE  CleanInv'
  BY <1>2, <1>5 DEF CleanInv
<1>6. ASSUME UNCHANGED <<app, opened, mapped>>, src'.buf_count = src.buf_count,
             drv'.owner = drv.owner
      PROVE  CleanInv'
  BY <1>2, <1>6 DEF CleanInv
<1>7. CASE Unlock
  <2>1. src'.buf_count = src.buf_count
    BY <1>1, <1>7 DEF Unlock, SrcType
  <2> QED
    BY <1>5, <1>7, <2>1 DEF Unlock, device
<1>8. CASE CreateWaits \/ CreateAtOnce \/ CreateUnnumbered
  <2>1. src'.buf_count = src.buf_count
    BY <1>1, <1>8 DEF CreateWaits, CreateAtOnce, CreateUnnumbered, SrcType
  <2> QED
    BY <1>6, <1>8, <2>1 DEF CreateWaits, CreateAtOnce, CreateUnnumbered, device
<1>9. CASE SetClockId \/ WaitEnds \/ ClearClockId
  <2>1. src'.buf_count = src.buf_count
    BY <1>1, <1>9 DEF SetClockId, WaitEnds, ClearClockId, SrcType
  <2> QED
    BY <1>6, <1>9, <2>1 DEF SetClockId, WaitEnds, ClearClockId, device
<1>10. CASE StreamOn \/ Requeue \/ RequeueRefused \/ Dequeue \/ HandOn \/ CaptureFails
  <2>1. src'.buf_count = src.buf_count
    BY <1>1, <1>10 DEF StreamOn, Requeue, RequeueRefused, Dequeue, HandOn,
                       CaptureFails, SrcType
  <2>2. drv'.owner = drv.owner
    BY <1>1, <1>10 DEF StreamOn, Requeue, RequeueRefused, Dequeue, HandOn,
                       CaptureFails, device, DeviceType
  <2> QED
    BY <1>6, <1>10, <2>1, <2>2 DEF StreamOn, Requeue, RequeueRefused, Dequeue,
                                   HandOn, CaptureFails, device
<1>11. CASE Fill \/ Unplug \/ Tick \/ UNCHANGED vars
  <2>1. drv'.owner = drv.owner
    BY <1>1, <1>11 DEF Fill, Unplug, Tick, vars, device, DeviceType
  <2> QED
    BY <1>6, <1>11, <2>1 DEF Fill, Unplug, Tick, vars, device
<1> QED
  BY <1>3, <1>4, <1>7, <1>8, <1>9, <1>10, <1>11 DEF Next, Create

\* However often a stream is started and stopped, stop gives everything back;
\* what is lost is lost by a start that failed.
THEOREM StopIsClean == Spec => []CleanStop
<1>1. Init => CleanInv
  BY DEF Init, NoDevice, CleanInv
<1>2. CleanInv => CleanStop
  BY DEF CleanInv, CleanStop
<1> QED
  BY <1>1, <1>2, NextCleanInv, SourceTypeInv, PTL DEF Spec

-----------------------------------------------------------------------------
(* The buffers.                                                            *)

All == 0..(src.buf_count - 1)

\* The device of an element that runs: what is not with the driver is the
\* buffer whose index is kept, and only when there is something to give back.
BuffersKept ==
  /\ src.buf_count \in 1..4 /\ src.index \in All
  /\ AtDriver \subseteq All
  /\ All \ {src.index} \subseteq AtDriver
  /\ drv.queued \cap Range(drv.filled) = {} /\ NoTwice(drv.filled)
  /\ drv.streaming => src.is_capture
  /\ task \in {"dequeue", "copy"} => src.is_capture
  /\ ~src.is_capture \/ task = "dequeue" => All \subseteq AtDriver
  /\ task = "copy" => src.index \notin AtDriver

BufferInv ==
  /\ app # "down" <=> drv.owner = "src"
  /\ app = "down" => task \in {"ready", "paused"}
  /\ drv.owner # "src" =>
       ~drv.streaming /\ drv.queued = {} /\ drv.filled = <<>>
  /\ drv.owner = "src" => BuffersKept

\* A start leaves the device alone, or with its own buffers, all of them.
LEMMA StartBufferInv == TypeInv /\ BufferInv /\ Start => BufferInv'
<1> SUFFICES ASSUME TypeInv, BufferInv, Start PROVE BufferInv'
  OBVIOUS
<1>1. drv \in DeviceType
  BY DEF TypeInv, TypeOK
<1>2. app = "down" /\ drv.owner # "src" /\ task' = "ready"
  BY DEF Start, StartOpenFails, StartRefused, StartOk, StartBuffersFail,
         NewElement, BufferInv
<1>3. CASE StartOpenFails \/ StartRefused
  BY <1>2, <1>3 DEF StartOpenFails, StartRefused, device, BufferInv
<1>4. ASSUME NEW count \in Granted, StartOk(count) PROVE BufferInv'
  <2>1. count \in 1..4
    BY SourceAssumption
  <2>2. app' = "running"
    BY <1>4 DEF StartOk
  <2>3. src'.buf_count = count /\ src'.index = 0 /\ src'.is_capture = FALSE
    BY <1>4 DEF StartOk, NewSrc, SrcAtRate
  <2>4. /\ drv'.owner = "src" /\ drv'.queued = 0..(count - 1)
        /\ drv'.filled = <<>> /\ drv'.streaming = FALSE
    BY <1>1, <1>2, <1>4 DEF StartOk, DeviceType, BufferInv
  <2>5. Range(drv'.filled) = {} /\ NoTwice(drv'.filled)
    BY <2>4 DEF Range, NoTwice
  <2>6. AtDriver' = 0..(count - 1) /\ All' = 0..(count - 1)
    BY <2>3, <2>4, <2>5 DEF AtDriver, All
  <2>7. 0 \in 0..(count - 1)
    BY <2>1
  <2>8. BuffersKept'
    BY <1>2, <2>1, <2>3, <2>4, <2>5, <2>6, <2>7 DEF BuffersKept
  <2> QED
    BY <2>2, <2>4, <2>8 DEF BufferInv
<1>5. ASSUME NEW count \in Granted, NEW i \in 1..count,
             NEW step \in {"query", "map", "queue"}, StartBuffersFail(count, i, step)
      PROVE  BufferInv'
  <2>1. /\ drv'.owner = "lost" /\ drv'.queued = drv.queued
        /\ drv'.filled = drv.filled /\ drv'.streaming = drv.streaming
    BY <1>1, <1>5 DEF StartBuffersFail, DeviceType
  <2>2. app' = "down"
    BY <1>2, <1>5 DEF StartBuffersFail
  <2> QED
    BY <1>2, <2>1, <2>2 DEF BufferInv
<1> QED
  BY <1>3, <1>4, <1>5 DEF Start

\* Steps after which the task is not at a place the buffers depend on.
LEMMA NoBufferMoves ==
  ASSUME BufferInv, TypeInv, UNCHANGED <<drv, src.buf_count, src.index, src.is_capture>>,
         app' # "down" <=> app # "down",
         app = "down" => task' \in {"ready", "paused"},
         task' \in {"dequeue", "copy"} => task' = task
  PROVE  BufferInv'
<1>1. UNCHANGED <<All, AtDriver>>
  BY DEF All, AtDriver
<1> QED
  BY <1>1 DEF BufferInv, BuffersKept

LEMMA NextBufferInv == TypeInv /\ BufferInv /\ [Next]_vars => BufferInv'
<1> SUFFICES ASSUME TypeInv, BufferInv, [Next]_vars PROVE BufferInv'
  OBVIOUS
<1>1. src \in SrcType /\ drv \in DeviceType
  BY DEF TypeInv, TypeOK
<1>2. CASE \/ CreateWaits \/ CreateAtOnce \/ CreateUnnumbered
            \/ SetClockId \/ WaitEnds \/ ClearClockId
  <2>1. UNCHANGED <<app, drv, src.buf_count, src.index, src.is_capture>>
    BY <1>1, <1>2 DEF CreateWaits, CreateAtOnce, CreateUnnumbered, SetClockId,
                      WaitEnds, ClearClockId, device, SrcType
  <2>2. task' \notin {"dequeue", "copy"} /\ app # "down"
    BY <1>2 DEF CreateWaits, CreateAtOnce, CreateUnnumbered, SetClockId, WaitEnds,
                ClearClockId, BufferInv
  <2> QED
    BY <2>1, <2>2, NoBufferMoves
<1>3. CASE RequeueRefused \/ HandOn \/ CaptureFails
  <2>1. UNCHANGED <<app, src, drv>> /\ app # "down" /\ task' \notin {"dequeue", "copy"}
    BY <1>3 DEF RequeueRefused, HandOn, CaptureFails, device, BufferInv
  <2> QED
    BY <2>1, NoBufferMoves
<1>4. CASE Unlock \/ Tick \/ UNCHANGED vars
  <2>1. UNCHANGED <<drv, task, src.buf_count, src.index, src.is_capture>>
    BY <1>1, <1>4 DEF Unlock, Tick, vars, device, SrcType
  <2>2. (app' # "down" <=> app # "down")
    BY <1>4 DEF Unlock, Tick, vars
  <2> QED
    BY <2>1, <2>2, NoBufferMoves DEF BufferInv
<1>5. CASE StreamOn
  <2>1. app # "down" /\ app' = app /\ task' = "dequeue" /\ ~src.is_capture
    BY <1>5 DEF StreamOn, BufferInv
  <2>2. BuffersKept /\ drv.owner = "src"
    BY <2>1 DEF BufferInv
  <2>3. /\ src'.is_capture = TRUE /\ src'.index = 0 /\ src'.buf_count = src.buf_count
        /\ drv'.queued = drv.queued /\ drv'.filled = drv.filled
        /\ drv'.owner = drv.owner
    BY <1>1, <1>5 DEF StreamOn, SrcType, DeviceType
  <2>4. UNCHANGED <<All, AtDriver>>
    BY <2>3 DEF All, AtDriver
  <2>5. 0 \in All
    BY <2>2 DEF BuffersKept, All
  <2>6. BuffersKept'
    BY <2>1, <2>2, <2>3, <2>4, <2>5 DEF BuffersKept
  <2> QED
    BY <2>1, <2>2, <2>3, <2>6 DEF BufferInv
<1>6. CASE Requeue
  <2>1. app # "down" /\ app' = app /\ task' = "dequeue" /\ src.is_capture
    BY <1>6 DEF Requeue, BufferInv
  <2>2. BuffersKept /\ drv.owner = "src"
    BY <2>1 DEF BufferInv
  <2>3. /\ src' = src /\ drv'.queued = drv.queued \cup {src.index}
        /\ drv'.filled = drv.filled /\ drv'.owner = drv.owner
        /\ src.index \notin AtDriver
    BY <1>1, <1>6 DEF Requeue, DeviceType
  <2>4. All' = All /\ AtDriver' = AtDriver \cup {src.index}
    BY <2>3 DEF All, AtDriver
  <2>5. drv'.queued \cap Range(drv'.filled) = {}
    BY <2>2, <2>3 DEF BuffersKept, AtDriver
  <2>6. BuffersKept'
    BY <2>1, <2>2, <2>3, <2>4, <2>5 DEF BuffersKept
  <2> QED
    BY <2>1, <2>2, <2>3, <2>6 DEF BufferInv
<1>7. CASE Dequeue
  <2>1. app # "down" /\ app' = app /\ task = "dequeue" /\ task' = "copy"
    BY <1>7 DEF Dequeue, BufferInv
  <2>2. BuffersKept /\ drv.owner = "src"
    BY <2>1 DEF BufferInv
  <2>3. /\ src'.index = Head(drv.filled) /\ src'.buf_count = src.buf_count
        /\ src'.is_capture = src.is_capture
    BY <1>1, <1>7 DEF Dequeue, SrcType
  <2>4. /\ drv'.filled = Tail(drv.filled) /\ drv'.queued = drv.queued
        /\ drv'.owner = drv.owner /\ drv.filled \in Seq(0..3) /\ drv.filled # <<>>
    BY <1>1, <1>7 DEF Dequeue, DeviceType
  <2>5. /\ Range(drv.filled) = Range(drv'.filled) \cup {src'.index}
        /\ NoTwice(drv'.filled) /\ src'.index \notin Range(drv'.filled)
    BY <2>2, <2>3, <2>4, OffTheHead DEF BuffersKept
  <2>6. src'.index \notin drv.queued
    BY <2>2, <2>5 DEF BuffersKept
  <2>7. All' = All /\ AtDriver' = AtDriver \ {src'.index} /\ src'.index \in All
    BY <2>2, <2>3, <2>4, <2>5, <2>6 DEF All, AtDriver, BuffersKept
  <2>8. BuffersKept'
    BY <2>1, <2>2, <2>3, <2>4, <2>5, <2>6, <2>7 DEF BuffersKept
  <2> QED
    BY <2>1, <2>2, <2>4, <2>8 DEF BufferInv
<1>8. CASE Stop
  BY <1>8 DEF Stop, NoDevice, BufferInv
<1>9. CASE Fill
  <2>1. PICK i \in drv.queued :
          drv' = [drv EXCEPT !.queued = @ \ {i}, !.filled = Append(@, i)]
    BY <1>9 DEF Fill
  <2>2. UNCHANGED <<app, task, src>> /\ drv.streaming
    BY <1>9 DEF Fill
  <2>3. drv.owner = "src" /\ BuffersKept /\ app # "down"
    BY <2>2 DEF BufferInv
  <2>4. /\ drv'.queued = drv.queued \ {i} /\ drv'.filled = Append(drv.filled, i)
        /\ drv'.owner = "src"
    BY <1>1, <2>1, <2>3 DEF DeviceType
  <2>5. i \in 0..3 /\ drv.filled \in Seq(0..3)
    BY <1>1 DEF DeviceType
  <2>6. i \notin Range(drv.filled)
    BY <2>3 DEF BuffersKept
  <2>7. Range(drv'.filled) = Range(drv.filled) \cup {i} /\ NoTwice(drv'.filled)
    BY <2>3, <2>4, <2>5, <2>6, AtTheEnd DEF BuffersKept
  <2>8. All' = All /\ AtDriver' = AtDriver
    BY <2>2, <2>4, <2>7 DEF All, AtDriver
  <2>9. drv'.queued \cap Range(drv'.filled) = {}
    BY <2>3, <2>4, <2>7 DEF BuffersKept
  <2>10. BuffersKept'
    BY <2>2, <2>3, <2>7, <2>8, <2>9 DEF BuffersKept
  <2> QED
    BY <2>2, <2>3, <2>4, <2>10 DEF BufferInv
<1>10. CASE Unplug
  <2>1. UNCHANGED <<app, task, src, drv.owner, drv.queued, drv.filled, drv.streaming>>
    BY <1>1, <1>10 DEF Unplug, DeviceType
  <2>2. UNCHANGED <<All, AtDriver>>
    BY <2>1 DEF All, AtDriver
  <2> QED
    BY <2>1, <2>2 DEF BufferInv, BuffersKept
<1> QED
  BY StartBufferInv, <1>2, <1>3, <1>4, <1>5, <1>6, <1>7, <1>8, <1>9, <1>10
     DEF Next, Create

\* The driver never writes to the buffer a frame is copied from, and no buffer
\* is lost or queued twice, whatever fails in between.
THEOREM BuffersNeverLost == Spec => []BuffersAccounted
<1>1. Init => BufferInv
  BY DEF Init, NoDevice, BufferInv
<1>2. BufferInv => BuffersAccounted
  BY DEF BufferInv, BuffersKept, BuffersAccounted, All, NoTwice
<1> QED
  BY <1>1, <1>2, NextBufferInv, SourceTypeInv, PTL DEF Spec

-----------------------------------------------------------------------------
(* The times of the frames.                                                *)

\* Nothing handed on reaches into the next frame's period, and the frame that
\* is being made starts in its own and ends with it.
Numbered ==
  LET n == src.frame_number IN
  /\ task = "ready" => last =< TimeOf(n + 1) /\ n =< FrameAt(now)
  /\ task \in {"id", "wait", "waited", "unscheduled"} =>
       /\ src.buf_time = TimeOf(n + 1) /\ last =< src.buf_time
       /\ src.buf_dur = SECOND \div Rate
  /\ task \in {"capture", "dequeue", "copy", "blank"} =>
       /\ TimeOf(n) =< src.buf_time /\ last =< src.buf_time
       /\ src.buf_time + src.buf_dur =< TimeOf(n + 1)

\* Without a rate frames are made one after another and have no length.
Unnumbered ==
  /\ task \notin {"id", "wait", "waited", "unscheduled"}
  /\ task = "ready" => last =< now
  /\ task \in {"capture", "dequeue", "copy", "blank"} =>
       last =< src.buf_time /\ src.buf_dur = NoDuration

FollowInv == IF src.rate_numerator # 0 THEN Numbered ELSE Unnumbered

LEMMA RateKept ==
  ASSUME TypeInv, [Next]_vars
  PROVE  src'.rate_numerator = src.rate_numerator
<1>1. src \in SrcType
  BY DEF TypeInv, TypeOK
<1>2. NewSrc \in SrcType /\ NewSrc.rate_numerator = src.rate_numerator
  BY <1>1, NewSrcType DEF NewSrc, SrcAtRate
<1>3. CASE Start
  BY <1>2, <1>3 DEF Start, StartOpenFails, StartRefused, StartOk, StartBuffersFail,
                    SrcType
<1>4. CASE \/ CreateWaits \/ CreateAtOnce \/ CreateUnnumbered \/ SetClockId
            \/ ClearClockId \/ StreamOn \/ Dequeue \/ Unlock
  BY <1>1, <1>4 DEF CreateWaits, CreateAtOnce, CreateUnnumbered, SetClockId,
                    ClearClockId, StreamOn, Dequeue, Unlock, SrcType
<1>5. CASE \/ WaitEnds \/ Requeue \/ RequeueRefused \/ HandOn \/ CaptureFails
            \/ Stop \/ Fill \/ Unplug \/ Tick \/ UNCHANGED vars
  BY <1>5 DEF WaitEnds, Requeue, RequeueRefused, HandOn, CaptureFails, Stop, Fill,
              Unplug, Tick, vars
<1> QED
  BY <1>3, <1>4, <1>5 DEF Next, Create

LEMMA FrameMono ==
  ASSUME NEW t \in Nat
  PROVE  FrameAt(t) =< FrameAt(t + 1)
<1>1. SECOND \in Nat \ {0} /\ Rate \in Nat \ {0} /\ FrameAt(t) \in Nat
  BY SourceAssumption, TimeTypes
<1>2. SECOND * FrameAt(t) =< t * Rate
  BY <1>1, DivBounds DEF FrameAt
<1>3. t * Rate =< (t + 1) * Rate /\ (t + 1) * Rate \in Nat
  BY <1>1
<1>4. SECOND * FrameAt(t) =< (t + 1) * Rate
  <2> HIDE DEF FrameAt
  <2>1. SECOND * FrameAt(t) \in Nat /\ t * Rate \in Nat
    BY <1>1
  <2> QED
    BY <1>2, <1>3, <2>1
<1> QED
  BY <1>1, <1>3, <1>4, DivGreatest DEF FrameAt

LEMMA NextNumbered ==
  ASSUME TypeInv, src.rate_numerator # 0, Numbered, [Next]_vars
  PROVE  Numbered'
<1> DEFINE n == src.frame_number
<1>1. /\ src \in SrcType /\ now \in Nat /\ last \in Nat
      /\ n \in Nat /\ src.buf_time \in Nat /\ src.buf_dur \in Nat
  BY DEF TypeInv, TypeOK, SrcType
<1>2. /\ TimeOf(n) \in Nat /\ TimeOf(n + 1) \in Nat /\ FrameAt(now) \in Nat
      /\ TimeOf(FrameAt(now)) \in Nat /\ TimeOf(FrameAt(now) + 1) \in Nat
  BY <1>1, TimeTypes
<1>3. CASE Start
  <2>1. src'.frame_number = 0 /\ task' = "ready" /\ now' = 0 /\ last' = 0
    <3>1. task' = "ready" /\ now' = 0 /\ last' = 0
      BY <1>3 DEF Start, StartOpenFails, StartRefused, StartOk, StartBuffersFail,
                  NewElement
    <3>2. ASSUME StartOpenFails \/ StartRefused PROVE src'.frame_number = 0
      BY <3>2 DEF StartOpenFails, StartRefused, NewSrc, SrcAtRate
    <3>3. ASSUME NEW count \in Granted, StartOk(count)
          PROVE  src'.frame_number = 0
      BY <3>3 DEF StartOk, NewSrc, SrcAtRate
    <3>4. ASSUME NEW count \in Granted, NEW i \in 1..count,
                 NEW step \in {"query", "map", "queue"},
                 StartBuffersFail(count, i, step)
          PROVE  src'.frame_number = 0
      BY <3>4 DEF StartBuffersFail, NewSrc, SrcAtRate
    <3>5. src'.frame_number = 0
      BY <1>3, <3>2, <3>3, <3>4 DEF Start
    <3> QED
      BY <3>1, <3>5
  <2>2. TimeOf(0 + 1) \in Nat /\ FrameAt(0) \in Nat
    BY TimeTypes
  <2> QED
    BY <2>1, <2>2 DEF Numbered
<1>4. CASE CreateWaits
  <2>1. /\ task = "ready" /\ task' = "id" /\ FrameAt(now) = n
        /\ last' = last /\ now' = now
    BY <1>4 DEF CreateWaits
  <2>2. /\ src'.buf_time = TimeOf(n + 1) /\ src'.buf_dur = SECOND \div Rate
        /\ src'.frame_number = n
    BY <1>1, <1>4 DEF CreateWaits, SrcType
  <2> QED
    BY <2>1, <2>2 DEF Numbered
<1>5. CASE CreateAtOnce
  <2>1. /\ task = "ready" /\ task' = "capture" /\ FrameAt(now) # n
        /\ last' = last /\ now' = now
    BY <1>5 DEF CreateAtOnce
  <2>2. /\ src'.buf_time = now /\ src'.buf_dur = TimeOf(FrameAt(now) + 1) - now
        /\ src'.frame_number = FrameAt(now)
    BY <1>1, <1>5 DEF CreateAtOnce, SrcType
  <2>3. n + 1 =< FrameAt(now) /\ last =< TimeOf(n + 1)
    BY <1>1, <1>2, <2>1 DEF Numbered
  <2>4. TimeOf(n + 1) =< now
    BY <1>1, <2>3, FrameHasCome
  <2>5. TimeOf(FrameAt(now)) =< now
    BY <1>1, <1>2, FrameHasCome
  <2>6. last' =< src'.buf_time
    BY <1>1, <1>2, <2>1, <2>2, <2>3, <2>4
  <2>7. src'.buf_time + src'.buf_dur =< TimeOf(src'.frame_number + 1)
    BY <1>1, <1>2, <2>2
  <2> QED
    BY <2>1, <2>2, <2>5, <2>6, <2>7 DEF Numbered
<1>6. CASE SetClockId \/ WaitEnds
  <2>1. /\ task \in {"id", "wait"} /\ task' \in {"wait", "waited", "unscheduled"}
        /\ last' = last
    BY <1>6 DEF SetClockId, WaitEnds
  <2>2. UNCHANGED <<src.buf_time, src.buf_dur, src.frame_number>>
    BY <1>1, <1>6 DEF SetClockId, WaitEnds, SrcType
  <2> QED
    BY <2>1, <2>2 DEF Numbered
<1>7. CASE ClearClockId
  <2>1. CASE task = "waited"
    <3>1. task' = "capture" /\ last' = last
      BY <1>7, <2>1 DEF ClearClockId
    <3>2. UNCHANGED <<src.buf_time, src.buf_dur>> /\ src'.frame_number = n + 1
      BY <1>1, <1>7, <2>1 DEF ClearClockId, SrcType
    <3>3. /\ src.buf_time = TimeOf(n + 1) /\ last =< src.buf_time
          /\ src.buf_dur = SECOND \div Rate
      BY <2>1 DEF Numbered
    <3>4. TimeOf(n + 1) + (SECOND \div Rate) =< TimeOf((n + 1) + 1)
      BY <1>1, PeriodFits
    <3>5. src'.buf_time + src'.buf_dur =< TimeOf(src'.frame_number + 1)
      BY <3>2, <3>3, <3>4
    <3>6. TimeOf(src'.frame_number) =< src'.buf_time /\ last' =< src'.buf_time
      BY <1>2, <3>1, <3>2, <3>3
    <3> QED
      BY <3>1, <3>5, <3>6 DEF Numbered
  <2>2. CASE task # "waited"
    BY <1>7, <2>2 DEF ClearClockId, Numbered
  <2> QED
    BY <2>1, <2>2
<1>8. CASE StreamOn \/ Requeue \/ RequeueRefused \/ Dequeue \/ CaptureFails
  <2>1. /\ task \in {"capture", "dequeue"} /\ task' \in {"dequeue", "copy", "blank"}
        /\ last' = last
    BY <1>8 DEF StreamOn, Requeue, RequeueRefused, Dequeue, CaptureFails
  <2>2. UNCHANGED <<src.buf_time, src.buf_dur, src.frame_number>>
    BY <1>1, <1>8 DEF StreamOn, Requeue, RequeueRefused, Dequeue, CaptureFails, SrcType
  <2> QED
    BY <2>1, <2>2 DEF Numbered
<1>12. CASE CreateUnnumbered
  BY <1>12 DEF CreateUnnumbered
<1>9. CASE HandOn
  <2>1. /\ task \in {"copy", "blank"} /\ task' = "ready" /\ now > src.buf_time
        /\ last' = src.buf_time + src.buf_dur /\ src' = src /\ now' = now
    BY <1>9 DEF HandOn
  <2>2. TimeOf(n) =< src.buf_time /\ src.buf_time + src.buf_dur =< TimeOf(n + 1)
    BY <2>1 DEF Numbered
  <2>3. TimeOf(n) < now
    BY <1>1, <1>2, <2>1, <2>2
  <2>4. n =< FrameAt(now)
    BY <1>1, <2>3, AfterItsTime
  <2> QED
    BY <2>1, <2>2, <2>4 DEF Numbered
<1>10. CASE Tick
  <2>1. UNCHANGED <<task, src, last>> /\ now' = now + 1
    BY <1>10 DEF Tick
  <2>2. FrameAt(now) =< FrameAt(now')
    BY <1>1, <2>1, FrameMono
  <2>3. FrameAt(now') \in Nat
    BY <1>1, <2>1, TimeTypes
  <2>4. n =< FrameAt(now) => n =< FrameAt(now')
    BY <1>1, <1>2, <2>2, <2>3
  <2> QED
    BY <2>1, <2>4 DEF Numbered
<1>11. CASE Unlock \/ Stop \/ Fill \/ Unplug \/ UNCHANGED vars
  <2>1. UNCHANGED <<task, last, now, src.buf_time, src.buf_dur, src.frame_number>>
    BY <1>1, <1>11 DEF Unlock, Stop, Fill, Unplug, vars, SrcType
  <2> QED
    BY <2>1 DEF Numbered
<1> QED
  BY <1>3, <1>4, <1>5, <1>6, <1>7, <1>8, <1>9, <1>10, <1>11, <1>12 DEF Next, Create

LEMMA NextUnnumbered ==
  ASSUME TypeInv, src.rate_numerator = 0, Unnumbered, [Next]_vars
  PROVE  Unnumbered'
<1>1. src \in SrcType /\ now \in Nat /\ last \in Nat /\ src.buf_time \in Nat
  BY DEF TypeInv, TypeOK, SrcType
<1>2. CASE Start
  <2>1. task' = "ready" /\ now' = 0 /\ last' = 0
    BY <1>2 DEF Start, StartOpenFails, StartRefused, StartOk, StartBuffersFail,
                NewElement
  <2> QED
    BY <2>1 DEF Unnumbered
<1>3. CASE CreateUnnumbered
  <2>1. src'.buf_time = now /\ src'.buf_dur = NoDuration
    BY <1>1, <1>3 DEF CreateUnnumbered, SrcType
  <2> QED
    BY <1>3, <2>1 DEF CreateUnnumbered, Unnumbered
<1>4. CASE StreamOn \/ Requeue \/ RequeueRefused \/ Dequeue \/ CaptureFails
  <2>1. /\ task \in {"capture", "dequeue"} /\ task' \in {"dequeue", "copy", "blank"}
        /\ last' = last
    BY <1>4 DEF StreamOn, Requeue, RequeueRefused, Dequeue, CaptureFails
  <2>2. UNCHANGED <<src.buf_time, src.buf_dur>>
    BY <1>1, <1>4 DEF StreamOn, Requeue, RequeueRefused, Dequeue, CaptureFails, SrcType
  <2> QED
    BY <2>1, <2>2 DEF Unnumbered
<1>5. CASE HandOn
  BY <1>1, <1>5 DEF HandOn, NoDuration, Unnumbered
<1>6. CASE Tick
  BY <1>1, <1>6 DEF Tick, Unnumbered
<1>7. CASE CreateWaits \/ CreateAtOnce \/ SetClockId \/ WaitEnds \/ ClearClockId
  BY <1>7 DEF CreateWaits, CreateAtOnce, SetClockId, WaitEnds, ClearClockId, Unnumbered
<1>8. CASE Unlock \/ Stop \/ Fill \/ Unplug \/ UNCHANGED vars
  <2>1. UNCHANGED <<task, last, now, src.buf_time, src.buf_dur>>
    BY <1>1, <1>8 DEF Unlock, Stop, Fill, Unplug, vars, SrcType
  <2> QED
    BY <2>1 DEF Unnumbered
<1> QED
  BY <1>2, <1>3, <1>4, <1>5, <1>6, <1>7, <1>8 DEF Next, Create

LEMMA NextFollowInv == TypeInv /\ FollowInv /\ [Next]_vars => FollowInv'
  BY RateKept, NextNumbered, NextUnnumbered DEF FollowInv

\* For every rate, dividing the second or not, and however late create is
\* called, no frame starts before the one before it has ended; without a rate,
\* none starts before the one before it did.
THEOREM FramesNeverOverlap == Spec => FramesFollow
<1>1. Init => FollowInv
  <2>1. TimeOf(0 + 1) \in Nat /\ FrameAt(0) \in Nat
    BY TimeTypes
  <2> QED
    BY <2>1 DEF Init, SrcAtRate, FollowInv, Numbered, Unnumbered
<1>2. FollowInv => [(task \in {"copy", "blank"} /\ task' = "ready")
                      => src.buf_time >= last]_vars
  BY DEF FollowInv, Numbered, Unnumbered
<1> QED
  BY <1>1, <1>2, NextFollowInv, SourceTypeInv, PTL DEF Spec, FramesFollow

=============================================================================
