---- MODULE FrameRing_proof ----
(***************************************************************************)
(* Proofs about FrameRing, for every number of slots, queue limit, number  *)
(* of restarts and number of frames.                                       *)
(***************************************************************************)
EXTENDS FrameRing, TLAPS

Lap(g) == g * NumSlots

(* Pointer p was made by incarnation p.inc for frame p.cap, and no segment *)
(* of that incarnation has a smaller generation than p's in p's slot.      *)
(* (i, b, si, g) stand for the values of inc, base, segInc and gen.        *)
PointerAt(p, i, b, si, g) ==
  /\ p.inc \in 1..i
  /\ p.gen # 0
  /\ p.cap + NumSlots = b[p.inc] + Lap(p.gen) + p.slot + 1
  /\ \A s \in Incs : si[s] = p.inc => p.gen <= g[s][p.slot]

PointerOK(p) == PointerAt(p, inc, base, segInc, gen)

(* A frame that a slot of segment s holds is the one its generation counts *)
(* or the next one written there.                                          *)
HoldsAt(b, si, g, s, k, frame) ==
  \/ frame + NumSlots = b[si[s]] + Lap(g[s][k]) + k + 1
  \/ frame = b[si[s]] + Lap(g[s][k]) + k + 1

Holds(s, k, frame) == HoldsAt(base, segInc, gen, s, k, frame)

SegmentInv ==
  /\ \A s \in Incs : segInc[s] <= inc
  /\ \A s, t \in Incs : segInc[s] = segInc[t] /\ segInc[s] # 0 => s = t
  /\ \A i \in 1..inc : base[i] <= cap
  /\ \A s \in Incs : s > inc => segInc[s] = 0
  /\ linked <= inc
  /\ wpc # "down" => own \in Incs /\ inc \in Incs /\ segInc[own] = inc

(* The laps of slots K are those due when i frames have been written.      *)
Due(i, g, K) == \A k \in K : i <= Lap(g[k]) + k /\ Lap(g[k]) + k < i + NumSlots

Publishing == {"gen", "depth", "drop", "push"}

WriterInv ==
  /\ wpc \in {"idle", "trim"} => cap = base[inc] + idx
  /\ wpc \in {"copy", "index"} => cap = base[inc] + idx + 1
  /\ wpc \in Publishing => cap = base[inc] + idx /\ wptr.cap = cap /\ wptr.inc = inc
  /\ wpc \notin {"down", "gen"} => Due(idx, gen[own], Slots)
  /\ wpc = "gen" =>
       /\ Lap(gen[own][wptr.slot]) + wptr.slot + 1 = idx
       /\ Due(idx, gen[own], Slots \ {wptr.slot})
       /\ lo[own][wptr.slot] = cap /\ hi[own][wptr.slot] = cap
  /\ wpc \in {"copy", "index"} => lo[own][WriteSlot] = cap
  /\ wpc = "index" => hi[own][WriteSlot] = cap
  /\ wpc \in {"depth", "drop", "push"} => PointerOK(wptr)

DataInv ==
  \A s \in Incs, k \in Slots :
    segInc[s] # 0 /\ gen[s][k] # 0 => Holds(s, k, lo[s][k]) /\ Holds(s, k, hi[s][k])

QueueInv == \A j \in 1..Len(queue) : PointerOK(queue[j])

Reading == {"check", "read1", "read2", "recheck"}

(* While the generation of the slot still is the pointer's, what has been  *)
(* copied out of it is a frame the slot held under that generation.        *)
Guarded ==
  /\ segInc[attached] = rptr.inc
  /\ gen[attached][rptr.slot] = rptr.gen

ReaderInv ==
  /\ rpc \notin {"depth", "pop"} => PointerOK(rptr)
  /\ rpc \in {"read2", "recheck"} /\ Guarded => buf.lo \in {rptr.cap, rptr.cap + NumSlots}
  /\ rpc = "recheck" /\ Guarded => buf.hi \in {rptr.cap, rptr.cap + NumSlots}

LapInv == SegmentInv /\ WriterInv /\ DataInv /\ QueueInv /\ ReaderInv /\ AtMostOneLap

(* Order of the frames on their way, for the refinement. *)
InFlight == {"copy", "index"} \cup Publishing

Descending(q) == \A i, j \in 1..Len(q) : i < j => q[j].cap < q[i].cap
AllBelow(q, n) == \A j \in 1..Len(q) : q[j].cap < n
AllAbove(q, n) == \A j \in 1..Len(q) : n < q[j].cap

(* Every frame that a pointer was made for is below Limit. *)
Limit == IF wpc \in InFlight THEN cap ELSE cap + 1

OrderInv ==
  /\ wpc \in Publishing => wptr.cap = cap
  /\ Descending(queue)
  /\ AllBelow(queue, Limit)
  /\ AllAbove(queue, out.ptr.cap)
  /\ out.ptr.cap < Limit
  /\ rpc \notin {"depth", "pop"} =>
       /\ out.ptr.cap < rptr.cap /\ rptr.cap < Limit
       /\ AllAbove(queue, rptr.cap)

DepthInv == QueueBounded /\ (wpc = "push" => Len(queue) < MaxDepth)

----
(* Sequences of pointers *)

LEMMA RemoveLast ==
  ASSUME NEW S, NEW s \in Seq(S), NEW n \in Nat, n <= Len(s)
  PROVE  /\ SubSeq(s, 1, n) \in Seq(S)
         /\ Len(SubSeq(s, 1, n)) = n
         /\ \A i \in 1..n : SubSeq(s, 1, n)[i] = s[i]
  OBVIOUS

LEMMA PushHead ==
  ASSUME NEW S, NEW s \in Seq(S), NEW e \in S
  PROVE  /\ <<e>> \o s \in Seq(S)
         /\ Len(<<e>> \o s) = Len(s) + 1
         /\ (<<e>> \o s)[1] = e
         /\ \A i \in 1..Len(s) : (<<e>> \o s)[i + 1] = s[i]
  OBVIOUS

(* The queue after any step of either process is the old one, a prefix of  *)
(* it, or the old one with the writer's pointer pushed on its head.        *)
LEMMA QueueStep ==
  ASSUME TypeOK, [Next]_vars
  PROVE  \/ queue' = queue
         \/ \E n \in 0..Len(queue) : queue' = SubSeq(queue, 1, n)
         \/ Push
<1>. DEFINE Prefix == \E n \in 0..Len(queue) : queue' = SubSeq(queue, 1, n)
<1>0. queue \in Seq(Pointer) /\ depth \in Nat /\ MaxDepth \in Nat \ {0} /\ Len(queue) \in Nat
  BY RingAssumption DEF TypeOK
<1>1. CASE DropOldest
  <2>1. CASE queue = <<>>
    BY <1>1, <2>1 DEF DropOldest
  <2>2. CASE queue # <<>>
    <3>1. Len(queue) - 1 \in 0..Len(queue)
      BY <1>0, <2>2
    <3>2. queue' = SubSeq(queue, 1, Len(queue) - 1)
      BY <1>1, <2>2 DEF DropOldest, AllButLast
    <3>. QED  BY <3>1, <3>2
  <2>. QED  BY <2>1, <2>2
<1>2. CASE Trim
  <2>1. CASE Len(queue) > MaxDepth
    <3>1. MaxDepth \in 0..Len(queue)
      BY <1>0, <2>1
    <3>. QED  BY <1>2, <2>1, <3>1 DEF Trim
  <2>2. CASE ~(Len(queue) > MaxDepth)
    BY <1>2, <2>2 DEF Trim
  <2>. QED  BY <2>1, <2>2
<1>3. CASE PopOldest
  <2>. DEFINE kept == Len(queue) - (IF Excess < Len(queue) THEN Excess ELSE Len(queue))
  <2>1. Excess \in Nat
    BY <1>0 DEF Excess
  <2>2. kept \in 0..Len(queue)
    BY <1>0, <2>1
  <2>3. CASE kept = 0
    <3>1. queue' = <<>>
      BY <1>3, <2>3 DEF PopOldest
    <3>2. SubSeq(queue, 1, 0) = <<>>
      BY <1>0
    <3>3. 0 \in 0..Len(queue)
      BY <1>0
    <3>. QED  BY <3>1, <3>2, <3>3
  <2>4. CASE kept # 0
    <3>1. queue' = SubSeq(queue, 1, kept - 1)
      BY <1>3, <2>4 DEF PopOldest
    <3>2. kept - 1 \in 0..Len(queue)
      BY <1>0, <2>2, <2>4
    <3>. HIDE DEF kept
    <3>. QED  BY <3>1, <3>2
  <2>. QED  BY <2>3, <2>4
<1>. QED
  BY <1>1, <1>2, <1>3 DEF Next, Writer, Reader, vars, StartWriter, CopyFirstHalf,
     CopySecondHalf, BumpIndex, BumpGeneration, CheckDepth, CloseWriter, KillWriter,
     ReadDepth, SkipFrame, TakeFrame, Attach, NoSegment, CheckGeneration, ReadFirstHalf,
     ReadSecondHalf, RecheckGeneration, RestartReader, reader

----
(* Type correctness *)

LEMMA ModSlot == \A i \in Nat : i % NumSlots \in Slots
  BY RingAssumption DEF Slots

(* Whoever touches a segment has one. *)
WriterType ==
  /\ wpc \in {"down", "idle", "copy", "index", "gen", "depth", "drop", "push", "trim"}
  /\ inc \in 0..MaxInc /\ linked \in 0..MaxInc /\ own \in 0..MaxInc
  /\ segInc \in [Incs -> 0..MaxInc]
  /\ base \in [Incs -> Nat]
  /\ idx \in Nat /\ cap \in Nat
  /\ wptr \in Pointer
  /\ wpc # "down" => own \in Incs

MemoryType ==
  /\ gen \in [Incs -> [Slots -> Nat]]
  /\ lo \in [Incs -> [Slots -> Nat]]
  /\ hi \in [Incs -> [Slots -> Nat]]

QueueType == queue \in Seq(Pointer)

ReaderType ==
  /\ rpc \in {"depth", "pop", "age", "attach"} \cup Reading
  /\ attached \in 0..MaxInc /\ depth \in Nat
  /\ rptr \in Pointer
  /\ buf \in [lo : Nat, hi : Nat]
  /\ out \in [ptr : Pointer, segInc : 0..MaxInc, lo : Nat, hi : Nat]
  /\ rpc \in Reading => attached \in Incs

TypeInv == WriterType /\ MemoryType /\ QueueType /\ ReaderType

LEMMA TypeParts == TypeInv => TypeOK
  BY DEF TypeInv, TypeOK, WriterType, MemoryType, QueueType, ReaderType, Reading

LEMMA WriterUnchanged == WriterType /\ UNCHANGED writer => WriterType'
  BY DEF WriterType, writer

LEMMA MemoryUnchanged == MemoryType /\ UNCHANGED memory => MemoryType'
  BY DEF MemoryType, memory

LEMMA ReaderUnchanged == ReaderType /\ UNCHANGED reader => ReaderType'
  BY DEF ReaderType, reader

(* One cell of a per-segment, per-slot table changes. *)
LEMMA CellUpdate ==
  ASSUME NEW f \in [Incs -> [Slots -> Nat]], NEW s \in Incs, NEW k \in Slots, NEW v \in Nat
  PROVE  /\ [f EXCEPT ![s][k] = v] \in [Incs -> [Slots -> Nat]]
         /\ [f EXCEPT ![s][k] = v][s][k] = v
         /\ \A t \in Incs, j \in Slots :
              t # s \/ j # k => [f EXCEPT ![s][k] = v][t][j] = f[t][j]
  OBVIOUS

LEMMA TypeInit == Init => TypeInv
<1>1. 0 \in Slots /\ 0 \in 0..MaxInc
  BY RingAssumption DEF Slots
<1>. QED
  BY <1>1 DEF Init, TypeInv, WriterType, MemoryType, QueueType, ReaderType, NoPointer,
     NoOutput, Pointer, Reading

LEMMA TypeStep == TypeInv /\ [Next]_vars => TypeInv'
<1>. SUFFICES ASSUME WriterType, MemoryType, QueueType, ReaderType, [Next]_vars
              PROVE  TypeInv'
  BY DEF TypeInv
<1>0. QueueType'
  <2>0. queue \in Seq(Pointer)  BY DEF QueueType
  <2>1. CASE queue' = queue  BY <2>0, <2>1 DEF QueueType
  <2>2. ASSUME NEW n \in 0..Len(queue), queue' = SubSeq(queue, 1, n)
        PROVE  queue' \in Seq(Pointer)
    BY <2>0, <2>2, RemoveLast
  <2>3. CASE Push
    <3>1. wptr \in Pointer  BY DEF WriterType
    <3>. QED  BY <2>0, <2>3, <3>1, PushHead DEF Push, QueueType
  <2>4. TypeOK  BY TypeParts DEF TypeInv
  <2>. QED  BY <2>1, <2>2, <2>3, <2>4, QueueStep DEF QueueType
<1>a. WriteSlot \in Slots
  BY ModSlot DEF WriteSlot, WriterType
<1>. USE DEF TypeInv
<1>1. CASE StartWriter
  <2>1. inc' \in Incs /\ own' \in Incs
    BY <1>1, RingAssumption DEF StartWriter, WriterType, Incs
  <2>2. MemoryType'
    BY <1>1, <2>1 DEF StartWriter, MemoryType
  <2>3. WriterType'
    <3>1. segInc' \in [Incs -> 0..MaxInc] /\ base' \in [Incs -> Nat]
      BY <1>1, <2>1 DEF StartWriter, WriterType, Incs
    <3>. QED  BY <1>1, <2>1, <3>1 DEF StartWriter, WriterType, Incs
  <2>. QED  BY <1>0, <1>1, <2>2, <2>3, ReaderUnchanged DEF StartWriter
<1>2. CASE CopyFirstHalf
  <2>1. own \in Incs /\ cap + 1 \in Nat
    BY <1>2 DEF CopyFirstHalf, WriterType
  <2>2. MemoryType'
    BY <1>2, <1>a, <2>1, CellUpdate DEF CopyFirstHalf, MemoryType
  <2>3. WriterType'
    BY <1>2, <2>1 DEF CopyFirstHalf, WriterType
  <2>. QED  BY <1>0, <1>2, <2>2, <2>3, ReaderUnchanged DEF CopyFirstHalf
<1>3. CASE CopySecondHalf
  <2>1. own \in Incs /\ cap \in Nat
    BY <1>3 DEF CopySecondHalf, WriterType
  <2>2. MemoryType'
    BY <1>3, <1>a, <2>1, CellUpdate DEF CopySecondHalf, MemoryType
  <2>3. WriterType'
    BY <1>3, <2>1 DEF CopySecondHalf, WriterType
  <2>. QED  BY <1>0, <1>3, <2>2, <2>3, ReaderUnchanged DEF CopySecondHalf
<1>4. CASE BumpIndex
  <2>1. wptr' \in Pointer
    BY <1>4, <1>a DEF BumpIndex, WriterType, Pointer
  <2>2. WriterType'
    BY <1>4, <2>1 DEF BumpIndex, WriterType
  <2>. QED  BY <1>0, <1>4, <2>2, MemoryUnchanged, ReaderUnchanged DEF BumpIndex
<1>5. CASE BumpGeneration
  <2>1. own \in Incs /\ wptr.slot \in Slots
    BY <1>5 DEF BumpGeneration, WriterType, Pointer
  <2>2. gen[own][wptr.slot] + 1 \in Nat
    BY <2>1 DEF MemoryType
  <2>3. MemoryType'
    BY <1>5, <2>1, <2>2, CellUpdate DEF BumpGeneration, MemoryType
  <2>4. wptr' \in Pointer
    BY <1>5, <2>2 DEF BumpGeneration, WriterType, Pointer
  <2>5. WriterType'
    BY <1>5, <2>1, <2>4 DEF BumpGeneration, WriterType
  <2>. QED  BY <1>0, <1>5, <2>3, <2>5, ReaderUnchanged DEF BumpGeneration
<1>6. CASE CheckDepth \/ DropOldest \/ Push \/ Trim \/ CloseWriter \/ KillWriter
  <2>1. WriterType'
    <3>1. CASE CheckDepth  BY <3>1 DEF CheckDepth, WriterType
    <3>2. CASE DropOldest  BY <3>2 DEF DropOldest, WriterType
    <3>3. CASE Push  BY <3>3 DEF Push, WriterType
    <3>4. CASE Trim  BY <3>4 DEF Trim, WriterType
    <3>5. CASE CloseWriter  BY <3>5, RingAssumption DEF CloseWriter, WriterType
    <3>6. CASE KillWriter  BY <3>6, RingAssumption DEF KillWriter, WriterType
    <3>. QED  BY <1>6, <3>1, <3>2, <3>3, <3>4, <3>5, <3>6
  <2>. QED
    BY <1>0, <1>6, <2>1, MemoryUnchanged, ReaderUnchanged
       DEF CheckDepth, DropOldest, Push, Trim, CloseWriter, KillWriter
<1>7. CASE PopOldest
  <2>. DEFINE kept == Len(queue) - (IF Excess < Len(queue) THEN Excess ELSE Len(queue))
  <2>1. kept \in 0..Len(queue)
    BY RingAssumption DEF Excess, ReaderType, QueueType
  <2>2. kept # 0 => queue[kept] \in Pointer
    BY <2>1 DEF QueueType
  <2>3. rptr' \in Pointer /\ rpc' \in {"depth", "age"}
    <3>. HIDE DEF kept
    <3>. QED  BY <1>7, <2>2 DEF PopOldest, ReaderType, kept
  <2>4. ReaderType'
    BY <1>7, <2>3 DEF PopOldest, ReaderType, Reading
  <2>. QED  BY <1>0, <1>7, <2>4, WriterUnchanged, MemoryUnchanged DEF PopOldest
<1>8. CASE ReadDepth \/ SkipFrame \/ TakeFrame \/ Attach \/ NoSegment \/ CheckGeneration \/ RestartReader
  <2>1. ReaderType'
    <3>1. CASE ReadDepth  BY <3>1 DEF ReadDepth, ReaderType, QueueType, Reading
    <3>2. CASE SkipFrame \/ TakeFrame \/ NoSegment
      BY <3>2 DEF SkipFrame, TakeFrame, NoSegment, ReaderType, Reading
    <3>3. CASE Attach  BY <3>3 DEF Attach, ReaderType, WriterType, Reading, Incs
    <3>4. CASE CheckGeneration  BY <3>4 DEF CheckGeneration, ReaderType, Reading
    <3>5. CASE RestartReader  BY <3>5, RingAssumption DEF RestartReader, ReaderType, Reading
    <3>. QED  BY <1>8, <3>1, <3>2, <3>3, <3>4, <3>5
  <2>2. WriterType'
    <3>1. CASE RestartReader
      BY <3>1, RingAssumption DEF RestartReader, WriterType
    <3>2. CASE ~RestartReader
      BY <1>8, <3>2, WriterUnchanged DEF ReadDepth, SkipFrame, TakeFrame, Attach, NoSegment,
         CheckGeneration
    <3>. QED  BY <3>1, <3>2
  <2>. QED
    BY <1>0, <1>8, <2>1, <2>2, MemoryUnchanged DEF ReadDepth, SkipFrame,
       TakeFrame, Attach, NoSegment, CheckGeneration, RestartReader
<1>9. CASE ReadFirstHalf \/ ReadSecondHalf
  <2>1. rptr.slot \in Slots /\ attached \in Incs
    BY <1>9 DEF ReadFirstHalf, ReadSecondHalf, ReaderType, Pointer, Reading
  <2>2. lo[attached][rptr.slot] \in Nat /\ hi[attached][rptr.slot] \in Nat
    BY <2>1 DEF MemoryType
  <2>3. ReaderType'
    BY <1>9, <2>1, <2>2 DEF ReadFirstHalf, ReadSecondHalf, ReaderType, Reading
  <2>. QED
    BY <1>0, <1>9, <2>3, WriterUnchanged, MemoryUnchanged DEF ReadFirstHalf, ReadSecondHalf
<1>10. CASE RecheckGeneration
  <2>1. attached \in Incs
    BY <1>10 DEF RecheckGeneration, ReaderType, Reading
  <2>2. segInc[attached] \in 0..MaxInc
    BY <2>1 DEF WriterType
  <2>3. ReaderType'
    BY <1>10, <2>2 DEF RecheckGeneration, ReaderType, Reading
  <2>. QED
    BY <1>0, <1>10, <2>3, WriterUnchanged, MemoryUnchanged DEF RecheckGeneration
<1>11. CASE UNCHANGED vars
  BY <1>0, <1>11, WriterUnchanged, MemoryUnchanged, ReaderUnchanged DEF vars
<1>. QED
  BY <1>1, <1>2, <1>3, <1>4, <1>5, <1>6, <1>7, <1>8, <1>9, <1>10, <1>11
     DEF Next, Writer, Reader

LEMMA TypeInvariant == Spec => []TypeInv
  BY TypeInit, TypeStep, PTL DEF Spec

(* FrameRing's variables keep to their domains: TypeOK is an invariant. *)
THEOREM TypeCorrect == Spec => []TypeOK
  BY TypeInvariant, TypeParts, PTL

----
(* The queue bound *)

LEMMA DepthStep == TypeInv /\ DepthInv /\ [Next]_vars => DepthInv'
<1>. SUFFICES ASSUME TypeInv, DepthInv, [Next]_vars PROVE DepthInv'
  OBVIOUS
<1>0. queue \in Seq(Pointer) /\ Len(queue) \in Nat /\ MaxDepth \in Nat \ {0}
  BY RingAssumption DEF TypeInv, QueueType
<1>a. wptr \in Pointer /\ depth \in Nat
  BY DEF TypeInv, WriterType, ReaderType
<1>. USE DEF DepthInv, QueueBounded
<1>1. CASE CheckDepth
  BY <1>0, <1>1 DEF CheckDepth, reader
<1>2. CASE DropOldest
  <2>1. CASE queue = <<>>
    BY <1>0, <1>2, <2>1 DEF DropOldest, reader
  <2>2. CASE queue # <<>>
    <3>1. queue' = SubSeq(queue, 1, Len(queue) - 1)
      BY <1>0, <1>2, <2>2 DEF DropOldest, AllButLast
    <3>a. Len(queue) - 1 \in Nat /\ Len(queue) - 1 <= Len(queue)
      BY <1>0, <2>2
    <3>2. Len(queue') = Len(queue) - 1
      <4>. HIDE DEF DepthInv, QueueBounded
      <4>. QED  BY <1>0, <3>1, <3>a, RemoveLast
    <3>. QED  BY <1>0, <1>2, <3>2 DEF DropOldest, reader
  <2>. QED  BY <2>1, <2>2
<1>3. CASE Push
  <2>1. Len(queue') = Len(queue) + 1
    BY <1>0, <1>a, <1>3, PushHead DEF Push
  <2>. QED  BY <1>0, <1>3, <2>1 DEF Push, reader
<1>4. CASE ReadDepth
  BY <1>0, <1>4 DEF ReadDepth, writer
<1>5. CASE ~(CheckDepth \/ DropOldest \/ Push \/ ReadDepth)
  <2>1. Len(queue') <= Len(queue)
    <3>1. TypeOK  BY TypeParts
    <3>2. ASSUME NEW n \in 0..Len(queue), queue' = SubSeq(queue, 1, n)
          PROVE  Len(queue') <= Len(queue)
      BY <1>0, <3>2, RemoveLast
    <3>. QED  BY <1>0, <1>5, <3>1, <3>2, QueueStep
  <2>2. wpc' = "push" => wpc = "push"
    BY <1>5 DEF Next, Writer, Reader, vars, writer, StartWriter, CopyFirstHalf, CopySecondHalf,
       BumpIndex, BumpGeneration, Trim, CloseWriter, KillWriter, PopOldest, SkipFrame,
       TakeFrame, Attach, NoSegment, CheckGeneration, ReadFirstHalf, ReadSecondHalf,
       RecheckGeneration, RestartReader
  <2>3. depth' = depth
    BY <1>5 DEF Next, Writer, Reader, vars, reader, StartWriter, CopyFirstHalf, CopySecondHalf,
       BumpIndex, BumpGeneration, Trim, CloseWriter, KillWriter, PopOldest, SkipFrame,
       TakeFrame, Attach, NoSegment, CheckGeneration, ReadFirstHalf, ReadSecondHalf,
       RecheckGeneration, RestartReader
  <2>4. Len(queue') \in Nat
    BY TypeStep DEF TypeInv, QueueType
  <2>. QED  BY <1>0, <1>a, <2>1, <2>2, <2>3, <2>4
<1>. QED  BY <1>1, <1>2, <1>3, <1>4, <1>5

(* Between LLEN and LPUSH only inference touches the list, and it only     *)
(* shortens it: the list never exceeds max_queue_depth_per_camera, and the *)
(* drain of excess frames in run_worker is never taken.                    *)
THEOREM QueueStaysBounded == Spec => []QueueBounded
<1>1. Init => DepthInv
  BY RingAssumption DEF Init, DepthInv, QueueBounded
<1>2. DepthInv => QueueBounded
  BY DEF DepthInv
<1>. QED
  BY <1>1, <1>2, DepthStep, TypeInvariant, PTL DEF Spec

----
(* Frames are handed over in capture order: FrameRing implements FrameFeed *)

LEMMA PrefixOrder ==
  ASSUME NEW q \in Seq(Pointer), NEW n \in 0..Len(q)
  PROVE  LET p == SubSeq(q, 1, n) IN
         /\ Descending(q) => Descending(p)
         /\ \A m \in Nat : AllBelow(q, m) => AllBelow(p, m)
         /\ \A m \in Nat : AllAbove(q, m) => AllAbove(p, m)
<1>. DEFINE p == SubSeq(q, 1, n)
<1>1. Len(p) = n /\ \A i \in 1..n : p[i] = q[i] /\ i \in 1..Len(q)
  BY RemoveLast
<1>. HIDE DEF p
<1>. QED  BY <1>1 DEF Descending, AllBelow, AllAbove, p

LEMMA PushOrder ==
  ASSUME NEW q \in Seq(Pointer), NEW e \in Pointer, AllBelow(q, e.cap), Descending(q)
  PROVE  LET p == <<e>> \o q IN
         /\ Descending(p)
         /\ AllBelow(p, e.cap + 1)
         /\ \A m \in Nat : m < e.cap /\ AllAbove(q, m) => AllAbove(p, m)
<1>. DEFINE p == <<e>> \o q
<1>1. Len(p) = Len(q) + 1 /\ Len(q) \in Nat
  BY PushHead
<1>2. p[1] = e /\ \A i \in 1..Len(q) : p[i + 1] = q[i]
  BY PushHead
<1>a. \A x \in Pointer : x.cap \in Nat
  BY DEF Pointer
<1>b. \A i \in 1..Len(q) : q[i] \in Pointer
  OBVIOUS
<1>3. e.cap \in Nat /\ \A i \in 1..Len(q) : q[i].cap \in Nat
  BY <1>a, <1>b
<1>. HIDE DEF p
<1>4. \A i \in 1..Len(p) :
        \/ i = 1 /\ p[i] = e
        \/ i - 1 \in 1..Len(q) /\ p[i] = q[i - 1]
  <2>. TAKE i \in 1..Len(p)
  <2>1. CASE i = 1  BY <1>2, <2>1
  <2>2. CASE i # 1
    <3>1. i - 1 \in 1..Len(q) /\ (i - 1) + 1 = i  BY <1>1, <2>2
    <3>. QED  BY <1>2, <3>1
  <2>. QED  BY <2>1, <2>2
<1>5. Descending(p)
  <2>. SUFFICES ASSUME NEW i \in 1..Len(p), NEW j \in 1..Len(p), i < j
                PROVE  p[j].cap < p[i].cap
    BY DEF Descending
  <2>1. j - 1 \in 1..Len(q) /\ p[j] = q[j - 1]
    BY <1>1, <1>4
  <2>2. CASE i = 1
    BY <1>2, <2>1, <2>2 DEF AllBelow
  <2>3. CASE i # 1
    <3>1. i - 1 \in 1..Len(q) /\ p[i] = q[i - 1] /\ i - 1 < j - 1
      BY <1>1, <1>4, <2>3
    <3>. QED  BY <2>1, <3>1 DEF Descending
  <2>. QED  BY <2>2, <2>3
<1>6. AllBelow(p, e.cap + 1)
  <2>. SUFFICES ASSUME NEW i \in 1..Len(p) PROVE p[i].cap < e.cap + 1
    BY DEF AllBelow
  <2>1. CASE i = 1  BY <1>2, <1>3, <2>1
  <2>2. CASE i # 1
    <3>1. i - 1 \in 1..Len(q) /\ p[i] = q[i - 1]  BY <1>4, <2>2
    <3>2. q[i - 1].cap < e.cap  BY <3>1 DEF AllBelow
    <3>. QED  BY <1>3, <3>1, <3>2
  <2>. QED  BY <2>1, <2>2
<1>7. ASSUME NEW m \in Nat, m < e.cap, AllAbove(q, m) PROVE AllAbove(p, m)
  BY <1>4, <1>7 DEF AllAbove
<1>. QED  BY <1>5, <1>6, <1>7 DEF p

(* What a step changes, as far as the order of frames goes. *)
LEMMA OrderStep == TypeInv /\ OrderInv /\ [Next]_vars => OrderInv'
<1>. SUFFICES ASSUME TypeInv, OrderInv, [Next]_vars PROVE OrderInv'
  OBVIOUS
<1>0. /\ queue \in Seq(Pointer) /\ wptr \in Pointer /\ rptr \in Pointer
      /\ cap \in Nat /\ wptr.cap \in Nat /\ rptr.cap \in Nat /\ out.ptr.cap \in Nat
      /\ Limit \in Nat
  BY DEF TypeInv, QueueType, WriterType, ReaderType, Pointer, Limit
<1>t. TypeOK  BY TypeParts
<1>1. CASE Push
  <2>1. Limit = cap /\ Limit' = cap + 1 /\ wptr.cap = cap
    BY <1>1 DEF Push, OrderInv, Publishing, InFlight, Limit
  <2>2. UNCHANGED <<rpc, rptr, out>> /\ queue' = <<wptr>> \o queue /\ wpc' \notin Publishing
    BY <1>1 DEF Push, reader, Publishing
  <2>3. Descending(queue') /\ AllBelow(queue', cap + 1)
    BY <1>0, <2>1, <2>2, PushOrder DEF OrderInv
  <2>4. AllAbove(queue', out.ptr.cap)
    BY <1>0, <2>1, <2>2, PushOrder DEF OrderInv
  <2>5. rpc \notin {"depth", "pop"} => AllAbove(queue', rptr.cap)
    BY <1>0, <2>1, <2>2, PushOrder DEF OrderInv
  <2>6. out.ptr.cap < cap + 1 /\ (rpc \notin {"depth", "pop"} => rptr.cap < cap + 1)
    BY <1>0, <2>1 DEF OrderInv
  <2>. QED
    BY <2>1, <2>2, <2>3, <2>4, <2>5, <2>6 DEF OrderInv
<1>2. CASE PopOldest
  <2>. DEFINE kept == Len(queue) - (IF Excess < Len(queue) THEN Excess ELSE Len(queue))
  <2>1. kept \in 0..Len(queue) /\ Len(queue) \in Nat
    BY RingAssumption DEF Excess, TypeInv, ReaderType, QueueType
  <2>2. UNCHANGED <<wpc, cap, wptr, out>> /\ Limit' = Limit
    BY <1>2 DEF PopOldest, writer, Limit
  <2>. HIDE DEF kept
  <2>3. CASE kept = 0
    <3>1. queue' = <<>> /\ rpc' = "depth"
      BY <1>2, <2>3 DEF PopOldest, kept
    <3>2. Len(queue') = 0
      BY <3>1
    <3>. QED
      BY <1>0, <2>2, <3>1, <3>2 DEF OrderInv, Descending, AllBelow, AllAbove
  <2>4. CASE kept # 0
    <3>1. queue' = SubSeq(queue, 1, kept - 1) /\ rptr' = queue[kept]
      BY <1>2, <2>4 DEF PopOldest, kept
    <3>2. kept - 1 \in 0..Len(queue) /\ kept \in 1..Len(queue)
      BY <2>1, <2>4
    <3>3. Descending(queue') /\ AllBelow(queue', Limit) /\ AllAbove(queue', out.ptr.cap)
      BY <1>0, <3>1, <3>2, PrefixOrder DEF OrderInv
    <3>4. rptr'.cap < Limit /\ out.ptr.cap < rptr'.cap
      BY <3>1, <3>2 DEF OrderInv, AllBelow, AllAbove
    <3>5. AllAbove(queue', rptr'.cap)
      <4>1. Len(queue') = kept - 1 /\ \A j \in 1..kept - 1 : queue'[j] = queue[j] /\ j \in 1..Len(queue)
        BY <1>0, <3>1, <3>2, RemoveLast
      <4>2. \A j \in 1..kept - 1 : queue[kept].cap < queue[j].cap
        BY <3>2, <4>1 DEF OrderInv, Descending
      <4>. QED  BY <3>1, <4>1, <4>2 DEF AllAbove
    <3>. QED  BY <2>2, <3>3, <3>4, <3>5 DEF OrderInv
  <2>. QED  BY <2>3, <2>4
<1>3. CASE ~Push /\ ~PopOldest
  <2>1. Limit <= Limit' /\ Limit' \in Nat /\ (wpc' \in Publishing => wptr'.cap = cap')
    <3>1. CASE StartWriter \/ CheckDepth \/ DropOldest \/ Trim \/ CloseWriter \/ KillWriter
      BY <1>0, <3>1 DEF StartWriter, CheckDepth, DropOldest, Trim, CloseWriter, KillWriter, Limit,
         InFlight, Publishing, OrderInv
    <3>2. CASE CopyFirstHalf \/ CopySecondHalf
      BY <1>0, <3>2 DEF CopyFirstHalf, CopySecondHalf, Limit, InFlight, Publishing
    <3>3. CASE BumpIndex
      BY <1>0, <3>3 DEF BumpIndex, Limit, InFlight, Publishing
    <3>4. CASE BumpGeneration
      <4>1. wptr'.cap = wptr.cap
        BY <1>0, <3>4 DEF BumpGeneration, Pointer
      <4>. QED  BY <1>0, <3>4, <4>1 DEF BumpGeneration, Limit, InFlight, Publishing, OrderInv
    <3>5. CASE UNCHANGED <<wpc, cap, wptr>>
      BY <1>0, <3>5 DEF Limit, OrderInv
    <3>. QED
      BY <1>3, <3>1, <3>2, <3>3, <3>4, <3>5 DEF writer, Next, Writer, Reader, vars, ReadDepth, SkipFrame,
         TakeFrame, Attach, NoSegment, CheckGeneration, ReadFirstHalf, ReadSecondHalf,
         RecheckGeneration, RestartReader
  <2>2. \/ queue' = queue
        \/ \E n \in 0..Len(queue) : queue' = SubSeq(queue, 1, n)
    BY <1>3, <1>t, QueueStep
  <2>3. /\ Descending(queue')
        /\ \A m \in Nat : AllBelow(queue, m) => AllBelow(queue', m)
        /\ \A m \in Nat : AllAbove(queue, m) => AllAbove(queue', m)
    BY <1>0, <2>2, PrefixOrder DEF OrderInv
  <2>4. AllBelow(queue', Limit')
    <3>1. AllBelow(queue', Limit)  BY <1>0, <2>3 DEF OrderInv
    <3>2. \A j \in 1..Len(queue') : queue'[j].cap \in Nat
      <4>1. \A j \in 1..Len(queue') : queue'[j] \in Pointer
        BY TypeStep DEF TypeInv, QueueType
      <4>. QED  BY <4>1 DEF Pointer
    <3>. QED  BY <1>0, <2>1, <3>1, <3>2 DEF AllBelow
  <2>5. CASE RecheckGeneration
    <3>1. rpc' = "depth" /\ rpc \notin {"depth", "pop"} /\ out'.ptr.cap \in {out.ptr.cap, rptr.cap}
      BY <2>5 DEF RecheckGeneration
    <3>2. AllAbove(queue', out'.ptr.cap) /\ out'.ptr.cap < Limit
      BY <1>0, <2>3, <3>1 DEF OrderInv
    <3>3. out'.ptr.cap < Limit'
      BY <1>0, <2>1, <3>1, <3>2
    <3>. QED  BY <2>1, <2>3, <2>4, <3>1, <3>2, <3>3 DEF OrderInv
  <2>6. CASE ~RecheckGeneration
    <3>1. UNCHANGED <<rptr, out>> /\ (rpc' \notin {"depth", "pop"} => rpc \notin {"depth", "pop"})
      BY <1>3, <2>6 DEF Next, Writer, Reader, vars, reader, StartWriter, CopyFirstHalf,
         CopySecondHalf, BumpIndex, BumpGeneration, CheckDepth, DropOldest, Trim, CloseWriter,
         KillWriter, ReadDepth, SkipFrame, TakeFrame, Attach, NoSegment, CheckGeneration,
         ReadFirstHalf, ReadSecondHalf, RestartReader
    <3>2. AllAbove(queue', out.ptr.cap) /\ out.ptr.cap < Limit'
      BY <1>0, <2>1, <2>3 DEF OrderInv
    <3>3. rpc \notin {"depth", "pop"} =>
            out.ptr.cap < rptr.cap /\ rptr.cap < Limit' /\ AllAbove(queue', rptr.cap)
      BY <1>0, <2>1, <2>3 DEF OrderInv
    <3>. QED  BY <2>1, <2>3, <2>4, <3>1, <3>2, <3>3 DEF OrderInv
  <2>. QED  BY <2>5, <2>6
<1>. QED  BY <1>1, <1>2, <1>3

LEMMA OrderInit == Init => OrderInv
<1>. SUFFICES ASSUME Init PROVE OrderInv
  OBVIOUS
<1>1. Len(queue) = 0  BY DEF Init
<1>. QED
  BY <1>1 DEF Init, OrderInv, Descending, AllBelow, AllAbove, Limit, Publishing, InFlight,
     NoOutput, NoPointer

----
(* Laps of the ring: NumSlots writes bring the writer back to a slot *)

LEMMA LapStep == \A a \in Nat : Lap(a) \in Nat /\ Lap(a + 1) = Lap(a) + NumSlots
  BY RingAssumption DEF Lap

LEMMA LapGap == \A a, b \in Nat : a < b => Lap(a) + NumSlots <= Lap(b)
<1>. TAKE a, b \in Nat
<1>. HAVE a < b
<1>. DEFINE d == b - a - 1
<1>1. d \in Nat /\ b = a + 1 + d  OBVIOUS
<1>. HIDE DEF d
<1>2. NumSlots \in Nat  BY RingAssumption
<1>3. (a + 1 + d) * NumSlots = a * NumSlots + NumSlots + d * NumSlots
  BY <1>1, <1>2
<1>4. d * NumSlots \in Nat /\ a * NumSlots \in Nat /\ b * NumSlots = (a + 1 + d) * NumSlots
  BY <1>1, <1>2
<1>. QED  BY <1>2, <1>3, <1>4 DEF Lap

LEMMA LapSlotUnique ==
  ASSUME NEW a \in Nat, NEW b \in Nat, NEW k \in Slots, NEW m \in Slots,
         Lap(a) + k = Lap(b) + m
  PROVE  a = b /\ k = m
<1>1. k \in Nat /\ m \in Nat /\ k < NumSlots /\ m < NumSlots /\ NumSlots \in Nat
  BY RingAssumption DEF Slots
<1>2. Lap(a) \in Nat /\ Lap(b) \in Nat
  BY LapStep
<1>3. CASE a < b  BY <1>1, <1>2, <1>3, LapGap
<1>4. CASE b < a  BY <1>1, <1>2, <1>4, LapGap
<1>5. CASE a = b  BY <1>1, <1>2, <1>5
<1>. QED  BY <1>3, <1>4, <1>5

LEMMA LapDivide ==
  ASSUME NEW i \in Nat
  PROVE  \E w \in Slots, q \in Nat : w = i % NumSlots /\ i = Lap(q) + w
<1>1. NumSlots \in Nat /\ NumSlots > 0  BY RingAssumption
<1>2. \E q \in Nat : i = q * NumSlots + (i % NumSlots)
  BY <1>1, SMT
<1>3. i % NumSlots \in Slots  BY ModSlot
<1>. QED  BY <1>2, <1>3 DEF Lap

(* The slot the writer takes next is the one whose next lap is due. *)
LEMMA DueSlot ==
  ASSUME NEW g \in [Slots -> Nat], NEW i \in Nat, Due(i, g, Slots)
  PROVE  /\ i % NumSlots \in Slots
         /\ Lap(g[i % NumSlots]) + (i % NumSlots) = i
         /\ Due(i + 1, g, Slots \ {i % NumSlots})
<1>1. PICK w \in Slots, q \in Nat : w = i % NumSlots /\ i = Lap(q) + w
  BY LapDivide
<1>2. i = Lap(q) + w  BY <1>1
<1>3. w \in Nat /\ NumSlots \in Nat /\ g[w] \in Nat
  BY RingAssumption DEF Slots
<1>a. Lap(q) \in Nat /\ Lap(g[w]) \in Nat
  BY <1>3, LapStep
<1>4. g[w] = q
  <2>1. Lap(q) + w <= Lap(g[w]) + w /\ Lap(g[w]) + w < Lap(q) + w + NumSlots
    BY <1>2 DEF Due
  <2>2. Lap(q) <= Lap(g[w]) /\ Lap(g[w]) < Lap(q) + NumSlots
    BY <1>3, <1>a, <2>1
  <2>3. CASE g[w] < q
    <3>1. Lap(g[w]) + NumSlots <= Lap(q)  BY <1>3, <2>3, LapGap
    <3>2. NumSlots > 0  BY RingAssumption
    <3>. QED  BY <1>3, <1>a, <2>2, <3>1, <3>2
  <2>4. CASE q < g[w]
    <3>1. Lap(q) + NumSlots <= Lap(g[w])  BY <1>3, <2>4, LapGap
    <3>. QED  BY <1>3, <1>a, <2>2, <3>1
  <2>. QED  BY <1>3, <2>3, <2>4
<1>5. ASSUME NEW k \in Slots, k # w
      PROVE  i + 1 <= Lap(g[k]) + k /\ Lap(g[k]) + k < i + 1 + NumSlots
  <2>1. k \in Nat /\ g[k] \in Nat  BY DEF Slots
  <2>2. Lap(g[k]) \in Nat  BY <2>1, LapStep
  <2>3. Lap(g[k]) + k # Lap(q) + w
    BY <1>5, <2>1, LapSlotUnique
  <2>4. i <= Lap(g[k]) + k /\ Lap(g[k]) + k < i + NumSlots
    BY DEF Due
  <2>. QED  BY <1>2, <1>3, <2>1, <2>2, <2>3, <2>4
<1>6. Lap(g[w]) + w = i
  BY <1>2, <1>4
<1>7. Due(i + 1, g, Slots \ {w})
  BY <1>5 DEF Due
<1>8. i % NumSlots = w  BY <1>1
<1>. QED  BY <1>6, <1>7, <1>8, Zenon

----
(* Generations and segments only grow older *)

LEMMA SegmentStep == TypeInv /\ SegmentInv /\ [Next]_vars => SegmentInv'
<1>. SUFFICES ASSUME TypeInv, SegmentInv, [Next]_vars PROVE SegmentInv'
  OBVIOUS
<1>0. /\ inc \in 0..MaxInc /\ linked \in 0..MaxInc /\ own \in 0..MaxInc /\ cap \in Nat
      /\ segInc \in [Incs -> 0..MaxInc] /\ base \in [Incs -> Nat] /\ MaxInc \in Nat
  BY RingAssumption DEF TypeInv, WriterType
<1>1. CASE StartWriter
  <2>1. inc' = inc + 1 /\ inc' \in Incs /\ own' \in Incs /\ own' <= inc' /\ linked' = own'
    BY <1>0, <1>1 DEF StartWriter, SegmentInv, Incs
  <2>2. segInc'[own'] = inc' /\ \A s \in Incs : s # own' => segInc'[s] = segInc[s]
    BY <1>0, <1>1, <2>1 DEF StartWriter
  <2>3. base'[inc'] = cap /\ (\A i \in Incs : i # inc' => base'[i] = base[i]) /\ cap' = cap
    BY <1>0, <1>1, <2>1 DEF StartWriter
  <2>4. \A s \in Incs : segInc[s] <= inc /\ segInc[s] \in Nat
    BY <1>0 DEF SegmentInv
  <2>5. \A s \in Incs : segInc'[s] <= inc'
    BY <1>0, <2>1, <2>2, <2>4
  <2>6. \A s, t \in Incs : segInc'[s] = segInc'[t] /\ segInc'[s] # 0 => s = t
    <3>. TAKE s, t \in Incs
    <3>. HAVE segInc'[s] = segInc'[t] /\ segInc'[s] # 0
    <3>1. CASE s # own' /\ t # own'
      BY <2>2, <3>1 DEF SegmentInv
    <3>2. CASE s = own' /\ t # own'
      BY <1>0, <2>1, <2>2, <2>4, <3>2
    <3>3. CASE s # own' /\ t = own'
      BY <1>0, <2>1, <2>2, <2>4, <3>3
    <3>. QED  BY <3>1, <3>2, <3>3
  <2>7. \A i \in 1..inc' : base'[i] <= cap'
    <3>. TAKE i \in 1..inc'
    <3>1. CASE i = inc'  BY <1>0, <2>3, <3>1
    <3>2. CASE i # inc'
      <4>1. i \in 1..inc /\ i \in Incs  BY <1>0, <2>1, <3>2 DEF Incs
      <4>. QED  BY <2>3, <3>2, <4>1 DEF SegmentInv
    <3>. QED  BY <3>1, <3>2
  <2>8. \A s \in Incs : s > inc' => segInc'[s] = 0
    <3>. TAKE s \in Incs
    <3>. HAVE s > inc'
    <3>1. s \in Nat /\ s > inc /\ s # own'  BY <1>0, <2>1 DEF Incs
    <3>. QED  BY <2>2, <3>1 DEF SegmentInv
  <2>. QED
    BY <2>1, <2>2, <2>5, <2>6, <2>7, <2>8 DEF SegmentInv
<1>2. CASE CopyFirstHalf
  <2>1. /\ UNCHANGED <<inc, linked, own, segInc, base>> /\ cap' = cap + 1
        /\ wpc = "idle"
    BY <1>2 DEF CopyFirstHalf
  <2>2. \A i \in 1..inc : base[i] <= cap + 1
    <3>. TAKE i \in 1..inc
    <3>1. i \in Incs /\ base[i] \in Nat  BY <1>0 DEF Incs
    <3>2. base[i] <= cap  BY DEF SegmentInv
    <3>. QED  BY <1>0, <3>1, <3>2
  <2>. QED  BY <2>1, <2>2 DEF SegmentInv
<1>3. CASE CloseWriter
  BY <1>0, <1>3 DEF CloseWriter, SegmentInv
<1>4. CASE ~StartWriter /\ ~CopyFirstHalf /\ ~CloseWriter
  <2>1. UNCHANGED <<inc, own, segInc, base, cap>> /\ (wpc' # "down" => wpc # "down")
    BY <1>4 DEF Next, Writer, Reader, vars, writer, CopySecondHalf, BumpIndex, BumpGeneration,
       CheckDepth, DropOldest, Push, Trim, KillWriter, ReadDepth, PopOldest, SkipFrame,
       TakeFrame, Attach, NoSegment, CheckGeneration, ReadFirstHalf, ReadSecondHalf,
       RecheckGeneration, RestartReader
  <2>2. linked' \in {linked, 0}
    BY <1>4 DEF Next, Writer, Reader, vars, writer, CopySecondHalf, BumpIndex, BumpGeneration,
       CheckDepth, DropOldest, Push, Trim, KillWriter, ReadDepth, PopOldest, SkipFrame,
       TakeFrame, Attach, NoSegment, CheckGeneration, ReadFirstHalf, ReadSecondHalf,
       RecheckGeneration, RestartReader
  <2>3. linked' <= inc'
    BY <1>0, <2>1, <2>2 DEF SegmentInv
  <2>. QED  BY <2>1, <2>3 DEF SegmentInv
<1>. QED  BY <1>1, <1>2, <1>3, <1>4

(* A segment that still belongs to an incarnation known before the step    *)
(* belonged to it before, and its generations have not gone back.          *)
Grow ==
  /\ inc <= inc'
  /\ \A i \in 1..inc : base'[i] = base[i]
  /\ \A s \in Incs : segInc'[s] \in 1..inc =>
       segInc'[s] = segInc[s] /\ \A k \in Slots : gen[s][k] <= gen'[s][k]

LEMMA Grows == TypeInv /\ SegmentInv /\ [Next]_vars => Grow
<1>. SUFFICES ASSUME TypeInv, SegmentInv, [Next]_vars PROVE Grow
  OBVIOUS
<1>0. /\ inc \in 0..MaxInc /\ linked \in 0..MaxInc /\ own \in 0..MaxInc /\ MaxInc \in Nat
      /\ segInc \in [Incs -> 0..MaxInc] /\ base \in [Incs -> Nat]
      /\ gen \in [Incs -> [Slots -> Nat]] /\ wptr \in Pointer
  BY RingAssumption DEF TypeInv, WriterType, MemoryType
<1>1. \A s \in Incs, k \in Slots : gen[s][k] \in Nat /\ gen[s][k] <= gen[s][k]
  BY <1>0
<1>2. CASE StartWriter
  <2>1. inc' = inc + 1 /\ inc' \in Incs /\ own' \in Incs
    BY <1>0, <1>2 DEF StartWriter, SegmentInv, Incs
  <2>2. segInc'[own'] = inc' /\ \A s \in Incs : s # own' => segInc'[s] = segInc[s]
    BY <1>0, <1>2, <2>1 DEF StartWriter
  <2>3. \A i \in 1..inc : base'[i] = base[i]
    <3>. TAKE i \in 1..inc
    <3>1. i \in Incs /\ i # inc'  BY <1>0, <2>1 DEF Incs
    <3>. QED  BY <1>0, <1>2, <2>1, <3>1 DEF StartWriter
  <2>4. \A s \in Incs : s # own' => gen'[s] = gen[s]
    BY <1>0, <1>2, <2>1 DEF StartWriter
  <2>5. inc' \notin 1..inc
    BY <1>0, <2>1
  <2>6. ASSUME NEW s \in Incs, segInc'[s] \in 1..inc
        PROVE  segInc'[s] = segInc[s] /\ \A k \in Slots : gen[s][k] <= gen'[s][k]
    <3>1. s # own'  BY <2>2, <2>5, <2>6
    <3>. QED  BY <1>1, <2>2, <2>4, <3>1
  <2>7. inc <= inc'  BY <1>0, <2>1
  <2>. QED  BY <2>3, <2>6, <2>7 DEF Grow
<1>3. CASE BumpGeneration
  <2>1. UNCHANGED <<inc, base, segInc>> /\ own \in Incs /\ wptr.slot \in Slots
    BY <1>0, <1>3 DEF BumpGeneration, SegmentInv, Pointer
  <2>2. \A s \in Incs, k \in Slots : gen[s][k] <= gen'[s][k]
    <3>. TAKE s \in Incs, k \in Slots
    <3>1. gen[own][wptr.slot] + 1 \in Nat  BY <1>1, <2>1
    <3>2. gen' = [gen EXCEPT ![own][wptr.slot] = gen[own][wptr.slot] + 1]
      BY <1>3 DEF BumpGeneration
    <3>3. CASE s = own /\ k = wptr.slot
      <4>1. gen'[s][k] = gen[s][k] + 1
        BY <1>0, <2>1, <3>1, <3>2, <3>3, CellUpdate
      <4>. QED  BY <1>1, <4>1
    <3>4. CASE ~(s = own /\ k = wptr.slot)
      <4>1. gen'[s][k] = gen[s][k]
        BY <1>0, <2>1, <3>1, <3>2, <3>4, CellUpdate
      <4>. QED  BY <1>1, <4>1
    <3>. QED  BY <3>3, <3>4
  <2>. QED  BY <1>0, <2>1, <2>2 DEF Grow
<1>4. CASE ~StartWriter /\ ~BumpGeneration
  <2>1. UNCHANGED <<inc, base, segInc, gen>>
    BY <1>4 DEF Next, Writer, Reader, vars, writer, memory, CopyFirstHalf, CopySecondHalf,
       BumpIndex, CheckDepth, DropOldest, Push, Trim, CloseWriter, KillWriter, ReadDepth,
       PopOldest, SkipFrame, TakeFrame, Attach, NoSegment, CheckGeneration, ReadFirstHalf,
       ReadSecondHalf, RecheckGeneration, RestartReader
  <2>. QED  BY <1>0, <1>1, <2>1 DEF Grow
<1>. QED  BY <1>2, <1>3, <1>4

LEMMA PointerKept ==
  ASSUME TypeInv, Grow, inc' \in Nat, NEW p \in Pointer, PointerAt(p, inc, base, segInc, gen),
         segInc' \in [Incs -> 0..MaxInc], gen' \in [Incs -> [Slots -> Nat]]
  PROVE  PointerAt(p, inc', base', segInc', gen')
<1>0. p.inc \in 1..inc /\ inc \in Nat /\ p.slot \in Slots /\ p.gen \in Nat
  BY DEF PointerAt, TypeInv, WriterType, Pointer
<1>1. p.inc \in 1..inc' /\ base'[p.inc] = base[p.inc]
  BY <1>0 DEF Grow
<1>2. ASSUME NEW s \in Incs, segInc'[s] = p.inc
      PROVE  p.gen <= gen'[s][p.slot]
  <2>1. segInc[s] = p.inc /\ gen[s][p.slot] <= gen'[s][p.slot]
    BY <1>0, <1>2 DEF Grow
  <2>2. p.gen <= gen[s][p.slot]
    BY <2>1 DEF PointerAt
  <2>3. gen[s][p.slot] \in Nat /\ gen'[s][p.slot] \in Nat
    BY <1>0 DEF TypeInv, MemoryType
  <2>. QED  BY <1>0, <2>1, <2>2, <2>3
<1>. QED  BY <1>1, <1>2 DEF PointerAt

----
(* The writer *)

LEMMA WriterStep == TypeInv /\ SegmentInv /\ WriterInv /\ [Next]_vars => WriterInv'
<1>. SUFFICES ASSUME TypeInv, SegmentInv, WriterInv, [Next]_vars PROVE WriterInv'
  OBVIOUS
<1>0. /\ inc \in 0..MaxInc /\ own \in 0..MaxInc /\ idx \in Nat /\ cap \in Nat
      /\ segInc \in [Incs -> 0..MaxInc] /\ base \in [Incs -> Nat]
      /\ gen \in [Incs -> [Slots -> Nat]]
      /\ lo \in [Incs -> [Slots -> Nat]] /\ hi \in [Incs -> [Slots -> Nat]]
      /\ MaxInc \in Nat /\ NumSlots \in Nat /\ NumSlots > 0
  BY RingAssumption DEF TypeInv, WriterType, MemoryType
<1>w. wptr \in Pointer /\ wptr.slot \in Slots /\ wptr.gen \in Nat
  BY DEF TypeInv, WriterType, Pointer
<1>s. wpc # "down" => own \in Incs /\ inc \in Incs /\ segInc[own] = inc /\ base[inc] \in Nat
  BY <1>0 DEF SegmentInv
<1>d. ASSUME wpc \notin {"down", "gen"}
      PROVE  /\ WriteSlot \in Slots
             /\ Lap(gen[own][WriteSlot]) + WriteSlot = idx
             /\ Due(idx + 1, gen[own], Slots \ {WriteSlot})
  <2>1. gen[own] \in [Slots -> Nat] /\ Due(idx, gen[own], Slots)
    BY <1>0, <1>s, <1>d DEF WriterInv
  <2>. QED  BY <1>0, <2>1, DueSlot DEF WriteSlot
<1>1. CASE StartWriter
  <2>0. linked \in 0..MaxInc /\ linked <= inc
    BY DEF TypeInv, WriterType, SegmentInv
  <2>1. /\ inc' = inc + 1 /\ inc' \in Incs /\ own' \in Incs
        /\ wpc' = "idle" /\ idx' = 0 /\ cap' = cap
    BY <1>0, <1>1, <2>0 DEF StartWriter, Incs
  <2>2. base'[inc'] = cap /\ \A k \in Slots : gen'[own'][k] = 0
    BY <1>0, <1>1, <2>1 DEF StartWriter
  <2>3. \A k \in Slots : k \in Nat /\ k < NumSlots
    BY <1>0 DEF Slots
  <2>4. Lap(0) = 0  BY <1>0 DEF Lap
  <2>5. Due(0, gen'[own'], Slots)
    BY <1>0, <2>2, <2>3, <2>4 DEF Due
  <2>6. cap' = base'[inc'] + idx'
    BY <1>0, <2>1, <2>2
  <2>. QED  BY <2>1, <2>5, <2>6 DEF WriterInv, Publishing
<1>2. CASE CopyFirstHalf
  <2>1. /\ wpc = "idle" /\ wpc' = "copy" /\ cap' = cap + 1
        /\ UNCHANGED <<inc, own, base, idx, gen>>
        /\ lo' = [lo EXCEPT ![own][WriteSlot] = cap + 1]
    BY <1>2 DEF CopyFirstHalf
  <2>2. WriteSlot' = WriteSlot  BY <2>1 DEF WriteSlot
  <2>3. lo'[own][WriteSlot] = cap + 1
    BY <1>0, <1>s, <1>d, <2>1
  <2>4. cap' = base'[inc'] + idx' + 1
    BY <1>0, <1>s, <2>1 DEF WriterInv
  <2>. QED  BY <2>1, <2>2, <2>3, <2>4 DEF WriterInv, Publishing
<1>3. CASE CopySecondHalf
  <2>1. /\ wpc = "copy" /\ wpc' = "index"
        /\ UNCHANGED <<inc, own, base, idx, cap, gen, lo>>
        /\ hi' = [hi EXCEPT ![own][WriteSlot] = cap]
    BY <1>3 DEF CopySecondHalf
  <2>2. WriteSlot' = WriteSlot  BY <2>1 DEF WriteSlot
  <2>3. hi'[own][WriteSlot] = cap
    BY <1>0, <1>s, <1>d, <2>1
  <2>. QED  BY <2>1, <2>2, <2>3 DEF WriterInv, Publishing
<1>4. CASE BumpIndex
  <2>1. /\ wpc = "index" /\ wpc' = "gen" /\ idx' = idx + 1
        /\ UNCHANGED <<inc, own, base, cap, gen, lo, hi>>
        /\ wptr' = [slot |-> WriteSlot, gen |-> wptr.gen, cap |-> cap, inc |-> inc]
    BY <1>4 DEF BumpIndex, memory
  <2>2. wptr'.slot = WriteSlot /\ wptr'.cap = cap /\ wptr'.inc = inc
    BY <2>1
  <2>3. cap' = base'[inc'] + idx'
    BY <1>0, <1>s, <2>1 DEF WriterInv
  <2>4. lo'[own'][wptr'.slot] = cap' /\ hi'[own'][wptr'.slot] = cap'
    BY <2>1, <2>2 DEF WriterInv
  <2>5. Lap(gen'[own'][wptr'.slot]) + wptr'.slot + 1 = idx'
    BY <1>d, <2>1, <2>2
  <2>6. Due(idx', gen'[own'], Slots \ {wptr'.slot})
    BY <1>d, <2>1, <2>2
  <2>. QED  BY <2>1, <2>2, <2>3, <2>4, <2>5, <2>6 DEF WriterInv, Publishing
<1>5. CASE BumpGeneration
  <2>. DEFINE k == wptr.slot
              g == gen[own][k]
  <2>1. /\ wpc = "gen" /\ wpc' = "depth"
        /\ UNCHANGED <<inc, own, segInc, base, idx, cap, lo, hi>>
        /\ gen' = [gen EXCEPT ![own][k] = g + 1]
        /\ wptr' = [wptr EXCEPT !.gen = g + 1]
    BY <1>5 DEF BumpGeneration
  <2>2. own \in Incs /\ inc \in Incs /\ segInc[own] = inc /\ base[inc] \in Nat
    BY <1>s, <2>1
  <2>i. k \in Slots /\ k \in Nat
    BY <1>w DEF Slots
  <2>n. g \in Nat /\ g + 1 \in Nat
    BY <1>0, <2>2, <2>i
  <2>3. k \in Slots /\ k \in Nat /\ g \in Nat /\ g + 1 \in Nat /\ Lap(g) \in Nat
    BY <2>i, <2>n, LapStep
  <2>4. wptr'.slot = k /\ wptr'.gen = g + 1 /\ wptr'.cap = cap /\ wptr'.inc = inc
    BY <1>w, <2>1 DEF Pointer, WriterInv, Publishing
  <2>5. gen'[own][k] = g + 1 /\ \A j \in Slots \ {k} : gen'[own][j] = gen[own][j]
    BY <1>0, <2>1, <2>2, <2>3, CellUpdate
  <2>6. cap = base[inc] + idx /\ Lap(g) + k + 1 = idx /\ Due(idx, gen[own], Slots \ {k})
    BY <2>1 DEF WriterInv, Publishing
  <2>7. Lap(g + 1) = Lap(g) + NumSlots
    BY <2>3, LapStep
  <2>. HIDE DEF k, g
  <2>8. Due(idx, gen'[own], Slots)
    <3>1. ASSUME NEW j \in Slots
          PROVE  idx <= Lap(gen'[own][j]) + j /\ Lap(gen'[own][j]) + j < idx + NumSlots
      <4>1. CASE j = k
        <5>1. gen'[own][j] = g + 1
          BY <2>5, <4>1
        <5>2. Lap(gen'[own][j]) = Lap(g) + NumSlots
          BY <2>7, <5>1
        <5>3. Lap(g) + k + 1 = idx
          BY <2>6
        <5>. DEFINE new == Lap(gen'[own][j])
                    old == Lap(g)
        <5>4. /\ new = old + NumSlots /\ old + k + 1 = idx
              /\ old \in Nat /\ k \in Nat /\ idx \in Nat /\ NumSlots \in Nat /\ NumSlots > 0
          BY <1>0, <2>3, <5>2, <5>3
        <5>. HIDE DEF new, old
        <5>5. idx <= new + k /\ new + k < idx + NumSlots
          BY <5>4
        <5>. QED  BY <4>1, <5>5 DEF new
      <4>2. CASE j # k
        BY <2>5, <2>6, <4>2 DEF Due
      <4>. QED  BY <4>1, <4>2
    <3>. QED  BY <3>1 DEF Due
  <2>9. cap + NumSlots = base[inc] + Lap(g + 1) + k + 1
    BY <1>0, <2>2, <2>3, <2>6, <2>7
  <2>10. \A s \in Incs : segInc[s] = inc => g + 1 <= gen'[s][k]
    <3>. TAKE s \in Incs
    <3>. HAVE segInc[s] = inc
    <3>1. inc # 0  BY <2>2 DEF Incs
    <3>2. s = own  BY <2>2, <3>1 DEF SegmentInv
    <3>. QED  BY <2>3, <2>5, <3>2
  <2>11. inc \in 1..inc /\ g + 1 # 0
    BY <2>2, <2>3 DEF Incs
  <2>12. PointerAt(wptr', inc, base, segInc, gen')
    BY <2>4, <2>9, <2>10, <2>11 DEF PointerAt
  <2>13. PointerOK(wptr)'
    BY <2>1, <2>12 DEF PointerOK
  <2>. QED  BY <2>1, <2>4, <2>6, <2>8, <2>13 DEF WriterInv, Publishing
<1>6. CASE CheckDepth \/ DropOldest \/ Push \/ Trim
  <2>1. UNCHANGED <<inc, own, segInc, base, idx, cap, wptr, gen, lo, hi>>
    BY <1>6 DEF CheckDepth, DropOldest, Push, Trim, memory
  <2>2. \/ wpc \in {"depth", "drop", "push"} /\ wpc' \in {"drop", "push", "trim"}
        \/ wpc = "trim" /\ wpc' = "idle"
    BY <1>6 DEF CheckDepth, DropOldest, Push, Trim
  <2>3. WriteSlot' = WriteSlot /\ (PointerOK(wptr)' <=> PointerOK(wptr))
    BY <2>1 DEF WriteSlot, PointerOK
  <2>. QED  BY <2>1, <2>2, <2>3 DEF WriterInv, Publishing
<1>7. CASE CloseWriter \/ KillWriter
  <2>1. wpc' = "down"  BY <1>7 DEF CloseWriter, KillWriter
  <2>. QED  BY <2>1 DEF WriterInv, Publishing
<1>8. CASE Reader \/ UNCHANGED vars
  <2>1. UNCHANGED <<wpc, inc, own, segInc, base, idx, cap, wptr, gen, lo, hi>>
    BY <1>8 DEF Reader, vars, writer, memory, ReadDepth, PopOldest, SkipFrame, TakeFrame,
       Attach, NoSegment, CheckGeneration, ReadFirstHalf, ReadSecondHalf, RecheckGeneration,
       RestartReader
  <2>2. WriteSlot' = WriteSlot /\ (PointerOK(wptr)' <=> PointerOK(wptr))
    BY <2>1 DEF WriteSlot, PointerOK
  <2>. QED  BY <2>1, <2>2 DEF WriterInv, Publishing
<1>. QED
  BY <1>1, <1>2, <1>3, <1>4, <1>5, <1>6, <1>7, <1>8 DEF Next, Writer

----
(* What the slots hold *)

LEMMA DataStep == TypeInv /\ SegmentInv /\ WriterInv /\ DataInv /\ [Next]_vars => DataInv'
<1>. SUFFICES ASSUME TypeInv, SegmentInv, WriterInv, DataInv, [Next]_vars PROVE DataInv'
  OBVIOUS
<1>0. /\ inc \in 0..MaxInc /\ idx \in Nat /\ cap \in Nat
      /\ segInc \in [Incs -> 0..MaxInc] /\ base \in [Incs -> Nat]
      /\ gen \in [Incs -> [Slots -> Nat]]
      /\ lo \in [Incs -> [Slots -> Nat]] /\ hi \in [Incs -> [Slots -> Nat]]
      /\ MaxInc \in Nat /\ NumSlots \in Nat
  BY RingAssumption DEF TypeInv, WriterType, MemoryType
<1>s. wpc # "down" => own \in Incs /\ inc \in Incs /\ segInc[own] = inc /\ base[inc] \in Nat
  BY <1>0 DEF SegmentInv
\* The frame being copied is the next one of the slot it is copied to.
<1>d. ASSUME wpc \in {"idle", "copy"}
      PROVE  /\ WriteSlot \in Slots
             /\ Holds(own, WriteSlot, base[inc] + idx + 1)
  <2>1. gen[own] \in [Slots -> Nat] /\ Due(idx, gen[own], Slots)
    BY <1>0, <1>s, <1>d DEF WriterInv
  <2>2. WriteSlot \in Slots /\ Lap(gen[own][WriteSlot]) + WriteSlot = idx
    BY <1>0, <2>1, DueSlot DEF WriteSlot
  <2>i. WriteSlot \in Nat
    BY <2>2 DEF Slots
  <2>3. gen[own][WriteSlot] \in Nat
    BY <2>1, <2>2
  <2>. DEFINE l == Lap(gen[own][WriteSlot])
              w == WriteSlot
              b == base[inc]
  <2>4. l \in Nat  BY <2>3, LapStep
  <2>5. base[inc] \in Nat /\ segInc[own] = inc  BY <1>s, <1>d
  <2>6. l + w = idx /\ w \in Nat /\ b \in Nat  BY <2>2, <2>i, <2>5
  <2>. HIDE DEF l, w, b
  <2>7. b + idx + 1 = b + l + w + 1
    BY <1>0, <2>4, <2>6
  <2>8. base[inc] + idx + 1 = base[segInc[own]] + Lap(gen[own][WriteSlot]) + WriteSlot + 1
    BY <2>5, <2>7 DEF l, w, b
  <2>. QED  BY <2>2, <2>8 DEF Holds, HoldsAt
<1>1. CASE StartWriter
  <2>0. linked \in 0..MaxInc /\ linked <= inc
    BY DEF TypeInv, WriterType, SegmentInv
  <2>1. inc' = inc + 1 /\ inc' \in Incs /\ own' \in Incs /\ lo' = lo /\ hi' = hi
    BY <1>0, <1>1, <2>0 DEF StartWriter, Incs
  <2>2. \A k \in Slots : gen'[own'][k] = 0
    BY <1>0, <1>1, <2>1 DEF StartWriter
  <2>3. ASSUME NEW s \in Incs, s # own'
        PROVE  gen'[s] = gen[s] /\ segInc'[s] = segInc[s]
    BY <1>0, <1>1, <2>1, <2>3 DEF StartWriter
  <2>4. ASSUME NEW s \in Incs, segInc[s] # 0
        PROVE  base'[segInc[s]] = base[segInc[s]]
    <3>1. segInc[s] \in Incs /\ segInc[s] # inc'
      BY <1>0, <2>1, <2>4 DEF Incs, SegmentInv
    <3>. QED  BY <1>0, <1>1, <3>1 DEF StartWriter
  <2>5. ASSUME NEW s \in Incs, NEW k \in Slots, segInc'[s] # 0, gen'[s][k] # 0
        PROVE  Holds(s, k, lo[s][k])' /\ Holds(s, k, hi[s][k])'
    <3>1. s # own'  BY <2>2, <2>5
    <3>2. gen'[s] = gen[s] /\ segInc'[s] = segInc[s]
      BY <2>3, <3>1
    <3>3. Holds(s, k, lo[s][k]) /\ Holds(s, k, hi[s][k])
      BY <2>5, <3>2 DEF DataInv
    <3>4. base'[segInc[s]] = base[segInc[s]]
      BY <2>4, <2>5, <3>2
    <3>. QED  BY <2>1, <3>2, <3>3, <3>4 DEF Holds, HoldsAt
  <2>. QED  BY <2>5 DEF DataInv
<1>2. CASE CopyFirstHalf
  <2>1. /\ wpc = "idle" /\ UNCHANGED <<segInc, base, gen, hi>>
        /\ lo' = [lo EXCEPT ![own][WriteSlot] = cap + 1]
    BY <1>2 DEF CopyFirstHalf
  <2>2. own \in Incs /\ WriteSlot \in Slots /\ Holds(own, WriteSlot, cap + 1)
    <3>1. cap = base[inc] + idx  BY <2>1 DEF WriterInv
    <3>. QED  BY <1>d, <1>s, <2>1, <3>1
  <2>3. ASSUME NEW s \in Incs, NEW k \in Slots
        PROVE  lo'[s][k] = lo[s][k] \/ (s = own /\ k = WriteSlot /\ lo'[s][k] = cap + 1)
    <3>1. cap + 1 \in Nat  BY <1>0
    <3>. QED  BY <1>0, <2>1, <2>2, <3>1, CellUpdate
  <2>. QED  BY <2>1, <2>2, <2>3 DEF DataInv, Holds
<1>3. CASE CopySecondHalf
  <2>1. /\ wpc = "copy" /\ UNCHANGED <<segInc, base, gen, lo>>
        /\ hi' = [hi EXCEPT ![own][WriteSlot] = cap]
    BY <1>3 DEF CopySecondHalf
  <2>2. own \in Incs /\ WriteSlot \in Slots /\ Holds(own, WriteSlot, cap)
    <3>1. cap = base[inc] + idx + 1  BY <2>1 DEF WriterInv
    <3>. QED  BY <1>d, <1>s, <2>1, <3>1
  <2>3. ASSUME NEW s \in Incs, NEW k \in Slots
        PROVE  hi'[s][k] = hi[s][k] \/ (s = own /\ k = WriteSlot /\ hi'[s][k] = cap)
    BY <1>0, <2>1, <2>2, CellUpdate
  <2>. QED  BY <2>1, <2>2, <2>3 DEF DataInv, Holds
<1>4. CASE BumpGeneration
  <2>. DEFINE j == wptr.slot
              g == gen[own][j]
  <2>1. wpc = "gen" /\ UNCHANGED <<segInc, base, lo, hi>> /\ gen' = [gen EXCEPT ![own][j] = g + 1]
    BY <1>4 DEF BumpGeneration
  <2>2. own \in Incs /\ inc \in Incs /\ segInc[own] = inc /\ base[inc] \in Nat
    BY <1>s, <2>1
  <2>3. j \in Slots /\ j \in Nat
    BY DEF TypeInv, WriterType, Pointer, Slots
  <2>4. g \in Nat /\ g + 1 \in Nat
    BY <1>0, <2>2, <2>3
  <2>5. /\ cap = base[inc] + idx /\ Lap(g) + j + 1 = idx
        /\ lo[own][j] = cap /\ hi[own][j] = cap
    BY <2>1 DEF WriterInv, Publishing
  <2>6. gen'[own][j] = g + 1
    BY <1>0, <2>1, <2>2, <2>3, <2>4, CellUpdate
  <2>7. \A s \in Incs, k \in Slots : s # own \/ k # j => gen'[s][k] = gen[s][k]
    BY <1>0, <2>1, <2>2, <2>3, <2>4, CellUpdate
  <2>8. Lap(g) \in Nat /\ Lap(g + 1) = Lap(g) + NumSlots
    BY <2>4, LapStep
  <2>. HIDE DEF j, g
  <2>9. cap + NumSlots = base[inc] + Lap(g + 1) + j + 1
    BY <1>0, <2>2, <2>3, <2>5, <2>8
  <2>10. ASSUME NEW s \in Incs, NEW k \in Slots, segInc'[s] # 0, gen'[s][k] # 0
         PROVE  Holds(s, k, lo[s][k])' /\ Holds(s, k, hi[s][k])'
    <3>1. CASE s = own /\ k = j
      BY <2>1, <2>2, <2>5, <2>6, <2>9, <3>1 DEF Holds, HoldsAt
    <3>2. CASE ~(s = own /\ k = j)
      <4>1. gen'[s][k] = gen[s][k]  BY <2>7, <3>2
      <4>2. Holds(s, k, lo[s][k]) /\ Holds(s, k, hi[s][k])
        BY <2>1, <2>10, <4>1 DEF DataInv
      <4>. QED  BY <2>1, <4>1, <4>2 DEF Holds, HoldsAt
    <3>. QED  BY <3>1, <3>2
  <2>. QED  BY <2>10 DEF DataInv
<1>5. CASE ~StartWriter /\ ~CopyFirstHalf /\ ~CopySecondHalf /\ ~BumpGeneration
  <2>1. UNCHANGED <<segInc, base, gen, lo, hi>>
    BY <1>5 DEF Next, Writer, Reader, vars, writer, memory, BumpIndex, CheckDepth, DropOldest,
       Push, Trim, CloseWriter, KillWriter, ReadDepth, PopOldest, SkipFrame, TakeFrame, Attach,
       NoSegment, CheckGeneration, ReadFirstHalf, ReadSecondHalf, RecheckGeneration,
       RestartReader
  <2>. QED  BY <2>1 DEF DataInv, Holds
<1>. QED  BY <1>1, <1>2, <1>3, <1>4, <1>5

----
(* The queue *)

LEMMA QueueInvStep ==
  TypeInv /\ SegmentInv /\ WriterInv /\ QueueInv /\ [Next]_vars => QueueInv'
<1>. SUFFICES ASSUME TypeInv, SegmentInv, WriterInv, QueueInv, [Next]_vars PROVE QueueInv'
  OBVIOUS
<1>1. TypeOK /\ Grow /\ TypeInv' /\ queue \in Seq(Pointer) /\ wptr \in Pointer
  BY TypeParts, TypeStep, Grows DEF TypeInv, QueueType, WriterType
<1>2. inc' \in Nat /\ segInc' \in [Incs -> 0..MaxInc] /\ gen' \in [Incs -> [Slots -> Nat]]
  BY <1>1 DEF TypeInv, WriterType, MemoryType
<1>3. \A p \in Pointer : PointerOK(p) => PointerAt(p, inc', base', segInc', gen')
  BY <1>1, <1>2, PointerKept DEF PointerOK
<1>4. \A j \in 1..Len(queue) : PointerAt(queue[j], inc', base', segInc', gen')
  BY <1>1, <1>3 DEF QueueInv
<1>. SUFFICES \A j \in 1..Len(queue') : PointerAt(queue'[j], inc', base', segInc', gen')
  BY DEF QueueInv, PointerOK
<1>5. CASE queue' = queue
  BY <1>4, <1>5
<1>6. CASE \E n \in 0..Len(queue) : queue' = SubSeq(queue, 1, n)
  <2>1. PICK n \in 0..Len(queue) : queue' = SubSeq(queue, 1, n)
    BY <1>6
  <2>2. n \in Nat /\ n <= Len(queue) /\ Len(queue) \in Nat
    BY <1>1, <2>1
  <2>3. Len(queue') = n /\ \A j \in 1..n : queue'[j] = queue[j]
    BY <1>1, <2>1, <2>2, RemoveLast
  <2>. QED  BY <1>4, <2>2, <2>3
<1>7. CASE Push
  <2>1. wpc = "push" /\ queue' = <<wptr>> \o queue
    BY <1>7 DEF Push
  <2>2. PointerAt(wptr, inc', base', segInc', gen')
    BY <1>1, <1>3, <2>1 DEF WriterInv
  <2>3. Len(queue) \in Nat /\ Len(queue') = Len(queue) + 1 /\ queue'[1] = wptr
    BY <1>1, <2>1, PushHead
  <2>4. \A i \in 1..Len(queue) : queue'[i + 1] = queue[i]
    BY <1>1, <2>1, PushHead
  <2>5. ASSUME NEW j \in 1..Len(queue')
        PROVE  PointerAt(queue'[j], inc', base', segInc', gen')
    <3>1. CASE j = 1  BY <2>2, <2>3, <3>1
    <3>2. CASE j # 1
      <4>1. j - 1 \in 1..Len(queue) /\ (j - 1) + 1 = j
        BY <2>3, <3>2
      <4>2. queue'[j] = queue[j - 1]
        BY <2>4, <4>1
      <4>. QED  BY <1>4, <4>1, <4>2
    <3>. QED  BY <3>1, <3>2
  <2>. QED  BY <2>5
<1>. QED  BY <1>1, <1>5, <1>6, <1>7, QueueStep

----
(* The reader *)

\* A slot whose generation is the pointer's holds its frame or the next one.
LEMMA GuardedData ==
  ASSUME TypeInv, DataInv, PointerOK(rptr), attached \in Incs, Guarded
  PROVE  /\ lo[attached][rptr.slot] \in {rptr.cap, rptr.cap + NumSlots}
         /\ hi[attached][rptr.slot] \in {rptr.cap, rptr.cap + NumSlots}
<1>1. /\ rptr.slot \in Slots /\ rptr.cap \in Nat /\ NumSlots \in Nat
      /\ segInc[attached] = rptr.inc /\ gen[attached][rptr.slot] = rptr.gen
  BY RingAssumption DEF TypeInv, ReaderType, Pointer, Guarded
<1>2. /\ rptr.inc # 0 /\ rptr.gen # 0
      /\ rptr.cap + NumSlots = base[rptr.inc] + Lap(rptr.gen) + rptr.slot + 1
  BY DEF PointerOK, PointerAt
<1>3. lo[attached][rptr.slot] \in Nat /\ hi[attached][rptr.slot] \in Nat
  BY <1>1 DEF TypeInv, MemoryType
<1>4. ASSUME NEW frame \in Nat, Holds(attached, rptr.slot, frame)
      PROVE  frame \in {rptr.cap, rptr.cap + NumSlots}
  <2>1. frame + NumSlots = rptr.cap + NumSlots \/ frame = rptr.cap + NumSlots
    BY <1>1, <1>2, <1>4 DEF Holds, HoldsAt
  <2>. QED  BY <1>1, <2>1
<1>. QED  BY <1>1, <1>2, <1>3, <1>4 DEF DataInv

\* Generations only grow, so what is guarded after a step was before it.
LEMMA GuardedBefore ==
  ASSUME TypeInv, TypeInv', Grow, PointerOK(rptr), attached \in Incs,
         UNCHANGED <<attached, rptr>>, Guarded'
  PROVE  Guarded
<1>1. rptr.slot \in Slots /\ rptr.gen \in Nat /\ rptr.inc \in 1..inc
  BY DEF TypeInv, ReaderType, Pointer, PointerOK, PointerAt
<1>2. segInc'[attached] = rptr.inc /\ gen'[attached][rptr.slot] = rptr.gen
  BY DEF Guarded
<1>3. segInc[attached] = rptr.inc /\ gen[attached][rptr.slot] <= rptr.gen
  BY <1>1, <1>2 DEF Grow
<1>4. rptr.gen <= gen[attached][rptr.slot]
  BY <1>1, <1>3 DEF PointerOK, PointerAt
<1>5. gen[attached][rptr.slot] \in Nat
  BY <1>1 DEF TypeInv, MemoryType
<1>. QED  BY <1>1, <1>3, <1>4, <1>5 DEF Guarded

LEMMA ReaderStep ==
  TypeInv /\ SegmentInv /\ DataInv /\ QueueInv /\ ReaderInv /\ [Next]_vars => ReaderInv'
<1>. SUFFICES ASSUME TypeInv, SegmentInv, DataInv, QueueInv, ReaderInv, [Next]_vars
              PROVE  ReaderInv'
  OBVIOUS
<1>0. Grow /\ TypeInv'
  BY TypeStep, Grows
<1>k. ASSUME rpc \notin {"depth", "pop"}, rptr' = rptr
      PROVE  PointerOK(rptr)'
  <2>1. PointerOK(rptr) /\ rptr \in Pointer
    BY <1>k DEF ReaderInv, TypeInv, ReaderType
  <2>2. inc' \in Nat /\ segInc' \in [Incs -> 0..MaxInc] /\ gen' \in [Incs -> [Slots -> Nat]]
    BY <1>0 DEF TypeInv, WriterType, MemoryType
  <2>3. PointerAt(rptr, inc', base', segInc', gen')
    BY <1>0, <2>1, <2>2, PointerKept DEF PointerOK
  <2>. QED  BY <1>k, <2>3 DEF PointerOK
<1>r. rpc \in Reading => attached \in Incs
  BY DEF TypeInv, ReaderType
<1>1. CASE PopOldest
  <2>. DEFINE kept == Len(queue) - (IF Excess < Len(queue) THEN Excess ELSE Len(queue))
  <2>1. kept \in 0..Len(queue) /\ Len(queue) \in Nat
    BY RingAssumption DEF Excess, TypeInv, ReaderType, QueueType
  <2>2. UNCHANGED <<inc, base, segInc, gen>>
    BY <1>1 DEF PopOldest, writer, memory
  <2>3. (kept = 0 /\ rpc' = "depth") \/ (kept # 0 /\ rptr' = queue[kept] /\ rpc' = "age")
    BY <1>1 DEF PopOldest
  <2>. HIDE DEF kept
  <2>4. CASE kept = 0
    BY <2>3, <2>4 DEF ReaderInv
  <2>5. CASE kept # 0
    <3>1. PointerOK(queue[kept])  BY <2>1, <2>5 DEF QueueInv
    <3>2. PointerOK(rptr)'  BY <2>2, <2>3, <2>5, <3>1 DEF PointerOK
    <3>. QED  BY <2>3, <2>5, <3>2 DEF ReaderInv
  <2>. QED  BY <2>4, <2>5
<1>2. CASE ReadFirstHalf
  <2>1. /\ rpc = "read1" /\ rpc' = "read2"
        /\ UNCHANGED <<inc, base, segInc, gen, attached, rptr>>
    BY <1>2 DEF ReadFirstHalf, writer, memory
  <2>2. buf'.lo = lo[attached][rptr.slot]
    BY <1>2 DEF ReadFirstHalf, TypeInv, ReaderType
  <2>3. PointerOK(rptr)' /\ PointerOK(rptr) /\ attached \in Incs
    BY <1>k, <1>r, <2>1 DEF ReaderInv, Reading
  <2>4. Guarded' => Guarded  BY <2>1 DEF Guarded
  <2>5. Guarded => buf'.lo \in {rptr.cap, rptr.cap + NumSlots}
    BY <2>2, <2>3, GuardedData
  <2>. QED  BY <2>1, <2>3, <2>4, <2>5 DEF ReaderInv
<1>3. CASE ReadSecondHalf
  <2>1. /\ rpc = "read2" /\ rpc' = "recheck"
        /\ UNCHANGED <<inc, base, segInc, gen, attached, rptr>>
    BY <1>3 DEF ReadSecondHalf, writer, memory
  <2>2. buf'.hi = hi[attached][rptr.slot] /\ buf'.lo = buf.lo
    BY <1>3 DEF ReadSecondHalf, TypeInv, ReaderType
  <2>3. PointerOK(rptr)' /\ PointerOK(rptr) /\ attached \in Incs
    BY <1>k, <1>r, <2>1 DEF ReaderInv, Reading
  <2>4. Guarded' => Guarded  BY <2>1 DEF Guarded
  <2>5. Guarded => buf'.hi \in {rptr.cap, rptr.cap + NumSlots}
    BY <2>2, <2>3, GuardedData
  <2>6. Guarded => buf'.lo \in {rptr.cap, rptr.cap + NumSlots}
    BY <2>1, <2>2 DEF ReaderInv
  <2>. QED  BY <2>1, <2>3, <2>4, <2>5, <2>6 DEF ReaderInv
<1>4. CASE /\ rpc' \notin {"read2", "recheck"}
           /\ rpc' \in {"depth", "pop"} \/ (rpc \notin {"depth", "pop"} /\ rptr' = rptr)
  BY <1>k, <1>4 DEF ReaderInv
<1>5. CASE UNCHANGED <<rpc, rptr, buf, attached>>
  <2>1. rpc \notin {"depth", "pop"} => PointerOK(rptr)'
    BY <1>k, <1>5
  <2>2. rpc \in {"read2", "recheck"} /\ Guarded' => Guarded
    BY <1>0, <1>r, <1>5, GuardedBefore DEF ReaderInv, Reading
  <2>. QED  BY <1>5, <2>1, <2>2 DEF ReaderInv
<1>6. CASE ReadDepth \/ RestartReader \/ RecheckGeneration \/ NoSegment \/ SkipFrame
  <2>1. rpc' \in {"depth", "pop"}
    BY <1>6 DEF ReadDepth, RestartReader, RecheckGeneration, NoSegment, SkipFrame
  <2>. QED  BY <1>4, <2>1
<1>7. CASE TakeFrame \/ Attach \/ CheckGeneration
  <2>1. rpc' \notin {"read2", "recheck"} /\ rpc \notin {"depth", "pop"} /\ rptr' = rptr
    BY <1>7 DEF TakeFrame, Attach, CheckGeneration
  <2>. QED  BY <1>4, <2>1
<1>8. CASE Writer \/ UNCHANGED vars
  <2>1. UNCHANGED <<rpc, rptr, buf, attached>>
    BY <1>8 DEF Writer, vars, reader, StartWriter, CopyFirstHalf, CopySecondHalf, BumpIndex,
       BumpGeneration, CheckDepth, DropOldest, Push, Trim, CloseWriter, KillWriter
  <2>. QED  BY <1>5, <2>1
<1>. QED
  BY <1>1, <1>2, <1>3, <1>6, <1>7, <1>8 DEF Next, Reader

LEMMA OutStep == TypeInv /\ ReaderInv /\ AtMostOneLap /\ [Next]_vars => AtMostOneLap'
<1>. SUFFICES ASSUME TypeInv, ReaderInv, AtMostOneLap, [Next]_vars PROVE AtMostOneLap'
  OBVIOUS
<1>1. CASE RecheckGeneration
  <2>1. CASE GenerationMatches
    <3>1. /\ rpc = "recheck"
          /\ out' = [ptr |-> rptr, segInc |-> segInc[attached], lo |-> buf.lo, hi |-> buf.hi]
      BY <1>1, <2>1 DEF RecheckGeneration
    <3>2. out'.segInc = out'.ptr.inc => Guarded
      BY <2>1, <3>1 DEF Guarded, GenerationMatches
    <3>3. Guarded => {buf.lo, buf.hi} \subseteq {rptr.cap, rptr.cap + NumSlots}
      BY <3>1 DEF ReaderInv
    <3>4. out'.ptr = rptr /\ out'.lo = buf.lo /\ out'.hi = buf.hi
      BY <3>1
    <3>. QED  BY <3>2, <3>3, <3>4 DEF AtMostOneLap
  <2>2. CASE ~GenerationMatches
    BY <1>1, <2>2 DEF RecheckGeneration, AtMostOneLap
  <2>. QED  BY <2>1, <2>2
<1>2. CASE ~RecheckGeneration
  <2>1. out' = out
    BY <1>2 DEF Next, Writer, Reader, vars, reader, StartWriter, CopyFirstHalf, CopySecondHalf,
       BumpIndex, BumpGeneration, CheckDepth, DropOldest, Push, Trim, CloseWriter, KillWriter,
       ReadDepth, PopOldest, SkipFrame, TakeFrame, Attach, NoSegment, CheckGeneration,
       ReadFirstHalf, ReadSecondHalf, RestartReader
  <2>. QED  BY <2>1 DEF AtMostOneLap
<1>. QED  BY <1>1, <1>2

LEMMA LapInit == Init => LapInv
<1>. SUFFICES ASSUME Init PROVE LapInv
  OBVIOUS
<1>1. SegmentInv  BY RingAssumption DEF Init, SegmentInv
<1>2. WriterInv  BY DEF Init, WriterInv, Publishing
<1>3. DataInv  BY DEF Init, DataInv
<1>4. QueueInv
  <2>1. Len(queue) = 0  BY DEF Init
  <2>. QED  BY <2>1 DEF QueueInv
<1>5. ReaderInv  BY DEF Init, ReaderInv
<1>6. AtMostOneLap
  BY RingAssumption DEF Init, AtMostOneLap, NoOutput, NoPointer
<1>. QED  BY <1>1, <1>2, <1>3, <1>4, <1>5, <1>6 DEF LapInv

(* Neither half of a frame that reaches the detector is ever older than    *)
(* the frame its pointer was made for, nor more than one lap of the ring   *)
(* younger, unless the ring was initialised again in between: the double   *)
(* generation check of read bounds the damage of the data race.            *)
THEOREM ReadWithinOneLap == Spec => []AtMostOneLap
<1>1. TypeInv /\ LapInv /\ [Next]_vars => LapInv'
  BY SegmentStep, WriterStep, DataStep, QueueInvStep, ReaderStep, OutStep DEF LapInv
<1>2. LapInv => AtMostOneLap
  BY DEF LapInv
<1>. QED
  BY <1>1, <1>2, LapInit, TypeInvariant, PTL DEF Spec

----
(* Pictures: what is handed over was captured, and the refinement *)

(* A slot that has a generation holds a picture.                           *)
MemoryFilled ==
  \A s \in Incs, k \in Slots :
    /\ lo[s][k] <= cap /\ hi[s][k] <= cap
    /\ gen[s][k] # 0 => lo[s][k] # 0 /\ hi[s][k] # 0 /\ segInc[s] # 0

WriterFilled ==
  /\ wpc \in {"copy", "index"} => cap # 0 /\ lo[own][WriteSlot] # 0
  /\ wpc = "index" => hi[own][WriteSlot] # 0
  /\ wpc = "gen" => lo[own][wptr.slot] # 0 /\ hi[own][wptr.slot] # 0

ReaderFilled ==
  /\ buf.lo <= cap /\ buf.hi <= cap
  /\ rpc = "read1" => lo[attached][rptr.slot] # 0
  /\ rpc \in {"read1", "read2"} => hi[attached][rptr.slot] # 0
  /\ rpc \in {"read2", "recheck"} => buf.lo # 0
  /\ rpc = "recheck" => buf.hi # 0

PictureInv == MemoryFilled /\ WriterFilled /\ ReaderFilled

\* A copy only ever writes a frame that was captured.
LEMMA HalvesStay ==
  TypeInv /\ WriterFilled /\ [Next]_vars =>
    /\ cap \in Nat /\ cap' \in Nat /\ cap <= cap'
    /\ \A s \in Incs, k \in Slots :
         /\ lo'[s][k] = lo[s][k] \/ (lo'[s][k] # 0 /\ lo'[s][k] <= cap')
         /\ hi'[s][k] = hi[s][k] \/ (hi'[s][k] # 0 /\ hi'[s][k] <= cap')
<1>. SUFFICES ASSUME TypeInv, WriterFilled, [Next]_vars
              PROVE  /\ cap \in Nat /\ cap' \in Nat /\ cap <= cap'
                     /\ \A s \in Incs, k \in Slots :
                          /\ lo'[s][k] = lo[s][k] \/ (lo'[s][k] # 0 /\ lo'[s][k] <= cap')
                          /\ hi'[s][k] = hi[s][k] \/ (hi'[s][k] # 0 /\ hi'[s][k] <= cap')
  OBVIOUS
<1>0. cap \in Nat /\ idx \in Nat /\ WriteSlot \in Slots
  BY ModSlot DEF TypeInv, WriterType, WriteSlot
<1>1. CASE CopyFirstHalf
  <2>1. /\ lo' = [lo EXCEPT ![own][WriteSlot] = cap + 1] /\ hi' = hi /\ cap' = cap + 1
        /\ own \in Incs
    BY <1>1 DEF CopyFirstHalf, TypeInv, WriterType
  <2>2. \A s \in Incs, k \in Slots : lo'[s][k] = lo[s][k] \/ lo'[s][k] = cap + 1
    BY <1>0, <2>1, CellUpdate DEF TypeInv, MemoryType
  <2>. QED  BY <1>0, <2>1, <2>2
<1>2. CASE CopySecondHalf
  <2>1. /\ hi' = [hi EXCEPT ![own][WriteSlot] = cap] /\ lo' = lo /\ cap' = cap
        /\ own \in Incs /\ cap # 0
    BY <1>2 DEF CopySecondHalf, TypeInv, WriterType, WriterFilled
  <2>2. \A s \in Incs, k \in Slots : hi'[s][k] = hi[s][k] \/ hi'[s][k] = cap
    BY <1>0, <2>1, CellUpdate DEF TypeInv, MemoryType
  <2>. QED  BY <1>0, <2>1, <2>2
<1>3. CASE ~CopyFirstHalf /\ ~CopySecondHalf
  <2>1. UNCHANGED <<cap, lo, hi>>
    BY <1>3 DEF Next, Writer, Reader, vars, writer, memory, StartWriter, BumpIndex,
       BumpGeneration, CheckDepth, DropOldest, Push, Trim, CloseWriter, KillWriter, ReadDepth,
       PopOldest, SkipFrame, TakeFrame, Attach, NoSegment, CheckGeneration, ReadFirstHalf,
       ReadSecondHalf, RecheckGeneration, RestartReader
  <2>. QED  BY <1>0, <2>1
<1>. QED  BY <1>1, <1>2, <1>3

LEMMA MemoryFilledStep ==
  TypeInv /\ SegmentInv /\ PictureInv /\ [Next]_vars => MemoryFilled'
<1>. SUFFICES ASSUME TypeInv, SegmentInv, PictureInv, [Next]_vars,
                     NEW s \in Incs, NEW k \in Slots
              PROVE  (/\ lo[s][k] <= cap /\ hi[s][k] <= cap
                      /\ gen[s][k] # 0 => lo[s][k] # 0 /\ hi[s][k] # 0 /\ segInc[s] # 0)'
  BY DEF MemoryFilled
<1>0. /\ lo[s][k] \in Nat /\ hi[s][k] \in Nat /\ gen[s][k] \in Nat /\ gen'[s][k] \in Nat
      /\ lo'[s][k] \in Nat /\ hi'[s][k] \in Nat
  BY TypeStep DEF TypeInv, MemoryType
<1>1. /\ lo[s][k] <= cap /\ hi[s][k] <= cap
      /\ gen[s][k] # 0 => lo[s][k] # 0 /\ hi[s][k] # 0 /\ segInc[s] # 0
  BY DEF PictureInv, MemoryFilled
<1>2. /\ cap \in Nat /\ cap' \in Nat /\ cap <= cap'
      /\ lo'[s][k] = lo[s][k] \/ (lo'[s][k] # 0 /\ lo'[s][k] <= cap')
      /\ hi'[s][k] = hi[s][k] \/ (hi'[s][k] # 0 /\ hi'[s][k] <= cap')
  BY HalvesStay DEF PictureInv
<1>3. lo'[s][k] <= cap' /\ hi'[s][k] <= cap'
  BY <1>0, <1>1, <1>2
<1>4. ASSUME gen'[s][k] = gen[s][k], segInc'[s] = segInc[s]
      PROVE  gen'[s][k] # 0 => lo'[s][k] # 0 /\ hi'[s][k] # 0 /\ segInc'[s] # 0
  BY <1>1, <1>2, <1>4
<1>5. CASE StartWriter
  <2>1. own' \in Incs /\ s = own' => gen'[s][k] = 0
    BY <1>5 DEF StartWriter, TypeInv, MemoryType
  <2>2. s # own' => gen'[s] = gen[s] /\ segInc'[s] = segInc[s]
    BY <1>5 DEF StartWriter, TypeInv, MemoryType, WriterType
  <2>. QED  BY <1>3, <1>4, <2>1, <2>2
<1>6. CASE BumpGeneration
  <2>1. /\ UNCHANGED <<segInc, lo, hi>> /\ own \in Incs /\ wptr.slot \in Slots
        /\ segInc[own] # 0 /\ lo[own][wptr.slot] # 0 /\ hi[own][wptr.slot] # 0
    BY <1>6 DEF BumpGeneration, SegmentInv, TypeInv, WriterType, Pointer, PictureInv,
       WriterFilled, Incs
  <2>2. gen' = [gen EXCEPT ![own][wptr.slot] = gen[own][wptr.slot] + 1]
    BY <1>6 DEF BumpGeneration
  <2>3. gen[own][wptr.slot] + 1 \in Nat
    BY <2>1 DEF TypeInv, MemoryType
  <2>4. ~(s = own /\ k = wptr.slot) => gen'[s][k] = gen[s][k]
    BY <2>1, <2>2, <2>3, CellUpdate DEF TypeInv, MemoryType
  <2>. QED  BY <1>3, <1>4, <2>1, <2>4
<1>7. CASE ~StartWriter /\ ~BumpGeneration
  <2>1. UNCHANGED <<segInc, gen>>
    BY <1>7 DEF Next, Writer, Reader, vars, writer, memory, CopyFirstHalf, CopySecondHalf,
       BumpIndex, CheckDepth, DropOldest, Push, Trim, CloseWriter, KillWriter, ReadDepth,
       PopOldest, SkipFrame, TakeFrame, Attach, NoSegment, CheckGeneration, ReadFirstHalf,
       ReadSecondHalf, RecheckGeneration, RestartReader
  <2>. QED  BY <1>3, <1>4, <2>1
<1>. QED  BY <1>5, <1>6, <1>7

LEMMA WriterFilledStep ==
  TypeInv /\ PictureInv /\ [Next]_vars => WriterFilled'
<1>. SUFFICES ASSUME TypeInv, PictureInv, [Next]_vars PROVE WriterFilled'
  OBVIOUS
<1>0. cap \in Nat /\ idx \in Nat /\ WriteSlot \in Slots
  BY ModSlot DEF TypeInv, WriterType, WriteSlot
<1>1. CASE CopyFirstHalf
  <2>1. /\ lo' = [lo EXCEPT ![own][WriteSlot] = cap + 1] /\ cap' = cap + 1 /\ wpc' = "copy"
        /\ own \in Incs /\ own' = own /\ WriteSlot' = WriteSlot
    BY <1>1 DEF CopyFirstHalf, TypeInv, WriterType, WriteSlot
  <2>2. lo'[own][WriteSlot] = cap + 1
    BY <1>0, <2>1, CellUpdate DEF TypeInv, MemoryType
  <2>. QED  BY <1>0, <2>1, <2>2 DEF WriterFilled
<1>2. CASE CopySecondHalf
  <2>1. /\ hi' = [hi EXCEPT ![own][WriteSlot] = cap] /\ lo' = lo /\ cap' = cap /\ cap # 0
        /\ wpc' = "index" /\ own \in Incs /\ own' = own /\ WriteSlot' = WriteSlot
        /\ lo[own][WriteSlot] # 0
    BY <1>2 DEF CopySecondHalf, TypeInv, WriterType, WriteSlot, PictureInv, WriterFilled
  <2>2. hi'[own][WriteSlot] = cap
    BY <1>0, <2>1, CellUpdate DEF TypeInv, MemoryType
  <2>. QED  BY <1>0, <2>1, <2>2 DEF WriterFilled
<1>3. CASE BumpIndex
  <2>1. wpc = "index" /\ wpc' = "gen" /\ wptr'.slot = WriteSlot /\ UNCHANGED <<own, lo, hi>>
    BY <1>3 DEF BumpIndex, memory
  <2>. QED  BY <2>1 DEF PictureInv, WriterFilled
<1>4. CASE ~CopyFirstHalf /\ ~CopySecondHalf /\ ~BumpIndex
  <2>1. wpc' \notin {"copy", "index", "gen"} \/ UNCHANGED <<wpc, own, idx, cap, wptr, lo, hi>>
    BY <1>4 DEF Next, Writer, Reader, vars, writer, memory, StartWriter,
       BumpGeneration, CheckDepth, DropOldest, Push, Trim, CloseWriter, KillWriter, ReadDepth,
       PopOldest, SkipFrame, TakeFrame, Attach, NoSegment, CheckGeneration, ReadFirstHalf,
       ReadSecondHalf, RecheckGeneration, RestartReader
  <2>. QED  BY <2>1 DEF PictureInv, WriterFilled, WriteSlot
<1>. QED  BY <1>1, <1>2, <1>3, <1>4

LEMMA ReaderFilledStep ==
  TypeInv /\ ReaderInv /\ PictureInv /\ [Next]_vars => ReaderFilled'
<1>. SUFFICES ASSUME TypeInv, ReaderInv, PictureInv, [Next]_vars PROVE ReaderFilled'
  OBVIOUS
<1>0. /\ rptr.slot \in Slots /\ buf.lo \in Nat /\ buf.hi \in Nat
      /\ rpc \in Reading => attached \in Incs
  BY DEF TypeInv, ReaderType, Pointer
<1>1. /\ cap \in Nat /\ cap' \in Nat /\ cap <= cap'
      /\ rpc \in Reading => 
           /\ lo[attached][rptr.slot] # 0 => lo'[attached][rptr.slot] # 0
           /\ hi[attached][rptr.slot] # 0 => hi'[attached][rptr.slot] # 0
  BY <1>0, HalvesStay DEF PictureInv
<1>2. buf.lo <= cap' /\ buf.hi <= cap'
  BY <1>0, <1>1 DEF PictureInv, ReaderFilled
<1>3. CASE CheckGeneration
  <2>1. rpc = "check" /\ UNCHANGED <<attached, rptr, buf, lo, hi, gen>>
    BY <1>3 DEF CheckGeneration, memory
  <2>2. rpc' # "depth" => rpc' = "read1" /\ gen[attached][rptr.slot] = rptr.gen
    BY <1>3 DEF CheckGeneration, GenerationMatches
  <2>3. rptr.gen # 0
    BY <2>1 DEF ReaderInv, PointerOK, PointerAt
  <2>4. rpc' # "depth" => lo[attached][rptr.slot] # 0 /\ hi[attached][rptr.slot] # 0
    BY <1>0, <2>1, <2>2, <2>3 DEF Reading, PictureInv, MemoryFilled
  <2>. QED  BY <1>2, <2>1, <2>2, <2>4 DEF ReaderFilled
<1>4. CASE ReadFirstHalf
  <2>1. /\ rpc = "read1" /\ rpc' = "read2" /\ UNCHANGED <<attached, rptr, lo, hi, cap>>
        /\ buf'.lo = lo[attached][rptr.slot] /\ buf'.hi = buf.hi
    BY <1>4 DEF ReadFirstHalf, memory, writer, TypeInv, ReaderType
  <2>2. lo[attached][rptr.slot] <= cap
    BY <1>0, <2>1 DEF Reading, PictureInv, MemoryFilled
  <2>. QED  BY <1>2, <2>1, <2>2 DEF PictureInv, ReaderFilled
<1>5. CASE ReadSecondHalf
  <2>1. /\ rpc = "read2" /\ rpc' = "recheck" /\ UNCHANGED <<attached, rptr, lo, hi, cap>>
        /\ buf'.hi = hi[attached][rptr.slot] /\ buf'.lo = buf.lo
    BY <1>5 DEF ReadSecondHalf, memory, writer, TypeInv, ReaderType
  <2>2. hi[attached][rptr.slot] <= cap
    BY <1>0, <2>1 DEF Reading, PictureInv, MemoryFilled
  <2>. QED  BY <1>2, <2>1, <2>2 DEF PictureInv, ReaderFilled
<1>6. CASE ~CheckGeneration /\ ~ReadFirstHalf /\ ~ReadSecondHalf
  <2>1. /\ buf' = buf
        /\ \/ rpc' \notin {"read1", "read2", "recheck"}
           \/ UNCHANGED <<rpc, attached, rptr>>
    BY <1>6 DEF Next, Writer, Reader, vars, reader, StartWriter, CopyFirstHalf, CopySecondHalf,
       BumpIndex, BumpGeneration, CheckDepth, DropOldest, Push, Trim, CloseWriter, KillWriter,
       ReadDepth, PopOldest, SkipFrame, TakeFrame, Attach, NoSegment, RecheckGeneration,
       RestartReader
  <2>. QED  BY <1>1, <1>2, <2>1 DEF PictureInv, ReaderFilled, Reading
<1>. QED  BY <1>3, <1>4, <1>5, <1>6

LEMMA PictureInit == Init => PictureInv
<1>. SUFFICES ASSUME Init PROVE PictureInv
  OBVIOUS
<1>1. MemoryFilled  BY DEF Init, MemoryFilled
<1>2. WriterFilled  BY DEF Init, WriterFilled
<1>3. ReaderFilled  BY DEF Init, ReaderFilled
<1>. QED  BY <1>1, <1>2, <1>3 DEF PictureInv

\* What a successful second check hands over.
LEMMA HandOver ==
  TypeInv /\ LapInv /\ LapInv' /\ OrderInv /\ PictureInv /\ RecheckGeneration
    => [Feed!Next]_Feed!feedVars
<1>. SUFFICES ASSUME TypeInv, LapInv, LapInv', OrderInv, PictureInv, RecheckGeneration
              PROVE  [Feed!Next]_Feed!feedVars
  OBVIOUS
<1>1. cap' = cap /\ inc' = inc /\ rpc = "recheck"
  BY DEF RecheckGeneration, writer
<1>2. CASE ~GenerationMatches
  <2>1. out' = out  BY <1>2 DEF RecheckGeneration
  <2>. QED  BY <1>1, <2>1 DEF Feed!feedVars
<1>3. CASE GenerationMatches
  <2>1. out' = [ptr |-> rptr, segInc |-> segInc[attached], lo |-> buf.lo, hi |-> buf.hi]
    BY <1>3 DEF RecheckGeneration
  <2>2. rptr.cap \in 1..cap /\ rptr.cap > out.ptr.cap
    BY <1>1 DEF OrderInv, Limit, TypeInv, WriterType, ReaderType, Pointer
  <2>3. buf.lo \in 1..cap /\ buf.hi \in 1..cap
    BY <1>1 DEF PictureInv, ReaderFilled, TypeInv, WriterType, ReaderType
  <2>4. /\ rptr.inc \in 1..inc /\ rptr.gen # 0 /\ rptr.slot \in Slots /\ attached \in Incs
        /\ inc \in Nat
    BY <1>1 DEF LapInv, ReaderInv, PointerOK, PointerAt, TypeInv, ReaderType, WriterType,
       Reading, Pointer
  <2>5. segInc[attached] # 0 /\ segInc[attached] <= inc /\ segInc[attached] \in Nat
    BY <1>3, <2>4 DEF GenerationMatches, PictureInv, MemoryFilled, LapInv, SegmentInv, TypeInv,
       WriterType
  <2>6. inc <= 1 => segInc[attached] = rptr.inc
    BY <2>4, <2>5
  <2>7. inc <= 1 => {buf.lo, buf.hi} \subseteq {rptr.cap, rptr.cap + NumSlots}
    BY <2>1, <2>6 DEF LapInv, AtMostOneLap
  <2>8. buf.lo \in Feed!Picture(rptr.cap) /\ buf.hi \in Feed!Picture(rptr.cap)
    <3>1. CASE inc > 1
      BY <2>3, <3>1 DEF Feed!Picture
    <3>2. CASE ~(inc > 1)
      <4>1. inc <= 1  BY <2>4, <3>2
      <4>2. buf.lo \in {rptr.cap, rptr.cap + NumSlots} /\ buf.hi \in {rptr.cap, rptr.cap + NumSlots}
        BY <2>7, <4>1
      <4>. QED  BY <2>3, <3>2, <4>2 DEF Feed!Picture
    <3>. QED  BY <3>1, <3>2
  <2>9. /\ out'.ptr.cap = rptr.cap /\ out'.lo = buf.lo /\ out'.hi = buf.hi
        /\ rptr.cap \in (out.ptr.cap + 1)..cap
    BY <1>1, <2>1, <2>2 DEF TypeInv, WriterType, ReaderType, Pointer
  <2>10. Feed!Deliver
    BY <1>1, <2>8, <2>9 DEF Feed!Deliver
  <2>. QED  BY <2>10 DEF Feed!Next
<1>. QED  BY <1>2, <1>3

(* The camera thread and the inference loop implement FrameFeed, with the   *)
(* pictures read mapped as well as their pointers: pointers are used in     *)
(* capture order and none twice, across overwritten slots, dropped pointers *)
(* and restarts of either process, and both halves of what comes with one   *)
(* are captured frames, its own or one lap later unless mediabridge was     *)
(* started again (shm.py:55-80).                                            *)
THEOREM FeedImplemented == Spec => FeedSpec
<1>1. Init => Feed!Init
  BY DEF Init, Feed!Init, NoOutput, NoPointer
<1>2. TypeInv /\ LapInv /\ PictureInv /\ [Next]_vars => LapInv' /\ PictureInv'
  BY SegmentStep, WriterStep, DataStep, QueueInvStep, ReaderStep, OutStep,
     MemoryFilledStep, WriterFilledStep, ReaderFilledStep DEF LapInv, PictureInv
<1>3. TypeInv /\ LapInv /\ LapInv' /\ OrderInv /\ PictureInv /\ [Next]_vars
        => [Feed!Next]_Feed!feedVars
  <2>. SUFFICES ASSUME TypeInv, LapInv, LapInv', OrderInv, PictureInv, [Next]_vars
                PROVE  [Feed!Next]_Feed!feedVars
    OBVIOUS
  <2>. USE DEF Feed!Next, Feed!feedVars
  <2>1. CASE StartWriter
    BY <2>1 DEF StartWriter, reader, Feed!Start
  <2>2. CASE CopyFirstHalf
    BY <2>2 DEF CopyFirstHalf, reader, Feed!Capture
  <2>3. CASE RecheckGeneration
    BY <2>3, HandOver
  <2>4. CASE ~StartWriter /\ ~CopyFirstHalf /\ ~RecheckGeneration
    BY <2>4 DEF Next, Writer, Reader, vars, writer, reader, CopySecondHalf,
       BumpIndex, BumpGeneration, CheckDepth, DropOldest, Push, Trim, CloseWriter, KillWriter,
       ReadDepth, PopOldest, SkipFrame, TakeFrame, Attach, NoSegment, CheckGeneration,
       ReadFirstHalf, ReadSecondHalf, RestartReader
  <2>. QED  BY <2>1, <2>2, <2>3, <2>4
<1>. QED
  BY <1>1, <1>2, <1>3, LapInit, PictureInit, OrderInit, OrderStep, TypeInvariant, PTL
     DEF Spec, FeedSpec, Feed!Spec
====
