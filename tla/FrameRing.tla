---- MODULE FrameRing ----
(***************************************************************************)
(* The path of one camera's frames from mediabridge to inference.          *)
(*                                                                         *)
(* The camera thread (mediabridge CameraWorker.run) copies every frame to  *)
(* a slot of a shared-memory ring, bumps the slot's generation and pushes  *)
(* a pointer on the camera's Redis list.  The inference loop (run_worker)  *)
(* pops the oldest pointer and reads the slot between two checks of its    *)
(* generation.                                                             *)
(*                                                                         *)
(* A frame is its capture number, and a slot holds two halves of a frame,  *)
(* so that a copy takes two steps and a torn frame is one whose halves     *)
(* differ.  Redis calls, shared-memory copies and shared-memory counters   *)
(* are separate steps; a crash of either process may fall between any two. *)
(***************************************************************************)
EXTENDS Naturals, Sequences

CONSTANTS
  NumSlots,   \* shm_num_slots
  MaxDepth,   \* max_queue_depth_per_camera
  MaxInc,     \* bound: how many times mediabridge is started
  MaxCap      \* bound: how many frames the camera delivers

ASSUME RingAssumption ==
  /\ NumSlots \in Nat \ {0}
  /\ MaxDepth \in Nat \ {0}
  /\ MaxInc \in Nat
  /\ MaxCap \in Nat

Slots == 0 .. NumSlots - 1
Incs  == 1 .. MaxInc      \* a segment is named by the incarnation that created it

(* A FramePointer.  `cap` and `inc` are history: the frame it was made for *)
(* and the mediabridge incarnation that made it.                           *)
Pointer == [slot : Slots, gen : Nat, cap : Nat, inc : Nat]
NoPointer == [slot |-> 0, gen |-> 0, cap |-> 0, inc |-> 0]

VARIABLES
  wpc,       \* where the camera thread is
  inc,       \* current incarnation of mediabridge (0 = never started)
  linked,    \* segment that the shared-memory name refers to, 0 = none
  own,       \* segment the camera thread writes
  segInc,    \* per segment: the incarnation that initialised it last
  base,      \* history, per incarnation: frames captured before it started
  idx,       \* _idx_arr[0]
  gen,       \* per segment and slot: _gen_arr
  lo,        \* per segment and slot: first half of the frame
  hi,        \* per segment and slot: second half
  cap,       \* frames captured so far
  wptr,      \* pointer the camera thread is about to push
  queue,     \* Redis list netra:queue:<camera>, head (newest) first
  rpc,       \* where the inference loop is
  attached,  \* segment in ReaderCache, 0 = none
  depth,     \* LLEN the inference loop has read
  rptr,      \* pointer the inference loop works on
  buf,       \* halves copied out of the slot so far
  out        \* last frame handed to the detector, with the pointer used

writer == <<wpc, inc, linked, own, segInc, base, idx, cap, wptr>>
memory == <<gen, lo, hi>>
reader == <<rpc, attached, depth, rptr, buf, out>>
vars == <<writer, memory, queue, reader>>

NoOutput == [ptr |-> NoPointer, segInc |-> 0, lo |-> 0, hi |-> 0]

Init ==
  /\ wpc = "down" /\ inc = 0 /\ linked = 0 /\ own = 0
  /\ segInc = [s \in Incs |-> 0]
  /\ base = [i \in Incs |-> 0]
  /\ idx = 0 /\ cap = 0 /\ wptr = NoPointer
  /\ gen = [s \in Incs |-> [k \in Slots |-> 0]]
  /\ lo = [s \in Incs |-> [k \in Slots |-> 0]]
  /\ hi = [s \in Incs |-> [k \in Slots |-> 0]]
  /\ queue = <<>>
  /\ rpc = "depth" /\ attached = 0 /\ depth = 0
  /\ rptr = NoPointer /\ buf = [lo |-> 0, hi |-> 0] /\ out = NoOutput

----
(* RingBufferWriter *)

\* A new CameraWorker: _alloc creates the segment or, when the name is still
\* linked after a crash, attaches to it; index and generations become 0.
StartWriter ==
  /\ wpc = "down" /\ inc < MaxInc
  /\ inc' = inc + 1
  /\ own' = IF linked = 0 THEN inc' ELSE linked
  /\ linked' = own'
  /\ segInc' = [segInc EXCEPT ![own'] = inc']
  /\ base' = [base EXCEPT ![inc'] = cap]
  /\ idx' = 0
  /\ gen' = [gen EXCEPT ![own'] = [k \in Slots |-> 0]]
  /\ wpc' = "idle"
  /\ UNCHANGED <<cap, wptr, lo, hi, queue, reader>>

\* Mutant: the slot is taken modulo one slot too many.
WriteSlotOffByOne == idx % (NumSlots + 1)

WriteSlot == idx % NumSlots

\* The source yields a frame and np.copyto starts to overwrite the slot.
CopyFirstHalf ==
  /\ wpc = "idle" /\ cap < MaxCap
  /\ cap' = cap + 1
  /\ lo' = [lo EXCEPT ![own][WriteSlot] = cap + 1]
  /\ wpc' = "copy"
  /\ UNCHANGED <<inc, linked, own, segInc, base, idx, wptr, gen, hi, queue, reader>>

CopySecondHalf ==
  /\ wpc = "copy"
  /\ hi' = [hi EXCEPT ![own][WriteSlot] = cap]
  /\ wpc' = "index"
  /\ UNCHANGED <<inc, linked, own, segInc, base, idx, cap, wptr, gen, lo, queue, reader>>

BumpIndex ==
  /\ wpc = "index"
  /\ idx' = idx + 1
  /\ wptr' = [slot |-> WriteSlot, gen |-> wptr.gen, cap |-> cap, inc |-> inc]
  /\ wpc' = "gen"
  /\ UNCHANGED <<inc, linked, own, segInc, base, cap, memory, queue, reader>>

BumpGeneration ==
  /\ wpc = "gen"
  /\ gen' = [gen EXCEPT ![own][wptr.slot] = @ + 1]
  /\ wptr' = [wptr EXCEPT !.gen = gen[own][wptr.slot] + 1]
  /\ wpc' = "depth"
  /\ UNCHANGED <<inc, linked, own, segInc, base, idx, cap, lo, hi, queue, reader>>

----
(* The rest of CameraWorker.run: one Redis command a step *)

\* Mutant: the queue counts as full one pointer late.
CheckDepthLate ==
  /\ wpc = "depth"
  /\ wpc' = IF Len(queue) > MaxDepth THEN "drop" ELSE "push"
  /\ UNCHANGED <<inc, linked, own, segInc, base, idx, cap, wptr, memory, queue, reader>>

\* LLEN, and the choice that depends on it.
CheckDepth ==
  /\ wpc = "depth"
  /\ wpc' = IF Len(queue) >= MaxDepth THEN "drop" ELSE "push"
  /\ UNCHANGED <<inc, linked, own, segInc, base, idx, cap, wptr, memory, queue, reader>>

AllButLast(s) == SubSeq(s, 1, Len(s) - 1)

\* RPOP of the oldest pointer; the list may have become empty meanwhile.
DropOldest ==
  /\ wpc = "drop"
  /\ queue' = IF queue = <<>> THEN queue ELSE AllButLast(queue)
  /\ wpc' = "push"
  /\ UNCHANGED <<inc, linked, own, segInc, base, idx, cap, wptr, memory, reader>>

Push ==
  /\ wpc = "push"
  /\ queue' = <<wptr>> \o queue
  /\ wpc' = "trim"
  /\ UNCHANGED <<inc, linked, own, segInc, base, idx, cap, wptr, memory, reader>>

Trim ==
  /\ wpc = "trim"
  /\ queue' = IF Len(queue) > MaxDepth THEN SubSeq(queue, 1, MaxDepth) ELSE queue
  /\ wpc' = "idle"
  /\ UNCHANGED <<inc, linked, own, segInc, base, idx, cap, wptr, memory, reader>>

\* The loop ends (stop flag, source exhausted) or a Redis command raises: the
\* `finally` closes and unlinks the segments; who has them mapped keeps them.
CloseWriter ==
  /\ wpc \in {"idle", "depth", "drop", "push", "trim"}
  /\ wpc' = "down" /\ linked' = 0
  /\ UNCHANGED <<inc, own, segInc, base, idx, cap, wptr, memory, queue, reader>>

\* The process ends without closing the writer.  Python's resource tracker
\* then unlinks the segments, unless it is killed along with the process.
KillWriter ==
  /\ wpc # "down"
  /\ wpc' = "down"
  /\ linked' \in {linked, 0}
  /\ UNCHANGED <<inc, own, segInc, base, idx, cap, wptr, memory, queue, reader>>

----
(* run_worker *)

ReadDepth ==
  /\ rpc = "depth"
  /\ depth' = Len(queue)
  /\ rpc' = "pop"
  /\ UNCHANGED <<writer, memory, queue, attached, rptr, buf, out>>

\* All but the newest of the `depth` pointers seen go when they are too many.
Excess == IF depth > MaxDepth THEN depth - 1 ELSE 0

\* Mutant: LPOP for RPOP, the newest pointer first.
PopNewest ==
  /\ rpc = "pop"
  /\ IF queue = <<>>
       THEN rpc' = "depth" /\ UNCHANGED <<queue, rptr>>
       ELSE queue' = Tail(queue) /\ rptr' = Head(queue) /\ rpc' = "age"
  /\ UNCHANGED <<writer, memory, attached, depth, buf, out>>

PopOldest ==
  LET kept == Len(queue) - (IF Excess < Len(queue) THEN Excess ELSE Len(queue)) IN
  /\ rpc = "pop"
  /\ IF kept = 0
       THEN queue' = <<>> /\ rpc' = "depth" /\ UNCHANGED rptr
       ELSE queue' = SubSeq(queue, 1, kept - 1) /\ rptr' = queue[kept] /\ rpc' = "age"
  /\ UNCHANGED <<writer, memory, attached, depth, buf, out>>

\* Too old, or chosen by the adaptive frame rate: either may befall any frame.
SkipFrame ==
  /\ rpc = "age"
  /\ rpc' = "depth"
  /\ UNCHANGED <<writer, memory, queue, attached, depth, rptr, buf, out>>

TakeFrame ==
  /\ rpc = "age"
  /\ rpc' = "attach"
  /\ UNCHANGED <<writer, memory, queue, attached, depth, rptr, buf, out>>

\* ReaderCache.get: the first successful attachment is kept for good.
Attach ==
  /\ rpc = "attach"
  /\ attached # 0 \/ linked # 0
  /\ attached' = IF attached = 0 THEN linked ELSE attached
  /\ rpc' = "check"
  /\ UNCHANGED <<writer, memory, queue, depth, rptr, buf, out>>

\* FileNotFoundError after the retries.
NoSegment ==
  /\ rpc = "attach" /\ attached = 0 /\ linked = 0
  /\ rpc' = "depth"
  /\ UNCHANGED <<writer, memory, queue, attached, depth, rptr, buf, out>>

GenerationMatches == gen[attached][rptr.slot] = rptr.gen

CheckGeneration ==
  /\ rpc = "check"
  /\ rpc' = IF GenerationMatches THEN "read1" ELSE "depth"
  /\ UNCHANGED <<writer, memory, queue, attached, depth, rptr, buf, out>>

ReadFirstHalf ==
  /\ rpc = "read1"
  /\ buf' = [buf EXCEPT !.lo = lo[attached][rptr.slot]]
  /\ rpc' = "read2"
  /\ UNCHANGED <<writer, memory, queue, attached, depth, rptr, out>>

ReadSecondHalf ==
  /\ rpc = "read2"
  /\ buf' = [buf EXCEPT !.hi = hi[attached][rptr.slot]]
  /\ rpc' = "recheck"
  /\ UNCHANGED <<writer, memory, queue, attached, depth, rptr, out>>

\* Mutant: the generation is not checked again after the copy.
TrustCopy ==
  /\ rpc = "recheck"
  /\ out' = [ptr |-> rptr, segInc |-> segInc[attached], lo |-> buf.lo, hi |-> buf.hi]
  /\ rpc' = "depth"
  /\ UNCHANGED <<writer, memory, queue, attached, depth, rptr, buf>>

\* The second check: the frame goes to the detector or is dropped.
RecheckGeneration ==
  /\ rpc = "recheck"
  /\ out' = IF GenerationMatches
              THEN [ptr |-> rptr, segInc |-> segInc[attached], lo |-> buf.lo, hi |-> buf.hi]
              ELSE out
  /\ rpc' = "depth"
  /\ UNCHANGED <<writer, memory, queue, attached, depth, rptr, buf>>

\* Inference is restarted: the pointer in hand and the ReaderCache are lost.
\* Python 3.11 tracks attached segments like created ones: the tracker of a
\* process that had attached unlinks the name, whatever it now refers to.
RestartReader ==
  /\ rpc' = "depth" /\ attached' = 0
  /\ linked' \in {linked} \cup (IF attached # 0 THEN {0} ELSE {})
  /\ UNCHANGED <<wpc, inc, own, segInc, base, idx, cap, wptr>>
  /\ UNCHANGED <<memory, queue, depth, rptr, buf, out>>

Writer ==
  \/ StartWriter \/ CopyFirstHalf \/ CopySecondHalf \/ BumpIndex \/ BumpGeneration
  \/ CheckDepth \/ DropOldest \/ Push \/ Trim \/ CloseWriter \/ KillWriter

Reader ==
  \/ ReadDepth \/ PopOldest \/ SkipFrame \/ TakeFrame \/ Attach \/ NoSegment
  \/ CheckGeneration \/ ReadFirstHalf \/ ReadSecondHalf \/ RecheckGeneration
  \/ RestartReader

Next == Writer \/ Reader

Spec == Init /\ [][Next]_vars

----
(* Every variable keeps to its domain. *)
TypeOK ==
  /\ wpc \in {"down", "idle", "copy", "index", "gen", "depth", "drop", "push", "trim"}
  /\ inc \in 0..MaxInc /\ linked \in 0..MaxInc /\ own \in 0..MaxInc
  /\ segInc \in [Incs -> 0..MaxInc]
  /\ base \in [Incs -> Nat]
  /\ idx \in Nat /\ cap \in Nat
  /\ wptr \in Pointer
  /\ gen \in [Incs -> [Slots -> Nat]]
  /\ lo \in [Incs -> [Slots -> Nat]] /\ hi \in [Incs -> [Slots -> Nat]]
  /\ queue \in Seq(Pointer)
  /\ rpc \in {"depth", "pop", "age", "attach", "check", "read1", "read2", "recheck"}
  /\ attached \in 0..MaxInc /\ depth \in Nat
  /\ rptr \in Pointer
  /\ buf \in [lo : Nat, hi : Nat]
  /\ out \in [ptr : Pointer, segInc : 0..MaxInc, lo : Nat, hi : Nat]

(* The list never holds more than max_queue_depth_per_camera pointers, even  *)
(* between LLEN, RPOP, LPUSH and LTRIM of one camera thread and the RPOPs of *)
(* inference; so the drain of excess frames in run_worker never has work.    *)
QueueBounded == Len(queue) <= MaxDepth /\ depth <= MaxDepth

(* What the generation guard does achieve: as long as the ring has not been   *)
(* initialised again since the pointer was made, each half handed over is     *)
(* either of the frame the pointer was made for or of the very next frame     *)
(* stored in that slot, never of an older or a later one.                     *)
AtMostOneLap ==
  out.segInc = out.ptr.inc =>
    {out.lo, out.hi} \subseteq {out.ptr.cap, out.ptr.cap + NumSlots}

(* The feed that the two services implement together, pictures included:      *)
(* pointers in capture order, none twice, and with each of them halves that   *)
(* were captured, of its frame or one lap later as long as mediabridge was    *)
(* started once.                                                              *)
Feed == INSTANCE FrameFeed WITH
  Lap <- NumSlots, captured <- cap, starts <- inc,
  delivered <- [frame |-> out.ptr.cap, first |-> out.lo, second |-> out.hi]
FeedSpec == Feed!Spec

(* shm.py says of the reader that it "validates generation to catch stale    *)
(* pointers" and that read "raises RuntimeError if stale": a frame it returns *)
(* is the whole frame the pointer was made for.                              *)
ReadIsPointedFrame == out.lo = out.ptr.cap /\ out.hi = out.ptr.cap
====
