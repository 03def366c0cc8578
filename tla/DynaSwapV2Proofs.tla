-------------------------- MODULE DynaSwapV2Proofs --------------------------
(***************************************************************************)
(* Theorems about DynaSwapV2 for every size of the device, of its pages    *)
(* and of its chunks, any number of requests and every fault.  Clients may *)
(* have any alignment but in the last section, which is about clients that *)
(* keep to whole pages.                                                    *)
(***************************************************************************)
EXTENDS DynaSwapV2, FiniteSetTheorems, SequenceTheorems, TLAPS

LEMMA SizeOK ==
    /\ NPages \in Nat \ {0} /\ ChunkSlots \in Nat \ {0}
    /\ Sectors \in Nat
    /\ SegmentLen \subseteq Nat \ {0}
<1>1. \A m, n \in Nat : m * n \in Nat
  OBVIOUS
<1> QED
  BY <1>1, DynaSwapV2Assumption DEF Sectors

USE SizeOK

-----------------------------------------------------------------------------
(* What ties the steps of the worker to the request it serves.             *)

(* Only a write is left in the middle of a segment, and it is the request  *)
(* at the head of the queue.                                               *)
Current ==
    step # "segment" =>
        /\ queue # <<>> /\ Head(queue) \in Tag
        /\ rq[Head(queue)].op = "write"
        /\ rq[Head(queue)].i < rq[Head(queue)].end

Payload == \A t \in Tag : rq[t].op = "write" => rq[t].val \in Val

IInv == TypeOK /\ FileBounded /\ Current /\ Payload

LEMMA Writing ==
    ASSUME IInv, NEW t \in Tag, Running(t), step # "segment"
    PROVE  /\ rq[t] \in RequestType /\ rq[t].op = "write"
           /\ rq[t].i \in Sector /\ rq[t].i < rq[t].end
           /\ rq[t].val \in Val
<1>1. rq[t] \in RequestType
  BY DEF IInv, TypeOK
<1> QED
  BY <1>1 DEF IInv, Current, Payload, Running, RequestType, Sector

(* A new item at the end of the queue leaves the one that runs in place.   *)
LEMMA QueuedOK ==
    ASSUME NEW T, queue \in Seq(T), NEW item \in T
    PROVE  /\ Queued(item) \in Seq(T)
           /\ queue # <<>> => /\ Queued(item) # <<>>
                              /\ Head(Queued(item)) = Head(queue)
BY DEF Queued

LEMMA SubmitOK ==
    ASSUME IInv, NEW t \in Tag, NEW op \in {"read", "write", "discard"},
           NEW first \in 0 .. Sectors, NEW end \in 0 .. Sectors,
           NEW v \in Val \cup {Zero}, op = "write" => v \in Val,
           Submit(t, op, first, end, v)
    PROVE  IInv'
<1> DEFINE r == [Idle EXCEPT !.op = op, !.i = first, !.end = end, !.val = v]
<1>1. r \in RequestType
  BY DEF Idle, RequestType, ZeroPage, Content
<1>2. rq' = [rq EXCEPT ![t] = r] /\ rq \in [Tag -> RequestType]
  BY DEF Submit, IInv, TypeOK
<1>3. r.op = op /\ r.val = v
  BY DEF Idle
<1>4. /\ queue' \in Seq(Tag \cup {"extend"})
      /\ queue # <<>> => queue' # <<>> /\ Head(queue') = Head(queue)
  BY QueuedOK DEF Submit, IInv, TypeOK
<1> HIDE DEF r
<1>5. rq' \in [Tag -> RequestType]
  BY <1>1, <1>2
<1>6. TypeOK' /\ FileBounded'
  BY <1>4, <1>5 DEF IInv, TypeOK, FileBounded, Submit, manager, storage
<1>7. Current'
  BY <1>2, <1>4 DEF IInv, Current, Submit
<1>8. Payload'
  BY <1>2, <1>3 DEF IInv, Payload
<1> QED
  BY <1>6, <1>7, <1>8 DEF IInv

LEMMA SubmissionOK ==
    ASSUME IInv, NEW t \in Tag, SubmitTransfer(t) \/ SubmitDiscard(t)
    PROVE  IInv'
<1>1. CASE SubmitTransfer(t)
  <2>1. PICK op \in {"read", "write"}, first \in Sector, n \in 1 .. MaxSectors,
             v \in Val : /\ first + n <= Sectors
                         /\ Submit(t, op, first, first + n,
                                   IF op = "write" THEN v ELSE Zero)
    BY <1>1 DEF SubmitTransfer
  <2>2. MaxSectors \in Nat
    BY DynaSwapV2Assumption
  <2>3. first \in 0 .. Sectors /\ first + n \in 0 .. Sectors
    BY <2>1, <2>2 DEF Sector
  <2> QED
    BY <2>1, <2>3, SubmitOK
<1>2. CASE SubmitDiscard(t)
  <2>1. PICK first \in 0 .. Sectors, end \in 0 .. Sectors :
             Submit(t, "discard", first, end, Zero)
    BY <1>2 DEF SubmitDiscard
  <2> QED
    BY <2>1, SubmitOK
<1> QED
  BY <1>1, <1>2

-----------------------------------------------------------------------------
(* The worker.                                                             *)

LEMMA ExtendOK ==
    ASSUME IInv, Extend
    PROVE  /\ total_slots' \in Nat /\ total_slots' <= NPages
           /\ total_slots <= total_slots'
           /\ file_slots' \in Nat /\ file_slots' <= NPages + ChunkSlots
BY DEF IInv, TypeOK, FileBounded, Extend, ExtendedSlots, ExtendedFile, MinOf, MaxOf

(* A segment that ends, with or without an error.                          *)
LEMMA MovedOK ==
    ASSUME IInv, NEW t \in Tag, NEW len, NEW got \in [Unit -> Content],
           Moved(t, len, got)
    PROVE  /\ rq' \in [Tag -> RequestType] /\ Payload'
           /\ step' = "segment" /\ slot' = Unmapped
<1>1. rq \in [Tag -> RequestType] /\ rq[t] \in RequestType
  BY DEF IInv, TypeOK
<1>2. PICK i \in 0 .. Sectors : i = rq[t].i + len
  BY <1>1 DEF Moved, RequestType
<1>3. rq' = [rq EXCEPT ![t] = [rq[t] EXCEPT !.i = i, !.got = got]]
  BY <1>1, <1>2 DEF Moved
<1>4. [rq[t] EXCEPT !.i = i, !.got = got] \in RequestType
  BY <1>1 DEF RequestType
<1>5. Payload'
  BY <1>1, <1>3 DEF IInv, Payload, RequestType
<1> QED
  BY <1>1, <1>3, <1>4, <1>5 DEF Moved

LEMMA FailedOK ==
    ASSUME IInv, NEW t \in Tag, NEW status \in {"IOERR", "NOSPC", "RESOURCE"},
           Failed(t, status)
    PROVE  /\ rq' \in [Tag -> RequestType] /\ Payload'
           /\ step' = "segment" /\ slot' = Unmapped
<1>1. rq \in [Tag -> RequestType] /\ rq[t] \in RequestType
  BY DEF IInv, TypeOK
<1>2. PICK i \in 0 .. Sectors : i = rq[t].end
  BY <1>1 DEF RequestType
<1>3. PICK got \in [Unit -> Content] : got = ZeroPage
  BY DEF ZeroPage, Content
<1>4. rq' = [rq EXCEPT ![t] = [rq[t] EXCEPT !.i = i, !.status = status,
                                            !.got = got]]
  BY <1>1, <1>2, <1>3 DEF Failed, Broken
<1>5. [rq[t] EXCEPT !.i = i, !.status = status, !.got = got] \in RequestType
  BY <1>1 DEF RequestType
<1>6. Payload'
  BY <1>1, <1>4 DEF IInv, Payload, RequestType
<1> QED
  BY <1>1, <1>4, <1>5, <1>6 DEF Failed

LEMMA Free ==
    ASSUME IInv, NEW s \in FreeSlots
    PROVE  s \in Slot /\ s \notin slot_bitmap /\ HintAfter(s) \in Slot
<1>1. total_slots \in 1 .. NPages /\ s \in 0 .. total_slots - 1
  BY DEF IInv, TypeOK, FileBounded, FreeSlots
<1>2. (s + 1) % total_slots \in 0 .. total_slots - 1
  BY <1>1
<1> QED
  BY <1>1, <1>2 DEF FreeSlots, HintAfter, Slot

(* A step that leaves the request alone and moves on to `label'.           *)
LEMMA WriteOK ==
    ASSUME IInv, NEW t \in Tag,
           WriteExtend(t) \/ ReuseSlot(t) \/ ReserveSlot(t) \/ NoSlot(t) \/ Store(t)
    PROVE  IInv'
<1>1. CASE WriteExtend(t)
  <2>1. /\ total_slots' \in Nat /\ total_slots' <= NPages
        /\ file_slots' \in Nat /\ file_slots' <= NPages + ChunkSlots
    BY <1>1, ExtendOK DEF WriteExtend, IInv, TypeOK, FileBounded
  <2>2. /\ queue' \in Seq(Tag \cup {"extend"})
        /\ queue' # <<>> /\ Head(queue') = t
    <3>1. Head(queue) = t /\ queue # <<>> /\ queue \in Seq(Tag \cup {"extend"})
      BY <1>1 DEF WriteExtend, Segment, Running, IInv, TypeOK
    <3>2. queue' = queue \/ queue' = Queued("extend")
      BY <1>1 DEF WriteExtend, QueuedExtend
    <3> QED
      BY <3>1, <3>2, QueuedOK
  <2>3. slot' = Unmapped /\ step' = "reserve"
    BY <1>1 DEF WriteExtend, Segment, IInv, TypeOK
  <2>4. TypeOK' /\ FileBounded'
    BY <1>1, <2>1, <2>2, <2>3 DEF WriteExtend, manager, IInv, TypeOK, FileBounded
  <2>5. Current' /\ Payload'
    BY <1>1, <2>2 DEF WriteExtend, Segment, IInv, Current, Payload
  <2> QED
    BY <2>4, <2>5 DEF IInv
<1>2. CASE ReuseSlot(t)
  <2>1. slot' \in Slot
    BY <1>2, Writing DEF ReuseSlot, Reserving, Found, IInv, TypeOK
  <2>2. slot' # Unmapped
    BY <2>1 DEF Slot, Unmapped
  <2> QED
    BY <1>2, <2>1, <2>2, Writing DEF ReuseSlot, Reserving, Running, manager, storage,
       IInv, TypeOK, FileBounded, Current, Payload
<1>3. CASE ReserveSlot(t)
  <2>1. PICK s \in FreeSlots :
          /\ slot_bitmap' = slot_bitmap \cup {s}
          /\ bitmap_hint' = HintAfter(s)
          /\ active_slots' = active_slots + 1
          /\ \/ /\ slot_bimap' = Inserted(t, s)
                /\ step' = "store" /\ slot' = s /\ UNCHANGED rq
             \/ Failed(t, "RESOURCE") /\ UNCHANGED slot_bimap
    BY <1>3 DEF ReserveSlot
  <2>2. s \in Slot /\ HintAfter(s) \in Slot
    BY Free
  <2>3. /\ slot_bitmap' \subseteq Slot /\ bitmap_hint' \in Slot
        /\ active_slots' \in Nat
        /\ slot_bimap' \in [Sector -> Slot \cup {Unmapped}]
    BY <2>1, <2>2 DEF IInv, TypeOK, Inserted
  <2>4. CASE step' = "store" /\ slot' = s /\ UNCHANGED rq
    <3>1. slot' # Unmapped
      BY <2>2, <2>4 DEF Slot, Unmapped
    <3> QED
      BY <1>3, <2>2, <2>3, <2>4, <3>1, Writing DEF ReserveSlot, Reserving, Running,
         storage, IInv, TypeOK, FileBounded, Current, Payload
  <2>5. CASE Failed(t, "RESOURCE")
    BY <1>3, <2>3, <2>5, FailedOK DEF ReserveSlot, storage, IInv, TypeOK,
       FileBounded, Current
  <2> QED
    BY <2>1, <2>4, <2>5
<1>4. CASE NoSlot(t)
  BY <1>4, FailedOK DEF NoSlot, manager, storage, IInv, TypeOK, FileBounded, Current
<1>5. CASE Store(t)
  <2>1. PICK len \in SegmentLen, at \in SegmentOffset :
          /\ rq[t].i + len <= rq[t].end
          /\ \/ /\ file' = [file EXCEPT ![slot] =
                               MemoryPage(rq[t].i, len, at, rq[t].val)]
                /\ file_slots' = MaxOf(file_slots, slot + 1)
             \/ UNCHANGED storage
          /\ Moved(t, len, ZeroPage) \/ Failed(t, "IOERR")
    BY <1>5 DEF Store
  <2>2. rq[t] \in RequestType /\ rq[t].i \in Sector /\ rq[t].val \in Val
    BY <1>5, Writing DEF Store
  <2>3. slot \in Slot
    BY <1>5 DEF Store, IInv, TypeOK
  <2>4. MemoryPage(rq[t].i, len, at, rq[t].val) \in [Unit -> Content]
    <3>1. PICK i \in Sector, end \in 0 .. Sectors : i = rq[t].i /\ end = rq[t].end
      BY <2>2 DEF RequestType
    <3>2. len \in Nat /\ i + len <= end
      BY <2>1, <3>1
    <3>3. \A u \in Unit : at <= u /\ u < at + len => i + u - at \in Sector
      BY <3>2, DynaSwapV2Assumption DEF Sector, Unit
    <3> QED
      BY <2>2, <3>1, <3>3 DEF MemoryPage, Content
  <2>5. /\ file' \in [Slot -> [Unit -> Content]]
        /\ file_slots' \in Nat /\ file_slots' <= NPages + ChunkSlots
    <3>1. MaxOf(file_slots, slot + 1) \in Nat
      BY <2>3 DEF IInv, TypeOK, MaxOf, Slot
    <3>2. MaxOf(file_slots, slot + 1) <= NPages + ChunkSlots
      BY <2>3 DEF IInv, TypeOK, FileBounded, MaxOf, Slot
    <3>3. /\ file_slots \in Nat /\ file_slots <= NPages + ChunkSlots
          /\ file \in [Slot -> [Unit -> Content]]
      BY DEF IInv, TypeOK, FileBounded
    <3> QED
      BY <2>1, <2>3, <2>4, <3>1, <3>2, <3>3 DEF storage
  <2>6. ZeroPage \in [Unit -> Content]
    BY DEF ZeroPage, Content
  <2>7. /\ rq' \in [Tag -> RequestType] /\ Payload'
        /\ step' = "segment" /\ slot' = Unmapped
    BY <2>1, <2>6, MovedOK, FailedOK
  <2> QED
    BY <1>5, <2>5, <2>7 DEF Store, manager, IInv, TypeOK, FileBounded, Current
<1> QED
  BY <1>1, <1>2, <1>3, <1>4, <1>5

(* What a read hands over is contents.                                     *)
LEMMA SegmentOfOK ==
    ASSUME NEW contents \in [Unit -> Content], NEW at
    PROVE  SegmentOf(contents, at) \in [Unit -> Content]
BY DEF SegmentOf, Content

LEMMA ReadOK ==
    ASSUME IInv, NEW t \in Tag, ReadUnmapped(t) \/ ReadSlot(t) \/ Discard(t)
    PROVE  IInv'
<1>1. ZeroPage \in [Unit -> Content]
  BY DEF ZeroPage, Content
<1>2. CASE ReadUnmapped(t)
  <2>1. PICK len \in SegmentLen, at \in SegmentOffset :
          Moved(t, len, SegmentOf(ZeroPage, at))
    BY <1>2 DEF ReadUnmapped
  <2>2. SegmentOf(ZeroPage, at) \in [Unit -> Content]
    BY <1>1, SegmentOfOK
  <2> QED
    BY <1>2, <2>1, <2>2, MovedOK DEF ReadUnmapped, manager, storage, IInv, TypeOK,
       FileBounded, Current
<1>3. CASE ReadSlot(t)
  <2>1. /\ rq[t].i \in Sector
        /\ file[slot_bimap[rq[t].i]] \in [Unit -> Content]
    <3>1. rq[t].i \in Sector
      BY <1>3 DEF ReadSlot, Segment, IInv, TypeOK, RequestType, Sector
    <3> QED
      BY <1>3, <3>1 DEF ReadSlot, Found, IInv, TypeOK
  <2>2. \/ \E len \in SegmentLen, at \in SegmentOffset :
               Moved(t, len, SegmentOf(file[slot_bimap[rq[t].i]], at))
        \/ Failed(t, "IOERR")
    BY <1>3 DEF ReadSlot
  <2>3. \A at : SegmentOf(file[slot_bimap[rq[t].i]], at) \in [Unit -> Content]
    BY <2>1, SegmentOfOK
  <2>4. /\ rq' \in [Tag -> RequestType] /\ Payload'
        /\ step' = "segment" /\ slot' = Unmapped
    BY <2>2, <2>3, MovedOK, FailedOK
  <2> QED
    BY <1>3, <2>4 DEF ReadSlot, manager, storage, IInv, TypeOK, FileBounded, Current
<1>4. CASE Discard(t)
  <2>1. rq \in [Tag -> RequestType] /\ rq[t] \in RequestType
    BY DEF IInv, TypeOK
  <2>2. PICK i \in 0 .. Sectors : i = rq[t].end
    BY <2>1 DEF RequestType
  <2>3. rq' = [rq EXCEPT ![t] = [rq[t] EXCEPT !.i = i]]
    BY <1>4, <2>1, <2>2 DEF Discard
  <2>4. [rq[t] EXCEPT !.i = i] \in RequestType
    BY <2>1 DEF RequestType
  <2>5. rq' \in [Tag -> RequestType] /\ Payload'
    BY <2>1, <2>3, <2>4 DEF IInv, Payload, RequestType
  <2> QED
    BY <1>4, <2>5 DEF Discard, Segment, manager, storage, IInv, TypeOK, FileBounded,
       Current
<1> QED
  BY <1>2, <1>3, <1>4

LEMMA EndOK ==
    ASSUME IInv, RunExtend \/ \E t \in Tag : Complete(t)
    PROVE  IInv'
<1>1. queue # <<>> /\ Tail(queue) \in Seq(Tag \cup {"extend"})
  BY DEF RunExtend, Complete, Running, IInv, TypeOK
<1>2. CASE RunExtend
  <2>1. step = "segment"
    BY <1>2, DynaSwapV2Assumption DEF RunExtend, Running, IInv, Current
  <2> QED
    BY <1>1, <1>2, <2>1, ExtendOK DEF RunExtend, manager, IInv, TypeOK, FileBounded,
       Current, Payload
<1>3. ASSUME NEW t \in Tag, Complete(t) PROVE IInv'
  <2>1. Idle \in RequestType /\ Idle.op = "none"
    BY DEF Idle, RequestType, ZeroPage, Content
  <2> QED
    BY <1>1, <1>3, <2>1 DEF Complete, manager, storage, IInv, TypeOK, FileBounded,
       Current, Payload
<1> QED
  BY <1>2, <1>3

LEMMA InitOK == Init => IInv
<1> SUFFICES ASSUME Init PROVE IInv
  OBVIOUS
<1>1. Idle \in RequestType /\ Idle.op = "none"
  BY DEF Idle, RequestType, ZeroPage, Content
<1>2. /\ total_slots \in Nat /\ total_slots <= NPages
      /\ file_slots \in Nat /\ file_slots <= NPages + ChunkSlots
  BY DEF Init, MinOf
<1>3. file \in [Slot -> [Unit -> Content]]
  BY DEF Init, ZeroPage, Content
<1>4. slot \in Slot \cup {Unmapped} /\ (step = "store" <=> slot # Unmapped)
  BY DEF Init
<1>5. /\ queue \in Seq(Tag \cup {"extend"})
      /\ rq \in [Tag -> RequestType]
      /\ slot_bimap \in [Sector -> Slot \cup {Unmapped}]
      /\ slot_bitmap \subseteq Slot /\ bitmap_hint \in Slot /\ active_slots \in Nat
  BY <1>1 DEF Init, Slot
<1>6. TypeOK /\ FileBounded
  BY <1>2, <1>3, <1>4, <1>5 DEF Init, TypeOK, FileBounded
<1> QED
  BY <1>1, <1>6 DEF Init, IInv, Current, Payload

LEMMA NextOK == IInv /\ [Next]_vars => IInv'
<1> SUFFICES ASSUME IInv, [Next]_vars PROVE IInv'
  OBVIOUS
<1>1. ASSUME NEW t \in Tag, Handle(t) PROVE IInv'
  BY <1>1, WriteOK, ReadOK, EndOK DEF Handle
<1>2. CASE RunExtend
  BY <1>2, EndOK
<1>3. ASSUME NEW t \in Tag, SubmitTransfer(t) \/ SubmitDiscard(t) PROVE IInv'
  BY <1>3, SubmissionOK
<1>4. CASE UNCHANGED vars
  BY <1>4 DEF vars, IInv, TypeOK, FileBounded, Current, Payload
<1> QED
  BY <1>1, <1>2, <1>3, <1>4 DEF Next, Worker

(* Every variable keeps its type, the pool stays within the device and the *)
(* file within the device and one chunk, and the worker within the request *)
(* it carries out.                                                         *)
THEOREM InductiveCorrect == Spec => []IInv
<1>1. Init => IInv
  BY InitOK
<1>2. IInv /\ [Next]_vars => IInv'
  BY NextOK
<1> QED
  BY <1>1, <1>2, PTL DEF Spec

(* The worker stays within the request it carries out: what it looks up is *)
(* a sector of the device, and every variable keeps its type.              *)
THEOREM TypeCorrect == Spec => []TypeOK
<1>1. IInv => TypeOK
  BY DEF IInv
<1> QED
  BY <1>1, InductiveCorrect, PTL

(* The pool stays within the device and the file within the device and one *)
(* chunk, however often an extension is queued, repeated or fails.         *)
THEOREM FileCorrect == Spec => []FileBounded
<1>1. IInv => FileBounded
  BY DEF IInv
<1> QED
  BY <1>1, InductiveCorrect, PTL

-----------------------------------------------------------------------------
(* The bimap.                                                              *)

slots == <<slot_bimap, slot_bitmap, active_slots>>

LEMMA BitmapFinite == IInv => IsFiniteSet(slot_bitmap)
<1>1. IsFiniteSet(Slot)
  BY FS_Interval DEF Slot
<1> QED
  BY <1>1, FS_Subset DEF IInv, TypeOK

LEMMA PoolGrows ==
    ASSUME NEW m \in Nat, NEW n \in Nat, m <= n
    PROVE  0 .. m - 1 \subseteq 0 .. n - 1
OBVIOUS

(* Only a reservation changes what the invariant is about; the pool grows. *)
LEMMA SlotsUnchanged ==
    ASSUME BimapConsistent, IInv, UNCHANGED slots,
           total_slots' \in Nat, total_slots <= total_slots'
    PROVE  BimapConsistent'
<1>1. slot_bitmap' \subseteq 0 .. total_slots' - 1
  <2>1. total_slots \in Nat /\ slot_bitmap' = slot_bitmap
    BY DEF IInv, TypeOK, slots
  <2>2. 0 .. total_slots - 1 \subseteq 0 .. total_slots' - 1
    BY <2>1, PoolGrows
  <2> QED
    BY <2>1, <2>2 DEF BimapConsistent
<1>2. Mapped' = Mapped /\ MappedSlots' = MappedSlots
  BY DEF Mapped, MappedSlots, slots
<1> QED
  BY <1>1, <1>2 DEF BimapConsistent, slots

LEMMA ReservationKeeps ==
    ASSUME BimapConsistent, IInv, NEW t \in Tag, ReserveSlot(t)
    PROVE  BimapConsistent'
<1>1. PICK s \in FreeSlots :
         /\ slot_bitmap' = slot_bitmap \cup {s}
         /\ active_slots' = active_slots + 1
         /\ slot_bimap' = Inserted(t, s) \/ UNCHANGED slot_bimap
  BY DEF ReserveSlot
<1>2. s \in Slot /\ s \notin slot_bitmap /\ s \in 0 .. total_slots - 1
  BY Free DEF FreeSlots
<1>3. total_slots' = total_slots
  BY DEF ReserveSlot
<1>4. active_slots' = Cardinality(slot_bitmap')
  BY <1>1, <1>2, BitmapFinite, FS_AddElement DEF BimapConsistent
<1>5. slot_bitmap' \subseteq 0 .. total_slots' - 1
  BY <1>1, <1>2, <1>3 DEF BimapConsistent
<1>6. CASE UNCHANGED slot_bimap
  <2>1. Mapped' = Mapped /\ MappedSlots' = MappedSlots
    BY <1>6 DEF Mapped, MappedSlots
  <2> QED
    BY <1>1, <1>4, <1>5, <1>6, <2>1 DEF BimapConsistent
<1>7. CASE slot_bimap' = Inserted(t, s)
  <2>1. slot_bimap \in [Sector -> Slot \cup {Unmapped}]
    BY DEF IInv, TypeOK
  <2>2. rq[t].i \in Sector
    BY Writing DEF ReserveSlot, Reserving
  <2>3. \A r \in Sector : slot_bimap'[r] = IF r = rq[t].i THEN s ELSE slot_bimap[r]
    BY <1>7, <2>1, <2>2 DEF Inserted
  <2>4. \A r \in Mapped : slot_bimap[r] \in slot_bitmap
    BY DEF BimapConsistent, MappedSlots
  <2>5. \A r \in Mapped' : r = rq[t].i \/ r \in Mapped
    BY <2>3 DEF Mapped
  <2>6. \A r \in Mapped' : slot_bimap'[r] = IF r = rq[t].i THEN s ELSE slot_bimap[r]
    BY <2>3 DEF Mapped
  <2>7. (\A p, r \in Mapped : slot_bimap[p] = slot_bimap[r] => p = r)'
    BY <1>2, <2>4, <2>5, <2>6 DEF BimapConsistent
  <2>8. \A r \in Mapped' : slot_bimap'[r] \in slot_bitmap'
    BY <1>1, <2>4, <2>5, <2>6
  <2>9. MappedSlots' \subseteq slot_bitmap'
    BY <2>8 DEF MappedSlots
  <2> QED
    BY <1>4, <1>5, <2>7, <2>9 DEF BimapConsistent
<1> QED
  BY <1>1, <1>6, <1>7

(* A slot of the backing file belongs to one key of the bimap, is marked   *)
(* in the bitmap and counted, whichever calls of reserve_slot_sector fail. *)
THEOREM BimapCorrect == Spec => []BimapConsistent
<1>1. Init => BimapConsistent
  <2> SUFFICES ASSUME Init PROVE BimapConsistent
    OBVIOUS
  <2>1. Mapped = {}
    BY DEF Init, Mapped
  <2>2. MappedSlots = {}
    BY <2>1 DEF MappedSlots
  <2> QED
    BY <2>1, <2>2, FS_EmptySet DEF Init, BimapConsistent
<1>2. IInv /\ BimapConsistent /\ [Next]_vars => BimapConsistent'
  <2> SUFFICES ASSUME IInv, BimapConsistent, [Next]_vars PROVE BimapConsistent'
    OBVIOUS
  <2>1. total_slots \in Nat
    BY DEF IInv, TypeOK
  <2>2. ASSUME NEW t \in Tag, WriteExtend(t) PROVE BimapConsistent'
    <3>1. UNCHANGED slots
      BY <2>2 DEF WriteExtend, manager, slots
    <3>2. Extend \/ UNCHANGED total_slots
      BY <2>2 DEF WriteExtend
    <3> QED
      BY <2>1, <3>1, <3>2, ExtendOK, SlotsUnchanged
  <2>3. CASE RunExtend
    <3>1. UNCHANGED slots /\ Extend
      BY <2>3 DEF RunExtend, manager, slots
    <3> QED
      BY <3>1, ExtendOK, SlotsUnchanged
  <2>4. ASSUME NEW t \in Tag, ReserveSlot(t) PROVE BimapConsistent'
    BY <2>4, ReservationKeeps
  <2>5. ASSUME NEW t \in Tag,
               \/ ReuseSlot(t) \/ NoSlot(t) \/ Store(t) \/ ReadUnmapped(t)
               \/ ReadSlot(t) \/ Discard(t) \/ Complete(t)
               \/ SubmitTransfer(t) \/ SubmitDiscard(t)
        PROVE  BimapConsistent'
    <3>1. UNCHANGED slots /\ total_slots' = total_slots
      BY <2>5 DEF ReuseSlot, NoSlot, Store, ReadUnmapped, ReadSlot, Discard, Complete,
         SubmitTransfer, SubmitDiscard, Submit, manager, slots
    <3> QED
      BY <2>1, <3>1, SlotsUnchanged
  <2>6. CASE UNCHANGED vars
    BY <2>1, <2>6, SlotsUnchanged DEF vars, slots
  <2> QED
    BY <2>2, <2>3, <2>4, <2>5, <2>6 DEF Next, Worker, Handle
<1> QED
  BY <1>1, <1>2, InductiveCorrect, PTL DEF Spec
-----------------------------------------------------------------------------
(* A write that is refused, for clients that keep to whole pages.          *)

WholePages ==
    SegmentLen = {PageSectors} /\ SegmentOffset = {0} /\ Align = PageSectors
PageStart(x) == \E q \in Nat : x = q * PageSectors

(* Requests and keys start at pages.                                       *)
OnPages == /\ \A t \in Tag : PageStart(rq[t].i) /\ PageStart(rq[t].end)
           /\ \A s \in Mapped : PageStart(s)

(* dynaswap_write has extended a full pool before it looks for a slot.     *)
Roomy == step = "reserve" => active_slots < total_slots \/ total_slots = NPages

PagesInv == IInv /\ BimapConsistent /\ OnPages /\ Roomy

(* Zero, the start of the next page and every multiple of the size of a    *)
(* page are starts of pages.                                               *)
LEMMA Starts ==
    /\ PageStart(0)
    /\ \A x : PageStart(x) => PageStart(x + PageSectors)
    /\ \A x \in Nat : x % PageSectors = 0 => PageStart(x)
<1>1. PageSectors \in Nat \ {0}
  BY DynaSwapV2Assumption
<1>2. PageStart(0)
  <2>1. 0 = 0 * PageSectors
    BY <1>1
  <2> QED
    BY <2>1 DEF PageStart
<1>3. ASSUME NEW x, PageStart(x) PROVE PageStart(x + PageSectors)
  <2>1. PICK q \in Nat : x = q * PageSectors
    BY <1>3 DEF PageStart
  <2>2. \A n \in Nat : q * n + n = (q + 1) * n
    OBVIOUS
  <2>3. x + PageSectors = (q + 1) * PageSectors /\ q + 1 \in Nat
    BY <1>1, <2>1, <2>2
  <2> QED
    BY <2>3 DEF PageStart
<1>4. ASSUME NEW x \in Nat, x % PageSectors = 0 PROVE PageStart(x)
  <2>1. \A n \in Nat \ {0} : x % n = 0 => x \div n \in Nat /\ x = (x \div n) * n
    OBVIOUS
  <2>2. x \div PageSectors \in Nat /\ x = (x \div PageSectors) * PageSectors
    BY <1>1, <1>4, <2>1
  <2> QED
    BY <2>2 DEF PageStart
<1> QED
  BY <1>2, <1>3, <1>4

(* A page of the device that starts at a sector of it.                     *)
LEMMA PageOf ==
    ASSUME NEW s \in Sector, PageStart(s)
    PROVE  \E p \in 0 .. NPages - 1 : s = p * PageSectors
<1>1. PICK q \in Nat : s = q * PageSectors
  BY DEF PageStart
<1>2. \A m, n \in Nat : \A k \in Nat \ {0} : m >= n => m * k >= n * k
  OBVIOUS
<1>3. q < NPages
  <2>1. PageSectors \in Nat \ {0}
    BY DynaSwapV2Assumption
  <2>2. s < NPages * PageSectors
    BY DEF Sector, Sectors
  <2>3. q >= NPages => q * PageSectors >= NPages * PageSectors
    BY <1>2, <2>1
  <2>4. q * PageSectors \in Nat /\ NPages * PageSectors \in Nat
    BY <2>1, SizeOK DEF Sectors
  <2> QED
    BY <1>1, <2>2, <2>3, <2>4
<1> QED
  BY <1>1, <1>3

(* A segment of a page takes the request to the next page.                 *)
LEMMA MovedTo ==
    ASSUME IInv, WholePages, NEW t \in Tag, NEW len \in SegmentLen,
           NEW got \in [Unit -> Content], Moved(t, len, got), NEW u \in Tag
    PROVE  /\ rq'[u].end = rq[u].end /\ rq'[u].status = rq[u].status
           /\ rq'[u].i = rq[u].i \/ rq'[u].i = rq[u].i + PageSectors
<1>1. rq \in [Tag -> RequestType] /\ rq[t] \in RequestType
  BY DEF IInv, TypeOK
<1>2. PICK i \in 0 .. Sectors : i = rq[t].i + len
  BY <1>1 DEF Moved, RequestType
<1>3. rq' = [rq EXCEPT ![t] = [rq[t] EXCEPT !.i = i, !.got = got]]
  BY <1>1, <1>2 DEF Moved
<1> DEFINE r == [rq[t] EXCEPT !.i = i, !.got = got]
<1>4. r.i = i /\ r.end = rq[t].end /\ r.status = rq[t].status
  BY <1>1 DEF RequestType
<1> HIDE DEF r
<1>5. rq'[u] = IF u = t THEN r ELSE rq[u]
  BY <1>1, <1>3 DEF r
<1>6. i = rq[t].i + PageSectors
  BY <1>2 DEF WholePages
<1> QED
  BY <1>4, <1>5, <1>6

(* An error takes it to its end.                                           *)
LEMMA FailedTo ==
    ASSUME IInv, NEW t \in Tag, NEW status, Failed(t, status), NEW u \in Tag
    PROVE  /\ rq'[u].end = rq[u].end
           /\ rq'[u].i = rq[u].i \/ rq'[u].i = rq[u].end
           /\ rq'[u].status = rq[u].status \/ (u = t /\ rq'[u].status = status)
<1>1. rq \in [Tag -> RequestType] /\ rq[t] \in RequestType
  BY DEF IInv, TypeOK
<1> DEFINE r == [rq[t] EXCEPT !.i = rq[t].end, !.status = status, !.got = ZeroPage]
<1>2. rq' = [rq EXCEPT ![t] = r]
  BY <1>1 DEF Failed, Broken
<1>3. r.i = rq[t].end /\ r.end = rq[t].end /\ r.status = status
  BY <1>1 DEF RequestType
<1> HIDE DEF r
<1>4. CASE u = t
  <2>1. rq'[u] = r
    BY <1>1, <1>2, <1>4
  <2> QED
    BY <1>3, <1>4, <2>1
<1>5. CASE u # t
  <2>1. rq'[u] = rq[u] /\ rq[u] \in RequestType
    BY <1>1, <1>2, <1>5
  <2>2. rq'[u].end = rq[u].end /\ rq'[u].i = rq[u].i /\ rq'[u].status = rq[u].status
    BY <2>1
  <2> QED
    BY <2>2
<1> QED
  BY <1>4, <1>5

(* What a step does to a request: it stays where it is, goes on by a page  *)
(* or to its end, is submitted or is done; only NoSlot refuses it.         *)
LEMMA Progress ==
    ASSUME IInv, WholePages, Next, NEW u \in Tag
    PROVE  /\ \/ /\ rq'[u].end = rq[u].end
                 /\ \/ rq'[u].i = rq[u].i \/ rq'[u].i = rq[u].end
                    \/ rq'[u].i = rq[u].i + PageSectors
              \/ PageStart(rq'[u].i) /\ PageStart(rq'[u].end)
           /\ rq[u].status # "NOSPC" /\ rq'[u].status = "NOSPC" => NoSlot(u)
<1> DEFINE G == /\ \/ /\ rq'[u].end = rq[u].end
                      /\ \/ rq'[u].i = rq[u].i \/ rq'[u].i = rq[u].end
                         \/ rq'[u].i = rq[u].i + PageSectors
                   \/ PageStart(rq'[u].i) /\ PageStart(rq'[u].end)
                /\ rq[u].status # "NOSPC" /\ rq'[u].status = "NOSPC" => NoSlot(u)
<1>1. rq \in [Tag -> RequestType] /\ rq[u] \in RequestType
  BY DEF IInv, TypeOK
<1>2. ZeroPage \in [Unit -> Content]
  BY DEF ZeroPage, Content
<1>3. ASSUME UNCHANGED rq PROVE G
  BY <1>3
<1>4. ASSUME NEW t \in Tag, NEW len \in SegmentLen, NEW got \in [Unit -> Content],
             Moved(t, len, got)
      PROVE  G
  BY <1>4, MovedTo
<1>5. ASSUME NEW t \in Tag, NEW status \in {"IOERR", "RESOURCE"}, Failed(t, status)
      PROVE  G
  <2>1. rq'[u].status = rq[u].status \/ rq'[u].status # "NOSPC"
    BY <1>5, FailedTo
  <2> QED
    BY <1>5, <2>1, FailedTo
<1>6. ASSUME NEW t \in Tag, NoSlot(t) PROVE G
  <2>1. Failed(t, "NOSPC")
    BY <1>6 DEF NoSlot
  <2> QED
    BY <1>6, <2>1, FailedTo
<1>7. ASSUME NEW t \in Tag, NEW op, NEW first \in 0 .. Sectors,
             NEW end \in 0 .. Sectors, NEW v, Submit(t, op, first, end, v)
      PROVE  G
  <2>1. PageStart(first) /\ PageStart(end)
    BY <1>7, Starts DEF Submit, WholePages
  <2> DEFINE r == [Idle EXCEPT !.op = op, !.i = first, !.end = end, !.val = v]
  <2>2. r.i = first /\ r.end = end /\ r.status = "OK"
    BY DEF Idle
  <2>3. rq' = [rq EXCEPT ![t] = r]
    BY <1>7 DEF Submit
  <2> HIDE DEF r
  <2>4. rq'[u] = IF u = t THEN r ELSE rq[u]
    BY <1>1, <2>3
  <2> QED
    BY <2>1, <2>2, <2>4
<1> HIDE DEF G
<1>8. ASSUME NEW t \in Tag, SubmitTransfer(t) \/ SubmitDiscard(t) PROVE G
  <2>1. MaxSectors \in Nat
    BY DynaSwapV2Assumption
  <2> QED
    BY <1>7, <1>8, <2>1 DEF SubmitTransfer, SubmitDiscard, Sector
<1>9. ASSUME NEW t \in Tag, Complete(t) PROVE G
  <2>1. Idle.i = 0 /\ Idle.end = 0 /\ Idle.status = "OK"
    BY DEF Idle
  <2>2. rq'[u] = IF u = t THEN Idle ELSE rq[u]
    BY <1>1, <1>9 DEF Complete
  <2> QED
    BY <2>1, <2>2, Starts DEF G
<1>10. ASSUME NEW t \in Tag, Discard(t) PROVE G
  <2> DEFINE r == [rq[t] EXCEPT !.i = rq[t].end]
  <2>1. rq' = [rq EXCEPT ![t] = r]
    BY <1>1, <1>10 DEF Discard
  <2>2. r.i = rq[t].end /\ r.end = rq[t].end /\ r.status = rq[t].status
    BY <1>1 DEF RequestType
  <2> HIDE DEF r
  <2>3. rq'[u] = IF u = t THEN r ELSE rq[u]
    BY <1>1, <2>1
  <2> QED
    BY <2>2, <2>3 DEF G
<1>11. ASSUME NEW t \in Tag,
              WriteExtend(t) \/ ReuseSlot(t) \/ ReserveSlot(t) \/ Store(t)
       PROVE  G
  <2>1. CASE WriteExtend(t) \/ ReuseSlot(t)
    <3>1. UNCHANGED rq
      BY <2>1 DEF WriteExtend, ReuseSlot
    <3> QED
      BY <1>3, <3>1
  <2>2. CASE ReserveSlot(t)
    <3>1. UNCHANGED rq \/ Failed(t, "RESOURCE")
      BY <2>2 DEF ReserveSlot
    <3> QED
      BY <1>3, <1>5, <3>1
  <2>3. CASE Store(t)
    BY <1>2, <1>4, <1>5, <2>3 DEF Store
  <2> QED
    BY <1>11, <2>1, <2>2, <2>3
<1>12. ASSUME NEW t \in Tag, ReadUnmapped(t) \/ ReadSlot(t) PROVE G
  <2>1. CASE ReadUnmapped(t)
    <3>1. \A at : SegmentOf(ZeroPage, at) \in [Unit -> Content]
      BY <1>2, SegmentOfOK
    <3> QED
      BY <1>4, <2>1, <3>1 DEF ReadUnmapped
  <2>2. CASE ReadSlot(t)
    <3>1. file[slot_bimap[rq[t].i]] \in [Unit -> Content]
      <4>1. rq[t] \in RequestType
        BY <1>1
      <4>2. rq[t].i \in Sector
        BY <2>2, <4>1 DEF ReadSlot, Segment, RequestType, Sector
      <4> QED
        BY <2>2, <4>2 DEF ReadSlot, Found, IInv, TypeOK
    <3>2. \A at : SegmentOf(file[slot_bimap[rq[t].i]], at) \in [Unit -> Content]
      BY <3>1, SegmentOfOK
    <3> QED
      BY <1>4, <1>5, <2>2, <3>2 DEF ReadSlot
  <2> QED
    BY <1>12, <2>1, <2>2
<1>13. ASSUME RunExtend PROVE G
  BY <1>3, <1>13 DEF RunExtend
<1>14. ASSUME NEW t \in Tag, Handle(t) PROVE G
  BY <1>6, <1>9, <1>10, <1>11, <1>12, <1>14 DEF Handle
<1>15. G
  BY <1>8, <1>13, <1>14 DEF Next, Worker
<1> QED
  BY <1>15 DEF G

(* Requests and keys stay on pages: a new key is where a write stands.     *)
LEMMA OnPagesKept ==
    ASSUME IInv, WholePages, OnPages, Next
    PROVE  OnPages'
<1>1. ASSUME NEW u \in Tag PROVE PageStart(rq'[u].i) /\ PageStart(rq'[u].end)
  BY Progress, Starts DEF OnPages
<1>2. UNCHANGED slot_bimap \/ \E t \in Tag, s \in Slot :
          rq[t].i \in Sector /\ slot_bimap' = Inserted(t, s)
  <2>1. ASSUME NEW t \in Tag, ReserveSlot(t), ~ UNCHANGED slot_bimap
        PROVE  \E s \in Slot : rq[t].i \in Sector /\ slot_bimap' = Inserted(t, s)
    <3>1. rq[t].i \in Sector
      BY <2>1, Writing DEF ReserveSlot, Reserving
    <3>2. PICK s \in FreeSlots : slot_bimap' = Inserted(t, s)
      BY <2>1 DEF ReserveSlot
    <3> QED
      BY <3>1, <3>2, Free
  <2>2. ASSUME NEW t \in Tag, Handle(t), ~ ReserveSlot(t)
        PROVE  UNCHANGED slot_bimap
    BY <2>2 DEF Handle, WriteExtend, ReuseSlot, NoSlot, Store, ReadUnmapped, ReadSlot,
       Discard, Complete, manager
  <2>3. RunExtend => UNCHANGED slot_bimap
    BY DEF RunExtend, manager
  <2>4. ASSUME NEW t \in Tag, SubmitTransfer(t) \/ SubmitDiscard(t)
        PROVE  UNCHANGED slot_bimap
    BY <2>4 DEF SubmitTransfer, SubmitDiscard, Submit, manager
  <2> QED
    BY <2>1, <2>2, <2>3, <2>4 DEF Next, Worker
<1>3. \A s \in Mapped' : PageStart(s)
  <2>1. slot_bimap \in [Sector -> Slot \cup {Unmapped}]
    BY DEF IInv, TypeOK
  <2>2. \A s \in Mapped' : s \in Mapped \/ \E t \in Tag : s = rq[t].i
    BY <1>2, <2>1 DEF Mapped, Inserted
  <2> QED
    BY <2>2 DEF OnPages
<1> QED
  BY <1>1, <1>3 DEF OnPages

(* What is reserved is part of the pool.                                   *)
LEMMA InPool ==
    ASSUME IInv, BimapConsistent
    PROVE  /\ active_slots <= total_slots
           /\ FreeSlots = {} => active_slots = total_slots
                                /\ slot_bitmap = 0 .. total_slots - 1
<1>1. total_slots \in Nat
  BY DEF IInv, TypeOK
<1>2. IsFiniteSet(0 .. total_slots - 1)
      /\ Cardinality(0 .. total_slots - 1) = total_slots
  BY <1>1, FS_Interval
<1>3. slot_bitmap \subseteq 0 .. total_slots - 1
      /\ active_slots = Cardinality(slot_bitmap)
  BY DEF BimapConsistent
<1>4. active_slots <= total_slots
  <2>1. Cardinality(slot_bitmap) <= Cardinality(0 .. total_slots - 1)
    BY <1>2, <1>3, FS_Subset
  <2> QED
    BY <1>2, <1>3, <2>1
<1>5. FreeSlots = {} => slot_bitmap = 0 .. total_slots - 1
  BY <1>3 DEF FreeSlots
<1> QED
  BY <1>2, <1>3, <1>4, <1>5

(* Whoever looks for a slot finds one, unless the pool is the device.      *)
LEMMA RoomyKept ==
    ASSUME IInv, BimapConsistent, Roomy, Next
    PROVE  Roomy'
<1>1. /\ active_slots \in Nat /\ total_slots \in Nat
      /\ active_slots <= total_slots /\ total_slots <= NPages
  BY InPool DEF IInv, TypeOK, FileBounded
<1>2. ASSUME NEW t \in Tag, WriteExtend(t) PROVE Roomy'
  BY <1>1, <1>2 DEF WriteExtend, ExtendRequired, ExtendNeeded, Extend, ExtendedSlots,
     MinOf, manager, Roomy
<1>3. ASSUME NEW t \in Tag, Handle(t), ~ WriteExtend(t) PROVE step' # "reserve"
  BY <1>3 DEF Handle, ReuseSlot, ReserveSlot, NoSlot, Store, ReadUnmapped, ReadSlot,
     Discard, Complete, Moved, Failed, Segment, Running
<1>4. CASE RunExtend
  BY <1>1, <1>4, DynaSwapV2Assumption
     DEF RunExtend, Running, IInv, Current, Roomy
<1>5. ASSUME NEW t \in Tag, SubmitTransfer(t) \/ SubmitDiscard(t) PROVE Roomy'
  BY <1>5 DEF SubmitTransfer, SubmitDiscard, Submit, manager, Roomy
<1> QED
  BY <1>2, <1>3, <1>4, <1>5 DEF Next, Worker, Roomy

(* Were no slot leaked, each would belong to a page other than the one     *)
(* that is refused, and there are fewer of these than slots.               *)
LEMMA Refused ==
    ASSUME PagesInv, WholePages, NEW t \in Tag, NoSlot(t)
    PROVE  active_slots = NPages /\ Leaked # {}
<1>1. total_slots = NPages /\ active_slots = NPages /\ slot_bitmap = Slot
  <2>1. FreeSlots = {} /\ step = "reserve"
    BY DEF NoSlot, Reserving
  <2> QED
    BY <2>1, InPool DEF PagesInv, IInv, TypeOK, Roomy, Slot
<1>2. ASSUME Leaked = {} PROVE FALSE
  <2> DEFINE Page == 0 .. NPages - 1
             pageOf == [s \in Slot |->
                           CHOOSE p \in Page : /\ p * PageSectors \in Mapped
                                               /\ slot_bimap[p * PageSectors] = s]
  <2>1. \A s \in Slot : \E r \in Mapped : slot_bimap[r] = s
    BY <1>1, <1>2 DEF Leaked, MappedSlots
  <2>2. \A r \in Mapped : r \in Sector /\ PageStart(r)
    BY DEF PagesInv, OnPages, Mapped
  <2>3. ASSUME NEW s \in Slot
        PROVE  \E p \in Page : /\ p * PageSectors \in Mapped
                               /\ slot_bimap[p * PageSectors] = s
    <3>1. PICK r \in Mapped : slot_bimap[r] = s
      BY <2>1
    <3>2. PICK p \in Page : r = p * PageSectors
      BY <2>2, PageOf
    <3> QED
      BY <3>1, <3>2
  <2>4. \A s \in Slot : /\ pageOf[s] \in Page
                        /\ pageOf[s] * PageSectors \in Mapped
                        /\ slot_bimap[pageOf[s] * PageSectors] = s
    BY <2>3
  <2>5. PICK i \in Page : rq[t].i = i * PageSectors
    <3>1. rq[t].i \in Sector
      BY Writing DEF NoSlot, Reserving, PagesInv
    <3> QED
      BY <3>1, PageOf DEF PagesInv, OnPages
  <2>6. i * PageSectors \notin Mapped
    BY <2>5 DEF NoSlot, Found, Mapped
  <2>7. pageOf \in [Slot -> Page \ {i}]
    <3>1. \A s \in Slot : pageOf[s] # i
      BY <2>4, <2>6
    <3> QED
      BY <2>4, <3>1
  <2>8. IsFiniteSet(Slot) /\ Cardinality(Slot) = NPages
    BY FS_Interval DEF Slot
  <2>9. IsFiniteSet(Page) /\ Cardinality(Page) = NPages
    BY FS_Interval
  <2> HIDE DEF pageOf, Page
  <2>10. IsFiniteSet(Page \ {i}) /\ Cardinality(Page \ {i}) = NPages - 1
    BY <2>5, <2>9, FS_RemoveElement
  <2>11. PICK r, s \in Slot : r # s /\ pageOf[r] = pageOf[s]
    BY <2>7, <2>8, <2>10, FS_PigeonHole
  <2> QED
    BY <2>4, <2>11
<1> QED
  BY <1>1, <1>2

(* What holds in every state of such clients.                              *)
LEMMA PagesInvariant ==
    ASSUME WholePages
    PROVE  Spec => []PagesInv
<1>1. Init => OnPages /\ Roomy
  <2> SUFFICES ASSUME Init PROVE OnPages /\ Roomy
    OBVIOUS
  <2>1. \A t \in Tag : rq[t].i = 0 /\ rq[t].end = 0
    BY DEF Init, Idle
  <2>2. Mapped = {}
    BY DEF Init, Mapped
  <2> QED
    BY <2>1, <2>2, Starts DEF Init, OnPages, Roomy
<1>2. IInv /\ BimapConsistent /\ OnPages /\ Roomy /\ [Next]_vars
      => (OnPages /\ Roomy)'
  <2>1. ASSUME OnPages, Roomy, UNCHANGED vars PROVE (OnPages /\ Roomy)'
    BY <2>1 DEF vars, OnPages, Roomy, Mapped
  <2> QED
    BY <2>1, OnPagesKept, RoomyKept
<1>3. IInv /\ BimapConsistent /\ OnPages /\ Roomy => PagesInv
  BY DEF PagesInv
<1> QED
  BY <1>1, <1>2, <1>3, InductiveCorrect, BimapCorrect, PTL DEF Spec

(* A client that keeps to whole pages is refused only after a leak, when   *)
(* every slot of the device is reserved: a full pool is extended before    *)
(* the search, and a device full of pages has a slot for each of them.     *)
THEOREM NoSpaceMeansLeak ==
    ASSUME WholePages
    PROVE  Spec => NoSpaceOnlyByLeak
<1>1. PagesInv /\ [Next]_vars =>
          [\A t \in Tag : rq[t].status # "NOSPC" /\ rq'[t].status = "NOSPC" =>
               active_slots = NPages /\ Leaked # {}]_vars
  <2> SUFFICES ASSUME PagesInv, Next, NEW t \in Tag,
                      rq[t].status # "NOSPC", rq'[t].status = "NOSPC"
               PROVE  active_slots = NPages /\ Leaked # {}
    OBVIOUS
  <2>1. NoSlot(t)
    BY Progress DEF PagesInv
  <2> QED
    BY <2>1, Refused
<1> QED
  BY <1>1, PagesInvariant, PTL DEF Spec, NoSpaceOnlyByLeak

-----------------------------------------------------------------------------
(* The queue and the one worker, for any clients.                          *)

(* What each step of the worker but the last leaves of the request.        *)
LEMMA OpKept ==
    ASSUME IInv, NEW t \in Tag, Handle(t), ~Complete(t)
    PROVE  /\ queue # <<>> /\ Head(queue) = t
           /\ queue' = queue \/ queue' = QueuedExtend
           /\ \A u \in Tag : rq'[u].op = rq[u].op /\ (u # t => rq'[u] = rq[u])
<1>1. rq \in [Tag -> RequestType]
  BY DEF IInv, TypeOK
<1>2. CASE WriteExtend(t) \/ ReuseSlot(t)
  BY <1>2 DEF WriteExtend, ReuseSlot, Reserving, Segment, Running
<1>3. ASSUME \E status : rq' = Broken(t, status)
      PROVE  \A u \in Tag : rq'[u].op = rq[u].op /\ (u # t => rq'[u] = rq[u])
  <2>1. PICK status : rq' = [rq EXCEPT ![t].i = rq[t].end, ![t].status = status,
                                       ![t].got = ZeroPage]
    BY <1>3, Zenon DEF Broken
  <2>2. rq'[t].op = rq[t].op
    BY <1>1, <2>1 DEF RequestType
  <2>3. \A u \in Tag : u # t => rq'[u] = rq[u]
    BY <1>1, <2>1
  <2> QED
    BY <2>2, <2>3
<1>4. CASE ReserveSlot(t) \/ NoSlot(t)
  <2>1. UNCHANGED rq \/ \E status : rq' = Broken(t, status)
    BY <1>4 DEF ReserveSlot, NoSlot, Failed
  <2>2. UNCHANGED queue /\ Running(t)
    BY <1>4 DEF ReserveSlot, NoSlot, Reserving
  <2> QED
    BY <1>3, <2>1, <2>2 DEF Running
<1>5. CASE Store(t) \/ ReadUnmapped(t) \/ ReadSlot(t)
  <2>1. (\E len, got : Moved(t, len, got)) \/ \E status : Failed(t, status)
    BY <1>5 DEF Store, ReadUnmapped, ReadSlot
  <2>2. ASSUME NEW len, NEW got, Moved(t, len, got)
        PROVE  \A u \in Tag : rq'[u].op = rq[u].op /\ (u # t => rq'[u] = rq[u])
    BY <1>1, <2>2 DEF Moved, RequestType
  <2>3. UNCHANGED queue /\ Running(t)
    BY <1>5 DEF Store, ReadUnmapped, ReadSlot, Segment
  <2> QED
    BY <1>3, <2>1, <2>2, <2>3 DEF Running, Failed
<1>6. CASE Discard(t)
  BY <1>1, <1>6 DEF Discard, Segment, Running, RequestType
<1> QED
  BY <1>2, <1>4, <1>5, <1>6 DEF Handle

(* A request that is served one segment further, or broken off.            *)
LEMMA FewerLeft ==
    ASSUME IInv, NEW t \in Tag, rq[t].i < rq[t].end, step' = "segment",
           NEW i \in Nat, rq[t].i < i, i <= rq[t].end,
           rq'[t].i = i, rq'[t].end = rq[t].end
    PROVE  StepsLeft(t)' \in 0 .. StepsLeft(t) - 1
<1>1. /\ rq[t].i \in Nat /\ rq[t].end \in Nat
      /\ step \in {"segment", "reserve", "store"}
  BY DEF IInv, TypeOK, RequestType
<1>2. /\ StepsLeft(t)' = 3 * (rq[t].end - i) + 2
      /\ StepsLeft(t) \in Nat /\ StepsLeft(t) >= 3 * (rq[t].end - rq[t].i)
  BY <1>1 DEF StepsLeft
<1> QED
  BY <1>1, <1>2

LEMMA MovedNearer ==
    ASSUME IInv, NEW t \in Tag, NEW len \in SegmentLen, NEW got, Moved(t, len, got)
    PROVE  StepsLeft(t)' \in 0 .. StepsLeft(t) - 1
<1>1. rq[t] \in RequestType /\ rq \in [Tag -> RequestType]
  BY DEF IInv, TypeOK
<1>2. /\ rq'[t].i = rq[t].i + len /\ rq'[t].end = rq[t].end /\ step' = "segment"
      /\ rq[t].i + len <= rq[t].end
  BY <1>1 DEF Moved, RequestType
<1>3. rq[t].i \in Nat /\ rq[t].end \in Nat /\ len \in Nat \ {0}
  BY <1>1 DEF RequestType
<1> QED
  BY <1>2, <1>3, FewerLeft

LEMMA FailedNearer ==
    ASSUME IInv, NEW t \in Tag, rq[t].i < rq[t].end, NEW status, Failed(t, status)
    PROVE  StepsLeft(t)' \in 0 .. StepsLeft(t) - 1
<1>1. rq[t] \in RequestType /\ rq \in [Tag -> RequestType]
  BY DEF IInv, TypeOK
<1>2. rq' = [rq EXCEPT ![t].i = rq[t].end, ![t].status = status, ![t].got = ZeroPage]
      /\ step' = "segment"
  BY Zenon DEF Failed, Broken
<1>3. rq'[t].i = rq[t].end /\ rq'[t].end = rq[t].end
  BY <1>1, <1>2 DEF RequestType
<1>4. rq[t].end \in Nat /\ rq[t].end <= rq[t].end
  BY <1>1 DEF RequestType
<1>5. step' = "segment"
  BY <1>2
<1> QED
  BY <1>3, <1>4, <1>5, FewerLeft

LEMMA HandleNearer ==
    ASSUME IInv, NEW t \in Tag, Handle(t), ~Complete(t)
    PROVE  \/ rq'[t] = rq[t] /\ step' = step
           \/ StepsLeft(t)' \in 0 .. StepsLeft(t) - 1
<1>1. /\ rq[t] \in RequestType /\ rq \in [Tag -> RequestType]
      /\ rq[t].i \in Nat /\ rq[t].end \in Nat
  BY DEF IInv, TypeOK, RequestType
<1>2. ASSUME rq' = rq, rq[t].i < rq[t].end,
             \/ step = "segment" /\ step' = "reserve"
             \/ step = "reserve" /\ step' = "store"
      PROVE  StepsLeft(t)' \in 0 .. StepsLeft(t) - 1
  BY <1>1, <1>2 DEF StepsLeft
<1>3. CASE WriteExtend(t)
  BY <1>2, <1>3 DEF WriteExtend, Segment
<1>4. CASE ReuseSlot(t)
  BY <1>2, <1>4, Writing DEF ReuseSlot, Reserving
<1>5. CASE ReserveSlot(t)
  <2>1. step = "reserve" /\ rq[t].i < rq[t].end
    BY <1>5, Writing DEF ReserveSlot, Reserving
  <2>2. (rq' = rq /\ step' = "store") \/ Failed(t, "RESOURCE")
    BY <1>5 DEF ReserveSlot
  <2> QED
    BY <1>2, <2>1, <2>2, FailedNearer
<1>6. CASE NoSlot(t)
  BY <1>6, Writing, FailedNearer DEF NoSlot, Reserving
<1>7. CASE Store(t)
  <2>1. rq[t].i < rq[t].end
    BY <1>7, Writing DEF Store
  <2>2. (\E len \in SegmentLen : Moved(t, len, ZeroPage)) \/ Failed(t, "IOERR")
    BY <1>7 DEF Store
  <2> QED
    BY <2>1, <2>2, MovedNearer, FailedNearer
<1>8. CASE ReadUnmapped(t) \/ ReadSlot(t)
  <2>1. rq[t].i < rq[t].end
    BY <1>8 DEF ReadUnmapped, ReadSlot, Segment
  <2>2. (\E len \in SegmentLen : \E got : Moved(t, len, got)) \/ Failed(t, "IOERR")
    BY <1>8 DEF ReadUnmapped, ReadSlot
  <2> QED
    BY <2>1, <2>2, MovedNearer, FailedNearer
<1>9. CASE Discard(t)
  <2>1. /\ rq'[t].i = rq[t].end /\ rq'[t].end = rq[t].end
        /\ step' = "segment" /\ rq[t].i < rq[t].end
    BY <1>1, <1>9 DEF Discard, Segment, RequestType
  <2> QED
    BY <1>1, <2>1, FewerLeft
<1> QED
  BY <1>3, <1>4, <1>5, <1>6, <1>7, <1>8, <1>9 DEF Handle

(* What is queued is served in its order, and every step of the worker     *)
(* brings the request it serves nearer to its end, also one that fails.    *)
THEOREM InOrder == Spec => ServedInOrder
<1> DEFINE Step ==
      /\ \/ queue' = queue
         \/ queue' \in {Append(queue, item) : item \in Tag \cup {"extend"}}
         \/ queue' = Tail(queue)
      /\ \A t \in Tag : rq[t].op # "none" =>
             IF Running(t) THEN Nearer(t) ELSE rq'[t] = rq[t]
<1>1. IInv /\ [Next]_vars => [Step]_vars
  <2> SUFFICES ASSUME IInv, Next PROVE Step
    OBVIOUS
  <2>1. /\ queue \in Seq(Tag \cup {"extend"}) /\ rq \in [Tag -> RequestType]
        /\ "extend" \notin Tag
    BY DynaSwapV2Assumption DEF IInv, TypeOK
  <2>2. ASSUME queue # <<>>,
               queue' = queue \/ \E item \in Tag \cup {"extend"} : queue' = Append(queue, item)
        PROVE  queue' # Tail(queue)
    <3>1. Len(Tail(queue)) = Len(queue) - 1 /\ Len(queue) \in Nat
      BY <2>1, <2>2, HeadTailProperties
    <3>2. Len(queue') \in {Len(queue), Len(queue) + 1}
      BY <2>1, <2>2
    <3> QED
      BY <3>1, <3>2
  <2>3. ASSUME NEW t \in Tag, Handle(t), ~Complete(t)
        PROVE  Step
    <3>1. /\ queue # <<>> /\ Head(queue) = t
          /\ queue' = queue \/ queue' = Append(queue, "extend")
          /\ \A u \in Tag : u # t => rq'[u] = rq[u]
      BY <2>3, OpKept DEF QueuedExtend, Queued
    <3>2. Nearer(t)
      BY <2>2, <2>3, <3>1, HandleNearer DEF Nearer
    <3> QED
      BY <3>1, <3>2 DEF Running
  <2>4. ASSUME NEW t \in Tag, Complete(t)
        PROVE  Step
    <3>1. /\ Running(t) /\ queue' = Tail(queue) /\ rq'[t].op = "none"
          /\ \A u \in Tag : u # t => rq'[u] = rq[u]
      BY <2>1, <2>4 DEF Complete, Running, Idle
    <3>2. Nearer(t)
      BY <3>1 DEF Nearer
    <3> QED
      BY <3>1, <3>2 DEF Running
  <2>5. CASE RunExtend
    <3>1. Head(queue) = "extend" /\ queue' = Tail(queue) /\ rq' = rq
      BY <2>5 DEF RunExtend, Running
    <3>2. \A t \in Tag : ~Running(t) /\ rq'[t] = rq[t]
      BY <2>1, <3>1 DEF Running
    <3> QED
      BY <3>1, <3>2
  <2>6. ASSUME NEW t \in Tag, SubmitTransfer(t) \/ SubmitDiscard(t)
        PROVE  Step
    <3>1. \E op, first, end, v : Submit(t, op, first, end, v)
      BY <2>6 DEF SubmitTransfer, SubmitDiscard
    <3>2. /\ queue' = Append(queue, t) /\ rq[t].op = "none" /\ step' = step
          /\ \A u \in Tag : u # t => rq'[u] = rq[u]
      BY <2>1, <3>1 DEF Submit, Queued
    <3> QED
      BY <2>2, <3>2 DEF Nearer, Running
  <2> QED
    BY <2>3, <2>4, <2>5, <2>6 DEF Next, Worker
<1> QED
  BY <1>1, InductiveCorrect, PTL DEF Spec, ServedInOrder
=============================================================================
