---------------------------- MODULE DynaMapProofs ----------------------------
(***************************************************************************)
(* Theorems about DynaMap for every size of the device, of the chunks and  *)
(* of the batches, any number of requests and every fault.                 *)
(***************************************************************************)
EXTENDS DynaMap, FiniteSetTheorems, TLAPS

LEMMA SizeOK == NPages \in Nat
BY DynaMapAssumption

USE SizeOK

-----------------------------------------------------------------------------
(* The requests in flight.                                                 *)

(* A worker that moves to a label with a request that fits it.             *)
LEMMA StepOK ==
    ASSUME RequestsOK, NEW t \in Tag, NEW label \in Label,
           NEW r \in RequestType, Fits(label, r),
           pc' = [pc EXCEPT ![t] = label], rq' = [rq EXCEPT ![t] = r]
    PROVE  RequestsOK'
BY DEF RequestsOK

(* A segment that ends leaves a request of the right shape.                *)
LEMMA ResultOK ==
    ASSUME NEW r \in RequestType, r.op # "none", r.i < r.end,
           r.op = "write" => r.val \in Val,
           NEW status \in {"OK", "IOERR", "NOSPC"}, NEW got \in Data,
           NEW lost \in SUBSET {r.i}
    PROVE  /\ Result(r, status, got, lost) \in RequestType
           /\ Fits("next", Result(r, status, got, lost))
<1>1. r.i + 1 \in 0 .. NPages /\ r.i \in Page
  BY DEF RequestType, Page
<1>2. PICK failed \in SUBSET Page : failed = r.failed \cup lost
  BY <1>1 DEF RequestType
<1>3. PICK i \in 0 .. NPages : i = r.i + 1
  BY <1>1
<1>4. Result(r, status, got, lost) =
        [r EXCEPT !.i = i, !.status = status, !.got = got, !.total = 0,
                  !.p_slot = Unmapped, !.fresh = FALSE, !.failed = failed]
  BY <1>2, <1>3 DEF Result
<1>5. 0 \in 0 .. NPages
  OBVIOUS
<1>6. Result(r, status, got, lost) \in RequestType
  BY <1>4, <1>5 DEF RequestType
<1>7. Fits("next", Result(r, status, got, lost))
  BY <1>3, <1>4 DEF Fits, RequestType
<1> QED
  BY <1>6, <1>7

LEMMA TransferredOK ==
    ASSUME RequestsOK, NEW t \in Tag, rq[t].i < rq[t].end, pc[t] # "free",
           NEW status \in {"OK", "IOERR", "NOSPC"}, NEW got \in Data,
           NEW lost \in SUBSET {rq[t].i}, Transferred(t, status, got, lost)
    PROVE  RequestsOK'
<1>1. /\ rq[t] \in RequestType /\ rq[t].op # "none"
      /\ rq[t].op = "write" => rq[t].val \in Val
  BY DEF RequestsOK, Fits
<1>2. "next" \in Label
  BY DEF Label
<1> QED
  BY <1>1, <1>2, ResultOK, StepOK DEF Transferred

LEMMA IdleOK == Idle \in RequestType /\ Fits("free", Idle)
BY DEF Idle, RequestType, Fits, Data

LEMMA SubmitOK ==
    ASSUME RequestsOK, NEW t \in Tag, NEW op \in {"read", "write", "discard"},
           NEW first \in 0 .. NPages, NEW end \in 0 .. NPages, first <= end,
           NEW v \in Val \cup {Zero}, op = "write" => v \in Val,
           Submit(t, op, first, end, v)
    PROVE  RequestsOK'
<1> DEFINE r == [Idle EXCEPT !.op = op, !.i = first, !.end = end, !.val = v]
<1>1. r \in RequestType
  BY IdleOK DEF RequestType
<1>3. Fits("next", r)
  BY DEF Idle, Fits
<1>2. "next" \in Label
  BY DEF Label
<1> QED
  BY <1>1, <1>3, <1>2, StepOK DEF Submit

LEMMA SubmissionOK ==
    ASSUME RequestsOK, NEW t \in Tag, SubmitTransfer(t) \/ SubmitDiscard(t)
    PROVE  RequestsOK'
<1>1. CASE SubmitTransfer(t)
  <2>1. PICK op \in {"read", "write"}, first \in Page, n \in 1 .. MaxPages,
             v \in Val :
          /\ first + n <= NPages
          /\ Submit(t, op, first, first + n, IF op = "write" THEN v ELSE Zero)
    BY <1>1 DEF SubmitTransfer
  <2>2. first \in 0 .. NPages /\ first + n \in 0 .. NPages /\ first <= first + n
    BY <2>1 DEF Page
  <2> QED
    BY <2>1, <2>2, SubmitOK
<1>2. CASE SubmitDiscard(t)
  BY <1>2, SubmitOK DEF SubmitDiscard
<1> QED
  BY <1>1, <1>2

(* The steps of dynaswap_write keep the requests in order.                 *)
LEMMA WriterOK ==
    ASSUME TypeOK, NEW t \in Tag, Writer(t)
    PROVE  RequestsOK'
<1> DEFINE r == rq[t]
<1>1. /\ r \in RequestType /\ Fits(pc[t], r) /\ RequestsOK
      /\ Label = {"free", "next", "trigger", "lookup", "alloc", "disk_write",
                  "disk_read", "batch"}
  BY DEF TypeOK, RequestsOK, Label
<1>2. CASE WriteReadTotal(t)
  <2>1. total_slots \in 0 .. NPages
    BY DEF TypeOK, ContextOK
  <2>2. [r EXCEPT !.total = total_slots] \in RequestType
    BY <1>1, <2>1 DEF RequestType
  <2>3. Fits("trigger", [r EXCEPT !.total = total_slots])
    BY <1>1, <1>2 DEF Fits, RequestType, WriteReadTotal, Segment
  <2> QED
    BY <1>1, <1>2, <2>2, <2>3, StepOK DEF WriteReadTotal
<1>3. CASE WriteQueueExtend(t)
  <2>1. [r EXCEPT !.total = 0] \in RequestType
    BY <1>1 DEF RequestType
  <2>2. Fits("lookup", [r EXCEPT !.total = 0])
    BY <1>1, <1>3 DEF Fits, RequestType, WriteQueueExtend
  <2> QED
    BY <1>1, <1>3, <2>1, <2>2, StepOK DEF WriteQueueExtend
<1>4. CASE WriteLookup(t)
  <2> DEFINE slot == virt_to_phys_map[r.i]
             new == [r EXCEPT !.p_slot = slot]
  <2>1. r.i \in Page
    BY <1>1, <1>4 DEF Fits, RequestType, WriteLookup, Page
  <2>2. slot \in Slot \cup {Unmapped}
    BY <2>1 DEF TypeOK, ContextOK
  <2>3. new \in RequestType
    BY <1>1, <2>2 DEF RequestType
  <2>4. CASE slot = Unmapped
    <3>1. Fits("alloc", new)
      BY <1>1, <1>4 DEF Fits, RequestType, WriteLookup
    <3> QED
      BY <1>1, <1>4, <2>3, <2>4, <3>1, StepOK DEF WriteLookup
  <2>5. CASE slot # Unmapped
    <3>1. Fits("disk_write", new)
      BY <1>1, <1>4, <2>2, <2>5 DEF Fits, RequestType, WriteLookup
    <3> QED
      BY <1>1, <1>4, <2>3, <2>5, <3>1, StepOK DEF WriteLookup
  <2> QED
    BY <2>4, <2>5
<1>5. CASE WriteMappedMeanwhile(t)
  <2> DEFINE slot == virt_to_phys_map[r.i]
             new == [r EXCEPT !.p_slot = slot]
  <2>1. r.i \in Page /\ slot # Unmapped
    BY <1>1, <1>5 DEF Fits, RequestType, WriteMappedMeanwhile, Allocating,
                      StillUnmapped, Page
  <2>2. slot \in Slot
    BY <2>1 DEF TypeOK, ContextOK
  <2>3. new \in RequestType
    BY <1>1, <2>2 DEF RequestType
  <2>4. Fits("disk_write", new)
    BY <1>1, <1>5, <2>2 DEF Fits, RequestType, WriteMappedMeanwhile, Allocating
  <2> QED
    BY <1>1, <1>5, <2>3, <2>4, StepOK DEF WriteMappedMeanwhile
<1>6. CASE WriteClaim(t)
  <2>1. PICK s \in FreeSlots :
            rq' = [rq EXCEPT ![t] = [r EXCEPT !.p_slot = s, !.fresh = TRUE]]
    BY <1>6 DEF WriteClaim
  <2> DEFINE new == [r EXCEPT !.p_slot = s, !.fresh = TRUE]
  <2>2. s \in Slot
    BY <2>1 DEF FreeSlots, Slot, TypeOK, ContextOK
  <2>3. new \in RequestType
    BY <1>1, <2>2 DEF RequestType
  <2>4. Fits("disk_write", new)
    BY <1>1, <1>6, <2>2 DEF Fits, RequestType, WriteClaim, Allocating
  <2> QED
    BY <1>1, <1>6, <2>1, <2>3, <2>4, StepOK DEF WriteClaim
<1>7. CASE WriteNoSpace(t)
  BY <1>1, <1>7, TransferredOK DEF WriteNoSpace, Allocating, Fits, Data
<1>8. CASE WriteStore(t)
  BY <1>1, <1>8, TransferredOK DEF WriteStore, Fits, Data, Outcome
<1> QED
  BY <1>2, <1>3, <1>4, <1>5, <1>6, <1>7, <1>8 DEF Writer

(* So do those of dynaswap_read ...                                        *)
LEMMA ReaderOK ==
    ASSUME TypeOK, NEW t \in Tag, Reader(t)
    PROVE  RequestsOK'
<1> DEFINE r == rq[t]
<1>1. /\ r \in RequestType /\ Fits(pc[t], r) /\ RequestsOK
      /\ Zero \in Data /\ "disk_read" \in Label
  BY DEF TypeOK, RequestsOK, Label, Data
<1>2. CASE ReadUnmapped(t)
  BY <1>1, <1>2, TransferredOK DEF ReadUnmapped, Segment
<1>3. CASE ReadLookup(t)
  <2> DEFINE slot == virt_to_phys_map[r.i]
             new == [r EXCEPT !.p_slot = slot]
  <2>1. r.i \in Page /\ slot # Unmapped
    BY <1>1, <1>3 DEF RequestType, ReadLookup, Segment, Page
  <2>2. slot \in Slot
    BY <2>1 DEF TypeOK, ContextOK
  <2>3. new \in RequestType
    BY <1>1, <2>2 DEF RequestType
  <2>4. Fits("disk_read", new)
    BY <1>1, <1>3, <2>2 DEF Fits, RequestType, ReadLookup, Segment
  <2> QED
    BY <1>1, <1>3, <2>3, <2>4, StepOK DEF ReadLookup
<1>4. CASE ReadFetch(t)
  <2>1. r.i < r.end /\ pc[t] # "free" /\ file[r.p_slot] \in Data
    BY <1>1, <1>4 DEF ReadFetch, Fits, TypeOK, ContextOK
  <2> QED
    BY <1>1, <1>4, <2>1, TransferredOK DEF ReadFetch
<1> QED
  BY <1>2, <1>3, <1>4 DEF Reader

(* ... of dynaswap_discard ...                                             *)
LEMMA DiscarderOK ==
    ASSUME TypeOK, NEW t \in Tag, Discarder(t)
    PROVE  RequestsOK'
<1> DEFINE r == rq[t]
<1>1. /\ r \in RequestType /\ Fits(pc[t], r) /\ RequestsOK
      /\ "batch" \in Label /\ "next" \in Label
  BY DEF TypeOK, RequestsOK, Label
<1>2. CASE DiscardLock(t)
  <2>1. PICK stop \in 0 .. NPages :
          /\ r.i <= stop /\ stop <= r.end
          /\ rq' = [rq EXCEPT ![t] = [r EXCEPT !.batch_end = stop]]
    <3>1. /\ BatchEnd(r) \in 0 .. NPages
          /\ r.i <= BatchEnd(r) /\ BatchEnd(r) <= r.end
      BY <1>1, <1>2, DynaMapAssumption
         DEF RequestType, DiscardLock, Segment, BatchEnd
    <3> QED
      BY <1>2, <3>1 DEF DiscardLock
  <2> DEFINE new == [r EXCEPT !.batch_end = stop]
  <2>2. new \in RequestType
    BY <1>1, <2>1 DEF RequestType
  <2>3. Fits("batch", new)
    BY <1>1, <1>2, <2>1 DEF Fits, RequestType, DiscardLock, Segment
  <2> QED
    BY <1>1, <1>2, <2>1, <2>2, <2>3, StepOK DEF DiscardLock
<1>3. CASE DiscardEntry(t)
  <2>1. PICK i \in 0 .. NPages : i = r.i + 1 /\ i <= r.batch_end
    BY <1>1, <1>3 DEF RequestType, DiscardEntry, Fits
  <2> DEFINE new == [r EXCEPT !.i = i]
  <2>2. new \in RequestType
    BY <1>1, <2>1 DEF RequestType
  <2>3. Fits("batch", new)
    BY <1>1, <1>3, <2>1 DEF Fits, RequestType, DiscardEntry
  <2>4. pc' = [pc EXCEPT ![t] = "batch"] /\ rq' = [rq EXCEPT ![t] = new]
    BY <1>1, <1>3, <2>1 DEF DiscardEntry, RequestsOK
  <2> QED
    BY <1>1, <2>2, <2>3, <2>4, StepOK
<1>4. CASE DiscardUnlock(t)
  <2> DEFINE new == [r EXCEPT !.batch_end = 0]
  <2>1. new \in RequestType
    BY <1>1 DEF RequestType
  <2>2. Fits("next", new)
    BY <1>1, <1>4 DEF Fits, RequestType, DiscardUnlock
  <2> QED
    BY <1>1, <1>4, <2>1, <2>2, StepOK DEF DiscardUnlock
<1> QED
  BY <1>2, <1>3, <1>4 DEF Discarder

(* ... and the end of a request.                                           *)
LEMMA CompleteOK ==
    ASSUME TypeOK, NEW t \in Tag, Complete(t)
    PROVE  RequestsOK'
BY IdleOK, StepOK DEF Complete, TypeOK, Label

-----------------------------------------------------------------------------
(* The context and the backing file.                                       *)

LEMMA ContextStep ==
    ASSUME TypeOK, [Next]_vars
    PROVE  ContextOK'
<1> USE DEF TypeOK, ContextOK
<1>1. CASE UNCHANGED vars
  BY <1>1 DEF vars
<1>2. ASSUME NEW t \in Tag, SubmitTransfer(t) \/ SubmitDiscard(t)
      PROVE  ContextOK'
  BY <1>2 DEF SubmitTransfer, SubmitDiscard, Submit, map, pool, lock
<1>3. ASSUME NEW t \in Tag, WriteReadTotal(t) \/ WriteQueueExtend(t) \/
             WriteLookup(t) \/ WriteMappedMeanwhile(t) \/ WriteNoSpace(t)
      PROVE  ContextOK'
  BY <1>3 DEF WriteReadTotal, WriteQueueExtend, WriteLookup, ShouldExtend,
              WriteMappedMeanwhile, WriteNoSpace, map, pool, lock
<1>4. ASSUME NEW t \in Tag, WriteClaim(t)
      PROVE  ContextOK'
  <2>1. PICK s \in FreeSlots :
          /\ slot_bitmap' = slot_bitmap \cup {s}
          /\ slot_hint' = (s + 1) % total_slots
          /\ virt_to_phys_map' = [virt_to_phys_map EXCEPT ![rq[t].i] = s]
    BY <1>4 DEF WriteClaim, Recorded
  <2>2. s \in Slot /\ total_slots \in Nat \ {0} /\ s \in Nat
    BY <2>1 DEF FreeSlots, Slot
  <2>3. (s + 1) % total_slots \in 0 .. NPages
    BY <2>2
  <2>4. virt_to_phys_map' \in [Page -> Slot \cup {Unmapped}]
    BY <2>1, <2>2
  <2>5. slot_bitmap' \subseteq Slot /\ slot_hint' \in 0 .. NPages
    BY <2>1, <2>2, <2>3
  <2>6. active_slots' \in Int
    BY <1>4 DEF WriteClaim
  <2>7. UNCHANGED <<pool, lock, expansion_trigger_percent, file>>
    BY <1>4 DEF WriteClaim
  <2> QED
    BY <2>4, <2>5, <2>6, <2>7 DEF pool, lock
<1>5. ASSUME NEW t \in Tag, WriteStore(t)
      PROVE  ContextOK'
  <2>1. rq[t] \in RequestType /\ rq[t].i < rq[t].end /\ rq[t].p_slot \in Slot
    BY <1>5 DEF WriteStore, RequestsOK, Fits
  <2>2. rq[t].i \in Page /\ rq[t].val \in Val
    BY <1>5, <2>1 DEF RequestType, Page, WriteStore, RequestsOK, Fits
  <2>3. <<rq[t].i, rq[t].val>> \in Data
    BY <2>2 DEF Data
  <2>4. file' \in [Slot -> Data]
    BY <1>5, <2>3 DEF WriteStore
  <2>5. UNCHANGED <<map, pool, lock, expansion_trigger_percent>>
    BY <1>5 DEF WriteStore
  <2> QED
    BY <2>4, <2>5 DEF map, pool, lock
<1>6. ASSUME NEW t \in Tag, Reader(t) \/ Complete(t)
      PROVE  ContextOK'
  BY <1>6 DEF Reader, ReadUnmapped, ReadLookup, ReadFetch, Complete, map, pool,
              lock
<1>7. ASSUME NEW t \in Tag, DiscardLock(t) \/ DiscardUnlock(t)
      PROVE  ContextOK'
  BY <1>7 DEF DiscardLock, DiscardUnlock, map, pool, lock
<1>8. ASSUME NEW t \in Tag, DiscardEntry(t)
      PROVE  ContextOK'
  <2>1. Zero \in Data
    BY DEF Data
  <2> QED
    BY <1>8, <2>1 DEF DiscardEntry, Cleared, map, pool, lock
<1>9. CASE Extender
  <2>1. CASE ExtendRun
    <3>1. NewSlots \in 0 .. NPages
      BY DynaMapAssumption DEF NewSlots
    <3>2. file_slots' \in 0 .. NPages /\ extending' \in 0 .. NPages
      BY <2>1, <3>1 DEF ExtendRun
    <3> QED
      BY <2>1, <3>2 DEF ExtendRun, map, lock
  <2>2. CASE ExtendPublish
    BY <2>2 DEF ExtendPublish, map, lock
  <2> QED
    BY <1>9, <2>1, <2>2 DEF Extender
<1>10. CASE SetTrigger
  BY <1>10 DEF SetTrigger, map, pool, lock
<1> QED
  BY <1>1, <1>2, <1>3, <1>4, <1>5, <1>6, <1>7, <1>8, <1>9, <1>10
     DEF Next, Worker, Writer, Discarder

-----------------------------------------------------------------------------
(* Every variable keeps its type, and every worker its request, in every   *)
(* execution of the driver.                                                *)
THEOREM TypeCorrect == Spec => []TypeOK
<1>1. Init => TypeOK
  <2> SUFFICES ASSUME Init PROVE TypeOK
    OBVIOUS
  <2>1. ContextOK
    BY DEF Init, ContextOK, Data
  <2>2. RequestsOK
    BY IdleOK DEF Init, RequestsOK, Label
  <2> QED
    BY <2>1, <2>2 DEF TypeOK
<1>2. TypeOK /\ [Next]_vars => TypeOK'
  <2> SUFFICES ASSUME TypeOK, [Next]_vars PROVE TypeOK'
    OBVIOUS
  <2>1. ContextOK'
    BY ContextStep
  <2>2. RequestsOK'
    <3>1. ASSUME NEW t \in Tag, SubmitTransfer(t) \/ SubmitDiscard(t)
          PROVE  RequestsOK'
      BY <3>1, SubmissionOK DEF TypeOK
    <3>2. ASSUME NEW t \in Tag, Worker(t)
          PROVE  RequestsOK'
      BY <3>2, WriterOK, ReaderOK, DiscarderOK, CompleteOK DEF Worker
    <3>3. CASE Extender \/ SetTrigger \/ UNCHANGED vars
      BY <3>3 DEF Extender, ExtendRun, ExtendPublish, SetTrigger, vars, TypeOK,
                  RequestsOK
    <3> QED
      BY <3>1, <3>2, <3>3 DEF Next
  <2> QED
    BY <2>1, <2>2 DEF TypeOK
<1> QED
  BY <1>1, <1>2, PTL DEF Spec

-----------------------------------------------------------------------------
(* The mapping table, the bitmap and the count.                            *)

(* Only a claim and an entry of a discard change them.                     *)
LEMMA MapUnchanged ==
    ASSUME [Next]_vars
    PROVE  \/ UNCHANGED <<virt_to_phys_map, slot_bitmap, active_slots>>
           \/ \E t \in Tag : WriteClaim(t) \/ DiscardEntry(t)
<1> DEFINE Same == UNCHANGED <<virt_to_phys_map, slot_bitmap, active_slots>>
<1>1. CASE UNCHANGED vars
  BY <1>1 DEF vars
<1>2. ASSUME NEW t \in Tag, SubmitTransfer(t) \/ SubmitDiscard(t)
      PROVE  Same
  BY <1>2 DEF SubmitTransfer, SubmitDiscard, Submit, map
<1>3. ASSUME NEW t \in Tag, Writer(t), ~WriteClaim(t)
      PROVE  Same
  BY <1>3 DEF Writer, WriteReadTotal, WriteQueueExtend, WriteLookup,
              WriteMappedMeanwhile, WriteNoSpace, WriteStore, map
<1>4. ASSUME NEW t \in Tag, Reader(t) \/ Complete(t)
      PROVE  Same
  BY <1>4 DEF Reader, ReadUnmapped, ReadLookup, ReadFetch, Complete, map
<1>5. ASSUME NEW t \in Tag, DiscardLock(t) \/ DiscardUnlock(t)
      PROVE  Same
  BY <1>5 DEF DiscardLock, DiscardUnlock, map
<1>6. CASE Extender \/ SetTrigger
  BY <1>6 DEF Extender, ExtendRun, ExtendPublish, SetTrigger, map
<1> QED
  BY <1>1, <1>2, <1>3, <1>4, <1>5, <1>6 DEF Next, Worker, Discarder

LEMMA BitmapFinite ==
    ASSUME TypeOK
    PROVE  IsFiniteSet(slot_bitmap) /\ Cardinality(slot_bitmap) \in Nat
<1>1. IsFiniteSet(Slot)
  BY FS_Interval DEF Slot
<1> QED
  BY <1>1, FS_Subset, FS_CardinalityType DEF TypeOK, ContextOK

(* The page a request is working on.                                       *)
LEMMA CurrentPage ==
    ASSUME TypeOK, NEW t \in Tag, rq[t].i < rq[t].end
    PROVE  rq[t].i \in Page
BY DEF TypeOK, RequestsOK, RequestType, Page

LEMMA ClaimKeepsMap ==
    ASSUME TypeOK, MapConsistent, NEW t \in Tag, WriteClaim(t)
    PROVE  MapConsistent'
<1> DEFINE i == rq[t].i
<1>1. i \in Page /\ virt_to_phys_map[i] = Unmapped
  BY CurrentPage DEF WriteClaim, Allocating, StillUnmapped, TypeOK, RequestsOK, Fits
<1>2. PICK s \in FreeSlots :
        /\ slot_bitmap' = slot_bitmap \cup {s}
        /\ virt_to_phys_map' = [virt_to_phys_map EXCEPT ![i] = s]
        /\ active_slots' = active_slots + 1
  BY DEF WriteClaim, Recorded
<1>3. s \notin slot_bitmap /\ s \in Slot /\ s # Unmapped
  BY <1>2 DEF FreeSlots, TypeOK, ContextOK, Slot, Unmapped
<1>4. \A p \in Page : virt_to_phys_map'[p] =
                        IF p = i THEN s ELSE virt_to_phys_map[p]
  BY <1>1, <1>2 DEF TypeOK, ContextOK
<1>5. \A p \in Page : virt_to_phys_map[p] # s
  BY <1>3 DEF MapConsistent, BitmapExact, Mapped
<1>6. NoSharedSlot'
  BY <1>3, <1>4, <1>5 DEF MapConsistent, NoSharedSlot, Mapped
<1>7. BitmapExact'
  BY <1>1, <1>2, <1>3, <1>4 DEF MapConsistent, BitmapExact, Mapped
<1>8. CountExact'
  BY <1>2, <1>3, BitmapFinite, FS_AddElement DEF MapConsistent, CountExact
<1> QED
  BY <1>6, <1>7, <1>8 DEF MapConsistent

LEMMA DiscardKeepsMap ==
    ASSUME TypeOK, MapConsistent, NEW t \in Tag, DiscardEntry(t)
    PROVE  MapConsistent'
<1> DEFINE i == rq[t].i
           s == virt_to_phys_map[i]
<1>1. i \in Page
  BY DEF DiscardEntry, TypeOK, RequestsOK, Fits, RequestType, Page
<1>2. CASE s = Unmapped
  BY <1>2 DEF DiscardEntry, map, MapConsistent, NoSharedSlot, BitmapExact,
              CountExact, Mapped
<1>3. CASE s # Unmapped
  <2>1. /\ virt_to_phys_map' = [virt_to_phys_map EXCEPT ![i] = Unmapped]
        /\ slot_bitmap' = slot_bitmap \ {s}
        /\ active_slots' = active_slots - 1
    BY <1>3 DEF DiscardEntry, Cleared
  <2>2. \A p \in Page : virt_to_phys_map'[p] =
                          IF p = i THEN Unmapped ELSE virt_to_phys_map[p]
    BY <1>1, <2>1 DEF TypeOK, ContextOK
  <2>3. NoSharedSlot'
    BY <2>2 DEF MapConsistent, NoSharedSlot, Mapped
  <2>4. \A p \in Page : virt_to_phys_map[p] = s => p = i
    BY <1>1, <1>3 DEF MapConsistent, NoSharedSlot, Mapped
  <2>5. BitmapExact'
    BY <1>1, <2>1, <2>2, <2>4 DEF MapConsistent, BitmapExact, Mapped
  <2>6. s \in slot_bitmap
    BY <1>1, <1>3 DEF MapConsistent, BitmapExact, Mapped
  <2>7. CountExact'
    BY <2>1, <2>6, BitmapFinite, FS_RemoveElement DEF MapConsistent, CountExact
  <2> QED
    BY <2>3, <2>5, <2>7 DEF MapConsistent
<1> QED
  BY <1>2, <1>3

(* No two pages ever share a slot, the bitmap marks exactly the slots of   *)
(* mapped pages and active_slots counts them, under every interleaving of  *)
(* writers, discards and extension and whatever calls on the file fail.    *)
THEOREM MapCorrect == Spec => []MapConsistent
<1>1. Init => MapConsistent
  <2> SUFFICES ASSUME Init PROVE MapConsistent
    OBVIOUS
  <2>1. \A p \in Page : ~Mapped(p)
    BY DEF Init, Mapped
  <2> QED
    BY <2>1, FS_EmptySet
       DEF Init, MapConsistent, NoSharedSlot, BitmapExact, CountExact
<1>2. TypeOK /\ MapConsistent /\ [Next]_vars => MapConsistent'
  <2> SUFFICES ASSUME TypeOK, MapConsistent, [Next]_vars
               PROVE  MapConsistent'
    OBVIOUS
  <2>1. CASE UNCHANGED <<virt_to_phys_map, slot_bitmap, active_slots>>
    BY <2>1 DEF MapConsistent, NoSharedSlot, BitmapExact, CountExact, Mapped
  <2> QED
    BY <2>1, MapUnchanged, ClaimKeepsMap, DiscardKeepsMap
<1> QED
  BY <1>1, <1>2, TypeCorrect, PTL DEF Spec

-----------------------------------------------------------------------------
(* The pool of slots.                                                      *)

(* The backing file covers every slot in use and never outgrows the        *)
(* capacity, also when an extension fails or is queued again while it runs.*)
THEOREM PoolCorrect == Spec => []PoolWithinFile
<1>1. Init => PoolWithinFile
  BY DEF Init, PoolWithinFile
<1>2. TypeOK /\ PoolWithinFile /\ [Next]_vars => PoolWithinFile'
  <2> SUFFICES ASSUME TypeOK, PoolWithinFile, [Next]_vars
               PROVE  PoolWithinFile'
    OBVIOUS
  <2>1. CASE Extender
    <3>1. CASE ExtendRun
      <4>1. \/ UNCHANGED <<file_slots, extending>>
            \/ \E n \in 0 .. NPages :
                  n > total_slots /\ file_slots' = n /\ extending' = n
        BY <3>1, DynaMapAssumption DEF ExtendRun, NewSlots, TypeOK, ContextOK
      <4> QED
        BY <3>1, <4>1 DEF ExtendRun, map, PoolWithinFile, TypeOK, ContextOK
    <3>2. CASE ExtendPublish
      BY <3>2 DEF ExtendPublish, map, PoolWithinFile, TypeOK, ContextOK
    <3> QED
      BY <2>1, <3>1, <3>2 DEF Extender
  <2>2. CASE ~Extender
    <3>1. UNCHANGED <<total_slots, file_slots, extending>>
      <4>1. ASSUME NEW t \in Tag, SubmitTransfer(t) \/ SubmitDiscard(t)
            PROVE  UNCHANGED <<total_slots, file_slots, extending>>
        BY <4>1 DEF SubmitTransfer, SubmitDiscard, Submit, pool
      <4>2. ASSUME NEW t \in Tag, Writer(t)
            PROVE  UNCHANGED <<total_slots, file_slots, extending>>
        BY <4>2 DEF Writer, WriteReadTotal, WriteQueueExtend, WriteLookup,
                    WriteMappedMeanwhile, WriteClaim, WriteNoSpace, WriteStore,
                    pool
      <4>3. ASSUME NEW t \in Tag, Reader(t) \/ Discarder(t) \/ Complete(t)
            PROVE  UNCHANGED <<total_slots, file_slots, extending>>
        BY <4>3 DEF Reader, ReadUnmapped, ReadLookup, ReadFetch, Discarder,
                    DiscardLock, DiscardEntry, DiscardUnlock, Complete, pool
      <4> QED
        BY <2>2, <4>1, <4>2, <4>3 DEF Next, Worker, SetTrigger, pool, vars
    <3>2. slot_bitmap' \subseteq 0 .. total_slots - 1
      <4>1. ASSUME NEW t \in Tag, WriteClaim(t)
            PROVE  slot_bitmap' \subseteq slot_bitmap \cup FreeSlots
        BY <4>1 DEF WriteClaim
      <4>2. ASSUME NEW t \in Tag, DiscardEntry(t)
            PROVE  slot_bitmap' \subseteq slot_bitmap
        BY <4>2 DEF DiscardEntry, map
      <4> QED
        BY <4>1, <4>2, MapUnchanged DEF PoolWithinFile, FreeSlots
    <3> QED
      BY <3>1, <3>2 DEF PoolWithinFile
  <2> QED
    BY <2>1, <2>2
<1> QED
  BY <1>1, <1>2, TypeCorrect, PTL DEF Spec

(* When no slot of the pool is free, all are counted as active; and if     *)
(* some page has none of them, there are fewer slots than pages.           *)
LEMMA Pigeonhole ==
    ASSUME TypeOK, MapConsistent, PoolWithinFile, FreeSlots = {},
           NEW i \in Page, ~Mapped(i)
    PROVE  active_slots = total_slots /\ total_slots < NPages
<1>1. slot_bitmap = 0 .. total_slots - 1 /\ total_slots \in 0 .. NPages
  BY DEF PoolWithinFile, FreeSlots, TypeOK, ContextOK
<1>2. active_slots = total_slots
  BY <1>1, FS_Interval DEF MapConsistent, CountExact
<1>3. ASSUME total_slots = NPages
      PROVE  FALSE
  <2> DEFINE pageOf == [s \in Slot |-> CHOOSE p \in Page : virt_to_phys_map[p] = s]
  <2>1. slot_bitmap = Slot
    BY <1>1, <1>3 DEF Slot
  <2>2. \A s \in Slot : \E p \in Page : virt_to_phys_map[p] = s
    BY <2>1 DEF MapConsistent, BitmapExact
  <2>3. \A s \in Slot : pageOf[s] \in Page /\ virt_to_phys_map[pageOf[s]] = s
    BY <2>2
  <2>4. \A s \in Slot : pageOf[s] # i
    BY <2>3 DEF Mapped, Slot, Unmapped
  <2>5. pageOf \in [Slot -> Page \ {i}]
    BY <2>3, <2>4
  <2>6. IsFiniteSet(Slot) /\ Cardinality(Slot) = NPages
    BY FS_Interval DEF Slot
  <2>7. IsFiniteSet(Page) /\ Cardinality(Page) = NPages
    BY FS_Interval DEF Page
  <2>8. IsFiniteSet(Page \ {i}) /\ Cardinality(Page \ {i}) = NPages - 1
    BY <2>7, FS_RemoveElement
  <2> HIDE DEF pageOf
  <2>9. PICK r, s \in Slot : r # s /\ pageOf[r] = pageOf[s]
    BY <2>5, <2>6, <2>8, FS_PigeonHole
  <2> QED
    BY <2>3, <2>9
<1> QED
  BY <1>1, <1>2, <1>3

(* A request that becomes refused is the one that the step worked on.      *)
LEMMA RefusedBy ==
    ASSUME TypeOK, NEW t \in Tag, NEW u \in Tag, Refused(t), NEW r,
           rq' = [rq EXCEPT ![u] = r]
    PROVE  u = t /\ r.status = "NOSPC" /\ r.status # rq[u].status
BY DEF TypeOK, RequestsOK, Refused

LEMMA RefusedResult ==
    ASSUME TypeOK, NEW t \in Tag, NEW u \in Tag, Refused(t), NEW status,
           NEW got, NEW lost, Transferred(u, status, got, lost)
    PROVE  u = t /\ status = "NOSPC"
<1>1. Result(rq[u], status, got, lost).status = status
  BY DEF Result, TypeOK, RequestsOK, RequestType
<1> QED
  BY <1>1, RefusedBy DEF Transferred

(* A step that sets other fields of the request alone refuses nothing.     *)
LEMMA StatusKept ==
    ASSUME TypeOK, NEW t \in Tag, Refused(t), NEW u \in Tag, NEW x, NEW y,
           \/ rq' = [rq EXCEPT ![u].total = x]
           \/ rq' = [rq EXCEPT ![u].i = x]
           \/ rq' = [rq EXCEPT ![u].batch_end = x]
           \/ rq' = [rq EXCEPT ![u].p_slot = x]
           \/ rq' = [rq EXCEPT ![u].p_slot = x, ![u].fresh = y]
    PROVE  FALSE
BY DEF TypeOK, RequestsOK, RequestType, Refused

LEMMA OnlyNoSpaceRefuses ==
    ASSUME TypeOK, NEW t \in Tag, Refused(t), Next
    PROVE  WriteNoSpace(t)
<1>1. ASSUME NEW u \in Tag, SubmitTransfer(u) \/ SubmitDiscard(u)
      PROVE  FALSE
  <2>1. PICK op, first, end, v : Submit(u, op, first, end, v)
    BY <1>1 DEF SubmitTransfer, SubmitDiscard
  <2>2. [Idle EXCEPT !.op = op, !.i = first, !.end = end, !.val = v].status
        = "OK"
    BY DEF Idle
  <2> QED
    BY <2>1, <2>2, RefusedBy DEF Submit
<1>2. ASSUME NEW u \in Tag, Writer(u), ~WriteNoSpace(t)
      PROVE  FALSE
  <2>1. CASE WriteReadTotal(u) \/ WriteQueueExtend(u)
    <3>1. PICK x : rq' = [rq EXCEPT ![u].total = x]
      BY <2>1 DEF WriteReadTotal, WriteQueueExtend
    <3> QED
      BY <3>1, StatusKept
  <2>2. CASE WriteLookup(u) \/ WriteMappedMeanwhile(u)
    <3>1. PICK x : rq' = [rq EXCEPT ![u].p_slot = x]
      BY <2>2 DEF WriteLookup, WriteMappedMeanwhile
    <3> QED
      BY <3>1, StatusKept
  <2>3. CASE WriteClaim(u)
    <3>1. PICK x : rq' = [rq EXCEPT ![u].p_slot = x, ![u].fresh = TRUE]
      BY <2>3 DEF WriteClaim
    <3> QED
      BY <3>1, StatusKept
  <2>4. CASE WriteNoSpace(u)
    BY <1>2, <2>4, RefusedResult DEF WriteNoSpace
  <2>5. CASE WriteStore(u)
    BY <2>5, RefusedResult DEF WriteStore
  <2> QED
    BY <1>2, <2>1, <2>2, <2>3, <2>4, <2>5 DEF Writer
<1>3. ASSUME NEW u \in Tag, Reader(u)
      PROVE  FALSE
  <2>1. CASE ReadLookup(u)
    <3>1. PICK x : rq' = [rq EXCEPT ![u].p_slot = x]
      BY <2>1 DEF ReadLookup
    <3> QED
      BY <3>1, StatusKept
  <2>2. CASE ReadUnmapped(u)
    BY <2>2, RefusedResult DEF ReadUnmapped
  <2>3. CASE ReadFetch(u)
    BY <2>3, RefusedResult DEF ReadFetch
  <2> QED
    BY <1>3, <2>1, <2>2, <2>3 DEF Reader
<1>4. ASSUME NEW u \in Tag, Discarder(u)
      PROVE  FALSE
  <2>1. CASE DiscardLock(u) \/ DiscardUnlock(u)
    <3>1. PICK x : rq' = [rq EXCEPT ![u].batch_end = x]
      BY <2>1 DEF DiscardLock, DiscardUnlock
    <3> QED
      BY <3>1, StatusKept
  <2>2. CASE DiscardEntry(u)
    <3>1. PICK x : rq' = [rq EXCEPT ![u].i = x]
      BY <2>2 DEF DiscardEntry
    <3> QED
      BY <3>1, StatusKept
  <2> QED
    BY <1>4, <2>1, <2>2 DEF Discarder
<1>5. ASSUME NEW u \in Tag, Complete(u)
      PROVE  FALSE
  <2>1. Idle.status = "OK"
    BY DEF Idle
  <2> QED
    BY <1>5, <2>1, RefusedBy DEF Complete
<1>6. CASE Extender \/ SetTrigger
  BY <1>6 DEF Extender, ExtendRun, ExtendPublish, SetTrigger, Refused
<1> QED
  BY <1>1, <1>2, <1>3, <1>4, <1>5, <1>6 DEF Next, Worker

(* A write is told BLK_STS_NOSPC only while every slot of the pool is in   *)
(* use and the pool is smaller than the device.                            *)
THEOREM FullPoolOnly == Spec => NoSpaceMeansFull
<1>1. TypeOK /\ MapConsistent /\ PoolWithinFile /\ [Next]_vars =>
        [\A t \in Tag : Refused(t) => /\ active_slots = total_slots
                                      /\ total_slots < NPages]_vars
  <2> SUFFICES ASSUME TypeOK, MapConsistent, PoolWithinFile, Next,
                      NEW t \in Tag, Refused(t)
               PROVE  active_slots = total_slots /\ total_slots < NPages
    OBVIOUS
  <2>1. WriteNoSpace(t)
    BY OnlyNoSpaceRefuses
  <2>2. rq[t].i \in Page
    BY <2>1, CurrentPage DEF WriteNoSpace, Allocating, TypeOK, RequestsOK, Fits
  <2> QED
    BY <2>1, <2>2, Pigeonhole DEF WriteNoSpace, StillUnmapped, NothingFree, Mapped
<1> QED
  BY <1>1, TypeCorrect, MapCorrect, PoolCorrect, PTL DEF Spec, NoSpaceMeansFull

-----------------------------------------------------------------------------
(* The steps of a worker, one after the other.                             *)

(* What a worker does is seen in its own request only.                     *)
LEMMA OwnRequest ==
    ASSUME TypeOK, NEW t \in Tag, Worker(t), NEW u \in Tag \ {t}
    PROVE  pc'[u] = pc[u] /\ rq'[u] = rq[u]
<1> USE DEF TypeOK, RequestsOK
<1>1. CASE Writer(t)
  BY <1>1 DEF Writer, WriteReadTotal, WriteQueueExtend, WriteLookup, Transferred,
              WriteMappedMeanwhile, WriteClaim, WriteNoSpace, WriteStore
<1>2. CASE Reader(t)
  BY <1>2 DEF Reader, ReadUnmapped, ReadLookup, ReadFetch, Transferred
<1>3. CASE Discarder(t)
  BY <1>3 DEF Discarder, DiscardLock, DiscardEntry, DiscardUnlock
<1>4. CASE Complete(t)
  BY <1>4 DEF Complete
<1> QED
  BY <1>1, <1>2, <1>3, <1>4 DEF Worker

(* A step that leaves fewer behind it.                                     *)
LEMMA FewerLeft ==
    ASSUME TypeOK, TypeOK', NEW t \in Tag, rq'[t].end = rq[t].end,
           \/ rq'[t].i = rq[t].i /\ StepsForPage(t)' < StepsForPage(t)
           \/ rq'[t].i = rq[t].i + 1 /\ StepsForPage(t)' < StepsForPage(t) + 6
    PROVE  StepsLeft(t)' \in 0 .. StepsLeft(t) - 1
<1>1. /\ rq[t].i \in Nat /\ rq[t].end \in Nat /\ rq'[t].i \in Nat
      /\ rq'[t].i <= rq'[t].end
  BY DEF TypeOK, RequestsOK, RequestType, Fits
<1>2. StepsForPage(t) \in 0 .. 6 /\ StepsForPage(t)' \in 0 .. 6
  BY DEF TypeOK, RequestsOK, Label, StepsForPage
<1> QED
  BY <1>1, <1>2 DEF StepsLeft

(* Every step of a worker leaves fewer.                                    *)
LEMMA WorkerNearer ==
    ASSUME TypeOK, TypeOK', NEW t \in Tag, Worker(t)
    PROVE  StepsLeft(t)' \in 0 .. StepsLeft(t) - 1
<1>1. /\ pc \in [Tag -> Label] /\ rq \in [Tag -> RequestType] /\ Fits(pc[t], rq[t])
      /\ BatchPages \in Nat \ {0}
  BY DynaMapAssumption DEF TypeOK, RequestsOK
<1>2. /\ rq[t].i \in Nat /\ rq[t].end \in Nat /\ rq[t].batch_end \in Nat
  BY <1>1 DEF RequestType
<1>3. CASE \/ WriteReadTotal(t) \/ WriteQueueExtend(t) \/ WriteLookup(t)
           \/ WriteMappedMeanwhile(t) \/ WriteClaim(t) \/ ReadLookup(t)
  <2>1. ASSUME NEW label, pc' = [pc EXCEPT ![t] = label],
               \/ label = "trigger" /\ pc[t] = "next"
               \/ label = "lookup" /\ pc[t] = "trigger"
               \/ label \in {"alloc", "disk_write"} /\ pc[t] \in {"lookup", "alloc"}
                   /\ label # pc[t]
               \/ label = "disk_read" /\ pc[t] = "next"
        PROVE  StepsForPage(t)' < StepsForPage(t)
    BY <1>1, <2>1 DEF StepsForPage
  <2>2. CASE WriteReadTotal(t)
    BY <1>1, <2>1, <2>2, FewerLeft DEF WriteReadTotal, Segment, RequestType
  <2>3. CASE WriteQueueExtend(t)
    BY <1>1, <2>1, <2>3, FewerLeft DEF WriteQueueExtend, RequestType
  <2>4. CASE WriteLookup(t)
    <3>1. /\ pc' = [pc EXCEPT ![t] = "alloc"] \/ pc' = [pc EXCEPT ![t] = "disk_write"]
          /\ pc[t] = "lookup" /\ \E x : rq' = [rq EXCEPT ![t].p_slot = x]
      BY <2>4 DEF WriteLookup
    <3>2. rq'[t].i = rq[t].i /\ rq'[t].end = rq[t].end
      BY <1>1, <3>1 DEF RequestType
    <3> QED
      BY <2>1, <3>1, <3>2, FewerLeft
  <2>5. CASE WriteMappedMeanwhile(t)
    BY <1>1, <2>1, <2>5, FewerLeft DEF WriteMappedMeanwhile, Allocating, RequestType
  <2>6. CASE WriteClaim(t)
    <3>1. /\ pc' = [pc EXCEPT ![t] = "disk_write"] /\ pc[t] = "alloc"
          /\ \E x : rq' = [rq EXCEPT ![t].p_slot = x, ![t].fresh = TRUE]
      BY <2>6 DEF WriteClaim, Allocating
    <3>2. rq'[t].i = rq[t].i /\ rq'[t].end = rq[t].end
      BY <1>1, <3>1 DEF RequestType
    <3> QED
      BY <2>1, <3>1, <3>2, FewerLeft
  <2>7. CASE ReadLookup(t)
    BY <1>1, <2>1, <2>7, FewerLeft DEF ReadLookup, Segment, RequestType
  <2> QED
    BY <1>3, <2>2, <2>3, <2>4, <2>5, <2>6, <2>7
<1>4. ASSUME NEW status, NEW got, NEW lost, Transferred(t, status, got, lost),
             pc[t] \in {"next", "alloc", "disk_write", "disk_read"}
      PROVE  StepsLeft(t)' \in 0 .. StepsLeft(t) - 1
  <2>1. /\ rq'[t].i = rq[t].i + 1 /\ rq'[t].end = rq[t].end /\ pc'[t] = "next"
    BY <1>1, <1>4 DEF Transferred, Result, RequestType
  <2>2. StepsForPage(t)' < StepsForPage(t) + 6
    BY <1>4, <2>1 DEF StepsForPage
  <2> QED
    BY <2>1, <2>2, FewerLeft
<1>5. CASE WriteNoSpace(t) \/ WriteStore(t) \/ ReadUnmapped(t) \/ ReadFetch(t)
  <2>1. /\ \E status, got, lost : Transferred(t, status, got, lost)
        /\ pc[t] \in {"next", "alloc", "disk_write", "disk_read"}
    BY <1>5 DEF WriteNoSpace, WriteStore, ReadUnmapped, ReadFetch, Allocating, Segment
  <2> QED
    BY <1>4, <2>1
<1>6. CASE DiscardLock(t)
  <2>1. /\ rq'[t].i = rq[t].i /\ rq'[t].end = rq[t].end /\ pc'[t] = "batch"
        /\ rq'[t].batch_end = BatchEnd(rq[t]) /\ pc[t] = "next"
    BY <1>1, <1>6 DEF DiscardLock, Segment, RequestType
  <2>2. rq'[t].i < rq'[t].batch_end
    BY <1>1, <1>2, <1>6, <2>1 DEF BatchEnd, DiscardLock, Segment
  <2>3. StepsForPage(t)' < StepsForPage(t)
    BY <2>1, <2>2 DEF StepsForPage
  <2> QED
    BY <2>1, <2>3, FewerLeft
<1>7. CASE DiscardEntry(t)
  <2>1. /\ rq'[t].i = rq[t].i + 1 /\ rq'[t].end = rq[t].end
        /\ pc'[t] = "batch" /\ pc[t] = "batch" /\ rq[t].i < rq[t].batch_end
    BY <1>1, <1>7 DEF DiscardEntry, RequestType
  <2>2. StepsForPage(t)' < StepsForPage(t) + 6
    BY <2>1 DEF StepsForPage
  <2> QED
    BY <2>1, <2>2, FewerLeft
<1>8. CASE DiscardUnlock(t)
  <2>1. /\ rq'[t].i = rq[t].i /\ rq'[t].end = rq[t].end
        /\ pc'[t] = "next" /\ pc[t] = "batch" /\ rq[t].i = rq[t].batch_end
    BY <1>1, <1>8 DEF DiscardUnlock, RequestType
  <2>2. StepsForPage(t)' < StepsForPage(t)
    BY <1>2, <2>1 DEF StepsForPage
  <2> QED
    BY <2>1, <2>2, FewerLeft
<1>9. CASE Complete(t)
  <2>1. /\ pc[t] = "next" /\ rq[t].i = rq[t].end
        /\ pc'[t] = "free" /\ rq'[t].i = 0 /\ rq'[t].end = 0
    BY <1>1, <1>9 DEF Complete, Finished, Idle
  <2> QED
    BY <1>2, <2>1 DEF StepsLeft, StepsForPage
<1> QED
  BY <1>3, <1>5, <1>6, <1>7, <1>8, <1>9 DEF Worker, Writer, Reader, Discarder

(* Every request gets nearer to its end with every step of its worker,     *)
(* however many pages it has and whatever the others do.                   *)
THEOREM EveryStepNearer == Spec => NearerTheEnd
<1>1. TypeOK /\ TypeOK' /\ [Next]_vars =>
        [\A t \in Tag : pc[t] # "free" =>
             \/ pc'[t] = pc[t] /\ rq'[t] = rq[t]
             \/ StepsLeft(t)' \in 0 .. StepsLeft(t) - 1]_vars
  <2> SUFFICES ASSUME TypeOK, TypeOK', Next, NEW t \in Tag, pc[t] # "free"
               PROVE  \/ pc'[t] = pc[t] /\ rq'[t] = rq[t]
                      \/ StepsLeft(t)' \in 0 .. StepsLeft(t) - 1
    OBVIOUS
  <2>1. CASE \E u \in Tag : Worker(u)
    BY <2>1, OwnRequest, WorkerNearer
  <2>2. ASSUME NEW u \in Tag, SubmitTransfer(u) \/ SubmitDiscard(u)
        PROVE  pc'[t] = pc[t] /\ rq'[t] = rq[t]
    <3>1. \E op, first, end, v : Submit(u, op, first, end, v)
      BY <2>2 DEF SubmitTransfer, SubmitDiscard
    <3>2. /\ \E label : pc' = [pc EXCEPT ![u] = label]
          /\ \E r : rq' = [rq EXCEPT ![u] = r]
          /\ u # t
      BY <3>1 DEF Submit
    <3> QED
      BY <3>2 DEF TypeOK, RequestsOK
  <2>3. CASE Extender \/ SetTrigger
    BY <2>3 DEF Extender, ExtendRun, ExtendPublish, SetTrigger
  <2> QED
    BY <2>1, <2>2, <2>3 DEF Next
<1> QED
  BY <1>1, TypeCorrect, PTL DEF Spec, NearerTheEnd

-----------------------------------------------------------------------------
(* map_rwsem held for writing.                                             *)

(* The discards that are in a batch are those that hold the semaphore.     *)
HeldInBatch == \A t \in Tag : map_rwsem = t <=> pc[t] = "batch"

LEMMA HolderStep ==
    ASSUME TypeOK, HeldInBatch, [Next]_vars
    PROVE  HeldInBatch'
<1> USE DEF HeldInBatch
<1>1. pc \in [Tag -> Label] /\ Nobody \notin Tag
  BY DynaMapAssumption DEF TypeOK, RequestsOK, Nobody
<1>2. ASSUME NEW t \in Tag, NEW label, pc' = [pc EXCEPT ![t] = label],
             UNCHANGED map_rwsem, pc[t] # "batch", label # "batch"
      PROVE  HeldInBatch'
  BY <1>1, <1>2
<1>3. CASE \E t \in Tag : Writer(t) \/ Reader(t) \/ Complete(t)
  <2>1. PICK t \in Tag : Writer(t) \/ Reader(t) \/ Complete(t)
    BY <1>3
  <2>2. CASE Writer(t)
    <3>1. CASE WriteReadTotal(t) \/ WriteQueueExtend(t)
      BY <3>1, <1>2 DEF WriteReadTotal, WriteQueueExtend, Segment, lock
    <3>2. CASE WriteLookup(t)
      <4>1. /\ pc' = [pc EXCEPT ![t] = "alloc"] \/ pc' = [pc EXCEPT ![t] = "disk_write"]
            /\ pc[t] = "lookup" /\ UNCHANGED map_rwsem
        BY <3>2 DEF WriteLookup, lock
      <4> QED
        BY <4>1, <1>2
    <3>3. CASE WriteMappedMeanwhile(t) \/ WriteClaim(t)
      BY <3>3, <1>2 DEF WriteMappedMeanwhile, WriteClaim, Allocating, lock
    <3>4. CASE WriteNoSpace(t) \/ WriteStore(t)
      BY <3>4, <1>2 DEF WriteNoSpace, WriteStore, Allocating, Transferred, lock
    <3> QED
      BY <2>2, <3>1, <3>2, <3>3, <3>4 DEF Writer
  <2>3. CASE Reader(t)
    BY <2>3, <1>2 DEF Reader, ReadUnmapped, ReadLookup, ReadFetch, Segment,
                      Transferred, lock
  <2>4. CASE Complete(t)
    BY <2>4, <1>2 DEF Complete, Finished, lock
  <2> QED
    BY <2>1, <2>2, <2>3, <2>4
<1>4. CASE \E t \in Tag : Discarder(t)
  BY <1>1, <1>4 DEF Discarder, DiscardLock, DiscardEntry, DiscardUnlock, Segment,
                    Unlocked, lock
<1>5. CASE \E t \in Tag : SubmitTransfer(t) \/ SubmitDiscard(t)
  <2>1. PICK t \in Tag : \E op, first, end, v : Submit(t, op, first, end, v)
    BY <1>5 DEF SubmitTransfer, SubmitDiscard
  <2> QED
    BY <2>1, <1>2 DEF Submit, lock
<1>6. CASE Extender \/ SetTrigger
  BY <1>6 DEF Extender, ExtendRun, ExtendPublish, SetTrigger, lock
<1>7. CASE UNCHANGED vars
  BY <1>7 DEF vars
<1> QED
  BY <1>3, <1>4, <1>5, <1>6, <1>7 DEF Next, Worker

LEMMA HolderAlways == Spec => []HeldInBatch
<1>1. Init => HeldInBatch
  BY DynaMapAssumption DEF Init, HeldInBatch, Nobody
<1> QED
  BY <1>1, HolderStep, TypeCorrect, PTL DEF Spec

(* While a discard is in its batch only its own steps touch the table, the *)
(* bitmap and the pool, and no other discard is in one.                    *)
THEOREM SemaphoreGuards == Spec => GuardedBySemaphore
<1>1. TypeOK /\ HeldInBatch /\ [Next]_vars =>
        [\A t \in Tag : pc[t] = "batch" =>
             /\ UNCHANGED <<total_slots, slot_hint>>
             /\ \/ UNCHANGED map
                \/ rq'[t].i = rq[t].i + 1 /\ virt_to_phys_map' = Cleared(rq[t].i)
             /\ \A u \in Tag \ {t} : pc[u] # "batch"]_vars
  <2> SUFFICES ASSUME TypeOK, HeldInBatch, Next, NEW t \in Tag, pc[t] = "batch"
               PROVE  /\ UNCHANGED <<total_slots, slot_hint>>
                      /\ \/ UNCHANGED map
                         \/ /\ rq'[t].i = rq[t].i + 1
                            /\ virt_to_phys_map' = Cleared(rq[t].i)
                      /\ \A u \in Tag \ {t} : pc[u] # "batch"
    OBVIOUS
  <2>1. map_rwsem = t /\ ~Unlocked /\ \A u \in Tag \ {t} : pc[u] # "batch"
    BY DynaMapAssumption DEF HeldInBatch, Unlocked, Nobody
  <2>2. CASE \E u \in Tag : SubmitTransfer(u) \/ SubmitDiscard(u)
    <3>1. \E u, op, first, end, v : Submit(u, op, first, end, v)
      BY <2>2 DEF SubmitTransfer, SubmitDiscard
    <3> QED
      BY <2>1, <3>1 DEF Submit, map, pool
  <2>3. CASE \E u \in Tag : Writer(u)
    BY <2>1, <2>3 DEF Writer, WriteReadTotal, WriteQueueExtend, WriteLookup,
                      WriteMappedMeanwhile, WriteClaim, WriteNoSpace, WriteStore,
                      Allocating, map, pool
  <2>4. CASE \E u \in Tag : Reader(u) \/ Complete(u)
    BY <2>1, <2>4 DEF Reader, ReadUnmapped, ReadLookup, ReadFetch, Complete, map, pool
  <2>5. CASE \E u \in Tag : Discarder(u)
    <3>1. PICK u \in Tag : Discarder(u)
      BY <2>5
    <3>2. CASE DiscardLock(u) \/ DiscardUnlock(u)
      BY <2>1, <3>2 DEF DiscardLock, DiscardUnlock, map, pool
    <3>3. CASE DiscardEntry(u)
      <4>1. u = t /\ rq' = [rq EXCEPT ![t].i = rq[t].i + 1]
        BY <2>1, <3>3 DEF DiscardEntry
      <4>2. rq'[t].i = rq[t].i + 1
        BY <4>1 DEF TypeOK, RequestsOK, RequestType
      <4> QED
        BY <2>1, <3>3, <4>1, <4>2 DEF DiscardEntry, map, pool
    <3> QED
      BY <3>1, <3>2, <3>3 DEF Discarder
  <2>6. CASE Extender \/ SetTrigger
    BY <2>1, <2>6 DEF Extender, ExtendRun, ExtendPublish, SetTrigger, map, pool
  <2> QED
    BY <2>1, <2>2, <2>3, <2>4, <2>5, <2>6 DEF Next, Worker
<1> QED
  BY <1>1, HolderAlways, TypeCorrect, PTL DEF Spec, GuardedBySemaphore
=============================================================================
