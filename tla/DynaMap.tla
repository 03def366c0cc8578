------------------------------- MODULE DynaMap -------------------------------
(***************************************************************************)
(* The mapping core of the first driver (driver/src/dynamap.c and the      *)
(* request path of dynaswap_drv.c): every blk-mq request becomes a work    *)
(* item of its own on the system workqueue, so requests run concurrently   *)
(* with each other and with the one extension worker of the context.       *)
(*                                                                         *)
(* A step is what runs without a visible interleaving: a critical section  *)
(* of map_rwsem, one transfer to or from the backing file, one read of a   *)
(* shared counter.  The two-level table virt_to_phys_map is one function   *)
(* (all its leaves are allocated by dynamap_init) and phys_to_virt_map,    *)
(* which no code reads, is left out.  Requests are made of whole pages.    *)
(***************************************************************************)
EXTENDS Integers, FiniteSets

CONSTANTS
    Tag,         \* requests that can be in flight (tag_set.queue_depth)
    NPages,      \* slot_max_count: pages of the device, and slots at most
    ChunkSlots,  \* chunk_size in pages
    BatchPages,  \* table entries cleared under one hold of the lock (512)
    MaxPages,    \* bound: pages in one read or write request
    Val,         \* what a client may write in a page
    Zero,        \* the contents of a page of zeroes
    Trigger,     \* the values inflate_threshold takes (a byte)
    Fault,       \* which calls on the backing file may fail
    Serialised   \* do clients order the requests that touch the same page?

ASSUME DynaMapAssumption ==
    /\ NPages \in Nat /\ ChunkSlots \in Nat
    /\ BatchPages \in Nat \ {0} /\ MaxPages \in Nat
    /\ Trigger \subseteq 0 .. 255
    /\ Fault \subseteq {"read", "write", "punch", "fallocate"}
    /\ Serialised \in BOOLEAN
    /\ "nobody" \notin Tag

VARIABLES
    virt_to_phys_map, \* [Page -> slot of the page, or Unmapped]
    slot_bitmap,      \* the set of slots in use
    slot_hint,        \* where the next-fit search starts
    total_slots,      \* slots the backing file is known to hold
    active_slots,     \* the count of slots in use
    map_rwsem,        \* the tag that holds the lock across steps, or Nobody
    extend_queued,    \* is extend_work queued?
    extending,        \* new_slots of the extension under way, or 0
    expansion_trigger_percent,
    file,             \* [Slot -> contents], the backing file
    file_slots,       \* the length of the backing file, in slots
    pc,               \* pc[t]: where the worker of tag t is
    rq                \* rq[t]: the request that holds tag t

lock == <<map_rwsem>>
map == <<virt_to_phys_map, slot_bitmap, slot_hint, active_slots>>
pool == <<total_slots, file_slots, extend_queued, extending>>
vars == <<virt_to_phys_map, slot_bitmap, slot_hint, total_slots, active_slots,
          map_rwsem, extend_queued, extending, expansion_trigger_percent,
          file, file_slots, pc, rq>>

Page == 0 .. NPages - 1
Slot == 0 .. NPages - 1
Unmapped == -1
Nobody == "nobody"
Data == (Page \X Val) \cup {Zero}

(* The locals of dynaswap_process_work and of the call it is in, reset     *)
(* where they die.  `fresh' and `failed' are history: the slot was claimed *)
(* by this very write; the pages whose transfer did not succeed.           *)
Idle == [op |-> "none", i |-> 0, end |-> 0, batch_end |-> 0, val |-> Zero,
         total |-> 0, p_slot |-> Unmapped, status |-> "OK", got |-> Zero,
         fresh |-> FALSE, failed |-> {}]

Outcome(call) == IF call \in Fault THEN BOOLEAN ELSE {TRUE}

Init ==
    /\ virt_to_phys_map = [p \in Page |-> Unmapped]
    /\ slot_bitmap = {}
    /\ slot_hint = 0
    /\ total_slots = 0
    /\ active_slots = 0
    /\ map_rwsem = Nobody
    /\ extend_queued = TRUE
    /\ extending = 0
    /\ expansion_trigger_percent \in Trigger
    /\ file = [s \in Slot |-> Zero]
    /\ file_slots = 0
    /\ pc = [t \in Tag |-> "free"]
    /\ rq = [t \in Tag |-> Idle]

-----------------------------------------------------------------------------
(* The block layer and its clients.                                        *)

Admitted(op, first, end) ==
    Serialised =>
        \A u \in Tag : \/ op = "read" /\ rq[u].op = "read"
                       \/ end <= rq[u].i
                       \/ rq[u].end <= first
                       \/ rq[u].op = "none"

(* dynaswap_handle_rq: the request gets a work item and a worker.  When    *)
(* the wrapper cannot be allocated the block layer asks again later.       *)
Submit(t, op, first, end, v) ==
    /\ pc[t] = "free"
    /\ Admitted(op, first, end)
    /\ pc' = [pc EXCEPT ![t] = "next"]
    /\ rq' = [rq EXCEPT ![t] = [Idle EXCEPT !.op = op, !.i = first,
                                            !.end = end, !.val = v]]
    /\ UNCHANGED <<map, pool, lock, expansion_trigger_percent, file>>

SubmitTransfer(t) ==
    \E op \in {"read", "write"}, first \in Page, n \in 1 .. MaxPages, v \in Val :
        /\ first + n <= NPages
        /\ Submit(t, op, first, first + n, IF op = "write" THEN v ELSE Zero)

SubmitDiscard(t) ==
    \E first, end \in 0 .. NPages :
        first <= end /\ Submit(t, "discard", first, end, Zero)

(* The loop over the segments is over: blk_mq_end_request.                 *)
Finished(t) == pc[t] = "next" /\ rq[t].i = rq[t].end

Complete(t) ==
    /\ Finished(t)
    /\ pc' = [pc EXCEPT ![t] = "free"]
    /\ rq' = [rq EXCEPT ![t] = Idle]
    /\ UNCHANGED <<map, pool, lock, expansion_trigger_percent, file>>

(* The next segment is taken up by the call for `op'.                      *)
Segment(t, op) == pc[t] = "next" /\ rq[t].op = op /\ rq[t].i < rq[t].end

(* Mutant: the semaphore is not taken.                                     *)
LockIgnored == TRUE

Unlocked == map_rwsem = Nobody

(* A segment is done; its result replaces the one of the segment before.   *)
Result(r, status, got, lost) ==
    [r EXCEPT !.i = r.i + 1, !.status = status, !.got = got, !.total = 0,
              !.p_slot = Unmapped, !.fresh = FALSE,
              !.failed = r.failed \cup lost]

Transferred(t, status, got, lost) ==
    /\ pc' = [pc EXCEPT ![t] = "next"]
    /\ rq' = [rq EXCEPT ![t] = Result(rq[t], status, got, lost)]

-----------------------------------------------------------------------------
(* dynaswap_write.                                                         *)

(* dynaswap_should_extend reads two counters, one after the other.         *)
WriteReadTotal(t) ==
    /\ Segment(t, "write")
    /\ pc' = [pc EXCEPT ![t] = "trigger"]
    /\ rq' = [rq EXCEPT ![t].total = total_slots]
    /\ UNCHANGED <<map, pool, lock, expansion_trigger_percent, file>>

(* Mutant: the pool is extended only above the threshold.                  *)
ShouldExtendAbove(total) ==
    total = 0 \/ (active_slots * 100) \div total > expansion_trigger_percent

ShouldExtend(total) ==
    total = 0 \/ (active_slots * 100) \div total >= expansion_trigger_percent

(* queue_work does nothing when the work is queued already.                *)
WriteQueueExtend(t) ==
    /\ pc[t] = "trigger"
    /\ extend_queued' = (extend_queued \/ ShouldExtend(rq[t].total))
    /\ pc' = [pc EXCEPT ![t] = "lookup"]
    /\ rq' = [rq EXCEPT ![t].total = 0]
    /\ UNCHANGED <<map, total_slots, file_slots, extending, lock,
                   expansion_trigger_percent, file>>

(* Under the read lock: a page that has a slot keeps it.                   *)
WriteLookup(t) ==
    LET slot == virt_to_phys_map[rq[t].i]
    IN  /\ pc[t] = "lookup" /\ Unlocked
        /\ pc' = [pc EXCEPT ![t] = IF slot = Unmapped THEN "alloc"
                                                      ELSE "disk_write"]
        /\ rq' = [rq EXCEPT ![t].p_slot = slot]
        /\ UNCHANGED <<map, pool, lock, expansion_trigger_percent, file>>

Allocating(t) == pc[t] = "alloc" /\ Unlocked

(* Under the write lock the entry is read again: another writer may have   *)
(* mapped the page meanwhile.  Mutant: it is not read again.               *)
NotReadAgain(t) == TRUE

StillUnmapped(t) == virt_to_phys_map[rq[t].i] = Unmapped

WriteMappedMeanwhile(t) ==
    /\ Allocating(t) /\ ~StillUnmapped(t)
    /\ pc' = [pc EXCEPT ![t] = "disk_write"]
    /\ rq' = [rq EXCEPT ![t].p_slot = virt_to_phys_map[rq[t].i]]
    /\ UNCHANGED <<map, pool, lock, expansion_trigger_percent, file>>

(* Mutant: the bitmap is not consulted.                                    *)
AnySlot == 0 .. total_slots - 1

FreeSlots == (0 .. total_slots - 1) \ slot_bitmap

(* The first zero bit from slot_hint on, else the first one from 0 on.     *)
NextFit(s) ==
    /\ s \in FreeSlots
    /\ \A r \in FreeSlots : IF s >= slot_hint THEN r < slot_hint \/ s <= r
                                              ELSE r < slot_hint /\ s <= r

(* Mutant: the table entry is left as it was.                              *)
Forgotten(p, s) == virt_to_phys_map

Recorded(p, s) == [virt_to_phys_map EXCEPT ![p] = s]

WriteClaim(t) ==
    /\ Allocating(t) /\ StillUnmapped(t)
    /\ \E s \in FreeSlots :
          /\ NextFit(s)
          /\ slot_bitmap' = slot_bitmap \cup {s}
          /\ slot_hint' = (s + 1) % total_slots
          /\ virt_to_phys_map' = Recorded(rq[t].i, s)
          /\ rq' = [rq EXCEPT ![t].p_slot = s, ![t].fresh = TRUE]
    /\ active_slots' = active_slots + 1
    /\ pc' = [pc EXCEPT ![t] = "disk_write"]
    /\ UNCHANGED <<pool, lock, expansion_trigger_percent, file>>

(* Mutant: the search does not start again from 0.                         *)
NothingAboveHint == \A s \in FreeSlots : s < slot_hint

NothingFree == FreeSlots = {}

WriteNoSpace(t) ==
    /\ Allocating(t) /\ StillUnmapped(t)
    /\ NothingFree
    /\ Transferred(t, "NOSPC", Zero, {rq[t].i})
    /\ UNCHANGED <<map, pool, lock, expansion_trigger_percent, file>>

(* disk_write: no lock is held, and what kernel_write returns is not read. *)
WriteStore(t) ==
    /\ pc[t] = "disk_write"
    /\ \E ok \in Outcome("write") :
          /\ file' = IF ok THEN [file EXCEPT ![rq[t].p_slot] =
                                    <<rq[t].i, rq[t].val>>]
                           ELSE file
          /\ Transferred(t, "OK", Zero, IF ok THEN {} ELSE {rq[t].i})
    /\ UNCHANGED <<map, pool, lock, expansion_trigger_percent>>

-----------------------------------------------------------------------------
(* dynaswap_read.                                                          *)

(* Under the read lock: a page that has no slot reads as zeroes.           *)
ReadUnmapped(t) ==
    /\ Segment(t, "read") /\ Unlocked
    /\ virt_to_phys_map[rq[t].i] = Unmapped
    /\ Transferred(t, "OK", Zero, {})
    /\ UNCHANGED <<map, pool, lock, expansion_trigger_percent, file>>

ReadLookup(t) ==
    /\ Segment(t, "read") /\ Unlocked
    /\ virt_to_phys_map[rq[t].i] # Unmapped
    /\ pc' = [pc EXCEPT ![t] = "disk_read"]
    /\ rq' = [rq EXCEPT ![t].p_slot = virt_to_phys_map[rq[t].i]]
    /\ UNCHANGED <<map, pool, lock, expansion_trigger_percent, file>>

(* No lock is held; a read that fails leaves a page of zeroes.             *)
ReadFetch(t) ==
    /\ pc[t] = "disk_read"
    /\ \E ok \in Outcome("read") :
          IF ok THEN Transferred(t, "OK", file[rq[t].p_slot], {})
                ELSE Transferred(t, "IOERR", Zero, {rq[t].i})
    /\ UNCHANGED <<map, pool, lock, expansion_trigger_percent, file>>

-----------------------------------------------------------------------------
(* dynaswap_discard.                                                       *)

(* Mutants: the last batch is not cut short; a batch is empty.             *)
BatchNotCut(r) == r.i + BatchPages
BatchEmpty(r) == r.i

BatchEnd(r) == IF r.i + BatchPages < r.end THEN r.i + BatchPages ELSE r.end

DiscardLock(t) ==
    /\ Segment(t, "discard") /\ Unlocked
    /\ map_rwsem' = t
    /\ rq' = [rq EXCEPT ![t].batch_end = BatchEnd(rq[t])]
    /\ pc' = [pc EXCEPT ![t] = "batch"]
    /\ UNCHANGED <<map, pool, expansion_trigger_percent, file>>

(* Mutant: the slot is freed and the entry stays.                          *)
Uncleared(p) == virt_to_phys_map

Cleared(p) == [virt_to_phys_map EXCEPT ![p] = Unmapped]

(* One entry of the batch.  The slot is freed and its hole punched in one  *)
(* step: until the lock is released nobody can claim the slot, and an      *)
(* access under way without the lock sees what it would have seen before.  *)
DiscardEntry(t) ==
    LET p == rq[t].i
        s == virt_to_phys_map[p]
    IN  /\ pc[t] = "batch" /\ p < rq[t].batch_end
        /\ rq' = [rq EXCEPT ![t].i = p + 1]
        /\ \/ /\ s = Unmapped
              /\ UNCHANGED <<map, file>>
           \/ /\ s # Unmapped
              /\ virt_to_phys_map' = Cleared(p)
              /\ slot_bitmap' = slot_bitmap \ {s}
              /\ active_slots' = active_slots - 1
              /\ \E punched \in Outcome("punch") :
                    file' = IF punched THEN [file EXCEPT ![s] = Zero] ELSE file
              /\ UNCHANGED slot_hint
        /\ UNCHANGED <<pool, lock, expansion_trigger_percent, pc>>

DiscardUnlock(t) ==
    /\ pc[t] = "batch" /\ rq[t].i = rq[t].batch_end
    /\ map_rwsem' = Nobody
    /\ pc' = [pc EXCEPT ![t] = "next"]
    /\ rq' = [rq EXCEPT ![t].batch_end = 0]
    /\ UNCHANGED <<map, pool, expansion_trigger_percent, file>>

-----------------------------------------------------------------------------
(* The extension worker: a work item never runs twice at the same time.    *)

(* Mutant: the capacity is not looked at.                                  *)
NewSlotsUncapped == total_slots + ChunkSlots

NewSlots == IF total_slots + ChunkSlots > NPages THEN NPages
                                                 ELSE total_slots + ChunkSlots

(* dynaswap_expand_file up to the lock.  The item leaves the queue when it *)
(* starts, so a write may queue it again while it runs.                    *)
ExtendRun ==
    /\ extend_queued /\ extending = 0
    /\ extend_queued' = FALSE
    /\ \E ok \in Outcome("fallocate") :
          IF ok /\ NewSlots > total_slots
          THEN file_slots' = NewSlots /\ extending' = NewSlots
          ELSE UNCHANGED <<file_slots, extending>>
    /\ UNCHANGED <<map, total_slots, lock, expansion_trigger_percent,
                   file, pc, rq>>

ExtendPublish ==
    /\ extending # 0 /\ Unlocked
    /\ total_slots' = extending
    /\ extending' = 0
    /\ UNCHANGED <<map, file_slots, extend_queued, lock,
                   expansion_trigger_percent, file, pc, rq>>

(* inflate_threshold is writable through sysfs.                            *)
SetTrigger ==
    /\ expansion_trigger_percent' \in Trigger
    /\ UNCHANGED <<map, pool, lock, file, pc, rq>>

-----------------------------------------------------------------------------
Writer(t) == \/ WriteReadTotal(t) \/ WriteQueueExtend(t) \/ WriteLookup(t)
             \/ WriteMappedMeanwhile(t) \/ WriteClaim(t) \/ WriteNoSpace(t)
             \/ WriteStore(t)
Reader(t) == ReadUnmapped(t) \/ ReadLookup(t) \/ ReadFetch(t)
Discarder(t) == DiscardLock(t) \/ DiscardEntry(t) \/ DiscardUnlock(t)

(* What the kernel thread that runs the work item of tag t does.           *)
Worker(t) == Writer(t) \/ Reader(t) \/ Discarder(t) \/ Complete(t)
Extender == ExtendRun \/ ExtendPublish

Next == \/ \E t \in Tag : SubmitTransfer(t) \/ SubmitDiscard(t) \/ Worker(t)
        \/ Extender
        \/ SetTrigger

Spec == Init /\ [][Next]_vars

(* Every queued work item is run, and a waiter of the semaphore is handed  *)
(* it in the end, however often others take it in between.                 *)
Fairness == (\A t \in Tag : SF_vars(Worker(t))) /\ SF_vars(Extender)
LiveSpec == Spec /\ Fairness

-----------------------------------------------------------------------------
(* Invariants.                                                             *)

RequestType ==
    [op : {"none", "read", "write", "discard"}, i : 0 .. NPages,
     end : 0 .. NPages, batch_end : 0 .. NPages, val : Val \cup {Zero},
     total : 0 .. NPages, p_slot : Slot \cup {Unmapped},
     status : {"OK", "IOERR", "NOSPC"}, got : Data, fresh : BOOLEAN,
     failed : SUBSET Page]

ContextOK ==
    /\ virt_to_phys_map \in [Page -> Slot \cup {Unmapped}]
    /\ slot_bitmap \subseteq Slot
    /\ slot_hint \in 0 .. NPages
    /\ total_slots \in 0 .. NPages
    /\ active_slots \in Int
    /\ map_rwsem \in Tag \cup {Nobody}
    /\ extend_queued \in BOOLEAN
    /\ extending \in 0 .. NPages
    /\ expansion_trigger_percent \in Trigger
    /\ file \in [Slot -> Data]
    /\ file_slots \in 0 .. NPages

Label == {"free", "next", "trigger", "lookup", "alloc", "disk_write",
          "disk_read", "batch"}

(* Each label of the worker fits the request it serves.                    *)
Fits(label, r) ==
    /\ label = "free" <=> r.op = "none"
    /\ r.i <= r.end
    /\ r.op = "write" => r.val \in Val
    /\ label \in {"trigger", "lookup", "alloc", "disk_write"} =>
           r.op = "write" /\ r.i < r.end
    /\ label = "disk_read" => r.op = "read" /\ r.i < r.end
    /\ label = "batch" => /\ r.op = "discard"
                          /\ r.i <= r.batch_end /\ r.batch_end <= r.end
    /\ label \in {"disk_write", "disk_read"} => r.p_slot \in Slot

RequestsOK ==
    /\ pc \in [Tag -> Label]
    /\ rq \in [Tag -> RequestType]
    /\ \A t \in Tag : Fits(pc[t], rq[t])

(* Every variable of dynamap_ctx, of the backing file and of the requests  *)
(* in flight stays in its range, and a worker never leaves its request.    *)
TypeOK == ContextOK /\ RequestsOK

Mapped(p) == virt_to_phys_map[p] # Unmapped

(* No two pages of the device share a slot of the backing file, whatever   *)
(* writers, discards and the extension worker do at the same time.         *)
NoSharedSlot ==
    \A p, q \in Page :
        Mapped(p) /\ virt_to_phys_map[p] = virt_to_phys_map[q] => p = q

(* slot_bitmap has a bit set exactly for the slots of mapped pages: none   *)
(* leaks when a page is discarded, none is handed out while it is in use.  *)
BitmapExact ==
    slot_bitmap = {virt_to_phys_map[p] : p \in {q \in Page : Mapped(q)}}

(* active_slots, which dynaswap_should_extend reads, counts these slots.   *)
CountExact == active_slots = Cardinality(slot_bitmap)

MapConsistent == NoSharedSlot /\ BitmapExact /\ CountExact

(* A slot in use lies inside the published pool, the pool inside the       *)
(* backing file, the file inside the capacity ("will not grow beyond       *)
(* this"); the file is ahead of the pool only while an extension runs.     *)
PoolWithinFile ==
    /\ slot_bitmap \subseteq 0 .. total_slots - 1
    /\ file_slots <= NPages
    /\ IF extending = 0 THEN file_slots = total_slots
                        ELSE file_slots = extending /\ total_slots < extending

(* A transfer under way without the lock goes to the slot that still       *)
(* belongs to its page: true when clients order the requests on one page.  *)
SlotOwned ==
    \A t \in Tag : pc[t] \in {"disk_write", "disk_read"} =>
                       virt_to_phys_map[rq[t].i] = rq[t].p_slot

(* A read returns zeroes or what was written to the page it names, never   *)
(* what another page left in a slot.                                       *)
ReadOwnData ==
    \A t \in Tag : rq[t].op = "read" /\ rq[t].got # Zero =>
                       rq[t].got[1] = rq[t].i - 1

(* A write or a read that completes with BLK_STS_OK has moved its pages.   *)
OkMeansTransferred ==
    \A t \in Tag : Finished(t) /\ rq[t].status = "OK" => rq[t].failed = {}

-----------------------------------------------------------------------------
(* Action properties.                                                      *)

Refused(t) == rq[t].status # "NOSPC" /\ rq'[t].status = "NOSPC"

(* A write is refused for want of a slot only when every slot of the pool  *)
(* is in use, and never once the pool has reached the capacity: there are  *)
(* then as many slots as pages, and the page refused has none of them.     *)
NoSpaceMeansFull ==
    [][\A t \in Tag : Refused(t) => /\ active_slots = total_slots
                                    /\ total_slots < NPages]_vars

(* Stronger, and false: the device presents the whole of capacity_gb, so a *)
(* write finds room until the file has grown to it.                        *)
NoSpaceOnlyAtCapacity ==
    [][\A t \in Tag : Refused(t) => total_slots = NPages]_vars

(* From the first page of a batch to the last, while the discard holds     *)
(* map_rwsem for writing, nobody else claims, frees or publishes a slot:   *)
(* "Concurrent access to the mapping is guarded by an rw_semaphore".       *)
GuardedBySemaphore ==
    [][\A t \in Tag : pc[t] = "batch" =>
           /\ UNCHANGED <<total_slots, slot_hint>>
           /\ \/ UNCHANGED map
              \/ rq'[t].i = rq[t].i + 1 /\ virt_to_phys_map' = Cleared(rq[t].i)
           /\ \A u \in Tag \ {t} : pc[u] # "batch"]_vars

(* How many steps a worker takes at most until its request is completed:   *)
(* up to six for each page that is left.                                   *)
StepsForPage(t) ==
    CASE pc[t] = "free" -> 0
      [] pc[t] \in {"disk_write", "disk_read"} -> 1
      [] pc[t] = "alloc" -> 2
      [] pc[t] = "lookup" -> 3
      [] pc[t] = "trigger" -> 4
      [] pc[t] = "next" -> 5
      [] pc[t] = "batch" -> IF rq[t].i < rq[t].batch_end THEN 4 ELSE 6

StepsLeft(t) == 6 * (rq[t].end - rq[t].i) + StepsForPage(t)

(* Whatever a worker finds, a full pool, a page that was mapped meanwhile, *)
(* an error, an empty batch, it gets nearer to the end of its request: no  *)
(* path through the code repeats itself, and no one else takes it back.    *)
(* With the lock always released this is the safety part of                *)
(* EveryRequestCompletes.                                                  *)
NearerTheEnd ==
    [][\A t \in Tag : pc[t] # "free" =>
           \/ pc'[t] = pc[t] /\ rq'[t] = rq[t]
           \/ StepsLeft(t)' \in 0 .. StepsLeft(t) - 1]_vars

-----------------------------------------------------------------------------
(* Liveness.                                                               *)

(* Every request that is accepted is completed, however the lock is        *)
(* contended.                                                              *)
EveryRequestCompletes == \A t \in Tag : pc[t] # "free" ~> pc[t] = "free"

(* A write that starts on a full pool brings more slots, unless a discard  *)
(* makes room first: the pool is never stuck below the capacity.           *)
FullPoolGrows ==
    \A n \in 0 .. NPages - 1 :
        (\E t \in Tag : Segment(t, "write")) /\ active_slots = n /\ total_slots = n
            ~> active_slots < n \/ total_slots > n

-----------------------------------------------------------------------------
(* The device as its clients see it.  A page whose slot was claimed by a   *)
(* write that has not stored it yet still reads as zeroes.                 *)
Stored(p) ==
    /\ Mapped(p)
    /\ \A t \in Tag : ~(pc[t] = "disk_write" /\ rq[t].fresh /\ rq[t].i = p)

LogicalDisk ==
    [p \in Page |-> IF Stored(p) THEN file[virt_to_phys_map[p]] ELSE Zero]

LogicalRequest ==
    [t \in Tag |-> [op |-> rq[t].op, i |-> rq[t].i, end |-> rq[t].end,
                    val |-> rq[t].val, status |-> rq[t].status,
                    got |-> rq[t].got]]

Disk == INSTANCE PageDisk WITH disk <- LogicalDisk, req <- LogicalRequest,
                               Discarding <- "zero", ErrorsLast <- FALSE,
                               WritesLost <- "write" \in Fault

(* dynamap with its slots, its lock and its extension worker is a page     *)
(* store: the last value stored, or zeroes after a discard, is what a read *)
(* returns.  A status lasts until the next page of the request, and what   *)
(* kernel_write refused looks stored.                                      *)
ImplementsPageDisk == Disk!Spec
=============================================================================
