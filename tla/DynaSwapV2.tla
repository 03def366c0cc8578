----------------------------- MODULE DynaSwapV2 -----------------------------
(***************************************************************************)
(* The second driver (driver/v2): device.c puts every request on one       *)
(* ordered workqueue, together with the extension of the pool; context.c   *)
(* carries a request out on the slot manager (fs/slot.c, utils/bimap.c)    *)
(* and the backing file (fs/storage.c).                                    *)
(*                                                                         *)
(* The item at the head of `queue' is the one that runs.  Only it touches  *)
(* slots and file, so a step is one call it makes; new requests arrive     *)
(* between any two steps.  The two hash tables of the bimap always hold    *)
(* the same entries and are one function.  A page is cut into sectors      *)
(* because bimap keys are sectors; a segment starts somewhere in a page of *)
(* memory, and the whole of that page is what moves.  A flush has no       *)
(* segment: it completes and changes nothing.                              *)
(***************************************************************************)
EXTENDS Integers, Sequences, FiniteSets

CONSTANTS
    Tag,         \* requests that can be in flight (queue_depth)
    NPages,      \* bitmap_size: pages of the device, and slots at most
    PageSectors, \* sectors of a page (8)
    ChunkSlots,  \* CHUNK_SIZE in pages
    EXTEND_THRESHOLD_PERCENT,
    Align,       \* requests start and end at multiples of this
    SegmentLen,  \* the lengths of segments, in sectors
    SegmentOffset, \* bv_offset: where in its page of memory one starts
    MaxSectors,  \* bound: sectors in one read or write request
    Val,         \* what a client may write
    Zero,        \* the contents of a sector of zeroes
    Other,       \* memory of the client that is no part of the request
    Fault        \* which calls may fail

ASSUME DynaSwapV2Assumption ==
    /\ NPages \in Nat \ {0} /\ PageSectors \in Nat \ {0}
    /\ ChunkSlots \in Nat \ {0} /\ Align \in Nat \ {0}
    /\ EXTEND_THRESHOLD_PERCENT \in 0 .. 255
    /\ SegmentLen \subseteq Nat \ {0} /\ MaxSectors \in Nat
    /\ SegmentOffset \subseteq 0 .. PageSectors - 1
    /\ Fault \subseteq {"bimap", "read", "write", "fsync", "fallocate"}
    /\ "extend" \notin Tag

VARIABLES
    queue,        \* DYNASWAP_WORKQUEUE: requests and "extend", oldest first
    step,         \* where the item at the head of the queue is
    slot,         \* local of dynaswap_write, or Unmapped
    rq,           \* rq[t]: the request that holds tag t
    slot_bimap,   \* [Sector -> slot recorded under this sector, or Unmapped]
    slot_bitmap,  \* the set of slots that are reserved
    bitmap_hint,  \* where the next-fit search starts
    total_slots,  \* slots that may be reserved
    active_slots, \* the count of reserved slots
    file,         \* [Slot -> contents of the page]
    file_slots    \* the length of the backing file, in slots

manager == <<slot_bimap, slot_bitmap, bitmap_hint, active_slots>>
storage == <<file, file_slots>>
vars == <<queue, step, slot, rq, slot_bimap, slot_bitmap, bitmap_hint,
          total_slots, active_slots, file, file_slots>>

Sectors == NPages * PageSectors
Sector == 0 .. Sectors - 1
Unit == 0 .. PageSectors - 1
Slot == 0 .. NPages - 1
Unmapped == -1
Content == (Sector \X Val) \cup {Zero, Other}
ZeroPage == [u \in Unit |-> Zero]

Idle == [op |-> "none", i |-> 0, end |-> 0, val |-> Zero, status |-> "OK",
         got |-> ZeroPage]

Outcome(call) == IF call \in Fault THEN BOOLEAN ELSE {TRUE}

MinOf(a, b) == IF a < b THEN a ELSE b
MaxOf(a, b) == IF a > b THEN a ELSE b

-----------------------------------------------------------------------------
(* dynaswap_extend.                                                        *)

(* Mutant of extend_slots: the capacity is not looked at.                  *)
UncappedSlots == total_slots + ChunkSlots

(* extend_slots: the count goes up first, and not above bitmap_size.       *)
ExtendedSlots == MinOf(total_slots + ChunkSlots, NPages)

(* extend_storage: a whole chunk from the old count on, also when the      *)
(* count could not be raised by one.                                       *)
ExtendedFile == MaxOf(file_slots, total_slots + ChunkSlots)

(* The raised count stays when the file cannot be extended.                *)
Extend ==
    /\ total_slots' = ExtendedSlots
    /\ \E ok \in Outcome("fallocate") :
          file_slots' = IF ok THEN ExtendedFile ELSE file_slots

(* setup_context has extended the pool once before the disk is added.      *)
Init ==
    /\ queue = <<>> /\ step = "segment" /\ slot = Unmapped
    /\ rq = [t \in Tag |-> Idle]
    /\ slot_bimap = [s \in Sector |-> Unmapped]
    /\ slot_bitmap = {} /\ bitmap_hint = 0 /\ active_slots = 0
    /\ total_slots = MinOf(ChunkSlots, NPages)
    /\ file = [s \in Slot |-> ZeroPage]
    /\ \E ok \in Outcome("fallocate") : file_slots = IF ok THEN ChunkSlots ELSE 0

-----------------------------------------------------------------------------
(* queue_rq: the request becomes the last item of the queue.               *)

(* Mutant: the newest item runs first, after the one under way.            *)
QueuedFirst(item) ==
    IF queue = <<>> THEN <<item>> ELSE <<Head(queue), item>> \o Tail(queue)

Queued(item) == Append(queue, item)

Submit(t, op, first, end, v) ==
    /\ rq[t].op = "none"
    /\ first % Align = 0 /\ end % Align = 0
    /\ queue' = Queued(t)
    /\ rq' = [rq EXCEPT ![t] = [Idle EXCEPT !.op = op, !.i = first,
                                            !.end = end, !.val = v]]
    /\ UNCHANGED <<step, slot, manager, total_slots, storage>>

SubmitTransfer(t) ==
    \E op \in {"read", "write"}, first \in Sector, n \in 1 .. MaxSectors,
       v \in Val :
        /\ first + n <= Sectors
        /\ Submit(t, op, first, first + n, IF op = "write" THEN v ELSE Zero)

SubmitDiscard(t) ==
    \E first, end \in 0 .. Sectors :
        first <= end /\ Submit(t, "discard", first, end, Zero)

Running(item) == queue # <<>> /\ Head(queue) = item

(* The loop of perform_rq is at its top, with segments left to move.       *)
Segment(t, op) == /\ Running(t) /\ step = "segment"
                  /\ rq[t].op = op /\ rq[t].i < rq[t].end

(* A segment is `len' sectors; the loop goes on behind it.                 *)
Moved(t, len, got) ==
    /\ len \in SegmentLen /\ rq[t].i + len <= rq[t].end
    /\ rq' = [rq EXCEPT ![t].i = rq[t].i + len, ![t].got = got]
    /\ step' = "segment" /\ slot' = Unmapped

(* Mutant: the error ends the loop and is not reported.                    *)
ErrorForgotten(t, status) == [rq EXCEPT ![t].i = rq[t].end]

(* An error ends the loop: the segments that are left are not moved.       *)
Broken(t, status) == [rq EXCEPT ![t].i = rq[t].end, ![t].status = status,
                                ![t].got = ZeroPage]

Failed(t, status) ==
    /\ rq' = Broken(t, status)
    /\ step' = "segment" /\ slot' = Unmapped

Complete(t) ==
    /\ Running(t) /\ step = "segment" /\ rq[t].i = rq[t].end
    /\ queue' = Tail(queue)
    /\ rq' = [rq EXCEPT ![t] = Idle]
    /\ UNCHANGED <<step, slot, manager, total_slots, storage>>

RunExtend ==
    /\ Running("extend")
    /\ Extend
    /\ queue' = Tail(queue)
    /\ UNCHANGED <<step, slot, rq, manager, file>>

-----------------------------------------------------------------------------
(* dynaswap_write.                                                         *)

(* Mutant: a pool that is full is not extended at once.                    *)
ExtendIfEmpty == total_slots = 0

(* slot_manager_needs_extend.                                              *)
ExtendRequired == total_slots = 0 \/ total_slots = active_slots

ExtendNeeded ==
    /\ ~ExtendRequired
    /\ (active_slots * 100) \div total_slots >= EXTEND_THRESHOLD_PERCENT

QueuedExtend == IF \E k \in 1 .. Len(queue) : queue[k] = "extend"
                THEN queue ELSE Queued("extend")

(* The extension is carried out at once, or queued unless it is already.   *)
WriteExtend(t) ==
    /\ Segment(t, "write")
    /\ step' = "reserve"
    /\ \/ ExtendRequired /\ Extend /\ UNCHANGED queue
       \/ /\ ExtendNeeded
          /\ queue' = QueuedExtend
          /\ UNCHANGED <<total_slots, file_slots>>
       \/ /\ ~ExtendRequired /\ ~ExtendNeeded
          /\ UNCHANGED <<queue, total_slots, file_slots>>
    /\ UNCHANGED <<slot, rq, manager, file>>

Reserving(t) == Running(t) /\ step = "reserve"

(* find_slot_sector.                                                       *)
Found(t) == slot_bimap[rq[t].i] # Unmapped

ReuseSlot(t) ==
    /\ Reserving(t) /\ Found(t)
    /\ step' = "store" /\ slot' = slot_bimap[rq[t].i]
    /\ UNCHANGED <<queue, rq, manager, total_slots, storage>>

(* Mutant: the search does not look at the bitmap.                         *)
AnySlot == 0 .. total_slots - 1

FreeSlots == (0 .. total_slots - 1) \ slot_bitmap

(* The first free slot from bitmap_hint on, else the first one from 0 on.  *)
NextFit(s) ==
    /\ s \in FreeSlots
    /\ \A r \in FreeSlots : IF s >= bitmap_hint THEN r < bitmap_hint \/ s <= r
                                                ELSE r < bitmap_hint /\ s <= r

(* Mutant: the hint does not wrap around.                                  *)
HintNotWrapped(s) == s + 1

HintAfter(s) == (s + 1) % total_slots

Inserted(t, s) == [slot_bimap EXCEPT ![rq[t].i] = s]

(* The slot stays reserved when bimap_insert finds no memory.              *)
ReserveSlot(t) ==
    /\ Reserving(t) /\ ~Found(t)
    /\ \E s \in FreeSlots :
          /\ NextFit(s)
          /\ slot_bitmap' = slot_bitmap \cup {s}
          /\ bitmap_hint' = HintAfter(s)
          /\ active_slots' = active_slots + 1
          /\ \E ok \in Outcome("bimap") :
                IF ok THEN /\ slot_bimap' = Inserted(t, s)
                           /\ step' = "store" /\ slot' = s
                           /\ UNCHANGED rq
                      ELSE Failed(t, "RESOURCE") /\ UNCHANGED slot_bimap
    /\ UNCHANGED <<queue, total_slots, storage>>

NoSlot(t) ==
    /\ Reserving(t) /\ ~Found(t) /\ FreeSlots = {}
    /\ Failed(t, "NOSPC")
    /\ UNCHANGED <<queue, manager, total_slots, storage>>

(* The memory page that a segment of `len' sectors starts in, at `at': the *)
(* rest of it is not of the request, and what lies in further pages is not *)
(* in it.  perform_rq passes bv_page on and leaves bv_offset out.          *)
MemoryPage(first, len, at, v) ==
    [u \in Unit |-> IF at <= u /\ u < at + len THEN <<first + u - at, v>>
                                              ELSE Other]

(* The segment that starts at `at' of the memory page moved from the file. *)
SegmentOf(contents, at) ==
    [u \in Unit |-> IF u + at \in Unit THEN contents[u + at] ELSE Other]

(* write_storage: one page of memory goes to the slot and is synced.  A    *)
(* write that fails may have reached the file, one not synced has.  IOERR  *)
(* stands for every error of the backing file.                             *)
Store(t) ==
    /\ Running(t) /\ step = "store"
    /\ \E len \in SegmentLen, at \in SegmentOffset,
          written \in Outcome("write"), synced \in Outcome("fsync"),
          reached \in BOOLEAN :
          /\ rq[t].i + len <= rq[t].end
          /\ written => reached
          /\ IF reached
             THEN /\ file' = [file EXCEPT ![slot] =
                                 MemoryPage(rq[t].i, len, at, rq[t].val)]
                  /\ file_slots' = MaxOf(file_slots, slot + 1)
             ELSE UNCHANGED storage
          /\ IF written /\ synced THEN Moved(t, len, ZeroPage)
                                  ELSE Failed(t, "IOERR")
    /\ UNCHANGED <<queue, manager, total_slots>>

-----------------------------------------------------------------------------
(* dynaswap_read and dynaswap_discard.                                     *)

ReadUnmapped(t) ==
    /\ Segment(t, "read") /\ ~Found(t)
    /\ \E len \in SegmentLen, at \in SegmentOffset :
          Moved(t, len, SegmentOf(ZeroPage, at))
    /\ UNCHANGED <<queue, manager, total_slots, storage>>

(* read_storage: what lies beyond the end of the file cannot be read.      *)
ReadSlot(t) ==
    LET s == slot_bimap[rq[t].i]
    IN  /\ Segment(t, "read") /\ Found(t)
        /\ \E ok \in Outcome("read") :
              IF ok /\ s < file_slots
              THEN \E len \in SegmentLen, at \in SegmentOffset :
                       Moved(t, len, SegmentOf(file[s], at))
              ELSE Failed(t, "IOERR")
        /\ UNCHANGED <<queue, manager, total_slots, storage>>

(* clear_slot_sector_range does nothing and returns 0.                     *)
Discard(t) ==
    /\ Segment(t, "discard")
    /\ rq' = [rq EXCEPT ![t].i = rq[t].end]
    /\ UNCHANGED <<queue, step, slot, manager, total_slots, storage>>

-----------------------------------------------------------------------------
Handle(t) == \/ WriteExtend(t) \/ ReuseSlot(t) \/ ReserveSlot(t) \/ NoSlot(t)
             \/ Store(t) \/ ReadUnmapped(t) \/ ReadSlot(t) \/ Discard(t)
             \/ Complete(t)

(* The one kernel thread of the ordered workqueue.                         *)
Worker == RunExtend \/ \E t \in Tag : Handle(t)

Next == Worker \/ \E t \in Tag : SubmitTransfer(t) \/ SubmitDiscard(t)

Spec == Init /\ [][Next]_vars

(* A work item that is queued is run.                                      *)
LiveSpec == Spec /\ WF_vars(Worker)

-----------------------------------------------------------------------------
(* Properties.                                                             *)

RequestType ==
    [op : {"none", "read", "write", "discard"}, i : 0 .. Sectors,
     end : 0 .. Sectors, val : Val \cup {Zero},
     status : {"OK", "IOERR", "NOSPC", "RESOURCE"}, got : [Unit -> Content]]

(* Slots, counts and file stay in their ranges, and a step that uses a     *)
(* slot has one.                                                           *)
TypeOK ==
    /\ queue \in Seq(Tag \cup {"extend"})
    /\ step \in {"segment", "reserve", "store"}
    /\ slot \in Slot \cup {Unmapped} /\ (step = "store" <=> slot # Unmapped)
    /\ rq \in [Tag -> RequestType]
    /\ slot_bimap \in [Sector -> Slot \cup {Unmapped}]
    /\ slot_bitmap \subseteq Slot /\ bitmap_hint \in Slot
    /\ total_slots \in Nat /\ active_slots \in Nat
    /\ file \in [Slot -> [Unit -> Content]]
    /\ file_slots \in Nat

Mapped == {s \in Sector : slot_bimap[s] # Unmapped}
MappedSlots == {slot_bimap[s] : s \in Mapped}
Leaked == slot_bitmap \ MappedSlots

(* A slot belongs to one sector, is marked in the bitmap and counted, also *)
(* after insertions that failed: a slot that leaked is never given away.   *)
BimapConsistent ==
    /\ \A s, r \in Mapped : slot_bimap[s] = slot_bimap[r] => s = r
    /\ MappedSlots \subseteq slot_bitmap
    /\ slot_bitmap \subseteq 0 .. total_slots - 1
    /\ active_slots = Cardinality(slot_bitmap)

(* The pool never has more slots than the device has pages, and the file,  *)
(* which extend_storage does not cut short, is at most a chunk larger than *)
(* the device, however often the extension is queued at the capacity.      *)
FileBounded == total_slots <= NPages /\ file_slots <= NPages + ChunkSlots

(* Clients that keep to whole pages are refused for want of a slot only    *)
(* when all slots of the device are reserved and one of them leaked in an  *)
(* insertion that failed: a pool that is full is extended at once.         *)
NoSpaceOnlyByLeak ==
    [][\A t \in Tag : rq[t].status # "NOSPC" /\ rq'[t].status = "NOSPC" =>
           active_slots = NPages /\ Leaked # {}]_vars

(* While a slot holds what was written to a sector, a read that starts at  *)
(* this sector does not find zeroes: "a page reduces a sector down to a    *)
(* virtual index", so every sector of a page leads to the page's slot.     *)
StoredIsFound ==
    [][\A t \in Tag :
           Running(t) /\ rq[t].op = "read" /\ rq'[t].i > rq[t].i
               /\ rq'[t].status = "OK" /\ rq'[t].got[0] = Zero =>
           \A s \in slot_bitmap, u \in Unit :
               file[s][u] \notin {rq[t].i} \X Val]_vars

(* What a read finds in a sector is zeroes, or what was written to this    *)
(* very sector, or memory sent along with it: never another sector's data, *)
(* also in a slot that leaked or that a failed write has reached.  So it   *)
(* is while segments start at the top of a page of memory: bv_offset is    *)
(* not looked at.                                                          *)
ReadOwnSectors ==
    [][\A t \in Tag :
           Running(t) /\ rq[t].op = "read" /\ rq'[t].i > rq[t].i =>
               \A u \in Unit : rq'[t].got[u] \in
                                   {Zero, Other} \cup ({rq[t].i + u} \X Val)]_vars

(* How many steps the worker takes at most until the request is completed. *)
StepsLeft(t) ==
    3 * (rq[t].end - rq[t].i) + (CASE step = "segment" -> 2
                                   [] step = "reserve" -> 1
                                   [] step = "store" -> 0)

Nearer(t) ==
    \/ rq'[t] = rq[t] /\ step' = step /\ queue' # Tail(queue)
    \/ StepsLeft(t)' \in 0 .. StepsLeft(t) - 1 /\ queue' # Tail(queue)
    \/ rq'[t].op = "none" /\ queue' = Tail(queue)

(* Items are served in the order they were queued; what stands behind the  *)
(* item that runs is left alone; and every step on a request, one that     *)
(* finds the pool full, leaks a slot or fails included, brings it nearer   *)
(* to its end.  This is the safety part of EveryRequestCompletes.          *)
ServedInOrder ==
    [][/\ \/ queue' = queue
          \/ queue' \in {Append(queue, item) : item \in Tag \cup {"extend"}}
          \/ queue' = Tail(queue)
       /\ \A t \in Tag : rq[t].op # "none" =>
              IF Running(t) THEN Nearer(t) ELSE rq'[t] = rq[t]]_vars

(* A request that was put on the queue is completed, whatever is queued    *)
(* behind it and however often the pool is extended.                       *)
EveryRequestCompletes == \A t \in Tag : rq[t].op # "none" ~> rq[t].op = "none"

-----------------------------------------------------------------------------
(* The device in pages, as clients that keep to whole pages see it.        *)
AsPage(contents) ==
    IF contents = ZeroPage THEN Zero
    ELSE CHOOSE page \in (0 .. NPages - 1) \X Val :
             contents = MemoryPage(page[1] * PageSectors, PageSectors, 0, page[2])

LogicalDisk ==
    [p \in 0 .. NPages - 1 |->
        IF p * PageSectors \in Mapped
        THEN AsPage(file[slot_bimap[p * PageSectors]]) ELSE Zero]

LogicalRequest ==
    [t \in Tag |-> [op |-> rq[t].op, i |-> rq[t].i \div PageSectors,
                    end |-> rq[t].end \div PageSectors, val |-> rq[t].val,
                    status |-> rq[t].status, got |-> AsPage(rq[t].got)]]

Disk == INSTANCE PageDisk WITH disk <- LogicalDisk, req <- LogicalRequest,
                               MaxPages <- MaxSectors \div PageSectors,
                               Serialised <- FALSE, Discarding <- "keep",
                               ErrorsLast <- TRUE, WritesLost <- FALSE

(* The second driver is a page store without any help of its clients: the  *)
(* queue orders what they do not.  A discard keeps what was stored.        *)
ImplementsPageDisk == Disk!Spec
=============================================================================
