-------------------------- MODULE DynaMapDiskProofs --------------------------
(***************************************************************************)
(* The first driver is a page store for clients that order their requests: *)
(* no transfer goes to a slot that has changed hands, and every step is a  *)
(* step of PageDisk or changes nothing a client can see.                   *)
(***************************************************************************)
EXTENDS DynaMapProofs

-----------------------------------------------------------------------------
(* What a worker does to its own request, and to those of others.          *)

(* Two requests have no page left in common, or both only read.            *)
Apart(r, s) == \/ r.op = "none" \/ s.op = "none"
               \/ r.op = "read" /\ s.op = "read"
               \/ r.end <= s.i \/ s.end <= r.i

Disjoint == \A t, u \in Tag : t # u => Apart(rq[t], rq[u])

(* Only the write that has claimed a slot and not stored its page is fresh.*)
Fresh == \A t \in Tag : rq[t].fresh => pc[t] = "disk_write"

(* The request of t may move on, the others stay as they are.              *)
Alone(t) == \A u \in Tag : u # t => rq'[u] = rq[u] /\ pc'[u] = pc[u]

Onward(t) ==
    /\ rq'[t].op = rq[t].op /\ rq'[t].end = rq[t].end /\ rq'[t].val = rq[t].val
    /\ rq'[t].i \in Nat /\ rq[t].i <= rq'[t].i /\ rq'[t].i <= rq[t].end

LEMMA OthersStay ==
    ASSUME TypeOK, NEW t \in Tag,
           Worker(t) \/ SubmitTransfer(t) \/ SubmitDiscard(t)
    PROVE  Alone(t)
<1>1. pc \in [Tag -> Label] /\ rq \in [Tag -> RequestType]
  BY DEF TypeOK, RequestsOK
<1>2. CASE Writer(t)
  BY <1>1, <1>2 DEF Writer, WriteReadTotal, WriteQueueExtend, WriteLookup,
     WriteMappedMeanwhile, WriteClaim, WriteNoSpace, WriteStore, Transferred, Alone
<1>3. CASE Reader(t)
  BY <1>1, <1>3 DEF Reader, ReadUnmapped, ReadLookup, ReadFetch, Transferred, Alone
<1>4. CASE Discarder(t) \/ Complete(t)
  BY <1>1, <1>4 DEF Discarder, DiscardLock, DiscardEntry, DiscardUnlock, Complete, Alone
<1>5. CASE SubmitTransfer(t) \/ SubmitDiscard(t)
  BY <1>1, <1>5 DEF SubmitTransfer, SubmitDiscard, Submit, Alone
<1> QED
  BY <1>2, <1>3, <1>4, <1>5 DEF Worker

(* A segment ends: the request moves on by one page.                       *)
LEMMA TransferredIs ==
    ASSUME TypeOK, NEW t \in Tag, NEW status, NEW got, NEW lost,
           Transferred(t, status, got, lost)
    PROVE  /\ rq'[t].op = rq[t].op /\ rq'[t].end = rq[t].end
           /\ rq'[t].val = rq[t].val /\ rq'[t].i = rq[t].i + 1
           /\ rq'[t].status = status /\ rq'[t].got = got
           /\ rq'[t].fresh = FALSE /\ pc'[t] = "next"
           /\ rq'[t].failed = rq[t].failed \cup lost
<1>1. /\ pc \in [Tag -> Label] /\ rq \in [Tag -> RequestType]
      /\ rq[t] \in RequestType
  BY DEF TypeOK, RequestsOK
<1> DEFINE s == Result(rq[t], status, got, lost)
<1>2. rq'[t] = s /\ pc'[t] = "next"
  BY <1>1 DEF Transferred
<1>3. /\ s.op = rq[t].op /\ s.end = rq[t].end /\ s.val = rq[t].val
      /\ s.i = rq[t].i + 1 /\ s.status = status /\ s.got = got
      /\ s.fresh = FALSE /\ s.failed = rq[t].failed \cup lost
  BY <1>1 DEF Result, RequestType
<1> HIDE DEF s
<1> QED
  BY <1>2, <1>3

LEMMA MovesOn ==
    ASSUME TypeOK, NEW t \in Tag, Writer(t) \/ Reader(t) \/ Discarder(t)
    PROVE  Onward(t)
<1>1. /\ pc \in [Tag -> Label] /\ rq \in [Tag -> RequestType]
      /\ rq[t] \in RequestType /\ rq[t].i \in Nat /\ rq[t].end \in Nat
      /\ rq[t].i <= rq[t].end
  BY DEF TypeOK, RequestsOK, RequestType, Fits
<1>2. CASE \/ WriteReadTotal(t) \/ WriteQueueExtend(t) \/ WriteLookup(t)
           \/ WriteMappedMeanwhile(t) \/ ReadLookup(t) \/ DiscardLock(t)
           \/ DiscardUnlock(t)
  <2>1. /\ rq'[t].op = rq[t].op /\ rq'[t].end = rq[t].end
        /\ rq'[t].val = rq[t].val /\ rq'[t].i = rq[t].i
    BY <1>1, <1>2 DEF WriteReadTotal, WriteQueueExtend, WriteLookup,
       WriteMappedMeanwhile, ReadLookup, DiscardLock, DiscardUnlock, RequestType
  <2> QED
    BY <1>1, <2>1 DEF Onward
<1>3. CASE WriteClaim(t)
  <2>1. PICK s \in FreeSlots :
            rq' = [rq EXCEPT ![t] = [rq[t] EXCEPT !.p_slot = s, !.fresh = TRUE]]
    BY <1>3 DEF WriteClaim
  <2>2. /\ rq'[t].op = rq[t].op /\ rq'[t].end = rq[t].end
        /\ rq'[t].val = rq[t].val /\ rq'[t].i = rq[t].i
    BY <1>1, <2>1 DEF RequestType
  <2> QED
    BY <1>1, <2>2 DEF Onward
<1>4. CASE WriteNoSpace(t) \/ WriteStore(t) \/ ReadUnmapped(t) \/ ReadFetch(t)
  <2>1. PICK status, got, lost : Transferred(t, status, got, lost)
    BY <1>4 DEF WriteNoSpace, WriteStore, ReadUnmapped, ReadFetch
  <2>2. rq[t].i < rq[t].end
    BY <1>4 DEF WriteNoSpace, WriteStore, ReadUnmapped, ReadFetch, Allocating,
       Segment, TypeOK, RequestsOK, Fits
  <2>3. /\ rq'[t].op = rq[t].op /\ rq'[t].end = rq[t].end
        /\ rq'[t].val = rq[t].val /\ rq'[t].i = rq[t].i + 1
    BY <2>1, TransferredIs
  <2> QED
    BY <1>1, <2>2, <2>3 DEF Onward
<1>5. CASE DiscardEntry(t)
  <2>1. rq' = [rq EXCEPT ![t].i = rq[t].i + 1]
    BY <1>5 DEF DiscardEntry
  <2>2. rq[t].i < rq[t].end
    BY <1>1, <1>5 DEF DiscardEntry, TypeOK, RequestsOK, Fits, RequestType
  <2>3. /\ rq'[t].op = rq[t].op /\ rq'[t].end = rq[t].end
        /\ rq'[t].val = rq[t].val /\ rq'[t].i = rq[t].i + 1
    BY <1>1, <2>1 DEF RequestType
  <2> QED
    BY <1>1, <2>2, <2>3 DEF Onward
<1> QED
  BY <1>2, <1>3, <1>4, <1>5 DEF Writer, Reader, Discarder

(* Requests that are kept apart when they are submitted stay apart.        *)
LEMMA DisjointKept ==
    ASSUME TypeOK, TypeOK', Serialised, Disjoint, [Next]_vars
    PROVE  Disjoint'
<1>1. rq \in [Tag -> RequestType]
  BY DEF TypeOK, RequestsOK
<1>2. \A t \in Tag : rq[t].i \in Nat /\ rq[t].end \in Nat
  BY <1>1 DEF RequestType
<1>3. ASSUME NEW t \in Tag, Writer(t) \/ Reader(t) \/ Discarder(t)
      PROVE  Disjoint'
  <2>1. Alone(t) /\ Onward(t)
    BY <1>3, OthersStay, MovesOn DEF Worker
  <2> SUFFICES ASSUME NEW a \in Tag, NEW b \in Tag, a # b
               PROVE  Apart(rq'[a], rq'[b])
    BY DEF Disjoint
  <2>2. Apart(rq[a], rq[b])
    BY DEF Disjoint
  <2>3. CASE a = t
    BY <1>2, <2>1, <2>2, <2>3 DEF Apart, Alone, Onward
  <2>4. CASE b = t
    BY <1>2, <2>1, <2>2, <2>4 DEF Apart, Alone, Onward
  <2>5. CASE a # t /\ b # t
    BY <2>1, <2>2, <2>5 DEF Alone
  <2> QED
    BY <2>3, <2>4, <2>5
<1>4. ASSUME NEW t \in Tag, Complete(t)
      PROVE  Disjoint'
  <2>1. Alone(t) /\ rq'[t].op = "none"
    BY <1>1, <1>4, OthersStay DEF Worker, Complete, Idle
  <2> QED
    BY <2>1 DEF Disjoint, Apart, Alone
<1>5. ASSUME NEW t \in Tag, SubmitTransfer(t) \/ SubmitDiscard(t)
      PROVE  Disjoint'
  <2>1. PICK op, first, end, v : Submit(t, op, first, end, v)
    BY <1>5 DEF SubmitTransfer, SubmitDiscard
  <2>2. rq'[t].op = op /\ rq'[t].i = first /\ rq'[t].end = end
    BY <1>1, <2>1 DEF Submit, Idle
  <2>3. \A u \in Tag : \/ op = "read" /\ rq[u].op = "read"
                       \/ end <= rq[u].i \/ rq[u].end <= first
                       \/ rq[u].op = "none"
    BY <2>1 DEF Submit, Admitted
  <2>4. Alone(t)
    BY <1>5, OthersStay
  <2> QED
    BY <2>2, <2>3, <2>4 DEF Disjoint, Apart, Alone
<1>6. CASE Extender \/ SetTrigger \/ UNCHANGED vars
  <2>1. rq' = rq
    BY <1>6 DEF Extender, ExtendRun, ExtendPublish, SetTrigger, vars
  <2> QED
    BY <2>1 DEF Disjoint
<1> QED
  BY <1>3, <1>4, <1>5, <1>6 DEF Next, Worker

(* A step of another request leaves the entry of the page in transfer.     *)
LEMMA EntryKept ==
    ASSUME TypeOK, Disjoint, NEW t \in Tag, rq[t].op \in {"read", "write"},
           rq[t].i < rq[t].end, NEW u \in Tag, u # t,
           WriteClaim(u) \/ DiscardEntry(u)
    PROVE  virt_to_phys_map'[rq[t].i] = virt_to_phys_map[rq[t].i]
<1>1. /\ rq[t].i \in Nat /\ rq[t].end \in Nat
      /\ rq[u].i \in Nat /\ rq[u].end \in Nat
  BY DEF TypeOK, RequestsOK, RequestType
<1>2. rq[u].i < rq[u].end /\ rq[u].op \in {"write", "discard"}
  BY <1>1 DEF WriteClaim, DiscardEntry, Allocating, TypeOK, RequestsOK, Fits,
              RequestType
<1>3. Apart(rq[t], rq[u])
  BY DEF Disjoint
<1>4. rq[t].i # rq[u].i
  BY <1>1, <1>2, <1>3 DEF Apart
<1>5. rq[t].i \in Page /\ rq[u].i \in Page
  BY <1>2, CurrentPage
<1>6. \/ virt_to_phys_map' = virt_to_phys_map
      \/ \E s : virt_to_phys_map' = [virt_to_phys_map EXCEPT ![rq[u].i] = s]
  BY DEF WriteClaim, DiscardEntry, Recorded, Cleared, map
<1> QED
  BY <1>4, <1>5, <1>6 DEF TypeOK, ContextOK

(* A request that enters a transfer has just read, or set, its entry.      *)
LEMMA EntersOwned ==
    ASSUME TypeOK, NEW t \in Tag, Worker(t), pc'[t] \in {"disk_write", "disk_read"}
    PROVE  virt_to_phys_map'[rq'[t].i] = rq'[t].p_slot
<1>1. /\ pc \in [Tag -> Label] /\ rq \in [Tag -> RequestType]
      /\ rq[t] \in RequestType /\ Fits(pc[t], rq[t])
      /\ virt_to_phys_map \in [Page -> Slot \cup {Unmapped}]
  BY DEF TypeOK, RequestsOK, ContextOK
<1>2. CASE WriteLookup(t) \/ WriteMappedMeanwhile(t) \/ ReadLookup(t)
  <2>1. PICK s : /\ s = virt_to_phys_map[rq[t].i]
                 /\ rq' = [rq EXCEPT ![t].p_slot = s]
    BY <1>2 DEF WriteLookup, WriteMappedMeanwhile, ReadLookup
  <2>2. rq'[t].p_slot = s /\ rq'[t].i = rq[t].i
    BY <1>1, <2>1 DEF RequestType
  <2>3. virt_to_phys_map' = virt_to_phys_map
    BY <1>2 DEF WriteLookup, WriteMappedMeanwhile, ReadLookup, map
  <2> QED
    BY <2>1, <2>2, <2>3
<1>3. CASE WriteClaim(t)
  <2>1. PICK s \in FreeSlots :
            /\ rq' = [rq EXCEPT ![t] = [rq[t] EXCEPT !.p_slot = s, !.fresh = TRUE]]
            /\ virt_to_phys_map' = [virt_to_phys_map EXCEPT ![rq[t].i] = s]
    BY <1>3 DEF WriteClaim, Recorded
  <2>2. rq'[t].p_slot = s /\ rq'[t].i = rq[t].i
    BY <1>1, <2>1 DEF RequestType
  <2>3. rq[t].i \in Page
    BY <1>1, <1>3, CurrentPage DEF WriteClaim, Allocating, Fits
  <2> QED
    BY <1>1, <2>1, <2>2, <2>3
<1>4. CASE \/ WriteReadTotal(t) \/ WriteQueueExtend(t) \/ DiscardLock(t)
           \/ DiscardUnlock(t) \/ DiscardEntry(t) \/ Complete(t)
  BY <1>1, <1>4 DEF WriteReadTotal, WriteQueueExtend, DiscardLock,
     DiscardUnlock, DiscardEntry, Complete
<1>5. CASE WriteNoSpace(t) \/ WriteStore(t) \/ ReadUnmapped(t) \/ ReadFetch(t)
  BY <1>1, <1>5 DEF WriteNoSpace, WriteStore, ReadUnmapped, ReadFetch,
     Transferred
<1> QED
  BY <1>2, <1>3, <1>4, <1>5 DEF Worker, Writer, Reader, Discarder

(* When clients order the requests that touch the same page, a transfer    *)
(* that runs without the lock goes to the slot that still belongs to its   *)
(* page: no discard or write can take the slot away under it.              *)
THEOREM SlotsOwned ==
    ASSUME Serialised
    PROVE  Spec => [](Disjoint /\ SlotOwned)
<1>1. Init => Disjoint /\ SlotOwned
  BY DEF Init, Disjoint, Apart, Idle, SlotOwned
<1>2. TypeOK /\ TypeOK' /\ Disjoint /\ SlotOwned /\ [Next]_vars
      => (Disjoint /\ SlotOwned)'
  <2> SUFFICES ASSUME TypeOK, TypeOK', Disjoint, SlotOwned, [Next]_vars
               PROVE  (Disjoint /\ SlotOwned)'
    OBVIOUS
  <2>1. Disjoint'
    BY DisjointKept
  <2> SUFFICES ASSUME NEW t \in Tag, pc'[t] \in {"disk_write", "disk_read"}
               PROVE  virt_to_phys_map'[rq'[t].i] = rq'[t].p_slot
    BY <2>1 DEF SlotOwned
  <2>2. CASE Worker(t)
    BY <2>2, EntersOwned
  <2>3. ASSUME ~Worker(t)
        PROVE  rq'[t] = rq[t] /\ pc'[t] = pc[t]
    <3>1. ASSUME NEW u \in Tag, Worker(u) \/ SubmitTransfer(u) \/ SubmitDiscard(u),
                 u # t
          PROVE  rq'[t] = rq[t] /\ pc'[t] = pc[t]
      BY <3>1, OthersStay DEF Alone
    <3>2. ASSUME SubmitTransfer(t) \/ SubmitDiscard(t)
          PROVE  FALSE
      BY <3>2 DEF SubmitTransfer, SubmitDiscard, Submit, TypeOK, RequestsOK
    <3>3. CASE Extender \/ SetTrigger \/ UNCHANGED vars
      BY <3>3 DEF Extender, ExtendRun, ExtendPublish, SetTrigger, vars
    <3> QED
      BY <2>3, <3>1, <3>2, <3>3 DEF Next
  <2>4. CASE ~Worker(t)
    <3>1. rq'[t] = rq[t] /\ pc[t] \in {"disk_write", "disk_read"}
      BY <2>3, <2>4
    <3>2. /\ rq[t].i < rq[t].end /\ rq[t].op \in {"read", "write"}
          /\ virt_to_phys_map[rq[t].i] = rq[t].p_slot
      BY <3>1 DEF SlotOwned, TypeOK, RequestsOK, Fits
    <3>3. ASSUME NEW u \in Tag, WriteClaim(u) \/ DiscardEntry(u)
          PROVE  virt_to_phys_map'[rq[t].i] = virt_to_phys_map[rq[t].i]
      <4>1. u # t
        BY <2>4, <3>3 DEF Worker, Writer, Discarder
      <4> QED
        BY <3>2, <3>3, <4>1, EntryKept
    <3> QED
      BY <3>1, <3>2, <3>3, MapUnchanged
  <2> QED
    BY <2>2, <2>4
<1> QED
  BY <1>1, <1>2, TypeCorrect, PTL DEF Spec

-----------------------------------------------------------------------------
(* The driver as a page store.                                             *)

(* A write has nothing to show to its client.                              *)
Blank == \A t \in Tag : rq[t].op = "write" => rq[t].got = Zero

(* When no hole fails to be punched, a slot holds zeroes until the write   *)
(* that has claimed it stores its page.                                    *)
Clean ==
    "punch" \notin Fault =>
        /\ \A s \in Slot \ slot_bitmap : file[s] = Zero
        /\ \A t \in Tag : pc[t] = "disk_write" /\ rq[t].fresh =>
                              file[rq[t].p_slot] = Zero

(* A request as its client sees it.                                        *)
View(r) == [op |-> r.op, i |-> r.i, end |-> r.end, val |-> r.val,
            status |-> r.status, got |-> r.got]

(* The steps of a worker that its client does not see.                     *)
Inside(t) ==
    \/ WriteReadTotal(t) \/ WriteQueueExtend(t) \/ WriteLookup(t)
    \/ WriteMappedMeanwhile(t) \/ WriteClaim(t) \/ ReadLookup(t)
    \/ DiscardLock(t) \/ DiscardUnlock(t)

LEMMA InsideHidden ==
    ASSUME TypeOK, NEW t \in Tag, Inside(t)
    PROVE  View(rq'[t]) = View(rq[t]) /\ rq'[t].failed = rq[t].failed
<1>1. rq \in [Tag -> RequestType] /\ rq[t] \in RequestType
  BY DEF TypeOK, RequestsOK
<1>2. CASE WriteReadTotal(t) \/ WriteQueueExtend(t)
  <2>1. PICK x : rq' = [rq EXCEPT ![t].total = x]
    BY <1>2 DEF WriteReadTotal, WriteQueueExtend
  <2> QED
    BY <1>1, <2>1 DEF View, RequestType
<1>3. CASE WriteLookup(t) \/ WriteMappedMeanwhile(t) \/ ReadLookup(t)
  <2>1. PICK x : rq' = [rq EXCEPT ![t].p_slot = x]
    BY <1>3 DEF WriteLookup, WriteMappedMeanwhile, ReadLookup
  <2> QED
    BY <1>1, <2>1 DEF View, RequestType
<1>4. CASE WriteClaim(t)
  <2>1. PICK x : rq' = [rq EXCEPT ![t] = [rq[t] EXCEPT !.p_slot = x, !.fresh = TRUE]]
    BY <1>4 DEF WriteClaim
  <2> QED
    BY <1>1, <2>1 DEF View, RequestType
<1>5. CASE DiscardLock(t) \/ DiscardUnlock(t)
  <2>1. PICK x : rq' = [rq EXCEPT ![t].batch_end = x]
    BY <1>5 DEF DiscardLock, DiscardUnlock
  <2> QED
    BY <1>1, <2>1 DEF View, RequestType
<1> QED
  BY <1>2, <1>3, <1>4, <1>5 DEF Inside

Moved(r, status, got) == [op |-> r.op, i |-> r.i + 1, end |-> r.end,
                          val |-> r.val, status |-> status, got |-> got]

(* A transfer that ends shows its result.                                  *)
LEMMA TransferView ==
    ASSUME TypeOK, NEW t \in Tag, NEW status, NEW got, NEW lost,
           Transferred(t, status, got, lost)
    PROVE  View(rq'[t]) = Moved(rq[t], status, got)
<1>1. /\ rq'[t].op = rq[t].op /\ rq'[t].end = rq[t].end
      /\ rq'[t].val = rq[t].val /\ rq'[t].i = rq[t].i + 1
      /\ rq'[t].status = status /\ rq'[t].got = got
      /\ rq'[t].fresh = FALSE /\ pc'[t] = "next"
      /\ rq'[t].failed = rq[t].failed \cup lost
  BY TransferredIs, Zenon
<1> QED
  BY <1>1, Zenon DEF View, Moved

(* Only a claim makes a request fresh.                                     *)
LEMMA FreshByClaim ==
    ASSUME TypeOK, Fresh, NEW t \in Tag, ~WriteClaim(t),
           Worker(t) \/ SubmitTransfer(t) \/ SubmitDiscard(t)
    PROVE  ~rq'[t].fresh
<1>1. /\ pc \in [Tag -> Label] /\ rq \in [Tag -> RequestType]
      /\ rq[t] \in RequestType /\ Fits(pc[t], rq[t])
      /\ rq[t].fresh => pc[t] = "disk_write"
  BY DEF TypeOK, RequestsOK, Fresh
<1>2. CASE \/ WriteReadTotal(t) \/ WriteQueueExtend(t) \/ WriteLookup(t)
           \/ WriteMappedMeanwhile(t) \/ ReadLookup(t) \/ DiscardLock(t)
           \/ DiscardUnlock(t) \/ DiscardEntry(t)
  <2>1. pc[t] # "disk_write"
    BY <1>2 DEF WriteReadTotal, WriteQueueExtend, WriteLookup,
       WriteMappedMeanwhile, ReadLookup, DiscardLock, DiscardUnlock,
       DiscardEntry, Segment, Allocating
  <2>2. PICK x : \/ rq' = [rq EXCEPT ![t].total = x]
                 \/ rq' = [rq EXCEPT ![t].p_slot = x]
                 \/ rq' = [rq EXCEPT ![t].batch_end = x]
                 \/ rq' = [rq EXCEPT ![t].i = x]
    BY <1>2 DEF WriteReadTotal, WriteQueueExtend, WriteLookup,
       WriteMappedMeanwhile, ReadLookup, DiscardLock, DiscardUnlock,
       DiscardEntry
  <2>3. rq'[t].fresh = rq[t].fresh
    BY <1>1, <2>2 DEF RequestType
  <2> QED
    BY <1>1, <2>1, <2>3
<1>3. CASE WriteNoSpace(t) \/ WriteStore(t) \/ ReadUnmapped(t) \/ ReadFetch(t)
  <2>1. PICK status, got, lost : Transferred(t, status, got, lost)
    BY <1>3 DEF WriteNoSpace, WriteStore, ReadUnmapped, ReadFetch
  <2> QED
    BY <2>1, TransferredIs
<1>4. CASE Complete(t)
  BY <1>1, <1>4 DEF Complete, Idle
<1>5. CASE SubmitTransfer(t) \/ SubmitDiscard(t)
  <2>1. PICK op, first, end, v : Submit(t, op, first, end, v)
    BY <1>5 DEF SubmitTransfer, SubmitDiscard
  <2> QED
    BY <1>1, <2>1 DEF Submit, Idle
<1> QED
  BY <1>2, <1>3, <1>4, <1>5 DEF Worker, Writer, Reader, Discarder

(* A step of no worker leaves every request as it is.                      *)
LEMMA RequestsStay ==
    ASSUME [Next]_vars,
           \A t \in Tag : ~Worker(t) /\ ~SubmitTransfer(t) /\ ~SubmitDiscard(t)
    PROVE  UNCHANGED <<rq, pc, virt_to_phys_map, file>>
BY DEF Next, Extender, ExtendRun, ExtendPublish, SetTrigger, vars, map

LEMMA FreshKept ==
    ASSUME TypeOK, Fresh, [Next]_vars
    PROVE  Fresh'
<1>1. ASSUME NEW t \in Tag, Worker(t) \/ SubmitTransfer(t) \/ SubmitDiscard(t)
      PROVE  Fresh'
  <2>1. Alone(t)
    BY <1>1, OthersStay
  <2>2. rq'[t].fresh => pc'[t] = "disk_write"
    <3>1. CASE WriteClaim(t)
      BY <3>1 DEF WriteClaim, TypeOK, RequestsOK
    <3> QED
      BY <1>1, <3>1, FreshByClaim
  <2> QED
    BY <2>1, <2>2 DEF Fresh, Alone
<1> QED
  BY <1>1, RequestsStay DEF Fresh

LEMMA BlankKept ==
    ASSUME TypeOK, Blank, [Next]_vars
    PROVE  Blank'
<1>1. rq \in [Tag -> RequestType] /\ \A t \in Tag : rq[t].op = "write" => rq[t].got = Zero
  BY DEF TypeOK, RequestsOK, Blank
<1>2. ASSUME NEW t \in Tag, Worker(t) \/ SubmitTransfer(t) \/ SubmitDiscard(t),
             rq'[t].op = "write"
      PROVE  rq'[t].got = Zero
  <2>1. CASE Inside(t)
    BY <1>1, <1>2, <2>1, InsideHidden DEF View
  <2>2. CASE WriteNoSpace(t) \/ WriteStore(t)
    <3>1. PICK status, lost : Transferred(t, status, Zero, lost)
      BY <2>2, Zenon DEF WriteNoSpace, WriteStore
    <3> DEFINE s == Result(rq[t], status, Zero, lost)
    <3>2. rq'[t] = s
      BY <1>1, <3>1 DEF Transferred
    <3>3. s.got = Zero
      BY <1>1 DEF Result, RequestType
    <3> QED
      BY <3>2, <3>3
  <2>3. CASE ReadUnmapped(t) \/ ReadFetch(t)
    <3>1. PICK status, got, lost : Transferred(t, status, got, lost)
      BY <2>3 DEF ReadUnmapped, ReadFetch
    <3>2. rq[t].op = "read"
      BY <2>3 DEF ReadUnmapped, ReadFetch, Segment, TypeOK, RequestsOK, Fits
    <3> QED
      BY <1>2, <3>1, <3>2, TransferredIs
  <2>4. CASE DiscardEntry(t)
    <3>1. PICK x : rq' = [rq EXCEPT ![t].i = x]
      BY <2>4 DEF DiscardEntry
    <3> QED
      BY <1>1, <1>2, <3>1 DEF RequestType
  <2>5. CASE Complete(t)
    BY <1>1, <2>5 DEF Complete, Idle
  <2>6. CASE SubmitTransfer(t) \/ SubmitDiscard(t)
    BY <1>1, <2>6 DEF SubmitTransfer, SubmitDiscard, Submit, Idle
  <2> QED
    BY <1>2, <2>1, <2>2, <2>3, <2>4, <2>5, <2>6
       DEF Worker, Writer, Reader, Discarder, Inside
<1>3. ASSUME NEW t \in Tag, Worker(t) \/ SubmitTransfer(t) \/ SubmitDiscard(t)
      PROVE  \A u \in Tag : rq'[u].op = "write" => rq'[u].got = Zero
  BY <1>1, <1>2, <1>3, OthersStay DEF Alone
<1> QED
  BY <1>1, <1>3, RequestsStay DEF Blank

(* What the steps of the driver read of the state.                         *)
Held == TypeOK /\ MapConsistent /\ Disjoint /\ SlotOwned /\ Fresh
DiskInv == Held /\ Blank /\ Clean

(* A request that transfers a page is the only one on that page.           *)
LEMMA NoOtherWriter ==
    ASSUME Held, NEW t \in Tag, rq[t].op \in {"read", "write"},
           rq[t].i < rq[t].end, NEW u \in Tag, u # t, pc[u] = "disk_write"
    PROVE  rq[u].i # rq[t].i
<1>1. Apart(rq[t], rq[u])
  BY DEF Held, Disjoint
<1>2. rq[u].op = "write" /\ rq[u].i < rq[u].end
  BY DEF Held, TypeOK, RequestsOK, Fits
<1>3. /\ rq[t].i \in Nat /\ rq[t].end \in Nat
      /\ rq[u].i \in Nat /\ rq[u].end \in Nat
  BY DEF Held, TypeOK, RequestsOK, RequestType
<1> QED
  BY <1>1, <1>2, <1>3 DEF Apart

LEMMA CleanKept ==
    ASSUME Held, Clean, [Next]_vars
    PROVE  Clean'
<1> SUFFICES ASSUME "punch" \notin Fault
             PROVE  /\ \A s \in Slot \ slot_bitmap' : file'[s] = Zero
                    /\ \A t \in Tag : pc'[t] = "disk_write" /\ rq'[t].fresh =>
                                          file'[rq'[t].p_slot] = Zero
  BY DEF Clean
<1>1. /\ \A s \in Slot \ slot_bitmap : file[s] = Zero
      /\ \A t \in Tag : pc[t] = "disk_write" /\ rq[t].fresh =>
                            rq[t].p_slot \in Slot /\ file[rq[t].p_slot] = Zero
      /\ TypeOK /\ Fresh /\ rq \in [Tag -> RequestType]
      /\ file \in [Slot -> Data]
  BY DEF Clean, Held, TypeOK, RequestsOK, ContextOK, Fits
<1>2. ASSUME NEW t \in Tag, Worker(t) \/ SubmitTransfer(t) \/ SubmitDiscard(t),
             ~WriteClaim(t)
      PROVE  \A u \in Tag : pc'[u] = "disk_write" /\ rq'[u].fresh =>
                 /\ u # t /\ pc[u] = "disk_write" /\ rq[u].fresh
                 /\ rq'[u].p_slot = rq[u].p_slot
  BY <1>1, <1>2, FreshByClaim, OthersStay DEF Alone
<1>3. ASSUME NEW t \in Tag, WriteClaim(t)
      PROVE  /\ \A s \in Slot \ slot_bitmap' : file'[s] = Zero
             /\ \A u \in Tag : pc'[u] = "disk_write" /\ rq'[u].fresh =>
                                   file'[rq'[u].p_slot] = Zero
  <2>1. PICK s \in FreeSlots :
            /\ slot_bitmap' = slot_bitmap \cup {s}
            /\ rq' = [rq EXCEPT ![t] = [rq[t] EXCEPT !.p_slot = s, !.fresh = TRUE]]
    BY <1>3 DEF WriteClaim
  <2>2. s \in Slot \ slot_bitmap
    BY <1>1, <2>1, DynaMapAssumption DEF FreeSlots, TypeOK, ContextOK, Slot
  <2>3. rq'[t].p_slot = s
    BY <1>1, <2>1 DEF RequestType
  <2>4. file' = file /\ Alone(t)
    BY <1>1, <1>3, OthersStay DEF WriteClaim, Worker, Writer
  <2> QED
    BY <1>1, <2>1, <2>2, <2>3, <2>4 DEF Alone
<1>4. ASSUME NEW t \in Tag, WriteStore(t)
      PROVE  /\ \A s \in Slot \ slot_bitmap' : file'[s] = Zero
             /\ \A u \in Tag : pc'[u] = "disk_write" /\ rq'[u].fresh =>
                                   file'[rq'[u].p_slot] = Zero
  <2>1. PICK s : s = rq[t].p_slot
    OBVIOUS
  <2>2. /\ rq[t].op = "write" /\ rq[t].i < rq[t].end /\ rq[t].i \in Page
        /\ virt_to_phys_map[rq[t].i] = s /\ s \in Slot
    BY <1>1, <1>4, <2>1, CurrentPage
       DEF WriteStore, Held, SlotOwned, TypeOK, RequestsOK, Fits
  <2>3. s \in slot_bitmap
    BY <2>2 DEF Held, MapConsistent, BitmapExact, Mapped, Slot, Unmapped
  <2>4. slot_bitmap' = slot_bitmap /\ \A r \in Slot : r # s => file'[r] = file[r]
    BY <1>1, <1>4, <2>1 DEF WriteStore, map
  <2>5. ASSUME NEW u \in Tag, u # t, pc[u] = "disk_write"
        PROVE  rq[u].p_slot # s
    <3>1. rq[u].i # rq[t].i
      BY <2>2, <2>5, NoOtherWriter
    <3>2. /\ virt_to_phys_map[rq[u].i] = rq[u].p_slot /\ rq[u].i \in Page
          /\ rq[u].p_slot \in Slot
      BY <1>1, <2>5, CurrentPage
         DEF Held, SlotOwned, TypeOK, RequestsOK, Fits
    <3> QED
      BY <2>2, <3>1, <3>2
         DEF Held, MapConsistent, NoSharedSlot, Mapped, Slot, Unmapped
  <2>6. ~WriteClaim(t) /\ Worker(t)
    BY <1>4 DEF WriteStore, WriteClaim, Allocating, Worker, Writer
  <2> QED
    BY <1>1, <1>2, <2>3, <2>4, <2>5, <2>6
<1>5. ASSUME NEW t \in Tag, DiscardEntry(t)
      PROVE  /\ \A s \in Slot \ slot_bitmap' : file'[s] = Zero
             /\ \A u \in Tag : pc'[u] = "disk_write" /\ rq'[u].fresh =>
                                   file'[rq'[u].p_slot] = Zero
  <2>1. Outcome("punch") = {TRUE}
    BY DEF Outcome
  <2>2. PICK s : \/ UNCHANGED <<map, file>>
                 \/ /\ slot_bitmap' = slot_bitmap \ {s}
                    /\ file' = [file EXCEPT ![s] = Zero]
    BY <1>5, <2>1 DEF DiscardEntry
  <2>3. /\ \A r \in Slot : file'[r] \in {file[r], Zero}
        /\ \A r \in Slot \ slot_bitmap' : file'[r] = Zero
    BY <1>1, <2>2 DEF map
  <2>4. ~WriteClaim(t) /\ Worker(t)
    BY <1>5 DEF DiscardEntry, WriteClaim, Allocating, Worker, Discarder
  <2> QED
    BY <1>1, <1>2, <2>3, <2>4
<1>6. ASSUME NEW t \in Tag, Worker(t) \/ SubmitTransfer(t) \/ SubmitDiscard(t),
             ~WriteClaim(t), ~WriteStore(t), ~DiscardEntry(t)
      PROVE  /\ \A s \in Slot \ slot_bitmap' : file'[s] = Zero
             /\ \A u \in Tag : pc'[u] = "disk_write" /\ rq'[u].fresh =>
                                   file'[rq'[u].p_slot] = Zero
  <2>1. file' = file /\ slot_bitmap' = slot_bitmap
    BY <1>6 DEF Worker, Writer, Reader, Discarder, Complete, SubmitTransfer,
       SubmitDiscard, Submit, WriteReadTotal, WriteQueueExtend, WriteLookup,
       WriteMappedMeanwhile, WriteNoSpace, ReadUnmapped, ReadLookup, ReadFetch,
       DiscardLock, DiscardUnlock, map
  <2> QED
    BY <1>1, <1>2, <1>6, <2>1
<1>7. CASE \A t \in Tag : ~Worker(t) /\ ~SubmitTransfer(t) /\ ~SubmitDiscard(t)
  <2>1. UNCHANGED <<rq, pc, file, slot_bitmap>>
    BY <1>7 DEF Next, Extender, ExtendRun, ExtendPublish, SetTrigger, vars, map
  <2> QED
    BY <1>1, <2>1
<1> QED
  BY <1>3, <1>4, <1>5, <1>6, <1>7

LEMMA ViewAlone ==
    ASSUME NEW t \in Tag, Alone(t), NEW r, View(rq'[t]) = r
    PROVE  LogicalRequest' = [LogicalRequest EXCEPT ![t] = r]
BY DEF Alone, LogicalRequest, View

LEMMA LogicalView ==
    ASSUME NEW t \in Tag
    PROVE  LogicalRequest[t] = View(rq[t])
BY DEF LogicalRequest, View

(* A page is seen to change only by a step that changes its entry or its   *)
(* slot, or by the request that has claimed its slot.                      *)
LEMMA PageSeen ==
    ASSUME NEW t \in Tag, Alone(t), NEW p \in Page,
           pc[t] = "disk_write" /\ rq[t].fresh => rq[t].i # p,
           pc'[t] = "disk_write" /\ rq'[t].fresh => rq'[t].i # p,
           virt_to_phys_map'[p] = virt_to_phys_map[p],
           Mapped(p) => file'[virt_to_phys_map[p]] = file[virt_to_phys_map[p]]
    PROVE  LogicalDisk'[p] = LogicalDisk[p]
<1>1. Stored(p)' <=> Stored(p)
  BY DEF Stored, Mapped, Alone
<1>2. Stored(p) => Mapped(p)
  BY DEF Stored
<1> QED
  BY <1>1, <1>2 DEF LogicalDisk

LEMMA DiskSeen ==
    ASSUME NEW t \in Tag, Alone(t), UNCHANGED <<virt_to_phys_map, file>>,
           ~(pc[t] = "disk_write" /\ rq[t].fresh), ~rq'[t].fresh
    PROVE  LogicalDisk' = LogicalDisk
<1>1. \A p \in Page : LogicalDisk'[p] = LogicalDisk[p]
  BY PageSeen
<1> QED
  BY <1>1 DEF LogicalDisk

LEMMA ClaimHidden ==
    ASSUME DiskInv, NEW t \in Tag, WriteClaim(t)
    PROVE  LogicalDisk' = LogicalDisk
<1>1. /\ TypeOK /\ rq[t].i \in Page /\ ~Mapped(rq[t].i)
      /\ pc[t] = "alloc" /\ file' = file
  BY CurrentPage DEF DiskInv, Held, WriteClaim, Allocating, StillUnmapped, Mapped,
     TypeOK, RequestsOK, Fits
<1>2. Alone(t)
  BY <1>1, OthersStay DEF Worker, Writer
<1>3. PICK s \in FreeSlots :
          /\ virt_to_phys_map' = [virt_to_phys_map EXCEPT ![rq[t].i] = s]
          /\ rq' = [rq EXCEPT ![t] = [rq[t] EXCEPT !.p_slot = s, !.fresh = TRUE]]
  BY DEF WriteClaim, Recorded
<1>4. rq'[t].fresh /\ rq'[t].i = rq[t].i /\ pc'[t] = "disk_write"
  BY <1>1, <1>3 DEF TypeOK, RequestsOK, RequestType, WriteClaim
<1>5. PICK i \in Page : i = rq[t].i
  BY <1>1
<1>6. LogicalDisk'[i] = LogicalDisk[i]
  <2>1. ~Stored(i) /\ ~Stored(i)'
    BY <1>1, <1>4, <1>5 DEF Stored
  <2> QED
    BY <2>1 DEF LogicalDisk
<1>7. ASSUME NEW p \in Page, p # rq[t].i
      PROVE  LogicalDisk'[p] = LogicalDisk[p]
  <2>1. virt_to_phys_map'[p] = virt_to_phys_map[p]
    BY <1>1, <1>3, <1>7 DEF TypeOK, ContextOK
  <2> QED
    BY <1>1, <1>2, <1>4, <1>7, <2>1, PageSeen
<1>8. \A p \in Page : LogicalDisk'[p] = LogicalDisk[p]
  BY <1>5, <1>6, <1>7
<1> QED
  BY <1>8 DEF LogicalDisk

(* The steps inside the driver change nothing a client can see.            *)
LEMMA InsideUnseen ==
    ASSUME DiskInv, NEW t \in Tag, Inside(t)
    PROVE  UNCHANGED <<LogicalDisk, LogicalRequest>>
<1>1. TypeOK /\ Fresh /\ Worker(t)
  BY DEF DiskInv, Held, Inside, Worker, Writer, Reader, Discarder
<1>2. Alone(t)
  BY <1>1, OthersStay
<1>3. LogicalRequest' = LogicalRequest
  BY <1>1, <1>2, InsideHidden DEF Alone, LogicalRequest, View
<1>4. CASE WriteClaim(t)
  BY <1>3, <1>4, ClaimHidden
<1>5. CASE ~WriteClaim(t)
  <2>1. pc[t] # "disk_write" /\ UNCHANGED <<virt_to_phys_map, file>>
    BY <1>5 DEF Inside, WriteReadTotal, WriteQueueExtend, WriteLookup,
       WriteMappedMeanwhile, ReadLookup, DiscardLock, DiscardUnlock, Segment,
       Allocating, map
  <2>2. ~rq'[t].fresh
    BY <1>1, <1>5, FreshByClaim
  <2> QED
    BY <1>2, <1>3, <2>1, <2>2, DiskSeen
<1> QED
  BY <1>4, <1>5

(* A page that is stored replaces the one the client sees.                 *)
LEMMA StoredSeen ==
    ASSUME DiskInv, NEW t \in Tag, WriteStore(t),
           file' = [file EXCEPT ![rq[t].p_slot] = <<rq[t].i, rq[t].val>>]
    PROVE  LogicalDisk' = [LogicalDisk EXCEPT ![rq[t].i] = <<rq[t].i, rq[t].val>>]
<1>0. PICK i, s, page : /\ i = rq[t].i /\ s = rq[t].p_slot
                        /\ page = <<rq[t].i, rq[t].val>>
  OBVIOUS
<1>1. /\ TypeOK /\ Fresh /\ rq[t].op = "write" /\ i < rq[t].end /\ i \in Page
      /\ s \in Slot /\ virt_to_phys_map[i] = s
  BY <1>0, CurrentPage DEF WriteStore, DiskInv, Held, SlotOwned, TypeOK,
     RequestsOK, Fits
<1>2. Alone(t)
  BY <1>1, OthersStay DEF Worker, Writer
<1>3. ~WriteClaim(t)
  BY DEF WriteStore, WriteClaim, Allocating
<1>4. ~rq'[t].fresh /\ virt_to_phys_map' = virt_to_phys_map
  BY <1>1, <1>3, FreshByClaim DEF WriteStore, Worker, Writer, map
<1>5. LogicalDisk'[i] = page
  <2>1. ASSUME NEW u \in Tag
        PROVE  ~(pc'[u] = "disk_write" /\ rq'[u].fresh /\ rq'[u].i = i)
    BY <1>0, <1>1, <1>2, <1>4, NoOtherWriter DEF DiskInv, Alone
  <2>2. Stored(i)'
    BY <1>1, <1>4, <2>1 DEF Stored, Mapped, Slot, Unmapped
  <2>3. file'[s] = page
    BY <1>0, <1>1 DEF TypeOK, ContextOK
  <2> QED
    BY <1>1, <1>4, <2>2, <2>3 DEF LogicalDisk
<1>6. ASSUME NEW p \in Page, p # i
      PROVE  LogicalDisk'[p] = LogicalDisk[p]
  <2>1. Mapped(p) => virt_to_phys_map[p] # s
    BY <1>1, <1>6 DEF DiskInv, Held, MapConsistent, NoSharedSlot
  <2>2. Mapped(p) => file'[virt_to_phys_map[p]] = file[virt_to_phys_map[p]]
    BY <1>0, <2>1
  <2> QED
    BY <1>0, <1>2, <1>4, <1>6, <2>2, PageSeen
<1>7. LogicalDisk' = [LogicalDisk EXCEPT ![i] = page]
  <2>1. LogicalDisk = [p \in Page |-> LogicalDisk[p]]
    BY DEF LogicalDisk
  <2>2. LogicalDisk' = [p \in Page |-> LogicalDisk'[p]]
    BY DEF LogicalDisk
  <2> HIDE DEF LogicalDisk
  <2> QED
    BY <1>1, <1>5, <1>6, <2>1, <2>2
<1> QED
  BY <1>0, <1>7

(* A page that the file does not take is left as the client sees it: the   *)
(* slot that was claimed for it holds zeroes.                              *)
LEMMA LostUnseen ==
    ASSUME DiskInv, NEW t \in Tag, WriteStore(t), file' = file,
           "punch" \notin Fault
    PROVE  LogicalDisk' = LogicalDisk
<1>1. /\ TypeOK /\ Fresh /\ rq[t].op = "write" /\ rq[t].i < rq[t].end
      /\ rq[t].i \in Page
      /\ rq[t].p_slot \in Slot /\ virt_to_phys_map[rq[t].i] = rq[t].p_slot
  BY CurrentPage DEF WriteStore, DiskInv, Held, SlotOwned, TypeOK, RequestsOK, Fits
<1>2. Alone(t)
  BY <1>1, OthersStay DEF Worker, Writer
<1>3. ~WriteClaim(t)
  BY DEF WriteStore, WriteClaim, Allocating
<1>4. ~rq'[t].fresh /\ virt_to_phys_map' = virt_to_phys_map
  BY <1>1, <1>3, FreshByClaim DEF WriteStore, Worker, Writer, map
<1>5. PICK i \in Page : i = rq[t].i
  BY <1>1
<1>6. LogicalDisk'[i] = file[rq[t].p_slot]
  <2>1. ASSUME NEW u \in Tag
        PROVE  ~(pc'[u] = "disk_write" /\ rq'[u].fresh /\ rq'[u].i = i)
    BY <1>1, <1>2, <1>4, <1>5, NoOtherWriter DEF DiskInv, Alone
  <2>2. Stored(i)'
    BY <1>1, <1>4, <1>5, <2>1 DEF Stored, Mapped, Slot, Unmapped
  <2> QED
    BY <1>1, <1>4, <1>5, <2>2 DEF LogicalDisk
<1>7. LogicalDisk[i] = file[rq[t].p_slot]
  <2>1. CASE rq[t].fresh
    <3>1. ~Stored(i)
      BY <1>5, <2>1 DEF Stored, WriteStore
    <3>2. file[rq[t].p_slot] = Zero
      BY <2>1 DEF DiskInv, Clean, WriteStore
    <3> QED
      BY <3>1, <3>2 DEF LogicalDisk
  <2>2. CASE ~rq[t].fresh
    <3>1. Stored(i)
      BY <1>1, <1>5, <2>2, NoOtherWriter DEF DiskInv, Stored, Mapped, Slot, Unmapped
    <3> QED
      BY <1>1, <1>5, <3>1 DEF LogicalDisk
  <2> QED
    BY <2>1, <2>2
<1>8. ASSUME NEW p \in Page, p # i
      PROVE  LogicalDisk'[p] = LogicalDisk[p]
  BY <1>2, <1>4, <1>5, <1>8, PageSeen
<1>9. \A p \in Page : LogicalDisk'[p] = LogicalDisk[p]
  BY <1>5, <1>6, <1>7, <1>8
<1> QED
  BY <1>9 DEF LogicalDisk

(* What a write tells its client does not depend on what the file took.    *)
LEMMA StoreIsWrite ==
    ASSUME DiskInv, NEW t \in Tag, WriteStore(t),
           "write" \in Fault => "punch" \notin Fault
    PROVE  Disk!Write(t)
<1>1. /\ TypeOK /\ rq[t].op = "write" /\ rq[t].i < rq[t].end /\ rq[t].got = Zero
  BY DEF WriteStore, DiskInv, Held, Blank, TypeOK, RequestsOK, Fits
<1>2. Alone(t)
  BY <1>1, OthersStay DEF Worker, Writer
<1>3. PICK ok, status, got, lost :
          /\ ok \in Outcome("write")
          /\ file' = IF ok THEN [file EXCEPT ![rq[t].p_slot] =
                                    <<rq[t].i, rq[t].val>>] ELSE file
          /\ Transferred(t, status, got, lost) /\ status = "OK" /\ got = Zero
  BY DEF WriteStore
<1>4. View(rq'[t]) = Moved(rq[t], status, got)
  BY <1>1, <1>3, TransferView
<1>5. LogicalRequest' = [LogicalRequest EXCEPT ![t] = Moved(rq[t], status, got)]
  BY <1>2, <1>4, ViewAlone
<1>6. LogicalRequest' = [LogicalRequest EXCEPT
          ![t].i = LogicalRequest[t].i + 1, ![t].status = "OK"]
  BY <1>1, <1>3, <1>5 DEF Moved, LogicalRequest
<1>7. \/ LogicalDisk' = [LogicalDisk EXCEPT ![rq[t].i] = <<rq[t].i, rq[t].val>>]
      \/ "write" \in Fault /\ LogicalDisk' = LogicalDisk
  <2>1. CASE ok
    BY <1>3, <2>1, StoredSeen
  <2>2. CASE ~ok
    <3>1. "write" \in Fault
      BY <1>3, <2>2 DEF Outcome
    <3> QED
      BY <1>3, <2>2, <3>1, LostUnseen
  <2> QED
    BY <2>1, <2>2
<1>8. /\ LogicalRequest[t].op = "write" /\ LogicalRequest[t].i = rq[t].i
      /\ LogicalRequest[t].end = rq[t].end /\ LogicalRequest[t].val = rq[t].val
  BY <1>1 DEF LogicalRequest
<1> QED
  BY <1>1, <1>6, <1>7, <1>8
     DEF Disk!Write, Disk!Moving, Disk!Written, Disk!Kept

(* A read and a refused write leave the disk alone.                        *)
LEMMA DiskLeftAlone ==
    ASSUME DiskInv, NEW t \in Tag,
           Reader(t) \/ WriteNoSpace(t) \/ Complete(t) \/ SubmitTransfer(t)
           \/ SubmitDiscard(t)
    PROVE  LogicalDisk' = LogicalDisk
<1>1. TypeOK /\ Fresh
  BY DEF DiskInv, Held
<1>2. Alone(t)
  BY <1>1, OthersStay DEF Worker, Writer
<1>3. pc[t] # "disk_write" /\ UNCHANGED <<virt_to_phys_map, file>>
  BY DEF Reader, ReadUnmapped, ReadLookup, ReadFetch, WriteNoSpace, Complete,
     Finished, SubmitTransfer, SubmitDiscard, Submit, Segment, Allocating, map
<1>4. ~rq'[t].fresh
  <2>1. ~WriteClaim(t)
    BY <1>1 DEF Reader, ReadUnmapped, ReadLookup, ReadFetch, WriteNoSpace,
       Complete, Finished, SubmitTransfer, SubmitDiscard, Submit, Segment,
       Allocating, NothingFree, WriteClaim
  <2> QED
    BY <1>1, <2>1, FreshByClaim DEF Worker, Writer
<1> QED
  BY <1>2, <1>3, <1>4, DiskSeen

(* The page that a read has found, or zeroes, is the page stored.          *)
LEMMA ReadIsRead ==
    ASSUME DiskInv, NEW t \in Tag, NEW status, NEW got, NEW lost,
           Transferred(t, status, got, lost), status = "OK",
           rq[t].op = "read", rq[t].i < rq[t].end,
           got = LogicalDisk[rq[t].i], Reader(t)
    PROVE  Disk!Read(t)
<1>1. TypeOK
  BY DEF DiskInv, Held
<1>2. Alone(t)
  BY <1>1, OthersStay DEF Worker
<1>3. View(rq'[t]) = Moved(rq[t], status, got)
  BY <1>1, TransferView
<1>4. LogicalRequest' = [LogicalRequest EXCEPT ![t] = Moved(rq[t], status, got)]
  BY <1>2, <1>3, ViewAlone
<1>5. LogicalRequest' = [LogicalRequest EXCEPT
          ![t].i = LogicalRequest[t].i + 1,
          ![t].got = LogicalDisk[LogicalRequest[t].i], ![t].status = "OK"]
  BY <1>4 DEF Moved, LogicalRequest
<1>6. LogicalDisk' = LogicalDisk
  BY DiskLeftAlone
<1>7. LogicalRequest[t].op = "read" /\ LogicalRequest[t].i < LogicalRequest[t].end
  BY DEF LogicalRequest
<1> QED
  BY <1>5, <1>6, <1>7 DEF Disk!Read, Disk!Moving, Disk!Kept

LEMMA ErrorIsFail ==
    ASSUME DiskInv, NEW t \in Tag, NEW status, NEW got, NEW lost,
           Transferred(t, status, got, lost),
           status \in {"IOERR", "NOSPC"}, got = Zero,
           rq[t].op \in {"read", "write"}, rq[t].i < rq[t].end,
           Reader(t) \/ WriteNoSpace(t)
    PROVE  Disk!Fail(t)
<1>1. TypeOK
  BY DEF DiskInv, Held
<1>2. Alone(t)
  BY <1>1, OthersStay DEF Worker, Writer
<1>3. View(rq'[t]) = Moved(rq[t], status, got)
  BY <1>1, TransferView
<1>4. LogicalRequest' = [LogicalRequest EXCEPT ![t] = Moved(rq[t], status, got)]
  BY <1>2, <1>3, ViewAlone
<1>5. LogicalRequest' = [LogicalRequest EXCEPT
          ![t].i = LogicalRequest[t].i + 1, ![t].got = Zero, ![t].status = status]
  BY <1>4 DEF Moved, LogicalRequest
<1>6. LogicalDisk' = LogicalDisk
  BY DiskLeftAlone
<1>7. /\ LogicalRequest[t].op \in {"read", "write"}
      /\ LogicalRequest[t].i < LogicalRequest[t].end
  BY DEF LogicalRequest
<1> QED
  BY <1>5, <1>6, <1>7 DEF Disk!Fail, Disk!Moving

LEMMA ReaderSeen ==
    ASSUME DiskInv, NEW t \in Tag, Reader(t), ~Inside(t)
    PROVE  Disk!Read(t) \/ Disk!Fail(t)
<1>1. CASE ReadUnmapped(t)
  <2>1. PICK status, got, lost :
            Transferred(t, status, got, lost) /\ status = "OK" /\ got = Zero
    BY <1>1 DEF ReadUnmapped
  <2>2. rq[t].op = "read" /\ rq[t].i < rq[t].end /\ rq[t].i \in Page
    BY <1>1, CurrentPage DEF ReadUnmapped, Segment, DiskInv, Held
  <2>3. LogicalDisk[rq[t].i] = Zero
    BY <1>1, <2>2 DEF ReadUnmapped, LogicalDisk, Stored, Mapped
  <2> QED
    BY <2>1, <2>2, <2>3, ReadIsRead
<1>2. CASE ReadFetch(t)
  <2>1. /\ rq[t].op = "read" /\ rq[t].i < rq[t].end /\ rq[t].i \in Page
        /\ virt_to_phys_map[rq[t].i] = rq[t].p_slot /\ rq[t].p_slot \in Slot
    BY <1>2, CurrentPage DEF ReadFetch, DiskInv, Held, SlotOwned, TypeOK, RequestsOK,
       Fits
  <2>2. CASE Transferred(t, "OK", file[rq[t].p_slot], {})
    <3>1. PICK status, got, lost :
              /\ Transferred(t, status, got, lost)
              /\ status = "OK" /\ got = file[rq[t].p_slot]
      BY <2>2
    <3>2. ASSUME NEW u \in Tag, pc[u] = "disk_write"
          PROVE  rq[u].i # rq[t].i
      BY <1>2, <2>1, <3>2, NoOtherWriter DEF DiskInv, ReadFetch
    <3>3. Stored(rq[t].i)
      BY <2>1, <3>2 DEF Stored, Mapped, Slot, Unmapped
    <3>4. got = LogicalDisk[rq[t].i]
      BY <2>1, <3>1, <3>3 DEF LogicalDisk
    <3> QED
      BY <2>1, <3>1, <3>4, ReadIsRead
  <2>3. CASE Transferred(t, "IOERR", Zero, {rq[t].i})
    <3>1. PICK status, got, lost :
              /\ Transferred(t, status, got, lost)
              /\ status = "IOERR" /\ got = Zero
      BY <2>3
    <3> QED
      BY <2>1, <3>1, ErrorIsFail
  <2> QED
    BY <1>2, <2>2, <2>3 DEF ReadFetch
<1> QED
  BY <1>1, <1>2 DEF Reader, Inside

LEMMA RefusalIsFail ==
    ASSUME DiskInv, NEW t \in Tag, WriteNoSpace(t)
    PROVE  Disk!Fail(t)
<1>1. PICK status, got, lost :
          /\ Transferred(t, status, got, lost) /\ status = "NOSPC" /\ got = Zero
  BY DEF WriteNoSpace
<1>2. rq[t].op = "write" /\ rq[t].i < rq[t].end
  BY DEF WriteNoSpace, Allocating, DiskInv, Held, TypeOK, RequestsOK, Fits
<1> QED
  BY <1>1, <1>2, ErrorIsFail

LEMMA EntryIsDiscard ==
    ASSUME DiskInv, NEW t \in Tag, DiscardEntry(t)
    PROVE  Disk!Discard(t)
<1>0. PICK i, s : i = rq[t].i /\ s = virt_to_phys_map[rq[t].i]
  OBVIOUS
<1>1. /\ TypeOK /\ Fresh /\ rq[t].op = "discard" /\ i < rq[t].end /\ i \in Page
      /\ i \in Nat /\ rq[t].end \in Nat /\ pc[t] = "batch"
      /\ virt_to_phys_map \in [Page -> Slot \cup {Unmapped}]
      /\ rq \in [Tag -> RequestType] /\ rq[t] \in RequestType
  <2>1. /\ virt_to_phys_map \in [Page -> Slot \cup {Unmapped}] /\ TypeOK /\ Fresh
        /\ rq \in [Tag -> RequestType] /\ rq[t] \in RequestType
        /\ Fits(pc[t], rq[t])
    BY DEF DiskInv, Held, TypeOK, ContextOK, RequestsOK
  <2>2. /\ pc[t] = "batch" /\ rq[t].i < rq[t].batch_end
        /\ rq[t].batch_end <= rq[t].end /\ rq[t].op = "discard"
    BY <2>1 DEF DiscardEntry, Fits
  <2>3. rq[t].i < rq[t].end /\ rq[t].i \in Nat /\ rq[t].end \in Nat
    BY <2>1, <2>2 DEF RequestType
  <2> QED
    BY <1>0, <2>1, <2>2, <2>3, CurrentPage
<1>2. Alone(t)
  BY <1>1, OthersStay DEF Worker, Discarder
<1>3. ~rq'[t].fresh
  BY <1>1, FreshByClaim DEF Worker, Discarder, DiscardEntry, WriteClaim,
     Allocating
<1>4. View(rq'[t]) = [View(rq[t]) EXCEPT !.i = i + 1]
  BY <1>0, <1>1 DEF DiscardEntry, View, RequestType
<1>5. LogicalRequest' = [LogicalRequest EXCEPT ![t] = [View(rq[t]) EXCEPT !.i = i + 1]]
  BY <1>2, <1>4, ViewAlone
<1>6. LogicalRequest' = [LogicalRequest EXCEPT ![t].i = i + 1]
  BY <1>5, LogicalView
<1>7. /\ virt_to_phys_map'[i] = Unmapped
      /\ \A p \in Page : p # i => virt_to_phys_map'[p] = virt_to_phys_map[p]
      /\ \A r \in Slot : r # s => file'[r] = file[r]
      /\ s = Unmapped => file' = file
  BY <1>0, <1>1 DEF DiscardEntry, Cleared, map, TypeOK, ContextOK
<1>8. LogicalDisk'[i] = Zero
  <2>1. ~Stored(i)'
    BY <1>7 DEF Stored, Mapped
  <2> QED
    BY <1>1, <2>1 DEF LogicalDisk
<1>9. ASSUME NEW p \in Page, p # i
      PROVE  LogicalDisk'[p] = LogicalDisk[p]
  <2>1. Mapped(p) => virt_to_phys_map[p] # s /\ virt_to_phys_map[p] \in Slot
    BY <1>0, <1>1, <1>9 DEF DiskInv, Held, MapConsistent, NoSharedSlot, Mapped
  <2>2. Mapped(p) => file'[virt_to_phys_map[p]] = file[virt_to_phys_map[p]]
    BY <1>7, <2>1
  <2> QED
    BY <1>1, <1>2, <1>3, <1>7, <1>9, <2>2, PageSeen
<1>10. LogicalDisk' = [p \in Page |-> IF p \in i .. (i + 1) - 1
                                      THEN Zero ELSE LogicalDisk[p]]
  <2>1. \A p \in Page : p \in i .. (i + 1) - 1 <=> p = i
    BY <1>1 DEF Page
  <2> QED
    BY <1>8, <1>9, <2>1 DEF LogicalDisk
<1>11. /\ LogicalRequest[t].op = "discard" /\ LogicalRequest[t].i = i
       /\ LogicalRequest[t].end = rq[t].end
  BY <1>0, <1>1 DEF LogicalRequest
<1>12. i + 1 \in (i + 1) .. rq[t].end
  BY <1>1
<1> QED
  BY <1>1, <1>6, <1>10, <1>11, <1>12
     DEF Disk!Discard, Disk!Moving, Disk!Page, Page

LEMMA SubmissionSeen ==
    ASSUME DiskInv, NEW t \in Tag, SubmitTransfer(t) \/ SubmitDiscard(t)
    PROVE  Disk!SubmitTransfer(t) \/ Disk!SubmitDiscard(t)
<1>1. ASSUME NEW op, NEW first, NEW end, NEW v, Submit(t, op, first, end, v)
      PROVE  Disk!Submit(t, op, first, end, v)
  <2>1. /\ pc[t] = "free" /\ Admitted(op, first, end)
        /\ rq[t].op = "none"
    BY <1>1 DEF Submit, DiskInv, Held, TypeOK, RequestsOK, Fits
  <2>2. Alone(t)
    BY OthersStay DEF DiskInv, Held
  <2>3. View(rq'[t]) = [Disk!Idle EXCEPT !.op = op, !.i = first, !.end = end,
                                         !.val = v]
    <3>1. rq'[t] = [Idle EXCEPT !.op = op, !.i = first, !.end = end, !.val = v]
      BY <1>1 DEF Submit, DiskInv, Held, TypeOK, RequestsOK
    <3>2. /\ rq'[t].op = op /\ rq'[t].i = first /\ rq'[t].end = end
          /\ rq'[t].val = v /\ rq'[t].status = "OK" /\ rq'[t].got = Zero
      BY <3>1 DEF Idle
    <3> DEFINE R(a, b, c, d) == [op |-> a, i |-> b, end |-> c, val |-> d,
                                 status |-> "OK", got |-> Zero]
    <3>3. View(rq'[t]) = R(op, first, end, v)
      BY <3>2, Zenon DEF View
    <3>4. /\ [Disk!Idle EXCEPT !.op = op] = R(op, 0, 0, Zero)
          /\ [R(op, 0, 0, Zero) EXCEPT !.i = first] = R(op, first, 0, Zero)
          /\ [R(op, first, 0, Zero) EXCEPT !.end = end] = R(op, first, end, Zero)
          /\ [R(op, first, end, Zero) EXCEPT !.val = v] = R(op, first, end, v)
      BY DEF Disk!Idle
    <3> HIDE DEF R
    <3> QED
      BY <3>3, <3>4
  <2>4. LogicalRequest' = [LogicalRequest EXCEPT ![t] =
            [Disk!Idle EXCEPT !.op = op, !.i = first, !.end = end, !.val = v]]
    BY <2>2, <2>3, ViewAlone
  <2>5. LogicalDisk' = LogicalDisk
    BY DiskLeftAlone
  <2>6. Disk!Admitted(op, first, end)
    BY <2>1 DEF Admitted, Disk!Admitted, LogicalRequest
  <2>7. LogicalRequest[t].op = "none"
    BY <2>1 DEF LogicalRequest
  <2> QED
    BY <2>4, <2>5, <2>6, <2>7 DEF Disk!Submit
<1> QED
  BY <1>1 DEF SubmitTransfer, SubmitDiscard, Disk!SubmitTransfer,
     Disk!SubmitDiscard, Disk!Page, Page

LEMMA CompletionSeen ==
    ASSUME DiskInv, NEW t \in Tag, Complete(t)
    PROVE  Disk!Complete(t)
<1>1. rq[t].op # "none" /\ rq[t].i = rq[t].end /\ TypeOK
  BY DEF Complete, Finished, DiskInv, Held, TypeOK, RequestsOK, Fits
<1>2. Alone(t)
  BY <1>1, OthersStay DEF Worker
<1>3. View(rq'[t]) = Disk!Idle
  BY <1>1 DEF Complete, TypeOK, RequestsOK, View, Idle, Disk!Idle
<1>4. LogicalRequest' = [LogicalRequest EXCEPT ![t] = Disk!Idle]
  BY <1>2, <1>3, ViewAlone
<1>5. LogicalDisk' = LogicalDisk
  BY DiskLeftAlone
<1> QED
  BY <1>1, <1>4, <1>5 DEF Disk!Complete, LogicalRequest

LEMMA InitSeen == Init => Disk!Init
<1> SUFFICES ASSUME Init PROVE Disk!Init
  OBVIOUS
<1>1. \A p \in Page : ~Stored(p)
  BY DEF Init, Stored, Mapped
<1> QED
  BY <1>1 DEF Init, Disk!Init, Disk!Page, Page, Disk!Idle, Idle, LogicalDisk,
     LogicalRequest

LEMMA StepSeen ==
    ASSUME DiskInv, "write" \in Fault => "punch" \notin Fault, [Next]_vars
    PROVE  [Disk!Next]_<<LogicalDisk, LogicalRequest>>
<1>1. ASSUME NEW t \in Tag, SubmitTransfer(t) \/ SubmitDiscard(t)
      PROVE  Disk!Next
  BY <1>1, SubmissionSeen DEF Disk!Next
<1>2. ASSUME NEW t \in Tag, Worker(t), ~Inside(t)
      PROVE  Disk!Next
  <2>1. CASE Reader(t)
    BY <1>2, <2>1, ReaderSeen DEF Disk!Next
  <2>2. CASE WriteStore(t)
    BY <2>2, StoreIsWrite DEF Disk!Next
  <2>3. CASE WriteNoSpace(t)
    BY <2>3, RefusalIsFail DEF Disk!Next
  <2>4. CASE DiscardEntry(t)
    BY <2>4, EntryIsDiscard DEF Disk!Next
  <2>5. CASE Complete(t)
    BY <2>5, CompletionSeen DEF Disk!Next
  <2> QED
    BY <1>2, <2>1, <2>2, <2>3, <2>4, <2>5
       DEF Worker, Writer, Discarder, Inside
<1>3. ASSUME NEW t \in Tag, Inside(t)
      PROVE  UNCHANGED <<LogicalDisk, LogicalRequest>>
  BY <1>3, InsideUnseen
<1>4. CASE UNCHANGED <<rq, pc, virt_to_phys_map, file>>
  BY <1>4 DEF LogicalDisk, LogicalRequest, Stored, Mapped
<1> QED
  BY <1>1, <1>2, <1>3, <1>4, RequestsStay

(* What holds in every state of such clients.                              *)
LEMMA DiskInvariant ==
    ASSUME Serialised
    PROVE  Spec => []DiskInv
<1>1. Init => Fresh /\ Blank /\ Clean
  BY DEF Init, Idle, Fresh, Blank, Clean
<1>2. TypeOK /\ Fresh /\ Blank /\ [Next]_vars => (Fresh /\ Blank)'
  BY FreshKept, BlankKept
<1>3. Spec => [](Fresh /\ Blank)
  BY <1>1, <1>2, TypeCorrect, PTL DEF Spec
<1>4. Spec => [](Disjoint /\ SlotOwned)
  BY SlotsOwned
<1>5. Spec => []Held
  BY <1>3, <1>4, TypeCorrect, MapCorrect, PTL DEF Held
<1>6. Held /\ Clean /\ [Next]_vars => Clean'
  BY CleanKept
<1> QED
  BY <1>1, <1>3, <1>5, <1>6, PTL DEF Spec, DiskInv

(* For clients that order their requests, each step of the driver is a     *)
(* step of a page store or is not seen: slots, lock, batches and extension *)
(* never show, whatever the requests hold and whichever calls on the       *)
(* backing file fail, as long as writes and hole punches do not both fail: *)
(* a slot that kept its old page and then lost the write that claimed it   *)
(* would show that page.                                                   *)
THEOREM DiskImplemented ==
    ASSUME Serialised, "write" \in Fault => "punch" \notin Fault
    PROVE  Spec => ImplementsPageDisk
<1>1. Init => Disk!Init
  BY InitSeen
<1>2. DiskInv /\ [Next]_vars => [Disk!Next]_<<LogicalDisk, LogicalRequest>>
  BY StepSeen
<1>3. Spec => []DiskInv
  BY DiskInvariant
<1> QED
  BY <1>1, <1>2, <1>3, PTL DEF Spec, ImplementsPageDisk, Disk!Spec, Disk!vars

-----------------------------------------------------------------------------
(* What a page store never mixes up.                                       *)

(* A page holds zeroes or what was written to it.                          *)
OwnPages ==
    \A p \in Page : LogicalDisk[p] # Zero => LogicalDisk[p][1] = p

LEMMA OwnKept ==
    ASSUME DiskInv, OwnPages, ReadOwnData,
           [Disk!Next]_<<LogicalDisk, LogicalRequest>>
    PROVE  OwnPages' /\ ReadOwnData'
<1> DEFINE own(r) == r.op = "read" /\ r.got # Zero => r.got[1] = r.i - 1
           R == LogicalRequest
<1>1. /\ ReadOwnData <=> \A t \in Tag : own(R[t])
      /\ ReadOwnData' <=> \A t \in Tag : own(R'[t])
  BY DEF ReadOwnData, LogicalRequest
<1>2. R = [t \in Tag |-> R[t]] /\ LogicalDisk = [p \in Page |-> LogicalDisk[p]]
  BY DEF LogicalRequest, LogicalDisk
<1>3. ASSUME NEW t \in Tag
      PROVE  /\ R[t].i \in Int /\ R[t].end \in Int
             /\ R[t].op \in {"read", "write"} /\ R[t].i < R[t].end => R[t].i \in Page
             /\ R[t] = [op |-> R[t].op, i |-> R[t].i, end |-> R[t].end,
                        val |-> R[t].val, status |-> R[t].status, got |-> R[t].got]
  BY CurrentPage DEF LogicalRequest, DiskInv, Held, TypeOK, RequestsOK, RequestType
<1> HIDE DEF R
<1>4. ASSUME NEW t \in Tag, Disk!Write(t)
      PROVE  OwnPages' /\ \A u \in Tag : own(R'[u])
  <2>1. PICK i : R' = [R EXCEPT ![t] = [[R[t] EXCEPT !.i = i] EXCEPT !.status = "OK"]]
    BY <1>2, <1>4 DEF Disk!Write, Disk!Kept, R
  <2>2. R[t].op = "write" /\ R[t].i \in Page
    BY <1>3, <1>4 DEF Disk!Write, Disk!Moving, R
  <2>3. R'[t].op = "write" /\ \A u \in Tag : u # t => R'[u] = R[u]
    <3>1. PICK a, b, c, e, f, g : R[t] = [op |-> a, i |-> b, end |-> c, val |-> e,
                                       status |-> f, got |-> g]
      BY <1>3
    <3>2. R'[t] = [[R[t] EXCEPT !.i = i] EXCEPT !.status = "OK"]
      BY <1>2, <2>1
    <3> QED
      BY <1>2, <2>1, <2>2, <3>1, <3>2
  <2>4. \/ LogicalDisk' = LogicalDisk
        \/ LogicalDisk' = [LogicalDisk EXCEPT ![R[t].i] = <<R[t].i, R[t].val>>]
    BY <1>4 DEF Disk!Write, Disk!Written, R
  <2>5. OwnPages'
    BY <1>2, <2>2, <2>4 DEF OwnPages
  <2> QED
    BY <1>1, <2>3, <2>5
<1>5. ASSUME NEW t \in Tag, Disk!Read(t)
      PROVE  OwnPages' /\ \A u \in Tag : own(R'[u])
  <2>1. PICK i, d :
            /\ R' = [R EXCEPT ![t].i = i, ![t].got = d, ![t].status = "OK"]
            /\ i = R[t].i + 1 /\ d = LogicalDisk[R[t].i]
    BY <1>5 DEF Disk!Read, Disk!Kept, R
  <2>2. /\ R'[t] = [[[R[t] EXCEPT !.i = i] EXCEPT !.got = d] EXCEPT !.status = "OK"]
        /\ \A u \in Tag : u # t => R'[u] = R[u]
    BY <1>2, <2>1
  <2>3. R'[t].i = i /\ R'[t].got = d
    <3>1. PICK a, b, c, e, f, g : R[t] = [op |-> a, i |-> b, end |-> c, val |-> e,
                                       status |-> f, got |-> g]
      BY <1>3
    <3> QED
      BY <2>2, <3>1
  <2>4. LogicalDisk' = LogicalDisk
    BY <1>5 DEF Disk!Read
  <2>5. R[t].i \in Page
    BY <1>3, <1>5 DEF Disk!Read, Disk!Moving, R
  <2>6. own(R'[t])
    <3>1. d # Zero => d[1] = R[t].i
      BY <2>1, <2>5 DEF OwnPages
    <3>2. R[t].i \in Int /\ i = R[t].i + 1
      BY <1>3, <2>1
    <3>3. R[t].i = i - 1
      BY <3>2
    <3> QED
      BY <2>3, <3>1, <3>3
  <2> QED
    BY <1>1, <2>2, <2>6, <2>4 DEF OwnPages
<1>6. ASSUME NEW t \in Tag, Disk!Discard(t)
      PROVE  OwnPages' /\ \A u \in Tag : own(R'[u])
  <2>1. /\ \A p \in Page : LogicalDisk'[p] \in {Zero, LogicalDisk[p]}
        /\ R[t].op = "discard"
        /\ \E next : R' = [R EXCEPT ![t] = [R[t] EXCEPT !.i = next]]
    BY <1>2, <1>6 DEF Disk!Discard, Disk!Moving, Disk!Page, Page, R
  <2>2. R'[t].op = "discard"
    BY <1>2, <1>3, <2>1
  <2> QED
    BY <1>1, <1>2, <2>1, <2>2 DEF OwnPages
<1>7. ASSUME NEW t \in Tag, Disk!Fail(t)
      PROVE  OwnPages' /\ \A u \in Tag : own(R'[u])
  <2>1. PICK next, error :
            R' = [R EXCEPT ![t].i = next, ![t].got = Zero, ![t].status = error]
    BY <1>7 DEF Disk!Fail, R
  <2>2. R'[t].got = Zero /\ \A u \in Tag : u # t => R'[u] = R[u]
    BY <1>2, <1>3, <2>1
  <2>3. \/ LogicalDisk' = LogicalDisk
        \/ R[t].i \in Page /\ LogicalDisk' = [LogicalDisk EXCEPT
                                  ![R[t].i] = <<R[t].i, R[t].val>>]
    BY <1>3, <1>7 DEF Disk!Fail, Disk!Moving, Disk!Written, R
  <2>4. OwnPages'
    BY <1>2, <2>3 DEF OwnPages
  <2> QED
    BY <1>1, <2>2, <2>4
<1>8. ASSUME NEW t \in Tag, Disk!Complete(t)
      PROVE  OwnPages' /\ \A u \in Tag : own(R'[u])
  BY <1>1, <1>2, <1>8 DEF Disk!Complete, Disk!Idle, OwnPages, R
<1>9. ASSUME NEW t \in Tag, Disk!SubmitTransfer(t) \/ Disk!SubmitDiscard(t)
      PROVE  OwnPages' /\ \A u \in Tag : own(R'[u])
  <2>1. PICK op, first, end, v : Disk!Submit(t, op, first, end, v)
    BY <1>9 DEF Disk!SubmitTransfer, Disk!SubmitDiscard
  <2>2. R'[t].got = Zero /\ LogicalDisk' = LogicalDisk
    BY <1>2, <2>1 DEF Disk!Submit, Disk!Idle, R
  <2>3. \A u \in Tag : u # t => R'[u] = R[u]
    BY <1>2, <2>1 DEF Disk!Submit, R
  <2> QED
    BY <1>1, <2>2, <2>3 DEF OwnPages
<1>10. CASE UNCHANGED <<LogicalDisk, LogicalRequest>>
  BY <1>1, <1>10 DEF OwnPages, R
<1> QED
  BY <1>1, <1>4, <1>5, <1>6, <1>7, <1>8, <1>9, <1>10 DEF Disk!Next

(* A read returns zeroes or what was written to its own page, never what   *)
(* another page left in a slot, even when holes are not punched.           *)
THEOREM ReadsOwnData ==
    ASSUME Serialised, "write" \in Fault => "punch" \notin Fault
    PROVE  Spec => []ReadOwnData
<1>1. Init => OwnPages /\ ReadOwnData
  BY InitSeen DEF Disk!Init, Disk!Page, Page, OwnPages, Init, Idle, ReadOwnData
<1>2. DiskInv /\ OwnPages /\ ReadOwnData /\ [Next]_vars
      => (OwnPages /\ ReadOwnData)'
  BY StepSeen, OwnKept
<1>3. Spec => []DiskInv
  BY DiskInvariant
<1> QED
  BY <1>1, <1>2, <1>3, PTL DEF Spec
=============================================================================
