------------------------ MODULE DynaSwapV2DiskProofs ------------------------
(***************************************************************************)
(* For clients that keep to whole pages the second driver is a page store, *)
(* for every size, any number of requests and every fault: its steps are   *)
(* steps of PageDisk or are not seen.  Nothing is asked of the order in    *)
(* which clients submit: the queue has one worker.                         *)
(***************************************************************************)
EXTENDS DynaSwapV2Proofs

LEMMA PageSize == PageSectors \in Nat \ {0}
BY DynaSwapV2Assumption

USE SizeOK, PageSize

-----------------------------------------------------------------------------
(* Sectors and pages.                                                      *)

LEMMA Division ==
    /\ \A q \in Nat, n \in Nat \ {0} : (q * n) \div n = q
    /\ \A q \in Nat, n \in Nat \ {0} : (q * n + n) \div n = q + 1
    /\ \A p, q \in Nat, n \in Nat \ {0} : p < q <=> p * n < q * n
    /\ \A p, q \in Nat, n \in Nat \ {0} : p = q <=> p * n = q * n
    /\ \A p, q, m \in Nat, n \in Nat \ {0} :
           q * n - p * n <= m => q - p <= m \div n
<1>1. \A q \in Nat, n \in Nat \ {0} : (q * n) \div n = q
  OBVIOUS
<1>2. \A q \in Nat, n \in Nat \ {0} : q * n + n = (q + 1) * n
  OBVIOUS
<1>3. \A q \in Nat, n \in Nat \ {0} : (q * n + n) \div n = q + 1
  BY <1>1, <1>2
<1>4. \A p, q \in Nat, n \in Nat \ {0} : p < q => p * n < q * n
  OBVIOUS
<1>5. \A p, q \in Nat, n \in Nat \ {0} : p * n = q * n => p = q
  OBVIOUS
<1>6. \A p, q \in Nat, n \in Nat \ {0} : p * n < q * n => p < q
  OBVIOUS
<1>7. \A p, q, m \in Nat, n \in Nat \ {0} :
          q * n - p * n <= m => q - p <= m \div n
  <2>1. \A p, q \in Nat, n \in Nat \ {0} : q * n - p * n = (q - p) * n
    OBVIOUS
  <2>2. \A d \in Int, m \in Nat, n \in Nat \ {0} : d * n <= m => d <= m \div n
    OBVIOUS
  <2> QED
    BY <2>1, <2>2
<1> QED
  BY <1>1, <1>3, <1>4, <1>5, <1>6, <1>7

(* The page a sector lies in.                                              *)
PageAt(x) == x \div PageSectors

LEMMA Exact ==
    ASSUME NEW x, PageStart(x)
    PROVE  /\ PageAt(x) \in Nat /\ x = PageAt(x) * PageSectors
           /\ PageAt(x + PageSectors) = PageAt(x) + 1
<1>1. PICK q \in Nat : x = q * PageSectors
  BY DEF PageStart
<1>2. PageAt(x) = q /\ PageAt(x + PageSectors) = q + 1
  BY <1>1, Division DEF PageAt
<1> QED
  BY <1>1, <1>2

LEMMA Ordered ==
    ASSUME NEW x, NEW y, PageStart(x), PageStart(y)
    PROVE  /\ x < y <=> PageAt(x) < PageAt(y)
           /\ x = y <=> PageAt(x) = PageAt(y)
           /\ \A m \in Nat : y - x <= m
                  => PageAt(y) - PageAt(x) <= m \div PageSectors
<1>1. PICK p, q \in Nat : /\ p = PageAt(x) /\ x = p * PageSectors
                         /\ q = PageAt(y) /\ y = q * PageSectors
  BY Exact
<1>2. /\ p < q <=> p * PageSectors < q * PageSectors
      /\ p = q <=> p * PageSectors = q * PageSectors
      /\ \A m \in Nat : q * PageSectors - p * PageSectors <= m
                         => q - p <= m \div PageSectors
  BY Division
<1> QED
  BY <1>1, <1>2

LEMMA InDevice ==
    ASSUME NEW x \in 0 .. Sectors, PageStart(x)
    PROVE  /\ PageAt(x) \in 0 .. NPages
           /\ x \in Sector => PageAt(x) \in 0 .. NPages - 1
<1>1. PageAt(x) \in Nat /\ x = PageAt(x) * PageSectors
  BY Exact
<1>2. PageStart(Sectors) /\ PageAt(Sectors) = NPages
  BY Division DEF PageStart, PageAt, Sectors
<1>3. /\ x < Sectors <=> PageAt(x) < NPages
      /\ x = Sectors <=> PageAt(x) = NPages
  BY <1>2, Ordered
<1> QED
  BY <1>1, <1>3 DEF Sector

(* A segment at the top of its page of memory is all of what was moved.    *)
LEMMA AtTop ==
    /\ SegmentOf(ZeroPage, 0) = ZeroPage
    /\ \A contents \in [Unit -> Content] : SegmentOf(contents, 0) = contents
<1>1. \A u \in Unit : u + 0 = u
  BY DEF Unit
<1> QED
  BY <1>1 DEF SegmentOf, ZeroPage

(* A page of zeroes is Zero, a page stored is what the client wrote.       *)
LEMMA AsPageOK ==
    /\ AsPage(ZeroPage) = Zero
    /\ \A p \in 0 .. NPages - 1, v \in Val :
           AsPage(MemoryPage(p * PageSectors, PageSectors, 0, v)) = <<p, v>>
<1>1. AsPage(ZeroPage) = Zero
  BY DEF AsPage
<1>2. ASSUME NEW p \in 0 .. NPages - 1, NEW v \in Val
      PROVE  AsPage(MemoryPage(p * PageSectors, PageSectors, 0, v)) = <<p, v>>
  <2> DEFINE M(q, w) == MemoryPage(q * PageSectors, PageSectors, 0, w)
  <2>1. \A q \in Nat : q * PageSectors \in Nat
    OBVIOUS
  <2>2. \A q \in Nat, w \in Val, u \in Unit :
            M(q, w)[u] = <<q * PageSectors + u, w>>
    BY <2>1 DEF MemoryPage, Unit
  <2>3. 0 \in Unit /\ (PageSectors > 1 => 1 \in Unit)
    BY DEF Unit
  <2>4. \A q \in Nat, w \in Val : M(q, w)[0] = <<q * PageSectors, w>>
    <3>1. \A x \in Nat : x + 0 = x
      OBVIOUS
    <3>2. \A q \in Nat, w \in Val : M(q, w)[0] = <<q * PageSectors + 0, w>>
      BY <2>2, <2>3
    <3> HIDE DEF M
    <3> QED
      BY <2>1, <3>1, <3>2
  <2> HIDE DEF M
  <2>5. ASSUME M(p, v) = ZeroPage
        PROVE  AsPage(M(p, v)) = <<p, v>>
    <3>0. p \in Nat /\ \A u \in Unit : ZeroPage[u] = Zero
      BY DEF ZeroPage
    <3>1. Zero = <<p * PageSectors, v>>
      BY <2>3, <2>4, <2>5, <3>0
    <3>2. PageSectors > 1 => Zero = <<p * PageSectors + 1, v>>
      BY <2>2, <2>3, <2>5, <3>0
    <3>3. PageSectors = 1
      BY <2>1, <3>1, <3>2
    <3> QED
      BY <2>5, <3>1, <3>3 DEF AsPage, M
  <2>6. ASSUME M(p, v) # ZeroPage
        PROVE  AsPage(M(p, v)) = <<p, v>>
    <3>1. ASSUME NEW q \in 0 .. NPages - 1, NEW w \in Val, M(p, v) = M(q, w)
          PROVE  q = p /\ w = v
      <4>0. p \in Nat /\ q \in Nat
        OBVIOUS
      <4>1. <<p * PageSectors, v>> = <<q * PageSectors, w>>
        BY <2>4, <3>1, <4>0, Zenon
      <4>2. p * PageSectors = q * PageSectors /\ v = w
        BY <4>1
      <4> QED
        BY <4>2, Division
    <3>2. AsPage(M(p, v)) =
              CHOOSE page \in (0 .. NPages - 1) \X Val :
                  M(p, v) = M(page[1], page[2])
      BY <2>6 DEF AsPage, M
    <3>3. \A page \in (0 .. NPages - 1) \X Val :
              M(p, v) = M(page[1], page[2]) <=> page = <<p, v>>
      BY <3>1
    <3>4. <<p, v>> \in (0 .. NPages - 1) \X Val
      OBVIOUS
    <3> QED
      BY <3>2, <3>3, <3>4 DEF M
  <2> QED
    BY <2>5, <2>6 DEF M
<1> QED
  BY <1>1, <1>2

-----------------------------------------------------------------------------
(* What holds for clients that keep to whole pages.                        *)

(* Nothing was ever stored in a slot that no sector leads to: slots are    *)
(* not given up, and one that leaked is not written.                       *)
Clean == \A s \in Slot \ MappedSlots : file[s] = ZeroPage

(* The slot that dynaswap_write is about to store in is that of its page.  *)
Held == step = "store" => /\ rq[Head(queue)].i \in Mapped
                          /\ slot_bimap[rq[Head(queue)].i] = slot

(* A tag that is not in use and the result of a write are as they started. *)
Quiet == \A t \in Tag : /\ rq[t].op = "none" => rq[t] = Idle
                        /\ rq[t].op = "write" => rq[t].got = ZeroPage

DiskInv == PagesInv /\ Clean /\ Held /\ Quiet

(* A request from the values of its fields.                                *)
Record(op, i, end, val, status, got) ==
    [op |-> op, i |-> i, end |-> end, val |-> val, status |-> status, got |-> got]

(* The request at t after it has gone to sector i.                         *)
Request(t, i, status, got) ==
    Record(rq[t].op, i, rq[t].end, rq[t].val, status, got)

(* A request with another value in one of its fields.                      *)
WithI(r, x) == [r EXCEPT !.i = x]
WithGot(r, x) == [r EXCEPT !.got = x]
WithStatus(r, x) == [r EXCEPT !.status = x]

LEMMA Fields ==
    \A a, b, c, d, e, f, x :
        /\ WithI(Record(a, b, c, d, e, f), x) = Record(a, x, c, d, e, f)
        /\ WithGot(Record(a, b, c, d, e, f), x) = Record(a, b, c, d, e, x)
        /\ WithStatus(Record(a, b, c, d, e, f), x) = Record(a, b, c, d, x, f)
BY DEF WithI, WithGot, WithStatus, Record

LEMMA RequestIs ==
    ASSUME IInv, NEW t \in Tag
    PROVE  rq[t] = Request(t, rq[t].i, rq[t].status, rq[t].got)
<1>1. rq[t] \in RequestType
  BY DEF IInv, TypeOK
<1> QED
  BY <1>1 DEF RequestType, Request, Record

LEMMA MovedIs ==
    ASSUME IInv, WholePages, NEW t \in Tag, NEW len \in SegmentLen, NEW got,
           Moved(t, len, got)
    PROVE  /\ rq' = [rq EXCEPT ![t] =
                        Request(t, rq[t].i + PageSectors, rq[t].status, got)]
           /\ step' = "segment" /\ rq[t].i + PageSectors <= rq[t].end
<1>1. PICK i : i = rq[t].i + PageSectors
  OBVIOUS
<1>2. rq' = [rq EXCEPT ![t] = WithGot(WithI(rq[t], i), got)]
  BY <1>1 DEF Moved, WholePages, WithI, WithGot, IInv, TypeOK
<1>3. WithGot(WithI(rq[t], i), got) = Request(t, i, rq[t].status, got)
  BY RequestIs, Fields DEF Request
<1> QED
  BY <1>1, <1>2, <1>3 DEF Moved, WholePages

LEMMA FailedIs ==
    ASSUME IInv, NEW t \in Tag, NEW status, Failed(t, status)
    PROVE  /\ rq' = [rq EXCEPT ![t] = Request(t, rq[t].end, status, ZeroPage)]
           /\ step' = "segment"
<1>1. PICK i : i = rq[t].end
  OBVIOUS
<1>2. rq' = [rq EXCEPT
          ![t] = WithGot(WithStatus(WithI(rq[t], i), status), ZeroPage)]
  BY <1>1 DEF Failed, Broken, WithI, WithStatus, WithGot, IInv, TypeOK
<1>3. WithGot(WithStatus(WithI(rq[t], i), status), ZeroPage)
          = Request(t, i, status, ZeroPage)
  BY RequestIs, Fields DEF Request
<1> QED
  BY <1>1, <1>2, <1>3 DEF Failed

(* One request changes, and it is quiet afterwards.                        *)
LEMMA QuietAt ==
    ASSUME IInv, Quiet, NEW t \in Tag, NEW r, rq' = [rq EXCEPT ![t] = r],
           r.op = "none" => r = Idle, r.op = "write" => r.got = ZeroPage
    PROVE  Quiet'
<1>1. rq \in [Tag -> RequestType]
  BY DEF IInv, TypeOK
<1> QED
  BY <1>1 DEF Quiet

LEMMA QuietWent ==
    ASSUME IInv, Quiet, NEW t \in Tag, NEW i, NEW status, NEW got,
           rq[t].op # "none", rq[t].op = "write" => got = ZeroPage,
           rq' = [rq EXCEPT ![t] = Request(t, i, status, got)]
    PROVE  Quiet'
<1> DEFINE r == Request(t, i, status, got)
<1>1. r.op = rq[t].op /\ r.got = got
  BY DEF Request, Record
<1> HIDE DEF r
<1>2. rq' = [rq EXCEPT ![t] = r]
  BY DEF r
<1> QED
  BY <1>1, <1>2, QuietAt

LEMMA QuietKept ==
    ASSUME IInv, WholePages, Quiet, Next
    PROVE  Quiet'
<1>1. rq \in [Tag -> RequestType]
  BY DEF IInv, TypeOK
<1>2. CASE UNCHANGED rq
  BY <1>2 DEF Quiet
<1>3. ASSUME NEW t \in Tag, NEW len \in SegmentLen, NEW got, Moved(t, len, got),
             rq[t].op # "none", rq[t].op = "write" => got = ZeroPage
      PROVE  Quiet'
  BY <1>3, MovedIs, QuietWent
<1>4. ASSUME NEW t \in Tag, NEW status, Failed(t, status), rq[t].op # "none"
      PROVE  Quiet'
  BY <1>4, FailedIs, QuietWent
<1>5. ASSUME NEW t \in Tag, NEW op, NEW first, NEW end, NEW v, op # "none",
             Submit(t, op, first, end, v)
      PROVE  Quiet'
  <2> DEFINE r == [Idle EXCEPT !.op = op, !.i = first, !.end = end, !.val = v]
  <2>1. r.op = op /\ r.got = ZeroPage
    BY DEF Idle
  <2>2. rq' = [rq EXCEPT ![t] = r]
    BY <1>5 DEF Submit
  <2> HIDE DEF r
  <2> QED
    BY <1>5, <2>1, <2>2, QuietAt
<1>6. ASSUME NEW t \in Tag, SubmitTransfer(t) \/ SubmitDiscard(t) PROVE Quiet'
  BY <1>5, <1>6 DEF SubmitTransfer, SubmitDiscard
<1>7. ASSUME NEW t \in Tag, Complete(t) PROVE Quiet'
  BY <1>7, QuietAt DEF Complete, Idle
<1>8. ASSUME NEW t \in Tag, Discard(t) PROVE Quiet'
  <2> DEFINE r == [rq[t] EXCEPT !.i = rq[t].end]
  <2>1. r.op = rq[t].op /\ rq[t].op = "discard"
    BY <1>1, <1>8 DEF Discard, Segment, RequestType
  <2>2. rq' = [rq EXCEPT ![t] = r]
    BY <1>1, <1>8 DEF Discard
  <2> HIDE DEF r
  <2> QED
    BY <2>1, <2>2, QuietAt
<1>9. ASSUME NEW t \in Tag, ReadUnmapped(t) \/ ReadSlot(t) PROVE Quiet'
  BY <1>3, <1>4, <1>9 DEF ReadUnmapped, ReadSlot, Segment
<1>10. ASSUME NEW t \in Tag, WriteExtend(t) \/ ReuseSlot(t) PROVE Quiet'
  BY <1>2, <1>10 DEF WriteExtend, ReuseSlot
<1>11. ASSUME NEW t \in Tag, ReserveSlot(t) \/ NoSlot(t) \/ Store(t) PROVE Quiet'
  <2>1. rq[t].op = "write"
    BY <1>11, Writing DEF ReserveSlot, NoSlot, Store, Reserving
  <2>2. CASE ReserveSlot(t)
    BY <1>2, <1>4, <2>1, <2>2 DEF ReserveSlot
  <2>3. CASE NoSlot(t)
    BY <1>4, <2>1, <2>3 DEF NoSlot
  <2>4. CASE Store(t)
    BY <1>3, <1>4, <2>1, <2>4 DEF Store
  <2> QED
    BY <1>11, <2>2, <2>3, <2>4
<1>12. CASE RunExtend
  BY <1>2, <1>12 DEF RunExtend
<1> QED
  BY <1>6, <1>7, <1>8, <1>9, <1>10, <1>11, <1>12 DEF Next, Worker, Handle

(* An entry of the bimap is never changed.                                 *)
LEMMA EntriesStay ==
    ASSUME IInv, [Next]_vars
    PROVE  /\ \A k \in Mapped : k \in Mapped' /\ slot_bimap'[k] = slot_bimap[k]
           /\ MappedSlots \subseteq MappedSlots'
<1>1. slot_bimap \in [Sector -> Slot \cup {Unmapped}]
  BY DEF IInv, TypeOK
<1>2. ASSUME NEW t \in Tag, ReserveSlot(t), slot_bimap' # slot_bimap
      PROVE  \A k \in Mapped : k \in Mapped' /\ slot_bimap'[k] = slot_bimap[k]
  <2>1. PICK s \in FreeSlots : slot_bimap' = Inserted(t, s) /\ ~Found(t)
    BY <1>2 DEF ReserveSlot
  <2>2. \A k \in Mapped : k # rq[t].i
    BY <2>1 DEF Found, Mapped
  <2> QED
    BY <1>1, <2>1, <2>2 DEF Inserted, Mapped
<1>3. ASSUME slot_bimap' = slot_bimap
      PROVE  \A k \in Mapped : k \in Mapped' /\ slot_bimap'[k] = slot_bimap[k]
  BY <1>3 DEF Mapped
<1>4. slot_bimap' = slot_bimap \/ \E t \in Tag : ReserveSlot(t)
  BY DEF Next, Worker, Handle, WriteExtend, ReuseSlot, NoSlot, Store,
     ReadUnmapped, ReadSlot, Discard, Complete, RunExtend, SubmitTransfer,
     SubmitDiscard, Submit, manager, vars
<1>5. \A k \in Mapped : k \in Mapped' /\ slot_bimap'[k] = slot_bimap[k]
  BY <1>2, <1>3, <1>4
<1>6. ASSUME NEW s \in MappedSlots PROVE s \in MappedSlots'
  <2>1. PICK k \in Mapped : s = slot_bimap[k]
    BY DEF MappedSlots
  <2>2. k \in Mapped' /\ slot_bimap'[k] = s
    BY <1>5, <2>1
  <2> QED
    BY <2>2 DEF MappedSlots
<1> QED
  BY <1>5, <1>6

(* Only a store changes the file.                                          *)
LEMMA FileStays ==
    ASSUME [Next]_vars, \A t \in Tag : ~Store(t)
    PROVE  UNCHANGED file
BY DEF Next, Worker, Handle, WriteExtend, ReuseSlot, ReserveSlot, NoSlot,
   ReadUnmapped, ReadSlot, Discard, Complete, RunExtend, SubmitTransfer,
   SubmitDiscard, Submit, storage, vars

(* A store goes to a slot that a sector leads to.                          *)
LEMMA CleanKept ==
    ASSUME IInv, Held, Clean, [Next]_vars
    PROVE  Clean'
<1>1. file \in [Slot -> [Unit -> Content]]
  BY DEF IInv, TypeOK
<1>2. MappedSlots \subseteq MappedSlots'
  BY EntriesStay
<1>3. ASSUME NEW t \in Tag, Store(t) PROVE Clean'
  <2>1. slot \in MappedSlots
    BY <1>3 DEF Store, Running, Held, MappedSlots
  <2>2. \A s \in Slot : s # slot => file'[s] = file[s]
    BY <1>1, <1>3 DEF Store, storage
  <2> QED
    BY <1>2, <2>1, <2>2 DEF Clean
<1> QED
  BY <1>2, <1>3, FileStays DEF Clean

LEMMA HeldKept ==
    ASSUME IInv, Held, Next
    PROVE  Held'
<1>1. /\ rq \in [Tag -> RequestType] /\ queue \in Seq(Tag \cup {"extend"})
      /\ slot_bimap \in [Sector -> Slot \cup {Unmapped}]
  BY DEF IInv, TypeOK
<1>2. ASSUME NEW t \in Tag, ReuseSlot(t) PROVE Held'
  <2>1. rq[t].i \in Sector
    BY <1>2, Writing DEF ReuseSlot, Reserving
  <2> QED
    BY <1>2, <2>1 DEF ReuseSlot, Reserving, Running, Found, Held, Mapped, manager
<1>3. ASSUME NEW t \in Tag, ReserveSlot(t) PROVE Held'
  <2>1. rq[t].i \in Sector
    BY <1>3, Writing DEF ReserveSlot, Reserving
  <2>2. CASE step' = "store"
    <3>1. PICK s \in FreeSlots : slot_bimap' = Inserted(t, s) /\ slot' = s
                                 /\ UNCHANGED rq
      BY <1>3, <2>2 DEF ReserveSlot, Failed
    <3>2. slot_bimap'[rq[t].i] = s /\ s \in Slot
      BY <1>1, <2>1, <3>1, Free DEF Inserted
    <3>3. Head(queue') = t
      BY <1>3 DEF ReserveSlot, Reserving, Running
    <3> QED
      BY <2>1, <3>1, <3>2, <3>3 DEF Held, Mapped, Slot, Unmapped
  <2> QED
    BY <2>2 DEF Held
<1>4. ASSUME NEW t \in Tag, Handle(t), ~ ReuseSlot(t), ~ ReserveSlot(t)
      PROVE  step' # "store"
  BY <1>4 DEF Handle, WriteExtend, NoSlot, Store, ReadUnmapped, ReadSlot, Discard,
     Complete, Moved, Failed, Segment, Running
<1>5. ASSUME RunExtend PROVE step' # "store"
  BY <1>5, DynaSwapV2Assumption DEF RunExtend, Running, IInv, Current
<1>6. ASSUME NEW t \in Tag, SubmitTransfer(t) \/ SubmitDiscard(t), step = "store"
      PROVE  Held'
  <2>1. /\ queue # <<>> /\ Head(queue) \in Tag /\ rq[Head(queue)].op = "write"
    BY <1>6 DEF IInv, Current
  <2>2. /\ queue' = Queued(t) /\ rq[t].op = "none"
        /\ UNCHANGED <<step, slot, slot_bimap>>
        /\ \A u \in Tag : u # t => rq'[u] = rq[u]
    BY <1>1, <1>6 DEF SubmitTransfer, SubmitDiscard, Submit, manager
  <2>3. Head(queue') = Head(queue)
    BY <1>1, <2>1, <2>2, QueuedOK
  <2> QED
    BY <1>6, <2>1, <2>2, <2>3 DEF Held, Mapped
<1>7. ASSUME NEW t \in Tag, SubmitTransfer(t) \/ SubmitDiscard(t), step # "store"
      PROVE  step' # "store"
  BY <1>7 DEF SubmitTransfer, SubmitDiscard, Submit
<1> QED
  BY <1>2, <1>3, <1>4, <1>5, <1>6, <1>7 DEF Next, Worker, Held

-----------------------------------------------------------------------------
(* What a sector holds, for clients of any alignment whose segments start  *)
(* at the top of a page of memory.                                         *)

(* A slot holds nothing but what was written to the sectors that follow    *)
(* the one it is recorded under, or memory that came along with them.      *)
Owned == \A k \in Mapped, u \in Unit :
             file[slot_bimap[k]][u] \in {Zero, Other} \cup ({k + u} \X Val)

SectorInv == IInv /\ BimapConsistent /\ Held /\ Clean /\ Owned

LEMMA OwnedKept ==
    ASSUME SegmentOffset = {0},
           IInv, BimapConsistent, Held, Clean, Owned, [Next]_vars
    PROVE  Owned'
<1>1. /\ slot_bimap \in [Sector -> Slot \cup {Unmapped}]
      /\ file \in [Slot -> [Unit -> Content]]
      /\ \A k \in Mapped : slot_bimap[k] \in Slot
  BY DEF IInv, TypeOK, Mapped
<1>2. ASSUME NEW t \in Tag, Store(t)
      PROVE  Owned'
  <2> SUFFICES ASSUME NEW k \in Mapped', NEW u \in Unit
               PROVE  file'[slot_bimap'[k]][u] \in {Zero, Other} \cup ({k + u} \X Val)
    BY DEF Owned
  <2>1. slot_bimap' = slot_bimap /\ k \in Mapped /\ slot_bimap[k] \in Slot
    BY <1>1, <1>2 DEF Store, manager, Mapped
  <2>2. /\ rq[t].i \in Mapped /\ slot_bimap[rq[t].i] = slot /\ rq[t].val \in Val
    BY <1>2, Writing DEF Store, Running, Held
  <2>3. CASE file' = file
    BY <2>1, <2>3 DEF Owned
  <2>4. ASSUME NEW len \in SegmentLen,
               file' = [file EXCEPT ![slot] =
                            MemoryPage(rq[t].i, len, 0, rq[t].val)]
        PROVE  file'[slot_bimap'[k]][u] \in {Zero, Other} \cup ({k + u} \X Val)
    <3>1. CASE slot_bimap[k] = slot
      <4>1. k = rq[t].i
        BY <2>1, <2>2, <3>1 DEF BimapConsistent
      <4>2. file'[slot_bimap'[k]][u] = MemoryPage(rq[t].i, len, 0, rq[t].val)[u]
        BY <1>1, <2>1, <2>4, <3>1
      <4>3. MemoryPage(rq[t].i, len, 0, rq[t].val)[u] \in
                {Other} \cup ({rq[t].i + u} \X Val)
        <5>1. rq[t].i \in Nat /\ u \in Nat /\ rq[t].i + u - 0 = rq[t].i + u
          BY <2>2 DEF Mapped, Sector, Unit
        <5> QED
          BY <2>2, <5>1 DEF MemoryPage
      <4> QED
        BY <4>1, <4>2, <4>3
    <3>2. CASE slot_bimap[k] # slot
      <4>1. file'[slot_bimap'[k]] = file[slot_bimap[k]]
        BY <1>1, <2>1, <2>4, <3>2
      <4> QED
        BY <2>1, <4>1 DEF Owned
    <3> QED
      BY <3>1, <3>2
  <2> QED
    BY <1>2, <2>3, <2>4 DEF Store, storage
<1>3. CASE \A t \in Tag : ~Store(t)
  <2> SUFFICES ASSUME NEW k \in Mapped', NEW u \in Unit
               PROVE  file'[slot_bimap'[k]][u] \in {Zero, Other} \cup ({k + u} \X Val)
    BY DEF Owned
  <2>1. file' = file
    BY <1>3, FileStays
  <2>2. CASE k \in Mapped
    BY <2>1, <2>2, EntriesStay DEF Owned
  <2>3. CASE k \notin Mapped
    <3>1. PICK t \in Tag, s \in FreeSlots : slot_bimap' = Inserted(t, s)
      BY <2>3 DEF Next, Worker, Handle, WriteExtend, ReuseSlot, ReserveSlot,
         NoSlot, Store, ReadUnmapped, ReadSlot, Discard, Complete, RunExtend,
         SubmitTransfer, SubmitDiscard, Submit, manager, vars, Mapped
    <3>2. slot_bimap'[k] = s /\ s \in Slot /\ s \notin slot_bitmap
      BY <1>1, <2>3, <3>1, Free DEF Inserted, Mapped
    <3>3. file[s] = ZeroPage
      BY <3>2 DEF Clean, BimapConsistent
    <3> QED
      BY <2>1, <3>2, <3>3 DEF ZeroPage
  <2> QED
    BY <2>2, <2>3
<1> QED
  BY <1>2, <1>3

LEMMA SectorInvariant ==
    ASSUME SegmentOffset = {0}
    PROVE  Spec => []SectorInv
<1>1. Init => Clean /\ Held /\ Owned
  BY DEF Init, Clean, Held, Owned, Mapped
<1>2. IInv /\ BimapConsistent /\ Clean /\ Held /\ Owned /\ [Next]_vars
      => (Clean /\ Held /\ Owned)'
  <2>1. ASSUME Held, UNCHANGED vars PROVE Held'
    BY <2>1 DEF vars, Held, Mapped
  <2> QED
    BY <2>1, CleanKept, HeldKept, OwnedKept
<1> QED
  BY <1>1, <1>2, InductiveCorrect, BimapCorrect, PTL DEF Spec, SectorInv

(* What a step of a read gives its client.                                 *)
LEMMA ReadGets ==
    ASSUME SegmentOffset = {0}, IInv, NEW t \in Tag, Running(t),
           rq[t].op = "read", rq'[t].i > rq[t].i, [Next]_vars
    PROVE  /\ rq[t].i \in Sector
           /\ \/ /\ rq'[t].got = ZeroPage
                 /\ rq'[t].status = "OK" => ~Found(t)
              \/ Found(t) /\ rq'[t].got = file[slot_bimap[rq[t].i]]
<1>1. /\ rq \in [Tag -> RequestType] /\ rq[t] \in RequestType
      /\ rq[t].i \in Nat /\ rq[t].end \in 0 .. Sectors
  BY DEF IInv, TypeOK, RequestType
<1>2. rq'[t] # rq[t]
  BY <1>1
<1>3. ASSUME NEW u \in Tag, SubmitTransfer(u) \/ SubmitDiscard(u)
      PROVE  FALSE
  BY <1>1, <1>2, <1>3 DEF SubmitTransfer, SubmitDiscard, Submit
<1>4. ASSUME NEW u \in Tag, Handle(u)
      PROVE  u = t
  BY <1>4 DEF Handle, WriteExtend, ReuseSlot, ReserveSlot, NoSlot, Store,
     ReadUnmapped, ReadSlot, Discard, Complete, Reserving, Segment, Running
<1>5. CASE ReadUnmapped(t) \/ ReadSlot(t)
  <2>1. rq[t].i \in Sector
    BY <1>1, <1>5 DEF ReadUnmapped, ReadSlot, Segment, Sector
  <2>2. ASSUME NEW len, NEW got, Moved(t, len, got)
        PROVE  rq'[t].got = got
    <3>1. PICK i : rq' = [rq EXCEPT ![t].i = i, ![t].got = got]
      BY <2>2 DEF Moved
    <3> QED
      BY <1>1, <3>1 DEF RequestType
  <2>3. ASSUME NEW status, Failed(t, status), status # "OK"
        PROVE  rq'[t].got = ZeroPage /\ rq'[t].status # "OK"
    <3>1. rq' = [rq EXCEPT ![t] = Request(t, rq[t].end, status, ZeroPage)]
      BY <2>3, FailedIs
    <3> QED
      BY <1>1, <2>3, <3>1 DEF Request, Record
  <2>4. CASE ReadUnmapped(t)
    BY <2>1, <2>2, <2>4, AtTop DEF ReadUnmapped
  <2>5. CASE ReadSlot(t)
    <3>1. file[slot_bimap[rq[t].i]] \in [Unit -> Content]
      BY <2>1, <2>5 DEF ReadSlot, Found, IInv, TypeOK
    <3> QED
      BY <2>1, <2>2, <2>3, <2>5, <3>1, AtTop DEF ReadSlot
  <2> QED
    BY <1>5, <2>4, <2>5
<1>6. CASE Complete(t)
  BY <1>1, <1>6 DEF Complete, Idle
<1>7. CASE Discard(t)
  BY <1>7 DEF Discard, Segment
<1>8. CASE WriteExtend(t)
  BY <1>8 DEF WriteExtend, Segment
<1>9. CASE ReuseSlot(t) \/ ReserveSlot(t) \/ NoSlot(t) \/ Store(t)
  BY <1>9, Writing DEF ReuseSlot, ReserveSlot, NoSlot, Store, Reserving
<1>10. ~RunExtend /\ ~UNCHANGED vars
  BY <1>2 DEF RunExtend, vars
<1> QED
  BY <1>3, <1>4, <1>5, <1>6, <1>7, <1>8, <1>9, <1>10 DEF Next, Worker, Handle

(* What a read finds in a sector is zeroes, what was written to this very  *)
(* sector, or other memory of the client that was stored along with a      *)
(* segment (Other), never another sector's data: for segments of any       *)
(* length that start at the top of a page of memory, requests of any       *)
(* alignment, and after any failure.  With segments further in it is false.*)
THEOREM ReadsOwnSectors ==
    ASSUME SegmentOffset = {0}
    PROVE  Spec => ReadOwnSectors
<1>1. SectorInv /\ [Next]_vars =>
          (\A t \in Tag :
               Running(t) /\ rq[t].op = "read" /\ rq'[t].i > rq[t].i =>
                   \A u \in Unit : rq'[t].got[u] \in
                                       {Zero, Other} \cup ({rq[t].i + u} \X Val))
  <2> SUFFICES ASSUME SectorInv, [Next]_vars, NEW t \in Tag, Running(t),
                      rq[t].op = "read", rq'[t].i > rq[t].i, NEW u \in Unit
               PROVE  rq'[t].got[u] \in {Zero, Other} \cup ({rq[t].i + u} \X Val)
    OBVIOUS
  <2>1. /\ rq[t].i \in Sector
        /\ \/ rq'[t].got = ZeroPage
           \/ Found(t) /\ rq'[t].got = file[slot_bimap[rq[t].i]]
    BY ReadGets DEF SectorInv
  <2>2. CASE rq'[t].got = ZeroPage
    BY <2>2 DEF ZeroPage
  <2>3. CASE Found(t) /\ rq'[t].got = file[slot_bimap[rq[t].i]]
    BY <2>1, <2>3 DEF Found, Mapped, SectorInv, Owned
  <2> QED
    BY <2>1, <2>2, <2>3
<1> QED
  BY <1>1, SectorInvariant, PTL DEF Spec, ReadOwnSectors

(* No page but its own holds a sector that starts a page.                  *)
LEMMA OnlyUnderItself ==
    ASSUME NEW k, NEW x, PageStart(k), PageStart(x), NEW u \in Unit, k + u = x
    PROVE  k = x
<1>1. PICK p, q \in Nat : /\ p = PageAt(k) /\ k = p * PageSectors
                         /\ q = PageAt(x) /\ x = q * PageSectors
  BY Exact
<1>2. k \in Nat /\ x \in Nat /\ u \in Nat /\ u < PageSectors
  BY <1>1 DEF Unit
<1>3. x - k <= u => q - p <= u \div PageSectors
  BY <1>1, <1>2, Ordered
<1>4. u \div PageSectors = 0
  BY <1>2
<1>5. x < k <=> q < p
  BY <1>1, Ordered
<1>6. p = q
  BY <1>1, <1>2, <1>3, <1>4, <1>5
<1> QED
  BY <1>1, <1>6

(* For clients that keep to whole pages a read finds what a slot holds of  *)
(* its sector.  Zero and Other stand for contents that no client writes.   *)
THEOREM StoredFound ==
    ASSUME WholePages, Zero \notin Sector \X Val, Other \notin Sector \X Val
    PROVE  Spec => StoredIsFound
<1>1. SectorInv /\ PagesInv /\ [Next]_vars =>
          (\A t \in Tag :
               Running(t) /\ rq[t].op = "read" /\ rq'[t].i > rq[t].i
                   /\ rq'[t].status = "OK" /\ rq'[t].got[0] = Zero =>
               \A s \in slot_bitmap, u \in Unit :
                   file[s][u] \notin {rq[t].i} \X Val)
  <2> SUFFICES ASSUME SectorInv, PagesInv, [Next]_vars, NEW t \in Tag, Running(t),
                      rq[t].op = "read", rq'[t].i > rq[t].i,
                      rq'[t].status = "OK", rq'[t].got[0] = Zero,
                      NEW s \in slot_bitmap, NEW u \in Unit,
                      file[s][u] \in {rq[t].i} \X Val
               PROVE  FALSE
    OBVIOUS
  <2>1. PICK x \in Sector : x = rq[t].i
    BY ReadGets DEF SectorInv, WholePages
  <2>2. Zero \notin {x} \X Val /\ Other \notin {x} \X Val
    BY <2>1
  <2>3. s \in Slot
    BY DEF SectorInv, IInv, TypeOK
  <2>4. CASE s \notin MappedSlots
    BY <2>1, <2>2, <2>3, <2>4 DEF SectorInv, Clean, ZeroPage
  <2>5. CASE s \in MappedSlots
    <3>1. PICK k \in Mapped : slot_bimap[k] = s
      BY <2>5 DEF MappedSlots
    <3>2. file[s][u] \in {k + u} \X Val
      BY <2>1, <2>2, <3>1 DEF SectorInv, Owned
    <3>3. k + u = x
      BY <2>1, <3>2
    <3>4. k = x
      BY <2>1, <3>1, <3>3, OnlyUnderItself DEF PagesInv, OnPages
    <3>5. u = 0
      BY <3>3, <3>4 DEF Sector, Mapped, Unit
    <3>6. Found(t) /\ slot_bimap[rq[t].i] = s
      BY <2>1, <3>1, <3>4 DEF Found, Mapped
    <3>7. rq'[t].got = file[s]
      BY <3>6, ReadGets DEF SectorInv, WholePages
    <3> QED
      BY <2>1, <2>2, <3>5, <3>7
  <2> QED
    BY <2>4, <2>5
<1>2. Spec => []SectorInv
  BY SectorInvariant DEF WholePages
<1> QED
  BY <1>1, <1>2, PagesInvariant, PTL DEF Spec, StoredIsFound

-----------------------------------------------------------------------------
(* The driver seen as a page store.                                        *)

View(r) == Record(r.op, PageAt(r.i), PageAt(r.end), r.val, r.status, AsPage(r.got))

LEMMA ViewIs == LogicalRequest = [t \in Tag |-> View(rq[t])]
BY DEF LogicalRequest, View, PageAt, Record

LEMMA ViewAt ==
    ASSUME IInv, NEW t \in Tag, NEW r, rq' = [rq EXCEPT ![t] = r]
    PROVE  LogicalRequest' = [LogicalRequest EXCEPT ![t] = View(r)]
<1>1. rq \in [Tag -> RequestType]
  BY DEF IInv, TypeOK
<1>2. LogicalRequest' = [u \in Tag |-> View(rq'[u])]
  BY DEF LogicalRequest, View, PageAt, Record, AsPage
<1> QED
  BY <1>1, <1>2, ViewIs

LEMMA ViewWent ==
    ASSUME IInv, NEW t \in Tag, NEW i, NEW status, NEW got,
           rq' = [rq EXCEPT ![t] = Request(t, i, status, got)]
    PROVE  LogicalRequest' = [LogicalRequest EXCEPT ![t] =
               Record(rq[t].op, PageAt(i), PageAt(rq[t].end), rq[t].val, status,
                      AsPage(got))]
<1>1. View(Request(t, i, status, got)) =
          Record(rq[t].op, PageAt(i), PageAt(rq[t].end), rq[t].val, status,
                 AsPage(got))
  BY DEF View, Request, Record
<1> QED
  BY <1>1, ViewAt

(* How PageDisk writes what becomes of a request.                          *)
ToI(R, t, x) == [R EXCEPT ![t].i = x]
ToWritten(R, t, x, z) == [R EXCEPT ![t].i = x, ![t].status = z]
ToStatus(R, t, x, y, z) == [R EXCEPT ![t].i = x, ![t].got = y, ![t].status = z]

LEMMA Steps ==
    ASSUME NEW R, NEW t \in Tag, R = [u \in Tag |-> R[u]], NEW Q,
           NEW a, NEW b, NEW c, NEW d, NEW e, NEW f, NEW x, NEW y, NEW z,
           R[t] = Record(a, b, c, d, e, f),
           Q = [R EXCEPT ![t] = Record(a, x, c, d, z, y)]
    PROVE  /\ Q = ToStatus(R, t, x, y, z)
           /\ y = f => Q = ToWritten(R, t, x, z)
           /\ z = e /\ y = f => Q = ToI(R, t, x)
<1>1. /\ WithI(R[t], x) = Record(a, x, c, d, e, f)
      /\ WithStatus(WithI(R[t], x), z) = Record(a, x, c, d, z, f)
      /\ WithStatus(WithGot(WithI(R[t], x), y), z) = Record(a, x, c, d, z, y)
  BY Fields
<1>2. ToI(R, t, x) = [R EXCEPT ![t] = WithI(R[t], x)]
  BY DEF WithI, ToI
<1>3. ToWritten(R, t, x, z) = [R EXCEPT ![t] = WithStatus(WithI(R[t], x), z)]
  BY DEF WithI, WithStatus, ToWritten
<1>4. ToStatus(R, t, x, y, z) =
          [R EXCEPT ![t] = WithStatus(WithGot(WithI(R[t], x), y), z)]
  BY DEF WithI, WithGot, WithStatus, ToStatus
<1> QED
  BY <1>1, <1>2, <1>3, <1>4

LEMMA RequestSeen ==
    ASSUME NEW t \in Tag
    PROVE  /\ LogicalRequest = [u \in Tag |-> LogicalRequest[u]]
           /\ LogicalRequest[t] =
                  Record(rq[t].op, PageAt(rq[t].i), PageAt(rq[t].end), rq[t].val,
                         rq[t].status, AsPage(rq[t].got))
           /\ LogicalRequest[t].op = rq[t].op
           /\ LogicalRequest[t].i = PageAt(rq[t].i)
           /\ LogicalRequest[t].end = PageAt(rq[t].end)
           /\ LogicalRequest[t].val = rq[t].val
           /\ LogicalRequest[t].status = rq[t].status
<1>1. LogicalRequest = [u \in Tag |-> LogicalRequest[u]]
      /\ LogicalRequest[t] = View(rq[t])
  BY ViewIs
<1> QED
  BY <1>1 DEF View, Record

LEMMA DiskSeen ==
    /\ LogicalDisk = [p \in 0 .. NPages - 1 |->
           IF p * PageSectors \in Mapped
           THEN AsPage(file[slot_bimap[p * PageSectors]]) ELSE Zero]
    /\ LogicalDisk' = [p \in 0 .. NPages - 1 |->
           IF p * PageSectors \in Mapped'
           THEN AsPage(file'[slot_bimap'[p * PageSectors]]) ELSE Zero]
<1>1. LogicalDisk = [p \in 0 .. NPages - 1 |->
          IF p * PageSectors \in Mapped
          THEN AsPage(file[slot_bimap[p * PageSectors]]) ELSE Zero]
  BY DEF LogicalDisk
<1>2. LogicalDisk' = [p \in 0 .. NPages - 1 |->
          IF p * PageSectors \in Mapped'
          THEN AsPage(file'[slot_bimap'[p * PageSectors]]) ELSE Zero]
  BY DEF LogicalDisk, AsPage
<1> QED
  BY <1>1, <1>2

LEMMA DiskStays ==
    ASSUME UNCHANGED <<slot_bimap, file>>
    PROVE  LogicalDisk' = LogicalDisk
BY DEF LogicalDisk, AsPage, Mapped

(* A request under way is at the start of a page of the device.            *)
LEMMA Under ==
    ASSUME DiskInv, NEW t \in Tag, rq[t].i < rq[t].end
    PROVE  /\ rq[t].i \in Sector /\ PageStart(rq[t].i) /\ PageStart(rq[t].end)
           /\ rq[t].i = PageAt(rq[t].i) * PageSectors
           /\ PageAt(rq[t].i) \in 0 .. NPages - 1
           /\ PageAt(rq[t].i) < PageAt(rq[t].end)
           /\ PageAt(rq[t].end) \in 0 .. NPages
           /\ PageAt(rq[t].i + PageSectors) = PageAt(rq[t].i) + 1
<1>1. rq[t].i \in 0 .. Sectors /\ rq[t].end \in 0 .. Sectors
  BY DEF DiskInv, PagesInv, IInv, TypeOK, RequestType
<1>2. PageStart(rq[t].i) /\ PageStart(rq[t].end)
  BY DEF DiskInv, PagesInv, OnPages
<1>3. rq[t].i \in Sector
  BY <1>1 DEF Sector
<1> QED
  BY <1>1, <1>2, <1>3, Exact, Ordered, InDevice

(* What reaches the slot of a page is in that page and in no other.        *)
LEMMA StoredSeen ==
    ASSUME DiskInv, NEW t \in Tag, Running(t), step = "store",
           file' = [file EXCEPT ![slot] =
                        MemoryPage(rq[t].i, PageSectors, 0, rq[t].val)],
           UNCHANGED slot_bimap
    PROVE  LogicalDisk' = [LogicalDisk EXCEPT ![PageAt(rq[t].i)] =
                               <<PageAt(rq[t].i), rq[t].val>>]
<1>1. /\ rq[t].i < rq[t].end /\ rq[t].val \in Val /\ rq[t].i \in Mapped
      /\ slot = slot_bimap[rq[t].i] /\ slot \in Slot
      /\ file \in [Slot -> [Unit -> Content]]
  BY Writing DEF DiskInv, PagesInv, Held, Running, IInv, TypeOK, Slot, Unmapped
<1>2. PICK p \in 0 .. NPages - 1 :
          p = PageAt(rq[t].i) /\ rq[t].i = p * PageSectors
  BY <1>1, Under
<1>3. PICK v \in Val : v = rq[t].val
  BY <1>1
<1>4. LogicalDisk'[p] = <<p, v>>
  <2>1. file'[slot] = MemoryPage(p * PageSectors, PageSectors, 0, v)
    BY <1>1, <1>2, <1>3
  <2>2. LogicalDisk'[p] = AsPage(file'[slot_bimap[p * PageSectors]])
    BY <1>1, <1>2, DiskSeen DEF Mapped
  <2> QED
    BY <1>1, <1>2, <2>1, <2>2, AsPageOK
<1>5. ASSUME NEW q \in 0 .. NPages - 1, q # p
      PROVE  LogicalDisk'[q] = LogicalDisk[q]
  <2>1. q * PageSectors # p * PageSectors
    BY <1>5, Division
  <2>2. q * PageSectors \in Mapped => slot_bimap[q * PageSectors] # slot
    BY <1>1, <1>2, <2>1 DEF DiskInv, PagesInv, BimapConsistent
  <2>3. q * PageSectors \in Mapped =>
            file'[slot_bimap[q * PageSectors]] = file[slot_bimap[q * PageSectors]]
    BY <1>1, <2>2
  <2> QED
    BY <2>3, DiskSeen DEF Mapped
<1>6. LogicalDisk' = [q \in 0 .. NPages - 1 |-> LogicalDisk'[q]]
  BY DiskSeen
<1> QED
  BY <1>2, <1>3, <1>4, <1>5, <1>6, DiskSeen

(* A slot that is entered in the bimap holds zeroes, as the page did.      *)
LEMMA EntrySeen ==
    ASSUME DiskInv, NEW t \in Tag, Reserving(t), ~Found(t), NEW s \in FreeSlots,
           slot_bimap' = Inserted(t, s), UNCHANGED file
    PROVE  LogicalDisk' = LogicalDisk
<1>1. /\ rq[t].i \in Sector /\ s \in Slot \ slot_bitmap
      /\ slot_bimap \in [Sector -> Slot \cup {Unmapped}]
  BY Writing, Free DEF Reserving, DiskInv, PagesInv, IInv, TypeOK, FreeSlots
<1>2. file[s] = ZeroPage
  BY <1>1 DEF DiskInv, PagesInv, BimapConsistent, Clean
<1>3. ASSUME NEW q \in 0 .. NPages - 1
      PROVE  LogicalDisk'[q] = LogicalDisk[q]
  <2>1. CASE q * PageSectors = rq[t].i
    <3>1. q * PageSectors \notin Mapped
      BY <2>1 DEF Found, Mapped
    <3>2. q * PageSectors \in Mapped' /\ slot_bimap'[q * PageSectors] = s
      BY <1>1, <2>1 DEF Inserted, Mapped, Slot, Unmapped
    <3>3. LogicalDisk'[q] = AsPage(file[s])
      BY <3>2, DiskSeen
    <3> QED
      BY <1>2, <3>1, <3>3, AsPageOK, DiskSeen
  <2>2. CASE q * PageSectors # rq[t].i
    <3>1. /\ q * PageSectors \in Mapped' <=> q * PageSectors \in Mapped
          /\ q * PageSectors \in Mapped =>
                 slot_bimap'[q * PageSectors] = slot_bimap[q * PageSectors]
      BY <1>1, <2>2 DEF Inserted, Mapped
    <3> QED
      BY <3>1, DiskSeen
  <2> QED
    BY <2>1, <2>2
<1>4. LogicalDisk' = [q \in 0 .. NPages - 1 |-> LogicalDisk'[q]]
  BY DiskSeen
<1> QED
  BY <1>3, <1>4, DiskSeen

-----------------------------------------------------------------------------
(* Each step of the driver is a step of the page store or is not seen.     *)

(* A request that goes on by a page, or fails and is at its end.           *)
LEMMA WentSeen ==
    ASSUME DiskInv, NEW t \in Tag, NEW i, NEW status, NEW got,
           rq' = [rq EXCEPT ![t] = Request(t, i, status, got)]
    PROVE  /\ LogicalRequest' =
                  ToStatus(LogicalRequest, t, PageAt(i), AsPage(got), status)
           /\ got = rq[t].got =>
                  LogicalRequest' =
                      ToWritten(LogicalRequest, t, PageAt(i), status)
           /\ status = rq[t].status /\ got = rq[t].got =>
                  LogicalRequest' = ToI(LogicalRequest, t, PageAt(i))
<1>1. LogicalRequest' = [LogicalRequest EXCEPT ![t] =
          Record(rq[t].op, PageAt(i), PageAt(rq[t].end), rq[t].val,
                 status, AsPage(got))]
  BY ViewWent DEF DiskInv, PagesInv
<1>2. /\ LogicalRequest = [u \in Tag |-> LogicalRequest[u]]
      /\ LogicalRequest[t] =
             Record(rq[t].op, PageAt(rq[t].i), PageAt(rq[t].end), rq[t].val,
                    rq[t].status, AsPage(rq[t].got))
  BY RequestSeen
<1> QED
  BY <1>1, <1>2, Steps

LEMMA MovedSeen ==
    ASSUME DiskInv, WholePages, NEW t \in Tag, rq[t].i < rq[t].end,
           NEW len \in SegmentLen, NEW got, Moved(t, len, got)
    PROVE  /\ LogicalRequest' =
                  ToStatus(LogicalRequest, t, LogicalRequest[t].i + 1,
                           AsPage(got), LogicalRequest[t].status)
           /\ got = rq[t].got =>
                  LogicalRequest' = ToWritten(LogicalRequest, t,
                      LogicalRequest[t].i + 1, LogicalRequest[t].status)
<1>1. rq' = [rq EXCEPT ![t] =
                Request(t, rq[t].i + PageSectors, rq[t].status, got)]
  BY MovedIs DEF DiskInv, PagesInv
<1>2. /\ PageAt(rq[t].i + PageSectors) = LogicalRequest[t].i + 1
      /\ LogicalRequest[t].status = rq[t].status
  BY Under, RequestSeen
<1> QED
  BY <1>1, <1>2, WentSeen

LEMMA WriteSeen ==
    ASSUME DiskInv, WholePages, NEW t \in Tag, rq[t].i < rq[t].end,
           rq[t].op = "write", NEW len \in SegmentLen, Moved(t, len, ZeroPage),
           LogicalDisk' = [LogicalDisk EXCEPT ![PageAt(rq[t].i)] =
                               <<PageAt(rq[t].i), rq[t].val>>]
    PROVE  Disk!Write(t)
<1>1. LogicalRequest' = ToWritten(LogicalRequest, t, LogicalRequest[t].i + 1,
                                  LogicalRequest[t].status)
  BY MovedSeen DEF DiskInv, Quiet
<1> QED
  BY <1>1, RequestSeen, Under
     DEF ToWritten, Disk!Write, Disk!Moving, Disk!Written, Disk!Kept

LEMMA FailureSeen ==
    ASSUME DiskInv, NEW t \in Tag, rq[t].i < rq[t].end,
           rq[t].op \in {"read", "write"},
           NEW status \in {"IOERR", "NOSPC", "RESOURCE"}, Failed(t, status),
           \/ LogicalDisk' = LogicalDisk
           \/ /\ rq[t].op = "write"
              /\ LogicalDisk' = [LogicalDisk EXCEPT ![PageAt(rq[t].i)] =
                                     <<PageAt(rq[t].i), rq[t].val>>]
    PROVE  Disk!Fail(t)
<1>1. rq' = [rq EXCEPT ![t] = Request(t, rq[t].end, status, ZeroPage)]
  BY FailedIs DEF DiskInv, PagesInv
<1>2. LogicalRequest' = ToStatus(LogicalRequest, t, PageAt(rq[t].end),
                                 AsPage(ZeroPage), status)
  BY <1>1, WentSeen
<1>3. PageAt(rq[t].end) = LogicalRequest[t].end /\ AsPage(ZeroPage) = Zero
  BY RequestSeen, AsPageOK
<1>4. LogicalRequest' = ToStatus(LogicalRequest, t, LogicalRequest[t].end, Zero,
                                 status)
  BY <1>2, <1>3
<1> QED
  BY <1>4, RequestSeen, Under DEF ToStatus, Disk!Fail, Disk!Moving, Disk!Written

LEMMA StoreSeen ==
    ASSUME DiskInv, WholePages, NEW t \in Tag, Store(t)
    PROVE  Disk!Write(t) \/ Disk!Fail(t)
<1>1. rq[t].op = "write" /\ rq[t].i < rq[t].end /\ Running(t) /\ step = "store"
  BY Writing DEF Store, DiskInv, PagesInv
<1>2. /\ UNCHANGED slot_bimap
      /\ \E len \in SegmentLen :
          \/ /\ file' = [file EXCEPT ![slot] =
                             MemoryPage(rq[t].i, len, 0, rq[t].val)]
             /\ Moved(t, len, ZeroPage) \/ Failed(t, "IOERR")
          \/ UNCHANGED file /\ Failed(t, "IOERR")
  BY DEF Store, manager, storage, WholePages
<1>3. CASE UNCHANGED file /\ Failed(t, "IOERR")
  BY <1>1, <1>2, <1>3, DiskStays, FailureSeen
<1>4. ASSUME NEW len \in SegmentLen,
             file' = [file EXCEPT ![slot] = MemoryPage(rq[t].i, len, 0, rq[t].val)],
             Moved(t, len, ZeroPage) \/ Failed(t, "IOERR")
      PROVE  Disk!Write(t) \/ Disk!Fail(t)
  <2>1. LogicalDisk' = [LogicalDisk EXCEPT ![PageAt(rq[t].i)] =
                            <<PageAt(rq[t].i), rq[t].val>>]
    BY <1>1, <1>2, <1>4, StoredSeen DEF WholePages
  <2>2. CASE Moved(t, len, ZeroPage)
    BY <1>1, <2>1, <2>2, WriteSeen
  <2>3. CASE Failed(t, "IOERR")
    BY <1>1, <2>1, <2>3, FailureSeen
  <2> QED
    BY <1>4, <2>2, <2>3
<1> QED
  BY <1>2, <1>3, <1>4

LEMMA ReadSeen ==
    ASSUME DiskInv, WholePages, NEW t \in Tag, ReadUnmapped(t) \/ ReadSlot(t)
    PROVE  Disk!Read(t) \/ Disk!Fail(t)
<1>1. /\ rq[t].op = "read" /\ rq[t].i < rq[t].end
      /\ UNCHANGED <<slot_bimap, file>>
  BY DEF ReadUnmapped, ReadSlot, Segment, manager, storage
<1>2. LogicalDisk' = LogicalDisk
  BY <1>1, DiskStays
<1>3. PICK p \in 0 .. NPages - 1 : p = PageAt(rq[t].i) /\ rq[t].i = p * PageSectors
  BY <1>1, Under
<1>4. ASSUME NEW len \in SegmentLen, NEW got, Moved(t, len, got),
             AsPage(got) = LogicalDisk[p]
      PROVE  Disk!Read(t)
  <2>0. LogicalRequest[t].i = p
    BY <1>3, RequestSeen
  <2>1. LogicalRequest' =
            ToStatus(LogicalRequest, t, LogicalRequest[t].i + 1, AsPage(got),
                     LogicalRequest[t].status)
    BY <1>1, <1>4, MovedSeen
  <2>2. LogicalRequest' = ToStatus(LogicalRequest, t, LogicalRequest[t].i + 1,
            LogicalDisk[LogicalRequest[t].i], LogicalRequest[t].status)
    BY <1>4, <2>0, <2>1
  <2> QED
    BY <1>1, <1>2, <2>2, RequestSeen, Under
       DEF ToStatus, Disk!Read, Disk!Moving, Disk!Kept
<1>5. CASE ReadUnmapped(t)
  <2>1. LogicalDisk[p] = AsPage(ZeroPage)
    BY <1>3, <1>5, DiskSeen, AsPageOK DEF ReadUnmapped, Found, Mapped
  <2> QED
    BY <1>4, <1>5, <2>1, AtTop DEF ReadUnmapped, WholePages
<1>6. CASE ReadSlot(t)
  <2>1. rq[t].i \in Mapped
    BY <1>1, <1>6, Under DEF ReadSlot, Found, Mapped
  <2>2. LogicalDisk[p] = AsPage(file[slot_bimap[rq[t].i]])
    BY <1>3, <2>1, DiskSeen
  <2>3. CASE Failed(t, "IOERR")
    BY <1>1, <1>2, <2>3, FailureSeen
  <2>4. CASE \E len \in SegmentLen : Moved(t, len, file[slot_bimap[rq[t].i]])
    BY <1>4, <2>2, <2>4
  <2>5. file[slot_bimap[rq[t].i]] \in [Unit -> Content]
    BY <1>1, <1>6, Under DEF ReadSlot, Found, DiskInv, PagesInv, IInv, TypeOK
  <2> QED
    BY <1>6, <2>3, <2>4, <2>5, AtTop DEF ReadSlot, WholePages
<1> QED
  BY <1>5, <1>6

(* A request as it is submitted, in sectors and in pages.                  *)
Started(op, i, end, v) == [Idle EXCEPT !.op = op, !.i = i, !.end = end, !.val = v]
StartedOn(op, i, end, v) ==
    [Disk!Idle EXCEPT !.op = op, !.i = i, !.end = end, !.val = v]

LEMMA StartedIs ==
    ASSUME NEW op, NEW i, NEW end, NEW v
    PROVE  /\ Started(op, i, end, v) = Record(op, i, end, v, "OK", ZeroPage)
           /\ StartedOn(op, i, end, v) = Record(op, i, end, v, "OK", Zero)
<1>1. ASSUME NEW r, NEW got, r = Record("none", 0, 0, Zero, "OK", got)
      PROVE  [r EXCEPT !.op = op, !.i = i, !.end = end, !.val = v]
                 = Record(op, i, end, v, "OK", got)
  <2>1. /\ [r EXCEPT !.op = op] = Record(op, 0, 0, Zero, "OK", got)
        /\ [Record(op, 0, 0, Zero, "OK", got) EXCEPT !.i = i]
               = Record(op, i, 0, Zero, "OK", got)
        /\ [Record(op, i, 0, Zero, "OK", got) EXCEPT !.end = end]
               = Record(op, i, end, Zero, "OK", got)
        /\ [Record(op, i, end, Zero, "OK", got) EXCEPT !.val = v]
               = Record(op, i, end, v, "OK", got)
    BY <1>1 DEF Record
  <2> QED
    BY <2>1
<1>2. Idle = Record("none", 0, 0, Zero, "OK", ZeroPage)
  BY DEF Idle, Record
<1>3. Disk!Idle = Record("none", 0, 0, Zero, "OK", Zero)
  BY DEF Disk!Idle, Record
<1>4. Started(op, i, end, v) = Record(op, i, end, v, "OK", ZeroPage)
  BY <1>1, <1>2 DEF Started
<1>5. StartedOn(op, i, end, v) = Record(op, i, end, v, "OK", Zero)
  BY <1>1, <1>3 DEF StartedOn
<1> QED
  BY <1>4, <1>5

LEMMA SubmitSeen ==
    ASSUME DiskInv, WholePages, NEW t \in Tag, NEW op, NEW first \in 0 .. Sectors,
           NEW end \in 0 .. Sectors, NEW v, Submit(t, op, first, end, v)
    PROVE  /\ Disk!Submit(t, op, PageAt(first), PageAt(end), v)
           /\ PageStart(first) /\ PageStart(end)
<1>1. PageStart(first) /\ PageStart(end)
  BY Starts DEF Submit, WholePages
<1>2. rq' = [rq EXCEPT ![t] = Started(op, first, end, v)]
  BY DEF Submit, Started
<1>3. View(Started(op, first, end, v)) = StartedOn(op, PageAt(first), PageAt(end), v)
  <2>1. View(Record(op, first, end, v, "OK", ZeroPage))
            = Record(op, PageAt(first), PageAt(end), v, "OK", AsPage(ZeroPage))
    BY DEF View, Record
  <2> QED
    BY <2>1, StartedIs, AsPageOK
<1>4. LogicalRequest' = [LogicalRequest EXCEPT ![t] =
                             StartedOn(op, PageAt(first), PageAt(end), v)]
  BY <1>2, <1>3, ViewAt DEF DiskInv, PagesInv
<1>5. LogicalDisk' = LogicalDisk
  BY DiskStays DEF Submit, manager, storage
<1>6. LogicalRequest[t].op = "none"
  BY RequestSeen DEF Submit
<1> QED
  BY <1>1, <1>4, <1>5, <1>6 DEF Disk!Submit, Disk!Admitted, StartedOn

LEMMA SubmissionSeen ==
    ASSUME DiskInv, WholePages, NEW t \in Tag, SubmitTransfer(t) \/ SubmitDiscard(t)
    PROVE  Disk!SubmitTransfer(t) \/ Disk!SubmitDiscard(t)
<1>1. MaxSectors \in Nat
  BY DynaSwapV2Assumption
<1>2. CASE SubmitTransfer(t)
  <2>1. PICK op \in {"read", "write"}, first \in Sector, n \in 1 .. MaxSectors,
             v \in Val : /\ first + n <= Sectors
                         /\ Submit(t, op, first, first + n,
                                   IF op = "write" THEN v ELSE Zero)
    BY <1>2 DEF SubmitTransfer
  <2>2. PICK end \in 0 .. Sectors : end = first + n
    BY <1>1, <2>1 DEF Sector
  <2>3. first \in 0 .. Sectors
    BY DEF Sector
  <2>4. PICK w : w = IF op = "write" THEN v ELSE Zero
    OBVIOUS
  <2>5. /\ Disk!Submit(t, op, PageAt(first), PageAt(end), w)
        /\ PageStart(first) /\ PageStart(end)
    BY <2>1, <2>2, <2>3, <2>4, SubmitSeen
  <2>6. /\ PageAt(first) \in 0 .. NPages - 1 /\ PageAt(end) \in 0 .. NPages
        /\ PageAt(first) < PageAt(end)
        /\ PageAt(end) - PageAt(first) <= MaxSectors \div PageSectors
    <3>1. end - first <= MaxSectors /\ first < end
      BY <1>1, <2>2, <2>3
    <3>2. PageAt(end) - PageAt(first) <= MaxSectors \div PageSectors
      BY <1>1, <2>5, <3>1, Ordered
    <3> QED
      BY <2>3, <2>5, <3>1, <3>2, InDevice, Ordered
  <2>7. PICK m : m = PageAt(end) - PageAt(first)
    OBVIOUS
  <2>8. /\ m \in 1 .. MaxSectors \div PageSectors
        /\ PageAt(end) = PageAt(first) + m /\ PageAt(first) + m <= NPages
    <3>1. MaxSectors \div PageSectors \in Int
      BY <1>1
    <3> QED
      BY <2>6, <2>7, <3>1
  <2> QED
    BY <2>4, <2>5, <2>6, <2>8 DEF Disk!SubmitTransfer, Disk!Page
<1>3. CASE SubmitDiscard(t)
  <2>1. PICK first \in 0 .. Sectors, end \in 0 .. Sectors :
             first <= end /\ Submit(t, "discard", first, end, Zero)
    BY <1>3 DEF SubmitDiscard
  <2>2. /\ Disk!Submit(t, "discard", PageAt(first), PageAt(end), Zero)
        /\ PageStart(first) /\ PageStart(end)
    BY <2>1, SubmitSeen
  <2>3. /\ PageAt(first) \in 0 .. NPages /\ PageAt(end) \in 0 .. NPages
        /\ PageAt(first) <= PageAt(end)
    BY <2>1, <2>2, InDevice, Ordered
  <2> QED
    BY <2>2, <2>3 DEF Disk!SubmitDiscard
<1> QED
  BY <1>2, <1>3

LEMMA DiscardSeen ==
    ASSUME DiskInv, NEW t \in Tag, Discard(t)
    PROVE  Disk!Discard(t)
<1>1. /\ rq[t].op = "discard" /\ rq[t].i < rq[t].end
      /\ rq \in [Tag -> RequestType] /\ UNCHANGED <<slot_bimap, file>>
  BY DEF Discard, Segment, manager, storage, DiskInv, PagesInv, IInv, TypeOK
<1>2. WithI(rq[t], rq[t].end) = Request(t, rq[t].end, rq[t].status, rq[t].got)
  BY RequestIs, Fields DEF Request, DiskInv, PagesInv
<1>3. rq' = [rq EXCEPT ![t] = WithI(rq[t], rq[t].end)]
  BY <1>1 DEF Discard, WithI
<1>4. LogicalRequest' = ToI(LogicalRequest, t, PageAt(rq[t].end))
  BY <1>2, <1>3, WentSeen
<1>5. LogicalDisk' = LogicalDisk
  BY <1>1, DiskStays
<1>6. PageAt(rq[t].end) \in (LogicalRequest[t].i + 1) .. LogicalRequest[t].end
  BY <1>1, RequestSeen, Under
<1> QED
  BY <1>1, <1>4, <1>5, <1>6, RequestSeen, Under DEF ToI, Disk!Discard, Disk!Moving

LEMMA CompletionSeen ==
    ASSUME DiskInv, NEW t \in Tag, Complete(t)
    PROVE  Disk!Complete(t) \/ UNCHANGED <<LogicalDisk, LogicalRequest>>
<1>1. /\ rq[t].i = rq[t].end /\ rq' = [rq EXCEPT ![t] = Idle]
      /\ rq \in [Tag -> RequestType] /\ UNCHANGED <<slot_bimap, file>>
  BY DEF Complete, manager, storage, DiskInv, PagesInv, IInv, TypeOK
<1>2. LogicalDisk' = LogicalDisk
  BY <1>1, DiskStays
<1>3. CASE rq[t].op = "none"
  <2>1. rq' = rq
    BY <1>1, <1>3 DEF DiskInv, Quiet
  <2> QED
    BY <1>2, <2>1 DEF LogicalRequest, AsPage
<1>4. CASE rq[t].op # "none"
  <2>1. View(Idle) = Disk!Idle
    <3>1. PageAt(0) = 0
      <4>1. 0 = 0 * PageSectors
        OBVIOUS
      <4> QED
        BY <4>1, Division DEF PageAt
    <3> QED
      BY <3>1, AsPageOK DEF View, Record, Idle, Disk!Idle
  <2>2. LogicalRequest' = [LogicalRequest EXCEPT ![t] = Disk!Idle]
    BY <1>1, <2>1, ViewAt DEF DiskInv, PagesInv
  <2> QED
    BY <1>1, <1>2, <1>4, <2>2, RequestSeen DEF Disk!Complete
<1> QED
  BY <1>3, <1>4

(* A slot is found or reserved inside; a write without one fails.          *)
LEMMA ReservationSeen ==
    ASSUME DiskInv, NEW t \in Tag, ReserveSlot(t) \/ NoSlot(t)
    PROVE  Disk!Fail(t) \/ UNCHANGED <<LogicalDisk, LogicalRequest>>
<1>1. rq[t].op = "write" /\ rq[t].i < rq[t].end
  BY Writing DEF ReserveSlot, NoSlot, Reserving, DiskInv, PagesInv
<1>2. CASE NoSlot(t)
  <2>1. UNCHANGED <<slot_bimap, file>> /\ Failed(t, "NOSPC")
    BY <1>2 DEF NoSlot, manager, storage
  <2> QED
    BY <1>1, <2>1, DiskStays, FailureSeen
<1>3. CASE ReserveSlot(t)
  <2>1. /\ Reserving(t) /\ ~Found(t) /\ UNCHANGED file
        /\ \E s \in FreeSlots :
              \/ slot_bimap' = Inserted(t, s) /\ UNCHANGED rq
              \/ Failed(t, "RESOURCE") /\ UNCHANGED slot_bimap
    BY <1>3 DEF ReserveSlot, storage
  <2>2. CASE Failed(t, "RESOURCE") /\ UNCHANGED slot_bimap
    BY <1>1, <2>1, <2>2, DiskStays, FailureSeen
  <2>3. ASSUME NEW s \in FreeSlots, slot_bimap' = Inserted(t, s), UNCHANGED rq
        PROVE  UNCHANGED <<LogicalDisk, LogicalRequest>>
    <3>1. LogicalDisk' = LogicalDisk
      BY <2>1, <2>3, EntrySeen
    <3> QED
      BY <2>3, <3>1 DEF LogicalRequest, AsPage
  <2> QED
    BY <2>1, <2>2, <2>3
<1> QED
  BY <1>2, <1>3

LEMMA StepSeen ==
    ASSUME DiskInv, WholePages, [Next]_vars
    PROVE  [Disk!Next]_<<LogicalDisk, LogicalRequest>>
<1>1. CASE UNCHANGED <<rq, slot_bimap, file>>
  BY <1>1, DiskStays DEF LogicalRequest, AsPage
<1>2. ASSUME NEW t \in Tag, SubmitTransfer(t) \/ SubmitDiscard(t)
      PROVE  Disk!Next
  BY <1>2, SubmissionSeen DEF Disk!Next
<1>3. ASSUME NEW t \in Tag, Handle(t)
      PROVE  Disk!Next \/ UNCHANGED <<LogicalDisk, LogicalRequest>>
  <2>1. CASE Store(t)
    BY <2>1, StoreSeen DEF Disk!Next
  <2>2. CASE ReadUnmapped(t) \/ ReadSlot(t)
    BY <2>2, ReadSeen DEF Disk!Next
  <2>3. CASE Discard(t)
    BY <2>3, DiscardSeen DEF Disk!Next
  <2>4. CASE Complete(t)
    BY <2>4, CompletionSeen DEF Disk!Next
  <2>5. CASE ReserveSlot(t) \/ NoSlot(t)
    BY <2>5, ReservationSeen DEF Disk!Next
  <2>6. CASE WriteExtend(t) \/ ReuseSlot(t)
    BY <1>1, <2>6 DEF WriteExtend, ReuseSlot, manager, storage
  <2> QED
    BY <1>3, <2>1, <2>2, <2>3, <2>4, <2>5, <2>6 DEF Handle
<1>4. CASE RunExtend
  BY <1>1, <1>4 DEF RunExtend, manager
<1>5. CASE UNCHANGED vars
  BY <1>1, <1>5 DEF vars
<1> QED
  BY <1>2, <1>3, <1>4, <1>5 DEF Next, Worker

LEMMA InitSeen == Init => Disk!Init
<1> SUFFICES ASSUME Init PROVE Disk!Init
  OBVIOUS
<1>1. LogicalDisk = [p \in 0 .. NPages - 1 |-> Zero]
  BY DEF Init, LogicalDisk, Mapped
<1>2. PageAt(0) = 0
  <2>1. 0 = 0 * PageSectors
    OBVIOUS
  <2> QED
    BY <2>1, Division DEF PageAt
<1>3. View(Idle) = Disk!Idle
  BY <1>2, AsPageOK DEF View, Record, Idle, Disk!Idle
<1>4. LogicalRequest = [t \in Tag |-> Disk!Idle]
  BY <1>3, ViewIs DEF Init
<1> QED
  BY <1>1, <1>4 DEF Disk!Init, Disk!Page

(* What holds in every state of such clients.                              *)
LEMMA DiskInvariant ==
    ASSUME WholePages
    PROVE  Spec => []DiskInv
<1>1. Init => Quiet
  BY DEF Init, Quiet, Idle
<1>2. IInv /\ Quiet /\ [Next]_vars => Quiet'
  <2>1. ASSUME Quiet, UNCHANGED vars PROVE Quiet'
    BY <2>1 DEF vars, Quiet
  <2> QED
    BY <2>1, QuietKept
<1>3. Spec => []SectorInv
  BY SectorInvariant DEF WholePages
<1>4. PagesInv /\ SectorInv /\ Quiet => DiskInv
  BY DEF DiskInv, SectorInv
<1> QED
  BY <1>1, <1>2, <1>3, <1>4, InductiveCorrect, PagesInvariant, PTL DEF Spec

(* For clients that keep to whole pages each step of the driver is a step  *)
(* of a page store or is not seen, whatever fails and however the requests *)
(* overlap: queue, slots, bimap and extension never show.                  *)
THEOREM DiskImplemented ==
    ASSUME WholePages
    PROVE  Spec => ImplementsPageDisk
<1>1. Init => Disk!Init
  BY InitSeen
<1>2. DiskInv /\ [Next]_vars => [Disk!Next]_<<LogicalDisk, LogicalRequest>>
  BY StepSeen
<1>3. Spec => []DiskInv
  BY DiskInvariant
<1> QED
  BY <1>1, <1>2, <1>3, PTL DEF Spec, ImplementsPageDisk, Disk!Spec, Disk!vars
=============================================================================
