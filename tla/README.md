# Verification of DynaSwap

DynaSwap adds swap space to a Linux machine as it is needed. The repository
holds two programs for this: a block driver whose backing file grows as the
device is written (`src/driver`, with a second version under way in
`src/driver/v2`), and a daemon that adds and removes swap files as memory
pressure comes and goes (`src/service`). This directory holds TLA+ models of
both drivers and of the daemon, from load to unload and from start to exit, TLC
runs that check them on small instances, and proofs that hold for every size.
Paths below are relative to the repository root.

## Inventory

### First driver (`src/driver/src`)

| part | state | operations |
|------|-------|------------|
| request path (`dynaswap_drv.c:36-107`) | one work item per blk-mq request | `dynaswap_handle_rq`, `dynaswap_process_work` |
| mapping core (`dynamap.c`) | `virt_to_phys_map`, `slot_bitmap`, `slot_hint`, `total_slots`, `active_slots`, `map_rwsem`, `extend_work`, the backing file | `dynaswap_read`, `dynaswap_write`, `dynaswap_discard`, `dynaswap_extend`, `dynaswap_expand_file`, the sysfs parameter `inflate_threshold` |
| load and unload (`dynaswap_drv.c:110-`, `dynamap_init`, `dynamap_cleanup`) | registered major, tag set, disk, context | init, where every failure runs the whole cleanup, and exit |
| geometry | `capacity_gb`, `chunk_size` and what is computed from them | conversion to sectors, pages and table sizes |

The block layer calls `dynaswap_handle_rq`, which queues a work item of its own
for each request on the *system* workqueue. So any number of requests run at
once, with each other and with the single extension worker. They share the
context: the table and the bitmap under `map_rwsem`, the counters and the
backing file without it. Hard here: the slot that is looked up under the lock is
used after the lock is released; the entry is looked at twice around a change of
lock; a discard leaves the lock between its batches; the extension a write needs
is only queued; four calls on the backing file may fail, and the result of
`kernel_write` is not read. At unload the extension is waited for, but the
handlers on the system workqueue are not; a set-up that fails in `dynamap_init`
is cleaned up twice.

What makes it correct: no two pages share a slot; bitmap and count agree with
the table; the pool is inside the file and the file inside the capacity; a read
returns what was last written to its page; a write is refused only when there is
no slot; every request is completed; a full pool grows. A load leaves all or
nothing, an unload takes nothing from what still runs, and every sector of the
disk has a place in the tables.

### Second driver (`src/driver/v2`)

| part | state | operations |
|------|-------|------------|
| `device.c` | tag set, disk, the *ordered* workqueue of `common.c` | `queue_rq`, `handle_rq`, `perform_rq`, setup and teardown |
| `context.c` | `extend_work` | `dynaswap_read/write/discard/extend` |
| `fs/slot.c`, `utils/bimap.c` | `slot_bitmap`, `bitmap_hint`, `total_slots`, `active_slots`, the bimap | reserve, find, extend, clear |
| `fs/storage.c` | the backing file | extend, read, write with fsync |
| `fs/*_debug.c` | none of their own | debugfs files that print counters |

Here one kernel thread runs all requests and the queued extension in the order
they were queued, so interleavings are few and the hard part is failure: every
call made by a write may fail after an earlier one has changed something. The
bimap is keyed by sectors although slots hold pages. At unload the order is the
hard part: the backing file is closed before the workqueue, with an extension that
may be on it, and before debugfs, whose readers use the file.

What makes it correct: a slot belongs to one key and is never given away twice;
a write finds a slot as long as the device has one; an error is reported; the
requests take effect in the order of the queue; every request is completed.

### Service (`src/service/src`)

| part | state | operations |
|------|-------|------------|
| `dynaswap.c` | the signal handlers | `init_dynaswap`, the loop, `alloc_dynaswap`, `free_dynaswap`, `sig_handler` |
| `swaphandler.c` | `prog_swap`, the list of chunk numbers; chunk files | `allocate_swap`, `mkswap`, `free_swap`, `free_dynamic_swap` |
| `sysstate.c` | the PSI trigger | `init_psi`, `poll_psi`, `read_psi`, `poll_swap_usage` |
| `config.c`, `constants.c` | thresholds, chunk size, path | options, reading and checking the configuration, `free_config` |

One single-threaded process talks to the kernel (`swapon`, `swapoff`, files,
PSI). Hard here: a signal may arrive between any two of its calls and its handler
frees everything and exits, without ever returning; another signal may interrupt
that handler; most results of calls are not acted on; files and active chunks
survive the process, and only the files survive a reboot.

What makes it correct: some swap is always kept; every active chunk is on the
list or accounted for; a chunk is freed only if its pages fitted elsewhere when
the swap was looked at; chunks are added under lasting pressure and removed in
lasting calm; a signal ends the process.

### The rest

`src/driver/src/helpers.py` (an estimate of RAM), `utils/memhog.py` and
`vm/start.sh` (manual tests) share no state with the programs and are left out.

## Modules

| module | models | |
|--------|--------|--|
| `PageDisk` | what the code above the block layer is promised | abstract specification |
| `DynaMap` | first driver, request path and mapping core | implements `PageDisk` |
| `DynaMapProofs` | | theorems about `DynaMap` |
| `DynaMapDiskProofs` | | `DynaMap` implements `PageDisk`; slots and data of requests |
| `DynaSwapV2` | second driver, queue to backing file | implements `PageDisk` |
| `DynaSwapV2Proofs` | | theorems about `DynaSwapV2` |
| `DynaSwapV2DiskProofs` | | `DynaSwapV2` implements `PageDisk`; what a sector holds |
| `ModuleLoad` | what both loads share: the kernel's side of a module, the work around it | |
| `DynaSwapLoad` | load and unload of the first driver, its geometry | extends `ModuleLoad` |
| `DynaSwapV2Load` | load and unload of the second driver, its debugfs reader | extends `ModuleLoad` |
| `DriverLoad` | a machine on which either is loaded again and again | composes the two |
| `DriverLoadProofs` | | theorems about `DriverLoad` |
| `SwapPool` | what the service promises the machine it runs on | abstract specification |
| `ServiceConfig` | options and configuration file of the service | operators of `SwapDaemon` |
| `SwapDaemon` | the service: start, loop, chunks, signals, restarts | implements `SwapPool` |
| `SwapDaemonProofs` | | theorems about `SwapDaemon` |
| `SwapPoolProofs` | | `SwapDaemon` implements `SwapPool` |
| `MCDynaMap`, `MCDynaSwapV2`, `MCDriverLoad`, `MCSwapDaemon` | | instances for TLC |

### PageDisk

An array of pages and a set of requests. A request moves its pages one at a
time, each in one instant between submission and completion, so an
implementation of it is linearizable page by page. A write that fails may have
changed its page. Three parameters say where the drivers differ:

* `Discarding`: a page that is discarded reads as zeroes (`"zero"`, first driver)
  or keeps what it held (`"keep"`, second driver).
* `ErrorsLast`: the error of a page stays with the request to its end (second
  driver), or the status of the next page takes its place
  (`dynaswap_process_work` of the first driver assigns it in every round of its
  loop, so only an error that ends the request or meets its last page is told).
* `WritesLost`: a write that meets no error may leave its page as it was. The
  first driver does not look at what `kernel_write` returns, so this is what it
  offers as soon as that call may fail (`"write" \in Fault`).

`Serialised` says whether clients keep two requests on one page from being in
flight together, unless both read. File systems and the swap code do; nothing in
the block layer enforces it.

### DynaMap

Variables carry the names of the fields of `struct dynamap_ctx`; `file` and
`file_slots` are the backing file, `rq[t]` the request that holds tag `t` with
the locals of the functions that serve it, `pc[t]` where its worker is. The
two-level table is one function because `dynamap_init` allocates all its leaves.
`phys_to_virt_map` is written and never read, and left out.

The grain: a critical section of `map_rwsem` is one step, since nothing the
others can see happens inside; the exception is a discard batch, whose entries
are a step each while the lock is held, because transfers of other requests go
on without the lock. A transfer to or from the file is a step, and so is each
read of a shared counter in `dynaswap_should_extend`. Freeing a slot and punching
its hole are one step: the lock is held, so nobody can claim the slot between.

| code | actions |
|------|---------|
| `dynaswap_handle_rq` | `SubmitTransfer`, `SubmitDiscard` |
| `dynaswap_write` | `WriteReadTotal`, `WriteQueueExtend`, `WriteLookup`, `WriteMappedMeanwhile`, `WriteClaim`, `WriteNoSpace`, `WriteStore` |
| `dynaswap_read` | `ReadUnmapped`, `ReadLookup`, `ReadFetch` |
| `dynaswap_discard` | `DiscardLock`, `DiscardEntry`, `DiscardUnlock` |
| `dynaswap_extend`, `dynaswap_expand_file` | `ExtendRun`, `ExtendPublish` |
| `inflate_threshold` in sysfs | `SetTrigger` |
| `blk_mq_end_request` | `Complete` |

`Fault` names the calls on the backing file that may fail; each then fails or
succeeds at will at every use. Two fields of a request are history and influence
nothing: `fresh` (this write claimed the slot) and `failed` (pages not moved).

### DynaSwapV2

`queue` is the ordered workqueue, with requests and the item `"extend"`; its head
is the item that runs, and `step` where it is. New requests arrive between any
two steps. `slot_bimap` stands for both hash tables, which are always changed
together under one lock. Contents are kept by sector, because the defects of the
key space show only there; memory that lies in the transferred page and is no
part of the request is `Other`. The lengths of segments are chosen from
`SegmentLen` as the request is walked through, which stands for any way of cutting
it up, and the place in a page of memory where one starts (`bv_offset`, which
`device.c:37` leaves out) from `SegmentOffset`.

| code | actions |
|------|---------|
| `queue_rq` | `SubmitTransfer`, `SubmitDiscard` |
| `handle_rq`, `perform_rq` | `Complete`, and the loop in `Segment`, `Moved`, `Failed` |
| `dynaswap_write`, `slot_manager_needs_extend` | `WriteExtend` |
| `reserve_slot_sector`, `bimap_insert` | `ReuseSlot`, `ReserveSlot`, `NoSlot` |
| `write_storage` | `Store` |
| `dynaswap_read`, `read_storage` | `ReadUnmapped`, `ReadSlot` |
| `dynaswap_discard` | `Discard` (the body is commented out: nothing changes) |
| `dynaswap_extend` | `RunExtend`, and `Extend` inside `WriteExtend` |

Out of the model: a `kmalloc` that fails in `queue_rq` (the block layer
dispatches again later, which is what a request not yet submitted is), flushes
(they have no segments), which errno a failing backing file returns, and what
fsync makes durable: the map is in memory only and `O_TRUNC` empties the file at
the next load, so nothing outlives the driver.

### ModuleLoad, DynaSwapLoad, DynaSwapV2Load, DriverLoad

insmod and rmmod run one function at a time; `pc` is the function they call next
and `failed` the call that ended the set-up, if one did. What makes the cleanups
interesting is the difference between two sets: `held` is what the kernel has
given to the module and not taken back, `ptr` what the module's own pointers and
numbers say it has, which is all that its cleanup can test. `misuse` collects what
was released or used without being held, with the version and the failure that
led there; `left` what a module that is gone has left in the kernel. Around
the two functions run requests, each as far as "queued", "ended" (to the block
layer) and returned, the extension, and a reader of the debugfs file. Both versions
are the module `dynaswap`, so one is in the kernel at a time; what one leaves
behind the next one meets.

| code, first driver | actions |
|------|---------|
| `dynaswap_init_mapping`, `dynamap_init` | `InitMapping`, `OpenBackingFile`, `AllocMaps`, `AllocBitmap`, `AllocWorkqueue`; its `fail` label: `CleanupInInit` |
| the rest of `dynaswap_module_init` | `RegisterBlockdev`, `InitTagSet`, `SetupDisk`, `AddDisk` |
| `dynaswap_init_err`, `dynaswap_module_exit` | `RmmodV1`, `ClearDisk`, `FreeTagSet`, `UnregisterBlockdev` |
| `dynamap_cleanup` | `CancelWork`, `DestroyWorkqueue`, `FreeContext`, `GoneV1` |
| work items | `Submit`, `ServeV1`, `Return`, `ExtendV1`, `ExtendDone` |

| code, second driver | actions |
|------|---------|
| `setup_common` | `SetupCommon` |
| `setup_context` | `SetupStorage`, `WriteAccess`, `SetupSlotManager` |
| `setup_disk` | `RegisterDevice`, `AllocTagset`, `CreateDisk` |
| `teardown_disk`, `teardown_context` | `RmmodV2`, `TeardownDisk`, `TeardownSlotManager`, `CloseStorage`, `TruncateStorage` |
| `teardown_common` | `RemoveDebugfs`, `DestroyWq`, `GoneV2` |
| work items, debugfs | `ServeV2`, `InsertV2`, `ExtendV2`, `ReadCheck`, `ReadSize`, `ReadStale` |

A use of memory that is not there is `misuse` when the code goes on after it, and
`Wedged` when the thread that did it is dead, as with an error pointer given to
`filp_close` or an extension without a file; then only `Reboot` follows. Sizes are
computed as the code does: sectors of the first driver modulo `Word` (2^32 in the
kernel), tables and second driver in 64 bits, rounded to pages and table pages.

### SwapPool

A pool of numbered swap areas, of which those below `managed` are the service's.
It grows and shrinks at its end only. The first area is made before the service
runs and is given up only by a service that stops. A service may be asked to stop
as soon as it has its first area, and is stopped when it manages none; one that
dies, starting, running or stopping, leaves active what was active, and the next
one starts beside it. A call of the kernel may fail, so `Grow` needs no `Activate`
before it and `Shrink` no `Deactivate`. In `SwapDaemon` these are `PushChunk`,
`SwapOn`, `PopChunk` and `SwapOff`: `managed` is the length of `prog_swap`,
`areas` is what the kernel has active, and `phase` is read off `pc`, `handlers`
and `handling` (`PhaseSeen`): starting until the last of the handlers is installed,
stopping from the first signal that is handled, stopped after `exit(0)`, dead after
any other end.

### SwapDaemon

One process, one label `pc`: a handler never returns, so entering it replaces
the label. A step is one system call or the code between two. Levels of pressure
are what the code distinguishes: the trigger fires (`STRAINED`), it does not but
an average is still above its limit (`EASED`), all is below (`CALM`). `used` and
`pressure` change at will between steps. The signals are numbered in the order of
`setup_signals`, which installs one handler at each step: until `handlers` has reached
a signal's number it kills the process, also one that is in the handler of an
earlier signal. `Kill` is a SIGKILL, from the OOM killer or an init that waits no
longer, and may come at any moment. `Start` begins a new process on what the
last one left behind, `Reboot` clears the kernel's side. `lost` is history: active
chunks that no list holds any more.

`ServiceConfig` describes a configuration by a record of what the file says under
each key, and the keys it has at all; `ParseArgs`, `ParseConfig`, `ParseSizeString`
and `ValidateConfig` say which are let in. What is let in is used, not assumed to
be sensible: sizes that are not positive, or that leave no room behind the header
page of a swap file, go on to `MakeSwap` and `SwapOn`.

| code | actions |
|------|---------|
| `init_dynaswap` | `InitDynaswap`, then the allocation of chunk 0, `SetupSignals` |
| `main`'s loop, `poll_psi`, `read_psi` | `Poll` |
| `alloc_dynaswap`, `free_dynaswap` | `AllocDynaswap`, `FreeDynaswap` |
| `allocate_swap`, `mkswap` | `AllocateSwap`, `OpenChunk`, `MakeSwap`, `SwapOn`, `PushChunk` |
| `free_swap`, `free_dynamic_swap` | `SwapOff`, `RemoveChunk`, `PopChunk` |
| `sig_handler`, `takedown_dynaswap` | `Signal`, the freeing steps, `FreeConfig`, `ExitClean` |

`FreeConfig` may end the process by SIGABRT when it frees `SWAP_PATH` a second
time, which takes two handlers: one that interrupts the other after its
`free_config`.

## Runs

| run | shows | bounds |
|-----|-------|--------|
| `dynamap_concurrent` | `TypeOK`, `MapConsistent`, `PoolWithinFile`, `NoSpaceMeansFull`, `GuardedBySemaphore`, `NearerTheEnd` with requests that overlap at will and every call failing | 2 requests of 1 page, 2 pages, chunks of 1 slot, batches of 2, thresholds 50 and 100 |
| `dynamap_serialised` | `SlotOwned`, `ReadOwnData`, `ImplementsPageDisk`, `EveryRequestCompletes`, `FullPoolGrows` with clients that order requests on one page; holes that are not punched and reads that fail | 2 requests of 1 or 2 pages, 2 pages, batches of 1, threshold 100 |
| `dynamap_overlap` | *violated:* `ReadOwnData` when requests on one page overlap | 2 requests, 2 pages |
| `dynamap_write_lost` | *violated:* `OkMeansTransferred` when `kernel_write` fails | 1 request of 1 or 2 pages |
| `dynamap_early_nospc` | *violated:* `NoSpaceOnlyAtCapacity` | 2 requests |
| `v2_pages` | `TypeOK`, `BimapConsistent`, `FileBounded`, `ServedInOrder`, `NoSpaceOnlyByLeak`, `ReadOwnSectors`, `ImplementsPageDisk`, `EveryRequestCompletes` with every call failing, clients that keep to whole pages but overlap at will | 2 requests of 1 or 2 pages, 2 pages of 2 sectors |
| `v2_sectors` | *violated:* `StoredIsFound` with requests of single sectors | 1 request, 2 pages of 2 sectors |
| `driver_load` | `TypeOK`, `MisuseOnly`, `WorkHasContext`, `LoadedIsWhole`, `EverySectorMapped`, `LeaksOnly`, `LoadReturns` with every call failing, both drivers one after the other | 2 requests, disks of 1, 3 and 5 gigabytes of 4 pages each, 2 table entries to a page, a word of 32 values |
| `driver_capacity` | *violated:* `CapacityAsAsked` | as above, no call fails |
| `swapdaemon_loop` | `TypeOK`, `ListInOrder`, `ActiveAccounted`, `KeepsSomeSwap`, `LoopIsConfigured`, `FreesWhatFitted`, `ShutdownAdvances`, `ImplementsSwapPool`, `ShutdownFinishes`, `GrowsUnderPressure`, `ShrinksWhenCalm`, all configurations and command lines, every call but `swapon` failing | 3 chunks of 3 pages, one of them the header, or of 2; 4 signals; command lines of up to 2 options; every way to get one value wrong |
| `swapdaemon_shutdown` | *violated:* `ShutdownFreesAll` | 3 chunks, 2 signals, the reference configuration |
| `swapdaemon_swapon` | *violated:* `KeepsSomeSwap` when `swapon` fails | as above, the reference configuration |

Why the bounds are enough. Two requests are what the races need: every window of
the first driver (a lookup and its use, two looks at an entry, two batches) is
opened by one request and entered by one other, with the extension worker as a
third actor; the bound is on requests in flight, not on how many there are. Two
pages over two slots let slots change hands, the pool be empty, partly and wholly
used, the hint wrap around and the capacity be reached in the middle of a chunk's
work. A batch of two covers entries that are mapped and not under one hold of the
lock; batches of one, several batches. Three chunks are the first, the last and
one between; the four signals are all there are. Writes of the first driver that
fail are in `dynamap_concurrent` and `dynamap_write_lost`; that it is a page store
also then, if holes can be punched, is the theorem `DiskImplemented`. For the loads,
one request that has yet to return and one in flight meet every step of an unload;
four gigabytes of 8 sectors are a whole word, so that 3 fit and 5 wrap around, as
2047 and 2049 real ones do (`driver_capacity`); a gigabyte fills whole pages of the
tables, as it does in the kernel. Sums over sizes that TLC does not try are what the
proofs cover.

`MisuseOnly` and `LeaksOnly` name the defects the code has, each with the
failure that leads to it, and say that there is no other. What they name: in the
first driver, a `dynamap_init` that fails closes the file a second time, or passes
an error pointer to `filp_close`; a disk that was never added is deleted; the code
of a handler can go before its last instruction. In the second, `vfs_truncate`
uses a file that was closed, a late extension and a reader do the same, debugfs
and workqueue stay when `setup_context` fails, and the cache of the bimap always
does. `LoadedIsWhole` names the driver without a disk that counts as loaded,
because a `bool` is compared with `< 0`.

### What the violations mean

* `dynamap_overlap`. `dynaswap_read` finds slot *s*; a discard frees it; another
  page claims it and is written; the read returns that page. The README calls the
  device fit "for any block workload" and its mapping guarded by a semaphore; the
  guarantee depends on clients that never overlap requests on a page
  (`dynamap_serialised`). Swap does not overlap them.
* `dynamap_write_lost`. The result of `kernel_write` is not read: a page that was
  never stored is reported as written. The old contents, zeroes, are read back.
* `dynamap_early_nospc`. The pool starts with no slot and is raised only by the
  queued extension, so the first writes can be refused. What does hold is
  `NoSpaceMeansFull`: the pool is then full and smaller than the device.
* `v2_sectors`. `bimap` is keyed by the sector a segment starts at. `slot.h`
  describes keys that are pages. Requests for single sectors, which
  `logical_block_size = SECTOR_SIZE` admits, miss what a page write stored.
* `swapdaemon_shutdown`. A signal between `swapon` and the push leaves the new
  chunk active after `exit(0)`.
* `swapdaemon_swapon`. `swapon` fails, the error is printed and the chunk listed:
  the loop then runs without any active chunk although the code means to keep some.
  Where there is no other swap the usage it reads is no number, so that
  `free_dynaswap` frees nothing and the next pressure adds a chunk.
* `driver_capacity`. `dynaswap_drv.c:261` multiplies unsigned ints: 2048 GiB give a
  disk of no sectors and 2049 one of a gigabyte, while the tables are sized in 64
  bits. What does hold is `EverySectorMapped`: the disk is never larger than them.

## Fairness

* `DynaMap`: strong fairness of each worker and of the extension. A queued work
  item is run by the system workqueue; a waiter for `map_rwsem` may find the lock
  taken over and over by other requests, and the handoff of `rw_semaphore` lets it
  in after a bounded number of them. Weak fairness would not express this: the
  waiter is not continuously enabled.
* `DynaSwapV2`: weak fairness of the one worker thread. It waits for nobody.
* `DriverLoad`: weak fairness of the function that runs, of the extension, of each
  request's handler and of a reader that has begun. All are threads of the kernel;
  an unload that waits for one of them waits for a step that nothing disables.
  Loads, unloads, new requests and readers are never forced.
* `SwapDaemon`: weak fairness of the process: it is scheduled and its system calls
  return. Signals, pressure, use of swap and restarts are never forced.

## Theorems

In `DynaMapProofs`, from `DynaMapAssumption` alone (sizes are naturals, a batch
is at least one entry, thresholds are bytes, `"nobody"` is no tag), for any number
of requests, any sizes, faults and clients:

* `TypeCorrect`: `Spec => []TypeOK`. `TypeOK` is inductive because it carries
  `Fits`, which ties each label of a worker to the shape of its request.
* `MapCorrect`: `Spec => []MapConsistent`. Inductive together with `TypeOK`. The
  two cases that matter are `WriteClaim` (the slot is outside the bitmap, hence
  of no page, and the entry is seen unmapped under the same hold of the lock) and
  `DiscardEntry` (the slot freed was this page's only). The count needs the
  bitmap to be finite.
* `PoolCorrect`: `Spec => []PoolWithinFile`, which is inductive with `TypeOK`.
* `FullPoolOnly`: `Spec => NoSpaceMeansFull`, an action property. A step that
  sets `NOSPC` is `WriteNoSpace`; nothing is free there, so by `PoolWithinFile`
  the bitmap is the whole pool. Were the pool as large as the device, each page
  would own a slot (`Pigeonhole`, an injection from the slots in use to the
  pages other than the refused one), against the page being unmapped.
* `SemaphoreGuards`: `Spec => GuardedBySemaphore`, an action property. Its invariant,
  `HeldInBatch`, says that a request is in a batch exactly when it holds
  `map_rwsem` for writing, so there is one such request at most; every other
  action on the map or the counters asks for the lock to be free.
* `EveryStepNearer`: `Spec => NearerTheEnd`. `StepsLeft` bounds the steps a worker
  still has to take by six for each page left; each step of its own lowers it and
  no step of another changes it. `TypeOK` is needed before and after, because a
  batch is never empty when it is entered. With fairness this measure is the
  argument for `EveryRequestCompletes`.

In `DynaMapDiskProofs`, for clients that order the requests that touch one page
(`Serialised`), any number of requests and any sizes:

* `SlotsOwned`: `Spec => [](Disjoint /\ SlotOwned)`. `SlotOwned` is not inductive:
  a discard by another request could take the slot of the page in transfer.
  `Disjoint` excludes it: the pages left to two requests in flight are apart,
  unless both read. It is kept because a request is admitted only when it is
  apart from all others and then only moves forward within its own pages.
* `DiskImplemented`: `Spec => ImplementsPageDisk`, for requests of any length and
  every set of faults that does not hold both the write and the hole punch. Where
  both fail, a slot that kept the page of its last owner is claimed, the write is
  lost, and the next read shows that page: no page store does so. The invariant
  `DiskInv` adds `MapConsistent` (a store or a hole touches one page only), `Fresh`
  (only the write that claimed a slot and has not stored its page hides it),
  `Blank` (a write shows its client nothing) and `Clean` (when every hole is
  punched, a slot is zero from its release to the store after its next claim, so
  that a write lost there leaves the page as it was). Per action: `WriteStore` is
  `Write`, `ReadUnmapped` and `ReadFetch` are `Read` or `Fail`, `WriteNoSpace` is
  `Fail`, `DiscardEntry` is `Discard` of one page, submission and completion are
  themselves, all else stutters.
* `ReadsOwnData`: `Spec => []ReadOwnData` under the same assumptions, argued over
  the steps of `PageDisk` that the driver's steps have been mapped to. A hole
  that is not punched leaves old data in a free slot; that it never shows is the
  point of the theorem.

In `DynaSwapV2Proofs`, from `DynaSwapV2Assumption` alone, for clients of any
alignment and any fault:

* `TypeCorrect`, `FileCorrect`: `Spec => []TypeOK`, `Spec => []FileBounded`. Both
  follow from `IInv`, which adds what ties the worker's step to its request
  (`Current`: only a write is left in the middle of a segment, and it is the head
  of the queue); without it the sector that is looked up might be outside the
  device, and without the bound on the pool the hint might be outside the bitmap.
* `BimapCorrect`: `Spec => []BimapConsistent`, inductive with `IInv`. The
  interesting case is an insertion that fails: the slot leaks, and the invariant
  speaks of inclusion, not equality, for that reason.
* `InOrder`: `Spec => ServedInOrder`, an action property from `IInv`. Items are
  appended and taken from the head, and every step on the head lowers its `StepsLeft`
  and leaves every other request as it was.

In `DynaSwapV2DiskProofs`, again for clients of any alignment and any fault:

* `ReadsOwnSectors`: `Spec => ReadOwnSectors`, if segments start at the top of a page
  of memory (`SegmentOffset = {0}`); of any length. A read finds zeroes, what was
  written to this very sector, or memory that a shorter segment took along
  (`Other`). The invariant `SectorInv` adds `Owned`
  (what a slot holds at a place is zero, foreign memory, or was written to the
  sector at that place of its key), `Held` (the slot about to be stored in is that
  of its key) and `Clean` (a slot without a key holds zeroes).

In both modules, for clients that keep to whole pages
(`WholePages`: segments of one page, which is one page of memory, at page
boundaries), for any number of
requests that overlap in any way, any sizes and every fault:

* `NoSpaceMeansLeak`: `Spec => NoSpaceOnlyByLeak`. The invariant `PagesInv` adds
  `OnPages` (keys and places are page boundaries, so keys are no more than pages)
  and `Roomy` (when a slot is looked for, the pool has one free or is as large as
  the device). If no slot leaked, each reserved slot is the image of a page, and a
  pool that is full has one for the refused page too, which has none.
* `DiskImplemented`: `Spec => ImplementsPageDisk`. `DiskInv` adds `Clean` (a slot
  that is not reserved holds zeroes, and no slot is ever given up), `Held` (the
  slot about to be stored in is that of its page) and `Quiet` (what an unused tag
  and a write show). `Clean` is why an entry of the bimap can be made a step before
  its page is stored: a read in between would see zeroes, as before. `Store` is
  `Write` or `Fail`, the reads are `Read` or `Fail`, `NoSlot` and a failed insertion
  are `Fail`, a discard is `Discard` that keeps, submission and completion are
  themselves, all else stutters.
* `StoredFound`: `Spec => StoredIsFound`, which the run `v2_sectors` refutes for
  clients of single sectors. It takes `Zero` and `Other` to be no pair of a sector
  and a value, which the model values of the runs are not either: otherwise a
  slot of zeroes would look written.

In `DriverLoadProofs`, from `ModuleLoadAssumption` alone (page and sector sizes
divide what they must), for any number of requests, any capacity, word and page
sizes and any faults:

* `TypeCorrect`, `MisuseNamed`, `WorkKeepsContext`, `LoadIsWhole`, `SectorsAreMapped`:
  the invariants of the run. They follow from `IInv`, whose part `Shape` gives, for
  each label of insmod and rmmod, what is held and what the pointers say, as a
  function of the failure that led there; `Busy` says when work may be under way
  and `Measured` ties the two computed sizes to the parameter. `TypeOK` says of the
  second driver's workqueue that it runs one item at a time. `MisuseOnly` needs
  all three: whether a release is one too many depends on the label, what led to
  it and what still runs.
* `LeaksNamed`: `Spec => LeaksOnly`, by `Shape` at the label where a module goes.

In `SwapDaemonProofs`, from `SwapDaemonAssumption` alone, for any number of chunks,
any configurations, command lines, signals and faults:

* `TypeCorrect`, `ListStaysInOrder`, `ActiveIsAccounted`, `LoopAlwaysConfigured`,
  from `IInv`: `Hand` says which number `allocate_swap` has in hand (that of the
  next place of the list), `Phase` what each label implies for the list, the handlers
  and the configuration, `Sized` that chunks exist only of a page or more.
* `ShutdownNearer`: `Spec => ShutdownAdvances`, from `IInv`, whose part `Phase` leaves
  a handler four labels. `HandlerSteps` falls with each of its steps; a signal that
  interrupts it adds to `handling`, whose members are the signals handled (`Sig`).
* `FreesOnlyWhatFitted`: `Spec => FreesWhatFitted`, whichever calls fail. It speaks of
  the moment at which `poll_swap_usage` is read, and of a decision: pages that are
  swapped out between it and `swapoff` are not looked at again, and `swapoff` then
  needs memory, or fails. Thresholds above one half are left out, and so is a
  chunk that is the only active one, as after a `swapon` that failed.
* `SomeSwapKept` assumes that `swapon` does not fail, which the run
  `swapdaemon_swapon` shows to be necessary. The invariant `FirstActive` follows the
  first chunk from the allocation to the loop, where the number is never freed
  because the loop frees only a chunk that is not the first.

In `SwapPoolProofs`, from `SwapDaemonAssumption` alone:

* `PoolImplemented`: `Spec => ImplementsSwapPool`. The invariant is `IInv` with
  `OneMade` (exactly one chunk is listed when the handlers are installed, so the
  service never runs without one). `SwapOn` is `Activate` or unseen, `PushChunk` is
  `Grow`, `SwapOff` is `Deactivate` or unseen, `PopChunk` is `Shrink`, the last step
  of `SetupSignals` is `Run`, the first signal that is handled is `Stop`, before or
  after that step, and the next are unseen; an exit, a kill and a signal without a
  handler are `Die` or `Stopped`. That `exit(0)` is never reached with a chunk on
  the list, also when handlers interrupt each other, is what `IInv` is needed for.

Only model-checked: liveness, which speaks of fairness and is out of the prover's
reach (`EveryRequestCompletes`, `FullPoolGrows`, `LoadReturns`, `ShutdownFinishes`,
`GrowsUnderPressure`, `ShrinksWhenCalm`), and the properties that runs show to be
violated, where no theorem above gives the assumption under which they hold. For
three of the liveness properties the half that is about safety is proved:
`NearerTheEnd`, `ServedInOrder` and `ShutdownAdvances` say that every step goes
towards the end and none away from it, so that what remains to TLC is that the
next step is taken. The safety properties of the passing runs are all proved,
under the assumptions given.

## Plan

Written in this order, the most important behaviour first: `PageDisk` and `DynaMap`
with its proofs and its refinement; `DynaSwapV2`; `SwapDaemon`; the proofs of the
second driver and its refinement; the loads of both drivers with their geometry;
the configuration of the service; proofs about these; `SwapPool`, the wider
refinement of `PageDisk` and the progress measures, with their proofs. What could
follow is an abstract specification of the module loads, and
what the next section lists first: requests that are not made of whole pages, in
both drivers. Since the code handles neither, they would be more runs that are
violated, or an abstract disk that promises less than `PageDisk`.

## Not modelled, and why

* Requests to the first driver that are not page aligned: `DynaMap` moves whole
  pages, as swap and file systems with blocks of a page do. The driver itself drops
  whole pages for a discard of parts and moves the whole page for a transfer of
  part of one (hazard at `dynamap.c:173`).
* Segments of several pages in the second driver. `rq_for_each_bvec` may yield
  them, and only their first page is moved. `DynaSwapV2` says so, since
  `SegmentLen` is free: with `{2, 4}` TLC refutes `ImplementsPageDisk` at the first
  request. The runs and the refinement proof are for segments of one page.
* Segments that do not start at the top of a page of memory. `device.c:37` leaves
  `bv_offset` out, so such a segment stores what lies before it and overwrites it
  when read. `SegmentOffset` is free too: with `{0, 1}` and single sectors TLC
  refutes `ReadOwnSectors` after one write and one read. The runs and the theorems
  `ReadsOwnSectors`, `DiskImplemented` and `StoredFound` are for `{0}`.
* `inflate_threshold` above 100: the percentage is then never reached. A setting
  with no transition of its own.
* The counters of `slot_debug.c` and other debug output, which only print. The
  heap of the service, so whether `printf` or `free` in the signal handler meets a
  lock or a list in disorder is beyond the model; only the double free is in it.
  Nor are a `malloc` or `strdup` of the service that fails, and the part of a file
  that a failed `fallocate` has extended (`swaphandler.c:34`): the next start
  truncates it.
* No run is about usage at a threshold itself. The service's README (lines 18-19 and
  68-69) and `misc/dynaswap.conf:10-11` add a chunk above the full threshold and free
  one below the free threshold; `dynaswap.c:19` and `:47` do so at equality too. The
  model does as the code does (`SwapNotFull`, `SwapFreeable`), and
  `GrowsUnderPressure` and `ShrinksWhenCalm` ask for it only where code and
  documents agree.
* `mkswap`'s file contents and libconfig's syntax; two remarks on them. The
  reference configuration names a suffix "B (Byte)" (`service/misc/dynaswap.conf:3`)
  that `ParseSizeString` refuses as `config.c:122` does, and `config.c:178` calls
  "non-negative" what must be greater than zero. Both end in a refusal at the start,
  and no run is about them.
* Block-layer time-outs (no driver sets one), reclaim that recurses into the driver
  under memory pressure, and durability of the backing file, which is truncated at
  every load.
* `helpers.py`, `memhog.py`, `start.sh`: an estimate and manual tests.
