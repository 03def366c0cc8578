-------------------------- MODULE DriverLoadProofs --------------------------
(***************************************************************************)
(* Theorems about DriverLoad for any capacity, any number of requests and  *)
(* every set of calls that fail.                                           *)
(*                                                                         *)
(* The invariant says, for each label, what is held there and what the     *)
(* module believes it holds (Shape), what may run beside it (Busy) and how *)
(* large the tables and the disk are (Measured).                           *)
(***************************************************************************)
EXTENDS DriverLoad, TLAPS

(* What the first driver holds once it is set up; what a load of the       *)
(* second cannot do without; what it may also hold; and the disk it        *)
(* forgets.                                                                *)
Sure1 == Context \cup Disk
Base2 == {"wq", "backing_file", "write_access", "slot_bitmap"}
Maybe == {"debugfs", "entry_cache"}
LostDisk == IF failed = "add_disk" THEN {"disk"} ELSE {}

(* The labels of an unload, and of the cleanup of a failed load.           *)
UnloadV1 == {"clear_disk", "free_tag_set", "unregister_blockdev", "cancel_work",
             "destroy_workqueue", "free_context"}
UnloadV2 == {"teardown_disk", "teardown_slot_manager", "close_storage",
             "truncate_storage", "teardown_common", "destroy_wq"}

(* Between a load and the one before it nothing is held, believed or at    *)
(* work.                                                                   *)
Nothing ==
    driver = "none" =>
        /\ pc = "none" /\ held = {} /\ ptr = {} /\ reader = "none" /\ capacity = 0
        /\ \A w \in Work : work[w] = "idle"

(* At this label of a load, the driver holds h and believes it holds p.    *)
At1(label, h, p) ==
    pc = label => driver = "v1" /\ failed = "none" /\ held = h /\ ptr = p
At2(label, h) ==
    pc = label => /\ driver = "v2" /\ failed = "none"
                  /\ held \ Maybe = h /\ ptr \ Maybe = h

(* A load takes things in one order: the label tells what there is.        *)
Rising ==
    /\ At1("init_mapping", {}, {})
    /\ At1("filp_open", {}, {})
    /\ At1("maps", {"backing_file"}, {"backing_file"})
    /\ At1("slot_bitmap", {"backing_file"} \cup Maps, {"backing_file"} \cup Maps)
    /\ At1("wq", Context \ {"wq"}, Context \ {"wq"})
    /\ At1("register_blockdev", Context, Context \cup {"extend_work"})
    /\ At1("init_tag_set", Context \cup {"major"},
                           Context \cup {"major", "extend_work"})
    /\ At1("setup_disk", Context \cup {"major", "tag_set"},
                         Context \cup {"major", "tag_set", "extend_work"})
    /\ At1("add_disk", Sure1, Sure1 \cup {"extend_work"})
    /\ At2("setup_common", {})
    /\ At2("setup_storage", {"wq"})
    /\ At2("write_access", {"wq", "backing_file"})
    /\ At2("setup_slot_manager", Base2 \ {"slot_bitmap"})
    /\ At2("register_device", Base2)
    /\ At2("alloc_tagset", Base2 \cup {"major"})
    /\ At2("create_disk", Base2 \cup {"major", "tag_set"})

(* The first driver is loaded with everything.                             *)
Up1 == /\ failed = "none"
       /\ held = Sure1 \cup {"live"} /\ ptr = Sure1 \cup {"extend_work"}

(* The second is, or lacks all of its disk but a gendisk left behind.      *)
Up2 == IF failed = "none"
       THEN /\ held \ Maybe = Base2 \cup Disk \cup {"live"}
            /\ ptr \ Maybe = Base2 \cup Disk
       ELSE /\ failed \in SetupDiskFault
            /\ held \ Maybe = Base2 \cup LostDisk /\ ptr \ Maybe = Base2

(* Either version, when it is loaded.                                      *)
Up == pc = "loaded" => \/ driver = "v1" /\ Up1
                       \/ driver = "v2" /\ Up2

(* The first driver holds nothing it does not know of, and knows of        *)
(* nothing it does not hold, except where cleanup is known to err: the     *)
(* file that dynamap_init closed, and a disk that was not added.           *)
Sound1 ==
    /\ pc \in UnloadV1 \cup {"fail"} => driver = "v1"
    /\ driver = "v1" =>
        /\ held \subseteq Sure1 \cup {"live"}
        /\ held \ {"live"} \subseteq ptr /\ "live" \notin ptr
        /\ ptr \ {"extend_work", "backing_file"} \subseteq held
        /\ "backing_file" \in ptr \ held =>
               failed \in ContextFault \cup {"filp_open"} \/ pc = "gone"
        /\ "disk" \in ptr /\ pc \notin {"add_disk"} =>
               "live" \in held \/ failed = "add_disk"
        /\ pc = "fail" => /\ failed \in ContextFault
                          /\ held = ptr /\ held \subseteq Context \ {"wq"}

(* Its cleanup skips what was not set up, so a label tells only what is    *)
(* gone by then; at the end all of it is.                                  *)
Falling1 ==
    pc \in UnloadV1 \cup {"gone"} /\ driver = "v1" =>
        /\ pc # "clear_disk" => {"live", "disk"} \cap held = {}
        /\ pc \notin {"clear_disk", "free_tag_set"} => "tag_set" \notin held
        /\ pc \notin {"clear_disk", "free_tag_set", "unregister_blockdev"} =>
               "major" \notin held
        /\ pc \in {"free_context", "gone"} => "wq" \notin held
        /\ pc = "gone" => held = {}

(* The second driver undoes what it did in the opposite order; what is not *)
(* destroyed, or was forgotten, stays.                                     *)
Falling2 ==
    /\ pc \in UnloadV2 => driver = "v2"
    /\ pc = "teardown_disk" => Up2
    /\ pc = "teardown_slot_manager" =>
           /\ failed \in SetupDiskFault \cup {"none"}
           /\ held \ Maybe = Base2 \cup LostDisk /\ ptr \ Maybe = Base2
    /\ pc = "close_storage" =>
           /\ failed \in SetupDiskFault \cup {"none", "slot_bitmap"}
           /\ held \ Maybe = (Base2 \ {"slot_bitmap"}) \cup LostDisk
           /\ ptr \ Maybe = IF failed = "slot_bitmap" THEN Base2 \ {"slot_bitmap"}
                                                      ELSE Base2
           /\ failed = "slot_bitmap" => "entry_cache" \notin held
    /\ pc = "truncate_storage" =>
           /\ failed \in SetupDiskFault \cup {"none", "slot_bitmap"}
           /\ held \ Maybe = {"wq"} \cup LostDisk /\ "wq" \in ptr
           /\ failed = "slot_bitmap" => "entry_cache" \notin held
    /\ pc = "teardown_common" =>
           /\ failed \in SetupDiskFault \cup {"none"}
           /\ held \ Maybe = {"wq"} \cup LostDisk /\ "wq" \in ptr
    /\ pc = "destroy_wq" =>
           /\ failed \in SetupDiskFault \cup {"none"}
           /\ held \ Maybe = {"wq"} \cup LostDisk /\ "wq" \in ptr
           /\ "debugfs" \notin held
    /\ pc = "gone" /\ driver = "v2" =>
           IF failed \in SetupContextFault THEN held \subseteq {"wq", "debugfs"}
           ELSE held \subseteq {"entry_cache"} \cup LostDisk
    /\ driver = "v2" => ("debugfs" \in held <=> "debugfs" \in ptr)
    /\ pc \in {"setup_common", "setup_storage", "write_access",
               "setup_slot_manager"} => "entry_cache" \notin held
    /\ pc = "setup_common" => "debugfs" \notin held

(* What runs beside an unload: a reader keeps debugfs there; a request     *)
(* keeps the module loaded (or its thread is dead); the extension of the   *)
(* first driver ends with cancel_work_sync, that of the second may outlive *)
(* the file.                                                               *)
Busy ==
    /\ reader # "none" => driver = "v2" /\ "debugfs" \in held
    /\ InFlight # {} => \/ pc = "loaded" /\ "live" \in held
                        \/ /\ driver = "v2" /\ pc = "wedged"
                           /\ Base2 \cup Disk \subseteq held
    /\ driver = "v1" /\ (\E t \in Tag : work[t] # "idle") =>
           failed = "none" /\ pc \in UnloadV1 \cup {"loaded", "gone"}
    /\ driver = "v1" /\ work["extend"] # "idle" =>
           /\ "extend_work" \in ptr /\ {"wq", "backing_file"} \subseteq held
           /\ pc \in {"register_blockdev", "init_tag_set", "setup_disk",
                      "add_disk", "loaded", "clear_disk", "free_tag_set",
                      "unregister_blockdev", "cancel_work"}
    /\ driver = "v2" /\ (\E w \in Work : work[w] # "idle") =>
           /\ failed \in SetupDiskFault \cup {"none"}
           /\ pc \in UnloadV2 \cup {"loaded", "wedged"}

(* From the label where a size is computed on, it is that of gb.           *)
Measured ==
    /\ pc \in {"slot_bitmap", "wq", "register_blockdev", "init_tag_set",
               "setup_disk", "add_disk"} => pages = DirCount * EntriesPerPage
    /\ pc = "add_disk" => capacity = Sectors
    /\ pc \in {"register_device", "alloc_tagset", "create_disk"} =>
           pages = (gb * GB) \div PAGE_SIZE
    /\ "live" \in held =>
          \/ /\ driver = "v1"
             /\ pages = DirCount * EntriesPerPage /\ capacity = Sectors
          \/ /\ driver = "v2"
             /\ pages = (gb * GB) \div PAGE_SIZE
             /\ capacity = (gb * GB) \div SECTOR_SIZE

(* The strengthening, and the inductive invariant.                         *)
Shape == Nothing /\ Rising /\ Up /\ Sound1 /\ Falling1 /\ Falling2
IInv == TypeOK /\ Shape /\ Busy /\ Measured /\ MisuseOnly

USE DEF Work, Sure1, Base2, Maybe, LostDisk, Context, Maps, Disk, UnloadV1, UnloadV2,
        At1, At2, module, size, Goto, Fails, Take, FailsToTake, Gone, Insmod, Rmmod,
        Wedged, Release, Served, InFlight, After, InitErr, Nulled, Done,
        SetupDiskFault, SetupContextFault, ContextFault

(* The names of what a load takes are resources.                           *)
LEMMA Known ==
    /\ "backing_file" \in Resource /\ "virt_to_phys_map" \in Resource
    /\ "phys_to_virt_map" \in Resource /\ "slot_bitmap" \in Resource
    /\ "wq" \in Resource /\ "major" \in Resource /\ "tag_set" \in Resource
    /\ "disk" \in Resource /\ "live" \in Resource /\ "debugfs" \in Resource
    /\ "write_access" \in Resource /\ "entry_cache" \in Resource
BY DEF Resource

(* The sizes of g gigabytes are natural numbers, and the number of sectors *)
(* that the first driver computes is an unsigned int.                      *)
LEMMA GeometryOK ==
    ASSUME NEW g \in Nat
    PROVE  /\ (g * GB) \div PAGE_SIZE \in Nat /\ (g * GB) \div SECTOR_SIZE \in Nat
           /\ (g * (GB \div SECTOR_SIZE)) % Word \in 0 .. Word - 1
           /\ (((g * GB) \div PAGE_SIZE + EntriesPerPage - 1)
                  \div EntriesPerPage) * EntriesPerPage \in Nat
<1>1. /\ GB \in Nat /\ PAGE_SIZE \in Nat \ {0} /\ SECTOR_SIZE \in Nat \ {0}
      /\ Word \in Nat \ {0} /\ EntriesPerPage \in Nat \ {0}
  BY ModuleLoadAssumption
<1>2. \A m, n \in Nat : m * n \in Nat
  OBVIOUS
<1>3. \A m \in Nat, n \in Nat \ {0} : m \div n \in Nat /\ m % n \in 0 .. n - 1
  OBVIOUS
<1>4. (g * GB) \div PAGE_SIZE \in Nat /\ (g * GB) \div SECTOR_SIZE \in Nat
  BY <1>1, <1>2, <1>3
<1>5. (g * (GB \div SECTOR_SIZE)) % Word \in 0 .. Word - 1
  BY <1>1, <1>2, <1>3
<1>6. (g * GB) \div PAGE_SIZE + EntriesPerPage - 1 \in Nat
  BY <1>1, <1>4
<1> QED
  BY <1>1, <1>2, <1>3, <1>4, <1>5, <1>6

(* So are those of the loaded module.                                      *)
LEMMA SizesNat ==
    ASSUME IInv
    PROVE  /\ DirCount * EntriesPerPage \in Nat /\ Sectors \in 0 .. Word - 1
           /\ (gb * GB) \div PAGE_SIZE \in Nat /\ (gb * GB) \div SECTOR_SIZE \in Nat
           /\ Word \in Nat \ {0}
<1>1. gb \in Nat /\ Word \in Nat \ {0}
  BY ModuleLoadAssumption DEF IInv, TypeOK, ControlOK
<1> QED
  BY <1>1, GeometryOK DEF DirCount, TotalCapacity, Sectors

(* A step leads from a label to a label and records a call that may fail.  *)
LEMMA ControlOKKept == ASSUME IInv, Next PROVE ControlOK'
<1>1. CASE Load
  BY <1>1, SMTT(60)
     DEF IInv, ControlOK, TypeOK, SetupLabels, CleanupLabels,
         Load, InsmodV1, InsmodV2, RmmodV1, RmmodV2
<1>2. CASE SetupV1
  BY <1>2, SMTT(60)
     DEF IInv, ControlOK, TypeOK, SetupLabels, CleanupLabels,
         SetupV1, InitMapping, OpenBackingFile, AllocMaps, AllocBitmap,
         AllocWorkqueue, RegisterBlockdev, InitTagSet, SetupDisk, AddDisk
<1>3. CASE CleanupV1
  BY <1>3, SMTT(60)
     DEF IInv, ControlOK, TypeOK, SetupLabels, CleanupLabels,
         CleanupV1, ClearDisk, FreeTagSet, UnregisterBlockdev, CancelWork,
         DestroyWorkqueue, FreeContext, CleanupInInit, GoneV1
<1>4. CASE SetupV2
  BY <1>4, SMTT(60)
     DEF IInv, ControlOK, TypeOK, SetupLabels, CleanupLabels,
         SetupV2, SetupCommon, SetupStorage, WriteAccess, SetupSlotManager,
         RegisterDevice, AllocTagset, CreateDisk
<1>5. CASE CleanupV2
  BY <1>5, SMTT(60)
     DEF IInv, ControlOK, TypeOK, SetupLabels, CleanupLabels,
         CleanupV2, TeardownDisk, TeardownSlotManager, CloseStorage,
         TruncateStorage, RemoveDebugfs, DestroyWq, GoneV2
<1>6. CASE Extend
  BY <1>6, SMTT(60)
     DEF IInv, ControlOK, TypeOK, SetupLabels, CleanupLabels,
         Extend, ExtendV1, ExtendV2, ExtendDone, WorkerFree
<1>7. CASE Read
  BY <1>7, SMTT(60)
     DEF IInv, ControlOK, TypeOK, SetupLabels, CleanupLabels,
         Read, ReadCheck, ReadSize, ReadStale
<1>8. CASE Reboot
  BY <1>8, SMTT(60)
     DEF IInv, ControlOK, TypeOK, SetupLabels, CleanupLabels,
         Reboot
<1>9. ASSUME NEW t \in Tag, Submit(t) \/ Serve(t)
     PROVE  ControlOK'
  BY <1>9, SMTT(60)
     DEF IInv, ControlOK, TypeOK, SetupLabels, CleanupLabels,
         Submit, Serve, ServeV1, ServeV2, InsertV2, Return, WorkerFree
<1> QED
  BY <1>1, <1>2, <1>3, <1>4, <1>5, <1>6, <1>7, <1>8, <1>9 DEF Next, Steps

(* A step takes, believes and leaves behind resources only.                *)
LEMMA ResourcesOKKept == ASSUME IInv, Next PROVE ResourcesOK'
<1>1. CASE Load
  BY <1>1, Known, SMTT(60)
     DEF IInv, ResourcesOK, TypeOK,
         Load, InsmodV1, InsmodV2, RmmodV1, RmmodV2
<1>2. CASE SetupV1
  <2>1. CASE AllocMaps
    <3>1. PICK got \in SUBSET Maps : ptr' = ptr \cup got /\ held' = held \cup got
      BY <2>1 DEF AllocMaps
    <3>2. got \subseteq Resource /\ left' = left
      BY <2>1, <3>1, Known DEF AllocMaps
    <3> QED
      BY <3>1, <3>2 DEF IInv, ResourcesOK, TypeOK
  <2>2. CASE SetupV1 /\ ~AllocMaps
    BY <2>2, Known, SMTT(60)
       DEF IInv, ResourcesOK, TypeOK, SetupV1, InitMapping, OpenBackingFile,
           AllocBitmap,
           AllocWorkqueue, RegisterBlockdev, InitTagSet, SetupDisk, AddDisk
  <2> QED
    BY <1>2, <2>1, <2>2
<1>3. CASE CleanupV1
  BY <1>3, Known, SMTT(60)
     DEF IInv, ResourcesOK, TypeOK,
         CleanupV1, ClearDisk, FreeTagSet, UnregisterBlockdev, CancelWork,
         DestroyWorkqueue, FreeContext, CleanupInInit, GoneV1
<1>4. CASE SetupV2
  <2>1. CASE SetupCommon
    <3>1. CASE \E dir \in SUBSET ({"debugfs"} \ left) :
                   Take({"wq"} \cup dir, "setup_storage")
      <4>1. PICK dir \in SUBSET ({"debugfs"} \ left) :
               Take({"wq"} \cup dir, "setup_storage")
        BY <3>1
      <4>2. {"wq"} \cup dir \subseteq Resource
        BY Known
      <4> QED
        BY <4>1, <4>2 DEF IInv, ResourcesOK, TypeOK
    <3>2. CASE FailsToTake("wq", "gone")
      BY <3>2 DEF IInv, ResourcesOK, TypeOK
    <3> QED
      BY <2>1, <3>1, <3>2 DEF SetupCommon
  <2>2. CASE SetupSlotManager
    <3>1. PICK cache \in SUBSET {"entry_cache"} :
             \/ /\ ptr' = ptr \cup cache \cup {"slot_bitmap"}
                /\ held' = held \cup cache \cup {"slot_bitmap"}
             \/ UNCHANGED <<ptr, held>>
      BY <2>2 DEF SetupSlotManager
    <3>2. cache \cup {"slot_bitmap"} \subseteq Resource /\ left' = left
      BY <2>2, Known DEF SetupSlotManager
    <3> QED
      BY <3>1, <3>2 DEF IInv, ResourcesOK, TypeOK
  <2>3. CASE SetupStorage \/ WriteAccess \/ RegisterDevice \/ AllocTagset
    BY <2>3, Known, SMTT(60)
       DEF IInv, ResourcesOK, TypeOK, SetupStorage, WriteAccess,
       RegisterDevice, AllocTagset
  <2>4. CASE CreateDisk
    BY <2>4, Known, SMTT(60) DEF IInv, ResourcesOK, TypeOK, CreateDisk
  <2> QED
    BY <1>4, <2>1, <2>2, <2>3, <2>4 DEF SetupV2
<1>5. CASE CleanupV2
  BY <1>5, Known, SMTT(60)
     DEF IInv, ResourcesOK, TypeOK,
         CleanupV2, TeardownDisk, TeardownSlotManager, CloseStorage,
         TruncateStorage, RemoveDebugfs, DestroyWq, GoneV2
<1>6. CASE Extend
  BY <1>6, Known, SMTT(60)
     DEF IInv, ResourcesOK, TypeOK,
         Extend, ExtendV1, ExtendV2, ExtendDone, WorkerFree
<1>7. CASE Read
  BY <1>7, Known, SMTT(60)
     DEF IInv, ResourcesOK, TypeOK,
         Read, ReadCheck, ReadSize, ReadStale
<1>8. CASE Reboot
  BY <1>8, Known, SMTT(60)
     DEF IInv, ResourcesOK, TypeOK,
         Reboot
<1>9. ASSUME NEW t \in Tag, Submit(t) \/ Serve(t)
     PROVE  ResourcesOK'
  BY <1>9, Known, SMTT(60)
     DEF IInv, ResourcesOK, TypeOK,
         Submit, Serve, ServeV1, ServeV2, InsertV2, Return, WorkerFree
<1> QED
  BY <1>1, <1>2, <1>3, <1>4, <1>5, <1>6, <1>7, <1>8, <1>9 DEF Next, Steps

(* A step takes requests, extension and reader from state to state.        *)
LEMMA WorkOKKept == ASSUME IInv, Next PROVE WorkOK'
<1>1. CASE Load
  BY <1>1, SMTT(60)
     DEF IInv, WorkOK, TypeOK,
         Load, InsmodV1, InsmodV2, RmmodV1, RmmodV2
<1>2. CASE SetupV1
  BY <1>2, SMTT(60)
     DEF IInv, WorkOK, TypeOK,
         SetupV1, InitMapping, OpenBackingFile, AllocMaps, AllocBitmap,
         AllocWorkqueue, RegisterBlockdev, InitTagSet, SetupDisk, AddDisk
<1>3. CASE CleanupV1
  BY <1>3, SMTT(60)
     DEF IInv, WorkOK, TypeOK,
         CleanupV1, ClearDisk, FreeTagSet, UnregisterBlockdev, CancelWork,
         DestroyWorkqueue, FreeContext, CleanupInInit, GoneV1
<1>4. CASE SetupV2
  BY <1>4, SMTT(60)
     DEF IInv, WorkOK, TypeOK,
         SetupV2, SetupCommon, SetupStorage, WriteAccess, SetupSlotManager,
         RegisterDevice, AllocTagset, CreateDisk
<1>5. CASE CleanupV2
  BY <1>5, SMTT(60)
     DEF IInv, WorkOK, TypeOK,
         CleanupV2, TeardownDisk, TeardownSlotManager, CloseStorage,
         TruncateStorage, RemoveDebugfs, DestroyWq, GoneV2
<1>6. CASE Extend
  BY <1>6, SMTT(60)
     DEF IInv, WorkOK, TypeOK,
         Extend, ExtendV1, ExtendV2, ExtendDone, WorkerFree
<1>7. CASE Read
  BY <1>7, SMTT(60)
     DEF IInv, WorkOK, TypeOK,
         Read, ReadCheck, ReadSize, ReadStale
<1>8. CASE Reboot
  BY <1>8, SMTT(60)
     DEF IInv, WorkOK, TypeOK,
         Reboot
<1>9. ASSUME NEW t \in Tag, Submit(t) \/ Serve(t)
     PROVE  WorkOK'
  BY <1>9, SMTT(60)
     DEF IInv, WorkOK, TypeOK,
         Submit, Serve, ServeV1, ServeV2, InsertV2, Return, WorkerFree
<1> QED
  BY <1>1, <1>2, <1>3, <1>4, <1>5, <1>6, <1>7, <1>8, <1>9 DEF Next, Steps

(* The worker of the second driver takes an item when it has none.  The    *)
(* first driver leaves nothing at work to the second.                      *)
LEMMA OneAtATimeKept == ASSUME IInv, Next PROVE OneAtATime'
<1>1. ASSUME UNCHANGED driver,
             \A w \in Work : work'[w] \in {"running", "ended"} =>
                                work[w] \in {"running", "ended"}
      PROVE  OneAtATime'
  BY <1>1 DEF IInv, TypeOK, OneAtATime, AtWork
<1>2. ASSUME driver' # "v2" PROVE OneAtATime'
  BY <1>2 DEF OneAtATime
<1>3. ASSUME WorkerFree,
             \E w \in Work : \A x \in Work :
                 x # w => work'[x] = work[x] \/ work'[x] = "queued"
      PROVE  OneAtATime'
  BY <1>3 DEF WorkerFree, OneAtATime, AtWork
<1>4. work \in [Work -> {"idle", "queued", "running", "ended"}]
  BY DEF IInv, TypeOK, WorkOK
<1>5. CASE Load
  <2>1. CASE InsmodV1 \/ RmmodV1 \/ RmmodV2
    BY <1>1, <1>2, <2>1 DEF InsmodV1, RmmodV1, RmmodV2
  <2>2. CASE InsmodV2
    BY <2>2 DEF InsmodV2, IInv, Shape, Nothing, OneAtATime, AtWork
  <2> QED
    BY <1>5, <2>1, <2>2 DEF Load
<1>6. CASE AllocWorkqueue
  BY <1>4, <1>2, <1>6 DEF AllocWorkqueue, IInv, Shape, Rising
<1>7. CASE CancelWork
  BY <1>1, <1>4, <1>7 DEF CancelWork
<1>8. CASE SetupV1 \/ CleanupV1 \/ SetupV2 \/ CleanupV2
  <2>1. CASE UNCHANGED <<driver, work>>
    BY <1>1, <2>1
  <2>2. CASE GoneV1 \/ GoneV2
    BY <1>2, <2>2 DEF GoneV1, GoneV2
  <2> QED
    BY <1>6, <1>7, <1>8, <2>1, <2>2
       DEF SetupV1, InitMapping, OpenBackingFile, AllocMaps, AllocBitmap,
           RegisterBlockdev, InitTagSet, SetupDisk, AddDisk,
           CleanupV1, ClearDisk, FreeTagSet, UnregisterBlockdev,
           DestroyWorkqueue, FreeContext, CleanupInInit,
           SetupV2, SetupCommon, SetupStorage, WriteAccess, SetupSlotManager,
           RegisterDevice, AllocTagset, CreateDisk,
           CleanupV2, TeardownDisk, TeardownSlotManager, CloseStorage,
           TruncateStorage, RemoveDebugfs, DestroyWq
<1>9. CASE Extend
  <2>1. CASE ExtendV1
    BY <1>2, <2>1 DEF ExtendV1
  <2>2. CASE ExtendV2
    BY <1>1, <1>3, <1>4, <2>2 DEF ExtendV2
  <2>3. CASE ExtendDone
    BY <1>1, <1>4, <2>3 DEF ExtendDone
  <2> QED
    BY <1>9, <2>1, <2>2, <2>3 DEF Extend
<1>10. CASE Read
  BY <1>1, <1>10 DEF Read, ReadCheck, ReadSize, ReadStale
<1>11. CASE Reboot
  BY <1>2, <1>11 DEF Reboot
<1>12. ASSUME NEW t \in Tag, Submit(t) \/ InsertV2(t) \/ Return(t)
       PROVE  OneAtATime'
  BY <1>1, <1>4, <1>12 DEF Submit, InsertV2, Return
<1>13. ASSUME NEW t \in Tag, ServeV1(t)
       PROVE  OneAtATime'
  BY <1>2, <1>13 DEF ServeV1
<1>14. ASSUME NEW t \in Tag, ServeV2(t)
       PROVE  OneAtATime'
  <2>1. PICK ext \in {work["extend"], "queued"} :
            work' = [work EXCEPT ![t] = "ended", !["extend"] = ext]
    BY <1>14 DEF ServeV2
  <2>2. \A x \in Work : x # t => work'[x] = work[x] \/ work'[x] = "queued"
    BY <1>4, <2>1
  <2> QED
    BY <1>3, <1>14, <2>2 DEF ServeV2
<1> QED
  BY <1>5, <1>8, <1>9, <1>10, <1>11, <1>12, <1>13, <1>14 DEF Next, Steps, Serve

(* A step computes sizes as numbers.                                       *)
LEMMA SizesOKKept == ASSUME IInv, Next PROVE SizesOK'
<1>1. CASE Load
  BY <1>1, SizesNat, SMTT(60)
     DEF IInv, SizesOK, TypeOK, Shape, Nothing,
         Load, InsmodV1, InsmodV2, RmmodV1, RmmodV2
<1>2. CASE SetupV1
  <2>1. CASE AllocMaps
    BY <2>1, SizesNat DEF IInv, TypeOK, SizesOK, AllocMaps
  <2>2. CASE SetupDisk
    BY <2>2, SizesNat DEF IInv, TypeOK, SizesOK, SetupDisk
  <2>3. CASE InitMapping \/ OpenBackingFile \/ AllocBitmap \/ AllocWorkqueue
    BY <2>3
       DEF IInv, TypeOK, SizesOK, InitMapping, OpenBackingFile, AllocBitmap,
           AllocWorkqueue
  <2>4. CASE RegisterBlockdev \/ InitTagSet \/ AddDisk
    BY <2>4 DEF IInv, TypeOK, SizesOK, RegisterBlockdev, InitTagSet, AddDisk
  <2> QED
    BY <1>2, <2>1, <2>2, <2>3, <2>4 DEF SetupV1
<1>3. CASE CleanupV1
  BY <1>3, SizesNat, SMTT(60)
     DEF IInv, SizesOK, TypeOK, Shape, Nothing,
         CleanupV1, ClearDisk, FreeTagSet, UnregisterBlockdev, CancelWork,
         DestroyWorkqueue, FreeContext, CleanupInInit, GoneV1
<1>4. CASE SetupV2
  <2>1. CASE SetupSlotManager
    BY <2>1, SizesNat DEF IInv, TypeOK, SizesOK, SetupSlotManager
  <2>2. CASE CreateDisk
    BY <2>2, SizesNat DEF IInv, TypeOK, SizesOK, Shape, Rising, CreateDisk
  <2>3. CASE SetupCommon \/ SetupStorage \/ WriteAccess
    BY <2>3 DEF IInv, TypeOK, SizesOK, SetupCommon, SetupStorage, WriteAccess
  <2>4. CASE RegisterDevice \/ AllocTagset
    BY <2>4 DEF IInv, TypeOK, SizesOK, RegisterDevice, AllocTagset
  <2> QED
    BY <1>4, <2>1, <2>2, <2>3, <2>4 DEF SetupV2
<1>5. CASE CleanupV2
  BY <1>5, SizesNat, SMTT(60)
     DEF IInv, SizesOK, TypeOK, Shape, Nothing,
         CleanupV2, TeardownDisk, TeardownSlotManager, CloseStorage,
         TruncateStorage, RemoveDebugfs, DestroyWq, GoneV2
<1>6. CASE Extend
  BY <1>6, SizesNat, SMTT(60)
     DEF IInv, SizesOK, TypeOK, Shape, Nothing,
         Extend, ExtendV1, ExtendV2, ExtendDone, WorkerFree
<1>7. CASE Read
  BY <1>7, SizesNat, SMTT(60)
     DEF IInv, SizesOK, TypeOK, Shape, Nothing,
         Read, ReadCheck, ReadSize, ReadStale
<1>8. CASE Reboot
  BY <1>8, SizesNat, SMTT(60)
     DEF IInv, SizesOK, TypeOK, Shape, Nothing,
         Reboot
<1>9. ASSUME NEW t \in Tag, Submit(t) \/ Serve(t)
     PROVE  SizesOK'
  BY <1>9, SizesNat, SMTT(60)
     DEF IInv, SizesOK, TypeOK, Shape, Nothing,
         Submit, Serve, ServeV1, ServeV2, InsertV2, Return, WorkerFree
<1> QED
  BY <1>1, <1>2, <1>3, <1>4, <1>5, <1>6, <1>7, <1>8, <1>9 DEF Next, Steps

(* Each step takes or releases what its label says: one case for each      *)
(* function, those whose outcome is not the label alone in cases of their  *)
(* own.                                                                    *)
LEMMA ShapeKept == ASSUME IInv, Next PROVE Shape'
<1>1. CASE Load
  BY <1>1, SMTT(60)
     DEF IInv, Shape, Nothing, Rising, Up, Sound1, Falling1, Falling2, Up1, Up2,
         Load, InsmodV1, InsmodV2, RmmodV1, RmmodV2
<1>2. CASE SetupV1
  <2>1. CASE AllocMaps /\ pc' = "slot_bitmap"
    BY <2>1, SMTT(60)
       DEF IInv, Shape, Nothing, Rising, Up, Sound1, Falling1, Falling2, Up1,
           Up2, AllocMaps
  <2>2. CASE AllocMaps /\ pc' = "fail"
    <3>1. PICK got \in SUBSET Maps : ptr' = ptr \cup got /\ held' = held \cup got
      BY <2>2 DEF AllocMaps
    <3>2. held' = {"backing_file"} \cup got /\ ptr' = held'
      BY <2>2, <3>1 DEF IInv, Shape, Rising, AllocMaps
    <3> QED
      BY <2>2, <3>1, <3>2, SMTT(60)
         DEF IInv, Shape, Nothing, Rising, Up, Sound1, Falling1, Falling2, Up1,
             Up2, AllocMaps
  <2>3. CASE InitMapping \/ OpenBackingFile \/ AllocBitmap \/ AllocWorkqueue
    BY <2>3, SMTT(60)
       DEF IInv, Shape, Nothing, Rising, Up, Sound1, Falling1, Falling2, Up1, Up2,
       InitMapping, OpenBackingFile, AllocBitmap, AllocWorkqueue
  <2>4. CASE RegisterBlockdev \/ InitTagSet \/ SetupDisk \/ AddDisk
    BY <2>4, SMTT(60)
       DEF IInv, Shape, Nothing, Rising, Up, Sound1, Falling1, Falling2, Up1, Up2,
       RegisterBlockdev, InitTagSet, SetupDisk, AddDisk
  <2> QED
    BY <1>2, <2>1, <2>2, <2>3, <2>4 DEF SetupV1, AllocMaps
<1>3. CASE CleanupV1
  BY <1>3, SMTT(60)
     DEF IInv, Shape, Nothing, Rising, Up, Sound1, Falling1, Falling2, Up1, Up2,
         CleanupV1, ClearDisk, FreeTagSet, UnregisterBlockdev, CancelWork,
         DestroyWorkqueue, FreeContext, CleanupInInit, GoneV1
<1>4. CASE SetupV2
  <2>1. CASE SetupCommon /\ pc' = "setup_storage"
    <3>1. PICK dir \in SUBSET ({"debugfs"} \ left) :
             held' = held \cup {"wq"} \cup dir /\ ptr' = ptr \cup {"wq"} \cup dir
      BY <2>1 DEF SetupCommon
    <3>2. held' \ Maybe = {"wq"} /\ ptr' \ Maybe = {"wq"}
      BY <2>1, <3>1 DEF IInv, Shape, Rising, SetupCommon
    <3> QED
      BY <2>1, <3>1, <3>2, SMTT(60)
         DEF IInv, Shape, Nothing, Rising, Up, Sound1, Falling1, Falling2, Up1,
             Up2, SetupCommon
  <2>2. CASE SetupSlotManager /\ pc' = "register_device"
    <3>1. PICK cache \in SUBSET {"entry_cache"} :
             /\ held' = held \cup cache \cup {"slot_bitmap"}
             /\ ptr' = ptr \cup cache \cup {"slot_bitmap"}
      BY <2>2 DEF SetupSlotManager
    <3>2. held' \ Maybe = Base2 /\ ptr' \ Maybe = Base2
      BY <2>2, <3>1 DEF IInv, Shape, Rising, SetupSlotManager
    <3> QED
      BY <2>2, <3>1, <3>2, SMTT(60)
         DEF IInv, Shape, Nothing, Rising, Up, Sound1, Falling1, Falling2, Up1,
             Up2, SetupSlotManager
  <2>3. CASE \/ SetupCommon /\ pc' # "setup_storage"
             \/ SetupSlotManager /\ pc' # "register_device"
    BY <2>3, SMTT(60)
       DEF IInv, Shape, Nothing, Rising, Up, Sound1, Falling1, Falling2, Up1,
           Up2, SetupCommon, SetupSlotManager
  <2>4. CASE SetupStorage \/ WriteAccess \/ RegisterDevice
    BY <2>4, SMTT(60)
       DEF IInv, Shape, Nothing, Rising, Up, Sound1, Falling1, Falling2, Up1, Up2,
       SetupStorage, WriteAccess, RegisterDevice
  <2>5. CASE AllocTagset \/ CreateDisk
    BY <2>5, SMTT(60)
       DEF IInv, Shape, Nothing, Rising, Up, Sound1, Falling1, Falling2, Up1,
           Up2, AllocTagset, CreateDisk
  <2> QED
    BY <1>4, <2>1, <2>2, <2>3, <2>4, <2>5 DEF SetupV2
<1>5. CASE CleanupV2
  BY <1>5, SMTT(60)
     DEF IInv, Shape, Nothing, Rising, Up, Sound1, Falling1, Falling2, Up1, Up2,
         CleanupV2, TeardownDisk, TeardownSlotManager, CloseStorage,
         TruncateStorage, RemoveDebugfs, DestroyWq, GoneV2
<1>6. CASE Extend
  BY <1>6, SMTT(60)
     DEF IInv, Shape, Nothing, Rising, Up, Sound1, Falling1, Falling2, Up1, Up2,
         Extend, ExtendV1, ExtendV2, ExtendDone, WorkerFree
<1>7. CASE Read
  BY <1>7, SMTT(60)
     DEF IInv, Shape, Nothing, Rising, Up, Sound1, Falling1, Falling2, Up1, Up2,
         Read, ReadCheck, ReadSize, ReadStale
<1>8. CASE Reboot
  BY <1>8, SMTT(60)
     DEF IInv, Shape, Nothing, Rising, Up, Sound1, Falling1, Falling2, Up1, Up2,
         Reboot
<1>9. ASSUME NEW t \in Tag, Submit(t) \/ Serve(t)
     PROVE  Shape'
  BY <1>9, SMTT(60)
     DEF IInv, Shape, Nothing, Rising, Up, Sound1, Falling1, Falling2, Up1, Up2,
         Submit, Serve, ServeV1, ServeV2, InsertV2, Return, WorkerFree
<1> QED
  BY <1>1, <1>2, <1>3, <1>4, <1>5, <1>6, <1>7, <1>8, <1>9 DEF Next, Steps

(* No step of a load or unload passes work that needs what it releases.    *)
LEMMA BusyKept == ASSUME IInv, Next PROVE Busy'
<1>1. CASE Load
  BY <1>1, ModuleLoadAssumption, SMTT(60)
     DEF IInv, Busy, Shape, TypeOK, WorkOK, Nothing, Rising, Up, Sound1,
         Falling1, Falling2, Up1, Up2,
         Load, InsmodV1, InsmodV2, RmmodV1, RmmodV2
<1>2. CASE SetupV1
  BY <1>2, ModuleLoadAssumption, SMTT(60)
     DEF IInv, Busy, Shape, TypeOK, WorkOK, Nothing, Rising, Up, Sound1,
         Falling1, Falling2, Up1, Up2,
         SetupV1, InitMapping, OpenBackingFile, AllocMaps, AllocBitmap,
         AllocWorkqueue, RegisterBlockdev, InitTagSet, SetupDisk, AddDisk
<1>3. CASE CleanupV1
  BY <1>3, ModuleLoadAssumption, SMTT(60)
     DEF IInv, Busy, Shape, TypeOK, WorkOK, Nothing, Rising, Up, Sound1,
         Falling1, Falling2, Up1, Up2,
         CleanupV1, ClearDisk, FreeTagSet, UnregisterBlockdev, CancelWork,
         DestroyWorkqueue, FreeContext, CleanupInInit, GoneV1
<1>4. CASE SetupV2
  BY <1>4, ModuleLoadAssumption, SMTT(60)
     DEF IInv, Busy, Shape, TypeOK, WorkOK, Nothing, Rising, Up, Sound1,
         Falling1, Falling2, Up1, Up2,
         SetupV2, SetupCommon, SetupStorage, WriteAccess, SetupSlotManager,
         RegisterDevice, AllocTagset, CreateDisk
<1>5. CASE CleanupV2
  BY <1>5, ModuleLoadAssumption, SMTT(60)
     DEF IInv, Busy, Shape, TypeOK, WorkOK, Nothing, Rising, Up, Sound1,
         Falling1, Falling2, Up1, Up2,
         CleanupV2, TeardownDisk, TeardownSlotManager, CloseStorage,
         TruncateStorage, RemoveDebugfs, DestroyWq, GoneV2
<1>6. CASE Extend
  BY <1>6, ModuleLoadAssumption, SMTT(60)
     DEF IInv, Busy, Shape, TypeOK, WorkOK, Nothing, Rising, Up, Sound1,
         Falling1, Falling2, Up1, Up2,
         Extend, ExtendV1, ExtendV2, ExtendDone, WorkerFree
<1>7. CASE Read
  BY <1>7, ModuleLoadAssumption, SMTT(60)
     DEF IInv, Busy, Shape, TypeOK, WorkOK, Nothing, Rising, Up, Sound1,
         Falling1, Falling2, Up1, Up2,
         Read, ReadCheck, ReadSize, ReadStale
<1>8. CASE Reboot
  BY <1>8, ModuleLoadAssumption, SMTT(60)
     DEF IInv, Busy, Shape, TypeOK, WorkOK, Nothing, Rising, Up, Sound1,
         Falling1, Falling2, Up1, Up2,
         Reboot
<1>9. ASSUME NEW t \in Tag, Submit(t) \/ Serve(t)
     PROVE  Busy'
  BY <1>9, ModuleLoadAssumption, SMTT(60)
     DEF IInv, Busy, Shape, TypeOK, WorkOK, Nothing, Rising, Up, Sound1,
         Falling1, Falling2, Up1, Up2,
         Submit, Serve, ServeV1, ServeV2, InsertV2, Return, WorkerFree
<1> QED
  BY <1>1, <1>2, <1>3, <1>4, <1>5, <1>6, <1>7, <1>8, <1>9 DEF Next, Steps

(* Sizes change only where they are computed, and gb not at all.           *)
LEMMA MeasuredKept == ASSUME IInv, Next PROVE Measured'
<1>1. CASE Load
  BY <1>1, SMTT(60)
     DEF IInv, Measured, DirCount, TotalCapacity, Sectors, Shape, Nothing,
         Rising, Up, Sound1, Falling1, Falling2, Up1, Up2,
         Load, InsmodV1, InsmodV2, RmmodV1, RmmodV2
<1>2. CASE SetupV1
  BY <1>2, SMTT(60)
     DEF IInv, Measured, DirCount, TotalCapacity, Sectors, Shape, Nothing,
         Rising, Up, Sound1, Falling1, Falling2, Up1, Up2,
         SetupV1, InitMapping, OpenBackingFile, AllocMaps, AllocBitmap,
         AllocWorkqueue, RegisterBlockdev, InitTagSet, SetupDisk, AddDisk
<1>3. CASE CleanupV1
  BY <1>3, SMTT(60)
     DEF IInv, Measured, DirCount, TotalCapacity, Sectors, Shape, Nothing,
         Rising, Up, Sound1, Falling1, Falling2, Up1, Up2,
         CleanupV1, ClearDisk, FreeTagSet, UnregisterBlockdev, CancelWork,
         DestroyWorkqueue, FreeContext, CleanupInInit, GoneV1
<1>4. CASE SetupV2
  BY <1>4, SMTT(60)
     DEF IInv, Measured, DirCount, TotalCapacity, Sectors, Shape, Nothing,
         Rising, Up, Sound1, Falling1, Falling2, Up1, Up2,
         SetupV2, SetupCommon, SetupStorage, WriteAccess, SetupSlotManager,
         RegisterDevice, AllocTagset, CreateDisk
<1>5. CASE CleanupV2
  BY <1>5, SMTT(60)
     DEF IInv, Measured, DirCount, TotalCapacity, Sectors, Shape, Nothing,
         Rising, Up, Sound1, Falling1, Falling2, Up1, Up2,
         CleanupV2, TeardownDisk, TeardownSlotManager, CloseStorage,
         TruncateStorage, RemoveDebugfs, DestroyWq, GoneV2
<1>6. CASE Extend
  BY <1>6, SMTT(60)
     DEF IInv, Measured, DirCount, TotalCapacity, Sectors, Shape, Nothing,
         Rising, Up, Sound1, Falling1, Falling2, Up1, Up2,
         Extend, ExtendV1, ExtendV2, ExtendDone, WorkerFree
<1>7. CASE Read
  BY <1>7, SMTT(60)
     DEF IInv, Measured, DirCount, TotalCapacity, Sectors, Shape, Nothing,
         Rising, Up, Sound1, Falling1, Falling2, Up1, Up2,
         Read, ReadCheck, ReadSize, ReadStale
<1>8. CASE Reboot
  BY <1>8, SMTT(60)
     DEF IInv, Measured, DirCount, TotalCapacity, Sectors, Shape, Nothing,
         Rising, Up, Sound1, Falling1, Falling2, Up1, Up2,
         Reboot
<1>9. ASSUME NEW t \in Tag, Submit(t) \/ Serve(t)
     PROVE  Measured'
  BY <1>9, SMTT(60)
     DEF IInv, Measured, DirCount, TotalCapacity, Sectors, Shape, Nothing,
         Rising, Up, Sound1, Falling1, Falling2, Up1, Up2,
         Submit, Serve, ServeV1, ServeV2, InsertV2, Return, WorkerFree
<1> QED
  BY <1>1, <1>2, <1>3, <1>4, <1>5, <1>6, <1>7, <1>8, <1>9 DEF Next, Steps

(* A step that releases or uses what is not held is one that is named.     *)
LEMMA MisuseOnlyKept == ASSUME IInv, Next PROVE MisuseOnly'
<1>1. CASE Load
  BY <1>1, SMTT(60)
     DEF IInv, MisuseOnly, Misused, Busy, Shape, Nothing, Rising, Up, Sound1,
         Falling1, Falling2, Up1, Up2,
         Load, InsmodV1, InsmodV2, RmmodV1, RmmodV2
<1>2. CASE SetupV1
  BY <1>2, SMTT(60)
     DEF IInv, MisuseOnly, Misused, Busy, Shape, Nothing, Rising, Up, Sound1,
         Falling1, Falling2, Up1, Up2,
         SetupV1, InitMapping, OpenBackingFile, AllocMaps, AllocBitmap,
         AllocWorkqueue, RegisterBlockdev, InitTagSet, SetupDisk, AddDisk
<1>3. CASE CleanupV1
  BY <1>3, SMTT(60)
     DEF IInv, MisuseOnly, Misused, Busy, Shape, Nothing, Rising, Up, Sound1,
         Falling1, Falling2, Up1, Up2,
         CleanupV1, ClearDisk, FreeTagSet, UnregisterBlockdev, CancelWork,
         DestroyWorkqueue, FreeContext, CleanupInInit, GoneV1
<1>4. CASE SetupV2
  BY <1>4, SMTT(60)
     DEF IInv, MisuseOnly, Misused, Busy, Shape, Nothing, Rising, Up, Sound1,
         Falling1, Falling2, Up1, Up2,
         SetupV2, SetupCommon, SetupStorage, WriteAccess, SetupSlotManager,
         RegisterDevice, AllocTagset, CreateDisk
<1>5. CASE CleanupV2
  <2>1. CASE TeardownDisk \/ TeardownSlotManager \/ CloseStorage
    BY <2>1, SMTT(60)
       DEF IInv, MisuseOnly, Misused, Shape, Nothing, Rising, Up, Sound1,
           Falling1, Falling2, Up1, Up2,
       TeardownDisk, TeardownSlotManager, CloseStorage
  <2>2. CASE TruncateStorage
    BY <2>2, SMTT(60)
       DEF IInv, MisuseOnly, Misused, Shape, Nothing, Rising, Up, Sound1,
           Falling1, Falling2, Up1, Up2, TruncateStorage
  <2>3. CASE RemoveDebugfs
    BY <2>3, SMTT(60)
       DEF IInv, MisuseOnly, Misused, Shape, Nothing, Rising, Up, Sound1,
           Falling1, Falling2, Up1, Up2, RemoveDebugfs
  <2>4. CASE DestroyWq
    BY <2>4, SMTT(60)
       DEF IInv, MisuseOnly, Misused, Shape, Nothing, Rising, Up, Sound1,
           Falling1, Falling2, Up1, Up2, DestroyWq
  <2>5. CASE GoneV2
    BY <2>5, SMTT(60)
       DEF IInv, MisuseOnly, Misused, Shape, Busy, Nothing, Rising, Up, Sound1,
           Falling1, Falling2, Up1, Up2, GoneV2
  <2> QED
    BY <1>5, <2>1, <2>2, <2>3, <2>4, <2>5 DEF CleanupV2
<1>6. CASE Extend
  BY <1>6, SMTT(60)
     DEF IInv, MisuseOnly, Misused, Busy, Shape, Nothing, Rising, Up, Sound1,
         Falling1, Falling2, Up1, Up2,
         Extend, ExtendV1, ExtendV2, ExtendDone, WorkerFree
<1>7. CASE Read
  BY <1>7, SMTT(60)
     DEF IInv, MisuseOnly, Misused, Busy, Shape, Nothing, Rising, Up, Sound1,
         Falling1, Falling2, Up1, Up2,
         Read, ReadCheck, ReadSize, ReadStale
<1>8. CASE Reboot
  BY <1>8, SMTT(60)
     DEF IInv, MisuseOnly, Misused, Busy, Shape, Nothing, Rising, Up, Sound1,
         Falling1, Falling2, Up1, Up2,
         Reboot
<1>9. ASSUME NEW t \in Tag, Submit(t) \/ Serve(t)
     PROVE  MisuseOnly'
  BY <1>9, SMTT(60)
     DEF IInv, MisuseOnly, Misused, Busy, Shape, Nothing, Rising, Up, Sound1,
         Falling1, Falling2, Up1, Up2,
         Submit, Serve, ServeV1, ServeV2, InsertV2, Return, WorkerFree
<1> QED
  BY <1>1, <1>2, <1>3, <1>4, <1>5, <1>6, <1>7, <1>8, <1>9 DEF Next, Steps

-----------------------------------------------------------------------------
(* A machine without the module satisfies the invariant.                   *)
LEMMA InitOK == Init => IInv
BY ModuleLoadAssumption, SMTT(60)
   DEF Init, NotLoaded, IInv, TypeOK, ControlOK, ResourcesOK, WorkOK, SizesOK,
       OneAtATime, Shape, Nothing, Rising, Up, Sound1, Falling1, Falling2, Busy, Measured,
       MisuseOnly, SetupLabels, CleanupLabels

(* The invariant reads the variables of the specification only.            *)
LEMMA StutterOK == IInv /\ UNCHANGED vars => IInv'
<1> SUFFICES ASSUME IInv, UNCHANGED vars
             PROVE  IInv'
  OBVIOUS
<1>1. TypeOK'
  BY DEF vars, IInv, TypeOK, ControlOK, ResourcesOK, WorkOK, SizesOK, OneAtATime,
     AtWork
<1>2. Shape'
  BY DEF vars, IInv, Shape, Nothing, Rising, Up, Up1, Up2, Sound1, Falling1, Falling2
<1>3. Busy' /\ Measured' /\ MisuseOnly'
  BY DEF vars, IInv, Busy, Measured, MisuseOnly, DirCount, TotalCapacity, Sectors
<1> QED
  BY <1>1, <1>2, <1>3 DEF IInv

(* The inductive invariant holds in every behaviour.                       *)
THEOREM Invariance == Spec => []IInv
<1>1. IInv /\ [Next]_vars => IInv'
  BY StutterOK, ControlOKKept, ResourcesOKKept, WorkOKKept, OneAtATimeKept,
     SizesOKKept, ShapeKept, BusyKept, MeasuredKept, MisuseOnlyKept
     DEF IInv, TypeOK
<1> QED
  BY InitOK, <1>1, PTL DEF Spec

(* Every variable keeps its type, and the workqueue of the second driver   *)
(* runs one item at a time.                                                *)
THEOREM TypeCorrect == Spec => []TypeOK
<1>1. IInv => TypeOK
  BY DEF IInv
<1> QED
  BY Invariance, <1>1, PTL

(* Nothing is released twice or used after its release but what MisuseOnly *)
(* names, whichever call fails and whatever runs around the unload.        *)
THEOREM MisuseNamed == Spec => []MisuseOnly
<1>1. IInv => MisuseOnly
  BY DEF IInv
<1> QED
  BY Invariance, <1>1, PTL

(* No step of an unload takes away what a request in flight works on, nor  *)
(* the file under an extension of the first driver.                        *)
THEOREM WorkKeepsContext == Spec => []WorkHasContext
<1>1. IInv => WorkHasContext
  BY DEF IInv, Shape, Up, Up1, Up2, Busy, WorkHasContext
<1> QED
  BY Invariance, <1>1, PTL

(* The first driver is loaded with all it needs, or not at all; the second *)
(* may be without its disk, and then with no part of one that is live.     *)
THEOREM LoadIsWhole == Spec => []LoadedIsWhole
<1>1. IInv => LoadedIsWhole
  BY DEF IInv, Shape, Up, Up1, Up2, LoadedIsWhole
<1> QED
  BY Invariance, <1>1, PTL

(* A module that goes leaves nothing behind but what LeaksOnly names.      *)
THEOREM LeaksNamed == Spec => LeaksOnly
<1>1. IInv /\ [Next]_vars =>
        [driver # "none" /\ pc # "wedged" /\ driver' = "none" =>
           \A r \in held :
              /\ driver = "v2"
              /\ \/ r = "entry_cache"
                 \/ r = "disk" /\ failed = "add_disk"
                 \/ r \in {"wq", "debugfs"}
                    /\ failed \in SetupContextFault]_vars
  <2> SUFFICES ASSUME IInv, Next, driver # "none", pc # "wedged", driver' = "none",
                      NEW r \in held
               PROVE  /\ driver = "v2"
                      /\ \/ r = "entry_cache"
                         \/ r = "disk" /\ failed = "add_disk"
                         \/ r \in {"wq", "debugfs"} /\ failed \in SetupContextFault
    OBVIOUS
  <2>1. pc = "gone"
    <3>1. CASE Load
      BY <3>1 DEF Load, InsmodV1, InsmodV2, RmmodV1, RmmodV2
    <3>2. CASE SetupV1 \/ SetupV2
      BY <3>2 DEF SetupV1, InitMapping, OpenBackingFile, AllocMaps, AllocBitmap,
         AllocWorkqueue, RegisterBlockdev, InitTagSet, SetupDisk, AddDisk,
         SetupV2, SetupCommon, SetupStorage, WriteAccess, SetupSlotManager,
         RegisterDevice, AllocTagset, CreateDisk
    <3>3. CASE CleanupV1
      BY <3>3 DEF CleanupV1, ClearDisk, FreeTagSet, UnregisterBlockdev, CancelWork,
         DestroyWorkqueue, FreeContext, CleanupInInit, GoneV1
    <3>4. CASE CleanupV2
      BY <3>4 DEF CleanupV2, TeardownDisk, TeardownSlotManager, CloseStorage,
         TruncateStorage, RemoveDebugfs, DestroyWq, GoneV2
    <3>5. CASE Extend \/ Read \/ Reboot
      BY <3>5 DEF Extend, ExtendV1, ExtendV2, ExtendDone, Read, ReadCheck, ReadSize,
         ReadStale, Reboot
    <3>6. ASSUME NEW t \in Tag, Submit(t) \/ Serve(t)
          PROVE  FALSE
      BY <3>6 DEF Submit, Serve, ServeV1, ServeV2, InsertV2, Return
    <3> QED
      BY <3>1, <3>2, <3>3, <3>4, <3>5, <3>6 DEF Next, Steps
  <2>2. driver \in {"v1", "v2"}
    BY DEF IInv, TypeOK, ControlOK
  <2> QED
    BY <2>1, <2>2 DEF IInv, Shape, Falling1, Falling2
<1> QED
  BY Invariance, <1>1, PTL DEF Spec, LeaksOnly

-----------------------------------------------------------------------------
(* Sizes.                                                                  *)

(* Rounding down and up to multiples, and the order of products.           *)
LEMMA Arithmetic ==
    ASSUME NEW a \in Nat, NEW b \in Nat, NEW n \in Nat \ {0}
    PROVE  /\ (a \div n) * n <= a /\ a \div n \in Nat
           /\ a <= ((a + n - 1) \div n) * n /\ ((a + n - 1) \div n) * n \in Nat
           /\ a <= b => a * n <= b * n
           /\ a % n = 0 => (a \div n) * n = a
           /\ a % n <= a /\ a % n \in Nat
           /\ (a * n) \div n = a
           /\ a * b \in Nat
<1>1. (a \div n) * n <= a /\ a \div n \in Nat
  OBVIOUS
<1>2. a <= ((a + n - 1) \div n) * n /\ ((a + n - 1) \div n) * n \in Nat
  OBVIOUS
<1>3. a <= b => a * n <= b * n
  OBVIOUS
<1>4. a % n = 0 => (a \div n) * n = a
  OBVIOUS
<1>5. a % n <= a /\ a % n \in Nat
  OBVIOUS
<1>6. (a * n) \div n = a
  OBVIOUS
<1>7. a * b \in Nat
  OBVIOUS
<1> QED
  BY <1>1, <1>2, <1>3, <1>4, <1>5, <1>6, <1>7

(* A gigabyte is a whole number of pages, and so are g of them.            *)
LEMMA WholePages ==
    ASSUME NEW g \in Nat
    PROVE  ((g * GB) \div PAGE_SIZE) * PAGE_SIZE = g * GB
<1>1. GB \in Nat /\ PAGE_SIZE \in Nat \ {0} /\ GB % PAGE_SIZE = 0
  BY ModuleLoadAssumption
<1>2. PICK k \in Nat : GB = k * PAGE_SIZE
  BY <1>1, Arithmetic
<1>3. g * GB = (g * k) * PAGE_SIZE
  BY <1>1, <1>2
<1>4. (g * GB) \div PAGE_SIZE = g * k
  BY <1>1, <1>3, Arithmetic
<1> QED
  BY <1>3, <1>4

(* The sectors of the first driver, wrapped around or not, are at most     *)
(* those of the capacity.                                                  *)
LEMMA WrappedFits ==
    ASSUME NEW g \in Nat
    PROVE  ((g * (GB \div SECTOR_SIZE)) % Word) * SECTOR_SIZE <= g * GB
<1>1. GB \in Nat /\ SECTOR_SIZE \in Nat \ {0} /\ Word \in Nat \ {0}
  BY ModuleLoadAssumption
<1> DEFINE k == GB \div SECTOR_SIZE
<1>2. k \in Nat /\ k * SECTOR_SIZE <= GB
  BY <1>1, Arithmetic
<1> HIDE DEF k
<1>3. g * k \in Nat
  BY <1>2, Arithmetic
<1>4. (g * k) % Word \in Nat /\ (g * k) % Word <= g * k
  BY <1>1, <1>3, Arithmetic
<1>5. ((g * k) % Word) * SECTOR_SIZE <= (g * k) * SECTOR_SIZE
  BY <1>1, <1>3, <1>4, Arithmetic
<1>6. (g * k) * SECTOR_SIZE = g * (k * SECTOR_SIZE)
  BY <1>1, <1>2
<1>7. g * (k * SECTOR_SIZE) <= g * GB
  <2>1. \A x, y \in Nat : x <= y => g * x <= g * y
    OBVIOUS
  <2>2. k * SECTOR_SIZE \in Nat
    BY <1>1, <1>2, Arithmetic
  <2> QED
    BY <1>1, <1>2, <2>1, <2>2
<1>8. ((g * k) % Word) * SECTOR_SIZE \in Int /\ (g * k) * SECTOR_SIZE \in Int
      /\ g * (k * SECTOR_SIZE) \in Int /\ g * GB \in Int
  BY <1>1, <1>2, <1>3, <1>4
<1>9. ((g * k) % Word) * SECTOR_SIZE <= g * GB
  BY <1>5, <1>6, <1>7, <1>8
<1> QED
  BY <1>9 DEF k

(* Every sector of a disk has its place in the tables, for every capacity: *)
(* a size that wraps around in 32 bits loses room, it never runs past the  *)
(* tables.                                                                 *)
THEOREM SectorsAreMapped == Spec => []EverySectorMapped
<1>1. IInv => EverySectorMapped
  <2> SUFFICES ASSUME IInv, "live" \in held
               PROVE  capacity * SECTOR_SIZE <= pages * PAGE_SIZE
    BY DEF EverySectorMapped
  <2>1. gb \in Nat
    BY ModuleLoadAssumption DEF IInv, TypeOK, ControlOK
  <2>2. /\ GB \in Nat /\ PAGE_SIZE \in Nat \ {0} /\ SECTOR_SIZE \in Nat \ {0}
        /\ EntriesPerPage \in Nat \ {0} /\ Word \in Nat \ {0}
    BY ModuleLoadAssumption
  <2> DEFINE total == (gb * GB) \div PAGE_SIZE
  <2>3. gb * GB \in Nat /\ total \in Nat /\ total * PAGE_SIZE = gb * GB
    BY <2>1, <2>2, WholePages, Arithmetic
  <2>4. CASE driver = "v1"
    <3>1. pages = ((total + EntriesPerPage - 1) \div EntriesPerPage) * EntriesPerPage
      BY <2>4 DEF IInv, Measured, DirCount, TotalCapacity
    <3>2. capacity * SECTOR_SIZE <= gb * GB
      BY <2>1, <2>4, WrappedFits DEF IInv, Measured, Sectors
    <3> HIDE DEF total
    <3>3. pages \in Nat /\ total <= pages
      BY <2>2, <2>3, <3>1, Arithmetic
    <3>4. total * PAGE_SIZE <= pages * PAGE_SIZE
      BY <2>2, <2>3, <3>3, Arithmetic
    <3>5. capacity * SECTOR_SIZE \in Int /\ pages * PAGE_SIZE \in Int
      BY <2>2, <3>3 DEF IInv, TypeOK, SizesOK
    <3> QED
      BY <2>3, <3>2, <3>4, <3>5
  <2>5. CASE driver = "v2"
    <3>1. pages = total /\ capacity = (gb * GB) \div SECTOR_SIZE
      BY <2>5 DEF IInv, Measured
    <3>2. capacity * SECTOR_SIZE <= gb * GB
      BY <2>2, <2>3, <3>1, Arithmetic
    <3> QED
      BY <2>3, <3>1, <3>2
  <2> QED
    BY <2>4, <2>5 DEF IInv, Measured
<1> QED
  BY Invariance, <1>1, PTL
=============================================================================
