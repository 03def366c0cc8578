----------------------------- MODULE DriverLoad -----------------------------
(***************************************************************************)
(* A machine on which either version of the driver is loaded, used and     *)
(* unloaded, again and again.                                              *)
(***************************************************************************)
EXTENDS DynaSwapLoad, DynaSwapV2Load

Load == InsmodV1 \/ InsmodV2 \/ RmmodV1 \/ RmmodV2
Steps == SetupV1 \/ SetupV2 \/ CleanupV1 \/ CleanupV2
Serve(t) == ServeV1(t) \/ ServeV2(t) \/ InsertV2(t) \/ Return(t)
Extend == ExtendV1 \/ ExtendV2 \/ ExtendDone
Read == ReadCheck \/ ReadSize \/ ReadStale

Next == \/ Load \/ Steps \/ Extend \/ Read \/ Reboot
        \/ \E t \in Tag : Submit(t) \/ Serve(t)

Spec == Init /\ [][Next]_vars

(* A function that was called goes on, and so does work once it is queued  *)
(* and a reader once it has begun.                                         *)
LiveSpec ==
    /\ Spec
    /\ WF_vars(Steps) /\ WF_vars(Extend) /\ WF_vars(ReadSize)
    /\ \A t \in Tag : WF_vars(Serve(t))

-----------------------------------------------------------------------------
(* Properties.                                                             *)

SetupLabels == {"init_mapping", "filp_open", "maps", "slot_bitmap", "wq",
                "register_blockdev", "init_tag_set", "setup_disk", "add_disk",
                "setup_common", "setup_storage", "write_access",
                "setup_slot_manager", "register_device", "alloc_tagset",
                "create_disk"}
CleanupLabels == {"fail", "clear_disk", "free_tag_set", "unregister_blockdev",
                  "cancel_work", "destroy_workqueue", "free_context",
                  "teardown_disk", "teardown_slot_manager", "close_storage",
                  "truncate_storage", "teardown_common", "destroy_wq", "gone"}
Disk == {"major", "tag_set", "disk"}
Resource == Context \cup Disk
            \cup {"live", "debugfs", "write_access", "entry_cache"}

ControlOK ==
    /\ driver \in {"none", "v1", "v2"}
    /\ pc \in SetupLabels \cup CleanupLabels \cup {"none", "loaded", "wedged"}
    /\ failed \in Fault \cup {"none"} /\ gb \in CapacityGb \cup {0}

ResourcesOK ==
    /\ held \subseteq Resource /\ left \subseteq Resource
    /\ ptr \subseteq Resource \cup {"extend_work"}

WorkOK ==
    /\ work \in [Work -> {"idle", "queued", "running", "ended"}]
    /\ reader \in {"none", "checked"}

AtWork(w) == work[w] \in {"running", "ended"}

OneAtATime == driver = "v2" => \A w, x \in Work : AtWork(w) /\ AtWork(x) => w = x

SizesOK == pages \in Nat /\ capacity \in Nat

(* The variables have their types, and of what the second driver queues    *)
(* one item runs at a time.                                                *)
TypeOK == ControlOK /\ ResourcesOK /\ WorkOK /\ OneAtATime /\ SizesOK

(* What a version leaves behind when it goes, whichever call has failed:   *)
(* the first nothing; the second its cache, a disk that was not added, and *)
(* the workqueue and debugfs when setup_context fails.                     *)
LeaksOnly ==
    [][driver # "none" /\ pc # "wedged" /\ driver' = "none" =>
           \A r \in held :
              /\ driver = "v2"
              /\ \/ r = "entry_cache"
                 \/ r = "disk" /\ failed = "add_disk"
                 \/ r \in {"wq", "debugfs"}
                    /\ failed \in SetupContextFault]_vars

(* The only things that are released twice, or used when they are gone.    *)
(* First driver: the backing file when dynamap_init fails, a disk that was *)
(* not added, and the code of a handler that has yet to return.  Second:   *)
(* the file by vfs_truncate, a late extension or a reader; a cache that    *)
(* could not be made; and, after a failed setup_context, debugfs.          *)
MisuseOnly ==
    \A m \in misuse :
       \/ /\ m[1] = "v1"
          /\ \/ m[3] = "backing_file" /\ m[2] \in ContextFault \cup {"filp_open"}
             \/ m[3] = "disk" /\ m[2] = "add_disk"
             \/ m[3] = "text" /\ m[2] = "none"
       \/ /\ m[1] = "v2"
          /\ \/ m[3] \in {"f_path", "extend", "inode", "entry_cache"}
             \/ m[3] = "text" /\ m[2] \in SetupContextFault
       \/ m[3] = "stale" /\ "debugfs" \in left

(* Requests in flight, and the extension of the first driver, have what    *)
(* they work on, however far an unload has come.                           *)
WorkHasContext ==
    /\ InFlight # {} /\ driver = "v1" => Context \cup Disk \subseteq held
    /\ InFlight # {} /\ driver = "v2" =>
           {"wq", "backing_file", "slot_bitmap"} \cup Disk \subseteq held
    /\ work["extend"] # "idle" /\ driver = "v1" =>
           {"wq", "backing_file"} \subseteq held

(* A module that counts as loaded has everything.  The second may have no  *)
(* disk, and then nothing of one but a gendisk that nobody put.            *)
LoadedIsWhole ==
    pc = "loaded" =>
       IF driver = "v1" THEN held = Context \cup Disk \cup {"live"}
       ELSE /\ {"wq", "backing_file", "write_access", "slot_bitmap"} \subseteq held
            /\ IF failed = "none" THEN Disk \cup {"live"} \subseteq held
               ELSE /\ failed \in SetupDiskFault
                    /\ {"major", "tag_set", "live"} \cap held = {}

(* Every sector of the disk has its place in the tables, although the two  *)
(* sizes are computed apart, and in different widths.                      *)
EverySectorMapped ==
    "live" \in held => capacity * SECTOR_SIZE <= pages * PAGE_SIZE

(* Stronger, and false of the first driver: a disk has the "logical        *)
(* capacity of /dev/dynaswap in GiB" that its parameter asks for.          *)
CapacityAsAsked == "live" \in held => capacity * SECTOR_SIZE = gb * GB

(* insmod and rmmod return, unless the thread dies.                        *)
LoadReturns ==
    pc \in SetupLabels \cup CleanupLabels ~> pc \in {"none", "loaded", "wedged"}
=============================================================================
