---------------------------- MODULE DynaSwapLoad ----------------------------
(***************************************************************************)
(* Load and unload of the first driver: dynaswap_module_init and _exit of  *)
(* dynaswap_drv.c with dynamap_init and dynamap_cleanup of dynamap.c.  A   *)
(* failure at any point runs the whole of the cleanup, whose functions     *)
(* skip what was not set up.                                               *)
(***************************************************************************)
EXTENDS ModuleLoad

Maps == {"virt_to_phys_map", "phys_to_virt_map"}
Context == Maps \cup {"backing_file", "slot_bitmap", "wq"}

(* The failures inside dynamap_init after the file was opened.             *)
ContextFault == {"maps", "slot_bitmap", "wq"}

-----------------------------------------------------------------------------
(* dynaswap_init_mapping, dynamap_init.                                    *)

InsmodV1 == Insmod("v1", "init_mapping")

InitMapping ==
    /\ pc = "init_mapping"
    /\ \/ Goto("filp_open")
       \/ Fails("path", "clear_disk")
    /\ UNCHANGED <<ptr, held, work, reader, size, left, misuse>>

(* An error pointer stays in backing_file.                                 *)
OpenBackingFile ==
    /\ pc = "filp_open"
    /\ \/ Take({"backing_file"}, "maps")
       \/ /\ Fails("filp_open", "clear_disk")
          /\ ptr' = ptr \cup {"backing_file"}
          /\ UNCHANGED <<held, work, reader, size, left, misuse>>

(* Mutant: without the cast to size_t the product has 32 bits.             *)
TotalCapacityUncast == (gb * GB) % Word

TotalCapacity == gb * GB

DirCount == LET total_pages == TotalCapacity \div PAGE_SIZE
            IN  (total_pages + EntriesPerPage - 1) \div EntriesPerPage

(* Both tables and their leaves; on a failure some of them are there.      *)
AllocMaps ==
    /\ pc = "maps"
    /\ pages' = DirCount * EntriesPerPage
    /\ \/ /\ ptr' = ptr \cup Maps /\ held' = held \cup Maps
          /\ Goto("slot_bitmap")
       \/ \E got \in SUBSET Maps :
             /\ ptr' = ptr \cup got /\ held' = held \cup got
             /\ Fails("maps", "fail")
    /\ UNCHANGED <<work, reader, capacity, left, misuse>>

AllocBitmap ==
    /\ pc = "slot_bitmap"
    /\ Take({"slot_bitmap"}, "wq") \/ FailsToTake("slot_bitmap", "fail")

(* alloc_workqueue, and the first extension is queued.                     *)
AllocWorkqueue ==
    /\ pc = "wq"
    /\ \/ /\ ptr' = ptr \cup {"wq", "extend_work"} /\ held' = held \cup {"wq"}
          /\ work' = [work EXCEPT !["extend"] = "queued"]
          /\ Goto("register_blockdev")
          /\ UNCHANGED <<reader, size, left, misuse>>
       \/ FailsToTake("wq", "fail")

-----------------------------------------------------------------------------
(* The rest of dynaswap_module_init.                                       *)

RegisterBlockdev ==
    /\ pc = "register_blockdev"
    /\ Take({"major"}, "init_tag_set") \/ FailsToTake("major", "clear_disk")

InitTagSet ==
    /\ pc = "init_tag_set"
    /\ Take({"tag_set"}, "setup_disk") \/ FailsToTake("tag_set", "clear_disk")

(* blk_capacity_gb is an unsigned int, and so is the product: it wraps     *)
(* around before it becomes a sector_t.                                    *)
Sectors == (gb * (GB \div SECTOR_SIZE)) % Word

SetupDisk ==
    /\ pc = "setup_disk"
    /\ \/ /\ ptr' = ptr \cup {"disk"} /\ held' = held \cup {"disk"}
          /\ capacity' = Sectors
          /\ Goto("add_disk")
          /\ UNCHANGED <<work, reader, pages, left, misuse>>
       \/ FailsToTake("disk", "clear_disk")

(* Mutant: the status of add_disk is not looked at.                        *)
Undone == "loaded"

InitErr == "clear_disk"

AddDisk ==
    /\ pc = "add_disk"
    /\ \/ /\ held' = held \cup {"live"}
          /\ Goto("loaded")
          /\ UNCHANGED <<ptr, work, reader, size, left, misuse>>
       \/ FailsToTake("add_disk", InitErr)

-----------------------------------------------------------------------------
(* dynaswap_module_exit, and dynaswap_init_err, which does the same.       *)

RmmodV1 == Rmmod("v1", "clear_disk")

(* del_gendisk refuses, with a warning, a disk that was never added; on a  *)
(* live one it waits for the requests in flight, of which there are none.  *)
ClearDisk ==
    /\ pc = "clear_disk"
    /\ held' = held \ ({"live"} \cup (ptr \cap {"disk"}))
    /\ ptr' = ptr \ {"disk"}
    /\ misuse' = misuse \cup Misused((ptr \cap {"disk"})
                                     \ IF "live" \in held THEN {"disk"} ELSE {})
    /\ Goto("free_tag_set")
    /\ UNCHANGED <<work, reader, size, left>>

FreeTagSet ==
    /\ pc = "free_tag_set"
    /\ Release({"tag_set"}, {"tag_set"})
    /\ Goto("unregister_blockdev")
    /\ UNCHANGED <<work, reader, size, left>>

(* Mutants: the failing set-up forgets the mapping; the context is freed   *)
(* before its work is stopped.                                             *)
Forgetful(label) ==
    IF label = "unregister_blockdev" /\ failed # "none" THEN "gone"
    ELSE [unregister_blockdev |-> "cancel_work", cancel_work |-> "destroy_workqueue",
          destroy_workqueue |-> "free_context", free_context |-> "gone"][label]
FreedFirst(label) ==
    [unregister_blockdev |-> "free_context", free_context |-> "cancel_work",
     cancel_work |-> "destroy_workqueue", destroy_workqueue |-> "gone"][label]

(* dynaswap_destroy_mapping, which is dynamap_cleanup.                     *)
After(label) ==
    [unregister_blockdev |-> "cancel_work", cancel_work |-> "destroy_workqueue",
     destroy_workqueue |-> "free_context", free_context |-> "gone"][label]

UnregisterBlockdev ==
    /\ pc = "unregister_blockdev"
    /\ Release({"major"}, {"major"})
    /\ Goto(After("unregister_blockdev"))
    /\ UNCHANGED <<work, reader, size, left>>

(* cancel_work_sync, when the work was initialised.                        *)
CancelWork ==
    /\ pc = "cancel_work"
    /\ "extend_work" \in ptr => work["extend"] # "running"
    /\ work' = IF "extend_work" \in ptr THEN [work EXCEPT !["extend"] = "idle"]
                                        ELSE work
    /\ Goto(After("cancel_work"))
    /\ UNCHANGED <<ptr, held, reader, size, left, misuse>>

(* It would wait for an extension that is queued or runs.                  *)
DestroyWorkqueue ==
    /\ pc = "destroy_workqueue"
    /\ "wq" \in ptr => work["extend"] = "idle"
    /\ Release({"wq"}, {"wq"})
    /\ Goto(After("destroy_workqueue"))
    /\ UNCHANGED <<work, reader, size, left>>

(* Mutant: the bitmap is not set to NULL.                                  *)
NulledMaps == Maps

Nulled == Maps \cup {"slot_bitmap"}

(* backing_file keeps its value, which may also be an error pointer, and   *)
(* that filp_close cannot take.                                            *)
FreeContext ==
    /\ pc = "free_context"
    /\ IF failed = "filp_open"
       THEN Wedged("backing_file")
       ELSE /\ Release(Context, Nulled)
            /\ Goto(After("free_context"))
            /\ UNCHANGED <<work, reader, size, left>>

(* At `fail' dynamap_init calls dynamap_cleanup as well.  The workqueue    *)
(* comes last in the set-up, so there is neither one nor work for it.      *)
CleanupInInit ==
    /\ pc = "fail"
    /\ Release(Context, Nulled)
    /\ Goto(InitErr)
    /\ UNCHANGED <<work, reader, size, left>>

GoneV1 == driver = "v1" /\ pc = "gone" /\ Gone

-----------------------------------------------------------------------------
(* The extension runs on dynamap_wq, each request on the system workqueue, *)
(* which nothing waits for at the end.                                     *)
ExtendV1 ==
    /\ driver = "v1" /\ work["extend"] = "queued"
    /\ work' = [work EXCEPT !["extend"] = "running"]
    /\ UNCHANGED <<module, ptr, held, reader, size, left, misuse>>

ServeV1(t) == driver = "v1" /\ Served(t)

SetupV1 == \/ InitMapping \/ OpenBackingFile \/ AllocMaps \/ AllocBitmap
           \/ AllocWorkqueue \/ RegisterBlockdev \/ InitTagSet \/ SetupDisk
           \/ AddDisk
CleanupV1 == \/ ClearDisk \/ FreeTagSet \/ UnregisterBlockdev \/ CancelWork
             \/ DestroyWorkqueue \/ FreeContext \/ CleanupInInit \/ GoneV1
=============================================================================
