--------------------------- MODULE DynaSwapV2Load ---------------------------
(***************************************************************************)
(* Load and unload of the second driver: init_driver and exit_driver of    *)
(* main.c with the setup_* and teardown_* functions they call, and the     *)
(* debugfs files these create.  Here every function undoes, or does not    *)
(* undo, what it did itself.                                               *)
(***************************************************************************)
EXTENDS ModuleLoad

(* Failures of setup_context, for which init_driver returns at once, and   *)
(* of setup_disk, whose FALSE it takes for success: `status < 0'.          *)
SetupContextFault == {"path", "filp_open", "write_access", "slot_bitmap"}
SetupDiskFault == {"major", "tag_set", "disk", "add_disk"}

-----------------------------------------------------------------------------
(* setup_common.                                                           *)

InsmodV2 == Insmod("v2", "setup_common")

(* The directory cannot be created again while an old one is there; that   *)
(* it was not is never noticed.                                            *)
SetupCommon ==
    /\ pc = "setup_common"
    /\ \/ \E dir \in SUBSET ({"debugfs"} \ left) :
             Take({"wq"} \cup dir, "setup_storage")
       \/ FailsToTake("wq", "gone")

-----------------------------------------------------------------------------
(* setup_context: setup_storage, setup_slot_manager, the first extension.  *)

SetupStorage ==
    /\ pc = "setup_storage"
    /\ \/ Take({"backing_file"}, "write_access")
       \/ \E call \in {"path", "filp_open"} : FailsToTake(call, "gone")

WriteAccess ==
    /\ pc = "write_access"
    /\ \/ Take({"write_access"}, "setup_slot_manager")
       \/ /\ Fails("write_access", "gone")
          /\ Release({"backing_file"}, {"backing_file"})
          /\ UNCHANGED <<work, reader, size, left>>

(* The result of init_bimap is ignored.  The extension that follows runs   *)
(* here, not on the workqueue, and its failure is only logged.             *)
SetupSlotManager ==
    /\ pc = "setup_slot_manager"
    /\ pages' = (gb * GB) \div PAGE_SIZE
    /\ \/ \E cache \in {{"entry_cache"}}
                       \cup (IF "entry_cache" \in Fault THEN {{}} ELSE {}) :
             /\ ptr' = ptr \cup cache \cup {"slot_bitmap"}
             /\ held' = held \cup cache \cup {"slot_bitmap"}
             /\ Goto("register_device")
       \/ Fails("slot_bitmap", "close_storage") /\ UNCHANGED <<ptr, held>>
    /\ UNCHANGED <<work, reader, capacity, left, misuse>>

-----------------------------------------------------------------------------
(* setup_disk.                                                             *)

RegisterDevice ==
    /\ pc = "register_device"
    /\ Take({"major"}, "alloc_tagset") \/ FailsToTake("major", "loaded")

AllocTagset ==
    /\ pc = "alloc_tagset"
    /\ \/ Take({"tag_set"}, "create_disk")
       \/ /\ Fails("tag_set", "loaded")
          /\ Release({"major"}, {"major"})
          /\ UNCHANGED <<work, reader, size, left>>

(* create_disk: a disk that cannot be added is forgotten, not put.         *)
CreateDisk ==
    /\ pc = "create_disk"
    /\ capacity' = (gb * GB) \div SECTOR_SIZE
    /\ \/ /\ ptr' = ptr \cup {"disk"} /\ held' = held \cup {"disk", "live"}
          /\ Goto("loaded")
          /\ UNCHANGED misuse
       \/ /\ Fails("disk", "loaded")
          /\ Release({"tag_set", "major"}, {"tag_set", "major"})
       \/ /\ Fails("add_disk", "loaded")
          /\ ptr' = ptr \ {"tag_set", "major"}
          /\ held' = (held \ {"tag_set", "major"}) \cup {"disk"}
          /\ UNCHANGED misuse
    /\ UNCHANGED <<work, reader, pages, left>>

-----------------------------------------------------------------------------
(* exit_driver: teardown_disk, teardown_context, teardown_common.          *)

RmmodV2 == Rmmod("v2", "teardown_disk")

TeardownDisk ==
    /\ pc = "teardown_disk"
    /\ held' = held \ ({"live"} \cup (ptr \cap {"disk", "tag_set", "major"}))
    /\ ptr' = ptr \ {"disk", "tag_set", "major"}
    /\ misuse' = misuse \cup Misused((ptr \cap {"disk", "tag_set", "major"}) \ held)
    /\ Goto("teardown_slot_manager")
    /\ UNCHANGED <<work, reader, size, left>>

(* Neither pointer is reset, and the cache is not destroyed.               *)
TeardownSlotManager ==
    /\ pc = "teardown_slot_manager"
    /\ Release({"slot_bitmap"}, {})
    /\ Goto("close_storage")
    /\ UNCHANGED <<work, reader, size, left>>

(* An extension may be in vfs_fallocate.                                   *)
CloseStorage ==
    /\ pc = "close_storage"
    /\ held' = held \ {"backing_file", "write_access"}
    /\ misuse' = misuse \cup Misused(IF work["extend"] = "running"
                                     THEN {"extend"} ELSE {})
    /\ Goto("truncate_storage")
    /\ UNCHANGED <<ptr, work, reader, size, left>>

(* vfs_truncate uses the path of the file that was closed.  setup_context, *)
(* when it calls teardown_storage, returns to init_driver, and that fails. *)
TruncateStorage ==
    /\ pc = "truncate_storage"
    /\ ptr' = ptr \ {"backing_file", "write_access"}
    /\ misuse' = misuse \cup Misused({"f_path"})
    /\ Goto(IF failed \in SetupContextFault THEN "gone" ELSE "teardown_common")
    /\ UNCHANGED <<held, work, reader, size, left>>

(* debugfs_remove_recursive waits for the readers.                         *)
RemoveDebugfs ==
    /\ pc = "teardown_common" /\ reader = "none"
    /\ Release({"debugfs"}, {"debugfs"})
    /\ Goto("destroy_wq")
    /\ UNCHANGED <<work, reader, size, left>>

(* destroy_workqueue waits for the work that is queued or runs.            *)
DestroyWq ==
    /\ pc = "destroy_wq" /\ \A w \in Work : work[w] = "idle"
    /\ Release({"wq"}, {})
    /\ Goto("gone")
    /\ UNCHANGED <<work, reader, size, left>>

GoneV2 == driver = "v2" /\ pc = "gone" /\ Gone

-----------------------------------------------------------------------------
(* One ordered workqueue runs everything, an item at a time.               *)

(* Mutant: the workqueue is not an ordered one.                            *)
Unordered == pc # "wedged"

WorkerFree == pc # "wedged" /\ \A w \in Work : work[w] \notin {"running", "ended"}

(* A write whose page has no slot yet takes memory from the cache.         *)
ServeV2(t) == driver = "v2" /\ WorkerFree /\ Served(t)

InsertV2(t) ==
    /\ driver = "v2" /\ WorkerFree /\ work[t] = "queued"
    /\ "entry_cache" \notin ptr
    /\ Wedged("entry_cache")

(* extend_storage does not ask whether there is a backing file.            *)
ExtendV2 ==
    /\ driver = "v2" /\ WorkerFree /\ work["extend"] = "queued"
    /\ IF "backing_file" \in held
       THEN /\ work' = [work EXCEPT !["extend"] = "running"]
            /\ UNCHANGED <<module, ptr, held, reader, size, left, misuse>>
       ELSE Wedged("extend")

-----------------------------------------------------------------------------
(* backing_file_size_read looks at the pointer, then at the inode.         *)

ReadCheck ==
    /\ driver = "v2" /\ reader = "none"
    /\ "debugfs" \in held /\ {"backing_file", "write_access"} \subseteq ptr
    /\ reader' = "checked"
    /\ UNCHANGED <<module, ptr, held, work, size, left, misuse>>

ReadSize ==
    /\ reader = "checked" /\ reader' = "none"
    /\ misuse' = misuse \cup Misused(IF "backing_file" \in held THEN {}
                                                                ELSE {"inode"})
    /\ UNCHANGED <<module, ptr, held, work, size, left>>

(* A file of a module that is gone: its operations are gone as well.       *)
ReadStale ==
    /\ "debugfs" \in left
    /\ misuse' = misuse \cup Misused({"stale"})
    /\ UNCHANGED <<module, ptr, held, work, reader, size, left>>

SetupV2 == \/ SetupCommon \/ SetupStorage \/ WriteAccess \/ SetupSlotManager
           \/ RegisterDevice \/ AllocTagset \/ CreateDisk
CleanupV2 == \/ TeardownDisk \/ TeardownSlotManager \/ CloseStorage
             \/ TruncateStorage \/ RemoveDebugfs \/ DestroyWq \/ GoneV2
=============================================================================
