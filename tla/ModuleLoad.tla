----------------------------- MODULE ModuleLoad -----------------------------
(***************************************************************************)
(* What loading and unloading have in common in the two versions of the    *)
(* driver: both are the kernel module "dynaswap", so at most one of them   *)
(* is in the kernel.  insmod and rmmod run one function at a time; around  *)
(* them run the requests of the disk, the extension of the backing file    *)
(* and, for the second version, readers of debugfs.                        *)
(*                                                                         *)
(* `held' is what the kernel has given to the module and not taken back,   *)
(* `ptr' the module's own idea of it: the pointers and numbers that its    *)
(* cleanup tests.  The properties are about the difference.                *)
(***************************************************************************)
EXTENDS Integers, FiniteSets

CONSTANTS
    Tag,          \* the requests that can be in flight
    Fault,        \* the calls that may fail
    CapacityGb,   \* the values given to the parameter for the capacity
    GB,           \* bytes of a gigabyte
    PAGE_SIZE, SECTOR_SIZE, \* in bytes
    EntriesPerPage,         \* table entries in a page of memory
    Word          \* 2^32, the values of an unsigned int

ASSUME ModuleLoadAssumption ==
    /\ "extend" \notin Tag
    /\ CapacityGb \subseteq Nat /\ GB \in Nat
    /\ {PAGE_SIZE, SECTOR_SIZE, EntriesPerPage, Word} \subseteq Nat \ {0}
    /\ PAGE_SIZE % SECTOR_SIZE = 0 /\ GB % PAGE_SIZE = 0

VARIABLES
    driver,   \* the version in the kernel, or "none"
    pc,       \* the function insmod or rmmod is about to call
    failed,   \* the call whose failure ended the set-up
    gb,       \* capacity_gb, block_capacity
    ptr,      \* what the module's variables say it has
    held,     \* what it has
    work,     \* the requests and the extension
    reader,   \* of backing_file_size_bytes in debugfs
    pages,    \* pages the tables of the module are made for
    capacity, \* sectors of the disk
    left,     \* what modules that are gone have left behind
    misuse    \* history of this load: what was used or released, not being held

module == <<driver, pc, failed, gb>>
size == <<pages, capacity>>
vars == <<driver, pc, failed, gb, ptr, held, work, reader, pages, capacity,
          left, misuse>>

Work == Tag \cup {"extend"}
InFlight == {t \in Tag : work[t] = "queued"}
Misused(what) == {<<driver, failed, r>> : r \in what}

NotLoaded ==
    /\ driver = "none" /\ pc = "none" /\ failed = "none" /\ gb = 0
    /\ ptr = {} /\ held = {} /\ pages = 0 /\ capacity = 0

Init ==
    /\ NotLoaded
    /\ work = [w \in Work |-> "idle"] /\ reader = "none"
    /\ left = {} /\ misuse = {}

Goto(label) == pc' = label /\ UNCHANGED <<driver, failed, gb>>

(* A call fails and control goes to the label.                             *)
Fails(call, label) ==
    call \in Fault /\ failed' = call /\ pc' = label /\ UNCHANGED <<driver, gb>>

-----------------------------------------------------------------------------
(* insmod of a version begins, with the image of the module all zeroes.    *)
Insmod(version, first) ==
    /\ driver = "none"
    /\ driver' = version /\ pc' = first /\ failed' = "none"
    /\ gb' \in CapacityGb /\ misuse' = {}
    /\ UNCHANGED <<ptr, held, work, reader, size, left>>

(* rmmod: a request in flight has the disk open, and the owner of its      *)
(* operations, THIS_MODULE, cannot be unloaded.                            *)
Rmmod(version, first) ==
    /\ driver = version /\ pc = "loaded" /\ InFlight = {}
    /\ Goto(first)
    /\ UNCHANGED <<ptr, held, work, reader, size, left, misuse>>

(* insmod has failed or rmmod has finished: code and variables are gone,   *)
(* under the feet of whatever still runs.                                  *)
Gone ==
    /\ driver' = "none" /\ pc' = "none" /\ failed' = "none" /\ gb' = 0
    /\ ptr' = {} /\ held' = {} /\ pages' = 0 /\ capacity' = 0
    /\ left' = left \cup held
    /\ misuse' = misuse \cup Misused(IF reader = "none"
                                        /\ \A w \in Work : work[w] = "idle"
                                     THEN {} ELSE {"text"})
    /\ work' = [w \in Work |-> "idle"] /\ reader' = "none"

(* Memory that is not there was used: the thread that did it is dead, and  *)
(* with it the chance to unload the module.                                *)
Wedged(what) ==
    /\ pc' = "wedged" /\ misuse' = misuse \cup Misused({what})
    /\ UNCHANGED <<driver, failed, gb, ptr, held, work, reader, size, left>>

Reboot ==
    /\ pc = "wedged"
    /\ driver' = "none" /\ pc' = "none" /\ failed' = "none" /\ gb' = 0
    /\ ptr' = {} /\ held' = {} /\ pages' = 0 /\ capacity' = 0
    /\ work' = [w \in Work |-> "idle"] /\ reader' = "none"
    /\ left' = {} /\ misuse' = {}

-----------------------------------------------------------------------------
(* Set-up takes things one by one: the call gives them, or fails.          *)
Take(rs, label) ==
    /\ held' = held \cup rs /\ ptr' = ptr \cup rs
    /\ Goto(label)
    /\ UNCHANGED <<work, reader, size, left, misuse>>

FailsToTake(call, label) ==
    /\ Fails(call, label)
    /\ UNCHANGED <<ptr, held, work, reader, size, left, misuse>>

(* Cleanup releases those of `rs' that are set in ptr, and resets `reset'. *)
Release(rs, reset) ==
    /\ held' = held \ (rs \cap ptr)
    /\ ptr' = ptr \ reset
    /\ misuse' = misuse \cup Misused((rs \cap ptr) \ held)

-----------------------------------------------------------------------------
(* The requests.                                                           *)

Submit(t) ==
    /\ pc = "loaded" /\ "live" \in held /\ work[t] = "idle"
    /\ work' = [work EXCEPT ![t] = "queued"]
    /\ UNCHANGED <<module, ptr, held, reader, size, left, misuse>>

(* The request is carried out and ended; a write may queue the extension.  *)
Served(t) ==
    /\ work[t] = "queued"
    /\ \E ext \in {work["extend"]} \cup
                  (IF work["extend"] = "idle" THEN {"queued"} ELSE {}) :
          work' = [work EXCEPT ![t] = "ended", !["extend"] = ext]
    /\ UNCHANGED <<module, ptr, held, reader, size, left, misuse>>

(* Its handler returns: the last that it executes of the module.           *)
Return(t) ==
    /\ work[t] = "ended"
    /\ work' = [work EXCEPT ![t] = "idle"]
    /\ UNCHANGED <<module, ptr, held, reader, size, left, misuse>>

(* Mutant: an extension queues itself again.                               *)
Requeued == "queued"

Done == "idle"

ExtendDone ==
    /\ work["extend"] = "running"
    /\ work' = [work EXCEPT !["extend"] = Done]
    /\ UNCHANGED <<module, ptr, held, reader, size, left, misuse>>
=============================================================================
