------------------------------ MODULE PageDisk ------------------------------
(***************************************************************************)
(* What /dev/dynaswap promises to the code above the block layer: a        *)
(* fixed array of pages, all zero at first.  A request moves its pages one *)
(* at a time, each in a single instant between its submission and its      *)
(* completion; a page read is the page stored; a page that was not written *)
(* is left as it was.  The two drivers differ in what a discarded page     *)
(* reads as, in how long a request keeps an error, and in whether a write  *)
(* that the backing file refused is told from one it took.                 *)
(*                                                                         *)
(* Nothing of slots, backing file or extension is visible here: DynaMap    *)
(* and DynaSwapV2 are shown to implement this module.                      *)
(***************************************************************************)
EXTENDS Integers

CONSTANTS
    Tag,        \* requests that can be in flight
    NPages,     \* logical pages of the device
    MaxPages,   \* bound: pages in one read or write request
    Val,        \* what a client may write in a page
    Zero,       \* the contents of a page of zeroes
    Serialised, \* do clients order the requests that touch the same page?
    Discarding, \* "zero": a discarded page reads as zeroes; "keep": as before
    ErrorsLast, \* does a request keep an error when a later page is moved?
    WritesLost  \* may a write that meets no error leave its page as it was?

VARIABLES
    disk,       \* disk[p]: the contents of page p
    req         \* req[t]: the request that holds tag t

vars == <<disk, req>>

Page == 0 .. NPages - 1
Idle == [op |-> "none", i |-> 0, end |-> 0, val |-> Zero, status |-> "OK",
         got |-> Zero]

Init == /\ disk = [p \in Page |-> Zero]
        /\ req = [t \in Tag |-> Idle]

(* A client that orders its requests never has two of them on one page,    *)
(* unless both read.                                                       *)
Admitted(op, first, end) ==
    Serialised =>
        \A u \in Tag : \/ op = "read" /\ req[u].op = "read"
                       \/ end <= req[u].i
                       \/ req[u].end <= first
                       \/ req[u].op = "none"

Submit(t, op, first, end, v) ==
    /\ req[t].op = "none"
    /\ Admitted(op, first, end)
    /\ req' = [req EXCEPT ![t] = [Idle EXCEPT !.op = op, !.i = first,
                                              !.end = end, !.val = v]]
    /\ UNCHANGED disk

SubmitTransfer(t) ==
    \E op \in {"read", "write"}, first \in Page, n \in 1 .. MaxPages, v \in Val :
        /\ first + n <= NPages
        /\ Submit(t, op, first, first + n, IF op = "write" THEN v ELSE Zero)

SubmitDiscard(t) ==
    \E first, end \in 0 .. NPages :
        first <= end /\ Submit(t, "discard", first, end, Zero)

Moving(t, op) == req[t].op = op /\ req[t].i < req[t].end

Written(t) == [disk EXCEPT ![req[t].i] = <<req[t].i, req[t].val>>]

(* What a request says after a page that was moved.                        *)
Kept(t) == IF ErrorsLast THEN req[t].status ELSE "OK"

Write(t) ==
    /\ Moving(t, "write")
    /\ \/ disk' = Written(t)
       \/ WritesLost /\ UNCHANGED disk
    /\ req' = [req EXCEPT ![t].i = @ + 1, ![t].status = Kept(t)]

Read(t) ==
    /\ Moving(t, "read")
    /\ req' = [req EXCEPT ![t].i = @ + 1, ![t].got = disk[req[t].i],
                          ![t].status = Kept(t)]
    /\ UNCHANGED disk

(* Pages are dropped in order, one or more at a time.                      *)
Discard(t) ==
    /\ Moving(t, "discard")
    /\ \E next \in (req[t].i + 1) .. req[t].end :
          /\ req' = [req EXCEPT ![t].i = next]
          /\ disk' = IF Discarding = "keep" THEN disk
                     ELSE [p \in Page |-> IF p \in req[t].i .. next - 1
                                         THEN Zero ELSE disk[p]]

(* A page that cannot be moved: the request takes the error and may end at *)
(* once.  A write that fails may have changed the page.                    *)
Fail(t) ==
    /\ Moving(t, "read") \/ Moving(t, "write")
    /\ \E error \in {"IOERR", "NOSPC", "RESOURCE"},
          next \in {req[t].i + 1, req[t].end} :
          req' = [req EXCEPT ![t].i = next, ![t].got = Zero,
                             ![t].status = error]
    /\ \/ UNCHANGED disk
       \/ Moving(t, "write") /\ disk' = Written(t)

Complete(t) ==
    /\ req[t].op # "none" /\ req[t].i = req[t].end
    /\ req' = [req EXCEPT ![t] = Idle]
    /\ UNCHANGED disk

Next == \E t \in Tag : \/ SubmitTransfer(t) \/ SubmitDiscard(t)
                       \/ Write(t) \/ Read(t) \/ Discard(t) \/ Fail(t)
                       \/ Complete(t)

Spec == Init /\ [][Next]_vars
=============================================================================
