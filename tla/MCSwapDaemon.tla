---------------------------- MODULE MCSwapDaemon ----------------------------
(* Small instances of SwapDaemon for TLC: three chunks of three pages, one *)
(* of them the header, stand for the 24 chunks, and the signals are the    *)
(* four of setup_signals, or two, so that a handler can be interrupted.    *)
EXTENDS SwapDaemon

(* The configuration of misc/dynaswap.conf, other legal ones and every way *)
(* to get one value wrong.                                                 *)
Reference ==
    [access |-> "ok", keys |-> Key, SWAP_PATH |-> "directory",
     SWAP_PART_SIZE |-> 3, suffix |-> "G",
     SWAP_FULL_THRESHOLD |-> 50, SWAP_FREE_THRESHOLD |-> 50,
     PSI_SOME_STRESS |-> 10, PSI_FULL_STRESS |-> 15]

ReferenceOnly == {Reference}

Legal ==
    {Reference,
     [Reference EXCEPT !.SWAP_FULL_THRESHOLD = 100, !.SWAP_FREE_THRESHOLD = 1],
     [Reference EXCEPT !.SWAP_FULL_THRESHOLD = 1, !.SWAP_FREE_THRESHOLD = 100],
     [Reference EXCEPT !.suffix = "K", !.SWAP_PART_SIZE = 2]}

Wrong ==
    {[Reference EXCEPT !.access = a] : a \in {"unreadable", "malformed"}}
    \cup {[Reference EXCEPT !.keys = Key \ {k}] : k \in Key}
    \cup {[Reference EXCEPT !.SWAP_PATH = "other"]}
    \cup {[Reference EXCEPT !.suffix = x] : x \in {"none", "B"}}
    \cup {[Reference EXCEPT !.SWAP_PART_SIZE = n] : n \in -1 .. 1}
    \cup {[Reference EXCEPT !.SWAP_FULL_THRESHOLD = p] : p \in {0, 101}}
    \cup {[Reference EXCEPT !.SWAP_FREE_THRESHOLD = p] : p \in {0, 101}}
    \cup {[Reference EXCEPT !.PSI_SOME_STRESS = n] : n \in -1 .. 0}
    \cup {[Reference EXCEPT !.PSI_FULL_STRESS = n] : n \in -1 .. 0}

AllConfigurations == Legal \cup Wrong

WithConfig == {<<"c">>}
AllCommandLines == UNION {[1 .. n -> {"c", "h", "?"}] : n \in 0 .. 2}
=============================================================================
