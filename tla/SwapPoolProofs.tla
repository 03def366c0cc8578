--------------------------- MODULE SwapPoolProofs ---------------------------
(***************************************************************************)
(* The service keeps a pool of swap areas: its steps are steps of SwapPool *)
(* or are not seen, for any number of chunks, any configuration file, any  *)
(* signals and every set of calls that fail.                               *)
(***************************************************************************)
EXTENDS SwapDaemonProofs

USE DEF Goto, End, process, kernel, Tracked, Newest, PartPages, Chunk

(* One chunk is made before the handlers are installed.                    *)
OneMade == pc = "setup_signals" => Len(prog_swap) = 1

LEMMA OneMadeKept ==
    ASSUME IInv, OneMade, [Next]_vars
    PROVE  OneMade'
<1>1. CASE PushChunk
  <2>1. prog_swap \in Seq(Chunk) /\ new_chunk \in Chunk
    BY DEF IInv, TypeOK, ProcessOK
  <2>2. Len(prog_swap') = Len(prog_swap) + 1
    BY <1>1, <2>1, Pushing DEF PushChunk, Pushed
  <2>3. handlers # Sig => Len(prog_swap) = 0
    BY <1>1, Listed DEF PushChunk, IInv, Phase
  <2>4. pc' = "setup_signals" => handlers # Sig
    BY <1>1 DEF PushChunk, Allocated
  <2> QED
    BY <2>2, <2>3, <2>4 DEF OneMade
<1>2. CASE AllocateSwap
  <2>1. CASE handlers # Sig
    <3>1. prog_swap = <<>>
      BY <1>2, <2>1 DEF AllocateSwap, IInv, Phase
    <3>2. pc' = "fopen"
      BY <1>2, <3>1, SwapDaemonAssumption DEF AllocateSwap, AtLimit
    <3> QED
      BY <3>2 DEF OneMade
  <2>2. CASE handlers = Sig
    BY <1>2, <2>2 DEF AllocateSwap, Allocated, OneMade
  <2> QED
    BY <2>1, <2>2
<1>3. CASE UNCHANGED <<pc, prog_swap>>
  BY <1>3 DEF OneMade
<1>4. CASE pc' # "setup_signals"
  BY <1>4 DEF OneMade
<1>5. \/ PushChunk \/ AllocateSwap
      \/ UNCHANGED <<pc, prog_swap>> \/ pc' # "setup_signals"
  BY DEF Next, Process, Allocating, Freeing, InitDynaswap, Poll, AllocDynaswap,
     FreeDynaswap, SetupSignals, OpenChunk, MakeSwap, SwapOn, SwapOff,
     RemoveChunk, PopChunk, FreeConfig, ExitClean, Signal, Kill, SwapUse,
     PressureTurns, Start, Reboot, vars
<1> QED
  BY <1>1, <1>2, <1>3, <1>4, <1>5

-----------------------------------------------------------------------------
(* Each step of the service is a step of the pool or is not seen.          *)

Seen == <<PhaseSeen, Len(prog_swap), active>>

LEMMA Unseen ==
    ASSUME UNCHANGED <<prog_swap, handlers, handling, active>>,
           pc # "ended", pc' # "ended"
    PROVE  UNCHANGED Seen
BY DEF Seen, PhaseSeen

(* A process that ends without exit(0) dies.                               *)
LEMMA EndSeen ==
    ASSUME NEW how, End(how), how # "exit_0", pc # "ended"
    PROVE  Pool!Die
<1>1. /\ PhaseSeen \in {"starting", "running", "stopping"} /\ PhaseSeen' = "dead"
      /\ active' = active
  BY DEF PhaseSeen
<1>2. Len(prog_swap') = 0
  BY EmptySeq
<1> QED
  BY <1>1, <1>2 DEF Pool!Die

(* One that a handler ends has no chunk left on its list.                  *)
LEMMA StopSeen ==
    ASSUME IInv, ExitClean
    PROVE  Pool!Stopped
<1>1. End("exit_0") /\ pc = "exit" /\ handling # {} /\ prog_swap = <<>>
  BY DEF ExitClean, IInv, Phase
<1>2. PhaseSeen = "stopping" /\ PhaseSeen' = "stopped" /\ active' = active
  BY <1>1 DEF PhaseSeen
<1>3. Len(prog_swap) = 0 /\ Len(prog_swap') = 0
  BY <1>1, EmptySeq
<1> QED
  BY <1>2, <1>3 DEF Pool!Stopped

(* What allocate_swap does to the pool.                                    *)
LEMMA AllocatingSeen ==
    ASSUME IInv, Allocating
    PROVE  Pool!Next \/ UNCHANGED Seen
<1>1. /\ pc \in {"allocate", "fopen", "mkswap", "swapon", "push"} /\ handling = {}
      /\ handlers # Sig => prog_swap = <<>>
  BY DEF Allocating, AllocateSwap, OpenChunk, MakeSwap, SwapOn, PushChunk, IInv, Phase
<1>2. pc \in {"swapon", "push"} => Pool!MayGrow /\ new_chunk = Len(prog_swap)
  <2>1. pc \in {"swapon", "push"} =>
            new_chunk = Len(prog_swap) /\ Len(prog_swap) < SWAP_MAX_COUNT
    BY SwapDaemonAssumption DEF IInv, Hand, TypeOK, ProcessOK
  <2>2. CASE handlers = Sig
    <3>1. PhaseSeen = "running"
      BY <1>1, <2>2 DEF PhaseSeen
    <3> QED
      BY <2>1, <3>1 DEF Pool!MayGrow
  <2>3. CASE handlers # Sig
    <3>1. PhaseSeen = "starting"
      BY <1>1, <2>3 DEF PhaseSeen
    <3>2. Len(prog_swap) = 0
      BY <1>1, <2>3, EmptySeq
    <3> QED
      BY <2>1, <3>1, <3>2 DEF Pool!MayGrow
  <2> QED
    BY <2>2, <2>3
<1>3. CASE AllocateSwap
  <2>1. UNCHANGED <<prog_swap, handlers, handling, active>> /\ pc' # "ended"
    BY <1>3 DEF AllocateSwap, Allocated
  <2> QED
    BY <1>1, <2>1, Unseen
<1>4. CASE OpenChunk \/ MakeSwap
  <2>1. \/ UNCHANGED <<prog_swap, handlers, handling, active>> /\ pc' # "ended"
        \/ \E how \in {"SIGSEGV", "EXIT_FAILURE"} : End(how)
    BY <1>4 DEF OpenChunk, MakeSwap
  <2> QED
    BY <1>1, <2>1, Unseen, EndSeen DEF Pool!Next
<1>5. CASE SwapOn
  <2>1. /\ active' = active \cup {new_chunk} \/ active' = active
        /\ UNCHANGED <<prog_swap, handlers, handling>> /\ pc' # "ended" /\ pc = "swapon"
    BY <1>5 DEF SwapOn
  <2>2. UNCHANGED <<PhaseSeen, Len(prog_swap)>>
    BY <2>1 DEF PhaseSeen
  <2> QED
    BY <1>2, <2>1, <2>2 DEF Pool!Activate, Pool!Next, Seen
<1>6. CASE PushChunk
  <2>1. prog_swap \in Seq(Chunk) /\ new_chunk \in Chunk
    BY DEF IInv, TypeOK, ProcessOK
  <2>2. Len(prog_swap') = Len(prog_swap) + 1
    BY <1>6, <2>1, Pushing DEF PushChunk, Pushed
  <2>3. /\ UNCHANGED <<handlers, handling, active>> /\ pc' # "ended" /\ pc = "push"
    BY <1>6 DEF PushChunk, Allocated
  <2>4. UNCHANGED PhaseSeen
    BY <2>3 DEF PhaseSeen
  <2> QED
    BY <1>2, <2>2, <2>3, <2>4 DEF Pool!Grow, Pool!Next
<1> QED
  BY <1>3, <1>4, <1>5, <1>6 DEF Allocating

(* What free_swap does to the pool.                                        *)
LEMMA FreeingSeen ==
    ASSUME IInv, Freeing
    PROVE  Pool!Next \/ UNCHANGED Seen
<1>1. /\ pc \in {"swapoff", "remove", "pop"} /\ prog_swap # <<>>
      /\ handling = {} => handlers = Sig /\ Newest # 0
  BY DEF Freeing, SwapOff, RemoveChunk, PopChunk, IInv, Phase
<1>2. /\ Len(prog_swap) \in Nat /\ Len(prog_swap) >= 1
      /\ Newest = Len(prog_swap) - 1
  BY <1>1, Listed
<1>3. Pool!MayShrink
  BY <1>1, <1>2 DEF Pool!MayShrink, PhaseSeen
<1>4. CASE SwapOff
  <2>1. /\ active' = active \ {Len(prog_swap) - 1} \/ active' = active
        /\ UNCHANGED <<prog_swap, handlers, handling>> /\ pc' # "ended"
    BY <1>2, <1>4 DEF SwapOff
  <2>2. UNCHANGED <<PhaseSeen, Len(prog_swap)>>
    BY <1>1, <2>1 DEF PhaseSeen
  <2> QED
    BY <1>3, <2>1, <2>2 DEF Pool!Deactivate, Pool!Next, Seen
<1>5. CASE RemoveChunk
  <2>1. UNCHANGED <<prog_swap, handlers, handling, active>> /\ pc' # "ended"
    BY <1>5 DEF RemoveChunk
  <2> QED
    BY <1>1, <2>1, Unseen
<1>6. CASE PopChunk
  <2>1. prog_swap \in Seq(Chunk)
    BY DEF IInv, TypeOK, ProcessOK
  <2>2. Len(prog_swap') = Len(prog_swap) - 1
    BY <1>1, <1>6, <2>1, Popping DEF PopChunk, Popped
  <2>3. UNCHANGED <<handlers, handling, active>> /\ pc' # "ended"
    BY <1>6 DEF PopChunk
  <2>4. UNCHANGED PhaseSeen
    BY <1>1, <2>3 DEF PhaseSeen
  <2> QED
    BY <1>3, <2>2, <2>3, <2>4 DEF Pool!Shrink, Pool!Next
<1> QED
  BY <1>4, <1>5, <1>6 DEF Freeing

(* A signal is handled in the loop, where there is a chunk, or after the   *)
(* first has been made.                                                    *)
LEMMA SignalSeen ==
    ASSUME IInv, OneMade, NEW s \in Signals, Signal(s)
    PROVE  Pool!Next \/ UNCHANGED Seen
<1>1. CASE s <= handlers
  <2>1. /\ UNCHANGED <<prog_swap, handlers, active>> /\ handling' # {}
        /\ pc # "ended" /\ pc' # "ended" /\ handlers # 0
    BY <1>1, Installed DEF Signal
  <2>2. CASE handling = {} /\ handlers = Sig
    <3>1. PhaseSeen = "running" /\ PhaseSeen' = "stopping"
      BY <2>1, <2>2 DEF PhaseSeen
    <3> QED
      BY <2>1, <3>1 DEF Pool!Stop, Pool!Next
  <2>3. CASE handling = {} /\ handlers # Sig
    <3>1. PhaseSeen = "starting" /\ PhaseSeen' = "stopping"
      BY <2>1, <2>3 DEF PhaseSeen
    <3>2. pc = "setup_signals"
      BY <2>1, <2>3, Installed DEF IInv, TypeOK, ProcessOK, Phase
    <3>3. Len(prog_swap) = 1
      BY <3>2 DEF OneMade
    <3> QED
      BY <2>1, <3>1, <3>3 DEF Pool!Stop, Pool!Next
  <2>4. CASE handling # {}
    BY <1>1, <2>1, <2>4 DEF PhaseSeen, Seen
  <2> QED
    BY <2>2, <2>3, <2>4
<1>2. CASE ~(s <= handlers)
  BY <1>2, EndSeen DEF Signal, Pool!Next
<1> QED
  BY <1>1, <1>2

LEMMA StepSeen ==
    ASSUME IInv, OneMade, [Next]_vars
    PROVE  [Pool!Next]_Seen
<1>1. CASE InitDynaswap \/ Poll \/ AllocDynaswap \/ FreeDynaswap
  <2>1. pc # "ended"
    BY <1>1 DEF InitDynaswap, Poll, AllocDynaswap, FreeDynaswap
  <2>2. \/ UNCHANGED <<prog_swap, handlers, handling, active>> /\ pc' # "ended"
        \/ \E how \in {"EXIT_SUCCESS", "EXIT_FAILURE"} : End(how)
    BY <1>1 DEF InitDynaswap, ParseArgs, Poll, AllocDynaswap, FreeDynaswap
  <2> QED
    BY <2>1, <2>2, Unseen, EndSeen DEF Pool!Next
<1>2. CASE SetupSignals
  <2>1. /\ pc # "ended" /\ pc' # "ended" /\ handling = {} /\ handling' = {}
        /\ PhaseSeen = "starting" /\ Len(prog_swap) = 1
        /\ UNCHANGED <<prog_swap, active>>
    BY <1>2 DEF SetupSignals, PhaseSeen, OneMade, IInv, Phase
  <2>2. CASE handlers' = Sig
    <3>1. PhaseSeen' = "running"
      BY <2>1, <2>2 DEF PhaseSeen
    <3> QED
      BY <2>1, <3>1 DEF Pool!Run, Pool!Next
  <2>3. CASE handlers' # Sig
    <3>1. PhaseSeen' = "starting"
      BY <2>1, <2>3 DEF PhaseSeen
    <3> QED
      BY <2>1, <3>1 DEF Seen
  <2> QED
    BY <2>2, <2>3
<1>3. CASE FreeConfig \/ Kill
  <2>1. /\ pc # "ended"
        /\ \/ UNCHANGED <<prog_swap, handlers, handling, active>> /\ pc' # "ended"
           \/ \E how \in {"SIGABRT", "killed"} : End(how)
    BY <1>3 DEF FreeConfig, Kill
  <2> QED
    BY <2>1, Unseen, EndSeen DEF Pool!Next
<1>4. CASE SwapUse \/ PressureTurns \/ UNCHANGED vars
  BY <1>4 DEF SwapUse, PressureTurns, vars, Seen, PhaseSeen
<1>5. CASE Start
  BY <1>5, Installed
     DEF Start, PhaseSeen, Pool!Start, Pool!Ended, Pool!Next, IInv, Phase
<1>6. CASE Reboot
  BY <1>6 DEF Reboot, PhaseSeen, Pool!Reboot, Pool!Ended, Pool!Next
<1> QED
  BY <1>1, <1>2, <1>3, <1>4, <1>5, <1>6, StopSeen, AllocatingSeen, FreeingSeen,
     SignalSeen
     DEF Next, Process, Pool!Next

(* The service is a pool of swap areas that grows and shrinks at its end,  *)
(* does not give up the first while it runs and has given up all when it   *)
(* stops of its own: whichever calls fail and signals arrive, handled or   *)
(* not yet, in whichever order.                                            *)
THEOREM PoolImplemented == Spec => ImplementsSwapPool
<1>1. Init => OneMade /\ Pool!Init
  BY EmptySeq, SwapDaemonAssumption DEF Init, OneMade, Pool!Init, PhaseSeen
<1>2. IInv /\ OneMade /\ [Next]_vars => OneMade'
  BY OneMadeKept
<1>3. IInv /\ OneMade /\ [Next]_vars => [Pool!Next]_Seen
  BY StepSeen
<1>4. [Pool!Next]_Seen <=> [Pool!Next]_Pool!vars
  BY DEF Seen, Pool!vars
<1> QED
  BY <1>1, <1>2, <1>3, <1>4, Invariance, PTL
     DEF Spec, ImplementsSwapPool, Pool!Spec
=============================================================================
