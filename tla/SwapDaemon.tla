----------------------------- MODULE SwapDaemon -----------------------------
(***************************************************************************)
(* The userspace service (service/src): one process that adds swap files   *)
(* while memory is under pressure and removes them when it is not, and the *)
(* signals, failed calls and restarts it meets between two of its steps.   *)
(*                                                                         *)
(* A step is one system call, or what runs between two of them.  A signal  *)
(* handler never returns to what it interrupted, so one label `pc' tells   *)
(* where the process is, in main or in the innermost handler.  The kernel  *)
(* (swapon, swapoff, unlink of an active swap file, signals) is modelled   *)
(* from how the code uses it.                                              *)
(***************************************************************************)
EXTENDS Integers, Sequences, FiniteSets, ServiceConfig

CONSTANTS
    SWAP_MAX_COUNT,      \* chunks at most (24)
    Configurations,      \* what the configuration file may say
    CommandLines,        \* the options the service may be started with
    ForeignPages,        \* pages of swap the daemon does not manage
    Sig,                 \* how many signals ask the daemon to stop (4)
    Fault                \* which calls may fail

ASSUME SwapDaemonAssumption ==
    /\ SWAP_MAX_COUNT \in Nat \ {0} /\ ForeignPages \in Nat /\ Sig \in Nat \ {0}
    /\ Configurations \subseteq Configuration
    /\ CommandLines \subseteq Seq({"c", "h", "?"})
    /\ Fault \subseteq {"poll", "fopen", "fallocate", "swapon", "swapoff", "getuid"}

VARIABLES
    conf,       \* the configuration file; it is not edited
    prog_swap,  \* the list of chunk numbers, the newest last
    pc,         \* the next step of the process, or "ended"
    new_chunk,  \* local of allocate_swap
    handlers,   \* how many signals have their handler installed
    handling,   \* the signals whose handler has been entered
    freed,      \* has free_config run?
    outcome,    \* how the process ended
    files,      \* the chunk files in SWAP_PATH
    active,     \* the chunks the kernel swaps to
    used,       \* swap pages in use, of all swap areas
    pressure,   \* what PSI reports (see Level)
    lost        \* history: chunks left active that no process tracks

process == <<prog_swap, pc, new_chunk, handlers, handling, freed, outcome>>
kernel == <<files, active, used>>
vars == <<conf, prog_swap, pc, new_chunk, handlers, handling, freed, outcome,
          files, active, used, pressure, lost>>

(* The signals in the order setup_signals takes them: 1 is SIGINT.         *)
Signals == 1 .. Sig

(* The trigger fires; it does not, but a 60 s average is still above its   *)
(* stress value; both averages are below.                                  *)
Level == {"STRAINED", "EASED", "CALM"}

Chunk == 0 .. SWAP_MAX_COUNT - 1
Outcome(call) == IF call \in Fault THEN BOOLEAN ELSE {TRUE}

Tracked == {prog_swap[k] : k \in 1 .. Len(prog_swap)}
Newest == prog_swap[Len(prog_swap)]

(* The first page of a swap file is its header.                            *)
PartPages == conf.SWAP_PART_SIZE
SwapTotal(chunks) == ForeignPages + (PartPages - 1) * Cardinality(chunks)

Init ==
    /\ conf \in Configurations
    /\ prog_swap = <<>> /\ pc = "init" /\ new_chunk = 0
    /\ handlers = 0 /\ handling = {} /\ freed = FALSE /\ outcome = "none"
    /\ files = {} /\ active = {} /\ lost = {}
    /\ used \in 0 .. ForeignPages
    /\ pressure \in Level

-----------------------------------------------------------------------------
(* How a process ends: what is active then is nobody's.                    *)
End(how) ==
    /\ pc' = "ended" /\ outcome' = how
    /\ prog_swap' = <<>> /\ new_chunk' = 0 /\ handlers' = 0 /\ handling' = {}
    /\ freed' = FALSE /\ lost' = lost \cup active
    /\ UNCHANGED <<conf, kernel, pressure>>

(* Control moves on, and nothing else changes.                             *)
Goto(label) ==
    /\ pc' = label
    /\ UNCHANGED <<conf, prog_swap, new_chunk, handlers, handling, freed, outcome,
                   kernel, pressure, lost>>

-----------------------------------------------------------------------------
(* init_dynaswap up to init_dynamic_swap: the user, the options, the file. *)

InitDynaswap ==
    /\ pc = "init"
    /\ \E root \in Outcome("getuid"), args \in CommandLines :
          IF ~root THEN End("EXIT_FAILURE")
          ELSE IF ParseArgs(args) # "none" THEN End(ParseArgs(args))
          ELSE IF ReadConfig(conf) THEN Goto("allocate")
          ELSE End("EXIT_FAILURE")

-----------------------------------------------------------------------------
(* The loop of main.                                                       *)

(* poll_psi and read_psi: any failure of theirs is exit(EXIT_FAILURE), and *)
(* a failure of init_psi, only printed, shows here.  free_dynaswap does    *)
(* nothing while an average read here is at its stress value, which is     *)
(* always so for one that is not positive.                                 *)
Calm == pressure = "CALM" /\ conf.PSI_SOME_STRESS > 0 /\ conf.PSI_FULL_STRESS > 0

Poll ==
    /\ pc = "poll"
    /\ \E ok \in Outcome("poll") :
          \/ ok /\ pressure = "STRAINED" /\ Goto("alloc_dynaswap")
          \/ ok /\ Calm /\ Goto("free_dynaswap")
          \/ ok /\ pressure # "STRAINED" /\ ~Calm /\ Goto("poll")
          \/ ~ok /\ End("EXIT_FAILURE")

(* Without any swap the usage is NaN, which fails every comparison.        *)
NoSwap == SwapTotal(active) = 0

(* Mutant: the other threshold is compared with.                           *)
SwapFreeEnough == used * 100 < conf.SWAP_FREE_THRESHOLD * SwapTotal(active)

(* At its threshold a chunk is added, and at the other one is freed.       *)
SwapNotFull == used * 100 < conf.SWAP_FULL_THRESHOLD * SwapTotal(active)

AllocDynaswap ==
    /\ pc = "alloc_dynaswap"
    /\ Goto(IF ~NoSwap /\ SwapNotFull THEN "poll" ELSE "allocate")

(* Mutant: the threshold to free is not looked at.                         *)
AlwaysFreeable == TRUE

SwapFreeable == used * 100 <= conf.SWAP_FREE_THRESHOLD * SwapTotal(active)

(* Mutants: the first chunk is freed like the others; two chunks are kept. *)
NoChunk == FALSE
FirstTwo == Newest <= 1

FirstChunk == Newest = 0

FreeDynaswap ==
    /\ pc = "free_dynaswap"
    /\ Goto(IF ~FirstChunk /\ ~NoSwap /\ SwapFreeable THEN "swapoff"
                                                      ELSE "poll")

-----------------------------------------------------------------------------
(* allocate_swap, called by init_dynamic_swap and by alloc_dynaswap.       *)

Allocated == IF handlers = Sig THEN "poll" ELSE "setup_signals"

(* Mutant: one chunk more than the limit.                                  *)
PastLimit(number) == number > SWAP_MAX_COUNT

AtLimit(number) == number >= SWAP_MAX_COUNT

AllocateSwap ==
    LET number == IF prog_swap = <<>> THEN 0 ELSE Newest + 1
    IN  /\ pc = "allocate"
        /\ IF AtLimit(number)
           THEN Goto(Allocated)
           ELSE /\ new_chunk' = number /\ pc' = "fopen"
                /\ UNCHANGED <<conf, prog_swap, handlers, handling, freed, outcome,
                               kernel, pressure, lost>>

(* "w+" truncates, which the kernel refuses for an active swap file; the   *)
(* NULL of a failed fopen goes to fileno.                                  *)
OpenChunk ==
    /\ pc = "fopen"
    /\ \E ok \in Outcome("fopen") :
          IF ok /\ new_chunk \notin active
          THEN /\ files' = files \cup {new_chunk} /\ pc' = "mkswap"
               /\ UNCHANGED <<conf, prog_swap, new_chunk, handlers, handling, freed,
                              outcome, active, used, pressure, lost>>
          ELSE End("SIGSEGV")

(* fallocate is not checked: when it fails, as for a size that is not      *)
(* positive, mkswap finds the file too small.                              *)
MakeSwap ==
    /\ pc = "mkswap"
    /\ \E ok \in Outcome("fallocate") :
          IF ok /\ PartPages >= 1 THEN Goto("swapon") ELSE End("EXIT_FAILURE")

(* The kernel takes no swap file that is all header.                       *)
SwapOn ==
    /\ pc = "swapon"
    /\ \E ok \in Outcome("swapon") :
          active' = IF ok /\ PartPages > 1 THEN active \cup {new_chunk} ELSE active
    /\ pc' = "push"
    /\ UNCHANGED <<conf, prog_swap, new_chunk, handlers, handling, freed, outcome,
                   files, used, pressure, lost>>

(* Mutant: every chunk has the number of the first.                        *)
PushedFirst == Append(prog_swap, 0)

Pushed == Append(prog_swap, new_chunk)

PushChunk ==
    /\ pc = "push"
    /\ prog_swap' = Pushed
    /\ new_chunk' = 0 /\ pc' = Allocated
    /\ UNCHANGED <<conf, handlers, handling, freed, outcome, kernel, pressure, lost>>

(* One call of signal after the other.                                     *)
SetupSignals ==
    /\ pc = "setup_signals"
    /\ handlers' = handlers + 1
    /\ pc' = IF handlers' = Sig THEN "poll" ELSE "setup_signals"
    /\ UNCHANGED <<conf, prog_swap, new_chunk, handling, freed, outcome, kernel,
                   pressure, lost>>

-----------------------------------------------------------------------------
(* free_swap, called by free_dynaswap and, for every chunk, by the handler.*)

SwapOff ==
    /\ pc = "swapoff" /\ prog_swap # <<>>
    /\ \E ok \in Outcome("swapoff") :
          LET left == IF ok THEN active \ {Newest} ELSE active
          IN  /\ active' = left
              /\ used' = IF used > SwapTotal(left) THEN SwapTotal(left) ELSE used
    /\ pc' = "remove"
    /\ UNCHANGED <<conf, prog_swap, new_chunk, handlers, handling, freed, outcome,
                   files, pressure, lost>>

(* The kernel refuses to unlink a swap file that is active.                *)
RemoveChunk ==
    /\ pc = "remove"
    /\ files' = files \ ({Newest} \ active)
    /\ pc' = "pop"
    /\ UNCHANGED <<conf, prog_swap, new_chunk, handlers, handling, freed, outcome,
                   active, used, pressure, lost>>

(* Mutants: the list is dropped; a chunk that is still active is kept.     *)
PoppedAll == <<>>
PoppedIfOff == IF Newest \in active THEN prog_swap
                                    ELSE SubSeq(prog_swap, 1, Len(prog_swap) - 1)

Popped == SubSeq(prog_swap, 1, Len(prog_swap) - 1)

(* The handler goes on with free_dynamic_swap, main with its loop.         *)
PopChunk ==
    /\ pc = "pop"
    /\ prog_swap' = Popped
    /\ lost' = lost \cup ({Newest} \cap active)
    /\ pc' = IF handling = {} THEN "poll" ELSE "swapoff"
    /\ UNCHANGED <<conf, new_chunk, handlers, handling, freed, outcome, kernel,
                   pressure>>

-----------------------------------------------------------------------------
(* sig_handler: takedown_dynaswap, then exit(0).                           *)

(* A signal comes at any moment, also while another one is being handled;  *)
(* it kills the process as long as its own handler is not installed, which *)
(* for the later ones may be never.  The chunk that allocate_swap has in   *)
(* hand is on no list yet.                                                 *)
Signal(s) ==
    /\ pc # "ended" /\ s \notin handling
    /\ IF s <= handlers
       THEN /\ handling' = handling \cup {s} /\ pc' = "swapoff"
            /\ lost' = lost \cup (IF pc = "push" THEN {new_chunk} \cap active
                                                 ELSE {})
            /\ new_chunk' = 0
            /\ UNCHANGED <<conf, prog_swap, handlers, freed, outcome, kernel, pressure>>
       ELSE End("killed")

(* Mutant: the handler need not free every chunk.                          *)
SomeFreed == handling # {}

AllFreed == prog_swap = <<>>

(* SWAP_PATH is freed and keeps its value: the handler of a further signal *)
(* frees it again, which malloc may notice.                                *)
FreeConfig ==
    /\ pc = "swapoff" /\ AllFreed
    /\ \/ /\ pc' = "exit" /\ freed' = TRUE
          /\ UNCHANGED <<conf, prog_swap, new_chunk, handlers, handling, outcome,
                         kernel, pressure, lost>>
       \/ freed /\ End("SIGABRT")

ExitClean == pc = "exit" /\ End("exit_0")

-----------------------------------------------------------------------------
(* What goes on around the process.                                        *)

(* SIGKILL: the OOM killer, or an init that waits no longer for a stop.    *)
Kill == pc # "ended" /\ End("killed")

(* The kernel swaps pages in and out.                                      *)
SwapUse ==
    /\ used' \in 0 .. SwapTotal(active)
    /\ UNCHANGED <<conf, process, files, active, pressure, lost>>

PressureTurns ==
    /\ pressure' \in Level
    /\ UNCHANGED <<conf, process, kernel, lost>>

(* The service is started again, with what the last one left behind.       *)
Start ==
    /\ pc = "ended"
    /\ pc' = "init" /\ outcome' = "none"
    /\ UNCHANGED <<conf, prog_swap, new_chunk, handlers, handling, freed, kernel,
                   pressure, lost>>

(* The machine is: no swap survives, the files do.                         *)
Reboot ==
    /\ pc = "ended"
    /\ active' = {} /\ lost' = {} /\ used' = 0
    /\ UNCHANGED <<conf, process, files, pressure>>

-----------------------------------------------------------------------------
Allocating == AllocateSwap \/ OpenChunk \/ MakeSwap \/ SwapOn \/ PushChunk
Freeing == SwapOff \/ RemoveChunk \/ PopChunk
Process == \/ InitDynaswap \/ Poll \/ AllocDynaswap \/ FreeDynaswap
           \/ SetupSignals \/ Allocating \/ Freeing \/ FreeConfig \/ ExitClean

Next == \/ Process
        \/ \E s \in Signals : Signal(s)
        \/ Kill \/ SwapUse \/ PressureTurns \/ Start \/ Reboot

Spec == Init /\ [][Next]_vars

(* The process is scheduled and its calls return.                          *)
LiveSpec == Spec /\ WF_vars(Process)

-----------------------------------------------------------------------------
(* Properties.                                                             *)

ProcessOK ==
    /\ prog_swap \in Seq(Chunk) /\ Len(prog_swap) <= SWAP_MAX_COUNT
    /\ conf \in Configurations /\ freed \in BOOLEAN
    /\ pc \in {"init", "poll", "alloc_dynaswap", "free_dynaswap", "allocate",
               "fopen", "mkswap", "swapon", "push", "setup_signals", "swapoff",
               "remove", "pop", "exit", "ended"}
    /\ new_chunk \in Chunk
    /\ handlers \in 0 .. Sig /\ handling \subseteq 1 .. handlers
    /\ outcome \in {"none", "exit_0", "EXIT_SUCCESS", "EXIT_FAILURE", "SIGSEGV",
                    "SIGABRT", "killed"}

KernelOK ==
    /\ files \subseteq Chunk /\ active \subseteq Chunk /\ lost \subseteq Chunk
    /\ used \in 0 .. SwapTotal(active)
    /\ pressure \in Level

(* The list, the files and the swap areas are of chunks below              *)
(* SWAP_MAX_COUNT, and the pages in use fit in the swap there is.          *)
TypeOK == ProcessOK /\ KernelOK

(* The list holds chunks 0, 1, 2 ... in order: no two entries name one     *)
(* file, whatever was freed and allocated again in between.                *)
ListInOrder == \A k \in 1 .. Len(prog_swap) : prog_swap[k] = k - 1

(* Every chunk the kernel swaps to is on the list, in the hand of          *)
(* allocate_swap, or was lost in one of the ways the history counts: a     *)
(* swapoff that failed, a signal between swapon and the list, the end of   *)
(* a process that does not clean up.                                       *)
ActiveAccounted ==
    active \subseteq Tracked \cup lost \cup (IF pc = "push" THEN {new_chunk}
                                                        ELSE {})

(* "Always keep some swap": while the loop runs the first chunk is active, *)
(* for every configuration that is let in but that of a part size of one   *)
(* page.                                                                   *)
KeepsSomeSwap ==
    handlers = Sig /\ handling = {} /\ PartPages # 1 => 0 \in active

(* What is not caught when the configuration is read is caught before the  *)
(* loop: it runs with values that make sense, and chunks of a page or more.*)
LoopIsConfigured ==
    /\ pc \notin {"init", "ended"} =>
           /\ conf.SWAP_PATH = "directory"
           /\ {conf.SWAP_FULL_THRESHOLD, conf.SWAP_FREE_THRESHOLD} \subseteq 1 .. 100
           /\ {conf.PSI_SOME_STRESS, conf.PSI_FULL_STRESS} \subseteq Nat \ {0}
    /\ handlers # 0 \/ active # {} => PartPages >= 1

(* free_dynaswap decides to free a chunk only if the pages in use fit in   *)
(* the rest of the swap: for thresholds up to one half, and unless it is   *)
(* the only chunk that is active, as after a swapon that failed.  This is  *)
(* what poll_swap_usage sees (dynaswap.c:46); pages swapped out before     *)
(* swapoff is called are not looked at again.                              *)
FreesWhatFitted ==
    [][pc # "swapoff" /\ pc' = "swapoff" /\ handling' = {}
           /\ conf.SWAP_FREE_THRESHOLD <= 50 /\ active # {Newest}
       => used <= SwapTotal(active \ {Newest})]_vars

(* The service stops with every chunk deactivated.                         *)
ShutdownFreesAll == outcome = "exit_0" => active = {}

(* A signal, once its handler runs, ends the process, even if further ones *)
(* interrupt it and swapoff fails each time.                               *)
ShutdownFinishes == handling # {} ~> pc = "ended"

(* How many steps a handler takes at most until its exit, if no further    *)
(* signal interrupts it: three for every chunk on the list.                *)
HandlerSteps ==
    3 * Len(prog_swap) + (CASE pc = "swapoff" -> 2
                            [] pc = "remove" -> 1
                            [] pc \in {"pop", "exit"} -> 0)

(* Once a signal is handled nothing takes the service back to its loop and *)
(* no chunk is allocated or freed a second time: every step of a handler   *)
(* brings it nearer to its exit, whichever calls fail, and a signal that   *)
(* interrupts it is one that was not handled before.  This is the safety   *)
(* part of ShutdownFinishes.                                               *)
ShutdownAdvances ==
    [][handling # {} =>
           \/ pc' = "ended"
           \/ handling \subseteq handling' /\ handling' # handling
           \/ handling' = handling /\ UNCHANGED process
           \/ handling' = handling /\ HandlerSteps' \in 0 .. HandlerSteps - 1]_vars

(* When the memory stays under pressure and the swap is above its full     *)
(* threshold whenever it is looked at, chunks are added until the limit is *)
(* reached, or the process ends.                                           *)
StrainedAndFull ==
    /\ pressure = "STRAINED"
    /\ pc = "alloc_dynaswap" =>
           NoSwap \/ used * 100 > conf.SWAP_FULL_THRESHOLD * SwapTotal(active)

Grown == Len(prog_swap) = SWAP_MAX_COUNT \/ pc = "ended"

GrowsUnderPressure == <>[]StrainedAndFull => []<>Grown

(* When it stays calm and the swap is below its free threshold whenever it *)
(* is looked at, all chunks but the first are taken off the list again, or *)
(* the process ends.                                                       *)
CalmAndUnused ==
    /\ pressure = "CALM"
    /\ pc = "free_dynaswap" =>
           used * 100 < conf.SWAP_FREE_THRESHOLD * SwapTotal(active)

Shrunk == Len(prog_swap) = 1 \/ pc = "ended"

ShrinksWhenCalm == <>[]CalmAndUnused => []<>Shrunk

-----------------------------------------------------------------------------
(* The service as the machine sees it.                                     *)
PhaseSeen ==
    IF pc = "ended" THEN (IF outcome = "exit_0" THEN "stopped" ELSE "dead")
    ELSE IF handling # {} THEN "stopping"
    ELSE IF handlers = Sig THEN "running" ELSE "starting"

Pool == INSTANCE SwapPool WITH MaxAreas <- SWAP_MAX_COUNT, phase <- PhaseSeen,
                               managed <- Len(prog_swap), areas <- active

(* Whatever fails, and whichever signals interrupt it and each other, the  *)
(* service keeps a pool of swap areas that grows and shrinks at its end,   *)
(* never without the first while it runs.  It stops of its own only with   *)
(* none left to give up; killed while it stops it leaves the rest.         *)
ImplementsSwapPool == Pool!Spec
=============================================================================
