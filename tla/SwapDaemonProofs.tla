-------------------------- MODULE SwapDaemonProofs --------------------------
(***************************************************************************)
(* Theorems about SwapDaemon for any number of chunks, any configuration   *)
(* file, any signals and every set of calls that fail.                     *)
(*                                                                         *)
(* The invariant ties the label of the process to the chunk in its hand    *)
(* (Hand), to handlers, signals and list (Phase) and to what is known of   *)
(* the configuration by then (Sized).                                      *)
(***************************************************************************)
EXTENDS SwapDaemon, FiniteSetTheorems, SequenceTheorems, TLAPS

(* Where allocate_swap is under way it has the next number in hand.        *)
Hand ==
    IF pc \in {"fopen", "mkswap", "swapon", "push"}
    THEN new_chunk = Len(prog_swap) ELSE new_chunk = 0

(* Where the process is tells whether its handlers are installed, whether  *)
(* one of them runs, and what is on the list.                              *)
Phase ==
    /\ pc \in {"init", "ended"} => prog_swap = <<>> /\ handlers = 0
    /\ pc \in {"poll", "alloc_dynaswap", "free_dynaswap"} => handlers = Sig
    /\ pc = "setup_signals" => handlers # Sig /\ prog_swap # <<>>
    /\ pc \in {"allocate", "fopen", "mkswap", "swapon", "push"} /\ handlers # Sig =>
           handlers = 0 /\ prog_swap = <<>>
    /\ handling # {} =>
           handlers # 0 /\ pc \in {"swapoff", "remove", "pop", "exit"}
    /\ handlers # 0 /\ handling = {} => prog_swap # <<>>
    /\ pc \in {"swapoff", "remove", "pop", "exit"} => handlers # 0
    /\ pc \in {"remove", "pop"} => prog_swap # <<>>
    /\ pc \in {"swapoff", "remove", "pop"} /\ handling = {} =>
           handlers = Sig /\ Newest # 0
    /\ pc = "exit" => prog_swap = <<>> /\ handling # {}

(* The loop is reached only with a file that was read and found valid, and *)
(* a chunk is made only of a page or more.                                 *)
Sized ==
    /\ pc \notin {"init", "ended"} => ReadConfig(conf)
    /\ active # {} \/ handlers # 0 \/ pc \in {"swapon", "push", "setup_signals"} =>
           PartPages >= 1

(* As long as no handler runs, the first chunk is active once it is made.  *)
FirstActive ==
    PartPages # 1 /\ handling = {} /\ (prog_swap # <<>> \/ pc = "push") =>
        0 \in active

IInv == TypeOK /\ ListInOrder /\ Hand /\ Phase /\ Sized /\ ActiveAccounted

USE DEF Goto, End, process, kernel, Tracked, Newest, PartPages, Chunk

-----------------------------------------------------------------------------
(* The list and the sizes.                                                 *)

(* A chunk that is pushed is the last; the others stay where they are.     *)
LEMMA Pushing ==
    ASSUME NEW s \in Seq(Chunk), NEW c \in Chunk
    PROVE  /\ Append(s, c) \in Seq(Chunk) /\ Len(Append(s, c)) = Len(s) + 1
           /\ \A k \in 1 .. Len(s) : Append(s, c)[k] = s[k]
           /\ Append(s, c)[Len(s) + 1] = c
OBVIOUS

(* What is popped is the last; the others stay where they are.             *)
LEMMA Popping ==
    ASSUME NEW s \in Seq(Chunk), s # <<>>
    PROVE  /\ SubSeq(s, 1, Len(s) - 1) \in Seq(Chunk)
           /\ Len(SubSeq(s, 1, Len(s) - 1)) = Len(s) - 1
           /\ \A k \in 1 .. Len(s) - 1 : SubSeq(s, 1, Len(s) - 1)[k] = s[k]
<1>1. Len(s) \in Nat \ {0}
  BY EmptySeq
<1>2. \A k \in 1 .. Len(s) - 1 : s[k] \in Chunk
  <2> SUFFICES ASSUME NEW k \in 1 .. Len(s) - 1
               PROVE  s[k] \in Chunk
    OBVIOUS
  <2>1. k \in 1 .. Len(s)
    BY <1>1
  <2> QED
    BY <2>1, ElementOfSeq
<1>3. \A k \in 1 .. (Len(s) - 1) - 1 + 1 : SubSeq(s, 1, Len(s) - 1)[k] = s[1 + k - 1]
  BY <1>1, <1>2, SubSeqProperties
<1>4. /\ SubSeq(s, 1, Len(s) - 1) \in Seq(Chunk)
      /\ Len(SubSeq(s, 1, Len(s) - 1)) =
             IF 1 <= Len(s) - 1 THEN (Len(s) - 1) - 1 + 1 ELSE 0
  BY <1>1, <1>2, SubSeqProperties
<1>5. \A k \in 1 .. Len(s) - 1 : k \in 1 .. (Len(s) - 1) - 1 + 1 /\ 1 + k - 1 = k
  <2>1. \A n \in Nat \ {0} :
            \A k \in 1 .. n - 1 : k \in 1 .. (n - 1) - 1 + 1 /\ 1 + k - 1 = k
    OBVIOUS
  <2> QED
    BY <1>1, <2>1
<1>6. (IF 1 <= Len(s) - 1 THEN (Len(s) - 1) - 1 + 1 ELSE 0) = Len(s) - 1
  <2>1. \A n \in Nat \ {0} :
            (IF 1 <= n - 1 THEN (n - 1) - 1 + 1 ELSE 0) = n - 1
    OBVIOUS
  <2> QED
    BY <1>1, <2>1
<1> HIDE DEF Chunk
<1>7. \A k \in 1 .. Len(s) - 1 : SubSeq(s, 1, Len(s) - 1)[k] = s[k]
  BY <1>3, <1>5
<1> QED
  BY <1>4, <1>6, <1>7

(* A list in order of fewer chunks than there may be ends with a chunk     *)
(* whose successor is one, too.                                            *)
LEMMA Listed ==
    ASSUME IInv
    PROVE  /\ Len(prog_swap) \in Nat
           /\ prog_swap # <<>> => Len(prog_swap) >= 1
                                  /\ Newest = Len(prog_swap) - 1 /\ Newest \in Tracked
           /\ prog_swap = <<>> => Len(prog_swap) = 0 /\ Tracked = {}
<1>1. prog_swap \in Seq(Chunk)
  BY DEF IInv, TypeOK, ProcessOK
<1>2. CASE prog_swap = <<>>
  BY <1>2, EmptySeq
<1>3. CASE prog_swap # <<>>
  <2>1. Len(prog_swap) \in Nat \ {0}
    BY <1>1, <1>3, EmptySeq
  <2>2. Len(prog_swap) \in 1 .. Len(prog_swap)
    BY <2>1
  <2> QED
    BY <1>3, <2>1, <2>2 DEF IInv, ListInOrder
<1> QED
  BY <1>2, <1>3

(* A signal that is handled is one of those whose handler is installed.    *)
LEMMA Installed ==
    ASSUME IInv
    PROVE  /\ Sig \in Nat /\ Sig # 0 /\ handlers \in Nat /\ handlers <= Sig
           /\ \A s \in Signals : s <= handlers => handlers # 0 /\ s \in 1 .. handlers
BY SwapDaemonAssumption DEF IInv, TypeOK, ProcessOK, Signals

(* A process that ends leaves no list.                                     *)
LEMMA Ended ==
    ASSUME IInv, NEW how, End(how),
           how \in {"exit_0", "EXIT_SUCCESS", "EXIT_FAILURE", "SIGSEGV",
                    "SIGABRT", "killed"}
    PROVE  ProcessOK'
<1>1. /\ 0 \in Chunk /\ prog_swap' \in Seq(Chunk) /\ Len(prog_swap') <= SWAP_MAX_COUNT
      /\ 0 \in 0 .. Sig
  BY EmptySeq, SwapDaemonAssumption
<1> QED
  BY <1>1 DEF IInv, TypeOK, ProcessOK

(* Control that moves on changes nothing else.                             *)
LEMMA Moved ==
    ASSUME IInv, NEW label, Goto(label),
           label \in {"poll", "alloc_dynaswap", "free_dynaswap", "allocate",
                      "swapon", "setup_signals", "swapoff"}
    PROVE  ProcessOK'
BY DEF IInv, TypeOK, ProcessOK

(* The pages of some chunks are at most those of more chunks.              *)
LEMMA Room ==
    ASSUME NEW p \in Int, NEW S \in SUBSET Chunk, NEW T \in SUBSET S,
           S = {} \/ p >= 1
    PROVE  /\ Cardinality(S) \in Nat /\ (p - 1) * Cardinality(S) \in Nat
           /\ (p - 1) * Cardinality(T) \in Nat
           /\ (p - 1) * Cardinality(T) <= (p - 1) * Cardinality(S)
           /\ IsFiniteSet(S)
<1>1. IsFiniteSet(Chunk)
  BY SwapDaemonAssumption, FS_Interval
<1>2. IsFiniteSet(S) /\ IsFiniteSet(T)
  BY <1>1, FS_Subset
<1>3. Cardinality(S) \in Nat /\ Cardinality(T) \in Nat
      /\ Cardinality(T) <= Cardinality(S)
  <2>1. Cardinality(S) \in Nat
    BY <1>2, FS_CardinalityType
  <2>2. Cardinality(T) \in Nat
    BY <1>2, FS_CardinalityType
  <2>3. Cardinality(T) <= Cardinality(S)
    BY <1>2, FS_Subset
  <2> QED
    BY <2>1, <2>2, <2>3
<1>4. CASE S = {}
  <2>1. Cardinality(S) = 0 /\ Cardinality(T) = 0
    BY <1>4, FS_EmptySet
  <2> QED
    BY <1>2, <2>1
<1>5. CASE p >= 1
  <2>1. \A a, b, c \in Nat : a * b \in Nat /\ (b <= c => a * b <= a * c)
    OBVIOUS
  <2> QED
    BY <1>2, <1>3, <1>5, <2>1
<1> QED
  BY <1>4, <1>5

(* What poll_psi may lead to.                                              *)
LEMMA Polled ==
    ASSUME Poll
    PROVE  \/ \E label \in {"alloc_dynaswap", "free_dynaswap", "poll"} : Goto(label)
           \/ End("EXIT_FAILURE")
BY DEF Poll

(* The first chunk is never one too many.                                  *)
LEMMA Allowed ==
    ASSUME IInv, AllocateSwap
    PROVE  \/ /\ handlers = Sig /\ prog_swap # <<>> /\ Goto("poll")
           \/ /\ new_chunk' = Len(prog_swap) /\ pc' = "fopen"
              /\ UNCHANGED <<conf, prog_swap, handlers, handling, freed, outcome,
                             kernel, pressure, lost>>
BY Listed, SwapDaemonAssumption
   DEF IInv, Phase, AllocateSwap, AtLimit, Allocated

(* The values of the configuration file are numbers.                       *)
LEMMA Numbers ==
    ASSUME IInv
    PROVE  conf.SWAP_PART_SIZE \in Int /\ conf.SWAP_FREE_THRESHOLD \in Int
BY SwapDaemonAssumption DEF IInv, TypeOK, ProcessOK, Configuration

-----------------------------------------------------------------------------
(* A step leaves the process with a list of chunks, a label and a chunk in *)
(* hand.                                                                   *)
LEMMA ProcessOKKept == ASSUME IInv, Next PROVE ProcessOK'
<1>1. CASE InitDynaswap
  BY <1>1, Listed, SwapDaemonAssumption
     DEF IInv, TypeOK, ProcessOK, Hand, Phase, InitDynaswap, ParseArgs
<1>2. CASE Poll
  BY <1>2, Polled, Ended, Moved
<1>3. CASE AllocDynaswap \/ FreeDynaswap
  BY <1>3, Listed, SwapDaemonAssumption
     DEF IInv, TypeOK, ProcessOK, Hand, Phase, AllocDynaswap, FreeDynaswap
<1>4. CASE SetupSignals
  BY <1>4, Listed, SwapDaemonAssumption
     DEF IInv, TypeOK, ProcessOK, Hand, Phase, SetupSignals
<1>5. CASE AllocateSwap
  BY <1>5, Listed, SwapDaemonAssumption
     DEF IInv, TypeOK, ProcessOK, Hand, Phase, AllocateSwap, AtLimit,
         Allocated
<1>6. CASE OpenChunk \/ MakeSwap
  <2>1. \/ \E how \in {"SIGSEGV", "EXIT_FAILURE"} : End(how)
        \/ Goto("swapon")
        \/ pc' = "mkswap" /\ UNCHANGED <<conf, prog_swap, new_chunk, handlers,
                                         handling, freed, outcome>>
    BY <1>6 DEF OpenChunk, MakeSwap
  <2>2. CASE pc' = "mkswap" /\ UNCHANGED <<conf, prog_swap, new_chunk, handlers,
                                           handling, freed, outcome>>
    BY <2>2 DEF IInv, TypeOK, ProcessOK
  <2> QED
    BY <2>1, <2>2, Ended, Moved
<1>7. CASE SwapOn
  BY <1>7, Listed, SwapDaemonAssumption
     DEF IInv, TypeOK, ProcessOK, Hand, Phase, SwapOn
<1>8. CASE PushChunk
  <2>1. new_chunk \in Chunk /\ Len(prog_swap) < SWAP_MAX_COUNT
    BY <1>8, Listed, SwapDaemonAssumption
       DEF IInv, TypeOK, ProcessOK, Hand, PushChunk
  <2>2. prog_swap' \in Seq(Chunk) /\ Len(prog_swap') <= SWAP_MAX_COUNT
    BY <1>8, <2>1, Pushing, Listed, SwapDaemonAssumption
       DEF IInv, TypeOK, ProcessOK, PushChunk, Pushed
  <2>3. 0 \in Chunk
    BY SwapDaemonAssumption
  <2> QED
    BY <1>8, <2>2, <2>3 DEF IInv, TypeOK, ProcessOK, PushChunk, Allocated
<1>9. CASE SwapOff
  BY <1>9, Listed, SwapDaemonAssumption
     DEF IInv, TypeOK, ProcessOK, Hand, Phase, SwapOff
<1>10. CASE RemoveChunk
  BY <1>10, Listed, SwapDaemonAssumption
     DEF IInv, TypeOK, ProcessOK, Hand, Phase, RemoveChunk
<1>11. CASE PopChunk
  <2>1. prog_swap # <<>>
    BY <1>11 DEF IInv, Phase, PopChunk
  <2>2. prog_swap' \in Seq(Chunk) /\ Len(prog_swap') = Len(prog_swap) - 1
    BY <1>11, <2>1, Popping DEF IInv, TypeOK, ProcessOK, PopChunk, Popped
  <2>3. Len(prog_swap') <= SWAP_MAX_COUNT
    BY <2>2, Listed, SwapDaemonAssumption DEF IInv, TypeOK, ProcessOK
  <2> QED
    BY <1>11, <2>2, <2>3 DEF IInv, TypeOK, ProcessOK, PopChunk
<1>12. CASE FreeConfig \/ ExitClean \/ Kill
  <2>1. CASE pc' = "exit" /\ freed' = TRUE /\ UNCHANGED <<conf, prog_swap, new_chunk,
                                                        handlers, handling, outcome>>
    BY <2>1 DEF IInv, TypeOK, ProcessOK
  <2>2. CASE \E how \in {"SIGABRT", "exit_0", "killed"} : End(how)
    BY <2>2, Ended
  <2> QED
    BY <1>12, <2>1, <2>2 DEF FreeConfig, ExitClean, Kill
<1>13. CASE SwapUse \/ PressureTurns
  BY <1>13, Listed, SwapDaemonAssumption
     DEF IInv, TypeOK, ProcessOK, Hand, Phase, SwapUse, PressureTurns
<1>14. CASE Start \/ Reboot
  BY <1>14, Listed, SwapDaemonAssumption
     DEF IInv, TypeOK, ProcessOK, Hand, Phase, Start, Reboot
<1>15. ASSUME NEW s \in Signals, Signal(s) PROVE ProcessOK'
  <2>1. CASE s <= handlers
    <3>1. /\ handling' = handling \cup {s} /\ pc' = "swapoff" /\ new_chunk' = 0
          /\ UNCHANGED <<conf, prog_swap, handlers, freed, outcome>>
      BY <1>15, <2>1 DEF Signal
    <3>2. handling' \subseteq 1 .. handlers
      BY <2>1, <3>1, Installed DEF IInv, TypeOK, ProcessOK
    <3>3. 0 \in Chunk
      BY SwapDaemonAssumption
    <3> QED
      BY <3>1, <3>2, <3>3 DEF IInv, TypeOK, ProcessOK
  <2>2. CASE ~(s <= handlers)
    BY <1>15, <2>2, Ended DEF Signal
  <2> QED
    BY <2>1, <2>2
<1> QED
  BY <1>1, <1>2, <1>3, <1>4, <1>5, <1>6, <1>7, <1>8, <1>9, <1>10, <1>11, <1>12,
     <1>13, <1>14, <1>15
     DEF Next, Process, Allocating, Freeing

(* A chunk is pushed with the number that follows, and only the last is    *)
(* popped.                                                                 *)
LEMMA ListInOrderKept == ASSUME IInv, Next PROVE ListInOrder'
<1>1. CASE InitDynaswap
  BY <1>1, Listed
     DEF IInv, ListInOrder, Phase, InitDynaswap, ParseArgs
<1>2. CASE Poll
  <2>1. CASE End("EXIT_FAILURE")
    BY <2>1 DEF IInv, ListInOrder
  <2>2. ASSUME NEW label \in {"alloc_dynaswap", "free_dynaswap", "poll"}, Goto(label)
        PROVE  ListInOrder'
    BY <1>2, <2>2 DEF Poll, IInv, ListInOrder
  <2> QED
    BY <1>2, <2>1, <2>2, Polled
<1>3. CASE AllocDynaswap \/ FreeDynaswap
  BY <1>3, Listed
     DEF IInv, ListInOrder, Phase, AllocDynaswap, FreeDynaswap
<1>4. CASE SetupSignals
  BY <1>4, Listed
     DEF IInv, ListInOrder, Phase, SetupSignals
<1>5. CASE AllocateSwap
  BY <1>5, Listed
     DEF IInv, ListInOrder, Phase, AllocateSwap
<1>6. CASE OpenChunk \/ MakeSwap
  BY <1>6, Listed
     DEF IInv, ListInOrder, Phase, OpenChunk, MakeSwap
<1>7. CASE SwapOn
  BY <1>7, Listed
     DEF IInv, ListInOrder, Phase, SwapOn
<1>8. CASE PushChunk
  <2>1. new_chunk \in Chunk /\ new_chunk = Len(prog_swap)
    BY <1>8 DEF IInv, TypeOK, ProcessOK, Hand, PushChunk
  <2>2. prog_swap \in Seq(Chunk)
    BY DEF IInv, TypeOK, ProcessOK
  <2> QED
    BY <1>8, <2>1, <2>2, Pushing, Listed DEF IInv, ListInOrder, PushChunk, Pushed
<1>9. CASE SwapOff
  BY <1>9, Listed
     DEF IInv, ListInOrder, Phase, SwapOff
<1>10. CASE RemoveChunk
  BY <1>10, Listed
     DEF IInv, ListInOrder, Phase, RemoveChunk
<1>11. CASE PopChunk
  <2>1. prog_swap \in Seq(Chunk) /\ prog_swap # <<>>
    BY <1>11 DEF IInv, TypeOK, ProcessOK, Phase, PopChunk
  <2> QED
    BY <1>11, <2>1, Popping, Listed DEF IInv, ListInOrder, PopChunk, Popped
<1>12. CASE FreeConfig \/ ExitClean \/ Kill
  BY <1>12, Listed
     DEF IInv, ListInOrder, Phase, FreeConfig, ExitClean, Kill, AllFreed
<1>13. CASE SwapUse \/ PressureTurns
  BY <1>13, Listed
     DEF IInv, ListInOrder, Phase, SwapUse, PressureTurns
<1>14. CASE Start \/ Reboot
  BY <1>14, Listed
     DEF IInv, ListInOrder, Phase, Start, Reboot
<1>15. ASSUME NEW s \in Signals, Signal(s) PROVE ListInOrder'
  BY <1>15, Listed
     DEF IInv, ListInOrder, Phase, Signal
<1> QED
  BY <1>1, <1>2, <1>3, <1>4, <1>5, <1>6, <1>7, <1>8, <1>9, <1>10, <1>11, <1>12,
     <1>13, <1>14, <1>15
     DEF Next, Process, Allocating, Freeing

(* allocate_swap has the length of the list in hand, until it pushes it.   *)
LEMMA HandKept == ASSUME IInv, Next PROVE Hand'
<1>1. CASE InitDynaswap
  BY <1>1, Listed
     DEF IInv, TypeOK, ProcessOK, Hand, Phase, InitDynaswap, ParseArgs
<1>2. CASE Poll
  BY <1>2, Listed
     DEF IInv, TypeOK, ProcessOK, Hand, Phase, Poll
<1>3. CASE AllocDynaswap \/ FreeDynaswap
  BY <1>3, Listed
     DEF IInv, TypeOK, ProcessOK, Hand, Phase, AllocDynaswap, FreeDynaswap
<1>4. CASE SetupSignals
  BY <1>4, Listed
     DEF IInv, TypeOK, ProcessOK, Hand, Phase, SetupSignals
<1>5. CASE AllocateSwap
  BY <1>5, Listed
     DEF IInv, TypeOK, ProcessOK, Hand, Phase, AllocateSwap, AtLimit,
         Allocated
<1>6. CASE OpenChunk \/ MakeSwap
  BY <1>6, Listed
     DEF IInv, TypeOK, ProcessOK, Hand, Phase, OpenChunk, MakeSwap
<1>7. CASE SwapOn
  BY <1>7, Listed
     DEF IInv, TypeOK, ProcessOK, Hand, Phase, SwapOn
<1>8. CASE PushChunk
  BY <1>8, Listed
     DEF IInv, TypeOK, ProcessOK, Hand, Phase, PushChunk, Pushed, Allocated
<1>9. CASE SwapOff
  BY <1>9, Listed
     DEF IInv, TypeOK, ProcessOK, Hand, Phase, SwapOff
<1>10. CASE RemoveChunk
  BY <1>10, Listed
     DEF IInv, TypeOK, ProcessOK, Hand, Phase, RemoveChunk
<1>11. CASE PopChunk
  BY <1>11, Listed
     DEF IInv, TypeOK, ProcessOK, Hand, Phase, PopChunk, Popped
<1>12. CASE FreeConfig \/ ExitClean \/ Kill
  BY <1>12, Listed
     DEF IInv, TypeOK, ProcessOK, Hand, Phase, FreeConfig, ExitClean, Kill,
         AllFreed
<1>13. CASE SwapUse \/ PressureTurns
  BY <1>13, Listed
     DEF IInv, TypeOK, ProcessOK, Hand, Phase, SwapUse, PressureTurns
<1>14. CASE Start \/ Reboot
  BY <1>14, Listed
     DEF IInv, TypeOK, ProcessOK, Hand, Phase, Start, Reboot
<1>15. ASSUME NEW s \in Signals, Signal(s) PROVE Hand'
  BY <1>15, Listed
     DEF IInv, TypeOK, ProcessOK, Hand, Phase, Signal
<1> QED
  BY <1>1, <1>2, <1>3, <1>4, <1>5, <1>6, <1>7, <1>8, <1>9, <1>10, <1>11, <1>12,
     <1>13, <1>14, <1>15
     DEF Next, Process, Allocating, Freeing

(* Each step leads to a label with the handlers, signals and list it       *)
(* stands for: one chunk is left when the main loop frees one, since it    *)
(* never frees the first.                                                  *)
LEMMA PhaseKept == ASSUME IInv, Next PROVE Phase'
<1>1. CASE InitDynaswap
  BY <1>1, Listed
     DEF IInv, TypeOK, ProcessOK, Hand, Phase, InitDynaswap, ParseArgs
<1>2. CASE Poll
  <2>1. CASE End("EXIT_FAILURE")
    BY <2>1 DEF IInv, Phase
  <2>2. ASSUME NEW label \in {"alloc_dynaswap", "free_dynaswap", "poll"}, Goto(label)
        PROVE  Phase'
    BY <1>2, <2>2 DEF Poll, IInv, Phase
  <2> QED
    BY <1>2, <2>1, <2>2, Polled
<1>3. CASE AllocDynaswap \/ FreeDynaswap
  BY <1>3, Listed, Installed
     DEF IInv, Phase, AllocDynaswap, FreeDynaswap, FirstChunk
<1>4. CASE SetupSignals
  BY <1>4, Listed
     DEF IInv, TypeOK, ProcessOK, Hand, Phase, SetupSignals
<1>5. CASE AllocateSwap
  <2>1. CASE handlers = Sig /\ prog_swap # <<>> /\ Goto("poll")
    BY <1>5, <2>1 DEF AllocateSwap, IInv, Phase
  <2>2. CASE /\ new_chunk' = Len(prog_swap) /\ pc' = "fopen"
             /\ UNCHANGED <<conf, prog_swap, handlers, handling, freed, outcome,
                           kernel, pressure, lost>>
    BY <1>5, <2>2 DEF AllocateSwap, IInv, Phase
  <2> QED
    BY <1>5, <2>1, <2>2, Allowed
<1>6. CASE OpenChunk \/ MakeSwap
  BY <1>6, Listed
     DEF IInv, TypeOK, ProcessOK, Hand, Phase, OpenChunk, MakeSwap
<1>7. CASE SwapOn
  BY <1>7, Listed
     DEF IInv, TypeOK, ProcessOK, Hand, Phase, SwapOn
<1>8. CASE PushChunk
  BY <1>8, Listed
     DEF IInv, TypeOK, ProcessOK, Hand, Phase, PushChunk, Pushed, Allocated
<1>9. CASE SwapOff
  BY <1>9, Listed
     DEF IInv, TypeOK, ProcessOK, Hand, Phase, SwapOff
<1>10. CASE RemoveChunk
  BY <1>10, Listed
     DEF IInv, TypeOK, ProcessOK, Hand, Phase, RemoveChunk
<1>11. CASE PopChunk
  <2>1. prog_swap \in Seq(Chunk) /\ prog_swap # <<>> /\ Len(prog_swap) \in Nat \ {0}
    BY <1>11, EmptySeq DEF IInv, TypeOK, ProcessOK, Phase, PopChunk
  <2>2. /\ prog_swap' \in Seq(Chunk)
        /\ Len(prog_swap') = Len(prog_swap) - 1
    BY <1>11, <2>1, Popping DEF PopChunk, Popped
  <2>3. handling = {} => Len(prog_swap) > 1
    BY <1>11, <2>1, Listed DEF IInv, Phase, PopChunk
  <2>4. Len(prog_swap) > 1 => prog_swap' # <<>>
    BY <2>1, <2>2, EmptySeq
  <2> QED
    BY <1>11, <2>1, <2>3, <2>4 DEF IInv, TypeOK, ProcessOK, Phase, PopChunk
<1>12. CASE FreeConfig \/ ExitClean \/ Kill
  BY <1>12, Listed
     DEF IInv, TypeOK, ProcessOK, Hand, Phase, FreeConfig, ExitClean, Kill,
         AllFreed
<1>13. CASE SwapUse \/ PressureTurns
  BY <1>13, Listed
     DEF IInv, TypeOK, ProcessOK, Hand, Phase, SwapUse, PressureTurns
<1>14. CASE Start \/ Reboot
  BY <1>14, Listed
     DEF IInv, TypeOK, ProcessOK, Hand, Phase, Start, Reboot
<1>15. ASSUME NEW s \in Signals, Signal(s) PROVE Phase'
  BY <1>15, Listed, Installed
     DEF IInv, TypeOK, ProcessOK, Hand, Phase, Signal
<1> QED
  BY <1>1, <1>2, <1>3, <1>4, <1>5, <1>6, <1>7, <1>8, <1>9, <1>10, <1>11, <1>12,
     <1>13, <1>14, <1>15
     DEF Next, Process, Allocating, Freeing

(* The configuration is read before anything else, and a chunk that mkswap *)
(* formats has a page.                                                     *)
LEMMA SizedKept == ASSUME IInv, Next PROVE Sized'
<1>1. CASE InitDynaswap
  BY <1>1, Numbers
     DEF IInv, TypeOK, KernelOK, Phase, Sized, InitDynaswap
<1>2. CASE Poll
  BY <1>2, Numbers
     DEF IInv, TypeOK, KernelOK, Phase, Sized, Poll
<1>3. CASE AllocDynaswap \/ FreeDynaswap
  BY <1>3, Numbers
     DEF IInv, TypeOK, KernelOK, Phase, Sized, AllocDynaswap, FreeDynaswap
<1>4. CASE SetupSignals
  BY <1>4, Numbers
     DEF IInv, TypeOK, KernelOK, Phase, Sized, SetupSignals
<1>5. CASE AllocateSwap
  <2>1. CASE handlers = Sig /\ prog_swap # <<>> /\ Goto("poll")
    BY <1>5, <2>1 DEF AllocateSwap, IInv, Phase, Sized
  <2>2. CASE /\ new_chunk' = Len(prog_swap) /\ pc' = "fopen"
             /\ UNCHANGED <<conf, prog_swap, handlers, handling, freed, outcome,
                           kernel, pressure, lost>>
    BY <1>5, <2>2 DEF AllocateSwap, IInv, Phase, Sized
  <2> QED
    BY <1>5, <2>1, <2>2, Allowed
<1>6. CASE OpenChunk \/ MakeSwap
  BY <1>6, Numbers
     DEF IInv, TypeOK, KernelOK, Phase, Sized, OpenChunk, MakeSwap
<1>7. CASE SwapOn
  BY <1>7, Numbers
     DEF IInv, TypeOK, KernelOK, Phase, Sized, SwapOn
<1>8. CASE PushChunk
  BY <1>8, Numbers
     DEF IInv, TypeOK, KernelOK, Phase, Sized, PushChunk, Pushed, Allocated
<1>9. CASE SwapOff
  BY <1>9, Numbers
     DEF IInv, TypeOK, KernelOK, Phase, Sized, SwapOff
<1>10. CASE RemoveChunk
  BY <1>10, Numbers
     DEF IInv, TypeOK, KernelOK, Phase, Sized, RemoveChunk
<1>11. CASE PopChunk
  BY <1>11, Numbers
     DEF IInv, TypeOK, KernelOK, Phase, Sized, PopChunk, Popped
<1>12. CASE FreeConfig \/ ExitClean \/ Kill
  BY <1>12, Numbers
     DEF IInv, TypeOK, KernelOK, Phase, Sized, FreeConfig, ExitClean, Kill,
         AllFreed
<1>13. CASE SwapUse \/ PressureTurns
  BY <1>13, Numbers
     DEF IInv, TypeOK, KernelOK, Phase, Sized, SwapUse, PressureTurns
<1>14. CASE Start \/ Reboot
  BY <1>14, Numbers
     DEF IInv, TypeOK, KernelOK, Phase, Sized, Start, Reboot
<1>15. ASSUME NEW s \in Signals, Signal(s) PROVE Sized'
  BY <1>15, Installed DEF IInv, Phase, Sized, Signal
<1> QED
  BY <1>1, <1>2, <1>3, <1>4, <1>5, <1>6, <1>7, <1>8, <1>9, <1>10, <1>11, <1>12,
     <1>13, <1>14, <1>15
     DEF Next, Process, Allocating, Freeing

(* An active chunk that leaves the list, or the hand, is counted as lost.  *)
LEMMA ActiveAccountedKept == ASSUME IInv, Next PROVE ActiveAccounted'
<1>1. CASE InitDynaswap
  BY <1>1, Listed
     DEF IInv, Phase, Hand, ActiveAccounted, InitDynaswap
<1>2. CASE Poll
  BY <1>2, Listed
     DEF IInv, Phase, Hand, ActiveAccounted, Poll
<1>3. CASE AllocDynaswap \/ FreeDynaswap
  BY <1>3, Listed
     DEF IInv, Phase, Hand, ActiveAccounted, AllocDynaswap, FreeDynaswap
<1>4. CASE SetupSignals
  BY <1>4, Listed
     DEF IInv, Phase, Hand, ActiveAccounted, SetupSignals
<1>5. CASE AllocateSwap
  BY <1>5, Listed
     DEF IInv, Phase, Hand, ActiveAccounted, AllocateSwap
<1>6. CASE OpenChunk \/ MakeSwap
  BY <1>6, Listed
     DEF IInv, Phase, Hand, ActiveAccounted, OpenChunk, MakeSwap
<1>7. CASE SwapOn
  BY <1>7, Listed
     DEF IInv, Phase, Hand, ActiveAccounted, SwapOn
<1>8. CASE PushChunk
  BY <1>8, Listed
     DEF IInv, Phase, Hand, ActiveAccounted, PushChunk, Pushed, Allocated
<1>9. CASE SwapOff
  BY <1>9, Listed
     DEF IInv, Phase, Hand, ActiveAccounted, SwapOff
<1>10. CASE RemoveChunk
  BY <1>10, Listed
     DEF IInv, Phase, Hand, ActiveAccounted, RemoveChunk
<1>11. CASE PopChunk
  BY <1>11, Listed
     DEF IInv, Phase, Hand, ActiveAccounted, PopChunk, Popped
<1>12. CASE FreeConfig \/ ExitClean \/ Kill
  BY <1>12, Listed
     DEF IInv, Phase, Hand, ActiveAccounted, FreeConfig, ExitClean, Kill, AllFreed
<1>13. CASE SwapUse \/ PressureTurns
  BY <1>13, Listed
     DEF IInv, Phase, Hand, ActiveAccounted, SwapUse, PressureTurns
<1>14. CASE Start \/ Reboot
  BY <1>14, Listed
     DEF IInv, Phase, Hand, ActiveAccounted, Start, Reboot
<1>15. ASSUME NEW s \in Signals, Signal(s) PROVE ActiveAccounted'
  BY <1>15, Listed
     DEF IInv, Phase, Hand, ActiveAccounted, Signal
<1> QED
  BY <1>1, <1>2, <1>3, <1>4, <1>5, <1>6, <1>7, <1>8, <1>9, <1>10, <1>11, <1>12,
     <1>13, <1>14, <1>15
     DEF Next, Process, Allocating, Freeing

(* The pages in use follow the swap areas: swapoff moves them elsewhere,   *)
(* swapon only adds room.                                                  *)
LEMMA KernelOKKept == ASSUME IInv, Next PROVE KernelOK'
<1>1. CASE InitDynaswap
  BY <1>1, Numbers
     DEF IInv, TypeOK, ProcessOK, KernelOK, Sized, SwapTotal, InitDynaswap
<1>2. CASE Poll
  BY <1>2, Numbers
     DEF IInv, TypeOK, ProcessOK, KernelOK, Sized, SwapTotal, Poll
<1>3. CASE AllocDynaswap \/ FreeDynaswap
  BY <1>3, Numbers
     DEF IInv, TypeOK, ProcessOK, KernelOK, Sized, SwapTotal, AllocDynaswap,
         FreeDynaswap
<1>4. CASE SetupSignals
  BY <1>4, Numbers
     DEF IInv, TypeOK, ProcessOK, KernelOK, Sized, SwapTotal, SetupSignals
<1>5. CASE AllocateSwap
  BY <1>5, Numbers
     DEF IInv, TypeOK, ProcessOK, KernelOK, Sized, SwapTotal, AllocateSwap
<1>6. CASE OpenChunk \/ MakeSwap
  BY <1>6, Numbers
     DEF IInv, TypeOK, ProcessOK, KernelOK, Sized, SwapTotal, OpenChunk,
         MakeSwap
<1>7. CASE SwapOn
  <2>1. PartPages \in Int /\ new_chunk \in Chunk /\ active \subseteq Chunk
    BY Numbers DEF IInv, TypeOK, ProcessOK, KernelOK
  <2>2. CASE active' = active
    BY <1>7, <2>2 DEF IInv, TypeOK, KernelOK, SwapTotal, SwapOn
  <2>3. CASE active' = active \cup {new_chunk} /\ PartPages > 1
    <3>1. /\ (PartPages - 1) * Cardinality(active) \in Nat
          /\ (PartPages - 1) * Cardinality(active') \in Nat
          /\ (PartPages - 1) * Cardinality(active)
                 <= (PartPages - 1) * Cardinality(active')
      BY <2>1, <2>3, Room
    <3>2. ForeignPages \in Nat /\ PartPages' = PartPages
      BY <1>7, SwapDaemonAssumption DEF SwapOn
    <3>3. used \in 0 .. SwapTotal(active)'
      BY <3>1, <3>2 DEF IInv, TypeOK, KernelOK, SwapTotal
    <3> QED
      BY <1>7, <2>1, <2>3, <3>3 DEF IInv, TypeOK, KernelOK, SwapOn
  <2> QED
    BY <1>7, <2>2, <2>3 DEF SwapOn
<1>8. CASE PushChunk
  BY <1>8, Numbers
     DEF IInv, TypeOK, ProcessOK, KernelOK, Sized, SwapTotal, PushChunk,
         Pushed, Allocated
<1>9. CASE SwapOff
  <2>1. PICK left \in SUBSET active :
           /\ active' = left
           /\ used' = IF used > SwapTotal(left) THEN SwapTotal(left) ELSE used
    BY <1>9 DEF SwapOff
  <2>2. SwapTotal(left) \in Nat
    <3>1. PartPages \in Int /\ left \subseteq Chunk /\ (active = {} \/ PartPages >= 1)
      BY <2>1, Numbers DEF IInv, TypeOK, KernelOK, Sized
    <3>2. (PartPages - 1) * Cardinality(left) \in Nat
      BY <3>1, Room
    <3> QED
      BY <3>2, SwapDaemonAssumption DEF SwapTotal
  <2>3. SwapTotal(active)' = SwapTotal(left)
    BY <1>9, <2>1 DEF SwapOff, SwapTotal
  <2>4. used \in Nat
    BY DEF IInv, TypeOK, KernelOK
  <2>5. used' \in 0 .. SwapTotal(active)'
    BY <2>1, <2>2, <2>3, <2>4
  <2> QED
    BY <1>9, <2>1, <2>5 DEF IInv, TypeOK, KernelOK, SwapOff
<1>10. CASE RemoveChunk
  BY <1>10, Numbers
     DEF IInv, TypeOK, ProcessOK, KernelOK, Sized, SwapTotal, RemoveChunk
<1>11. CASE PopChunk
  BY <1>11, Numbers
     DEF IInv, TypeOK, ProcessOK, KernelOK, Sized, SwapTotal, PopChunk,
         Popped
<1>12. CASE FreeConfig \/ ExitClean \/ Kill
  BY <1>12, Numbers
     DEF IInv, TypeOK, ProcessOK, KernelOK, Sized, SwapTotal, FreeConfig,
         ExitClean, Kill, AllFreed
<1>13. CASE SwapUse \/ PressureTurns
  BY <1>13, Numbers
     DEF IInv, TypeOK, ProcessOK, KernelOK, Sized, SwapTotal, SwapUse,
         PressureTurns
<1>14. CASE Start \/ Reboot
  <2>1. CASE Start
    BY <2>1 DEF IInv, TypeOK, KernelOK, SwapTotal, Start
  <2>2. CASE Reboot
    <3>1. SwapTotal({})' \in Nat
      BY <2>2, FS_EmptySet, Numbers, SwapDaemonAssumption DEF SwapTotal, Reboot
    <3> QED
      BY <2>2, <3>1 DEF IInv, TypeOK, KernelOK, Reboot
  <2> QED
    BY <1>14, <2>1, <2>2
<1>15. ASSUME NEW s \in Signals, Signal(s) PROVE KernelOK'
  BY <1>15, Numbers
     DEF IInv, TypeOK, ProcessOK, KernelOK, Sized, SwapTotal, Signal
<1> QED
  BY <1>1, <1>2, <1>3, <1>4, <1>5, <1>6, <1>7, <1>8, <1>9, <1>10, <1>11, <1>12,
     <1>13, <1>14, <1>15
     DEF Next, Process, Allocating, Freeing

-----------------------------------------------------------------------------
(* A service that has not started yet satisfies the invariant.             *)
LEMMA InitOK == Init => IInv
<1> SUFFICES ASSUME Init PROVE IInv
  OBVIOUS
<1>1. SwapTotal(active) = ForeignPages
  <2>1. Cardinality(active) = 0
    BY FS_EmptySet DEF Init
  <2>2. conf.SWAP_PART_SIZE \in Int
    BY SwapDaemonAssumption DEF Init, Configuration
  <2> QED
    BY <2>1, <2>2, SwapDaemonAssumption DEF SwapTotal
<1>2. KernelOK
  BY <1>1 DEF Init, KernelOK
<1>3. ProcessOK
  <2>1. /\ 0 \in Chunk /\ <<>> \in Seq(Chunk) /\ Len(<<>>) <= SWAP_MAX_COUNT
        /\ 0 \in 0 .. Sig
    BY EmptySeq, SwapDaemonAssumption
  <2> QED
    BY <2>1 DEF Init, ProcessOK
<1>4. ListInOrder
  BY EmptySeq DEF Init, ListInOrder
<1> QED
  BY <1>2, <1>3, <1>4, EmptySeq
     DEF Init, IInv, TypeOK, Hand, Phase, Sized, ActiveAccounted

(* The invariant reads the variables of the specification only.            *)
LEMMA StutterOK == IInv /\ UNCHANGED vars => IInv'
BY DEF vars, IInv, TypeOK, ProcessOK, KernelOK, SwapTotal, ListInOrder, Hand,
       Phase, Sized, ActiveAccounted

(* The inductive invariant holds in every behaviour.                       *)
THEOREM Invariance == Spec => []IInv
<1>1. IInv /\ [Next]_vars => IInv'
  BY StutterOK, ProcessOKKept, ListInOrderKept, HandKept, PhaseKept, SizedKept,
     ActiveAccountedKept, KernelOKKept
     DEF IInv, TypeOK
<1> QED
  BY InitOK, <1>1, PTL DEF Spec

(* Every variable keeps its type, and the pages in use always fit in the   *)
(* swap there is, for every size of a chunk a configuration may state.     *)
THEOREM TypeCorrect == Spec => []TypeOK
<1>1. IInv => TypeOK
  BY DEF IInv
<1> QED
  BY Invariance, <1>1, PTL

(* The list holds the chunks 0, 1, 2 ... whatever is allocated and freed,  *)
(* so no two of its entries are one file.                                  *)
THEOREM ListStaysInOrder == Spec => []ListInOrder
<1>1. IInv => ListInOrder
  BY DEF IInv
<1> QED
  BY Invariance, <1>1, PTL

(* No chunk stays active unknown to the process, but those that failed     *)
(* calls, signals and earlier processes account for.                       *)
THEOREM ActiveIsAccounted == Spec => []ActiveAccounted
<1>1. IInv => ActiveAccounted
  BY DEF IInv
<1> QED
  BY Invariance, <1>1, PTL

(* The loop and every chunk rest on a configuration that makes sense.      *)
THEOREM LoopAlwaysConfigured == Spec => []LoopIsConfigured
<1>1. IInv => LoopIsConfigured
  <2> SUFFICES ASSUME IInv PROVE LoopIsConfigured
    OBVIOUS
  <2>1. /\ conf.SWAP_FULL_THRESHOLD \in Int /\ conf.SWAP_FREE_THRESHOLD \in Int
        /\ conf.PSI_SOME_STRESS \in Int /\ conf.PSI_FULL_STRESS \in Int
    BY SwapDaemonAssumption DEF IInv, TypeOK, ProcessOK, Configuration
  <2> QED
    BY <2>1 DEF IInv, Sized, LoopIsConfigured, ReadConfig, ValidateConfig,
       ValidThreshold, ValidStress
<1> QED
  BY Invariance, <1>1, PTL

(* The steps of a handler, one after the other.                            *)
LEMMA HandlerNearer ==
    ASSUME IInv, handling # {}, Freeing \/ FreeConfig \/ ExitClean
    PROVE  \/ pc' = "ended"
           \/ handling' = handling /\ HandlerSteps' \in 0 .. HandlerSteps - 1
<1>1. prog_swap \in Seq(Chunk) /\ Len(prog_swap) \in Nat
  BY DEF IInv, TypeOK, ProcessOK
<1>2. CASE SwapOff \/ RemoveChunk
  BY <1>1, <1>2 DEF SwapOff, RemoveChunk, HandlerSteps
<1>3. CASE PopChunk
  <2>1. pc = "pop" /\ pc' = "swapoff" /\ handling' = handling /\ prog_swap # <<>>
    BY <1>3 DEF PopChunk, IInv, Phase
  <2>2. Len(prog_swap') = Len(prog_swap) - 1 /\ Len(prog_swap) # 0
    BY <1>1, <1>3, <2>1, Popping, EmptySeq DEF PopChunk, Popped
  <2>3. HandlerSteps = 3 * Len(prog_swap) /\ HandlerSteps' = 3 * Len(prog_swap') + 2
    BY <1>1, <2>1 DEF HandlerSteps
  <2> QED
    BY <1>1, <2>1, <2>2, <2>3
<1>4. CASE FreeConfig
  BY <1>1, <1>4 DEF FreeConfig, HandlerSteps
<1>5. CASE ExitClean
  BY <1>5 DEF ExitClean
<1> QED
  BY <1>2, <1>3, <1>4, <1>5 DEF Freeing

(* A service that has been signalled only gets nearer to its exit.         *)
THEOREM ShutdownNearer == Spec => ShutdownAdvances
<1>1. IInv /\ [Next]_vars =>
          [handling # {} =>
               \/ pc' = "ended"
               \/ handling \subseteq handling' /\ handling' # handling
               \/ handling' = handling /\ UNCHANGED process
               \/ handling' = handling /\ HandlerSteps' \in 0 .. HandlerSteps - 1]_vars
  <2> SUFFICES ASSUME IInv, Next, handling # {}
               PROVE  \/ pc' = "ended"
                      \/ handling \subseteq handling' /\ handling' # handling
                      \/ handling' = handling /\ UNCHANGED process
                      \/ handling' = handling /\ HandlerSteps' \in 0 .. HandlerSteps - 1
    OBVIOUS
  <2>1. pc \in {"swapoff", "remove", "pop", "exit"}
    BY DEF IInv, Phase
  <2>2. CASE Process
    <3>1. Freeing \/ FreeConfig \/ ExitClean
      BY <2>1, <2>2 DEF Process, InitDynaswap, Poll, AllocDynaswap, FreeDynaswap,
         SetupSignals, Allocating, AllocateSwap, OpenChunk, MakeSwap, SwapOn, PushChunk
    <3> QED
      BY <3>1, HandlerNearer
  <2>3. CASE Kill \/ \E s \in Signals : Signal(s)
    BY <2>1, <2>3 DEF Signal, Kill
  <2>4. CASE SwapUse \/ PressureTurns \/ Start \/ Reboot
    BY <2>1, <2>4 DEF SwapUse, PressureTurns, Start, Reboot
  <2> QED
    BY <2>2, <2>3, <2>4 DEF Next
<1> QED
  BY Invariance, <1>1, PTL DEF Spec, ShutdownAdvances

(* free_dynaswap decides to free a chunk only if the pages in use fit in   *)
(* those that remain, for thresholds up to one half, whichever calls fail: *)
(* half of all is at most what is left of two chunks or more.              *)
THEOREM FreesOnlyWhatFitted == Spec => FreesWhatFitted
<1>1. IInv /\ [Next]_vars =>
          [pc # "swapoff" /\ pc' = "swapoff" /\ handling' = {}
               /\ conf.SWAP_FREE_THRESHOLD <= 50 /\ active # {Newest}
           => used <= SwapTotal(active \ {Newest})]_vars
  <2> SUFFICES ASSUME IInv, Next, pc # "swapoff", pc' = "swapoff",
                      handling' = {}, conf.SWAP_FREE_THRESHOLD <= 50,
                      active # {Newest}
               PROVE  used <= SwapTotal(active \ {Newest})
    OBVIOUS
  <2>1. FreeDynaswap
    <3>1. CASE InitDynaswap \/ Poll \/ AllocDynaswap \/ SetupSignals
      BY <3>1 DEF InitDynaswap, Poll, AllocDynaswap, SetupSignals, ParseArgs
    <3>2. CASE Allocating
      BY <3>2 DEF Allocating, AllocateSwap, OpenChunk, MakeSwap, SwapOn, PushChunk,
         Allocated
    <3>3. CASE Freeing \/ FreeConfig \/ ExitClean \/ Kill
      BY <3>3 DEF Freeing, SwapOff, RemoveChunk, PopChunk, FreeConfig, ExitClean, Kill
    <3>4. ASSUME NEW s \in Signals, Signal(s) PROVE FALSE
      BY <3>4 DEF Signal
    <3>5. CASE SwapUse \/ PressureTurns \/ Start \/ Reboot
      BY <3>5 DEF SwapUse, PressureTurns, Start, Reboot
    <3> QED
      BY <3>1, <3>2, <3>3, <3>4, <3>5 DEF Next, Process
  <2> DEFINE p == PartPages
             n == Cardinality(active)
             m == Cardinality(active \ {Newest})
  <2>2. used * 100 <= conf.SWAP_FREE_THRESHOLD * SwapTotal(active)
    BY <2>1 DEF FreeDynaswap, SwapFreeable
  <2>3. /\ p \in Int /\ p >= 1 /\ conf.SWAP_FREE_THRESHOLD \in Int
        /\ active \subseteq Chunk
    BY <2>1, Numbers, Installed
       DEF IInv, TypeOK, KernelOK, Sized, Phase, FreeDynaswap
  <2>4. IsFiniteSet(active) /\ n \in Nat /\ (p - 1) * n \in Nat
    BY <2>3, Room
  <2>5. m \in Nat /\ (Newest \notin active => m = n) /\ (Newest \in active => m = n - 1)
    BY <2>4, FS_RemoveElement, FS_CardinalityType
  <2>6. Newest \in active => m >= 1
    <3>1. IsFiniteSet(active \ {Newest})
      BY <2>4, FS_RemoveElement
    <3>2. m = 0 <=> active \ {Newest} = {}
      BY <3>1, FS_EmptySet, Zenon
    <3>3. Newest \in active => active \ {Newest} # {}
      OBVIOUS
    <3> QED
      BY <3>2, <3>3, <2>5
  <2>7. n <= 2 * m
    BY <2>4, <2>5, <2>6
  <2>8. used \in Nat /\ ForeignPages \in Nat
        /\ used * 100 <= conf.SWAP_FREE_THRESHOLD * (ForeignPages + (p - 1) * n)
    BY <2>2, SwapDaemonAssumption DEF IInv, TypeOK, KernelOK, SwapTotal
  <2> SUFFICES used <= ForeignPages + (p - 1) * m
    BY DEF SwapTotal
  <2> HIDE DEF p, n, m
  <2>9. used * 100 <= 50 * (ForeignPages + (p - 1) * n)
    <3>1. \A x, y \in Int, z \in Nat : x <= y => x * z <= y * z
      OBVIOUS
    <3>2. ForeignPages + (p - 1) * n \in Nat
      BY <2>4, <2>8
    <3>3. conf.SWAP_FREE_THRESHOLD * (ForeignPages + (p - 1) * n)
              <= 50 * (ForeignPages + (p - 1) * n)
      BY <3>1, <3>2, <2>3
    <3>4. conf.SWAP_FREE_THRESHOLD * (ForeignPages + (p - 1) * n) \in Int
      <4>1. \A x \in Int, y \in Nat : x * y \in Int
        OBVIOUS
      <4> QED
        BY <4>1, <3>2, <2>3
    <3> QED
      BY <3>2, <3>3, <3>4, <2>8
  <2>10. (p - 1) * n <= 2 * ((p - 1) * m) /\ (p - 1) * m \in Nat
    <3>1. \A x, y, z \in Nat : y <= 2 * z => x * y <= 2 * (x * z) /\ x * z \in Nat
      <4> TAKE x, y, z \in Nat
      <4> HAVE y <= 2 * z
      <4>1. \A a \in Nat : y <= a => x * y <= x * a
        OBVIOUS
      <4>2. x * (2 * z) = 2 * (x * z)
        OBVIOUS
      <4>3. 2 * z \in Nat /\ x * z \in Nat
        OBVIOUS
      <4> QED
        BY <4>1, <4>2, <4>3
    <3>2. p - 1 \in Nat
      BY <2>3
    <3> QED
      BY <3>1, <3>2, <2>4, <2>5, <2>7
  <2> QED
    BY <2>4, <2>8, <2>9, <2>10
<1> QED
  BY Invariance, <1>1, PTL DEF Spec, FreesWhatFitted

-----------------------------------------------------------------------------
(* What holds when swapon does not fail.                                   *)

(* A step keeps the first chunk active: it is freed by a handler only.     *)
LEMMA FirstActiveKept ==
    ASSUME IInv, FirstActive, Next, "swapon" \notin Fault
    PROVE  FirstActive'
<1>1. CASE InitDynaswap
  BY <1>1, Listed
     DEF IInv, Phase, FirstActive, InitDynaswap
<1>2. CASE Poll
  <2>1. CASE End("EXIT_FAILURE")
    BY <2>1 DEF FirstActive
  <2>2. ASSUME NEW label \in {"alloc_dynaswap", "free_dynaswap", "poll"}, Goto(label)
        PROVE  FirstActive'
    BY <1>2, <2>2 DEF Poll, FirstActive
  <2> QED
    BY <1>2, <2>1, <2>2, Polled
<1>3. CASE AllocDynaswap \/ FreeDynaswap
  BY <1>3, Listed
     DEF IInv, Phase, FirstActive, AllocDynaswap, FreeDynaswap
<1>4. CASE SetupSignals
  BY <1>4, Listed
     DEF IInv, Phase, FirstActive, SetupSignals
<1>5. CASE AllocateSwap
  <2>1. CASE handlers = Sig /\ prog_swap # <<>> /\ Goto("poll")
    BY <1>5, <2>1 DEF AllocateSwap, IInv, Phase, FirstActive
  <2>2. CASE /\ new_chunk' = Len(prog_swap) /\ pc' = "fopen"
             /\ UNCHANGED <<conf, prog_swap, handlers, handling, freed, outcome,
                           kernel, pressure, lost>>
    BY <1>5, <2>2 DEF AllocateSwap, IInv, Phase, FirstActive
  <2> QED
    BY <1>5, <2>1, <2>2, Allowed
<1>6. CASE OpenChunk \/ MakeSwap
  BY <1>6, Listed
     DEF IInv, Phase, FirstActive, OpenChunk, MakeSwap
<1>7. CASE SwapOn
  <2>1. PartPages >= 1 /\ PartPages \in Int
    BY <1>7, Numbers DEF IInv, Sized, SwapOn
  <2>2. PartPages # 1 => active' = active \cup {new_chunk}
    BY <1>7, <2>1 DEF SwapOn, Outcome
  <2>3. prog_swap = <<>> => new_chunk = 0
    BY <1>7, Listed DEF IInv, Hand, SwapOn
  <2> QED
    BY <1>7, <2>2, <2>3 DEF FirstActive, SwapOn
<1>8. CASE PushChunk
  BY <1>8, Listed
     DEF IInv, Phase, FirstActive, PushChunk, Pushed, Allocated
<1>9. CASE SwapOff
  BY <1>9, Listed
     DEF IInv, Phase, FirstActive, SwapOff
<1>10. CASE RemoveChunk
  BY <1>10, Listed
     DEF IInv, Phase, FirstActive, RemoveChunk
<1>11. CASE PopChunk
  BY <1>11, Listed
     DEF IInv, Phase, FirstActive, PopChunk, Popped
<1>12. CASE FreeConfig \/ ExitClean \/ Kill
  BY <1>12, Listed
     DEF IInv, Phase, FirstActive, FreeConfig, ExitClean, Kill, AllFreed
<1>13. CASE SwapUse \/ PressureTurns
  BY <1>13, Listed
     DEF IInv, Phase, FirstActive, SwapUse, PressureTurns
<1>14. CASE Start \/ Reboot
  BY <1>14, Listed
     DEF IInv, Phase, FirstActive, Start, Reboot
<1>15. ASSUME NEW s \in Signals, Signal(s) PROVE FirstActive'
  BY <1>15, Listed
     DEF IInv, Phase, FirstActive, Signal
<1> QED
  BY <1>1, <1>2, <1>3, <1>4, <1>5, <1>6, <1>7, <1>8, <1>9, <1>10, <1>11, <1>12,
     <1>13, <1>14, <1>15
     DEF Next, Process, Allocating, Freeing

(* "Always keep some swap": the loop never runs without its first chunk,   *)
(* unless chunks are all header, as long as swapon does not fail.          *)
THEOREM SomeSwapKept ==
    ASSUME "swapon" \notin Fault
    PROVE  Spec => []KeepsSomeSwap
<1>1. Init => IInv /\ FirstActive
  BY InitOK DEF Init, FirstActive
<1>2. IInv /\ FirstActive /\ [Next]_vars => (IInv /\ FirstActive)'
  <2>1. ASSUME IInv, [Next]_vars PROVE IInv'
    BY <2>1, StutterOK, ProcessOKKept, ListInOrderKept, HandKept, PhaseKept,
       SizedKept, ActiveAccountedKept, KernelOKKept
       DEF IInv, TypeOK
  <2>2. FirstActive /\ UNCHANGED vars => FirstActive'
    BY DEF vars, FirstActive
  <2> QED
    BY <2>1, <2>2, FirstActiveKept
<1>3. IInv /\ FirstActive => KeepsSomeSwap
  BY Installed DEF IInv, Phase, FirstActive, KeepsSomeSwap
<1> QED
  BY <1>1, <1>2, <1>3, PTL DEF Spec
=============================================================================
