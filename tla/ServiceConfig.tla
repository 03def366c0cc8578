--------------------------- MODULE ServiceConfig ---------------------------
(***************************************************************************)
(* How the service reads its command line and its configuration file       *)
(* (service/src/config.c).  A configuration is a record: what the file     *)
(* says under each key, and the keys it has at all, with a value of the    *)
(* right type.  Thresholds are in percent; a size is a number of pages and *)
(* the suffix it is written with.                                          *)
(***************************************************************************)
EXTENDS Integers, Sequences

Key == {"SWAP_PATH", "SWAP_PART_SIZE", "SWAP_FULL_THRESHOLD",
        "SWAP_FREE_THRESHOLD", "PSI_SOME_STRESS", "PSI_FULL_STRESS"}

Configuration ==
    [access : {"ok", "unreadable", "malformed"}, keys : SUBSET Key,
     SWAP_PATH : {"directory", "other"},
     SWAP_PART_SIZE : Int, suffix : {"none", "B", "K", "M", "G"},
     SWAP_FULL_THRESHOLD : Int, SWAP_FREE_THRESHOLD : Int,
     PSI_SOME_STRESS : Int, PSI_FULL_STRESS : Int]

(* The first option that is not -c ends the process; without any it needs  *)
(* a -c.                                                                   *)
ParseArgs(args) ==
    LET stops == {k \in DOMAIN args : args[k] # "c"}
        first == CHOOSE k \in stops : \A l \in stops : k <= l
    IN  IF stops # {}
        THEN IF args[first] = "h" THEN "EXIT_SUCCESS" ELSE "EXIT_FAILURE"
        ELSE IF args = <<>> THEN "EXIT_FAILURE" ELSE "none"

(* config_lookup_float takes no integer: a threshold of 1 is missing, one  *)
(* of 1.0 is not.                                                          *)
ParseConfig(c) == c.access = "ok" /\ Key \subseteq c.keys

(* Of the suffixes B and none end the process, and so does a string that   *)
(* starts with no number or one too large for strtod: such a string counts *)
(* as one without a suffix.  Any other number is taken, a negative one too.*)
ParseSizeString(c) == c.suffix \in {"K", "M", "G"}

ValidThreshold(t) == t > 0 /\ t <= 100

(* Mutant: one of the two stress values is enough.                         *)
EitherStress(c) == c.PSI_SOME_STRESS > 0 \/ c.PSI_FULL_STRESS > 0

ValidStress(c) == c.PSI_SOME_STRESS > 0 /\ c.PSI_FULL_STRESS > 0

ValidateConfig(c) ==
    /\ ValidThreshold(c.SWAP_FULL_THRESHOLD)
    /\ ValidThreshold(c.SWAP_FREE_THRESHOLD)
    /\ ValidStress(c)
    /\ c.SWAP_PATH = "directory"
    /\ ParseSizeString(c)

ReadConfig(c) == ParseConfig(c) /\ ValidateConfig(c)
=============================================================================
