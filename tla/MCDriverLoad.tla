---------------------------- MODULE MCDriverLoad ----------------------------
(* Small instances of DriverLoad for TLC.  A gigabyte is two pages of      *)
(* table entries; a disk of four wraps around in an unsigned int, as one   *)
(* of 2048 does.                                                           *)
EXTENDS DriverLoad
=============================================================================
