----------------------------- MODULE MCElapsedTime -----------------------------
(* ElapsedTime with seconds of three nanoseconds and five-bit integers.    *)
EXTENDS ElapsedTime

(* Every pair of seconds the clock can count, with nanoseconds that are    *)
(* negative, valid or a whole second too many.                             *)
MCReads == [tv_sec : 0 .. U64Max \div 2, tv_nsec : -1 .. Second]
================================================================================
