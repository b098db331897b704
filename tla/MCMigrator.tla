----------------------------- MODULE MCMigrator -----------------------------
(* Instances of Migrator for TLC.                                           *)
EXTENDS Migrator

CONSTANTS a, b

\* Ranges of different lengths: batches that are full, and a last one that is not.
TwoRanges == [c \in {a, b} |-> IF c = a THEN {1, 2, 3} ELSE {4}]
TwoEven   == [c \in {a, b} |-> IF c = a THEN {1, 2} ELSE {3}]
OneRange  == [c \in {a} |-> {1, 2, 3}]
=============================================================================
