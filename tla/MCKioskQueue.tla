---------------------------- MODULE MCKioskQueue ----------------------------
(* Small instances of KioskQueue: one item, tabs of one kiosk, and another device. *)
EXTENDS KioskQueue, TLC

CONSTANTS e1, e2, e3, f1, r1, r2, t1, t2, item

MCSymmetry == Permutations(Own) \cup Permutations(Tabs) \cup Permutations(Runs)

=============================================================================
