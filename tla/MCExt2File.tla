----------------------------- MODULE MCExt2File -----------------------------
(* Ext2File for TLC: one direct block and two words in a block, so that    *)
(* fifteen words reach the triple-indirect tree.                           *)
EXTENDS Ext2File

MCMeta == {1, 2, 14}
MCWord == {31}
MCCounts == {1, 7, 16}
MCSizes == {0, 1, 5, 8, 15}

=============================================================================
