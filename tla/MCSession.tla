------------------------------ MODULE MCSession ------------------------------
(***************************************************************************)
(* Instances of Session: the cfg files name the databases in the file      *)
(* system and on ASM disks as model values.  absent is a path that cannot  *)
(* be read.  Nothing tells the databases on ASM disks apart.               *)
(***************************************************************************)
EXTENDS Session, TLC

MCDictionaries == Dictionary

AsmSymmetry == Permutations(Asm)
==============================================================================
