------------------------------ MODULE MCCgroupRename ------------------------------
(***************************************************************************)
(* Small alphabets and lengths for CgroupRename: two characters, a cut of *)
(* 2 standing for 6, names of up to 4 characters.                          *)
(***************************************************************************)
EXTENDS CgroupRename

MCChars == {"a", "b"}

=============================================================================
