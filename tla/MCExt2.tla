------------------------------- MODULE MCExt2 -------------------------------
(* A small instance of Ext2 for TLC: one name begins with the other. *)
EXTENDS Ext2

Names == {<<"a">>, <<"a", "b">>}
=============================================================================
