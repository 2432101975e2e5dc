---------------------------- MODULE MCBlockCache ----------------------------
(* Blocks of a superblock that keeps X in B, for the caching passes alone. *)
EXTENDS BlockCache

BlockLen == 3

Kinds == {Line("load", "zp", None), Line("store", "zp", None), Line("poke", None, None),
          Line("def", None, "b"), Line("ref", None, "b")}

Continuations ==
  {k \in [body : [1..BlockLen -> Kinds], trace : {TRUE}, resident : {{}, {"b"}}, after : {{}, {"b"}}] :
     IsBlock(k)}

(* The order of the Makefile.                                              *)
MakefileOrder == {<<"xy", "zp", "a", "de">>}
=============================================================================
