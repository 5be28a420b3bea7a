------------------------------ MODULE MCGather ------------------------------
(* Gather on small blocks.  Items have an order: no symmetry.              *)
EXTENDS Gather, TLC

MCShapes == [wait |-> {<<1, 1>>}, all |-> {<<0, 1>>, <<2, 1>>}, first |-> {<<0, 1>>, <<2, 1>>},
             any |-> {<<3, 2>>}, map |-> {<<0, 1>>, <<3, 1>>, <<3, 2>>},
             every |-> {<<0, 1>>, <<3, 1>>, <<3, 2>>, <<3, 3>>}]

MCKinds == [op \in DOMAIN MCShapes |->
              CASE op = "wait" -> {"fiber", "stuck", "io"}
                [] op = "all" -> {"fiber", "io"}
                [] op = "any" -> {"fiber"}
                [] OTHER -> {"fiber", "stuck"}]
=============================================================================
