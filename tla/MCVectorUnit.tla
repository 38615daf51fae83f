---------------------------- MODULE MCVectorUnit ----------------------------
(***************************************************************************)
(* Two lanes of two bits: the mask bits of both lanes lie in the lowest    *)
(* byte, a word sum carries between the lanes, and the length can be more  *)
(* than, equal to and less than the number of lanes.                       *)
(***************************************************************************)
EXTENDS VectorUnit

Set(a, s) == [op |-> "set", wen |-> TRUE, avl |-> a, sew |-> s]
Arith(f, v, u) == [op |-> "arith", wen |-> FALSE, f |-> f, vd |-> 1, vs2 |-> 1, vs1 |-> v,
                   src1 |-> 6, unmasked |-> u]
Move(o, w, r, s) == [op |-> o, wen |-> w, vd |-> r, sew |-> s]

MCInstruction ==
    {Set(0, 0), Set(1, 0), Set(3, 2), Set(1, 1), Set(None, 2), Set(3, None)}
    \cup {Arith("add", 0, FALSE), Arith("add", None, FALSE), Arith("move", None, TRUE)}
    \cup {Move("load", FALSE, 1, 0), Move("store", FALSE, 1, 2), Move("load", TRUE, 0, None)}
    \cup {[op |-> "scratch_write", wen |-> TRUE, src1 |-> 6],
          [op |-> "op_count", wen |-> TRUE],
          [op |-> "lane", wen |-> TRUE, f |-> "add", vd |-> 0],
          [op |-> "vrf_write", wen |-> TRUE, vd |-> 0, src1 |-> 1]}

\* A result is not looked at again once it was passed on; nothing the unit does
\* depends on history or on the copy in Csrs.v.
Live == <<entry, cop_busy, resp_valid, IF resp_valid THEN resp_res ELSE 0,
          busy, mem_active, countdown, done, IF busy \/ done THEN latched_res ELSE 0,
          pending, vlen, vtype, scratch, op_count, vrf>>
=============================================================================
