------------------------------- MODULE MulDiv -------------------------------
(***************************************************************************)
(* Multiplication and division in the execute stage: the hand-over by      *)
(* cpu/exu/exu.v, the one-deep pipe of exu/multiplier.v and the            *)
(* non-restoring divider of divider.v, bit by bit, for words of WIDTH bits *)
(* (32 in the code).                                                       *)
(*                                                                         *)
(* The stage holds its instruction until it is done.  No flush comes       *)
(* between (Core.UnitsServeTheirOwner): the divider has no input for one.  *)
(***************************************************************************)
EXTENDS Integers

CONSTANTS WIDTH, NoInsn

ASSUME MulDivAssumption == WIDTH \in Nat \ {0}

Word == 0 .. 2^WIDTH - 1
MulOps == {"mul", "mulh", "mulhsu", "mulhu"}
DivOps == {"div", "divu", "rem", "remu"}
Insn == [op : MulOps \cup DivOps, a : Word, b : Word]

VARIABLES
    stage,         \* the instruction in execute, or NoInsn
    state,         \* the divider: "IDLE", "CALC" or "DONE"
    cnt, partial_rem, quotient, divisor_reg,
    q_neg_result, r_neg_result,
    op_reg,
    special_reg,   \* [is, q, r]
    pipe_valid, pipe_product, pipe_op

dividerVars == <<state, cnt, partial_rem, quotient, divisor_reg, q_neg_result,
                 r_neg_result, op_reg, special_reg>>
pipeVars == <<pipe_valid, pipe_product, pipe_op>>
mulDivVars == <<stage, dividerVars, pipeVars>>

NotSpecial == [is |-> FALSE, q |-> 0, r |-> 0]

MulDivInit == /\ stage = NoInsn
              /\ state = "IDLE" /\ cnt = 0
              /\ partial_rem = 0 /\ quotient = 0 /\ divisor_reg = 0
              /\ q_neg_result = FALSE /\ r_neg_result = FALSE
              /\ op_reg = "div" /\ special_reg = NotSpecial
              /\ pipe_valid = FALSE /\ pipe_product = 0 /\ pipe_op = "mul"

----------------------------------------------------------------------------
(* Words *)

\* The low n bits of an integer, and bit n of a natural number.
Low(x, n) == x % 2^n
Bit(x, n) == (x \div 2^n) % 2
Negative(x) == Bit(x, WIDTH - 1) = 1
Signed(x) == IF Negative(x) THEN x - 2^WIDTH ELSE x
Negate(x) == Low(-x, WIDTH)

----------------------------------------------------------------------------
(* The multiplier *)

IsMul == stage # NoInsn /\ stage.op \in MulOps
IsDiv == stage # NoInsn /\ stage.op \in DivOps
if_mul_low == IsMul /\ stage.op = "mul"
mul_valid == IsMul /\ ~if_mul_low

\* Each factor widened by one bit, by its sign or by zero; two words of the product.
selected_product ==
    LET x == IF stage.op = "mulhu" THEN stage.a ELSE Signed(stage.a)
        y == IF stage.op = "mulh" THEN Signed(stage.b) ELSE stage.b
    IN (x * y) % (2^WIDTH * 2^WIDTH)

MultiplierEdge ==
    IF pipe_valid
    THEN pipe_valid' = FALSE /\ UNCHANGED <<pipe_product, pipe_op>>
    ELSE IF mul_valid
    THEN pipe_valid' = TRUE /\ pipe_product' = selected_product /\ pipe_op' = stage.op
    ELSE UNCHANGED pipeVars

mul_result == IF pipe_op = "mul" THEN Low(pipe_product, WIDTH)
              ELSE pipe_product \div 2^WIDTH

----------------------------------------------------------------------------
(* The divider *)

\* Signs and magnitudes of the operands of an instruction.
IsSigned(i) == i.op \in {"div", "rem"}
dividend_sign(i) == IsSigned(i) /\ Negative(i.a)
divisor_sign(i) == IsSigned(i) /\ Negative(i.b)
abs_dividend(i) == IF dividend_sign(i) THEN Negate(i.a) ELSE i.a
abs_divisor(i) == IF divisor_sign(i) THEN Negate(i.b) ELSE i.b

\* Divisions that need no iteration, in the order in which they are told apart.
special(i) ==
    IF i.b = 0
    THEN [is |-> TRUE, q |-> 2^WIDTH - 1, r |-> i.a]
    ELSE IF IsSigned(i) /\ i.a = 2^(WIDTH - 1) /\ i.b = 2^WIDTH - 1
    THEN [is |-> TRUE, q |-> i.a, r |-> 0]
    ELSE IF i.b = 1
    THEN [is |-> TRUE, q |-> i.a, r |-> 0]
    ELSE IF abs_divisor(i) > abs_dividend(i)
    THEN [is |-> TRUE, q |-> 0, r |-> i.a]
    ELSE NotSpecial

\* The partial remainder has two bits more than a word: a sign and a carry.
RemNegative(rem) == Bit(rem, WIDTH + 1) = 1

next_rem(rem, q, divisor) ==
    LET shift_rem == 2 * rem + Bit(q, WIDTH - 1)
    IN Low(IF RemNegative(rem) THEN shift_rem + divisor ELSE shift_rem - divisor,
           WIDTH + 2)

next_q(q, rem) == Low(2 * q, WIDTH) + (IF RemNegative(rem) THEN 0 ELSE 1)

StartDivision ==
    /\ state' = IF special(stage).is THEN "DONE" ELSE "CALC"
    /\ cnt' = 0
    /\ partial_rem' = 0
    /\ quotient' = abs_dividend(stage)
    /\ divisor_reg' = abs_divisor(stage)
    /\ q_neg_result' = (dividend_sign(stage) # divisor_sign(stage))
    /\ r_neg_result' = dividend_sign(stage)
    /\ op_reg' = stage.op
    /\ special_reg' = special(stage)

Iterate == LET rem == next_rem(partial_rem, quotient, divisor_reg)
           IN /\ state' = IF cnt = WIDTH - 1 THEN "DONE" ELSE "CALC"
              /\ cnt' = (cnt + 1) % WIDTH
              /\ partial_rem' = rem
              /\ quotient' = next_q(quotient, rem)
              /\ UNCHANGED <<divisor_reg, q_neg_result, r_neg_result, op_reg, special_reg>>

DividerEdge == CASE state = "IDLE" -> IF IsDiv THEN StartDivision
                                      ELSE UNCHANGED dividerVars
                 [] state = "CALC" -> Iterate
                 [] state = "DONE" -> state' = "IDLE"
                                      /\ UNCHANGED <<cnt, partial_rem, quotient, divisor_reg,
                                                     q_neg_result, r_neg_result, op_reg,
                                                     special_reg>>

\* Mutant of r_correct: a negative remainder is left as it is.
r_correct_Missing == Low(partial_rem, WIDTH)

r_correct == Low(IF RemNegative(partial_rem) THEN partial_rem + divisor_reg
                 ELSE partial_rem, WIDTH)

div_result ==
    LET q == IF q_neg_result THEN Negate(quotient) ELSE quotient
        r == IF r_neg_result THEN Negate(r_correct) ELSE r_correct
    IN IF op_reg \in {"rem", "remu"}
       THEN IF special_reg.is THEN special_reg.r ELSE r
       ELSE IF special_reg.is THEN special_reg.q ELSE q

----------------------------------------------------------------------------
(* The execute stage *)

muldiv_done == CASE if_mul_low -> TRUE
                 [] mul_valid  -> pipe_valid
                 [] IsDiv      -> state = "DONE"
                 [] OTHER      -> FALSE

muldiv_res == CASE if_mul_low -> Low(stage.a * stage.b, WIDTH)
                [] mul_valid  -> mul_result
                [] OTHER      -> div_result

MulDivNext == /\ IF stage = NoInsn \/ muldiv_done
                 THEN stage' \in Insn \cup {NoInsn} ELSE UNCHANGED stage
              /\ MultiplierEdge
              /\ DividerEdge

MulDivSpec == MulDivInit /\ [][MulDivNext]_mulDivVars

----------------------------------------------------------------------------
(* What the instructions promise: the RISC-V M extension *)

Magnitude(x) == IF x < 0 THEN -x ELSE x
Truncated(x, y) == IF (x < 0) = (y < 0) THEN Magnitude(x) \div Magnitude(y)
                   ELSE -(Magnitude(x) \div Magnitude(y))

Quotient(x, y) == IF y = 0 THEN -1 ELSE Truncated(x, y)
Remainder(x, y) == IF y = 0 THEN x ELSE x - y * Truncated(x, y)

Architectural(i) ==
    LET sa == Signed(i.a)
        sb == Signed(i.b)
    IN Low(CASE i.op = "mul"    -> sa * sb
             [] i.op = "mulh"   -> (sa * sb) \div 2^WIDTH
             [] i.op = "mulhsu" -> (sa * i.b) \div 2^WIDTH
             [] i.op = "mulhu"  -> (i.a * i.b) \div 2^WIDTH
             [] i.op = "div"    -> Quotient(sa, sb)
             [] i.op = "divu"   -> Quotient(i.a, i.b)
             [] i.op = "rem"    -> Remainder(sa, sb)
             [] i.op = "remu"   -> Remainder(i.a, i.b), WIDTH)

----------------------------------------------------------------------------
(* Correctness *)

\* Registers hold what fits them.
MulDivTypeOK == /\ stage \in Insn \cup {NoInsn}
                /\ state \in {"IDLE", "CALC", "DONE"}
                /\ cnt \in 0 .. WIDTH - 1
                /\ partial_rem \in 0 .. 2^(WIDTH + 2) - 1
                /\ quotient \in Word /\ divisor_reg \in Word
                /\ q_neg_result \in BOOLEAN /\ r_neg_result \in BOOLEAN
                /\ op_reg \in DivOps
                /\ special_reg \in [is : BOOLEAN, q : Word, r : Word]
                /\ pipe_valid \in BOOLEAN
                /\ pipe_product \in 0 .. 2^WIDTH * 2^WIDTH - 1
                /\ pipe_op \in MulOps

\* The result that leaves execute is the one the instruction in it promises,
\* whatever the units did before: signs, division by zero, the overflow of the
\* most negative number and the paths around the iteration included.
ResultsAreArchitectural == muldiv_done => muldiv_res = Architectural(stage)

=============================================================================
