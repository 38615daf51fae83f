------------------------------- MODULE MCCore -------------------------------
(***************************************************************************)
(* Small instances of the pipeline: three or four instruction addresses,   *)
(* the queue's two slots, and families of programs.                        *)
(***************************************************************************)
EXTENDS Core

I(o, t) == [op |-> o, to |-> t]

\* Programs over all instructions but fence.i that keep quiet behind their traps;
\* the last address holds one of three instructions to keep the family small.
MCQuiet == {g \in [PC -> {I("alu", 0), I("load", 0), I("store", 0), I("div", 0), I("cop", 0),
                          I("branch", 0), I("jalr", 2), I("jal", 0), I("trap", 3)}] :
              /\ QuietBehindTraps(g)
              /\ g[2].op \in {"alu", "trap", "div", "cop", "jalr"}
              /\ g[3].op \in {"alu", "store", "jal"}}

\* Every program over a mix with traps, fences and anything behind them.
MCAny == [PC -> {I("alu", 0), I("store", 0), I("div", 0), I("cop", 0),
                 I("jalr", 2), I("trap", 1), I("fence_i", 0)}]

\* One program for each way the shadow of a trap, or a fence, shows.
AsProgram(s) == [p \in PC |-> s[p + 1]]
MCJumpBehindTrap == {AsProgram(<<I("trap", 3), I("alu", 0), I("jalr", 0), I("alu", 0)>>)}
MCCopBehindTrap == {AsProgram(<<I("trap", 3), I("cop", 0), I("alu", 0), I("alu", 0)>>)}
MCFence == {AsProgram(<<I("fence_i", 0), I("alu", 0), I("store", 0), I("alu", 0)>>)}
=============================================================================
