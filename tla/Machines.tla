----------------------------- MODULE Machines -----------------------------
(***************************************************************************)
(* Machines that are looked at alone, one at a time: a behaviour runs the  *)
(* front end and the testbenches of TestBenches, or one of the units       *)
(* beside it, while every other machine rests as it was reset.             *)
(***************************************************************************)
EXTENDS TestBenches, MulDiv, RegisterFlow, ReturnStack

Arithmetic == "muldiv"
Registers == "registers"
Returns == "returns"

unitVars == <<mulDivVars, registerVars, returnVars>>

\* bench names the machine that runs.
MachinesInit == /\ \/ TestInit
                   \/ /\ BenchInit
                      /\ bench \in {Arithmetic, Registers, Returns}
                      /\ dut = "none" /\ at = 0 /\ waited = 0 /\ missed = {}
                /\ MulDivInit
                /\ RegisterInit
                /\ ReturnInit

MachinesNext ==
    \/ TestNext /\ UNCHANGED unitVars
    \/ /\ UNCHANGED <<vars, laneVars, benchVars, benchRunVars>>
       /\ \/ bench = Arithmetic /\ MulDivNext /\ UNCHANGED <<registerVars, returnVars>>
          \/ bench = Registers /\ RegisterNext /\ UNCHANGED <<mulDivVars, returnVars>>
          \/ bench = Returns /\ ReturnNext /\ UNCHANGED <<mulDivVars, registerVars>>

MachinesSpec ==
    MachinesInit /\ [][MachinesNext]_<<vars, laneVars, benchVars, benchRunVars, unitVars>>
----------------------------------------------------------------------------
(* Correctness *)

\* Every register of every machine has a value it can hold.
MachinesTypeOK == PairTypeOK /\ MulDivTypeOK /\ RegisterTypeOK /\ ReturnTypeOK
=============================================================================
