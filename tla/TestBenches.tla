---------------------------- MODULE TestBenches ----------------------------
(***************************************************************************)
(* The testbenches of the front end and of single units, one at a time: a  *)
(* behaviour runs the front end under its two top-level benches, or the    *)
(* script of one unit's bench while the front end rests.                   *)
(***************************************************************************)
EXTENDS SlotOneBench, UnitBenches

TopLevel == "top_level"

TestInit == \/ BenchInit /\ bench = TopLevel /\ dut = "none"
                         /\ at = 0 /\ waited = 0 /\ missed = {}
            \/ BenchInit /\ UnitInit

TestNext == \/ bench = TopLevel /\ BenchNext /\ UNCHANGED benchRunVars
            \/ (UnitStep \/ UnitBenchesEnd) /\ UNCHANGED <<laneVars, benchVars>>

TestSpec == TestInit /\ [][TestNext]_<<vars, laneVars, benchVars, benchRunVars>>

----------------------------------------------------------------------------
(* Correctness *)

\* No testbench complains: the two of the top level on any program, with a flush
\* and a busy back end at any time, each unit's on its script from every state
\* the unit may power up in.
BenchesPass == SlotOneBenchPasses /\ FlushBenchPasses /\ UnitBenchesPass
=============================================================================
