----------------------------- MODULE MCLedEngine -----------------------------
(***************************************************************************)
(* The LED engine with short periods: two or four steps to a repetition    *)
(* and a flame of three entries.                                           *)
(***************************************************************************)
EXTENDS LedEngine, TLC

\* Nothing tells the cores apart.
MCSymmetry == Permutations(Cores)

MCSteps == [m \in Modes |-> CASE m = "breathe" -> 4 [] m \in Repeating \ {"flame"} -> 2 [] OTHER -> 1]
MCPeriod == [m \in Modes |-> IF m \in Repeating THEN 2 ELSE 0]
MCFlame == << <<TRUE, 1>>, <<FALSE, 2>>, <<TRUE, 1>> >>

Ask(l, mode, colour, hold) ==
    [led |-> l, mode |-> mode, colour |-> colour, period |-> 0, hold |-> hold]

\* Each LED plain and with a hold, and a beacon, which has a longer one.
MCRequests ==
    { Ask("rgb", "on", "red", 0), Ask("rgb", "cycle", "blue", 1),
      Ask("status", "on", "none", 0), Ask("status", "flame", "none", 1),
      Ask("status", "beacon", "none", 0) }

\* What the theorems ask of the board and of the callers is so here.
ASSUME MCAssumption == Timely /\ Roomy
==============================================================================
