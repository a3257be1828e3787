---------------------------- MODULE MCDimToggle ----------------------------
(* DimToggle for TLC: the operations asked of dim.tcl.                       *)
EXTENDS DimToggle

Press(diff, delay, toggle) == [diff |-> diff, delay |-> delay, toggle |-> toggle]

\* Ramps whose step divides the range and ramps whose step does not, with short
\* and long pauses, a single step and a stop.
RampOps == {Press(1, "ms", FALSE), Press(2, "s", FALSE), Press(-1, "ms", FALSE),
            Press(-2, "none", TRUE), Press(0, "none", FALSE)}

NoOps == {}

=============================================================================
