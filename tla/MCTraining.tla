----------------------------- MODULE MCTraining -----------------------------
(* TLC instance of Training with two lanes on up to two ranks and the       *)
(* delays of the code; only the settings of a read are fewer, 24 x 24.      *)
EXTENDS Training

Clk == 128
Abs(n) == IF n < 0 THEN -n ELSE n

-----------------------------------------------------------------------------
(* The signals of a search for a rising edge                               *)

Signal(kind, at, high, noise) == [kind |-> kind, at |-> at, high |-> high, noise |-> noise]

\* Periodic: high for some PIs of each clock, after an edge sampled either way for
\* some. Nothing is known of where writes are on time.
Wave(at, high, noise) == Signal("wave", at, high, noise)

\* A clock whose lane writes on time at one edge.
Clock(home, noise) == Signal("clock", home, Clk \div 2, noise)

\* A strobe with four pulses from the first edge on, which floats before its
\* preamble and after its last pulse, or one that goes on.
Strobe(first, noise) == Signal("strobe", first, Clk \div 2, noise)
Joined(first) == Signal("joined", first, Clk \div 2, 0)

MCLevel(w, d) ==
  LET x == d - w.at
      pulse == x % Clk
  IN  CASE w.kind = "strobe" /\ (x < -Clk \/ x >= 4 * Clk) -> Bit
        [] w.kind = "strobe" /\ -Clk <= x /\ x < 0       -> {0}
        [] OTHER -> CASE pulse < w.noise                              -> Bit
                      [] w.noise <= pulse /\ pulse < w.high           -> {1}
                      [] w.high <= pulse /\ pulse < w.high + w.noise  -> Bit
                      [] OTHER                                        -> {0}

MCSplitWaves == {Strobe(257, 0), Strobe(350, 2), Strobe(452, 0), Strobe(700, 0)}
MCJoinedWaves == {Joined(452)}
MCFirst(w) == w.at

\* On rank 0 also short pulses, wide transitions and levels that never change.
OddWaves == {Wave(32, 26, 0), Wave(50, 26, 0), Wave(28, 64, 3), Wave(53, 64, 3),
             Wave(0, 0, 0), Wave(0, 128, 0)}
MCClocks(r) ==
  {Clock(100, 0), Clock(124, 2), Clock(250, 0), Clock(20, 0)} \cup
     (IF r = 0 THEN {Clock(400, 0)} \cup OddWaves ELSE {})
MCWaves == MCSplitWaves \cup MCJoinedWaves \cup MCClocks(0)

MCHome(w) == IF w.kind = "clock" THEN w.at ELSE -1

\* Writes pass less than a quarter clock from home.
MCCoarse(w, d) == {w.kind = "clock" /\ w.at - Clk \div 4 < d /\ d < w.at + Clk \div 4}

-----------------------------------------------------------------------------
(* Eyes and windows                                                        *)

\* Centre, reach in both directions and slant of a diamond or a box; at one
\* setting below a blurred one a read may pass or fail.
Eye(shape, cx, cy, rx, ry, slant) ==
  [shape |-> shape, cx |-> cx, cy |-> cy, rx |-> rx, ry |-> ry, slant |-> slant]

MCEyes == {Eye("diamond", 10, 13, 6, 5, 1), Eye("box", 14, 9, 4, 5, 0),
           Eye("blurred", 11, 11, 0, 4, 0)}

Inside(e, x, y) ==
  LET dy == Abs(y - e.cy)
      dx == Abs(x - e.cx - (e.slant * (y - e.cy)) \div 4)
  IN  IF e.shape = "diamond" THEN dx * e.ry + dy * e.rx <= e.rx * e.ry
      ELSE dx <= e.rx /\ dy <= e.ry

MCEyeOutcomes(e, x, y) ==
  IF e.shape = "blurred" /\ x = e.cx /\ y = e.cy - e.ry - 1 THEN BOOLEAN ELSE {Inside(e, x, y)}

\* The eyes have the shape that the theorem about their centres asks for.
ASSUME ShapedEyes == \A e \in Eyes : WellShaped(e)

\* WDQS is 158, or too small: 40. Windows at either end of the half clock before it
\* and across it, narrow and closed; the delays around a blurred one may pass or fail.
\* Of the narrow one at the left end the second rank may leave the first delay out.
Window(lo, hi, blur) == [lo |-> lo, hi |-> hi, blur |-> blur]
MCWindows == {Window(80, 120, 0), Window(120, 170, 0), Window(99, 99, 0), Window(111, 112, 1),
              Window(80, 96, 0)}
MCWindowOutcomes(w, d) ==
  {w.lo <= d /\ d <= w.hi, w.lo - w.blur <= d /\ d <= w.hi + w.blur}
=============================================================================
