------------------------------ MODULE RdTrain ------------------------------
(***************************************************************************)
(* rd_train of Library/MrcLib/meminit.c: find for every byte lane the read *)
(* delay (RDQS, x) and reference voltage (VREF, y) in the middle of the    *)
(* eye in which reads pass. The eye is closed in from its four corners,    *)
(* rank by rank; all lanes of a rank are tested together.                  *)
(***************************************************************************)
EXTENDS RankLoop, Sequences, FiniteSetsExt

CONSTANTS
  Eyes,                       \* the eyes a lane of a rank may have
  EyeOutcomes(_, _, _),       \* EyeOutcomes(e, x, y): what a test at x, y may say: TRUE passes
  RDQS_MAX, VREF_MAX,         \* 0x3F; RDQS_MIN and VREF_MIN are 0
  MIN_RDQS_EYE, MIN_VREF_EYE  \* 10

ASSUME ReadAssumption ==
  /\ RDQS_MAX \in Nat /\ VREF_MAX \in Nat /\ Eyes # {}
  /\ MIN_RDQS_EYE \in 1..RDQS_MAX /\ MIN_VREF_EYE \in 1..VREF_MAX
  /\ \A e \in Eyes, x \in 0..RDQS_MAX, y \in 0..VREF_MAX :
       EyeOutcomes(e, x, y) \in (SUBSET BOOLEAN) \ {{}}

SideX == {"L", "R"}
SideY == {"B", "T"}

\* side_y is the outer loop.
Corners == <<<<"L", "B">>, <<"R", "B">>, <<"L", "T">>, <<"R", "T">>>>

VARIABLES
  corner,         \* index in Corners
  x_coordinate,   \* by side_x, side_y, rank and lane
  y_coordinate,   \* by side_x, side_y and lane: the ranks share it
  rdqs, vref,     \* the registers of each lane
  eye             \* the eye of each lane on each rank

eyeVars == <<corner, x_coordinate, y_coordinate, rdqs, vref, eye>>
rdVars == <<pc, rank, rank_enables, eyeVars>>

side_x == Corners[corner][1]
side_y == Corners[corner][2]

OpenEyes ==
  /\ corner = 1
  /\ x_coordinate = [sx \in SideX |-> [sy \in SideY |-> [r \in Ranks |->
                       AllLanes(IF sx = "L" THEN 0 ELSE RDQS_MAX)]]]
  /\ y_coordinate = [sx \in SideX |-> [sy \in SideY |->
                       AllLanes(IF sy = "B" THEN 0 ELSE VREF_MAX)]]
  /\ rdqs = AllLanes(0) /\ vref = AllLanes(0)

NoReadTraining == OpenEyes /\ eye = [r \in Ranks |-> AllLanes(CHOOSE e \in Eyes : TRUE)]

RdInit == pc = "rank" /\ LoopInit /\ OpenEyes /\ eye \in [Ranks -> [Lanes -> Eyes]]

\* The next enabled rank starts from the coordinates of this corner.
RdBeginRank ==
  /\ pc = "rank" /\ corner <= Len(Corners) /\ RankEnabled
  /\ rdqs' = x_coordinate[side_x][side_y][rank]
  /\ vref' = y_coordinate[side_x][side_y]
  /\ pc' = "test"
  /\ UNCHANGED <<corner, rank, rank_enables, x_coordinate, y_coordinate, eye>>

RdSkipRank == corner <= Len(Corners) /\ SkipRank /\ UNCHANGED eyeVars

NextCorner ==
  /\ pc = "rank" /\ corner <= Len(Corners) /\ rank \notin Ranks
  /\ corner' = corner + 1 /\ rank' = 0
  /\ UNCHANGED <<pc, rank_enables, x_coordinate, y_coordinate, rdqs, vref, eye>>

-----------------------------------------------------------------------------
(* A failing lane                                                          *)

\* RDQS one step into the eye.
RdInward(l) == IF side_x = "L" THEN x_coordinate["L"][side_y][rank][l] + 1
             ELSE x_coordinate["R"][side_y][rank][l] - 1

\* Mutant of RdqsClosed: the two sides are not compared.
RdqsOverrun(l) ==
  IF side_x = "L" THEN RdInward(l) > RDQS_MAX - MIN_RDQS_EYE ELSE RdInward(l) < MIN_RDQS_EYE

\* "check that we haven't closed the RDQS_EYE too much"
RdqsClosed(l) ==
  LET left == IF side_x = "L" THEN RdInward(l) ELSE x_coordinate["L"][side_y][rank][l]
      right == IF side_x = "R" THEN RdInward(l) ELSE x_coordinate["R"][side_y][rank][l]
  IN  left > RDQS_MAX - MIN_RDQS_EYE \/ right < MIN_RDQS_EYE \/ left = right

\* VREF one step into the eye, when there is no RDQS margin at this one.
VrefInward(l) ==
  IF ~RdqsClosed(l) THEN y_coordinate[side_x][side_y][l]
  ELSE IF side_y = "B" THEN y_coordinate[side_x]["B"][l] + 1
  ELSE y_coordinate[side_x]["T"][l] - 1

\* "check that we haven't closed the VREF_EYE too much"
VrefClosed(l) ==
  LET bottom == IF side_y = "B" THEN VrefInward(l) ELSE y_coordinate[side_x]["B"][l]
      top == IF side_y = "T" THEN VrefInward(l) ELSE y_coordinate[side_x]["T"][l]
  IN  RdqsClosed(l)
        /\ (bottom > VREF_MAX - MIN_VREF_EYE \/ top < MIN_VREF_EYE \/ bottom = top)

\* Mutant of Outward: the search goes on from where it was.
KeepPlace(l) == x_coordinate[side_x][side_y][rank][l]

\* At a new VREF the search begins again from the outside.
Outward(l) == IF side_x = "L" THEN 0 ELSE RDQS_MAX

NewX(l) == IF RdqsClosed(l) THEN Outward(l) ELSE RdInward(l)

\* Mutant of RdFailing: the mask has the bits of one lane.
RdFailingOfOne ==
  LET one == CHOOSE l \in Lanes : TRUE
  IN  {f \in SUBSET {one} : (one \notin f) \in EyeOutcomes(eye[rank][one], rdqs[one], vref[one])}

\* check_bls_ex on the rank: any set of lanes that can fail together. Bits 4 to 7
\* of its result stay 0 with two or four lanes.
RdFailing ==
  {f \in SUBSET Lanes :
     \A l \in Lanes : (l \notin f) \in EyeOutcomes(eye[rank][l], rdqs[l], vref[l])}

\* One iteration of the do loop with a failure.
RdFail ==
  /\ pc = "test"
  /\ \E f \in RdFailing \ {{}} :
       IF \E l \in f : VrefClosed(l)
       THEN pc' = "stopped" /\ UNCHANGED <<x_coordinate, y_coordinate, rdqs, vref>>
       ELSE /\ x_coordinate' = [x_coordinate EXCEPT ![side_x][side_y][rank] =
                 [l \in Lanes |-> IF l \in f THEN NewX(l) ELSE @[l]]]
            /\ y_coordinate' = [y_coordinate EXCEPT ![side_x][side_y] =
                 [l \in Lanes |-> IF l \in f THEN VrefInward(l) ELSE @[l]]]
            /\ rdqs' = [l \in Lanes |-> IF l \in f THEN NewX(l) ELSE rdqs[l]]
            /\ vref' = [l \in Lanes |-> IF l \in f THEN VrefInward(l) ELSE vref[l]]
            /\ UNCHANGED pc
  /\ UNCHANGED <<corner, rank, rank_enables, eye>>

\* The loop ends when all lanes pass: !(result & 0xFF).
AllPass == {} \in RdFailing

RdPass ==
  /\ pc = "test" /\ AllPass
  /\ rank' = rank + 1 /\ pc' = "rank"
  /\ UNCHANGED <<corner, rank_enables, x_coordinate, y_coordinate, rdqs, vref, eye>>

-----------------------------------------------------------------------------
(* The final placement                                                     *)

Middle(a, b) == (a + b) \div 2

x_center(r, l) ==
  Middle(Middle(x_coordinate["R"]["T"][r][l], x_coordinate["L"]["T"][r][l]),
         Middle(x_coordinate["R"]["B"][r][l], x_coordinate["L"]["B"][r][l]))

\* Mutant of y_center: the average of the bottom sides.
y_bottom(l) == Middle(y_coordinate["R"]["B"][l], y_coordinate["L"]["B"][l])

y_center(l) ==
  Middle(Middle(y_coordinate["R"]["T"][l], y_coordinate["R"]["B"][l]),
         Middle(y_coordinate["L"]["T"][l], y_coordinate["L"]["B"][l]))

\* The ranks share RDQS: final_delay[][] over num_ranks_enabled.
FinalDelay(l) ==
  MapThenSumSet(LAMBDA r : x_center(r, l), rank_enables) \div Cardinality(rank_enables)

RdFinish ==
  /\ pc = "rank" /\ corner > Len(Corners)
  /\ rdqs' = [l \in Lanes |-> FinalDelay(l)]
  /\ vref' = [l \in Lanes |-> y_center(l)]
  /\ pc' = "done"
  /\ UNCHANGED <<corner, rank, rank_enables, x_coordinate, y_coordinate, eye>>

RdNext == RdBeginRank \/ RdSkipRank \/ NextCorner \/ RdFail \/ RdPass \/ RdFinish

-----------------------------------------------------------------------------
(* Properties                                                              *)

RdTypeOK ==
  /\ corner \in 1..Len(Corners) + 1
  /\ x_coordinate \in [SideX -> [SideY -> [Ranks -> [Lanes -> 0..RDQS_MAX]]]]
  /\ y_coordinate \in [SideX -> [SideY -> [Lanes -> 0..VREF_MAX]]]
  /\ rdqs \in [Lanes -> 0..RDQS_MAX] /\ vref \in [Lanes -> 0..VREF_MAX]

\* The sides of the eye never meet or cross, on any rank, however the tests go:
\* they are only compared for equality.
EyeOpen ==
  /\ \A sy \in SideY, r \in Ranks, l \in Lanes :
       x_coordinate["L"][sy][r][l] < x_coordinate["R"][sy][r][l]
  /\ \A sx \in SideX, l \in Lanes :
       y_coordinate[sx]["B"][l] < y_coordinate[sx]["T"][l]

\* What a test says is a matter of its settings only.
SteadyEye(l) ==
  \A r \in rank_enables, x \in 0..RDQS_MAX, y \in 0..VREF_MAX :
     EyeOutcomes(eye[r][l], x, y) # BOOLEAN
SameEyes(l) == \A r, s \in rank_enables : eye[r][l] = eye[s][l]
Passes(r, l, x, y) == TRUE \in EyeOutcomes(eye[r][l], x, y)

\* When the ranks have the same eye, the four coordinates of every one of them,
\* not only of the last one tested, pass in the end.
CornersPass ==
  fn = "rd_train" /\ pc = "done" =>
    \A l \in {k \in Lanes : SameEyes(k) /\ SteadyEye(k)},
       r \in rank_enables, sx \in SideX, sy \in SideY :
      Passes(r, l, x_coordinate[sx][sy][r][l], y_coordinate[sx][sy][l])

\* ... and so does the placement between them.
CentrePasses ==
  fn = "rd_train" /\ pc = "done" =>
    \A l \in {k \in Lanes : SameEyes(k) /\ SteadyEye(k)}, r \in rank_enables :
      Passes(r, l, rdqs[l], vref[l])

\* The corners of an eye, a set of settings: the settings at its outermost reference
\* voltage, of those the outermost delay. What a right corner is of lies to the right
\* of the left one; where the eye has one delay only, it has no right side.
Settings(e) ==
  {p \in (0..RDQS_MAX) \X (0..VREF_MAX) : TRUE \in EyeOutcomes(e, p[1], p[2])}
Outer(sy, y, v) == IF sy = "B" THEN y < v ELSE v < y
CornersOf(sx, sy, S) ==
  {p \in S : \A q \in S : \/ Outer(sy, p[2], q[2])
                          \/ q[2] = p[2] /\ (IF sx = "L" THEN p[1] <= q[1] ELSE q[1] <= p[1])}
RightOf(p, S) == {q \in S : p[1] < q[1]}

\* An eye away from the ends of RDQS, whose middle between the corners passes.
WellShaped(e) ==
  /\ \A p \in Settings(e) : MIN_RDQS_EYE <= p[1] /\ p[1] <= RDQS_MAX - MIN_RDQS_EYE
  /\ \A lb \in CornersOf("L", "B", Settings(e)), lt \in CornersOf("L", "T", Settings(e)) :
       \A rb \in CornersOf("R", "B", RightOf(lb, Settings(e))),
          rt \in CornersOf("R", "T", RightOf(lt, Settings(e))) :
         <<Middle(Middle(rt[1], lt[1]), Middle(rb[1], lb[1])),
           Middle(Middle(rt[2], rb[2]), Middle(lt[2], lb[2]))>> \in Settings(e)

\* The firmware does not stop on a usable eye: two reference voltages in the
\* allowed range at which all ranks are open, and on each rank two delays in the
\* allowed range at which it is open wherever it is open at all.
Usable(l) ==
  /\ \E y \in MIN_VREF_EYE..VREF_MAX - MIN_VREF_EYE - 1 :
       \A r \in rank_enables, v \in {y, y + 1} : \E x \in 0..RDQS_MAX : Passes(r, l, x, v)
  /\ \A r \in rank_enables :
       \E c \in MIN_RDQS_EYE..RDQS_MAX - MIN_RDQS_EYE - 1 :
         \A x \in 0..RDQS_MAX, y \in 0..VREF_MAX :
           Passes(r, l, x, y) => Passes(r, l, c, y) /\ Passes(r, l, c + 1, y)

DeadOnClosedEye ==
  fn = "rd_train" /\ pc = "stopped" => \E l \in Lanes : ~(Usable(l) /\ SteadyEye(l))
=============================================================================
