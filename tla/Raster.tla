------------------------------- MODULE Raster -------------------------------
(***************************************************************************)
(* How the graphics decoder turns lines and polygons into dots: the line,  *)
(* the runs of a style along it, and the inside of a polygon. A dot is a   *)
(* pair of its column and its row, rows from the top.                      *)
(***************************************************************************)
EXTENDS Integers, Sequences, FiniteSets, SequencesExt

CONSTANTS
  Width, Height,
  Shapes  \* lines, polygons and styles that are drawn

VARIABLE shape  \* the one drawn

Distance(a, b) == IF a < b THEN b - a ELSE a - b
Toward(a, b) == IF a < b THEN 1 ELSE -1

(***************************************************************************)
(* The line: dot after dot, with the error that is left. A dot knows how   *)
(* many came before it.                                                    *)
(***************************************************************************)
NextDot(s, to, dx, dy) ==
  LET right == 2 * s.error >= dy
      down  == 2 * s.error <= dx
  IN [x |-> IF right THEN s.x + Toward(s.x, to[1]) ELSE s.x,
      y |-> IF down THEN s.y + Toward(s.y, to[2]) ELSE s.y,
      error |-> s.error + (IF right THEN dy ELSE 0) + (IF down THEN dx ELSE 0)]

(* The dots of a line in order, and its end again once it is reached.      *)
LineDots(from, to) ==
  LET dx == Distance(from[1], to[1])
      dy == -Distance(from[2], to[2])
      walk[n \in 0 .. Width + Height] ==
        IF n = 0 THEN [x |-> from[1], y |-> from[2], error |-> dx + dy]
        ELSE IF <<walk[n - 1].x, walk[n - 1].y>> = to THEN walk[n - 1]
        ELSE NextDot(walk[n - 1], to, dx, dy)
  IN [n \in 0 .. Width + Height |-> <<walk[n].x, walk[n].y>>]

(***************************************************************************)
(* A style: visible, gap, visible, gap, from the run chosen, whose length  *)
(* may be another the first time. offset is the distance from the start.   *)
(***************************************************************************)
covers(style, offset, segment, overrideLength) ==
  LET runs == 4 * (offset + 1)
      length[k \in 0 .. runs] ==
        IF k = 0 /\ overrideLength > 0 THEN overrideLength ELSE style[((segment + k) % 4) + 1]
      end[k \in 0 .. runs] == length[k] + (IF k = 0 THEN 0 ELSE end[k - 1])
      run == CHOOSE k \in 0 .. runs : offset < end[k] /\ \A j \in 0 .. k - 1 : offset >= end[j]
  IN \/ style[1] + style[2] + style[3] + style[4] = 0
     \/ offset < 0
     \/ (segment + run) % 2 = 0

(***************************************************************************)
(* The inside of a polygon, row by row. A crossing is a fraction: where    *)
(* an edge meets the middle of the row.                                    *)
(***************************************************************************)

Middle(y) == 2 * y + 1

Crosses(edge, y) ==
  LET a == 2 * edge[1][2]  b == 2 * edge[2][2]
  IN (a <= Middle(y) /\ b > Middle(y)) \/ (b <= Middle(y) /\ a > Middle(y))

(* Twice the column, over a positive denominator.                          *)
Crossing(edge, y) ==
  LET down == edge[1][2] < edge[2][2]
      a    == IF down THEN edge[1] ELSE edge[2]
      b    == IF down THEN edge[2] ELSE edge[1]
      den  == b[2] - a[2]
  IN [num |-> 2 * a[1] * den + (Middle(y) - 2 * a[2]) * (b[1] - a[1]), den |-> den]

(* Of edges drawn twice, both cross: the edge is kept with its place.      *)
Crossings(points, y) ==
  SetToSortSeq({[at |-> Crossing(<<points[i], points[(i % Len(points)) + 1]>>, y), edge |-> i] :
                  i \in {j \in 1 .. Len(points) : Crosses(<<points[j], points[(j % Len(points)) + 1]>>, y)}},
               LAMBDA c, d : c.at.num * d.at.den < d.at.num * c.at.den
                             \/ (c.at.num * d.at.den = d.at.num * c.at.den /\ c.edge < d.edge))

(* The middle of the dot is between the two.                               *)
Between(x, c, d) == c.num <= (2 * x + 1) * c.den /\ (2 * x + 1) * d.den <= d.num

Filled(points, y) ==
  LET cs == Crossings(points, y)
  IN {x \in 0 .. Width - 1 :
        \E i \in 1 .. Len(cs) - 1 : i % 2 = 1 /\ Between(x, cs[i].at, cs[i + 1].at)}

-----------------------------------------------------------------------------
RasterInit == shape = [kind |-> "none"]

RasterNext == shape.kind = "none" /\ shape' \in Shapes

RasterSpec == RasterInit /\ [][RasterNext]_shape

-----------------------------------------------------------------------------
(* A line is drawn from one end to the other without a hole, in as many    *)
(* dots as the longer of its sides has, and none is more than half a dot   *)
(* from the line that is meant.                                            *)
LineIsClose ==
  shape.kind = "line" =>
    LET from == shape.from  to == shape.to
        dots == LineDots(from, to)
        dx   == Distance(from[1], to[1])
        dy   == Distance(from[2], to[2])
        long == IF dx < dy THEN dy ELSE dx
    IN /\ dots[long] = to
       /\ \A n \in 0 .. long :
            /\ n > 0 => dots[n] # dots[n - 1]
            /\ n > 0 => Distance(dots[n][1], dots[n - 1][1]) <= 1 /\ Distance(dots[n][2], dots[n - 1][2]) <= 1
            /\ 2 * Distance((to[1] - from[1]) * (dots[n][2] - from[2]),
                            (to[2] - from[2]) * (dots[n][1] - from[1])) <= long

(* "A PEL is inside when a ray leaving it crosses an odd number of         *)
(* boundary lines" (gddm_5292_decoder.cpp:401): left of the dot's middle,  *)
(* or through it.                                                          *)
FillIsEvenOdd ==
  shape.kind = "polygon" =>
    \A y \in 0 .. Height - 1 :
      LET crossing == {i \in 1 .. Len(shape.points) :
                         Crosses(<<shape.points[i], shape.points[(i % Len(shape.points)) + 1]>>, y)}
          At(i)    == Crossing(<<shape.points[i], shape.points[(i % Len(shape.points)) + 1]>>, y)
          Left(x)  == {i \in crossing : At(i).num < (2 * x + 1) * At(i).den}
          On(x)    == {i \in crossing : At(i).num = (2 * x + 1) * At(i).den}
      IN Filled(shape.points, y) = {x \in 0 .. Width - 1 : Cardinality(Left(x)) % 2 = 1 \/ On(x) # {}}

(* Along a line, a style repeats after its period, from the run the host   *)
(* chose.                                                                  *)
StyleRepeats ==
  shape.kind = "style" =>
    LET s == shape.style  period == s[1] + s[2] + s[3] + s[4] IN
    period > 0 =>
      \A offset \in 0 .. period, segment \in 0 .. 3 :
        covers(s, offset, segment, 0) <=> covers(s, offset + period, segment, 0)

\* Lines, areas and styles come out as the host means them.
DrawnAsMeant == LineIsClose /\ FillIsEvenOdd /\ StyleRepeats

=============================================================================
