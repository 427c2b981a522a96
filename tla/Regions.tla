------------------------------ MODULE Regions ------------------------------
(* Regions (ui/region.cc, ui/regionimpl.c): an area kept as a list of boxes  *)
(* in bands.  Boxes of a band share top and bottom and never touch, bands    *)
(* are sorted downwards, and a band is merged into the one above it when     *)
(* both have their boxes in the same places.  The extents are kept beside    *)
(* the boxes and decide the shortcuts of the operations.  The program works  *)
(* on two regions; coordinates are the fixed point numbers of the code, and  *)
(* memory is never short.                                                    *)
EXTENDS Integers, Sequences, FiniteSets, SequencesExt, FiniteSetsExt

CONSTANTS Width, Height, MaxBoxes       \* the grid; boxes both regions may have

VARIABLES a, b
vars == <<a, b>>

Lower(x, y) == IF x < y THEN x ELSE y
Upper(x, y) == IF x < y THEN y ELSE x
Box == {r \in [x1 : 0..Width, y1 : 0..Height, x2 : 0..Width, y2 : 0..Height] : r.x1 < r.x2 /\ r.y1 < r.y2}
NoBox == [x1 |-> 0, y1 |-> 0, x2 |-> 0, y2 |-> 0]
EmptyRegion == [extents |-> NoBox, boxes |-> <<>>]
OneBox(r) == [extents |-> r, boxes |-> <<r>>]
Disjoint(r, s) == r.x2 <= s.x1 \/ r.x1 >= s.x2 \/ r.y2 <= s.y1 \/ r.y1 >= s.y2
Subsumes(r, s) == r.x1 <= s.x1 /\ r.x2 >= s.x2 /\ r.y1 <= s.y1 /\ r.y2 >= s.y2
Columns(r, x1, x2) == [r EXCEPT !.x1 = x1, !.x2 = x2]
Clip(band, y1, y2) == [i \in DOMAIN band |-> [band[i] EXCEPT !.y1 = y1, !.y2 = y2]]
Around(boxes) == [x1 |-> Min({r.x1 : r \in ToSet(boxes)}), y1 |-> boxes[1].y1,
                  x2 |-> Max({r.x2 : r \in ToSet(boxes)}), y2 |-> boxes[Len(boxes)].y2]

(* fix_empty_region(), miSetExtents(): what an operation leaves behind.      *)
Region(boxes) == IF boxes = <<>> THEN EmptyRegion ELSE [extents |-> Around(boxes), boxes |-> boxes]

(* --- one band of both regions -------------------------------------------- *)
RECURSIVE IntersectBands(_, _)
IntersectBands(r, s) ==
  IF r = <<>> \/ s = <<>> THEN <<>>
  ELSE LET x1 == Upper(r[1].x1, s[1].x1)
           x2 == Lower(r[1].x2, s[1].x2)
       IN (IF x1 < x2 THEN <<Columns(r[1], x1, x2)>> ELSE <<>>)
            \o IntersectBands(IF r[1].x2 = x2 THEN Tail(r) ELSE r, IF s[1].x2 = x2 THEN Tail(s) ELSE s)

(* The boxes of both from left to right: one that touches is merged.         *)
UniteBands(r, s) ==
  LET merge(out, c) == LET last == out[Len(out)]
                       IN IF c.x1 > last.x2 THEN Append(out, c)
                          ELSE [out EXCEPT ![Len(out)].x2 = Upper(@, c.x2)]
      all == SortSeq(s \o r, LAMBDA p, q : p.x1 < q.x1)
  IN FoldLeft(merge, <<all[1]>>, Tail(all))

(* x1 is the leftmost point of r[1] not yet checked.                         *)
RECURSIVE SubtractBands(_, _, _)
SubtractBands(r, s, x1) ==
  IF r = <<>> THEN <<>>
  ELSE LET next == SubtractBands(Tail(r), s, IF Len(r) > 1 THEN r[2].x1 ELSE x1)
           piece(x2) == IF x1 < x2 THEN <<Columns(r[1], x1, x2)>> ELSE <<>>
       IN IF s = <<>> \/ s[1].x1 >= r[1].x2 THEN piece(r[1].x2) \o next
          ELSE IF s[1].x2 <= x1 THEN SubtractBands(r, Tail(s), x1)
          ELSE piece(s[1].x1) \o (IF s[1].x2 >= r[1].x2 THEN next
                                  ELSE SubtractBands(r, Tail(s), s[1].x2))
Overlap(op, r, s) ==
  CASE op = "intersect" -> IntersectBands(r, s)
    [] op = "union" -> UniteBands(r, s)
    [] op = "subtract" -> SubtractBands(r, s, r[1].x1)

(* --- miRegionOp() -------------------------------------------------------- *)
Band(boxes) == SelectSeq(boxes, LAMBDA r : r.y1 = boxes[1].y1)
Below(boxes) == SelectSeq(boxes, LAMBDA r : r.y1 # boxes[1].y1)

(* Appends a band and merges it with the one before, which starts after the  *)
(* first prev boxes, if that ends where the new one begins.                  *)
AppendTaller(s, band) ==                \* mutant: a gap between the bands is closed
  LET last == SubSeq(s.out, s.prev + 1, Len(s.out))
  IN IF band # <<>> /\ Len(band) = Len(last)
        /\ \A i \in DOMAIN band : band[i].x1 = last[i].x1 /\ band[i].x2 = last[i].x2
     THEN [s EXCEPT !.out = SubSeq(@, 1, s.prev) \o Clip(last, last[1].y1, band[1].y2)]
     ELSE [s EXCEPT !.out = @ \o band, !.prev = Len(s.out)]
AppendBand(s, band) ==
  LET last == SubSeq(s.out, s.prev + 1, Len(s.out))
  IN IF band # <<>> /\ Len(band) = Len(last) /\ last[1].y2 = band[1].y1
        /\ \A i \in DOMAIN band : band[i].x1 = last[i].x1 /\ band[i].x2 = last[i].x2
     THEN [s EXCEPT !.out = SubSeq(@, 1, s.prev) \o Clip(last, last[1].y1, band[1].y2)]
     ELSE [s EXCEPT !.out = @ \o band, !.prev = Len(s.out)]

Keeps1(op) == op # "intersect"          \* bands of only one region are kept
Keeps2(op) == op = "union"

(* One band of the sources per round: first what only one of them covers,    *)
(* then what both cover; the rest of the longer one is appended at the end.  *)
RECURSIVE Sweep(_, _, _, _)
Sweep(op, r, s, t) ==
  LET lone(boxes, bot) == Clip(Band(boxes), Upper(boxes[1].y1, t.ybot), bot)
      rest(boxes) == LET u == AppendBand(t, lone(boxes, boxes[1].y2)) IN u.out \o Below(boxes)
  IN IF r = <<>> THEN IF s # <<>> /\ Keeps2(op) THEN rest(s) ELSE t.out
     ELSE IF s = <<>> THEN IF Keeps1(op) THEN rest(r) ELSE t.out
     ELSE LET ytop == Upper(r[1].y1, s[1].y1)
              ybot == Lower(r[1].y2, s[1].y2)
              above(boxes) == LET bot == Lower(boxes[1].y2, ytop)
                              IN IF Upper(boxes[1].y1, t.ybot) = bot THEN t
                                 ELSE AppendBand(t, lone(boxes, bot))
              u == IF r[1].y1 < s[1].y1 /\ Keeps1(op) THEN above(r)
                   ELSE IF s[1].y1 < r[1].y1 /\ Keeps2(op) THEN above(s) ELSE t
              v == IF ybot > ytop
                   THEN AppendBand(u, Clip(Overlap(op, Band(r), Band(s)), ytop, ybot)) ELSE u
          IN Sweep(op, IF r[1].y2 = ybot THEN Below(r) ELSE r,
                   IF s[1].y2 = ybot THEN Below(s) ELSE s, [v EXCEPT !.ybot = ybot])
RegionOp(op, r, s) ==
  Sweep(op, r.boxes, s.boxes, [out |-> <<>>, prev |-> 0, ybot |-> Lower(r.boxes[1].y1, s.boxes[1].y1)])

(* --- the operations ------------------------------------------------------ *)
Single(r) == Len(r.boxes) = 1
Union(r, s) ==
  IF r.boxes = <<>> THEN s
  ELSE IF s.boxes = <<>> THEN r
  ELSE IF Single(r) /\ Subsumes(r.extents, s.extents) THEN r
  ELSE IF Single(s) /\ Subsumes(s.extents, r.extents) THEN s
  ELSE [extents |-> [x1 |-> Lower(r.extents.x1, s.extents.x1), y1 |-> Lower(r.extents.y1, s.extents.y1),
                     x2 |-> Upper(r.extents.x2, s.extents.x2), y2 |-> Upper(r.extents.y2, s.extents.y2)],
        boxes |-> RegionOp("union", r, s)]
Apart(r, s) == r.boxes = <<>> \/ s.boxes = <<>> \/ Disjoint(r.extents, s.extents)
Intersection(r, s) ==
  IF Apart(r, s) THEN EmptyRegion
  ELSE IF Single(s) /\ Subsumes(s.extents, r.extents) THEN r
  ELSE IF Single(r) /\ Subsumes(r.extents, s.extents) THEN s
  ELSE Region(RegionOp("intersect", r, s))
Difference(r, s) == IF Apart(r, s) THEN r ELSE Region(RegionOp("subtract", r, s))
Exor(r, s) == Union(Difference(r, s), Difference(s, r))
UnionRect(r, box) == Union(r, OneBox(box))

(* --- queries ------------------------------------------------------------- *)
(* miRectIn(): x and y run over the box as the bands cover it.               *)
RectIn(r, box) ==
  LET step(s, c) ==
        LET missed == c.y1 > s.y
            stop == missed /\ (s.in \/ c.y1 >= box.y2)
            y == IF missed /\ ~stop THEN c.y1 ELSE s.y
            out == s.out \/ missed \/ c.x1 > s.x
            in == s.in \/ c.x1 < box.x2
        IN IF s.done \/ c.y2 <= s.y THEN s
           ELSE IF stop THEN [s EXCEPT !.out = TRUE, !.done = TRUE]
           ELSE IF c.x2 <= s.x THEN [s EXCEPT !.out = @ \/ missed, !.y = y]
           ELSE IF (c.x1 > s.x /\ s.in) \/ (in /\ out) \/ c.x2 < box.x2
                THEN [x |-> s.x, y |-> y, out |-> TRUE, in |-> in, done |-> TRUE]
           ELSE [x |-> box.x1, y |-> c.y2, out |-> out, in |-> in, done |-> c.y2 >= box.y2]
      end == FoldLeft(step, [x |-> box.x1, y |-> box.y1, out |-> FALSE, in |-> FALSE, done |-> FALSE], r.boxes)
  IN IF r.boxes = <<>> \/ Disjoint(r.extents, box) THEN "outside"
     ELSE IF Single(r) THEN IF Subsumes(r.extents, box) THEN "inside" ELSE "partial"
     ELSE IF ~end.in THEN "outside" ELSE IF end.y < box.y2 THEN "partial" ELSE "inside"

(* _rapicorn_region_region_in(): the boxes of the first, each looked up in   *)
(* the second region.                                                        *)
RegionIn(r, s) ==
  LET found == {RectIn(s, c) : c \in ToSet(r.boxes)}
  IN IF s.boxes = <<>> THEN "inside"
     ELSE IF r.boxes = <<>> THEN "outside"
     ELSE IF Cardinality(found) = 1 THEN CHOOSE c \in found : TRUE ELSE "partial"
PointIn(r, x, y) ==
  /\ ~Disjoint(r.extents, [x1 |-> x, y1 |-> y, x2 |-> x + 1, y2 |-> y + 1])
  /\ \/ Single(r)
     \/ LET late == SelectInSeq(r.boxes, LAMBDA c : y < c.y2 /\ (y < c.y1 \/ x < c.x2))
        IN late # 0 /\ r.boxes[late].y1 <= y /\ r.boxes[late].x1 <= x

(* --- the program --------------------------------------------------------- *)
Init == a = EmptyRegion /\ b = EmptyRegion
Fits == Len(a'.boxes) + Len(b'.boxes) <= MaxBoxes
AddRect(box) == a' = UnionRect(a, box) /\ b' = b
Add == a' = Union(a, b) /\ b' = b
Subtract == a' = Difference(a, b) /\ b' = b
Intersect == a' = Intersection(a, b) /\ b' = b
Xor == a' = Exor(a, b) /\ b' = b
Swap == a' = b /\ b' = a
Clear == a' = EmptyRegion /\ b' = b
(* Every box is moved and added to an empty region again.                    *)
Translate(dx) ==
  LET moved(c) == Columns(c, c.x1 + dx, c.x2 + dx)
  IN /\ \A c \in ToSet(a.boxes) : moved(c) \in Box
     /\ a' = FoldLeft(LAMBDA r, c : UnionRect(r, moved(c)), EmptyRegion, a.boxes)
     /\ b' = b
Next == /\ (\E box \in Box : AddRect(box)) \/ Add \/ Subtract \/ Intersect \/ Xor \/ Swap \/ Clear
              \/ \E dx \in {-1, 1} : Translate(dx)
        /\ Fits
Spec == Init /\ [][Next]_vars

-----------------------------------------------------------------------------
Grid == (0..Width - 1) \X (0..Height - 1)
PointsOf(boxes) == {p \in Grid : \E c \in boxes : c.x1 <= p[1] /\ p[1] < c.x2 /\ c.y1 <= p[2] /\ p[2] < c.y2}
Points(r) == PointsOf(ToSet(r.boxes))
Cover(points, other) ==
  IF other \subseteq points THEN "inside" ELSE IF other \cap points = {} THEN "outside" ELSE "partial"

(* The operations compute the sets of points they are named for              *)
(* (region.hh:46-53), whatever shortcut they take.                           *)
SetOperations ==
  LET p == Points(a)
      q == Points(b)
  IN /\ Points(Union(a, b)) = p \union q /\ Points(Intersection(a, b)) = p \cap q
     /\ Points(Difference(a, b)) = p \ q /\ Points(Exor(a, b)) = (p \ q) \union (q \ p)

(* However a region came about, equal() (which compares extents and boxes)   *)
(* says whether the same points are covered, and point and box are found     *)
(* where the region covers them.                                             *)
QueriesMatchPoints ==
  /\ (a = b) <=> (Points(a) = Points(b))
  /\ \A p \in Grid : PointIn(a, p[1], p[2]) <=> p \in Points(a)
  /\ \A box \in Box : RectIn(a, box) = Cover(Points(a), PointsOf({box}))

(* "Returns if Region covers other fully, partially or not at all"           *)
(* (region.hh:45); the code looks the boxes of the region up in the other.   *)
ContainsTellsCoverage == RegionIn(a, b) = Cover(Points(a), Points(b))
=============================================================================
