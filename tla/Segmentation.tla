---------------------------- MODULE Segmentation ----------------------------
(***************************************************************************)
(* pkg/segmentation: the execution segment of each runner. The text of a   *)
(* fraction, "0", "1" or "i/n", is the pair of its numerator and           *)
(* denominator.                                                            *)
(*                                                                         *)
(* A definition named D_x is D with a defect: a property is worth checking *)
(* when such a defect violates it.                                         *)
(***************************************************************************)
EXTENDS Integers, Sequences

beginning == <<0, 1>>
end       == <<1, 1>>

(* getSegmentPart *)
SegmentPart(index, total) ==
  IF index = 0 THEN beginning ELSE IF index = total THEN end ELSE <<index, total>>

(* An index above total is an error, which CreateJobs never makes happen.   *)
Segment_ZeroBased(index, total) ==
  <<SegmentPart(index, total), SegmentPart(index + 1, total)>>

Segment(index, total) == <<SegmentPart(index - 1, total), SegmentPart(index, total)>>

(* The parts joined by commas. *)
SegmentSequence(total) == <<beginning>> \o [i \in 1 .. total - 1 |-> <<i, total>>] \o <<end>>

-----------------------------------------------------------------------------
(* What k6 demands of the segments of a distributed test: the segment of    *)
(* every runner is a step of the common sequence, the segments follow each  *)
(* other from 0 to 1 without gap or overlap, and all are equally long.      *)
EqualShare(segment, total) ==
  total * (segment[2][1] * segment[1][2] - segment[1][1] * segment[2][2])
    = segment[1][2] * segment[2][2]

Tile(segment, sequence, total) ==
  /\ segment[1][1] = beginning /\ segment[total][2] = end
  /\ \A i \in 1 .. total - 1 : segment[i][2] = segment[i + 1][1]
  /\ \A i \in 1 .. total : /\ segment[i] = <<sequence[i], sequence[i + 1]>>
                           /\ EqualShare(segment[i], total)
=============================================================================
