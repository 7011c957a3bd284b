----------------------------- MODULE MCListing -----------------------------
(***************************************************************************)
(* Instances of Listing for TLC.                                           *)
(***************************************************************************)
EXTENDS Listing

\* A missing limit, one beyond the largest page, and two in between.
SmallLimits == {0, 1, 2, 5}

\* Ids and times, with ties.
FourRows == 1 .. 4
TwoTimes == 1 .. 2
=============================================================================
