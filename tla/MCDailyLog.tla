----------------------------- MODULE MCDailyLog -----------------------------
(* A bound for TLC: once dates were mixed, or a start met a call around    *)
(* midnight, only the first start is followed further, and only with       *)
(* days = 1 and a plain name.                                              *)
EXTENDS DailyLog

Followed == raced = "yes" => starts = 1 /\ days = 1 /\ logName = "plain"
=============================================================================
