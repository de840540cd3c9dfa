----------------------------- MODULE MCOutbound -----------------------------
(***************************************************************************)
(* A run with two threads and one or two drains, for TLC.                  *)
(***************************************************************************)
EXTENDS Outbound, TLC

CONSTANTS scheduler, attempt, d1, d2, doctor1, doctor2

TwoThreads == {scheduler, attempt}
TwoDrains  == {d1, d2}
TwoDoctors == {doctor1, doctor2}

(* The scheduler records two events and the attempt one; every event is     *)
(* subscribed to but the first of the scheduler.                            *)
SmallQuota == scheduler :> 2 @@ attempt :> 1
AllHeard   == {<<scheduler, 2>>, <<attempt, 1>>}

(* One drain in trouble, two drains, or two doctors.                        *)
Team(ds, xs, n) == [drains |-> ds, doctors |-> xs, trouble |-> n]
OneOrTwo == {Team({d1}, {doctor1}, 2), Team({d1, d2}, {}, 0),
             Team({d1}, {doctor1, doctor2}, 0)}
=============================================================================
