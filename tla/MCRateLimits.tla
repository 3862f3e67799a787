---------------------------- MODULE MCRateLimits ----------------------------
(* An hour is two ticks, a day four, a week eight; a counter outlives its    *)
(* window by the one tick a worker may stall.                                *)
EXTENDS RateLimits, TLC

CONSTANTS HourCap, DayCap, WeekCap

MCLength == [k \in Kinds |-> CASE k \in {"globalHour", "otpHour"} -> 2
                               [] k \in {"globalDay", "userDay"}  -> 4
                               [] k = "userWeek"                  -> 8]
MCTTL == [k \in Kinds |-> MCLength[k] + 1]
MCCap == [k \in Kinds |-> [c \in Categories |->
              CASE k = "otpHour"   -> 1
                [] k = "globalHour" -> HourCap
                [] k = "globalDay"  -> DayCap + 1
                [] k = "userDay"    -> DayCap
                [] k = "userWeek"   -> WeekCap]]
WorkerSymmetry == Permutations(Workers)
=============================================================================
