---------------------------- MODULE MCScheduler ----------------------------
(* Instances of Scheduler for TLC: two hourly tenants and a daily one.       *)
EXTENDS Scheduler

CONSTANTS daily, hourly, other

DailyBetween == <<hourly, daily, other>>

Plans == [t \in {daily, hourly, other} |-> IF t = daily THEN "free" ELSE "pro"]
=============================================================================
