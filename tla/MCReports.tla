------------------------------ MODULE MCReports ------------------------------
(***************************************************************************)
(* A small instance of Reports: two people, two workers, two schedules.    *)
(***************************************************************************)
EXTENDS ReportsProperties

CONSTANTS ann, bob, w1, w2, hand

MCInterval == [hourly |-> 1]
=============================================================================
