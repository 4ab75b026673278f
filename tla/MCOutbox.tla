------------------------------- MODULE MCOutbox -------------------------------
(***************************************************************************)
(* A small instance of Outbox for TLC; its run also evaluates what           *)
(* MCBoundaries states of the rules at the edges of the system.             *)
(***************************************************************************)
EXTENDS Outbox, MCBoundaries

CONSTANTS plain, poison

TwoJobs == {plain, poison}
===============================================================================
