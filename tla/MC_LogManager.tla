---------------------------- MODULE MC_LogManager ----------------------------
(* LogManager for TLC: client threads are model values.                    *)
EXTENDS LogManager, TLC

CONSTANTS c1, c2

MCThreads2 == {c1, c2}
=============================================================================
