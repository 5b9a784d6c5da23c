---------------------------- MODULE MCFollowGraph ----------------------------
(* The instance of FollowGraph for model checking.  Each user has three    *)
(* things in all among taps, edits of the profile and kills of the app, in *)
(* any order.                                                              *)
EXTENDS FollowGraph, TLC

Spent(c) == (MaxTaps - taps[c]) + (MaxEdits - edits[c]) + (MaxCrashes - crashes[c])
Budget == \A c \in Users : Spent(c) <= MaxTaps

MCNext == Next /\ Budget'

MCSpec == Init /\ [][MCNext]_vars /\ Fairness
==============================================================================
