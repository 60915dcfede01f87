--------------------------- MODULE MCGroupHistory ---------------------------
(* Model-checking instance of GroupHistory: four messages against lists of  *)
(* two, so that both lists overflow between two mentions of the bot.        *)
EXTENDS GroupHistory, TLC

CONSTANTS m1, m2, m3, m4, baseLane, controlLane

MCMessages == {m1, m2, m3, m4}
MCLanes == {baseLane, controlLane}
MCSymmetry == Permutations(MCMessages) \cup Permutations(MCLanes)
=============================================================================
