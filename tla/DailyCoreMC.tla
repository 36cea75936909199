----------------------------- MODULE DailyCoreMC -----------------------------
(* Small rankings of two and three names for TLC.                          *)
EXTENDS DailyCore

CONSTANTS a, b, c

TwoRankings == {<<a, b>>, <<b>>}
ThreeRankings == {<<a, b, c>>, <<c, a>>}
=============================================================================
