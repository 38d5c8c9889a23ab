---------------------------- MODULE MC_Features ----------------------------
\* Features on a table of three features whose ids[] lists them out of
\* index order, with 64-bit slots narrowed to 2^3.
EXTENDS Features, TLC

\* ids[k].index for the three known features.
MCIdIndex == (0 :> 2 @@ 1 :> 0 @@ 2 :> 1)
=============================================================================
