------------------------- MODULE MCSegmentRecovery --------------------------
(* The ranges of a state file, marked and clipped in any order, or else a    *)
(* segmented download, whose ranges are its own: the two share no variable,  *)
(* and in each behaviour one of them stays where it began.                   *)
EXTENDS DownloadState, SegmentEngine

RangesAndJobInit == StateInit /\ Init

RangesAndJobNext ==
    \/ Init /\ StateNext /\ UNCHANGED vars
    \/ StateInit /\ Next /\ UNCHANGED stateVars

RangesAndJobSpec ==
    RangesAndJobInit /\ [][RangesAndJobNext]_<<stateVars, vars>> /\ Fairness
=============================================================================
