------------------------------- MODULE LTree -------------------------------
(***************************************************************************)
(* The B+tree of LTree.cpp: statement by statement that of TTree.cpp, with *)
(* the counters of ones left out.  There is no rank1, entries and paths    *)
(* count bits only, and setBit ends in the leaf.  The functions of this    *)
(* file that have the name of one in TTree.cpp end in Ltree here, as the   *)
(* wrappers in DKTree.cpp do.                                              *)
(***************************************************************************)
EXTENDS TTree

ASSUME NoOnesAssumption == CountsOnes = FALSE

InitLtree == Init

insertBlockLtree == insertBlock
deleteBlockLtree == deleteBlock
setBitLtree == setBit
accessLtree == access

findLeaf2 == GoUp \/ TurnDown
findChild == Descend

accessBit == AccessLeaf
setLeafBit == SetLeavesBit \/ SetInLeaf
insertBits == InsertInLeaf
deleteBits == DeleteInLeaf

updateCountersLtree == UpdateCounters
countersUpdated == BlockCounted

InLeaf == node[at].isLeaf

upperFits == FitsAbove
trySpillInternal == pc = "upper" /\ ~InLeaf /\ (SpillLeft \/ SpillRight)
trySpillLeaf == pc = "upper" /\ InLeaf /\ (SpillLeft \/ SpillRight)
splitInternal == pc = "upper" /\ ~InLeaf /\ (SplitRoot \/ Split)
splitLeaf == pc = "upper" /\ InLeaf /\ (SplitRoot \/ Split)

lowerFits == FitsBelow
tryStealInternal == pc = "lower" /\ ~InLeaf /\ (StealFromLeft \/ StealFromRight)
tryStealLeaf == pc = "lower" /\ InLeaf /\ (StealFromLeft \/ StealFromRight)
mergeInternal == pc = "lower" /\ ~InLeaf /\ (MergeRoot \/ MergeNodes)
mergeLeaf == pc = "lower" /\ InLeaf /\ MergeNodes

checkSizeUpperLtree ==
  upperFits \/ trySpillInternal \/ trySpillLeaf \/ splitInternal \/ splitLeaf

checkSizeLowerLtree ==
  lowerFits \/ tryStealInternal \/ tryStealLeaf \/ mergeInternal \/ mergeLeaf

StartLtree == insertBlockLtree \/ deleteBlockLtree \/ setBitLtree \/ accessLtree

RunLtree == \/ findLeaf2 \/ findChild
            \/ accessBit \/ setLeafBit \/ insertBits \/ deleteBits
            \/ updateCountersLtree \/ countersUpdated
            \/ checkSizeUpperLtree \/ checkSizeLowerLtree

NextLtree == StartLtree \/ RunLtree

SpecLtree == InitLtree /\ [][NextLtree]_vars

=============================================================================
