---------------------------- MODULE MCStructures ----------------------------
(***************************************************************************)
(* For TLC: the structures that stand alone, next to each other.  The      *)
(* choice of `structure' in the initial state says which one is used.      *)
(***************************************************************************)
EXTENDS AVLTree, LFList, InvalidList, VolumeTable, WriteRange

VARIABLE structure

structureVars ==
    <<structure, treeVars, listVars, invalidVars, volumeVars, rangeVars>>

StructuresInit ==
    /\ structure \in {"tree", "lflist", "invalid_list", "volumes", "range"}
    /\ TreeInit /\ ListInit /\ InvalidInit /\ VolumeInit /\ RangeInit
    /\ structure # "range" => offset = 0 /\ asked = 0

StructuresNext ==
    /\ UNCHANGED structure
    /\ \/ /\ structure = "tree" /\ TreeNext
          /\ UNCHANGED <<listVars, invalidVars, volumeVars, rangeVars>>
       \/ /\ structure = "lflist" /\ ListNext
          /\ UNCHANGED <<treeVars, invalidVars, volumeVars, rangeVars>>
       \/ /\ structure = "invalid_list" /\ InvalidNext
          /\ UNCHANGED <<treeVars, listVars, volumeVars, rangeVars>>
       \/ /\ structure = "volumes" /\ VolumeNext
          /\ UNCHANGED <<treeVars, listVars, invalidVars, rangeVars>>
       \/ /\ structure = "range" /\ WriteRound
          /\ UNCHANGED <<treeVars, listVars, invalidVars, volumeVars>>

StructuresSpec == StructuresInit /\ [][StructuresNext]_structureVars
=============================================================================
