---------------------------- MODULE MCPictureMode ----------------------------
(* Instances of PictureMode: what uninitialised memory holds in them.      *)
EXTENDS PictureMode

Zeroed == {[flag |-> FALSE, pre |-> "off"]}

\* A flag that nobody set, and each way mPreFilmMakerMode can start.
Dirty == Zeroed \cup
         {[flag |-> FALSE, pre |-> "on"], [flag |-> TRUE, pre |-> "wild"],
          [flag |-> TRUE, pre |-> "off"]}
=============================================================================
