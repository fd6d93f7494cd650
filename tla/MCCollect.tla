------------------------------ MODULE MCCollect ------------------------------
(***************************************************************************)
(* Instance of Collect: two scenes, one whose rows every frame needs and   *)
(* one whose rows may be absent; three requests, of two and of three       *)
(* points, and one that asks for too many.                                 *)
(***************************************************************************)
EXTENDS Collect

MCSceneLabels == [io |-> {"DSK"}, network |-> {"NET"}]
MCRequiredLabels == [io |-> {}, network |-> {"NET"}]

MCRequests ==
    { [w |-> 1, s |-> 1, scenes |-> {"network"}, threads |-> FALSE],
      [w |-> 3, s |-> 2, scenes |-> {"io"}, threads |-> TRUE],
      [w |-> 3, s |-> 1, scenes |-> NoScenes, threads |-> FALSE] }

MCBackground == [w |-> 1, s |-> 1, scenes |-> AllScenes, threads |-> FALSE]
=============================================================================
