----------------------------- MODULE MCClassify -----------------------------
(* Small instances of Classify: a capture with a screenshot, a newer one of a  *)
(* visit that failed, and two processes that use the same model.               *)
EXTENDS Classify, TLC

CONSTANTS watch, command

MCRunners == {watch, command}

MCCaptures == 1..2
MCReached == {1}
MCCapturedAt == 1 :> 1 @@ 2 :> 2
\* The watch takes the newest one only.
MCLimit == watch :> 1 @@ command :> 2
MCModels == {"ministral"}

MCSameModel == [r \in MCRunners |-> "ministral"]
MCStub == [r \in MCRunners |-> NoModel]
=============================================================================
