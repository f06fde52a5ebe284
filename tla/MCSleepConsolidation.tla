------------------------ MODULE MCSleepConsolidation ------------------------
(***************************************************************************)
(* Values of the constants of SleepConsolidation for TLC.                  *)
(***************************************************************************)
EXTENDS SleepConsolidation

(* SleepRunner::default *)
DefaultJobs == <<"CheckpointGeneration", "DuplicateMerging", "WeakEdgeDecay",
                 "ArchiveIsolatedWeakNodes", "LessonReinforcement", "Reconsolidation">>

(* The support of one lesson: one memory, two, or one listed twice. *)
SomeSupport == {{<<1, 1>>}, {<<2, 1>>, <<3, 1>>}, {<<1, 1>>, <<1, 2>>}}
=============================================================================
