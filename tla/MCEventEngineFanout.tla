------------------------- MODULE MCEventEngineFanout -------------------------
(***************************************************************************)
(* EventEngine with one event name and six subscribers, the least number   *)
(* whose broadcast is split with the code's maxPartitionSize of 4: four go *)
(* to the helper, two stay with listen.  The second event comes from a     *)
(* publisher that doneCh does not wait for.                                *)
(***************************************************************************)
EXTENDS EventEngine, TLC

CONSTANTS s1, s2, s3, s4, s5, s6, early, late

MCEventNames  == {"test.event"}
MCSubscribers == {s1, s2, s3, s4, s5, s6}
MCEvents      == {early, late}
MCNameOf      == [m \in MCEvents |-> "test.event"]
MCSubscribeTo == [s \in MCSubscribers |-> MCEventNames]
MCLate        == {late}
MCSymmetry    == Permutations(MCSubscribers)
=============================================================================
