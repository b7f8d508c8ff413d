--------------------------- MODULE MCBoostManager ---------------------------
EXTENDS BoostManager, TLC
Fixed == [sel |-> Pods, pol |-> {"FixedDuration"}]
Condition == [sel |-> Pods, pol |-> {"PodCondition"}]
Elsewhere == [sel |-> {}, pol |-> {"FixedDuration"}]
FixedSpecs == {Fixed}
ConditionSpecs == {Condition}
ChangingSpecs == {Fixed, Condition, Elsewhere}
MovingSpecs == {Fixed, Elsewhere}
NoFaults == {}
LabelFaults == {<<"labels", "fail">>, <<"labels", "lost">>, <<"resize", "lost">>}
ResizeFaults == {<<"resize", "fail">>}
AllFaults == {"resize", "labels", "update"} \X {"fail", "lost"}
Symmetry == Permutations(Pods)
=============================================================================
