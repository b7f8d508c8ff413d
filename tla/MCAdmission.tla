---------------------------- MODULE MCAdmission ----------------------------
(***************************************************************************)
(* Boosts and pods for the runs about Admission.  Quantities are small and *)
(* chosen so that rounding, a target below the current quantity, a zero    *)
(* request and every QoS class occur.                                      *)
(***************************************************************************)
EXTENDS Admission

\* A pair is the request and the limit of one resource.
List(cpu, memory, i) ==
    LET q == [r \in Resources |-> IF r = "cpu" THEN cpu[i] ELSE memory[i]]
    IN [r \in {x \in Resources : q[x] # None} |-> q[r]]
Required(cpu, memory) == [requests |-> List(cpu, memory, 1), limits |-> List(cpu, memory, 2)]

NoPair == <<None, None>>
AppResources == {Required(cpu, memory) :
    cpu \in {NoPair, <<15, None>>, <<0, 100>>, <<15, 100>>, <<100, 100>>},
    memory \in {NoPair, <<1, 1>>}}
SideResources == {Required(cpu, <<1, 1>>) : cpu \in {NoPair, <<60, 80>>, <<100, 100>>}}
AppContainer(res, resize) == [name |-> "app", resources |-> res, resizePolicy |-> resize]
SideContainer(res) == [name |-> "side", resources |-> res, resizePolicy |-> <<>>]

Pod(containers, init, resources) ==
    [containers |-> containers, initContainers |-> init, resources |-> resources]

SmallPods ==
    {Pod(<<AppContainer(a, <<>>), SideContainer(s)>>, <<>>, None) :
        a \in AppResources, s \in SideResources}
    \cup {Pod(<<AppContainer(a, [r \in {"cpu"} |-> resize])>>, init, p) :
        a \in AppResources, resize \in {"NotRequired", "RestartContainer"},
        init \in {<<>>, <<Required(<<15, 15>>, <<1, 1>>)>>},
        p \in {None, Required(<<200, 200>>, <<2, 2>>)}}

ContainerPolicy(name, fixed, percentage) ==
    [name |-> name, fixed |-> fixed, percentage |-> percentage]
Targets(requests, limits) == [requests |-> requests, limits |-> limits]
Boost(valid, policies, fixed, condition) ==
    [selectorValid |-> valid, containerPolicies |-> policies,
     durationPolicy |-> [fixed |-> fixed, podCondition |-> condition]]
Fixed(value, unit) == [value |-> value, unit |-> unit]

ToTarget == ContainerPolicy("app", Targets(120, 0), None)
ToBoth == ContainerPolicy("app", Targets(50, 110), None)
Half == ContainerPolicy("*", None, 50)
SmallBoosts ==
    {Boost(TRUE, <<Half>>, Fixed(3, "Seconds"), None),
     Boost(TRUE, <<Half, ToBoth, ToTarget>>, None, "Ready"),
     Boost(TRUE, <<ToBoth, Half>>, Fixed(4, "Minutes"), None),
     Boost(FALSE, <<Half>>, None, "Ready"),
     Boost(TRUE, <<Half, Half>>, None, "Ready"),
     Boost(TRUE, <<[ToBoth EXCEPT !.percentage = 50]>>, None, "Ready"),
     Boost(TRUE, <<Half>>, Fixed(3, "Minutes"), "Ready"),
     Boost(TRUE, <<Half>>, None, None)}
=============================================================================
