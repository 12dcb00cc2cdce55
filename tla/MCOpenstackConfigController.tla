-------------------- MODULE MCOpenstackConfigController --------------------
(* Instances of OpenstackConfigController for TLC. *)
EXTENDS OpenstackConfigController, TLC

\* Two specs that differ in the subnet alone.
S1 == [credentials |-> "k", vmNames |-> <<"vm">>, subnetName |-> "net1"]
S2 == [credentials |-> "k", vmNames |-> <<"vm">>, subnetName |-> "net2"]
MCSpecs == {S1, S2}

Every(seconds) == [parses |-> TRUE, seconds |-> seconds]

Scheduled(i, now) == Trigger("scheduled", i, now)

\* No operator; two schedules, one below the floor of one minute and one that
\* does not parse; a mode the code does not name next to "manual".
MCOperatorSets ==
    {{}, {Scheduled(Every(30), FALSE), Scheduled(NoInterval, TRUE)},
     {Trigger("other", NoInterval, FALSE), Trigger("manual", NoInterval, FALSE)}}

\* The default, the other modes that act on demand, and a schedule.
EveryMode ==
    {{}, {Trigger("manual", NoInterval, FALSE), Trigger("webhook", NoInterval, FALSE)},
     {Scheduled(Every(30), FALSE)}}

NoOperator == {{}}

Has(s1, s2) == (S1 :> s1) @@ (S2 :> s2)

\* The VM has no port in the second subnet.
SecondEmpty == {Has("ports", "noPorts")}

\* The VM is yet to boot, or its second subnet to be created; or it has ports in
\* both subnets.
ThereOrNot == {Has("noVMs", "noSubnet"), Has("ports", "ports")}

AllThere == {Has("ports", "ports")}
=============================================================================
