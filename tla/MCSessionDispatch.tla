-------------------------- MODULE MCSessionDispatch --------------------------
(***************************************************************************)
(* Instances of SessionDispatch for TLC.  Each scenario says who calls,    *)
(* what the phone starts, in that order, and how many multimedia states    *)
(* follow the first; the rest is left to Next.                             *)
(***************************************************************************)
EXTENDS SessionDispatch

CONSTANTS r1, r2,     \* a caller with a deadline and one without
          Scenarios

TwoCallers == {r1, r2}
OneDeadline == {r1}

Scenario(callers, script, states) ==
    [callers |-> callers, script |-> script, states |-> states]

(* Overlapping requests, requests with an incoming message, and queues     *)
(* that fill up.                                                           *)
Overlaps ==
    { Scenario({r1, r2}, <<>>, 0), Scenario({r1, "beat"}, <<>>, 0),
      Scenario({r1}, <<>>, 1),
      Scenario({r1}, <<"sync">>, 0), Scenario({r1}, <<"key">>, 0),
      Scenario({}, <<"move", "key", "move">>, 0), Scenario({}, <<"move", "move">>, 0),
      Scenario({}, <<"sync", "call", "clear">>, 0),
      Scenario({}, <<"clear", "unpair">>, 0), Scenario({}, <<"status", "sync">>, 0) }

(* What has to stop when the connection goes.                              *)
Endings ==
    { Scenario({r1}, <<>>, 0), Scenario({"beat"}, <<>>, 0), Scenario({}, <<>>, 1),
      Scenario({}, <<"sync">>, 0), Scenario({}, <<"move">>, 0) }

(* Two requests while the user types on the phone, which stays.            *)
Typing == { Scenario({r1, r2}, <<"key", "key", "key">>, 0) }

VARIABLE scenario

InScenario ==
    /\ \A c \in Caller \ scenario.callers : pc'[c] \in {"idle", "done"}
    /\ scenario \in Typing => ~PhoneLeaves /\ ~Cancel
    /\ stateNo' <= scenario.states
    /\ Len(sent') <= Len(scenario.script)
    /\ \A n \in DOMAIN sent' : sent'[n] = scenario.script[n]

MCInit == Init /\ scenario \in Scenarios
MCNext == Next /\ InScenario /\ UNCHANGED scenario
MCSpec == MCInit /\ [][MCNext]_<<vars, scenario>>
MCFairSpec == MCSpec /\ HostFairness
MCResponsiveSpec == MCFairSpec /\ ResponsivePhone
=============================================================================
