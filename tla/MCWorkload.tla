---------------------------- MODULE MCWorkload ----------------------------
(***************************************************************************)
(* Workload for TLC: two configurations that merge and one that does not,  *)
(* and pods that set what the webhook sets, once or twice, that have a     *)
(* volume of its name mounted where the token is read and elsewhere, an    *)
(* init container, or a container named like the agent, and copies of pods *)
(* that were injected before, of the service account itself and of another *)
(* one.                                                                    *)
(***************************************************************************)
EXTENDS Workload

Block(role, region, sts) == [role |-> role, region |-> region, sts |-> sts]
B1 == Block("r1", "eu", TRUE)
B2 == Block("r2", "none", FALSE)
B3 == Block("r3", "eu", FALSE)
MCNoAws == Block("none", "none", FALSE)
MCBlocks == {B1, B2}
MCNoRegion == "none"
MCNoHash == "none"

Merged(block, hash) ==
  [spec |-> [aws |-> block], status |-> [ready |-> TRUE, hash |-> hash]]
MCOthersObject == Merged(B3, "h3")
Conflicting ==
  [spec |-> [aws |-> MCNoAws], status |-> [ready |-> FALSE, hash |-> MCNoHash]]

MCOutcomes == {Merged(B1, "h1"), Merged(B2, "h2"), Conflicting}

Budget(abandons, faults, deaths, sidecars, overlaps) ==
  [abandons |-> abandons, faults |-> faults, deaths |-> deaths, sidecars |-> sidecars,
   overlaps |-> overlaps]
MCBudgets ==
  {Budget(1, 1, 0, 0, 0), Budget(0, 1, 1, 0, 0), Budget(0, 0, 0, 1, 0), Budget(0, 0, 0, 0, 1)}
MCNoFaults == {Budget(0, 0, 0, 0, 0)}

Mounting(name, env, mounts) == [name |-> name, env |-> env, mounts |-> mounts]
C(name, env) == Mounting(name, env, {})
PodOf(volumes, init, containers) ==
  [automount |-> TRUE, volumes |-> volumes, init |-> init, containers |-> containers]

Plain == PodOf({}, <<>>, <<C("app", <<>>)>>)
MCOneShape == {Plain}
MCShapes ==
  {Plain,
   PodOf({<<"data", "disk">>}, <<C("setup", <<>>)>>,
         <<Mounting("app", << <<"AWS_REGION", "us">>, <<"HOME", "/">> >>,
                    {<<"data", "/data">>})>>),
   PodOf({<<"kif-aws", "disk">>}, <<>>,
         <<Mounting("app", << <<"AWS_ROLE_ARN", "own">> >>, {<<"kif-aws", "/own">>}),
           Mounting("log", <<>>, {TokenMount})>>),
   PodOf({}, <<>>,
         <<C("app", << <<"AWS_ROLE_ARN", "own">>, <<"AWS_ROLE_ARN", "other">> >>)>>),
   PodOf({}, <<>>, <<C("app", <<>>), C("kif-agent", <<>>)>>),
   BuildPodPatch(Plain, "own", "h1", B1),
   BuildPodPatch(Plain, "other", "h3", B3)}
===========================================================================
