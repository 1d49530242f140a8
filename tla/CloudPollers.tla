---------------------------- MODULE CloudPollers ----------------------------
(***************************************************************************)
(* How the control plane's kills, run budgets and unit budgets reach the   *)
(* gateways (the pollers of crates/gateway/src/cloudsink.rs, wired in      *)
(* main.rs, and the reads of crates/cloud/src/http.rs).  Each poller asks, *)
(* waits, and applies what came back, while operators change the plane;    *)
(* answers may be refused, fail or not parse, the plane may crash and come *)
(* back with an older snapshot, and gateways may restart.                  *)
(***************************************************************************)
EXTENDS Naturals, FiniteSets, TLC

CONSTANTS
  Gateways, Runs, Units,
  Budgets,     \* amounts an operator may set
  IdentityOn,  \* gateways with an identity map: they poll unit budgets
  MaxChanges,  \* bound: operator changes
  MaxFaults    \* bound: crashes, restarts and polls that bring nothing

VARIABLES
  plane,     \* [kills, budgets, units]: what the store holds
  snapshot,  \* what it saved last
  gateway,   \* per gateway what its handlers enforce
  pending,   \* per gateway and poller [state, answer]: whether an answer is on its way
  changes, faults

vars == <<plane, snapshot, gateway, pending, changes, faults>>

Pollers == {"kills", "budgets", "units"}
Blank == [kills |-> {}, budgets |-> <<>>, units |-> <<>>]
Polls(g, p) == p = "units" => g \in IdentityOn

Waiting == [state |-> "waiting", answer |-> {}]

Init ==
  /\ plane = Blank /\ snapshot = Blank
  /\ gateway = [g \in Gateways |-> Blank]
  /\ pending = [g \in Gateways |-> [p \in Pollers |-> Waiting]]
  /\ changes = 0 /\ faults = 0

(* kill, set_budget, set_unit_budget at the plane.  Nothing is ever taken  *)
(* back there.                                                             *)
Changed(new) ==
  /\ changes < MaxChanges /\ changes' = changes + 1
  /\ plane' = new
  /\ UNCHANGED <<snapshot, gateway, pending, faults>>

Kill(run) == Changed([plane EXCEPT !.kills = @ \cup {run}])
SetBudget(run, b) == Changed([plane EXCEPT !.budgets = (run :> b) @@ @])
SetUnitBudget(unit, b) == Changed([plane EXCEPT !.units = (unit :> b) @@ @])

Autosave ==
  /\ snapshot # plane
  /\ snapshot' = plane
  /\ UNCHANGED <<plane, gateway, pending, changes, faults>>

Fault == faults < MaxFaults /\ faults' = faults + 1

PlaneCrash ==
  /\ Fault
  /\ plane' = snapshot
  /\ UNCHANGED <<snapshot, gateway, pending, changes>>

GatewayRestart(g) ==
  /\ Fault
  /\ gateway' = [gateway EXCEPT ![g] = Blank]
  /\ pending' = [pending EXCEPT ![g] = [p \in Pollers |-> Waiting]]
  /\ UNCHANGED <<plane, snapshot, changes>>

-----------------------------------------------------------------------------
(* A tick: the GET, answered with what the plane holds at that moment.     *)
Poll(g, p) ==
  /\ Polls(g, p) /\ pending[g][p] = Waiting
  /\ pending' = [pending EXCEPT ![g][p] = [state |-> "arrived", answer |-> plane[p]]]
  /\ UNCHANGED <<plane, snapshot, gateway, changes, faults>>

\* Mutant of PollFails: the loop ends.
PollFailsForGood(g, p) ==
  /\ Polls(g, p) /\ pending[g][p] = Waiting
  /\ Fault
  /\ pending' = [pending EXCEPT ![g][p].state = "ended"]
  /\ UNCHANGED <<plane, snapshot, gateway, changes>>

(* No connection, a 402 or any other status but 2xx, or a body that is     *)
(* lost or does not parse: nothing is applied and the next tick tries.     *)
PollFails(g, p) ==
  /\ Polls(g, p)
  /\ Fault
  /\ pending' = [pending EXCEPT ![g][p] = Waiting]
  /\ UNCHANGED <<plane, snapshot, gateway, changes>>

(* The kill poller adds; the budget pollers replace the whole map.         *)
Applied(g, p, answer) ==
  IF p = "kills" THEN gateway[g].kills \cup answer ELSE answer

Apply(g, p) ==
  /\ pending[g][p].state = "arrived"
  /\ gateway' = [gateway EXCEPT ![g][p] = Applied(g, p, pending[g][p].answer)]
  /\ pending' = [pending EXCEPT ![g][p] = Waiting]
  /\ UNCHANGED <<plane, snapshot, changes, faults>>

Next ==
  \/ \E run \in Runs : Kill(run) \/ \E b \in Budgets : SetBudget(run, b)
  \/ \E unit \in Units, b \in Budgets : SetUnitBudget(unit, b)
  \/ Autosave \/ PlaneCrash
  \/ \E g \in Gateways : GatewayRestart(g)
  \/ \E g \in Gateways, p \in Pollers : Poll(g, p) \/ PollFails(g, p) \/ Apply(g, p)

(* The interval timers tick for ever, and an answer that arrived is        *)
(* applied.                                                                *)
Fairness == \A g \in Gateways, p \in Pollers : WF_vars(Poll(g, p)) /\ WF_vars(Apply(g, p))

Spec == Init /\ [][Next]_vars /\ Fairness

-----------------------------------------------------------------------------
(* An operator's kill that the plane does not lose in a crash reaches      *)
(* every gateway, whatever polls failed before and although gateways       *)
(* forget theirs in a restart.                                             *)
KillsReachGateways ==
  \A run \in Runs : [](run \in snapshot.kills =>
    <>(\A g \in Gateways : run \in gateway[g].kills))

(* Once operators, crashes and failed polls stop, every gateway enforces   *)
(* exactly the plane's budgets: none that the plane no longer has, none    *)
(* that it has is missing.                                                 *)
BudgetsConverge ==
  <>[](\A g \in Gateways : /\ gateway[g].budgets = plane.budgets
                           /\ g \in IdentityOn => gateway[g].units = plane.units)

=============================================================================
