--------------------------- MODULE ClusterRouting ---------------------------
(***************************************************************************)
(* How a request finds the leader: the node of crates/cluster/src/server.rs*)
(* with its HTTP endpoints and client, the peer transport of net_http.rs   *)
(* and the node binary of main.rs.  Elections and the membership log are   *)
(* openraft's (external); the code decides to whom a request is forwarded, *)
(* at which address, with which token, and what an error comes to.         *)
(***************************************************************************)
EXTENDS Naturals

CONSTANTS
  Nodes,
  PeersOf,   \* HttpNode.peers: for each node the nodes whose URL it was started with
  TokenOf,   \* HttpNode.token: for each node its cluster token, or NoToken
  NoToken,
  InitFlag,  \* the node started with --init, or NoNode
  NoNode,
  MaxTerm    \* bound: elections

(* What an instance must satisfy.                                          *)
RoutingConstants ==
  /\ NoNode \notin Nodes /\ InitFlag \in Nodes \cup {NoNode}
  /\ PeersOf \in [Nodes -> SUBSET Nodes]
  /\ MaxTerm \in Nat

VARIABLES
  inited,    \* a membership exists
  joined,    \* nodes in the replicated membership, whose address it carries
  voters,
  leader,    \* the leader, or NoNode
  term,      \* elections so far
  view,      \* whom each node takes for the leader
  booting,   \* the --init task of serve has not run yet
  task,      \* one client's request to a node
  commits    \* history: times the request was committed

vars == <<inited, joined, voters, leader, term, view, booting, task, commits>>
raft == <<inited, joined, voters, leader, term, view, booting>>

NoTask == [kind |-> "none", home |-> NoNode, at |-> NoNode, result |-> "idle"]

Init ==
  /\ inited = FALSE
  /\ joined = {}
  /\ voters = {}
  /\ leader = NoNode
  /\ term = 0
  /\ view = [n \in Nodes |-> NoNode]
  /\ booting = (InitFlag # NoNode)
  /\ task = NoTask
  /\ commits = 0

-----------------------------------------------------------------------------
(* require_auth: a node with a token wants exactly it as the bearer.       *)
Admits(n, token) == TokenOf[n] = NoToken \/ token = TokenOf[n]

(* init and init_single; openraft accepts the first membership only.       *)
Initialize(n, members) ==
  /\ ~inited
  /\ inited' = TRUE
  /\ joined' = members
  /\ voters' = members
  /\ UNCHANGED <<leader, term, view, task, commits>>

(* POST /mgmt/init and /mgmt/init-single by an operator with the token.    *)
ManagedInit(n) ==
  /\ Initialize(n, PeersOf[n] \cup {n}) \/ Initialize(n, {n})
  /\ UNCHANGED booting

(* serve --init: the node calls its own /mgmt/init through Client::new,    *)
(* which carries no token; a failure is printed.                           *)
ServeInit ==
  /\ booting
  /\ booting' = FALSE
  /\ IF Admits(InitFlag, NoToken) /\ ~inited
     THEN Initialize(InitFlag, PeersOf[InitFlag] \cup {InitFlag})
     ELSE UNCHANGED <<inited, joined, voters, leader, term, view, task, commits>>

(* add_learner and change_membership, which only the leader accepts.       *)
AddLearner(n) ==
  /\ leader # NoNode
  /\ joined' = joined \cup {n}
  /\ UNCHANGED <<inited, voters, leader, term, view, booting, task, commits>>

ChangeMembership(vs) ==
  /\ leader # NoNode
  /\ vs # {} /\ vs \subseteq joined
  /\ voters' = vs
  /\ joined' = joined \ (voters \ vs)
  /\ leader' = IF leader \in vs THEN leader ELSE NoNode
  /\ UNCHANGED <<inited, term, view, booting, task, commits>>

(* openraft: an election; a leader that steps down; replication tells a    *)
(* member who leads.  HttpNetwork::new_client takes the member's address   *)
(* from the membership, so that it reaches every node that joined.         *)
Elect(n) ==
  /\ n \in voters /\ term < MaxTerm
  /\ term' = term + 1
  /\ leader' = n
  /\ view' = [view EXCEPT ![n] = n]
  /\ UNCHANGED <<inited, joined, voters, booting, task, commits>>

StepDown ==
  /\ leader # NoNode /\ term < MaxTerm
  /\ leader' = NoNode
  /\ UNCHANGED <<inited, joined, voters, term, view, booting, task, commits>>

Learn(n) ==
  /\ leader # NoNode /\ n \in joined
  /\ view[n] # leader
  /\ view' = [view EXCEPT ![n] = leader]
  /\ UNCHANGED <<inited, joined, voters, leader, term, booting, task, commits>>

-----------------------------------------------------------------------------
(* A gateway's submit or read_run_linearizable at its own node.            *)
Ask(kind, n) ==
  /\ task.result # "open"
  /\ task' = [kind |-> kind, home |-> n, at |-> n, result |-> "open"]
  /\ commits' = 0
  /\ UNCHANGED raft

Answer(result) == task' = [task EXCEPT !.result = result]

(* A node that does not lead forwards to the leader it knows of, at the    *)
(* address of its static peer map, with its own token.                     *)
Forwarding(n) ==
  /\ IF view[n] \in {NoNode, n} THEN Answer("no_leader")
     ELSE IF view[n] \notin PeersOf[n] THEN Answer("no_address")
     ELSE IF ~Admits(view[n], TokenOf[n]) THEN Answer("unauthorized")
     ELSE task' = [task EXCEPT !.at = view[n]]
  /\ UNCHANGED commits

(* submit: client_write here, or one hop to the leader's /api/write, which *)
(* does not forward again.                                                 *)
Write ==
  /\ task.result = "open" /\ task.kind = "write"
  /\ IF leader = task.at THEN Answer("ok") /\ commits' = commits + 1
     ELSE IF task.at = task.home THEN Forwarding(task.at)
     ELSE Answer("not_leader") /\ UNCHANGED commits
  /\ UNCHANGED raft

(* read_run_linearizable: ensure_linearizable here, or the leader's        *)
(* /api/read-linear, which is read_run_linearizable again.                 *)
ReadLinear ==
  /\ task.result = "open" /\ task.kind = "read"
  /\ IF leader = task.at THEN Answer("ok") /\ UNCHANGED commits
     ELSE Forwarding(task.at)
  /\ UNCHANGED raft

(* The forwarded call's connection breaks, before or after its effect.     *)
Break ==
  /\ task.result = "open" /\ task.at # task.home
  /\ Answer("broken")
  /\ commits' \in {commits} \cup (IF task.kind = "write" /\ leader = task.at THEN {commits + 1} ELSE {})
  /\ UNCHANGED raft

Serve == Write \/ ReadLinear

Next ==
  \/ ServeInit \/ StepDown
  \/ \E n \in Nodes : ManagedInit(n) \/ AddLearner(n) \/ Elect(n) \/ Learn(n)
  \/ \E vs \in SUBSET Nodes : ChangeMembership(vs)
  \/ \E n \in Nodes, kind \in {"write", "read"} : Ask(kind, n)
  \/ Serve \/ Break

Spec == Init /\ [][Next]_vars

(* A node's server answers what it is asked, and a node's start runs its   *)
(* tasks; nothing is assumed of elections.                                 *)
FairSpec == Spec /\ WF_vars(Serve) /\ WF_vars(ServeInit)

-----------------------------------------------------------------------------
(* A gateway fails open on any error of submit.  Only a broken connection  *)
(* leaves the outcome open: every error this code makes up itself means    *)
(* that the write was not committed, and no write is committed twice.      *)
DefiniteErrors ==
  /\ commits <= 1
  /\ task.result \in {"no_leader", "no_address", "unauthorized", "not_leader"} => commits = 0
  /\ task.kind = "write" /\ task.result = "ok" => commits = 1

(* /api/read-linear forwards again, to whomever the next node takes for    *)
(* the leader.  No chain of stale beliefs closes into a cycle, in which a  *)
(* read would go round for ever: every request is answered, even if nobody *)
(* is ever elected again.                                                  *)
ReadsAnswered == task.result = "open" ~> task.result # "open"
=============================================================================
