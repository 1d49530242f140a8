---------------------------- MODULE ClusterParts ----------------------------
(***************************************************************************)
(* Parts of a cluster side by side, each with variables of its own: the    *)
(* replicated ledger (RaftLedger), a node's durable storage (RaftStorage), *)
(* the way of a request to the leader (ClusterRouting) and the agent-event *)
(* file (EventLog), and what is promised of them.  The runs check these    *)
(* promises, the proofs establish them.                                    *)
(***************************************************************************)
EXTENDS RaftLedger

(* The redb file of a node.                                                *)
CONSTANTS Normal, Members, Blank, MaxIndex, MaxVote, MaxCrashes
VARIABLES disk, mem, phase, core, worker, chosen, counted, told, crashes

Disk == INSTANCE RaftStorage

ASSUME BoundsAssumption == Disk!StorageConstants

(* Leaders, forwarding and membership.                                     *)
CONSTANTS Peers, PeersOf, TokenOf, NoToken, InitFlag, MaxTerm
VARIABLES inited, joined, voters, head, term, view, booting, task, commits

Routing == INSTANCE ClusterRouting WITH Nodes <- Peers, leader <- head

(* The file of agent events.                                               *)
CONSTANTS Emitters, TraceRuns, Times, None, Torn, Tears, MaxEvents, MaxFailures
VARIABLES file, open, sink, held, written, precedes, skipped, built, failures

Log == INSTANCE EventLog WITH Runs <- TraceRuns

-----------------------------------------------------------------------------
(* redbstore.rs: what the storage owes openraft and the ledger, whichever  *)
(* transactions a crash falls between.                                     *)
CrashSafe == Disk!CrashSafe

(* What callers are told is so.  server.rs, raft_ledger.rs: an error that  *)
(* the code makes up itself means that nothing was committed.              *)
(* agent_event.rs: an event that was reported as written is a line of the  *)
(* file, and the file is one chain, as long as failures write whole lines  *)
(* or none.                                                                *)
ErrorsTrue == Routing!DefiniteErrors
EventsTrue == ~Tears => Log!ChainUnbroken /\ Log!WrittenIsOnDisk
ReportedIsTrue == ErrorsTrue /\ EventsTrue
=============================================================================
