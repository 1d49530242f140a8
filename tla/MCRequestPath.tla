--------------------------- MODULE MCRequestPath ---------------------------
(* Instances of the request path and of what a request meets on it:        *)
(* runaway detection, router and metering of the response; of    *)
(* the calendar and the offline reports, which read what it leaves; and of *)
(* the MCP scan.  A behaviour runs one part, chosen at the start: the      *)
(* request path has variables of its own, the other parts share the slots  *)
(* s1, s2, ...                                                             *)
EXTENDS RequestPath, Prices, FiniteSets, TLC

CONSTANTS
  Parts,       \* the parts to run
  r1, r2, eng

VARIABLES part, s1, s2, s3, s4, s5, s6, s7, s8, s9, s10, s11, s12, s13

-----------------------------------------------------------------------------
(* Streamed and buffered requests of one or two runs, with and without a   *)
(* capped business unit.                                                   *)
Request(run, budget, u, stream, estimate) ==
  [run |-> run, parent |-> NoRun, budget |-> budget, unit |-> u, stream |-> stream,
   estimate |-> estimate]

MCBaseCap == [u \in Units |-> 3]

MixedRequests ==
  {Request(r1, 3, eng, TRUE, 2), Request(r2, 2, eng, FALSE, 2), Request(NoRun, 0, NoUnit, FALSE, 1)}

OneRunRequests == {Request(r1, 3, NoUnit, TRUE, 2), Request(r1, 3, NoUnit, FALSE, 1)}

StreamRequests == {Request(r1, 3, eng, TRUE, 1)}

-----------------------------------------------------------------------------
(* Two agents in a run; windows that are shorter than the conversations.   *)
Loops == INSTANCE Runaway WITH
  Agents <- {"a1", "a2"}, Sigs <- {"s", "t"}, Sizes <- {0, 2},
  Identical <- {[window |-> 3, threshold |-> 3]}, Pingpong <- {[window |-> 4, threshold |-> 1]},
  ContextGrowth <- {[num |-> 1, den |-> 1, consecutive |-> 2]},
  MaxSteps <- 2, StepCap <- 5, Estimates <- {5, 6}, HistoryMax <- 4, Modes <- {"shadow", "enforce"}, MaxConv <- 4,
  mode <- s1, conv <- s2, history <- s3, steps <- s4, answer <- s5

-----------------------------------------------------------------------------
(* The shipped prices and rules, and a rules file that lists a model with  *)
(* two tiers, dearest first, and no default class.                         *)
Tiered(m, t) == [model |-> m, tier |-> t]
OddRules ==
  [default |-> "nowhere",
   classes |-> "hard" :> [required |-> "sonnet",
                          candidates |-> <<Tiered("o1", "opus"), Tiered("gpt-4o", "sonnet"), Tiered("gpt-4o-mini", "haiku")>>]
            @@ "cheap" :> [required |-> "haiku", candidates |-> <<Tiered("gpt-4o", "haiku"), Tiered("gpt-4o-mini", "haiku")>>]
            @@ "empty" :> [required |-> "opus", candidates |-> <<Tiered("gpt-4o", "haiku")>>]]

RoutedRequests ==
  [model : {"claude-opus-4-5", "claude-haiku-4-5", "gpt-4o", "gpt-4o-mini", "o1", "new-model"},
   class : {"", "hard", "cheap", "empty"}, bodyLen : {0, 5, 400, 40000}, maxTokens : {{}, {0}, {1}, {5000}}, json : BOOLEAN]

Routes == INSTANCE Router WITH
  RuleFiles <- {{}, {OddRules}}, Modes <- {"off", "shadow", "on"}, Requests <- RoutedRequests, Growth <- {0, 12},
  mode <- s1, rules <- s2, tierIndex <- s3, req <- s4, model <- s5, sent <- s6, decision <- s7, reserved <- s8,
  phase <- s9

-----------------------------------------------------------------------------
(* Bodies of a few lines of two to three bytes.                            *)
Line(len, u, blocks, calls) == [len |-> len, json |-> TRUE, usage |-> u, blocks |-> blocks, calls |-> calls]
Noise(len) == [len |-> len, json |-> FALSE, usage |-> Usage(0, 0, 0, 0), blocks |-> 0, calls |-> {}]

Anthropic ==
  [sse |-> TRUE, lines |-> <<Line(3, Usage(1000, 1, 4000, 2000), 0, {}), Line(2, Usage(0, 0, 0, 0), 1, {}),
                             Line(2, Usage(0, 300, 0, 0), 1, {}), Line(2, Usage(0, 900, 0, 0), 0, {}), Noise(2)>>]
OpenAi ==
  [sse |-> TRUE, lines |-> <<Line(2, Usage(0, 0, 0, 0), 0, {<<0, 0>>, <<1, 0>>}), Line(2, Usage(0, 0, 0, 0), 0, {<<0, 0>>, <<0, 1>>}),
                             Line(3, Usage(1000, 900, 0, 0), 0, {}), Noise(1)>>]
OneObject == [sse |-> FALSE, lines |-> <<Line(5, Usage(700, 40, 30, 0), 2, {})>>]
NotJson == [sse |-> FALSE, lines |-> <<Noise(14)>>]
NoBody == [sse |-> FALSE, lines |-> <<>>]

Metering == INSTANCE StreamUsage WITH
  Cap <- 11, Bodies <- {Anthropic, OpenAi, OneObject, NotJson, NoBody},
  Models <- {"claude-sonnet", "o1", "new-model"}, Estimates <- {0, 7777}, MaxChunk <- 4,
  body <- s1, model <- s2, original <- s3, estimate <- s4, streamed <- s5, got <- s6, buf <- s7, slot <- s8,
  reservation <- s9, rows <- s10, phase <- s11

-----------------------------------------------------------------------------
(* One server on a public or a private address, with two tools; replies    *)
(* that are lost, too large, of another type, errors, or streams that hold *)
(* more than the answer.                                                   *)
Host(name, octets, scheme, public) == [name |-> name, octets |-> octets, scheme |-> scheme, public |-> public]

Frame(id, kind) == [id |-> id, kind |-> kind]
Reply(ok, ctype, frames, sid, cors) ==
  [arrives |-> TRUE, ok |-> ok, large |-> FALSE, ctype |-> ctype, frames |-> frames, sid |-> sid, cors |-> cors]
Good == Reply(TRUE, "json", <<Frame(1, "tools")>>, {}, TRUE)
ServerReplies ==
  {Good, [Good EXCEPT !.arrives = FALSE], [Good EXCEPT !.large = TRUE], [Good EXCEPT !.ctype = "other"],
   Reply(TRUE, "sse", <<Frame(0, "error"), Frame(1, "tools"), Frame(2, "tools")>>, {"s"}, FALSE),
   Reply(TRUE, "sse", <<Frame(1, "tools"), Frame(2, "junk")>>, {}, FALSE),
   Reply(FALSE, "json", <<Frame(1, "error")>>, {}, FALSE), Reply(TRUE, "json", <<Frame(1, "error")>>, {}, FALSE)}

Opt(source, lock, write, threshold, skip, attempt, tool) ==
  [source |-> source, lock |-> lock, writeLock |-> write, threshold |-> threshold, skipExposure |-> skip, attemptCall |-> attempt, callTool |-> tool]

Scan == INSTANCE McpScan WITH
  ToolSets <- {"get" :> "v1" @@ "fetch_url" :> "v1", "get" :> "v2", "get" :> "bad"}, Fetchers <- {"fetch_url"},
  Hosts <- {Host("", <<172, 31, 0, 1>>, "http", FALSE), Host("", <<172, 32, 0, 1>>, "https", TRUE),
            Host("mcp.example.com", <<>>, "http", TRUE)},
  Replies <- ServerReplies,
  Options <- {Opt("url", TRUE, TRUE, {3}, TRUE, FALSE, {}), Opt("url", TRUE, FALSE, {4}, TRUE, FALSE, {}),
              Opt("url", FALSE, FALSE, {3}, FALSE, FALSE, {}), Opt("url", FALSE, FALSE, {3}, FALSE, TRUE, {}),
              Opt("url", FALSE, FALSE, {}, FALSE, TRUE, {"get"}), Opt("file", TRUE, FALSE, {1}, FALSE, FALSE, {}),
              Opt("both", FALSE, FALSE, {3}, FALSE, FALSE, {})},
  MaxRuns <- 2,
  served <- s1, host <- s2, lockFile <- s3, opts <- s4, runs <- s5, phase <- s6, hand <- s7, tools <- s8, probe <- s9,
  report <- s10, summary <- s11, code <- s12, posts <- s13

-----------------------------------------------------------------------------
(* From 1899-12-31 to 2101-01-01: 1900 and 2100 are no leap years, 2000 is. *)
Dates == INSTANCE CivilDate WITH
  FirstDay <- -25568, FirstDate <- <<1899, 12, 31>>, LastDay <- 47847,
  Millis <- {0, 999, 60000, 3599999, 43200001, 86399999},
  day <- s1, date <- s2

(* Three calls, two of them of one run, judged under two policies.         *)
Reports == INSTANCE Economics WITH
  Calls <- {1, 2, 3}, Runs <- {"r1", "r2"}, RunOf <- <<"r1", "r1", "r2">>, TagsOf <- <<{"won"}, {"lost"}, {""}>>,
  Refusals <- {"unit_budget_exceeded", "cache_hit"}, Actual <- 3, Estimate <- 5,
  Policies <- {[run |-> {}, step |-> {3}, steps |-> {1}], [run |-> {5}, step |-> {4}, steps |-> {}]}, MaxRestarts <- 1,
  restarts <- s1, steps <- s2, call <- s3, rows <- s4, charged <- s5

ASSUME Loops!RunawayConstants /\ Routes!RouterConstants /\ Metering!StreamConstants /\ Scan!ScanConstants
ASSUME Dates!CivilDateConstants /\ Reports!EconomicsConstants

-----------------------------------------------------------------------------
(* The slots from the n-th on, which a part with n - 1 variables leaves 0.  *)
From12 == <<s12, s13>>
From11 == <<s11, From12>>
From10 == <<s10, From11>>
From6 == <<s6, s7, s8, s9, From10>>
From3 == <<s3, s4, s5, From6>>
Slots == <<s1, s2, From3>>

Unused12 == s12 = 0 /\ s13 = 0
Unused11 == s11 = 0 /\ Unused12
Unused10 == s10 = 0 /\ Unused11
Unused6 == s6 = 0 /\ s7 = 0 /\ s8 = 0 /\ s9 = 0 /\ Unused10
Unused3 == s3 = 0 /\ s4 = 0 /\ s5 = 0 /\ Unused6

MCInit ==
  /\ part \in Parts
  /\ Init
  /\ CASE part = "enforce" -> s1 = 0 /\ s2 = 0 /\ s3 = 0 /\ s4 = 0 /\ s5 = 0 /\ Unused6
       [] part = "loops" -> Loops!Init /\ Unused6
       [] part = "routes" -> Routes!Init /\ Unused10
       [] part = "metering" -> Metering!Init /\ Unused12
       [] part = "dates" -> Dates!Init /\ Unused3
       [] part = "reports" -> Reports!Init /\ Unused6
       [] part = "scan" -> Scan!Init

MCNext ==
  /\ UNCHANGED part
  /\ \/ part = "enforce" /\ Next /\ UNCHANGED Slots
     \/ /\ UNCHANGED vars
        /\ \/ part = "loops" /\ Loops!Next /\ UNCHANGED From6
           \/ part = "routes" /\ Routes!Next /\ UNCHANGED From10
           \/ part = "metering" /\ Metering!Next /\ UNCHANGED From12
           \/ part = "dates" /\ Dates!Midnight /\ UNCHANGED From3
           \/ part = "reports" /\ Reports!Next /\ UNCHANGED From6
           \/ part = "scan" /\ Scan!Next

MCSpec == MCInit /\ [][MCNext]_<<part, vars, Slots>>

-----------------------------------------------------------------------------
(* loops.rs, proxy.rs: a run that repeats itself is stopped, no other is,  *)
(* and asking again does not get past the detector.                        *)
RunawayContained == [][part = "loops" => Loops!RunawayStopped' /\ Loops!RetryStep]_<<part, Slots>>

(* router.rs, proxy.rs, pricebook.rs: the cheapest model that is good      *)
(* enough is picked, the model that is estimated and billed is the one     *)
(* sent, and a model without a price is not reserved at a lower one.       *)
RoutedAndPriced ==
  part = "routes" => /\ Routes!CheapestThatMeetsTheTier /\ Routes!BilledModelIsSent
                     /\ Routes!UnknownNeverUnderReserved

(* settle.rs, provider.rs: however chunks are cut and the response ends,   *)
(* it leaves one record, charged what the whole of it reported, and a tool *)
(* call split over several chunks counts once.                             *)
ResponsesMetered ==
  part = "metering" => Metering!SettledOnce /\ Metering!ChargedAsReported /\ Metering!ToolCallsAreDistinct

(* timefmt.rs, unitledger.rs: conversions agree with the calendar in both  *)
(* directions, a printed timestamp parses back to the second it names, and *)
(* budget windows are the calendar's months.                               *)
CalendarAgrees ==
  part = "dates" => Dates!CalendarAgrees /\ Dates!PrintedTimesParse /\ Dates!WindowsAreMonths

(* focusexport.rs, outcomes.rs, backtest.rs: the reports add up to what    *)
(* was charged, every run is under one outcome with its whole cost, and a  *)
(* replayed policy blocks what it would have blocked.                      *)
ReportsReconcile ==
  part = "reports" => Reports!ReportsReconcile /\ Reports!OutcomesPartition /\ Reports!BacktestSound

(* mcpcli.rs, mcpexposure.rs, mcpexposure_probe.rs, mcpreport.rs: exit     *)
(* code 0 means that the tools are those of the lock file, an open server  *)
(* on a public address fails, no tool is called that was not named, and    *)
(* the summary is that of the merged report.                               *)
ScanHonest ==
  part = "scan" => /\ Scan!GreenMeansUnchanged /\ Scan!PublicExposureFails
                   /\ Scan!CallOnlyWhenNamed /\ Scan!SummaryMatches
=============================================================================
