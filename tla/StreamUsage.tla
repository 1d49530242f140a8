----------------------------- MODULE StreamUsage -----------------------------
(***************************************************************************)
(* How a response's bytes become what the call costs                       *)
(* (crates/gateway/src/provider.rs, settle.rs, proxy.rs): chunks cut       *)
(* anywhere are passed on and kept up to a cap, the kept text is read once *)
(* the stream has ended, and the call is settled with what was read, or    *)
(* with the estimate if the stream never ended.                            *)
(* A body is a sequence of lines; byte <<i, k>> is the k-th of line i.  A  *)
(* line carries what the parser looks for in it: the usage it reports (0   *)
(* is "absent"), the tool_use blocks it starts, the (choice, index) pairs  *)
(* of its tool call deltas.                                                *)
(***************************************************************************)
EXTENDS Prices, Sequences, SequencesExt

CONSTANTS
  Cap,        \* CAP, in bytes
  Bodies,     \* [sse, lines], lines : Seq([len, json, usage, blocks, calls])
  Models, Estimates,
  MaxChunk    \* the longest chunk

(* What an instance must satisfy.                                          *)
StreamConstants == Cap \in Nat /\ MaxChunk \in Nat \ {0}

VARIABLES
  body, model, original, estimate,
  streamed,    \* stream_managed, else buffered_managed
  got,         \* how many bytes the upstream has sent
  buf,         \* UsageParser.buf
  slot,        \* UsageSlot: at most one [usage, tools]
  reservation, \* SettleGuard.reservation is Some
  rows,        \* the CallRecords
  phase

vars == <<body, model, original, estimate, streamed, got, buf, slot, reservation, rows, phase>>

LineBytes(i) == [k \in 1..body.lines[i].len |-> <<i, k>>]
Bytes == FlattenSeq([i \in DOMAIN body.lines |-> LineBytes(i)])

(* The provider has answered with a stream.                                *)
Init ==
  /\ body \in Bodies /\ model \in Models /\ original \in Models /\ estimate \in Estimates
  /\ streamed \in BOOLEAN
  /\ got = 0 /\ buf = <<>> /\ slot = {} /\ reservation = TRUE /\ rows = <<>> /\ phase = "open"

-----------------------------------------------------------------------------
(* UsageParser::feed                                                       *)
Feed(chunk) ==
  LET room == Cap - Len(buf) IN
  buf' = IF room <= 0 THEN buf
         ELSE buf \o SubSeq(chunk, 1, IF room < Len(chunk) THEN room ELSE Len(chunk))

\* Mutant of ApplyUsage: what the events report is added up.
ApplyUsageSum(u, v) == [f \in DOMAIN u |-> u[f] + v[f]]

(* apply_anthropic, apply_openai, set_if_positive                          *)
ApplyUsage(u, v) == [f \in DOMAIN u |-> IF v[f] > 0 THEN v[f] ELSE u[f]]

(* ToolCallCounter: none if nothing parsed.                                *)
ToolCalls(ls) ==
  IF ls = <<>> THEN {}
  ELSE {FoldSeq(LAMBDA l, n : n + l.blocks, 0, ls) + Cardinality(UNION {l.calls : l \in ToSet(ls)})}

(* The lines of the kept text that are whole and parse.                    *)
Parsed ==
  LET kept == {i \in DOMAIN body.lines : body.lines[i].json /\ ToSet(LineBytes(i)) \subseteq ToSet(buf)}
      whole == IF body.sse \/ kept = DOMAIN body.lines THEN kept ELSE {}
  IN [n \in 1..Cardinality(whole) |-> body.lines[SetToSortSeq(whole, <)[n]]]

(* UsageParser::finish                                                     *)
FinishParse ==
  [usage |-> FoldLeft(LAMBDA u, l : ApplyUsage(u, l.usage), Usage(0, 0, 0, 0), Parsed), tools |-> ToolCalls(Parsed)]

(* The row of the call; its cost is the estimate if the slot is empty.     *)
Row(saved) ==
  LET empty == [usage |-> Usage(0, 0, 0, 0), tools |-> {}]
      p == IF slot = {} THEN empty ELSE CHOOSE s \in slot : TRUE
  IN [cost |-> IF slot = {} THEN estimate ELSE Cost(PriceOf(model), p.usage),
      input |-> p.usage.input, output |-> p.usage.output, tools |-> p.tools, saved |-> saved]

(* The router's saving, of a buffered call that was routed.                *)
RouterSaved ==
  IF slot = {} THEN 0
  ELSE LET u == (CHOOSE s \in slot : TRUE).usage
           saved == Cost(PriceOf(original), u) - Cost(PriceOf(model), u)
       IN IF original # model /\ saved > 0 THEN saved ELSE 0

(* SettleGuard::settle_now                                                 *)
SettleNow ==
  /\ IF reservation THEN rows' = Append(rows, Row(0)) /\ slot' = {} ELSE UNCHANGED <<rows, slot>>
  /\ reservation' = FALSE

-----------------------------------------------------------------------------
(* A chunk of the upstream's, cut anywhere, is tapped and passed on.       *)
Chunk ==
  /\ phase = "open" /\ got < Len(Bytes)
  /\ \E n \in 1..MaxChunk :
       /\ got + n <= Len(Bytes) /\ got' = got + n
       /\ Feed(SubSeq(Bytes, got + 1, got + n))
  /\ UNCHANGED <<body, model, original, estimate, streamed, slot, reservation, rows, phase>>

(* The upstream's stream ends, and the slot is filled.                     *)
End ==
  /\ phase = "open" /\ got = Len(Bytes)
  /\ slot' = {FinishParse} /\ phase' = "ended"
  /\ UNCHANGED <<body, model, original, estimate, streamed, got, buf, reservation, rows>>

(* guard.complete() of a stream; its Drop follows.                         *)
Complete ==
  /\ phase = "ended" /\ streamed /\ phase' = "completed"
  /\ SettleNow
  /\ UNCHANGED <<body, model, original, estimate, streamed, got, buf>>

Drop ==
  /\ phase = "completed" /\ phase' = "done"
  /\ SettleNow
  /\ UNCHANGED <<body, model, original, estimate, streamed, got, buf>>

(* The client goes, or the upstream fails: the guard is dropped.           *)
Abandon ==
  /\ phase = "open" /\ streamed /\ phase' = "abandoned"
  /\ SettleNow
  /\ UNCHANGED <<body, model, original, estimate, streamed, got, buf>>

(* buffered_managed                                                        *)
BufferedSettle ==
  /\ phase = "ended" /\ ~streamed /\ phase' = "done"
  /\ rows' = Append(rows, Row(RouterSaved)) /\ slot' = {} /\ reservation' = FALSE
  /\ UNCHANGED <<body, model, original, estimate, streamed, got, buf>>

(* buffered_managed, when collect fails: released at no cost, no row.      *)
BufferedFails ==
  /\ phase = "open" /\ ~streamed /\ phase' = "failed"
  /\ reservation' = FALSE
  /\ UNCHANGED <<body, model, original, estimate, streamed, got, buf, slot, rows>>

Next == Chunk \/ End \/ Complete \/ Drop \/ Abandon \/ BufferedSettle \/ BufferedFails

Spec == Init /\ [][Next]_vars

-----------------------------------------------------------------------------
(* What the provider says the call used: each figure is cumulative, so the *)
(* last one that is not zero holds.                                        *)
Reported ==
  LET at(f) == {i \in DOMAIN body.lines : body.lines[i].json /\ body.lines[i].usage[f] > 0}
      last(f) == CHOOSE i \in at(f) : \A j \in at(f) : j <= i
  IN [f \in {"input", "output", "cacheRead", "cacheWrite"} |-> IF at(f) = {} THEN 0 ELSE body.lines[last(f)].usage[f]]

(* However the bytes of a stream are cut into chunks, a response that was  *)
(* read to its end is charged exactly what the provider reported, cached   *)
(* tokens at their own rates ("only settles the real cost at               *)
(* end-of-stream").                                                        *)
ChargedAsReported ==
  phase = "done" =>
    /\ rows[1].cost = Cost(PriceOf(model), Reported)
    /\ rows[1].input = Reported.input /\ rows[1].output = Reported.output

(* The row's tool calls are the calls the model made: a call is counted    *)
(* once though its arguments come in many deltas, and two choices' calls   *)
(* of the same index are two.                                              *)
ToolCallsAreDistinct ==
  phase = "done" /\ (\E i \in DOMAIN body.lines : body.lines[i].json) =>
    rows[1].tools = {Cardinality(
       UNION {{<<"delta", c>> : c \in body.lines[i].calls} \cup {<<"block", i, k>> : k \in 1..body.lines[i].blocks} :
              i \in DOMAIN body.lines})}

(* However a stream ends, its reservation is settled and recorded exactly  *)
(* once: complete() and the drop that follows it do not both count, and a  *)
(* stream that was abandoned is charged its estimate, not nothing.         *)
SettledOnce ==
  /\ phase \in {"done", "abandoned", "completed"} => Len(rows) = 1 /\ ~reservation
  /\ phase = "abandoned" => rows[1].cost = estimate
=============================================================================
