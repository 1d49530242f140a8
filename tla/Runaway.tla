------------------------------- MODULE Runaway -------------------------------
(***************************************************************************)
(* Runaway detection in the request handler (crates/core/src/loops.rs,     *)
(* policy.rs, breaker.rs; crates/gateway/src/proxy.rs, state.rs).  Agents  *)
(* of one run send requests that carry their conversation's tool calls;    *)
(* the run's limits are evaluated, the input size is added to the run's    *)
(* history, the detectors look at the conversation and the history, and in *)
(* enforce mode the first hit refuses the request.                         *)
(***************************************************************************)
EXTENDS Integers, Sequences, SequencesExt, FiniteSets

CONSTANTS
  Agents, Sigs,
  Sizes,            \* input sizes
  Identical, Pingpong, \* detectors: {} or a singleton of [window, threshold]
  ContextGrowth,    \* {} or a singleton of [num, den, consecutive]: the factor is num / den
  MaxSteps, StepCap,\* the policy's max_steps and budget_per_step
  Estimates,
  HistoryMax,       \* MAX of record_input
  Modes,            \* of {"shadow", "warn", "enforce"}
  MaxConv           \* how many tool calls the agents make altogether

(* What an instance must satisfy.                                          *)
RunawayConstants == HistoryMax \in Nat \ {0} /\ MaxConv \in Nat

VARIABLES
  mode,
  conv,      \* per agent, the signatures of the tool calls in its messages
  history,   \* AppState.history of the run
  steps,     \* the run's steps in the ledger
  answer     \* the last answer: [agent, reason, status, note]

vars == <<mode, conv, history, steps, answer>>

-----------------------------------------------------------------------------
(* BreakerReason::http_status *)
HttpStatus(reason) ==
  IF reason \in {"taint_blocked", "dlp_blocked", "identity_mismatch"} THEN 403 ELSE 402

(* BreakerVerdict and the answer made of it.                               *)
Verdict(a, reason, note) ==
  [agent |-> a, reason |-> reason, status |-> IF reason = "none" THEN 200 ELSE HttpStatus(reason), note |-> note]

Init ==
  /\ mode \in Modes
  /\ conv = [a \in Agents |-> <<>>] /\ history = <<>> /\ steps = 0
  /\ answer = Verdict(CHOOSE a \in Agents : TRUE, "none", FALSE)

(* first_violation: the step that is next, then what it may cost.          *)
FirstViolation(estimate) == steps >= MaxSteps \/ estimate > StepCap

LastOf(s, n) == SubSeq(s, IF n < Len(s) THEN Len(s) - n + 1 ELSE 1, Len(s))

(* detect_identical *)
DetectIdentical(sigs, cfg) ==
  LET window == LastOf(sigs, cfg.window)
      counts == [s \in Sigs |-> Len(SelectSeq(window, LAMBDA x : x = s))]
  IN cfg.threshold > 0 /\ \E s \in Sigs : counts[s] >= cfg.threshold

(* detect_pingpong: overlapping cycles of two distinct calls.              *)
DetectPingpong(sigs, cfg) ==
  LET w == LastOf(sigs, cfg.window)
      cycles == FoldLeft(LAMBDA n, i : IF w[i] = w[i + 2] /\ w[i + 1] = w[i + 3] /\ w[i] # w[i + 1] THEN n + 1 ELSE n,
                         0, [i \in 1..(IF Len(w) > 3 THEN Len(w) - 3 ELSE 0) |-> i])
  IN cfg.threshold > 0 /\ cycles >= cfg.threshold

\* Mutant of DetectContextGrowth: only the latest steps are looked at.
DetectContextGrowthLatest(sizes, cfg) ==
  /\ cfg.consecutive > 0 /\ Len(sizes) > cfg.consecutive
  /\ \A i \in (Len(sizes) - cfg.consecutive)..(Len(sizes) - 1) :
       sizes[i] > 0 /\ sizes[i + 1] * cfg.den >= sizes[i] * cfg.num

(* detect_context_growth: a counter that a step without growth resets.     *)
DetectContextGrowth(sizes, cfg) ==
  LET step(s, i) ==
        LET run == IF sizes[i] > 0 /\ sizes[i + 1] * cfg.den >= sizes[i] * cfg.num THEN s.run + 1 ELSE 0
        IN [run |-> run, hit |-> s.hit \/ run >= cfg.consecutive]
  IN /\ cfg.consecutive > 0 /\ Len(sizes) > cfg.consecutive
     /\ FoldLeft(step, [run |-> 0, hit |-> FALSE], [i \in 1..(Len(sizes) - 1) |-> i]).hit

(* detect *)
Detect(sigs, sizes) ==
  \/ \E cfg \in Identical : DetectIdentical(sigs, cfg)
  \/ \E cfg \in Pingpong : DetectPingpong(sigs, cfg)
  \/ \E cfg \in ContextGrowth : DetectContextGrowth(sizes, cfg)

(* record_input: the latest HistoryMax sizes.                              *)
RecordInput(size) ==
  LET h == Append(history, size) IN history' = IF Len(h) > HistoryMax THEN Tail(h) ELSE h

(* A request with conversation cv.  Its size is recorded whatever becomes  *)
(* of it; outside enforce mode a hit is only noted.                        *)
Handle(a, cv, size, estimate) ==
  /\ RecordInput(size)
  /\ LET loop == Detect(cv, history')
         reason == IF mode # "enforce" THEN "none"
                   ELSE IF FirstViolation(estimate) THEN "policy_violation"
                   ELSE IF loop THEN "loop_detected" ELSE "none"
     IN /\ answer' = Verdict(a, reason, FirstViolation(estimate) \/ loop)
        /\ steps' = IF reason = "none" THEN steps + 1 ELSE steps

SumLen == FoldLeft(LAMBDA n, a : n + Len(conv[a]), 0, SetToSeq(Agents))

(* The agent does a tool call and sends its conversation, or sends it      *)
(* again as it was.  MaxSteps bounds the run in every mode.                *)
Request(a, sig, size, estimate) ==
  /\ steps <= MaxSteps /\ SumLen < MaxConv
  /\ conv' = [conv EXCEPT ![a] = Append(@, sig)]
  /\ Handle(a, conv'[a], size, estimate)
  /\ UNCHANGED mode

Retry(a, size, estimate) ==
  /\ steps <= MaxSteps
  /\ Handle(a, conv[a], size, estimate)
  /\ UNCHANGED <<mode, conv>>

Next ==
  \E a \in Agents, size \in Sizes, estimate \in Estimates :
    Retry(a, size, estimate) \/ \E sig \in Sigs : Request(a, sig, size, estimate)

Spec == Init /\ [][Next]_vars

-----------------------------------------------------------------------------
(* What the detectors are for, by positions: the last calls hold one call  *)
(* threshold times, or threshold alternations, or somewhere in the kept    *)
(* history the input grew that many times in a row.                        *)
Looping(cv, h) ==
  \/ \E cfg \in Identical : cfg.threshold > 0 /\
       \E P \in SUBSET {i \in DOMAIN cv : i > Len(cv) - cfg.window} :
         Cardinality(P) = cfg.threshold /\ \A i, j \in P : cv[i] = cv[j]
  \/ \E cfg \in Pingpong : cfg.threshold > 0 /\
       cfg.threshold <= Cardinality({i \in DOMAIN cv : /\ i > Len(cv) - cfg.window /\ i + 3 <= Len(cv)
                                                       /\ cv[i] # cv[i + 1] /\ cv[i] = cv[i + 2] /\ cv[i + 1] = cv[i + 3]})
  \/ \E cfg \in ContextGrowth : cfg.consecutive > 0 /\
       \E i \in DOMAIN h : /\ i + cfg.consecutive \in DOMAIN h
                           /\ \A j \in i..(i + cfg.consecutive - 1) : h[j] > 0 /\ h[j + 1] * cfg.den >= h[j] * cfg.num

(* In enforce mode the request just handled was refused with a 402 exactly *)
(* if its conversation or its run's history loops or a limit is reached,   *)
(* and in every mode it was then noted: nothing the agents interleave,     *)
(* retry or send out of window hides a loop, and no loop is imagined.      *)
RunawayStopped ==
  history # <<>> =>
    /\ Looping(conv[answer.agent], history) => answer.note
    /\ mode = "enforce" /\ Looping(conv[answer.agent], history) => answer.reason # "none" /\ answer.status = 402
    /\ answer.reason = "loop_detected" => Looping(conv[answer.agent], history)

(* A run that was stopped because its context grew does not escape by      *)
(* trying again: while the history still has room, whoever asks and        *)
(* whatever the size, the next request is stopped too.                     *)
RetryStep ==
  mode = "enforce" /\ Len(history) < HistoryMax /\ Looping(<<>>, history) => answer'.reason # "none"
=============================================================================
