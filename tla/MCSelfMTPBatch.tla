---------------------------- MODULE MCSelfMTPBatch ----------------------------
(* TLC instance of SelfMTPBatch, and so of BatchGenerator. *)
EXTENDS SelfMTPBatch

Prompt(segments, limit, history, bytes) ==
    [segments |-> segments, limit |-> limit, history |-> history, bytes |-> bytes]

(* One token; two segments after a cached prefix; a prompt of three slices.*)
FewPrompts == {Prompt(<<1>>, 4, 0, 0), Prompt(<<1, 2>>, 1, 2, 3), Prompt(<<6>>, 1, 0, 1)}

Policy(prefill, completion, window, cadence, budget) ==
    [prefill |-> prefill, completion |-> completion, step |-> 2, window |-> window,
     cadence |-> cadence, adaptive |-> FALSE, slices |-> {}, maxDefer |-> 0,
     budget |-> budget, mtp |-> FALSE, admission |-> FALSE, segmented |-> FALSE,
     cohort |-> 1]

(* First in, first out under a budget that two short rows fit, alone and   *)
(* with prefill in every third round; a window of three; adaptive prefill  *)
(* with and without a budget, whose deadline of two rounds leaves a round  *)
(* in which prefill may be put off or take any slice, and then forces one. *)
PlainPolicies ==
    {Policy(2, 3, 1, 1, 16), Policy(2, 2, 1, 3, 20), Policy(2, 2, 3, 1, 0),
     [Policy(2, 3, 1, 1, 20) EXCEPT !.adaptive = TRUE, !.slices = {2}, !.maxDefer = 2],
     [Policy(2, 2, 3, 1, 0) EXCEPT !.adaptive = TRUE, !.slices = {1, 2}, !.maxDefer = 2]}

(* A prompt of which a prefix was restored, a long cold one and one token. *)
LongPrompts == {Prompt(<<3>>, 4, 2, 2), Prompt(<<5>>, 2, 0, 0), Prompt(<<1>>, 1, 0, 0)}

(* Self-MTP: a physical batch; with adaptive prefill and a budget; a       *)
(* segmented one of two lanes; the same without a controller.              *)
SelfMTP == [Policy(2, 3, 1, 1, 0) EXCEPT !.mtp = TRUE, !.admission = TRUE]
LanePolicies ==
    {SelfMTP,
     [SelfMTP EXCEPT !.adaptive = TRUE, !.slices = {1, 2}, !.maxDefer = 2, !.budget = 30],
     [SelfMTP EXCEPT !.segmented = TRUE, !.cohort = 2],
     [SelfMTP EXCEPT !.segmented = TRUE, !.cohort = 2, !.admission = FALSE]}

FewPolicies == PlainPolicies \cup LanePolicies

(* Free memory: none; enough for one plain lane; enough for some lanes that *)
(* speculate, and without the margin what the second reading is enough for. *)
Transients == [d \in 0..2 |-> d + 1]
FewReadings == {0, 3, 20}

================================================================================
