---------------------------- MODULE UsageMapping ----------------------------
(***************************************************************************)
(* Token counts of an OpenCode message as usage (UsageFromOpenCodeTokens,  *)
(* internal/openai/usage.go).                                              *)
(*                                                                         *)
(* The client decodes JSON numbers as float64.  A number is given in       *)
(* halves, so that it may be whole or not.  What a conversion does with a  *)
(* number that no int holds is the processor's choice: amd64 gives the     *)
(* smallest int, arm64 the largest one, which as a float64 is rounded up.  *)
(***************************************************************************)
EXTENDS GoInt

Count == 0..MaxInt

None == [ok |-> FALSE, count |-> 0]
Some(n) == [ok |-> TRUE, count |-> n]

(* int(value), for value not negative, and float64 of the result. *)
ToInt(halves, saturates) == IF halves \div 2 <= MaxInt THEN halves \div 2
                            ELSE IF saturates THEN MaxInt ELSE MinInt
ToHalves(n) == IF n = MaxInt THEN 2 * (MaxInt + 1) ELSE 2 * n

(* Mutant of TokenInt: a fraction is cut off. *)
TokenIntCuts(value, saturates) ==
    IF value.number /\ value.halves >= 0
    THEN Some(ToInt(value.halves, saturates)) ELSE None

(* tokenInt: a number that is not negative and that the conversion keeps.  *)
TokenInt(value, saturates) ==
    IF /\ value.number /\ value.halves >= 0
       /\ value.halves = ToHalves(ToInt(value.halves, saturates))
    THEN Some(ToInt(value.halves, saturates)) ELSE None

NoUsage == [ok |-> FALSE, prompt |-> 0, completion |-> 0, total |-> 0,
            reasoning |-> None]

Total(input, output, reasoning, total) ==
    IF total.ok THEN total.count
    ELSE Add(Add(input.count, output.count), reasoning.count)

(* UsageFromOpenCodeTokens. *)
UsageFromOpenCodeTokens(t, saturates) ==
    LET input == TokenInt(t.input, saturates)
        output == TokenInt(t.output, saturates)
        reasoning == TokenInt(t.reasoning, saturates)
        total == TokenInt(t.total, saturates)
    IN  IF ~input.ok \/ ~output.ok THEN NoUsage
        ELSE [ok |-> TRUE, prompt |-> input.count, completion |-> output.count,
              total |-> Total(input, output, reasoning, total),
              reasoning |-> reasoning]
=============================================================================
