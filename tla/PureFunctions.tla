--------------------------- MODULE PureFunctions ---------------------------
(***************************************************************************)
(* Calls of the gateway's pure functions, one per behaviour: a chat        *)
(* request comes to the front door, the token counts of a message become   *)
(* usage, the environment is loaded.                                       *)
(***************************************************************************)
EXTENDS RequestValidation, UsageMapping, Configuration

CONSTANTS Requests,    \* chat requests
          Tokens,      \* token counts of messages
          Environments \* environments to start in

(* A request is what JSON makes of a body and its headers, a count is a    *)
(* number or something else, a timeout is an int.  No float64 is the       *)
(* largest int: the nearest are the int after it and smaller ones.         *)
ASSUME ArgumentsAssumption ==
    /\ \A q \in Requests : \E names \in SUBSET DOMAIN Least : q \in ChatRequest(names)
    /\ Tokens \subseteq
          LET Value == {v \in [number : BOOLEAN, halves : Int] : v.halves # 2 * MaxInt}
          IN  [input : Value, output : Value, reasoning : Value, total : Value,
               saturates : BOOLEAN]
    /\ \A env \in Environments : {env.timeout, env.streamSeconds} \subseteq MinInt..MaxInt

VARIABLES fn,    \* the function that is called
          arg,   \* its argument
          done,  \* it has returned
          reply  \* what it returned

vars == <<fn, arg, done, reply>>

Init == /\ done = FALSE /\ reply = [status |-> 0]
        /\ \/ fn = "FrontDoor" /\ arg \in Requests
           \/ fn = "Usage" /\ arg \in Tokens
           \/ fn = "Load" /\ arg \in Environments

Return(f, value) == /\ fn = f /\ ~done
                    /\ done' = TRUE /\ reply' = value
                    /\ UNCHANGED <<fn, arg>>

AnswerRequest == Return("FrontDoor", FrontDoor(arg))
MapUsage == Return("Usage", UsageFromOpenCodeTokens(arg, arg.saturates))
LoadConfig == Return("Load", [ok |-> Loads(arg), config |-> Load(arg)])

Next == AnswerRequest \/ MapUsage \/ LoadConfig

Spec == Init /\ [][Next]_vars

-----------------------------------------------------------------------------
Returned(f) == fn = f /\ done

(* The system text of a turn: a break before each but the first. *)
SaysSystem(message) == message.role = "system" /\ Text(message.content) # <<>>
SystemText(messages, i) ==
    LET text == Text(messages[i].content)
    IN  IF ~SaysSystem(messages[i]) THEN <<>>
        ELSE IF \E j \in 1..(i - 1) : SaysSystem(messages[j]) THEN <<Break>> \o text
        ELSE text

(* OpenCode keeps the history of a session, so a request must not send it  *)
(* again: the prompt is the text of the final message alone, however many  *)
(* parts it has, and the system prompt is all system texts of the request  *)
(* that are not empty, in their order, with a break between two.  (That    *)
(* several of them are joined and not refused is what the code does and    *)
(* not what docs/design/openai-compatibility-layer.md 8.3 asks for.)       *)
PromptIsLastTurn ==
    Returned("FrontDoor") /\ reply.status = 0 =>
        /\ reply.latest = Text(Last(arg.messages).content)
        /\ reply.system = FlattenSeq([i \in DOMAIN arg.messages |->
                                         SystemText(arg.messages, i)])

(* Earlier turns are not looked at: without a message of the user or the   *)
(* assistant before the last one (and so without them all), whatever it    *)
(* holds, the answer is the same: an image that was refused once stays in  *)
(* the history.                                                            *)
HistoryIsIgnored ==
    Returned("FrontDoor") =>
        \A i \in 1..(Len(arg.messages) - 1) :
            arg.messages[i].role \in {"user", "assistant"} =>
                reply = FrontDoor([arg EXCEPT !.messages = RemoveAt(@, i)])

(* Validation is no oracle (docs/design/model-routing.md 8.3) and has no   *)
(* fallback (8.4): who has no right to ask gets the same answer whatever   *)
(* else the request holds, a request is refused alike on all models of the *)
(* gateway, and none is accepted on any other.  Where an unknown model     *)
(* ranks among other faults is not claimed: code and design disagree.      *)
RefusalsAreNoOracle ==
    Returned("FrontDoor") =>
        /\ (reply.status = 401) = (arg.auth # <<Bearer>>)
        /\ reply.status = 401 =>
              \A q \in Requests : q.auth = arg.auth => FrontDoor(q) = reply
        /\ reply.status # 0 /\ arg.model \in DOMAIN Routes =>
              \A model \in DOMAIN Routes :
                  FrontDoor([arg EXCEPT !.model = model]) = reply
        /\ reply.status = 0 => arg.model \in DOMAIN Routes

(* What may count tokens: a whole number that is not negative and that an  *)
(* int holds.  There is one exception: where conversions saturate, the     *)
(* number after the largest int is taken for the largest int, as float64   *)
(* does not tell them apart.                                               *)
IsCount(value, saturates) ==
    /\ value.number /\ value.halves >= 0 /\ value.halves % 2 = 0
    /\ value.halves <= 2 * MaxInt \/ (saturates /\ value.halves = 2 * (MaxInt + 1))
Reports(count, value) == \/ 2 * count = value.halves
                         \/ count = MaxInt /\ value.halves = 2 * (MaxInt + 1)

(* Usage neither makes up nor loses a token.  There is usage exactly when  *)
(* input and output are counts.  Each count that was given, and nothing    *)
(* else, is reported as it was given: a fraction, a negative number or a   *)
(* missing one is not.  The total is the one that was given or else the    *)
(* sum of what is reported; only a sum that no int holds is off, by a      *)
(* whole turn of the int.                                                  *)
UsageAddsUp ==
    Returned("Usage") =>
        /\ reply.ok = (IsCount(arg.input, arg.saturates) /\ IsCount(arg.output, arg.saturates))
        /\ reply.ok =>
              LET reasoning == IF reply.reasoning.ok THEN reply.reasoning.count ELSE 0
                  sum == reply.prompt + reply.completion + reasoning
              IN  /\ Reports(reply.prompt, arg.input)
                  /\ Reports(reply.completion, arg.output)
                  /\ reply.reasoning.ok = IsCount(arg.reasoning, arg.saturates)
                  /\ reply.reasoning.ok => Reports(reasoning, arg.reasoning)
                  /\ IF IsCount(arg.total, arg.saturates) THEN Reports(reply.total, arg.total)
                     ELSE \/ reply.total = sum
                          \/ sum > MaxInt /\ reply.total = sum - 2 * (MaxInt + 1)

(* The gateway starts with a key, and without a password for OpenCode only *)
(* if that is allowed, whichever of variable and file they come from; and  *)
(* its timeouts run forward unless the seconds overflow a duration.        *)
Blank == {"", " "}
ConfigurationIsSound ==
    Returned("Load") /\ reply.ok =>
        /\ reply.config.key # ""
        /\ arg.key.file # NoFile => reply.config.key \notin Blank
        /\ reply.config.password = "" \/ arg.password.file \in Blank
              => arg.allowUnsecured = "true"
        /\ arg.timeout <= MaxInt \div Second => reply.config.timeout > 0
        /\ arg.streamSeconds <= MaxInt \div Second => StreamTimeout(arg.streamSeconds) > 0
=============================================================================
