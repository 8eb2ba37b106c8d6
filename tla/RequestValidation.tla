------------------------- MODULE RequestValidation -------------------------
(***************************************************************************)
(* What the gateway says to a chat request before it looks at the ledger:  *)
(* the bearer token (internal/auth/auth.go), the headers and the body      *)
(* (Server.chat, internal/httpapi/server.go), ExtractLatest and its checks *)
(* (internal/openai/validate.go) and the model (internal/models).  Checks  *)
(* come in a fixed order and the first that fails is the answer.           *)
(*                                                                         *)
(* A request is a record: the Authorization headers, whether the body is a *)
(* ChatRequest in JSON, whether the two Open WebUI headers are there, the  *)
(* model, the parameters and the messages.  The content of a message is a  *)
(* sequence of parts, [text |-> BOOLEAN, words |-> Seq]; a string is one   *)
(* text part, and content that is neither is one part that is not text.    *)
(***************************************************************************)
EXTENDS Integers, Sequences, SequencesExt

(* Header values: the right token; another scheme, no token or a malformed *)
(* one; a wrong token.                                                     *)
Bearer == "Bearer key"

(* Validate. *)
AuthCode(headers) == IF headers = <<>> THEN "missing_api_key"
                     ELSE IF headers = <<Bearer>> THEN "ok" ELSE "invalid_api_key"

(* Routes and Resolve. *)
Routes == [model \in {"adina-analysis", "adina-execution"} |->
              IF model = "adina-analysis" THEN "plan" ELSE "build"]

-----------------------------------------------------------------------------
(* The numeric parameters: the least value of each, and the largest, which *)
(* the numbers of tokens do not have.                                      *)
Least == [temperature |-> 0, top_p |-> 0, max_tokens |-> 0, max_completion_tokens |-> 0,
          presence_penalty |-> -2, frequency_penalty |-> -2, n |-> 1]
Largest == [temperature |-> 2, top_p |-> 1, presence_penalty |-> 2,
            frequency_penalty |-> 2, n |-> 1]

(* The parameters of a request: num, the numbers; stop, which is absent or *)
(* a list of which each item is a string or not (a lone string is a list   *)
(* of one); given, the other parameters that are not null, or true where   *)
(* they are flags; modalities; stream_options, its keys, and usage, whether *)
(* its include_usage is true; response_format, its type.  A number may be  *)
(* left out: names are the ones a request gives.                           *)
Part == [text : BOOLEAN, words : Seq(STRING)]
Message == [role : STRING, content : Seq(Part)]
ChatRequest(names) ==
    [auth : Seq(STRING), json : BOOLEAN, user : BOOLEAN, chat : BOOLEAN,
     model : STRING, messages : Seq(Message), num : [names -> Int],
     given : SUBSET STRING, stop : Seq(BOOLEAN), modalities : SUBSET STRING,
     stream_options : SUBSET STRING, usage : BOOLEAN, response_format : STRING]

OutOfBounds(q, p) == /\ p \in DOMAIN q.num
                     /\ \/ q.num[p] < Least[p]
                        \/ p \in DOMAIN Largest /\ q.num[p] > Largest[p]

(* validStop: the length first, then the items. *)
ValidStop(stop) == Len(stop) <= 4 /\ \A i \in DOMAIN stop : stop[i]

Ranged == <<"temperature", "top_p", "max_tokens", "max_completion_tokens",
            "presence_penalty", "frequency_penalty">>
Unsupported1 == <<"tools", "tool_choice", "function_call", "functions", "audio">>
Unsupported2 == <<"top_logprobs", "web_search_options", "prediction",
                  "parallel_tool_calls">>

StatusCheck(status, p, bad, code) ==
    [status |-> status, param |-> p, bad |-> bad, code |-> code]
Check(p, bad, code) == StatusCheck(400, p, bad, code)
Given(q, names) == [i \in DOMAIN names |->
                       Check(names[i], names[i] \in q.given, "unsupported_parameter")]

(* The first two checks of ExtractLatest. *)
RequiredChecks(q) ==
    << Check("model", q.model = "", "missing_required_parameter"),
       Check("messages", q.messages = <<>>, "missing_required_parameter") >>

(* validateControls and the checks of ExtractLatest after it, in order. *)
ParameterChecks(q) ==
    [i \in DOMAIN Ranged |->
        Check(Ranged[i], OutOfBounds(q, Ranged[i]), "invalid_value")]
    \o << Check("stop", ~ValidStop(q.stop), "invalid_value") >>
    \o Given(q, Unsupported1)
    \o << Check("modalities", ~(q.modalities \subseteq {"text"}), "unsupported_parameter"),
          Check("n", OutOfBounds(q, "n"), "unsupported_parameter"),
          Check("logprobs", "logprobs" \in q.given, "unsupported_parameter") >>
    \o Given(q, Unsupported2)
    \o << Check("stream_options", ~(q.stream_options \subseteq {"include_usage"}),
                "unsupported_parameter"),
          Check("response_format", q.response_format \in {"json_object", "json_schema"},
                "unsupported_parameter") >>

-----------------------------------------------------------------------------
(* textOnly: whether all parts are text, and what they say together. *)
TextOnly(content) == \A i \in DOMAIN content : content[i].text
Texts(content) ==
    LET out[i \in 0..Len(content)] ==
            IF i = 0 THEN <<>> ELSE out[i - 1] \o content[i].words
    IN  out
Text(content) == Texts(content)[Len(content)]

Break == "\n\n"
AddSystem(system, text) ==
    IF system # <<>> /\ text # <<>> THEN system \o <<Break>> \o text ELSE system \o text

(* Mutant of Take: all user messages are gone through. *)
TakeEveryUser(acc, msg, last) ==
    CASE msg.role = "system" -> [acc EXCEPT !.system = AddSystem(@, Text(msg.content))]
      [] msg.role = "user"   -> [acc EXCEPT !.latest = @ \o Text(msg.content)]
      [] OTHER               -> acc

(* One turn of the loop over the messages, without its errors. *)
Take(acc, msg, last) ==
    CASE msg.role = "system"         -> [acc EXCEPT !.system = AddSystem(@, Text(msg.content))]
      [] msg.role = "user" /\ last   -> [acc EXCEPT !.latest = Text(msg.content)]
      [] OTHER                       -> acc

(* Mutant of BadMessage: every message of the user must be text. *)
BadUserMessage(msg, last) ==
    \/ msg.role \notin {"system", "user", "assistant"}
    \/ msg.role \in {"system", "user"} /\ ~TextOnly(msg.content)

(* The errors of that turn: system messages and the last must be text,     *)
(* other messages of the user or the assistant are not looked at.          *)
BadMessage(msg, last) ==
    \/ msg.role \notin {"system", "user", "assistant"}
    \/ (msg.role = "system" \/ (msg.role = "user" /\ last)) /\ ~TextOnly(msg.content)

(* What the loop has found after each turn, and in the end. *)
Turns(messages) ==
    LET turn[i \in 0..Len(messages)] ==
            IF i = 0 THEN [system |-> <<>>, latest |-> <<>>]
            ELSE Take(turn[i - 1], messages[i], i = Len(messages))
    IN  turn
Prompt(messages) == Turns(messages)[Len(messages)]

MessageChecks(q) ==
    IF q.messages = <<>> THEN <<>> ELSE
    << Check("messages", q.messages[Len(q.messages)].role # "user", "invalid_request_error") >>
    \o [i \in DOMAIN q.messages |->
           Check("messages", BadMessage(q.messages[i], i = Len(q.messages)),
                 "unsupported_parameter")]
    \o << Check("messages", Prompt(q.messages).latest = <<>>, "invalid_request_error") >>

(* requireAuth, and the checks of Server.chat before ExtractLatest's and after. *)
AuthCheck(q) ==
    << StatusCheck(401, "", AuthCode(q.auth) # "ok", AuthCode(q.auth)) >>

HeaderChecks(q) ==
    << Check("body", ~q.json, "invalid_json"),
       Check("user", ~q.user, "missing_required_parameter"),
       Check("chat", ~q.chat, "missing_required_parameter") >>

ModelCheck(q) ==
    << StatusCheck(404, "model", q.model \notin DOMAIN Routes, "model_not_found") >>

BodyChecks(q) == HeaderChecks(q) \o RequiredChecks(q) \o ParameterChecks(q)
                 \o MessageChecks(q)
Checks(q) == AuthCheck(q) \o BodyChecks(q) \o ModelCheck(q)

Accepted(q) ==
    LET prompt == Prompt(q.messages)
    IN  [status |-> 0, agent |-> Routes[q.model],
         usage |-> q.usage /\ "include_usage" \in q.stream_options,
         system |-> prompt.system, latest |-> prompt.latest]

(* Mutant of FrontDoor: the last check that fails is the answer. *)
FrontDoorLast(q) ==
    LET bad == SelectLastInSeq(Checks(q), LAMBDA c : c.bad)
    IN  IF bad # 0 THEN Checks(q)[bad] ELSE Accepted(q)

(* The answer to a request: the first check that fails, or status 0 and    *)
(* what OpenCode is to be sent.                                            *)
FrontDoor(q) ==
    LET bad == SelectInSeq(Checks(q), LAMBDA c : c.bad)
    IN  IF bad # 0 THEN Checks(q)[bad] ELSE Accepted(q)
=============================================================================
