-------------------------- MODULE MCPureFunctions --------------------------
(* Requests with every combination of faults in the headers, with up to    *)
(* five faults among the parameters, and with up to three messages; token  *)
(* counts around zero and around the largest int; environments with each   *)
(* form of the secrets and with timeouts around the largest duration.      *)
EXTENDS PureFunctions

Said(word) == [text |-> TRUE, words |-> word]
Image == [text |-> FALSE, words |-> <<>>]
Contents == {<<Said(<<"a">>)>>, <<Said(<<"b">>), Said(<<"c">>)>>, <<Said(<<>>)>>, <<Image>>}
Messages == [role : {"system", "user", "assistant", "tool"}, content : Contents]
Hello == <<[role |-> "user", content |-> <<Said(<<"a">>)>>]>>

Good == [auth |-> <<Bearer>>, json |-> TRUE, user |-> TRUE, chat |-> TRUE,
         model |-> "adina-execution", messages |-> Hello,
         num |-> [p \in {} |-> 0], given |-> {}, stop |-> <<>>,
         modalities |-> {}, stream_options |-> {}, usage |-> TRUE,
         response_format |-> "text"]

Given4 == {{}, {"tools"}, {"functions", "logprobs"}, {"prediction"}}

MCRequests ==
    {[Good EXCEPT !.auth = auth, !.json = json, !.user = user, !.chat = chat,
                  !.model = model, !.messages = messages] :
        auth \in {<<>>, <<Bearer>>, <<"Basic key">>, <<Bearer, Bearer>>},
        json \in BOOLEAN, user \in BOOLEAN, chat \in BOOLEAN,
        model \in {"", "adina-analysis", "gpt"}, messages \in {<<>>, Hello}}
    \cup
    {[Good EXCEPT !.num = (p :> v), !.given = given, !.model = model] :
        p \in DOMAIN Least, v \in -3..3, given \in Given4, model \in {"gpt", "adina-analysis"}}
    \cup
    {[Good EXCEPT !.given = given, !.stop = stop, !.modalities = modalities,
                  !.stream_options = options, !.response_format = format] :
        given \in Given4,
        stop \in {<<>>, <<TRUE, TRUE, TRUE, TRUE>>, <<TRUE, TRUE, TRUE, TRUE, TRUE>>, <<FALSE>>},
        modalities \in {{}, {"text"}, {"text", "audio"}},
        options \in SUBSET {"include_usage", "other"},
        format \in {"text", "json_object"}}
    \cup
    {[Good EXCEPT !.messages = messages] :
        messages \in UNION {[1..n -> Messages] : n \in 1..3}}

Number(halves) == [number |-> TRUE, halves |-> halves]
Missing == [number |-> FALSE, halves |-> 0]
Counts == {Number(h) : h \in {-2, 0, 1, 6, 12, 16, 18}} \cup {Missing}
MCTokens == [input : Counts, output : Counts, reasoning : Counts,
             total : {Number(-2), Number(1), Number(6), Number(16), Missing}, saturates : BOOLEAN]

Secrets == [var : {"", " ", "x"}, file : {NoFile, "unreadable", " ", "x"}]
Username == [var |-> "", file |-> NoFile]
MCEnvironments ==
    [key : Secrets, password : Secrets, username : {Username}, hasURL : BOOLEAN,
     hasDatabase : {TRUE}, allowUnsecured : {"", "true", "false"},
     healthAuth : {"true"}, timeout : {0, 3, 4, 7}, streamSeconds : {0, 3, 4}]
=============================================================================
