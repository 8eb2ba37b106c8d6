--------------------------- MODULE Configuration ---------------------------
(***************************************************************************)
(* The configuration of the gateway (Load, internal/config/config.go, and  *)
(* streamTimeout, internal/httpapi/server.go): all variables are read from *)
(* the environment, secrets also from files, and one that is missing or    *)
(* malformed keeps the gateway from starting.                              *)
(*                                                                         *)
(* A secret is a record: what its variable holds and, if its _FILE         *)
(* variable is set, the content of that file or "unreadable".  A text is   *)
(* empty, blank or of some value.  A timeout is an int; Atoi refuses what  *)
(* is no int, and its product with time.Second wraps around.               *)
(***************************************************************************)
EXTENDS GoInt

CONSTANTS Second, \* time.Second
          DefaultStreamTimeout

ASSUME ConfigurationAssumption == /\ Second \in Nat \ {0}
                                  /\ DefaultStreamTimeout \in 1..MaxInt

NoFile == "no file"
TrimSpace(text) == IF text = " " THEN "" ELSE text

(* Mutant of Secret: a readable file is not trimmed. *)
SecretAsIs(s) == IF s.file = NoFile THEN s.var ELSE s.file

(* secret: the file wins, and its content is trimmed; the variable is not. *)
Secret(s) == IF s.file = NoFile THEN s.var ELSE TrimSpace(s.file)

(* Load returns no error. *)
Loads(env) ==
    /\ \A s \in {env.key, env.username, env.password} : s.file # "unreadable"
    /\ Secret(env.key) # ""
    /\ env.hasURL /\ env.hasDatabase
    /\ env.allowUnsecured \in {"true", "false"} /\ env.healthAuth \in {"true", "false"}
    /\ env.timeout > 0
    /\ Secret(env.password) # "" \/ env.allowUnsecured = "true"

Load(env) ==
    [key |-> Secret(env.key), password |-> Secret(env.password),
     username |-> IF Secret(env.username) = "" THEN "opencode" ELSE Secret(env.username),
     healthAuth |-> env.healthAuth = "true",
     timeout |-> Times(env.timeout, Second)]

StreamTimeout(seconds) == IF seconds <= 0 THEN DefaultStreamTimeout
                          ELSE Times(seconds, Second)
=============================================================================
