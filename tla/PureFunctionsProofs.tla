------------------------- MODULE PureFunctionsProofs -------------------------
(***************************************************************************)
(* Proofs about requests, usage and configuration, for ints of any width,  *)
(* any second and any requests, token counts and environments.  Loops over *)
(* messages and parts are functions over 0..n; what they compute is proved *)
(* from UpTo, which is induction over numbers stated with a set.           *)
(***************************************************************************)
EXTENDS PureFunctions, WellFoundedInduction, TLAPS

(* A reply is what the function that was called makes of its argument.     *)
Replied ==
    /\ fn = "FrontDoor" => /\ arg \in Requests
                           /\ done => reply = FrontDoor(arg)
    /\ fn = "Usage" => /\ arg \in Tokens
                       /\ done => reply = UsageFromOpenCodeTokens(arg, arg.saturates)
    /\ fn = "Load" => /\ arg \in Environments
                      /\ done => reply = [ok |-> Loads(arg), config |-> Load(arg)]

LEMMA RepliedInvariance == Spec => []Replied
<1>1. Init => Replied
  BY DEF Init, Replied
<1>2. Replied /\ [Next]_vars => Replied'
  <2> SUFFICES ASSUME Replied, [Next]_vars
               PROVE  Replied'
    OBVIOUS
  <2>1. CASE AnswerRequest
    BY <2>1 DEF AnswerRequest, Return, Replied
  <2>2. CASE MapUsage
    BY <2>2, Zenon DEF MapUsage, Return, Replied
  <2>3. CASE LoadConfig
    BY <2>3, Zenon DEF LoadConfig, Return, Replied
  <2>4. CASE UNCHANGED vars
    BY <2>4, Zenon DEF vars, Replied
  <2> QED
    BY <2>1, <2>2, <2>3, <2>4 DEF Next
<1> QED
  BY <1>1, <1>2, PTL DEF Spec

-----------------------------------------------------------------------------
LEMMA Ints == MaxInt \in Nat
BY MaxIntAssumption DEF MaxIntAssumption

(* What the conversion and the comparison after it make of a number: it is *)
(* used when it is a count, and then as it was given, whatever the         *)
(* processor does with numbers that are too large.                         *)
Converted(value, saturates, result) ==
    /\ result.ok = IsCount(value, saturates)
    /\ result.ok => result.count \in Count /\ Reports(result.count, value)
    /\ ~result.ok => result.count = 0

LEMMA TokenIntCounts ==
    ASSUME NEW value, value.number \in BOOLEAN, value.halves \in Int,
           value.halves # 2 * MaxInt, NEW saturates \in BOOLEAN
    PROVE  Converted(value, saturates, TokenInt(value, saturates))
<1> DEFINE h == value.halves
           n == ToInt(h, saturates)
           ok == value.number /\ h >= 0 /\ h = ToHalves(n)
<1>1. MinInt < 0 /\ MinInt # MaxInt /\ MinInt = -MaxInt - 1 /\ MaxInt \in Nat
  BY Ints DEF MinInt
<1>2. /\ h \div 2 <= MaxInt => n = h \div 2
      /\ ~(h \div 2 <= MaxInt) /\ saturates => n = MaxInt
      /\ ~(h \div 2 <= MaxInt) /\ ~saturates => n = MinInt
  BY DEF ToInt
<1>3. ToHalves(n) = IF n = MaxInt THEN 2 * (MaxInt + 1) ELSE 2 * n
  BY Zenon DEF ToHalves
<1>4. TokenInt(value, saturates) = IF ok THEN Some(n) ELSE None
  BY Zenon DEF TokenInt
<1>5. IsCount(value, saturates) <=>
          /\ value.number /\ h >= 0 /\ h % 2 = 0
          /\ h <= 2 * MaxInt \/ (saturates /\ h = 2 * (MaxInt + 1))
  BY Zenon DEF IsCount
<1>6. Reports(n, value) <=> \/ 2 * n = h
                            \/ n = MaxInt /\ h = 2 * (MaxInt + 1)
  BY Zenon DEF Reports
<1>7. h \in Int /\ h # 2 * MaxInt
  OBVIOUS
<1> HIDE DEF h, n
<1>8. ok <=> IsCount(value, saturates)
  BY <1>1, <1>2, <1>3, <1>5, <1>7
<1>9. ok => n \in Count /\ Reports(n, value)
  BY <1>1, <1>2, <1>3, <1>6, <1>7 DEF Count
<1> HIDE DEF ok
<1>10. /\ Some(n).ok = TRUE /\ Some(n).count = n
       /\ None.ok = FALSE /\ None.count = 0
  BY DEF Some, None
<1>11. IsCount(value, saturates) \in BOOLEAN
  BY Zenon DEF IsCount
<1> QED
  BY <1>4, <1>8, <1>9, <1>10, <1>11, Zenon DEF Converted

(* The sum, but for a whole turn of the int. *)
Summed(total, sum) == total = sum \/ (sum > MaxInt /\ total = sum - 2 * (MaxInt + 1))

(* A sum of three counts is exact, or off by a whole turn of the int. *)
LEMMA SumOfThree ==
    ASSUME NEW a \in Count, NEW b \in Count, NEW c \in Count
    PROVE  Summed(Add(Add(a, b), c), a + b + c)
BY Ints DEF Count, Add, MinInt, Span, Summed

(* Usage neither makes up nor loses a token, whatever OpenCode reports,    *)
(* whatever an int is and whatever the processor does with a number that   *)
(* no int holds: the counts reported are those given, each as it was given.*)
THEOREM UsageAlwaysAddsUp == Spec => []UsageAddsUp
<1>1. Replied => UsageAddsUp
  <2> SUFFICES ASSUME Replied, Returned("Usage")
               PROVE  UsageAddsUp
    BY Zenon DEF UsageAddsUp
  <2> DEFINE s == arg.saturates
             input == TokenInt(arg.input, s)
             output == TokenInt(arg.output, s)
             reasoning == TokenInt(arg.reasoning, s)
             total == TokenInt(arg.total, s)
             used == IF reply.reasoning.ok THEN reply.reasoning.count ELSE 0
             sum == reply.prompt + reply.completion + used
  <2>1. arg \in Tokens /\ reply = UsageFromOpenCodeTokens(arg, s)
    BY DEF Replied, Returned
  <2>2. /\ s \in BOOLEAN
        /\ arg.input.number \in BOOLEAN /\ arg.input.halves \in Int
        /\ arg.input.halves # 2 * MaxInt
        /\ arg.output.number \in BOOLEAN /\ arg.output.halves \in Int
        /\ arg.output.halves # 2 * MaxInt
        /\ arg.reasoning.number \in BOOLEAN /\ arg.reasoning.halves \in Int
        /\ arg.reasoning.halves # 2 * MaxInt
        /\ arg.total.number \in BOOLEAN /\ arg.total.halves \in Int
        /\ arg.total.halves # 2 * MaxInt
    BY <2>1, ArgumentsAssumption DEF ArgumentsAssumption
  <2>3. /\ Converted(arg.input, s, input) /\ Converted(arg.output, s, output)
        /\ Converted(arg.reasoning, s, reasoning) /\ Converted(arg.total, s, total)
    BY <2>2, TokenIntCounts
  <2>4. /\ reply.ok = (input.ok /\ output.ok)
        /\ reply.ok => /\ reply.prompt = input.count /\ reply.completion = output.count
                       /\ reply.reasoning = reasoning
                       /\ reply.total = Total(input, output, reasoning, total)
    <3> HIDE DEF input, output, reasoning, total
    <3>1. reply = IF ~input.ok \/ ~output.ok THEN NoUsage
                  ELSE [ok |-> TRUE, prompt |-> input.count, completion |-> output.count,
                        total |-> Total(input, output, reasoning, total),
                        reasoning |-> reasoning]
      BY <2>1, Zenon DEF UsageFromOpenCodeTokens, input, output, reasoning, total
    <3>2. NoUsage.ok = FALSE
      BY DEF NoUsage
    <3>3. input.ok \in BOOLEAN /\ output.ok \in BOOLEAN
      BY <2>3, Zenon DEF Converted, IsCount
    <3> HIDE DEF NoUsage
    <3> QED
      BY <3>1, <3>2, <3>3
  <2>5. reply.ok = (IsCount(arg.input, s) /\ IsCount(arg.output, s))
    BY <2>3, <2>4, Zenon DEF Converted
  <2>6. ASSUME reply.ok
        PROVE  /\ Reports(reply.prompt, arg.input) /\ Reports(reply.completion, arg.output)
               /\ reply.reasoning.ok = IsCount(arg.reasoning, s)
               /\ reply.reasoning.ok => Reports(used, arg.reasoning)
    BY <2>3, <2>4, <2>6, Zenon DEF Converted
  <2>7. ASSUME reply.ok
        PROVE  IF IsCount(arg.total, s) THEN Reports(reply.total, arg.total)
               ELSE Summed(reply.total, sum)
    <3> HIDE DEF input, output, reasoning, total
    <3>1. CASE total.ok
      <4>1. reply.total = total.count
        BY <2>4, <2>7, <3>1, Zenon DEF Total
      <4> QED
        BY <2>3, <3>1, <4>1, Zenon DEF Converted
    <3>2. CASE ~total.ok
      <4>1. reply.total = Add(Add(input.count, output.count), reasoning.count)
        BY <2>4, <2>7, <3>2, Zenon DEF Total
      <4>2. used = reasoning.count
        BY <2>3, <2>4, <2>7, Zenon DEF Converted
      <4>3. input.count \in Count /\ output.count \in Count /\ reasoning.count \in Count
        <5>1. 0 \in Count
          BY Ints DEF Count
        <5> QED
          BY <2>3, <2>4, <2>7, <5>1, Zenon DEF Converted
      <4>4. Summed(Add(Add(input.count, output.count), reasoning.count),
                   input.count + output.count + reasoning.count)
        BY <4>3, SumOfThree, Zenon
      <4>5. Summed(reply.total, sum)
        BY <2>4, <2>7, <4>1, <4>2, <4>4, Zenon
      <4> QED
        BY <2>3, <3>2, <4>5, Zenon DEF Converted
    <3> QED
      BY <3>1, <3>2, Zenon
  <2> QED
    BY <2>5, <2>6, <2>7, Zenon DEF UsageAddsUp, Summed
<1> QED
  BY <1>1, RepliedInvariance, PTL

-----------------------------------------------------------------------------
(* Seconds up to the largest duration run forward. *)
LEMMA TimeoutsRun ==
    ASSUME NEW n \in MinInt..MaxInt, n > 0, n <= MaxInt \div Second
    PROVE  Times(n, Second) > 0
<1>1. MaxInt \in Nat /\ Second \in Nat \ {0} /\ n \in Nat \ {0}
  BY Ints, ConfigurationAssumption DEF ConfigurationAssumption, MinInt
<1> DEFINE q == MaxInt \div Second
<1>2. q \in Nat /\ q * Second <= MaxInt
  BY <1>1
<1>3. n * Second <= q * Second
  BY <1>1, <1>2
<1>4. n * Second \in Nat \ {0}
  BY <1>1
<1> DEFINE p == n * Second
<1>5. p \in Nat \ {0} /\ p <= MaxInt
  BY <1>1, <1>2, <1>3, <1>4
<1> HIDE DEF p, q
<1>6. (p + MaxInt + 1) % Span = p + MaxInt + 1
  <2>1. Span \in Nat \ {0} /\ p + MaxInt + 1 \in Nat /\ p + MaxInt + 1 < Span
    BY <1>1, <1>5 DEF Span
  <2> QED
    BY <2>1
<1> QED
  BY <1>1, <1>5, <1>6 DEF Times, p

(* A secret from a file is never blank unless it is empty.                 *)
LEMMA SecretOfFile ==
    ASSUME NEW s, s.file # NoFile
    PROVE  /\ Secret(s) # " "
           /\ s.file \in Blank => Secret(s) = ""
<1>1. Secret(s) = TrimSpace(s.file)
  BY Zenon DEF Secret
<1>2. s.file = " " => TrimSpace(s.file) = ""
  BY Zenon DEF TrimSpace
<1>3. s.file # " " => TrimSpace(s.file) = s.file
  BY Zenon DEF TrimSpace
<1>4. "" # " "
  BY Zenon
<1> QED
  BY <1>1, <1>2, <1>3, <1>4, Zenon DEF Blank

(* A gateway that starts has a key, and a password unless it is allowed to *)
(* do without, and its timeouts run forward up to the largest duration.    *)
THEOREM ConfigurationStaysSound == Spec => []ConfigurationIsSound
<1>1. Replied => ConfigurationIsSound
  <2> SUFFICES ASSUME Replied, Returned("Load"), reply.ok
               PROVE  /\ reply.config.key # ""
                      /\ arg.key.file # NoFile => reply.config.key \notin Blank
                      /\ reply.config.password = "" \/ arg.password.file \in Blank
                            => arg.allowUnsecured = "true"
                      /\ arg.timeout <= MaxInt \div Second => reply.config.timeout > 0
                      /\ arg.streamSeconds <= MaxInt \div Second
                            => StreamTimeout(arg.streamSeconds) > 0
    BY DEF ConfigurationIsSound
  <2>1. arg \in Environments /\ reply = [ok |-> Loads(arg), config |-> Load(arg)]
    BY Zenon DEF Replied, Returned
  <2>2. Loads(arg) /\ reply.config = Load(arg)
    BY <2>1
  <2>3. /\ Secret(arg.key) # "" /\ arg.timeout > 0
        /\ Secret(arg.password) # "" \/ arg.allowUnsecured = "true"
    BY <2>2, Zenon DEF Loads
  <2>4. /\ reply.config.key = Secret(arg.key)
        /\ reply.config.password = Secret(arg.password)
        /\ reply.config.timeout = Times(arg.timeout, Second)
    <3> DEFINE loaded == Load(arg)
    <3>1. /\ loaded.key = Secret(arg.key) /\ loaded.password = Secret(arg.password)
          /\ loaded.timeout = Times(arg.timeout, Second)
      BY Zenon DEF Load
    <3> QED
      BY <2>2, <3>1, Zenon
  <2>5. arg.timeout \in MinInt..MaxInt /\ arg.streamSeconds \in MinInt..MaxInt
    BY <2>1, ArgumentsAssumption DEF ArgumentsAssumption
  <2>6. arg.key.file # NoFile => reply.config.key \notin Blank
    BY <2>3, <2>4, SecretOfFile, Zenon DEF Blank
  <2>7. ASSUME arg.password.file \in Blank
        PROVE  Secret(arg.password) = ""
    <3>1. NoFile \notin Blank
      BY Zenon DEF NoFile, Blank
    <3> QED
      BY <2>7, <3>1, SecretOfFile, Zenon
  <2>8. ASSUME arg.streamSeconds <= MaxInt \div Second
        PROVE  StreamTimeout(arg.streamSeconds) > 0
    <3>1. CASE arg.streamSeconds <= 0
      BY <3>1, ConfigurationAssumption DEF ConfigurationAssumption, StreamTimeout
    <3>2. CASE ~(arg.streamSeconds <= 0)
      <4>1. arg.streamSeconds > 0
        BY <2>5, <3>2, Ints DEF MinInt
      <4> QED
        BY <2>5, <2>8, <3>2, <4>1, TimeoutsRun DEF StreamTimeout
    <3> QED
      BY <3>1, <3>2
  <2>9. arg.timeout <= MaxInt \div Second => reply.config.timeout > 0
    BY <2>3, <2>4, <2>5, TimeoutsRun
  <2>10. reply.config.key # ""
    BY <2>3, <2>4, Zenon
  <2>11. reply.config.password = "" \/ arg.password.file \in Blank
            => arg.allowUnsecured = "true"
    BY <2>3, <2>4, <2>7, Zenon
  <2> QED
    BY <2>6, <2>8, <2>9, <2>10, <2>11, Zenon
<1> QED
  BY <1>1, RepliedInvariance, PTL

-----------------------------------------------------------------------------
(* A nonempty set of numbers has a least one. *)
LEMMA LeastOfNumbers ==
    ASSUME NEW T \in SUBSET Nat, T # {}
    PROVE  Min(T) \in T /\ \A y \in T : Min(T) <= y
<1> DEFINE R == {ss \in Nat \X Nat : ss[1] < ss[2]}
<1>1. IsWellFoundedOn(R, Nat)
  BY NatLessThanWellFounded, Zenon DEF OpToRel
<1>2. \A x, y \in Nat : <<y, x>> \in R <=> y < x
  OBVIOUS
<1> HIDE DEF R
<1>3. PICK x \in T : \A y \in T : <<y, x>> \notin R
  BY <1>1, WFMin, Zenon
<1>4. x \in Nat /\ \A y \in T : y \in Nat /\ ~(y < x)
  BY <1>2, <1>3, Zenon
<1>5. \A y \in T : x <= y
  BY <1>4
<1> QED
  BY <1>5, Zenon DEF Min

(* What holds of zero and is passed on up to n holds up to n. *)
LEMMA UpTo ==
    ASSUME NEW n \in Nat, NEW T, 0 \in T, \A i \in 1..n : i - 1 \in T => i \in T
    PROVE  \A i \in 0..n : i \in T
<1> DEFINE out == {i \in 0..n : i \notin T}
<1>1. SUFFICES ASSUME out # {}
               PROVE  FALSE
  OBVIOUS
<1>2. out \in SUBSET Nat
  OBVIOUS
<1>3. PICK i \in out : \A j \in out : i <= j
  BY <1>1, <1>2, LeastOfNumbers, Zenon
<1>4. i \in 1..n /\ i - 1 \in 0..n /\ ~(i <= i - 1)
  BY <1>3
<1>5. i - 1 \in T
  BY <1>3, <1>4
<1> QED
  BY <1>3, <1>4, <1>5

(* A function over 0..n may be defined by what it is at zero and by how it *)
(* goes on, which G says as a value.                                       *)
Recursive(n, S, b, G) ==
    \E g \in [0..n -> S] : g[0] = b /\ \A i \in 1..n : g[i] = G[i][g[i - 1]]
LEMMA Recursion ==
    ASSUME NEW n \in Nat, NEW S, NEW b \in S, NEW G \in [1..n -> [S -> S]]
    PROVE  Recursive(n, S, b, G)
<1> DEFINE Good(g, m) == g[0] = b /\ \A i \in 1..m : g[i] = G[i][g[i - 1]]
           T == {m \in 0..n : \E g \in [0..m -> S] : Good(g, m)}
<1>1. 0 \in T
  <2> DEFINE h == [i \in 0..0 |-> b]
  <2>1. h \in [0..0 -> S] /\ h[0] = b /\ \A i \in 1..0 : FALSE
    OBVIOUS
  <2>2. Good(h, 0) /\ 0 \in 0..n
    BY <2>1
  <2> QED
    BY <2>1, <2>2, Zenon
<1>2. ASSUME NEW m \in 1..n, m - 1 \in T
      PROVE  m \in T
  <2>1. PICK g \in [0..(m - 1) -> S] : Good(g, m - 1)
    BY <1>2
  <2> DEFINE x == G[m][g[m - 1]]
             h == [i \in 0..m |-> IF i = m THEN x ELSE g[i]]
  <2>2. x \in S
    BY m - 1 \in 0..(m - 1)
  <2> HIDE DEF x
  <2>3. h \in [0..m -> S] /\ h[0] = g[0] /\ h[m] = x /\ h[m - 1] = g[m - 1]
        /\ \A i \in 1..(m - 1) : h[i] = g[i] /\ h[i - 1] = g[i - 1]
    BY <2>2
  <2>4. \A i \in 1..m : i = m \/ i \in 1..(m - 1)
    OBVIOUS
  <2> HIDE DEF h
  <2>5. Good(h, m)
    BY <2>1, <2>3, <2>4, Zenon DEF x
  <2>6. m \in 0..n
    OBVIOUS
  <2> QED
    BY <2>3, <2>5, <2>6, Zenon
<1> HIDE DEF Good
<1>3. \A i \in 1..n : i - 1 \in T => i \in T
  BY <1>2, Zenon
<1> HIDE DEF T
<1>4. n \in T
  BY <1>1, <1>3, UpTo, n \in 0..n
<1> QED
  BY <1>4, Zenon DEF Good, T, Recursive

(* The first check that fails is one, and none before it fails. *)
LEMMA FirstThatFails ==
    ASSUME NEW checks, Len(checks) \in Nat,
           NEW first, first = SelectInSeq(checks, LAMBDA c : c.bad)
    PROVE  \/ first = 0 /\ \A i \in 1..Len(checks) : ~checks[i].bad
           \/ /\ first \in 1..Len(checks) /\ checks[first].bad
              /\ \A i \in 1..(first - 1) : ~checks[i].bad
<1> DEFINE I == {i \in 1..Len(checks) : checks[i].bad}
<1>1. first = IF I # {} THEN Min(I) ELSE 0
  BY Zenon DEF SelectInSeq
<1>2. CASE I = {}
  BY <1>1, <1>2
<1>3. CASE I # {}
  <2>1. I \in SUBSET Nat
    OBVIOUS
  <2>2. first \in I /\ \A i \in I : first <= i
    BY <1>1, <1>3, <2>1, LeastOfNumbers, Zenon
  <2>3. first \in 1..Len(checks) /\ checks[first].bad
    BY <2>2
  <2>4. ASSUME NEW i \in 1..(first - 1)
        PROVE  ~checks[i].bad
    BY <2>2, <2>3
  <2> QED
    BY <2>3, <2>4
<1> QED
  BY <1>2, <1>3

-----------------------------------------------------------------------------
(* Lists of checks: that they are sequences, that every check passes. *)
Listed(s) == \E S : s \in Seq(S)
Passed(s) == \A i \in 1..Len(s) : ~s[i].bad

(* The items of two lists, one after the other. *)
Together(s, t, c) ==
    /\ Len(s) \in Nat /\ Len(t) \in Nat /\ Len(c) = Len(s) + Len(t)
    /\ \A i \in 1..Len(s) : i \in 1..Len(c) /\ c[i] = s[i]
    /\ \A i \in 1..Len(t) : Len(s) + i \in 1..Len(c) /\ c[Len(s) + i] = t[i]
    /\ \A i \in 1..Len(c) : i \in 1..Len(s) \/ \E j \in 1..Len(t) : i = Len(s) + j

LEMMA Joined ==
    ASSUME NEW s, NEW t, Listed(s), Listed(t)
    PROVE  Listed(s \o t) /\ Together(s, t, s \o t)
<1>1. PICK A : s \in Seq(A)
  BY DEF Listed
<1>2. PICK B : t \in Seq(B)
  BY DEF Listed
<1>3. s \in Seq(A \cup B) /\ t \in Seq(A \cup B)
  BY <1>1, <1>2
<1>4. s \o t \in Seq(A \cup B)
  BY <1>3
<1> DEFINE c == s \o t
<1>5. /\ Len(s) \in Nat /\ Len(t) \in Nat /\ Len(c) = Len(s) + Len(t)
      /\ \A i \in 1..Len(s) : c[i] = s[i]
      /\ \A i \in 1..Len(t) : c[Len(s) + i] = t[i]
  BY <1>3
<1> HIDE DEF c
<1>6. /\ \A i \in 1..Len(s) : i \in 1..Len(c)
      /\ \A i \in 1..Len(t) : Len(s) + i \in 1..Len(c)
  BY <1>5
<1>7. ASSUME NEW i \in 1..Len(c), i \notin 1..Len(s)
      PROVE  \E j \in 1..Len(t) : i = Len(s) + j
  <2>1. i - Len(s) \in 1..Len(t) /\ i = Len(s) + (i - Len(s))
    BY <1>5, <1>7
  <2> QED
    BY <2>1
<1>8. Together(s, t, c)
  BY <1>5, <1>6, <1>7, Zenon DEF Together
<1> QED
  BY <1>4, <1>8, Zenon DEF Listed, c

LEMMA PassedBoth ==
    ASSUME NEW s, NEW t, Listed(s), Listed(t)
    PROVE  Passed(s \o t) <=> Passed(s) /\ Passed(t)
<1>1. Together(s, t, s \o t)
  BY Joined, Zenon
<1>2. Passed(s \o t) => Passed(s) /\ Passed(t)
  BY <1>1, Zenon DEF Passed, Together
<1>3. Passed(s) /\ Passed(t) => Passed(s \o t)
  <2> SUFFICES ASSUME Passed(s), Passed(t), NEW i \in 1..Len(s \o t)
               PROVE  ~(s \o t)[i].bad
    BY Zenon DEF Passed
  <2>1. CASE i \in 1..Len(s)
    BY <1>1, <2>1, Zenon DEF Passed, Together
  <2>2. CASE i \notin 1..Len(s)
    <3>1. PICK j \in 1..Len(t) : i = Len(s) + j
      BY <1>1, <2>2, Zenon DEF Together
    <3>2. (s \o t)[i] = t[j]
      BY <1>1, <3>1, Zenon DEF Together
    <3> QED
      BY <3>1, <3>2, Zenon DEF Passed
  <2> QED
    BY <2>1, <2>2, Zenon
<1> QED
  BY <1>2, <1>3

(* Checks of the body: each answers 400. *)
Refusals(s) == Listed(s) /\ \A i \in 1..Len(s) : s[i].status = 400

LEMMA RefusalsBoth ==
    ASSUME NEW s, NEW t, Refusals(s), Refusals(t)
    PROVE  Refusals(s \o t)
<1>1. Listed(s) /\ Listed(t)
  BY Zenon DEF Refusals
<1>2. Listed(s \o t) /\ Together(s, t, s \o t)
  BY <1>1, Joined, Zenon
<1>3. ASSUME NEW i \in 1..Len(s \o t)
      PROVE  (s \o t)[i].status = 400
  <2>1. CASE i \in 1..Len(s)
    <3>1. (s \o t)[i] = s[i]
      BY <1>2, <2>1, Zenon DEF Together
    <3>2. s[i].status = 400
      BY <2>1 DEF Refusals
    <3> QED
      BY <3>1, <3>2
  <2>2. CASE i \notin 1..Len(s)
    <3>1. PICK j \in 1..Len(t) : i = Len(s) + j
      BY <1>2, <2>2, Zenon DEF Together
    <3>2. (s \o t)[i] = t[j]
      BY <1>2, <3>1, Zenon DEF Together
    <3>3. t[j].status = 400
      BY <3>1, Zenon DEF Refusals
    <3> QED
      BY <3>2, <3>3
  <2> QED
    BY <2>1, <2>2
<1> QED
  BY <1>2, <1>3, Zenon DEF Refusals

LEMMA OneRefusal ==
    ASSUME NEW a, a.status = 400
    PROVE  Refusals(<<a>>)
<1>1. <<a>> \in Seq({a}) /\ \A i \in 1..Len(<<a>>) : <<a>>[i] = a
  OBVIOUS
<1> QED
  BY <1>1, Zenon DEF Refusals, Listed

LEMMA TwoRefusals ==
    ASSUME NEW a, NEW b, a.status = 400, b.status = 400
    PROVE  Refusals(<<a, b>>)
<1>1. <<a, b>> \in Seq({a, b}) /\ \A i \in 1..Len(<<a, b>>) : <<a, b>>[i] \in {a, b}
  OBVIOUS
<1> QED
  BY <1>1, Zenon DEF Refusals, Listed

LEMMA ThreeRefusals ==
    ASSUME NEW a, NEW b, NEW c, a.status = 400, b.status = 400, c.status = 400
    PROVE  Refusals(<<a, b, c>>)
<1>1. /\ <<a, b, c>> \in Seq({a, b, c})
      /\ \A i \in 1..Len(<<a, b, c>>) : <<a, b, c>>[i] \in {a, b, c}
  OBVIOUS
<1> QED
  BY <1>1, Zenon DEF Refusals, Listed

LEMMA RefusalsOf ==
    ASSUME NEW n \in Nat, NEW f, f = [i \in 1..n |-> f[i]],
           \A i \in 1..n : f[i].status = 400
    PROVE  Refusals(f)
<1>1. f \in Seq({f[i] : i \in 1..n}) /\ Len(f) = n
  OBVIOUS
<1> QED
  BY <1>1, Zenon DEF Refusals, Listed

LEMMA GivenRefusals ==
    ASSUME NEW q, NEW names, NEW n \in Nat, DOMAIN names = 1..n
    PROVE  Refusals(Given(q, names))
<1> DEFINE f == Given(q, names)
<1>1. f = [i \in 1..n |-> f[i]]
  BY Zenon DEF Given
<1>2. \A i \in 1..n : f[i].status = 400
  BY Zenon DEF Given, Check, StatusCheck
<1> HIDE DEF f
<1>3. Refusals(f)
  BY <1>1, <1>2, RefusalsOf
<1> QED
  BY <1>3 DEF f

LEMMA BodyRefusals ==
    ASSUME NEW q, q.messages \in Seq(Message)
    PROVE  /\ Refusals(HeaderChecks(q)) /\ Refusals(RequiredChecks(q))
           /\ Refusals(ParameterChecks(q)) /\ Refusals(MessageChecks(q))
<1>1. Refusals(HeaderChecks(q))
  <2> DEFINE a == Check("body", ~q.json, "invalid_json")
             b == Check("user", ~q.user, "missing_required_parameter")
             c == Check("chat", ~q.chat, "missing_required_parameter")
  <2>1. a.status = 400 /\ b.status = 400 /\ c.status = 400
    BY Zenon DEF Check, StatusCheck
  <2>2. HeaderChecks(q) = <<a, b, c>>
    BY Zenon DEF HeaderChecks
  <2> HIDE DEF a, b, c
  <2> QED
    BY <2>1, <2>2, ThreeRefusals, Zenon
<1>2. Refusals(RequiredChecks(q))
  <2> DEFINE a == Check("model", q.model = "", "missing_required_parameter")
             b == Check("messages", q.messages = <<>>, "missing_required_parameter")
  <2>1. a.status = 400 /\ b.status = 400
    BY Zenon DEF Check, StatusCheck
  <2>2. RequiredChecks(q) = <<a, b>>
    BY Zenon DEF RequiredChecks
  <2> HIDE DEF a, b
  <2> QED
    BY <2>1, <2>2, TwoRefusals, Zenon
<1>3. Refusals(ParameterChecks(q))
  <2> DEFINE ranged == [i \in DOMAIN Ranged |->
                           Check(Ranged[i], OutOfBounds(q, Ranged[i]), "invalid_value")]
             stop == Check("stop", ~ValidStop(q.stop), "invalid_value")
             modalities == Check("modalities", ~(q.modalities \subseteq {"text"}),
                                 "unsupported_parameter")
             n == Check("n", OutOfBounds(q, "n"), "unsupported_parameter")
             logprobs == Check("logprobs", "logprobs" \in q.given, "unsupported_parameter")
             options == Check("stream_options",
                              ~(q.stream_options \subseteq {"include_usage"}),
                              "unsupported_parameter")
             format == Check("response_format",
                             q.response_format \in {"json_object", "json_schema"},
                             "unsupported_parameter")
  <2>1. ParameterChecks(q) = ranged \o <<stop>> \o Given(q, Unsupported1)
                              \o <<modalities, n, logprobs>> \o Given(q, Unsupported2)
                              \o <<options, format>>
    BY Zenon DEF ParameterChecks
  <2>2. /\ stop.status = 400 /\ modalities.status = 400 /\ n.status = 400
        /\ logprobs.status = 400 /\ options.status = 400 /\ format.status = 400
    BY Zenon DEF Check, StatusCheck
  <2>3. /\ DOMAIN Ranged = 1..6 /\ DOMAIN Unsupported1 = 1..5
        /\ DOMAIN Unsupported2 = 1..4
    BY DEF Ranged, Unsupported1, Unsupported2
  <2>4. /\ ranged = [i \in 1..6 |-> ranged[i]]
        /\ \A i \in 1..6 : ranged[i].status = 400
    BY <2>3, Zenon DEF Check, StatusCheck
  <2> HIDE DEF ranged, stop, modalities, n, logprobs, options, format
  <2>5. Refusals(ranged)
    <3> DEFINE last == 6
    <3>1. last \in Nat
      OBVIOUS
    <3>2. /\ ranged = [i \in 1..last |-> ranged[i]]
          /\ \A i \in 1..last : ranged[i].status = 400
      BY <2>4, Zenon
    <3> HIDE DEF last
    <3> QED
      BY <3>1, <3>2, RefusalsOf
  <2>6. Refusals(Given(q, Unsupported1)) /\ Refusals(Given(q, Unsupported2))
    BY <2>3, GivenRefusals
  <2>7. /\ Refusals(<<stop>>) /\ Refusals(<<modalities, n, logprobs>>)
        /\ Refusals(<<options, format>>)
    BY <2>2, OneRefusal, TwoRefusals, ThreeRefusals, Zenon
  <2>8. Refusals(ranged \o <<stop>> \o Given(q, Unsupported1))
    BY <2>5, <2>6, <2>7, RefusalsBoth, Zenon
  <2>9. Refusals(ranged \o <<stop>> \o Given(q, Unsupported1)
                 \o <<modalities, n, logprobs>> \o Given(q, Unsupported2))
    BY <2>6, <2>7, <2>8, RefusalsBoth, Zenon
  <2> QED
    BY <2>1, <2>7, <2>9, RefusalsBoth, Zenon
<1>4. Refusals(MessageChecks(q))
  <2> DEFINE role == Check("messages", q.messages[Len(q.messages)].role # "user",
                           "invalid_request_error")
             turns == [i \in DOMAIN q.messages |->
                          Check("messages", BadMessage(q.messages[i], i = Len(q.messages)),
                                "unsupported_parameter")]
             latest == Check("messages", Prompt(q.messages).latest = <<>>,
                             "invalid_request_error")
  <2>1. role.status = 400 /\ latest.status = 400
    BY Zenon DEF Check, StatusCheck
  <2>2. Refusals(turns)
    <3> DEFINE last == Len(q.messages)
    <3>1. DOMAIN q.messages = 1..last /\ last \in Nat
      OBVIOUS
    <3>2. /\ turns = [i \in 1..last |-> turns[i]]
          /\ \A i \in 1..last : turns[i].status = 400
      BY <3>1, Zenon DEF Check, StatusCheck
    <3> HIDE DEF turns, last
    <3> QED
      BY <3>1, <3>2, RefusalsOf
  <2>3. MessageChecks(q) = IF q.messages = <<>> THEN <<>>
                           ELSE <<role>> \o turns \o <<latest>>
    BY Zenon DEF MessageChecks
  <2> HIDE DEF role, turns, latest
  <2>4. Refusals(<<>>)
    <3>1. <<>> \in Seq({}) /\ \A i \in 1..Len(<<>>) : FALSE
      OBVIOUS
    <3> QED
      BY <3>1, Zenon DEF Refusals, Listed
  <2>5. Refusals(<<role>>) /\ Refusals(<<latest>>)
    BY <2>1, OneRefusal, Zenon
  <2>6. Refusals(<<role>> \o turns \o <<latest>>)
    BY <2>2, <2>5, RefusalsBoth, Zenon
  <2> QED
    BY <2>3, <2>4, <2>6, Zenon
<1> QED
  BY <1>1, <1>2, <1>3, <1>4, Zenon

(* One token is the right one. *)
LEMMA RightToAsk ==
    ASSUME NEW headers \in Seq(STRING)
    PROVE  AuthCode(headers) = "ok" <=> headers = <<Bearer>>
<1>1. <<Bearer>> # <<>>
  OBVIOUS
<1>2. "missing_api_key" # "ok" /\ "invalid_api_key" # "ok"
  BY Zenon
<1> QED
  BY <1>1, <1>2, Zenon DEF AuthCode

(* The checks of a request in their order, and the answer they make: the   *)
(* first is the right to ask, and all but the last are front.              *)
NoRight(headers) == StatusCheck(401, "", AuthCode(headers) # "ok", AuthCode(headers))
Ordered(q, checks, front) ==
    /\ Len(front) \in Nat \ {0} /\ Len(checks) = Len(front) + 1
    /\ checks[1] = NoRight(q.auth) /\ checks[1].status = 401
    /\ checks[1].bad <=> q.auth # <<Bearer>>
    /\ \A i \in 2..Len(front) : checks[i].status = 400
    /\ checks[Len(checks)].status = 404
    /\ \A i \in 1..Len(front) : checks[i] = front[i]

LEMMA ChecksOfRequest ==
    ASSUME NEW q, q.auth \in Seq(STRING), q.messages \in Seq(Message)
    PROVE  /\ Listed(AuthCheck(q)) /\ Listed(BodyChecks(q)) /\ Listed(ModelCheck(q))
           /\ Listed(AuthCheck(q) \o BodyChecks(q))
           /\ Ordered(q, Checks(q), AuthCheck(q) \o BodyChecks(q))
<1> DEFINE wrong == AuthCode(q.auth) # "ok"
           a == StatusCheck(401, "", wrong, AuthCode(q.auth))
           m == StatusCheck(404, "model", q.model \notin DOMAIN Routes, "model_not_found")
           b == BodyChecks(q)
<1>1. AuthCheck(q) = <<a>> /\ ModelCheck(q) = <<m>>
  BY Zenon DEF AuthCheck, ModelCheck
<1>2. /\ a = NoRight(q.auth)
      /\ a.status = 401 /\ a.bad = wrong /\ m.status = 404
  BY Zenon DEF NoRight, StatusCheck
<1>3. wrong <=> q.auth # <<Bearer>>
  BY RightToAsk, Zenon
<1>4. Refusals(b)
  BY BodyRefusals, RefusalsBoth, Zenon DEF BodyChecks
<1> HIDE DEF a, m, b, wrong
<1>5. /\ Listed(<<a>>) /\ Listed(<<m>>) /\ Listed(b)
      /\ Len(<<a>>) = 1 /\ <<a>>[1] = a /\ Len(<<m>>) = 1 /\ <<m>>[1] = m
  <2>1. /\ <<a>> \in Seq({a}) /\ <<m>> \in Seq({m})
        /\ Len(<<a>>) = 1 /\ <<a>>[1] = a /\ Len(<<m>>) = 1 /\ <<m>>[1] = m
    OBVIOUS
  <2> QED
    BY <1>4, <2>1, Zenon DEF Listed, Refusals
<1> DEFINE front == AuthCheck(q) \o BodyChecks(q)
           c == Checks(q)
<1>6. front = <<a>> \o b /\ c = front \o <<m>>
  BY <1>1, Zenon DEF Checks, b
<1> HIDE DEF front, c
<1>7. Listed(front) /\ Together(<<a>>, b, front)
  BY <1>5, <1>6, Joined, Zenon
<1>8. Together(front, <<m>>, c)
  BY <1>5, <1>6, <1>7, Joined, Zenon
<1>9. /\ Len(b) \in Nat /\ Len(front) = Len(b) + 1 /\ Len(c) = Len(b) + 2
      /\ front[1] = a /\ \A j \in 1..Len(b) : front[1 + j] = b[j]
      /\ \A i \in 1..Len(front) : c[i] = front[i]
      /\ c[Len(front) + 1] = m
  BY <1>5, <1>7, <1>8 DEF Together
<1>10. \A i \in 2..Len(front) : c[i].status = 400
  <2> SUFFICES ASSUME NEW i \in 2..Len(front)
               PROVE  c[i].status = 400
    OBVIOUS
  <2>1. i - 1 \in 1..Len(b) /\ i = 1 + (i - 1) /\ i \in 1..Len(front)
    BY <1>9
  <2>2. c[i] = b[i - 1]
    BY <1>9, <2>1
  <2>3. b[i - 1].status = 400
    BY <1>4, <2>1 DEF Refusals
  <2> QED
    BY <2>2, <2>3
<1>11. c[1] = a /\ c[Len(c)] = m
  BY <1>9
<1>12. /\ c[1] = NoRight(q.auth) /\ c[1].status = 401
       /\ (c[1].bad <=> q.auth # <<Bearer>>) /\ c[Len(c)].status = 404
  BY <1>2, <1>3, <1>11
<1>13. /\ Listed(AuthCheck(q)) /\ Listed(BodyChecks(q)) /\ Listed(ModelCheck(q))
       /\ Listed(front)
  BY <1>1, <1>5, <1>7, Zenon DEF b
<1>14. Ordered(q, c, front)
  BY <1>9, <1>10, <1>12 DEF Ordered
<1> QED
  BY <1>13, <1>14, Zenon DEF c, front

Answered(q, answer) ==
    /\ answer.status = 401 <=> q.auth # <<Bearer>>
    /\ answer.status = 401 => answer = NoRight(q.auth)
    /\ answer.status = 0 => Passed(Checks(q)) /\ answer = Accepted(q)

LEMMA AnswerToRequest ==
    ASSUME NEW q, q.auth \in Seq(STRING), q.messages \in Seq(Message)
    PROVE  Answered(q, FrontDoor(q))
<1> DEFINE c == Checks(q)
           first == SelectInSeq(c, LAMBDA x : x.bad)
           front == AuthCheck(q) \o BodyChecks(q)
<1>1. FrontDoor(q) = IF first # 0 THEN c[first] ELSE Accepted(q)
  BY Zenon DEF FrontDoor
<1>2. Accepted(q).status = 0
  BY Zenon DEF Accepted
<1>3. Ordered(q, c, front)
  BY ChecksOfRequest, Zenon
<1> HIDE DEF c, front
<1>4. /\ Len(front) \in Nat \ {0} /\ Len(c) = Len(front) + 1
      /\ c[1] = NoRight(q.auth)
      /\ c[1].status = 401 /\ (c[1].bad <=> q.auth # <<Bearer>>)
      /\ \A i \in 2..Len(front) : c[i].status = 400
      /\ c[Len(c)].status = 404
      /\ \A i \in 1..Len(front) : c[i] = front[i]
  BY <1>3, Zenon DEF Ordered
<1>5. Len(c) \in Nat
  BY <1>4
<1>6. \/ first = 0 /\ \A i \in 1..Len(c) : ~c[i].bad
      \/ /\ first \in 1..Len(c) /\ c[first].bad
         /\ \A i \in 1..(first - 1) : ~c[i].bad
  BY <1>5, FirstThatFails, Zenon
<1> HIDE DEF first
<1>7. FrontDoor(q).status = IF first # 0 THEN c[first].status ELSE 0
  BY <1>1, <1>2
<1>8. first = 1 <=> q.auth # <<Bearer>>
  BY <1>4, <1>6
<1>9. first # 0 => \/ first = 1 /\ c[first].status = 401
                   \/ first \in 2..Len(front) /\ c[first].status = 400
                   \/ first = Len(c) /\ c[first].status = 404
  BY <1>4, <1>6
<1>10. FrontDoor(q).status = 401 <=> first = 1
  BY <1>4, <1>7, <1>9
<1>11. FrontDoor(q).status = 401 => FrontDoor(q) = NoRight(q.auth)
  BY <1>1, <1>4, <1>10
<1>12. FrontDoor(q).status = 0 => Passed(c) /\ FrontDoor(q) = Accepted(q)
  <2>1. FrontDoor(q).status = 0 => first = 0
    BY <1>7, <1>9
  <2>2. first = 0 => \A i \in 1..Len(c) : ~c[i].bad
    BY <1>5, <1>6
  <2> QED
    BY <1>1, <2>1, <2>2, Zenon DEF Passed
<1> QED
  BY <1>8, <1>10, <1>11, <1>12, Zenon DEF Answered, c, front

(* The groups of checks, and that all checks pass when those of each group do. *)
Groups(p) == /\ Passed(AuthCheck(p)) /\ Passed(HeaderChecks(p))
             /\ Passed(RequiredChecks(p)) /\ Passed(ParameterChecks(p))
             /\ Passed(MessageChecks(p))

LEMMA PassedByGroup ==
    ASSUME NEW p, p.auth \in Seq(STRING), p.messages \in Seq(Message)
    PROVE  /\ Passed(AuthCheck(p) \o BodyChecks(p)) <=> Groups(p)
           /\ Passed(Checks(p))
                 <=> Passed(AuthCheck(p) \o BodyChecks(p)) /\ Passed(ModelCheck(p))
<1>1. /\ Listed(AuthCheck(p)) /\ Listed(BodyChecks(p)) /\ Listed(ModelCheck(p))
      /\ Listed(AuthCheck(p) \o BodyChecks(p))
  BY ChecksOfRequest, Zenon
<1> DEFINE h == HeaderChecks(p)
           n == RequiredChecks(p)
           c == ParameterChecks(p)
           m == MessageChecks(p)
<1>2. Refusals(h) /\ Refusals(n) /\ Refusals(c) /\ Refusals(m)
  BY BodyRefusals, Zenon
<1>3. BodyChecks(p) = h \o n \o c \o m
  BY Zenon DEF BodyChecks
<1> HIDE DEF h, n, c, m
<1>4. Refusals(h \o n) /\ Refusals(h \o n \o c)
  BY <1>2, RefusalsBoth, Zenon
<1>5. /\ Listed(h) /\ Listed(n) /\ Listed(c) /\ Listed(m)
      /\ Listed(h \o n) /\ Listed(h \o n \o c)
  BY <1>2, <1>4, Zenon DEF Refusals
<1>6. Passed(h \o n) <=> Passed(h) /\ Passed(n)
  BY <1>5, PassedBoth, Zenon
<1>7. Passed(h \o n \o c) <=> Passed(h \o n) /\ Passed(c)
  BY <1>5, PassedBoth, Zenon
<1>8. Passed(h \o n \o c \o m) <=> Passed(h \o n \o c) /\ Passed(m)
  BY <1>5, PassedBoth, Zenon
<1>9. /\ Passed(AuthCheck(p) \o BodyChecks(p))
            <=> Passed(AuthCheck(p)) /\ Passed(BodyChecks(p))
  BY <1>1, PassedBoth, Zenon
<1>10. Passed(Checks(p))
            <=> Passed(AuthCheck(p) \o BodyChecks(p)) /\ Passed(ModelCheck(p))
  BY <1>1, PassedBoth, Zenon DEF Checks
<1> QED
  BY <1>3, <1>6, <1>7, <1>8, <1>9, <1>10, Zenon DEF Groups, h, n, c, m

(* Requests that may differ in their model, their messages and the usage   *)
(* they ask for; the checks that look at none of them are the same.        *)
SameButFor(q, r) ==
    /\ r.auth = q.auth /\ r.json = q.json /\ r.user = q.user /\ r.chat = q.chat
    /\ r.num = q.num /\ r.given = q.given /\ r.stop = q.stop
    /\ r.modalities = q.modalities /\ r.stream_options = q.stream_options
    /\ r.response_format = q.response_format

LEMMA SameParts ==
    ASSUME NEW q, NEW r, SameButFor(q, r)
    PROVE  /\ AuthCheck(r) = AuthCheck(q) /\ HeaderChecks(r) = HeaderChecks(q)
           /\ ParameterChecks(r) = ParameterChecks(q)
<1>1. /\ r.auth = q.auth /\ r.json = q.json /\ r.user = q.user /\ r.chat = q.chat
      /\ r.num = q.num /\ r.given = q.given /\ r.stop = q.stop
      /\ r.modalities = q.modalities /\ r.stream_options = q.stream_options
      /\ r.response_format = q.response_format
  BY Zenon DEF SameButFor
<1>2. AuthCheck(r) = AuthCheck(q) /\ HeaderChecks(r) = HeaderChecks(q)
  <2> DEFINE a(headers) == << StatusCheck(401, "", AuthCode(headers) # "ok",
                                          AuthCode(headers)) >>
  <2>1. AuthCheck(r) = a(r.auth) /\ AuthCheck(q) = a(q.auth)
    BY Zenon DEF AuthCheck
  <2> HIDE DEF a
  <2>2. AuthCheck(r) = AuthCheck(q)
    BY <1>1, <2>1, Zenon
  <2>3. HeaderChecks(r) = HeaderChecks(q)
    BY <1>1 DEF HeaderChecks
  <2> QED
    BY <2>2, <2>3
<1>3. ParameterChecks(r) = ParameterChecks(q)
  <2>1. \A p : OutOfBounds(r, p) = OutOfBounds(q, p)
    BY <1>1, Zenon DEF OutOfBounds
  <2>2. \A ns : Given(r, ns) = Given(q, ns)
    BY <1>1 DEF Given
  <2> QED
    <3> DEFINE ranged(p) == [i \in DOMAIN Ranged |->
                                Check(Ranged[i], OutOfBounds(p, Ranged[i]), "invalid_value")]
               stop(p) == Check("stop", ~ValidStop(p.stop), "invalid_value")
               modalities(p) == Check("modalities", ~(p.modalities \subseteq {"text"}),
                                      "unsupported_parameter")
               n(p) == Check("n", OutOfBounds(p, "n"), "unsupported_parameter")
               logprobs(p) == Check("logprobs", "logprobs" \in p.given,
                                    "unsupported_parameter")
               options(p) == Check("stream_options",
                                   ~(p.stream_options \subseteq {"include_usage"}),
                                   "unsupported_parameter")
               format(p) == Check("response_format",
                                  p.response_format \in {"json_object", "json_schema"},
                                  "unsupported_parameter")
               all(a, b, c, d, e, f) == a \o b \o c \o d \o e \o f
    <3>1. ASSUME NEW p
          PROVE  ParameterChecks(p) = all(ranged(p), <<stop(p)>>, Given(p, Unsupported1),
                                          <<modalities(p), n(p), logprobs(p)>>,
                                          Given(p, Unsupported2), <<options(p), format(p)>>)
      BY Zenon DEF ParameterChecks
    <3>2. ranged(r) = ranged(q) /\ n(r) = n(q)
      BY <2>1, Zenon
    <3>3. /\ stop(r) = stop(q) /\ modalities(r) = modalities(q) /\ logprobs(r) = logprobs(q)
          /\ options(r) = options(q) /\ format(r) = format(q)
      BY <1>1, Zenon
    <3> HIDE DEF ranged, stop, modalities, n, logprobs, options, format, all
    <3>4. /\ Given(r, Unsupported1) = Given(q, Unsupported1)
          /\ Given(r, Unsupported2) = Given(q, Unsupported2)
      BY <2>2, Zenon
    <3>5. /\ <<modalities(r), n(r), logprobs(r)>> = <<modalities(q), n(q), logprobs(q)>>
          /\ <<stop(r)>> = <<stop(q)>> /\ <<options(r), format(r)>> = <<options(q), format(q)>>
      BY <3>2, <3>3, Zenon
    <3> QED
      BY <3>1, <3>2, <3>4, <3>5, Zenon
<1> QED
  BY <1>2, <1>3, Zenon

-----------------------------------------------------------------------------
(* The loops over the parts of a content and over the messages. *)
LEMMA WordsOfPart ==
    ASSUME NEW B, NEW W, NEW part \in [text : B, words : W]
    PROVE  part.words \in W
  OBVIOUS

LEMMA TextsOfParts ==
    ASSUME NEW content \in Seq(Part)
    PROVE  Text(content) \in Seq(STRING)
<1> DEFINE n == Len(content)
           S == Seq(STRING)
           f == Texts(content)
           b == <<>>
           G == [i \in 1..n |-> [x \in S |-> x \o content[i].words]]
<1>1. n \in Nat /\ b \in S
  OBVIOUS
<1>2. \A i \in 1..n : \A x \in S : x \o content[i].words \in S
  <2>1. \A i \in 1..n : content[i].words \in S
    <3>1. \A i \in 1..n : content[i] \in Part
      OBVIOUS
    <3>2. \A part \in Part : part.words \in S
      BY WordsOfPart, Zenon DEF Part
    <3> QED
      BY <3>1, <3>2, Zenon
  <2> QED
    BY <2>1
<1>3. G \in [1..n -> [S -> S]]
  BY <1>2
<1>4. \A i \in 1..n : \A x \in S : G[i][x] = x \o content[i].words
  OBVIOUS
<1> HIDE DEF G, n, S, b
<1>5. PICK g \in [0..n -> S] : g[0] = <<>> /\ \A i \in 1..n : g[i] = G[i][g[i - 1]]
  <2>1. Recursive(n, S, b, G)
    BY <1>1, <1>3, Recursion
  <2> QED
    BY <2>1, Zenon DEF Recursive, b
<1>6. \A i \in 1..n : g[i] = g[i - 1] \o content[i].words
  <2>1. \A i \in 1..n : g[i - 1] \in S
    BY <1>1, <1>5
  <2> QED
    BY <1>4, <1>5, <2>1, Zenon
<1>7. g = [i \in 0..n |-> IF i = 0 THEN <<>> ELSE g[i - 1] \o content[i].words]
  <2>1. \A i \in 0..n : i = 0 \/ i \in 1..n
    BY <1>1
  <2>2. g = [i \in 0..n |-> g[i]]
    BY <1>5, Zenon
  <2>3. \A i \in 0..n : g[i] = IF i = 0 THEN <<>> ELSE g[i - 1] \o content[i].words
    BY <1>5, <1>6, <2>1, Zenon
  <2> QED
    BY <2>2, <2>3, Zenon
<1>8. f = CHOOSE h : h = [i \in 0..n |-> IF i = 0 THEN <<>>
                                         ELSE h[i - 1] \o content[i].words]
  BY Zenon DEF Texts, n
<1>9. f = [i \in 0..n |-> IF i = 0 THEN <<>> ELSE f[i - 1] \o content[i].words]
  BY <1>7, <1>8, Zenon
<1> HIDE DEF f
<1>10. f[0] = <<>> /\ \A i \in 1..n : f[i] = f[i - 1] \o content[i].words
  <2>1. 0 \in 0..n /\ \A i \in 1..n : i \in 0..n /\ i # 0
    BY <1>1
  <2> QED
    BY <1>9, <2>1, Zenon
<1> DEFINE T == {i \in 0..n : f[i] \in S}
<1>11. 0 \in T
  BY <1>1, <1>10 DEF b
<1>12. \A i \in 1..n : i - 1 \in T => i \in T
  <2>1. \A i \in 1..n : i - 1 \in 0..n /\ i \in 0..n
    BY <1>1
  <2> QED
    BY <1>2, <1>10, <2>1, Zenon
<1> HIDE DEF T
<1>13. n \in T
  BY <1>1, <1>11, <1>12, UpTo, n \in 0..n
<1> QED
  BY <1>13, Zenon DEF T, f, n, S, Text

(* What the loop over the messages has found before the first: no system   *)
(* text and no last message.  Words are those of a content, and the break. *)
Started == [system |-> <<>>, latest |-> <<>>]
Words == STRING \cup {Break}
Found == [system : Seq(Words), latest : Seq(Words)]

LEMMA MoreWords ==
    ASSUME NEW A, NEW B, NEW s \in Seq(A)
    PROVE  s \in Seq(A \cup B)
  OBVIOUS

LEMMA TextIsWords ==
    ASSUME NEW content \in Seq(Part)
    PROVE  Text(content) \in Seq(Words)
  BY TextsOfParts, MoreWords, Zenon DEF Words

Added(s, t, sum) ==
    /\ t = <<>> => sum = s
    /\ s = <<>> => sum = t
    /\ s # <<>> /\ t # <<>> => sum = s \o (<<Break>> \o t) /\ sum # <<>>

LEMMA AddedSystem ==
    ASSUME NEW W, Break \in W, NEW s \in Seq(W), NEW t \in Seq(W)
    PROVE  AddSystem(s, t) \in Seq(W) /\ Added(s, t, AddSystem(s, t))
<1>1. <<Break>> \in Seq(W) /\ Len(<<Break>>) = 1
  OBVIOUS
<1>2. /\ s \o <<>> = s /\ <<>> \o t = t
  OBVIOUS
<1>3. (s \o <<Break>>) \o t = s \o (<<Break>> \o t)
  BY <1>1
<1>4. s \o t \in Seq(W) /\ s \o (<<Break>> \o t) \in Seq(W)
  BY <1>1
<1>5. s \o (<<Break>> \o t) # <<>>
  <2>1. Len(s \o (<<Break>> \o t)) = Len(s) + (1 + Len(t))
    BY <1>1
  <2>2. Len(s) \in Nat /\ Len(t) \in Nat
    OBVIOUS
  <2>3. Len(<<>>) = 0
    OBVIOUS
  <2> QED
    BY <2>1, <2>2, <2>3
<1> QED
  BY <1>2, <1>3, <1>4, <1>5, Zenon DEF AddSystem, Added

(* A turn of the loop before the last, and the last one. *)
Midway(acc, msg) == Take(acc, msg, FALSE)
Final(acc, msg) == Take(acc, msg, TRUE)

LEMMA MessageFields ==
    ASSUME NEW msg \in Message
    PROVE  msg.content \in Seq(Part)
<1> DEFINE R == STRING
           C == Seq(Part)
<1>1. Message = [role : R, content : C]
  BY Zenon DEF Message
<1> HIDE DEF R, C
<1>2. msg.content \in C
  BY <1>1
<1> QED
  BY <1>2, Zenon DEF C

LEMMA FoundFields ==
    ASSUME NEW W, NEW found \in [system : W, latest : W], NEW text \in W
    PROVE  /\ found.system \in W /\ found.latest \in W
           /\ [found EXCEPT !.system = text] \in [system : W, latest : W]
           /\ [found EXCEPT !.latest = text] \in [system : W, latest : W]
           /\ [found EXCEPT !.system = text].system = text
           /\ [found EXCEPT !.system = text].latest = found.latest
           /\ [found EXCEPT !.latest = text].system = found.system
           /\ [found EXCEPT !.latest = text].latest = text
  OBVIOUS

(* What a turn does to what was found: TakenTurn for one with the flag.    *)
Turned(acc, msg, found) ==
    /\ found \in Found
    /\ msg.role = "system" => /\ found.system = AddSystem(acc.system, Text(msg.content))
                              /\ found.latest = acc.latest
    /\ msg.role # "system" => found.system = acc.system

LEMMA TakenTurn ==
    ASSUME NEW acc \in Found, NEW msg \in Message
    PROVE  /\ Turned(acc, msg, Midway(acc, msg)) /\ Turned(acc, msg, Final(acc, msg))
           /\ msg.role # "system" => Midway(acc, msg) = acc
           /\ msg.role = "user" => Final(acc, msg).latest = Text(msg.content)
<1> DEFINE W == Seq(Words)
           t == Text(msg.content)
           s == AddSystem(acc.system, t)
<1>1. t \in W
  BY MessageFields, TextIsWords, Zenon
<1>2. Found = [system : W, latest : W]
  BY Zenon DEF Found
<1>3. acc.system \in W
  BY <1>1, <1>2, FoundFields, Zenon
<1>4. s \in W
  <2>1. Break \in Words
    BY Zenon DEF Words
  <2> QED
    BY <1>1, <1>3, <2>1, AddedSystem, Zenon
<1> DEFINE a == [acc EXCEPT !.system = s]
           b == [acc EXCEPT !.latest = t]
<1>5. /\ Midway(acc, msg) = IF msg.role = "system" THEN a ELSE acc
      /\ Final(acc, msg) = IF msg.role = "system" THEN a
                           ELSE IF msg.role = "user" THEN b ELSE acc
  <2>1. /\ Midway(acc, msg) = CASE msg.role = "system" -> a
                                [] msg.role = "user" /\ FALSE -> b
                                [] OTHER -> acc
        /\ Final(acc, msg) = CASE msg.role = "system" -> a
                               [] msg.role = "user" /\ TRUE -> b
                               [] OTHER -> acc
    BY Zenon DEF Midway, Final, Take
  <2> HIDE DEF a, b
  <2>2. CASE msg.role = "system"
    BY <2>1, <2>2
  <2>3. CASE msg.role # "system"
    BY <2>1, <2>3
  <2> QED
    BY <2>2, <2>3
<1>6. /\ a \in Found /\ b \in Found /\ a.system = s /\ a.latest = acc.latest
      /\ b.system = acc.system /\ b.latest = t
  BY <1>1, <1>2, <1>4, FoundFields, Zenon
<1> HIDE DEF W, t, s, a, b
<1>7. "user" # "system"
  OBVIOUS
<1> QED
  BY <1>5, <1>6, <1>7, Zenon DEF Turned, t, s

(* What the loop has found after each turn, message by message. *)
Walked(turn, m, n) ==
    /\ turn[0] = Started
    /\ \A i \in 1..(n - 1) : turn[i] = Midway(turn[i - 1], m[i])
    /\ turn[n] = Final(turn[n - 1], m[n])
    /\ \A i \in 0..n : turn[i] \in Found

LEMMA TurnsAreWalked ==
    ASSUME NEW m \in Seq(Message), NEW n \in Nat \ {0}, n = Len(m)
    PROVE  Walked(Turns(m), m, n)
<1> DEFINE S == Found
           f == Turns(m)
           b == Started
           next(i, x) == IF i = n THEN Final(x, m[i]) ELSE Midway(x, m[i])
           take(i, x) == Take(x, m[i], i = n)
           G == [i \in 1..n |-> [x \in S |-> next(i, x)]]
<1>1. b \in S
  <2> DEFINE W == Seq(Words)
  <2>1. <<>> \in W
    OBVIOUS
  <2>2. Found = [system : W, latest : W] /\ Started = [system |-> <<>>, latest |-> <<>>]
    BY Zenon DEF Found, Started
  <2> HIDE DEF W
  <2> QED
    BY <2>1, <2>2
<1>2. \A i \in 1..n : \A x \in S : next(i, x) \in S
  <2>1. \A i \in 1..n : m[i] \in Message
    OBVIOUS
  <2> QED
    BY <2>1, TakenTurn, Zenon DEF Turned
<1>3. \A i \in 0..n : \A x : take(i, x) = next(i, x)
  <2> SUFFICES ASSUME NEW i \in 0..n, NEW x
               PROVE  take(i, x) = next(i, x)
    BY Zenon
  <2>1. CASE i = n
    <3>1. (i = n) = TRUE
      BY <2>1
    <3> QED
      BY <2>1, <3>1 DEF Final
  <2>2. CASE i # n
    <3>1. (i = n) = FALSE
      BY <2>2
    <3> QED
      BY <2>2, <3>1 DEF Midway
  <2> QED
    BY <2>1, <2>2
<1>4. f = CHOOSE h : h = [i \in 0..n |-> IF i = 0 THEN b ELSE take(i, h[i - 1])]
  BY Zenon DEF Turns, Started, b
<1> HIDE DEF next, S, b, take
<1>5. G \in [1..n -> [S -> S]]
  BY <1>2
<1>6. \A i \in 1..n : \A x \in S : G[i][x] = next(i, x)
  OBVIOUS
<1> HIDE DEF G
<1>7. PICK g \in [0..n -> S] : g[0] = b /\ \A i \in 1..n : g[i] = G[i][g[i - 1]]
  <2>1. n \in Nat
    OBVIOUS
  <2>2. Recursive(n, S, b, G)
    BY <1>1, <1>5, <2>1, Recursion
  <2> QED
    BY <2>2, Zenon DEF Recursive
<1>8. \A i \in 1..n : g[i] = next(i, g[i - 1])
  <2>1. \A i \in 1..n : g[i - 1] \in S
    BY <1>7
  <2> QED
    BY <1>6, <1>7, <2>1, Zenon
<1>9. \A i \in 0..n : i = 0 \/ i \in 1..n
  OBVIOUS
<1>10. g = [i \in 0..n |-> IF i = 0 THEN b ELSE take(i, g[i - 1])]
  <2>1. g = [i \in 0..n |-> g[i]]
    BY <1>7, Zenon
  <2>2. \A i \in 0..n : g[i] = IF i = 0 THEN b ELSE take(i, g[i - 1])
    <3> SUFFICES ASSUME NEW i \in 0..n
                 PROVE  g[i] = IF i = 0 THEN b ELSE take(i, g[i - 1])
      BY Zenon
    <3>1. CASE i = 0
      BY <1>7, <3>1, Zenon
    <3>2. CASE i # 0
      <4>1. i \in 1..n
        BY <1>9, <3>2, Zenon
      <4>2. g[i] = take(i, g[i - 1])
        BY <1>3, <1>8, <4>1, Zenon
      <4> QED
        BY <3>2, <4>2, Zenon
    <3> QED
      BY <3>1, <3>2, Zenon
  <2> QED
    BY <2>1, <2>2, Zenon
<1>11. f = [i \in 0..n |-> IF i = 0 THEN b ELSE take(i, f[i - 1])]
  BY <1>10, <1>4, Zenon
<1> HIDE DEF f
<1>12. f[0] = b /\ \A i \in 1..n : f[i] = next(i, f[i - 1])
  <2>1. 0 \in 0..n /\ \A i \in 1..n : i \in 0..n /\ i # 0
    OBVIOUS
  <2> QED
    BY <1>3, <1>11, <2>1, Zenon
<1> DEFINE T == {i \in 0..n : f[i] \in S}
<1>13. 0 \in T
  BY <1>1, <1>12
<1>14. \A i \in 1..n : i - 1 \in T => i \in T
  <2> SUFFICES ASSUME NEW i \in 1..n, i - 1 \in T
               PROVE  i \in T
    OBVIOUS
  <2>1. i - 1 \in 0..n /\ i \in 0..n
    OBVIOUS
  <2>2. f[i - 1] \in S
    OBVIOUS
  <2>3. f[i] \in S
    BY <1>2, <1>12, <2>2, Zenon
  <2> QED
    BY <2>1, <2>3
<1> HIDE DEF T
<1>15. \A i \in 0..n : i \in T
  BY <1>13, <1>14, UpTo
<1>16. \A i \in 0..n : f[i] \in S
  BY <1>15, Zenon DEF T
<1>17. \A i \in 1..(n - 1) : i \in 1..n /\ i # n
  OBVIOUS
<1>18. n \in 1..n
  OBVIOUS
<1> QED
  BY <1>12, <1>16, <1>17, <1>18, Zenon DEF Walked, next, f, S, b

(* What grows by the items of a list, one by one, is in the end the list   *)
(* with its items joined.                                                  *)
Flat(p, result) == FlattenSeq(p) = result
LEMMA Flattened ==
    ASSUME NEW n \in Nat \ {0}, NEW p, Len(p) = n,
           NEW s, s[1] = p[1], \A i \in 2..n : s[i] = s[i - 1] \o p[i]
    PROVE  Flat(p, s[n])
<1> DEFINE f == CHOOSE h : h = [i \in 1..n |-> IF i = 1 THEN p[i] ELSE h[i - 1] \o p[i]]
           g == [i \in 1..n |-> s[i]]
<1>1. FlattenSeq(p) = f[n]
  <2>1. n # 0
    OBVIOUS
  <2> QED
    BY <2>1, Zenon DEF FlattenSeq
<1>2. \A i \in 1..n : i = 1 \/ (i # 1 /\ i \in 2..n /\ i - 1 \in 1..n)
  OBVIOUS
<1>3. \A i \in 1..n : s[i] = IF i = 1 THEN p[i] ELSE g[i - 1] \o p[i]
  BY <1>2, Zenon
<1>4. g = [i \in 1..n |-> IF i = 1 THEN p[i] ELSE g[i - 1] \o p[i]]
  BY <1>3, Zenon
<1> HIDE DEF g
<1>5. f = [i \in 1..n |-> IF i = 1 THEN p[i] ELSE f[i - 1] \o p[i]]
  BY <1>4, Zenon
<1> HIDE DEF f
<1>6. \A i \in 1..n : f[i] = IF i = 1 THEN p[i] ELSE f[i - 1] \o p[i]
  BY <1>5, Zenon
<1> DEFINE T == {i \in 0..n : i = 0 \/ f[i] = s[i]}
<1>7. 0 \in T
  OBVIOUS
<1>8. ASSUME NEW i \in 1..n, i - 1 \in T
      PROVE  i \in T
  <2>1. i \in 0..n
    OBVIOUS
  <2>2. CASE i = 1
    BY <1>6, <2>1, <2>2, Zenon
  <2>3. CASE i # 1
    <3>1. i \in 2..n /\ i - 1 # 0
      BY <1>2, <2>3
    <3>2. f[i - 1] = s[i - 1]
      BY <1>8, <3>1, Zenon
    <3>3. f[i] = f[i - 1] \o p[i] /\ s[i] = s[i - 1] \o p[i]
      BY <1>6, <2>3, <3>1, Zenon
    <3> QED
      BY <2>1, <3>2, <3>3, Zenon
  <2> QED
    BY <2>2, <2>3
<1> HIDE DEF T
<1>9. \A i \in 1..n : i - 1 \in T => i \in T
  BY <1>8, Zenon
<1>10. \A i \in 0..n : i \in T
  BY <1>7, <1>9, UpTo
<1>11. n \in 0..n /\ n # 0
  OBVIOUS
<1> QED
  BY <1>1, <1>10, <1>11, Zenon DEF T, Flat

(* What a message adds to the system text that was found.                  *)
Grows(msg, before, after) ==
    LET t == Text(msg.content)
    IN  /\ before \in Seq(Words) /\ after \in Seq(Words)
        /\ t \in Seq(Words)
        /\ SaysSystem(msg) => t # <<>> /\ after = AddSystem(before, t)
        /\ ~SaysSystem(msg) => after = before

LEMMA Grown ==
    ASSUME NEW m \in Seq(Message), NEW n \in Nat \ {0}, n = Len(m),
           NEW f, Walked(f, m, n), NEW i \in 1..n
    PROVE  Grows(m[i], f[i - 1].system, f[i].system)
<1> DEFINE W == Seq(Words)
           t == Text(m[i].content)
           x == f[i - 1]
           y == f[i]
<1>1. m[i] \in Message
  OBVIOUS
<1>2. i - 1 \in 0..n /\ i \in 0..n /\ (i = n \/ i \in 1..(n - 1))
  OBVIOUS
<1>3. x \in Found /\ y \in Found
  BY <1>2, Zenon DEF Walked
<1>4. y = Midway(x, m[i]) \/ y = Final(x, m[i])
  BY <1>2, Zenon DEF Walked
<1>5. Turned(x, m[i], y)
  BY <1>1, <1>3, <1>4, TakenTurn, Zenon
<1>6. t \in W
  BY <1>1, MessageFields, TextIsWords, Zenon
<1>7. x.system \in W /\ y.system \in W
  <2>1. Found = [system : W, latest : W]
    BY Zenon DEF Found
  <2> QED
    BY <1>3, <1>6, <2>1, FoundFields, Zenon
<1>8. t = <<>> => AddSystem(x.system, t) = x.system
  <2>1. Break \in Words
    BY Zenon DEF Words
  <2>2. Added(x.system, t, AddSystem(x.system, t))
    BY <1>6, <1>7, <2>1, AddedSystem, Zenon
  <2> QED
    BY <2>2, Zenon DEF Added
<1>9. SaysSystem(m[i]) <=> m[i].role = "system" /\ t # <<>>
  BY Zenon DEF SaysSystem
<1> HIDE DEF t, x, y, W
<1>10. m[i].role = "system" => y.system = AddSystem(x.system, t)
  BY <1>5, Zenon DEF Turned, t
<1>11. m[i].role # "system" => y.system = x.system
  BY <1>5, Zenon DEF Turned
<1>12. /\ SaysSystem(m[i]) => t # <<>> /\ y.system = AddSystem(x.system, t)
       /\ ~SaysSystem(m[i]) => y.system = x.system
  BY <1>8, <1>9, <1>10, <1>11, Zenon
<1> QED
  BY <1>6, <1>7, <1>12, Zenon DEF Grows, t, x, y, W

(* The system prompt is all system texts that are not empty, in their      *)
(* order, with a break between two.                                        *)
LEMMA SystemTexts ==
    ASSUME NEW m \in Seq(Message), NEW n \in Nat \ {0}, n = Len(m)
    PROVE  Prompt(m).system = FlattenSeq([i \in 1..n |-> SystemText(m, i)])
<1> DEFINE f == Turns(m)
           s == [i \in 0..n |-> f[i].system]
           t(i) == Text(m[i].content)
           says(i) == SaysSystem(m[i])
           earlier(i) == \E j \in 1..i : says(j)
           p == [i \in 1..n |-> SystemText(m, i)]
           W == Seq(Words)
<1>1. Walked(f, m, n)
  BY TurnsAreWalked, Zenon
<1>2. \A i \in 1..n : /\ f[i - 1].system \in W /\ f[i].system \in W /\ t(i) \in W
                      /\ says(i) => /\ t(i) # <<>>
                                    /\ f[i].system = AddSystem(f[i - 1].system, t(i))
                      /\ ~says(i) => f[i].system = f[i - 1].system
  <2>1. ASSUME NEW i \in 1..n
        PROVE  Grows(m[i], f[i - 1].system, f[i].system)
    BY <1>1, Grown, Zenon
  <2> QED
    BY <2>1, Zenon DEF Grows
<1>3. \A i \in 1..n : i \in 0..n /\ i - 1 \in 0..n
  OBVIOUS
<1>4. \A i \in 0..n : s[i] = f[i].system
  OBVIOUS
<1> HIDE DEF s
<1>5. \A i \in 1..n : /\ s[i - 1] \in W /\ s[i] \in W /\ t(i) \in W
                      /\ says(i) => t(i) # <<>> /\ s[i] = AddSystem(s[i - 1], t(i))
                      /\ ~says(i) => s[i] = s[i - 1]
  BY <1>2, <1>3, <1>4, Zenon
<1>6. s[0] = <<>>
  <2>1. f[0] = Started /\ 0 \in 0..n
    BY <1>1 DEF Walked
  <2>2. Started.system = <<>>
    BY DEF Started
  <2> QED
    BY <1>4, <2>1, <2>2, Zenon
<1>7. \A i \in 1..n : SystemText(m, i) = IF ~says(i) THEN <<>>
                                         ELSE IF earlier(i - 1) THEN <<Break>> \o t(i)
                                         ELSE t(i)
  BY Zenon DEF SystemText
<1>8. Prompt(m).system = s[n]
  <2>1. n \in 0..n
    OBVIOUS
  <2> QED
    BY <1>4, <2>1, Zenon DEF Prompt
<1>9. Break \in Words
  BY Zenon DEF Words
<1> HIDE DEF f, t, says, W
<1>10. \A i \in 1..n : says(i) =>
          IF s[i - 1] = <<>> THEN s[i] = t(i) /\ s[i] # <<>>
          ELSE s[i] = s[i - 1] \o (<<Break>> \o t(i)) /\ s[i] # <<>>
  <2> SUFFICES ASSUME NEW i \in 1..n, says(i)
               PROVE  IF s[i - 1] = <<>> THEN s[i] = t(i) /\ s[i] # <<>>
                      ELSE s[i] = s[i - 1] \o (<<Break>> \o t(i)) /\ s[i] # <<>>
    BY Zenon
  <2> DEFINE x == s[i - 1]
  <2>1. /\ x \in Seq(Words) /\ t(i) \in Seq(Words) /\ t(i) # <<>>
        /\ s[i] = AddSystem(x, t(i))
    BY <1>5, Zenon DEF W
  <2> HIDE DEF x
  <2>2. /\ x = <<>> => AddSystem(x, t(i)) = t(i)
        /\ x # <<>> => /\ AddSystem(x, t(i)) = x \o (<<Break>> \o t(i))
                       /\ AddSystem(x, t(i)) # <<>>
    <3>1. Added(x, t(i), AddSystem(x, t(i)))
      BY <1>9, <2>1, AddedSystem, Zenon
    <3> QED
      BY <2>1, <3>1, Zenon DEF Added
  <2> QED
    BY <2>1, <2>2, Zenon DEF x
<1> DEFINE T == {i \in 0..n : s[i] # <<>> <=> earlier(i)}
<1>11. 0 \in T
  BY <1>6
<1>12. \A i \in 1..n : earlier(i) <=> says(i) \/ earlier(i - 1)
  <2>1. \A i \in 1..n : i \in 1..i /\ \A j \in 1..i : j = i \/ j \in 1..(i - 1)
    OBVIOUS
  <2>2. \A i \in 1..n : \A j \in 1..(i - 1) : j \in 1..i
    OBVIOUS
  <2> QED
    BY <2>1, <2>2, Zenon
<1> HIDE DEF earlier
<1>13. \A i \in 1..n : i - 1 \in T => i \in T
  BY <1>3, <1>5, <1>10, <1>12, Zenon
<1> HIDE DEF T
<1>14. \A i \in 0..n : i \in T
  BY <1>11, <1>13, UpTo
<1>15. \A i \in 0..n : s[i] # <<>> <=> earlier(i)
  BY <1>14, Zenon DEF T
<1>16. \A i \in 1..n : s[i] = s[i - 1] \o p[i]
  <2>1. \A i \in 1..n : /\ p[i] = SystemText(m, i)
                        /\ s[i - 1] \o <<>> = s[i - 1] /\ <<>> \o t(i) = t(i)
    BY <1>5 DEF W
  <2> HIDE DEF p
  <2> SUFFICES ASSUME NEW i \in 1..n
               PROVE  s[i] = s[i - 1] \o p[i]
    BY Zenon
  <2>2. CASE ~says(i)
    BY <1>5, <1>7, <2>1, <2>2, Zenon
  <2>3. CASE says(i) /\ earlier(i - 1)
    <3>1. p[i] = <<Break>> \o t(i)
      BY <1>7, <2>1, <2>3, Zenon
    <3>2. s[i - 1] # <<>>
      BY <1>3, <1>15, <2>3, Zenon
    <3> QED
      BY <1>10, <2>3, <3>1, <3>2, Zenon
  <2>4. CASE says(i) /\ ~earlier(i - 1)
    <3>1. p[i] = t(i)
      BY <1>7, <2>1, <2>4, Zenon
    <3>2. s[i - 1] = <<>>
      BY <1>3, <1>15, <2>4, Zenon
    <3> QED
      BY <1>10, <2>1, <2>4, <3>1, <3>2, Zenon
  <2> QED
    BY <2>2, <2>3, <2>4
<1>17. s[1] = p[1]
  <2>1. 1 \in 1..n /\ 1 - 1 = 0
    OBVIOUS
  <2>2. p[1] \in W
    <3>1. <<>> \in W /\ <<Break>> \o t(1) \in W
      BY <1>5, <1>9, <2>1 DEF W
    <3>2. p[1] = SystemText(m, 1)
      BY <2>1
    <3> HIDE DEF p
    <3> QED
      <4>1. t(1) \in W
        BY <1>5, <2>1, Zenon
      <4>2. p[1] = <<>> \/ p[1] = <<Break>> \o t(1) \/ p[1] = t(1)
        BY <1>7, <2>1, <3>2, Zenon
      <4> QED
        BY <3>1, <4>1, <4>2, Zenon
  <2> HIDE DEF p
  <2>3. <<>> \o p[1] = p[1]
    BY <2>2 DEF W
  <2> QED
    BY <1>6, <1>16, <2>1, <2>3
<1>18. Len(p) = n
  OBVIOUS
<1> HIDE DEF p
<1>19. \A i \in 2..n : s[i] = s[i - 1] \o p[i]
  <2>1. \A i \in 2..n : i \in 1..n
    OBVIOUS
  <2> QED
    BY <1>16, <2>1, Zenon
<1>20. Flat(p, s[n])
  BY <1>17, <1>18, <1>19, Flattened, Zenon
<1> QED
  BY <1>8, <1>20, Zenon DEF p, Flat

(* The groups of the checks of the messages. *)
RoleCheck(m) == Check("messages", m[Len(m)].role # "user", "invalid_request_error")
TurnChecks(m) == [i \in DOMAIN m |->
                     Check("messages", BadMessage(m[i], i = Len(m)), "unsupported_parameter")]
LatestCheck(m) == Check("messages", Prompt(m).latest = <<>>, "invalid_request_error")

LEMMA TurnRefusals ==
    ASSUME NEW m \in Seq(Message)
    PROVE  Refusals(TurnChecks(m))
<1> DEFINE last == Len(m)
           turns == TurnChecks(m)
<1>1. DOMAIN m = 1..last /\ last \in Nat
  OBVIOUS
<1>2. /\ turns = [i \in 1..last |-> turns[i]]
      /\ \A i \in 1..last : turns[i].status = 400
  BY <1>1, Zenon DEF TurnChecks, Check, StatusCheck
<1> HIDE DEF turns, last
<1>3. Refusals(turns)
  BY <1>1, <1>2, RefusalsOf
<1> QED
  BY <1>3, Zenon DEF turns

LEMMA MessageGroups ==
    ASSUME NEW q, NEW m \in Seq(Message), q.messages = m, m # <<>>
    PROVE  /\ MessageChecks(q) = <<RoleCheck(m)>> \o TurnChecks(m) \o <<LatestCheck(m)>>
           /\ Listed(<<RoleCheck(m)>>) /\ Listed(TurnChecks(m)) /\ Listed(<<LatestCheck(m)>>)
           /\ Listed(<<RoleCheck(m)>> \o TurnChecks(m))
<1>1. MessageChecks(q) = <<RoleCheck(m)>> \o TurnChecks(m) \o <<LatestCheck(m)>>
  BY Zenon DEF MessageChecks, RoleCheck, TurnChecks, LatestCheck
<1>2. RoleCheck(m).status = 400 /\ LatestCheck(m).status = 400
  BY Zenon DEF RoleCheck, LatestCheck, Check, StatusCheck
<1>3. Refusals(<<RoleCheck(m)>>) /\ Refusals(<<LatestCheck(m)>>)
  <2> DEFINE a == RoleCheck(m)
             b == LatestCheck(m)
  <2>1. a.status = 400 /\ b.status = 400
    BY <1>2, Zenon
  <2> HIDE DEF a, b
  <2>2. Refusals(<<a>>) /\ Refusals(<<b>>)
    BY <2>1, OneRefusal, Zenon
  <2> QED
    BY <2>2, Zenon DEF a, b
<1>4. Refusals(TurnChecks(m))
  BY TurnRefusals, Zenon
<1>5. Refusals(<<RoleCheck(m)>> \o TurnChecks(m))
  BY <1>3, <1>4, RefusalsBoth, Zenon
<1> QED
  BY <1>1, <1>3, <1>4, <1>5, Zenon DEF Refusals

(* A request whose checks all pass ends in a message of the user. *)
LEMMA AcceptedMessages ==
    ASSUME NEW q, q.auth \in Seq(STRING), NEW m \in Seq(Message), q.messages = m,
           Passed(Checks(q))
    PROVE  m # <<>> /\ m[Len(m)].role = "user"
<1>1. Passed(RequiredChecks(q)) /\ Passed(MessageChecks(q))
  BY PassedByGroup, Zenon DEF Groups
<1>2. m # <<>>
  <2> DEFINE a == Check("model", q.model = "", "missing_required_parameter")
             b == Check("messages", q.messages = <<>>, "missing_required_parameter")
  <2>1. RequiredChecks(q) = <<a, b>>
    BY Zenon DEF RequiredChecks
  <2>2. b.bad = (m = <<>>)
    BY Zenon DEF Check, StatusCheck
  <2> HIDE DEF a, b
  <2>3. Len(<<a, b>>) = 2 /\ <<a, b>>[2] = b /\ 2 \in 1..2
    OBVIOUS
  <2>4. ~b.bad
    BY <1>1, <2>1, <2>3, Zenon DEF Passed
  <2> QED
    BY <2>2, <2>4
<1>3. Passed(<<RoleCheck(m)>>)
  <2> DEFINE r == <<RoleCheck(m)>>
             t == TurnChecks(m)
             l == <<LatestCheck(m)>>
  <2>1. /\ MessageChecks(q) = r \o t \o l
        /\ Listed(r) /\ Listed(t) /\ Listed(l) /\ Listed(r \o t)
    BY <1>2, MessageGroups, Zenon
  <2> HIDE DEF r, t, l
  <2>2. Passed(r \o t)
    <3>1. Passed(r \o t \o l) <=> Passed(r \o t) /\ Passed(l)
      BY <2>1, PassedBoth, Zenon
    <3> QED
      BY <1>1, <2>1, <3>1, Zenon
  <2>3. Passed(r)
    BY <2>1, <2>2, PassedBoth, Zenon
  <2> QED
    BY <2>3, Zenon DEF r
<1>4. ~RoleCheck(m).bad
  <2> DEFINE r == RoleCheck(m)
  <2> HIDE DEF r
  <2>1. Len(<<r>>) = 1 /\ <<r>>[1] = r /\ 1 \in 1..1
    OBVIOUS
  <2> QED
    BY <1>3, <2>1, Zenon DEF Passed, r
<1>5. RoleCheck(m).bad = (m[Len(m)].role # "user")
  BY Zenon DEF RoleCheck, Check, StatusCheck
<1> QED
  BY <1>2, <1>4, <1>5

(* OpenCode keeps the history of a session, so a request must not send it  *)
(* again: whatever a request holds, the prompt is the text of its final    *)
(* message alone and the system prompt is all of its system texts that are *)
(* not empty, in their order, with a break between two.                    *)
THEOREM PromptAlwaysLastTurn == Spec => []PromptIsLastTurn
<1>1. Replied => PromptIsLastTurn
  <2> SUFFICES ASSUME Replied, Returned("FrontDoor"), reply.status = 0
               PROVE  /\ reply.latest = Text(Last(arg.messages).content)
                      /\ reply.system = FlattenSeq([i \in DOMAIN arg.messages |->
                                                       SystemText(arg.messages, i)])
    BY Zenon DEF PromptIsLastTurn
  <2> DEFINE m == arg.messages
             n == Len(m)
  <2>1. arg \in Requests /\ reply = FrontDoor(arg)
    BY Zenon DEF Replied, Returned
  <2>2. PICK names : arg \in ChatRequest(names)
    BY <2>1, ArgumentsAssumption DEF ArgumentsAssumption
  <2>3. arg.auth \in Seq(STRING) /\ m \in Seq(Message)
    BY <2>2 DEF ChatRequest
  <2>4. Passed(Checks(arg)) /\ reply = Accepted(arg)
    <3>1. Answered(arg, reply)
      BY <2>1, <2>3, AnswerToRequest, Zenon
    <3> QED
      BY <3>1, Zenon DEF Answered
  <2>5. m # <<>> /\ m[Len(m)].role = "user"
    BY <2>3, <2>4, AcceptedMessages, Zenon
  <2>6. reply.latest = Prompt(m).latest /\ reply.system = Prompt(m).system
    <3> DEFINE a == Accepted(arg)
    <3>1. a.latest = Prompt(m).latest
      BY Zenon DEF Accepted
    <3>2. a.system = Prompt(m).system
      BY Zenon DEF Accepted
    <3> QED
      BY <2>4, <3>1, <3>2, Zenon
  <2>7. n \in Nat \ {0} /\ DOMAIN m = 1..n
    <3> HIDE DEF m
    <3> QED
      BY <2>3, <2>5
  <2>8. Prompt(m).system = FlattenSeq([i \in 1..n |-> SystemText(m, i)])
    BY <2>3, <2>7, SystemTexts, Zenon
  <2>9. Prompt(m).latest = Text(m[n].content)
    <3> HIDE DEF m
    <3>1. Walked(Turns(m), m, n)
      BY <2>3, <2>7, TurnsAreWalked, Zenon
    <3> HIDE DEF n
    <3>2. n - 1 \in 0..n
      BY <2>7
    <3>3. /\ Turns(m)[n] = Final(Turns(m)[n - 1], m[n])
          /\ Turns(m)[n - 1] \in Found
      BY <3>1, <3>2, Zenon DEF Walked
    <3>4. m[n] \in Message
      BY <2>3, <2>7
    <3>5. m[n].role = "user" /\ Prompt(m) = Turns(m)[n]
      BY <2>5, Zenon DEF Prompt, n
    <3>6. Final(Turns(m)[n - 1], m[n]).latest = Text(m[n].content)
      BY <3>3, <3>4, <3>5, TakenTurn, Zenon
    <3> QED
      BY <3>3, <3>5, <3>6, Zenon
  <2> QED
    BY <2>6, <2>7, <2>8, <2>9, Zenon DEF Last
<1> QED
  BY <1>1, RepliedInvariance, PTL

-----------------------------------------------------------------------------
(* The first check of a list that fails, and lists that say the same: all  *)
(* of both pass, or what fails first is the same check.                    *)
FailsFirst(s, i, check) ==
    /\ i \in 1..Len(s) /\ s[i] = check /\ check.bad
    /\ \A k \in 1..(i - 1) : ~s[k].bad
Fails(s, check) == \E i \in 1..Len(s) : FailsFirst(s, i, check)
Alike(s, t) == \/ Passed(s) /\ Passed(t)
               \/ \E check : Fails(s, check) /\ Fails(t, check)

LEMMA PassedOrFails ==
    ASSUME NEW s, Listed(s)
    PROVE  Passed(s) \/ \E check : Fails(s, check)
<1> DEFINE first == SelectInSeq(s, LAMBDA c : c.bad)
<1>1. Len(s) \in Nat
  BY DEF Listed
<1>2. \/ first = 0 /\ \A i \in 1..Len(s) : ~s[i].bad
      \/ /\ first \in 1..Len(s) /\ s[first].bad
         /\ \A i \in 1..(first - 1) : ~s[i].bad
  BY <1>1, FirstThatFails, Zenon
<1> HIDE DEF first
<1>3. CASE first \in 1..Len(s) /\ s[first].bad /\ \A i \in 1..(first - 1) : ~s[i].bad
  BY <1>3, Zenon DEF Fails, FailsFirst
<1> QED
  BY <1>2, <1>3, Zenon DEF Passed

LEMMA AlikeItself ==
    ASSUME NEW s, Listed(s)
    PROVE  Alike(s, s)
  BY PassedOrFails, Zenon DEF Alike

LEMMA FailsInFirst ==
    ASSUME NEW s, NEW t, Listed(s), Listed(t), NEW check, Fails(s, check)
    PROVE  Fails(s \o t, check)
<1> DEFINE c == s \o t
<1>1. Together(s, t, c)
  BY Joined, Zenon
<1> HIDE DEF c
<1>2. PICK i \in 1..Len(s) : FailsFirst(s, i, check)
  BY Zenon DEF Fails
<1>3. Len(s) \in Nat /\ i \in 1..Len(c) /\ \A k \in 1..Len(s) : c[k] = s[k]
  BY <1>1, <1>2, Zenon DEF Together
<1>4. \A k \in 1..(i - 1) : k \in 1..Len(s)
  BY <1>3
<1>5. FailsFirst(c, i, check)
  BY <1>2, <1>3, <1>4, Zenon DEF FailsFirst
<1> QED
  BY <1>3, <1>5, Zenon DEF Fails, c

LEMMA FailsInSecond ==
    ASSUME NEW s, NEW t, Listed(s), Listed(t), Passed(s), NEW check, Fails(t, check)
    PROVE  Fails(s \o t, check)
<1> DEFINE c == s \o t
<1>1. Together(s, t, c)
  BY Joined, Zenon
<1> HIDE DEF c
<1>2. PICK j \in 1..Len(t) : FailsFirst(t, j, check)
  BY Zenon DEF Fails
<1> DEFINE i == Len(s) + j
<1>3. /\ Len(s) \in Nat /\ Len(t) \in Nat /\ i \in 1..Len(c) /\ c[i] = t[j]
      /\ \A k \in 1..Len(s) : c[k] = s[k]
      /\ \A k \in 1..Len(t) : c[Len(s) + k] = t[k]
  BY <1>1, <1>2, Zenon DEF Together
<1>4. \A k \in 1..(i - 1) : \/ k \in 1..Len(s)
                            \/ /\ k - Len(s) \in 1..(j - 1) /\ k - Len(s) \in 1..Len(t)
                               /\ k = Len(s) + (k - Len(s))
  BY <1>3
<1>5. \A k \in 1..(i - 1) : ~c[k].bad
  <2> SUFFICES ASSUME NEW k \in 1..(i - 1)
               PROVE  ~c[k].bad
    BY Zenon
  <2>1. CASE k \in 1..Len(s)
    BY <1>3, <2>1, Zenon DEF Passed
  <2>2. CASE k \notin 1..Len(s)
    <3>1. c[k] = t[k - Len(s)]
      BY <1>3, <1>4, <2>2, Zenon
    <3>2. ~t[k - Len(s)].bad
      BY <1>2, <1>4, <2>2, Zenon DEF FailsFirst
    <3> QED
      BY <3>1, <3>2
  <2> QED
    BY <2>1, <2>2
<1> HIDE DEF i
<1>6. FailsFirst(c, i, check)
  BY <1>2, <1>3, <1>5, Zenon DEF FailsFirst
<1> QED
  BY <1>3, <1>6, Zenon DEF Fails, c

LEMMA AlikeBoth ==
    ASSUME NEW s, NEW t, NEW u, NEW v, Listed(s), Listed(t), Listed(u), Listed(v),
           Alike(s, u), Alike(t, v)
    PROVE  Alike(s \o t, u \o v)
<1>1. CASE Passed(s) /\ Passed(u) /\ Passed(t) /\ Passed(v)
  BY <1>1, PassedBoth, Zenon DEF Alike
<1>2. CASE \E check : Fails(s, check) /\ Fails(u, check)
  BY <1>2, FailsInFirst, Zenon DEF Alike
<1>3. CASE Passed(s) /\ Passed(u) /\ \E check : Fails(t, check) /\ Fails(v, check)
  BY <1>3, FailsInSecond, Zenon DEF Alike
<1> QED
  BY <1>1, <1>2, <1>3, Zenon DEF Alike

(* Requests whose checks say the same, and that are accepted the same, get *)
(* the same answer.                                                        *)
LEMMA FirstIsSelected ==
    ASSUME NEW s, Listed(s), NEW check, Fails(s, check)
    PROVE  LET first == SelectInSeq(s, LAMBDA c : c.bad)
           IN  first # 0 /\ s[first] = check
<1> DEFINE first == SelectInSeq(s, LAMBDA c : c.bad)
<1>1. Len(s) \in Nat
  BY DEF Listed
<1>2. \/ first = 0 /\ \A i \in 1..Len(s) : ~s[i].bad
      \/ /\ first \in 1..Len(s) /\ s[first].bad
         /\ \A i \in 1..(first - 1) : ~s[i].bad
  BY <1>1, FirstThatFails, Zenon
<1> HIDE DEF first
<1>3. PICK i \in 1..Len(s) : FailsFirst(s, i, check)
  BY Zenon DEF Fails
<1>4. s[i] = check /\ s[i].bad /\ \A k \in 1..(i - 1) : ~s[k].bad
  BY <1>3 DEF FailsFirst
<1>5. first # 0 /\ first = i
  BY <1>1, <1>2, <1>4
<1> QED
  BY <1>4, <1>5, Zenon DEF first

LEMMA AnswerOfChecks ==
    ASSUME NEW p, Listed(Checks(p))
    PROVE  /\ \A check : Fails(Checks(p), check) => FrontDoor(p) = check
           /\ Passed(Checks(p)) => FrontDoor(p) = Accepted(p)
<1>1. ASSUME NEW check, Fails(Checks(p), check)
      PROVE  FrontDoor(p) = check
  BY <1>1, FirstIsSelected, Zenon DEF FrontDoor
<1>2. ASSUME Passed(Checks(p))
      PROVE  FrontDoor(p) = Accepted(p)
  <2> DEFINE c == Checks(p)
             first == SelectInSeq(c, LAMBDA x : x.bad)
  <2>1. Len(c) \in Nat
    BY DEF Listed
  <2>2. \/ first = 0 /\ \A i \in 1..Len(c) : ~c[i].bad
        \/ /\ first \in 1..Len(c) /\ c[first].bad
           /\ \A i \in 1..(first - 1) : ~c[i].bad
    BY <2>1, FirstThatFails, Zenon
  <2>3. first = 0
    BY <1>2, <2>2, Zenon DEF Passed
  <2> QED
    BY <2>3, Zenon DEF FrontDoor
<1> QED
  BY <1>1, <1>2, Zenon

LEMMA SameAnswer ==
    ASSUME NEW q, NEW r, Listed(Checks(q)), Listed(Checks(r)),
           Alike(Checks(q), Checks(r)), Accepted(q) = Accepted(r)
    PROVE  FrontDoor(q) = FrontDoor(r)
  BY AnswerOfChecks, Zenon DEF Alike

-----------------------------------------------------------------------------
(* Messages without one before the last. *)
Without(m, n, i, r) ==
    /\ Len(r) = n - 1
    /\ \A j \in 1..(i - 1) : r[j] = m[j]
    /\ \A j \in i..(n - 1) : r[j] = m[j + 1]

LEMMA Removed ==
    ASSUME NEW S, NEW m \in Seq(S), NEW n \in Nat, n = Len(m), NEW i \in 1..(n - 1)
    PROVE  RemoveAt(m, i) \in Seq(S) /\ Without(m, n, i, RemoveAt(m, i))
<1> DEFINE a == SubSeq(m, 1, i - 1)
           b == SubSeq(m, i + 1, n)
<1>1. /\ a \in Seq(S) /\ Len(a) = i - 1 /\ \A j \in 1..(i - 1) : a[j] = m[j]
  OBVIOUS
<1>2. /\ b \in Seq(S) /\ Len(b) = n - i /\ \A j \in 1..(n - i) : b[j] = m[i + j]
  OBVIOUS
<1>3. RemoveAt(m, i) = a \o b
  BY Zenon DEF RemoveAt
<1> HIDE DEF a, b
<1> DEFINE r == a \o b
<1>4. /\ r \in Seq(S) /\ Len(r) = n - 1
      /\ \A j \in 1..(i - 1) : r[j] = a[j]
      /\ \A j \in 1..(n - i) : r[(i - 1) + j] = b[j]
  <2>1. /\ r \in Seq(S) /\ Len(r) = Len(a) + Len(b)
        /\ \A j \in 1..Len(a) : r[j] = a[j]
        /\ \A j \in 1..Len(b) : r[Len(a) + j] = b[j]
    <3>1. a \in Seq(S) /\ b \in Seq(S)
      BY <1>1, <1>2
    <3> QED
      BY <3>1
  <2> HIDE DEF r
  <2> QED
    BY <1>1, <1>2, <2>1
<1> HIDE DEF r
<1>5. \A j \in i..(n - 1) : r[j] = m[j + 1]
  <2> SUFFICES ASSUME NEW j \in i..(n - 1)
               PROVE  r[j] = m[j + 1]
    OBVIOUS
  <2> DEFINE l == j - (i - 1)
  <2>1. l \in 1..(n - i) /\ i + l = j + 1 /\ (i - 1) + l = j
    OBVIOUS
  <2> HIDE DEF l
  <2>2. r[(i - 1) + l] = b[l] /\ b[l] = m[i + l]
    BY <1>2, <1>4, <2>1, Zenon
  <2> QED
    BY <2>1, <2>2, Zenon
<1>6. Without(m, n, i, r)
  BY <1>1, <1>4, <1>5 DEF Without
<1> QED
  BY <1>3, <1>4, <1>6, Zenon DEF r

(* The loop finds the same without a message that is not of the system. *)
LEMMA SamePrompt ==
    ASSUME NEW m \in Seq(Message), NEW n \in Nat, n = Len(m), NEW i \in 1..(n - 1),
           m[i].role # "system", NEW r \in Seq(Message), Without(m, n, i, r)
    PROVE  Prompt(r) = Prompt(m)
<1> DEFINE f == Turns(m)
           g == Turns(r)
           k == n - 1
<1>1. n \in Nat \ {0} /\ k \in Nat \ {0} /\ Len(r) = k
  BY DEF Without
<1>2. Walked(f, m, n) /\ Walked(g, r, k)
  BY <1>1, TurnsAreWalked, Zenon
<1>3. Prompt(m) = f[n] /\ Prompt(r) = g[k]
  BY <1>1, Zenon DEF Prompt
<1> HIDE DEF f, g
<1>4. /\ f[0] = Started /\ g[0] = Started
      /\ \A j \in 1..(n - 1) : f[j] = Midway(f[j - 1], m[j])
      /\ f[n] = Final(f[n - 1], m[n])
      /\ \A j \in 1..(k - 1) : g[j] = Midway(g[j - 1], r[j])
      /\ g[k] = Final(g[k - 1], r[k])
      /\ \A j \in 0..n : f[j] \in Found
  BY <1>2, Zenon DEF Walked
<1>5. f[i] = f[i - 1]
  <2>1. i - 1 \in 0..n /\ m[i] \in Message /\ f[i] = Midway(f[i - 1], m[i])
    BY <1>4
  <2> QED
    BY <1>4, <2>1, TakenTurn, Zenon
<1> DEFINE at(j) == IF j < i THEN f[j] ELSE f[j + 1]
<1>6. \A j \in 1..k : /\ j < i => /\ j \in 1..(n - 1) /\ j \in 1..(k - 1) /\ r[j] = m[j]
                                  /\ at(j) = f[j] /\ at(j - 1) = f[j - 1]
                      /\ ~(j < i) => /\ r[j] = m[j + 1] /\ (j + 1) - 1 = j
                                     /\ at(j) = f[j + 1] /\ at(j - 1) = f[j]
  <2> SUFFICES ASSUME NEW j \in 1..k
               PROVE  /\ j < i => /\ j \in 1..(n - 1) /\ j \in 1..(k - 1) /\ r[j] = m[j]
                                  /\ at(j) = f[j] /\ at(j - 1) = f[j - 1]
                      /\ ~(j < i) => /\ r[j] = m[j + 1] /\ (j + 1) - 1 = j
                                     /\ at(j) = f[j + 1] /\ at(j - 1) = f[j]
    BY Zenon
  <2>1. CASE j < i
    BY <2>1 DEF Without
  <2>2. CASE j = i
    BY <1>5, <2>2 DEF Without
  <2>3. CASE j > i
    <3>1. j \in i..(n - 1) /\ (j + 1) - 1 = j /\ (j - 1) + 1 = j /\ ~(j < i) /\ ~(j - 1 < i)
      BY <2>3
    <3>2. r[j] = m[j + 1]
      BY <3>1, Zenon DEF Without
    <3> QED
      BY <3>1, <3>2, Zenon
  <2> QED
    BY <2>1, <2>2, <2>3
<1>7. \A j \in 1..k : ~(j < i) => IF j = k THEN j + 1 = n /\ at(j) = Final(at(j - 1), r[j])
                                  ELSE /\ j + 1 \in 1..(n - 1) /\ j \in 1..(k - 1)
                                       /\ at(j) = Midway(at(j - 1), r[j])
  <2> SUFFICES ASSUME NEW j \in 1..k, ~(j < i)
               PROVE  IF j = k THEN j + 1 = n /\ at(j) = Final(at(j - 1), r[j])
                      ELSE /\ j + 1 \in 1..(n - 1) /\ j \in 1..(k - 1)
                           /\ at(j) = Midway(at(j - 1), r[j])
    BY Zenon
  <2>1. r[j] = m[j + 1] /\ (j + 1) - 1 = j /\ at(j) = f[j + 1] /\ at(j - 1) = f[j]
    BY <1>6, Zenon
  <2>2. CASE j = k
    <3>1. j + 1 = n /\ n - 1 = j
      BY <2>2
    <3>2. f[j + 1] = Final(f[j], m[j + 1])
      BY <1>4, <3>1, Zenon
    <3> HIDE DEF at, k
    <3> QED
      BY <2>1, <2>2, <3>1, <3>2, Zenon
  <2>3. CASE j # k
    <3>1. j + 1 \in 1..(n - 1) /\ j \in 1..(k - 1)
      BY <2>3
    <3>2. f[j + 1] = Midway(f[(j + 1) - 1], m[j + 1])
      BY <1>4, <3>1, Zenon
    <3> HIDE DEF at, k
    <3> QED
      BY <2>1, <2>3, <3>1, <3>2, Zenon
  <2> QED
    BY <2>2, <2>3, Zenon
<1> DEFINE T == {j \in 0..k : g[j] = at(j)}
<1>8. 0 \in T
  BY <1>4
<1>9. ASSUME NEW j \in 1..k, j - 1 \in T
      PROVE  j \in T
  <2>1. j \in 0..k /\ g[j - 1] = at(j - 1)
    BY <1>9
  <2> HIDE DEF at, k
  <2>2. CASE j < i
    <3>1. /\ j \in 1..(n - 1) /\ j \in 1..(k - 1) /\ r[j] = m[j]
          /\ at(j) = f[j] /\ at(j - 1) = f[j - 1]
      BY <1>6, <2>2, Zenon
    <3>2. f[j] = Midway(f[j - 1], m[j]) /\ g[j] = Midway(g[j - 1], r[j])
      BY <1>4, <3>1, Zenon
    <3>3. g[j] = at(j)
      BY <2>1, <3>1, <3>2, Zenon
    <3> QED
      BY <2>1, <3>3, Zenon
  <2>3. CASE ~(j < i) /\ j = k
    BY <1>4, <1>7, <2>1, <2>3, Zenon
  <2>4. CASE ~(j < i) /\ j # k
    BY <1>4, <1>7, <2>1, <2>4, Zenon
  <2> QED
    BY <2>2, <2>3, <2>4
<1> HIDE DEF T
<1>10. \A j \in 1..k : j - 1 \in T => j \in T
  BY <1>9, Zenon
<1>11. k \in Nat /\ k \in 0..k
  BY <1>1
<1>12. k \in T
  <2> HIDE DEF k
  <2> QED
    BY <1>8, <1>10, <1>11, UpTo
<1>13. at(k) = f[n]
  OBVIOUS
<1> QED
  BY <1>3, <1>12, <1>13, Zenon DEF T

(* The check of a turn: of one before the last, of the last. *)
BadMidway(msg) == BadMessage(msg, FALSE)
BadFinal(msg) == BadMessage(msg, TRUE)
BadTurn == Check("messages", TRUE, "unsupported_parameter")
TurnChecked(m, n, j) ==
    /\ j = n => (TurnChecks(m)[j].bad <=> BadFinal(m[j]))
    /\ j # n => (TurnChecks(m)[j].bad <=> BadMidway(m[j]))
    /\ TurnChecks(m)[j].bad => TurnChecks(m)[j] = BadTurn

LEMMA CheckOfTurn ==
    ASSUME NEW m \in Seq(Message), NEW n \in Nat, n = Len(m), NEW j \in 1..n
    PROVE  TurnChecked(m, n, j)
<1> DEFINE bad == BadMessage(m[j], j = n)
           c == TurnChecks(m)[j]
<1>1. c = Check("messages", bad, "unsupported_parameter")
  <2>1. j \in DOMAIN m
    OBVIOUS
  <2> QED
    BY <2>1, Zenon DEF TurnChecks
<1>2. j = n => (bad <=> BadFinal(m[j]))
  BY DEF BadFinal, BadMessage
<1>3. j # n => (bad <=> BadMidway(m[j]))
  BY DEF BadMidway, BadMessage
<1> HIDE DEF bad, c
<1>4. c.bad = bad
  BY <1>1, Zenon DEF Check, StatusCheck
<1>5. bad => c = BadTurn
  BY <1>1 DEF BadTurn, Check, StatusCheck
<1> QED
  BY <1>2, <1>3, <1>4, <1>5, Zenon DEF TurnChecked, c

LEMMA SameTurns ==
    ASSUME NEW m \in Seq(Message), NEW n \in Nat, n = Len(m), NEW i \in 1..(n - 1),
           m[i].role \in {"user", "assistant"},
           NEW r \in Seq(Message), Without(m, n, i, r)
    PROVE  Alike(TurnChecks(m), TurnChecks(r))
<1> DEFINE s == TurnChecks(m)
           t == TurnChecks(r)
           k == n - 1
<1>1. k \in Nat /\ Len(r) = k
  BY DEF Without
<1>2. Len(s) = n /\ Len(t) = k
  BY <1>1 DEF TurnChecks
<1>3. ~s[i].bad
  <2>1. i \in 1..n /\ i # n
    OBVIOUS
  <2>2. TurnChecked(m, n, i)
    BY <2>1, CheckOfTurn, Zenon
  <2>3. ~BadMidway(m[i])
    BY DEF BadMidway, BadMessage
  <2> QED
    BY <2>1, <2>2, <2>3, Zenon DEF TurnChecked
<1> DEFINE from(j) == IF j < i THEN j ELSE j + 1
<1>4. ASSUME NEW j \in 1..k
      PROVE  /\ from(j) \in 1..n /\ r[j] = m[from(j)] /\ (j = k <=> from(j) = n)
  BY DEF Without
<1>5. ASSUME NEW j \in 1..k
      PROVE  /\ t[j].bad <=> s[from(j)].bad
             /\ t[j].bad => t[j] = BadTurn
  <2>1. TurnChecked(r, k, j)
    BY <1>1, CheckOfTurn, Zenon
  <2>2. TurnChecked(m, n, from(j))
    BY <1>4, CheckOfTurn, Zenon
  <2> HIDE DEF from, k
  <2>3. r[j] = m[from(j)] /\ (j = k <=> from(j) = n)
    BY <1>4, Zenon
  <2>4. CASE j = k
    BY <2>1, <2>2, <2>3, <2>4, Zenon DEF TurnChecked
  <2>5. CASE j # k
    BY <2>1, <2>2, <2>3, <2>5, Zenon DEF TurnChecked
  <2> QED
    BY <2>4, <2>5
<1>6. \A j \in 1..n : s[j].bad => s[j] = BadTurn
  BY CheckOfTurn, Zenon DEF TurnChecked
<1>7. Listed(s)
  BY TurnRefusals, Zenon DEF Refusals
<1> SUFFICES Alike(s, t)
  BY Zenon
<1> HIDE DEF s, t
<1>8. CASE Passed(s)
  <2>1. Passed(t)
    BY <1>2, <1>4, <1>5, <1>8, Zenon DEF Passed
  <2> QED
    BY <1>8, <2>1, Zenon DEF Alike
<1>9. CASE \E check : Fails(s, check)
  <2>1. PICK check : Fails(s, check)
    BY <1>9
  <2>2. PICK f \in 1..n : FailsFirst(s, f, check)
    BY <1>2, <2>1, Zenon DEF Fails
  <2>3. /\ s[f] = check /\ s[f].bad /\ f # i
        /\ \A j \in 1..(f - 1) : ~s[j].bad
    BY <1>3, <2>2, Zenon DEF FailsFirst
  <2>4. check = BadTurn
    BY <1>6, <2>3, Zenon
  <2> DEFINE g == IF f < i THEN f ELSE f - 1
  <2>5. g \in 1..k /\ from(g) = f
    BY <2>3
  <2>6. \A j \in 1..(g - 1) : j \in 1..k /\ from(j) \in 1..(f - 1)
    BY <2>3
  <2> HIDE DEF g, from, k
  <2>7. t[g].bad /\ t[g] = check
    BY <1>5, <2>3, <2>4, <2>5, Zenon
  <2>8. \A j \in 1..(g - 1) : ~t[j].bad
    BY <1>5, <2>3, <2>6, Zenon
  <2>9. check.bad
    BY <2>3
  <2>10. Fails(t, check)
    BY <1>2, <2>5, <2>7, <2>8, <2>9, Zenon DEF Fails, FailsFirst
  <2> QED
    BY <2>1, <2>10, Zenon DEF Alike
<1> QED
  BY <1>7, <1>8, <1>9, PassedOrFails, Zenon

(* A request without one message of the user or the assistant before the   *)
(* last.                                                                   *)
LEMMA WithoutMessage ==
    ASSUME NEW names, NEW q \in ChatRequest(names), NEW m, m = q.messages,
           NEW n, n = Len(m), NEW i \in 1..(n - 1),
           m[i].role \in {"user", "assistant"},
           NEW r, r = [q EXCEPT !.messages = RemoveAt(@, i)]
    PROVE  FrontDoor(q) = FrontDoor(r)
<1> DEFINE w == RemoveAt(m, i)
<1>1. /\ SameButFor(q, r) /\ r.model = q.model /\ r.usage = q.usage /\ r.messages = w
  BY DEF ChatRequest, SameButFor
<1>2. m \in Seq(Message) /\ q.auth \in Seq(STRING) /\ r.auth = q.auth /\ q.messages = m
  BY <1>1, m = q.messages DEF ChatRequest, SameButFor
<1>3. n \in Nat
  BY <1>2
<1>4. w \in Seq(Message) /\ Without(m, n, i, w)
  <2> DEFINE S == Message
  <2> HIDE DEF S
  <2>1. w \in Seq(S) /\ Without(m, n, i, w)
    BY <1>2, <1>3, Removed, Zenon DEF S
  <2> QED
    BY <2>1, Zenon DEF S
<1> HIDE DEF w
<1>5. m # <<>> /\ w # <<>> /\ w[Len(w)] = m[Len(m)]
  <2>1. Len(w) = n - 1 /\ n - 1 \in i..(n - 1) /\ (n - 1) + 1 = n /\ n # 0 /\ n - 1 # 0
    BY <1>3, <1>4 DEF Without
  <2>2. w[n - 1] = m[(n - 1) + 1]
    BY <1>4, <2>1, Zenon DEF Without
  <2>3. m # <<>> /\ w # <<>>
    BY <1>2, <1>4, <2>1
  <2> QED
    BY <2>1, <2>2, <2>3, Zenon
<1>6. Prompt(w) = Prompt(m)
  <2>1. m[i].role # "system"
    OBVIOUS
  <2> QED
    BY <1>2, <1>3, <1>4, <2>1, SamePrompt, Zenon
<1>7. Alike(MessageChecks(q), MessageChecks(r))
  <2> DEFINE a == <<RoleCheck(m)>>
             b == <<LatestCheck(m)>>
             s == TurnChecks(m)
             t == TurnChecks(w)
  <2>1. /\ MessageChecks(q) = a \o s \o b
        /\ Listed(a) /\ Listed(s) /\ Listed(b) /\ Listed(a \o s)
    BY <1>2, <1>5, MessageGroups, Zenon
  <2>2. RoleCheck(w) = RoleCheck(m) /\ LatestCheck(w) = LatestCheck(m)
    BY <1>5, <1>6 DEF RoleCheck, LatestCheck
  <2>3. /\ MessageChecks(r) = a \o t \o b
        /\ Listed(t) /\ Listed(a \o t)
    BY <1>1, <1>4, <1>5, <2>2, MessageGroups, Zenon
  <2>4. Alike(s, t)
    BY <1>2, <1>3, <1>4, SameTurns, Zenon
  <2> HIDE DEF a, b, s, t
  <2>5. Alike(a, a) /\ Alike(b, b)
    BY <2>1, AlikeItself, Zenon
  <2>6. Alike(a \o s, a \o t)
    BY <2>1, <2>3, <2>4, <2>5, AlikeBoth, Zenon
  <2>7. Alike(a \o s \o b, a \o t \o b)
    BY <2>1, <2>3, <2>5, <2>6, AlikeBoth, Zenon
  <2> QED
    BY <2>1, <2>3, <2>7, Zenon
<1>8. /\ AuthCheck(r) = AuthCheck(q) /\ HeaderChecks(r) = HeaderChecks(q)
      /\ ParameterChecks(r) = ParameterChecks(q)
  BY <1>1, SameParts, Zenon
<1>9. RequiredChecks(r) = RequiredChecks(q)
  BY <1>1, <1>2, <1>5 DEF RequiredChecks, Check, StatusCheck
<1>10. ModelCheck(r) = ModelCheck(q)
  BY <1>1 DEF ModelCheck
<1>11. Alike(Checks(q), Checks(r)) /\ Listed(Checks(q)) /\ Listed(Checks(r))
  <2> DEFINE u == AuthCheck(q)
             h == HeaderChecks(q)
             d == RequiredChecks(q)
             c == ParameterChecks(q)
             s == MessageChecks(q)
             t == MessageChecks(r)
             l == ModelCheck(q)
  <2>1. Refusals(h) /\ Refusals(d) /\ Refusals(c) /\ Refusals(s) /\ Refusals(t)
    BY <1>1, <1>2, <1>4, BodyRefusals, Zenon
  <2>2. Listed(u) /\ Listed(l)
    BY <1>2, ChecksOfRequest, Zenon
  <2>3. /\ Checks(q) = u \o (h \o d \o c \o s) \o l
        /\ Checks(r) = u \o (h \o d \o c \o t) \o l
    BY <1>8, <1>9, <1>10, Zenon DEF Checks, BodyChecks
  <2>4. Alike(s, t)
    BY <1>7, Zenon
  <2> HIDE DEF u, h, d, c, s, t, l
  <2> DEFINE e == h \o d \o c
  <2>5. Refusals(e)
    BY <2>1, RefusalsBoth, Zenon
  <2> HIDE DEF e
  <2>6. Listed(e) /\ Listed(s) /\ Listed(t)
    BY <2>1, <2>5, Zenon DEF Refusals
  <2>7. Listed(e \o s) /\ Listed(e \o t)
    BY <2>6, Joined, Zenon
  <2>8. Listed(u \o (e \o s)) /\ Listed(u \o (e \o t))
    BY <2>2, <2>7, Joined, Zenon
  <2>9. Listed(u \o (e \o s) \o l) /\ Listed(u \o (e \o t) \o l)
    BY <2>2, <2>8, Joined, Zenon
  <2>10. Alike(e, e) /\ Alike(u, u) /\ Alike(l, l)
    BY <2>2, <2>6, AlikeItself, Zenon
  <2>11. Alike(e \o s, e \o t)
    BY <2>4, <2>6, <2>10, AlikeBoth, Zenon
  <2>12. Alike(u \o (e \o s), u \o (e \o t))
    BY <2>2, <2>7, <2>10, <2>11, AlikeBoth, Zenon
  <2>13. Alike(u \o (e \o s) \o l, u \o (e \o t) \o l)
    BY <2>2, <2>8, <2>10, <2>12, AlikeBoth, Zenon
  <2> QED
    BY <2>3, <2>9, <2>13, Zenon DEF e
<1>12. Accepted(q) = Accepted(r)
  <2>1. r.stream_options = q.stream_options
    BY <1>1 DEF SameButFor
  <2> QED
    BY <1>1, <1>2, <1>6, <2>1 DEF Accepted
<1> QED
  BY <1>11, <1>12, SameAnswer, Zenon

(* Earlier turns are not looked at: whatever a request holds, the answer   *)
(* is the same without a message of the user or the assistant before the   *)
(* last one, and so without them all.                                      *)
THEOREM HistoryAlwaysIgnored == Spec => []HistoryIsIgnored
<1>1. Replied => HistoryIsIgnored
  <2> SUFFICES ASSUME Replied, Returned("FrontDoor"),
                      NEW i \in 1..(Len(arg.messages) - 1),
                      arg.messages[i].role \in {"user", "assistant"}
               PROVE  reply = FrontDoor([arg EXCEPT !.messages = RemoveAt(@, i)])
    BY Zenon DEF HistoryIsIgnored
  <2>1. arg \in Requests /\ reply = FrontDoor(arg)
    BY Zenon DEF Replied, Returned
  <2>2. PICK names : arg \in ChatRequest(names)
    BY <2>1, ArgumentsAssumption DEF ArgumentsAssumption
  <2> QED
    BY <2>1, <2>2, WithoutMessage, Zenon
<1> QED
  BY <1>1, RepliedInvariance, PTL
-----------------------------------------------------------------------------
(* A request on another model of the gateway: of all the checks only that  *)
(* of the name looks at it, and it finds both alike.                       *)
LEMMA KnownModel ==
    ASSUME NEW p, p.model \in DOMAIN Routes
    PROVE  p.model # "" /\ Passed(ModelCheck(p))
<1> DEFINE m == StatusCheck(404, "model", p.model \notin DOMAIN Routes, "model_not_found")
<1>1. DOMAIN Routes = {"adina-analysis", "adina-execution"}
  BY DEF Routes
<1>2. p.model # ""
  BY <1>1, Zenon
<1>3. ~m.bad
  BY Zenon DEF StatusCheck
<1>4. ModelCheck(p) = <<m>>
  BY Zenon DEF ModelCheck
<1> HIDE DEF m
<1>5. Passed(ModelCheck(p))
  BY <1>3, <1>4 DEF Passed
<1> QED
  BY <1>2, <1>5, Zenon

LEMMA AcceptedModel ==
    ASSUME NEW p, Passed(ModelCheck(p))
    PROVE  p.model \in DOMAIN Routes
<1> DEFINE m == StatusCheck(404, "model", p.model \notin DOMAIN Routes, "model_not_found")
<1>1. ModelCheck(p) = <<m>>
  BY Zenon DEF ModelCheck
<1>2. ~m.bad => p.model \in DOMAIN Routes
  BY Zenon DEF StatusCheck
<1> HIDE DEF m
<1>3. ~m.bad
  BY <1>1 DEF Passed
<1> QED
  BY <1>2, <1>3, Zenon

LEMMA OtherModel ==
    ASSUME NEW names, NEW q \in ChatRequest(names), q.model \in DOMAIN Routes,
           NEW model \in DOMAIN Routes, NEW r, r = [q EXCEPT !.model = model]
    PROVE  Alike(Checks(q), Checks(r)) /\ Listed(Checks(q)) /\ Listed(Checks(r))
<1>1. /\ SameButFor(q, r) /\ r.model = model /\ r.messages = q.messages
      /\ q.auth \in Seq(STRING) /\ q.messages \in Seq(Message)
      /\ r.auth \in Seq(STRING)
  BY DEF ChatRequest, SameButFor
<1>2. /\ q.model # "" /\ Passed(ModelCheck(q))
      /\ r.model # "" /\ Passed(ModelCheck(r))
  BY <1>1, KnownModel, Zenon
<1>3. Alike(RequiredChecks(q), RequiredChecks(r))
  <2> DEFINE a(p) == Check("model", p.model = "", "missing_required_parameter")
             b(p) == Check("messages", p.messages = <<>>, "missing_required_parameter")
  <2>1. \A p : RequiredChecks(p) = <<a(p), b(p)>>
    BY Zenon DEF RequiredChecks
  <2>2. ~a(q).bad /\ ~a(r).bad
    BY <1>2, Zenon DEF Check, StatusCheck
  <2>3. b(r) = b(q)
    BY <1>1, Zenon
  <2> HIDE DEF a, b
  <2> DEFINE s == <<a(q), b(q)>>
             t == <<a(r), b(r)>>
  <2>4. /\ Len(s) = 2 /\ s[1] = a(q) /\ s[2] = b(q)
        /\ Len(t) = 2 /\ t[1] = a(r) /\ t[2] = b(q)
    BY <2>3
  <2>5. RequiredChecks(q) = s /\ RequiredChecks(r) = t
    BY <2>1, Zenon
  <2> HIDE DEF s, t
  <2>6. CASE b(q).bad
    <3>1. FailsFirst(s, 2, b(q)) /\ FailsFirst(t, 2, b(q))
      BY <2>2, <2>4, <2>6 DEF FailsFirst
    <3>2. 2 \in 1..Len(s) /\ 2 \in 1..Len(t)
      BY <2>4
    <3> QED
      BY <2>5, <3>1, <3>2, Zenon DEF Alike, Fails
  <2>7. CASE ~b(q).bad
    <3>1. Passed(s) /\ Passed(t)
      BY <2>2, <2>4, <2>7 DEF Passed
    <3> QED
      BY <2>5, <3>1, Zenon DEF Alike
  <2> QED
    BY <2>6, <2>7
<1>4. /\ AuthCheck(r) = AuthCheck(q) /\ HeaderChecks(r) = HeaderChecks(q)
      /\ ParameterChecks(r) = ParameterChecks(q)
  BY <1>1, SameParts, Zenon
<1>5. MessageChecks(r) = MessageChecks(q)
  BY <1>1 DEF MessageChecks
<1> DEFINE u == AuthCheck(q)
           h == HeaderChecks(q)
           d == RequiredChecks(q)
           e == RequiredChecks(r)
           c == ParameterChecks(q)
           s == MessageChecks(q)
           k == ModelCheck(q)
           l == ModelCheck(r)
<1>6. Refusals(h) /\ Refusals(d) /\ Refusals(e) /\ Refusals(c) /\ Refusals(s)
  BY <1>1, BodyRefusals, Zenon
<1>7. Listed(u) /\ Listed(k) /\ Listed(l)
  BY <1>1, ChecksOfRequest, Zenon
<1>8. /\ Checks(q) = u \o (h \o d \o c \o s) \o k
      /\ Checks(r) = u \o (h \o e \o c \o s) \o l
  BY <1>4, <1>5, Zenon DEF Checks, BodyChecks
<1>9. Alike(d, e) /\ Alike(k, l)
  BY <1>2, <1>3, Zenon DEF Alike
<1> HIDE DEF u, h, d, e, c, s, k, l
<1>10. Listed(h) /\ Listed(d) /\ Listed(e) /\ Listed(c) /\ Listed(s)
  BY <1>6, Zenon DEF Refusals
<1>11. Alike(u, u) /\ Alike(h, h) /\ Alike(c, c) /\ Alike(s, s)
  BY <1>7, <1>10, AlikeItself, Zenon
<1>12. Listed(h \o d) /\ Listed(h \o e) /\ Alike(h \o d, h \o e)
  BY <1>9, <1>10, <1>11, Joined, AlikeBoth, Zenon
<1>13. /\ Listed(h \o d \o c) /\ Listed(h \o e \o c)
       /\ Alike(h \o d \o c, h \o e \o c)
  BY <1>10, <1>11, <1>12, Joined, AlikeBoth, Zenon
<1> DEFINE v == h \o d \o c \o s
           w == h \o e \o c \o s
<1>14. Listed(v) /\ Listed(w) /\ Alike(v, w)
  BY <1>10, <1>11, <1>13, Joined, AlikeBoth, Zenon
<1> HIDE DEF v, w
<1>15. Listed(u \o v) /\ Listed(u \o w) /\ Alike(u \o v, u \o w)
  BY <1>7, <1>11, <1>14, Joined, AlikeBoth, Zenon
<1>16. Listed(u \o v \o k) /\ Listed(u \o w \o l) /\ Alike(u \o v \o k, u \o w \o l)
  BY <1>7, <1>9, <1>15, Joined, AlikeBoth, Zenon
<1> QED
  BY <1>8, <1>16, Zenon DEF v, w

(* Validation is no oracle: without the right to ask nothing that a        *)
(* request holds shows in the answer; a refusal is the same on every model *)
(* the gateway has; and on no other model is a request accepted.           *)
THEOREM RefusalsAreNeverOracle == Spec => []RefusalsAreNoOracle
<1>1. Replied => RefusalsAreNoOracle
  <2> SUFFICES ASSUME Replied, Returned("FrontDoor")
               PROVE  RefusalsAreNoOracle
    BY Zenon DEF RefusalsAreNoOracle
  <2>1. arg \in Requests /\ reply = FrontDoor(arg)
    BY Zenon DEF Replied, Returned
  <2>2. ASSUME NEW q \in Requests
        PROVE  /\ q.auth \in Seq(STRING) /\ q.messages \in Seq(Message)
               /\ Answered(q, FrontDoor(q))
    <3>1. PICK names : q \in ChatRequest(names)
      BY <2>2, ArgumentsAssumption DEF ArgumentsAssumption
    <3>2. q.auth \in Seq(STRING) /\ q.messages \in Seq(Message)
      BY <3>1 DEF ChatRequest
    <3> QED
      BY <3>2, AnswerToRequest, Zenon
  <2>3. Answered(arg, reply)
    BY <2>1, <2>2, Zenon
  <2>4. (reply.status = 401) <=> (arg.auth # <<Bearer>>)
    BY <2>3, Zenon DEF Answered
  <2>5. ASSUME reply.status = 401, NEW q \in Requests, q.auth = arg.auth
        PROVE  FrontDoor(q) = reply
    <3>1. FrontDoor(q).status = 401
      BY <2>2, <2>4, <2>5, Zenon DEF Answered
    <3>2. FrontDoor(q) = NoRight(q.auth) /\ reply = NoRight(arg.auth)
      BY <2>2, <2>3, <2>5, <3>1, Zenon DEF Answered
    <3> QED
      BY <2>5, <3>2, Zenon
  <2>6. ASSUME reply.status # 0, arg.model \in DOMAIN Routes,
               NEW model \in DOMAIN Routes
        PROVE  FrontDoor([arg EXCEPT !.model = model]) = reply
    <3> DEFINE r == [arg EXCEPT !.model = model]
    <3>1. PICK names : arg \in ChatRequest(names)
      BY <2>1, ArgumentsAssumption DEF ArgumentsAssumption
    <3>2. Alike(Checks(arg), Checks(r)) /\ Listed(Checks(arg)) /\ Listed(Checks(r))
      BY <2>6, <3>1, OtherModel, Zenon
    <3> HIDE DEF r
    <3>3. ~Passed(Checks(arg))
      <4>1. Accepted(arg).status = 0
        BY Zenon DEF Accepted
      <4> QED
        BY <2>1, <2>6, <3>2, <4>1, AnswerOfChecks, Zenon
    <3>4. FrontDoor(r) = FrontDoor(arg)
      BY <3>2, <3>3, AnswerOfChecks, Zenon DEF Alike
    <3> QED
      BY <2>1, <3>4, Zenon DEF r
  <2>7. ASSUME reply.status = 0
        PROVE  arg.model \in DOMAIN Routes
    <3>1. Passed(Checks(arg))
      BY <2>3, <2>7, Zenon DEF Answered
    <3> QED
      BY <2>1, <2>2, <3>1, PassedByGroup, AcceptedModel, Zenon
  <2> QED
    BY <2>4, <2>5, <2>6, <2>7, Zenon DEF RefusalsAreNoOracle
<1> QED
  BY <1>1, RepliedInvariance, PTL
=============================================================================
