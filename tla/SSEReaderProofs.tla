--------------------------- MODULE SSEReaderProofs ---------------------------
(***************************************************************************)
(* Proofs about the reader of the event stream: its variables keep their   *)
(* types, its limit is on one frame, and it implements EventFeed, for any  *)
(* limit, lengths of lines, and number of lines.                           *)
(***************************************************************************)
EXTENDS SSEReader, SequenceTheorems, TLAPS

(* Lines as OpenCode writes them and as they may be cut off. *)
Part == [id : Nat, part : 0..MaxParts]
FieldLine == [kind : {"blank", "comment", "event", "unknown"},
              value : {"", "noise", "noi"}, bytes : {1}, ended : BOOLEAN]
PartLine == [kind : {"data", "unknown"}, part : Part, bytes : Nat, ended : BOOLEAN]
AnyLine == FieldLine \cup PartLine

(* Only the last line of an ended connection may lack its end. *)
EndsWell(lines, isUp) == \A i \in DOMAIN lines : lines[i].ended \/ (i = Len(lines) /\ ~isUp)

(* A frame with parts to come has room for one. *)
Typed == /\ sent \in Seq([id : Nat, json : BOOLEAN, parts : Nat, type : Types])
         /\ \A i \in DOMAIN sent : sent[i].id = i
         /\ frame \in [parts : 0..MaxParts, whole : BOOLEAN]
         /\ ~frame.whole => frame.parts < MaxParts
         /\ written \in 0..MaxLines
         /\ wire \in Seq(AnyLine) /\ EndsWell(wire, up)
         /\ up \in BOOLEAN /\ ctx \in BOOLEAN
         /\ call \in {"idle", "reading"} \cup Failures
         /\ data \in Seq(Part)
         /\ bytes \in Nat /\ since \in Nat

(* While there is something to read, the count is of the bytes since the   *)
(* last empty line; between two calls of Next there are none.              *)
Counted == /\ up \/ wire # <<>> => /\ call = "idle" => since = 0
                                   /\ call = "reading" => since = bytes /\ since <= MaxFrameBytes
           /\ call = "too large" => since > MaxFrameBytes

-----------------------------------------------------------------------------
LEMMA Numbers ==
    /\ MaxFrameBytes \in Nat /\ MaxParts \in Nat \ {0} /\ MaxLines \in Nat
    /\ DataBytes \subseteq Nat /\ 0 \in 0..MaxParts
<1>1. /\ MaxFrameBytes \in Nat /\ MaxParts \in Nat \ {0} /\ MaxLines \in Nat
      /\ DataBytes \subseteq Nat
  BY Zenon, ReaderAssumption DEF ReaderAssumption
<1> QED
  BY <1>1

LEMMA AppendLine ==
    ASSUME Typed, up, NEW line \in AnyLine, line.ended
    PROVE  Append(wire, line) \in Seq(AnyLine) /\ EndsWell(Append(wire, line), up)
<1>1. /\ wire \in Seq(AnyLine)
      /\ \A i \in DOMAIN wire : wire[i].ended
  BY DEF Typed, EndsWell
<1>2. Append(wire, line) \in Seq(AnyLine) /\ Len(Append(wire, line)) = Len(wire) + 1
  BY <1>1
<1>3. \A i \in DOMAIN Append(wire, line) : Append(wire, line)[i].ended
  <2> SUFFICES ASSUME NEW i \in 1..(Len(wire) + 1)
               PROVE  Append(wire, line)[i].ended
    BY <1>2
  <2>1. CASE i = Len(wire) + 1
    BY <1>1, <2>1
  <2>2. CASE i # Len(wire) + 1
    BY <1>1, <2>2
  <2> QED
    BY <2>1, <2>2
<1> QED
  BY <1>2, <1>3 DEF EndsWell

LEMMA CutLine ==
    ASSUME NEW line \in AnyLine, NEW rest \in Cuts(line)
    PROVE  rest \in AnyLine
<1>1. CASE line \in FieldLine
  <2> DEFINE cut == [line EXCEPT !.ended = FALSE]
  <2>1. rest \in {cut, [cut EXCEPT !.value = "noi"], [cut EXCEPT !.kind = "unknown"]}
    <3>1. line.kind # "data"
      BY <1>1 DEF FieldLine
    <3> QED
      BY <3>1 DEF Cuts
  <2>2. /\ cut \in FieldLine /\ [cut EXCEPT !.kind = "unknown"] \in FieldLine
        /\ [cut EXCEPT !.value = "noi"] \in FieldLine
    BY <1>1 DEF FieldLine
  <2> HIDE DEF cut
  <2> QED
    BY <2>1, <2>2 DEF AnyLine
<1>2. CASE line \in PartLine
  <2>1. line.kind \in {"data", "unknown"} /\ 0 \in 0..MaxParts
    BY <1>2, Numbers DEF PartLine
  <2>2. CASE line.kind = "data"
    <3> DEFINE cut == [line EXCEPT !.ended = FALSE]
               short == [cut EXCEPT !.part.part = 0]
    <3>1. rest \in {cut, short, [cut EXCEPT !.kind = "unknown"]}
      BY <2>2 DEF Cuts
    <3>2. cut \in PartLine /\ [cut EXCEPT !.kind = "unknown"] \in PartLine
      BY <1>2 DEF PartLine
    <3> DEFINE p == [cut.part EXCEPT !.part = 0]
    <3>3. cut.part \in Part
      BY <3>2 DEF PartLine
    <3>4. p \in Part
      BY <2>1, <3>3 DEF Part
    <3>5. short = [cut EXCEPT !.part = p]
      OBVIOUS
    <3> HIDE DEF cut, p
    <3>6. [cut EXCEPT !.part = p] \in PartLine
      BY <3>2, <3>4 DEF PartLine
    <3> QED
      BY <3>1, <3>2, <3>5, <3>6 DEF AnyLine
  <2>3. CASE line.kind = "unknown"
    BY <1>2, <2>3 DEF Cuts, AnyLine, PartLine
  <2> QED
    BY <2>1, <2>2, <2>3
<1> QED
  BY <1>1, <1>2 DEF AnyLine

LEMMA CutWire ==
    ASSUME Typed, Cut
    PROVE  wire' \in Seq(AnyLine) /\ EndsWell(wire', FALSE)
<1>1. wire \in Seq(AnyLine) /\ \A i \in DOMAIN wire : wire[i].ended
  BY DEF Typed, Cut, EndsWell
<1>2. PICK k \in 0..Len(wire) :
             \/ wire' = SubSeq(wire, 1, k)
             \/ \E l \in {wire[i] : i \in DOMAIN wire \cap {k + 1}} :
                   \E rest \in Cuts(l) : wire' = Append(SubSeq(wire, 1, k), rest)
  BY DEF Cut
<1> DEFINE kept == SubSeq(wire, 1, k)
<1>3. kept \in Seq(AnyLine) /\ Len(kept) = k /\ \A i \in 1..k : kept[i].ended
  BY <1>1
<1>4. CASE wire' = kept
  BY <1>3, <1>4 DEF EndsWell
<1>5. ASSUME NEW i \in DOMAIN wire, NEW rest \in Cuts(wire[i]), wire' = Append(kept, rest)
      PROVE  wire' \in Seq(AnyLine) /\ EndsWell(wire', FALSE)
  <2>1. rest \in AnyLine
    BY <1>1, <1>5, CutLine
  <2>2. wire' \in Seq(AnyLine) /\ Len(wire') = k + 1
    BY <1>3, <1>5, <2>1
  <2>3. \A j \in 1..k : wire'[j].ended
    BY <1>3, <1>5, <2>1
  <2> QED
    BY <2>2, <2>3 DEF EndsWell
<1> QED
  BY <1>2, <1>4, <1>5

LEMMA TailWire ==
    ASSUME Typed, wire # <<>>
    PROVE  /\ Head(wire) \in AnyLine
           /\ Tail(wire) \in Seq(AnyLine) /\ EndsWell(Tail(wire), up)
           /\ ~Head(wire).ended => Tail(wire) = <<>> /\ ~up
<1>1. wire \in Seq(AnyLine) /\ EndsWell(wire, up)
  BY DEF Typed
<1>2. /\ Head(wire) = wire[1] /\ Tail(wire) \in Seq(AnyLine)
      /\ Len(Tail(wire)) = Len(wire) - 1 /\ 1 \in DOMAIN wire
      /\ \A i \in 1..(Len(wire) - 1) : Tail(wire)[i] = wire[i + 1]
  BY <1>1
<1>3. EndsWell(Tail(wire), up)
  BY <1>1, <1>2 DEF EndsWell
<1>4. ~Head(wire).ended => Len(wire) = 1 /\ ~up
  BY <1>1, <1>2 DEF EndsWell
<1>5. ASSUME Len(wire) = 1
      PROVE  Tail(wire) = <<>>
  <2>1. Len(Tail(wire)) = 0
    BY <1>2, <1>5
  <2> QED
    BY <1>2, <2>1, EmptySeq
<1> QED
  BY <1>1, <1>2, <1>3, <1>4, <1>5

-----------------------------------------------------------------------------
LEMMA WriteKeeps ==
    ASSUME Typed, Counted, NEW line \in AnyLine, line.ended, Write(line)
    PROVE  /\ wire' \in Seq(AnyLine) /\ EndsWell(wire', up') /\ written' \in 0..MaxLines
           /\ UNCHANGED <<up, ctx, call, data, bytes, since>>
           /\ Counted'
<1>1. /\ up /\ written < MaxLines /\ written' = written + 1 /\ wire' = Append(wire, line)
      /\ UNCHANGED <<up, ctx, call, data, bytes, since>>
  BY DEF Write, nextVars
<1>2. wire' \in Seq(AnyLine) /\ EndsWell(wire', up)
  BY <1>1, AppendLine
<1>3. written' \in 0..MaxLines
  BY <1>1, Numbers DEF Typed
<1>4. Counted'
  BY <1>1 DEF Counted
<1> QED
  BY <1>1, <1>2, <1>3, <1>4

LEMMA WriteDataKeeps == ASSUME Typed, Counted, WriteData PROVE Typed' /\ Counted'
<1>1. PICK n \in DataBytes, last \in BOOLEAN :
        /\ frame = NoFrame \/ ~frame.whole
        /\ last \/ frame.parts + 1 < MaxParts
        /\ Write(DataLine(Len(sent) + 1, frame.parts + 1, n))
        /\ frame' = [parts |-> frame.parts + 1, whole |-> last]
        /\ IF last THEN \E t \in Types, ok \in BOOLEAN :
                          sent' = Append(sent, [id |-> Len(sent) + 1, json |-> ok,
                                                parts |-> frame.parts + 1, type |-> t])
           ELSE UNCHANGED sent
  BY DEF WriteData
<1> DEFINE line == DataLine(Len(sent) + 1, frame.parts + 1, n)
<1>2. n \in Nat /\ MaxParts \in Nat \ {0}
  BY Numbers
<1>3. frame.parts + 1 \in 1..MaxParts /\ frame.parts \in Nat
  BY <1>1, <1>2 DEF Typed, NoFrame
<1>4. Len(sent) + 1 \in Nat
  BY DEF Typed
<1>5. line \in AnyLine /\ line.ended
  BY <1>2, <1>3, <1>4 DEF DataLine, AnyLine, PartLine, Part
<1>6. /\ frame' \in [parts : 0..MaxParts, whole : BOOLEAN]
      /\ ~frame'.whole => frame'.parts < MaxParts
  BY <1>1, <1>3
<1>7. /\ sent' \in Seq([id : Nat, json : BOOLEAN, parts : Nat, type : Types])
      /\ \A i \in DOMAIN sent' : sent'[i].id = i
  <2>1. CASE UNCHANGED sent
    BY <2>1 DEF Typed
  <2>2. ASSUME NEW t \in Types, NEW ok \in BOOLEAN,
               sent' = Append(sent, [id |-> Len(sent) + 1, json |-> ok,
                                     parts |-> frame.parts + 1, type |-> t])
        PROVE  /\ sent' \in Seq([id : Nat, json : BOOLEAN, parts : Nat, type : Types])
               /\ \A i \in DOMAIN sent' : sent'[i].id = i
    <3> DEFINE S == [id : Nat, json : BOOLEAN, parts : Nat, type : Types]
               e == [id |-> Len(sent) + 1, json |-> ok, parts |-> frame.parts + 1, type |-> t]
    <3>1. e \in S /\ e.id = Len(sent) + 1
      BY <1>3, <1>4
    <3>2. sent \in Seq(S) /\ \A i \in DOMAIN sent : sent[i].id = i
      BY DEF Typed
    <3> HIDE DEF S, e
    <3>3. Append(sent, e) \in Seq(S) /\ Len(Append(sent, e)) = Len(sent) + 1
      BY <3>1, <3>2
    <3>4. \A i \in 1..(Len(sent) + 1) : Append(sent, e)[i].id = i
      BY <3>1, <3>2
    <3>5. sent' = Append(sent, e)
      BY <2>2 DEF e
    <3> QED
      BY <3>3, <3>4, <3>5 DEF S
  <2> QED
    BY <1>1, <2>1, <2>2
<1> HIDE DEF line
<1>8. Write(line)
  BY <1>1 DEF line
<1> QED
  BY <1>5, <1>6, <1>7, <1>8, WriteKeeps DEF Typed

LEMMA WriteFieldKeeps ==
    ASSUME Typed, Counted, WriteOther \/ WriteBlank
    PROVE  Typed' /\ Counted'
<1>1. \A kind \in {"blank", "comment", "event", "unknown"}, value \in {"", "noise"} :
         Line(kind, value) \in AnyLine /\ Line(kind, value).ended
  BY DEF Line, AnyLine, FieldLine
<1>2. \E kind \in {"blank", "comment", "event", "unknown"}, value \in {"", "noise"} :
         Write(Line(kind, value))
  BY DEF WriteOther, WriteBlank
<1>3. UNCHANGED sent /\ frame' \in {frame, NoFrame}
  BY DEF WriteOther, WriteBlank
<1>4. /\ frame' \in [parts : 0..MaxParts, whole : BOOLEAN]
      /\ ~frame'.whole => frame'.parts < MaxParts
  <2>1. NoFrame \in [parts : 0..MaxParts, whole : BOOLEAN] /\ NoFrame.whole
    BY Numbers DEF NoFrame
  <2> QED
    BY <1>3, <2>1 DEF Typed
<1> QED
  BY <1>1, <1>2, <1>3, <1>4, WriteKeeps DEF Typed

(* A line that was read: the call goes on, returns an event, or fails.     *)
LEMMA ReadKeeps == ASSUME Typed, Counted, ReadLine PROVE Typed' /\ Counted'
<1> DEFINE line == Head(wire)
           count == bytes + line.bytes
<1>1. /\ call = "reading" /\ wire # <<>> /\ wire' = Tail(wire)
      /\ TakeLine(line, count)
      /\ UNCHANGED <<serverVars, up, ctx>>
      /\ since' = IF line.kind = "blank" /\ bytes + 1 <= MaxFrameBytes THEN 0
                  ELSE since + line.bytes
  BY DEF ReadLine
<1>2. /\ line \in AnyLine
      /\ wire' \in Seq(AnyLine) /\ EndsWell(wire', up)
      /\ ~line.ended => wire' = <<>> /\ ~up
  BY <1>1, TailWire
<1>3. /\ line.bytes \in Nat /\ line.ended \in BOOLEAN
      /\ line.kind = "blank" => line.bytes = 1
      /\ line.kind = "data" => line.part \in Part
  <2>1. CASE line \in FieldLine
    <3>1. line.bytes = 1 /\ line.ended \in BOOLEAN /\ line.kind # "data"
      BY <2>1, Zenon DEF FieldLine
    <3> QED
      BY <3>1
  <2>2. CASE line \in PartLine
    BY <2>2 DEF PartLine
  <2> QED
    BY <1>2, <2>1, <2>2 DEF AnyLine
<1>4. since = bytes /\ since <= MaxFrameBytes /\ bytes \in Nat /\ data \in Seq(Part)
  BY <1>1 DEF Counted, Typed
<1>5. count \in Nat
  BY <1>3, <1>4
<1>6. UNCHANGED <<sent, frame, written, up, ctx>>
  BY <1>1 DEF serverVars
<1> HIDE DEF line, count
<1>7. ASSUME NEW why \in {"eof", "too large", "malformed"}, FailWith(why)
      PROVE  call' \in Failures /\ (call' = "too large" => why = "too large")
  BY <1>7 DEF FailWith, Failures
(* What a turn of the loop leaves behind. *)
<1> DEFINE big == count > MaxFrameBytes
           ends == line.kind = "blank" \/ ~line.ended
           Left == \/ /\ call' = "reading" /\ data' \in Seq(Part) /\ ~big
                      /\ bytes' = IF line.kind = "blank" THEN 0 ELSE count
                   \/ call' = "idle" /\ data' = data /\ bytes' = bytes /\ ends /\ ~big
                   \/ /\ call' \in Failures /\ call' # "too large"
                      /\ data' \in Seq(Part) /\ bytes' \in Nat
                   \/ call' \in Failures /\ big /\ data' = data /\ bytes' = bytes
<1> HIDE DEF big, ends
<1>8. Left
  <2>1. CASE big
    <3>1. FailWith("too large") /\ UNCHANGED nextVars
      BY <2>1, <1>1 DEF TakeLine, big
    <3>2. FailWith("too large") /\ data' = data /\ bytes' = bytes
      BY <3>1 DEF nextVars
    <3> QED
      BY <2>1, <3>2, <1>7
  <2> DEFINE d == IF line.kind = "data" THEN Append(data, line.part) ELSE data
             t == IF line.kind = "event" THEN line.value ELSE type
  <2>2. d \in Seq(Part)
    BY <1>3, <1>4
  <2>3. ASSUME NEW lines, NEW field, Dispatch(lines, field), ~big,
               ends
        PROVE  Left
    <3>1. UNCHANGED <<data, bytes>>
      BY <2>3 DEF Dispatch, nextVars
    <3>2. call' = "idle" \/ FailWith("malformed")
      BY <2>3 DEF Dispatch
    <3> QED
      BY <2>3, <3>1, <3>2, <1>4, <1>5, <1>7
  <2>4. ASSUME SkipOrEnd(line), ~big,
               bytes' = IF line.kind = "blank" THEN 0 ELSE count
        PROVE  Left
    <3>1. data' = data
      BY <2>4 DEF SkipOrEnd, Skip
    <3>2. call' = call \/ FailWith("eof")
      BY <2>4 DEF SkipOrEnd, Skip
    <3> QED
      BY <2>4, <3>1, <3>2, <1>1, <1>4, <1>5, <1>7
  <2>5. CASE ~big /\ line.kind = "blank"
    <3>1. TakeBlank(line, count)
      BY <2>5, <1>1 DEF TakeLine, big
    <3> QED
      BY <2>3, <2>4, <2>5, <3>1 DEF TakeBlank, ends
  <2>6. CASE ~big /\ line.kind = "comment"
    <3>1. bytes' = count /\ SkipOrEnd(line)
      BY <2>6, <1>1 DEF TakeLine, big
    <3> QED
      BY <2>4, <2>6, <3>1
  <2>7. CASE ~big /\ line.kind \notin {"blank", "comment"}
    <3>1. TakeField(line, count)
      BY <2>7, <1>1 DEF TakeLine, big
    <3>2. CASE line.ended \/ d = <<>>
      <4>1. /\ data' = d /\ bytes' = count
            /\ IF line.ended THEN UNCHANGED call ELSE FailWith("eof")
        BY <3>1, <3>2 DEF TakeField
      <4> HIDE DEF d
      <4>2. call' = call \/ FailWith("eof")
        BY <4>1
      <4> QED
        BY <2>2, <2>7, <4>1, <4>2, <1>1, <1>5, <1>7
    <3>3. CASE ~(line.ended \/ d = <<>>)
      <4>1. Dispatch(d, t)
        BY <3>1, <3>3 DEF TakeField
      <4> QED
        BY <2>3, <2>7, <3>3, <4>1 DEF ends
    <3> QED
      BY <3>2, <3>3
  <2> QED
    BY <2>1, <2>5, <2>6, <2>7
<1>9. Typed'
  <2>1. data' \in Seq(Part)
    BY <1>4, <1>8, Zenon
  <2>4. bytes' \in {0, count, bytes} \/ bytes' \in Nat
    BY <1>8, Zenon
  <2>5. bytes' \in Nat
    BY <1>4, <1>5, <2>4
  <2>2. call' \in {"idle", "reading"} \cup Failures
    BY <1>8
  <2>3. since' \in Nat
    BY <1>1, <1>3, <1>4
  <2> QED
    BY <1>2, <1>6, <2>1, <2>5, <2>2, <2>3 DEF Typed
<1>10. Counted'
  <2>1. /\ line.kind # "blank" => since' = count
        /\ line.kind = "blank" /\ ~big => since' = 0
        /\ big => since' = count /\ since' > MaxFrameBytes
        /\ ~big => count <= MaxFrameBytes
    BY <1>1, <1>3, <1>4, <1>5, Numbers DEF count, big
  <2>2. 0 <= MaxFrameBytes
    BY Numbers
  <2>3. CASE call' = "reading"
    <3>1. since' = bytes' /\ since' <= MaxFrameBytes
      BY <1>8, <2>1, <2>2, <2>3 DEF Failures
    <3> QED
      BY <2>3, <3>1 DEF Counted
  <2>4. CASE call' = "idle"
    <3>1. ~big /\ ends
      BY <1>8, <2>4 DEF Failures
    <3>2. up \/ wire' # <<>> => since' = 0
      BY <1>2, <2>1, <3>1 DEF ends
    <3> QED
      BY <1>6, <2>4, <3>2 DEF Counted
  <2>5. CASE call' \in Failures
    <3>1. call' = "too large" => since' > MaxFrameBytes
      BY <1>8, <2>1
    <3> QED
      BY <2>5, <3>1 DEF Counted, Failures
  <2> QED
    BY <1>8, <2>3, <2>4, <2>5
<1> QED
  BY <1>9, <1>10

LEMMA Step == Typed /\ Counted /\ [Next]_vars => Typed' /\ Counted'
<1> SUFFICES ASSUME Typed, Counted, [Next]_vars
             PROVE  Typed' /\ Counted'
  OBVIOUS
<1>1. CASE Cut
  <2>1. /\ up /\ call \notin Failures /\ up' = FALSE
        /\ UNCHANGED <<sent, frame, written, ctx, call, data, bytes, since>>
    BY <1>1 DEF Cut, Failed, serverVars, nextVars
  <2>2. wire' \in Seq(AnyLine) /\ EndsWell(wire', FALSE)
    BY <1>1, CutWire
  <2> QED
    BY <2>1, <2>2 DEF Typed, Counted, Failures
<1>2. CASE CtxEnd
  BY <1>2 DEF CtxEnd, serverVars, nextVars, Typed, Counted
<1>3. CASE CallNext
  <2>1. /\ call = "idle" /\ call' \in {"reading", "ctx"}
        /\ data' = <<>> /\ bytes' = 0
        /\ UNCHANGED <<sent, frame, written, wire, up, ctx, since>>
    BY <1>3 DEF CallNext, FailWith, serverVars
  <2>2. Typed'
    <3>1. data' \in Seq(Part) /\ bytes' \in Nat
      BY <2>1
    <3>2. call' \in {"idle", "reading"} \cup Failures
      BY <2>1 DEF Failures
    <3> QED
      BY <2>1, <3>1, <3>2 DEF Typed
  <2>3. Counted'
    <3>1. up \/ wire # <<>> => since = 0
      BY <2>1 DEF Counted
    <3>2. since = 0 => since' = bytes' /\ since' <= MaxFrameBytes
      BY <2>1, Numbers
    <3> QED
      BY <2>1, <3>1, <3>2 DEF Counted
  <2> QED
    BY <2>2, <2>3
<1>4. CASE ReadEnd
  <2>1. /\ ~up /\ wire = <<>> /\ call' \in {"eof", "ctx"}
        /\ UNCHANGED <<sent, frame, written, wire, up, ctx, data, bytes, since>>
    BY <1>4 DEF ReadEnd, FailWith, serverVars, nextVars
  <2> QED
    BY <2>1 DEF Typed, Counted, Failures
<1>5. CASE UNCHANGED vars
  BY <1>5 DEF vars, serverVars, nextVars, Typed, Counted
<1> QED
  BY <1>1, <1>2, <1>3, <1>4, <1>5, WriteDataKeeps, WriteFieldKeeps, ReadKeeps DEF Next

LEMMA Invariance == Spec => [](Typed /\ Counted)
<1>1. Init => Typed /\ Counted
  <2> SUFFICES ASSUME Init
               PROVE  Typed /\ Counted
    OBVIOUS
  <2>1. /\ sent = <<>> /\ wire = <<>> /\ data = <<>> /\ written = 0 /\ up = TRUE
        /\ ctx = TRUE /\ call = "idle" /\ bytes = 0 /\ since = 0
    BY DEF Init
  <2>2. frame = [parts |-> 0, whole |-> TRUE]
    BY DEF Init, NoFrame
  <2>3. EndsWell(wire, up)
    BY <2>1 DEF EndsWell
  <2>4. /\ sent \in Seq([id : Nat, json : BOOLEAN, parts : Nat, type : Types])
        /\ wire \in Seq(AnyLine) /\ data \in Seq(Part) /\ DOMAIN sent = {}
    BY <2>1
  <2>5. frame \in [parts : 0..MaxParts, whole : BOOLEAN] /\ frame.whole
    BY <2>2, Numbers
  <2>6. written \in 0..MaxLines /\ bytes \in Nat /\ since \in Nat
    BY <2>1, Numbers
  <2>7. Typed
    BY <2>1, <2>3, <2>4, <2>5, <2>6 DEF Typed
  <2> QED
    BY <2>1, <2>7 DEF Counted
<1> QED
  BY <1>1, Step, PTL DEF Spec

-----------------------------------------------------------------------------
(* Variables keep their types, an event is numbered by its place, and only *)
(* the last line of an ended connection may lack its end.                  *)
THEOREM ReaderTyping == Spec => []SSETypeOK
<1>1. Typed => SSETypeOK
  <2> SUFFICES ASSUME Typed
               PROVE  SSETypeOK
    OBVIOUS
  <2> DEFINE S == [id : Nat, json : BOOLEAN, parts : Nat, type : Types]
  <2>1. \A i \in DOMAIN sent : sent[i].id = i /\ sent[i].type \in Types
    <3>1. sent \in Seq(S) /\ \A i \in DOMAIN sent : sent[i].id = i
      BY DEF Typed
    <3>2. \A e \in S : e.type \in Types
      OBVIOUS
    <3> HIDE DEF S
    <3> QED
      BY <3>1, <3>2
  <2>2. \A i \in DOMAIN data : data[i].part \in 0..MaxParts
    <3>1. data \in Seq(Part)
      BY DEF Typed
    <3>2. \A e \in Part : e.part \in 0..MaxParts
      BY DEF Part
    <3> QED
      BY <3>1, <3>2
  <2> QED
    BY <2>1, <2>2 DEF Typed, EndsWell, SSETypeOK
<1> QED
  BY <1>1, Invariance, PTL

(* The limit of sseReader.Next is on one frame, whatever is strewn into it *)
(* and wherever the connection ends: the count is that of the bytes since  *)
(* the last empty line, and a longer frame is always refused.              *)
THEOREM LimitIsOnFrames == Spec => []LimitIsPerFrame
<1>1. Counted => LimitIsPerFrame
  BY DEF Counted, LimitIsPerFrame
<1> QED
  BY <1>1, Invariance, PTL

-----------------------------------------------------------------------------
(* Where a line stands: the event it belongs to or comes before, and       *)
(* whether data of that event was written since the last empty line.  An   *)
(* empty line that ends an event goes to the next.                         *)
Place == [id : Nat, open : BOOLEAN]
After(place, line) ==
    IF line.kind = "data" THEN [place EXCEPT !.open = TRUE]
    ELSE IF line.kind = "blank" /\ place.open
    THEN [id |-> place.id + 1, open |-> FALSE] ELSE place

(* The places before, between and after lines; data is of its place.       *)
Path(lines, places) ==
    /\ places \in [0..Len(lines) -> Place]
    /\ \A i \in 1..Len(lines) :
          /\ places[i] = After(places[i - 1], lines[i])
          /\ lines[i].kind = "data" => lines[i].part.id = places[i - 1].id

(* OpenCode has not ended the frame of an event, or is before the next.    *)
ServerPlace == [id   |-> IF frame.parts > 0 /\ frame.whole THEN Len(sent) ELSE Len(sent) + 1,
                open |-> frame.parts > 0]

(* The reader is before the event after those it returned; its data lines, *)
(* if it has any, are of that event.                                       *)
AtReader(place) ==
    /\ place.id = Len(got) + 1
    /\ call = "idle" => ~place.open
    /\ call = "reading" => /\ place.open <=> data # <<>>
                           /\ \A i \in DOMAIN data : data[i].id = place.id

(* The lines on their way lead from the reader to OpenCode. *)
InOrder == ~Failed => \E places : /\ Path(wire, places) /\ AtReader(places[0])
                                  /\ up => places[Len(wire)] = ServerPlace

(* What Next returned are the first events, each under some type. *)
GotFacts == /\ \E S : got \in Seq(S)
            /\ Len(got) <= Len(sent)
            /\ \A i \in 1..Len(got) : \E field : got[i] = Named(sent[i], field)

LEMMA AfterPlace ==
    ASSUME NEW place \in Place, NEW line
    PROVE  After(place, line) \in Place
<1>1. [place EXCEPT !.open = TRUE] \in Place
  BY DEF Place
<1>2. [id |-> place.id + 1, open |-> FALSE] \in Place
  BY DEF Place
<1> QED
  BY <1>1, <1>2 DEF After

LEMMA PathGrows ==
    ASSUME NEW S, NEW lines \in Seq(S), NEW places, Path(lines, places), NEW line \in S,
           line.kind = "data" => line.part.id = places[Len(lines)].id
    PROVE  \E more : /\ Path(Append(lines, line), more) /\ more[0] = places[0]
                     /\ more[Len(Append(lines, line))] = After(places[Len(lines)], line)
<1> DEFINE l == Len(lines)
           longer == Append(lines, line)
           more == [i \in 0..(l + 1) |-> IF i = l + 1 THEN After(places[l], line) ELSE places[i]]
<1>1. /\ l \in Nat /\ Len(longer) = l + 1
      /\ \A i \in 1..l : longer[i] = lines[i]
      /\ longer[l + 1] = line
  OBVIOUS
<1>2. places \in [0..l -> Place]
  BY DEF Path
<1> HIDE DEF l
<1>3. places[l] \in Place /\ 0 \in 0..l
  BY <1>1, <1>2
<1>4. After(places[l], line) \in Place
  BY <1>3, AfterPlace
<1>5. more \in [0..(l + 1) -> Place]
  BY <1>1, <1>2, <1>4
<1>6. more[0] = places[0] /\ more[l + 1] = After(places[l], line) /\ more[l] = places[l]
  BY <1>1
<1>7. ASSUME NEW i \in 1..(l + 1)
      PROVE  /\ more[i] = After(more[i - 1], longer[i])
             /\ longer[i].kind = "data" => longer[i].part.id = more[i - 1].id
  <2>1. CASE i = l + 1
    <3>1. more[i] = After(places[l], line) /\ more[i - 1] = places[l] /\ longer[i] = line
      BY <1>1, <1>6, <2>1
    <3> QED
      BY <3>1 DEF l
  <2>2. CASE i # l + 1
    <3>1. i \in 1..l /\ i - 1 \in 0..(l + 1) /\ i - 1 # l + 1
      BY <1>1, <2>2
    <3>2. more[i] = places[i] /\ more[i - 1] = places[i - 1] /\ longer[i] = lines[i]
      BY <1>1, <2>2, <3>1
    <3> QED
      BY <3>1, <3>2 DEF Path, l
  <2> QED
    BY <2>1, <2>2
<1> HIDE DEF more
<1>8. Path(longer, more)
  BY <1>1, <1>5, <1>7 DEF Path
<1> QED
  BY <1>1, <1>6, <1>8 DEF l

LEMMA PathTail ==
    ASSUME NEW S, NEW lines \in Seq(S), lines # <<>>, NEW places, Path(lines, places)
    PROVE  /\ Head(lines).kind = "data" => Head(lines).part.id = places[0].id
           /\ \E rest : /\ Path(Tail(lines), rest)
                        /\ rest[0] = After(places[0], Head(lines))
                        /\ rest[Len(Tail(lines))] = places[Len(lines)]
<1> DEFINE l == Len(lines) - 1
           rest == [i \in 0..l |-> places[i + 1]]
<1>1. /\ l \in Nat /\ Len(lines) = l + 1 /\ Len(Tail(lines)) = l /\ Head(lines) = lines[1]
      /\ \A i \in 1..l : Tail(lines)[i] = lines[i + 1]
  OBVIOUS
<1> HIDE DEF l
<1>2. /\ places \in [0..(l + 1) -> Place]
      /\ \A i \in 1..(l + 1) :
            /\ places[i] = After(places[i - 1], lines[i])
            /\ lines[i].kind = "data" => lines[i].part.id = places[i - 1].id
  BY <1>1 DEF Path
<1>3. rest \in [0..l -> Place]
  BY <1>1, <1>2
<1>4. rest[0] = places[1] /\ rest[l] = places[l + 1]
  BY <1>1
<1>5. 1 \in 1..(l + 1) /\ 1 - 1 = 0
  BY <1>1
<1>6. ASSUME NEW i \in 1..l
      PROVE  /\ rest[i] = After(rest[i - 1], Tail(lines)[i])
             /\ Tail(lines)[i].kind = "data" => Tail(lines)[i].part.id = rest[i - 1].id
  <2>1. /\ i + 1 \in 1..(l + 1) /\ (i + 1) - 1 = i /\ i - 1 \in 0..l /\ i \in 0..l
        /\ (i - 1) + 1 = i
    BY <1>1
  <2>2. /\ rest[i] = places[i + 1] /\ rest[i - 1] = places[i]
        /\ Tail(lines)[i] = lines[i + 1]
    BY <1>1, <2>1
  <2>3. /\ places[i + 1] = After(places[(i + 1) - 1], lines[i + 1])
        /\ lines[i + 1].kind = "data" => lines[i + 1].part.id = places[(i + 1) - 1].id
    BY <1>2, <2>1
  <2> QED
    BY <2>1, <2>2, <2>3
<1> HIDE DEF rest
<1>7. Path(Tail(lines), rest)
  BY <1>1, <1>3, <1>6 DEF Path
<1>8. /\ places[1] = After(places[0], lines[1])
      /\ lines[1].kind = "data" => lines[1].part.id = places[0].id
  BY <1>2, <1>5
<1> QED
  BY <1>1, <1>4, <1>7, <1>8

LEMMA PathPrefix ==
    ASSUME NEW S, NEW lines \in Seq(S), NEW places, Path(lines, places),
           NEW k \in 0..Len(lines)
    PROVE  \E few : /\ Path(SubSeq(lines, 1, k), few) /\ few[0] = places[0]
                    /\ few[k] = places[k]
<1> DEFINE few == [i \in 0..k |-> places[i]]
           kept == SubSeq(lines, 1, k)
<1>1. /\ k \in Nat /\ k <= Len(lines) /\ Len(lines) \in Nat /\ Len(kept) = k
      /\ \A i \in 1..k : kept[i] = lines[i]
  OBVIOUS
<1> HIDE DEF kept
<1>2. few \in [0..k -> Place] /\ few[0] = places[0] /\ few[k] = places[k]
  BY <1>1 DEF Path
<1>3. ASSUME NEW i \in 1..k
      PROVE  /\ few[i] = After(few[i - 1], kept[i])
             /\ kept[i].kind = "data" => kept[i].part.id = few[i - 1].id
  <2>1. i \in 1..Len(lines) /\ i \in 0..k /\ i - 1 \in 0..k
    BY <1>1
  <2>2. few[i] = places[i] /\ few[i - 1] = places[i - 1] /\ kept[i] = lines[i]
    BY <1>1, <2>1
  <2> QED
    BY <2>1, <2>2 DEF Path
<1> HIDE DEF few
<1>4. Path(kept, few)
  BY <1>1, <1>2, <1>3 DEF Path
<1> QED
  BY <1>2, <1>4 DEF kept

-----------------------------------------------------------------------------
(* OpenCode writes a line that belongs where it stands. *)
LEMMA WriteOrder ==
    ASSUME Typed, InOrder, NEW line \in AnyLine, Write(line),
           line.kind = "data" => line.part.id = ServerPlace.id,
           ServerPlace' = After(ServerPlace, line)
    PROVE  InOrder' /\ UNCHANGED got
<1>1. /\ up /\ ~Failed /\ wire' = Append(wire, line)
      /\ UNCHANGED <<up, call, data, got>> /\ wire \in Seq(AnyLine)
  BY DEF Write, nextVars, Typed
<1>2. PICK places : /\ Path(wire, places) /\ AtReader(places[0])
                    /\ places[Len(wire)] = ServerPlace
  BY <1>1 DEF InOrder
<1>3. PICK more : /\ Path(wire', more) /\ more[0] = places[0]
                  /\ more[Len(wire')] = After(places[Len(wire)], line)
  BY <1>1, <1>2, PathGrows
<1>4. AtReader(more[0])'
  BY <1>1, <1>2, <1>3 DEF AtReader
<1>5. Path(wire, more)'
  BY <1>3 DEF Path, After
<1>6. more[Len(wire')] = ServerPlace'
  BY <1>2, <1>3
<1> QED
  BY <1>1, <1>4, <1>5, <1>6 DEF InOrder

LEMMA WriteDataOrder == ASSUME Typed, InOrder, WriteData PROVE InOrder' /\ UNCHANGED got
<1>1. PICK n \in DataBytes, last \in BOOLEAN :
        /\ frame = NoFrame \/ ~frame.whole
        /\ Write(DataLine(Len(sent) + 1, frame.parts + 1, n))
        /\ last \/ frame.parts + 1 < MaxParts
        /\ frame' = [parts |-> frame.parts + 1, whole |-> last]
        /\ Len(sent') = IF last THEN Len(sent) + 1 ELSE Len(sent)
  <2>1. PICK n \in DataBytes, last \in BOOLEAN :
        /\ frame = NoFrame \/ ~frame.whole
        /\ last \/ frame.parts + 1 < MaxParts
        /\ Write(DataLine(Len(sent) + 1, frame.parts + 1, n))
        /\ frame' = [parts |-> frame.parts + 1, whole |-> last]
        /\ IF last THEN \E t \in Types, ok \in BOOLEAN :
                          sent' = Append(sent, [id |-> Len(sent) + 1, json |-> ok,
                                                parts |-> frame.parts + 1, type |-> t])
           ELSE UNCHANGED sent
    BY DEF WriteData
  <2>2. \A e : Len(Append(sent, e)) = Len(sent) + 1
    <3>1. sent \in Seq([id : Nat, json : BOOLEAN, parts : Nat, type : Types])
      BY DEF Typed
    <3> QED
      BY <3>1
  <2>3. Len(sent') = IF last THEN Len(sent) + 1 ELSE Len(sent)
    BY <2>1, <2>2
  <2> QED
    BY <2>1, <2>3
<1> DEFINE line == DataLine(Len(sent) + 1, frame.parts + 1, n)
<1>2. n \in Nat /\ frame.parts \in Nat /\ Len(sent) \in Nat /\ MaxParts \in Nat
  <2>1. sent \in Seq([id : Nat, json : BOOLEAN, parts : Nat, type : Types])
    BY DEF Typed
  <2>2. Len(sent) \in Nat
    BY <2>1
  <2>3. frame.parts \in 0..MaxParts
    BY DEF Typed
  <2> QED
    BY <2>2, <2>3, Numbers
<1>3. line.kind = "data" /\ line.part.id = Len(sent) + 1
  BY DEF DataLine
<1>4. line \in AnyLine
  <2>1. frame.parts + 1 \in 0..MaxParts
    <3>1. frame = NoFrame => frame.parts = 0
      BY DEF NoFrame
    <3>2. ~frame.whole => frame.parts < MaxParts
      BY DEF Typed
    <3>3. frame.parts < MaxParts
      BY <1>1, <1>2, <3>1, <3>2, Numbers
    <3> QED
      BY <1>2, <3>3
  <2> QED
    BY <1>2, <2>1 DEF DataLine, AnyLine, PartLine, Part
<1>5. ServerPlace = [id |-> Len(sent) + 1, open |-> frame.parts > 0]
  <2>1. ~(frame.parts > 0 /\ frame.whole)
    BY <1>1, <1>2 DEF NoFrame
  <2> QED
    BY <2>1 DEF ServerPlace
<1>6. ServerPlace' = [id |-> Len(sent) + 1, open |-> TRUE]
  <2>1. frame'.parts > 0
    BY <1>1, <1>2
  <2>2. frame'.whole = last
    BY <1>1
  <2>3. (IF frame'.whole THEN Len(sent') ELSE Len(sent') + 1) = Len(sent) + 1
    BY <1>1, <2>2
  <2> QED
    BY <2>1, <2>3 DEF ServerPlace
<1> HIDE DEF line
<1>7. Write(line)
  BY <1>1 DEF line
<1>8. ServerPlace' = After(ServerPlace, line) /\ line.part.id = ServerPlace.id
  BY <1>3, <1>5, <1>6 DEF After
<1> QED
  BY <1>4, <1>7, <1>8, WriteOrder

LEMMA WriteFieldOrder ==
    ASSUME Typed, InOrder, WriteOther \/ WriteBlank
    PROVE  InOrder' /\ UNCHANGED got
<1>1. \A kind \in {"blank", "comment", "event", "unknown"}, value \in {"", "noise"} :
         Line(kind, value) \in AnyLine /\ Line(kind, value).kind = kind
  BY DEF Line, AnyLine, FieldLine
<1>2. CASE WriteOther
  <2>1. PICK kind \in {"comment", "event", "unknown"}, value \in {"", "noise"} :
           Write(Line(kind, value)) /\ UNCHANGED <<sent, frame>>
    BY <1>2 DEF WriteOther
  <2> DEFINE line == Line(kind, value)
  <2>2. line \in AnyLine /\ line.kind = kind /\ Write(line)
    BY <1>1, <2>1
  <2> HIDE DEF line
  <2>3. ServerPlace' = After(ServerPlace, line) /\ line.kind # "data"
    BY <2>1, <2>2 DEF ServerPlace, After
  <2> QED
    BY <2>2, <2>3, WriteOrder
<1>3. CASE WriteBlank
  <2> DEFINE line == Line("blank", "")
  <2>1. /\ line \in AnyLine /\ line.kind = "blank" /\ Write(line)
        /\ frame.whole /\ frame' = NoFrame /\ UNCHANGED sent
    BY <1>1, <1>3 DEF WriteBlank
  <2> HIDE DEF line
  <2>2. ServerPlace' = After(ServerPlace, line)
    <3>1. frame'.parts = 0
      BY <2>1 DEF NoFrame
    <3>2. frame.parts \in Nat
      BY Numbers DEF Typed
    <3>3. ServerPlace' = [id |-> Len(sent) + 1, open |-> FALSE]
      <4>1. ~(frame'.parts > 0)
        BY <3>1
      <4>2. (frame'.parts > 0) = FALSE
        BY <4>1
      <4> QED
        BY <2>1, <4>1, <4>2 DEF ServerPlace
    <3>4. CASE frame.parts > 0
      BY <2>1, <3>3, <3>4 DEF ServerPlace, After
    <3>5. CASE ~(frame.parts > 0)
      <4>1. ServerPlace = [id |-> Len(sent) + 1, open |-> FALSE]
        <5>1. (frame.parts > 0) = FALSE
          BY <3>5
        <5> QED
          BY <3>5, <5>1 DEF ServerPlace
      <4> QED
        BY <2>1, <3>3, <4>1 DEF After
    <3> QED
      BY <3>4, <3>5
  <2> QED
    BY <2>1, <2>2, WriteOrder
<1> QED
  BY <1>2, <1>3

(* The connection ends: what is left of the lines leads on from the reader. *)
LEMMA CutOrder == ASSUME Typed, InOrder, Cut PROVE InOrder' /\ UNCHANGED got
<1>1. /\ up /\ ~Failed /\ up' = FALSE /\ UNCHANGED <<call, data, got>>
      /\ wire \in Seq(AnyLine)
  BY DEF Cut, nextVars, Typed
<1>2. PICK k \in 0..Len(wire) :
         \/ wire' = SubSeq(wire, 1, k)
         \/ \E l \in {wire[i] : i \in DOMAIN wire \cap {k + 1}} :
               \E rest \in Cuts(l) : wire' = Append(SubSeq(wire, 1, k), rest)
  BY DEF Cut
<1>3. PICK places : Path(wire, places) /\ AtReader(places[0])
  BY <1>1 DEF InOrder
<1>4. PICK few : /\ Path(SubSeq(wire, 1, k), few) /\ few[0] = places[0]
                 /\ few[k] = places[k]
  BY <1>1, <1>3, PathPrefix
<1>5. AtReader(places[0])'
  BY <1>1, <1>3 DEF AtReader
<1>6. ASSUME NEW more, Path(wire', more), more[0] = places[0]
      PROVE  InOrder'
  <2>1. Path(wire, more)' /\ AtReader(more[0])'
    BY <1>5, <1>6 DEF Path, After
  <2> QED
    BY <1>1, <2>1 DEF InOrder
<1>7. CASE wire' = SubSeq(wire, 1, k)
  BY <1>1, <1>4, <1>6, <1>7
<1>8. ASSUME NEW l \in {wire[i] : i \in DOMAIN wire \cap {k + 1}}, NEW rest \in Cuts(l),
             wire' = Append(SubSeq(wire, 1, k), rest)
      PROVE  InOrder'
  <2>1. /\ k + 1 \in 1..Len(wire) /\ l = wire[k + 1] /\ (k + 1) - 1 = k
        /\ l \in AnyLine /\ Len(SubSeq(wire, 1, k)) = k
        /\ SubSeq(wire, 1, k) \in Seq(AnyLine)
    BY <1>1, <1>8
  <2>2. l.kind = "data" => l.part.id = places[k].id
    BY <1>3, <2>1 DEF Path
  <2>3. rest \in AnyLine
    BY <1>8, <2>1, CutLine
  <2>4. rest.kind = "data" => l.kind = "data" /\ rest.part.id = l.part.id
    <3> DEFINE cut == [l EXCEPT !.ended = FALSE]
    <3>1. CASE l.kind = "data"
      <4>1. l \in PartLine
        BY <2>1, <3>1 DEF AnyLine, FieldLine
      <4>2. cut.part.id = l.part.id /\ cut \in PartLine
        BY <4>1 DEF PartLine
      <4>3. [cut EXCEPT !.part.part = 0].part.id = l.part.id
        <5>1. cut.part \in Part
          BY <4>2 DEF PartLine
        <5>2. [cut EXCEPT !.part.part = 0].part = [cut.part EXCEPT !.part = 0]
          BY <4>2 DEF PartLine
        <5>3. [cut.part EXCEPT !.part = 0].id = cut.part.id
          BY <5>1 DEF Part
        <5> QED
          BY <4>2, <5>2, <5>3
      <4>4. [cut EXCEPT !.kind = "unknown"].kind = "unknown"
        BY <4>2 DEF PartLine
      <4>5. rest \in {cut, [cut EXCEPT !.part.part = 0], [cut EXCEPT !.kind = "unknown"]}
        BY <1>8, <3>1 DEF Cuts
      <4> HIDE DEF cut
      <4> QED
        BY <3>1, <4>2, <4>3, <4>4, <4>5
    <3>2. CASE l.kind # "data"
      <4>1. l.kind \in {"blank", "comment", "event", "unknown"}
        BY <2>1, <3>2 DEF AnyLine, FieldLine, PartLine
      <4>2. \A x \in {cut, [cut EXCEPT !.value = "noi"], [cut EXCEPT !.kind = "unknown"]} :
               x.kind # "data"
        BY <2>1, <3>2 DEF AnyLine, FieldLine, PartLine
      <4>3. rest \in {cut, [cut EXCEPT !.value = "noi"], [cut EXCEPT !.kind = "unknown"]}
        BY <1>8, <3>2 DEF Cuts
      <4> QED
        BY <4>2, <4>3
    <3> QED
      BY <3>1, <3>2
  <2>5. rest.kind = "data" => rest.part.id = few[k].id
    BY <1>4, <2>2, <2>4
  <2> DEFINE kept == SubSeq(wire, 1, k)
  <2>6. /\ kept \in Seq(AnyLine) /\ Path(kept, few) /\ wire' = Append(kept, rest)
        /\ rest.kind = "data" => rest.part.id = few[Len(kept)].id
    BY <1>4, <1>8, <2>1, <2>5
  <2> HIDE DEF kept
  <2>7. \E more : Path(wire', more) /\ more[0] = few[0]
    BY <2>3, <2>6, PathGrows
  <2> QED
    BY <1>4, <1>6, <2>7
<1> QED
  BY <1>1, <1>2, <1>7, <1>8

-----------------------------------------------------------------------------
(* One turn of the loop: it goes on with what it keeps of the line, it     *)
(* fails, or the lines it has are an event.                                *)
Kept(line) == IF line.kind = "data" THEN Append(data, line.part) ELSE data
Ends(line) == line.kind = "blank" \/ ~line.ended
GoesOn(line) == /\ call' = "reading" /\ got' = got /\ data' = Kept(line)
                /\ line.kind = "blank" => data = <<>>
Returns(line) == /\ Ends(line) /\ call' = "idle"
                 /\ \E e \in Parsed(Kept(line)) : \E field : got' = Append(got, Named(e, field))
                 /\ Kept(line) # <<>>

LEMMA Turn ==
    ASSUME ReadLine
    PROVE  /\ call = "reading" /\ wire # <<>> /\ wire' = Tail(wire)
           /\ UNCHANGED <<sent, frame, up, ctx>>
           /\ \/ call' \in Failures /\ got' = got
              \/ GoesOn(Head(wire)) \/ Returns(Head(wire))
<1> DEFINE line == Head(wire)
           count == bytes + line.bytes
<1>1. /\ call = "reading" /\ wire # <<>> /\ wire' = Tail(wire)
      /\ TakeLine(line, count) /\ UNCHANGED <<sent, frame, up, ctx>>
  BY DEF ReadLine, serverVars
<1> HIDE DEF line, count
<1>2. ASSUME NEW why \in {"eof", "too large", "malformed"}, FailWith(why)
      PROVE  call' \in Failures
  BY <1>2 DEF FailWith, Failures
<1> DEFINE Done == \/ call' \in Failures /\ got' = got
                   \/ GoesOn(line) \/ Returns(line)
<1> SUFFICES Done
  BY <1>1 DEF line
<1>3. ASSUME NEW field, Dispatch(Kept(line), field), Ends(line), Kept(line) # <<>>
      PROVE  Done
  <2>1. CASE Parsed(Kept(line)) = {}
    BY <1>2, <1>3, <2>1 DEF Dispatch
  <2>2. CASE Parsed(Kept(line)) # {}
    BY <1>3, <2>2 DEF Dispatch, Returns
  <2> QED
    BY <2>1, <2>2
<1>4. ASSUME SkipOrEnd(line), line.kind # "data", line.kind = "blank" => data = <<>>
      PROVE  Done
  <2>1. CASE line.ended
    BY <1>1, <1>4, <2>1 DEF SkipOrEnd, Skip, GoesOn, Kept
  <2>2. CASE ~line.ended
    BY <1>2, <1>4, <2>2 DEF SkipOrEnd
  <2> QED
    BY <2>1, <2>2
<1>5. CASE count > MaxFrameBytes
  BY <1>1, <1>2, <1>5 DEF TakeLine
<1>6. CASE ~(count > MaxFrameBytes) /\ line.kind = "blank"
  <2>1. TakeBlank(line, count)
    BY <1>1, <1>6 DEF TakeLine
  <2>2. Kept(line) = data
    BY <1>6 DEF Kept
  <2> QED
    BY <1>3, <1>4, <1>6, <2>1, <2>2 DEF TakeBlank, Ends
<1>7. CASE ~(count > MaxFrameBytes) /\ line.kind = "comment"
  BY <1>1, <1>4, <1>7 DEF TakeLine
<1>8. CASE ~(count > MaxFrameBytes) /\ line.kind \notin {"blank", "comment"}
  <2>1. TakeField(line, count)
    BY <1>1, <1>8 DEF TakeLine
  <2>2. CASE line.ended \/ Kept(line) = <<>>
    <3>1. /\ data' = Kept(line) /\ UNCHANGED got
          /\ IF line.ended THEN UNCHANGED call ELSE FailWith("eof")
      BY <2>1, <2>2 DEF TakeField, Kept
    <3> QED
      BY <1>1, <1>2, <1>8, <3>1 DEF GoesOn
  <2>3. CASE ~(line.ended \/ Kept(line) = <<>>)
    <3>1. \E field : Dispatch(Kept(line), field)
      BY <2>1, <2>3 DEF TakeField, Kept
    <3> QED
      BY <1>3, <2>3, <3>1 DEF Ends
  <2> QED
    BY <2>2, <2>3
<1> QED
  BY <1>5, <1>6, <1>7, <1>8

(* The lines of one event are of no other: what Next returns is the event  *)
(* its data lines are of.                                                  *)
LEMMA ParsedIs ==
    ASSUME Typed, NEW lines \in Seq(Part), lines # <<>>, NEW id,
           \A i \in DOMAIN lines : lines[i].id = id, NEW e \in Parsed(lines)
    PROVE  id \in DOMAIN sent /\ e = sent[id]
<1>1. PICK i \in DOMAIN sent : e = sent[i]
  BY DEF Parsed
<1>2. lines = [p \in 1..e.parts |-> [id |-> e.id, part |-> p]]
  BY DEF Parsed
<1>3. 1 \in DOMAIN lines
  BY EmptySeq
<1>4. 1 \in 1..e.parts
  BY <1>2, <1>3
<1>5. lines[1].id = e.id
  BY <1>2, <1>4
<1>6. e.id = i
  BY <1>1 DEF Typed
<1> QED
  BY <1>1, <1>3, <1>5, <1>6

(* A line is read: the reader goes on to its place. *)
LEMMA ReadOrder ==
    ASSUME Typed, InOrder, GotFacts, ReadLine
    PROVE  /\ InOrder' /\ UNCHANGED sent
           /\ \/ got' = got
              \/ /\ ~Failed /\ ~Failed' /\ Len(got) + 1 \in DOMAIN sent
                 /\ \E field : got' = Append(got, Named(sent[Len(got) + 1], field))
<1> DEFINE line == Head(wire)
<1>1. /\ call = "reading" /\ wire # <<>> /\ wire' = Tail(wire) /\ ~Failed
      /\ UNCHANGED <<sent, frame, up, ctx>>
      /\ \/ call' \in Failures /\ got' = got
         \/ GoesOn(line) \/ Returns(line)
  BY Turn DEF Failed, Failures
<1>2. /\ wire \in Seq(AnyLine) /\ line \in AnyLine /\ data \in Seq(Part)
      /\ ~line.ended => wire' = <<>> /\ ~up
  BY <1>1, TailWire DEF Typed
<1>3. PICK places : /\ Path(wire, places) /\ AtReader(places[0])
                    /\ up => places[Len(wire)] = ServerPlace
  BY <1>1 DEF InOrder
<1> DEFINE a == places[0]
<1>4. /\ a \in Place /\ Len(got) \in Nat /\ a.id = Len(got) + 1
      /\ a.open <=> data # <<>>
      /\ \A i \in DOMAIN data : data[i].id = a.id
  <2>1. 0 \in 0..Len(wire)
    BY <1>2
  <2>2. a \in Place
    BY <1>3, <2>1 DEF Path
  <2>3. Len(got) \in Nat
    BY DEF GotFacts
  <2> QED
    BY <1>1, <1>3, <2>2, <2>3 DEF AtReader
<1>5. line.kind = "data" => line.part.id = a.id
  BY <1>1, <1>2, <1>3, PathTail
<1>6. PICK rest : /\ Path(wire', rest) /\ rest[0] = After(a, line)
                  /\ rest[Len(wire')] = places[Len(wire)]
  BY <1>1, <1>2, <1>3, PathTail
<1> HIDE DEF line, a
<1>7. /\ Kept(line) \in Seq(Part)
      /\ \A i \in DOMAIN Kept(line) : Kept(line)[i].id = a.id
      /\ line.kind = "data" => Kept(line) # <<>>
      /\ line.kind # "data" => Kept(line) = data
  <2>1. CASE line.kind = "data"
    <3>1. line.part \in Part
      BY <1>2, <2>1 DEF AnyLine, FieldLine, PartLine
    <3>2. /\ Append(data, line.part) \in Seq(Part) /\ Append(data, line.part) # <<>>
          /\ \A i \in DOMAIN Append(data, line.part) :
                (i \in DOMAIN data /\ Append(data, line.part)[i] = data[i])
                \/ Append(data, line.part)[i] = line.part
      BY <1>2, <3>1
    <3> QED
      BY <1>4, <1>5, <2>1, <3>2 DEF Kept
  <2>2. CASE line.kind # "data"
    BY <1>2, <1>4, <2>2 DEF Kept
  <2> QED
    BY <2>1, <2>2
<1>8. ASSUME AtReader(rest[0])'
      PROVE  InOrder'
  <2>1. Path(wire, rest)'
    BY <1>6 DEF Path, After
  <2>2. up' => rest[Len(wire')] = ServerPlace'
    BY <1>1, <1>3, <1>6 DEF ServerPlace
  <2> QED
    BY <1>8, <2>1, <2>2 DEF InOrder
<1>9. CASE call' \in Failures /\ got' = got
  BY <1>1, <1>9 DEF InOrder, Failed
<1>10. CASE GoesOn(line)
  <2>1. rest[0].id = a.id /\ (rest[0].open <=> data' # <<>>)
    <3>1. CASE line.kind = "data"
      BY <1>4, <1>6, <1>7, <1>10, <3>1 DEF GoesOn, After, Place
    <3>2. CASE line.kind # "data"
      BY <1>4, <1>6, <1>7, <1>10, <3>2 DEF GoesOn, After, Place
    <3> QED
      BY <3>1, <3>2
  <2>2. AtReader(rest[0])'
    BY <1>4, <1>7, <1>10, <2>1 DEF AtReader, GoesOn
  <2> QED
    BY <1>1, <1>8, <1>10, <2>2 DEF GoesOn
<1>11. CASE Returns(line)
  <2>1. PICK e \in Parsed(Kept(line)) : \E field : got' = Append(got, Named(e, field))
    BY <1>11 DEF Returns
  <2>2. a.id \in DOMAIN sent /\ e = sent[a.id]
    BY <1>7, <1>11, <2>1, ParsedIs DEF Returns
  <2>3. Len(got') = a.id
    <3>1. PICK S : got \in Seq(S)
      BY DEF GotFacts
    <3>2. \A x : Len(Append(got, x)) = Len(got) + 1
      BY <3>1
    <3> QED
      BY <1>4, <2>1, <3>2
  <2>4. call' = "idle" /\ ~Failed'
    BY <1>11 DEF Returns, Failed, Failures
  <2>5. CASE line.kind = "blank"
    <3>1. a.open
      BY <1>4, <1>7, <1>11, <2>5 DEF Returns
    <3>2. rest[0] = [id |-> a.id + 1, open |-> FALSE]
      BY <1>6, <2>5, <3>1 DEF After
    <3>3. AtReader(rest[0])'
      BY <2>3, <2>4, <3>2 DEF AtReader
    <3> QED
      BY <1>1, <1>4, <1>8, <2>1, <2>2, <2>4, <3>3
  <2>6. CASE line.kind # "blank"
    <3>1. wire' = <<>> /\ up' = FALSE
      BY <1>1, <1>2, <1>11, <2>6 DEF Returns, Ends, Typed
    <3> DEFINE here == [i \in 0..0 |-> [id |-> a.id + 1, open |-> FALSE]]
    <3>2. [id |-> a.id + 1, open |-> FALSE] \in Place
      BY <1>4 DEF Place
    <3>3. 0 \in 0..0 /\ Len(<<>>) = 0 /\ 1..0 = {}
      OBVIOUS
    <3>4. here \in [0..0 -> Place] /\ here[0] = [id |-> a.id + 1, open |-> FALSE]
      BY <3>2, <3>3
    <3> HIDE DEF here
    <3>5. Path(wire, here)'
      BY <3>1, <3>3, <3>4 DEF Path
    <3>6. AtReader(here[0])'
      BY <2>3, <2>4, <3>4 DEF AtReader
    <3>7. InOrder'
      BY <3>1, <3>5, <3>6 DEF InOrder
    <3> QED
      BY <1>1, <1>4, <2>1, <2>2, <2>4, <3>7
  <2> QED
    BY <2>5, <2>6
<1> QED
  BY <1>1, <1>9, <1>10, <1>11

-----------------------------------------------------------------------------
Event == [id : Nat, json : BOOLEAN, parts : Nat, type : Types]

(* What the feed delivers: the events as sent, whatever field named them. *)
FeedGot == [i \in DOMAIN got |->
               IF i \in DOMAIN sent /\ sent[i].type = ""
               THEN [got[i] EXCEPT !.type = ""] ELSE got[i]]

LEMMA Unnamed ==
    ASSUME NEW e \in Event, NEW field
    PROVE  (IF e.type = "" THEN [Named(e, field) EXCEPT !.type = ""] ELSE Named(e, field)) = e
<1>1. CASE e.type = ""
  <2>1. Named(e, field) = [e EXCEPT !.type = field]
    BY <1>1 DEF Named
  <2>2. [[e EXCEPT !.type = field] EXCEPT !.type = ""] = [e EXCEPT !.type = ""]
    BY DEF Event
  <2>3. [e EXCEPT !.type = ""] = e
    BY <1>1 DEF Event
  <2> QED
    BY <1>1, <2>1, <2>2, <2>3
<1>2. CASE e.type # ""
  BY <1>2 DEF Named
<1> QED
  BY <1>1, <1>2

LEMMA FeedGotIs ==
    ASSUME Typed, GotFacts
    PROVE  FeedGot = [i \in 1..Len(got) |-> sent[i]]
<1>1. sent \in Seq(Event)
  BY DEF Typed, Event
<1>2. PICK S : got \in Seq(S)
  BY DEF GotFacts
<1>3. /\ DOMAIN got = 1..Len(got) /\ DOMAIN sent = 1..Len(sent)
      /\ Len(got) \in Nat /\ Len(sent) \in Nat /\ Len(got) <= Len(sent)
  BY <1>1, <1>2 DEF GotFacts
<1>4. ASSUME NEW i \in 1..Len(got)
      PROVE  (IF i \in DOMAIN sent /\ sent[i].type = ""
              THEN [got[i] EXCEPT !.type = ""] ELSE got[i]) = sent[i]
  <2>1. i \in DOMAIN sent
    BY <1>3
  <2>2. sent[i] \in Event
    BY <1>1, <2>1
  <2>3. PICK field : got[i] = Named(sent[i], field)
    BY DEF GotFacts
  <2> QED
    BY <2>1, <2>2, <2>3, Unnamed
<1> QED
  BY <1>3, <1>4 DEF FeedGot

(* A step sends an event, or returns the next, or fails, or does none.     *)
LEMMA OrderStep ==
    ASSUME Typed, InOrder, GotFacts, [Next]_vars
    PROVE  /\ InOrder'
           /\ \/ /\ UNCHANGED <<got, call>> /\ ~Failed
                 /\ sent' = sent \/ \E e : sent' = Append(sent, e)
              \/ UNCHANGED <<got, sent>> /\ (Failed => Failed')
              \/ /\ UNCHANGED sent /\ ~Failed /\ ~Failed' /\ Len(got) + 1 \in DOMAIN sent
                 /\ \E field : got' = Append(got, Named(sent[Len(got) + 1], field))
<1>1. CASE WriteData
  <2>1. UNCHANGED call /\ ~Failed /\ (sent' = sent \/ \E e : sent' = Append(sent, e))
    BY <1>1 DEF WriteData, Write
  <2> QED
    BY <1>1, <2>1, WriteDataOrder
<1>2. CASE WriteOther \/ WriteBlank
  <2>1. UNCHANGED <<call, sent>> /\ ~Failed
    BY <1>2 DEF WriteOther, WriteBlank, Write
  <2> QED
    BY <1>2, <2>1, WriteFieldOrder
<1>3. CASE Cut
  <2>1. UNCHANGED <<call, sent>>
    BY <1>3 DEF Cut, serverVars
  <2> QED
    BY <1>3, <2>1, CutOrder DEF Failed
<1>4. CASE CtxEnd \/ UNCHANGED vars
  <2>1. UNCHANGED <<sent, frame, wire, up, call, data, got>>
    BY <1>4 DEF CtxEnd, vars, serverVars, nextVars
  <2>2. InOrder'
    <3>1. ASSUME NEW places
          PROVE  /\ Path(wire, places)' <=> Path(wire, places)
                 /\ AtReader(places[0])' <=> AtReader(places[0])
                 /\ places[Len(wire')] = places[Len(wire)] /\ ServerPlace' = ServerPlace
      BY <2>1 DEF Path, After, AtReader, ServerPlace
    <3> QED
      BY <2>1, <3>1 DEF InOrder, Failed
  <2> QED
    BY <2>1, <2>2 DEF Failed
<1>5. CASE CallNext
  <2>1. /\ call = "idle" /\ call' \in {"reading", "ctx"} /\ data' = <<>>
        /\ UNCHANGED <<sent, frame, wire, up, got>>
    BY <1>5 DEF CallNext, FailWith, serverVars
  <2>2. ~Failed
    BY <2>1 DEF Failed, Failures
  <2>3. ASSUME NEW places, AtReader(places[0]), call' = "reading"
        PROVE  AtReader(places[0])'
    <3>1. DOMAIN <<>> = {}
      OBVIOUS
    <3> QED
      BY <2>1, <2>3, <3>1 DEF AtReader
  <2>4. InOrder'
    <3>1. CASE call' = "reading"
      <4>1. PICK places : /\ Path(wire, places) /\ AtReader(places[0])
                          /\ up => places[Len(wire)] = ServerPlace
        BY <2>2 DEF InOrder
      <4>2. Path(wire, places)' /\ (up' => places[Len(wire')] = ServerPlace')
        BY <2>1, <4>1 DEF Path, After, ServerPlace
      <4> QED
        BY <2>3, <3>1, <4>1, <4>2 DEF InOrder
    <3>2. CASE call' = "ctx"
      BY <3>2 DEF InOrder, Failed, Failures
    <3> QED
      BY <2>1, <3>1, <3>2
  <2> QED
    BY <2>1, <2>2, <2>4
<1>6. CASE ReadLine
  <2>1. ~Failed
    BY <1>6 DEF ReadLine, Failed, Failures
  <2> QED
    BY <1>6, <2>1, ReadOrder
<1>7. CASE ReadEnd
  <2>1. call' \in Failures /\ UNCHANGED <<sent, got>>
    BY <1>7 DEF ReadEnd, FailWith, Failures, serverVars
  <2> QED
    BY <2>1 DEF InOrder, Failed
<1> QED
  BY <1>1, <1>2, <1>3, <1>4, <1>5, <1>6, <1>7 DEF Next

LEMMA GotStep == Typed /\ InOrder /\ GotFacts /\ [Next]_vars => GotFacts'
<1> SUFFICES ASSUME Typed, InOrder, GotFacts, [Next]_vars
             PROVE  GotFacts'
  OBVIOUS
<1>1. sent \in Seq(Event) /\ Len(sent) \in Nat /\ Len(got) \in Nat /\ Len(got) <= Len(sent)
  <2>1. sent \in Seq(Event)
    BY DEF Typed, Event
  <2> QED
    BY <2>1 DEF GotFacts
<1>2. ASSUME NEW e, sent' = Append(sent, e), got' = got
      PROVE  GotFacts'
  <2>1. Len(sent') = Len(sent) + 1 /\ \A i \in 1..Len(sent) : sent'[i] = sent[i]
    BY <1>1, <1>2
  <2>2. \A i \in 1..Len(got) : i \in 1..Len(sent) /\ sent'[i] = sent[i]
    BY <1>1, <2>1
  <2>3. \A i \in 1..Len(got) : \E field : got[i] = Named(sent'[i], field)
    BY <2>2 DEF GotFacts
  <2>4. Len(got) <= Len(sent')
    BY <1>1, <2>1
  <2> QED
    BY <1>2, <2>3, <2>4 DEF GotFacts, Named
<1>3. UNCHANGED <<sent, got>> => GotFacts'
  BY DEF GotFacts, Named
<1>4. ASSUME NEW field, got' = Append(got, Named(sent[Len(got) + 1], field)),
             UNCHANGED sent, Len(got) + 1 \in DOMAIN sent
      PROVE  GotFacts'
  <2> DEFINE e == Named(sent[Len(got) + 1], field)
  <2>1. PICK S : got \in Seq(S)
    BY DEF GotFacts
  <2>2. got' = Append(got, e)
    BY <1>4
  <2> HIDE DEF e
  <2> DEFINE T == S \cup {e}
  <2>3. got \in Seq(T) /\ e \in T
    BY <2>1
  <2> HIDE DEF T
  <2>4. /\ got' \in Seq(T) /\ Len(got') = Len(got) + 1
        /\ \A i \in 1..Len(got) : got'[i] = got[i]
        /\ got'[Len(got) + 1] = e
    BY <2>2, <2>3
  <2>5. Len(got') <= Len(sent)
    BY <1>1, <1>4, <2>4
  <2>6. ASSUME NEW i \in 1..Len(got')
        PROVE  \E f : got'[i] = Named(sent[i], f)
    <3>1. CASE i \in 1..Len(got)
      BY <2>4, <3>1 DEF GotFacts
    <3>2. CASE i = Len(got) + 1
      BY <2>4, <3>2 DEF e
    <3> QED
      BY <1>1, <2>4, <3>1, <3>2
  <2>7. \A i \in 1..Len(got') : \E f : got'[i] = Named(sent[i], f)'
    BY <1>4, <2>6 DEF Named
  <2> QED
    BY <1>4, <2>4, <2>5, <2>7 DEF GotFacts
<1> QED
  BY <1>2, <1>3, <1>4, OrderStep

LEMMA OrderInvariance == Spec => [](Typed /\ InOrder /\ GotFacts)
<1>1. Init => InOrder
  <2> SUFFICES ASSUME Init
               PROVE  InOrder
    OBVIOUS
  <2>0. sent = <<>> /\ frame = NoFrame /\ wire = <<>> /\ call = "idle" /\ got = <<>>
    BY DEF Init
  <2>1. /\ sent = <<>> /\ frame = NoFrame /\ wire = <<>> /\ call = "idle" /\ got = <<>>
        /\ Len(<<>>) = 0 /\ 0 + 1 = 1
    BY <2>0
  <2> DEFINE here == [i \in 0..0 |-> [id |-> 1, open |-> FALSE]]
  <2>2. [id |-> 1, open |-> FALSE] \in Place /\ 0 \in 0..0 /\ 1..0 = {}
    BY DEF Place
  <2>3. here \in [0..0 -> Place] /\ here[0] = [id |-> 1, open |-> FALSE]
    BY <2>2
  <2> HIDE DEF here
  <2>4. ServerPlace = [id |-> 1, open |-> FALSE]
    <3>1. frame.parts = 0 /\ (0 > 0) = FALSE
      BY <2>1 DEF NoFrame
    <3> QED
      BY <2>1, <3>1 DEF ServerPlace
  <2>5. Path(wire, here) /\ AtReader(here[0])
    BY <2>1, <2>2, <2>3 DEF Path, AtReader
  <2> QED
    BY <2>1, <2>3, <2>4, <2>5 DEF InOrder
<1>2. Init => GotFacts
  <2>1. <<>> \in Seq({}) /\ Len(<<>>) = 0 /\ 1..0 = {} /\ 0 <= 0
    OBVIOUS
  <2>2. Init => got = <<>> /\ sent = <<>>
    BY DEF Init
  <2>3. got = <<>> /\ sent = <<>> => GotFacts
    BY <2>1 DEF GotFacts
  <2> QED
    BY <2>2, <2>3
<1>3. Typed /\ InOrder /\ GotFacts /\ [Next]_vars => InOrder' /\ GotFacts'
  BY OrderStep, GotStep
<1> QED
  BY <1>1, <1>2, <1>3, Invariance, PTL DEF Spec

(* Events come whole, once and in the order in which they were sent, until *)
(* the reader fails, however their payloads are spread over lines, what    *)
(* lines are strewn in and wherever the connection is cut: the reader      *)
(* implements the feed that streams rely on.                               *)
THEOREM ReaderImplementsFeed == Spec => ImplementsFeed
<1> DEFINE Delivered == FeedGot = [i \in 1..Len(got) |-> sent[i]]
<1>0. Typed /\ GotFacts => Delivered
  BY FeedGotIs
<1>1. Init => Feed!Init
  <2>1. Init => got = <<>> /\ sent = <<>> /\ call = "idle"
    BY DEF Init
  <2>2. got = <<>> => FeedGot = <<>>
    BY DEF FeedGot
  <2>3. call = "idle" => Failed = FALSE
    BY DEF Failed, Failures
  <2> QED
    BY <2>1, <2>2, <2>3 DEF Feed!Init, FeedGot
<1>2. /\ Typed /\ InOrder /\ GotFacts /\ [Next]_vars /\ Delivered /\ Delivered'
      => [Feed!Send \/ Feed!Deliver \/ Feed!Fail]_<<sent, FeedGot, Failed>>
  <2> SUFFICES ASSUME Typed, InOrder, GotFacts, [Next]_vars, Delivered, Delivered'
               PROVE  \/ Feed!Send \/ Feed!Deliver \/ Feed!Fail
                      \/ UNCHANGED <<sent, FeedGot, Failed>>
    OBVIOUS
  <2>1. /\ FeedGot = [i \in 1..Len(got) |-> sent[i]]
        /\ FeedGot' = [i \in 1..Len(got') |-> sent'[i]]
    OBVIOUS
  <2>2. /\ sent \in Seq(Event) /\ Len(sent) \in Nat /\ Len(got) \in Nat
        /\ Len(got) <= Len(sent)
    <3>1. sent \in Seq(Event)
      BY DEF Typed, Event
    <3> QED
      BY <3>1 DEF GotFacts
  <2>3. ASSUME NEW e, sent' = Append(sent, e), UNCHANGED <<got, call>>
        PROVE  Feed!Send
    <3>1. /\ Len(sent') = Len(sent) + 1 /\ SubSeq(sent', 1, Len(sent)) = sent
          /\ \A i \in 1..Len(got) : sent'[i] = sent[i]
      <4> DEFINE T == Event \cup {e}
      <4>1. sent \in Seq(T) /\ e \in T
        BY <2>2
      <4> HIDE DEF T
      <4> QED
        BY <2>2, <2>3, <4>1
    <3>2. FeedGot' = FeedGot /\ Failed' = Failed
      BY <2>1, <2>3, <3>1 DEF Failed
    <3> QED
      BY <3>1, <3>2 DEF Feed!Send, FeedGot
  <2>4. ASSUME UNCHANGED <<got, sent>>, Failed => Failed'
        PROVE  Feed!Fail \/ UNCHANGED <<sent, FeedGot, Failed>>
    <3>1. FeedGot' = FeedGot
      BY <2>1, <2>4
    <3>2. Failed \in BOOLEAN /\ Failed' \in BOOLEAN
      BY DEF Failed
    <3>3. Failed' = Failed \/ (~Failed /\ Failed' = TRUE)
      BY <2>4, <3>2
    <3> QED
      BY <2>4, <3>1, <3>3 DEF Feed!Fail, FeedGot
  <2>5. ASSUME UNCHANGED sent, ~Failed, ~Failed', Len(got) + 1 \in DOMAIN sent,
               NEW field, got' = Append(got, Named(sent[Len(got) + 1], field))
        PROVE  Feed!Deliver
    <3>1. Len(got') = Len(got) + 1
      <4>1. PICK S : got \in Seq(S)
        BY DEF GotFacts
      <4>2. \A x : Len(Append(got, x)) = Len(got) + 1
        BY <4>1
      <4> QED
        BY <2>5, <4>2
    <3>2. Len(FeedGot) = Len(got) /\ Len(got) < Len(sent) /\ FeedGot \in Seq(Event)
      <4>1. \A i \in 1..Len(got) : sent[i] \in Event
        BY <2>2
      <4> QED
        BY <2>1, <2>2, <2>5, <4>1
    <3>3. FeedGot' = Append(FeedGot, sent[Len(got) + 1])
      <4>1. FeedGot' = [i \in 1..(Len(got) + 1) |-> sent[i]]
        BY <2>1, <2>5, <3>1
      <4> QED
        BY <2>1, <2>2, <3>2, <4>1
    <3>4. Failed' = Failed
      BY <2>5 DEF Failed
    <3> HIDE DEF FeedGot
    <3>5. /\ ~Failed /\ Len(FeedGot) < Len(sent)
          /\ FeedGot' = Append(FeedGot, sent[Len(FeedGot) + 1])
          /\ UNCHANGED <<sent, Failed>>
      BY <2>5, <3>2, <3>3, <3>4
    <3> QED
      BY <3>5 DEF Feed!Deliver, FeedGot
  <2> QED
    BY <2>3, <2>4, <2>5, OrderStep DEF Failed
<1>3. ImplementsFeed <=> Feed!Init /\ [][Feed!Send \/ Feed!Deliver \/ Feed!Fail]_<<sent, FeedGot, Failed>>
  BY DEF ImplementsFeed, Feed!Spec, FeedGot
<1> QED
  BY <1>0, <1>1, <1>2, <1>3, OrderInvariance, PTL DEF Spec
=============================================================================
