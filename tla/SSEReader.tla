----------------------------- MODULE SSEReader -----------------------------
(***************************************************************************)
(* The reader of OpenCode's event stream: sseReader.Next under             *)
(* EventStream.Next (internal/opencode/client.go), line by line, while     *)
(* OpenCode writes and the connection may end anywhere, also in the middle *)
(* of a line.  It implements EventFeed.                                    *)
(*                                                                         *)
(* The JSON payload of an event may be spread over several data lines.  A  *)
(* data line is named by its event and part.  Only all parts of an event   *)
(* in their order parse: no proper prefix of a JSON object is an object.   *)
(***************************************************************************)
EXTENDS Naturals, Sequences

CONSTANTS MaxFrameBytes, \* maxSSEFrameBytes
          MaxParts,      \* bound on the data lines of an event
          DataBytes,     \* lengths of a data line; other lines have length 1
          Types,         \* type fields of a payload, "" for none
          MaxLines,      \* bound on the lines OpenCode writes
          MaxWire        \* bound on the lines on their way

ASSUME ReaderAssumption == /\ MaxFrameBytes \in Nat /\ MaxParts \in Nat \ {0}
                           /\ MaxLines \in Nat /\ MaxWire \in Nat /\ DataBytes \subseteq Nat
                           /\ "" \in Types

VARIABLES
    sent,    \* events whose payload OpenCode has written
    frame,   \* data lines of the frame it is writing; is it the whole payload?
    written, \* how many lines it wrote
    wire,    \* lines on their way
    up,      \* the connection is up
    ctx,     \* the stream's context is live
    call,    \* EventStream.Next: "idle", "reading", or how it failed
    data,    \* dataLines
    type,    \* eventType
    bytes,   \* frameBytes
    got,     \* the events Next returned
    since    \* bytes read since the last empty line (history)

serverVars == <<sent, frame, written>>
nextVars == <<data, type, bytes>>
vars == <<serverVars, wire, up, ctx, call, nextVars, got, since>>

NoFrame == [parts |-> 0, whole |-> TRUE]

(* A line has the event and part of its data, or the value of its field.   *)
Line(kind, value) == [kind |-> kind, value |-> value, bytes |-> 1, ended |-> TRUE]
DataLine(id, part, n) == [kind |-> "data", part |-> [id |-> id, part |-> part],
                          bytes |-> n, ended |-> TRUE]
Failures == {"eof", "too large", "malformed", "ctx"}
Failed == call \in Failures

SSETypeOK ==
    /\ \A i \in DOMAIN sent : sent[i].id = i /\ sent[i].type \in Types
    /\ frame.parts \in 0..MaxParts /\ frame.whole \in BOOLEAN /\ written \in 0..MaxLines
    /\ \A i \in DOMAIN wire : wire[i].ended \/ (i = Len(wire) /\ ~up)
    /\ up \in BOOLEAN /\ ctx \in BOOLEAN
    /\ call \in {"idle", "reading"} \cup Failures
    /\ \A i \in DOMAIN data : data[i].part \in 0..MaxParts
    /\ bytes \in Nat /\ since \in Nat

Init == /\ sent = <<>> /\ frame = NoFrame /\ written = 0
        /\ wire = <<>> /\ up = TRUE /\ ctx = TRUE
        /\ call = "idle" /\ data = <<>> /\ type = "" /\ bytes = 0
        /\ got = <<>> /\ since = 0

-----------------------------------------------------------------------------
(* OpenCode writes: comments, event fields and fields the reader does not  *)
(* know between all other lines, and an empty line where no payload is     *)
(* unfinished.  The handler closes a stream that has failed.               *)
Write(line) == /\ up /\ ~Failed /\ written < MaxLines /\ Len(wire) < MaxWire
               /\ written' = written + 1
               /\ wire' = Append(wire, line)
               /\ UNCHANGED <<up, ctx, call, nextVars, got, since>>

WriteData ==
    \E n \in DataBytes, last \in BOOLEAN :
        /\ frame = NoFrame \/ ~frame.whole
        /\ last \/ frame.parts + 1 < MaxParts
        /\ Write(DataLine(Len(sent) + 1, frame.parts + 1, n))
        /\ frame' = [parts |-> frame.parts + 1, whole |-> last]
        /\ IF last THEN \E t \in Types, ok \in BOOLEAN :
                          sent' = Append(sent, [id |-> Len(sent) + 1, json |-> ok,
                                                parts |-> frame.parts + 1, type |-> t])
           ELSE UNCHANGED sent

WriteOther == /\ \/ Write(Line("comment", ""))
                 \/ Write(Line("event", "noise"))
                 \/ Write(Line("unknown", ""))
              /\ UNCHANGED <<sent, frame>>

WriteBlank == /\ frame.whole
              /\ Write(Line("blank", ""))
              /\ frame' = NoFrame
              /\ UNCHANGED sent

(* What may be left of a line: all but its end, a part of its value or of  *)
(* its field's name.                                                       *)
Cuts(line) ==
    LET cut == [line EXCEPT !.ended = FALSE]
    IN  CASE line.kind = "data"  -> {cut, [cut EXCEPT !.part.part = 0],
                                     [cut EXCEPT !.kind = "unknown"]}
          [] line.kind = "event" -> {cut, [cut EXCEPT !.value = "noi"],
                                     [cut EXCEPT !.kind = "unknown"]}
          [] OTHER               -> {cut}

(* The connection ends, by OpenCode, the network, the timeout of the HTTP  *)
(* client or the context: the lines that were not received are lost.       *)
Cut == /\ up /\ ~Failed
       /\ up' = FALSE
       /\ \E k \in 0..Len(wire) :
             \/ wire' = SubSeq(wire, 1, k)
             \/ \E l \in {wire[i] : i \in DOMAIN wire \cap {k + 1}} :
                   \E rest \in Cuts(l) : wire' = Append(SubSeq(wire, 1, k), rest)
       /\ UNCHANGED <<serverVars, ctx, call, nextVars, got, since>>

CtxEnd == /\ ctx /\ ~Failed
          /\ ctx' = FALSE
          /\ UNCHANGED <<serverVars, wire, up, call, nextVars, got, since>>

-----------------------------------------------------------------------------
(* EventStream.Next looks at the context first; an error that comes after  *)
(* the end of the context is the context's.                                *)
FailWith(why) == call' = IF ctx THEN why ELSE "ctx"

CallNext == /\ call = "idle"
            /\ IF ctx THEN call' = "reading" ELSE FailWith("ctx")
            /\ data' = <<>> /\ type' = "" /\ bytes' = 0
            /\ UNCHANGED <<serverVars, wire, up, ctx, got, since>>

(* Mutant of Named: the event field of the stream wins over the payload. *)
NamedByField(e, field) == IF field = "" THEN e ELSE [e EXCEPT !.type = field]

(* parseSSEEvent: the type in the payload wins over the event field.       *)
Named(e, field) == IF e.type = "" THEN [e EXCEPT !.type = field] ELSE e

(* The event whose payload the lines are, if they are one. *)
Parsed(lines) ==
    {e \in {sent[i] : i \in DOMAIN sent} :
        e.json /\ lines = [p \in 1..e.parts |-> [id |-> e.id, part |-> p]]}

Dispatch(lines, field) ==
    /\ IF Parsed(lines) = {} THEN FailWith("malformed") /\ UNCHANGED got
       ELSE \E e \in Parsed(lines) : call' = "idle" /\ got' = Append(got, Named(e, field))
    /\ UNCHANGED nextVars

Skip == UNCHANGED <<call, data, type, got>>
SkipOrEnd(line) == IF line.ended THEN Skip
                   ELSE FailWith("eof") /\ UNCHANGED <<data, type, got>>

(* Mutant of TakeBlank: empty lines without data keep the count. *)
TakeBlankCounting(line, count) ==
    IF data = <<>> THEN bytes' = count /\ SkipOrEnd(line) ELSE Dispatch(data, type)

(* Mutant of TakeBlank: a frame without an event field is not dispatched. *)
TakeBlankNamed(line, count) ==
    IF data = <<>> \/ type = "" THEN bytes' = 0 /\ SkipOrEnd(line)
    ELSE Dispatch(data, type)

TakeBlank(line, count) ==
    IF data = <<>> THEN bytes' = 0 /\ SkipOrEnd(line) ELSE Dispatch(data, type)

(* A line that is the last of the connection ends the frame, if the frame  *)
(* has data.                                                               *)
TakeField(line, count) ==
    LET d == IF line.kind = "data" THEN Append(data, line.part) ELSE data
        t == IF line.kind = "event" THEN line.value ELSE type
    IN  IF line.ended \/ d = <<>>
        THEN /\ data' = d /\ type' = t /\ bytes' = count
             /\ IF line.ended THEN UNCHANGED call ELSE FailWith("eof")
             /\ UNCHANGED got
        ELSE Dispatch(d, t)

TakeLine(line, count) ==
    IF count > MaxFrameBytes THEN FailWith("too large") /\ UNCHANGED <<nextVars, got>>
    ELSE CASE line.kind = "blank"   -> TakeBlank(line, count)
           [] line.kind = "comment" -> bytes' = count /\ SkipOrEnd(line)
           [] OTHER                 -> TakeField(line, count)

(* One turn of the loop in sseReader.Next. *)
ReadLine == /\ call = "reading" /\ wire # <<>>
            /\ wire' = Tail(wire)
            /\ since' = IF Head(wire).kind = "blank" /\ bytes + 1 <= MaxFrameBytes THEN 0
                        ELSE since + Head(wire).bytes
            /\ \E count \in {bytes + Head(wire).bytes} : TakeLine(Head(wire), count)
            /\ UNCHANGED <<serverVars, up, ctx>>

(* Mutant of ReadEnd: the end of the stream is waited out. *)
ReadEndWaits == /\ call = "reading" /\ wire = <<>> /\ ~ctx
                /\ FailWith("eof")
                /\ UNCHANGED <<serverVars, wire, up, ctx, nextVars, got, since>>

ReadEnd == /\ call = "reading" /\ wire = <<>> /\ ~up
           /\ FailWith("eof")
           /\ UNCHANGED <<serverVars, wire, up, ctx, nextVars, got, since>>

Next == \/ WriteData \/ WriteOther \/ WriteBlank \/ Cut \/ CtxEnd
        \/ CallNext \/ ReadLine \/ ReadEnd

Spec == Init /\ [][Next]_vars

(* The stream's handler calls Next until it fails, lines that have arrived *)
(* are read, and a context that has ended ends the connection.  OpenCode   *)
(* may stop writing anywhere.                                              *)
Fairness == /\ WF_vars(CallNext) /\ WF_vars(ReadLine) /\ WF_vars(ReadEnd)
            /\ WF_vars(~ctx /\ Cut)
FairSpec == Spec /\ Fairness

-----------------------------------------------------------------------------
(* The reader implements the feed, wherever the connection is cut and      *)
(* however comments, empty lines and fields are strewn in: events come     *)
(* whole and in order, under the type of their payload where it has one.   *)
Feed == INSTANCE EventFeed WITH
            got <- [i \in DOMAIN got |->
                       IF i \in DOMAIN sent /\ sent[i].type = ""
                       THEN [got[i] EXCEPT !.type = ""] ELSE got[i]],
            over <- Failed
ImplementsFeed == Feed!Spec

(* The limit is on a frame, from one empty line to the next: keep-alives   *)
(* do not add up to it, and it never lets a longer frame through.          *)
LimitIsPerFrame == /\ call = "reading" /\ (up \/ wire # <<>>)
                         => since = bytes /\ since <= MaxFrameBytes
                   /\ call = "too large" => since > MaxFrameBytes

(* Whatever part of a frame the connection ends in, Next fails in the end, *)
(* so that the handler of a broken stream goes on.                         *)
BrokenFeedFails == ~up ~> Failed

(* In the long run all events that were sent to their empty line have been *)
(* returned, unless Next or the connection has failed.                     *)
EventsArrive == <>[](Len(got) = Len(sent) \/ frame # NoFrame \/ Failed \/ ~up)
=============================================================================
