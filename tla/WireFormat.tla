----------------------------- MODULE WireFormat -----------------------------
(***************************************************************************)
(* What a client of stream=true may see: one error status and no chunk, or *)
(* status 200 and the chunks of a chat completion in their order: a role,  *)
(* text, one stop, at most one usage, [DONE].  The stream may be cut short *)
(* anywhere, and nothing that was sent is ever taken back.                 *)
(***************************************************************************)
EXTENDS Naturals, Sequences

CONSTANTS Clients, ErrorStatuses

VARIABLES status, \* the HTTP status each client got, or 0
          wire    \* the kinds of the chunks each client got

Init == /\ status = [c \in Clients |-> 0]
        /\ wire = [c \in Clients |-> <<>>]

Refuse(c, code) == /\ status[c] = 0
                   /\ status' = [status EXCEPT ![c] = code]
                   /\ UNCHANGED wire

Open(c) == /\ status[c] = 0
           /\ status' = [status EXCEPT ![c] = 200]
           /\ UNCHANGED wire

Followers == [role |-> {"text", "stop"}, text |-> {"text", "stop"},
              stop |-> {"usage", "done"}, usage |-> {"done"}, done |-> {}]
MayFollow(seq, kind) == IF seq = <<>> THEN kind = "role"
                        ELSE kind \in Followers[seq[Len(seq)]]

(* One or more chunks go out, each of which may follow the one before. *)
Send(c) == /\ status[c] = 200
           /\ wire'[c] # wire[c]
           /\ \A i \in 1..Len(wire[c]) : wire'[c][i] = wire[c][i]
           /\ \A i \in (Len(wire[c]) + 1)..Len(wire'[c]) :
                 MayFollow(SubSeq(wire'[c], 1, i - 1), wire'[c][i])
           /\ \A d \in Clients \ {c} : wire'[d] = wire[d]
           /\ UNCHANGED status

Next == \E c \in Clients : \/ \E code \in ErrorStatuses : Refuse(c, code)
                           \/ Open(c) \/ Send(c)

Spec == Init /\ [][Next]_<<status, wire>>
=============================================================================
