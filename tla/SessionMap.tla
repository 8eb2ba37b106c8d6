----------------------------- MODULE SessionMap -----------------------------
(***************************************************************************)
(* What the session ledger promises: a chat is bound to an OpenCode        *)
(* session at most once and for ever, and a request is only ever routed to *)
(* the session its chat is bound to.                                       *)
(***************************************************************************)
CONSTANTS Chats, Requests, Sessions, ChatOf, Unbound

VARIABLES binding, \* the session of each chat, or Unbound
          route    \* the session each request was routed to, or Unbound

Init == /\ binding = [c \in Chats |-> Unbound]
        /\ route = [r \in Requests |-> Unbound]

Bind(c, s) == /\ binding[c] = Unbound
              /\ binding' = [binding EXCEPT ![c] = s]

Route(r, b) == /\ route[r] = Unbound /\ b[ChatOf[r]] # Unbound
               /\ route' = [route EXCEPT ![r] = b[ChatOf[r]]]

(* A request is routed by the binding it finds, or by the one it makes. *)
RouteFound(r) == Route(r, binding) /\ UNCHANGED binding
BindOnly(c, s) == Bind(c, s) /\ UNCHANGED route
BindAndRoute(r, s) == Bind(ChatOf[r], s) /\ Route(r, binding')

Next == \/ \E r \in Requests : RouteFound(r)
        \/ \E c \in Chats, s \in Sessions : BindOnly(c, s)
        \/ \E r \in Requests, s \in Sessions : BindAndRoute(r, s)

Spec == Init /\ [][Next]_<<binding, route>>
=============================================================================
