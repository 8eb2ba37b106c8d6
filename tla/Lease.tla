------------------------------- MODULE Lease -------------------------------
(***************************************************************************)
(* What a keyed lease table promises, whatever implements it: a free key   *)
(* may be granted to one client, which did not have a lease before, and    *)
(* only the end of that client's lease makes the key free again.  A client *)
(* has one lease in its life.                                              *)
(***************************************************************************)
CONSTANTS Keys, Clients

VARIABLES lease, \* the clients that hold a lease now, with the key of each
          spent  \* the clients whose lease is over

TypeOK == /\ lease \in SUBSET (Clients \X Keys)
          /\ spent \in SUBSET Clients

Init == lease = {} /\ spent = {}

Grant(c, k) == /\ c \notin spent
               /\ \A l \in lease : l[1] # c /\ l[2] # k
               /\ lease' = lease \cup {<<c, k>>}
               /\ UNCHANGED spent

End(c, k) == /\ <<c, k>> \in lease
             /\ lease' = lease \ {<<c, k>>}
             /\ spent' = spent \cup {c}

Next == \E c \in Clients, k \in Keys : Grant(c, k) \/ End(c, k)

Spec == Init /\ [][Next]_<<lease, spent>>
=============================================================================
