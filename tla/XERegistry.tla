------------------------------ MODULE XERegistry ------------------------------
(***************************************************************************)
(* What createContext gives the accelerator's clients: a registry that     *)
(* gives each new context an identifier nobody had, lists it with the      *)
(* client it belongs to, or loses it when the list cannot take it, and     *)
(* lets a client have the identifiers of its own contexts and no others.   *)
(* No selector takes a context off the list.                               *)
(***************************************************************************)
CONSTANTS Clients,    \* those who ask for contexts
          Ids         \* the identifiers there are

VARIABLES
    listed,     \* <<identifier, owner>> of every context on the list
    lost,       \* those of contexts the list could not take
    given       \* identifiers each client has been given

registry == <<listed, lost, given>>

Init == listed = {} /\ lost = {} /\ given = [u \in Clients |-> {}]

Fresh(n) == \A entry \in listed \cup lost : entry[1] # n

\* A client's context is listed, under a fresh identifier; the client may
\* never learn of it (its reply buffer was too small).
Enlist(u, n) ==
    /\ Fresh(n)
    /\ listed' = listed \cup {<<n, u>>}
    /\ UNCHANGED <<lost, given>>

Lose(u, n) ==
    /\ Fresh(n)
    /\ lost' = lost \cup {<<n, u>>}
    /\ UNCHANGED <<listed, given>>

Give(u, n) ==
    /\ <<n, u>> \in listed \cup lost
    /\ given' = [given EXCEPT ![u] = @ \cup {n}]
    /\ UNCHANGED <<listed, lost>>

Next == \E u \in Clients, n \in Ids : Enlist(u, n) \/ Lose(u, n) \/ Give(u, n)

Spec == Init /\ [][Next]_registry
=============================================================================
