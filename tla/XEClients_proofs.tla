---------------------------- MODULE XEClients_proofs ----------------------------
(***************************************************************************)
(* Proofs about XEClients: for any set of clients, each has exactly the    *)
(* references of its holders at every moment.                              *)
(***************************************************************************)
EXTENDS XEClients, TLAPS

\* A client with a handle is open, one that is attached has not been refused,
\* and one on its way through start() is attached.
Stages ==
    /\ \A c \in handle : at[c] = "open"
    /\ \A c \in attached : at[c] \in {"start", "open"}
    /\ \A c \in Clients : at[c] = "start" => c \in attached

ClientsInv == ClientsTypeOK /\ Stages /\ ReferencesHeld
-----------------------------------------------------------------------------
LEMMA InitClients == Init => ClientsInv
BY DEF Init, ClientsInv, ClientsTypeOK, Stages, ReferencesHeld

LEMMA NewUserClientStep ==
    ASSUME ClientsInv, NEW c \in Clients, newUserClient(c)
    PROVE  ClientsInv'
<1> USE DEF ClientsInv, ClientsTypeOK, Stages, ReferencesHeld, Goto, Retain, Release
<1>1. CASE Allocate(c)  BY <1>1 DEF Allocate
<1>2. CASE InitWithTask(c)  BY <1>2 DEF InitWithTask
<1>3. CASE AttachClient(c)  BY <1>3 DEF AttachClient
<1>4. CASE StartClient(c)  BY <1>4 DEF StartClient
<1> QED  BY <1>1, <1>2, <1>3, <1>4 DEF newUserClient

LEMMA OtherStep ==
    ASSUME ClientsInv,
           \/ \E c \in Clients : Close(c) \/ StopClient(c)
           \/ StartDevice \/ TerminateDevice \/ StopDevice
    PROVE  ClientsInv'
<1> USE DEF ClientsInv, ClientsTypeOK, Stages, ReferencesHeld, Goto, Retain, Release
<1>1. ASSUME NEW c \in Clients, Close(c) PROVE ClientsInv'  BY <1>1 DEF Close
<1>2. ASSUME NEW c \in Clients, StopClient(c) PROVE ClientsInv'
  BY <1>2 DEF StopClient
<1>3. CASE StartDevice  BY <1>3 DEF StartDevice
<1>4. CASE TerminateDevice  BY <1>4 DEF TerminateDevice
<1>5. CASE StopDevice  BY <1>5 DEF StopDevice
<1> QED  BY <1>1, <1>2, <1>3, <1>4, <1>5

LEMMA ClientsInductive == Spec => []ClientsInv
<1>1. ClientsInv /\ [Next]_vars => ClientsInv'
  <2> SUFFICES ASSUME ClientsInv, [Next]_vars PROVE ClientsInv'  OBVIOUS
  <2>1. CASE UNCHANGED vars
    BY <2>1 DEF vars, ClientsInv, ClientsTypeOK, Stages, ReferencesHeld
  <2>2. CASE Next  BY <2>2, NewUserClientStep, OtherStep DEF Next
  <2> QED  BY <2>1, <2>2
<1> QED  BY <1>1, InitClients, PTL DEF Spec
-----------------------------------------------------------------------------
\* The variables of the device and its clients keep their types, so that a
\* client never has more than two references or fewer than none (newUserClient,
\* clientClose, IOKit's termination).
THEOREM ClientsTypeCorrect == Spec => []ClientsTypeOK
BY ClientsInductive, PTL DEF ClientsInv

\* Whatever exit newUserClient takes and whenever the device goes away, a
\* client has the references of its holders and no other.
THEOREM ReferencesAlwaysHeld == Spec => []ReferencesHeld
BY ClientsInductive, PTL DEF ClientsInv
=============================================================================
