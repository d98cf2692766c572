------------------------------ MODULE XEContexts ------------------------------
(***************************************************************************)
(* Accelerator contexts: the selectors of the user client that create,     *)
(* bind, present and destroy them.                                         *)
(*                                                                         *)
(* Each client calls on a thread of its own, at any time.  createContext   *)
(* takes no lock, so every access to fNextCtxId and to the OSArray         *)
(* fContexts is a step, and the history `raced' records the two meetings   *)
(* of callers that spoil them.                                             *)
(* lookupContext runs on the work loop for PRESENT.  A second list, the    *)
(* pointer contexts, is the one destroyContext searches; initContexts,     *)
(* which would allocate it, is never called and the pointer stays null.    *)
(***************************************************************************)
EXTENDS Integers

CONSTANTS Clients,      \* user clients, one calling thread each
          Capacity,     \* what fContexts is made for, and grows by: 8
          MaxCtx        \* bound: calls of createContext, and contexts listed

ASSUME ContextsAssumption ==
    Capacity \in Nat \ {0} /\ MaxCtx \in Nat /\ "nobody" \notin Clients

NoCtx == [ctxId |-> 0, owner |-> "nobody", surfCPU |-> FALSE]

VARIABLES
    fNextCtxId,
    array,       \* the slots of fContexts
    count,       \* how many of them are in use
    cpc,         \* where each client's thread is in createContext
    id, slot,    \* its locals: the identifier it took, the slot it appends to
    reply,       \* whether the client's reply buffer is large enough
    drawn,       \* history: calls of createContext
    raced,       \* history: "id" and "list", as callers met over them
    lost,        \* history: <<identifier, client>> of contexts not listed
    returned,    \* history: identifiers each client has been given
    lastCall     \* history: the last call of another selector, and of which context

vars == <<fNextCtxId, array, count, cpc, id, slot, reply, drawn, raced, lost,
          returned, lastCall>>
arrayVars == <<fNextCtxId, array, count>>
threadVars == <<cpc, id, slot, reply>>
history == <<drawn, raced, lost, returned, lastCall>>

Context == [ctxId: Nat, owner: Clients \cup {"nobody"}, surfCPU: BOOLEAN]

TypeOK ==
    /\ fNextCtxId \in 1..MaxCtx+1
    /\ array \in [1..MaxCtx -> Context] /\ count \in 0..MaxCtx
    /\ cpc \in [Clients -> {"idle", "bump", "count", "store", "grow", "reply"}]
    /\ id \in [Clients -> 0..MaxCtx] /\ slot \in [Clients -> 0..MaxCtx]
    /\ reply \in [Clients -> BOOLEAN]
    /\ drawn \in 0..MaxCtx /\ raced \subseteq {"id", "list"}
    /\ lost \subseteq (1..MaxCtx) \X Clients
    /\ returned \in [Clients -> SUBSET (1..MaxCtx)]
    /\ lastCall \in {"none", "destroy", "bind"} \X (0..MaxCtx)

Init ==
    /\ fNextCtxId = 1 /\ array = [i \in 1..MaxCtx |-> NoCtx] /\ count = 0
    /\ cpc = [u \in Clients |-> "idle"] /\ id = [u \in Clients |-> 0]
    /\ slot = [u \in Clients |-> 0] /\ reply = [u \in Clients |-> TRUE]
    /\ drawn = 0 /\ raced = {} /\ lost = {} /\ returned = [u \in Clients |-> {}]
    /\ lastCall = <<"none", 0>>
-----------------------------------------------------------------------------
(* kAccelSel_CreateContext.  The reply buffer is looked at last.           *)

\* Another client's thread is at one of the lines S.
OtherAt(u, S) == \E v \in Clients \ {u} : cpc[v] \in S

\* Two that read fNextCtxId before either has stored it draw the same.
CreateBegin(u, large) ==
    /\ cpc[u] = "idle" /\ drawn < MaxCtx /\ drawn' = drawn + 1
    /\ id' = [id EXCEPT ![u] = fNextCtxId]
    /\ reply' = [reply EXCEPT ![u] = large]
    /\ cpc' = [cpc EXCEPT ![u] = "bump"]
    /\ raced' = IF OtherAt(u, {"bump"}) THEN raced \cup {"id"} ELSE raced
    /\ UNCHANGED <<arrayVars, slot, lost, returned, lastCall>>

\* Mutation: the counter is not advanced.
NoBump(u) ==
    /\ cpc[u] = "bump"
    /\ cpc' = [cpc EXCEPT ![u] = "count"]
    /\ UNCHANGED <<arrayVars, id, slot, reply, history>>

\* fNextCtxId++ stores the value it read plus one.
Bump(u) ==
    /\ cpc[u] = "bump"
    /\ fNextCtxId' = id[u] + 1
    /\ cpc' = [cpc EXCEPT ![u] = "count"]
    /\ UNCHANGED <<array, count, id, slot, reply, history>>

\* Mutation: the count is advanced before the slot is filled.
ReadCountGrows(u) ==
    /\ cpc[u] = "count" /\ count < MaxCtx
    /\ slot' = [slot EXCEPT ![u] = count + 1]
    /\ count' = count + 1
    /\ cpc' = [cpc EXCEPT ![u] = "store"]
    /\ raced' = IF OtherAt(u, {"store", "grow"}) THEN raced \cup {"list"} ELSE raced
    /\ UNCHANGED <<fNextCtxId, array, id, reply, drawn, lost, returned, lastCall>>

\* OSArray::setObject appends: it reads the count, fills the slot and advances
\* the count.  Two that read it before either has advanced it collide.
ReadCount(u) ==
    /\ cpc[u] = "count" /\ count < MaxCtx
    /\ slot' = [slot EXCEPT ![u] = count + 1]
    /\ cpc' = [cpc EXCEPT ![u] = "store"]
    /\ raced' = IF OtherAt(u, {"store", "grow"}) THEN raced \cup {"list"} ELSE raced
    /\ UNCHANGED <<arrayVars, id, reply, drawn, lost, returned, lastCall>>

\* When OSData::withBytes fails the call returns identifier 0.
NoMemory(u) ==
    /\ cpc[u] = "count"
    /\ cpc' = [cpc EXCEPT ![u] = "idle"]
    /\ id' = [id EXCEPT ![u] = 0] /\ reply' = [reply EXCEPT ![u] = TRUE]
    /\ UNCHANGED <<arrayVars, slot, history>>

\* The slot is filled; when others have advanced the count past it meanwhile,
\* the contexts from there on move up by one.
Store(u) ==
    /\ cpc[u] = "store" /\ count < MaxCtx
    /\ array' = [i \in 1..MaxCtx |->
                   IF i = slot[u]
                   THEN [ctxId |-> id[u], owner |-> u, surfCPU |-> FALSE]
                   ELSE IF i \in slot[u]+1..count+1 THEN array[i-1] ELSE array[i]]
    /\ cpc' = [cpc EXCEPT ![u] = "grow"]
    /\ UNCHANGED <<fNextCtxId, count, id, slot, reply, history>>

\* A full list cannot be made larger: setObject returns false, at which
\* createContext does not look, and the context is freed.
StoreFails(u) ==
    /\ cpc[u] = "store" /\ count # 0 /\ count % Capacity = 0
    /\ lost' = lost \cup {<<id[u], u>>}
    /\ cpc' = [cpc EXCEPT ![u] = "reply"]
    /\ UNCHANGED <<arrayVars, id, slot, reply, drawn, raced, returned, lastCall>>

Grow(u) ==
    /\ cpc[u] = "grow" /\ count < MaxCtx
    /\ count' = count + 1
    /\ cpc' = [cpc EXCEPT ![u] = "reply"]
    /\ UNCHANGED <<fNextCtxId, array, id, slot, reply, history>>

\* kIOReturnSuccess with the identifier, listed or not, or
\* kIOReturnMessageTooLarge with the context already made.
Reply(u) ==
    /\ cpc[u] = "reply"
    /\ returned' = IF reply[u] THEN [returned EXCEPT ![u] = @ \cup {id[u]}]
                   ELSE returned
    /\ cpc' = [cpc EXCEPT ![u] = "idle"]
    /\ id' = [id EXCEPT ![u] = 0] /\ slot' = [slot EXCEPT ![u] = 0]
    /\ reply' = [reply EXCEPT ![u] = TRUE]
    /\ UNCHANGED <<arrayVars, drawn, raced, lost, lastCall>>
-----------------------------------------------------------------------------
(* The other selectors that concern contexts.                              *)

Indices(c) == {i \in 1..count : array[i].ctxId = c}

\* lookupContext: the first match, or null.
Lookup(c) ==
    IF Indices(c) = {} THEN NoCtx
    ELSE array[CHOOSE i \in Indices(c) : \A j \in Indices(c) : i <= j]

\* destroyContext finds the null list and returns false, which externalMethod
\* returns as the IOReturn 0: kIOReturnSuccess.
DestroyContext(u, c) ==
    /\ cpc[u] = "idle" /\ c \in returned[u]
    /\ lastCall' = <<"destroy", c>>
    /\ UNCHANGED <<arrayVars, threadVars, drawn, raced, lost, returned>>

\* externalMethod has no case for kAccelSel_BindSurface: the call falls to
\* the default, kIOReturnUnsupported, and bindSurface does not run.
BindSurface(u, c) ==
    /\ cpc[u] = "idle" /\ c \in returned[u]
    /\ lastCall' = <<"bind", c>>
    /\ UNCHANGED <<arrayVars, threadVars, drawn, raced, lost, returned>>

\* processCommand on the work loop: what a PRESENT of context c comes to; it
\* changes nothing here.
PresentOutcome(c) ==
    IF Lookup(c) = NoCtx THEN "not found"
    ELSE IF Lookup(c).surfCPU THEN "copied" ELSE "invalid"
-----------------------------------------------------------------------------
Create(u) ==
    \/ \E large \in BOOLEAN : CreateBegin(u, large)
    \/ Bump(u) \/ ReadCount(u) \/ NoMemory(u) \/ Store(u) \/ StoreFails(u)
    \/ Grow(u) \/ Reply(u)

Next ==
    \E u \in Clients :
        \/ Create(u)
        \/ \E c \in 1..MaxCtx : DestroyContext(u, c) \/ BindSurface(u, c)

Spec == Init /\ [][Next]_vars
-----------------------------------------------------------------------------
(* Properties, of clients that call at any time.                           *)

\* Until two callers draw the same identifier or append at the same place, an
\* identifier never finds another client's context: it finds that of the client
\* it was given to, or, when the list could not take it, nothing; whatever was
\* created or refused meanwhile, and whoever else was in createContext.
OwnOrNothing ==
    raced = {} =>
        \A u \in Clients : \A c \in returned[u] :
            \/ Lookup(c).owner = u
            \/ <<c, u>> \in lost /\ Lookup(c) = NoCtx

\* What PRESENT finds of a listed context is complete, because the slot is
\* filled before it is counted, unless two have appended at the same place.
NoHalfMade ==
    "list" \notin raced =>
        \A i \in 1..count : array[i].ctxId # 0 /\ array[i].owner # "nobody"

\* So far the list is a registry (XERegistry): a context appears on it in one
\* step, whole and under an identifier no other has or had, and stays; only its
\* own client is given it; and one the list could not take, which its client is
\* given all the same, is never listed.
Registry == INSTANCE XERegistry WITH
    Ids <- 1..MaxCtx,
    listed <- {<<array[i].ctxId, array[i].owner>> : i \in 1..count},
    given <- returned
ContextsAreRegistry ==
    /\ Registry!Init
    /\ [][raced' = {} => Registry!Next]_Registry!registry

-----------------------------------------------------------------------------
(* Claims of comments in the source that the code does not keep (README,    *)
(* section 5).  The run ctx_race shows the first, on a list with room.       *)

\* The identifier a client was given finds that client's context ("stored ...
\* within the fContexts array"; "A non-zero context ID on success, 0 on
\* failure").
LookupFindsOwn ==
    \A u \in Clients : \A c \in returned[u] : Lookup(c).owner = u

\* "Destroys an accelerator context": one reported destroyed is not found
\* again.
DestroyedIsGone == lastCall[1] = "destroy" => Lookup(lastCall[2]) = NoCtx

\* "Binds a surface's metadata to a context": once a client has called
\* BindSurface, a PRESENT of that context has a surface to copy.
BoundIsPresentable ==
    lastCall[1] = "bind" => PresentOutcome(lastCall[2]) = "copied"
=============================================================================
