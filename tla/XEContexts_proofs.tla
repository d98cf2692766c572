--------------------------- MODULE XEContexts_proofs ---------------------------
(***************************************************************************)
(* Proofs about XEContexts, for any number of clients that call at any     *)
(* time and of contexts, refused calls in between: until two callers draw  *)
(* the same identifier or append at the same place, an identifier finds    *)
(* the context of the client it was given to, or nothing when the list     *)
(* could not take it; and the list is the registry XERegistry describes.   *)
(***************************************************************************)
EXTENDS XEContexts, TLAPS

Lines == {"idle", "bump", "count", "store", "grow", "reply"}
Making == {"count", "store", "grow"}
Appending == {"store", "grow"}
Counted == 1..count

\* Context c of client u is on the list.
IsListed(c, u) == \E i \in Counted : array[i].ctxId = c /\ array[i].owner = u

\* TypeOK in three parts; an identifier in use has been drawn.
ThreadTypes ==
    /\ drawn \in 0..MaxCtx /\ fNextCtxId \in 1..drawn+1 /\ count \in 0..MaxCtx
    /\ cpc \in [Clients -> Lines]
    /\ id \in [Clients -> 0..MaxCtx] /\ slot \in [Clients -> 0..MaxCtx]
    /\ \A u \in Clients : cpc[u] # "idle" => id[u] \in 1..drawn
    /\ \A u \in Clients : cpc[u] \in Appending => slot[u] \in 1..MaxCtx
    /\ reply \in [Clients -> BOOLEAN]

ListTypes == array \in [1..MaxCtx -> Context]

HistoryTypes ==
    /\ raced \subseteq {"id", "list"} /\ lost \subseteq (1..MaxCtx) \X Clients
    /\ returned \in [Clients -> SUBSET (1..MaxCtx)]
    /\ lastCall \in {"none", "destroy", "bind"} \X (0..MaxCtx)

\* One caller has read the counter and not yet advanced it, so that those past
\* it have distinct identifiers.
IdInv == "id" \notin raced =>
    /\ \A u, v \in Clients : cpc[u] = "bump" /\ cpc[v] = "bump" => u = v
    /\ \A u \in Clients : cpc[u] = "bump" => id[u] = fNextCtxId
    /\ \A u \in Clients : cpc[u] \in Making => id[u] < fNextCtxId
    /\ \A u, v \in Clients : cpc[u] \in Making /\ cpc[v] \in Making /\ id[u] = id[v]
                                => u = v

\* One caller appends, at the end of the list, which holds whole contexts.
ListInv == "list" \notin raced =>
    /\ \A u, v \in Clients : cpc[u] \in Appending /\ cpc[v] \in Appending => u = v
    /\ \A u \in Clients : cpc[u] \in Appending => slot[u] = count + 1
    /\ \A u \in Clients : cpc[u] = "grow" =>
            array[slot[u]].ctxId = id[u] /\ array[slot[u]].owner = u
    /\ \A i \in Counted : array[i].ctxId # 0 /\ array[i].owner \in Clients

\* Identifiers of the list are distinct, and those of contexts being made or
\* lost are not among them; what a client has been given, or is about to be, is
\* its own context, on the list or lost.
OwnInv == raced = {} =>
    /\ \A i \in Counted : array[i].ctxId < fNextCtxId
    /\ \A i, j \in Counted : array[i].ctxId = array[j].ctxId => i = j
    /\ \A e \in lost : e[1] < fNextCtxId /\ \A i \in Counted : array[i].ctxId # e[1]
    /\ \A u \in Clients : cpc[u] \in Making =>
            /\ \A i \in Counted : array[i].ctxId # id[u]
            /\ \A e \in lost : e[1] # id[u]
    /\ \A u \in Clients : cpc[u] = "reply" => IsListed(id[u], u) \/ <<id[u], u>> \in lost
    /\ \A u \in Clients : \A c \in returned[u] : IsListed(c, u) \/ <<c, u>> \in lost

CtxInv == ThreadTypes /\ ListTypes /\ HistoryTypes /\ IdInv /\ ListInv /\ OwnInv
-----------------------------------------------------------------------------
\* A selector that was called, with its context, is a last call.
LEMMA LastCalls ==
    ASSUME NEW s \in {"none", "destroy", "bind"}, NEW c \in 0..MaxCtx
    PROVE  <<s, c>> \in {"none", "destroy", "bind"} \X (0..MaxCtx)
OBVIOUS

LEMMA InitCtx == Init => CtxInv
<1> SUFFICES ASSUME Init PROVE CtxInv  OBVIOUS
<1>1. NoCtx \in Context  BY Zenon DEF NoCtx, Context
<1>2. reply \in [Clients -> BOOLEAN]  BY Zenon DEF Init
<1>3. ThreadTypes
  BY <1>2, ContextsAssumption DEF Init, ThreadTypes, Lines, Appending
<1>4. ListTypes /\ HistoryTypes
  <2>1. ListTypes  BY <1>1 DEF Init, ListTypes
  <2>2. lastCall \in {"none", "destroy", "bind"} \X (0..MaxCtx)
    <3>1. 0 \in 0..MaxCtx  BY ContextsAssumption
    <3>2. "none" \in {"none", "destroy", "bind"}  OBVIOUS
    <3>3. <<"none", 0>> \in {"none", "destroy", "bind"} \X (0..MaxCtx)
      BY <3>1, <3>2, LastCalls
    <3>4. lastCall = <<"none", 0>>  BY DEF Init
    <3> QED  BY <3>3, <3>4, Zenon
  <2> QED  BY <2>1, <2>2 DEF Init, HistoryTypes
<1>5. IdInv /\ ListInv /\ OwnInv
  BY DEF Init, IdInv, ListInv, OwnInv, Counted, Making, Appending
<1> QED  BY <1>3, <1>4, <1>5 DEF CtxInv

\* A caller goes on to another line, and the others stay where they are.
LEMMA Moves ==
    ASSUME CtxInv, NEW u \in Clients, NEW l \in Lines, cpc' = [cpc EXCEPT ![u] = l]
    PROVE  /\ cpc'[u] = l /\ \A v \in Clients \ {u} : cpc'[v] = cpc[v]
           /\ cpc' \in [Clients -> Lines]
BY DEF CtxInv, ThreadTypes

LEMMA BeginStep ==
    ASSUME CtxInv, NEW u \in Clients, NEW large \in BOOLEAN, CreateBegin(u, large)
    PROVE  CtxInv'
<1>1. /\ cpc[u] = "idle" /\ drawn < MaxCtx /\ drawn' = drawn + 1
      /\ cpc' = [cpc EXCEPT ![u] = "bump"] /\ id' = [id EXCEPT ![u] = fNextCtxId]
      /\ reply' = [reply EXCEPT ![u] = large]
      /\ raced \subseteq raced' /\ raced' \subseteq raced \cup {"id"}
      /\ "id" \notin raced' => \A v \in Clients \ {u} : cpc[v] # "bump"
      /\ UNCHANGED <<fNextCtxId, array, count, slot, lost, returned, lastCall>>
  BY DEF CreateBegin, OtherAt, arrayVars
<1>2. /\ cpc'[u] = "bump" /\ \A v \in Clients \ {u} : cpc'[v] = cpc[v]
      /\ cpc' \in [Clients -> Lines]
  BY <1>1, Moves DEF Lines
<1>3. id'[u] = fNextCtxId /\ \A v \in Clients \ {u} : id'[v] = id[v]
  BY <1>1 DEF CtxInv, ThreadTypes
<1>4. ThreadTypes'
  <2>1. fNextCtxId \in 1..drawn' /\ drawn' \in 0..MaxCtx
    BY <1>1, ContextsAssumption DEF CtxInv, ThreadTypes
  <2>2. id' \in [Clients -> 0..MaxCtx]
    BY <1>1, <2>1, ContextsAssumption DEF CtxInv, ThreadTypes
  <2>3. reply' \in [Clients -> BOOLEAN]  BY <1>1 DEF CtxInv, ThreadTypes
  <2> QED
    BY <1>1, <1>2, <1>3, <2>1, <2>2, <2>3, ContextsAssumption
       DEF CtxInv, ThreadTypes, Appending
<1>5. ListTypes' /\ HistoryTypes'
  BY <1>1 DEF CtxInv, ListTypes, HistoryTypes
<1>6. IdInv'  BY <1>1, <1>2, <1>3 DEF CtxInv, IdInv, Making
<1>7. ListInv'
  BY <1>1, <1>2, <1>3 DEF CtxInv, ListInv, Counted, Appending
<1>8. OwnInv'
  <2> SUFFICES ASSUME raced' = {} PROVE OwnInv'  BY DEF OwnInv
  <2>1. raced = {}  BY <1>1
  <2> QED  BY <1>1, <1>2, <1>3, <2>1 DEF CtxInv, OwnInv, IsListed, Counted, Making
<1> QED  BY <1>4, <1>5, <1>6, <1>7, <1>8 DEF CtxInv

\* The caller's identifier is the one the counter had, and it is not below it
\* any more.
LEMMA BumpStep ==
    ASSUME CtxInv, NEW u \in Clients, Bump(u)
    PROVE  CtxInv'
<1>1. /\ cpc[u] = "bump" /\ fNextCtxId' = id[u] + 1
      /\ cpc' = [cpc EXCEPT ![u] = "count"]
      /\ UNCHANGED <<array, count, id, slot, reply, drawn, raced, lost, returned, lastCall>>
  BY DEF Bump, history
<1>2. /\ cpc'[u] = "count" /\ \A v \in Clients \ {u} : cpc'[v] = cpc[v]
      /\ cpc' \in [Clients -> Lines]
  BY <1>1, Moves DEF Lines
<1>3. ThreadTypes'
  <2>1. id[u] \in 1..drawn /\ drawn \in 0..MaxCtx
    BY <1>1 DEF CtxInv, ThreadTypes
  <2>2. fNextCtxId' \in 1..drawn+1  BY <1>1, <2>1, ContextsAssumption
  <2> QED  BY <1>1, <1>2, <2>2 DEF CtxInv, ThreadTypes, Appending
<1>4. ListTypes' /\ HistoryTypes'
  BY <1>1 DEF CtxInv, ListTypes, HistoryTypes
<1>5. /\ drawn \in Nat /\ fNextCtxId \in Nat /\ \A v \in Clients : id[v] \in Nat
      /\ \A i \in Counted : array[i].ctxId \in Nat
      /\ \A e \in lost : e[1] \in Nat
  BY ContextsAssumption
     DEF CtxInv, ThreadTypes, ListTypes, HistoryTypes, Context, Counted
<1>6. IdInv'  BY <1>1, <1>2, <1>5 DEF CtxInv, IdInv, Making
<1>7. ListInv'
  BY <1>1, <1>2 DEF CtxInv, ListInv, Counted, Appending
<1>8. OwnInv'
  <2> SUFFICES ASSUME raced' = {} PROVE OwnInv'  BY DEF OwnInv
  <2>1. raced = {} /\ id[u] = fNextCtxId  BY <1>1 DEF CtxInv, IdInv
  <2> QED
    BY <1>1, <1>2, <1>5, <2>1 DEF CtxInv, OwnInv, IsListed, Counted, Making
<1> QED  BY <1>3, <1>4, <1>6, <1>7, <1>8 DEF CtxInv

LEMMA ReadCountStep ==
    ASSUME CtxInv, NEW u \in Clients, ReadCount(u)
    PROVE  CtxInv'
<1>1. /\ cpc[u] = "count" /\ count < MaxCtx /\ slot' = [slot EXCEPT ![u] = count + 1]
      /\ cpc' = [cpc EXCEPT ![u] = "store"]
      /\ raced \subseteq raced' /\ raced' \subseteq raced \cup {"list"}
      /\ "list" \notin raced' => \A v \in Clients \ {u} : cpc[v] \notin Appending
      /\ UNCHANGED <<fNextCtxId, array, count, id, reply, drawn, lost, returned, lastCall>>
  BY DEF ReadCount, OtherAt, arrayVars, Appending
<1>2. /\ cpc'[u] = "store" /\ \A v \in Clients \ {u} : cpc'[v] = cpc[v]
      /\ cpc' \in [Clients -> Lines]
  BY <1>1, Moves DEF Lines
<1>3. slot'[u] = count + 1 /\ \A v \in Clients \ {u} : slot'[v] = slot[v]
  BY <1>1 DEF CtxInv, ThreadTypes
<1>4. ThreadTypes'
  <2>1. count + 1 \in 1..MaxCtx  BY <1>1, ContextsAssumption DEF CtxInv, ThreadTypes
  <2>2. slot' \in [Clients -> 0..MaxCtx]
    BY <1>1, <2>1, ContextsAssumption DEF CtxInv, ThreadTypes
  <2> QED
    BY <1>1, <1>2, <1>3, <2>1, <2>2 DEF CtxInv, ThreadTypes, Appending
<1>5. ListTypes' /\ HistoryTypes'
  BY <1>1 DEF CtxInv, ListTypes, HistoryTypes
<1>6. IdInv'  BY <1>1, <1>2 DEF CtxInv, IdInv, Making
<1>7. ListInv'
  BY <1>1, <1>2, <1>3 DEF CtxInv, ListInv, Counted, Appending
<1>8. OwnInv'
  <2> SUFFICES ASSUME raced' = {} PROVE OwnInv'  BY DEF OwnInv
  <2>1. raced = {}  BY <1>1
  <2> QED  BY <1>1, <1>2, <2>1 DEF CtxInv, OwnInv, IsListed, Counted, Making
<1> QED  BY <1>4, <1>5, <1>6, <1>7, <1>8 DEF CtxInv

LEMMA NoMemoryStep ==
    ASSUME CtxInv, NEW u \in Clients, NoMemory(u)
    PROVE  CtxInv'
<1>1. /\ cpc[u] = "count" /\ cpc' = [cpc EXCEPT ![u] = "idle"]
      /\ id' = [id EXCEPT ![u] = 0] /\ reply' = [reply EXCEPT ![u] = TRUE]
      /\ UNCHANGED <<fNextCtxId, array, count, slot, drawn, raced, lost, returned, lastCall>>
  BY DEF NoMemory, arrayVars, history
<1>2. /\ cpc'[u] = "idle" /\ \A v \in Clients \ {u} : cpc'[v] = cpc[v]
      /\ cpc' \in [Clients -> Lines]
  BY <1>1, Moves DEF Lines
<1>3. \A v \in Clients \ {u} : id'[v] = id[v]  BY <1>1 DEF CtxInv, ThreadTypes
<1>4. ThreadTypes'
  <2>1. id' \in [Clients -> 0..MaxCtx]
    BY <1>1, ContextsAssumption DEF CtxInv, ThreadTypes
  <2>2. reply' \in [Clients -> BOOLEAN]
    <3>1. reply \in [Clients -> BOOLEAN]  BY DEF CtxInv, ThreadTypes
    <3> QED  BY <1>1, <3>1
  <2> QED  BY <1>1, <1>2, <1>3, <2>1, <2>2 DEF CtxInv, ThreadTypes, Appending
<1>5. ListTypes' /\ HistoryTypes'
  BY <1>1 DEF CtxInv, ListTypes, HistoryTypes
<1>6. IdInv'  BY <1>1, <1>2, <1>3 DEF CtxInv, IdInv, Making
<1>7. ListInv'
  BY <1>1, <1>2, <1>3 DEF CtxInv, ListInv, Counted, Appending
<1>8. OwnInv'
  BY <1>1, <1>2, <1>3 DEF CtxInv, OwnInv, IsListed, Counted, Making
<1> QED  BY <1>4, <1>5, <1>6, <1>7, <1>8 DEF CtxInv

\* The slot one caller fills is not one of those in use.
LEMMA StoreKeeps ==
    ASSUME CtxInv, NEW u \in Clients, Store(u), "list" \notin raced
    PROVE  /\ slot[u] = count + 1 /\ count \in Nat /\ count + 1 \in 1..MaxCtx
           /\ array'[slot[u]].ctxId = id[u] /\ array'[slot[u]].owner = u
           /\ \A i \in Counted : array'[i] = array[i]
<1>1. /\ slot[u] = count + 1 /\ count \in Nat /\ slot[u] \in 1..MaxCtx
      /\ Counted \subseteq 1..MaxCtx /\ slot[u] \notin Counted
  BY ContextsAssumption
     DEF Store, CtxInv, ListInv, ThreadTypes, Appending, Counted
<1>2. \A i \in Counted : i \notin slot[u]+1..count+1  BY <1>1 DEF Counted
<1>3. array'[slot[u]] = [ctxId |-> id[u], owner |-> u, surfCPU |-> FALSE]
  BY <1>1 DEF Store
<1>4. \A i \in Counted : array'[i] = array[i]  BY <1>1, <1>2 DEF Store
<1>5. array'[slot[u]].ctxId = id[u] /\ array'[slot[u]].owner = u
  BY <1>3
<1>6. count + 1 \in 1..MaxCtx  BY <1>1
<1> QED  BY <1>1, <1>4, <1>5, <1>6

LEMMA StoreStep ==
    ASSUME CtxInv, NEW u \in Clients, Store(u)
    PROVE  CtxInv'
<1> DEFINE ctx == [ctxId |-> id[u], owner |-> u, surfCPU |-> FALSE]
<1>1. /\ cpc[u] = "store" /\ cpc' = [cpc EXCEPT ![u] = "grow"] /\ count < MaxCtx
      /\ UNCHANGED <<fNextCtxId, count, id, slot, reply, drawn, raced, lost, returned,
                     lastCall>>
  BY DEF Store, history
<1>2. /\ cpc'[u] = "grow" /\ \A v \in Clients \ {u} : cpc'[v] = cpc[v]
      /\ cpc' \in [Clients -> Lines]
  BY <1>1, Moves DEF Lines
<1>3. array' \in [1..MaxCtx -> Context]
  <2>1. id[u] \in Nat  BY ContextsAssumption DEF CtxInv, ThreadTypes
  <2>2. ctx \in Context  BY <2>1, Zenon DEF Context
  <2>3. \A i \in 1..MaxCtx : i \in slot[u]+1..count+1 => i-1 \in 1..MaxCtx
    <3>1. slot[u] \in 1..MaxCtx /\ count \in Nat
      BY <1>1, ContextsAssumption DEF CtxInv, ThreadTypes, Appending
    <3> QED  BY <3>1, ContextsAssumption
  <2>4. \A i \in 1..MaxCtx :
          (IF i = slot[u] THEN ctx
           ELSE IF i \in slot[u]+1..count+1 THEN array[i-1] ELSE array[i]) \in Context
    BY <2>2, <2>3 DEF CtxInv, ListTypes
  <2> QED  BY <2>4 DEF Store
<1>4. ThreadTypes' /\ ListTypes' /\ HistoryTypes'
  BY <1>1, <1>2, <1>3 DEF CtxInv, ThreadTypes, ListTypes, HistoryTypes, Appending
<1>5. IdInv'  BY <1>1, <1>2 DEF CtxInv, IdInv, Making
<1>6. ListInv'
  <2> SUFFICES ASSUME "list" \notin raced' PROVE ListInv'  BY DEF ListInv
  <2>1. "list" \notin raced  BY <1>1
  <2> QED
    BY <1>1, <1>2, <2>1, StoreKeeps DEF CtxInv, ListInv, Counted, Appending
<1>7. OwnInv'
  <2> SUFFICES ASSUME raced' = {} PROVE OwnInv'  BY DEF OwnInv
  <2>1. raced = {}  BY <1>1
  <2>2. \A i \in Counted : array'[i] = array[i]  BY <2>1, StoreKeeps
  <2> QED
    BY <1>1, <1>2, <2>1, <2>2 DEF CtxInv, OwnInv, IsListed, Counted, Making
<1> QED  BY <1>4, <1>5, <1>6, <1>7 DEF CtxInv

LEMMA StoreFailsStep ==
    ASSUME CtxInv, NEW u \in Clients, StoreFails(u)
    PROVE  CtxInv'
<1>1. /\ cpc[u] = "store" /\ cpc' = [cpc EXCEPT ![u] = "reply"]
      /\ lost' = lost \cup {<<id[u], u>>}
      /\ UNCHANGED <<fNextCtxId, array, count, id, slot, reply, drawn, raced, returned,
                     lastCall>>
  BY DEF StoreFails, arrayVars
<1>2. /\ cpc'[u] = "reply" /\ \A v \in Clients \ {u} : cpc'[v] = cpc[v]
      /\ cpc' \in [Clients -> Lines]
  BY <1>1, Moves DEF Lines
<1>3. id[u] \in 1..MaxCtx
  BY <1>1, ContextsAssumption DEF CtxInv, ThreadTypes
<1>4. ThreadTypes' /\ ListTypes' /\ HistoryTypes'
  BY <1>1, <1>2, <1>3 DEF CtxInv, ThreadTypes, ListTypes, HistoryTypes, Appending
<1>5. IdInv'  BY <1>1, <1>2 DEF CtxInv, IdInv, Making
<1>6. ListInv'
  BY <1>1, <1>2 DEF CtxInv, ListInv, Counted, Appending
<1>7. OwnInv'
  <2> SUFFICES ASSUME raced' = {} PROVE OwnInv'  BY DEF OwnInv
  <2>1. /\ raced = {} /\ id[u] < fNextCtxId
        /\ \A i \in Counted : array[i].ctxId # id[u]
        /\ \A v \in Clients \ {u} : cpc[v] \in Making => id[v] # id[u]
    BY <1>1 DEF CtxInv, OwnInv, IdInv, Making
  <2>2. \A e \in lost' : e \in lost \/ e[1] = id[u]  BY <1>1
  <2> QED
    BY <1>1, <1>2, <2>1, <2>2 DEF CtxInv, OwnInv, IsListed, Counted, Making
<1> QED  BY <1>4, <1>5, <1>6, <1>7 DEF CtxInv

LEMMA GrowStep ==
    ASSUME CtxInv, NEW u \in Clients, Grow(u)
    PROVE  CtxInv'
<1>1. /\ cpc[u] = "grow" /\ cpc' = [cpc EXCEPT ![u] = "reply"]
      /\ count < MaxCtx /\ count' = count + 1
      /\ UNCHANGED <<fNextCtxId, array, id, slot, reply, drawn, raced, lost, returned,
                     lastCall>>
  BY DEF Grow, history
<1>2. /\ cpc'[u] = "reply" /\ \A v \in Clients \ {u} : cpc'[v] = cpc[v]
      /\ cpc' \in [Clients -> Lines]
  BY <1>1, Moves DEF Lines
<1>3. /\ count \in Nat /\ count' \in 0..MaxCtx
      /\ Counted' = Counted \cup {count + 1} /\ count + 1 \notin Counted
  BY <1>1, ContextsAssumption DEF CtxInv, ThreadTypes, Counted
<1>4. ThreadTypes' /\ ListTypes' /\ HistoryTypes'
  BY <1>1, <1>2, <1>3 DEF CtxInv, ThreadTypes, ListTypes, HistoryTypes, Appending
<1>5. IdInv'  BY <1>1, <1>2 DEF CtxInv, IdInv, Making
<1>6. ASSUME "list" \notin raced
      PROVE  array[count + 1].ctxId = id[u] /\ array[count + 1].owner = u
  BY <1>1, <1>6 DEF CtxInv, ListInv, Appending
<1>7. ListInv'
  <2> SUFFICES ASSUME "list" \notin raced' PROVE ListInv'  BY DEF ListInv
  <2>1. "list" \notin raced /\ id[u] # 0
    BY <1>1, ContextsAssumption DEF CtxInv, ThreadTypes
  <2> QED
    BY <1>1, <1>2, <1>3, <1>6, <2>1 DEF CtxInv, ListInv, Appending
<1>8. OwnInv'
  <2> SUFFICES ASSUME raced' = {} PROVE OwnInv'  BY DEF OwnInv
  <2>1. /\ raced = {} /\ id[u] < fNextCtxId
        /\ \A i \in Counted : array[i].ctxId # id[u]
        /\ \A e \in lost : e[1] # id[u]
        /\ \A v \in Clients \ {u} : cpc[v] \in Making => id[v] # id[u]
    BY <1>1 DEF CtxInv, OwnInv, IdInv, Making
  <2> QED
    BY <1>1, <1>2, <1>3, <1>6, <2>1 DEF CtxInv, OwnInv, IsListed, Making
<1> QED  BY <1>4, <1>5, <1>7, <1>8 DEF CtxInv

LEMMA ReplyStep ==
    ASSUME CtxInv, NEW u \in Clients, Reply(u)
    PROVE  CtxInv'
<1>1. /\ cpc[u] = "reply" /\ cpc' = [cpc EXCEPT ![u] = "idle"]
      /\ id' = [id EXCEPT ![u] = 0] /\ slot' = [slot EXCEPT ![u] = 0]
      /\ reply' = [reply EXCEPT ![u] = TRUE]
      /\ returned' = returned \/ returned' = [returned EXCEPT ![u] = @ \cup {id[u]}]
      /\ UNCHANGED <<fNextCtxId, array, count, drawn, raced, lost, lastCall>>
  BY DEF Reply, arrayVars
<1>2. /\ cpc'[u] = "idle" /\ \A v \in Clients \ {u} : cpc'[v] = cpc[v]
      /\ cpc' \in [Clients -> Lines]
  BY <1>1, Moves DEF Lines
<1>3. \A v \in Clients \ {u} : id'[v] = id[v] /\ slot'[v] = slot[v]
  BY <1>1 DEF CtxInv, ThreadTypes
<1>4. id[u] \in 1..MaxCtx
  BY <1>1, ContextsAssumption DEF CtxInv, ThreadTypes
<1>5. \A v \in Clients :
        returned'[v] \subseteq returned[v] \cup (IF v = u THEN {id[u]} ELSE {})
  BY <1>1 DEF CtxInv, HistoryTypes
<1>6. ThreadTypes'
  <2>1. id' \in [Clients -> 0..MaxCtx] /\ slot' \in [Clients -> 0..MaxCtx]
    BY <1>1, ContextsAssumption DEF CtxInv, ThreadTypes
  <2>2. reply' \in [Clients -> BOOLEAN]
    <3>1. reply \in [Clients -> BOOLEAN]  BY DEF CtxInv, ThreadTypes
    <3> QED  BY <1>1, <3>1
  <2> QED  BY <1>1, <1>2, <1>3, <2>1, <2>2 DEF CtxInv, ThreadTypes, Appending
<1>7. ListTypes' /\ HistoryTypes'
  <2>1. returned' \in [Clients -> SUBSET (1..MaxCtx)]
    BY <1>1, <1>4 DEF CtxInv, HistoryTypes
  <2> QED  BY <1>1, <2>1 DEF CtxInv, ListTypes, HistoryTypes
<1>8. IdInv'  BY <1>1, <1>2, <1>3 DEF CtxInv, IdInv, Making
<1>9. ListInv'
  BY <1>1, <1>2, <1>3 DEF CtxInv, ListInv, Counted, Appending
<1>10. OwnInv'
  BY <1>1, <1>2, <1>3, <1>5 DEF CtxInv, OwnInv, IsListed, Counted, Making
<1> QED  BY <1>6, <1>7, <1>8, <1>9, <1>10 DEF CtxInv

\* Nothing but the last call of another selector changes.
LEMMA SameContexts ==
    ASSUME CtxInv, UNCHANGED <<arrayVars, threadVars, drawn, raced, lost, returned>>,
           lastCall' \in {"none", "destroy", "bind"} \X (0..MaxCtx)
    PROVE  CtxInv'
<1>1. ThreadTypes' /\ ListTypes' /\ HistoryTypes'
  BY DEF CtxInv, ThreadTypes, ListTypes, HistoryTypes, arrayVars, threadVars
<1>2. IdInv' /\ ListInv'
  BY DEF CtxInv, IdInv, ListInv, Counted, arrayVars, threadVars
<1>3. OwnInv'  BY DEF CtxInv, OwnInv, IsListed, Counted, arrayVars, threadVars
<1> QED  BY <1>1, <1>2, <1>3 DEF CtxInv

LEMMA CtxStep == CtxInv /\ [Next]_vars => CtxInv'
<1> SUFFICES ASSUME CtxInv, [Next]_vars PROVE CtxInv'  OBVIOUS
<1>1. ASSUME NEW u \in Clients, Create(u) PROVE CtxInv'
  BY <1>1, BeginStep, BumpStep, ReadCountStep, NoMemoryStep, StoreStep,
     StoreFailsStep, GrowStep, ReplyStep DEF Create
<1>2. ASSUME NEW u \in Clients, NEW c \in 1..MaxCtx,
             DestroyContext(u, c) \/ BindSurface(u, c)
      PROVE  CtxInv'
  <2>1. c \in 0..MaxCtx  BY ContextsAssumption
  <2>2. lastCall' \in {"none", "destroy", "bind"} \X (0..MaxCtx)
    <3>1. "destroy" \in {"none", "destroy", "bind"} /\ "bind" \in {"none", "destroy", "bind"}
      OBVIOUS
    <3>2. /\ <<"destroy", c>> \in {"none", "destroy", "bind"} \X (0..MaxCtx)
          /\ <<"bind", c>> \in {"none", "destroy", "bind"} \X (0..MaxCtx)
      BY <2>1, <3>1, LastCalls
    <3>3. lastCall' = <<"destroy", c>> \/ lastCall' = <<"bind", c>>
      BY <1>2, Zenon DEF DestroyContext, BindSurface
    <3>4. CASE lastCall' = <<"destroy", c>>  BY <3>2, <3>4, Zenon
    <3>5. CASE lastCall' = <<"bind", c>>  BY <3>2, <3>5, Zenon
    <3> QED  BY <3>3, <3>4, <3>5, Zenon
  <2> QED  BY <1>2, <2>2, SameContexts DEF DestroyContext, BindSurface
<1>3. CASE UNCHANGED vars
  BY <1>3, SameContexts DEF CtxInv, HistoryTypes, vars, arrayVars, threadVars
<1> QED  BY <1>1, <1>2, <1>3 DEF Next

LEMMA CtxInductive == Spec => []CtxInv
BY InitCtx, CtxStep, PTL DEF Spec
-----------------------------------------------------------------------------
\* The list, the counter and the callers keep their types however the callers
\* meet (createContext, OSArray::setObject).
THEOREM ContextsTypeCorrect == Spec => []TypeOK
<1>1. CtxInv => TypeOK
  BY ContextsAssumption
     DEF CtxInv, ThreadTypes, ListTypes, HistoryTypes, TypeOK, Lines
<1> QED  BY <1>1, CtxInductive, PTL

\* With any number of clients creating at any time, an identifier never finds
\* another client's context until two callers have met over the counter or the
\* end of the list: it finds its own client's, or nothing when the list could
\* not be made larger (createContext, lookupContext).
THEOREM IdentifierFindsOwn == Spec => []OwnOrNothing
<1>1. CtxInv => OwnOrNothing
  <2> SUFFICES ASSUME CtxInv, raced = {}, NEW u \in Clients, NEW c \in returned[u]
               PROVE  \/ Lookup(c).owner = u
                      \/ <<c, u>> \in lost /\ Lookup(c) = NoCtx
    BY DEF OwnOrNothing
  <2>1. CASE IsListed(c, u)
    <3>1. PICK i \in Counted : array[i].ctxId = c /\ array[i].owner = u
      BY <2>1 DEF IsListed
    <3>2. Indices(c) = {i}  BY <3>1 DEF Indices, Counted, CtxInv, OwnInv
    <3>3. Lookup(c) = array[i]
      <4>1. i <= i  BY <3>1, ContextsAssumption DEF Counted, CtxInv, ThreadTypes
      <4>2. (CHOOSE k \in {i} : \A j \in {i} : k <= j) = i  BY <4>1
      <4> QED  BY <3>2, <4>2 DEF Lookup
    <3> QED  BY <3>1, <3>3
  <2>2. CASE <<c, u>> \in lost
    <3>1. Indices(c) = {}  BY <2>2 DEF Indices, Counted, CtxInv, OwnInv
    <3> QED  BY <2>2, <3>1 DEF Lookup
  <2> QED  BY <2>1, <2>2 DEF CtxInv, OwnInv
<1> QED  BY <1>1, CtxInductive, PTL

\* Until two callers have appended at the same place every context on the list
\* is complete, even if identifiers were drawn twice (OSArray::setObject fills
\* the slot before it counts it).
THEOREM ListedAreComplete == Spec => []NoHalfMade
<1>1. CtxInv => NoHalfMade
  BY ContextsAssumption DEF CtxInv, ListInv, Counted, NoHalfMade
<1> QED  BY <1>1, CtxInductive, PTL
-----------------------------------------------------------------------------
(* Refinement: the list is a registry.                                     *)

\* What the list stands for in XERegistry.
Listed == {<<array[i].ctxId, array[i].owner>> : i \in 1..count}

\* The identifier a caller is making a context for is fresh in the registry.
LEMMA MakingIsFresh ==
    ASSUME CtxInv, NEW u \in Clients, cpc[u] \in Making, raced = {}
    PROVE  id[u] \in 1..MaxCtx /\ Registry!Fresh(id[u])
<1>1. /\ \A i \in Counted : array[i].ctxId # id[u]
      /\ \A e \in lost : e[1] # id[u]
  BY DEF CtxInv, OwnInv
<1>2. \A e \in Listed : e[1] # id[u]  BY <1>1 DEF Listed, Counted
<1>3. id[u] \in 1..MaxCtx
  BY ContextsAssumption DEF CtxInv, ThreadTypes, Making
<1> QED  BY <1>1, <1>2, <1>3 DEF Registry!Fresh, Listed

\* Advancing the count lists the one context that the slot was filled with.
LEMMA GrowLists ==
    ASSUME CtxInv, NEW u \in Clients, Grow(u), raced = {}
    PROVE  Registry!Next
<1>1. /\ count \in Nat /\ count' = count + 1 /\ cpc[u] \in Making
      /\ array[count + 1].ctxId = id[u] /\ array[count + 1].owner = u
      /\ array' = array /\ returned' = returned /\ lost' = lost
  BY ContextsAssumption
     DEF Grow, CtxInv, ListInv, ThreadTypes, Making, Appending, history
<1>2. 1..count' = (1..count) \cup {count + 1}  BY <1>1
<1>3. Listed' = Listed \cup {<<id[u], u>>}  BY <1>1, <1>2 DEF Listed
<1>4. id[u] \in 1..MaxCtx /\ Registry!Fresh(id[u])  BY <1>1, MakingIsFresh
<1>5. PICK n \in 1..MaxCtx : n = id[u]  BY <1>4
<1>6. Registry!Enlist(u, n)  BY <1>1, <1>3, <1>4, <1>5 DEF Registry!Enlist, Listed
<1> QED  BY <1>6 DEF Registry!Next

\* A list that cannot grow loses it.
LEMMA StoreFailsLoses ==
    ASSUME CtxInv, NEW u \in Clients, StoreFails(u), raced = {}
    PROVE  Registry!Lose(u, id[u]) /\ id[u] \in 1..MaxCtx
<1>1. /\ cpc[u] \in Making /\ lost' = lost \cup {<<id[u], u>>}
      /\ array' = array /\ count' = count /\ returned' = returned
  BY DEF StoreFails, Making, arrayVars
<1>2. Listed' = Listed  BY <1>1 DEF Listed
<1>3. id[u] \in 1..MaxCtx /\ Registry!Fresh(id[u])  BY <1>1, MakingIsFresh
<1> QED  BY <1>1, <1>2, <1>3 DEF Registry!Lose, Listed

\* The answer gives the client its own context.
LEMMA ReplyGives ==
    ASSUME CtxInv, NEW u \in Clients, Reply(u), raced = {}
    PROVE  UNCHANGED <<Listed, lost, returned>> \/
           (id[u] \in 1..MaxCtx /\ Registry!Give(u, id[u]))
<1>1. cpc[u] = "reply" /\ array' = array /\ count' = count /\ lost' = lost
  BY DEF Reply, arrayVars
<1>2. <<id[u], u>> \in Listed \cup lost
  BY <1>1 DEF CtxInv, OwnInv, IsListed, Listed, Counted
<1>3. id[u] \in 1..MaxCtx
  BY <1>1, ContextsAssumption DEF CtxInv, ThreadTypes
<1>4. Listed' = Listed  BY <1>1 DEF Listed
<1>5. CASE reply[u]
  <2>1. returned' = [returned EXCEPT ![u] = @ \cup {id[u]}]  BY <1>5 DEF Reply
  <2> QED  BY <1>1, <1>2, <1>3, <1>4, <2>1 DEF Registry!Give, Listed
<1>6. CASE ~reply[u]
  <2>1. returned' = returned  BY <1>6 DEF Reply
  <2> QED  BY <1>1, <1>4, <2>1
<1> QED  BY <1>5, <1>6

\* Filling a slot that is not counted yet shows nothing.
LEMMA StoreHides ==
    ASSUME CtxInv, NEW u \in Clients, Store(u), raced = {}
    PROVE  UNCHANGED <<Listed, lost, returned>>
<1>1. count' = count /\ lost' = lost /\ returned' = returned
  BY DEF Store, history
<1>2. \A i \in 1..count : array'[i] = array[i]  BY StoreKeeps DEF Counted
<1> QED  BY <1>1, <1>2 DEF Listed

\* For any number of clients, calls and contexts, every step is one of the
\* registry or changes nothing in it, until two callers have drawn the same
\* identifier or appended at the same place (createContext).
THEOREM ContextsImplementRegistry == Spec => ContextsAreRegistry
<1> DEFINE Keeps == raced' = {} => Registry!Next
<1>1. Init => Registry!Init  BY DEF Init, Registry!Init
<1>2. CtxInv /\ [Next]_vars => [Keeps]_<<Listed, lost, returned>>
  <2> SUFFICES ASSUME CtxInv, [Next]_vars, raced' = {}
               PROVE  [Registry!Next]_<<Listed, lost, returned>>
    OBVIOUS
  <2>1. ASSUME NEW u \in Clients, Create(u)
        PROVE  [Registry!Next]_<<Listed, lost, returned>>
    <3>1. raced = {}
      BY <2>1 DEF Create, CreateBegin, Bump, ReadCount, NoMemory, Store, StoreFails, Grow,
         Reply, history
    <3>2. CASE Grow(u)
      BY <3>1, <3>2, GrowLists
    <3>3. CASE StoreFails(u)
      <4>1. Registry!Lose(u, id[u]) /\ id[u] \in 1..MaxCtx
        BY <3>1, <3>3, StoreFailsLoses
      <4> QED  BY <4>1 DEF Registry!Next
    <3>4. CASE Reply(u)
      <4>1. UNCHANGED <<Listed, lost, returned>> \/
            (id[u] \in 1..MaxCtx /\ Registry!Give(u, id[u]))
        BY <3>1, <3>4, ReplyGives
      <4> QED  BY <4>1 DEF Registry!Next
    <3>5. CASE Store(u)  BY <3>1, <3>5, StoreHides
    <3>6. CASE Bump(u) \/ ReadCount(u) \/ NoMemory(u)
      BY <3>6 DEF Bump, ReadCount, NoMemory, arrayVars, history, Listed
    <3>7. ASSUME NEW large \in BOOLEAN, CreateBegin(u, large)
          PROVE  UNCHANGED <<Listed, lost, returned>>
      BY <3>7 DEF CreateBegin, arrayVars, Listed
    <3> QED
      BY <2>1, <3>2, <3>3, <3>4, <3>5, <3>6, <3>7 DEF Create
  <2>2. ASSUME NEW u \in Clients, NEW c \in 1..MaxCtx,
               DestroyContext(u, c) \/ BindSurface(u, c)
        PROVE  UNCHANGED <<Listed, lost, returned>>
    BY <2>2 DEF DestroyContext, BindSurface, arrayVars, Listed
  <2>3. CASE UNCHANGED vars  BY <2>3 DEF vars, Listed
  <2> QED  BY <2>1, <2>2, <2>3 DEF Next
<1> QED
  BY <1>1, <1>2, CtxInductive, PTL
     DEF Spec, ContextsAreRegistry, Registry!registry, Listed
=============================================================================
