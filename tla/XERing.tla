-------------------------------- MODULE XERing --------------------------------
(***************************************************************************)
(* The command ring between the accelerator's clients and pollRing().      *)
(*                                                                         *)
(* One 4096-byte page holds a header (XEHdr: capacity, head, tail) and a   *)
(* ring of capacity bytes.  Producers copy a 16-byte XECmd and its payload *)
(* to the head and then move the head; the timer of the work loop runs     *)
(* pollRing(), which executes at most MaxPerTick commands per tick from    *)
(* the tail.  Every offset the code computes is a multiple of four, so the *)
(* model counts in 32-bit words: Cap is capacity / 4.                      *)
(*                                                                         *)
(* Producers: a member of Injectors is a thread inside doInjectTest(); a   *)
(* member of Users is a client process that writes the mapped page itself  *)
(* (not in this repository: a well behaved one, that looks for room).      *)
(***************************************************************************)
EXTENDS Integers, Sequences

CONSTANTS Cap,          \* words in the ring
          PayloadMax,   \* bytes in pollRing's payloadBuf (256 in the code)
          MaxPerTick,   \* MAX_PROC_PER_TICK (4 in the code)
          Users,        \* client processes producing on the mapped page
          Injectors,    \* threads inside doInjectTest
          Commands,     \* what a client process may submit
          MaxSent       \* bound: no command is begun once so many were sent

HdrWords == 4                                   \* sizeof(XECmd) / 4
Words(bytes) == (bytes + 3) \div 4              \* xe_align
Size(c) == HdrWords + Words(c.bytes)

NOP     == 0
CLEAR   == 1
RECT    == 2
COPY    == 3
PRESENT == 5

RectBytes == 20                                 \* sizeof(XERectPayload)

\* A command as its producer means it: the fields of XECmd (its reserved word
\* is zero) and the words of its payload.
Command == {c \in [opcode: Nat, bytes: Nat, ctxId: Nat, payload: Seq(Nat)] :
                Len(c.payload) = Words(c.bytes)}

\* What doInjectTest writes: a CLEAR with a four-byte colour.
InjectCmd == [opcode |-> CLEAR, bytes |-> 4, ctxId |-> 0, payload |-> <<7>>]

NoCmd == [opcode |-> NOP, bytes |-> 0, ctxId |-> 0, payload |-> <<>>]

Producers == Users \cup Injectors

ASSUME RingAssumption ==
    /\ Cap \in Nat /\ PayloadMax \in Nat /\ MaxSent \in Nat
    /\ MaxPerTick \in Nat \ {0}
    /\ HdrWords + Words(PayloadMax) < Cap
    /\ Commands \subseteq Command

VARIABLES
    mem,          \* the words after the header
    head,         \* fHdr->head, moved by producers
    tail,         \* fHdr->tail, moved by pollRing only (and its local copy)
    fPollActive,  \* the reentrancy guard
    fNeedFlush,   \* set by the commands that draw; nothing resets it
    delay,        \* milliseconds the timer is armed with, 0 when it is not
    pc,           \* where pollRing is
    lhead,        \* pollRing's snapshot of the head
    processed,    \* commands executed in this tick
    cmd,          \* the command pollRing has copied out of the ring
    ppc,          \* where each producer is
    pcmd,         \* the command each producer is writing
    pat,          \* the offset each producer is writing it at
    sent,         \* history: commands in the order their heads were published
    start,        \* history: word number at which sent[i] starts
    done          \* history: commands executed, in order

ringVars == <<mem, head, tail>>
pollVars == <<fPollActive, fNeedFlush, delay, pc, lhead, processed, cmd>>
prodVars == <<ppc, pcmd, pat>>
history  == <<sent, start, done>>
vars == <<mem, head, tail, fPollActive, fNeedFlush, delay, pc, lhead,
          processed, cmd, ppc, pcmd, pat, sent, start, done>>

TypeOK ==
    /\ mem \in [0..Cap-1 -> Nat]
    /\ head \in 0..Cap-1 /\ tail \in 0..Cap-1 /\ lhead \in 0..Cap-1
    /\ fPollActive \in BOOLEAN /\ fNeedFlush \in BOOLEAN
    /\ delay \in {0, 16, 50}
    /\ pc \in {"idle", "snapshot", "loop", "payload", "process", "exit"}
    /\ processed \in 0..MaxPerTick
    /\ cmd \in [opcode: Nat, bytes: Nat, ctxId: Nat, payload: Seq(Nat)]
    /\ ppc \in [Producers -> {"idle", "header", "payload", "publish"}]
    /\ pcmd \in [Producers -> Command]
    /\ pat \in [Producers -> 0..Cap-1]
    /\ sent \in Seq(Command)
    /\ start \in Seq(Nat) /\ Len(start) = Len(sent) + 1
    /\ done \in Seq([opcode: Nat, bytes: Nat, ctxId: Nat, payload: Seq(Nat)])
-----------------------------------------------------------------------------
(* Reading and writing the ring: memcpy in two pieces at the end of it.    *)

Read(m, at, n) == [k \in 1..n |-> m[(at + k - 1) % Cap]]

\* Mutation: the second memcpy, the one that wraps, is forgotten.
WriteNoWrap(m, at, w) ==
    [a \in 0..Cap-1 |-> IF a >= at /\ a - at < Len(w) THEN w[a - at + 1] ELSE m[a]]

Write(m, at, w) ==
    [a \in 0..Cap-1 |-> LET k == (a - at) % Cap IN
                        IF k < Len(w) THEN w[k + 1] ELSE m[a]]

HeaderOf(c) == <<c.opcode, c.bytes, c.ctxId, 0>>

Pending == Len(sent) - Len(done)

\* Words between tail and head, as both sides compute it.
Used == (head - tail) % Cap
-----------------------------------------------------------------------------
(* After UserClient::start, attachShared and startWorkerLoop: an empty     *)
(* ring in a zeroed page and the timer armed.                              *)

Init ==
    /\ mem = [a \in 0..Cap-1 |-> 0]
    /\ head = 0 /\ tail = 0
    /\ fPollActive = FALSE /\ fNeedFlush = FALSE
    /\ delay = 16
    /\ pc = "idle" /\ lhead = 0 /\ processed = 0 /\ cmd = NoCmd
    /\ ppc = [t \in Producers |-> "idle"]
    /\ pcmd = [t \in Producers |-> NoCmd]
    /\ pat = [t \in Producers |-> 0]
    /\ sent = <<>> /\ start = <<0>> /\ done = <<>>
-----------------------------------------------------------------------------
(* The producers.  An injector reads the head once and never looks at the  *)
(* tail; a user begins only when the command fits.                         *)

Begin(t, c) ==
    /\ ppc[t] = "idle" /\ Len(sent) < MaxSent
    /\ ppc' = [ppc EXCEPT ![t] = "header"]
    /\ pcmd' = [pcmd EXCEPT ![t] = c]
    /\ pat' = [pat EXCEPT ![t] = head]
    /\ UNCHANGED <<ringVars, pollVars, history>>

InjectRead(t) == t \in Injectors /\ Begin(t, InjectCmd)

\* Mutation: a user fills the ring to the last word.
HasRoomToLastWord(c) == Used + Size(c) <= Cap

HasRoom(c) == Used + Size(c) < Cap

UserBegin(t, c) == t \in Users /\ HasRoom(c) /\ Begin(t, c)

WriteHeader(t) ==
    /\ ppc[t] = "header"
    /\ mem' = Write(mem, pat[t], HeaderOf(pcmd[t]))
    /\ ppc' = [ppc EXCEPT ![t] = "payload"]
    /\ UNCHANGED <<head, tail, pollVars, pcmd, pat, history>>

WritePayload(t) ==
    /\ ppc[t] = "payload"
    /\ mem' = Write(mem, (pat[t] + HdrWords) % Cap, pcmd[t].payload)
    /\ ppc' = [ppc EXCEPT ![t] = "publish"]
    /\ UNCHANGED <<head, tail, pollVars, pcmd, pat, history>>

\* Mutation: the head is moved on from where it is now, not from where the
\* command was written.
PublishFromHead(t) ==
    /\ ppc[t] = "publish"
    /\ head' = (head + Size(pcmd[t])) % Cap
    /\ ppc' = [ppc EXCEPT ![t] = "idle"]
    /\ pcmd' = [pcmd EXCEPT ![t] = NoCmd]
    /\ pat' = [pat EXCEPT ![t] = 0]
    /\ sent' = Append(sent, pcmd[t])
    /\ start' = Append(start, start[Len(start)] + Size(pcmd[t]))
    /\ UNCHANGED <<mem, tail, pollVars, done>>

\* Mutation: the new head is not reduced modulo the capacity.
PublishNoWrap(t) ==
    /\ ppc[t] = "publish"
    /\ head' = pat[t] + Size(pcmd[t])
    /\ ppc' = [ppc EXCEPT ![t] = "idle"]
    /\ pcmd' = [pcmd EXCEPT ![t] = NoCmd]
    /\ pat' = [pat EXCEPT ![t] = 0]
    /\ sent' = Append(sent, pcmd[t])
    /\ start' = Append(start, start[Len(start)] + Size(pcmd[t]))
    /\ UNCHANGED <<mem, tail, pollVars, done>>

Publish(t) ==
    /\ ppc[t] = "publish"
    /\ head' = (pat[t] + Size(pcmd[t])) % Cap
    /\ ppc' = [ppc EXCEPT ![t] = "idle"]
    /\ pcmd' = [pcmd EXCEPT ![t] = NoCmd]
    /\ pat' = [pat EXCEPT ![t] = 0]
    /\ sent' = Append(sent, pcmd[t])
    /\ start' = Append(start, start[Len(start)] + Size(pcmd[t]))
    /\ UNCHANGED <<mem, tail, pollVars, done>>
-----------------------------------------------------------------------------
(* pollRing.  The guard is a compare-and-swap of an int at the address of  *)
(* the bool fPollActive; the bool fNeedFlush is the next byte of that int. *)

PollWord == (IF fPollActive THEN 1 ELSE 0) + 256 * (IF fNeedFlush THEN 1 ELSE 0)

\* The timer fires and the swap fails: rearm and return.
PollBusy ==
    /\ pc = "idle" /\ delay # 0 /\ PollWord # 0
    /\ delay' = 16
    /\ UNCHANGED <<ringVars, fPollActive, fNeedFlush, pc, lhead, processed,
                   cmd, prodVars, history>>

\* The timer fires and the swap succeeds.
PollClaim ==
    /\ pc = "idle" /\ delay # 0 /\ PollWord = 0
    /\ delay' = 0
    /\ fPollActive' = TRUE
    /\ pc' = "snapshot"
    /\ UNCHANGED <<ringVars, fNeedFlush, lhead, processed, cmd, prodVars,
                   history>>

\* Mutation: an empty ring returns without rearming the timer.
PollEmptyNoRearm ==
    /\ pc = "snapshot" /\ head = tail
    /\ fPollActive' = FALSE
    /\ pc' = "idle"
    /\ UNCHANGED <<ringVars, fNeedFlush, delay, lhead, processed, cmd, prodVars,
                   history>>

PollEmpty ==
    /\ pc = "snapshot" /\ head = tail
    /\ fPollActive' = FALSE
    /\ delay' = 16
    /\ pc' = "idle"
    /\ UNCHANGED <<ringVars, fNeedFlush, lhead, processed, cmd, prodVars,
                   history>>

PollBegin ==
    /\ pc = "snapshot" /\ head # tail
    /\ lhead' = head
    /\ pc' = "loop"
    /\ UNCHANGED <<ringVars, fPollActive, fNeedFlush, delay, processed, cmd,
                   prodVars, history>>

\* Mutation: the loop stops at the snapshot of the head only.
MoreToDoByTail == tail # lhead

MoreToDo == tail # lhead /\ processed < MaxPerTick

TooLarge(bytes) == bytes > 4 * Cap \/ bytes > PayloadMax

\* Copy the command header out of the ring; a command that is too large
\* leaves the loop without moving the tail.
ReadHeader ==
    /\ pc = "loop" /\ MoreToDo
    /\ LET h == Read(mem, tail, HdrWords) IN
       /\ cmd' = [opcode |-> h[1], bytes |-> h[2], ctxId |-> h[3],
                  payload |-> <<>>]
       /\ pc' = IF TooLarge(h[2]) THEN "exit" ELSE "payload"
    /\ UNCHANGED <<ringVars, fPollActive, fNeedFlush, delay, lhead, processed,
                   prodVars, history>>

\* Mutation: the payload is read from the start of the command.
ReadPayloadAtHeader ==
    /\ pc = "payload"
    /\ cmd' = [cmd EXCEPT !.payload = Read(mem, tail, Words(cmd.bytes))]
    /\ pc' = "process"
    /\ UNCHANGED <<ringVars, fPollActive, fNeedFlush, delay, lhead, processed,
                   prodVars, history>>

ReadPayload ==
    /\ pc = "payload"
    /\ cmd' = [cmd EXCEPT !.payload =
                 Read(mem, (tail + HdrWords) % Cap, Words(cmd.bytes))]
    /\ pc' = "process"
    /\ UNCHANGED <<ringVars, fPollActive, fNeedFlush, delay, lhead, processed,
                   prodVars, history>>

\* processCommand: whether it raises fNeedFlush.  A RECT may be clipped to
\* nothing and a PRESENT may find no context with a surface.
Draws(c) ==
    CASE c.opcode = CLEAR   -> {c.bytes >= 4}
      [] c.opcode = RECT    -> IF c.bytes >= RectBytes THEN BOOLEAN ELSE {FALSE}
      [] c.opcode = PRESENT -> BOOLEAN
      [] OTHER              -> {FALSE}

\* Execute the command, then move the tail past it.
Process ==
    /\ pc = "process"
    /\ \E d \in Draws(cmd) : fNeedFlush' = (fNeedFlush \/ d)
    /\ tail' = (tail + Size(cmd)) % Cap
    /\ done' = Append(done, cmd)
    /\ processed' = processed + 1
    /\ cmd' = NoCmd
    /\ pc' = "loop"
    /\ UNCHANGED <<mem, head, fPollActive, delay, lhead, prodVars, sent, start>>

PollEnd ==
    /\ pc = "exit" \/ (pc = "loop" /\ ~MoreToDo)
    /\ delay' = IF tail # head THEN 16 ELSE 50
    /\ fPollActive' = FALSE
    /\ pc' = "idle" /\ lhead' = 0 /\ processed' = 0 /\ cmd' = NoCmd
    /\ UNCHANGED <<ringVars, fNeedFlush, prodVars, history>>
-----------------------------------------------------------------------------
Poll == \/ PollBusy \/ PollClaim \/ PollEmpty \/ PollBegin
        \/ ReadHeader \/ ReadPayload \/ Process \/ PollEnd

Produce(t) == \/ InjectRead(t)
              \/ \E c \in Commands : UserBegin(t, c)
              \/ WriteHeader(t) \/ WritePayload(t) \/ Publish(t)

Next == Poll \/ \E t \in Producers : Produce(t)

Spec == Init /\ [][Next]_vars

\* The armed timer fires and the work loop runs its callback to the end; no
\* client is obliged to do anything.
FairSpec == Spec /\ WF_vars(Poll)
-----------------------------------------------------------------------------
(* What makes the ring correct when one well behaved client produces.      *)

\* Every command between tail and head is still in the ring word for word:
\* no producer's memcpy has reached it and pollRing may read it at leisure
\* (the header at Acc 284-292, the payload at 309-315).
StreamIntact ==
    \A i \in Len(done)+1..Len(sent) :
        /\ Read(mem, start[i] % Cap, HdrWords) = HeaderOf(sent[i])
        /\ Read(mem, (start[i] + HdrWords) % Cap, Words(sent[i].bytes))
              = sent[i].payload

\* Head minus tail is exactly the size of what was submitted and not yet
\* executed; so head = tail, which pollRing takes for an empty ring, means
\* that nothing is pending.
HeadAccounts ==
    /\ Len(done) <= Len(sent)
    /\ Used = start[Len(sent) + 1] - start[Len(done) + 1]

\* pollRing compares its tail with an old head for equality: that head must
\* be the end of a command it has not passed, or the loop would run past it
\* into words nobody published.
SnapshotOnBoundary ==
    pc \in {"loop", "payload", "process"} =>
        \E m \in Len(done)..Len(sent) : lhead = start[m + 1] % Cap

\* The ring implements the queue: commands are executed in the order their
\* heads were published, each once and with its own payload, and a command
\* larger than payloadBuf is never executed nor overtaken.
Fifo == INSTANCE XEFifo WITH
            Commands <- Commands \cup {InjectCmd},
            Executable <- {c \in Commands \cup {InjectCmd} : ~TooLarge(c.bytes)},
            queue <- SubSeq(sent, Len(done) + 1, Len(sent)),
            delivered <- done

ImplementsFifo == Fifo!Spec

\* The front command is one that pollRing refuses, tick after tick.
Blocked == Pending > 0 /\ TooLarge(sent[Len(done) + 1].bytes)

\* A published command is executed in the end, unless the front of the ring
\* is a command pollRing refuses or a command has drawn (after which the
\* guard never opens again).
EventuallyDrained ==
    \A n \in 1..MaxSent :
        (Len(sent) >= n) ~> (Len(done) >= n \/ Blocked \/ fNeedFlush)

\* The words of InjectTest's command, and a stretch of such commands end to end.
Injected == HeaderOf(InjectCmd) \o InjectCmd.payload
WholeTo(n) ==
    /\ n % Size(InjectCmd) = 0
    /\ \A a \in 0..n-1 : mem[a] = Injected[(a % Size(InjectCmd)) + 1]

\* The commands sent so far and one more fit in the ring.
Fits == (Len(sent) + 1) * Size(InjectCmd) < Cap

\* However many threads are inside InjectTest, copying over each other's
\* commands and moving the head back and forth, no head ever stands past words
\* that are not whole commands, nor does the one pollRing works up to; as long as
\* the ring has not been filled, for none of them looks at the tail.
PublishedWhole == Fits => WholeTo(head) /\ WholeTo(lhead)

\* Steps a tick may still take from where it is.
TickLeft ==
    LET Left == 3 * (MaxPerTick - processed) IN
    CASE pc = "idle"     -> 0
      [] pc = "exit"     -> 1
      [] pc = "snapshot" -> 3 * MaxPerTick + 2
      [] pc = "loop"     -> Left + 1
      [] pc = "payload"  -> Left
      [] pc = "process"  -> Left - 1

\* The timer's callback ends after a bounded number of steps however fast the
\* producers are, and even when they overrun the ring and pollRing reads words
\* that are no command: the work loop is not held (the bound of the loop at
\* Acc 280).
TickEnds == [][pc # "idle" => TickLeft' \in 0..TickLeft-1]_pollVars
-----------------------------------------------------------------------------
(* The inductive invariant behind StreamIntact, HeadAccounts,              *)
(* SnapshotOnBoundary and ImplementsFifo when one thread produces.         *)
(* Positions are compared as word numbers, which never wrap.               *)

\* A ring that InjectTest cannot overrun, although it never looks at the tail.
FitsAll == MaxSent * Size(InjectCmd) < Cap

\* One client process, or one thread of InjectTest on such a ring.
SingleProducer ==
    /\ \A t, u \in Producers : t = u
    /\ Injectors # {} => Users = {} /\ FitsAll

First == Len(done) + 1      \* index of the command at the tail
Next1 == Len(sent) + 1      \* index of the command to be sent next

\* Commands are laid end to end.
Contiguous ==
    /\ \A i \in 1..Len(sent) : start[i + 1] = start[i] + Size(sent[i])
    /\ \A i \in 1..Len(sent) : \A j \in i+1..Next1 :
           start[i] + Size(sent[i]) <= start[j]

\* The two offsets stand for the end of the last and the start of the first
\* pending command, less than a lap apart.
OffsetsMeanIndices ==
    /\ Len(done) <= Len(sent)
    /\ head = start[Next1] % Cap /\ tail = start[First] % Cap
    /\ start[Next1] - start[First] < Cap

\* What was executed is what was sent.
ExecutedInOrder == \A i \in 1..Len(done) : done[i] = sent[i]

\* Nothing is sent that a producer did not mean; what InjectTest has sent so
\* far is as long as its number says.
Meant == IF Users = {} THEN {InjectCmd} ELSE Commands

OnlyCommands ==
    /\ \A i \in 1..Len(sent) : sent[i] \in Meant
    /\ \A t \in Producers : ppc[t] # "idle" => pcmd[t] \in Meant
    /\ Users = {} => start[Next1] = Len(sent) * Size(InjectCmd)

\* The producer writes at the head and has room to the end of its command.
Reserved ==
    \A t \in Producers : ppc[t] # "idle" =>
        /\ pat[t] = head
        /\ start[Next1] + Size(pcmd[t]) - start[First] < Cap

\* What the producer has copied so far is in the ring.
Copied ==
    \A t \in Producers :
        /\ ppc[t] \in {"payload", "publish"} =>
               Read(mem, pat[t], HdrWords) = HeaderOf(pcmd[t])
        /\ ppc[t] = "publish" =>
               Read(mem, (pat[t] + HdrWords) % Cap, Words(pcmd[t].bytes))
                   = pcmd[t].payload

\* pollRing holds the command at the tail, as far as it has read it, and has
\* not reached its snapshot of the head.
PollOnFront ==
    /\ pc \in {"payload", "process"} =>
        /\ Len(done) < Len(sent) /\ tail # lhead
        /\ ~TooLarge(sent[First].bytes)
        /\ cmd.opcode = sent[First].opcode /\ cmd.bytes = sent[First].bytes
        /\ cmd.ctxId = sent[First].ctxId
    /\ pc = "process" => cmd = sent[First]

RingInv ==
    /\ Contiguous /\ OffsetsMeanIndices /\ ExecutedInOrder /\ OnlyCommands
    /\ Reserved /\ Copied /\ StreamIntact /\ SnapshotOnBoundary /\ PollOnFront
-----------------------------------------------------------------------------
(* The inductive invariant behind PublishedWhole, with any number of        *)
(* InjectTest threads.                                                     *)

\* An offset some thread found the head at.
WasHead(n) == n <= Len(sent) * Size(InjectCmd) /\ WholeTo(n)

\* A thread writes at such an offset; what it has copied is in the ring,
\* although others may be copying the same words there again.
Injecting(t) ==
    /\ pcmd[t] = InjectCmd /\ WasHead(pat[t])
    /\ ppc[t] \in {"payload", "publish"} =>
          \A a \in pat[t]..pat[t]+3 : mem[a] = Injected[a - pat[t] + 1]
    /\ ppc[t] = "publish" => mem[pat[t] + 4] = Injected[5]

InjectInv == Fits =>
    /\ WasHead(head) /\ WasHead(lhead)
    /\ \A t \in Injectors : ppc[t] # "idle" => Injecting(t)
-----------------------------------------------------------------------------
(* Claims of comments in the source that the code does not keep (README,    *)
(* section 5).  The run ring_stall shows the first.                          *)

\* "couldn't swap (already true) -> someone else processing": the swap fails
\* only while some invocation of pollRing is processing.
GuardFreeWhenIdle == pc = "idle" => PollWord = 0

\* "Nothing to do" when head equals tail.
NothingToDo == head = tail => Pending = 0

\* "InjectTest wrote CLEAR": each command whose publication was reported
\* occupies words of its own until it is executed.
InjectWrote == Used = (start[Len(sent) + 1] - start[Len(done) + 1]) % Cap
=============================================================================
