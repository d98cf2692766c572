----------------------------- MODULE XERing_proofs -----------------------------
(***************************************************************************)
(* Theorems about XERing, for every size of the ring and every set of      *)
(* commands: its type correctness and the length of a tick whoever         *)
(* produces; that the ring implements the queue XEFifo when one client or  *)
(* one thread of InjectTest produces; and that any number of InjectTest    *)
(* threads publish whole commands only.                                    *)
(***************************************************************************)
EXTENDS XERing, TLAPS, SequenceTheorems

-----------------------------------------------------------------------------
(* Arithmetic modulo the capacity.                                         *)

\* Multiplication by the capacity keeps distance.
LEMMA MulStep == ASSUME NEW p \in Int, NEW q \in Int, p < q
                 PROVE  Cap * q >= Cap * p + Cap
<1>1. Cap \in Int /\ Cap >= 0  BY RingAssumption DEF HdrWords, Words
<1>2. q - p - 1 \in Nat  OBVIOUS
<1>3. Cap * (q - p - 1) >= 0  BY <1>1, <1>2
<1>4. Cap * (q - p - 1) = Cap * q - Cap * p - Cap  BY <1>1
<1> QED  BY <1>1, <1>3, <1>4

\* The capacity exceeds a command header.
LEMMA CapFacts == Cap \in Nat /\ Cap > HdrWords /\ HdrWords = 4
<1>1. PayloadMax \in Nat /\ Words(PayloadMax) \in Nat
  BY RingAssumption DEF Words
<1> QED  BY <1>1, RingAssumption DEF HdrWords

\* Every number is a multiple of the capacity plus an offset in the ring.
LEMMA ModRange == ASSUME NEW x \in Int
                  PROVE  /\ x % Cap \in 0..Cap-1
                         /\ x \div Cap \in Int
                         /\ x = Cap * (x \div Cap) + (x % Cap)
BY CapFacts

\* That offset is the only one.
LEMMA ModUnique == ASSUME NEW x \in Int, NEW q \in Int, NEW r \in 0..Cap-1,
                          x = Cap * q + r
                   PROVE  x % Cap = r
<1> DEFINE p == x \div Cap
<1> DEFINE s == x % Cap
<1>1. p \in Int /\ s \in 0..Cap-1 /\ x = Cap * p + s  BY ModRange
<1> HIDE DEF p, s
<1>2. Cap \in Nat  BY CapFacts
<1>3. Cap * p \in Int /\ Cap * q \in Int  BY <1>1, <1>2
<1>4. ~(p < q)
  <2> SUFFICES ASSUME p < q PROVE FALSE  OBVIOUS
  <2>1. Cap * q >= Cap * p + Cap  BY <1>1, MulStep
  <2> QED  BY <2>1, <1>1, <1>2, <1>3
<1>5. ~(q < p)
  <2> SUFFICES ASSUME q < p PROVE FALSE  OBVIOUS
  <2>1. Cap * p >= Cap * q + Cap  BY <1>1, MulStep
  <2> QED  BY <2>1, <1>1, <1>2, <1>3
<1>6. p = q  BY <1>1, <1>4, <1>5
<1>7. s = r  BY <1>1, <1>2, <1>3, <1>6
<1> QED  BY <1>7 DEF s

\* Moving an offset moves the word number it stands for.
LEMMA ModAdd == ASSUME NEW x \in Int, NEW k \in Int
                PROVE  ((x % Cap) + k) % Cap = (x + k) % Cap
<1> DEFINE q == x \div Cap
<1> DEFINE r == (x + k) % Cap
<1> DEFINE p == (x + k) \div Cap
<1>1. q \in Int /\ x % Cap \in Int /\ x = Cap * q + (x % Cap)  BY ModRange, CapFacts
<1>2. p \in Int /\ r \in 0..Cap-1 /\ x + k = Cap * p + r  BY ModRange
<1> HIDE DEF q, r, p
<1>3. Cap \in Nat  BY CapFacts
<1>4. Cap * (p - q) = Cap * p - Cap * q  BY <1>1, <1>2, <1>3
<1>5. Cap * p \in Int /\ Cap * q \in Int /\ Cap * (p - q) \in Int /\ p - q \in Int
  BY <1>1, <1>2, <1>3
<1>6. (x % Cap) + k = Cap * (p - q) + r  BY <1>1, <1>2, <1>4, <1>5, <1>3
<1>7. (x % Cap) + k \in Int  BY <1>1
<1>8. ((x % Cap) + k) % Cap = r  BY <1>2, <1>5, <1>6, <1>7, ModUnique
<1> QED  BY <1>8 DEF r

\* The distance between two offsets, taken modulo the capacity, is the
\* distance between their word numbers when that is less than one lap.
LEMMA ModDistance == ASSUME NEW x \in Int, NEW y \in Int, x - y \in 0..Cap-1
                     PROVE  ((x % Cap) - (y % Cap)) % Cap = x - y
<1> DEFINE q == x \div Cap
<1> DEFINE p == y \div Cap
<1>1. q \in Int /\ x % Cap \in Int /\ x = Cap * q + (x % Cap)  BY ModRange, CapFacts
<1>2. p \in Int /\ y % Cap \in Int /\ y = Cap * p + (y % Cap)  BY ModRange, CapFacts
<1> HIDE DEF q, p
<1>3. Cap \in Nat  BY CapFacts
<1>4. Cap * (p - q) = Cap * p - Cap * q  BY <1>1, <1>2, <1>3
<1>5. Cap * p \in Int /\ Cap * q \in Int /\ Cap * (p - q) \in Int /\ p - q \in Int
  BY <1>1, <1>2, <1>3
<1>6. (x % Cap) - (y % Cap) = Cap * (p - q) + (x - y)
  BY <1>1, <1>2, <1>4, <1>5, <1>3
<1>7. (x % Cap) - (y % Cap) \in Int  BY <1>1, <1>2
<1> QED  BY <1>5, <1>6, <1>7, ModUnique

\* Two different word numbers less than a lap apart have different offsets.
LEMMA ModInjective == ASSUME NEW x \in Int, NEW y \in Int, x - y \in 1..Cap-1
                      PROVE  x % Cap # y % Cap
<1>1. x - y \in 0..Cap-1 /\ x - y # 0  BY CapFacts
<1>2. ((x % Cap) - (y % Cap)) % Cap = x - y  BY <1>1, ModDistance
<1>3. 0 % Cap = 0  BY CapFacts
<1>4. x % Cap \in Int /\ y % Cap \in Int  BY ModRange, CapFacts
<1> QED  BY <1>1, <1>2, <1>3, <1>4
-----------------------------------------------------------------------------
(* Reading and writing the ring.                                           *)

Ring == [0..Cap-1 -> Nat]

\* A read returns the words it is asked for.
LEMMA ReadType == ASSUME NEW m \in Ring, NEW at \in Int, NEW n \in Nat
                  PROVE  /\ Read(m, at, n) \in Seq(Nat)
                         /\ Len(Read(m, at, n)) = n
                         /\ \A k \in 1..n : Read(m, at, n)[k] \in Nat
<1>1. \A k \in 1..n : (at + k - 1) % Cap \in 0..Cap-1  BY ModRange
<1>2. \A k \in 1..n : m[(at + k - 1) % Cap] \in Nat  BY <1>1 DEF Ring
<1>3. Read(m, at, n) \in [1..n -> Nat]  BY <1>2 DEF Read
<1> QED  BY <1>3

\* A write of numbers leaves a ring of numbers.
LEMMA WriteType == ASSUME NEW m \in Ring, NEW at \in Int, NEW w \in Seq(Nat)
                   PROVE  Write(m, at, w) \in Ring
<1>1. ASSUME NEW a \in 0..Cap-1 PROVE (a - at) % Cap \in 0..Cap-1
  <2>1. a - at \in Int  BY CapFacts
  <2> QED  BY <2>1, ModRange
<1>2. \A a \in 0..Cap-1 : (a - at) % Cap < Len(w) => w[((a - at) % Cap) + 1] \in Nat
  BY <1>1, SMTT(30)
<1>3. \A a \in 0..Cap-1 : m[a] \in Nat  BY DEF Ring
<1> QED  BY <1>2, <1>3 DEF Write, Ring

\* What was written is read back.
LEMMA ReadWritten == ASSUME NEW m \in Ring, NEW at \in Int, NEW w \in Seq(Nat),
                            Len(w) <= Cap
                     PROVE  Read(Write(m, at, w), at, Len(w)) = w
<1>1. ASSUME NEW k \in 1..Len(w)
      PROVE  Write(m, at, w)[(at + k - 1) % Cap] = w[k]
  <2> DEFINE a == (at + k - 1) % Cap
  <2>0. at + k - 1 \in Int  OBVIOUS
  <2>1. a \in 0..Cap-1  BY <2>0, ModRange
  <2>2. at + k - 1 \in Int /\ 0 - at \in Int /\ k - 1 \in 0..Cap-1  BY CapFacts
  <2>3. (a + (0 - at)) % Cap = ((at + k - 1) + (0 - at)) % Cap  BY <2>2, ModAdd
  <2>4. (a - at) % Cap = (k - 1) % Cap  BY <2>1, <2>2, <2>3
  <2>5. (k - 1) % Cap = k - 1  BY <2>2, CapFacts
  <2> HIDE DEF a
  <2>6. (a - at) % Cap = k - 1  BY <2>4, <2>5
  <2>7. Write(m, at, w)[a] = w[(k - 1) + 1]  BY <2>1, <2>6 DEF Write
  <2> QED  BY <2>7 DEF a
<1>2. Read(Write(m, at, w), at, Len(w)) = [k \in 1..Len(w) |-> w[k]]
  BY <1>1 DEF Read
<1> QED  BY <1>2

\* A write less than a lap ahead of a command leaves the command alone.
LEMMA ReadOther == ASSUME NEW m \in Ring, NEW u \in Int, NEW v \in Int,
                          NEW n \in Nat, NEW w \in Seq(Nat),
                          u + n <= v, v + Len(w) < u + Cap
                   PROVE  Read(Write(m, v % Cap, w), u % Cap, n) = Read(m, u % Cap, n)
<1>1. ASSUME NEW k \in 1..n
      PROVE  Write(m, v % Cap, w)[((u % Cap) + k - 1) % Cap]
               = m[((u % Cap) + k - 1) % Cap]
  <2> DEFINE x == u + (k - 1)
  <2> DEFINE a == x % Cap
  <2>0. k - 1 \in Int /\ x \in Int /\ u % Cap \in Int  BY ModRange, CapFacts
  <2>1. ((u % Cap) + (k - 1)) % Cap = a  BY <2>0, ModAdd
  <2>2. ((u % Cap) + k - 1) % Cap = a  BY <2>0, <2>1
  <2>3. a \in 0..Cap-1  BY <2>0, ModRange
  <2>4. v - x \in 0..Cap-1 /\ v - x # 0 /\ Cap - (v - x) >= Len(w)
    <3>1. Len(w) \in Nat /\ v - x \in Int  BY <2>0
    <3>2. v - x > 0  BY <2>0
    <3>3. v - x <= v - u  BY <2>0
    <3> HIDE DEF x
    <3> QED  BY <3>1, <3>2, <3>3, CapFacts
  <2>5. ((v % Cap) - a) % Cap = v - x  BY <2>0, <2>4, ModDistance
  <2> DEFINE b == v % Cap
  <2>6. b \in 0..Cap-1  BY ModRange
  <2> HIDE DEF x, a, b
  <2>7. (b - a) % Cap = v - x  BY <2>5 DEF b
  <2> DEFINE y == v - x
  <2>11. y \in 1..Cap-1 /\ Cap - y >= Len(w)  BY <2>4, <2>0, CapFacts
  <2>12. (b - a) % Cap = y  BY <2>7
  <2> HIDE DEF y
  <2>8. (a - b) % Cap = Cap - y
    <3> DEFINE q == (b - a) \div Cap
    <3>1. b - a \in Int  BY <2>3, <2>6
    <3>2. q \in Int /\ b - a = Cap * q + y  BY <3>1, <2>12, ModRange
    <3> HIDE DEF q
    <3>3. Cap * (0 - q - 1) = 0 - Cap * q - Cap /\ Cap * q \in Int
      BY <3>2, CapFacts
    <3>4. a - b = Cap * (0 - q - 1) + (Cap - y)
      BY <2>3, <2>6, <2>11, <3>2, <3>3, CapFacts
    <3>5. a - b \in Int /\ 0 - q - 1 \in Int /\ Cap - y \in 0..Cap-1
      BY <2>3, <2>6, <2>11, <3>2, CapFacts
    <3> QED  BY <3>4, <3>5, ModUnique
  <2>9. ~((a - b) % Cap < Len(w))  BY <2>8, <2>11, CapFacts
  <2>10. Write(m, b, w)[a] = m[a]  BY <2>3, <2>9 DEF Write
  <2> QED  BY <2>10, <2>2 DEF b
<1> QED  BY <1>1 DEF Read
-----------------------------------------------------------------------------
(* Type correctness, whoever produces.                                     *)

\* The type invariant, and that a command is only copied out of the ring
\* while the tick has some left to execute.
TypeInv == /\ TypeOK
           /\ pc \in {"payload", "process"} => processed < MaxPerTick

\* The sizes the code computes are natural numbers, a command occupies its
\* header and the words of its payload, and the commands the code writes
\* itself are well formed.
LEMMA SizeFacts ==
    /\ \A b \in Nat : Words(b) \in Nat
    /\ \A c \in Command : Size(c) \in Nat /\ Size(c) = HdrWords + Len(c.payload)
    /\ \A c \in Command : HeaderOf(c) \in Seq(Nat) /\ Len(HeaderOf(c)) = HdrWords
    /\ NoCmd \in Command /\ InjectCmd \in Command
<1>1. \A b \in Nat : Words(b) \in Nat  BY DEF Words
<1>2. \A c \in Command : /\ c.opcode \in Nat /\ c.bytes \in Nat /\ c.ctxId \in Nat
                         /\ c.payload \in Seq(Nat) /\ Len(c.payload) = Words(c.bytes)
  BY DEF Command
<1>3. ASSUME NEW c \in Command
      PROVE  Size(c) \in Nat /\ Size(c) = HdrWords + Len(c.payload)
  <2>1. c.bytes \in Nat /\ Len(c.payload) = Words(c.bytes)  BY <1>2
  <2>2. Words(c.bytes) \in Nat  BY <1>1, <2>1
  <2> QED  BY <2>1, <2>2 DEF Size, HdrWords
<1>4. \A c \in Command : HeaderOf(c) \in Seq(Nat) /\ Len(HeaderOf(c)) = HdrWords
  BY <1>2 DEF HeaderOf, HdrWords
<1>5. NoCmd \in Command  BY DEF NoCmd, Command, Words, NOP
<1>6. InjectCmd \in Command
  <2>1. <<7>> \in Seq(Nat) /\ Len(<<7>>) = 1 /\ (4 + 3) \div 4 = 1  OBVIOUS
  <2> QED  BY <2>1 DEF InjectCmd, Command, Words, CLEAR
<1> QED  BY <1>1, <1>3, <1>4, <1>5, <1>6

\* InjectTest writes five words at a time, and what a producer means to send
\* is well formed.
LEMMA InjectFacts == /\ Size(InjectCmd) = 5
                     /\ Meant \subseteq Command
                     /\ Meant \subseteq Commands \cup {InjectCmd}
<1>1. Size(InjectCmd) = 5
  <2>1. (4 + 3) \div 4 = 1  OBVIOUS
  <2> QED  BY <2>1 DEF Size, InjectCmd, Words, HdrWords
<1>2. Meant \subseteq Command  BY SizeFacts, RingAssumption DEF Meant
<1>3. Meant \subseteq Commands \cup {InjectCmd}  BY DEF Meant
<1> QED  BY <1>1, <1>2, <1>3

\* The offset of a later word is an offset in the ring.
LEMMA OffsetType == ASSUME NEW a \in 0..Cap-1, NEW n \in Nat
                    PROVE  (a + n) % Cap \in 0..Cap-1 /\ 0 \in 0..Cap-1
<1>1. a + n \in Int /\ 0 \in 0..Cap-1  BY CapFacts
<1> QED  BY <1>1, ModRange

\* The initial state has its type.
LEMMA TypeInit == Init => TypeInv
<1> SUFFICES ASSUME Init PROVE TypeInv  OBVIOUS
<1>1. NoCmd \in Command  BY SizeFacts
<1>2. mem \in [0..Cap-1 -> Nat] /\ 0 \in 0..Cap-1  BY CapFacts DEF Init, HdrWords
<1>3. NoCmd \in [opcode: Nat, bytes: Nat, ctxId: Nat, payload: Seq(Nat)]
  BY <1>1 DEF Command
<1>4. 0 \in 0..MaxPerTick  BY RingAssumption
<1>5. sent = <<>> /\ start = <<0>> /\ done = <<>>  BY DEF Init
<1>6. /\ sent \in Seq(Command) /\ start \in Seq(Nat) /\ Len(start) = Len(sent) + 1
      /\ done \in Seq([opcode: Nat, bytes: Nat, ctxId: Nat, payload: Seq(Nat)])
  BY <1>5
<1> QED  BY <1>1, <1>2, <1>3, <1>4, <1>6 DEF Init, TypeInv, TypeOK

\* A producer keeps the types.
LEMMA TypeProduce == ASSUME TypeInv, NEW t \in Producers, Produce(t)
                     PROVE  TypeInv'
<1> USE DEF TypeInv
<1>1. ASSUME NEW c \in Command, Begin(t, c) PROVE TypeInv'
  BY <1>1 DEF TypeOK, Begin, ringVars, pollVars, history
<1>2. CASE InjectRead(t)
  BY <1>1, <1>2, SizeFacts DEF InjectRead
<1>3. CASE \E c \in Commands : UserBegin(t, c)
  BY <1>1, <1>3, RingAssumption DEF UserBegin
<1>4. CASE WriteHeader(t)
  <2>0. pcmd[t] \in Command /\ pat[t] \in 0..Cap-1 /\ mem \in Ring
    BY DEF TypeOK, Ring
  <2>1. HeaderOf(pcmd[t]) \in Seq(Nat)  BY <2>0, SizeFacts
  <2>3. pat[t] \in Int  BY <2>0, CapFacts
  <2>2. mem' \in [0..Cap-1 -> Nat]
    BY <1>4, <2>0, <2>1, <2>3, WriteType DEF WriteHeader, Ring
  <2> QED  BY <1>4, <2>2 DEF WriteHeader, TypeOK, pollVars, history
<1>5. CASE WritePayload(t)
  <2>1. pcmd[t].payload \in Seq(Nat)  BY DEF TypeOK, Command
  <2>2. (pat[t] + HdrWords) % Cap \in 0..Cap-1 /\ HdrWords \in Nat
    BY OffsetType, CapFacts DEF TypeOK
  <2>4. (pat[t] + HdrWords) % Cap \in Int  BY <2>2, CapFacts
  <2>6. mem \in Ring  BY DEF TypeOK, Ring
  <2>5. mem' \in Ring  BY <1>5, <2>1, <2>4, <2>6, WriteType DEF WritePayload
  <2>3. mem' \in [0..Cap-1 -> Nat]  BY <2>5 DEF Ring
  <2> QED  BY <1>5, <2>3 DEF WritePayload, TypeOK, pollVars, history
<1>6. CASE Publish(t)
  <2>1. Size(pcmd[t]) \in Nat  BY SizeFacts DEF TypeOK
  <2>2. pat[t] \in 0..Cap-1  BY DEF TypeOK
  <2>3. head' \in 0..Cap-1  BY <1>6, <2>1, <2>2, OffsetType DEF Publish
  <2>7. start[Len(start)] + Size(pcmd[t]) \in Nat  BY <2>1, SMTT(30) DEF TypeOK
  <2>4. start' \in Seq(Nat) /\ Len(start') = Len(sent') + 1 /\ sent' \in Seq(Command)
    BY <1>6, <2>7, SMTT(30) DEF Publish, TypeOK
  <2>5. pat' \in [Producers -> 0..Cap-1]  BY <1>6, CapFacts DEF Publish, TypeOK
  <2>6. pcmd' \in [Producers -> Command]  BY <1>6, SizeFacts DEF Publish, TypeOK
  <2> QED  BY <1>6, <2>3, <2>4, <2>5, <2>6 DEF Publish, TypeOK, pollVars
<1> QED  BY <1>2, <1>3, <1>4, <1>5, <1>6 DEF Produce

\* pollRing keeps the types.
LEMMA TypePoll == ASSUME TypeInv, Poll PROVE TypeInv'
<1> USE DEF TypeInv, prodVars, history, ringVars
<1>1. CASE PollBusy  BY <1>1 DEF PollBusy, TypeOK
<1>2. CASE PollClaim  BY <1>2 DEF PollClaim, TypeOK
<1>3. CASE PollEmpty  BY <1>3 DEF PollEmpty, TypeOK
<1>4. CASE PollBegin  BY <1>4 DEF PollBegin, TypeOK
<1>5. CASE ReadHeader
  <2> DEFINE h == Read(mem, tail, HdrWords)
  <2>1. tail \in Int /\ HdrWords \in Nat /\ HdrWords = 4 /\ mem \in Ring
    BY CapFacts DEF TypeOK, Ring
  <2>2. h[1] \in Nat /\ h[2] \in Nat /\ h[3] \in Nat
    <3>1. \A k \in 1..4 : h[k] \in Nat  BY <2>1, ReadType
    <3> HIDE DEF h
    <3> QED  BY <3>1
  <2>3. cmd' = [opcode |-> h[1], bytes |-> h[2], ctxId |-> h[3], payload |-> <<>>]
    BY <1>5 DEF ReadHeader
  <2> HIDE DEF h
  <2>4. cmd' \in [opcode: Nat, bytes: Nat, ctxId: Nat, payload: Seq(Nat)]
    BY <2>2, <2>3
  <2>5. processed < MaxPerTick /\ pc' \in {"exit", "payload"}
    BY <1>5 DEF ReadHeader, MoreToDo
  <2> QED  BY <1>5, <2>4, <2>5 DEF ReadHeader, TypeOK
<1>6. CASE ReadPayload
  <2>1. Words(cmd.bytes) \in Nat  BY SizeFacts DEF TypeOK
  <2>2. (tail + HdrWords) % Cap \in 0..Cap-1 /\ HdrWords \in Nat
    BY OffsetType, CapFacts DEF TypeOK
  <2>5. (tail + HdrWords) % Cap \in Int /\ mem \in Ring
    BY <2>2, CapFacts, SMTT(30) DEF TypeOK, Ring
  <2>3. Read(mem, (tail + HdrWords) % Cap, Words(cmd.bytes)) \in Seq(Nat)
    BY <2>1, <2>5, ReadType
  <2>4. cmd' \in [opcode: Nat, bytes: Nat, ctxId: Nat, payload: Seq(Nat)]
    BY <1>6, <2>3 DEF ReadPayload, TypeOK
  <2> QED  BY <1>6, <2>4 DEF ReadPayload, TypeOK
<1>7. CASE Process
  <2>0. cmd.bytes \in Nat /\ tail \in 0..Cap-1  BY DEF TypeOK
  <2>8. Words(cmd.bytes) \in Nat  BY <2>0, SizeFacts
  <2>1. Size(cmd) \in Nat  BY <2>8 DEF Size, HdrWords
  <2>2. tail' \in 0..Cap-1  BY <1>7, <2>0, <2>1, OffsetType DEF Process
  <2>3. processed' \in 0..MaxPerTick
    BY <1>7, RingAssumption DEF Process, TypeOK
  <2>4. PICK d \in Draws(cmd) : fNeedFlush' = (fNeedFlush \/ d)
    BY <1>7 DEF Process
  <2>5. fNeedFlush' \in BOOLEAN  BY <2>4 DEF TypeOK
  <2>6. cmd' \in [opcode: Nat, bytes: Nat, ctxId: Nat, payload: Seq(Nat)]
    BY <1>7, SizeFacts DEF Process, Command
  <2>7. done' \in Seq([opcode: Nat, bytes: Nat, ctxId: Nat, payload: Seq(Nat)])
    BY <1>7 DEF Process, TypeOK
  <2> QED  BY <1>7, <2>2, <2>3, <2>5, <2>6, <2>7 DEF Process, TypeOK
<1>8. CASE PollEnd
  <2>1. cmd' \in [opcode: Nat, bytes: Nat, ctxId: Nat, payload: Seq(Nat)]
    BY <1>8, SizeFacts DEF PollEnd, Command
  <2>2. 0 \in 0..Cap-1 /\ 0 \in 0..MaxPerTick
    BY CapFacts, RingAssumption DEF HdrWords
  <2> QED  BY <1>8, <2>1, <2>2 DEF PollEnd, TypeOK
<1> QED  BY <1>1, <1>2, <1>3, <1>4, <1>5, <1>6, <1>7, <1>8 DEF Poll

LEMMA TypeInductive == Spec => []TypeInv
<1>1. TypeInv /\ [Next]_vars => TypeInv'
  <2> SUFFICES ASSUME TypeInv, [Next]_vars PROVE TypeInv'  OBVIOUS
  <2>1. CASE UNCHANGED vars  BY <2>1 DEF TypeInv, TypeOK, vars
  <2>2. CASE Poll  BY <2>2, TypePoll
  <2>3. CASE \E t \in Producers : Produce(t)  BY <2>3, TypeProduce
  <2> QED  BY <2>1, <2>2, <2>3 DEF Next
<1> QED  BY <1>1, TypeInit, PTL DEF Spec

\* Every variable keeps its type, the offsets stay inside the ring and a tick
\* never executes more than MaxPerTick commands, whatever the producers do:
\* several of them at once and an overrun ring included.
THEOREM TypeCorrect == Spec => []TypeOK
<1>1. TypeInv => TypeOK  BY DEF TypeInv
<1> QED  BY <1>1, TypeInductive, PTL

\* Each step of a tick leaves it less to do, whoever produces: pollRing returns
\* after at most 3 * MaxPerTick + 2 steps, on any words it may find.
THEOREM TickAlwaysEnds == Spec => TickEnds
<1>1. ASSUME TypeInv, [Next]_vars
      PROVE  [pc # "idle" => TickLeft' \in 0..TickLeft-1]_pollVars
  <2>1. /\ MaxPerTick \in Nat \ {0} /\ processed \in 0..MaxPerTick
        /\ pc \in {"payload", "process"} => processed < MaxPerTick
    BY <1>1, RingAssumption DEF TypeInv, TypeOK
  <2>2. CASE UNCHANGED vars  BY <2>2 DEF vars, pollVars
  <2>3. CASE PollBusy \/ PollClaim  BY <2>3 DEF PollBusy, PollClaim
  <2>4. CASE PollEmpty
    BY <2>4, <2>1 DEF PollEmpty, TickLeft
  <2>5. CASE PollBegin
    BY <2>5, <2>1 DEF PollBegin, TickLeft
  <2>6. CASE ReadHeader
    BY <2>6, <2>1 DEF ReadHeader, MoreToDo, TickLeft
  <2>7. CASE ReadPayload
    BY <2>7, <2>1 DEF ReadPayload, TickLeft
  <2>8. CASE Process
    <3>1. pc = "process" /\ pc' = "loop" /\ processed' = processed + 1
      BY <2>8 DEF Process
    <3>2. TickLeft = 3 * (MaxPerTick - processed) - 1  BY <3>1 DEF TickLeft
    <3>3. TickLeft' = 3 * (MaxPerTick - (processed + 1)) + 1  BY <3>1 DEF TickLeft
    <3> QED  BY <3>1, <3>2, <3>3, <2>1
  <2>9. CASE PollEnd
    BY <2>9, <2>1 DEF PollEnd, TickLeft
  <2>10. CASE \E t \in Producers : Produce(t)
    BY <2>10 DEF Produce, InjectRead, UserBegin, Begin, WriteHeader, WritePayload,
                 Publish, pollVars
  <2> QED
    BY <1>1, <2>2, <2>3, <2>4, <2>5, <2>6, <2>7, <2>8, <2>9, <2>10 DEF Next, Poll
<1> QED  BY <1>1, TypeInductive, PTL DEF Spec, TickEnds
-----------------------------------------------------------------------------
(* A single producer: the inductive invariant RingInv.                     *)

\* The word numbers of the pending commands, in order and within one lap.
LEMMA PendingOrder ==
    ASSUME TypeInv, RingInv
    PROVE  /\ Len(done) \in Nat /\ Len(sent) \in Nat /\ First \in 1..Next1
           /\ First = Len(done) + 1 /\ Next1 = Len(sent) + 1
           /\ \A i \in 1..Next1 : start[i] \in Nat
           /\ \A i \in 1..Len(sent) :
                  /\ sent[i] \in Command /\ sent[i].bytes \in Nat
                  /\ sent[i].payload \in Seq(Nat)
                  /\ Words(sent[i].bytes) \in Nat
                  /\ Words(sent[i].bytes) = Len(sent[i].payload)
                  /\ Size(sent[i]) = HdrWords + Words(sent[i].bytes)
           /\ \A i \in First..Len(sent) :
                  /\ start[First] <= start[i]
                  /\ start[i] + Size(sent[i]) <= start[Next1]
           /\ start[First] <= start[Next1]
<1>1. /\ Len(done) \in Nat /\ Len(sent) \in Nat /\ Len(start) = Len(sent) + 1
      /\ start \in Seq(Nat) /\ sent \in Seq(Command)
  BY DEF TypeInv, TypeOK
<1>2. First \in 1..Next1 /\ First = Len(done) + 1 /\ Next1 = Len(sent) + 1
  BY <1>1 DEF RingInv, OffsetsMeanIndices, First, Next1
<1>3. \A i \in 1..Next1 : start[i] \in Nat  BY <1>1, <1>2
<1>4. ASSUME NEW i \in 1..Len(sent)
      PROVE  /\ sent[i] \in Command /\ sent[i].bytes \in Nat
             /\ sent[i].payload \in Seq(Nat)
             /\ Words(sent[i].bytes) \in Nat
             /\ Words(sent[i].bytes) = Len(sent[i].payload)
             /\ Size(sent[i]) = HdrWords + Words(sent[i].bytes)
             /\ Size(sent[i]) \in Nat
  <2>1. sent[i] \in Command  BY <1>1
  <2>2. /\ sent[i].bytes \in Nat /\ sent[i].payload \in Seq(Nat)
        /\ Words(sent[i].bytes) = Len(sent[i].payload)
    BY <2>1 DEF Command
  <2>3. Words(sent[i].bytes) \in Nat /\ Size(sent[i]) \in Nat
    BY <2>1, <2>2, SizeFacts
  <2> QED  BY <2>1, <2>2, <2>3 DEF Size
<1>5. \A i \in 1..Len(sent) : \A j \in i+1..Next1 :
          start[i] + Size(sent[i]) <= start[j]
  BY DEF RingInv, Contiguous
<1>6. \A i \in 1..Next1 : \A j \in i..Next1 : start[i] <= start[j]
  <2> SUFFICES ASSUME NEW i \in 1..Next1, NEW j \in i..Next1
               PROVE  start[i] <= start[j]
    OBVIOUS
  <2>1. CASE i = j  BY <2>1, <1>1, <1>2, <1>3
  <2>2. CASE i # j
    <3>1. i \in 1..Len(sent) /\ j \in i+1..Next1  BY <2>2, <1>1, <1>2
    <3>2. start[i] + Size(sent[i]) <= start[j] /\ Size(sent[i]) \in Nat
      BY <3>1, <1>4, <1>5
    <3>3. start[i] \in Nat /\ start[j] \in Nat  BY <1>1, <1>2, <1>3
    <3> QED  BY <3>2, <3>3
  <2> QED  BY <2>1, <2>2
<1>7. start[First] <= start[Next1]  BY <1>1, <1>2, <1>6
<1>8. ASSUME NEW i \in First..Len(sent)
      PROVE  start[First] <= start[i] /\ start[i] + Size(sent[i]) <= start[Next1]
  <2>1. i \in 1..Len(sent) /\ i \in First..Next1 /\ Next1 \in i+1..Next1
    BY <1>1, <1>2
  <2> QED  BY <2>1, <1>2, <1>5, <1>6
<1> QED  BY <1>1, <1>2, <1>3, <1>4, <1>7, <1>8

\* The empty ring satisfies the invariant.
LEMMA RingInit == Init => RingInv
<1> SUFFICES ASSUME Init PROVE RingInv  OBVIOUS
<1>1. /\ sent = <<>> /\ done = <<>> /\ start = <<0>> /\ head = 0 /\ tail = 0
      /\ pc = "idle" /\ \A t \in Producers : ppc[t] = "idle"
  BY DEF Init
<1>2. 0 % Cap = 0 /\ 0 < Cap  BY CapFacts
<1>3. First = 1 /\ Next1 = 1 /\ Len(sent) = 0 /\ Len(done) = 0 /\ start[1] = 0
  BY <1>1 DEF First, Next1
<1>4. Contiguous /\ ExecutedInOrder /\ OnlyCommands /\ StreamIntact
  <2>1. 0 * Size(InjectCmd) = 0  BY InjectFacts
  <2>2. OnlyCommands  BY <1>1, <1>3, <2>1 DEF OnlyCommands
  <2> QED  BY <1>1, <1>3, <2>2 DEF Contiguous, ExecutedInOrder, StreamIntact
<1>5. OffsetsMeanIndices  BY <1>1, <1>2, <1>3 DEF OffsetsMeanIndices
<1>6. Reserved /\ Copied /\ SnapshotOnBoundary /\ PollOnFront
  BY <1>1 DEF Reserved, Copied, SnapshotOnBoundary, PollOnFront
<1> QED  BY <1>4, <1>5, <1>6 DEF RingInv

\* A step that leaves the ring and the history alone.
LEMMA FrameRing == ASSUME RingInv, UNCHANGED <<mem, head, tail, sent, start, done>>
                   PROVE  /\ Contiguous' /\ OffsetsMeanIndices' /\ ExecutedInOrder'
                          /\ StreamIntact'
<1>1. Contiguous'  BY DEF RingInv, Contiguous, Next1
<1>2. OffsetsMeanIndices'  BY DEF RingInv, OffsetsMeanIndices, First, Next1
<1>3. ExecutedInOrder'  BY DEF RingInv, ExecutedInOrder
<1>4. StreamIntact'  BY DEF RingInv, StreamIntact
<1> QED  BY <1>1, <1>2, <1>3, <1>4

\* A step that leaves the producers alone too.
LEMMA FrameProducers ==
    ASSUME RingInv, UNCHANGED <<mem, head, tail, sent, start, done>>,
           UNCHANGED prodVars
    PROVE  OnlyCommands' /\ Reserved' /\ Copied'
<1>1. OnlyCommands'  BY DEF RingInv, OnlyCommands, prodVars, Next1
<1>2. Reserved'  BY DEF RingInv, Reserved, prodVars, First, Next1
<1>3. Copied'  BY DEF RingInv, Copied, prodVars
<1> QED  BY <1>1, <1>2, <1>3

\* pollRing keeps the invariant.
LEMMA RingPoll == ASSUME TypeInv, RingInv, Poll PROVE RingInv'
<1> USE DEF ringVars, history
<1>0. ASSUME UNCHANGED <<mem, head, tail, sent, start, done>>, UNCHANGED prodVars,
             SnapshotOnBoundary', PollOnFront'
      PROVE  RingInv'
  BY <1>0, FrameRing, FrameProducers DEF RingInv
<1>1. CASE PollBusy
  <2>1. SnapshotOnBoundary' /\ PollOnFront'
    BY <1>1 DEF PollBusy, SnapshotOnBoundary, PollOnFront
  <2> QED  BY <2>1, <1>0, <1>1 DEF PollBusy
<1>2. CASE PollClaim
  <2>1. SnapshotOnBoundary' /\ PollOnFront'
    BY <1>2 DEF PollClaim, SnapshotOnBoundary, PollOnFront
  <2> QED  BY <2>1, <1>0, <1>2 DEF PollClaim
<1>3. CASE PollEmpty
  <2>1. SnapshotOnBoundary' /\ PollOnFront'
    BY <1>3 DEF PollEmpty, SnapshotOnBoundary, PollOnFront
  <2> QED  BY <2>1, <1>0, <1>3 DEF PollEmpty
<1>4. CASE PollBegin
  <2>1. lhead' = start[Len(sent) + 1] % Cap /\ Len(sent) \in Len(done)..Len(sent)
    BY <1>4, PendingOrder DEF PollBegin, RingInv, OffsetsMeanIndices, Next1
  <2>2. SnapshotOnBoundary'  BY <1>4, <2>1 DEF PollBegin, SnapshotOnBoundary
  <2>3. PollOnFront'  BY <1>4 DEF PollBegin, PollOnFront
  <2> QED  BY <2>2, <2>3, <1>0, <1>4 DEF PollBegin
<1>5. CASE ReadHeader
  <2>1. PICK m \in Len(done)..Len(sent) : lhead = start[m + 1] % Cap
    BY <1>5 DEF ReadHeader, RingInv, SnapshotOnBoundary
  <2>2. tail = start[Len(done) + 1] % Cap /\ tail # lhead
    BY <1>5 DEF ReadHeader, MoreToDo, RingInv, OffsetsMeanIndices, First
  <2>3. First \in Len(done)+1..Len(sent) /\ Len(done) < Len(sent)
    BY <2>1, <2>2, PendingOrder
  <2>4. Read(mem, tail, HdrWords) = HeaderOf(sent[First])
    BY <2>2, <2>3 DEF RingInv, StreamIntact, OffsetsMeanIndices
  <2>5. /\ cmd'.opcode = sent[First].opcode /\ cmd'.bytes = sent[First].bytes
        /\ cmd'.ctxId = sent[First].ctxId
        /\ pc' = IF TooLarge(sent[First].bytes) THEN "exit" ELSE "payload"
    BY <1>5, <2>4 DEF ReadHeader, HeaderOf
  <2>6. SnapshotOnBoundary'  BY <1>5, <2>1 DEF ReadHeader, SnapshotOnBoundary
  <2>7. sent'[First'] = sent[First]  BY <1>5 DEF ReadHeader, First
  <2>8. PollOnFront'  BY <1>5, <2>2, <2>3, <2>5, <2>7 DEF ReadHeader, PollOnFront
  <2> QED  BY <2>6, <2>8, <1>0, <1>5 DEF ReadHeader
<1>6. CASE ReadPayload
  <2>1. /\ Len(done) < Len(sent) /\ tail # lhead /\ ~TooLarge(sent[First].bytes)
        /\ cmd.opcode = sent[First].opcode /\ cmd.bytes = sent[First].bytes
        /\ cmd.ctxId = sent[First].ctxId
    BY <1>6 DEF ReadPayload, RingInv, PollOnFront
  <2>2. First \in Len(done)+1..Len(sent) /\ sent[First] \in Command
    BY <2>1, PendingOrder
  <2>3. tail = start[First] % Cap  BY DEF RingInv, OffsetsMeanIndices
  <2>4. start[First] \in Int /\ HdrWords \in Int  BY PendingOrder, CapFacts
  <2>5. (tail + HdrWords) % Cap = (start[First] + HdrWords) % Cap
    BY <2>3, <2>4, ModAdd
  <2>6. Read(mem, (tail + HdrWords) % Cap, Words(sent[First].bytes))
          = sent[First].payload
    BY <2>2, <2>5 DEF RingInv, StreamIntact
  <2>7. cmd' = [cmd EXCEPT !.payload = sent[First].payload]
    BY <1>6, <2>1, <2>6 DEF ReadPayload
  <2>8. cmd' = sent[First]
    <3> DEFINE Rec == [opcode: Nat, bytes: Nat, ctxId: Nat, payload: Seq(Nat)]
    <3>1. cmd \in Rec /\ sent[First] \in Rec  BY <2>2 DEF TypeInv, TypeOK, Command
    <3>2. \A c \in Rec : c = [opcode |-> c.opcode, bytes |-> c.bytes,
                              ctxId |-> c.ctxId, payload |-> c.payload]
      OBVIOUS
    <3>3. cmd' = [opcode |-> cmd.opcode, bytes |-> cmd.bytes, ctxId |-> cmd.ctxId,
                  payload |-> sent[First].payload]
      BY <2>7, <3>1
    <3> QED  BY <2>1, <3>1, <3>2, <3>3
  <2>9. SnapshotOnBoundary'
    BY <1>6 DEF ReadPayload, RingInv, SnapshotOnBoundary
  <2>10. sent'[First'] = sent[First]  BY <1>6 DEF ReadPayload, First
  <2>11. PollOnFront'
    BY <1>6, <2>1, <2>8, <2>10 DEF ReadPayload, PollOnFront
  <2> QED  BY <2>9, <2>11, <1>0, <1>6 DEF ReadPayload
<1>7. CASE Process
  <2>1. /\ Len(done) < Len(sent) /\ tail # lhead /\ cmd = sent[First]
    BY <1>7 DEF Process, RingInv, PollOnFront
  <2>2. First \in 1..Len(sent) /\ First \in First..Len(sent)  BY <2>1, PendingOrder
  <2>3. /\ UNCHANGED <<mem, head, lhead, sent, start, prodVars>> /\ pc' = "loop"
        /\ done' = Append(done, cmd) /\ tail' = (tail + Size(cmd)) % Cap
    BY <1>7 DEF Process
  <2>4. Len(done') = First /\ First' = First + 1 /\ Next1' = Next1
    BY <2>3, PendingOrder DEF First, Next1, TypeInv, TypeOK
  <2>5. /\ start[First + 1] = start[First] + Size(cmd) /\ start[First + 1] \in Nat
        /\ start[First] \in Nat /\ start[Next1] \in Nat /\ Size(cmd) \in Nat
        /\ start[First] <= start[First + 1]
    <3>1. Size(cmd) = HdrWords + Words(cmd.bytes) /\ Words(cmd.bytes) \in Nat
      BY <2>1, <2>2, PendingOrder
    <3>2. Size(cmd) \in Nat  BY <3>1, CapFacts
    <3>3. start[First + 1] = start[First] + Size(cmd)
      BY <2>1, <2>2 DEF RingInv, Contiguous
    <3>4. start[First] \in Nat /\ start[Next1] \in Nat  BY PendingOrder
    <3> QED  BY <3>2, <3>3, <3>4
  <2>6. tail' = start[First + 1] % Cap
    <3>1. tail = start[First] % Cap  BY DEF RingInv, OffsetsMeanIndices
    <3>3. start[First] \in Int /\ Size(cmd) \in Int  BY <2>5
    <3>2. ((start[First] % Cap) + Size(cmd)) % Cap = (start[First] + Size(cmd)) % Cap
      BY <3>3, ModAdd
    <3> QED  BY <2>3, <2>5, <3>1, <3>2
  <2>7. Contiguous'  BY <2>3 DEF RingInv, Contiguous, Next1
  <2>8. OffsetsMeanIndices'
    <3>1. Len(done') <= Len(sent')  BY <2>2, <2>3, <2>4
    <3>2. head' = start'[Next1'] % Cap /\ tail' = start'[First'] % Cap
      BY <2>3, <2>4, <2>6 DEF RingInv, OffsetsMeanIndices
    <3>3. start[Next1] - start[First] < Cap  BY DEF RingInv, OffsetsMeanIndices
    <3>4. start[Next1] - start[First + 1] < Cap  BY <2>5, <3>3, CapFacts
    <3> QED  BY <2>3, <2>4, <3>1, <3>2, <3>4 DEF OffsetsMeanIndices
  <2>9. ExecutedInOrder'
    <3> SUFFICES ASSUME NEW i \in 1..Len(done') PROVE done'[i] = sent[i]
      BY <2>3 DEF ExecutedInOrder
    <3>1. done \in Seq([opcode: Nat, bytes: Nat, ctxId: Nat, payload: Seq(Nat)])
      BY DEF TypeInv, TypeOK
    <3>2. First = Len(done) + 1 /\ Len(done) \in Nat  BY PendingOrder
    <3>3. CASE i = First  BY <3>1, <3>2, <3>3, <2>1, <2>3
    <3>4. CASE i # First
      <4>1. i \in 1..Len(done)  BY <3>2, <3>4, <2>4
      <4>2. done[i] = sent[i]  BY <4>1 DEF RingInv, ExecutedInOrder
      <4> QED  BY <4>1, <4>2, <3>1, <2>3
    <3> QED  BY <3>3, <3>4
  <2>10. OnlyCommands'  BY <2>3, <2>4 DEF RingInv, OnlyCommands, prodVars
  <2>11. Reserved'
    <3> SUFFICES ASSUME NEW t \in Producers, ppc[t] # "idle"
                 PROVE  /\ pat[t] = head
                        /\ start[Next1] + Size(pcmd[t]) - start[First + 1] < Cap
      BY <2>3, <2>4 DEF Reserved, prodVars
    <3>1. pat[t] = head /\ start[Next1] + Size(pcmd[t]) - start[First] < Cap
      BY DEF RingInv, Reserved
    <3>2. Size(pcmd[t]) \in Nat  BY SizeFacts DEF TypeInv, TypeOK
    <3> QED  BY <3>1, <3>2, <2>5, CapFacts
  <2>12. Copied'  BY <2>3 DEF RingInv, Copied, prodVars
  <2>13. StreamIntact'
    <3>1. \A i \in Len(done')+1..Len(sent) : i \in Len(done)+1..Len(sent)
      BY <2>4, PendingOrder
    <3> QED  BY <2>3, <3>1 DEF RingInv, StreamIntact
  <2>14. SnapshotOnBoundary'
    <3>1. PICK m \in Len(done)..Len(sent) : lhead = start[m + 1] % Cap
      BY <1>7 DEF Process, RingInv, SnapshotOnBoundary
    <3>2. m # Len(done)
      BY <3>1, <2>1 DEF RingInv, OffsetsMeanIndices, First
    <3>3. m \in Len(done')..Len(sent)  BY <3>1, <3>2, <2>4, PendingOrder
    <3> QED  BY <3>1, <3>3, <2>3 DEF SnapshotOnBoundary
  <2>15. PollOnFront'  BY <2>3 DEF PollOnFront
  <2> QED
    BY <2>7, <2>8, <2>9, <2>10, <2>11, <2>12, <2>13, <2>14, <2>15 DEF RingInv
<1>8. CASE PollEnd
  <2>1. SnapshotOnBoundary' /\ PollOnFront'
    BY <1>8 DEF PollEnd, SnapshotOnBoundary, PollOnFront
  <2> QED  BY <2>1, <1>0, <1>8 DEF PollEnd
<1> QED  BY <1>1, <1>2, <1>3, <1>4, <1>5, <1>6, <1>7, <1>8 DEF Poll

\* What the producer's reservation gives its two copies: both lie ahead of
\* every pending command and less than a lap ahead of the first.
LEMMA Reservation ==
    ASSUME TypeInv, RingInv, NEW t \in Producers, ppc[t] # "idle"
    PROVE  /\ pat[t] = start[Next1] % Cap
           /\ pcmd[t] \in Command /\ HeaderOf(pcmd[t]) \in Seq(Nat)
           /\ Len(HeaderOf(pcmd[t])) = HdrWords
           /\ pcmd[t].payload \in Seq(Nat)
           /\ Len(pcmd[t].payload) = Words(pcmd[t].bytes)
           /\ Words(pcmd[t].bytes) \in Nat
           /\ Size(pcmd[t]) = HdrWords + Words(pcmd[t].bytes)
           /\ (pat[t] + HdrWords) % Cap = (start[Next1] + HdrWords) % Cap
           /\ start[Next1] + HdrWords + Words(pcmd[t].bytes) < start[First] + Cap
<1>1. /\ pat[t] = head /\ head = start[Next1] % Cap
      /\ start[Next1] + Size(pcmd[t]) - start[First] < Cap
  BY DEF RingInv, Reserved, OffsetsMeanIndices
<1>2. pcmd[t] \in Command  BY DEF TypeInv, TypeOK
<1>3. HeaderOf(pcmd[t]) \in Seq(Nat) /\ Len(HeaderOf(pcmd[t])) = HdrWords
  BY <1>2, SizeFacts
<1>4. pcmd[t].payload \in Seq(Nat) /\ Len(pcmd[t].payload) = Words(pcmd[t].bytes)
  BY <1>2 DEF Command
<1>5. Words(pcmd[t].bytes) \in Nat  BY <1>4
<1>6. Size(pcmd[t]) = HdrWords + Words(pcmd[t].bytes)  BY DEF Size
<1>7. start[Next1] \in Int /\ start[First] \in Int /\ HdrWords \in Int
  BY PendingOrder, CapFacts
<1>8. ((start[Next1] % Cap) + HdrWords) % Cap = (start[Next1] + HdrWords) % Cap
  BY <1>7, ModAdd
<1>9. start[Next1] + HdrWords + Words(pcmd[t].bytes) < start[First] + Cap
  BY <1>1, <1>5, <1>6, <1>7, CapFacts
<1> QED  BY <1>1, <1>2, <1>3, <1>4, <1>5, <1>6, <1>8, <1>9

\* Copying words at or after the head, less than a lap from the tail, does
\* not reach a pending command.
LEMMA StreamSurvives ==
    ASSUME TypeInv, RingInv, NEW v \in Int, NEW w \in Seq(Nat),
           start[Next1] <= v, v + Len(w) < start[First] + Cap,
           mem' = Write(mem, v % Cap, w), UNCHANGED <<sent, start, done>>
    PROVE  StreamIntact'
<1> SUFFICES ASSUME NEW i \in Len(done)+1..Len(sent)
             PROVE  /\ Read(mem', start[i] % Cap, HdrWords) = HeaderOf(sent[i])
                    /\ Read(mem', (start[i] + HdrWords) % Cap, Words(sent[i].bytes))
                         = sent[i].payload
  BY DEF StreamIntact
<1>1. i \in First..Len(sent) /\ i \in 1..Len(sent) /\ i \in 1..Next1
  BY PendingOrder
<1>2. /\ start[i] \in Nat /\ start[First] \in Nat /\ start[Next1] \in Nat
      /\ start[First] <= start[i]
      /\ start[i] + Size(sent[i]) <= start[Next1]
      /\ Size(sent[i]) = HdrWords + Words(sent[i].bytes)
      /\ Words(sent[i].bytes) \in Nat
  BY <1>1, PendingOrder, SMTT(30)
<1>8. HdrWords \in Nat /\ Cap \in Nat /\ Len(w) \in Nat  BY CapFacts
<1> DEFINE a == start[i]
<1> DEFINE f == start[First]
<1> DEFINE l == Len(w)
<1> DEFINE b == Words(sent[i].bytes)
<1>9. /\ a \in Nat /\ f \in Nat /\ l \in Nat /\ b \in Nat /\ f <= a
      /\ a + HdrWords + b <= v /\ v + l < f + Cap
  BY <1>2, <1>8, SMTT(30)
<1> HIDE DEF a, f, l, b
<1>10. /\ a \in Int /\ a + HdrWords \in Int
       /\ a + HdrWords <= v /\ v + l < a + Cap
       /\ (a + HdrWords) + b <= v /\ v + l < (a + HdrWords) + Cap
  BY <1>8, <1>9
<1> USE DEF a, f, l, b
<1>3. /\ start[i] \in Int /\ HdrWords \in Nat
      /\ start[i] + HdrWords <= v /\ v + Len(w) < start[i] + Cap
  BY <1>8, <1>10
<1>4. /\ start[i] + HdrWords \in Int
      /\ (start[i] + HdrWords) + Words(sent[i].bytes) <= v
      /\ v + Len(w) < (start[i] + HdrWords) + Cap
  BY <1>10
<1>5. mem \in Ring  BY DEF TypeInv, TypeOK, Ring
<1>6. Read(mem', start[i] % Cap, HdrWords) = Read(mem, start[i] % Cap, HdrWords)
  BY <1>3, <1>5, ReadOther
<1>7. Read(mem', (start[i] + HdrWords) % Cap, Words(sent[i].bytes))
        = Read(mem, (start[i] + HdrWords) % Cap, Words(sent[i].bytes))
  BY <1>2, <1>4, <1>5, ReadOther
<1> QED  BY <1>6, <1>7 DEF RingInv, StreamIntact

\* A step of a producer leaves pollRing's side of the invariant alone.
LEMMA FramePoll ==
    ASSUME RingInv, UNCHANGED <<tail, sent, start, done, pollVars>>
    PROVE  /\ Contiguous' /\ ExecutedInOrder' /\ SnapshotOnBoundary' /\ PollOnFront'
<1>1. Contiguous'  BY DEF RingInv, Contiguous, Next1
<1>2. ExecutedInOrder'  BY DEF RingInv, ExecutedInOrder
<1>3. SnapshotOnBoundary'  BY DEF RingInv, SnapshotOnBoundary, pollVars
<1>4. PollOnFront'  BY DEF RingInv, PollOnFront, pollVars, First
<1> QED  BY <1>1, <1>2, <1>3, <1>4

\* The only producer keeps the invariant.
LEMMA RingProduce == ASSUME SingleProducer, TypeInv, RingInv,
                            NEW t \in Producers, Produce(t)
                     PROVE  RingInv'
<1> USE DEF ringVars, history
<1>1. \A u \in Producers : u = t  BY DEF SingleProducer
<1>7. ASSUME NEW c \in Meant, Begin(t, c),
             start[Next1] + Size(c) - start[First] < Cap
      PROVE  RingInv'
  <2>1. /\ UNCHANGED <<mem, head, tail, sent, start, done, pollVars>>
        /\ ppc' = [ppc EXCEPT ![t] = "header"] /\ pcmd' = [pcmd EXCEPT ![t] = c]
        /\ pat' = [pat EXCEPT ![t] = head]
    BY <1>7 DEF Begin
  <2>2. ppc'[t] = "header" /\ pcmd'[t] = c /\ pat'[t] = head
    BY <2>1 DEF TypeInv, TypeOK
  <2>8. Reserved'  BY <2>1, <2>2, <1>7, <1>1 DEF Reserved, First, Next1
  <2>9. Copied'  BY <2>2, <1>1 DEF Copied
  <2>10. OnlyCommands'  BY <2>1, <2>2, <1>1 DEF OnlyCommands, RingInv, Next1
  <2> QED
    BY <2>1, <2>8, <2>9, <2>10, FrameRing, FramePoll DEF RingInv
<1>2. CASE InjectRead(t)
  <2>1. t \in Injectors /\ Begin(t, InjectCmd) /\ Len(sent) < MaxSent
    BY <1>2 DEF InjectRead, Begin
  <2>2. Users = {} /\ MaxSent * Size(InjectCmd) < Cap
    BY <2>1 DEF SingleProducer, FitsAll
  <2>3. start[Next1] = Len(sent) * Size(InjectCmd)
    BY <2>2 DEF RingInv, OnlyCommands
  <2>4. start[First] \in Nat /\ Len(sent) \in Nat /\ MaxSent \in Nat /\ Cap \in Nat
    BY PendingOrder, RingAssumption
  <2>5. start[Next1] + Size(InjectCmd) - start[First] < Cap
    BY <2>1, <2>2, <2>3, <2>4, InjectFacts
  <2>6. InjectCmd \in Meant  BY <2>2 DEF Meant
  <2> QED  BY <2>1, <2>5, <2>6, <1>7
<1>3. ASSUME NEW c \in Commands, UserBegin(t, c) PROVE RingInv'
  <2>1. t \in Users /\ HasRoom(c) /\ Begin(t, c)  BY <1>3 DEF UserBegin
  <2>3. start[Next1] - start[First] \in 0..Cap-1
    <3>1. start[Next1] \in Nat /\ start[First] \in Nat /\ start[First] <= start[Next1]
      BY PendingOrder
    <3>2. start[Next1] - start[First] < Cap  BY DEF RingInv, OffsetsMeanIndices
    <3> QED  BY <3>1, <3>2, CapFacts
  <2>4. start[Next1] \in Int /\ start[First] \in Int  BY PendingOrder
  <2>5. Used = start[Next1] - start[First]
    BY <2>3, <2>4, ModDistance DEF Used, RingInv, OffsetsMeanIndices
  <2>6. Size(c) \in Nat  BY SizeFacts, RingAssumption
  <2>7. start[Next1] + Size(c) - start[First] < Cap
    BY <2>1, <2>4, <2>5, <2>6, CapFacts DEF HasRoom
  <2>8. c \in Meant  BY <2>1 DEF Meant
  <2> QED  BY <2>1, <2>7, <2>8, <1>7
<1>4. CASE WriteHeader(t)
  <2>1. /\ UNCHANGED <<head, tail, sent, start, done, pollVars, pcmd, pat>>
        /\ ppc[t] = "header" /\ ppc' = [ppc EXCEPT ![t] = "payload"]
        /\ mem' = Write(mem, pat[t], HeaderOf(pcmd[t]))
    BY <1>4 DEF WriteHeader
  <2>2. ppc'[t] = "payload" /\ ppc[t] # "idle"  BY <2>1 DEF TypeInv, TypeOK
  <2>3. /\ pat[t] = start[Next1] % Cap /\ HeaderOf(pcmd[t]) \in Seq(Nat)
        /\ Len(HeaderOf(pcmd[t])) = HdrWords
        /\ Words(pcmd[t].bytes) \in Nat
        /\ start[Next1] + HdrWords + Words(pcmd[t].bytes) < start[First] + Cap
    BY <2>2, Reservation
  <2>4. start[Next1] \in Int /\ start[First] \in Int /\ start[Next1] <= start[Next1]
    BY PendingOrder
  <2>5. start[Next1] + Len(HeaderOf(pcmd[t])) < start[First] + Cap
    BY <2>3, <2>4, CapFacts
  <2>6. mem' = Write(mem, start[Next1] % Cap, HeaderOf(pcmd[t]))
    BY <2>1, <2>3
  <2>7. StreamIntact'  BY <2>1, <2>3, <2>4, <2>5, <2>6, StreamSurvives
  <2>8. mem \in Ring /\ pat[t] \in Int /\ Len(HeaderOf(pcmd[t])) <= Cap
    <3>1. pat[t] \in 0..Cap-1 /\ mem \in Ring  BY DEF TypeInv, TypeOK, Ring
    <3> QED  BY <3>1, <2>3, CapFacts
  <2>9. Read(mem', pat[t], HdrWords) = HeaderOf(pcmd[t])
    BY <2>1, <2>3, <2>8, ReadWritten
  <2>10. Copied'  BY <2>1, <2>2, <2>9, <1>1 DEF Copied
  <2>11. Reserved'
    BY <2>1, <2>2, <1>1 DEF Reserved, RingInv, First, Next1
  <2>12. OnlyCommands'  BY <2>1, <2>2, <1>1 DEF OnlyCommands, RingInv, Next1
  <2>13. OffsetsMeanIndices'
    BY <2>1 DEF RingInv, OffsetsMeanIndices, First, Next1
  <2> QED
    BY <2>1, <2>7, <2>10, <2>11, <2>12, <2>13, FramePoll DEF RingInv
<1>5. CASE WritePayload(t)
  <2>1. /\ UNCHANGED <<head, tail, sent, start, done, pollVars, pcmd, pat>>
        /\ ppc[t] = "payload" /\ ppc' = [ppc EXCEPT ![t] = "publish"]
        /\ mem' = Write(mem, (pat[t] + HdrWords) % Cap, pcmd[t].payload)
    BY <1>5 DEF WritePayload
  <2>2. ppc'[t] = "publish" /\ ppc[t] # "idle"  BY <2>1 DEF TypeInv, TypeOK
  <2> DEFINE v == start[Next1] + HdrWords
  <2> DEFINE w == pcmd[t].payload
  <2>3. /\ pat[t] = start[Next1] % Cap /\ w \in Seq(Nat)
        /\ Len(w) = Words(pcmd[t].bytes) /\ Words(pcmd[t].bytes) \in Nat
        /\ (pat[t] + HdrWords) % Cap = v % Cap
        /\ v + Words(pcmd[t].bytes) < start[First] + Cap
    BY <2>2, Reservation
  <2>4. start[Next1] \in Int /\ start[First] \in Int /\ start[First] <= start[Next1]
    BY PendingOrder
  <2>5. HdrWords \in Nat /\ Cap \in Nat  BY CapFacts
  <2>6. v \in Int /\ start[Next1] <= v /\ v + Len(w) < start[First] + Cap
    BY <2>3, <2>4, <2>5
  <2>7. mem' = Write(mem, v % Cap, w)  BY <2>1, <2>3
  <2>8. mem \in Ring /\ v % Cap \in Int /\ Len(w) <= Cap
    <3>1. v % Cap \in 0..Cap-1  BY <2>6, ModRange
    <3>2. Len(w) <= Cap  BY <2>3, <2>4, <2>5, <2>6
    <3>3. mem \in Ring  BY DEF TypeInv, TypeOK, Ring
    <3>4. v % Cap \in Int  BY <3>1, <2>5
    <3> QED  BY <3>2, <3>3, <3>4
  <2>9. start[Next1] + HdrWords <= v /\ v + Len(w) < start[Next1] + Cap
    <3>1. Len(w) \in Nat  BY <2>3
    <3>2. start[Next1] + HdrWords = v  OBVIOUS
    <3> HIDE DEF v, w
    <3> QED  BY <2>4, <2>5, <2>6, <3>1, <3>2
  <2> HIDE DEF v, w
  <2>10. StreamIntact'  BY <2>1, <2>3, <2>6, <2>7, StreamSurvives
  <2>11. Read(mem', v % Cap, Len(w)) = w  BY <2>3, <2>7, <2>8, ReadWritten
  <2>12. Read(mem', start[Next1] % Cap, HdrWords) = Read(mem, start[Next1] % Cap, HdrWords)
    <3>1. mem \in Ring /\ start[Next1] \in Int /\ v \in Int /\ HdrWords \in Nat
          /\ w \in Seq(Nat)
      BY <2>3, <2>4, <2>5, <2>6, <2>8
    <3>2. Read(Write(mem, v % Cap, w), start[Next1] % Cap, HdrWords)
            = Read(mem, start[Next1] % Cap, HdrWords)
      BY <3>1, <2>9, ReadOther
    <3> QED  BY <3>2, <2>7
  <2>13. Read(mem', pat[t], HdrWords) = HeaderOf(pcmd[t])
    BY <2>1, <2>3, <2>12 DEF RingInv, Copied
  <2>14. Read(mem', (pat[t] + HdrWords) % Cap, Words(pcmd[t].bytes)) = pcmd[t].payload
    BY <2>3, <2>11 DEF w
  <2>15. Copied'  BY <2>1, <2>2, <2>13, <2>14, <1>1 DEF Copied
  <2>16. Reserved'
    BY <2>1, <2>2, <1>1 DEF Reserved, RingInv, First, Next1
  <2>17. OnlyCommands'  BY <2>1, <2>2, <1>1 DEF OnlyCommands, RingInv, Next1
  <2>18. OffsetsMeanIndices'
    BY <2>1 DEF RingInv, OffsetsMeanIndices, First, Next1
  <2> QED
    BY <2>1, <2>10, <2>15, <2>16, <2>17, <2>18, FramePoll DEF RingInv
<1>6. CASE Publish(t)
  <2>1. /\ UNCHANGED <<mem, tail, done, pollVars>>
        /\ ppc[t] = "publish" /\ ppc' = [ppc EXCEPT ![t] = "idle"]
        /\ head' = (pat[t] + Size(pcmd[t])) % Cap
        /\ sent' = Append(sent, pcmd[t])
        /\ start' = Append(start, start[Len(start)] + Size(pcmd[t]))
    BY <1>6 DEF Publish
  <2>2. ppc'[t] = "idle" /\ ppc[t] # "idle"  BY <2>1 DEF TypeInv, TypeOK
  <2>3. /\ pat[t] = start[Next1] % Cap /\ pcmd[t] \in Command
        /\ Words(pcmd[t].bytes) \in Nat
        /\ Size(pcmd[t]) = HdrWords + Words(pcmd[t].bytes)
        /\ (pat[t] + HdrWords) % Cap = (start[Next1] + HdrWords) % Cap
        /\ start[Next1] + HdrWords + Words(pcmd[t].bytes) < start[First] + Cap
    BY <2>2, Reservation
  <2>4. /\ Len(done) \in Nat /\ Len(sent) \in Nat /\ First = Len(done) + 1
        /\ Next1 = Len(sent) + 1 /\ First \in 1..Next1
        /\ start[Next1] \in Nat /\ start[First] \in Nat
        /\ \A i \in 1..Next1 : start[i] \in Nat
    BY PendingOrder
  <2>5. /\ sent \in Seq(Command) /\ start \in Seq(Nat) /\ Len(start) = Next1
    BY <2>4 DEF TypeInv, TypeOK
  <2>6. Size(pcmd[t]) \in Nat /\ Size(pcmd[t]) >= 0  BY <2>3, CapFacts
  <2>7. /\ Len(sent') = Next1 /\ First' = First /\ Next1' = Next1 + 1
        /\ sent'[Next1] = pcmd[t] /\ start'[Next1 + 1] = start[Next1] + Size(pcmd[t])
    BY <2>1, <2>4, <2>5 DEF First, Next1
  <2>8. /\ \A i \in 1..Len(sent) : sent'[i] = sent[i]
        /\ \A i \in 1..Next1 : start'[i] = start[i]
    BY <2>1, <2>4, <2>5
  <2>9. Contiguous'
    <3>1. ASSUME NEW i \in 1..Len(sent')
          PROVE  start'[i + 1] = start'[i] + Size(sent'[i])
      <4>1. CASE i = Next1  BY <4>1, <2>4, <2>7, <2>8
      <4>2. CASE i # Next1
        <5>1. i \in 1..Len(sent) /\ i \in 1..Next1 /\ i + 1 \in 1..Next1
          BY <4>2, <2>4, <2>7
        <5>2. start[i + 1] = start[i] + Size(sent[i])
          BY <5>1 DEF RingInv, Contiguous
        <5> QED  BY <5>1, <5>2, <2>8
      <4> QED  BY <4>1, <4>2
    <3>2. ASSUME NEW i \in 1..Len(sent'), NEW j \in i+1..Next1'
          PROVE  start'[i] + Size(sent'[i]) <= start'[j]
      <4>1. CASE i = Next1
        <5>1. j = Next1 + 1  BY <4>1, <2>4, <2>7
        <5> QED  BY <4>1, <5>1, <2>4, <2>6, <2>7, <2>8
      <4>2. CASE i # Next1 /\ j # Next1 + 1
        <5>1. i \in 1..Len(sent) /\ i \in 1..Next1 /\ j \in i+1..Next1 /\ j \in 1..Next1
          BY <4>2, <2>4, <2>7
        <5>2. start[i] + Size(sent[i]) <= start[j]
          BY <5>1 DEF RingInv, Contiguous
        <5> QED  BY <5>1, <5>2, <2>8
      <4>3. CASE i # Next1 /\ j = Next1 + 1
        <5>1. i \in 1..Len(sent) /\ i \in 1..Next1 /\ Next1 \in i+1..Next1
          BY <4>3, <2>4, <2>7
        <5>2. start[i] + Size(sent[i]) <= start[Next1]
          BY <5>1 DEF RingInv, Contiguous
        <5>3. start[i] \in Nat /\ Size(sent[i]) \in Nat
          BY <5>1, <2>4, PendingOrder, SizeFacts
        <5>4. /\ start'[i] = start[i] /\ sent'[i] = sent[i]
              /\ start'[j] = start[Next1] + Size(pcmd[t])
          BY <5>1, <4>3, <2>7, <2>8
        <5>5. start[i] + Size(sent[i]) <= start[Next1] + Size(pcmd[t])
          BY <5>2, <5>3, <2>4, <2>6, SMTT(30)
        <5> QED  BY <5>4, <5>5
      <4> QED  BY <4>1, <4>2, <4>3
    <3> QED  BY <3>1, <3>2 DEF Contiguous
  <2>10. OffsetsMeanIndices'
    <3>1. start[Next1] \in Int /\ Size(pcmd[t]) \in Int  BY <2>4, <2>6
    <3>2. ((start[Next1] % Cap) + Size(pcmd[t])) % Cap
            = (start[Next1] + Size(pcmd[t])) % Cap
      BY <3>1, ModAdd
    <3>3. head' = start'[Next1'] % Cap  BY <3>2, <2>1, <2>3, <2>7
    <3>4. tail' = start'[First'] % Cap
      BY <2>1, <2>4, <2>7, <2>8 DEF RingInv, OffsetsMeanIndices
    <3>5. start'[Next1'] - start'[First'] < Cap
      <4> DEFINE e == start[Next1]
      <4> DEFINE f == start[First]
      <4> DEFINE z == Size(pcmd[t])
      <4> DEFINE b == Words(pcmd[t].bytes)
      <4>1. start'[Next1'] = e + z  BY <2>7
      <4>2. start'[First'] = f  BY <2>4, <2>7, <2>8
      <4>3. /\ e \in Nat /\ f \in Nat /\ b \in Nat /\ z = HdrWords + b
            /\ e + HdrWords + b < f + Cap
        BY <2>3, <2>4
      <4> HIDE DEF e, f, z, b
      <4>4. e + z - f < Cap  BY <4>3, CapFacts
      <4> QED  BY <4>1, <4>2, <4>3, <4>4, CapFacts
    <3>6. Len(done') <= Len(sent')  BY <2>1, <2>4, <2>7
    <3> QED  BY <3>3, <3>4, <3>5, <3>6 DEF OffsetsMeanIndices
  <2>11. ExecutedInOrder'
    <3>1. \A i \in 1..Len(done) : i \in 1..Len(sent)  BY <2>4
    <3> QED  BY <3>1, <2>1, <2>8 DEF RingInv, ExecutedInOrder
  <2>12. pcmd[t] \in Meant  BY <2>2 DEF RingInv, OnlyCommands
  <2>13. OnlyCommands'
    <3>1. \A i \in 1..Len(sent') : sent'[i] \in Meant
      BY <2>4, <2>7, <2>8, <2>12 DEF RingInv, OnlyCommands
    <3>2. ASSUME Users = {} PROVE start'[Next1'] = Len(sent') * Size(InjectCmd)
      <4>1. pcmd[t] = InjectCmd  BY <3>2, <2>12 DEF Meant
      <4>2. start[Next1] = Len(sent) * Size(InjectCmd)
        BY <3>2 DEF RingInv, OnlyCommands
      <4>3. Len(sent') = Len(sent) + 1  BY <2>4, <2>7
      <4> QED  BY <4>1, <4>2, <4>3, <2>4, <2>7, InjectFacts
    <3> QED  BY <3>1, <3>2, <2>2, <1>1 DEF OnlyCommands
  <2>14. Reserved' /\ Copied'  BY <2>2, <1>1 DEF Reserved, Copied
  <2>15. StreamIntact'
    <3> SUFFICES ASSUME NEW i \in Len(done)+1..Len(sent')
                 PROVE  /\ Read(mem, start'[i] % Cap, HdrWords) = HeaderOf(sent'[i])
                        /\ Read(mem, (start'[i] + HdrWords) % Cap,
                                Words(sent'[i].bytes)) = sent'[i].payload
      BY <2>1 DEF StreamIntact
    <3>1. CASE i = Next1
      <4>1. start'[i] = start[Next1] /\ sent'[i] = pcmd[t]
        BY <3>1, <2>4, <2>7, <2>8
      <4> QED  BY <4>1, <2>1, <2>3 DEF RingInv, Copied
    <3>2. CASE i # Next1
      <4>1. i \in Len(done)+1..Len(sent) /\ i \in 1..Len(sent) /\ i \in 1..Next1
        BY <3>2, <2>4, <2>7
      <4> QED  BY <4>1, <2>8 DEF RingInv, StreamIntact
    <3> QED  BY <3>1, <3>2
  <2>16. SnapshotOnBoundary'
    <3> SUFFICES ASSUME pc \in {"loop", "payload", "process"}
                 PROVE  \E m \in Len(done)..Len(sent') : lhead = start'[m + 1] % Cap
      BY <2>1 DEF SnapshotOnBoundary, pollVars
    <3>1. PICK m \in Len(done)..Len(sent) : lhead = start[m + 1] % Cap
      BY DEF RingInv, SnapshotOnBoundary
    <3>2. m + 1 \in 1..Next1 /\ m \in Len(done)..Len(sent')  BY <2>4, <2>7
    <3> QED  BY <3>1, <3>2, <2>8
  <2>17. PollOnFront'
    <3>1. pc \in {"payload", "process"} => First \in 1..Len(sent)
      BY <2>4 DEF RingInv, PollOnFront
    <3>2. pc \in {"payload", "process"} => sent'[First'] = sent[First]
      BY <3>1, <2>7, <2>8
    <3>3. pc \in {"payload", "process"} => Len(done) < Len(sent')
      BY <2>4, <2>7 DEF RingInv, PollOnFront
    <3> QED  BY <3>2, <3>3, <2>1 DEF RingInv, PollOnFront, pollVars
  <2> QED
    BY <2>9, <2>10, <2>11, <2>13, <2>14, <2>15, <2>16, <2>17 DEF RingInv
<1> QED  BY <1>2, <1>3, <1>4, <1>5, <1>6 DEF Produce

\* RingInv holds in every reachable state of a ring with one producer: the
\* page a single client process writes, or a single thread of InjectTest.
THEOREM RingInvariant == SingleProducer => (Spec => [](TypeInv /\ RingInv))
<1> SUFFICES ASSUME SingleProducer PROVE Spec => [](TypeInv /\ RingInv)  OBVIOUS
<1>1. Init => TypeInv /\ RingInv  BY TypeInit, RingInit
<1>2. TypeInv /\ RingInv /\ [Next]_vars => (TypeInv /\ RingInv)'
  <2> SUFFICES ASSUME TypeInv, RingInv, [Next]_vars PROVE (TypeInv /\ RingInv)'
    OBVIOUS
  <2>1. CASE UNCHANGED vars
    <3>1. TypeInv'  BY <2>1 DEF TypeInv, TypeOK, vars
    <3>2. UNCHANGED <<mem, head, tail, sent, start, done, prodVars, pollVars>>
      BY <2>1 DEF vars, prodVars, pollVars
    <3>3. RingInv'
      BY <3>2, FrameRing, FrameProducers, FramePoll DEF RingInv
    <3> QED  BY <3>1, <3>3
  <2>2. CASE Poll  BY <2>2, TypePoll, RingPoll
  <2>3. CASE \E t \in Producers : Produce(t)  BY <2>3, TypeProduce, RingProduce
  <2> QED  BY <2>1, <2>2, <2>3 DEF Next
<1> QED  BY <1>1, <1>2, PTL DEF Spec

\* The words between tail and head are those of the pending commands, no more
\* and no less, in a ring of any size: head = tail means nothing is pending.
THEOREM HeadAccountsForPending == SingleProducer => (Spec => []HeadAccounts)
<1> SUFFICES ASSUME SingleProducer PROVE Spec => []HeadAccounts  OBVIOUS
<1>1. Spec => [](TypeInv /\ RingInv)  BY RingInvariant
<1>2. TypeInv /\ RingInv => HeadAccounts
  <2> SUFFICES ASSUME TypeInv, RingInv PROVE HeadAccounts  OBVIOUS
  <2>1. /\ start[Next1] \in Nat /\ start[First] \in Nat
        /\ start[First] <= start[Next1]
    BY PendingOrder
  <2>2. start[Next1] - start[First] < Cap  BY DEF RingInv, OffsetsMeanIndices
  <2>3. start[Next1] - start[First] \in 0..Cap-1  BY <2>1, <2>2, CapFacts
  <2>4. start[Next1] \in Int /\ start[First] \in Int  BY <2>1
  <2>5. ((start[Next1] % Cap) - (start[First] % Cap)) % Cap
          = start[Next1] - start[First]
    BY <2>3, <2>4, ModDistance
  <2> QED
    BY <2>5 DEF HeadAccounts, Used, RingInv, OffsetsMeanIndices, First, Next1
<1> QED  BY <1>1, <1>2, PTL
-----------------------------------------------------------------------------
(* The ring implements the queue.                                          *)

\* A command appended to what is sent is appended to what is pending.
LEMMA PendingAppend ==
    ASSUME NEW S, NEW s \in Seq(S), NEW c \in S, NEW d \in Nat, d <= Len(s)
    PROVE  SubSeq(Append(s, c), d + 1, Len(s) + 1)
             = Append(SubSeq(s, d + 1, Len(s)), c)
<1> DEFINE l == Len(s)
<1> DEFINE a == Append(s, c)
<1> DEFINE p == SubSeq(s, d + 1, l)
<1> DEFINE q == SubSeq(a, d + 1, l + 1)
<1>1. /\ l \in Nat /\ d + 1 \in Int /\ l + 1 \in Int /\ d <= l
      /\ \A i \in 1..l : s[i] \in S
  OBVIOUS
<1>2. /\ \A i \in 1..l : a[i] = s[i]
      /\ a[l + 1] = c
  BY AppendProperties
<1> HIDE DEF a, l
<1>3. \A i \in d+1..l : s[i] \in S  BY <1>1
<1>4. \A i \in d+1..l+1 : a[i] \in S  BY <1>1, <1>2
<1>5. /\ p \in Seq(S) /\ Len(p) = IF d + 1 <= l THEN l - (d + 1) + 1 ELSE 0
      /\ \A i \in 1..l-(d+1)+1 : p[i] = s[d + 1 + i - 1]
  BY <1>1, <1>3, SubSeqProperties, SMTT(30)
<1>6. /\ q \in Seq(S) /\ Len(q) = IF d + 1 <= l + 1 THEN l + 1 - (d + 1) + 1 ELSE 0
      /\ \A i \in 1..l+1-(d+1)+1 : q[i] = a[d + 1 + i - 1]
  BY <1>1, <1>4, SubSeqProperties
<1> HIDE DEF p, q
<1>7. /\ Len(p) = l - d /\ \A i \in 1..l-d : p[i] = s[d + i]
  BY <1>1, <1>5
<1>8. /\ Len(q) = l - d + 1 /\ \A i \in 1..l-d+1 : q[i] = a[d + i]
  BY <1>1, <1>6
<1>9. /\ Append(p, c) \in Seq(S) /\ Len(Append(p, c)) = l - d + 1
      /\ \A i \in 1..l-d : Append(p, c)[i] = p[i]
      /\ Append(p, c)[l - d + 1] = c
  BY <1>5, <1>7, AppendProperties
<1>10. ASSUME NEW i \in 1..l-d+1 PROVE q[i] = Append(p, c)[i]
  <2>1. CASE i = l - d + 1
    <3>1. d + i = l + 1  BY <2>1, <1>1
    <3> QED  BY <3>1, <2>1, <1>2, <1>8, <1>9
  <2>2. CASE i # l - d + 1
    <3>1. i \in 1..l-d /\ d + i \in 1..l  BY <2>2, <1>1
    <3> QED  BY <3>1, <1>2, <1>7, <1>8, <1>9
  <2> QED  BY <2>1, <2>2
<1>11. q = Append(p, c)  BY <1>6, <1>8, <1>9, <1>10, SeqEqual
<1> QED  BY <1>11 DEF a, l, p, q

\* Executing one command takes the first of what is pending.
LEMMA PendingTail ==
    ASSUME NEW S, NEW s \in Seq(S), NEW d \in Nat, d < Len(s)
    PROVE  /\ SubSeq(s, d + 1, Len(s)) # <<>>
           /\ Head(SubSeq(s, d + 1, Len(s))) = s[d + 1]
           /\ Tail(SubSeq(s, d + 1, Len(s))) = SubSeq(s, d + 2, Len(s))
<1> DEFINE p == SubSeq(s, d + 1, Len(s))
<1>1. /\ d + 1 \in 1..Len(s) /\ Len(s) \in d+1..Len(s) /\ (d + 1) + 1 = d + 2
      /\ \A i \in d+1..Len(s) : s[i] \in S
  OBVIOUS
<1>2. Head(p) = s[d + 1] /\ Tail(p) = SubSeq(s, (d + 1) + 1, Len(s))
  BY <1>1, HeadTailOfSubSeq
<1>3. Len(p) = IF d + 1 <= Len(s) THEN Len(s) - (d + 1) + 1 ELSE 0
  BY <1>1, SubSeqProperties
<1>4. Len(p) # 0  BY <1>1, <1>3
<1> HIDE DEF p
<1>5. p # <<>>  BY <1>4
<1> QED  BY <1>1, <1>2, <1>5 DEF p

\* Commands are executed in the order their heads were published, each once,
\* each with the payload its producer wrote, none that pollRing refuses, and
\* none before its head was published: in a ring of any size, for any
\* commands.
THEOREM RingImplementsFifo == SingleProducer => (Spec => ImplementsFifo)
<1> SUFFICES ASSUME SingleProducer PROVE Spec => ImplementsFifo  OBVIOUS
<1> DEFINE queue == SubSeq(sent, Len(done) + 1, Len(sent))
<1>1. Spec => [](TypeInv /\ RingInv)  BY RingInvariant
<1>2. Init => Fifo!Init
  <2> SUFFICES ASSUME Init PROVE Fifo!Init  OBVIOUS
  <2>1. sent = <<>> /\ done = <<>>  BY DEF Init
  <2>2. queue = <<>>  BY <2>1
  <2> QED  BY <2>1, <2>2 DEF Fifo!Init
<1>3. TypeInv /\ RingInv /\ [Next]_vars => [Fifo!Next]_Fifo!vars
  <2> SUFFICES ASSUME TypeInv, RingInv, [Next]_vars PROVE [Fifo!Next]_Fifo!vars
    OBVIOUS
  <2>0. Len(done) \in Nat /\ Len(sent) \in Nat /\ sent \in Seq(Command)
    BY PendingOrder DEF TypeInv, TypeOK
  <2>1. ASSUME UNCHANGED <<sent, done>> PROVE [Fifo!Next]_Fifo!vars
    BY <2>1 DEF Fifo!vars
  <2>2. CASE UNCHANGED vars  BY <2>1, <2>2 DEF vars
  <2>3. CASE Process
    <3>1. Len(done) < Len(sent) /\ cmd = sent[First] /\ ~TooLarge(sent[First].bytes)
      BY <2>3 DEF Process, RingInv, PollOnFront
    <3>2. sent' = sent /\ done' = Append(done, cmd)  BY <2>3 DEF Process
    <3>3. First = Len(done) + 1 /\ First \in 1..Len(sent)
      BY <3>1, <2>0 DEF First
    <3>4. cmd \in Commands \cup {InjectCmd}
      BY <3>1, <3>3, InjectFacts DEF RingInv, OnlyCommands
    <3>5. queue # <<>> /\ Head(queue) = cmd
          /\ Tail(queue) = SubSeq(sent, Len(done) + 2, Len(sent))
      BY <3>1, <3>3, <2>0, PendingTail
    <3>6. Len(done') = Len(done) + 1
      BY <3>2 DEF TypeInv, TypeOK
    <3>9. Len(done') + 1 = Len(done) + 2  BY <3>6, <2>0
    <3>10. queue' = SubSeq(sent', Len(done') + 1, Len(sent'))  OBVIOUS
    <3>7. queue' = Tail(queue)  BY <3>2, <3>5, <3>9, <3>10
    <3> HIDE DEF queue
    <3>8. Fifo!Deliver  BY <3>1, <3>2, <3>4, <3>5, <3>7 DEF Fifo!Deliver, queue
    <3> QED  BY <3>8 DEF Fifo!Next
  <2>4. CASE Poll /\ ~Process
    <3>1. UNCHANGED <<sent, done>>
      BY <2>4 DEF Poll, PollBusy, PollClaim, PollEmpty, PollBegin, ReadHeader,
                  ReadPayload, PollEnd, history
    <3> QED  BY <3>1, <2>1
  <2>5. ASSUME NEW t \in Producers, Produce(t) PROVE [Fifo!Next]_Fifo!vars
    <3>1. CASE Publish(t)
      <4>1. sent' = Append(sent, pcmd[t]) /\ done' = done  BY <3>1 DEF Publish
      <4>2. pcmd[t] \in Commands \cup {InjectCmd} /\ pcmd[t] \in Command
        BY <3>1, InjectFacts DEF Publish, RingInv, OnlyCommands, TypeInv, TypeOK
      <4>3. Len(done) <= Len(sent)  BY DEF RingInv, OffsetsMeanIndices
      <4>4. Len(sent') = Len(sent) + 1  BY <4>1, <4>2, <2>0
      <4>5. queue' = Append(queue, pcmd[t])
        BY <4>1, <4>2, <4>3, <4>4, <2>0, PendingAppend
      <4> HIDE DEF queue
      <4>6. Fifo!Submit(pcmd[t])  BY <4>1, <4>5 DEF Fifo!Submit, queue
      <4> QED  BY <4>2, <4>6 DEF Fifo!Next
    <3>2. CASE ~Publish(t)
      <4>1. UNCHANGED <<sent, done>>
        BY <3>2, <2>5 DEF Produce, InjectRead, UserBegin, Begin, WriteHeader,
                          WritePayload, history
      <4> QED  BY <4>1, <2>1
    <3> QED  BY <3>1, <3>2
  <2> QED  BY <2>2, <2>3, <2>4, <2>5 DEF Next
<1> QED  BY <1>1, <1>2, <1>3, PTL DEF Spec, ImplementsFifo, Fifo!Spec
-----------------------------------------------------------------------------
(* Any number of InjectTest threads: the inductive invariant InjectInv.     *)

\* The word that belongs at offset a of a ring of InjectTest's commands is there.
Matches(m, a) == m[a] = Injected[(a % 5) + 1]

LEMMA InjectedWords ==
    /\ \A k \in 1..4 : Injected[k] = HeaderOf(InjectCmd)[k]
    /\ Injected[5] = InjectCmd.payload[1]
    /\ HeaderOf(InjectCmd) = <<CLEAR, 4, 0, 0>> /\ InjectCmd.payload = <<7>>
<1>1. HeaderOf(InjectCmd) = <<CLEAR, 4, 0, 0>> /\ InjectCmd.payload = <<7>>
  BY DEF HeaderOf, InjectCmd
<1>2. <<CLEAR, 4, 0, 0>> \in Seq(Nat) /\ <<7>> \in Seq(Nat)  BY DEF CLEAR
<1>3. Len(<<CLEAR, 4, 0, 0>>) = 4 /\ Len(<<7>>) = 1  OBVIOUS
<1>4. /\ Injected \in Seq(Nat) /\ Len(Injected) = 5
      /\ \A k \in 1..5 : Injected[k] = IF k <= 4 THEN <<CLEAR, 4, 0, 0>>[k] ELSE <<7>>[k - 4]
  BY <1>1, <1>2, <1>3, ConcatProperties DEF Injected
<1> QED  BY <1>1, <1>4

\* Within a command the offset modulo its size counts its words.
LEMMA WithinCommand ==
    ASSUME NEW n \in Nat, n % 5 = 0, NEW k \in 0..4
    PROVE  (n + k) % 5 = k
OBVIOUS

\* A copy that ends before the ring does changes its own words and no others.
LEMMA CopyInside ==
    ASSUME NEW m \in Ring, NEW at \in Nat, NEW w \in Seq(Nat), at + Len(w) < Cap,
           NEW a \in 0..Cap-1
    PROVE  Write(m, at, w)[a] = IF a \in at..at+Len(w)-1 THEN w[a - at + 1] ELSE m[a]
<1>1. Cap \in Nat /\ Len(w) \in Nat /\ a - at \in Int  BY CapFacts
<1>2. CASE a >= at
  <2>1. a - at \in 0..Cap-1 /\ a - at = Cap * 0 + (a - at)  BY <1>1, <1>2
  <2>2. (a - at) % Cap = a - at  BY <1>1, <2>1, ModUnique
  <2>3. a \in at..at+Len(w)-1 <=> a - at < Len(w)  BY <1>1, <1>2
  <2> QED  BY <2>2, <2>3 DEF Write
<1>3. CASE a < at
  <2>1. Cap + a - at \in 0..Cap-1 /\ a - at = Cap * (0 - 1) + (Cap + a - at)
    BY <1>1, <1>3
  <2>2. (a - at) % Cap = Cap + a - at  BY <1>1, <2>1, ModUnique
  <2>3. ~((a - at) % Cap < Len(w)) /\ a \notin at..at+Len(w)-1  BY <1>1, <1>3, <2>2
  <2> QED  BY <2>3 DEF Write
<1> QED  BY <1>1, <1>2, <1>3

\* What a thread is writing, and that it ends before the ring does.
LEMMA InjectRoom ==
    ASSUME TypeInv, InjectInv, Fits, NEW t \in Injectors, ppc[t] # "idle"
    PROVE  /\ pcmd[t] = InjectCmd /\ pat[t] \in Nat /\ pat[t] % 5 = 0
           /\ pat[t] + 5 < Cap /\ pat[t] <= Len(sent) * 5
           /\ \A a \in 0..pat[t]-1 : Matches(mem, a)
           /\ ppc[t] \in {"payload", "publish"} =>
                 \A a \in pat[t]..pat[t]+3 : Matches(mem, a)
           /\ ppc[t] = "publish" => Matches(mem, pat[t] + 4)
<1>1. t \in Producers  BY DEF Producers
<1>2. pat[t] \in 0..Cap-1 /\ Len(sent) \in Nat /\ Cap \in Nat
  BY <1>1, CapFacts DEF TypeInv, TypeOK
<1>3. /\ pcmd[t] = InjectCmd /\ pat[t] <= Len(sent) * 5 /\ pat[t] % 5 = 0
      /\ \A a \in 0..pat[t]-1 : Matches(mem, a)
      /\ ppc[t] \in {"payload", "publish"} =>
            \A a \in pat[t]..pat[t]+3 : mem[a] = Injected[a - pat[t] + 1]
      /\ ppc[t] = "publish" => mem[pat[t] + 4] = Injected[5]
  BY InjectFacts DEF InjectInv, Injecting, WasHead, WholeTo, Matches
<1>4. (Len(sent) + 1) * 5 < Cap  BY InjectFacts DEF Fits
<1> DEFINE n == pat[t]
<1>5. n \in Nat /\ n % 5 = 0 /\ n + 5 < Cap  BY <1>2, <1>3, <1>4
<1>6. ASSUME NEW a \in n..n+3 PROVE a % 5 = a - n
  <2>1. a - n \in 0..4 /\ n + (a - n) = a  BY <1>5
  <2> HIDE DEF n
  <2> QED  BY <1>5, <2>1, WithinCommand
<1>7. (n + 4) % 5 = 4  BY <1>5, WithinCommand
<1>8. ppc[t] \in {"payload", "publish"} => \A a \in n..n+3 : Matches(mem, a)
  BY <1>3, <1>6 DEF Matches
<1>9. Injected[((n + 4) % 5) + 1] = Injected[5]  BY <1>7
<1>10. ppc[t] = "publish" => Matches(mem, n + 4)  BY <1>3, <1>9 DEF Matches
<1> QED  BY <1>2, <1>3, <1>5, <1>8, <1>10

\* An offset a thread found the head at remains one while words that belong
\* where they are stay there.
LEMMA WasHeadStays ==
    ASSUME TypeInv, NEW n \in 0..Cap-1, WasHead(n), Len(sent') >= Len(sent),
           Len(sent') \in Nat, \A a \in 0..Cap-1 : Matches(mem, a) => Matches(mem', a)
    PROVE  WasHead(n)'
<1>1. n <= Len(sent) * 5 /\ n % 5 = 0 /\ \A a \in 0..n-1 : Matches(mem, a)
  BY InjectFacts DEF WasHead, WholeTo, Matches
<1>2. Cap \in Nat /\ Len(sent) \in Nat  BY CapFacts DEF TypeInv, TypeOK
<1>3. n <= Len(sent') * 5  BY <1>1, <1>2
<1>4. \A a \in 0..n-1 : a \in 0..Cap-1  BY <1>2
<1>5. \A a \in 0..n-1 : Matches(mem', a)  BY <1>1, <1>4
<1> QED  BY <1>1, <1>3, <1>5, InjectFacts DEF WasHead, WholeTo, Matches

\* So does a thread that is not the one that moves.
LEMMA InjectingStays ==
    ASSUME TypeInv, InjectInv, Fits, NEW t \in Injectors, ppc[t] # "idle",
           ppc'[t] = ppc[t], pcmd'[t] = pcmd[t], pat'[t] = pat[t],
           Len(sent') >= Len(sent), Len(sent') \in Nat,
           \A a \in 0..Cap-1 : Matches(mem, a) => Matches(mem', a)
    PROVE  Injecting(t)'
<1>1. Cap \in Nat /\ Len(sent) \in Nat  BY CapFacts DEF TypeInv, TypeOK
<1>2. /\ pcmd[t] = InjectCmd /\ pat[t] \in Nat /\ pat[t] % 5 = 0
      /\ pat[t] + 5 < Cap /\ pat[t] <= Len(sent) * 5
      /\ \A a \in 0..pat[t]-1 : Matches(mem, a)
      /\ ppc[t] \in {"payload", "publish"} => \A a \in pat[t]..pat[t]+3 : Matches(mem, a)
      /\ ppc[t] = "publish" => Matches(mem, pat[t] + 4)
  BY InjectRoom
<1>3. \A a \in 0..pat[t]+4 : a \in 0..Cap-1  BY <1>1, <1>2
<1>4. /\ \A a \in 0..pat[t]-1 : Matches(mem', a)
      /\ ppc[t] \in {"payload", "publish"} => \A a \in pat[t]..pat[t]+3 : Matches(mem', a)
      /\ ppc[t] = "publish" => Matches(mem', pat[t] + 4)
  BY <1>2, <1>3
<1>5. pat'[t] <= Len(sent') * 5  BY <1>1, <1>2
<1>6. /\ pcmd'[t] = InjectCmd /\ pat'[t] \in Nat /\ pat'[t] % 5 = 0
      /\ \A a \in 0..pat'[t]-1 : Matches(mem', a)
      /\ ppc'[t] \in {"payload", "publish"} => \A a \in pat'[t]..pat'[t]+3 : Matches(mem', a)
      /\ ppc'[t] = "publish" => Matches(mem', pat'[t] + 4)
  BY <1>2, <1>4
<1> DEFINE n == pat'[t]
<1>7. ASSUME NEW a \in n..n+3 PROVE a % 5 = a - n
  <2>1. a - n \in 0..4 /\ n + (a - n) = a /\ n % 5 = 0 /\ n \in Nat  BY <1>6
  <2> HIDE DEF n
  <2> QED  BY <2>1, WithinCommand
<1>8. (n + 4) % 5 = 4  BY <1>6, WithinCommand
<1>9. ppc'[t] \in {"payload", "publish"} =>
        \A a \in n..n+3 : mem'[a] = Injected[a - n + 1]
  BY <1>6, <1>7 DEF Matches
<1>12. Injected[((n + 4) % 5) + 1] = Injected[5]  BY <1>8
<1>10. ppc'[t] = "publish" => mem'[n + 4] = Injected[5]  BY <1>6, <1>12 DEF Matches
<1>11. WasHead(pat[t])'
  BY <1>5, <1>6, InjectFacts DEF WasHead, WholeTo, Matches
<1> QED  BY <1>6, <1>9, <1>10, <1>11 DEF Injecting

\* A thread's copies of its header and of its payload put the words that belong
\* where it writes, whoever else is writing there, and touch no others.
LEMMA HeaderCopied ==
    ASSUME NEW m \in Ring, NEW n \in Nat, n % 5 = 0, n + 5 < Cap
    PROVE  /\ \A a \in n..n+3 : Matches(Write(m, n, HeaderOf(InjectCmd)), a)
           /\ \A a \in 0..Cap-1 :
                 Matches(m, a) => Matches(Write(m, n, HeaderOf(InjectCmd)), a)
<1> DEFINE w == HeaderOf(InjectCmd)
<1>1. w \in Seq(Nat) /\ Len(w) = 4  BY SizeFacts, CapFacts
<1>2. \A k \in 1..4 : w[k] = Injected[k]  BY InjectedWords
<1> HIDE DEF w
<1>3. Cap \in Nat  BY CapFacts
<1>4. ASSUME NEW a \in 0..Cap-1
      PROVE  Write(m, n, w)[a] = IF a \in n..n+3 THEN w[a - n + 1] ELSE m[a]
  <2>1. Write(m, n, w)[a] = IF a \in n..n+Len(w)-1 THEN w[a - n + 1] ELSE m[a]
    <3>1. n + Len(w) < Cap  BY <1>1, <1>3
    <3> QED  BY <1>1, <3>1, CopyInside
  <2> QED  BY <1>1, <2>1
<1>5. ASSUME NEW a \in n..n+3 PROVE Matches(Write(m, n, w), a)
  <2>1. a \in 0..Cap-1 /\ a - n + 1 \in 1..4  BY <1>3
  <2>2. a % 5 = a - n
    <3> DEFINE k == a - n
    <3>1. k \in 0..4 /\ n + k = a  OBVIOUS
    <3> HIDE DEF k
    <3>2. (n + k) % 5 = k  BY <3>1, WithinCommand
    <3> QED  BY <3>1, <3>2 DEF k
  <2> QED  BY <1>2, <1>4, <2>1, <2>2 DEF Matches
<1>6. ASSUME NEW a \in 0..Cap-1, Matches(m, a) PROVE Matches(Write(m, n, w), a)
  <2>1. CASE a \in n..n+3  BY <2>1, <1>5
  <2>2. CASE a \notin n..n+3  BY <2>2, <1>4, <1>6 DEF Matches
  <2> QED  BY <2>1, <2>2
<1> QED  BY <1>5, <1>6 DEF w

LEMMA PayloadCopied ==
    ASSUME NEW m \in Ring, NEW n \in Nat, n % 5 = 0, n + 5 < Cap
    PROVE  /\ Matches(Write(m, n + 4, InjectCmd.payload), n + 4)
           /\ \A a \in 0..Cap-1 :
                 Matches(m, a) => Matches(Write(m, n + 4, InjectCmd.payload), a)
<1> DEFINE w == InjectCmd.payload
<1>1. w \in Seq(Nat) /\ Len(w) = 1 /\ w[1] = Injected[5]  BY InjectedWords
<1> HIDE DEF w
<1>2. Cap \in Nat  BY CapFacts
<1>3. ASSUME NEW a \in 0..Cap-1
      PROVE  Write(m, n + 4, w)[a] = IF a = n + 4 THEN w[1] ELSE m[a]
  <2>1. Write(m, n + 4, w)[a]
          = IF a \in n+4..n+4+Len(w)-1 THEN w[a - (n + 4) + 1] ELSE m[a]
    <3>1. n + 4 \in Nat /\ (n + 4) + Len(w) < Cap  BY <1>1, <1>2
    <3> QED  BY <1>1, <3>1, CopyInside
  <2> QED  BY <1>1, <2>1
<1>4. (n + 4) % 5 = 4 /\ n + 4 \in 0..Cap-1  BY <1>2, WithinCommand
<1>5. Injected[((n + 4) % 5) + 1] = Injected[5]  BY <1>4
<1>6. Matches(Write(m, n + 4, w), n + 4)  BY <1>1, <1>3, <1>4, <1>5 DEF Matches
<1>7. ASSUME NEW a \in 0..Cap-1, Matches(m, a) PROVE Matches(Write(m, n + 4, w), a)
  <2>1. CASE a = n + 4  BY <2>1, <1>6
  <2>2. CASE a # n + 4  BY <2>2, <1>3, <1>7 DEF Matches
  <2> QED  BY <2>1, <2>2
<1> QED  BY <1>6, <1>7 DEF w

\* Where pollRing and the head stand does not depend on how the words that
\* belong where they are were put there.
LEMMA HeadsStay ==
    ASSUME TypeInv, InjectInv, Fits, UNCHANGED <<head, lhead, sent>>,
           \A a \in 0..Cap-1 : Matches(mem, a) => Matches(mem', a)
    PROVE  WasHead(head)' /\ WasHead(lhead)'
<1>1. head \in 0..Cap-1 /\ lhead \in 0..Cap-1 /\ Len(sent) \in Nat
  BY DEF TypeInv, TypeOK
<1>2. PICK n \in 0..Cap-1 : n = head  BY <1>1
<1>3. WasHead(n)'  BY <1>1, <1>2, WasHeadStays DEF InjectInv
<1>4. PICK k \in 0..Cap-1 : k = lhead  BY <1>1
<1>5. WasHead(k)'  BY <1>1, <1>4, WasHeadStays DEF InjectInv
<1> QED  BY <1>2, <1>3, <1>4, <1>5 DEF WasHead, WholeTo

\* The empty ring satisfies the invariant.
LEMMA InjectInit == Init => InjectInv
<1> SUFFICES ASSUME Init PROVE InjectInv  OBVIOUS
<1>1. /\ head = 0 /\ lhead = 0 /\ Len(sent) = 0
      /\ \A t \in Injectors : ppc[t] = "idle"
  BY DEF Init, Producers
<1>2. WasHead(0)  BY <1>1, InjectFacts DEF WasHead, WholeTo
<1> QED  BY <1>1, <1>2 DEF InjectInv

\* A thread of InjectTest keeps the invariant.
LEMMA InjectProduce ==
    ASSUME TypeInv, InjectInv, NEW t \in Injectors, Produce(t), Users = {}
    PROVE  InjectInv'
<1>0. /\ t \in Producers /\ mem \in Ring /\ Len(sent) \in Nat /\ sent \in Seq(Command)
      /\ Cap \in Nat /\ Injectors \subseteq Producers
      /\ head \in 0..Cap-1 /\ lhead \in 0..Cap-1
      /\ ppc \in [Producers -> {"idle", "header", "payload", "publish"}]
      /\ DOMAIN pcmd = Producers /\ DOMAIN pat = Producers
  BY CapFacts DEF TypeInv, TypeOK, Producers, Ring
<1>1. CASE InjectRead(t)
  <2>1. /\ UNCHANGED <<mem, head, lhead, sent>>
        /\ ppc' = [ppc EXCEPT ![t] = "header"]
        /\ pcmd' = [pcmd EXCEPT ![t] = InjectCmd] /\ pat' = [pat EXCEPT ![t] = head]
    BY <1>1 DEF InjectRead, Begin, ringVars, history, pollVars
  <2> SUFFICES ASSUME Fits' PROVE InjectInv'  BY DEF InjectInv
  <2>2. Fits  BY <2>1 DEF Fits
  <2>3. WasHead(head)' /\ WasHead(lhead)'  BY <2>1, <2>2, HeadsStay
  <2>4. ASSUME NEW u \in Injectors, ppc'[u] # "idle" PROVE Injecting(u)'
    <3>1. CASE u = t
      <4>1. ppc'[u] = "header" /\ pcmd'[u] = InjectCmd /\ pat'[u] = head
        BY <3>1, <2>1, <1>0
      <4>2. WasHead(pat[u])'  BY <4>1, <2>1, <2>3 DEF WasHead, WholeTo
      <4> QED  BY <4>1, <4>2 DEF Injecting
    <3>2. CASE u # t
      <4>1. ppc'[u] = ppc[u] /\ pcmd'[u] = pcmd[u] /\ pat'[u] = pat[u]
        BY <3>2, <2>1, <1>0
      <4> QED  BY <4>1, <2>1, <2>2, <2>4, <1>0, InjectingStays
    <3> QED  BY <3>1, <3>2
  <2> QED  BY <2>3, <2>4 DEF InjectInv
<1>2. CASE \E c \in Commands : UserBegin(t, c)
  BY <1>2 DEF UserBegin
<1>3. ASSUME NEW l \in {"payload", "publish"},
             UNCHANGED <<head, lhead, sent, pcmd, pat>>,
             ppc[t] # "idle", ppc' = [ppc EXCEPT ![t] = l], Fits,
             \A a \in 0..Cap-1 : Matches(mem, a) => Matches(mem', a),
             \A a \in pat[t]..pat[t]+3 : Matches(mem', a),
             l = "publish" => Matches(mem', pat[t] + 4)
      PROVE  InjectInv'
  <2>1. WasHead(head)' /\ WasHead(lhead)'  BY <1>3, HeadsStay
  <2>2. ASSUME NEW u \in Injectors, ppc'[u] # "idle" PROVE Injecting(u)'
    <3>1. CASE u = t
      <4>1. ppc'[t] = l  BY <1>3, <1>0
      <4>2. /\ pcmd[t] = InjectCmd /\ pat[t] \in Nat /\ pat[t] % 5 = 0
            /\ pat[t] + 5 < Cap /\ pat[t] <= Len(sent) * 5
            /\ \A a \in 0..pat[t]-1 : Matches(mem, a)
        BY <1>3, InjectRoom
      <4>3. PICK n \in Nat : n = pat[t]  BY <4>2
      <4>4. n \in 0..Cap-1 /\ WasHead(n)
        BY <1>0, <4>2, <4>3, InjectFacts DEF WasHead, WholeTo, Matches
      <4>5. WasHead(n)'  BY <1>0, <1>3, <4>4, WasHeadStays
      <4>6. pat'[t] = n /\ pcmd'[t] = InjectCmd  BY <1>3, <4>2, <4>3
      <4>7. ASSUME NEW a \in n..n+3 PROVE mem'[a] = Injected[a - n + 1]
        <5>1. Matches(mem', a)  BY <1>3, <4>3
        <5>2. PICK k \in 0..4 : n + k = a
          <6>1. a - n \in 0..4 /\ n + (a - n) = a  OBVIOUS
          <6> QED  BY <6>1
        <5>3. a % 5 = k  BY <4>2, <4>3, <5>2, WithinCommand
        <5>4. k = a - n  BY <5>2
        <5> QED  BY <5>1, <5>3, <5>4 DEF Matches
      <4>8. l = "publish" => mem'[n + 4] = Injected[5]
        <5>1. (n + 4) % 5 = 4  BY <4>2, <4>3, WithinCommand
        <5>2. Injected[((n + 4) % 5) + 1] = Injected[5]  BY <5>1
        <5> QED  BY <1>3, <4>3, <5>2 DEF Matches
      <4>9. WasHead(pat[t])'  BY <4>5, <4>6 DEF WasHead, WholeTo
      <4>10. Injecting(t)'  BY <4>1, <4>6, <4>7, <4>8, <4>9 DEF Injecting
      <4> QED  BY <3>1, <4>10
    <3>2. CASE u # t
      <4>1. ppc'[u] = ppc[u] /\ pcmd'[u] = pcmd[u] /\ pat'[u] = pat[u]
        BY <3>2, <1>3, <1>0
      <4> QED  BY <4>1, <1>3, <2>2, <1>0, InjectingStays
    <3> QED  BY <3>1, <3>2
  <2> QED  BY <2>1, <2>2 DEF InjectInv
<1>4. CASE WriteHeader(t)
  <2>1. /\ UNCHANGED <<head, lhead, sent, pcmd, pat>>
        /\ ppc[t] # "idle" /\ ppc' = [ppc EXCEPT ![t] = "payload"]
        /\ mem' = Write(mem, pat[t], HeaderOf(pcmd[t]))
    BY <1>4 DEF WriteHeader, history, pollVars
  <2> SUFFICES ASSUME Fits' PROVE InjectInv'  BY DEF InjectInv
  <2>2. Fits  BY <2>1 DEF Fits
  <2>3. pcmd[t] = InjectCmd /\ pat[t] \in Nat /\ pat[t] % 5 = 0 /\ pat[t] + 5 < Cap
    BY <2>1, <2>2, InjectRoom
  <2>4. mem' = Write(mem, pat[t], HeaderOf(InjectCmd))  BY <2>1, <2>3
  <2>5. /\ \A a \in pat[t]..pat[t]+3 : Matches(mem', a)
        /\ \A a \in 0..Cap-1 : Matches(mem, a) => Matches(mem', a)
    BY <1>0, <2>3, <2>4, HeaderCopied
  <2> QED  BY <1>3, <2>1, <2>2, <2>5
<1>5. CASE WritePayload(t)
  <2>1. /\ UNCHANGED <<head, lhead, sent, pcmd, pat>>
        /\ ppc[t] = "payload" /\ ppc' = [ppc EXCEPT ![t] = "publish"]
        /\ mem' = Write(mem, (pat[t] + HdrWords) % Cap, pcmd[t].payload)
    BY <1>5 DEF WritePayload, history, pollVars
  <2> SUFFICES ASSUME Fits' PROVE InjectInv'  BY DEF InjectInv
  <2>2. Fits  BY <2>1 DEF Fits
  <2>3. /\ pcmd[t] = InjectCmd /\ pat[t] \in Nat /\ pat[t] % 5 = 0 /\ pat[t] + 5 < Cap
        /\ \A a \in pat[t]..pat[t]+3 : Matches(mem, a)
    BY <2>1, <2>2, InjectRoom
  <2>4. (pat[t] + HdrWords) % Cap = pat[t] + 4  BY <2>3, CapFacts
  <2>5. mem' = Write(mem, pat[t] + 4, InjectCmd.payload)  BY <2>1, <2>3, <2>4
  <2>6. /\ Matches(mem', pat[t] + 4)
        /\ \A a \in 0..Cap-1 : Matches(mem, a) => Matches(mem', a)
    BY <1>0, <2>3, <2>5, PayloadCopied
  <2>7. \A a \in pat[t]..pat[t]+3 : Matches(mem', a)
    BY <1>0, <2>3, <2>6
  <2> QED  BY <1>3, <2>1, <2>2, <2>6, <2>7
<1>6. CASE Publish(t)
  <2>1. /\ UNCHANGED <<mem, lhead>>
        /\ ppc[t] = "publish" /\ ppc' = [ppc EXCEPT ![t] = "idle"]
        /\ pcmd' = [pcmd EXCEPT ![t] = NoCmd] /\ pat' = [pat EXCEPT ![t] = 0]
        /\ head' = (pat[t] + Size(pcmd[t])) % Cap
        /\ sent' = Append(sent, pcmd[t])
    BY <1>6 DEF Publish, pollVars
  <2> SUFFICES ASSUME Fits' PROVE InjectInv'  BY DEF InjectInv
  <2>2. Len(sent') = Len(sent) + 1  BY <2>1, <1>0
  <2>3. Fits
    <3>1. (Len(sent) + 1 + 1) * 5 < Cap  BY <2>2, InjectFacts DEF Fits
    <3> QED  BY <3>1, <1>0, InjectFacts DEF Fits
  <2>4. /\ pcmd[t] = InjectCmd /\ pat[t] \in Nat /\ pat[t] % 5 = 0 /\ pat[t] + 5 < Cap
        /\ pat[t] <= Len(sent) * 5 /\ \A a \in 0..pat[t]-1 : Matches(mem, a)
        /\ \A a \in pat[t]..pat[t]+3 : Matches(mem, a) /\ Matches(mem, pat[t] + 4)
    BY <2>1, <2>3, InjectRoom
  <2>5. PICK n \in Nat : n = pat[t]  BY <2>4
  <2>6. head' = n + 5
    <3> DEFINE p == n + 5
    <3>1. p \in 0..Cap-1  BY <1>0, <2>4, <2>5
    <3>2. head' = p % Cap  BY <2>1, <2>4, <2>5, InjectFacts
    <3> HIDE DEF p
    <3>3. p % Cap = p  BY <3>1, CapFacts
    <3> QED  BY <3>2, <3>3 DEF p
  <2>7. \A a \in 0..n+5-1 : Matches(mem, a)  BY <2>4, <2>5
  <2>8. n + 5 <= Len(sent') * 5 /\ (n + 5) % 5 = 0  BY <1>0, <2>2, <2>4, <2>5
  <2>9. WasHead(head)'
    <3>1. head' % 5 = 0 /\ head' <= Len(sent') * 5  BY <2>6, <2>8
    <3>2. \A a \in 0..n+5-1 : mem'[a] = Injected[(a % 5) + 1]
      BY <2>1, <2>7 DEF Matches
    <3>3. \A a \in 0..head'-1 : mem'[a] = Injected[(a % 5) + 1]
      BY <2>6, <3>2
    <3> QED  BY <3>1, <3>3, InjectFacts DEF WasHead, WholeTo
  <2>10. WasHead(lhead)'
    <3>1. PICK k \in 0..Cap-1 : k = lhead  BY <1>0
    <3>2. WasHead(k)'  BY <1>0, <2>1, <2>2, <2>3, <3>1, WasHeadStays DEF InjectInv
    <3> QED  BY <2>1, <3>1, <3>2 DEF WasHead, WholeTo
  <2>11. ASSUME NEW u \in Injectors, ppc'[u] # "idle" PROVE Injecting(u)'
    <3>1. u # t  BY <2>1, <2>11, <1>0
    <3>2. ppc'[u] = ppc[u] /\ pcmd'[u] = pcmd[u] /\ pat'[u] = pat[u]
      BY <3>1, <2>1, <1>0
    <3> QED  BY <1>0, <2>1, <2>2, <2>3, <2>11, <3>2, InjectingStays
  <2> QED  BY <2>9, <2>10, <2>11 DEF InjectInv
<1> QED  BY <1>1, <1>2, <1>4, <1>5, <1>6 DEF Produce

\* pollRing keeps the invariant: it writes nothing to the ring but the tail.
LEMMA InjectPoll == ASSUME TypeInv, InjectInv, Poll PROVE InjectInv'
<1>1. /\ UNCHANGED <<mem, head, sent, ppc, pcmd, pat>>
      /\ lhead' \in {lhead, head, 0}
  BY DEF Poll, PollBusy, PollClaim, PollEmpty, PollBegin, ReadHeader, ReadPayload,
         Process, PollEnd, ringVars, prodVars, history
<1> SUFFICES ASSUME Fits' PROVE InjectInv'  BY DEF InjectInv
<1>2. Fits /\ Len(sent) \in Nat  BY <1>1 DEF Fits, TypeInv, TypeOK
<1>3. WasHead(head) /\ WasHead(lhead) /\ WasHead(0)
  BY <1>2, InjectFacts DEF InjectInv, WasHead, WholeTo
<1>4. WasHead(head)'  BY <1>1, <1>3 DEF WasHead, WholeTo
<1>5. WasHead(lhead)'  BY <1>1, <1>3 DEF WasHead, WholeTo
<1>6. \A t \in Injectors : ppc'[t] # "idle" => Injecting(t)'
  BY <1>1, <1>2 DEF InjectInv, Injecting, WasHead, WholeTo
<1> QED  BY <1>4, <1>5, <1>6 DEF InjectInv

\* However many threads are inside InjectTest, in a ring of any size that has
\* not been filled no head ever stands past words that are not whole commands,
\* nor does the one pollRing works up to (doInjectTest, pollRing's snapshot).
THEOREM ThreadsPublishWhole == Users = {} => (Spec => []PublishedWhole)
<1> SUFFICES ASSUME Users = {} PROVE Spec => []PublishedWhole  OBVIOUS
<1>1. Init => TypeInv /\ InjectInv  BY TypeInit, InjectInit
<1>2. TypeInv /\ InjectInv /\ [Next]_vars => (TypeInv /\ InjectInv)'
  <2> SUFFICES ASSUME TypeInv, InjectInv, [Next]_vars
               PROVE  (TypeInv /\ InjectInv)'
    OBVIOUS
  <2>1. CASE UNCHANGED vars
    <3>1. TypeInv'  BY <2>1 DEF TypeInv, TypeOK, vars
    <3>2. InjectInv'
      BY <2>1 DEF vars, InjectInv, Fits, Injecting, WasHead, WholeTo
    <3> QED  BY <3>1, <3>2
  <2>2. CASE Poll  BY <2>2, TypePoll, InjectPoll
  <2>3. CASE \E t \in Producers : Produce(t)
    <3>1. PICK t \in Producers : Produce(t)  BY <2>3
    <3>2. t \in Injectors  BY <3>1 DEF Producers
    <3> QED  BY <3>1, <3>2, TypeProduce, InjectProduce
  <2> QED  BY <2>1, <2>2, <2>3 DEF Next
<1>3. InjectInv => PublishedWhole  BY DEF InjectInv, PublishedWhole, WasHead
<1> QED  BY <1>1, <1>2, <1>3, PTL DEF Spec
=============================================================================
