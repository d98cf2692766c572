----------------------------- MODULE FBDriver_proofs -----------------------------
(***************************************************************************)
(* Proofs about FBDriver: through every exit of start(), stop() and        *)
(* free(), with any number of mappings and interrupt registrations, what a *)
(* member or a client refers to is there, and every call reaches it.       *)
(***************************************************************************)
EXTENDS FBDriver, TLAPS

\* How far start() has come.
Unmapped == {"open", "bar", "command", "map"}
FirstMap == {"power", "verify", "bar0"}
Live == {"notify", "running"}
Served == {"surface", "cursor1", "edid", "lock", "cursor2", "activate", "publish"}
              \cup Live
NoCursor64K == Unmapped \cup FirstMap \cup {"alloc", "surface", "cursor1", "edid",
                                            "lock", "cursor2"}
Locked == {"cursor2", "activate", "publish"} \cup Live

\* Each member points to an object of its own kind.
MembersOwnKind ==
    /\ member["mmioMap"] \in {"mmioMap", "null"}
    /\ member["bar0Map"] \in {"bar0Map", "null"}
    /\ member["framebufferMemory"] \in {"fbMem", "null"}
    /\ member["framebufferSurface"] \in {"surface", "null"}
    /\ member["cursorMemory"] \in {"cursor4K", "cursor64K", "cursorShared",
                                   "cursorLate", "null"}
    /\ member["mmioBase"] \in {"mmioMap", "bar0Map", "null"}

One(m, o) == IF member[m] = o THEN 1 ELSE 0

\* Who holds the references: the members, the clients, and for the cursor
\* buffer of the property table one more.  Objects whose member is overwritten
\* may have a reference that nobody gives back.
Holders ==
    /\ own["mmioMap"] = One("mmioMap", "mmioMap")
    /\ own["fbMem"] = One("framebufferMemory", "fbMem")
    /\ own["bar0Map"] >= One("bar0Map", "bar0Map")
    /\ own["surface"] >= One("framebufferSurface", "surface")
    /\ own["cursor4K"] >= One("cursorMemory", "cursor4K")
    /\ own["cursorShared"] >= One("cursorMemory", "cursorShared")
    /\ own["cursorLate"] >= One("cursorMemory", "cursorLate")
    /\ \A o \in {"mmioMap", "bar0Map", "surface", "cursor4K"} : ref[o] = own[o]
    /\ \A o \in {"fbMem", "cursorShared", "cursorLate"} : ref[o] = own[o] + maps[o]

Property64K == ref["cursor64K"] = own["cursor64K"] + maps["cursor64K"] + 1

\* The property table has the second cursor buffer before anybody else has.
Cursor64K ==
    /\ pc \in NoCursor64K =>
        /\ ref["cursor64K"] = 0 /\ own["cursor64K"] = 0
        /\ member["cursorMemory"] # "cursor64K"
    /\ own["cursor64K"] \in {0, -1}
    /\ member["cursorMemory"] = "cursor64K" => own["cursor64K"] = 0 /\ pc # "freed"
    /\ pc # "freed" /\ (\/ member["cursorMemory"] = "cursor64K"
                        \/ maps["cursor64K"] > 0
                        \/ own["cursor64K"] = -1) => Property64K

\* What each stage of the driver's life has.
Stages ==
    /\ pc \in Unmapped => member["mmioMap"] = "null" /\ member["mmioBase"] = "null"
    /\ pc \in FirstMap => member["mmioBase"] = "mmioMap"
    /\ pc \in FirstMap \cup {"alloc"} \cup Served =>
        member["mmioMap"] = "mmioMap"
    /\ pc \in {"bar", "command", "map", "alloc"} \cup FirstMap \cup Served => open
    /\ pc \in Unmapped \cup FirstMap \cup {"alloc"} =>
        member["framebufferMemory"] = "null"
    /\ pc \in {"bar0", "alloc"} \cup Served => powered
    /\ pc \in {"alloc", "stopped"} \cup Served =>
        member["mmioBase"] = "bar0Map" /\ member["bar0Map"] = "bar0Map"
    /\ pc \in Served => member["framebufferMemory"] = "fbMem"
    /\ pc \in Locked => timerLock
    /\ pc \in Locked \ {"cursor2"} => member["cursorMemory"] # "cursor4K"
    /\ pc = "stopped" => member["cursorMemory"] \in {"cursorLate", "null"}
    /\ pc \in Live \cup {"stopped"} => published
    /\ published => pc \in Live \cup {"stopped", "freed"}
    /\ exit \in {"power", "verify"} =>
        /\ pc \in {"failed", "freed"} /\ ~open
        /\ member["mmioMap"] = "null" /\ member["framebufferMemory"] = "null"
    /\ pc = "stopped" \/ (pc = "freed" /\ published) =>
        /\ ~open
        /\ member["mmioMap"] = "null" /\ member["framebufferMemory"] = "null"
    /\ \A o \in Shared : maps[o] > 0 => published
    /\ pixels \in {"none", "fbMem"}
    /\ pixels # "none" => pc \in Live

LifeInv == TypeOK /\ MembersOwnKind /\ Holders /\ Cursor64K /\ Stages

\* The accelerator ticks only while it is attached.
TickInv ==
    /\ polling \in BOOLEAN /\ busy \in BOOLEAN
    /\ polling => pixels # "none"
    /\ busy => polling

\* Until stop() nothing is freed, after it the list has only what was
\* registered since; a reference is never the address of a buffer, and only a
\* driver that serves has a list.
ListInv ==
    /\ Interrupts!TypeOK
    /\ phase = (IF pc = "stopped" THEN "stopped"
                ELSE IF pc = "freed" THEN "freed" ELSE "serving")
    /\ ~published \/ phase = "freed" => list = {}
    /\ phase = "serving" => \A b \in 1..MaxBlocks : freed[b] = 0
    /\ phase = "stopped" => \A e \in list : e.buffer \in late
    /\ \A b \in (1..MaxBlocks) \ late : freed[b] <= 1
    /\ \A h \in held, e \in list : h.info # e.buffer

DriverInv == LifeInv /\ TickInv /\ ListInv /\ missed = {}
-----------------------------------------------------------------------------
(* The ledger.                                                             *)

\* The exit that releases the first mapping.
LEMMA GivenUp ==
    ASSUME LifeInv, pc \in {"power", "verify"}, GiveUp(pc),
           UNCHANGED <<timerLock, retries, powered, published, flags, pixels, maps>>
    PROVE  LifeInv'
<1>1. /\ ref' \in [Objects -> Int] /\ own' \in [Objects -> Int]
      /\ ref'["mmioMap"] = ref["mmioMap"] - 1 /\ own'["mmioMap"] = own["mmioMap"] - 1
      /\ \A o \in Objects \ {"mmioMap", "pci"} : ref'[o] = ref[o] /\ own'[o] = own[o]
  BY DEF LifeInv, TypeOK, GiveUp, Give, Objects
<1>2. /\ member' \in [Pointers -> Objects \cup {"null"}] /\ member'["mmioMap"] = "null"
      /\ \A m \in Pointers \ {"mmioMap"} : member'[m] = member[m]
  BY DEF LifeInv, TypeOK, GiveUp, Pointers, Members
<1>3. pc' = "failed" /\ exit' = pc /\ open' = FALSE  BY DEF GiveUp, Fail
<1> USE LifecycleAssumption DEF LifeInv, Unmapped, FirstMap, Live, Served, Locked
<1>4. TypeOK'  BY <1>1, <1>2, <1>3 DEF TypeOK, Steps, Ended
<1>5. MembersOwnKind'  BY <1>2 DEF MembersOwnKind, Pointers, Members
<1>6. Holders'
  BY <1>1, <1>2 DEF MembersOwnKind, Holders, One, Objects, Pointers, Members, Stages
<1>7. Cursor64K'
  BY <1>1, <1>2, <1>3 DEF Cursor64K, Property64K, NoCursor64K, Objects, Pointers, Members
<1>8. Stages'  BY <1>2, <1>3 DEF Stages, Pointers, Members
<1> QED  BY <1>4, <1>5, <1>6, <1>7, <1>8
-----------------------------------------------------------------------------
(* The steps of start().                                                   *)

LEMMA StartStep == LifeInv /\ Start => LifeInv'
<1> SUFFICES ASSUME LifeInv, Start PROVE LifeInv'  OBVIOUS
<1> USE LifecycleAssumption DEF LifeInv, TypeOK, MembersOwnKind, Holders, Cursor64K,
        Property64K, Stages, One, Unmapped, FirstMap, Live, Served, NoCursor64K,
        Locked, Objects, Shared, Members, Pointers, Steps, Ended, rest,
        ledger, At, Fail, Take, Give
<1>1. CASE OpenDevice
  <2>1. TypeOK'  BY <1>1 DEF OpenDevice
  <2>2. MembersOwnKind'  BY <1>1 DEF OpenDevice
  <2>3. Holders'  BY <1>1 DEF OpenDevice
  <2>4. Cursor64K'  BY <1>1 DEF OpenDevice
  <2>5. Stages'  BY <1>1 DEF OpenDevice
  <2> QED  BY <2>1, <2>2, <2>3, <2>4, <2>5
<1>2. CASE CheckDevice  BY <1>2 DEF CheckDevice
<1>3. CASE MapBar0
  <2>1. CASE pc' = "power" /\ UNCHANGED exit  BY <1>3, <2>1 DEF MapBar0
  <2>2. CASE Fail("map")  BY <1>3, <2>2 DEF MapBar0
  <2> QED  BY <1>3, <2>1, <2>2 DEF MapBar0
<1>4. CASE PowerUp
  <2>1. CASE GiveUp("power")  BY <1>4, <2>1, GivenUp DEF PowerUp
  <2>2. CASE pc' = "verify" /\ UNCHANGED <<open, ledger, member, exit>>
    BY <1>4, <2>2 DEF PowerUp
  <2> QED  BY <1>4, <2>1, <2>2 DEF PowerUp
<1>5. CASE Verify
  <2>1. CASE GiveUp("verify") /\ UNCHANGED powered
    BY <1>5, <2>1, GivenUp DEF Verify
  <2>2. CASE pc' = "bar0" /\ powered' = TRUE /\ UNCHANGED <<open, ledger, member, exit>>
    BY <1>5, <2>2 DEF Verify
  <2> QED  BY <1>5, <2>1, <2>2 DEF Verify
<1>6. CASE MapBar0Again
  <2>1. CASE pc' = "panic" /\ UNCHANGED <<ledger, member>>
    BY <1>6, <2>1 DEF MapBar0Again
  <2>2. CASE /\ pc' = "alloc" /\ Take({"bar0Map"})
             /\ member' = [member EXCEPT !["bar0Map"] = "bar0Map",
                                         !["mmioBase"] = "bar0Map"]
    <3>1. UNCHANGED <<open, exit, timerLock, retries, powered, published, flags,
                      pixels, maps>>
      BY <1>6 DEF MapBar0Again
    <3>2. /\ ref' \in [Objects -> Int] /\ own' \in [Objects -> Int]
          /\ ref'["bar0Map"] = ref["bar0Map"] + 1 /\ own'["bar0Map"] = own["bar0Map"] + 1
          /\ \A o \in Objects \ {"bar0Map"} : ref'[o] = ref[o] /\ own'[o] = own[o]
      BY <2>2
    <3>3. /\ member' \in [Pointers -> Objects \cup {"null"}]
          /\ member'["bar0Map"] = "bar0Map" /\ member'["mmioBase"] = "bar0Map"
          /\ \A m \in Pointers \ {"bar0Map", "mmioBase"} : member'[m] = member[m]
      BY <2>2
    <3>4. TypeOK' /\ MembersOwnKind'  BY <2>2, <3>1, <3>2, <3>3
    <3>5. Holders'  BY <3>1, <3>2, <3>3
    <3>6. pc = "bar0"  BY <1>6 DEF MapBar0Again
    <3>7. Cursor64K'  BY <2>2, <3>1, <3>2, <3>3, <3>6
    <3>8. Stages'  BY <2>2, <3>1, <3>3, <3>6
    <3> QED  BY <3>4, <3>5, <3>7, <3>8
  <2> QED  BY <1>6, <2>1, <2>2 DEF MapBar0Again
<1>7. CASE AllocFB
  <2>1. TypeOK'  BY <1>7 DEF AllocFB
  <2>2. MembersOwnKind'  BY <1>7 DEF AllocFB
  <2>3. Holders'
    <3>1. CASE UNCHANGED <<ledger, member>>  BY <1>7, <3>1 DEF AllocFB
    <3>2. CASE /\ Take({"fbMem"}) /\ pc = "alloc"
               /\ member' = [member EXCEPT !["framebufferMemory"] = "fbMem"]
      <4>1. UNCHANGED maps  BY <1>7 DEF AllocFB
      <4>2. /\ ref'["fbMem"] = ref["fbMem"] + 1 /\ own'["fbMem"] = own["fbMem"] + 1
            /\ \A o \in Objects \ {"fbMem"} : ref'[o] = ref[o] /\ own'[o] = own[o]
        BY <3>2
      <4>3. /\ member["framebufferMemory"] = "null"
            /\ member'["framebufferMemory"] = "fbMem"
            /\ \A m \in Pointers \ {"framebufferMemory"} : member'[m] = member[m]
        BY <3>2
      <4> QED  BY <4>1, <4>2, <4>3
    <3> QED  BY <1>7, <3>1, <3>2 DEF AllocFB
  <2>4. Cursor64K'  BY <1>7 DEF AllocFB
  <2>5. Stages'  BY <1>7 DEF AllocFB
  <2> QED  BY <2>1, <2>2, <2>3, <2>4, <2>5
<1>8. CASE MakeSurface  BY <1>8 DEF MakeSurface, Optional
<1>9. CASE MakeCursor  BY <1>9 DEF MakeCursor, Optional
<1>10. CASE PublishEdid  BY <1>10 DEF PublishEdid
<1>11. CASE AllocLock
  <2>1. TypeOK'  BY <1>11 DEF AllocLock
  <2>2. MembersOwnKind'  BY <1>11 DEF AllocLock
  <2>3. Holders'  BY <1>11 DEF AllocLock
  <2>4. Cursor64K'  BY <1>11 DEF AllocLock
  <2>5. Stages'  BY <1>11 DEF AllocLock
  <2> QED  BY <2>1, <2>2, <2>3, <2>4, <2>5
<1>12. CASE MakeCursorAgain  BY <1>12 DEF MakeCursorAgain
<1>13. CASE Activate  BY <1>13 DEF Activate
<1>14. CASE Publish  BY <1>14 DEF Publish
<1>15. CASE Notify  BY <1>15 DEF Notify
<1> QED
  BY <1>1, <1>2, <1>3, <1>4, <1>5, <1>6, <1>7, <1>8, <1>9, <1>10, <1>11, <1>12,
     <1>13, <1>14, <1>15 DEF Start
-----------------------------------------------------------------------------
(* Clients, stop() and free().                                             *)

\* Clients are served by a driver that is ready and has its frame buffer, or
\* was stopped and has none.
LEMMA ServedIsLive ==
    ASSUME LifeInv, Serving
    PROVE  /\ published
           /\ \/ pc \in Live /\ member["framebufferMemory"] = "fbMem"
              \/ pc = "stopped" /\ member["framebufferMemory"] = "null"
BY DEF LifeInv, Serving, Stages, Live, Served

LEMMA AcceleratorStep ==
    ASSUME LifeInv, pc \in Live, AcceleratorStart \/ AcceleratorStop
    PROVE  LifeInv'
<1>1. /\ UNCHANGED <<pc, open, ref, own, member, exit, timerLock, retries, powered,
                      published, flags, maps>>
      /\ pixels' \in {"none", member["framebufferMemory"]}
  BY DEF AcceleratorStart, AcceleratorStop, ledger
<1>2. member["framebufferMemory"] = "fbMem"  BY DEF LifeInv, Stages, Served, Live
<1>3. pixels' \in {"none", "fbMem"}  BY <1>1, <1>2
<1>4. TypeOK'  BY <1>1, <1>3 DEF LifeInv, TypeOK
<1>5. MembersOwnKind' /\ Holders'
  BY <1>1 DEF LifeInv, MembersOwnKind, Holders, One
<1>6. Cursor64K'  BY <1>1 DEF LifeInv, Cursor64K, Property64K
<1>7. Stages'  BY <1>1, <1>3 DEF LifeInv, Stages
<1> QED  BY <1>4, <1>5, <1>6, <1>7 DEF LifeInv

LEMMA MapStep ==
    ASSUME LifeInv, ClientMap \/ ClientUnmap
    PROVE  LifeInv'
<1> USE LifecycleAssumption DEF LifeInv, TypeOK, MembersOwnKind, Holders, Cursor64K,
        Property64K, Stages, One, Unmapped, FirstMap, Live, Served, NoCursor64K,
        Locked, Objects, Shared, Members, Pointers
<1>1. CASE ClientMap
  <2>1. /\ pc \in Live \cup {"stopped"} /\ published
        /\ member["framebufferMemory"] \in {"fbMem", "null"}
    BY <1>1, ServedIsLive DEF ClientMap
  <2>2. PICK type \in {"kIOFBCursorMemory", "other"} :
          /\ HandedOut(type) # "null"
          /\ maps' = [maps EXCEPT ![HandedOut(type)] = @ + 1]
          /\ ref' = [ref EXCEPT ![HandedOut(type)] = @ + 1]
    BY <1>1 DEF ClientMap
  <2>3. PICK o \in Shared :
          /\ o = "fbMem" \/ o = member["cursorMemory"]
          /\ maps' = [maps EXCEPT ![o] = @ + 1] /\ ref' = [ref EXCEPT ![o] = @ + 1]
    BY <2>1, <2>2 DEF HandedOut
  <2>4. \A q \in Shared : maps'[q] \in 0..MaxMaps
    <3>1. maps["fbMem"] + maps["cursor64K"] + maps["cursorShared"]
            + maps["cursorLate"] < MaxMaps
      BY <1>1 DEF ClientMap
    <3>2. \A q \in Shared : maps[q] \in 0..MaxMaps  OBVIOUS
    <3>3. \A q \in Shared : maps[q] < MaxMaps
      BY <3>1, <3>2
    <3> QED  BY <2>3, <3>2, <3>3
  <2>5. UNCHANGED <<pc, open, own, member, exit, timerLock, retries, powered,
                    published, flags, pixels>>
    BY <1>1 DEF ClientMap
  <2>6. TypeOK' /\ MembersOwnKind' /\ Holders'  BY <2>3, <2>4, <2>5
  <2>7. Cursor64K'  BY <2>1, <2>3, <2>5
  <2>8. Stages'  BY <2>1, <2>3, <2>4, <2>5
  <2> QED  BY <2>6, <2>7, <2>8
<1>2. CASE ClientUnmap  BY <1>2 DEF ClientUnmap
<1> QED  BY <1>1, <1>2

LEMMA CursorStep ==
    ASSUME LifeInv, CreateSharedCursor
    PROVE  LifeInv'
BY LifecycleAssumption
   DEF LifeInv, TypeOK, MembersOwnKind, Holders, Cursor64K, Property64K, Stages, One,
       Live, Served, Unmapped, FirstMap, NoCursor64K, Locked, Shared, Objects,
       Members, Pointers, rest, Take, CreateSharedCursor, Serving

LEMMA SafeStopStep ==
    ASSUME LifeInv, SafeStop
    PROVE  LifeInv'
<1> DEFINE D == {"pci"} \cup {member[m] : m \in Released}
           Dropped(m, o) == IF member[m] = o THEN 1 ELSE 0
<1>1. /\ "mmioMap" \in D <=> member["mmioMap"] = "mmioMap"
      /\ "fbMem" \in D <=> member["framebufferMemory"] = "fbMem"
      /\ "surface" \in D <=> member["framebufferSurface"] = "surface"
      /\ "bar0Map" \notin D
      /\ \A o \in {"cursor4K", "cursor64K", "cursorShared", "cursorLate"} :
            o \in D <=> member["cursorMemory"] = o
  BY DEF LifeInv, MembersOwnKind, Released, Members
<1>2. /\ ref' \in [Objects -> Int] /\ own' \in [Objects -> Int]
      /\ \A o \in Objects : /\ ref'[o] = IF o \in D THEN ref[o] - 1 ELSE ref[o]
                          /\ own'[o] = IF o \in D THEN own[o] - 1 ELSE own[o]
  BY DEF LifeInv, TypeOK, SafeStop, Give
<1>3. /\ member' \in [Pointers -> Objects \cup {"null"}]
      /\ \A m \in Members \ {"bar0Map"} : member'[m] = "null"
      /\ \A m \in {"bar0Map", "mmioBase"} : member'[m] = member[m]
  BY DEF LifeInv, TypeOK, SafeStop, Released, Members, Pointers
<1>4. /\ pc = "running" /\ pixels = "none" /\ pc' = "stopped" /\ timerLock' = FALSE
      /\ open' = FALSE /\ flags' = (flags \ {"driverActive"}) \cup {"shuttingDown"}
      /\ UNCHANGED <<exit, retries, powered, published, pixels, maps>>
  BY DEF SafeStop
<1> HIDE DEF D
<1> USE LifecycleAssumption DEF LifeInv, Unmapped, FirstMap, Live, Served, Locked,
        NoCursor64K, Objects, Members, Pointers, Shared
<1>5. TypeOK' /\ MembersOwnKind'  BY <1>2, <1>3, <1>4 DEF TypeOK, MembersOwnKind, Ended
<1>6. Holders'
  <2>1. /\ own'["mmioMap"] = 0 /\ own'["fbMem"] = 0
        /\ own'["bar0Map"] = own["bar0Map"]
        /\ own'["surface"] = own["surface"] - One("framebufferSurface", "surface")
    BY <1>1, <1>2 DEF Holders, MembersOwnKind, One
  <2>2. \A o \in {"cursor4K", "cursor64K", "cursorShared", "cursorLate"} :
          own'[o] = own[o] - One("cursorMemory", o)
    BY <1>1, <1>2, Z3 DEF TypeOK, One
  <2>3. \A o \in Objects : ref'[o] - own'[o] = ref[o] - own[o]
    BY <1>2 DEF TypeOK
  <2>4. /\ \A o \in {"mmioMap", "bar0Map", "surface", "cursor4K"} : ref'[o] = own'[o]
        /\ \A o \in {"fbMem", "cursorShared", "cursorLate"} : ref'[o] = own'[o] + maps'[o]
    BY <2>3, <1>2, <1>4 DEF Holders, TypeOK
  <2>5. /\ \A m \in Members \ {"bar0Map"}, o \in Objects : One(m, o)' = 0
        /\ One("bar0Map", "bar0Map")' = One("bar0Map", "bar0Map")
    BY <1>3 DEF One
  <2> QED  BY <2>1, <2>2, <2>4, <2>5 DEF Holders, One, TypeOK
<1>7. Cursor64K'
  <2>1. own'["cursor64K"] = own["cursor64K"] - One("cursorMemory", "cursor64K")
    BY <1>1, <1>2 DEF TypeOK, One
  <2>2. ref'["cursor64K"] = ref["cursor64K"] - One("cursorMemory", "cursor64K")
    BY <1>1, <1>2 DEF TypeOK, One
  <2> QED  BY <2>1, <2>2, <1>3, <1>4 DEF Cursor64K, Property64K, One, TypeOK
<1>8. Stages'  BY <1>3, <1>4 DEF Stages
<1> QED  BY <1>5, <1>6, <1>7, <1>8

\* Only the objects of the property table lose a second reference in free().
LEMMA FreeStep ==
    ASSUME LifeInv, Free
    PROVE  LifeInv'
<1> DEFINE D == {member["framebufferSurface"], member["cursorMemory"]}
<1>1. \A o \in Objects \ {"pci", "cursor64K", "edid"} : ~InTable(o)
  BY DEF LifeInv, TypeOK, Holders, InTable, Objects, Shared
<1>2. /\ ref' \in [Objects -> Int] /\ own' \in [Objects -> Int]
      /\ \A o \in Objects \ {"pci", "cursor64K", "edid"} :
            ref'[o] = IF o \in D THEN ref[o] - 1 ELSE ref[o]
      /\ \A o \in Objects : own'[o] = IF o \in D THEN own[o] - 1 ELSE own[o]
  BY <1>1 DEF LifeInv, TypeOK, Free
<1>3. /\ member' \in [Pointers -> Objects \cup {"null"}]
      /\ member'["framebufferSurface"] = "null" /\ member'["cursorMemory"] = "null"
      /\ \A m \in Pointers \ {"framebufferSurface", "cursorMemory"} : member'[m] = member[m]
  BY DEF LifeInv, TypeOK, Free, Members, Pointers
<1>4. /\ pc \in {"stopped", "failed"} /\ pc' = "freed" /\ timerLock' = FALSE
      /\ flags' = flags \ {"driverActive"}
      /\ UNCHANGED <<open, exit, retries, powered, published, pixels, maps>>
  BY DEF Free
<1> USE LifecycleAssumption DEF LifeInv, Unmapped, FirstMap, Live, Served, Locked,
        NoCursor64K, Objects, Members, Pointers, Shared
<1>5. TypeOK' /\ MembersOwnKind'  BY <1>2, <1>3, <1>4 DEF TypeOK, MembersOwnKind, Ended
<1>6. Holders'
  <2>1. /\ own'["mmioMap"] = own["mmioMap"] /\ own'["fbMem"] = own["fbMem"]
        /\ own'["bar0Map"] = own["bar0Map"]
        /\ own'["surface"] = own["surface"] - One("framebufferSurface", "surface")
    BY <1>2 DEF MembersOwnKind, One, TypeOK
  <2>2. \A o \in {"cursor4K", "cursorShared", "cursorLate"} :
          own'[o] = own[o] - One("cursorMemory", o)
    BY <1>2 DEF MembersOwnKind, One, TypeOK
  <2>3. \A o \in Objects \ {"pci", "cursor64K", "edid"} :
          ref'[o] - own'[o] = ref[o] - own[o]
    BY <1>2 DEF TypeOK
  <2>4. /\ \A o \in {"mmioMap", "bar0Map", "surface", "cursor4K"} : ref'[o] = own'[o]
        /\ \A o \in {"fbMem", "cursorShared", "cursorLate"} : ref'[o] = own'[o] + maps'[o]
    BY <2>3, <1>2, <1>4 DEF Holders, TypeOK
  <2>5. /\ \A m \in {"mmioMap", "framebufferMemory", "bar0Map"}, o \in Objects :
              One(m, o)' = One(m, o)
        /\ \A m \in {"framebufferSurface", "cursorMemory"}, o \in Objects :
              One(m, o)' = 0
    BY <1>3 DEF One
  <2> QED  BY <2>1, <2>2, <2>4, <2>5 DEF Holders, One, TypeOK
<1>7. Cursor64K'  BY <1>2, <1>3, <1>4 DEF Cursor64K, MembersOwnKind
<1>8. Stages'  BY <1>3, <1>4 DEF Stages
<1> QED  BY <1>5, <1>6, <1>7, <1>8
-----------------------------------------------------------------------------
(* The interrupt list.                                                     *)

LEMMA NotIn == ASSUME NEW x, NEW S, x \notin S PROVE (x \in S) = FALSE
BY SMT

LEMMA RegistrationsStep ==
    ASSUME ListInv, published, pc # "freed", Interrupts!Call,
           UNCHANGED vars
    PROVE  ListInv'
<1> USE DriverAssumption DEF ListInv, Interrupts!TypeOK, Interrupts!Blocks,
        Interrupts!Note
<1>1. UNCHANGED <<pc, published>>  BY DEF vars
<1>2. CASE Interrupts!Register
  <2>1. /\ used \in Nat /\ used' \in 0..MaxBlocks /\ used <= used'
        /\ 1..used \subseteq 1..used'
    BY <1>2 DEF Interrupts!Register
  <2>2. list' \subseteq [buffer: 1..used', info: 1..used']
    BY <1>2, <2>1 DEF Interrupts!Register
  <2>3. held' \subseteq [info: 1..used', listed: BOOLEAN]
    <3>1. used + 1 \in 1..used'  BY <1>2, <2>1 DEF Interrupts!Register
    <3>2. [info |-> used + 1, listed |-> TRUE] \in [info: 1..used', listed: BOOLEAN]
      BY <3>1, Zenon
    <3>3. held \subseteq [info: 1..used', listed: BOOLEAN]  BY <2>1
    <3> QED  BY <1>2, <3>2, <3>3, Zenon DEF Interrupts!Register
  <2>4. told' \subseteq [info: 1..used', listed: BOOLEAN, found: BOOLEAN]
    BY <1>2, <2>1 DEF Interrupts!Register
  <2>5. \A h \in held', e \in list' : h.info # e.buffer
    BY <1>2, <2>1 DEF Interrupts!Register
  <2>6. Interrupts!TypeOK'
    BY <1>2, <2>1, <2>2, <2>3, <2>4 DEF Interrupts!Register
  <2> QED  BY <1>2, <1>1, <2>5, <2>6 DEF Interrupts!Register
<1>3. CASE Interrupts!RegisterUnlisted
  <2>1. /\ used \in Nat /\ used' \in 0..MaxBlocks /\ used <= used'
        /\ 1..used \subseteq 1..used'
    BY <1>3 DEF Interrupts!RegisterUnlisted
  <2>2. list' \subseteq [buffer: 1..used', info: 1..used']
    BY <1>3, <2>1 DEF Interrupts!RegisterUnlisted
  <2>3. held' \subseteq [info: 1..used', listed: BOOLEAN]
    <3>1. used + 1 \in 1..used'  BY <1>3, <2>1 DEF Interrupts!RegisterUnlisted
    <3>2. [info |-> used + 1, listed |-> FALSE] \in [info: 1..used', listed: BOOLEAN]
      BY <3>1, Zenon
    <3>3. held \subseteq [info: 1..used', listed: BOOLEAN]  BY <2>1
    <3> QED  BY <1>3, <3>2, <3>3, Zenon DEF Interrupts!RegisterUnlisted
  <2>4. told' \subseteq [info: 1..used', listed: BOOLEAN, found: BOOLEAN]
    BY <1>3, <2>1 DEF Interrupts!RegisterUnlisted
  <2>5. \A h \in held', e \in list' : h.info # e.buffer
    BY <1>3, <2>1 DEF Interrupts!RegisterUnlisted
  <2>6. Interrupts!TypeOK'
    BY <1>3, <2>1, <2>2, <2>3, <2>4 DEF Interrupts!RegisterUnlisted
  <2> QED  BY <1>3, <1>1, <2>5, <2>6 DEF Interrupts!RegisterUnlisted
<1>4. ASSUME NEW r \in held, Interrupts!Unregister(r) PROVE ListInv'
  <2>1. r.info \notin Interrupts!Buffers /\ r.info \in 1..MaxBlocks
    BY DEF Interrupts!Buffers
  <2>2. freed' = freed  BY <1>4, <2>1 DEF Interrupts!Unregister
  <2>3. /\ list' \subseteq list /\ held' \subseteq held /\ used' = used
        /\ hasList' = hasList /\ hasList /\ phase' = phase /\ late' = late
    BY <1>4 DEF Interrupts!Unregister
  <2>4. told' \subseteq [info: 1..used', listed: BOOLEAN, found: BOOLEAN]
    <3>1. r.info \in 1..used /\ r.listed \in BOOLEAN  OBVIOUS
    <3> DEFINE entry == [info |-> r.info, listed |-> r.listed,
                         found |-> r.info \in Interrupts!Buffers]
    <3>2. told' = told \cup {entry}  BY <1>4, Zenon DEF Interrupts!Unregister
    <3>3. entry \in [info: 1..used, listed: BOOLEAN, found: BOOLEAN]
      <4>1. (r.info \in Interrupts!Buffers) = FALSE  BY <2>1, NotIn
      <4>2. entry = [info |-> r.info, listed |-> r.listed, found |-> FALSE]
        BY <4>1, Zenon
      <4> QED  BY <3>1, <4>2, Zenon
    <3>4. told \subseteq [info: 1..used, listed: BOOLEAN, found: BOOLEAN]  OBVIOUS
    <3>5. used' = used  BY <2>3
    <3> QED  BY <3>2, <3>3, <3>4, <3>5, Zenon
  <2> QED  BY <1>1, <2>2, <2>3, <2>4
<1> QED  BY <1>2, <1>3, <1>4 DEF Interrupts!Call

\* performSafeStop frees each buffer of the list, for the first time.
LEMMA ListStopped ==
    ASSUME ListInv, SafeStop, Interrupts!SafeStop
    PROVE  ListInv'
<1>1. pc' = "stopped" /\ published' = published  BY DEF SafeStop
<1>2. freed' = [b \in 1..MaxBlocks |-> IF b \in Interrupts!Buffers
                                         THEN freed[b] + 1 ELSE freed[b]]
  BY DEF Interrupts!SafeStop, Interrupts!FreeAll, Interrupts!Blocks
<1>3. phase = "serving" /\ phase' = "stopped" /\ hasList' = FALSE /\ list' = {}
      /\ UNCHANGED <<used, held, told, late>>
  BY DEF Interrupts!SafeStop
<1>4. freed' \in [1..MaxBlocks -> Nat] /\ \A b \in (1..MaxBlocks) \ late : freed'[b] <= 1
  BY <1>2, <1>3 DEF ListInv, Interrupts!TypeOK, Interrupts!Blocks
<1> QED
  BY <1>1, <1>3, <1>4, DriverAssumption DEF ListInv, Interrupts!TypeOK, Interrupts!Blocks

\* free() finds on the list only what was registered after stop().
LEMMA ListFreed ==
    ASSUME LifeInv, ListInv, Free, Interrupts!Free
    PROVE  ListInv'
<1>1. pc \in {"stopped", "failed"} /\ pc' = "freed" /\ published' = published
  BY DEF Free
<1>2. /\ phase' = "freed" /\ hasList' = FALSE /\ list' = {}
      /\ UNCHANGED <<used, held, told, late>>
      /\ freed' = [b \in 1..MaxBlocks |-> IF b \in Interrupts!Buffers
                                             THEN freed[b] + 2 ELSE freed[b]]
  BY DEF Interrupts!Free, Interrupts!Blocks
<1>3. Interrupts!Buffers \subseteq late
  BY <1>1 DEF ListInv, LifeInv, Stages, Live, Interrupts!Buffers
<1>4. /\ freed' \in [1..MaxBlocks -> Nat]
      /\ \A b \in (1..MaxBlocks) \ late : freed'[b] <= 1
  BY <1>2, <1>3 DEF ListInv, Interrupts!TypeOK, Interrupts!Blocks
<1> QED
  BY <1>1, <1>2, <1>4, DriverAssumption DEF ListInv, Interrupts!TypeOK, Interrupts!Blocks

LEMMA ListKept ==
    ASSUME ListInv, UNCHANGED interruptVars,
           \/ UNCHANGED <<pc, published>>
           \/ /\ {pc, pc'} \cap {"stopped", "freed"} = {}
              /\ published => published'
    PROVE  ListInv'
BY DEF ListInv, interruptVars, Interrupts!TypeOK, Interrupts!Blocks

LEMMA StartGoesOn ==
    ASSUME Start
    PROVE  /\ {pc, pc'} \cap {"stopped", "freed"} = {}
           /\ published => published'
BY DEF Start, OpenDevice, CheckDevice, MapBar0, PowerUp, GiveUp, Verify, MapBar0Again,
       AllocFB, MakeSurface, MakeCursor, Optional, PublishEdid, AllocLock,
       MakeCursorAgain, Activate, Publish, Notify, At, Fail, rest
-----------------------------------------------------------------------------
(* The whole driver.                                                       *)

LEMMA InitDriver == DriverInit => DriverInv
<1> SUFFICES ASSUME DriverInit PROVE DriverInv  OBVIOUS
<1> USE LifecycleAssumption, DriverAssumption DEF DriverInit, Init
<1>1. TypeOK
  <2>1. /\ ref \in [Objects -> Int] /\ own \in [Objects -> Int]
        /\ member \in [Pointers -> Objects \cup {"null"}]
        /\ maps \in [Shared -> 0..MaxMaps]
    OBVIOUS
  <2>2. open \in BOOLEAN /\ timerLock \in BOOLEAN /\ powered \in BOOLEAN
        /\ published \in BOOLEAN
    BY Zenon
  <2> QED  BY <2>1, <2>2 DEF TypeOK, Steps, Ended
<1>2. MembersOwnKind /\ Holders /\ Cursor64K
  BY DEF MembersOwnKind, Holders, One, Cursor64K, Objects, Shared, Pointers, Members
<1>3. Stages
  BY DEF Stages, Unmapped, FirstMap, Live, Served, Locked, Shared, Pointers, Members
<1>4. ListInv
  <2>1. freed = [b \in 1..MaxBlocks |-> 0] /\ freed \in [1..MaxBlocks -> Nat]
    BY DEF Interrupts!Init, Interrupts!Blocks
  <2>2. list = {} /\ held = {} /\ told = {} /\ used = 0 /\ hasList = FALSE
        /\ phase = "serving" /\ late = {}
    BY DEF Interrupts!Init
  <2>3. hasList \in BOOLEAN  BY <2>2, Zenon
  <2> QED  BY <2>1, <2>2, <2>3 DEF ListInv, Interrupts!TypeOK, Interrupts!Blocks
<1> QED  BY <1>1, <1>2, <1>3, <1>4 DEF DriverInv, LifeInv, TickInv

\* What a member points to and what the accelerator draws on has a reference.
LEMMA Reachable ==
    ASSUME LifeInv
    PROVE  /\ \A m \in Members : member[m] # "null" => ref[member[m]] > 0
           /\ pixels # "none" => /\ pixels = "fbMem" /\ ref["fbMem"] > 0
                                /\ member["framebufferMemory"] = "fbMem"
BY LifecycleAssumption
   DEF LifeInv, TypeOK, MembersOwnKind, Holders, Cursor64K, Property64K, Stages, One,
       Live, Served, Members, Objects, Shared

LEMMA LifeKept == LifeInv /\ UNCHANGED vars => LifeInv'
BY DEF LifeInv, TypeOK, MembersOwnKind, Holders, Cursor64K, Property64K, Stages, One,
       vars, ledger

\* The calls that reach memory.
LEMMA CallStep ==
    ASSUME DriverInv, Draw \/ AcceleratorFlush \/ FlushDisplay \/ SetCursorImage
    PROVE  DriverInv'
<1>1. UNCHANGED <<vars, interruptVars, tickVars>>
  BY DEF Draw, AcceleratorFlush, FlushDisplay, SetCursorImage
<1>2. missed' = {}
  <2> USE DEF DriverInv, Miss, Allocated, performFlushNow
  <2>1. CASE Draw  BY <2>1, Reachable DEF Draw, TickInv
  <2>2. CASE AcceleratorFlush  BY <2>2, Reachable DEF AcceleratorFlush
  <2>3. CASE FlushDisplay
    BY <2>3, Reachable, ServedIsLive DEF FlushDisplay, Members
  <2>4. CASE SetCursorImage  BY <2>4, Reachable DEF SetCursorImage, Members
  <2> QED  BY <2>1, <2>2, <2>3, <2>4
<1>3. UNCHANGED <<pc, published, pixels>>  BY <1>1 DEF vars
<1>4. LifeInv' /\ ListInv'  BY <1>1, <1>3, LifeKept, ListKept DEF DriverInv
<1>5. TickInv'  BY <1>1, <1>3 DEF DriverInv, TickInv, tickVars
<1> QED  BY <1>2, <1>4, <1>5 DEF DriverInv

LEMMA DriverStep == DriverInv /\ [DriverNext]_driverVars => DriverInv'
<1> SUFFICES ASSUME DriverInv, [DriverNext]_driverVars PROVE DriverInv'  OBVIOUS
<1> USE DEF DriverInv
<1>1. CASE StartDriver
  <2>1. UNCHANGED pixels
    BY <1>1 DEF StartDriver, Start, OpenDevice, CheckDevice, MapBar0, PowerUp, Verify,
       MapBar0Again, AllocFB, MakeSurface, MakeCursor, Optional, PublishEdid, AllocLock,
       MakeCursorAgain, Activate, Publish, Notify, rest
  <2> QED
    BY <1>1, <2>1, StartStep, StartGoesOn, ListKept DEF StartDriver, TickInv, tickVars
<1>2. CASE StopDriver
  BY <1>2, SafeStopStep, ListStopped DEF StopDriver, TickInv, tickVars, SafeStop
<1>3. CASE FreeDriver
  BY <1>3, FreeStep, ListFreed DEF FreeDriver, TickInv, tickVars, Free
<1>4. CASE AcceleratorAttaches
  BY <1>4, AcceleratorStep, ListKept, ServedIsLive
     DEF AcceleratorAttaches, AcceleratorStart, Accelerator!Attach, TickInv
<1>5. CASE AcceleratorDetaches
  BY <1>5, AcceleratorStep, ListKept
     DEF AcceleratorDetaches, AcceleratorStop, Accelerator!Stop, TickInv, Live
<1>6. CASE AcceleratorTicks
  <2>1. UNCHANGED <<pc, published, pixels>>  BY <1>6 DEF AcceleratorTicks, vars
  <2>2. TickInv'
    BY <1>6, <2>1 DEF AcceleratorTicks, Accelerator!StartPolling,
       Accelerator!BeginTick, Accelerator!EndTick, TickInv
  <2> QED  BY <1>6, <2>1, <2>2, LifeKept, ListKept DEF AcceleratorTicks
<1>7. CASE Draw \/ AcceleratorFlush \/ FlushDisplay \/ SetCursorImage
  BY <1>7, CallStep
<1>8. CASE Registrations
  <2>1. pc # "freed" /\ published
    BY <1>8, ServedIsLive DEF Registrations, Serving
  <2>2. UNCHANGED <<pixels, polling, busy, missed>>
    BY <1>8 DEF Registrations, vars, tickVars
  <2> QED
    BY <1>8, <2>1, <2>2, LifeKept, RegistrationsStep DEF Registrations, TickInv
<1>9. CASE ClientMemory
  <2>1. UNCHANGED <<pc, published, pixels>>
    BY <1>9 DEF ClientMemory, ClientMap, ClientUnmap, CreateSharedCursor, rest
  <2>2. LifeInv'  BY <1>9, MapStep, CursorStep DEF ClientMemory
  <2> QED  BY <1>9, <2>1, <2>2, ListKept DEF ClientMemory, TickInv, tickVars
<1>10. CASE UNCHANGED driverVars
  <2>1. UNCHANGED <<pc, published, pixels>>  BY <1>10 DEF driverVars, vars
  <2> QED
    BY <1>10, <2>1, LifeKept, ListKept DEF driverVars, TickInv, tickVars
<1> QED
  BY <1>1, <1>2, <1>3, <1>4, <1>5, <1>6, <1>7, <1>8, <1>9, <1>10 DEF DriverNext

LEMMA DriverInductive == DriverSpec => []DriverInv
BY InitDriver, DriverStep, PTL DEF DriverSpec
-----------------------------------------------------------------------------
\* Every variable of the driver keeps its type, through failures of start()
\* at any step.
THEOREM DriverTypeCorrect == DriverSpec => []DriverTypeOK
<1>1. DriverInv => DriverTypeOK
  BY DEF DriverInv, LifeInv, TickInv, ListInv, DriverTypeOK
<1> QED  BY <1>1, DriverInductive, PTL

\* Whatever a member points to or a client has mapped is referenced, with any
\* number of mappings (start's exits, clientMemoryForType, performSafeStop),
\* except, after free(), the cursor buffer that was in the property table.
THEOREM NothingDangles == DriverSpec => []NoDangling
<1>1. DriverInv => NoDangling
  <2> SUFFICES ASSUME DriverInv PROVE NoDangling  OBVIOUS
  <2>1. \A o \in Shared : maps[o] > 0 /\ (o = "cursor64K" => pc # "freed") => ref[o] > 0
    BY LifecycleAssumption
       DEF DriverInv, LifeInv, TypeOK, Holders, Cursor64K, Property64K, One, Shared,
           Objects
  <2> QED  BY <2>1, Reachable DEF DriverInv, NoDangling
<1> QED  BY <1>1, DriverInductive, PTL

\* Until stop(), clients are served by a driver whose GPU was seen awake, with
\* its device open and a frame buffer (registerService against the exits of
\* start()).
THEOREM ServedWhenReady == DriverSpec => []ServesWhenReady
<1>1. DriverInv => ServesWhenReady
  BY ServedIsLive
     DEF DriverInv, LifeInv, Stages, ServesWhenReady, Live, Served, FirstMap, Locked
<1> QED  BY <1>1, DriverInductive, PTL

\* stop(), and a start() that cannot wake the GPU, end with the device closed.
THEOREM DeviceClosedAtEnd == DriverSpec => []ClosedAtEnd
<1>1. DriverInv => ClosedAtEnd
  BY DEF DriverInv, LifeInv, Holders, One, Stages, ClosedAtEnd
<1> QED  BY <1>1, DriverInductive, PTL

\* The mapping mmioBase points into is referenced as long as the driver runs,
\* although stop() releases one of the two, and enableController never gets to
\* an accessor without mmioMap.
THEOREM RegistersStayMapped == DriverSpec => []RegistersMapped
<1>1. DriverInv => RegistersMapped
  BY DEF DriverInv, LifeInv, TypeOK, Steps, Ended, Holders, One, Stages, Unmapped, FirstMap,
         Live, Served, RegistersMapped, Objects
<1> QED  BY <1>1, DriverInductive, PTL

\* No block allocated before stop() is freed twice, however many interrupt
\* registrations there are and whatever is registered after it.
THEOREM NothingFreedTwice == DriverSpec => []FreedOnce
<1>1. DriverInv => FreedOnce
  BY DEF DriverInv, ListInv, FreedOnce, Interrupts!FreedOnce, Interrupts!Blocks
<1> QED  BY <1>1, DriverInductive, PTL

\* Drawing, flushes and cursor images reach memory that is there.
THEOREM CallsReachMemory == DriverSpec => []ReachesMemory
<1>1. DriverInv => ReachesMemory  BY DEF DriverInv, ReachesMemory
<1> QED  BY <1>1, DriverInductive, PTL
=============================================================================
