------------------------------- MODULE XEClients -------------------------------
(***************************************************************************)
(* FakeIrisXEAccelDevice and the FakeIrisXESharedUserClients it makes:     *)
(* newUserClient with its failure exits, clientClose and clientDied, and   *)
(* the removal of the device, which may come between any two steps.        *)
(*                                                                         *)
(* A client's memory goes when its last reference does.  newUserClient     *)
(* has one, which becomes the task's handle; the registry has one while    *)
(* the client is attached.  Termination is IOKit's: terminate() marks the  *)
(* client, and a thread of IOKit's stops and detaches it later.            *)
(***************************************************************************)
EXTENDS Integers

CONSTANT Clients        \* the user clients asked for

VARIABLES
    device,      \* "matched", "failed", "up", "terminating" or "stopped"
    at,          \* where newUserClient is with a client, or what became of it
    ref,         \* references to each client
    attached,    \* clients in the device's list of clients
    terminated,  \* clients terminate() was called for
    handle,      \* clients a task has a handle of
    left         \* history: clients whose task closed the handle or died

vars == <<device, at, ref, attached, terminated, handle, left>>

ClientsTypeOK ==
    /\ device \in {"matched", "failed", "up", "terminating", "stopped"}
    /\ at \in [Clients -> {"none", "init", "attach", "start", "open", "refused"}]
    /\ ref \in [Clients -> 0..2]
    /\ attached \subseteq Clients /\ terminated \subseteq Clients
    /\ handle \subseteq Clients /\ left \subseteq Clients

Init ==
    /\ device = "matched"
    /\ at = [c \in Clients |-> "none"] /\ ref = [c \in Clients |-> 0]
    /\ attached = {} /\ terminated = {} /\ handle = {} /\ left = {}

Goto(c, place) == at' = [at EXCEPT ![c] = place]
Retain(c) == ref' = [ref EXCEPT ![c] = @ + 1]
Release(c) == ref' = [ref EXCEPT ![c] = @ - 1]
-----------------------------------------------------------------------------
\* FakeIrisXEAccelDevice::start: super fails, the provider is not our
\* framebuffer, or the device is registered and clients may come.
StartDevice ==
    /\ device = "matched" /\ device' \in {"up", "failed"}
    /\ UNCHANGED <<at, ref, attached, terminated, handle, left>>

(* newUserClient, on the thread of the task that asks.                     *)

\* OSTypeAlloc; no memory is an answer of its own.
Allocate(c) ==
    /\ at[c] = "none" /\ device = "up"
    /\ \/ Goto(c, "init") /\ Retain(c)
       \/ Goto(c, "refused") /\ UNCHANGED ref
    /\ UNCHANGED <<device, attached, terminated, handle, left>>

InitWithTask(c) ==
    /\ at[c] = "init"
    /\ \/ Goto(c, "attach") /\ UNCHANGED ref
       \/ Goto(c, "refused") /\ Release(c)
    /\ UNCHANGED <<device, attached, terminated, handle, left>>

\* attach() refuses a provider that is being removed.
AttachClient(c) ==
    /\ at[c] = "attach"
    /\ \/ /\ device = "up" /\ Goto(c, "start") /\ Retain(c)
          /\ attached' = attached \cup {c}
       \/ Goto(c, "refused") /\ Release(c) /\ UNCHANGED attached
    /\ UNCHANGED <<device, terminated, handle, left>>

\* Mutation: the exit of a failed start() releases the client and leaves it
\* attached.
StartNoDetach(c) ==
    /\ at[c] = "start"
    /\ \/ Goto(c, "open") /\ handle' = handle \cup {c} /\ UNCHANGED <<ref, attached>>
       \/ Goto(c, "refused") /\ Release(c) /\ UNCHANGED <<handle, attached>>
    /\ UNCHANGED <<device, terminated, left>>

\* Mutation: the client is released once more.
StartReleasesTwice(c) ==
    /\ at[c] = "start"
    /\ \/ Goto(c, "open") /\ handle' = handle \cup {c} /\ UNCHANGED <<ref, attached>>
       \/ /\ Goto(c, "refused") /\ attached' = attached \ {c}
          /\ ref' = [ref EXCEPT ![c] = @ - 3] /\ UNCHANGED handle
    /\ UNCHANGED <<device, terminated, left>>

\* start() fails in super or when the provider is of another class; detach()
\* takes the registry's reference back and release() the other.
StartClient(c) ==
    /\ at[c] = "start"
    /\ \/ Goto(c, "open") /\ handle' = handle \cup {c} /\ UNCHANGED <<ref, attached>>
       \/ /\ Goto(c, "refused") /\ attached' = attached \ {c}
          /\ ref' = [ref EXCEPT ![c] = @ - 2] /\ UNCHANGED handle
    /\ UNCHANGED <<device, terminated, left>>
-----------------------------------------------------------------------------
(* The task, and IOKit.                                                    *)

\* Mutation: clientClose only says success.
CloseSaysSuccess(c) ==
    /\ c \in handle
    /\ handle' = handle \ {c} /\ left' = left \cup {c}
    /\ Release(c)
    /\ UNCHANGED <<device, at, attached, terminated>>

\* The task closes its handle (clientClose) or dies (clientDied, which calls
\* clientClose): terminate(), and IOKit drops the handle's reference.
Close(c) ==
    /\ c \in handle
    /\ terminated' = terminated \cup {c}
    /\ handle' = handle \ {c} /\ left' = left \cup {c}
    /\ Release(c)
    /\ UNCHANGED <<device, at, attached>>

\* stop(), and the client is detached from the device.
StopClient(c) ==
    /\ c \in terminated \cap attached /\ at[c] = "open"
    /\ attached' = attached \ {c}
    /\ Release(c)
    /\ UNCHANGED <<device, at, terminated, handle, left>>

\* The framebuffer goes away: the device and its clients are terminated.
TerminateDevice ==
    /\ device = "up" /\ device' = "terminating"
    /\ terminated' = terminated \cup attached
    /\ UNCHANGED <<at, ref, attached, handle, left>>

\* FakeIrisXEAccelDevice::stop, when the last client has gone.
StopDevice ==
    /\ device = "terminating" /\ attached = {}
    /\ device' = "stopped"
    /\ UNCHANGED <<at, ref, attached, terminated, handle, left>>

newUserClient(c) == Allocate(c) \/ InitWithTask(c) \/ AttachClient(c) \/ StartClient(c)

Next ==
    \/ \E c \in Clients : newUserClient(c) \/ Close(c) \/ StopClient(c)
    \/ StartDevice \/ TerminateDevice \/ StopDevice

Spec == Init /\ [][Next]_vars

\* A call that has begun goes on, and IOKit's termination thread runs; nobody
\* need ask for a client, close one or remove the device.
FairSpec ==
    /\ Spec /\ WF_vars(StopDevice)
    /\ \A c \in Clients :
        /\ WF_vars(InitWithTask(c) \/ AttachClient(c) \/ StartClient(c))
        /\ WF_vars(StopClient(c))
-----------------------------------------------------------------------------
(* Properties.                                                             *)

\* A client has exactly the references of its holders: newUserClient until it
\* answers, then the task's handle, and the registry while it is attached.
\* So a client that was refused, at whichever exit and with the device going
\* away meanwhile, leaves nothing behind.
ReferencesHeld ==
    \A c \in Clients :
        /\ ref[c] = (IF at[c] \in {"init", "attach", "start"} \/ c \in handle
                     THEN 1 ELSE 0)
                  + (IF c \in attached THEN 1 ELSE 0)
        /\ at[c] = "refused" => ref[c] = 0

\* A client whose task has closed it or died goes away, and so does one whose
\* device is removed once its task lets go of it; a device that is being
\* removed gets to its stop(), which waits for all of its clients.
ClosedGoesAway ==
    /\ \A c \in Clients : c \in left ~> ref[c] = 0
    /\ device = "terminating" ~> device = "stopped"
=============================================================================
