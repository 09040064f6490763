------------------------------ MODULE Discovery ------------------------------
(***************************************************************************)
(* Camera discovery: the DiscoveryRegistration of vmb-core (discovery.rs), *)
(* the two registries of the FFI adapter and the context it hands to the   *)
(* SDK (runtime.rs), and the SDK threads that run discovery_trampoline     *)
(* (trampoline.rs) while the program registers and drops.                  *)
(*                                                                         *)
(* A registration is a process from install_discovery_callback to the end  *)
(* of Drop.  A context has the life of one registration and is named by    *)
(* the ID of the closure it holds.                                         *)
(*                                                                         *)
(* The SDK is external.  An event changes the two features that describe   *)
(* it and calls every listening context; nothing holds it back while the   *)
(* callbacks of earlier events are reading them.                           *)
(* VmbFeatureInvalidationUnregister is given the handle, the feature and   *)
(* the function but no context, the same for all registrations, so the SDK *)
(* cannot tell which one is meant: it stops one or more of them and waits  *)
(* for their callbacks.                                                    *)
(***************************************************************************)
EXTENDS Naturals, Sequences, FiniteSets

CONSTANTS
  Regs,        \* the DiscoveryRegistration objects of the program
  CameraIds,   \* the strings EventCameraDiscoveryCameraID takes
  Kinds,       \* the type strings the trampoline knows
  Unknown,     \* a type string it does not know
  Events,      \* the events that may occur, camera and type
  Faults,      \* the SDK calls that may fail
  MaxId,       \* bound: no closure is installed beyond this ID
  MaxCalls     \* bound: so many trampolines are in progress at once

FaultKinds == {"register", "unregister", "readid", "readtype"}

ASSUME DiscoveryAssumption ==
  /\ Faults \subseteq FaultKinds
  /\ Unknown \notin Kinds
  /\ Events \subseteq CameraIds \X (Kinds \cup {Unknown})
  /\ MaxId \in Nat /\ MaxCalls \in Nat

VARIABLES
  \* The threads that own registrations.
  pc,            \* where each registration stands
  callbackId,    \* DiscoveryRegistration.callback_id
  handle,        \* DiscoveryRegistration.handle
  stopped,       \* the contexts whose callbacks the unregister call waits for
  \* FfiState.
  counter,       \* FfiState.counter
  callbacks,     \* the keys of FfiState.discovery_callbacks
  regs,          \* FfiState.discovery_regs: handle -> the context of ctx_ptr
  contexts,      \* the boxed DiscoveryTrampolineCtx not yet reclaimed
  \* The SDK and its threads.
  listening,     \* the contexts the SDK calls on an event
  feature,       \* the event the two features describe
  calls,         \* the trampolines in progress
  events,        \* auxiliary: the events since each that is still being handled
  \* What the program keeps to and the SDK grants, which no code enforces.
  single,        \* TRUE: no registration begins before the last one's drop returned
  reliable       \* TRUE: VmbFeatureInvalidationUnregister finds what it is to stop

regVars == <<pc, callbackId, handle, stopped>>
ffiVars == <<counter, callbacks, regs, contexts>>
sdkVars == <<listening, feature, calls, events>>
vars == <<regVars, ffiVars, sdkVars>>
setting == <<single, reliable>>

-----------------------------------------------------------------------------
(* Helpers. *)

\* "register" and "insert" are inside register_discovery, before and after the
\* SDK call; "undo" is its error path; the rest is Drop.
PCs == {"none", "register", "insert", "undo", "live",
        "unregister", "draining", "reclaim", "uninstall"}

\* The places where the context of a registration is allocated.
Holding == {"insert", "live", "unregister", "draining", "reclaim"}

\* A trampoline in progress: its context, the number of the event it was called
\* for, and what it has read so far of <<camera id, type>>; with both it is in the
\* handler.  An event has a number of its own while any trampoline called for it is
\* in progress, and events[n] is what the features have described since event n, that
\* one included.
Call(k, n, s) == [ctx |-> k, no |-> n, seen |-> s]

Numbers == {c.no : c \in calls}

Seen == {<<>>} \cup {<<i>> : i \in CameraIds} \cup (CameraIds \X Kinds)

MayFail(k) == k \in Faults

Goto(r, place) == pc' = [pc EXCEPT ![r] = place]

Busy(K) == {c \in calls : c.ctx \in K}

-----------------------------------------------------------------------------
(* The actions with one plausible slip each, see the properties below. *)

\* IDs from 0.
InitFfiFromZero ==
  /\ counter = 0
  /\ callbacks = {} /\ regs = [h \in {} |-> 0] /\ contexts = {}

\* The error path of register_discovery keeps the box.
RegisterLeaks(r) ==
  /\ pc[r] = "register"
  /\ MayFail("register")
  /\ contexts' = contexts \cup {callbackId[r]}
  /\ Goto(r, "undo")
  /\ UNCHANGED <<callbackId, handle, stopped, counter, callbacks, regs, sdkVars>>

\* The context is reclaimed without waiting for its callbacks.
UnregisterNoWait(r) ==
  /\ pc[r] = "unregister"
  /\ listening' = listening \ {callbackId[r]}
  /\ Goto(r, "reclaim")
  /\ UNCHANGED <<callbackId, handle, stopped, ffiVars, feature, calls, events>>

\* Drop uninstalls the closure only.
DropWithoutUnregister(r) ==
  /\ pc[r] = "live"
  /\ Goto(r, "uninstall")
  /\ UNCHANGED <<callbackId, handle, stopped, ffiVars, sdkVars>>

\* A failed VmbFeatureInvalidationRegister is taken for a success.
RegisterUnchecked(r) ==
  /\ pc[r] = "register"
  /\ MayFail("register")
  /\ contexts' = contexts \cup {callbackId[r]}
  /\ Goto(r, "insert")
  /\ UNCHANGED <<callbackId, handle, stopped, counter, callbacks, regs, sdkVars>>

\* An unknown type is reported as one of the known ones.
ReadUnknownType(c) ==
  /\ Len(c.seen) = 1
  /\ feature[2] = Unknown
  /\ \E k \in Kinds : calls' = (calls \ {c}) \cup {Call(c.ctx, c.no, <<c.seen[1], k>>)}
  /\ UNCHANGED <<regVars, ffiVars, listening, feature, events>>

\* The SDK is asked to stop while the callbacks it waits for keep being called.
UnregisterListening(r) ==
  /\ pc[r] = "unregister"
  /\ stopped' = [stopped EXCEPT ![r] = {callbackId[r]}]
  /\ Goto(r, "draining")
  /\ UNCHANGED <<callbackId, handle, ffiVars, sdkVars>>

-----------------------------------------------------------------------------
InitRegs ==
  /\ pc = [r \in Regs |-> "none"]
  /\ callbackId = [r \in Regs |-> 0]
  /\ handle = [r \in Regs |-> 0]
  /\ stopped = [r \in Regs |-> {}]

InitFfi ==
  /\ counter = 1
  /\ callbacks = {} /\ regs = [h \in {} |-> 0] /\ contexts = {}

InitSdk ==
  /\ listening = {} /\ calls = {} /\ events = [n \in {} |-> {}]
  /\ feature \in Events
  /\ single \in BOOLEAN /\ reliable \in BOOLEAN

Init == InitRegs /\ InitFfi /\ InitSdk

-----------------------------------------------------------------------------
(* register_camera_discovery. *)

\* install_discovery_callback.
Install(r) ==
  /\ pc[r] = "none"
  /\ single => \A q \in Regs : pc[q] = "none"
  /\ counter <= MaxId
  /\ callbackId' = [callbackId EXCEPT ![r] = counter]
  /\ callbacks' = callbacks \cup {counter}
  /\ counter' = counter + 1
  /\ Goto(r, "register")
  /\ UNCHANGED <<handle, stopped, regs, contexts, sdkVars>>

\* The context is boxed and handed to the SDK, which may call it at once.
Register(r) ==
  /\ pc[r] = "register"
  /\ callbackId[r] \in callbacks
  /\ contexts' = contexts \cup {callbackId[r]}
  /\ listening' = listening \cup {callbackId[r]}
  /\ Goto(r, "insert")
  /\ UNCHANGED <<callbackId, handle, stopped, counter, callbacks, regs, feature, calls, events>>

\* VmbFeatureInvalidationRegister fails and the box is dropped.
RegisterFails(r) ==
  /\ pc[r] = "register"
  /\ MayFail("register") \/ callbackId[r] \notin callbacks
  /\ Goto(r, "undo")
  /\ UNCHANGED <<callbackId, handle, stopped, ffiVars, sdkVars>>

\* The registration gets its handle.
Insert(r) ==
  /\ pc[r] = "insert"
  /\ handle' = [handle EXCEPT ![r] = counter]
  /\ regs' = [h \in DOMAIN regs \cup {counter} |->
                IF h = counter THEN callbackId[r] ELSE regs[h]]
  /\ counter' = counter + 1
  /\ Goto(r, "live")
  /\ UNCHANGED <<callbackId, stopped, callbacks, contexts, sdkVars>>

\* uninstall_discovery_callback on the error path; the error is returned.
Undo(r) ==
  /\ pc[r] = "undo"
  /\ callbacks' = callbacks \ {callbackId[r]}
  /\ callbackId' = [callbackId EXCEPT ![r] = 0]
  /\ Goto(r, "none")
  /\ UNCHANGED <<handle, stopped, counter, regs, contexts, sdkVars>>

-----------------------------------------------------------------------------
(* Drop for DiscoveryRegistration. *)

\* unregister_discovery takes the registration out of FfiState.discovery_regs,
\* and returns at once when it is not there.
DropRegistration(r) ==
  /\ pc[r] = "live"
  /\ regs' = [h \in DOMAIN regs \ {handle[r]} |-> regs[h]]
  /\ Goto(r, IF handle[r] \in DOMAIN regs THEN "unregister" ELSE "uninstall")
  /\ UNCHANGED <<callbackId, handle, stopped, counter, callbacks, contexts, sdkVars>>

\* VmbFeatureInvalidationUnregister: one or more listeners are called no more ...
Unregister(r) ==
  /\ pc[r] = "unregister"
  /\ \E K \in (SUBSET listening) \ {{}} :
       /\ listening' = listening \ K
       /\ stopped' = [stopped EXCEPT ![r] = K]
  /\ Goto(r, "draining")
  /\ UNCHANGED <<callbackId, handle, ffiVars, feature, calls, events>>

\* ... and it returns when their callbacks have.
Unregistered(r) ==
  /\ pc[r] = "draining"
  /\ Busy(stopped[r]) = {}
  /\ stopped' = [stopped EXCEPT ![r] = {}]
  /\ Goto(r, "reclaim")
  /\ UNCHANGED <<callbackId, handle, ffiVars, sdkVars>>

\* It fails, or finds no listener; its return code is ignored.
UnregisterFails(r) ==
  /\ pc[r] = "unregister"
  /\ (MayFail("unregister") /\ ~reliable) \/ listening = {}
  /\ Goto(r, "reclaim")
  /\ UNCHANGED <<callbackId, handle, stopped, ffiVars, sdkVars>>

\* The box is reclaimed all the same.
Reclaim(r) ==
  /\ pc[r] = "reclaim"
  /\ contexts' = contexts \ {callbackId[r]}
  /\ Goto(r, "uninstall")
  /\ UNCHANGED <<callbackId, handle, stopped, counter, callbacks, regs, sdkVars>>

Uninstall(r) ==
  /\ pc[r] = "uninstall"
  /\ callbacks' = callbacks \ {callbackId[r]}
  /\ callbackId' = [callbackId EXCEPT ![r] = 0]
  /\ handle' = [handle EXCEPT ![r] = 0]
  /\ Goto(r, "none")
  /\ UNCHANGED <<stopped, counter, regs, contexts, sdkVars>>

-----------------------------------------------------------------------------
(* The SDK: an event, and the trampolines it starts. *)

Event(e) ==
  /\ listening # {}
  /\ \E n \in 1 .. MaxCalls :
       /\ n \notin Numbers
       /\ calls' = calls \cup {Call(k, n, <<>>) : k \in listening}
       /\ events' = [m \in Numbers \cup {n} |-> IF m = n THEN {e} ELSE events[m] \cup {e}]
  /\ Cardinality(calls') <= MaxCalls
  /\ feature' = e
  /\ UNCHANGED <<regVars, ffiVars, listening>>

\* read_string_feature(EventCameraDiscoveryCameraID).
ReadId(c) ==
  /\ Len(c.seen) = 0
  /\ calls' = (calls \ {c}) \cup {Call(c.ctx, c.no, <<feature[1]>>)}
  /\ UNCHANGED <<regVars, ffiVars, listening, feature, events>>

\* read_enum_feature(EventCameraDiscoveryType) names an event: the closure of the
\* context is invoked with it.
ReadType(c) ==
  /\ Len(c.seen) = 1
  /\ feature[2] \in Kinds
  /\ calls' = (calls \ {c}) \cup {Call(c.ctx, c.no, <<c.seen[1], feature[2]>>)}
  /\ UNCHANGED <<regVars, ffiVars, listening, feature, events>>

\* A trampoline returns to the SDK.
Returns(c) ==
  /\ calls' = calls \ {c}
  /\ events' = [n \in Numbers' |-> events[n]]
  /\ UNCHANGED <<regVars, ffiVars, listening, feature>>

\* A read fails, or the type is unknown: the event is dropped with a warning.
Ignore(c) ==
  /\ \/ Len(c.seen) = 0 /\ MayFail("readid")
     \/ Len(c.seen) = 1 /\ MayFail("readtype")
  /\ Returns(c)

IgnoreUnknown(c) ==
  /\ Len(c.seen) = 1
  /\ feature[2] \notin Kinds
  /\ Returns(c)

\* The closure returns, or panics and is caught.
HandlerReturns(c) ==
  /\ Len(c.seen) = 2
  /\ Returns(c)

-----------------------------------------------------------------------------
\* The steps a thread takes by itself inside register_discovery or Drop.
RegStep(r) ==
  \/ Register(r) \/ RegisterFails(r) \/ Insert(r) \/ Undo(r)
  \/ Unregister(r) \/ Unregistered(r) \/ UnregisterFails(r)
  \/ Reclaim(r) \/ Uninstall(r)

TrampolineStep(c) ==
  ReadId(c) \/ ReadType(c) \/ Ignore(c) \/ IgnoreUnknown(c) \/ HandlerReturns(c)

Step ==
  \/ \E r \in Regs : Install(r) \/ DropRegistration(r) \/ RegStep(r)
  \/ \E e \in Events : Event(e)
  \/ \E c \in calls : TrampolineStep(c)

Next == Step /\ UNCHANGED setting

Spec == Init /\ [][Next]_<<vars, setting>>

\* Threads inside a call and trampolines keep running, which supposes handlers
\* that return and that do not drop their own registration.
Fairness ==
  /\ \A r \in Regs : WF_vars(RegStep(r))
  /\ \A k \in 1 .. MaxId : WF_vars(\E c \in Busy({k}) : TrampolineStep(c))

FairSpec == Spec /\ Fairness

-----------------------------------------------------------------------------
(* Properties. *)

\* Every variable has its type.
RegTypeOK ==
  /\ pc \in [Regs -> PCs]
  /\ callbackId \in [Regs -> Nat] /\ handle \in [Regs -> Nat]
  /\ stopped \in [Regs -> SUBSET Nat]

FfiTypeOK ==
  /\ counter \in Nat \ {0}
  /\ callbacks \subseteq Nat /\ contexts \subseteq Nat
  /\ DOMAIN regs \subseteq Nat /\ regs \in [DOMAIN regs -> Nat]

SdkTypeOK ==
  /\ listening \subseteq Nat
  /\ feature \in Events
  /\ calls \subseteq [ctx : Nat, no : Nat, seen : Seen]
  /\ events \in [Numbers -> SUBSET Events]

TypeOK ==
  /\ RegTypeOK /\ FfiTypeOK /\ SdkTypeOK
  /\ single \in BOOLEAN /\ reliable \in BOOLEAN

\* The setting in which the unregister call stops the one registration it is for.
Exact == single /\ reliable

\* Then a context the SDK may still call, or is calling, is not reclaimed: "it is
\* still live here", as the trampoline says of its user_context.
ContextsLive == Exact => listening \cup {c.ctx : c \in calls} \subseteq contexts

\* The registries hold what live registrations need and nothing else, after any
\* failure, and every boxed context belongs to a registration that will reclaim it:
\* the error path of register_discovery and Drop leave none behind.
RegistriesExact ==
  /\ callbacks = {callbackId[r] : r \in {q \in Regs : pc[q] # "none"}}
  /\ DOMAIN regs = {handle[r] : r \in {q \in Regs : pc[q] = "live"}}
  /\ \A r \in Regs : pc[r] = "live" => regs[handle[r]] = callbackId[r]
  /\ contexts = {callbackId[r] : r \in {q \in Regs : pc[q] \in Holding}}

\* Then a live registration is called on every event: nothing but its own drop ends
\* the subscription.
LiveIsListening == Exact => \A r \in Regs : pc[r] = "live" => callbackId[r] \in listening

\* What a handler is told is a camera and a kind that events have named, neither of
\* them before the event its trampoline was called for: that event, unless others came
\* before the trampoline had read both, in which case the two may be of different ones.
\* A kind the wrapper cannot name is dropped, not guessed.
EventsReal ==
  \A c \in calls : Len(c.seen) = 2 =>
    \E d \in events[c.no], e \in events[c.no] : c.seen = <<d[1], e[2]>>

\* Registering and dropping return, whatever events keep coming.
CallsReturn ==
  \A r \in Regs : pc[r] \notin {"none", "live"} ~> pc[r] \in {"none", "live"}

-----------------------------------------------------------------------------
(* What the program sees of all this. *)

Phase(r) ==
  CASE pc[r] \in {"register", "insert"} -> "registering"
    [] pc[r] = "undo" -> "failing"
    [] pc[r] \in {"none", "live"} -> pc[r]
    [] OTHER -> "dropping"

Handling(r) == {c.seen : c \in {d \in Busy({callbackId[r]}) : Len(d.seen) = 2}}

Contract == INSTANCE DiscoveryContract WITH
  Events <- CameraIds \X Kinds,
  phase <- [r \in Regs |-> Phase(r)],
  running <- [r \in Regs |-> IF Exact THEN Handling(r) ELSE {}]

\* The domain, the adapter and the SDK threads together keep the promise of a
\* registration, with a drop that waits for its handlers: what is said of handlers
\* holds in that setting, what is said of the calls always.
ContractSpec == Contract!Spec
=============================================================================
