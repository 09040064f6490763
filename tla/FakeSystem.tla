----------------------------- MODULE FakeSystem ------------------------------
(***************************************************************************)
(* VmbSystem and DiscoveryRegistration of vmb-core (system.rs,             *)
(* discovery.rs) over the in-memory runtime of vmb-fake (lib.rs), and      *)
(* emit_discovery, by which a test plays the part of the SDK.              *)
(*                                                                         *)
(* Several systems may share one fake, by cloning it.  A port call is one  *)
(* action: it takes one lock after it has consulted the failures, which    *)
(* are a choice here (FakeRuntime has how they are rigged).                *)
(* emit_discovery copies the closures that are installed and calls the     *)
(* copies without a lock, so it is one step for the copy and two for each  *)
(* handler.                                                                *)
(***************************************************************************)
EXTENDS Naturals

CONSTANTS
  Systems,   \* the VmbSystem objects of the test
  Regs,      \* its DiscoveryRegistration objects
  Emitters,  \* its threads that call emit_discovery
  Events,    \* the events it emits
  Faults,    \* the methods it makes fail, of FaultKinds
  MaxId      \* bound: no registration is started beyond this ID

FaultKinds == {"startup", "register"}

ASSUME FakeSystemAssumption ==
  /\ Faults \subseteq FaultKinds
  /\ MaxId \in Nat

VARIABLES
  quiet,       \* TRUE: no registration begins or ends while handlers are called
  live,        \* the systems that have started and are not dropped
  pc,          \* where each registration stands
  callbackId,  \* its closure, and when it is gone, as history, the last it had
  handle,      \* its registration handle
  started,     \* State.started
  counter,     \* State.counter
  callbacks,   \* the keys of State.discovery_callbacks
  regs,        \* State.discovery_regs: handle -> closure
  emission     \* per emitter: {} or the one call of emit_discovery in progress

regVars == <<pc, callbackId, handle>>
stateVars == <<started, counter, callbacks, regs>>
vars == <<live, regVars, stateVars, emission>>

PCs == {"none", "register", "undo", "live", "uninstall"}

Goto(r, place) == pc' = [pc EXCEPT ![r] = place]

\* A call of emit_discovery: the closures it has copied and not called yet, the one it
\* is in, and, as history, those it has called and the value of the counter when it
\* made the copy.
Emission(event, left, current, told, mark) ==
  [event |-> event, left |-> left, current |-> current, told |-> told, mark |-> mark]

\* With one thread a test emits between two calls of its registrations, and they are
\* left alone by its handlers.
MayStep == quiet => \A t \in Emitters : emission[t] = {}
MayEmit == quiet => \A r \in Regs : pc[r] \in {"none", "live"}

-----------------------------------------------------------------------------
(* The actions with one plausible slip each, see the properties below. *)

\* startup consults the failures when it has taken the flag.
StartupLate(s) ==
  /\ s \notin live /\ "startup" \in Faults /\ ~started
  /\ started' = TRUE
  /\ UNCHANGED <<live, regVars, counter, callbacks, regs, emission>>

\* The closure is kept.
UninstallForgotten(r) ==
  /\ pc[r] \in {"undo", "uninstall"} /\ MayStep
  /\ Goto(r, "none")
  /\ UNCHANGED <<live, callbackId, handle, stateVars, emission>>

\* emit_discovery calls one closure only.
InvokeOne(t) ==
  \E m \in emission[t] : \E k \in m.left :
    /\ m.current = {}
    /\ emission' = [emission EXCEPT ![t] = {Emission(m.event, {}, {k}, m.told, m.mark)}]
    /\ UNCHANGED <<live, regVars, stateVars>>

-----------------------------------------------------------------------------
Init ==
  /\ quiet \in BOOLEAN
  /\ live = {}
  /\ pc = [r \in Regs |-> "none"]
  /\ callbackId = [r \in Regs |-> 0] /\ handle = [r \in Regs |-> 0]
  /\ started = FALSE /\ counter = 1
  /\ callbacks = {} /\ regs = [h \in {} |-> 0]
  /\ emission = [t \in Emitters |-> {}]

-----------------------------------------------------------------------------
(* VmbSystem::startup and Drop. *)

Startup(s) ==
  /\ s \notin live /\ ~started
  /\ started' = TRUE
  /\ live' = live \cup {s}
  /\ UNCHANGED <<regVars, counter, callbacks, regs, emission>>

\* It is made to fail, or answers AlreadyStarted: there is no system to drop.
StartupFails(s) ==
  /\ s \notin live
  /\ "startup" \in Faults \/ started
  /\ UNCHANGED vars

DropSystem(s) ==
  /\ s \in live
  /\ started' = FALSE
  /\ live' = live \ {s}
  /\ UNCHANGED <<regVars, counter, callbacks, regs, emission>>

-----------------------------------------------------------------------------
(* register_camera_discovery and Drop for DiscoveryRegistration. *)

\* install_discovery_callback, for a registration on a system that is alive.
Install(r) ==
  /\ pc[r] = "none" /\ live # {} /\ MayStep
  /\ counter <= MaxId
  /\ callbackId' = [callbackId EXCEPT ![r] = counter]
  /\ callbacks' = callbacks \cup {counter}
  /\ counter' = counter + 1
  /\ Goto(r, "register")
  /\ UNCHANGED <<live, handle, started, regs, emission>>

Register(r) ==
  /\ pc[r] = "register" /\ MayStep
  /\ handle' = [handle EXCEPT ![r] = counter]
  /\ regs' = [h \in DOMAIN regs \cup {counter} |->
                IF h = counter THEN callbackId[r] ELSE regs[h]]
  /\ counter' = counter + 1
  /\ Goto(r, "live")
  /\ UNCHANGED <<live, callbackId, started, callbacks, emission>>

RegisterFails(r) ==
  /\ pc[r] = "register" /\ MayStep
  /\ "register" \in Faults
  /\ Goto(r, "undo")
  /\ UNCHANGED <<live, callbackId, handle, stateVars, emission>>

\* unregister_discovery, the first call of drop.
DropRegistration(r) ==
  /\ pc[r] = "live" /\ MayStep
  /\ regs' = [h \in DOMAIN regs \ {handle[r]} |-> regs[h]]
  /\ Goto(r, "uninstall")
  /\ UNCHANGED <<live, callbackId, handle, started, counter, callbacks, emission>>

\* uninstall_discovery_callback, the last call of drop and of a registration that failed.
Uninstall(r) ==
  /\ pc[r] \in {"undo", "uninstall"} /\ MayStep
  /\ callbacks' = callbacks \ {callbackId[r]}
  /\ Goto(r, "none")
  /\ UNCHANGED <<live, callbackId, handle, started, counter, regs, emission>>

-----------------------------------------------------------------------------
(* emit_discovery. *)

\* The installed closures are copied, whether or not the system is started.
Emit(t, event) ==
  /\ emission[t] = {} /\ MayEmit
  /\ emission' = [emission EXCEPT ![t] = {Emission(event, callbacks, {}, {}, counter)}]
  /\ UNCHANGED <<live, regVars, stateVars>>

\* They are called one after the other, in no known order.
Invoke(t) ==
  \E m \in emission[t] : \E k \in m.left :
    /\ m.current = {}
    /\ emission' =
         [emission EXCEPT ![t] = {Emission(m.event, m.left \ {k}, {k}, m.told, m.mark)}]
    /\ UNCHANGED <<live, regVars, stateVars>>

HandlerReturns(t) ==
  \E m \in emission[t] :
    /\ m.current # {}
    /\ emission' =
         [emission EXCEPT ![t] = {Emission(m.event, m.left, {}, m.told \cup m.current, m.mark)}]
    /\ UNCHANGED <<live, regVars, stateVars>>

\* A handler that panics unwinds through emit_discovery: the others are not called.
HandlerPanics(t) ==
  /\ \E m \in emission[t] : m.current # {}
  /\ emission' = [emission EXCEPT ![t] = {}]
  /\ UNCHANGED <<live, regVars, stateVars>>

EmitReturns(t) ==
  /\ \E m \in emission[t] : m.left = {} /\ m.current = {}
  /\ emission' = [emission EXCEPT ![t] = {}]
  /\ UNCHANGED <<live, regVars, stateVars>>

-----------------------------------------------------------------------------
SystemStep(s) == Startup(s) \/ StartupFails(s) \/ DropSystem(s)

RegStep(r) ==
  Install(r) \/ Register(r) \/ RegisterFails(r) \/ DropRegistration(r) \/ Uninstall(r)

EmitterStep(t) ==
  \/ \E event \in Events : Emit(t, event)
  \/ Invoke(t) \/ HandlerReturns(t) \/ HandlerPanics(t) \/ EmitReturns(t)

Next ==
  /\ \/ \E s \in Systems : SystemStep(s)
     \/ \E r \in Regs : RegStep(r)
     \/ \E t \in Emitters : EmitterStep(t)
  /\ UNCHANGED quiet

Spec == Init /\ [][Next]_<<vars, quiet>>

-----------------------------------------------------------------------------
(* Properties. *)

\* Every variable has its type.
TypeOK ==
  /\ quiet \in BOOLEAN
  /\ live \subseteq Systems
  /\ pc \in [Regs -> PCs]
  /\ callbackId \in [Regs -> Nat] /\ handle \in [Regs -> Nat]
  /\ started \in BOOLEAN
  /\ counter \in Nat \ {0}
  /\ callbacks \subseteq Nat
  /\ DOMAIN regs \subseteq Nat /\ regs \in [DOMAIN regs -> Nat]
  /\ emission \in
       [Emitters -> SUBSET [event : Events, left : SUBSET Nat, current : SUBSET Nat,
                            told : SUBSET Nat, mark : Nat]]

\* The fake is started exactly while one VmbSystem lives, through any failure and any
\* number of clones, and its discovery tables hold what the registrations alive need
\* and nothing else.
TablesExact ==
  /\ started <=> live # {}
  /\ \A s, t \in live : s = t
  /\ callbacks = {callbackId[r] : r \in {q \in Regs : pc[q] # "none"}}
  /\ DOMAIN regs = {handle[r] : r \in {q \in Regs : pc[q] = "live"}}
  /\ \A r \in Regs : pc[r] = "live" => regs[handle[r]] = callbackId[r]

\* "Drive every registered discovery callback with event" (emit_discovery): as long as
\* no handler panics, a registration that was live when the call began and still is
\* has been told, is being told or is going to be, each once, and at the end all have
\* been, whoever registers, drops and emits in the meantime.
EmissionReaches ==
  \A t \in Emitters : \A m \in emission[t] :
    /\ \A r \in Regs : pc[r] = "live" /\ handle[r] < m.mark =>
         callbackId[r] \in m.left \cup m.current \cup m.told
    /\ m.told \cap (m.left \cup m.current) = {} /\ m.left \cap m.current = {}

\* What the program sees: the contract the FFI adapter keeps as well.
Phase(r) ==
  CASE pc[r] = "register"  -> "registering"
    [] pc[r] = "undo"      -> "failing"
    [] pc[r] = "uninstall" -> "dropping"
    [] OTHER               -> pc[r]

Telling(r) ==
  {m.event : m \in {n \in UNION {emission[t] : t \in Emitters} : callbackId[r] \in n.current}}

Contract == INSTANCE DiscoveryContract WITH
  phase <- [r \in Regs |-> Phase(r)],
  running <- [r \in Regs |-> IF quiet THEN Telling(r) ELSE {}]

\* A registration over the fake keeps the promise it keeps over the adapter.  What is
\* said of handlers holds in a quiet test: else emit_discovery may call the closure of
\* a registration dropped since it made its copy.
ContractSpec == Contract!Spec
=============================================================================
