-------------------------- MODULE RuntimeLifecycle --------------------------
(***************************************************************************)
(* The lifecycle of the process-wide SDK: VmbSystem (system.rs) starts it  *)
(* and its Drop shuts it down, guarded in the FFI adapter by the global    *)
(* flag STARTED (state.rs, runtime.rs), and the Camera objects opened      *)
(* through a VmbSystem hold raw SDK handles that a shutdown invalidates.   *)
(*                                                                         *)
(* A member of Systems is a thread that builds and drops VmbSystem values, *)
(* one after the other.  The flag is changed by one atomic instruction and *)
(* the SDK called by another step, so two threads interleave between them. *)
(* A Camera is an RAII object of its own: it holds an Arc of the runtime,  *)
(* nothing of the VmbSystem, and may be dropped before or after it.        *)
(*                                                                         *)
(* The SDK is external: it is up or down, VmbShutdown closes every camera, *)
(* and a raw handle closed once may be given to the next camera.           *)
(***************************************************************************)
EXTENDS Naturals, FiniteSets

CONSTANTS
  Systems,      \* the threads that start and drop VmbSystem values
  Cameras,      \* the Camera objects of the program
  RawHandles,   \* the values a VmbHandle_t takes
  NoRaw,        \* the null handle
  Faults,       \* "startup": VmbStartup may fail
  MaxId         \* bound: no camera is opened beyond this ID

ASSUME LifecycleAssumption ==
  /\ Faults \subseteq {"startup"}
  /\ MaxId \in Nat
  /\ NoRaw \notin RawHandles

VARIABLES
  pc,        \* where each thread stands
  started,   \* the static STARTED
  sdkUp,     \* the SDK runs
  sdkOpen,   \* the raw handles of open cameras -> the Camera that opened them
  counter,   \* FfiState.counter
  cameras,   \* FfiState.cameras: opaque handle -> raw handle
  place,     \* where each Camera stands
  handle,    \* Camera.handle
  via,       \* the thread whose VmbSystem opened the Camera
  raw,       \* the raw handle close_camera has taken out of FfiState.cameras
  \* What the program keeps to, which no code enforces.
  ordered,   \* TRUE: no VmbSystem::startup while a drop is in progress
  nested     \* TRUE: a VmbSystem outlives the cameras opened through it

systemVars == <<pc, started>>
cameraVars == <<counter, cameras, place, handle, via, raw>>
vars == <<systemVars, sdkUp, sdkOpen, cameraVars>>
program == <<ordered, nested>>

\* A thread without a VmbSystem is at "none"; "calling" and "rollback" are inside
\* startup, "shutdown" inside Drop, past the swap of STARTED.
PCs == {"none", "calling", "rollback", "live", "shutdown"}
Places == {"closed", "open", "closing"}

\* The threads that hold the flag.
Owners == {s \in Systems : pc[s] \in {"calling", "rollback", "live"}}

Goto(s, where) == pc' = [pc EXCEPT ![s] = where]

-----------------------------------------------------------------------------
(* The actions with one plausible slip each, see the properties below. *)

\* IDs from 0: the first handle is not a NonZeroU64.
InitAdapterFromZero ==
  /\ started = FALSE
  /\ counter = 0
  /\ cameras = [h \in {} |-> NoRaw]

\* The flag is set without looking at its old value.
ClaimUnchecked(s) ==
  /\ pc[s] = "none"
  /\ ordered => \A t \in Systems : pc[t] # "shutdown"
  /\ started' = TRUE
  /\ Goto(s, "calling")
  /\ UNCHANGED <<sdkUp, sdkOpen, cameraVars>>

\* A failed startup leaves the flag set.
RollbackForgotten(s) ==
  /\ pc[s] = "rollback"
  /\ Goto(s, "none")
  /\ UNCHANGED <<started, sdkUp, sdkOpen, cameraVars>>

\* A failed VmbStartup is taken for a success.
StartupUnchecked(s) ==
  /\ pc[s] = "calling"
  /\ "startup" \in Faults \/ sdkUp
  /\ Goto(s, "live")
  /\ UNCHANGED <<started, sdkUp, sdkOpen, cameraVars>>

\* shutdown clears the flag and does not call VmbShutdown.
SwapOnly(s) ==
  /\ pc[s] = "live"
  /\ nested => \A c \in Cameras : place[c] # "closed" => via[c] # s
  /\ started' = FALSE
  /\ Goto(s, "none")
  /\ UNCHANGED <<sdkUp, sdkOpen, cameraVars>>

\* close_camera leaves the handle in FfiState.cameras.
CloseUnremoved(c) ==
  /\ place[c] = "open"
  /\ raw' = [raw EXCEPT ![c] = cameras[handle[c]]]
  /\ place' = [place EXCEPT ![c] = "closing"]
  /\ UNCHANGED <<systemVars, sdkUp, sdkOpen, counter, cameras, handle, via>>

-----------------------------------------------------------------------------
\* STARTED, and FfiState::new.
InitAdapter ==
  /\ started = FALSE
  /\ counter = 1
  /\ cameras = [h \in {} |-> NoRaw]

InitProgram ==
  /\ pc = [s \in Systems |-> "none"]
  /\ sdkUp = FALSE /\ sdkOpen = [r \in {} |-> r]
  /\ place = [c \in Cameras |-> "closed"]
  /\ handle = [c \in Cameras |-> 0]
  /\ via \in [Cameras -> Systems]
  /\ raw = [c \in Cameras |-> NoRaw]
  /\ ordered \in BOOLEAN /\ nested \in BOOLEAN

Init == InitAdapter /\ InitProgram

-----------------------------------------------------------------------------
(* VmbSystem::startup. *)

\* The compare-exchange of STARTED succeeds.
StartupClaim(s) ==
  /\ pc[s] = "none"
  /\ ordered => \A t \in Systems : pc[t] # "shutdown"
  /\ ~started
  /\ started' = TRUE
  /\ Goto(s, "calling")
  /\ UNCHANGED <<sdkUp, sdkOpen, cameraVars>>

\* It fails: AlreadyStarted.
StartupRejected(s) ==
  /\ pc[s] = "none"
  /\ started
  /\ UNCHANGED vars

\* VmbStartup.  Called while the SDK is still up, it may answer either way.
StartupCall(s) ==
  /\ pc[s] = "calling"
  /\ sdkUp' = TRUE
  /\ Goto(s, "live")
  /\ UNCHANGED <<started, sdkOpen, cameraVars>>

StartupFails(s) ==
  /\ pc[s] = "calling"
  /\ "startup" \in Faults \/ sdkUp
  /\ Goto(s, "rollback")
  /\ UNCHANGED <<started, sdkUp, sdkOpen, cameraVars>>

\* STARTED is stored back, the error returned.
StartupRollback(s) ==
  /\ pc[s] = "rollback"
  /\ started' = FALSE
  /\ Goto(s, "none")
  /\ UNCHANGED <<sdkUp, sdkOpen, cameraVars>>

-----------------------------------------------------------------------------
(* Drop for VmbSystem. *)

\* STARTED is swapped; only when it was set is VmbShutdown called.
ShutdownSwap(s) ==
  /\ pc[s] = "live"
  /\ nested => \A c \in Cameras : place[c] # "closed" => via[c] # s
  /\ started' = FALSE
  /\ Goto(s, IF started THEN "shutdown" ELSE "none")
  /\ UNCHANGED <<sdkUp, sdkOpen, cameraVars>>

\* VmbShutdown: every camera the SDK had open is closed.
ShutdownCall(s) ==
  /\ pc[s] = "shutdown"
  /\ sdkUp' = FALSE
  /\ sdkOpen' = [r \in {} |-> r]
  /\ Goto(s, "none")
  /\ UNCHANGED <<started, cameraVars>>

-----------------------------------------------------------------------------
(* Camera::open and Drop for Camera. *)

\* VmbCameraOpen hands out a raw handle no open camera has; the adapter stores
\* it under a fresh opaque one.  With the SDK down the call fails.
OpenCamera(c, s) ==
  /\ place[c] = "closed" /\ pc[s] = "live"
  /\ sdkUp
  /\ counter <= MaxId
  /\ \E r \in RawHandles \ DOMAIN sdkOpen :
       /\ sdkOpen' = [q \in DOMAIN sdkOpen \cup {r} |-> IF q = r THEN c ELSE sdkOpen[q]]
       /\ cameras' = [h \in DOMAIN cameras \cup {counter} |->
                        IF h = counter THEN r ELSE cameras[h]]
  /\ handle' = [handle EXCEPT ![c] = counter]
  /\ counter' = counter + 1
  /\ via' = [via EXCEPT ![c] = s]
  /\ place' = [place EXCEPT ![c] = "open"]
  /\ UNCHANGED <<systemVars, sdkUp, raw>>

\* close_camera takes the raw handle out of FfiState.cameras.
CloseTake(c) ==
  /\ place[c] = "open"
  /\ raw' = [raw EXCEPT ![c] = cameras[handle[c]]]
  /\ cameras' = [h \in DOMAIN cameras \ {handle[c]} |-> cameras[h]]
  /\ place' = [place EXCEPT ![c] = "closing"]
  /\ UNCHANGED <<systemVars, sdkUp, sdkOpen, counter, handle, via>>

\* VmbCameraClose on whatever camera has that raw handle now, if any: its return
\* code is ignored.
CloseRaw(c) ==
  /\ place[c] = "closing"
  /\ sdkOpen' = [r \in DOMAIN sdkOpen \ {raw[c]} |-> sdkOpen[r]]
  /\ raw' = [raw EXCEPT ![c] = NoRaw]
  /\ handle' = [handle EXCEPT ![c] = 0]
  /\ place' = [place EXCEPT ![c] = "closed"]
  /\ UNCHANGED <<systemVars, sdkUp, counter, cameras, via>>

-----------------------------------------------------------------------------
\* The steps of a thread that is inside startup or Drop.
SystemStep(s) ==
  \/ StartupCall(s) \/ StartupFails(s) \/ StartupRollback(s)
  \/ ShutdownCall(s)

Step ==
  \/ \E s \in Systems :
       \/ StartupClaim(s) \/ StartupRejected(s) \/ ShutdownSwap(s)
       \/ SystemStep(s)
       \/ \E c \in Cameras : OpenCamera(c, s)
  \/ \E c \in Cameras : CloseTake(c) \/ CloseRaw(c)

Next == Step /\ UNCHANGED program

Spec == Init /\ [][Next]_<<vars, program>>

\* A thread inside a call keeps running, and neither VmbStartup nor VmbShutdown
\* hangs.  Nothing obliges a program to start, drop, open or close.
FairSpec == Spec /\ \A s \in Systems : WF_vars(SystemStep(s))

-----------------------------------------------------------------------------
(* Properties. *)

\* Every variable has its type.
SystemTypeOK ==
  /\ pc \in [Systems -> PCs]
  /\ started \in BOOLEAN /\ sdkUp \in BOOLEAN

CameraTypeOK ==
  /\ DOMAIN sdkOpen \subseteq RawHandles /\ sdkOpen \in [DOMAIN sdkOpen -> Cameras]
  /\ counter \in Nat \ {0}
  /\ DOMAIN cameras \subseteq Nat /\ cameras \in [DOMAIN cameras -> RawHandles]
  /\ place \in [Cameras -> Places]
  /\ handle \in [Cameras -> Nat]
  /\ via \in [Cameras -> Systems]
  /\ raw \in [Cameras -> RawHandles \cup {NoRaw}]

TypeOK == SystemTypeOK /\ CameraTypeOK

\* STARTED is set exactly while one thread is inside startup or holds a live
\* VmbSystem, and never two do: a failed startup can be retried, a second startup
\* is rejected, and no drop clears the flag of somebody else's system.
FlagTellsOwner ==
  /\ started <=> Owners # {}
  /\ \A s, t \in Owners : s = t

\* When no startup overlaps a drop, a live VmbSystem means the SDK is up: no other
\* thread's VmbShutdown, late after its swap of the flag, takes it down.
LiveMeansUp == ordered => \A s \in Systems : pc[s] = "live" => sdkUp

\* The SDK never stays up without a VmbSystem that will shut it down.
NoOrphanSdk == sdkUp => \E s \in Systems : pc[s] \in {"live", "shutdown"}

\* When the cameras are dropped before their system too, FfiState.cameras and the
\* SDK agree: each handle a Camera holds leads to the camera it opened, which the
\* SDK still has open; and, as "raw.0 came from a successful VmbCameraOpen and has not
\* been closed yet" (close_camera) says, so does the one VmbCameraClose gets.
HandlesReachOwnCamera == ordered /\ nested =>
  \A c \in Cameras :
    /\ place[c] = "open" =>
         /\ handle[c] \in DOMAIN cameras
         /\ cameras[handle[c]] \in DOMAIN sdkOpen
         /\ sdkOpen[cameras[handle[c]]] = c
    /\ place[c] = "closing" => raw[c] \in DOMAIN sdkOpen /\ sdkOpen[raw[c]] = c

\* No handle stays in FfiState.cameras once its Camera is gone, even when the
\* SDK was shut down first.
NoHandleLeak ==
  DOMAIN cameras = {handle[c] : c \in {d \in Cameras : place[d] = "open"}}

\* A drop ends with the SDK down, unless another startup took over; and a startup
\* does not keep the flag for ever.
DropReleasesSdk ==
  \A s \in Systems :
    /\ pc[s] = "shutdown" ~> (~sdkUp \/ \E t \in Systems : pc[t] = "live")
    /\ pc[s] \in {"calling", "rollback"} ~> (pc[s] = "live" \/ ~started)
=============================================================================
