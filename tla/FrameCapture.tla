---------------------------- MODULE FrameCapture ----------------------------
(***************************************************************************)
(* Frame capture: the Camera objects of vmb-core (camera.rs) calling the   *)
(* FFI adapter of vmb-ffi (runtime.rs, state.rs), the Vimba SDK behind it, *)
(* and the SDK threads that run the adapter's frame trampoline             *)
(* (trampoline.rs) while the application threads go on.                    *)
(*                                                                         *)
(* Each Camera is owned by one application thread at a time (start_capture *)
(* and stop_capture take &mut self), so a Camera is a process whose        *)
(* program counter stands at the next port call it will make.  Every port  *)
(* call is one action, except VmbCaptureEnd, which waits for callbacks and *)
(* is split in two.  A call of one Camera commutes with every step of the  *)
(* others up to the lock it takes, so the locked region is its one step.   *)
(*                                                                         *)
(* The SDK is external: a call may fail when its name is in Faults, a      *)
(* queued frame may be delivered at any time while the camera streams.     *)
(***************************************************************************)
EXTENDS Naturals, FiniteSets

CONSTANTS
  Cameras,      \* the Camera objects of the program
  NumBuffers,   \* the num_buffers argument of start_capture
  Faults,       \* the SDK calls that may fail, and "panic" for the user closure
  Serial,       \* TRUE: the program never overlaps the captures of two cameras
  MaxId         \* bound: no camera is opened, no capture started beyond this ID

FaultKinds ==
  {"open", "announce", "start", "queue", "acquire",   \* reported by start_capture
   "acqstop", "end", "flush", "revoke",               \* ignored by the teardown
   "requeue", "panic"}                                \* inside the trampoline

ASSUME CaptureAssumption ==
  /\ NumBuffers \in Nat
  /\ Faults \subseteq FaultKinds
  /\ Serial \in BOOLEAN
  /\ MaxId \in Nat

VARIABLES
  \* The application threads: the Camera objects and the locals of their calls.
  pc,             \* where each Camera stands
  handle,         \* Camera.handle
  callbackId,     \* callback_id of start_capture, then of Camera.session
  slots,          \* slots of start_capture, then of Camera.session
  pending,        \* the slots the queue loop has still to queue
  dropping,       \* the Camera is inside Drop::drop
  \* FfiState, shared by all the clones of the adapter.
  counter,        \* FfiState.counter
  cameras,        \* the keys of FfiState.cameras
  frames,         \* FfiState.frames: slot -> the closure its context holds
  frameCallbacks, \* the keys of FfiState.frame_callbacks
  \* The SDK, per camera.
  capturing,      \* the capture engine runs
  acquiring,      \* the camera sends images
  announced,      \* frames the SDK knows, named by the slot of their context
  queued,         \* frames the SDK may fill
  \* The SDK threads, per camera: the trampolines in progress.
  entered,        \* called, the context not read yet
  invoking,       \* <<slot, closure>>: inside the user closure
  requeueing      \* the closure is done or skipped, the re-queue is next

appVars == <<pc, handle, callbackId, slots, pending, dropping>>
ffiVars == <<counter, cameras, frames, frameCallbacks>>
sdkVars == <<capturing, acquiring, announced, queued>>
tramVars == <<entered, invoking, requeueing>>
vars == <<appVars, ffiVars, sdkVars, tramVars>>

-----------------------------------------------------------------------------
(* Helpers. *)

\* The no-op closure announce_frame stores until queue_frame replaces it; the
\* IDs of real closures start at 1.
Noop == 0

\* The places of a Camera.  "idle" is an open Camera whose session is None,
\* "running" one whose session is Some; the others are inside a call.
Starting == {"announce", "queue"}
Stopping == {"acqstop", "end", "ending", "flush", "revoke", "uninstall"}
PCs == {"closed", "idle", "running", "close"} \cup Starting \cup Stopping

MayFail(k) == k \in Faults

\* resolve_camera finds the handle in FfiState.cameras.
Resolves(c) == handle[c] \in cameras

\* Frames of camera c with a trampoline in progress.
InFlight(c) == entered[c] \cup {call[1] : call \in invoking[c]} \cup requeueing[c]

Goto(c, place) == pc' = [pc EXCEPT ![c] = place]

\* HashMap::insert on FfiState.frames.
WithContext(s, k) == [t \in DOMAIN frames \cup {s} |-> IF t = s THEN k ELSE frames[t]]

-----------------------------------------------------------------------------
(* The actions with one plausible slip each.  The program takes none of them: *)
(* they are there to see that the properties below notice the slip.           *)

\* IDs from 0, which Noop already has.
InitFfiFromZero ==
  /\ counter = 0
  /\ cameras = {} /\ frames = [s \in {} |-> Noop] /\ frameCallbacks = {}

\* The error path of start_capture only uninstalls the closure.
AbortWithoutTeardown(c) ==
  /\ Goto(c, "uninstall")
  /\ UNCHANGED <<handle, callbackId, slots, pending, dropping, ffiVars, sdkVars, tramVars>>

\* announce_frame does not retain the context.
AnnounceUnstored(c) ==
  /\ pc[c] = "announce"
  /\ Cardinality(slots[c]) < NumBuffers
  /\ Resolves(c)
  /\ announced' = [announced EXCEPT ![c] = @ \cup {counter}]
  /\ slots' = [slots EXCEPT ![c] = @ \cup {counter}]
  /\ counter' = counter + 1
  /\ UNCHANGED <<pc, handle, callbackId, pending, dropping, cameras, frames, frameCallbacks,
                 capturing, acquiring, queued, tramVars>>

\* A failed capture_start is taken for a success.
CaptureStartUnchecked(c) ==
  /\ pc[c] = "announce"
  /\ Cardinality(slots[c]) >= NumBuffers
  /\ MayFail("start")
  /\ pending' = [pending EXCEPT ![c] = slots[c]]
  /\ Goto(c, "queue")
  /\ UNCHANGED <<handle, callbackId, slots, dropping, ffiVars, sdkVars, tramVars>>

\* queue_frame leaves the no-op closure in the context.
QueueWithoutSwap(c) ==
  /\ pc[c] = "queue"
  /\ \E s \in pending[c] :
       /\ \A t \in pending[c] : s <= t
       /\ queued' = [queued EXCEPT ![c] = @ \cup {s}]
       /\ pending' = [pending EXCEPT ![c] = @ \ {s}]
  /\ UNCHANGED <<pc, handle, callbackId, slots, dropping, ffiVars,
                 capturing, acquiring, announced, tramVars>>

\* The teardown skips capture_end.
CaptureEndSkipped(c) ==
  /\ pc[c] = "end"
  /\ Goto(c, "flush")
  /\ UNCHANGED <<handle, callbackId, slots, pending, dropping, ffiVars, sdkVars, tramVars>>

\* VmbCaptureEnd waits for the callbacks but does not stop the deliveries.
CaptureEndStreaming(c) ==
  /\ pc[c] = "end"
  /\ Goto(c, "ending")
  /\ UNCHANGED <<handle, callbackId, slots, pending, dropping, ffiVars, sdkVars, tramVars>>

\* frame_revoke_all does not release the contexts.
RevokeWithoutRelease(c) ==
  /\ pc[c] = "revoke"
  /\ InFlight(c) = {}
  /\ announced' = [announced EXCEPT ![c] = {}]
  /\ queued' = [queued EXCEPT ![c] = {}]
  /\ Goto(c, "uninstall")
  /\ UNCHANGED <<handle, callbackId, slots, pending, dropping, ffiVars,
                 capturing, acquiring, tramVars>>

\* The teardown forgets the closure in FfiState.frame_callbacks.
UninstallForgotten(c) ==
  /\ pc[c] = "uninstall"
  /\ callbackId' = [callbackId EXCEPT ![c] = 0]
  /\ slots' = [slots EXCEPT ![c] = {}]
  /\ pending' = [pending EXCEPT ![c] = {}]
  /\ Goto(c, IF dropping[c] THEN "close" ELSE "idle")
  /\ UNCHANGED <<handle, dropping, ffiVars, sdkVars, tramVars>>

\* The trampoline queues the frame again before it invokes the closure.
InvokeRequeued(c, s) ==
  /\ s \in entered[c]
  /\ s \in DOMAIN frames
  /\ entered' = [entered EXCEPT ![c] = @ \ {s}]
  /\ invoking' = [invoking EXCEPT ![c] = @ \cup {<<s, frames[s]>>}]
  /\ queued' = [queued EXCEPT ![c] = @ \cup {s}]
  /\ UNCHANGED <<appVars, ffiVars, capturing, acquiring, announced, requeueing>>

\* The trampoline returns on an incomplete frame.
DropIncomplete(c, s) ==
  /\ s \in entered[c]
  /\ entered' = [entered EXCEPT ![c] = @ \ {s}]
  /\ UNCHANGED <<appVars, ffiVars, sdkVars, invoking, requeueing>>

-----------------------------------------------------------------------------
(* Initially no camera is open and the ID counter stands at 1. *)

InitApp ==
  /\ pc = [c \in Cameras |-> "closed"]
  /\ handle = [c \in Cameras |-> 0]
  /\ callbackId = [c \in Cameras |-> 0]
  /\ slots = [c \in Cameras |-> {}]
  /\ pending = [c \in Cameras |-> {}]
  /\ dropping = [c \in Cameras |-> FALSE]

InitFfi ==
  /\ counter = 1
  /\ cameras = {} /\ frames = [s \in {} |-> Noop] /\ frameCallbacks = {}

InitSdk ==
  /\ capturing = [c \in Cameras |-> FALSE]
  /\ acquiring = [c \in Cameras |-> FALSE]
  /\ announced = [c \in Cameras |-> {}]
  /\ queued = [c \in Cameras |-> {}]
  /\ entered = [c \in Cameras |-> {}]
  /\ invoking = [c \in Cameras |-> {}]
  /\ requeueing = [c \in Cameras |-> {}]

Init == InitApp /\ InitFfi /\ InitSdk

-----------------------------------------------------------------------------
(* Camera::open.  A failed VmbCameraOpen changes nothing. *)

OpenCamera(c) ==
  /\ pc[c] = "closed"
  /\ counter <= MaxId
  /\ handle' = [handle EXCEPT ![c] = counter]
  /\ cameras' = cameras \cup {counter}
  /\ counter' = counter + 1
  /\ Goto(c, "idle")
  /\ UNCHANGED <<callbackId, slots, pending, dropping, frames, frameCallbacks,
                 sdkVars, tramVars>>

-----------------------------------------------------------------------------
(* Camera::start_capture. *)

\* The guard on session, payload_size and install_frame_callback.  A capture
\* already running, or a failed payload_size, returns before any change.
BeginCapture(c) ==
  /\ pc[c] = "idle"
  /\ Resolves(c)
  /\ Serial => \A d \in Cameras \ {c} : pc[d] \in {"closed", "idle"}
  /\ counter <= MaxId
  /\ callbackId' = [callbackId EXCEPT ![c] = counter]
  /\ frameCallbacks' = frameCallbacks \cup {counter}
  /\ counter' = counter + 1
  /\ slots' = [slots EXCEPT ![c] = {}]
  /\ Goto(c, "announce")
  /\ UNCHANGED <<handle, pending, dropping, cameras, frames, sdkVars, tramVars>>

\* Any step of the closure inside start_capture that returns Err: the teardown
\* starts with capture_end.
AbortCapture(c) ==
  /\ Goto(c, "end")
  /\ UNCHANGED <<handle, callbackId, slots, pending, dropping, ffiVars, sdkVars, tramVars>>

\* One turn of the announce loop.  The context is allocated, announced with the
\* no-op closure, then stored under a fresh slot.
AnnounceFrame(c) ==
  /\ pc[c] = "announce"
  /\ Cardinality(slots[c]) < NumBuffers
  /\ Resolves(c)
  /\ announced' = [announced EXCEPT ![c] = @ \cup {counter}]
  /\ frames' = WithContext(counter, Noop)
  /\ slots' = [slots EXCEPT ![c] = @ \cup {counter}]
  /\ counter' = counter + 1
  /\ UNCHANGED <<pc, handle, callbackId, pending, dropping, cameras, frameCallbacks,
                 capturing, acquiring, queued, tramVars>>

\* VmbFrameAnnounce fails: the context is dropped, no slot is allocated.
AnnounceFails(c) ==
  /\ pc[c] = "announce"
  /\ Cardinality(slots[c]) < NumBuffers
  /\ MayFail("announce") \/ ~Resolves(c)
  /\ AbortCapture(c)

CaptureStart(c) ==
  /\ pc[c] = "announce"
  /\ Cardinality(slots[c]) >= NumBuffers
  /\ Resolves(c)
  /\ capturing' = [capturing EXCEPT ![c] = TRUE]
  /\ pending' = [pending EXCEPT ![c] = slots[c]]
  /\ Goto(c, "queue")
  /\ UNCHANGED <<handle, callbackId, slots, dropping, ffiVars,
                 acquiring, announced, queued, tramVars>>

CaptureStartFails(c) ==
  /\ pc[c] = "announce"
  /\ Cardinality(slots[c]) >= NumBuffers
  /\ MayFail("start") \/ ~Resolves(c)
  /\ AbortCapture(c)

\* queue_frame knows both the closure and the slot it is given.
CanQueue(c, s) ==
  /\ Resolves(c)
  /\ callbackId[c] \in frameCallbacks
  /\ s \in DOMAIN frames

\* One turn of the queue loop, in the order of the slots: under the lock of
\* FfiState.frames the closure is swapped in and the frame handed to the SDK.
QueueFrame(c) ==
  /\ pc[c] = "queue"
  /\ \E s \in pending[c] :
       /\ \A t \in pending[c] : s <= t
       /\ CanQueue(c, s)
       /\ frames' = WithContext(s, callbackId[c])
       /\ queued' = [queued EXCEPT ![c] = @ \cup {s}]
       /\ pending' = [pending EXCEPT ![c] = @ \ {s}]
  /\ UNCHANGED <<pc, handle, callbackId, slots, dropping, counter, cameras, frameCallbacks,
                 capturing, acquiring, announced, tramVars>>

\* The closure or the slot is unknown: queue_frame returns before any change.
QueueUnknown(c) ==
  /\ pc[c] = "queue"
  /\ \E s \in pending[c] : (\A t \in pending[c] : s <= t) /\ ~CanQueue(c, s)
  /\ AbortCapture(c)

\* VmbCaptureFrameQueue fails: the closure has been swapped in all the same.
QueueFails(c) ==
  /\ pc[c] = "queue"
  /\ MayFail("queue")
  /\ \E s \in pending[c] :
       /\ \A t \in pending[c] : s <= t
       /\ CanQueue(c, s)
       /\ frames' = WithContext(s, callbackId[c])
  /\ Goto(c, "end")
  /\ UNCHANGED <<handle, callbackId, slots, pending, dropping,
                 counter, cameras, frameCallbacks, sdkVars, tramVars>>

\* run_feature_command("AcquisitionStart"), after which the session is stored.
AcquisitionStart(c) ==
  /\ pc[c] = "queue"
  /\ pending[c] = {}
  /\ Resolves(c)
  /\ acquiring' = [acquiring EXCEPT ![c] = TRUE]
  /\ Goto(c, "running")
  /\ UNCHANGED <<handle, callbackId, slots, pending, dropping, ffiVars,
                 capturing, announced, queued, tramVars>>

AcquisitionStartFails(c) ==
  /\ pc[c] = "queue"
  /\ pending[c] = {}
  /\ MayFail("acquire") \/ ~Resolves(c)
  /\ AbortCapture(c)

-----------------------------------------------------------------------------
(* Camera::stop_capture, and the same teardown on the error path of          *)
(* start_capture.  Every call ignores the SDK's return code and returns      *)
(* early when the handle is unknown.                                         *)

\* session.take(): from here on the Camera has no session.
StopCapture(c) ==
  /\ pc[c] = "running"
  /\ Goto(c, "acqstop")
  /\ UNCHANGED <<handle, callbackId, slots, pending, dropping, ffiVars, sdkVars, tramVars>>

AcquisitionStop(c) ==
  /\ pc[c] = "acqstop"
  /\ \/ Resolves(c) /\ acquiring' = [acquiring EXCEPT ![c] = FALSE]
     \/ (MayFail("acqstop") \/ ~Resolves(c)) /\ UNCHANGED acquiring
  /\ Goto(c, "end")
  /\ UNCHANGED <<handle, callbackId, slots, pending, dropping, ffiVars,
                 capturing, announced, queued, tramVars>>

\* VmbCaptureEnd is called: the SDK delivers no further frame of the camera.
CaptureEnd(c) ==
  /\ pc[c] = "end"
  /\ \/ Resolves(c) /\ capturing' = [capturing EXCEPT ![c] = FALSE] /\ Goto(c, "ending")
     \/ (MayFail("end") \/ ~Resolves(c)) /\ UNCHANGED capturing /\ Goto(c, "flush")
  /\ UNCHANGED <<handle, callbackId, slots, pending, dropping, ffiVars,
                 acquiring, announced, queued, tramVars>>

\* It returns once the callbacks in progress have returned.
CaptureEnded(c) ==
  /\ pc[c] = "ending"
  /\ InFlight(c) = {}
  /\ Goto(c, "flush")
  /\ UNCHANGED <<handle, callbackId, slots, pending, dropping, ffiVars, sdkVars, tramVars>>

CaptureQueueFlush(c) ==
  /\ pc[c] = "flush"
  /\ \/ Resolves(c) /\ queued' = [queued EXCEPT ![c] = {}]
     \/ (MayFail("flush") \/ ~Resolves(c)) /\ UNCHANGED queued
  /\ Goto(c, "revoke")
  /\ UNCHANGED <<handle, callbackId, slots, pending, dropping, ffiVars,
                 capturing, acquiring, announced, tramVars>>

\* VmbFrameRevokeAll forgets the frames of this camera once its callbacks have
\* returned; the adapter then clears FfiState.frames, whatever the SDK answered.
FrameRevokeAll(c) ==
  /\ pc[c] = "revoke"
  /\ \/ /\ Resolves(c)
        /\ InFlight(c) = {}
        /\ announced' = [announced EXCEPT ![c] = {}]
        /\ queued' = [queued EXCEPT ![c] = {}]
     \/ (MayFail("revoke") \/ ~Resolves(c)) /\ UNCHANGED <<announced, queued>>
  /\ frames' = IF Resolves(c) THEN [s \in {} |-> Noop] ELSE frames
  /\ Goto(c, "uninstall")
  /\ UNCHANGED <<handle, callbackId, slots, pending, dropping,
                 counter, cameras, frameCallbacks, capturing, acquiring, tramVars>>

\* The call returns, or Drop goes on to close_camera.
UninstallFrameCallback(c) ==
  /\ pc[c] = "uninstall"
  /\ frameCallbacks' = frameCallbacks \ {callbackId[c]}
  /\ callbackId' = [callbackId EXCEPT ![c] = 0]
  /\ slots' = [slots EXCEPT ![c] = {}]
  /\ pending' = [pending EXCEPT ![c] = {}]
  /\ Goto(c, IF dropping[c] THEN "close" ELSE "idle")
  /\ UNCHANGED <<handle, dropping, counter, cameras, frames, sdkVars, tramVars>>

-----------------------------------------------------------------------------
(* Drop for Camera. *)

DropCamera(c) ==
  /\ pc[c] \in {"idle", "running"}
  /\ dropping' = [dropping EXCEPT ![c] = TRUE]
  /\ Goto(c, IF pc[c] = "running" THEN "acqstop" ELSE "close")
  /\ UNCHANGED <<handle, callbackId, slots, pending, ffiVars, sdkVars, tramVars>>

CloseCamera(c) ==
  /\ pc[c] = "close"
  /\ cameras' = cameras \ {handle[c]}
  /\ handle' = [handle EXCEPT ![c] = 0]
  /\ dropping' = [dropping EXCEPT ![c] = FALSE]
  /\ Goto(c, "closed")
  /\ UNCHANGED <<callbackId, slots, pending, counter, frames, frameCallbacks,
                 sdkVars, tramVars>>

-----------------------------------------------------------------------------
(* The SDK threads: delivery and the frame trampoline. *)

\* The SDK takes a frame off the queue and calls frame_callback_trampoline.
Deliver(c) ==
  /\ capturing[c] /\ acquiring[c]
  /\ \E s \in queued[c] :
       /\ queued' = [queued EXCEPT ![c] = @ \ {s}]
       /\ entered' = [entered EXCEPT ![c] = @ \cup {s}]
  /\ UNCHANGED <<appVars, ffiVars, capturing, acquiring, announced, invoking, requeueing>>

\* What the trampoline reads as ctx.callback: the closure of a live context,
\* anything at all when the context is gone.
ReadCallback(s) == IF s \in DOMAIN frames THEN {frames[s]} ELSE 0 .. counter - 1

\* receiveStatus is 0: the user closure is invoked.
Invoke(c, s) ==
  /\ s \in entered[c]
  /\ entered' = [entered EXCEPT ![c] = @ \ {s}]
  /\ \E k \in ReadCallback(s) : invoking' = [invoking EXCEPT ![c] = @ \cup {<<s, k>>}]
  /\ UNCHANGED <<appVars, ffiVars, sdkVars, requeueing>>

\* receiveStatus is not 0: the incomplete frame goes straight to the re-queue.
SkipIncomplete(c, s) ==
  /\ s \in entered[c]
  /\ entered' = [entered EXCEPT ![c] = @ \ {s}]
  /\ requeueing' = [requeueing EXCEPT ![c] = @ \cup {s}]
  /\ UNCHANGED <<appVars, ffiVars, sdkVars, invoking>>

ClosureReturns(c, s) ==
  /\ \E call \in invoking[c] :
       /\ call[1] = s
       /\ invoking' = [invoking EXCEPT ![c] = @ \ {call}]
  /\ requeueing' = [requeueing EXCEPT ![c] = @ \cup {s}]
  /\ UNCHANGED <<appVars, ffiVars, sdkVars, entered>>

\* The closure panics: catch_unwind leaves the trampoline before the re-queue.
ClosurePanics(c, s) ==
  /\ MayFail("panic")
  /\ \E call \in invoking[c] :
       /\ call[1] = s
       /\ invoking' = [invoking EXCEPT ![c] = @ \ {call}]
  /\ UNCHANGED <<appVars, ffiVars, sdkVars, entered, requeueing>>

\* VmbCaptureFrameQueue from inside the trampoline; its return code is ignored.
\* The SDK only takes a frame it knows.
Requeue(c, s) ==
  /\ s \in requeueing[c]
  /\ requeueing' = [requeueing EXCEPT ![c] = @ \ {s}]
  /\ \/ s \in announced[c] /\ queued' = [queued EXCEPT ![c] = @ \cup {s}]
     \/ (MayFail("requeue") \/ s \notin announced[c]) /\ UNCHANGED queued
  /\ UNCHANGED <<appVars, ffiVars, capturing, acquiring, announced, entered, invoking>>

-----------------------------------------------------------------------------
(* The whole program. *)

\* The steps a thread takes by itself once it is inside a call.
CallStep(c) ==
  \/ AnnounceFrame(c) \/ AnnounceFails(c)
  \/ CaptureStart(c) \/ CaptureStartFails(c)
  \/ QueueFrame(c) \/ QueueUnknown(c) \/ QueueFails(c)
  \/ AcquisitionStart(c) \/ AcquisitionStartFails(c)
  \/ AcquisitionStop(c)
  \/ CaptureEnd(c) \/ CaptureEnded(c)
  \/ CaptureQueueFlush(c)
  \/ FrameRevokeAll(c)
  \/ UninstallFrameCallback(c)
  \/ CloseCamera(c)

\* The steps of a trampoline once the SDK has called it.
TrampolineStep(c, s) ==
  \/ Invoke(c, s) \/ SkipIncomplete(c, s)
  \/ ClosureReturns(c, s) \/ ClosurePanics(c, s)
  \/ Requeue(c, s)

Next ==
  \E c \in Cameras :
    \/ OpenCamera(c) \/ BeginCapture(c) \/ StopCapture(c) \/ DropCamera(c)
    \/ CallStep(c)
    \/ Deliver(c)
    \/ \E s \in InFlight(c) : TrampolineStep(c, s)

Spec == Init /\ [][Next]_vars

\* The IDs the bound leaves room for: a capture begun at MaxId takes NumBuffers
\* more, and so may every other camera at the same time.
Ids == 1 .. MaxId + Cardinality(Cameras) * (NumBuffers + 1)

\* A thread inside a port call keeps running, and so does each trampoline: the
\* closure "MUST be fast" (camera.rs), so it returns or panics.  Nothing obliges
\* the program to open, start, stop or drop, nor the camera to send frames.
Fairness ==
  \A c \in Cameras :
    /\ WF_vars(CallStep(c))
    /\ \A s \in Ids : WF_vars(TrampolineStep(c, s))

FairSpec == Spec /\ Fairness

-----------------------------------------------------------------------------
(* Properties. *)

\* Every variable has its type.
AppTypeOK ==
  /\ pc \in [Cameras -> PCs]
  /\ handle \in [Cameras -> Nat]
  /\ callbackId \in [Cameras -> Nat]
  /\ slots \in [Cameras -> SUBSET Nat]
  /\ pending \in [Cameras -> SUBSET Nat]
  /\ dropping \in [Cameras -> BOOLEAN]

FfiTypeOK ==
  /\ counter \in Nat \ {0}
  /\ cameras \subseteq Nat
  /\ DOMAIN frames \subseteq Nat /\ frames \in [DOMAIN frames -> Nat]
  /\ frameCallbacks \subseteq Nat

SdkTypeOK ==
  /\ capturing \in [Cameras -> BOOLEAN]
  /\ acquiring \in [Cameras -> BOOLEAN]
  /\ announced \in [Cameras -> SUBSET Nat]
  /\ queued \in [Cameras -> SUBSET Nat]
  /\ entered \in [Cameras -> SUBSET Nat]
  /\ invoking \in [Cameras -> SUBSET (Nat \X Nat)]
  /\ requeueing \in [Cameras -> SUBSET Nat]

TypeOK == AppTypeOK /\ FfiTypeOK /\ SdkTypeOK

\* The adapter keeps the context of every frame the SDK knows, queued or in a
\* trampoline: a frame callback never finds its TrampolineContext freed.  This
\* is what the SAFETY comments of announce_frame and of the trampoline promise
\* about frame_revoke_all and capture_end.
ContextsAlive ==
  \A c \in Cameras : announced[c] \cup queued[c] \cup InFlight(c) \subseteq DOMAIN frames

\* The adapter keeps a context only while the SDK knows its frame: no path of
\* start_capture, stop_capture or Drop leaks a context and its pixel buffer.
NoContextLeak == DOMAIN frames \subseteq UNION {announced[c] : c \in Cameras}

\* FfiState.frame_callbacks holds the closures of the captures under way and no
\* other: each start_capture that fails, each stop and each drop uninstalls its
\* closure exactly once, whatever failed before.
RegistryExact ==
  frameCallbacks = {callbackId[c] : c \in {d \in Cameras :
                      pc[d] \in Starting \cup Stopping \cup {"running"}}}

\* A trampoline invokes the closure of the capture its frame was queued for:
\* never the no-op of announce_frame, never the closure of an earlier capture or
\* of another camera, never one that is already uninstalled.
DispatchesOwnClosure ==
  \A c \in Cameras : \A call \in invoking[c] :
    call[2] = callbackId[c] /\ call[2] \in frameCallbacks

\* A Camera has a session only when the adapter is fully primed (the cleanup
\* contract of start_capture): streaming, all its buffers announced, each with a
\* live context that holds the session's closure.
SessionPrimed ==
  \A c \in Cameras : pc[c] = "running" =>
    /\ capturing[c] /\ acquiring[c]
    /\ Cardinality(slots[c]) = NumBuffers
    /\ announced[c] = slots[c]
    /\ \A s \in slots[c] : s \in DOMAIN frames /\ frames[s] = callbackId[c]

\* Between captures nothing of the last one is left at the SDK: no announced or
\* queued frame, no trampoline in progress, whether start_capture failed half way
\* or stop_capture ran, and a closed Camera has no handle left in the adapter.
CleanBetweenCaptures ==
  \A c \in Cameras :
    /\ pc[c] \in {"idle", "close", "closed"} =>
         announced[c] = {} /\ queued[c] = {} /\ InFlight(c) = {}
    /\ pc[c] = "closed" <=> ~Resolves(c)

\* When frame_revoke_all is called the SDK has let go of every frame of the
\* camera: capture_end waited for the callbacks and capture_queue_flush came after
\* it, so no callback can put a frame back.
RevokeFindsIdle ==
  \A c \in Cameras : pc[c] = "revoke" =>
    ~capturing[c] /\ queued[c] = {} /\ InFlight(c) = {}

\* A buffer has one user at a time: while the trampoline or the closure reads a
\* frame the SDK does not have it queued for filling.
BufferExclusive ==
  \A c \in Cameras :
    LET inside == {call[1] : call \in invoking[c]}
    IN /\ queued[c] \cap InFlight(c) = {}
       /\ entered[c] \cap inside = {}
       /\ entered[c] \cap requeueing[c] = {}
       /\ inside \cap requeueing[c] = {}

\* A closure is never started once VmbCaptureEnd has returned, nor before
\* VmbCaptureStart: stop_capture and Drop leave no late callback behind.
ClosuresStartInCapture ==
  [][\A c \in Cameras : ~(invoking'[c] \subseteq invoking[c]) =>
       pc[c] \in {"queue", "running", "acqstop", "end", "ending"}]_vars

\* start_capture returns, with a session or without, and stop_capture and Drop
\* return too: VmbCaptureEnd waits for callbacks that cannot keep coming.
CallsReturn ==
  \A c \in Cameras :
    /\ pc[c] \in Starting ~> pc[c] \in {"running", "idle"}
    /\ pc[c] \in Stopping \cup {"close"} ~> pc[c] \in {"idle", "closed"}

\* A frame the SDK delivered is queued again, unless the capture is being torn
\* down meanwhile: the trampoline keeps the stream going.
KeepsDelivering ==
  \A c \in Cameras : \A s \in Ids :
    s \in InFlight(c) ~> (s \in queued[c] \/ pc[c] \in Stopping)

-----------------------------------------------------------------------------
(* What the program sees of all this. *)

\* The abstract phase of a Camera.
Phase(c) ==
  IF pc[c] \in Starting THEN "starting"
  ELSE IF pc[c] \in Stopping THEN "stopping"
  ELSE IF pc[c] = "close" THEN "idle" ELSE pc[c]

Contract == INSTANCE CaptureContract WITH
  phase <- [c \in Cameras |-> Phase(c)],
  closure <- callbackId,
  calls <- invoking

\* The domain, the adapter and the SDK threads together keep the promise of a
\* Camera: only the closure of the capture under way is ever invoked, with a
\* buffer of its own, and no invocation outlives the call that ends the capture.
ContractSpec == Contract!Spec
=============================================================================
