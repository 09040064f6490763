----------------------------- MODULE FakeRuntime -----------------------------
(***************************************************************************)
(* The in-memory runtime of vmb-fake (lib.rs) under the Camera objects of  *)
(* vmb-core (camera.rs): the tables of the fake, its failure injection,    *)
(* and deliver_frame, by which a test plays the part of the SDK.           *)
(*                                                                         *)
(* The fake stands in for the FFI adapter in tests, so it should keep the  *)
(* same CaptureContract.  A port call is one action: each locks one table  *)
(* after it has consulted the failures.  deliver_frame locks two tables in *)
(* turn and then invokes the closure, so it is three.                      *)
(* capture_queue_flush only logs the call and has no action.  The handle   *)
(* of an open camera is named by its Camera.                               *)
(***************************************************************************)
EXTENDS Naturals, Sequences, FiniteSets

CONSTANTS
  Cameras,     \* the Camera objects of the test
  NumBuffers,  \* the num_buffers argument of start_capture
  Methods,     \* the methods a test makes fail, of MethodNames
  MaxId,       \* bound: no capture is started and no frame delivered beyond this ID
  MaxCalls,    \* bound on the calls counted per method
  MaxRigged    \* bound on the failures rigged at the same time

MethodNames == {"payload", "announce", "start", "queue", "command"}

ASSUME FakeAssumption ==
  /\ NumBuffers \in Nat
  /\ Methods \subseteq MethodNames
  /\ MaxId \in Nat /\ MaxCalls \in Nat /\ MaxRigged \in Nat

VARIABLES
  \* The Camera objects.
  pc,              \* where each stands
  callbackId,      \* its closure, 0 without a capture
  slots,           \* its slots, in order
  pending,         \* those the queue loop has still to queue
  dropping,        \* it is inside Drop::drop
  \* State and Config of the fake.
  counter,         \* State.counter
  announced,       \* State.announced_frames: slot -> camera
  active,          \* State.active_captures: camera -> <<slot, closure>> pairs in order
  frameCallbacks,  \* the keys of State.frame_callbacks
  counters,        \* Config.counters
  failures,        \* the keys of Config.failures: <<method, index>>
  armed,           \* history: the methods fail_next was called for, to fail next
  \* deliver_frame.
  concurrent,      \* TRUE: the test calls it from a thread of its own
  picked,          \* {} or one <<camera, slot, closure>>, the closure not looked up yet
  invoking         \* per camera: <<slot, closure>>, inside the user closure

cameraVars == <<pc, callbackId, slots, pending, dropping>>
tableVars == <<counter, announced, active, frameCallbacks>>
failVars == <<counters, failures, armed>>
deliverVars == <<concurrent, picked, invoking>>
vars == <<cameraVars, tableVars, failVars, deliverVars>>

-----------------------------------------------------------------------------
(* Helpers. *)

Starting == {"announce", "queue"}
Stopping == {"command", "end", "revoke", "uninstall"}
PCs == {"closed", "idle", "running", "close"} \cup Starting \cup Stopping

Goto(c, place) == pc' = [pc EXCEPT ![c] = place]

Without(f, x) == [y \in DOMAIN f \ {x} |-> f[y]]

\* maybe_fail: the call is counted, and fails when its index is rigged.  The
\* counter of a method that no test makes fail is left at 0.
Fails(m) == <<m, counters[m]>> \in failures
Counted(m) ==
  IF m \in Methods
  THEN /\ counters[m] < MaxCalls
       /\ counters' = [counters EXCEPT ![m] = @ + 1]
       /\ failures' = failures \ {<<m, counters[m]>>}
       /\ armed' = armed \ {m}
  ELSE UNCHANGED failVars

\* With one thread, a test delivers between two calls of its Cameras.
MayStep(c) == concurrent \/ (picked = {} /\ \A d \in Cameras : invoking[d] = {})
MayDeliver == concurrent \/ \A c \in Cameras : pc[c] \in {"closed", "idle", "running"}

-----------------------------------------------------------------------------
(* The actions with one plausible slip each, see the properties below. *)

\* IDs from 0.
InitTablesFromZero ==
  /\ counter = 0
  /\ announced = [s \in {} |-> s] /\ active = [c \in {} |-> <<>>] /\ frameCallbacks = {}

\* install_frame_callback does not advance the counter.
BeginSameId(c) ==
  /\ pc[c] = "idle" /\ MayStep(c)
  /\ counter <= MaxId
  /\ ~Fails("payload") /\ Counted("payload")
  /\ callbackId' = [callbackId EXCEPT ![c] = counter]
  /\ frameCallbacks' = frameCallbacks \cup {counter}
  /\ slots' = [slots EXCEPT ![c] = <<>>]
  /\ Goto(c, "announce")
  /\ UNCHANGED <<pending, dropping, counter, announced, active, deliverVars>>

\* frame_revoke_all clears the table of every camera, as the adapter does.
RevokeEverything(c) ==
  /\ pc[c] = "revoke" /\ MayStep(c)
  /\ announced' = [s \in {} |-> s]
  /\ Goto(c, "uninstall")
  /\ UNCHANGED <<callbackId, slots, pending, dropping, counter, active, frameCallbacks,
                 failVars, deliverVars>>

-----------------------------------------------------------------------------
InitCameras ==
  /\ pc = [c \in Cameras |-> "closed"]
  /\ callbackId = [c \in Cameras |-> 0]
  /\ slots = [c \in Cameras |-> <<>>]
  /\ pending = [c \in Cameras |-> <<>>]
  /\ dropping = [c \in Cameras |-> FALSE]

InitTables ==
  /\ counter = 1
  /\ announced = [s \in {} |-> s] /\ active = [c \in {} |-> <<>>] /\ frameCallbacks = {}

InitConfig ==
  /\ counters = [m \in MethodNames |-> 0]
  /\ failures = {} /\ armed = {}

InitDelivery ==
  /\ concurrent \in BOOLEAN
  /\ picked = {}
  /\ invoking = [c \in Cameras |-> {}]

Init == InitCameras /\ InitTables /\ InitConfig /\ InitDelivery

-----------------------------------------------------------------------------
(* Failure injection. *)

\* fail_next(m, err) is fail_nth(m, 0, err).
FailNext(m) ==
  /\ Cardinality(failures) < MaxRigged
  /\ failures' = failures \cup {<<m, 0>>}
  /\ armed' = armed \cup {m}
  /\ UNCHANGED <<cameraVars, tableVars, counters, deliverVars>>

FailNth(m, skip) ==
  /\ skip > 0 /\ Cardinality(failures) < MaxRigged
  /\ failures' = failures \cup {<<m, skip>>}
  /\ UNCHANGED <<cameraVars, tableVars, counters, armed, deliverVars>>

-----------------------------------------------------------------------------
(* Camera::open, start_capture, stop_capture and Drop, as in FrameCapture. *)

OpenCamera(c) ==
  /\ pc[c] = "closed" /\ MayStep(c)
  /\ Goto(c, "idle")
  /\ UNCHANGED <<callbackId, slots, pending, dropping, tableVars, failVars, deliverVars>>

\* payload_size and install_frame_callback.
BeginCapture(c) ==
  /\ pc[c] = "idle" /\ MayStep(c)
  /\ counter <= MaxId
  /\ ~Fails("payload") /\ Counted("payload")
  /\ callbackId' = [callbackId EXCEPT ![c] = counter]
  /\ frameCallbacks' = frameCallbacks \cup {counter}
  /\ counter' = counter + 1
  /\ slots' = [slots EXCEPT ![c] = <<>>]
  /\ Goto(c, "announce")
  /\ UNCHANGED <<pending, dropping, announced, active, deliverVars>>

PayloadFails(c) ==
  /\ pc[c] = "idle" /\ MayStep(c)
  /\ Fails("payload") /\ Counted("payload")
  /\ UNCHANGED <<cameraVars, tableVars, deliverVars>>

AnnounceFrame(c) ==
  /\ pc[c] = "announce" /\ MayStep(c)
  /\ Len(slots[c]) < NumBuffers
  /\ ~Fails("announce") /\ Counted("announce")
  /\ announced' = [s \in DOMAIN announced \cup {counter} |->
                     IF s = counter THEN c ELSE announced[s]]
  /\ slots' = [slots EXCEPT ![c] = Append(@, counter)]
  /\ counter' = counter + 1
  /\ UNCHANGED <<pc, callbackId, pending, dropping, active, frameCallbacks, deliverVars>>

\* entry(h).or_default(): slots queued before capture_start stay.
CaptureStart(c) ==
  /\ pc[c] = "announce" /\ MayStep(c)
  /\ Len(slots[c]) >= NumBuffers
  /\ ~Fails("start") /\ Counted("start")
  /\ active' = [d \in DOMAIN active \cup {c} |->
                  IF d \in DOMAIN active THEN active[d] ELSE <<>>]
  /\ pending' = [pending EXCEPT ![c] = slots[c]]
  /\ Goto(c, "queue")
  /\ UNCHANGED <<callbackId, slots, dropping, counter, announced, frameCallbacks, deliverVars>>

\* push on the entry of the camera, which is made when it is missing.
Pushed(c, entry) ==
  [d \in DOMAIN active \cup {c} |->
     IF d # c THEN active[d]
     ELSE Append(IF c \in DOMAIN active THEN active[c] ELSE <<>>, entry)]

QueueFrame(c) ==
  /\ pc[c] = "queue" /\ MayStep(c)
  /\ pending[c] # <<>>
  /\ ~Fails("queue") /\ Counted("queue")
  /\ active' = Pushed(c, <<Head(pending[c]), callbackId[c]>>)
  /\ pending' = [pending EXCEPT ![c] = Tail(@)]
  /\ UNCHANGED <<pc, callbackId, slots, dropping, counter, announced, frameCallbacks, deliverVars>>

\* run_feature_command("AcquisitionStart"); the session is stored.
AcquisitionStart(c) ==
  /\ pc[c] = "queue" /\ MayStep(c)
  /\ pending[c] = <<>>
  /\ ~Fails("command") /\ Counted("command")
  /\ Goto(c, "running")
  /\ UNCHANGED <<callbackId, slots, pending, dropping, tableVars, deliverVars>>

\* The method start_capture calls next.
NextMethod(c) ==
  IF pc[c] = "announce"
  THEN IF Len(slots[c]) < NumBuffers THEN "announce" ELSE "start"
  ELSE IF pending[c] # <<>> THEN "queue" ELSE "command"

\* It fails, and start_capture unwinds.
StartFails(c) ==
  /\ pc[c] \in Starting /\ MayStep(c)
  /\ Fails(NextMethod(c)) /\ Counted(NextMethod(c))
  /\ Goto(c, "end")
  /\ UNCHANGED <<callbackId, slots, pending, dropping, tableVars, deliverVars>>

StopCapture(c) ==
  /\ pc[c] = "running" /\ MayStep(c)
  /\ Goto(c, "command")
  /\ UNCHANGED <<callbackId, slots, pending, dropping, tableVars, failVars, deliverVars>>

\* run_feature_command("AcquisitionStop"): counted like any command, and a failure
\* it meets is used up and swallowed.
AcquisitionStop(c) ==
  /\ pc[c] = "command" /\ MayStep(c)
  /\ Counted("command")
  /\ Goto(c, "end")
  /\ UNCHANGED <<callbackId, slots, pending, dropping, tableVars, deliverVars>>

CaptureEnd(c) ==
  /\ pc[c] = "end" /\ MayStep(c)
  /\ active' = Without(active, c)
  /\ Goto(c, "revoke")
  /\ UNCHANGED <<callbackId, slots, pending, dropping, counter, announced, frameCallbacks,
                 failVars, deliverVars>>

FrameRevokeAll(c) ==
  /\ pc[c] = "revoke" /\ MayStep(c)
  /\ announced' = [s \in {t \in DOMAIN announced : announced[t] # c} |-> announced[s]]
  /\ Goto(c, "uninstall")
  /\ UNCHANGED <<callbackId, slots, pending, dropping, counter, active, frameCallbacks,
                 failVars, deliverVars>>

UninstallFrameCallback(c) ==
  /\ pc[c] = "uninstall" /\ MayStep(c)
  /\ frameCallbacks' = frameCallbacks \ {callbackId[c]}
  /\ callbackId' = [callbackId EXCEPT ![c] = 0]
  /\ slots' = [slots EXCEPT ![c] = <<>>]
  /\ pending' = [pending EXCEPT ![c] = <<>>]
  /\ Goto(c, IF dropping[c] THEN "close" ELSE "idle")
  /\ UNCHANGED <<dropping, counter, announced, active, failVars, deliverVars>>

DropCamera(c) ==
  /\ pc[c] \in {"idle", "running"} /\ MayStep(c)
  /\ dropping' = [dropping EXCEPT ![c] = TRUE]
  /\ Goto(c, IF pc[c] = "running" THEN "command" ELSE "close")
  /\ UNCHANGED <<callbackId, slots, pending, tableVars, failVars, deliverVars>>

CloseCamera(c) ==
  /\ pc[c] = "close" /\ MayStep(c)
  /\ active' = Without(active, c)
  /\ dropping' = [dropping EXCEPT ![c] = FALSE]
  /\ Goto(c, "closed")
  /\ UNCHANGED <<callbackId, slots, pending, counter, announced, frameCallbacks,
                 failVars, deliverVars>>

-----------------------------------------------------------------------------
(* What a test does itself. *)

\* deliver_frame copies the first queued slot, which stays queued ...
PickFrame(c) ==
  /\ MayDeliver
  /\ picked = {} /\ invoking[c] = {}
  /\ c \in DOMAIN active /\ active[c] # <<>>
  /\ picked' = {<<c, Head(active[c])[1], Head(active[c])[2]>>}
  /\ UNCHANGED <<cameraVars, tableVars, failVars, concurrent, invoking>>

\* ... then looks its closure up and invokes it, with a frame ID from the same
\* counter ...
InvokeClosure(c) ==
  /\ counter <= MaxId
  /\ counter' = counter + 1
  /\ \E p \in picked :
       /\ p[1] = c
       /\ p[3] \in frameCallbacks
       /\ invoking' = [invoking EXCEPT ![c] = @ \cup {<<p[2], p[3]>>}]
  /\ picked' = {}
  /\ UNCHANGED <<cameraVars, announced, active, frameCallbacks, failVars, concurrent>>

\* ... or answers false when it is gone.
ClosureGone(c) ==
  /\ \E p \in picked : p[1] = c /\ p[3] \notin frameCallbacks
  /\ picked' = {}
  /\ UNCHANGED <<cameraVars, tableVars, failVars, concurrent, invoking>>

ClosureReturns(c) ==
  /\ \E call \in invoking[c] : invoking' = [invoking EXCEPT ![c] = @ \ {call}]
  /\ UNCHANGED <<cameraVars, tableVars, failVars, concurrent, picked>>

\* A test calls queue_frame itself, with a slot and a closure of its choice: nothing
\* is asked of the camera but that it is open.
QueueByHand(c, slot, cb) ==
  /\ pc[c] # "closed" /\ MayStep(c)
  /\ ~Fails("queue") /\ Counted("queue")
  /\ active' = Pushed(c, <<slot, cb>>)
  /\ UNCHANGED <<cameraVars, counter, announced, frameCallbacks, deliverVars>>

-----------------------------------------------------------------------------
Next ==
  \/ \E m \in Methods :
       FailNext(m) \/ \E skip \in 1 .. MaxCalls - 1 : FailNth(m, skip)
  \/ \E c \in Cameras :
       \/ OpenCamera(c) \/ BeginCapture(c) \/ PayloadFails(c)
       \/ AnnounceFrame(c) \/ CaptureStart(c) \/ QueueFrame(c) \/ AcquisitionStart(c)
       \/ StartFails(c)
       \/ StopCapture(c) \/ AcquisitionStop(c) \/ CaptureEnd(c) \/ FrameRevokeAll(c)
       \/ UninstallFrameCallback(c) \/ DropCamera(c) \/ CloseCamera(c)
       \/ PickFrame(c) \/ InvokeClosure(c) \/ ClosureGone(c) \/ ClosureReturns(c)

Spec == Init /\ [][Next]_vars

\* A test that also calls queue_frame itself.
HandSpec == Init /\ [][Next \/ \E c \in Cameras : QueueByHand(c, counter, counter)]_vars

-----------------------------------------------------------------------------
(* Properties. *)

\* Every variable has its type.
CameraTypeOK ==
  /\ pc \in [Cameras -> PCs]
  /\ callbackId \in [Cameras -> Nat]
  /\ slots \in [Cameras -> Seq(Nat)] /\ pending \in [Cameras -> Seq(Nat)]
  /\ dropping \in [Cameras -> BOOLEAN]

TableTypeOK ==
  /\ counter \in Nat \ {0}
  /\ DOMAIN announced \subseteq Nat /\ announced \in [DOMAIN announced -> Cameras]
  /\ DOMAIN active \subseteq Cameras /\ active \in [DOMAIN active -> Seq(Nat \X Nat)]
  /\ frameCallbacks \subseteq Nat

FailTypeOK ==
  /\ counters \in [MethodNames -> Nat]
  /\ failures \subseteq MethodNames \X Nat /\ armed \subseteq MethodNames

DeliverTypeOK ==
  /\ concurrent \in BOOLEAN
  /\ picked \subseteq Cameras \X Nat \X Nat
  /\ invoking \in [Cameras -> SUBSET (Nat \X Nat)]

TypeOK == CameraTypeOK /\ TableTypeOK /\ FailTypeOK /\ DeliverTypeOK

\* Whatever is rigged to fail, and whenever, the fake's tables hold what the
\* captures under way need and nothing else: the error path of start_capture and
\* the teardown leave no slot, no queue and no closure behind, and take nothing of
\* another camera's away; in a running capture each slot is queued once, in order,
\* with the session's closure, so that deliver_frame reaches it.
TablesExact ==
  LET inCapture(c) == pc[c] \notin {"closed", "idle", "close"}
      slotsOf(c) == {slots[c][i] : i \in DOMAIN slots[c]}
  IN /\ frameCallbacks = {callbackId[c] : c \in {d \in Cameras : inCapture(d)}}
     /\ \A c \in Cameras :
          /\ {s \in DOMAIN announced : announced[s] = c} =
               IF pc[c] = "uninstall" THEN {} ELSE slotsOf(c)
          /\ pc[c] = "running" =>
               /\ c \in DOMAIN active
               /\ active[c] = [i \in 1 .. NumBuffers |-> <<slots[c][i], callbackId[c]>>]

\* "queue_frame must only be called between capture_start and capture_end.  The adapter
\* is free to enforce this at runtime (and the fake does so aggressively)" (port.rs):
\* the fake has slots queued for a camera only there.
QueuedInCapture ==
  \A c \in DOMAIN active : pc[c] \in {"queue", "running", "command", "end"}

\* "Make the skip-th future call to method return err" (fail_nth), for skip 0: the
\* next call of a method fails once fail_next has been called for it.
FailNextFails ==
  [][\A m \in armed : counters'[m] # counters[m] => <<m, counters[m]>> \in failures]_vars

\* What the program sees: the contract the FFI adapter keeps as well.
Phase(c) ==
  IF pc[c] \in Starting THEN "starting"
  ELSE IF pc[c] \in Stopping THEN "stopping"
  ELSE IF pc[c] = "close" THEN "idle" ELSE pc[c]

Contract == INSTANCE CaptureContract WITH
  phase <- [c \in Cameras |-> Phase(c)],
  closure <- callbackId,
  calls <- [c \in Cameras |-> IF concurrent THEN {} ELSE invoking[c]]

\* A Camera over the fake keeps the promise it keeps over the adapter.  What is said
\* of the closure holds in a test that delivers from the thread of its Camera: from
\* another thread deliver_frame may invoke it after the capture has ended.
ContractSpec == Contract!Spec
=============================================================================
