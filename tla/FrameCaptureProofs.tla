------------------------- MODULE FrameCaptureProofs -------------------------
(***************************************************************************)
(* Theorems about FrameCapture, for any set of cameras, any number of      *)
(* buffers and any bound on the IDs.                                       *)
(***************************************************************************)
EXTENDS FrameCapture, TLAPS

-----------------------------------------------------------------------------
(* Types. *)

LEMMA InitType == Init => TypeOK
BY CaptureAssumption DEF Init, InitApp, InitFfi, InitSdk, Noop,
   TypeOK, AppTypeOK, FfiTypeOK, SdkTypeOK, PCs

\* The steps of the application threads keep the types.
LEMMA AppStepType ==
  ASSUME TypeOK, NEW c \in Cameras,
         OpenCamera(c) \/ BeginCapture(c) \/ StopCapture(c) \/ DropCamera(c) \/ CallStep(c)
  PROVE  TypeOK'
<1> USE DEF TypeOK, appVars, ffiVars, sdkVars, tramVars, Goto, PCs, Starting, Stopping
<1>1. CASE OpenCamera(c)
  BY <1>1 DEF OpenCamera, AppTypeOK, FfiTypeOK, SdkTypeOK
<1>2. CASE BeginCapture(c)
  BY <1>2 DEF BeginCapture, AppTypeOK, FfiTypeOK, SdkTypeOK
<1>3. CASE StopCapture(c) \/ DropCamera(c)
  BY <1>3 DEF StopCapture, DropCamera, AppTypeOK, FfiTypeOK, SdkTypeOK
<1>4. CASE AnnounceFrame(c)
  BY <1>4 DEF AnnounceFrame, WithContext, Noop, AppTypeOK, FfiTypeOK, SdkTypeOK
<1>5. CASE AnnounceFails(c) \/ CaptureStartFails(c) \/ QueueUnknown(c) \/ AcquisitionStartFails(c)
  BY <1>5 DEF AnnounceFails, CaptureStartFails, QueueUnknown, AcquisitionStartFails, AbortCapture,
              AppTypeOK, FfiTypeOK, SdkTypeOK
<1>6. CASE CaptureStart(c)
  BY <1>6 DEF CaptureStart, AppTypeOK, FfiTypeOK, SdkTypeOK
<1>7. CASE QueueFrame(c)
  BY <1>7 DEF QueueFrame, WithContext, AppTypeOK, FfiTypeOK, SdkTypeOK
<1>8. CASE QueueFails(c)
  BY <1>8 DEF QueueFails, WithContext, AppTypeOK, FfiTypeOK, SdkTypeOK
<1>9. CASE AcquisitionStart(c) \/ AcquisitionStop(c)
  BY <1>9 DEF AcquisitionStart, AcquisitionStop, AppTypeOK, FfiTypeOK, SdkTypeOK
<1>10. CASE CaptureEnd(c) \/ CaptureEnded(c) \/ CaptureQueueFlush(c)
  BY <1>10 DEF CaptureEnd, CaptureEnded, CaptureQueueFlush, AppTypeOK, FfiTypeOK, SdkTypeOK
<1>11. CASE FrameRevokeAll(c)
  BY <1>11 DEF FrameRevokeAll, AppTypeOK, FfiTypeOK, SdkTypeOK
<1>12. CASE UninstallFrameCallback(c)
  BY <1>12 DEF UninstallFrameCallback, AppTypeOK, FfiTypeOK, SdkTypeOK
<1>13. CASE CloseCamera(c)
  BY <1>13 DEF CloseCamera, AppTypeOK, FfiTypeOK, SdkTypeOK
<1> QED
  BY <1>1, <1>2, <1>3, <1>4, <1>5, <1>6, <1>7, <1>8, <1>9, <1>10, <1>11, <1>12, <1>13 DEF CallStep

\* So do the steps of the SDK threads.
LEMMA SdkStepType ==
  ASSUME TypeOK, NEW c \in Cameras,
         Deliver(c) \/ \E s \in InFlight(c) : TrampolineStep(c, s)
  PROVE  TypeOK'
<1> USE DEF TypeOK, appVars, ffiVars, sdkVars, tramVars
<1>1. CASE Deliver(c)
  BY <1>1 DEF Deliver, AppTypeOK, FfiTypeOK, SdkTypeOK
<1>2. ASSUME NEW s \in InFlight(c), TrampolineStep(c, s) PROVE TypeOK'
  <2>0. s \in Nat
    BY DEF InFlight, SdkTypeOK
  <2>1. CASE Invoke(c, s)
    <3>1. \A k \in ReadCallback(s) : k \in Nat
      BY DEF ReadCallback, FfiTypeOK
    <3> QED
      BY <2>0, <2>1, <3>1 DEF Invoke, AppTypeOK, FfiTypeOK, SdkTypeOK
  <2>2. CASE SkipIncomplete(c, s)
    <3>1. /\ UNCHANGED <<appVars, ffiVars, sdkVars, invoking>>
          /\ entered' \in [Cameras -> SUBSET Nat]
          /\ requeueing' \in [Cameras -> SUBSET Nat]
      BY <2>0, <2>2 DEF SkipIncomplete, SdkTypeOK
    <3> QED
      BY <3>1 DEF AppTypeOK, FfiTypeOK, SdkTypeOK
  <2>3. CASE ClosureReturns(c, s) \/ ClosurePanics(c, s)
    <3>1. /\ UNCHANGED <<appVars, ffiVars, sdkVars, entered>>
          /\ requeueing' = [requeueing EXCEPT ![c] = @ \cup {s}] \/ requeueing' = requeueing
          /\ \E call \in invoking[c] : invoking' = [invoking EXCEPT ![c] = @ \ {call}]
      BY <2>3 DEF ClosureReturns, ClosurePanics
    <3>2. invoking' \in [Cameras -> SUBSET (Nat \X Nat)]
      <4>1. PICK call \in invoking[c] : invoking' = [invoking EXCEPT ![c] = @ \ {call}]
        BY <3>1
      <4>2. invoking[c] \ {call} \in SUBSET (Nat \X Nat)
        BY DEF SdkTypeOK
      <4> QED
        BY <4>1, <4>2 DEF SdkTypeOK
    <3>3. requeueing' \in [Cameras -> SUBSET Nat]
      BY <2>0, <3>1 DEF SdkTypeOK
    <3> QED
      BY <3>1, <3>2, <3>3 DEF AppTypeOK, FfiTypeOK, SdkTypeOK
  <2>4. CASE Requeue(c, s)
    BY <2>0, <2>4 DEF Requeue, AppTypeOK, FfiTypeOK, SdkTypeOK
  <2> QED
    BY <1>2, <2>1, <2>2, <2>3, <2>4 DEF TrampolineStep
<1> QED
  BY <1>1, <1>2

LEMMA NextType == TypeOK /\ [Next]_vars => TypeOK'
<1>1. ASSUME TypeOK, UNCHANGED vars PROVE TypeOK'
  BY <1>1 DEF TypeOK, AppTypeOK, FfiTypeOK, SdkTypeOK,
              vars, appVars, ffiVars, sdkVars, tramVars
<1> QED
  BY <1>1, AppStepType, SdkStepType DEF Next

\* Every variable keeps its type.
THEOREM TypeCorrect == Spec => []TypeOK
BY InitType, NextType, PTL DEF Spec

-----------------------------------------------------------------------------
(* Handles: an open Camera resolves, so no port call of a live Camera takes    *)
(* the early return of an unknown handle.                                      *)

HandleInv ==
  /\ \A i \in cameras : 0 < i /\ i < counter
  /\ \A c \in Cameras : IF pc[c] = "closed" THEN handle[c] = 0 ELSE handle[c] \in cameras
  /\ \A c, d \in Cameras : c # d /\ pc[c] # "closed" => handle[c] # handle[d]

LEMMA InitHandle == Init => HandleInv
BY DEF Init, InitApp, InitFfi, HandleInv

LEMMA NextHandle == TypeOK /\ HandleInv /\ [Next]_vars => HandleInv'
<1> SUFFICES ASSUME TypeOK, HandleInv, [Next]_vars PROVE HandleInv'
  OBVIOUS
<1> USE DEF appVars, ffiVars, sdkVars, tramVars, Goto, PCs, Starting, Stopping
<1>1. CASE UNCHANGED <<pc, handle, counter, cameras>>
  BY <1>1 DEF HandleInv
<1>2. ASSUME NEW c \in Cameras, OpenCamera(c) PROVE HandleInv'
  BY <1>2 DEF OpenCamera, HandleInv, TypeOK, AppTypeOK, FfiTypeOK
<1>3. ASSUME NEW c \in Cameras, CloseCamera(c) PROVE HandleInv'
  <2>1. /\ pc[c] = "close" /\ pc' = [pc EXCEPT ![c] = "closed"]
        /\ handle' = [handle EXCEPT ![c] = 0]
        /\ cameras' = cameras \ {handle[c]} /\ counter' = counter
    BY <1>3 DEF CloseCamera
  <2>2. \A d \in Cameras \ {c} : pc'[d] = pc[d] /\ handle'[d] = handle[d]
    BY <2>1 DEF TypeOK, AppTypeOK
  <2>3. pc'[c] = "closed" /\ handle'[c] = 0
    BY <2>1 DEF TypeOK, AppTypeOK
  <2>4. \A d \in Cameras \ {c} : pc[d] # "closed" => handle[d] \in cameras \ {handle[c]} /\ handle[d] # 0
    BY DEF HandleInv
  <2> QED
    BY <2>1, <2>2, <2>3, <2>4 DEF HandleInv
<1>4. ASSUME NEW c \in Cameras, pc[c] # "closed",
             pc'[c] # "closed", \A d \in Cameras \ {c} : pc'[d] = pc[d],
             counter' \in Nat, counter' >= counter, UNCHANGED <<handle, cameras>>
      PROVE  HandleInv'
  BY <1>4 DEF HandleInv, TypeOK, AppTypeOK, FfiTypeOK
<1>5. ASSUME NEW c \in Cameras, BeginCapture(c) \/ StopCapture(c) \/ DropCamera(c) PROVE HandleInv'
  BY <1>4, <1>5 DEF BeginCapture, StopCapture, DropCamera, TypeOK, AppTypeOK, FfiTypeOK
<1>6. ASSUME NEW c \in Cameras, CallStep(c) PROVE HandleInv'
  <2>1. CASE AnnounceFrame(c)
    BY <2>1 DEF AnnounceFrame, HandleInv, TypeOK, AppTypeOK, FfiTypeOK
  <2>2. CASE QueueFrame(c)
    BY <1>1, <2>2 DEF QueueFrame
  <2>3. CASE CloseCamera(c)
    BY <1>3, <2>3
  <2>4. CASE AnnounceFails(c) \/ CaptureStartFails(c) \/ QueueUnknown(c) \/ AcquisitionStartFails(c)
    BY <1>4, <2>4 DEF AnnounceFails, CaptureStartFails, QueueUnknown, AcquisitionStartFails,
                      AbortCapture, TypeOK, AppTypeOK, FfiTypeOK
  <2>5. CASE CaptureStart(c)
    BY <1>4, <2>5 DEF CaptureStart, TypeOK, AppTypeOK, FfiTypeOK
  <2>6. CASE QueueFails(c)
    BY <1>4, <2>6 DEF QueueFails, TypeOK, AppTypeOK, FfiTypeOK
  <2>7. CASE AcquisitionStart(c)
    BY <1>4, <2>7 DEF AcquisitionStart, TypeOK, AppTypeOK, FfiTypeOK
  <2>8. CASE AcquisitionStop(c)
    BY <1>4, <2>8 DEF AcquisitionStop, TypeOK, AppTypeOK, FfiTypeOK
  <2>9. CASE CaptureEnd(c)
    BY <1>4, <2>9 DEF CaptureEnd, TypeOK, AppTypeOK, FfiTypeOK
  <2>10. CASE CaptureEnded(c)
    BY <1>4, <2>10 DEF CaptureEnded, TypeOK, AppTypeOK, FfiTypeOK
  <2>11. CASE CaptureQueueFlush(c)
    BY <1>4, <2>11 DEF CaptureQueueFlush, TypeOK, AppTypeOK, FfiTypeOK
  <2>12. CASE FrameRevokeAll(c)
    <3>1. pc[c] = "revoke" /\ pc' = [pc EXCEPT ![c] = "uninstall"] /\ UNCHANGED <<handle, cameras, counter>>
      BY <2>12 DEF FrameRevokeAll
    <3> QED
      BY <1>4, <3>1 DEF TypeOK, AppTypeOK, FfiTypeOK
  <2>13. CASE UninstallFrameCallback(c)
    BY <1>4, <2>13 DEF UninstallFrameCallback, TypeOK, AppTypeOK, FfiTypeOK
  <2> QED
    BY <1>6, <2>1, <2>2, <2>3, <2>4, <2>5, <2>6, <2>7, <2>8, <2>9, <2>10, <2>11, <2>12, <2>13 DEF CallStep
<1>7. ASSUME NEW c \in Cameras, Deliver(c) \/ \E s \in InFlight(c) : TrampolineStep(c, s)
      PROVE  HandleInv'
  BY <1>1, <1>7 DEF Deliver, TrampolineStep, Invoke, SkipIncomplete, ClosureReturns,
                    ClosurePanics, Requeue
<1>8. CASE UNCHANGED vars
  BY <1>1, <1>8 DEF vars
<1> QED
  BY <1>2, <1>5, <1>6, <1>7, <1>8 DEF Next

-----------------------------------------------------------------------------
(* Closures: frame_callbacks holds exactly the closures of the captures under  *)
(* way.  Two captures never share an ID, because both took it off the counter. *)

Busy == Starting \cup Stopping \cup {"running"}

ClosureInv ==
  /\ \A c \in Cameras : pc[c] \in Busy => callbackId[c] < counter
  /\ \A c, d \in Cameras : c # d /\ pc[c] \in Busy /\ pc[d] \in Busy => callbackId[c] # callbackId[d]
  /\ RegistryExact

LEMMA InitClosure == Init => ClosureInv
BY DEF Init, InitApp, InitFfi, ClosureInv, RegistryExact, Busy, Starting, Stopping

LEMMA NextClosure == TypeOK /\ ClosureInv /\ [Next]_vars => ClosureInv'
<1> SUFFICES ASSUME TypeOK, ClosureInv, [Next]_vars PROVE ClosureInv'
  OBVIOUS
<1> USE DEF appVars, ffiVars, sdkVars, tramVars, Goto, Busy, Starting, Stopping
<1>1. CASE UNCHANGED <<pc, callbackId, counter, frameCallbacks>>
  BY <1>1 DEF ClosureInv, RegistryExact
\* A step that neither begins nor ends a capture.
<1>2. ASSUME NEW c \in Cameras, pc[c] \in Busy <=> pc'[c] \in Busy,
             \A d \in Cameras \ {c} : pc'[d] = pc[d],
             counter' \in Nat, counter' >= counter, UNCHANGED <<callbackId, frameCallbacks>>
      PROVE  ClosureInv'
  <2>1. \A d \in Cameras : pc[d] \in Busy <=> pc'[d] \in Busy
    BY <1>2
  <2>2. RegistryExact'
    BY <1>2, <2>1 DEF ClosureInv, RegistryExact
  <2> QED
    BY <1>2, <2>1, <2>2 DEF ClosureInv, TypeOK, AppTypeOK, FfiTypeOK
<1>3. ASSUME NEW c \in Cameras, BeginCapture(c) PROVE ClosureInv'
  <2>1. /\ pc[c] = "idle" /\ pc' = [pc EXCEPT ![c] = "announce"]
        /\ callbackId' = [callbackId EXCEPT ![c] = counter]
        /\ frameCallbacks' = frameCallbacks \cup {counter}
        /\ counter' = counter + 1
    BY <1>3 DEF BeginCapture
  <2>2. \A d \in Cameras \ {c} : pc'[d] = pc[d] /\ callbackId'[d] = callbackId[d]
    BY <2>1 DEF TypeOK, AppTypeOK
  <2>3. pc'[c] = "announce" /\ callbackId'[c] = counter
    BY <2>1 DEF TypeOK, AppTypeOK
  <2>4. RegistryExact'
    BY <2>1, <2>2, <2>3 DEF ClosureInv, RegistryExact
  <2> QED
    BY <2>1, <2>2, <2>3, <2>4 DEF ClosureInv, TypeOK, AppTypeOK, FfiTypeOK
<1>4. ASSUME NEW c \in Cameras, UninstallFrameCallback(c) PROVE ClosureInv'
  <2>1. /\ pc[c] = "uninstall" /\ pc' = [pc EXCEPT ![c] = IF dropping[c] THEN "close" ELSE "idle"]
        /\ callbackId' = [callbackId EXCEPT ![c] = 0]
        /\ frameCallbacks' = frameCallbacks \ {callbackId[c]}
        /\ counter' = counter
    BY <1>4 DEF UninstallFrameCallback
  <2>2. \A d \in Cameras \ {c} : pc'[d] = pc[d] /\ callbackId'[d] = callbackId[d]
    BY <2>1 DEF TypeOK, AppTypeOK
  <2>3. pc'[c] \notin Busy
    BY <2>1 DEF TypeOK, AppTypeOK
  <2>4. RegistryExact'
    BY <2>1, <2>2, <2>3 DEF ClosureInv, RegistryExact
  <2> QED
    BY <2>1, <2>2, <2>3, <2>4 DEF ClosureInv
<1>5. ASSUME NEW c \in Cameras, OpenCamera(c) \/ StopCapture(c) \/ DropCamera(c) \/ CallStep(c)
      PROVE  ClosureInv'
  <2> USE DEF TypeOK, AppTypeOK, FfiTypeOK
  <2>1. CASE OpenCamera(c)
    BY <1>2, <2>1 DEF OpenCamera
  <2>2. CASE StopCapture(c) \/ DropCamera(c)
    BY <1>2, <2>2 DEF StopCapture, DropCamera
  <2>3. CASE AnnounceFrame(c)
    BY <1>2, <2>3 DEF AnnounceFrame
  <2>4. CASE QueueFrame(c)
    BY <1>1, <2>4 DEF QueueFrame
  <2>5. CASE AnnounceFails(c) \/ CaptureStartFails(c) \/ QueueUnknown(c) \/ AcquisitionStartFails(c)
    BY <1>2, <2>5 DEF AnnounceFails, CaptureStartFails, QueueUnknown, AcquisitionStartFails, AbortCapture
  <2>6. CASE CaptureStart(c)
    BY <1>2, <2>6 DEF CaptureStart
  <2>7. CASE QueueFails(c)
    BY <1>2, <2>7 DEF QueueFails
  <2>8. CASE AcquisitionStart(c)
    BY <1>2, <2>8 DEF AcquisitionStart
  <2>9. CASE AcquisitionStop(c)
    BY <1>2, <2>9 DEF AcquisitionStop
  <2>10. CASE CaptureEnd(c)
    BY <1>2, <2>10 DEF CaptureEnd
  <2>11. CASE CaptureEnded(c)
    BY <1>2, <2>11 DEF CaptureEnded
  <2>12. CASE CaptureQueueFlush(c)
    BY <1>2, <2>12 DEF CaptureQueueFlush
  <2>13. CASE CloseCamera(c)
    BY <1>2, <2>13 DEF CloseCamera
  <2>14. CASE FrameRevokeAll(c)
    <3>1. pc[c] = "revoke" /\ pc' = [pc EXCEPT ![c] = "uninstall"] /\ UNCHANGED <<callbackId, frameCallbacks, counter>>
      BY <2>14 DEF FrameRevokeAll
    <3> QED
      BY <1>2, <3>1
  <2> QED
    BY <1>4, <1>5, <2>1, <2>2, <2>3, <2>4, <2>5, <2>6, <2>7, <2>8, <2>9, <2>10, <2>11, <2>12,
       <2>13, <2>14 DEF CallStep
<1>6. ASSUME NEW c \in Cameras, Deliver(c) \/ \E s \in InFlight(c) : TrampolineStep(c, s)
      PROVE  ClosureInv'
  BY <1>1, <1>6 DEF Deliver, TrampolineStep, Invoke, SkipIncomplete, ClosureReturns,
                    ClosurePanics, Requeue
<1>7. CASE UNCHANGED vars
  BY <1>1, <1>7 DEF vars
<1> QED
  BY <1>3, <1>5, <1>6, <1>7 DEF Next

\* FfiState.frame_callbacks holds the closures of the captures under way and no
\* other: no failure path of start_capture, no stop and no drop leaks a closure or
\* uninstalls one too many, however many cameras capture at once.
THEOREM RegistryTheorem == Spec => []RegistryExact
<1>1. Init => TypeOK /\ ClosureInv
  BY InitType, InitClosure
<1>2. TypeOK /\ ClosureInv /\ [Next]_vars => (TypeOK /\ ClosureInv)'
  BY NextType, NextClosure
<1>3. ClosureInv => RegistryExact
  BY DEF ClosureInv
<1> QED
  BY <1>1, <1>2, <1>3, PTL DEF Spec

-----------------------------------------------------------------------------
(* Contexts, when the program does not overlap captures and VmbFrameRevokeAll  *)
(* does what it is called for.  One camera at most is inside a capture, and a  *)
(* camera outside one has nothing at the SDK: so when frame_revoke_all clears  *)
(* FfiState.frames there is no context left that anybody uses.                 *)

ExclusiveInv ==
  \A c, d \in Cameras : c # d /\ pc[c] \in Busy => pc[d] \notin Busy

LEMMA InitExclusive == Init => ExclusiveInv
BY DEF Init, InitApp, ExclusiveInv, Busy, Starting, Stopping

LEMMA NextExclusive == ASSUME Serial PROVE TypeOK /\ ExclusiveInv /\ [Next]_vars => ExclusiveInv'
<1> SUFFICES ASSUME TypeOK, ExclusiveInv, [Next]_vars PROVE ExclusiveInv'
  OBVIOUS
<1> USE DEF appVars, ffiVars, sdkVars, tramVars, Goto, Busy, Starting, Stopping
<1>1. CASE UNCHANGED pc
  BY <1>1 DEF ExclusiveInv
\* A step that begins no capture.
<1>2. ASSUME NEW c \in Cameras, pc'[c] \in Busy => pc[c] \in Busy,
             \A d \in Cameras \ {c} : pc'[d] = pc[d]
      PROVE  ExclusiveInv'
  BY <1>2 DEF ExclusiveInv
<1>3. ASSUME NEW c \in Cameras, BeginCapture(c) PROVE ExclusiveInv'
  <2>1. pc' = [pc EXCEPT ![c] = "announce"] /\ \A d \in Cameras \ {c} : pc[d] \in {"closed", "idle"}
    BY <1>3 DEF BeginCapture
  <2> QED
    BY <2>1 DEF ExclusiveInv, TypeOK, AppTypeOK
<1>4. ASSUME NEW c \in Cameras, OpenCamera(c) \/ StopCapture(c) \/ DropCamera(c) \/ CallStep(c)
      PROVE  ExclusiveInv'
  <2> USE DEF TypeOK, AppTypeOK
  <2>1. CASE OpenCamera(c) \/ StopCapture(c) \/ DropCamera(c)
    BY <1>2, <2>1 DEF OpenCamera, StopCapture, DropCamera
  <2>2. CASE AnnounceFrame(c) \/ QueueFrame(c)
    BY <1>1, <2>2 DEF AnnounceFrame, QueueFrame
  <2>3. CASE AnnounceFails(c) \/ CaptureStartFails(c) \/ QueueUnknown(c) \/ AcquisitionStartFails(c)
    BY <1>2, <2>3 DEF AnnounceFails, CaptureStartFails, QueueUnknown, AcquisitionStartFails, AbortCapture
  <2>4. CASE CaptureStart(c) \/ AcquisitionStart(c) \/ AcquisitionStop(c)
    BY <1>2, <2>4 DEF CaptureStart, AcquisitionStart, AcquisitionStop
  <2>5. CASE QueueFails(c)
    BY <1>2, <2>5 DEF QueueFails
  <2>6. CASE CaptureEnd(c) \/ CaptureEnded(c) \/ CaptureQueueFlush(c)
    BY <1>2, <2>6 DEF CaptureEnd, CaptureEnded, CaptureQueueFlush
  <2>7. CASE FrameRevokeAll(c)
    <3>1. pc[c] = "revoke" /\ pc' = [pc EXCEPT ![c] = "uninstall"]
      BY <2>7 DEF FrameRevokeAll
    <3> QED
      BY <1>2, <3>1
  <2>8. CASE UninstallFrameCallback(c) \/ CloseCamera(c)
    BY <1>2, <2>8 DEF UninstallFrameCallback, CloseCamera
  <2> QED
    BY <1>4, <2>1, <2>2, <2>3, <2>4, <2>5, <2>6, <2>7, <2>8 DEF CallStep
<1>5. ASSUME NEW c \in Cameras, Deliver(c) \/ \E s \in InFlight(c) : TrampolineStep(c, s)
      PROVE  ExclusiveInv'
  BY <1>1, <1>5 DEF Deliver, TrampolineStep, Invoke, SkipIncomplete, ClosureReturns,
                    ClosurePanics, Requeue
<1>6. CASE UNCHANGED vars
  BY <1>1, <1>6 DEF vars
<1> QED
  BY <1>3, <1>4, <1>5, <1>6 DEF Next

\* A camera outside a capture, or past frame_revoke_all, has no frame at the SDK.
Outside == {"closed", "idle", "close", "uninstall"}

QuietInv ==
  \A c \in Cameras : pc[c] \in Outside =>
    announced[c] = {} /\ queued[c] = {} /\ InFlight(c) = {}

LEMMA InitQuiet == Init => QuietInv
BY DEF Init, InitSdk, QuietInv, InFlight

LEMMA NextQuiet ==
  ASSUME "revoke" \notin Faults
  PROVE  TypeOK /\ HandleInv /\ QuietInv /\ [Next]_vars => QuietInv'
<1> SUFFICES ASSUME TypeOK, HandleInv, QuietInv, [Next]_vars PROVE QuietInv'
  OBVIOUS
<1> USE DEF appVars, ffiVars, sdkVars, tramVars, Goto, Outside, Starting, Stopping
\* A step of a thread that leaves the SDK's frames alone.
<1>1. ASSUME NEW c \in Cameras, pc'[c] \in Outside => pc[c] \in Outside,
             \A d \in Cameras \ {c} : pc'[d] = pc[d],
             UNCHANGED <<announced, queued, tramVars>>
      PROVE  QuietInv'
  BY <1>1 DEF QuietInv, InFlight
\* A step of a camera inside a capture, which may touch its frames.
<1>2. ASSUME NEW c \in Cameras, pc'[c] \notin Outside,
             \A d \in Cameras \ {c} : /\ pc'[d] = pc[d]
                                       /\ announced'[d] = announced[d] /\ queued'[d] = queued[d]
                                       /\ entered'[d] = entered[d] /\ invoking'[d] = invoking[d]
                                       /\ requeueing'[d] = requeueing[d]
      PROVE  QuietInv'
  BY <1>2 DEF QuietInv, InFlight
<1>3. ASSUME NEW c \in Cameras,
             OpenCamera(c) \/ BeginCapture(c) \/ StopCapture(c) \/ DropCamera(c) \/ CallStep(c)
      PROVE  QuietInv'
  <2> USE DEF TypeOK, AppTypeOK, SdkTypeOK
  <2>1. CASE OpenCamera(c)
    BY <1>1, <2>1 DEF OpenCamera
  <2>2. CASE BeginCapture(c)
    BY <1>1, <2>2 DEF BeginCapture
  <2>3. CASE StopCapture(c) \/ DropCamera(c)
    BY <1>1, <2>3 DEF StopCapture, DropCamera
  <2>4. CASE AnnounceFrame(c)
    BY <1>2, <2>4 DEF AnnounceFrame
  <2>5. CASE AnnounceFails(c) \/ CaptureStartFails(c) \/ QueueUnknown(c) \/ AcquisitionStartFails(c)
    BY <1>1, <2>5 DEF AnnounceFails, CaptureStartFails, QueueUnknown, AcquisitionStartFails, AbortCapture
  <2>6. CASE CaptureStart(c)
    BY <1>1, <2>6 DEF CaptureStart
  <2>7. CASE QueueFrame(c)
    BY <1>2, <2>7 DEF QueueFrame
  <2>8. CASE QueueFails(c)
    BY <1>1, <2>8 DEF QueueFails
  <2>9. CASE AcquisitionStart(c) \/ AcquisitionStop(c)
    BY <1>1, <2>9 DEF AcquisitionStart, AcquisitionStop
  <2>10. CASE CaptureEnd(c) \/ CaptureEnded(c)
    BY <1>1, <2>10 DEF CaptureEnd, CaptureEnded
  <2>11. CASE CaptureQueueFlush(c)
    BY <1>2, <2>11 DEF CaptureQueueFlush
  <2>12. CASE FrameRevokeAll(c)
    <3>1. Resolves(c)
      BY <2>12 DEF FrameRevokeAll, HandleInv, Resolves
    <3>2. /\ InFlight(c) = {}
          /\ announced' = [announced EXCEPT ![c] = {}]
          /\ queued' = [queued EXCEPT ![c] = {}]
      BY <2>12, <3>1 DEF FrameRevokeAll, MayFail
    <3>3. pc' = [pc EXCEPT ![c] = "uninstall"] /\ UNCHANGED tramVars
      BY <2>12 DEF FrameRevokeAll
    <3> QED
      BY <3>2, <3>3 DEF QuietInv, InFlight
  <2>13. CASE UninstallFrameCallback(c)
    BY <1>1, <2>13 DEF UninstallFrameCallback
  <2>14. CASE CloseCamera(c)
    BY <1>1, <2>14 DEF CloseCamera
  <2> QED
    BY <1>3, <2>1, <2>2, <2>3, <2>4, <2>5, <2>6, <2>7, <2>8, <2>9, <2>10, <2>11, <2>12,
       <2>13, <2>14 DEF CallStep
<1>4. ASSUME NEW c \in Cameras, Deliver(c) \/ \E s \in InFlight(c) : TrampolineStep(c, s)
      PROVE  QuietInv'
  <2>1. pc[c] \notin Outside
    BY <1>4 DEF QuietInv, Deliver
  <2> QED
    BY <1>2, <1>4, <2>1 DEF Deliver, TrampolineStep, Invoke, SkipIncomplete, ClosureReturns,
                        ClosurePanics, Requeue, TypeOK, SdkTypeOK
<1>5. CASE UNCHANGED vars
  BY <1>5 DEF vars, QuietInv, InFlight
<1> QED
  BY <1>3, <1>4, <1>5 DEF Next

\* While one camera is inside a capture no other has a frame at the SDK.
LEMMA OthersQuiet ==
  ASSUME TypeOK, ExclusiveInv, QuietInv,
         NEW c \in Cameras, pc[c] \in Busy, NEW d \in Cameras \ {c}
  PROVE  announced[d] = {} /\ queued[d] = {} /\ InFlight(d) = {}
BY DEF TypeOK, AppTypeOK, PCs, ExclusiveInv, QuietInv, Outside, Busy

ContextInv ==
  /\ \A s \in DOMAIN frames : s < counter
  /\ ContextsAlive
  /\ \A c \in Cameras : \A s \in queued[c] \cup InFlight(c) : frames[s] = callbackId[c]
  /\ \A c \in Cameras : \A call \in invoking[c] : call[2] = callbackId[c]

SafeInv == TypeOK /\ HandleInv /\ ClosureInv /\ ExclusiveInv /\ QuietInv /\ ContextInv

LEMMA InitContext == Init => ContextInv
BY DEF Init, InitFfi, InitSdk, ContextInv, ContextsAlive, InFlight

LEMMA NextContext ==
  ASSUME Serial, "revoke" \notin Faults
  PROVE  SafeInv /\ QuietInv' /\ [Next]_vars => ContextInv'
<1> SUFFICES ASSUME SafeInv, QuietInv', [Next]_vars PROVE ContextInv'
  OBVIOUS
<1>0. TypeOK /\ HandleInv /\ ClosureInv /\ ExclusiveInv /\ QuietInv /\ ContextInv
  BY DEF SafeInv
<1> USE DEF appVars, ffiVars, sdkVars, tramVars, Goto
\* A step that touches neither contexts nor the frames at the SDK.
<1>1. CASE /\ UNCHANGED <<callbackId, frames, announced, queued, tramVars>>
           /\ counter' \in Nat /\ counter' >= counter
  BY <1>0, <1>1 DEF ContextInv, ContextsAlive, InFlight, TypeOK, FfiTypeOK
<1>2. ASSUME NEW c \in Cameras, OpenCamera(c) \/ StopCapture(c) \/ DropCamera(c) PROVE ContextInv'
  BY <1>0, <1>1, <1>2 DEF OpenCamera, StopCapture, DropCamera, TypeOK, FfiTypeOK
\* The closure of camera c changes while nothing of c is at the SDK.
<1>3. ASSUME NEW c \in Cameras, pc[c] \in Outside,
             \A d \in Cameras \ {c} : callbackId'[d] = callbackId[d],
             UNCHANGED <<frames, announced, queued, tramVars>>,
             counter' \in Nat, counter' >= counter
      PROVE  ContextInv'
  <2>1. announced[c] = {} /\ queued[c] = {} /\ InFlight(c) = {} /\ invoking[c] = {}
    BY <1>0, <1>3 DEF QuietInv, InFlight
  <2> QED
    BY <1>0, <1>3, <2>1 DEF ContextInv, ContextsAlive, InFlight, TypeOK, FfiTypeOK
<1>4. ASSUME NEW c \in Cameras, BeginCapture(c) PROVE ContextInv'
  BY <1>0, <1>3, <1>4 DEF BeginCapture, Outside, TypeOK, AppTypeOK, FfiTypeOK
<1>5. ASSUME NEW c \in Cameras, CallStep(c) PROVE ContextInv'
  <2>1. CASE AnnounceFrame(c)
    <3>1. /\ announced' = [announced EXCEPT ![c] = @ \cup {counter}]
          /\ frames' = WithContext(counter, Noop) /\ counter' = counter + 1
          /\ UNCHANGED <<callbackId, queued, tramVars>>
      BY <2>1 DEF AnnounceFrame
    <3>2. DOMAIN frames' = DOMAIN frames \cup {counter}
      BY <3>1 DEF WithContext
    <3>3. counter \notin DOMAIN frames /\ counter \in Nat
      BY <1>0 DEF ContextInv, TypeOK, FfiTypeOK
    <3>4. \A s \in DOMAIN frames : frames'[s] = frames[s]
      BY <3>1, <3>3 DEF WithContext
    <3>5. \A s \in DOMAIN frames' : s < counter'
      BY <1>0, <3>1, <3>2, <3>3 DEF ContextInv, TypeOK, FfiTypeOK
    <3>6. ContextsAlive'
      BY <1>0, <3>1, <3>2 DEF ContextInv, ContextsAlive, InFlight, TypeOK, SdkTypeOK
    <3>7. \A d \in Cameras : \A s \in queued[d] \cup InFlight(d) : frames'[s] = callbackId[d]
      BY <1>0, <3>4 DEF ContextInv, ContextsAlive
    <3> QED
      BY <1>0, <3>1, <3>5, <3>6, <3>7 DEF ContextInv, InFlight
  <2>2. CASE AnnounceFails(c) \/ CaptureStartFails(c) \/ QueueUnknown(c) \/ AcquisitionStartFails(c)
    BY <1>0, <1>1, <2>2 DEF AnnounceFails, CaptureStartFails, QueueUnknown, AcquisitionStartFails, AbortCapture, TypeOK, FfiTypeOK
  <2>3. CASE CaptureStart(c) \/ AcquisitionStart(c) \/ AcquisitionStop(c)
    BY <1>0, <1>1, <2>3 DEF CaptureStart, AcquisitionStart, AcquisitionStop, TypeOK, FfiTypeOK
  \* One context of camera c gets the closure of camera c.
  <2>4. ASSUME NEW s \in DOMAIN frames, pc[c] = "queue", frames' = WithContext(s, callbackId[c]),
               UNCHANGED <<callbackId, counter, announced, tramVars>>,
               queued' = queued \/ queued' = [queued EXCEPT ![c] = @ \cup {s}]
        PROVE  ContextInv'
    <3>1. DOMAIN frames' = DOMAIN frames /\ frames'[s] = callbackId[c]
          /\ \A t \in DOMAIN frames \ {s} : frames'[t] = frames[t]
      BY <2>4 DEF WithContext
    <3>2. \A d \in Cameras \ {c} : announced[d] = {} /\ queued[d] = {} /\ InFlight(d) = {}
      BY <1>0, <2>4, OthersQuiet DEF Busy, Starting
    <3>3. /\ \A d \in Cameras : InFlight(d)' = InFlight(d)
          /\ \A d \in Cameras \ {c} : queued'[d] = queued[d]
          /\ queued'[c] \subseteq queued[c] \cup {s}
      BY <1>0, <2>4 DEF InFlight, TypeOK, SdkTypeOK
    <3>4. ContextsAlive'
      BY <1>0, <2>4, <3>1, <3>3 DEF ContextInv, ContextsAlive
    <3>5. \A t \in queued[c] \cup InFlight(c) \cup {s} : frames'[t] = callbackId[c]
      BY <1>0, <3>1 DEF ContextInv, ContextsAlive
    <3>6. \A d \in Cameras : \A t \in queued'[d] \cup InFlight(d)' : frames'[t] = callbackId'[d]
      BY <2>4, <3>2, <3>3, <3>5
    <3> QED
      BY <1>0, <2>4, <3>1, <3>4, <3>6 DEF ContextInv
  <2>5. CASE QueueFrame(c)
    BY <2>4, <2>5 DEF QueueFrame, CanQueue
  <2>6. CASE QueueFails(c)
    BY <2>4, <2>6 DEF QueueFails, CanQueue
  <2>7. CASE CaptureEnd(c) \/ CaptureEnded(c)
    BY <1>0, <1>1, <2>7 DEF CaptureEnd, CaptureEnded, TypeOK, FfiTypeOK
  <2>8. CASE CaptureQueueFlush(c)
    <3>1. \A d \in Cameras : queued'[d] \subseteq queued[d]
      BY <1>0, <2>8 DEF CaptureQueueFlush, TypeOK, SdkTypeOK
    <3> QED
      BY <1>0, <2>8, <3>1 DEF CaptureQueueFlush, ContextInv, ContextsAlive, InFlight
  <2>9. CASE FrameRevokeAll(c)
    <3>1. Resolves(c)
      BY <1>0, <2>9 DEF FrameRevokeAll, HandleInv, Resolves
    <3>2. /\ pc[c] = "revoke" /\ pc' = [pc EXCEPT ![c] = "uninstall"]
          /\ frames' = [s \in {} |-> Noop] /\ UNCHANGED <<callbackId, counter>>
      BY <2>9, <3>1 DEF FrameRevokeAll
    <3>3. \A d \in Cameras \ {c} : announced[d] = {} /\ queued[d] = {} /\ InFlight(d) = {}
      BY <1>0, <3>2, OthersQuiet DEF Busy, Stopping
    <3>4. announced' = [announced EXCEPT ![c] = {}] /\ queued' = [queued EXCEPT ![c] = {}] /\ UNCHANGED tramVars
      BY <2>9, <3>1 DEF FrameRevokeAll, MayFail
    <3>5. InFlight(c) = {}
      BY <2>9, <3>1 DEF FrameRevokeAll, MayFail
    <3>6. \A d \in Cameras : announced'[d] = {} /\ queued'[d] = {} /\ InFlight(d)' = {} /\ invoking'[d] = {}
      <4>1. \A d \in Cameras : announced'[d] = {} /\ queued'[d] = {}
        BY <1>0, <3>3, <3>4 DEF TypeOK, SdkTypeOK
      <4>2. \A d \in Cameras : InFlight(d) = {}
        BY <3>3, <3>5
      <4>3. \A d \in Cameras : InFlight(d)' = InFlight(d) /\ invoking'[d] = invoking[d]
        BY <3>4 DEF InFlight
      <4>4. \A d \in Cameras : invoking[d] = {}
        BY <4>2 DEF InFlight
      <4> QED
        BY <4>1, <4>2, <4>3, <4>4
    <3> QED
      BY <3>2, <3>6 DEF ContextInv, ContextsAlive
  <2>10. CASE UninstallFrameCallback(c)
    BY <1>0, <1>3, <2>10 DEF UninstallFrameCallback, Outside, TypeOK, AppTypeOK, FfiTypeOK
  <2>11. CASE CloseCamera(c)
    BY <1>0, <1>1, <2>11 DEF CloseCamera, TypeOK, FfiTypeOK
  <2> QED
    BY <1>5, <2>1, <2>2, <2>3, <2>5, <2>6, <2>7, <2>8, <2>9, <2>10, <2>11 DEF CallStep
\* A frame moves between the queue and the stages of a trampoline.
<1>6. ASSUME NEW c \in Cameras, Deliver(c) \/ \E s \in InFlight(c) : TrampolineStep(c, s)
      PROVE  ContextInv'
  <2>1. UNCHANGED <<callbackId, counter, frames, announced>>
    BY <1>6 DEF Deliver, TrampolineStep, Invoke, SkipIncomplete, ClosureReturns, ClosurePanics, Requeue
  <2>2. \A d \in Cameras \ {c} : /\ queued'[d] = queued[d] /\ entered'[d] = entered[d]
                                 /\ invoking'[d] = invoking[d] /\ requeueing'[d] = requeueing[d]
    BY <1>0, <1>6 DEF Deliver, TrampolineStep, Invoke, SkipIncomplete, ClosureReturns, ClosurePanics,
                      Requeue, TypeOK, SdkTypeOK
  <2>3. /\ queued'[c] \cup InFlight(c)' \subseteq queued[c] \cup InFlight(c)
        /\ \A call \in invoking'[c] : call[2] = callbackId[c]
    <3>1. CASE Deliver(c)
      BY <1>0, <3>1 DEF Deliver, InFlight, ContextInv, TypeOK, SdkTypeOK
    <3>2. ASSUME NEW s \in InFlight(c), Invoke(c, s) PROVE <2>3
      <4>1. s \in DOMAIN frames /\ frames[s] = callbackId[c]
        BY <1>0 DEF ContextInv, ContextsAlive
      <4>2. invoking' = [invoking EXCEPT ![c] = @ \cup {<<s, callbackId[c]>>}]
        BY <3>2, <4>1 DEF Invoke, ReadCallback
      <4> QED
        BY <1>0, <3>2, <4>2 DEF Invoke, InFlight, ContextInv, TypeOK, SdkTypeOK
    <3>3. ASSUME NEW s \in InFlight(c),
                 SkipIncomplete(c, s) \/ ClosureReturns(c, s) \/ ClosurePanics(c, s)
          PROVE  <2>3
      BY <1>0, <3>3 DEF SkipIncomplete, ClosureReturns, ClosurePanics, InFlight, ContextInv,
                        TypeOK, SdkTypeOK
    <3>4. ASSUME NEW s \in InFlight(c), Requeue(c, s) PROVE <2>3
      BY <1>0, <3>4 DEF Requeue, InFlight, ContextInv, TypeOK, SdkTypeOK
    <3> QED
      BY <1>6, <3>1, <3>2, <3>3, <3>4 DEF TrampolineStep
  <2> QED
    BY <1>0, <2>1, <2>2, <2>3 DEF ContextInv, ContextsAlive, InFlight
<1>7. CASE UNCHANGED vars
  BY <1>0, <1>1, <1>7 DEF vars, TypeOK, FfiTypeOK
<1> QED
  BY <1>2, <1>4, <1>5, <1>6, <1>7 DEF Next

LEMMA SafeCorrect == ASSUME Serial, "revoke" \notin Faults PROVE Spec => []SafeInv
<1>1. Init => SafeInv
  BY InitType, InitHandle, InitClosure, InitExclusive, InitQuiet, InitContext DEF SafeInv
<1>2. SafeInv /\ [Next]_vars => SafeInv'
  BY NextType, NextHandle, NextClosure, NextExclusive, NextQuiet, NextContext DEF SafeInv
<1> QED
  BY <1>1, <1>2, PTL DEF Spec

\* A program that does not overlap captures, on an SDK whose VmbFrameRevokeAll
\* succeeds, never frees the context of a frame the SDK knows, whichever other
\* calls fail, at any point of a start, a stop or a drop.
THEOREM ContextTheorem == ASSUME Serial, "revoke" \notin Faults PROVE Spec => []ContextsAlive
<1>1. SafeInv => ContextsAlive
  BY DEF SafeInv, ContextInv
<1> QED
  BY <1>1, SafeCorrect, PTL

\* Under the same assumptions a trampoline only ever runs the closure its frame
\* was queued with, while that closure is installed.
THEOREM DispatchTheorem == ASSUME Serial, "revoke" \notin Faults PROVE Spec => []DispatchesOwnClosure
<1>1. SafeInv => DispatchesOwnClosure
  <2> SUFFICES ASSUME SafeInv, NEW c \in Cameras, NEW call \in invoking[c]
               PROVE  call[2] = callbackId[c] /\ call[2] \in frameCallbacks
    BY DEF DispatchesOwnClosure
  <2>1. pc[c] \in Busy
    BY DEF SafeInv, TypeOK, AppTypeOK, PCs, QuietInv, Outside, Busy, InFlight
  <2> QED
    BY <2>1 DEF SafeInv, ContextInv, ClosureInv, RegistryExact, Busy
<1> QED
  BY <1>1, SafeCorrect, PTL

\* Whatever the other cameras do, a camera between captures has nothing left at
\* the SDK, and its handle resolves exactly while the Camera is alive.
THEOREM CleanTheorem == ASSUME "revoke" \notin Faults PROVE Spec => []CleanBetweenCaptures
<1>1. Init => TypeOK /\ HandleInv /\ QuietInv
  BY InitType, InitHandle, InitQuiet
<1>2. TypeOK /\ HandleInv /\ QuietInv /\ [Next]_vars => (TypeOK /\ HandleInv /\ QuietInv)'
  BY NextType, NextHandle, NextQuiet
<1>3. TypeOK /\ HandleInv /\ QuietInv => CleanBetweenCaptures
  BY DEF CleanBetweenCaptures, QuietInv, Outside, HandleInv, Resolves
<1> QED
  BY <1>1, <1>2, <1>3, PTL DEF Spec
=============================================================================
