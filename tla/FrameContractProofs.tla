------------------------- MODULE FrameContractProofs -------------------------
(***************************************************************************)
(* Theorems about the buffers of a capture in FrameCapture: who may touch  *)
(* one, what is left of it after a teardown, when a session may rely on    *)
(* all of them, and from these that FrameCapture implements                *)
(* CaptureContract.                                                        *)
(***************************************************************************)
EXTENDS FrameCaptureProofs, FiniteSetTheorems

-----------------------------------------------------------------------------
(* No context outlives its frame. *)

LEMMA NextLeak == TypeOK /\ NoContextLeak /\ [Next]_vars => NoContextLeak'
<1> SUFFICES ASSUME TypeOK, NoContextLeak, [Next]_vars PROVE NoContextLeak'
  OBVIOUS
<1> USE DEF appVars, ffiVars, sdkVars, tramVars
<1>1. ASSUME DOMAIN frames' \subseteq DOMAIN frames, UNCHANGED announced PROVE NoContextLeak'
  BY <1>1 DEF NoContextLeak
<1>2. ASSUME NEW c \in Cameras, AnnounceFrame(c) PROVE NoContextLeak'
  <2>1. DOMAIN frames' = DOMAIN frames \cup {counter}
    BY <1>2 DEF AnnounceFrame, WithContext
  <2>2. announced' = [announced EXCEPT ![c] = @ \cup {counter}]
    BY <1>2 DEF AnnounceFrame
  <2>3. \A d \in Cameras : announced[d] \subseteq announced'[d]
    BY <2>2 DEF TypeOK, SdkTypeOK
  <2>4. counter \in announced'[c]
    BY <2>2 DEF TypeOK, SdkTypeOK
  <2> QED
    BY <2>1, <2>3, <2>4 DEF NoContextLeak
<1>3. ASSUME NEW c \in Cameras, FrameRevokeAll(c) PROVE NoContextLeak'
  <2>1. CASE Resolves(c)
    BY <1>3, <2>1 DEF FrameRevokeAll, NoContextLeak
  <2>2. CASE ~Resolves(c)
    BY <1>1, <1>3, <2>2 DEF FrameRevokeAll
  <2> QED
    BY <2>1, <2>2
<1>4. ASSUME NEW c \in Cameras, QueueFrame(c) \/ QueueFails(c) PROVE NoContextLeak'
  BY <1>1, <1>4 DEF QueueFrame, QueueFails, CanQueue, WithContext
<1>5. ASSUME NEW c \in Cameras, OpenCamera(c) \/ BeginCapture(c) \/ StopCapture(c) \/ DropCamera(c)
      PROVE  NoContextLeak'
  BY <1>1, <1>5 DEF OpenCamera, BeginCapture, StopCapture, DropCamera
<1>6. ASSUME NEW c \in Cameras, CallStep(c) PROVE NoContextLeak'
  BY <1>1, <1>2, <1>3, <1>4, <1>6
     DEF CallStep, AnnounceFails, CaptureStart, CaptureStartFails, QueueUnknown, AcquisitionStart,
         AcquisitionStartFails, AbortCapture, AcquisitionStop, CaptureEnd, CaptureEnded,
         CaptureQueueFlush, UninstallFrameCallback, CloseCamera
<1>7. ASSUME NEW c \in Cameras, Deliver(c) \/ \E s \in InFlight(c) : TrampolineStep(c, s)
      PROVE  NoContextLeak'
  BY <1>1, <1>7 DEF Deliver, TrampolineStep, Invoke, SkipIncomplete, ClosureReturns,
                    ClosurePanics, Requeue
<1>8. CASE UNCHANGED vars
  BY <1>1, <1>8 DEF vars
<1> QED
  BY <1>5, <1>6, <1>7, <1>8 DEF Next

\* The adapter never keeps a context whose frame the SDK has forgotten: whichever
\* calls fail, and however captures overlap, no pixel buffer is leaked.
THEOREM LeakTheorem == Spec => []NoContextLeak
<1>1. Init => TypeOK /\ NoContextLeak
  BY InitType DEF Init, InitFfi, NoContextLeak
<1>2. TypeOK /\ NoContextLeak /\ [Next]_vars => (TypeOK /\ NoContextLeak)'
  BY NextType, NextLeak
<1> QED
  BY <1>1, <1>2, PTL DEF Spec

-----------------------------------------------------------------------------
(* One user per buffer.  The frames of a capture are fresh IDs, so a frame left *)
(* at the SDK by a revoke that failed is none of the slots announced or queued  *)
(* after it.                                                                    *)

\* The frames of camera c the SDK or a trampoline has in its hands.
AtSdk(c) == queued[c] \cup InFlight(c)

SlotInv ==
  \A c \in Cameras :
    /\ \A s \in slots[c] \cup AtSdk(c) : s < counter
    /\ pc[c] = "announce" => slots[c] \cap AtSdk(c) = {}
    /\ pc[c] = "queue" => pending[c] \subseteq slots[c] /\ pending[c] \cap AtSdk(c) = {}
    /\ \A call, other \in invoking[c] : call[1] = other[1] => call = other

LEMMA InitSlot == Init => SlotInv /\ BufferExclusive
BY DEF Init, InitApp, InitSdk, SlotInv, AtSdk, BufferExclusive, InFlight

LEMMA NextSlot == TypeOK /\ SlotInv /\ BufferExclusive /\ [Next]_vars => (SlotInv /\ BufferExclusive)'
<1> SUFFICES ASSUME TypeOK, SlotInv, BufferExclusive, [Next]_vars PROVE SlotInv' /\ BufferExclusive'
  OBVIOUS
<1> USE DEF appVars, ffiVars, sdkVars, tramVars, Goto
\* A step of a thread that hands the SDK no frame: it may begin the announce
\* loop without slots, or leave either loop.
<1>1. ASSUME NEW c \in Cameras,
             \A d \in Cameras \ {c} : pc'[d] = pc[d] /\ slots'[d] = slots[d] /\ pending'[d] = pending[d],
             \A d \in Cameras : queued'[d] \subseteq queued[d],
             counter' \in Nat, counter' >= counter, UNCHANGED tramVars,
             slots'[c] \in {slots[c], {}},
             pc'[c] = "announce" => slots'[c] = {},
             pc'[c] = "queue" =>
               pending'[c] \subseteq slots'[c] /\ pending'[c] \cap AtSdk(c) = {}
      PROVE  SlotInv' /\ BufferExclusive'
  <2>1. \A d \in Cameras : InFlight(d)' = InFlight(d) /\ AtSdk(d)' \subseteq AtSdk(d)
    BY <1>1 DEF InFlight, AtSdk
  <2>2. BufferExclusive'
    BY <1>1, <2>1 DEF BufferExclusive
  <2>3. \A d \in Cameras : \A s \in slots'[d] \cup AtSdk(d)' : s < counter'
    <3> SUFFICES ASSUME NEW d \in Cameras, NEW s \in slots'[d] \cup AtSdk(d)' PROVE s < counter'
      OBVIOUS
    <3>1. s \in slots[d] \cup AtSdk(d)
      BY <1>1, <2>1
    <3>2. s \in Nat
      BY <3>1 DEF TypeOK, AppTypeOK, SdkTypeOK, AtSdk, InFlight
    <3> QED
      BY <1>1, <3>1, <3>2 DEF SlotInv, TypeOK, FfiTypeOK
  <2> QED
    BY <1>1, <2>1, <2>2, <2>3 DEF SlotInv
<1>2. ASSUME NEW c \in Cameras, OpenCamera(c) \/ StopCapture(c) \/ DropCamera(c) PROVE SlotInv' /\ BufferExclusive'
  BY <1>1, <1>2 DEF OpenCamera, StopCapture, DropCamera, TypeOK, AppTypeOK, FfiTypeOK
<1>3. ASSUME NEW c \in Cameras, BeginCapture(c) PROVE SlotInv' /\ BufferExclusive'
  BY <1>1, <1>3 DEF BeginCapture, TypeOK, AppTypeOK, FfiTypeOK
<1>4. ASSUME NEW c \in Cameras, AnnounceFrame(c) PROVE SlotInv' /\ BufferExclusive'
  <2>1. /\ pc[c] = "announce" /\ counter' = counter + 1
        /\ slots' = [slots EXCEPT ![c] = @ \cup {counter}]
        /\ UNCHANGED <<pc, pending, queued, tramVars>>
    BY <1>4 DEF AnnounceFrame
  <2>2. /\ slots'[c] = slots[c] \cup {counter}
        /\ \A d \in Cameras \ {c} : slots'[d] = slots[d]
    BY <2>1 DEF TypeOK, AppTypeOK
  <2>3. \A d \in Cameras : InFlight(d)' = InFlight(d) /\ AtSdk(d)' = AtSdk(d)
    BY <2>1 DEF InFlight, AtSdk
  <2>4. BufferExclusive'
    BY <2>1, <2>3 DEF BufferExclusive
  <2>5. \A d \in Cameras : slots[d] \subseteq Nat /\ AtSdk(d) \subseteq Nat
    BY DEF TypeOK, AppTypeOK, SdkTypeOK, AtSdk, InFlight
  <2>6. counter \in Nat /\ counter \notin AtSdk(c)
    BY <2>5 DEF SlotInv, TypeOK, FfiTypeOK
  <2>7. \A d \in Cameras : \A s \in slots'[d] \cup AtSdk(d)' : s < counter'
    BY <2>1, <2>2, <2>3, <2>5, <2>6 DEF SlotInv
  <2> QED
    BY <2>1, <2>2, <2>3, <2>4, <2>6, <2>7 DEF SlotInv
<1>5. ASSUME NEW c \in Cameras, QueueFrame(c) PROVE SlotInv' /\ BufferExclusive'
  <2>1. PICK s \in pending[c] : /\ queued' = [queued EXCEPT ![c] = @ \cup {s}]
                                /\ pending' = [pending EXCEPT ![c] = @ \ {s}]
    BY <1>5 DEF QueueFrame
  <2>2. pc[c] = "queue" /\ UNCHANGED <<pc, slots, counter, tramVars>>
    BY <1>5 DEF QueueFrame
  <2>3. /\ queued'[c] = queued[c] \cup {s} /\ pending'[c] = pending[c] \ {s}
        /\ \A d \in Cameras \ {c} : queued'[d] = queued[d] /\ pending'[d] = pending[d]
    BY <2>1 DEF TypeOK, AppTypeOK, SdkTypeOK
  <2>4. s \in slots[c] /\ s \notin AtSdk(c)
    BY <2>2 DEF SlotInv
  <2>5. \A d \in Cameras : InFlight(d)' = InFlight(d)
    BY <2>2 DEF InFlight
  <2>6. AtSdk(c)' = AtSdk(c) \cup {s} /\ \A d \in Cameras \ {c} : AtSdk(d)' = AtSdk(d)
    BY <2>3, <2>5 DEF AtSdk
  <2>7. BufferExclusive'
    BY <2>2, <2>3, <2>4, <2>5 DEF BufferExclusive, AtSdk
  <2> QED
    BY <2>2, <2>3, <2>4, <2>6, <2>7 DEF SlotInv
<1>6. ASSUME NEW c \in Cameras, CallStep(c) PROVE SlotInv' /\ BufferExclusive'
  <2> USE DEF TypeOK, AppTypeOK, FfiTypeOK, SdkTypeOK
  <2>1. CASE AnnounceFails(c) \/ CaptureStartFails(c) \/ QueueUnknown(c) \/ AcquisitionStartFails(c)
    BY <1>1, <2>1 DEF AnnounceFails, CaptureStartFails, QueueUnknown, AcquisitionStartFails, AbortCapture
  <2>2. CASE CaptureStart(c)
    BY <1>1, <2>2 DEF CaptureStart, SlotInv
  <2>3. CASE QueueFails(c)
    BY <1>1, <2>3 DEF QueueFails
  <2>4. CASE AcquisitionStart(c) \/ AcquisitionStop(c)
    BY <1>1, <2>4 DEF AcquisitionStart, AcquisitionStop
  <2>5. CASE CaptureEnd(c) \/ CaptureEnded(c)
    BY <1>1, <2>5 DEF CaptureEnd, CaptureEnded
  <2>6. CASE CaptureQueueFlush(c)
    BY <1>1, <2>6 DEF CaptureQueueFlush
  <2>7. CASE FrameRevokeAll(c)
    <3>1. /\ pc[c] = "revoke" /\ pc' = [pc EXCEPT ![c] = "uninstall"]
          /\ UNCHANGED <<slots, pending, counter, tramVars>>
          /\ queued' = queued \/ queued' = [queued EXCEPT ![c] = {}]
      BY <2>7 DEF FrameRevokeAll
    <3> QED
      BY <1>1, <3>1
  <2>8. CASE UninstallFrameCallback(c)
    BY <1>1, <2>8 DEF UninstallFrameCallback
  <2>9. CASE CloseCamera(c)
    BY <1>1, <2>9 DEF CloseCamera
  <2> QED
    BY <1>4, <1>5, <1>6, <2>1, <2>2, <2>3, <2>4, <2>5, <2>6, <2>7, <2>8, <2>9 DEF CallStep
\* A step of the SDK threads moves one frame of camera c, or loses it.
<1>7. ASSUME NEW c \in Cameras, Deliver(c) \/ \E s \in InFlight(c) : TrampolineStep(c, s)
      PROVE  SlotInv' /\ BufferExclusive'
  <2>1. UNCHANGED <<pc, slots, pending, counter>>
    BY <1>7 DEF Deliver, TrampolineStep, Invoke, SkipIncomplete, ClosureReturns, ClosurePanics, Requeue
  <2>2. \A d \in Cameras \ {c} : /\ queued'[d] = queued[d] /\ entered'[d] = entered[d]
                                 /\ invoking'[d] = invoking[d] /\ requeueing'[d] = requeueing[d]
    BY <1>7 DEF Deliver, TrampolineStep, Invoke, SkipIncomplete, ClosureReturns, ClosurePanics,
                Requeue, TypeOK, SdkTypeOK
  <2> DEFINE Inside == {call[1] : call \in invoking[c]}
             Apart == /\ queued[c] \cap (entered[c] \cup Inside \cup requeueing[c]) = {}
                      /\ entered[c] \cap Inside = {}
                      /\ entered[c] \cap requeueing[c] = {}
                      /\ Inside \cap requeueing[c] = {}
                      /\ \A call, other \in invoking[c] : call[1] = other[1] => call = other
  <2>3. Apart
    BY DEF SlotInv, BufferExclusive, InFlight
  <2>4. Apart' /\ AtSdk(c)' \subseteq AtSdk(c)
    <3>1. CASE Deliver(c)
      BY <2>3, <3>1 DEF Deliver, AtSdk, InFlight, TypeOK, SdkTypeOK
    <3>2. ASSUME NEW s \in InFlight(c), Invoke(c, s) PROVE <2>4
      BY <2>3, <3>2 DEF Invoke, AtSdk, InFlight, TypeOK, SdkTypeOK
    <3>3. ASSUME NEW s \in InFlight(c), SkipIncomplete(c, s) PROVE <2>4
      BY <2>3, <3>3 DEF SkipIncomplete, AtSdk, InFlight, TypeOK, SdkTypeOK
    <3>4. ASSUME NEW s \in InFlight(c), ClosureReturns(c, s) PROVE <2>4
      BY <2>3, <3>4 DEF ClosureReturns, AtSdk, InFlight, TypeOK, SdkTypeOK
    <3>5. ASSUME NEW s \in InFlight(c), ClosurePanics(c, s) PROVE <2>4
      BY <2>3, <3>5 DEF ClosurePanics, AtSdk, InFlight, TypeOK, SdkTypeOK
    <3>6. ASSUME NEW s \in InFlight(c), Requeue(c, s) PROVE <2>4
      BY <2>3, <3>6 DEF Requeue, AtSdk, InFlight, TypeOK, SdkTypeOK
    <3> QED
      BY <1>7, <3>1, <3>2, <3>3, <3>4, <3>5, <3>6 DEF TrampolineStep
  <2>5. \A d \in Cameras \ {c} : InFlight(d)' = InFlight(d) /\ AtSdk(d)' = AtSdk(d)
    BY <2>2 DEF InFlight, AtSdk
  <2>6. BufferExclusive'
    BY <2>2, <2>4, <2>5 DEF BufferExclusive, InFlight
  <2>7. SlotInv'
    BY <2>1, <2>2, <2>4, <2>5 DEF SlotInv
  <2> QED
    BY <2>6, <2>7
<1>8. CASE UNCHANGED vars
  BY <1>8 DEF vars, SlotInv, BufferExclusive, AtSdk, InFlight
<1> QED
  BY <1>2, <1>3, <1>6, <1>7, <1>8 DEF Next

\* The closure and the SDK never have the same pixel buffer at the same time, and
\* no two callbacks do, whichever calls fail and however captures overlap.
THEOREM ExclusiveTheorem == Spec => []BufferExclusive
<1>1. Init => TypeOK /\ SlotInv /\ BufferExclusive
  BY InitType, InitSlot
<1>2. TypeOK /\ SlotInv /\ BufferExclusive /\ [Next]_vars => (TypeOK /\ SlotInv /\ BufferExclusive)'
  BY NextType, NextSlot
<1> QED
  BY <1>1, <1>2, PTL DEF Spec

-----------------------------------------------------------------------------
(* The edges of a capture: nothing is delivered before it has queued a frame,  *)
(* and what VmbCaptureEnd and VmbCaptureQueueFlush settled stays settled.      *)

StartInv == \A c \in Cameras : pc[c] = "announce" => queued[c] = {} /\ InFlight(c) = {}

EndInv ==
  \A c \in Cameras :
    /\ pc[c] \in {"ending", "flush", "revoke"} => ~capturing[c]
    /\ pc[c] \in {"flush", "revoke"} => InFlight(c) = {}

FlushInv == \A c \in Cameras : pc[c] = "revoke" => queued[c] = {}

LEMMA InitEdges == Init => StartInv /\ EndInv /\ FlushInv
BY DEF Init, InitApp, StartInv, EndInv, FlushInv

LEMMA NextStart == TypeOK /\ QuietInv /\ StartInv /\ [Next]_vars => StartInv'
<1> SUFFICES ASSUME TypeOK, QuietInv, StartInv, [Next]_vars PROVE StartInv'
  OBVIOUS
<1> USE DEF appVars, ffiVars, sdkVars, tramVars, Goto
\* A step of a thread that hands the SDK no frame.
<1>1. ASSUME NEW c \in Cameras, pc'[c] = "announce" => pc[c] \in {"idle", "announce"},
             \A d \in Cameras \ {c} : pc'[d] = pc[d],
             UNCHANGED <<queued, tramVars>>
      PROVE  StartInv'
  BY <1>1 DEF StartInv, QuietInv, Outside, InFlight
\* A step of a camera that is not in its announce loop.
<1>2. ASSUME NEW c \in Cameras, pc'[c] # "announce",
             \A d \in Cameras \ {c} : /\ pc'[d] = pc[d] /\ queued'[d] = queued[d]
                                       /\ entered'[d] = entered[d] /\ invoking'[d] = invoking[d]
                                       /\ requeueing'[d] = requeueing[d]
      PROVE  StartInv'
  BY <1>2 DEF StartInv, InFlight
<1>3. ASSUME NEW c \in Cameras,
             OpenCamera(c) \/ BeginCapture(c) \/ StopCapture(c) \/ DropCamera(c) \/ CallStep(c)
      PROVE  StartInv'
  <2> USE DEF TypeOK, AppTypeOK, SdkTypeOK
  <2>1. CASE OpenCamera(c) \/ BeginCapture(c) \/ StopCapture(c) \/ DropCamera(c)
    BY <1>1, <2>1 DEF OpenCamera, BeginCapture, StopCapture, DropCamera
  <2>2. CASE AnnounceFrame(c) \/ CaptureStart(c)
    BY <1>1, <2>2 DEF AnnounceFrame, CaptureStart
  <2>3. CASE AnnounceFails(c) \/ CaptureStartFails(c) \/ QueueUnknown(c) \/ AcquisitionStartFails(c)
    BY <1>1, <2>3 DEF AnnounceFails, CaptureStartFails, QueueUnknown, AcquisitionStartFails, AbortCapture
  <2>4. CASE QueueFrame(c)
    BY <1>2, <2>4 DEF QueueFrame
  <2>5. CASE QueueFails(c)
    BY <1>1, <2>5 DEF QueueFails
  <2>6. CASE AcquisitionStart(c) \/ AcquisitionStop(c) \/ CaptureEnd(c) \/ CaptureEnded(c)
    BY <1>1, <2>6 DEF AcquisitionStart, AcquisitionStop, CaptureEnd, CaptureEnded
  <2>7. CASE CaptureQueueFlush(c)
    BY <1>2, <2>7 DEF CaptureQueueFlush
  <2>8. CASE FrameRevokeAll(c)
    <3>1. /\ pc[c] = "revoke" /\ pc' = [pc EXCEPT ![c] = "uninstall"] /\ UNCHANGED tramVars
          /\ queued' = queued \/ queued' = [queued EXCEPT ![c] = {}]
      BY <2>8 DEF FrameRevokeAll
    <3> QED
      BY <1>2, <3>1
  <2>9. CASE UninstallFrameCallback(c) \/ CloseCamera(c)
    BY <1>1, <2>9 DEF UninstallFrameCallback, CloseCamera
  <2> QED
    BY <1>3, <2>1, <2>2, <2>3, <2>4, <2>5, <2>6, <2>7, <2>8, <2>9 DEF CallStep
<1>4. ASSUME NEW c \in Cameras, Deliver(c) \/ \E s \in InFlight(c) : TrampolineStep(c, s)
      PROVE  StartInv'
  <2>1. pc[c] # "announce"
    BY <1>4 DEF StartInv, Deliver
  <2> QED
    BY <1>2, <1>4, <2>1 DEF Deliver, TrampolineStep, Invoke, SkipIncomplete, ClosureReturns,
                        ClosurePanics, Requeue, TypeOK, SdkTypeOK
<1>5. CASE UNCHANGED vars
  BY <1>5 DEF vars, StartInv, InFlight
<1> QED
  BY <1>3, <1>4, <1>5 DEF Next

LEMMA NextEnd ==
  ASSUME "end" \notin Faults
  PROVE  TypeOK /\ HandleInv /\ EndInv /\ [Next]_vars => EndInv'
<1> SUFFICES ASSUME TypeOK, HandleInv, EndInv, [Next]_vars PROVE EndInv'
  OBVIOUS
<1> USE DEF appVars, ffiVars, sdkVars, tramVars, Goto
\* A step of a thread that reaches none of these places.
<1>1. ASSUME NEW c \in Cameras, pc'[c] \notin {"ending", "flush", "revoke"},
             \A d \in Cameras \ {c} : pc'[d] = pc[d] /\ capturing'[d] = capturing[d],
             UNCHANGED tramVars
      PROVE  EndInv'
  BY <1>1 DEF EndInv, InFlight
<1>2. ASSUME NEW c \in Cameras,
             OpenCamera(c) \/ BeginCapture(c) \/ StopCapture(c) \/ DropCamera(c) \/ CallStep(c)
      PROVE  EndInv'
  <2> USE DEF TypeOK, AppTypeOK, SdkTypeOK
  <2>1. CASE OpenCamera(c) \/ BeginCapture(c) \/ StopCapture(c) \/ DropCamera(c)
    BY <1>1, <2>1 DEF OpenCamera, BeginCapture, StopCapture, DropCamera
  <2>2. CASE AnnounceFrame(c) \/ CaptureStart(c)
    BY <1>1, <2>2 DEF AnnounceFrame, CaptureStart
  <2>3. CASE AnnounceFails(c) \/ CaptureStartFails(c) \/ QueueUnknown(c) \/ AcquisitionStartFails(c)
    BY <1>1, <2>3 DEF AnnounceFails, CaptureStartFails, QueueUnknown, AcquisitionStartFails, AbortCapture
  <2>4. CASE QueueFrame(c) \/ QueueFails(c)
    BY <1>1, <2>4 DEF QueueFrame, QueueFails
  <2>5. CASE AcquisitionStart(c) \/ AcquisitionStop(c)
    BY <1>1, <2>5 DEF AcquisitionStart, AcquisitionStop
  <2>6. CASE CaptureEnd(c)
    <3>1. Resolves(c)
      BY <2>6 DEF CaptureEnd, HandleInv, Resolves
    <3>2. /\ capturing' = [capturing EXCEPT ![c] = FALSE] /\ pc' = [pc EXCEPT ![c] = "ending"]
          /\ UNCHANGED tramVars
      BY <2>6, <3>1 DEF CaptureEnd, MayFail
    <3> QED
      BY <3>2 DEF EndInv, InFlight
  <2>7. CASE CaptureEnded(c)
    BY <2>7 DEF CaptureEnded, EndInv, InFlight
  <2>8. CASE CaptureQueueFlush(c)
    BY <2>8 DEF CaptureQueueFlush, EndInv, InFlight
  <2>9. CASE FrameRevokeAll(c)
    <3>1. /\ pc' = [pc EXCEPT ![c] = "uninstall"] /\ UNCHANGED <<capturing, tramVars>>
      BY <2>9 DEF FrameRevokeAll
    <3> QED
      BY <1>1, <3>1
  <2>10. CASE UninstallFrameCallback(c) \/ CloseCamera(c)
    BY <1>1, <2>10 DEF UninstallFrameCallback, CloseCamera
  <2> QED
    BY <1>2, <2>1, <2>2, <2>3, <2>4, <2>5, <2>6, <2>7, <2>8, <2>9, <2>10 DEF CallStep
\* A frame is delivered, or one moves on that is in a trampoline already.
<1>3. ASSUME NEW c \in Cameras, Deliver(c) \/ \E s \in InFlight(c) : TrampolineStep(c, s)
      PROVE  EndInv'
  <2>1. UNCHANGED <<pc, capturing>>
    BY <1>3 DEF Deliver, TrampolineStep, Invoke, SkipIncomplete, ClosureReturns, ClosurePanics, Requeue
  <2>2. \A d \in Cameras \ {c} : /\ entered'[d] = entered[d] /\ invoking'[d] = invoking[d]
                                 /\ requeueing'[d] = requeueing[d]
    BY <1>3 DEF Deliver, TrampolineStep, Invoke, SkipIncomplete, ClosureReturns, ClosurePanics,
                Requeue, TypeOK, SdkTypeOK
  <2>3. pc[c] \notin {"flush", "revoke"}
    BY <1>3 DEF EndInv, Deliver
  <2> QED
    BY <2>1, <2>2, <2>3 DEF EndInv, InFlight
<1>4. CASE UNCHANGED vars
  BY <1>4 DEF vars, EndInv, InFlight
<1> QED
  BY <1>2, <1>3, <1>4 DEF Next

LEMMA NextFlush ==
  ASSUME "flush" \notin Faults
  PROVE  TypeOK /\ HandleInv /\ EndInv /\ FlushInv /\ [Next]_vars => FlushInv'
<1> SUFFICES ASSUME TypeOK, HandleInv, EndInv, FlushInv, [Next]_vars PROVE FlushInv'
  OBVIOUS
<1> USE DEF appVars, ffiVars, sdkVars, tramVars, Goto
<1>1. ASSUME NEW c \in Cameras, pc'[c] # "revoke",
             \A d \in Cameras \ {c} : pc'[d] = pc[d] /\ queued'[d] = queued[d]
      PROVE  FlushInv'
  BY <1>1 DEF FlushInv
<1>2. ASSUME NEW c \in Cameras,
             OpenCamera(c) \/ BeginCapture(c) \/ StopCapture(c) \/ DropCamera(c) \/ CallStep(c)
      PROVE  FlushInv'
  <2> USE DEF TypeOK, AppTypeOK, SdkTypeOK
  <2>1. CASE OpenCamera(c) \/ BeginCapture(c) \/ StopCapture(c) \/ DropCamera(c)
    BY <1>1, <2>1 DEF OpenCamera, BeginCapture, StopCapture, DropCamera
  <2>2. CASE AnnounceFrame(c) \/ CaptureStart(c)
    BY <1>1, <2>2 DEF AnnounceFrame, CaptureStart
  <2>3. CASE AnnounceFails(c) \/ CaptureStartFails(c) \/ QueueUnknown(c) \/ AcquisitionStartFails(c)
    BY <1>1, <2>3 DEF AnnounceFails, CaptureStartFails, QueueUnknown, AcquisitionStartFails, AbortCapture
  <2>4. CASE QueueFrame(c) \/ QueueFails(c)
    BY <1>1, <2>4 DEF QueueFrame, QueueFails
  <2>5. CASE AcquisitionStart(c) \/ AcquisitionStop(c)
    BY <1>1, <2>5 DEF AcquisitionStart, AcquisitionStop
  <2>6. CASE CaptureEnd(c) \/ CaptureEnded(c)
    BY <1>1, <2>6 DEF CaptureEnd, CaptureEnded
  <2>7. CASE CaptureQueueFlush(c)
    <3>1. Resolves(c)
      BY <2>7 DEF CaptureQueueFlush, HandleInv, Resolves
    <3>2. queued' = [queued EXCEPT ![c] = {}] /\ pc' = [pc EXCEPT ![c] = "revoke"]
      BY <2>7, <3>1 DEF CaptureQueueFlush, MayFail
    <3> QED
      BY <3>2 DEF FlushInv
  <2>8. CASE FrameRevokeAll(c)
    <3>1. /\ pc' = [pc EXCEPT ![c] = "uninstall"]
          /\ queued' = queued \/ queued' = [queued EXCEPT ![c] = {}]
      BY <2>8 DEF FrameRevokeAll
    <3> QED
      BY <1>1, <3>1
  <2>9. CASE UninstallFrameCallback(c) \/ CloseCamera(c)
    BY <1>1, <2>9 DEF UninstallFrameCallback, CloseCamera
  <2> QED
    BY <1>2, <2>1, <2>2, <2>3, <2>4, <2>5, <2>6, <2>7, <2>8, <2>9 DEF CallStep
<1>3. ASSUME NEW c \in Cameras, Deliver(c) \/ \E s \in InFlight(c) : TrampolineStep(c, s)
      PROVE  FlushInv'
  <2>1. pc[c] # "revoke"
    BY <1>3 DEF EndInv, Deliver
  <2> QED
    BY <1>1, <1>3, <2>1 DEF Deliver, TrampolineStep, Invoke, SkipIncomplete, ClosureReturns,
                        ClosurePanics, Requeue, TypeOK, SdkTypeOK
<1>4. CASE UNCHANGED vars
  BY <1>4 DEF vars, FlushInv
<1> QED
  BY <1>2, <1>3, <1>4 DEF Next

\* Where VmbCaptureEnd and VmbCaptureQueueFlush succeed, frame_revoke_all is never
\* called while the SDK still has a frame of the camera in its hands: no callback
\* puts one back between the steps of a teardown.
THEOREM RevokeTheorem == ASSUME "end" \notin Faults, "flush" \notin Faults PROVE Spec => []RevokeFindsIdle
<1> DEFINE Inv == TypeOK /\ HandleInv /\ EndInv /\ FlushInv
<1>1. Init => Inv
  BY InitType, InitHandle, InitEdges
<1>2. Inv /\ [Next]_vars => Inv'
  BY NextType, NextHandle, NextEnd, NextFlush
<1>3. Inv => RevokeFindsIdle
  BY DEF RevokeFindsIdle, EndInv, FlushInv
<1> QED
  BY <1>1, <1>2, <1>3, PTL DEF Spec

\* No closure is started before the capture has queued a frame, and none once
\* VmbCaptureEnd has returned.
THEOREM LateTheorem ==
  ASSUME "end" \notin Faults, "revoke" \notin Faults
  PROVE  Spec => ClosuresStartInCapture
<1> DEFINE Inv == TypeOK /\ HandleInv /\ QuietInv /\ StartInv /\ EndInv
<1>1. Init => Inv
  BY InitType, InitHandle, InitQuiet, InitEdges
<1>2. Inv /\ [Next]_vars => Inv'
  BY NextType, NextHandle, NextQuiet, NextStart, NextEnd
<1>3. Inv /\ [Next]_vars =>
        [\A c \in Cameras : ~(invoking'[c] \subseteq invoking[c]) =>
           pc[c] \in {"queue", "running", "acqstop", "end", "ending"}]_vars
  <2> SUFFICES ASSUME Inv, Next, NEW c \in Cameras, ~(invoking'[c] \subseteq invoking[c])
               PROVE  pc[c] \in {"queue", "running", "acqstop", "end", "ending"}
    OBVIOUS
  <2> USE DEF appVars, ffiVars, sdkVars, tramVars
  <2>1. \A d \in Cameras :
          OpenCamera(d) \/ BeginCapture(d) \/ StopCapture(d) \/ DropCamera(d) \/ CallStep(d)
            => UNCHANGED invoking
    BY DEF OpenCamera, BeginCapture, StopCapture, DropCamera, CallStep, AnnounceFrame, AnnounceFails,
           CaptureStart, CaptureStartFails, QueueFrame, QueueUnknown, QueueFails, AcquisitionStart,
           AcquisitionStartFails, AbortCapture, AcquisitionStop, CaptureEnd, CaptureEnded,
           CaptureQueueFlush, FrameRevokeAll, UninstallFrameCallback, CloseCamera
  <2>2. PICK d \in Cameras : Deliver(d) \/ \E s \in InFlight(d) : TrampolineStep(d, s)
    BY <2>1 DEF Next
  <2>3. ~Deliver(d)
    BY DEF Deliver
  <2>4. d = c
    BY <2>2 DEF Deliver, TrampolineStep, Invoke, SkipIncomplete, ClosureReturns, ClosurePanics,
                Requeue, TypeOK, SdkTypeOK
  <2>5. InFlight(c) # {}
    BY <2>2, <2>3, <2>4
  <2> QED
    BY <2>5 DEF QuietInv, StartInv, EndInv, Outside, TypeOK, AppTypeOK, PCs, Starting, Stopping
<1> QED
  BY <1>1, <1>2, <1>3, PTL DEF Spec, ClosuresStartInCapture


-----------------------------------------------------------------------------
(* The stages of start_capture, and what each has established. *)

Primed(c, s) == s \in DOMAIN frames /\ frames[s] = callbackId[c]

\* All buffers are announced, and the capture engine runs.
Engaged(c) ==
  /\ capturing[c]
  /\ announced[c] = slots[c]
  /\ Cardinality(slots[c]) = NumBuffers

Staged(c) ==
  /\ pc[c] = "announce" =>
       /\ announced[c] = slots[c]
       /\ IsFiniteSet(slots[c]) /\ Cardinality(slots[c]) <= NumBuffers
  /\ pc[c] = "queue" => Engaged(c) /\ \A s \in slots[c] \ pending[c] : Primed(c, s)
  /\ pc[c] = "running" => Engaged(c) /\ acquiring[c] /\ \A s \in slots[c] : Primed(c, s)

StageInv == \A c \in Cameras : Staged(c)

AllInv == SafeInv /\ SlotInv /\ BufferExclusive

LEMMA InitStage == Init => StageInv
BY DEF Init, InitApp, StageInv, Staged

LEMMA NextStage == AllInv /\ StageInv /\ [Next]_vars => StageInv'
<1> SUFFICES ASSUME AllInv, StageInv, [Next]_vars PROVE StageInv'
  OBVIOUS
<1>0. TypeOK /\ ExclusiveInv /\ QuietInv /\ ContextInv /\ SlotInv
  BY DEF AllInv, SafeInv
<1> USE DEF appVars, ffiVars, sdkVars, tramVars, Goto
\* What a step of one camera leaves to the others: the contexts stay as they are,
\* or no other camera is inside a capture.
<1>1. ASSUME NEW c \in Cameras, Staged(c)',
             \A d \in Cameras \ {c} :
               /\ pc'[d] = pc[d] /\ callbackId'[d] = callbackId[d]
               /\ slots'[d] = slots[d] /\ pending'[d] = pending[d]
               /\ capturing'[d] = capturing[d] /\ acquiring'[d] = acquiring[d]
               /\ announced'[d] = announced[d],
             frames' = frames \/ pc[c] \in Busy
      PROVE  StageInv'
  <2>1. \A d \in Cameras \ {c} : pc[c] \in Busy => pc[d] \notin {"announce", "queue", "running"}
    BY <1>0 DEF ExclusiveInv, Busy, Starting
  <2>2. ASSUME NEW d \in Cameras \ {c} PROVE Staged(d)'
    <3>1. CASE pc[c] \in Busy
      BY <1>1, <2>1, <3>1 DEF Staged
    <3>2. CASE frames' = frames
      BY <1>1, <3>2 DEF StageInv, Staged, Engaged, Primed
    <3> QED
      BY <1>1, <3>1, <3>2
  <2> QED
    BY <1>1, <2>2 DEF StageInv
\* Camera c leaves start_capture, or is not inside it.
<1>2. ASSUME NEW c \in Cameras, pc'[c] \notin {"announce", "queue", "running"} PROVE Staged(c)'
  BY <1>2 DEF Staged
<1> USE <1>0 DEF TypeOK, AppTypeOK, SdkTypeOK
<1>3. ASSUME NEW c \in Cameras, OpenCamera(c) \/ StopCapture(c) \/ DropCamera(c) PROVE StageInv'
  BY <1>1, <1>2, <1>3 DEF OpenCamera, StopCapture, DropCamera
<1>4. ASSUME NEW c \in Cameras, BeginCapture(c) PROVE StageInv'
  <2>1. announced[c] = {}
    BY <1>4 DEF BeginCapture, QuietInv, Outside
  <2>2. IsFiniteSet({}) /\ Cardinality({}) = 0
    BY FS_EmptySet
  <2>3. pc'[c] = "announce" /\ slots'[c] = {} /\ announced'[c] = {}
    BY <1>4, <2>1 DEF BeginCapture
  <2>4. Staged(c)'
    BY <2>2, <2>3, CaptureAssumption DEF Staged
  <2> QED
    BY <1>1, <1>4, <2>4 DEF BeginCapture
<1>5. ASSUME NEW c \in Cameras, CallStep(c) PROVE StageInv'
  <2>1. CASE AnnounceFrame(c)
    <3>1. /\ pc[c] = "announce" /\ pc'[c] = "announce"
          /\ slots'[c] = slots[c] \cup {counter} /\ announced'[c] = announced[c] \cup {counter}
          /\ Cardinality(slots[c]) < NumBuffers
      BY <2>1 DEF AnnounceFrame
    <3>2. counter \in Nat /\ counter \notin slots[c]
      BY DEF SlotInv, FfiTypeOK
    <3>3. announced[c] = slots[c] /\ IsFiniteSet(slots[c])
      BY <3>1 DEF StageInv, Staged
    <3>4. IsFiniteSet(slots'[c]) /\ Cardinality(slots'[c]) = Cardinality(slots[c]) + 1
      <4> DEFINE S == slots[c] \cup {counter}
      <4>1. IsFiniteSet(S) /\ Cardinality(S) = Cardinality(slots[c]) + 1
        BY ONLY <3>2, <3>3, FS_AddElement
      <4> QED
        BY <3>1, <4>1
    <3>5. Cardinality(slots[c]) \in Nat
      BY <3>3, FS_CardinalityType
    <3>6. Cardinality(slots'[c]) <= NumBuffers
      BY <3>1, <3>4, <3>5, CaptureAssumption
    <3>7. Staged(c)'
      BY <3>1, <3>3, <3>4, <3>6 DEF Staged
    <3> QED
      BY <1>1, <2>1, <3>7 DEF AnnounceFrame, Busy, Starting
  <2>2. CASE AnnounceFails(c) \/ CaptureStartFails(c) \/ QueueUnknown(c) \/ AcquisitionStartFails(c)
    BY <1>1, <1>2, <2>2 DEF AnnounceFails, CaptureStartFails, QueueUnknown, AcquisitionStartFails,
                            AbortCapture
  <2>3. CASE CaptureStart(c)
    <3>1. /\ pc[c] = "announce" /\ pc'[c] = "queue"
          /\ capturing'[c] = TRUE /\ slots'[c] = slots[c] /\ pending'[c] = slots[c]
          /\ announced'[c] = announced[c] /\ Cardinality(slots[c]) >= NumBuffers
      BY <2>3 DEF CaptureStart
    <3>2. announced[c] = slots[c] /\ IsFiniteSet(slots[c]) /\ Cardinality(slots[c]) <= NumBuffers
      BY <3>1 DEF StageInv, Staged
    <3>3. Cardinality(slots[c]) = NumBuffers
      BY <3>1, <3>2, FS_CardinalityType, CaptureAssumption
    <3>4. Staged(c)'
      BY <3>1, <3>2, <3>3 DEF Staged, Engaged
    <3> QED
      BY <1>1, <2>3, <3>4 DEF CaptureStart
  <2>4. CASE QueueFrame(c)
    <3>1. PICK s \in pending[c] : /\ CanQueue(c, s)
                                  /\ frames' = WithContext(s, callbackId[c])
                                  /\ pending' = [pending EXCEPT ![c] = @ \ {s}]
      BY <2>4 DEF QueueFrame
    <3>2. pc[c] = "queue" /\ UNCHANGED <<pc, callbackId, slots, capturing, acquiring, announced>>
      BY <2>4 DEF QueueFrame
    <3>3. /\ DOMAIN frames' = DOMAIN frames /\ frames'[s] = callbackId[c] /\ s \in DOMAIN frames
          /\ \A t \in DOMAIN frames \ {s} : frames'[t] = frames[t]
      <4>1. s \in DOMAIN frames
        BY <3>1 DEF CanQueue
      <4> QED
        BY ONLY <3>1, <4>1 DEF WithContext
    <3>4. pending'[c] = pending[c] \ {s} /\ \A d \in Cameras \ {c} : pending'[d] = pending[d]
      BY <3>1
    <3>5. Engaged(c) /\ \A t \in slots[c] \ pending[c] : Primed(c, t)
      BY <3>2 DEF StageInv, Staged
    <3>6. \A t \in slots'[c] \ pending'[c] : Primed(c, t)'
      BY <3>2, <3>3, <3>4, <3>5 DEF Primed
    <3>7. Staged(c)'
      BY <3>2, <3>5, <3>6 DEF Staged, Engaged
    <3> QED
      BY <1>1, <3>2, <3>4, <3>7 DEF Busy, Starting
  <2>5. CASE QueueFails(c)
    BY <1>1, <1>2, <2>5 DEF QueueFails, Busy, Starting
  <2>6. CASE AcquisitionStart(c)
    <3>1. /\ pc[c] = "queue" /\ pending[c] = {} /\ pc'[c] = "running" /\ acquiring'[c] = TRUE
          /\ UNCHANGED <<callbackId, slots, frames, capturing, announced>>
      BY <2>6 DEF AcquisitionStart
    <3>2. Engaged(c) /\ \A s \in slots[c] : Primed(c, s)
      BY <3>1 DEF StageInv, Staged
    <3>3. Staged(c)'
      BY <3>1, <3>2 DEF Staged, Engaged, Primed
    <3> QED
      BY <1>1, <2>6, <3>3 DEF AcquisitionStart
  <2>7. CASE AcquisitionStop(c) \/ CaptureEnd(c) \/ CaptureEnded(c)
    BY <1>1, <1>2, <2>7 DEF AcquisitionStop, CaptureEnd, CaptureEnded
  <2>8. CASE CaptureQueueFlush(c)
    BY <1>1, <1>2, <2>8 DEF CaptureQueueFlush
  <2>9. CASE FrameRevokeAll(c)
    <3>1. /\ pc[c] = "revoke" /\ pc' = [pc EXCEPT ![c] = "uninstall"]
          /\ announced' = announced \/ announced' = [announced EXCEPT ![c] = {}]
          /\ UNCHANGED <<callbackId, slots, pending, capturing, acquiring>>
      BY <2>9 DEF FrameRevokeAll
    <3> QED
      BY <1>1, <1>2, <3>1 DEF Busy, Stopping
  <2>10. CASE UninstallFrameCallback(c) \/ CloseCamera(c)
    BY <1>1, <1>2, <2>10 DEF UninstallFrameCallback, CloseCamera
  <2> QED
    BY <1>5, <2>1, <2>2, <2>3, <2>4, <2>5, <2>6, <2>7, <2>8, <2>9, <2>10 DEF CallStep
<1>6. CASE UNCHANGED <<appVars, ffiVars, capturing, acquiring, announced>>
  BY <1>6 DEF StageInv, Staged, Engaged, Primed
<1>7. ASSUME NEW c \in Cameras, Deliver(c) \/ \E s \in InFlight(c) : TrampolineStep(c, s)
      PROVE  StageInv'
  BY <1>6, <1>7 DEF Deliver, TrampolineStep, Invoke, SkipIncomplete, ClosureReturns, ClosurePanics,
                    Requeue
<1>8. CASE UNCHANGED vars
  BY <1>6, <1>8 DEF vars
<1> QED
  BY <1>3, <1>4, <1>5, <1>7, <1>8 DEF Next

LEMMA AllCorrect == ASSUME Serial, "revoke" \notin Faults PROVE Spec => []AllInv
<1>1. Init => SlotInv /\ BufferExclusive
  BY InitSlot
<1>2. SafeInv /\ SlotInv /\ BufferExclusive /\ [Next]_vars => (SlotInv /\ BufferExclusive)'
  BY NextSlot DEF SafeInv
<1>3. SafeInv /\ SlotInv /\ BufferExclusive <=> AllInv
  BY DEF AllInv
<1> QED
  BY <1>1, <1>2, <1>3, SafeCorrect, PTL DEF Spec

\* A Camera has a session only when the camera streams and every one of its buffers
\* is announced with a context that holds the session's closure: start_capture
\* returns Ok in no other case, whatever failed before.
THEOREM SessionTheorem == ASSUME Serial, "revoke" \notin Faults PROVE Spec => []SessionPrimed
<1>1. StageInv => SessionPrimed
  BY DEF StageInv, Staged, Engaged, Primed, SessionPrimed
<1> QED
  BY <1>1, InitStage, NextStage, AllCorrect, PTL DEF Spec

-----------------------------------------------------------------------------
(* What a step touches.  The thread of one Camera leaves the other cameras as    *)
(* they are and starts no trampoline; the SDK threads of one camera leave every  *)
(* Camera, and the other cameras at the SDK, as they are.                        *)

AppStep(c) == OpenCamera(c) \/ BeginCapture(c) \/ StopCapture(c) \/ DropCamera(c) \/ CallStep(c)
SdkStep(c) == Deliver(c) \/ \E s \in InFlight(c) : TrampolineStep(c, s)

LEMMA NextByCamera == Next <=> \E c \in Cameras : AppStep(c) \/ SdkStep(c)
BY DEF Next, AppStep, SdkStep

SameCamera(d) ==
  UNCHANGED <<pc[d], handle[d], callbackId[d], slots[d], pending[d], announced[d], queued[d]>>

LEMMA AppStepLocal ==
  ASSUME TypeOK, NEW c \in Cameras, AppStep(c)
  PROVE  UNCHANGED tramVars /\ \A d \in Cameras \ {c} : SameCamera(d)
<1> USE DEF TypeOK, AppTypeOK, SdkTypeOK, SameCamera, appVars, ffiVars, sdkVars, tramVars, Goto
<1>1. CASE OpenCamera(c) \/ BeginCapture(c) \/ StopCapture(c) \/ DropCamera(c)
  BY <1>1 DEF OpenCamera, BeginCapture, StopCapture, DropCamera
<1>2. CASE AnnounceFrame(c) \/ CaptureStart(c)
  BY <1>2 DEF AnnounceFrame, CaptureStart
<1>3. CASE AnnounceFails(c) \/ CaptureStartFails(c) \/ QueueUnknown(c) \/ AcquisitionStartFails(c)
  BY <1>3 DEF AnnounceFails, CaptureStartFails, QueueUnknown, AcquisitionStartFails, AbortCapture
<1>4. CASE QueueFrame(c) \/ QueueFails(c)
  BY <1>4 DEF QueueFrame, QueueFails
<1>5. CASE AcquisitionStart(c) \/ AcquisitionStop(c) \/ CaptureEnd(c) \/ CaptureEnded(c)
  BY <1>5 DEF AcquisitionStart, AcquisitionStop, CaptureEnd, CaptureEnded
<1>6. CASE CaptureQueueFlush(c)
  BY <1>6 DEF CaptureQueueFlush
<1>7. CASE FrameRevokeAll(c)
  <2>1. /\ pc' = [pc EXCEPT ![c] = "uninstall"]
        /\ announced' = announced \/ announced' = [announced EXCEPT ![c] = {}]
        /\ queued' = queued \/ queued' = [queued EXCEPT ![c] = {}]
        /\ UNCHANGED <<handle, callbackId, slots, pending, tramVars>>
    BY <1>7 DEF FrameRevokeAll
  <2> QED
    BY <2>1
<1>8. CASE UninstallFrameCallback(c) \/ CloseCamera(c)
  BY <1>8 DEF UninstallFrameCallback, CloseCamera
<1> QED
  BY <1>1, <1>2, <1>3, <1>4, <1>5, <1>6, <1>7, <1>8 DEF AppStep, CallStep

LEMMA SdkStepLocal ==
  ASSUME TypeOK, NEW c \in Cameras, SdkStep(c)
  PROVE  /\ UNCHANGED <<appVars, ffiVars, capturing, acquiring, announced>>
         /\ \A d \in Cameras \ {c} : UNCHANGED <<queued[d], entered[d], invoking[d], requeueing[d]>>
         /\ AtSdk(c)' \subseteq AtSdk(c)
<1> USE DEF TypeOK, SdkTypeOK, sdkVars, SdkStep, Deliver, TrampolineStep
<1>1. UNCHANGED <<appVars, ffiVars, capturing, acquiring, announced>>
  BY DEF Invoke, SkipIncomplete, ClosureReturns, ClosurePanics, Requeue
<1>2. \A d \in Cameras \ {c} : UNCHANGED <<queued[d], entered[d], invoking[d], requeueing[d]>>
  BY DEF Invoke, SkipIncomplete, ClosureReturns, ClosurePanics, Requeue
<1>3. AtSdk(c)' \subseteq AtSdk(c)
  <2> USE DEF AtSdk, InFlight
  <2>1. CASE Deliver(c)
    BY <2>1
  <2>2. ASSUME NEW s \in InFlight(c), Invoke(c, s) \/ SkipIncomplete(c, s) PROVE <1>3
    BY <2>2 DEF Invoke, SkipIncomplete
  <2>3. ASSUME NEW s \in InFlight(c), ClosureReturns(c, s) \/ ClosurePanics(c, s) PROVE <1>3
    BY <2>3 DEF ClosureReturns, ClosurePanics
  <2>4. ASSUME NEW s \in InFlight(c), Requeue(c, s) PROVE <1>3
    BY <2>4 DEF Requeue
  <2> QED
    BY <2>1, <2>2, <2>3, <2>4
<1> QED
  BY <1>1, <1>2, <1>3

-----------------------------------------------------------------------------
(* Captures that overlap.  What goes wrong with them goes wrong in one place.    *)

\* The frames of camera c the SDK knows, the callbacks in progress included.
Known(c) == announced[c] \cup AtSdk(c)

LEMMA KnownStep ==
  ASSUME TypeOK, NEW c \in Cameras, AppStep(c), ~FrameRevokeAll(c)
  PROVE  DOMAIN frames \subseteq DOMAIN frames' /\ Known(c)' \subseteq Known(c) \cup DOMAIN frames'
<1> USE DEF TypeOK, SdkTypeOK, Known, AtSdk, InFlight, appVars, ffiVars, sdkVars, tramVars
<1>1. CASE AnnounceFrame(c)
  <2>1. DOMAIN frames' = DOMAIN frames \cup {counter}
    BY <1>1 DEF AnnounceFrame, WithContext
  <2>2. announced'[c] = announced[c] \cup {counter} /\ UNCHANGED <<queued, tramVars>>
    BY <1>1 DEF AnnounceFrame
  <2> QED
    BY <2>1, <2>2
<1>2. CASE QueueFrame(c)
  <2>1. PICK s \in pending[c] : /\ CanQueue(c, s) /\ frames' = WithContext(s, callbackId[c])
                                /\ queued' = [queued EXCEPT ![c] = @ \cup {s}]
    BY <1>2 DEF QueueFrame
  <2>2. DOMAIN frames' = DOMAIN frames \cup {s}
    BY <2>1 DEF WithContext
  <2>3. queued'[c] = queued[c] \cup {s} /\ UNCHANGED <<announced, tramVars>>
    BY <1>2, <2>1 DEF QueueFrame
  <2> QED
    BY <2>2, <2>3
<1>3. CASE QueueFails(c)
  BY <1>3 DEF QueueFails, WithContext
<1>4. CASE CaptureQueueFlush(c)
  BY <1>4 DEF CaptureQueueFlush
<1> QED
  BY <1>1, <1>2, <1>3, <1>4
     DEF AppStep, OpenCamera, BeginCapture, StopCapture, DropCamera, CallStep, AnnounceFails,
         CaptureStart, CaptureStartFails, QueueUnknown, AcquisitionStart, AcquisitionStartFails,
         AbortCapture, AcquisitionStop, CaptureEnd, CaptureEnded, UninstallFrameCallback, CloseCamera

LEMMA RevokeForgets ==
  ASSUME "revoke" \notin Faults, TypeOK, HandleInv, NEW c \in Cameras, FrameRevokeAll(c)
  PROVE  Known(c)' = {} /\ DOMAIN frames' = {}
<1>1. Resolves(c)
  BY DEF FrameRevokeAll, HandleInv, Resolves
<1>2. /\ InFlight(c) = {} /\ UNCHANGED tramVars /\ frames' = [s \in {} |-> Noop]
      /\ announced' = [announced EXCEPT ![c] = {}] /\ queued' = [queued EXCEPT ![c] = {}]
  BY <1>1 DEF FrameRevokeAll, MayFail
<1>3. InFlight(c)' = InFlight(c)
  BY <1>2 DEF InFlight, tramVars
<1> QED
  BY <1>2, <1>3 DEF Known, AtSdk, TypeOK, SdkTypeOK

\* However the captures of several cameras overlap, the context of a frame the SDK
\* knows is freed by one call only: frame_revoke_all of another camera, which clears the
\* whole of FfiState.frames.
THEOREM ForeignTheorem ==
  ASSUME "revoke" \notin Faults
  PROVE  Spec => [][\A c \in Cameras : Known(c) \subseteq DOMAIN frames =>
                      \/ Known(c)' \subseteq DOMAIN frames'
                      \/ \E d \in Cameras \ {c} : FrameRevokeAll(d)]_vars
<1> DEFINE Foreign == \A c \in Cameras : Known(c) \subseteq DOMAIN frames =>
                        \/ Known(c)' \subseteq DOMAIN frames'
                        \/ \E d \in Cameras \ {c} : FrameRevokeAll(d)
<1>1. Init => TypeOK /\ HandleInv
  BY InitType, InitHandle
<1>2. TypeOK /\ HandleInv /\ [Next]_vars => (TypeOK /\ HandleInv)'
  BY NextType, NextHandle
<1>3. TypeOK /\ HandleInv /\ [Next]_vars => Foreign \/ UNCHANGED vars
  <2> SUFFICES ASSUME TypeOK, HandleInv, Next, NEW c \in Cameras, Known(c) \subseteq DOMAIN frames,
                      \A d \in Cameras \ {c} : ~FrameRevokeAll(d)
               PROVE  Known(c)' \subseteq DOMAIN frames'
    OBVIOUS
  <2>1. CASE FrameRevokeAll(c)
    BY <2>1, RevokeForgets
  <2>2. ASSUME ~FrameRevokeAll(c), NEW d \in Cameras, AppStep(d) PROVE Known(c)' \subseteq DOMAIN frames'
    <3>1. CASE d = c
      BY <2>2, <3>1, KnownStep
    <3>2. CASE d # c
      <4>1. Known(c)' = Known(c)
        BY <2>2, <3>2, AppStepLocal DEF SameCamera, Known, AtSdk, InFlight, tramVars
      <4> QED
        BY <2>2, <3>2, <4>1, KnownStep
    <3> QED
      BY <3>1, <3>2
  <2>3. ASSUME NEW d \in Cameras, SdkStep(d) PROVE Known(c)' \subseteq DOMAIN frames'
    <3>1. UNCHANGED <<frames, announced>>
      BY <2>3, SdkStepLocal DEF ffiVars
    <3>2. AtSdk(c)' \subseteq AtSdk(c)
      BY <2>3, SdkStepLocal DEF AtSdk, InFlight
    <3> QED
      BY <3>1, <3>2 DEF Known
  <2> QED
    BY <2>1, <2>2, <2>3, NextByCamera
<1> HIDE DEF Foreign
<1>4. Spec => [][Foreign]_vars
  BY <1>1, <1>2, <1>3, PTL DEF Spec
<1> QED
  BY <1>4 DEF Foreign

\* The frames of two cameras are told apart by their slots, and as long as a frame has
\* its context, the context holds the closure of its own camera.
OwnInv ==
  \A c \in Cameras :
    /\ AtSdk(c) \subseteq slots[c]
    /\ \A s \in AtSdk(c) \cap DOMAIN frames : frames[s] = callbackId[c]
    /\ \A d \in Cameras \ {c} : slots[c] \cap slots[d] = {}

LEMMA NextOwn ==
  ASSUME "revoke" \notin Faults
  PROVE  TypeOK /\ HandleInv /\ QuietInv /\ SlotInv /\ OwnInv /\ [Next]_vars => OwnInv'
<1> SUFFICES ASSUME TypeOK, HandleInv, QuietInv, SlotInv, OwnInv, [Next]_vars PROVE OwnInv'
  OBVIOUS
<1> USE DEF appVars, ffiVars, sdkVars, tramVars, Goto
\* A step after which frames, closure and slots are as before, but for frames the SDK
\* has lost and contexts that are freed.
<1>1. ASSUME \A d \in Cameras : AtSdk(d)' \subseteq AtSdk(d), UNCHANGED <<callbackId, slots>>,
             \A s \in DOMAIN frames' : s \in DOMAIN frames /\ frames'[s] = frames[s]
      PROVE  OwnInv'
  BY <1>1 DEF OwnInv
\* A step at either end of a capture, where the SDK has no frame of the camera.
<1>2. ASSUME NEW c \in Cameras, pc[c] \in Outside, slots'[c] = {}, UNCHANGED <<frames, queued, tramVars>>,
             \A d \in Cameras \ {c} : slots'[d] = slots[d] /\ callbackId'[d] = callbackId[d]
      PROVE  OwnInv'
  <2>1. \A d \in Cameras : AtSdk(d)' = AtSdk(d)
    BY <1>2 DEF AtSdk, InFlight
  <2>2. AtSdk(c) = {}
    BY <1>2 DEF QuietInv, AtSdk
  <2> QED
    BY <1>2, <2>1, <2>2 DEF OwnInv
<1>3. ASSUME NEW c \in Cameras, AnnounceFrame(c) PROVE OwnInv'
  <2>1. /\ frames' = WithContext(counter, Noop) /\ UNCHANGED <<callbackId, queued, tramVars>>
        /\ slots' = [slots EXCEPT ![c] = @ \cup {counter}]
    BY <1>3 DEF AnnounceFrame
  <2>2. \A d \in Cameras : counter \notin slots[d] /\ counter \notin AtSdk(d)
    BY DEF SlotInv, TypeOK, FfiTypeOK
  <2>3. \A d \in Cameras : AtSdk(d)' = AtSdk(d)
    BY <2>1 DEF AtSdk, InFlight
  <2>4. \A s \in DOMAIN frames' \ {counter} : s \in DOMAIN frames /\ frames'[s] = frames[s]
    BY <2>1 DEF WithContext
  <2>5. slots'[c] = slots[c] \cup {counter} /\ \A d \in Cameras \ {c} : slots'[d] = slots[d]
    BY <2>1 DEF TypeOK, AppTypeOK
  <2>6. \A d \in Cameras : AtSdk(d)' \subseteq slots'[d]
    BY <2>3, <2>5 DEF OwnInv
  <2>7. \A d \in Cameras : \A s \in AtSdk(d)' \cap DOMAIN frames' : frames'[s] = callbackId'[d]
    BY <2>1, <2>2, <2>3, <2>4 DEF OwnInv
  <2>8. \A d, e \in Cameras : d # e => slots'[d] \cap slots'[e] = {}
    BY <2>2, <2>5 DEF OwnInv
  <2> QED
    BY <2>6, <2>7, <2>8 DEF OwnInv
<1>4. ASSUME NEW c \in Cameras, QueueFrame(c) \/ QueueFails(c) PROVE OwnInv'
  <2>1. PICK s \in pending[c] : /\ CanQueue(c, s) /\ frames' = WithContext(s, callbackId[c])
                                /\ queued' = queued \/ queued' = [queued EXCEPT ![c] = @ \cup {s}]
    BY <1>4 DEF QueueFrame, QueueFails
  <2>2. pc[c] = "queue" /\ UNCHANGED <<callbackId, slots, tramVars>>
    BY <1>4 DEF QueueFrame, QueueFails
  <2>3. s \in slots[c]
    BY <2>2 DEF SlotInv
  <2>4. \A d \in Cameras \ {c} : s \notin AtSdk(d)
    BY <2>3 DEF OwnInv
  <2>5. frames'[s] = callbackId[c] /\ \A t \in DOMAIN frames' \ {s} : t \in DOMAIN frames /\ frames'[t] = frames[t]
    BY <2>1 DEF WithContext
  <2>6. /\ AtSdk(c)' \subseteq AtSdk(c) \cup {s}
        /\ \A d \in Cameras \ {c} : AtSdk(d)' = AtSdk(d)
    BY <2>1, <2>2 DEF AtSdk, InFlight, TypeOK, SdkTypeOK
  <2> QED
    BY <2>2, <2>3, <2>4, <2>5, <2>6 DEF OwnInv
<1>5. ASSUME NEW c \in Cameras, FrameRevokeAll(c) PROVE OwnInv'
  <2>1. DOMAIN frames' = {} /\ UNCHANGED <<callbackId, slots>>
    BY <1>5, RevokeForgets DEF FrameRevokeAll
  <2>2. UNCHANGED tramVars /\ \A d \in Cameras : queued'[d] \subseteq queued[d]
    BY <1>5 DEF FrameRevokeAll, TypeOK, SdkTypeOK
  <2>3. \A d \in Cameras : AtSdk(d)' \subseteq AtSdk(d)
    BY <2>2 DEF AtSdk, InFlight
  <2> QED
    BY <1>1, <2>1, <2>3
<1>6. ASSUME NEW c \in Cameras, BeginCapture(c) \/ UninstallFrameCallback(c) PROVE OwnInv'
  BY <1>2, <1>6 DEF BeginCapture, UninstallFrameCallback, Outside, TypeOK, AppTypeOK
<1>7. ASSUME NEW c \in Cameras, AppStep(c) PROVE OwnInv'
  <2>1. CASE CaptureQueueFlush(c)
    <3>1. \A d \in Cameras : queued'[d] \subseteq queued[d]
      BY <2>1 DEF CaptureQueueFlush, TypeOK, SdkTypeOK
    <3>2. UNCHANGED <<callbackId, slots, frames, tramVars>>
      BY <2>1 DEF CaptureQueueFlush
    <3>3. \A d \in Cameras : AtSdk(d)' \subseteq AtSdk(d)
      BY <3>1, <3>2 DEF AtSdk, InFlight
    <3> QED
      BY <1>1, <3>2, <3>3
  <2>2. CASE UNCHANGED <<callbackId, slots, frames, queued, tramVars>>
    <3>1. \A d \in Cameras : AtSdk(d)' = AtSdk(d)
      BY <2>2 DEF AtSdk, InFlight
    <3> QED
      BY <1>1, <2>2, <3>1
  <2> QED
    BY <1>3, <1>4, <1>5, <1>6, <1>7, <2>1, <2>2
       DEF AppStep, OpenCamera, StopCapture, DropCamera, CallStep, AnnounceFails,
           CaptureStart, CaptureStartFails, QueueUnknown, AcquisitionStart, AcquisitionStartFails,
           AbortCapture, AcquisitionStop, CaptureEnd, CaptureEnded, CloseCamera
<1>8. ASSUME NEW c \in Cameras, SdkStep(c) PROVE OwnInv'
  <2>1. UNCHANGED <<callbackId, slots, frames>>
    BY <1>8, SdkStepLocal
  <2>2. \A d \in Cameras : AtSdk(d)' \subseteq AtSdk(d)
    BY <1>8, SdkStepLocal DEF AtSdk, InFlight
  <2> QED
    BY <1>1, <2>1, <2>2
<1>9. CASE UNCHANGED vars
  BY <1>9 DEF vars, OwnInv, AtSdk, InFlight
<1> QED
  BY <1>7, <1>8, <1>9, NextByCamera

\* Nor do overlapping captures mix up their closures: a trampoline that finds its
\* context starts the closure of the capture its own camera is in, while it is
\* installed.  Only a context freed by the call above makes it read anything else.
THEOREM LiveTheorem ==
  ASSUME "revoke" \notin Faults
  PROVE  Spec => [][\A c \in Cameras : \A call \in invoking'[c] \ invoking[c] :
                      call[1] \in DOMAIN frames =>
                        call[2] = callbackId[c] /\ call[2] \in frameCallbacks]_vars
<1> DEFINE Inv == /\ TypeOK /\ HandleInv /\ ClosureInv /\ QuietInv
                  /\ SlotInv /\ BufferExclusive /\ OwnInv
           Live == \A c \in Cameras : \A call \in invoking'[c] \ invoking[c] :
                     call[1] \in DOMAIN frames =>
                       call[2] = callbackId[c] /\ call[2] \in frameCallbacks
<1>1. Init => Inv
  BY InitType, InitHandle, InitClosure, InitQuiet, InitSlot
     DEF Init, InitApp, InitSdk, OwnInv, AtSdk, InFlight
<1>2. Inv /\ [Next]_vars => Inv'
  BY NextType, NextHandle, NextClosure, NextQuiet, NextSlot, NextOwn
<1>3. Inv /\ [Next]_vars => Live \/ UNCHANGED vars
  <2> SUFFICES ASSUME Inv, Next, NEW c \in Cameras, NEW call \in invoking'[c] \ invoking[c],
                      call[1] \in DOMAIN frames
               PROVE  call[2] = callbackId[c] /\ call[2] \in frameCallbacks
    OBVIOUS
  <2>1. \A d \in Cameras : ~AppStep(d)
    BY AppStepLocal DEF tramVars
  <2>2. \A d \in Cameras \ {c} : ~SdkStep(d)
    BY SdkStepLocal
  <2>3. SdkStep(c)
    BY <2>1, <2>2, NextByCamera
  <2>4. PICK s \in InFlight(c) : Invoke(c, s)
    BY <2>3 DEF SdkStep, Deliver, TrampolineStep, SkipIncomplete, ClosureReturns, ClosurePanics,
                Requeue, TypeOK, SdkTypeOK
  <2>5. PICK k \in ReadCallback(s) : invoking' = [invoking EXCEPT ![c] = @ \cup {<<s, k>>}]
    BY <2>4 DEF Invoke
  <2>6. call = <<s, k>>
    BY <2>5 DEF TypeOK, SdkTypeOK
  <2>7. k = frames[s] /\ s \in AtSdk(c) \cap DOMAIN frames
    BY <2>5, <2>6 DEF ReadCallback, AtSdk
  <2>8. k = callbackId[c]
    BY <2>7 DEF OwnInv
  <2>9. pc[c] \in Busy
    BY <2>4 DEF QuietInv, Outside, TypeOK, AppTypeOK, PCs, Busy
  <2> QED
    BY <2>6, <2>8, <2>9 DEF ClosureInv, RegistryExact, Busy
<1> HIDE DEF Inv, Live
<1>4. Spec => [][Live]_vars
  BY <1>1, <1>2, <1>3, PTL DEF Spec
<1> QED
  BY <1>4 DEF Live

-----------------------------------------------------------------------------
(* A start_capture that returns Err was failed by the SDK. *)

\* With the stages of start_capture goes what the adapter looks up in them: the handle,
\* the closure and each slot are there, so no port call of a live Camera takes an early
\* return and the error path is entered for one of four return codes only.
THEOREM StartTheorem ==
  ASSUME Serial, "revoke" \notin Faults, {"announce", "start", "queue", "acquire"} \cap Faults = {}
  PROVE  Spec => [][\A c \in Cameras : pc[c] \in Starting => pc'[c] \in Starting \cup {"running"}]_vars
<1> DEFINE Starts == \A c \in Cameras : pc[c] \in Starting => pc'[c] \in Starting \cup {"running"}
<1>1. AllInv /\ StageInv /\ [Next]_vars => Starts \/ UNCHANGED vars
  <2> SUFFICES ASSUME AllInv, StageInv, Next, NEW c \in Cameras, pc[c] \in Starting
               PROVE  pc'[c] \in Starting \cup {"running"}
    OBVIOUS
  <2>0. TypeOK /\ HandleInv /\ ClosureInv /\ ContextInv /\ SlotInv
    BY DEF AllInv, SafeInv
  <2> USE DEF appVars, Goto, Starting
  <2>1. Resolves(c)
    BY <2>0 DEF HandleInv, Resolves
  <2>2. ~MayFail("announce") /\ ~MayFail("start") /\ ~MayFail("queue") /\ ~MayFail("acquire")
    BY DEF MayFail
  <2>3. ASSUME pc[c] = "queue", NEW s \in pending[c] PROVE CanQueue(c, s)
    <3>1. s \in announced[c]
      BY <2>0, <2>3 DEF SlotInv, StageInv, Staged, Engaged
    <3>2. s \in DOMAIN frames
      BY <2>0, <3>1 DEF ContextInv, ContextsAlive
    <3>3. callbackId[c] \in frameCallbacks
      BY <2>0, <2>3 DEF ClosureInv, RegistryExact
    <3> QED
      BY <2>1, <3>2, <3>3 DEF CanQueue
  <2>4. ASSUME CallStep(c) PROVE pc'[c] \in Starting \cup {"running"}
    <3>1. ~AnnounceFails(c) /\ ~CaptureStartFails(c) /\ ~AcquisitionStartFails(c) /\ ~QueueFails(c)
      BY <2>1, <2>2 DEF AnnounceFails, CaptureStartFails, AcquisitionStartFails, QueueFails
    <3>2. ~QueueUnknown(c)
      BY <2>3 DEF QueueUnknown
    <3>3. AnnounceFrame(c) \/ CaptureStart(c) \/ QueueFrame(c) \/ AcquisitionStart(c)
      BY <2>4, <3>1, <3>2 DEF CallStep, AcquisitionStop, CaptureEnd, CaptureEnded, CaptureQueueFlush,
                              FrameRevokeAll, UninstallFrameCallback, CloseCamera
    <3> QED
      BY <2>0, <3>3 DEF AnnounceFrame, CaptureStart, QueueFrame, AcquisitionStart, TypeOK, AppTypeOK
  <2>5. ASSUME AppStep(c), ~CallStep(c) PROVE FALSE
    BY <2>5 DEF AppStep, OpenCamera, BeginCapture, StopCapture, DropCamera
  <2>6. ASSUME NEW d \in Cameras \ {c}, AppStep(d) PROVE pc'[c] = pc[c]
    BY <2>0, <2>6, AppStepLocal DEF SameCamera
  <2>7. ASSUME NEW d \in Cameras, SdkStep(d) PROVE pc'[c] = pc[c]
    BY <2>0, <2>7, SdkStepLocal
  <2> QED
    BY <2>4, <2>5, <2>6, <2>7, NextByCamera
<1> HIDE DEF Starts
<1>2. Spec => [][Starts]_vars
  BY <1>1, InitStage, NextStage, AllCorrect, PTL DEF Spec
<1> QED
  BY <1>2 DEF Starts

-----------------------------------------------------------------------------
(* How long a call may take.  A rank that every port call makes smaller, and  *)
(* nothing else touches, bounds the loops of start_capture; that the port     *)
(* calls themselves return is what CallsReturn adds, from the fairness.       *)

Rank(c) ==
  CASE pc[c] = "announce"  -> 2 * NumBuffers + 9 - Cardinality(slots[c])
    [] pc[c] = "queue"     -> Cardinality(pending[c]) + 8
    [] pc[c] = "acqstop"   -> 7
    [] pc[c] = "end"       -> 6
    [] pc[c] = "ending"    -> 5
    [] pc[c] = "flush"     -> 4
    [] pc[c] = "revoke"    -> 3
    [] pc[c] = "uninstall" -> 2
    [] pc[c] = "close"     -> 1
    [] OTHER               -> 0

\* The loops run over finitely many slots.
LoopInv ==
  \A c \in Cameras :
    /\ IsFiniteSet(slots[c]) /\ Cardinality(slots[c]) <= NumBuffers
    /\ pc[c] = "queue" => pending[c] \subseteq slots[c]

LEMMA OneMore ==
  ASSUME NEW S, IsFiniteSet(S), NEW x, x \notin S
  PROVE  IsFiniteSet(S \cup {x}) /\ Cardinality(S \cup {x}) = Cardinality(S) + 1
BY FS_AddElement

LEMMA OneLess ==
  ASSUME NEW S, IsFiniteSet(S), NEW x \in S
  PROVE  /\ IsFiniteSet(S \ {x}) /\ Cardinality(S \ {x}) \in Nat
         /\ Cardinality(S \ {x}) = Cardinality(S) - 1
BY FS_RemoveElement, FS_CardinalityType

LEMMA RankRange ==
  ASSUME TypeOK, LoopInv, NEW c \in Cameras
  PROVE  /\ Rank(c) \in 0 .. 2 * NumBuffers + 9
         /\ pc[c] = "queue" => IsFiniteSet(pending[c]) /\ Cardinality(pending[c]) \in 0 .. NumBuffers
         /\ Cardinality(slots[c]) \in 0 .. NumBuffers
<1>1. Cardinality(slots[c]) \in 0 .. NumBuffers
  BY FS_CardinalityType, CaptureAssumption DEF LoopInv
<1>2. ASSUME pc[c] = "queue"
      PROVE  IsFiniteSet(pending[c]) /\ Cardinality(pending[c]) \in 0 .. NumBuffers
  <2>1. IsFiniteSet(pending[c]) /\ Cardinality(pending[c]) <= Cardinality(slots[c])
    BY <1>2, FS_Subset DEF LoopInv
  <2> QED
    BY <1>1, <2>1, FS_CardinalityType, CaptureAssumption
<1>3. Rank(c) \in 0 .. 2 * NumBuffers + 9
  BY <1>1, <1>2, CaptureAssumption DEF Rank
<1> QED
  BY <1>1, <1>2, <1>3

LEMMA NextLoop == TypeOK /\ SlotInv /\ LoopInv /\ [Next]_vars => LoopInv'
<1> SUFFICES ASSUME TypeOK, SlotInv, LoopInv, [Next]_vars PROVE LoopInv'
  OBVIOUS
<1> USE DEF appVars, ffiVars, sdkVars, tramVars, Goto
<1>1. ASSUME NEW c \in Cameras, AppStep(c) PROVE LoopInv'
  <2>1. \A d \in Cameras \ {c} : UNCHANGED <<pc[d], slots[d], pending[d]>>
    BY <1>1, AppStepLocal DEF SameCamera
  <2> SUFFICES /\ IsFiniteSet(slots'[c]) /\ Cardinality(slots'[c]) <= NumBuffers
               /\ pc'[c] = "queue" => pending'[c] \subseteq slots'[c]
    BY <2>1 DEF LoopInv
  <2> USE DEF TypeOK, AppTypeOK
  <2>2. CASE AnnounceFrame(c)
    <3>1. counter \notin slots[c]
      BY DEF SlotInv, FfiTypeOK
    <3>2. slots'[c] = slots[c] \cup {counter} /\ Cardinality(slots[c]) < NumBuffers /\ pc'[c] = "announce"
      BY <2>2 DEF AnnounceFrame
    <3>3. IsFiniteSet(slots'[c]) /\ Cardinality(slots'[c]) = Cardinality(slots[c]) + 1
      BY ONLY <3>1, <3>2, OneMore, LoopInv DEF LoopInv
    <3> QED
      BY <3>2, <3>3, FS_CardinalityType, CaptureAssumption DEF LoopInv
  <2>3. CASE BeginCapture(c) \/ UninstallFrameCallback(c)
    <3>1. slots'[c] = {} /\ pc'[c] # "queue"
      BY <2>3 DEF BeginCapture, UninstallFrameCallback
    <3> QED
      BY <3>1, FS_EmptySet, CaptureAssumption
  <2>4. CASE CaptureStart(c)
    BY <2>4 DEF CaptureStart, LoopInv
  <2>5. CASE QueueFrame(c)
    BY <2>5 DEF QueueFrame, LoopInv
  <2>6. CASE FrameRevokeAll(c)
    <3>1. pc' = [pc EXCEPT ![c] = "uninstall"] /\ UNCHANGED slots
      BY <2>6 DEF FrameRevokeAll
    <3> QED
      BY <3>1 DEF LoopInv
  <2>7. CASE pc'[c] # "queue" /\ UNCHANGED slots
    BY <2>7 DEF LoopInv
  <2> QED
    BY <1>1, <2>2, <2>3, <2>4, <2>5, <2>6, <2>7
       DEF AppStep, OpenCamera, StopCapture, DropCamera, CallStep, AnnounceFails, CaptureStartFails,
           QueueUnknown, QueueFails, AcquisitionStart, AcquisitionStartFails, AbortCapture,
           AcquisitionStop, CaptureEnd, CaptureEnded, CaptureQueueFlush, CloseCamera
<1>2. CASE UNCHANGED appVars
  BY <1>2 DEF LoopInv
<1>3. ASSUME NEW c \in Cameras, SdkStep(c) PROVE LoopInv'
  BY <1>2, <1>3, SdkStepLocal
<1> QED
  BY <1>1, <1>2, <1>3, NextByCamera DEF vars

\* Each port call of a call of the Camera brings its end nearer.
LEMMA CallStepRank ==
  ASSUME TypeOK, SlotInv, LoopInv, NEW c \in Cameras, CallStep(c)
  PROVE  Rank(c)' < Rank(c)
<1>0. /\ Cardinality(slots[c]) \in 0 .. NumBuffers
      /\ pc[c] = "queue" => IsFiniteSet(pending[c]) /\ Cardinality(pending[c]) \in 0 .. NumBuffers
  BY RankRange
<1> USE CaptureAssumption DEF TypeOK, AppTypeOK, Goto
<1>1. CASE AnnounceFrame(c)
  <2>1. counter \notin slots[c]
    BY DEF SlotInv, FfiTypeOK
  <2>2. slots'[c] = slots[c] \cup {counter} /\ pc[c] = "announce" /\ pc'[c] = "announce"
    BY <1>1 DEF AnnounceFrame
  <2>3. Cardinality(slots'[c]) = Cardinality(slots[c]) + 1
    BY ONLY <2>1, <2>2, OneMore, LoopInv DEF LoopInv
  <2>4. /\ Rank(c) = 2 * NumBuffers + 9 - Cardinality(slots[c])
        /\ Rank(c)' = 2 * NumBuffers + 9 - Cardinality(slots'[c])
    BY <2>2 DEF Rank
  <2> QED
    BY <1>0, <2>3, <2>4
<1>2. CASE CaptureStart(c)
  <2>1. pc[c] = "announce" /\ pc'[c] = "queue" /\ pending'[c] = slots[c]
    BY <1>2 DEF CaptureStart
  <2>2. Rank(c) = 2 * NumBuffers + 9 - Cardinality(slots[c]) /\ Rank(c)' = Cardinality(slots[c]) + 8
    BY <2>1 DEF Rank
  <2> QED
    BY <1>0, <2>2
<1>3. CASE QueueFrame(c)
  <2>1. PICK s \in pending[c] : pending' = [pending EXCEPT ![c] = @ \ {s}]
    BY <1>3 DEF QueueFrame
  <2>2. pc[c] = "queue" /\ pc'[c] = "queue" /\ pending'[c] = pending[c] \ {s}
    BY <1>3, <2>1 DEF QueueFrame
  <2>3. Cardinality(pending'[c]) = Cardinality(pending[c]) - 1
    BY ONLY <1>0, <2>1, <2>2, OneLess
  <2>4. Rank(c) = Cardinality(pending[c]) + 8 /\ Rank(c)' = Cardinality(pending'[c]) + 8
    BY <2>2 DEF Rank
  <2> QED
    BY <1>0, <2>2, <2>3, <2>4
\* The call returns, or gives up.
<1>4. CASE pc[c] = "announce" /\ pc'[c] = "end"
  <2>1. Rank(c) = 2 * NumBuffers + 9 - Cardinality(slots[c]) /\ Rank(c)' = 6
    BY <1>4 DEF Rank
  <2> QED
    BY <1>0, <2>1
<1>5. CASE pc[c] = "queue" /\ pc'[c] \in {"running", "end"}
  <2>1. Rank(c) = Cardinality(pending[c]) + 8 /\ Rank(c)' \in {0, 6}
    BY <1>5 DEF Rank
  <2> QED
    BY <1>0, <1>5, <2>1
<1>6. CASE AnnounceFails(c) \/ CaptureStartFails(c)
  BY <1>4, <1>6 DEF AnnounceFails, CaptureStartFails, AbortCapture
<1>7. CASE QueueUnknown(c) \/ QueueFails(c) \/ AcquisitionStart(c) \/ AcquisitionStartFails(c)
  BY <1>5, <1>7 DEF QueueUnknown, QueueFails, AcquisitionStart, AcquisitionStartFails, AbortCapture
<1>8. CASE AcquisitionStop(c) \/ CaptureEnd(c) \/ CaptureEnded(c) \/ CaptureQueueFlush(c)
  BY <1>8 DEF AcquisitionStop, CaptureEnd, CaptureEnded, CaptureQueueFlush, Rank
<1>9. CASE FrameRevokeAll(c)
  <2>1. pc[c] = "revoke" /\ pc' = [pc EXCEPT ![c] = "uninstall"]
    BY <1>9 DEF FrameRevokeAll
  <2> QED
    BY <2>1 DEF Rank
<1>10. CASE UninstallFrameCallback(c) \/ CloseCamera(c)
  BY <1>10 DEF UninstallFrameCallback, CloseCamera, Rank
<1> QED
  BY <1>1, <1>2, <1>3, <1>6, <1>7, <1>8, <1>9, <1>10 DEF CallStep

InCall(c) == pc[c] \in Starting \cup Stopping \cup {"close"}

\* A call of a Camera makes at most 2 * NumBuffers + 9 port calls, a start that fails
\* on its last one included, whichever fail and whatever the other cameras and the SDK
\* threads do meanwhile: each brings the end nearer and nothing else moves it away.
THEOREM BoundedTheorem ==
  Spec => /\ [](\A c \in Cameras : Rank(c) \in 0 .. 2 * NumBuffers + 9)
          /\ [][\A c \in Cameras : InCall(c) =>
                  IF CallStep(c) THEN Rank(c)' < Rank(c) ELSE Rank(c)' = Rank(c)]_vars
<1> DEFINE Inv == TypeOK /\ SlotInv /\ BufferExclusive /\ LoopInv
           InRange == \A c \in Cameras : Rank(c) \in 0 .. 2 * NumBuffers + 9
           Nearer == \A c \in Cameras : InCall(c) =>
                       IF CallStep(c) THEN Rank(c)' < Rank(c) ELSE Rank(c)' = Rank(c)
<1>1. Init => Inv
  <2>1. IsFiniteSet({}) /\ Cardinality({}) = 0
    BY FS_EmptySet
  <2> QED
    BY <2>1, InitType, InitSlot, CaptureAssumption DEF Init, InitApp, LoopInv
<1>2. Inv /\ [Next]_vars => Inv'
  BY NextType, NextSlot, NextLoop
<1>3. Inv => InRange
  BY RankRange
<1>4. Inv /\ [Next]_vars => Nearer \/ UNCHANGED vars
  <2> SUFFICES ASSUME Inv, Next, NEW c \in Cameras, InCall(c)
               PROVE  IF CallStep(c) THEN Rank(c)' < Rank(c) ELSE Rank(c)' = Rank(c)
    OBVIOUS
  <2>1. CASE CallStep(c)
    BY <2>1, CallStepRank
  <2>2. CASE ~CallStep(c)
    <3>1. ~AppStep(c)
      BY <2>2 DEF AppStep, OpenCamera, BeginCapture, StopCapture, DropCamera, InCall, Starting, Stopping
    <3>2. UNCHANGED <<pc[c], slots[c], pending[c]>>
      <4>1. ASSUME NEW d \in Cameras \ {c}, AppStep(d) PROVE <3>2
        BY <4>1, AppStepLocal DEF SameCamera
      <4>2. ASSUME NEW d \in Cameras, SdkStep(d) PROVE <3>2
        BY <4>2, SdkStepLocal DEF appVars
      <4> QED
        BY <3>1, <4>1, <4>2, NextByCamera
    <3> QED
      BY <2>2, <3>2 DEF Rank
  <2> QED
    BY <2>1, <2>2
<1> HIDE DEF Inv, InRange, Nearer
<1>5. Spec => []InRange /\ [][Nearer]_vars
  BY <1>1, <1>2, <1>3, <1>4, PTL DEF Spec
<1> QED
  BY <1>5 DEF InRange, Nearer

-----------------------------------------------------------------------------
(* What VmbCaptureEnd waits for. *)

\* The steps the trampolines of camera c still have before them, at most: an entered
\* one is invoked, returns and re-queues.
Load(c) ==
  3 * Cardinality(entered[c]) + 2 * Cardinality(invoking[c]) + Cardinality(requeueing[c])

FiniteInv ==
  \A c \in Cameras :
    /\ IsFiniteSet(queued[c]) /\ IsFiniteSet(entered[c])
    /\ IsFiniteSet(invoking[c]) /\ IsFiniteSet(requeueing[c])

EndingInv == \A c \in Cameras : pc[c] = "ending" => ~capturing[c]

LEMMA AtMostOneMore ==
  ASSUME NEW S, IsFiniteSet(S), NEW x
  PROVE  /\ IsFiniteSet(S \cup {x}) /\ Cardinality(S) \in Nat /\ Cardinality(S \cup {x}) \in Nat
         /\ Cardinality(S \cup {x}) <= Cardinality(S) + 1
<1>1. IsFiniteSet(S \cup {x})
  BY FS_AddElement
<1>2. Cardinality(S) \in Nat /\ Cardinality(S \cup {x}) \in Nat
  BY <1>1, FS_CardinalityType
<1>3. Cardinality(S \cup {x}) = IF x \in S THEN Cardinality(S) ELSE Cardinality(S) + 1
  BY FS_AddElement
<1> QED
  BY <1>1, <1>2, <1>3

LEMMA FiniteLess ==
  ASSUME NEW S, IsFiniteSet(S), NEW T
  PROVE  IsFiniteSet(S \ T)
BY FS_Subset

\* A step of a trampoline moves its frame on.
LEMMA TrampolineStepLoad ==
  ASSUME TypeOK, FiniteInv, NEW c \in Cameras, NEW s \in InFlight(c), TrampolineStep(c, s)
  PROVE  /\ IsFiniteSet(queued'[c]) /\ IsFiniteSet(entered'[c])
         /\ IsFiniteSet(invoking'[c]) /\ IsFiniteSet(requeueing'[c])
         /\ Load(c)' < Load(c)
<1> DEFINE E == entered[c]
           I == invoking[c]
           R == requeueing[c]
<1>0. IsFiniteSet(E) /\ IsFiniteSet(I) /\ IsFiniteSet(R) /\ IsFiniteSet(queued[c])
  BY DEF FiniteInv
<1>n. Cardinality(E) \in Nat /\ Cardinality(I) \in Nat /\ Cardinality(R) \in Nat
  BY <1>0, FS_CardinalityType
<1>l. Load(c) = 3 * Cardinality(E) + 2 * Cardinality(I) + Cardinality(R)
  BY DEF Load
<1>m. Load(c)' = 3 * Cardinality(E') + 2 * Cardinality(I') + Cardinality(R')
  BY DEF Load
<1>t. entered \in [Cameras -> SUBSET Nat] /\ invoking \in [Cameras -> SUBSET (Nat \X Nat)]
      /\ requeueing \in [Cameras -> SUBSET Nat] /\ queued \in [Cameras -> SUBSET Nat]
  BY DEF TypeOK, SdkTypeOK
<1>1. CASE Invoke(c, s)
  <2>1. PICK k : E' = E \ {s} /\ I' = I \cup {<<s, k>>} /\ R' = R /\ queued' = queued /\ s \in E
    BY <1>1, <1>t DEF Invoke, sdkVars
  <2>2. IsFiniteSet(E') /\ Cardinality(E') = Cardinality(E) - 1
    BY ONLY <1>0, <2>1, OneLess
  <2>3. IsFiniteSet(I') /\ Cardinality(I') \in Nat /\ Cardinality(I') <= Cardinality(I) + 1
    <3>1. /\ IsFiniteSet(I \cup {<<s, k>>}) /\ Cardinality(I \cup {<<s, k>>}) \in Nat
          /\ Cardinality(I \cup {<<s, k>>}) <= Cardinality(I) + 1
      BY ONLY <1>0, AtMostOneMore
    <3> QED
      BY ONLY <2>1, <3>1
  <2> QED
    BY ONLY <1>0, <1>n, <1>l, <1>m, <2>1, <2>2, <2>3
<1>2. CASE SkipIncomplete(c, s)
  <2>1. E' = E \ {s} /\ I' = I /\ R' = R \cup {s} /\ queued' = queued /\ s \in E
    BY <1>2, <1>t DEF SkipIncomplete, sdkVars
  <2>2. IsFiniteSet(E') /\ Cardinality(E') = Cardinality(E) - 1
    BY ONLY <1>0, <2>1, OneLess
  <2>3. IsFiniteSet(R') /\ Cardinality(R') \in Nat /\ Cardinality(R') <= Cardinality(R) + 1
    <3>1. /\ IsFiniteSet(R \cup {s}) /\ Cardinality(R \cup {s}) \in Nat
          /\ Cardinality(R \cup {s}) <= Cardinality(R) + 1
      BY ONLY <1>0, AtMostOneMore
    <3> QED
      BY ONLY <2>1, <3>1
  <2> QED
    BY ONLY <1>0, <1>n, <1>l, <1>m, <2>1, <2>2, <2>3
<1>3. CASE ClosureReturns(c, s)
  <2>1. PICK call \in I : E' = E /\ I' = I \ {call} /\ R' = R \cup {s} /\ queued' = queued
    BY <1>3, <1>t DEF ClosureReturns, sdkVars
  <2>2. IsFiniteSet(I') /\ Cardinality(I') = Cardinality(I) - 1
    BY ONLY <1>0, <2>1, OneLess
  <2>3. IsFiniteSet(R') /\ Cardinality(R') \in Nat /\ Cardinality(R') <= Cardinality(R) + 1
    <3>1. /\ IsFiniteSet(R \cup {s}) /\ Cardinality(R \cup {s}) \in Nat
          /\ Cardinality(R \cup {s}) <= Cardinality(R) + 1
      BY ONLY <1>0, AtMostOneMore
    <3> QED
      BY ONLY <2>1, <3>1
  <2> QED
    BY ONLY <1>0, <1>n, <1>l, <1>m, <2>1, <2>2, <2>3
<1>4. CASE ClosurePanics(c, s)
  <2>1. PICK call \in I : E' = E /\ I' = I \ {call} /\ R' = R /\ queued' = queued
    BY <1>4, <1>t DEF ClosurePanics, sdkVars
  <2>2. IsFiniteSet(I') /\ Cardinality(I') = Cardinality(I) - 1
    BY ONLY <1>0, <2>1, OneLess
  <2> QED
    BY ONLY <1>0, <1>n, <1>l, <1>m, <2>1, <2>2
<1>5. CASE Requeue(c, s)
  <2>1. /\ E' = E /\ I' = I /\ R' = R \ {s} /\ s \in R
        /\ queued'[c] = queued[c] \/ queued'[c] = queued[c] \cup {s}
    BY <1>5, <1>t DEF Requeue
  <2>2. IsFiniteSet(R') /\ Cardinality(R') = Cardinality(R) - 1
    BY ONLY <1>0, <2>1, OneLess
  <2>3. IsFiniteSet(queued'[c])
    <3>1. IsFiniteSet(queued[c] \cup {s})
      BY ONLY <1>0, AtMostOneMore
    <3> QED
      BY <1>0, <2>1, <3>1
  <2>4. IsFiniteSet(E') /\ IsFiniteSet(I')
    BY ONLY <1>0, <2>1
  <2>5. Load(c)' < Load(c)
    BY ONLY <1>n, <1>l, <1>m, <2>1, <2>2
  <2> QED
    BY ONLY <2>2, <2>3, <2>4, <2>5
<1> QED
  BY <1>1, <1>2, <1>3, <1>4, <1>5 DEF TrampolineStep

LEMMA NextFinite == TypeOK /\ FiniteInv /\ [Next]_vars => FiniteInv'
<1> SUFFICES ASSUME TypeOK, FiniteInv, [Next]_vars PROVE FiniteInv'
  OBVIOUS
<1>1. ASSUME NEW c \in Cameras, AppStep(c) PROVE FiniteInv'
  <2>1. UNCHANGED tramVars /\ \A d \in Cameras \ {c} : queued'[d] = queued[d]
    BY <1>1, AppStepLocal DEF SameCamera
  <2>2. queued'[c] \in {queued[c], {}} \/ \E s : queued'[c] = queued[c] \cup {s}
    BY <1>1 DEF TypeOK, SdkTypeOK, AppStep, OpenCamera, BeginCapture, StopCapture, DropCamera, CallStep,
       AnnounceFrame, AnnounceFails, CaptureStart, CaptureStartFails, QueueFrame, QueueUnknown,
       QueueFails, AcquisitionStart, AcquisitionStartFails, AbortCapture, AcquisitionStop, CaptureEnd,
       CaptureEnded, CaptureQueueFlush, FrameRevokeAll, UninstallFrameCallback, CloseCamera, sdkVars
  <2>3. IsFiniteSet(queued[c]) /\ IsFiniteSet({}) /\ \A s : IsFiniteSet(queued[c] \cup {s})
    BY FS_EmptySet, AtMostOneMore DEF FiniteInv
  <2>4. IsFiniteSet(queued'[c])
    BY <2>2, <2>3
  <2> QED
    BY <2>1, <2>4 DEF FiniteInv, tramVars
<1>2. ASSUME NEW c \in Cameras, SdkStep(c) PROVE FiniteInv'
  <2>1. \A d \in Cameras \ {c} : UNCHANGED <<queued[d], entered[d], invoking[d], requeueing[d]>>
    BY <1>2, SdkStepLocal
  <2>2. /\ IsFiniteSet(queued'[c]) /\ IsFiniteSet(entered'[c])
        /\ IsFiniteSet(invoking'[c]) /\ IsFiniteSet(requeueing'[c])
    <3>1. CASE Deliver(c)
      <4>1. UNCHANGED <<invoking, requeueing>>
        BY <3>1 DEF Deliver
      <4>2. PICK s : queued'[c] = queued[c] \ {s} /\ entered'[c] = entered[c] \cup {s}
        BY <3>1 DEF Deliver, TypeOK, SdkTypeOK
      <4>3. IsFiniteSet(queued[c] \ {s}) /\ IsFiniteSet(entered[c] \cup {s})
        BY AtMostOneMore, FiniteLess DEF FiniteInv
      <4> QED
        BY <4>1, <4>2, <4>3 DEF FiniteInv
    <3>2. CASE \E s \in InFlight(c) : TrampolineStep(c, s)
      BY <3>2, TrampolineStepLoad
    <3> QED
      BY <1>2, <3>1, <3>2 DEF SdkStep
  <2> QED
    BY <2>1, <2>2 DEF FiniteInv
<1>3. CASE UNCHANGED vars
  BY <1>3 DEF FiniteInv, vars, sdkVars, tramVars
<1> QED
  BY <1>1, <1>2, <1>3, NextByCamera

LEMMA NextEnding == TypeOK /\ EndingInv /\ [Next]_vars => EndingInv'
<1> SUFFICES ASSUME TypeOK, EndingInv, [Next]_vars PROVE EndingInv'
  OBVIOUS
<1> USE DEF TypeOK, AppTypeOK, SdkTypeOK, appVars, sdkVars, Goto
<1>1. CASE UNCHANGED <<pc, capturing>>
  BY <1>1 DEF EndingInv
<1>2. ASSUME NEW c \in Cameras, pc'[c] # "ending",
             \A d \in Cameras \ {c} : pc'[d] = pc[d] /\ capturing'[d] = capturing[d]
      PROVE  EndingInv'
  BY <1>2 DEF EndingInv
<1>3. ASSUME NEW c \in Cameras, AppStep(c) PROVE EndingInv'
  <2>1. CASE OpenCamera(c) \/ BeginCapture(c) \/ StopCapture(c) \/ DropCamera(c)
    BY <1>2, <2>1 DEF OpenCamera, BeginCapture, StopCapture, DropCamera
  <2>2. CASE AnnounceFrame(c) \/ CaptureStart(c) \/ QueueFrame(c) \/ QueueFails(c)
    BY <1>2, <2>2 DEF AnnounceFrame, CaptureStart, QueueFrame, QueueFails
  <2>3. CASE AnnounceFails(c) \/ CaptureStartFails(c) \/ QueueUnknown(c) \/ AcquisitionStartFails(c)
    BY <1>2, <2>3 DEF AnnounceFails, CaptureStartFails, QueueUnknown, AcquisitionStartFails, AbortCapture
  <2>4. CASE AcquisitionStart(c) \/ AcquisitionStop(c) \/ CaptureEnded(c) \/ CaptureQueueFlush(c)
    BY <1>2, <2>4 DEF AcquisitionStart, AcquisitionStop, CaptureEnded, CaptureQueueFlush
  <2>5. CASE CaptureEnd(c)
    BY <2>5 DEF CaptureEnd, EndingInv
  <2>6. CASE FrameRevokeAll(c)
    <3>1. pc' = [pc EXCEPT ![c] = "uninstall"] /\ UNCHANGED capturing
      BY <2>6 DEF FrameRevokeAll
    <3> QED
      BY <1>2, <3>1
  <2>7. CASE UninstallFrameCallback(c) \/ CloseCamera(c)
    BY <1>2, <2>7 DEF UninstallFrameCallback, CloseCamera
  <2> QED
    BY <1>3, <2>1, <2>2, <2>3, <2>4, <2>5, <2>6, <2>7 DEF AppStep, CallStep
<1>4. ASSUME NEW c \in Cameras, SdkStep(c) PROVE EndingInv'
  BY <1>1, <1>4, SdkStepLocal
<1> QED
  BY <1>1, <1>3, <1>4, NextByCamera DEF vars

\* While VmbCaptureEnd waits, no callback of the camera begins, and each step of those
\* in progress leaves less to wait for, down to nothing: it cannot wait for ever on
\* closures that return or panic, however many frames were delivered before.
THEOREM DrainTheorem ==
  Spec => /\ [](\A c \in Cameras : Load(c) \in Nat /\ (Load(c) = 0 <=> InFlight(c) = {}))
          /\ [][\A c \in Cameras : pc[c] = "ending" =>
                  IF \E s \in InFlight(c) : TrampolineStep(c, s)
                  THEN Load(c)' < Load(c) ELSE Load(c)' = Load(c)]_vars
<1> DEFINE Inv == TypeOK /\ FiniteInv /\ EndingInv
           Waits == \A c \in Cameras : Load(c) \in Nat /\ (Load(c) = 0 <=> InFlight(c) = {})
           Drains == \A c \in Cameras : pc[c] = "ending" =>
                       IF \E s \in InFlight(c) : TrampolineStep(c, s)
                       THEN Load(c)' < Load(c) ELSE Load(c)' = Load(c)
<1>1. Init => Inv
  BY InitType, FS_EmptySet DEF Init, InitApp, InitSdk, FiniteInv, EndingInv
<1>2. Inv /\ [Next]_vars => Inv'
  BY NextType, NextFinite, NextEnding
<1>3. Inv => Waits
  <2> SUFFICES ASSUME Inv, NEW c \in Cameras
               PROVE  Load(c) \in Nat /\ (Load(c) = 0 <=> InFlight(c) = {})
    OBVIOUS
  <2>1. IsFiniteSet(entered[c]) /\ IsFiniteSet(invoking[c]) /\ IsFiniteSet(requeueing[c])
    BY DEF FiniteInv
  <2>2. \A S : IsFiniteSet(S) => Cardinality(S) \in Nat /\ (Cardinality(S) = 0 <=> S = {})
    BY FS_CardinalityType, FS_EmptySet
  <2>3. InFlight(c) = {} <=> entered[c] = {} /\ invoking[c] = {} /\ requeueing[c] = {}
    BY DEF InFlight
  <2> DEFINE m == Cardinality(entered[c])
             n == Cardinality(invoking[c])
             k == Cardinality(requeueing[c])
  <2>4. m \in Nat /\ n \in Nat /\ k \in Nat /\ Load(c) = 3 * m + 2 * n + k
    BY <2>1, <2>2 DEF Load
  <2>5. InFlight(c) = {} <=> m = 0 /\ n = 0 /\ k = 0
    BY <2>1, <2>2, <2>3
  <2> HIDE DEF m, n, k
  <2> QED
    BY <2>4, <2>5
<1>4. Inv /\ [Next]_vars => Drains \/ UNCHANGED vars
  <2> SUFFICES ASSUME Inv, Next, NEW c \in Cameras, pc[c] = "ending"
               PROVE  IF \E s \in InFlight(c) : TrampolineStep(c, s)
                      THEN Load(c)' < Load(c) ELSE Load(c)' = Load(c)
    OBVIOUS
  <2>1. CASE \E s \in InFlight(c) : TrampolineStep(c, s)
    BY <2>1, TrampolineStepLoad
  <2>2. CASE ~ \E s \in InFlight(c) : TrampolineStep(c, s)
    <3>1. ~SdkStep(c)
      BY <2>2 DEF SdkStep, Deliver, EndingInv
    <3>2. UNCHANGED <<entered[c], invoking[c], requeueing[c]>>
      <4>1. ASSUME NEW d \in Cameras, AppStep(d) PROVE <3>2
        BY <4>1, AppStepLocal DEF tramVars
      <4>2. ASSUME NEW d \in Cameras \ {c}, SdkStep(d) PROVE <3>2
        BY <4>2, SdkStepLocal
      <4> QED
        BY <3>1, <4>1, <4>2, NextByCamera
    <3> QED
      BY <2>2, <3>2 DEF Load
  <2> QED
    BY <2>1, <2>2
<1> HIDE DEF Inv, Waits, Drains
<1>5. Spec => []Waits /\ [][Drains]_vars
  BY <1>1, <1>2, <1>3, <1>4, PTL DEF Spec
<1> QED
  BY <1>5 DEF Waits, Drains

-----------------------------------------------------------------------------
(* The refinement. *)

\* A Camera outside a capture has no closure, so a counter value is nobody's.
ReleasedInv == \A c \in Cameras : pc[c] \notin Busy => callbackId[c] = 0

LEMMA InitReleased == Init => ReleasedInv
BY DEF Init, InitApp, ReleasedInv

LEMMA NextReleased == TypeOK /\ ReleasedInv /\ [Next]_vars => ReleasedInv'
<1> SUFFICES ASSUME TypeOK, ReleasedInv, [Next]_vars PROVE ReleasedInv'
  OBVIOUS
<1> USE DEF appVars, ffiVars, sdkVars, tramVars, Goto, Busy, Starting, Stopping
<1>1. ASSUME NEW c \in Cameras, pc[c] \notin Busy \/ pc'[c] \in Busy,
             \A d \in Cameras \ {c} : pc'[d] = pc[d], UNCHANGED callbackId
      PROVE  ReleasedInv'
  BY <1>1 DEF ReleasedInv
<1> USE DEF TypeOK, AppTypeOK
<1>2. ASSUME NEW c \in Cameras, BeginCapture(c) \/ UninstallFrameCallback(c) PROVE ReleasedInv'
  BY <1>2 DEF BeginCapture, UninstallFrameCallback, ReleasedInv
<1>3. ASSUME NEW c \in Cameras, FrameRevokeAll(c) PROVE ReleasedInv'
  <2>1. pc' = [pc EXCEPT ![c] = "uninstall"] /\ UNCHANGED callbackId
    BY <1>3 DEF FrameRevokeAll
  <2> QED
    BY <1>1, <2>1
<1>4. ASSUME NEW c \in Cameras,
             OpenCamera(c) \/ StopCapture(c) \/ DropCamera(c) \/ CallStep(c)
      PROVE  ReleasedInv'
  <2>1. CASE OpenCamera(c) \/ StopCapture(c) \/ DropCamera(c) \/ CloseCamera(c)
    BY <1>1, <2>1 DEF OpenCamera, StopCapture, DropCamera, CloseCamera
  <2>2. CASE AnnounceFrame(c) \/ AnnounceFails(c) \/ CaptureStart(c) \/ CaptureStartFails(c)
    BY <1>1, <2>2 DEF AnnounceFrame, AnnounceFails, CaptureStart, CaptureStartFails, AbortCapture
  <2>3. CASE QueueFrame(c) \/ QueueUnknown(c) \/ QueueFails(c)
    BY <1>1, <2>3 DEF QueueFrame, QueueUnknown, QueueFails, AbortCapture
  <2>4. CASE AcquisitionStart(c) \/ AcquisitionStartFails(c) \/ AcquisitionStop(c)
    BY <1>1, <2>4 DEF AcquisitionStart, AcquisitionStartFails, AcquisitionStop, AbortCapture
  <2>5. CASE CaptureEnd(c) \/ CaptureEnded(c) \/ CaptureQueueFlush(c)
    BY <1>1, <2>5 DEF CaptureEnd, CaptureEnded, CaptureQueueFlush
  <2> QED
    BY <1>2, <1>3, <1>4, <2>1, <2>2, <2>3, <2>4, <2>5 DEF CallStep
<1>5. CASE UNCHANGED <<pc, callbackId>>
  BY <1>5 DEF ReleasedInv
<1>6. ASSUME NEW c \in Cameras, Deliver(c) \/ \E s \in InFlight(c) : TrampolineStep(c, s)
      PROVE  ReleasedInv'
  BY <1>5, <1>6 DEF Deliver, TrampolineStep, Invoke, SkipIncomplete, ClosureReturns, ClosurePanics,
                    Requeue
<1> QED
  BY <1>2, <1>4, <1>5, <1>6 DEF Next, vars

LEMMA InitContract == Init => Contract!Init
BY DEF Init, InitApp, InitSdk, Contract!Init, Phase, Starting, Stopping

LEMMA StepContract == AllInv /\ ReleasedInv /\ [Next]_vars => [Contract!Next]_Contract!vars
<1> SUFFICES ASSUME AllInv, ReleasedInv, [Next]_vars
             PROVE  Contract!Next \/ UNCHANGED Contract!vars
  OBVIOUS
<1> DEFINE P == [c \in Cameras |-> Phase(c)]
<1>0. TypeOK /\ ClosureInv /\ QuietInv /\ ContextInv /\ BufferExclusive
  BY DEF AllInv, SafeInv
<1> USE DEF appVars, ffiVars, sdkVars, tramVars, Goto
\* A step that leaves what the program sees alone.
<1>s. ASSUME UNCHANGED <<callbackId, invoking>>, P' = P PROVE UNCHANGED Contract!vars
  BY <1>s DEF Contract!vars
\* A step of one camera from place to place.
<1>p. ASSUME NEW c \in Cameras, NEW place, pc' = [pc EXCEPT ![c] = place]
      PROVE  P' = [P EXCEPT ![c] = Phase(c)'] /\ pc'[c] = place
  BY <1>0, <1>p DEF Phase, TypeOK, AppTypeOK
\* ... in the same phase,
<1>h. ASSUME NEW c \in Cameras, NEW place, pc' = [pc EXCEPT ![c] = place],
             UNCHANGED <<callbackId, invoking>>,
             \/ pc[c] \in Starting /\ place \in Starting
             \/ pc[c] \in Stopping /\ place \in Stopping
             \/ pc[c] \in {"idle", "close"} /\ place \in {"idle", "close"}
      PROVE  UNCHANGED Contract!vars
  <2>1. Phase(c)' = Phase(c)
    BY <1>h, <1>p DEF Phase, Starting, Stopping
  <2> QED
    BY <1>h, <1>p, <1>s, <2>1
\* ... or on to the next one.
<1>o. ASSUME NEW c \in Cameras, NEW place, pc' = [pc EXCEPT ![c] = place],
             UNCHANGED <<callbackId, invoking>>,
             \/ pc[c] = "closed" /\ place = "idle"
             \/ pc[c] \in Starting /\ place \in {"running"} \cup Stopping
             \/ pc[c] = "running" /\ place \in Stopping
             \/ pc[c] = "close" /\ place = "closed"
      PROVE  Contract!Next
  <2>1. /\ P' = [P EXCEPT ![c] = Phase(c)']
        /\ \/ P[c] = "closed" /\ Phase(c)' = "idle"
           \/ P[c] = "starting" /\ Phase(c)' \in {"running", "stopping"}
           \/ P[c] = "running" /\ Phase(c)' = "stopping"
           \/ P[c] = "idle" /\ Phase(c)' = "closed"
    BY <1>o, <1>p DEF Phase, Starting, Stopping
  <2>2. Contract!Open(c) \/ Contract!Started(c) \/ Contract!Stop(c) \/ Contract!Close(c)
    BY <1>o, <2>1 DEF Contract!Open, Contract!Started, Contract!Stop, Contract!Close, Contract!Enter
  <2> QED
    BY <2>2 DEF Contract!Next
<1>1. ASSUME NEW c \in Cameras, OpenCamera(c) \/ StopCapture(c) \/ DropCamera(c)
      PROVE  Contract!Next \/ UNCHANGED Contract!vars
  BY <1>1, <1>h, <1>o DEF OpenCamera, StopCapture, DropCamera, Stopping
<1>2. ASSUME NEW c \in Cameras, BeginCapture(c) PROVE Contract!Next
  <2>1. /\ pc[c] = "idle" /\ pc' = [pc EXCEPT ![c] = "announce"]
        /\ callbackId' = [callbackId EXCEPT ![c] = counter] /\ UNCHANGED invoking
    BY <1>2 DEF BeginCapture
  <2>2. callbackId'[c] = counter
    BY <1>0, <2>1 DEF TypeOK, AppTypeOK
  <2>3. \A d \in Cameras : counter # callbackId[d]
    BY <1>0 DEF ClosureInv, ReleasedInv, TypeOK, AppTypeOK, FfiTypeOK
  <2>4. counter # 0
    BY <1>0 DEF TypeOK, FfiTypeOK
  <2>5. P' = [P EXCEPT ![c] = "starting"] /\ P[c] = "idle"
    BY <1>p, <2>1 DEF Phase, Starting, Stopping
  <2>6. Contract!Start(c)
    BY <2>1, <2>2, <2>3, <2>4, <2>5 DEF Contract!Start, Contract!Enter
  <2> QED
    BY <2>6 DEF Contract!Next
<1>3. ASSUME NEW c \in Cameras, UninstallFrameCallback(c) PROVE Contract!Next
  <2> DEFINE place == IF dropping[c] THEN "close" ELSE "idle"
  <2>1. /\ pc[c] = "uninstall" /\ pc' = [pc EXCEPT ![c] = place]
        /\ callbackId' = [callbackId EXCEPT ![c] = 0] /\ UNCHANGED invoking
    BY <1>3 DEF UninstallFrameCallback
  <2>2. P' = [P EXCEPT ![c] = "idle"] /\ P[c] = "stopping"
    <3> HIDE DEF place
    <3>1. place \in {"close", "idle"}
      BY DEF place
    <3> QED
      BY <1>p, <2>1, <3>1 DEF Phase, Starting, Stopping
  <2>3. invoking[c] = {}
    <3>1. InFlight(c) = {}
      BY <1>0, <2>1 DEF QuietInv, Outside
    <3> QED
      BY <3>1 DEF InFlight
  <2>4. Contract!Stopped(c)
    BY <2>1, <2>2, <2>3 DEF Contract!Stopped, Contract!Enter
  <2> QED
    BY <2>4 DEF Contract!Next
<1>4. ASSUME NEW c \in Cameras, CallStep(c) PROVE Contract!Next \/ UNCHANGED Contract!vars
  <2> USE DEF Starting, Stopping
  <2>1. CASE AnnounceFrame(c) \/ QueueFrame(c)
    <3>1. UNCHANGED <<pc, callbackId, invoking>>
      BY <2>1 DEF AnnounceFrame, QueueFrame
    <3>2. P' = P
      BY <3>1 DEF Phase
    <3> QED
      BY <1>s, <3>1, <3>2
  <2>2. CASE AnnounceFails(c) \/ CaptureStartFails(c) \/ QueueUnknown(c) \/ AcquisitionStartFails(c)
    <3>1. pc[c] \in Starting /\ AbortCapture(c)
      BY <2>2 DEF AnnounceFails, CaptureStartFails, QueueUnknown, AcquisitionStartFails
    <3> QED
      BY <1>o, <3>1 DEF AbortCapture
  <2>3. CASE CaptureStart(c)
    BY <1>h, <2>3 DEF CaptureStart
  <2>4. CASE QueueFails(c)
    BY <1>o, <2>4 DEF QueueFails
  <2>5. CASE AcquisitionStart(c)
    BY <1>o, <2>5 DEF AcquisitionStart
  <2>6. CASE AcquisitionStop(c)
    BY <1>h, <2>6 DEF AcquisitionStop
  <2>7. CASE CaptureEnd(c)
    BY <1>h, <2>7 DEF CaptureEnd
  <2>8. CASE CaptureEnded(c)
    BY <1>h, <2>8 DEF CaptureEnded
  <2>9. CASE CaptureQueueFlush(c)
    BY <1>h, <2>9 DEF CaptureQueueFlush
  <2>10. CASE FrameRevokeAll(c)
    <3>1. pc[c] = "revoke" /\ pc' = [pc EXCEPT ![c] = "uninstall"] /\ UNCHANGED <<callbackId, invoking>>
      BY <2>10 DEF FrameRevokeAll
    <3> QED
      BY <1>h, <3>1
  <2>11. CASE CloseCamera(c)
    BY <1>o, <2>11 DEF CloseCamera
  <2> QED
    BY <1>3, <1>4, <2>1, <2>2, <2>3, <2>4, <2>5, <2>6, <2>7, <2>8, <2>9, <2>10, <2>11 DEF CallStep
\* The SDK threads move no Camera.
<1>b. ASSUME UNCHANGED pc PROVE P' = P
  BY <1>b DEF Phase
<1>5. ASSUME NEW c \in Cameras, Deliver(c) PROVE UNCHANGED Contract!vars
  BY <1>5, <1>b, <1>s DEF Deliver
<1>6. ASSUME NEW c \in Cameras, NEW s \in InFlight(c), SkipIncomplete(c, s) \/ Requeue(c, s)
      PROVE  UNCHANGED Contract!vars
  BY <1>6, <1>b, <1>s DEF SkipIncomplete, Requeue
<1>7. ASSUME NEW c \in Cameras, NEW s \in InFlight(c), Invoke(c, s) PROVE Contract!Next
  <2>1. UNCHANGED appVars /\ s \in entered[c]
    BY <1>7 DEF Invoke
  <2>2. s \in DOMAIN frames /\ frames[s] = callbackId[c]
    BY <1>0 DEF ContextInv, ContextsAlive
  <2> DEFINE call == <<s, callbackId[c]>>
  <2>3. invoking' = [invoking EXCEPT ![c] = @ \cup {call}]
    BY <1>7, <2>2 DEF Invoke, ReadCallback
  <2>4. \A other \in invoking[c] : other[1] # s
    BY <1>0, <2>1 DEF BufferExclusive
  <2>5. invoking'[c] = invoking[c] \cup {call}
    BY <1>0, <2>3 DEF TypeOK, SdkTypeOK
  <2>6. call \in invoking'[c] \ invoking[c] /\ call[1] = s /\ call[2] = callbackId[c]
    BY <2>4, <2>5
  <2>7. P[c] \in {"starting", "running", "stopping"}
    BY <1>0 DEF QuietInv, Outside, Phase, Starting, Stopping, TypeOK, AppTypeOK, PCs
  <2>8. P' = P
    BY <1>b, <2>1
  <2> HIDE DEF call
  <2>9. Contract!Call(c)
    BY <2>1, <2>3, <2>4, <2>6, <2>7, <2>8 DEF Contract!Call
  <2> QED
    BY <2>9 DEF Contract!Next
<1>8. ASSUME NEW c \in Cameras, NEW s \in InFlight(c), ClosureReturns(c, s) \/ ClosurePanics(c, s)
      PROVE  Contract!Next
  <2>1. UNCHANGED appVars /\ \E call \in invoking[c] : invoking' = [invoking EXCEPT ![c] = @ \ {call}]
    BY <1>8 DEF ClosureReturns, ClosurePanics
  <2>2. Contract!Return(c)
    BY <1>b, <2>1 DEF Contract!Return
  <2> QED
    BY <2>2 DEF Contract!Next
<1>9. CASE UNCHANGED vars
  BY <1>9, <1>b, <1>s DEF vars
<1> QED
  BY <1>1, <1>2, <1>4, <1>5, <1>6, <1>7, <1>8, <1>9 DEF Next, TrampolineStep

\* The program may rely on the contract of a Camera, whichever other calls fail: only
\* the closure of the capture under way is invoked, each buffer by one invocation at a
\* time, and none is in progress once start_capture has failed or stop_capture returned.
THEOREM ContractTheorem == ASSUME Serial, "revoke" \notin Faults PROVE Spec => ContractSpec
<1>1. TypeOK /\ ReleasedInv /\ [Next]_vars => ReleasedInv'
  BY NextReleased
<1>2. AllInv => TypeOK
  BY DEF AllInv, SafeInv
<1> QED
  BY <1>1, <1>2, InitReleased, InitContract, StepContract, AllCorrect, PTL
     DEF Spec, ContractSpec, Contract!Spec
=============================================================================
