-------------------------- MODULE FakeRuntimeProofs --------------------------
(***************************************************************************)
(* Theorems about FakeRuntime, for any set of cameras, any number of       *)
(* buffers, any failures and any bounds.                                   *)
(***************************************************************************)
EXTENDS FakeRuntime, TLAPS

-----------------------------------------------------------------------------
(* Types. *)

LEMMA InitType == Init => TypeOK
BY DEF Init, InitCameras, InitTables, InitConfig, InitDelivery, MethodNames,
       TypeOK, CameraTypeOK, TableTypeOK, FailTypeOK, DeliverTypeOK, PCs

\* The steps by what they are called: of a Camera inside its calls, ...
CameraStep(c) ==
  \/ OpenCamera(c) \/ BeginCapture(c) \/ PayloadFails(c)
  \/ AnnounceFrame(c) \/ CaptureStart(c) \/ QueueFrame(c) \/ AcquisitionStart(c)
  \/ StartFails(c)
  \/ StopCapture(c) \/ AcquisitionStop(c) \/ CaptureEnd(c) \/ FrameRevokeAll(c)
  \/ UninstallFrameCallback(c) \/ DropCamera(c) \/ CloseCamera(c)

\* ... of deliver_frame, and of the test that rigs a failure.
DeliverStep(c) == PickFrame(c) \/ InvokeClosure(c) \/ ClosureGone(c) \/ ClosureReturns(c)
RigStep(m) == FailNext(m) \/ \E skip \in 1 .. MaxCalls - 1 : FailNth(m, skip)

LEMMA NextSteps ==
  Next <=> \/ \E m \in Methods : RigStep(m)
           \/ \E c \in Cameras : CameraStep(c) \/ DeliverStep(c)
BY DEF Next, CameraStep, DeliverStep, RigStep

LEMMA CameraType ==
  ASSUME CameraTypeOK, TableTypeOK, NEW c \in Cameras, CameraStep(c)
  PROVE  CameraTypeOK' /\ TableTypeOK'
<1> USE DEF CameraTypeOK, TableTypeOK, cameraVars, tableVars, Goto, PCs, Starting, Stopping
<1>1. CASE OpenCamera(c) \/ StopCapture(c) \/ DropCamera(c) \/ PayloadFails(c)
  BY <1>1 DEF OpenCamera, StopCapture, DropCamera, PayloadFails
<1>2. CASE BeginCapture(c)
  BY <1>2 DEF BeginCapture
<1>3. CASE AnnounceFrame(c)
  BY <1>3 DEF AnnounceFrame
<1>4. CASE CaptureStart(c)
  BY <1>4 DEF CaptureStart
<1>5. CASE QueueFrame(c)
  <2>1. Head(pending[c]) \in Nat /\ Tail(pending[c]) \in Seq(Nat)
    BY <1>5 DEF QueueFrame
  <2>2. active' \in [DOMAIN active' -> Seq(Nat \X Nat)] /\ DOMAIN active' \subseteq Cameras
    BY <1>5, <2>1 DEF QueueFrame, Pushed
  <2> QED
    BY <1>5, <2>1, <2>2 DEF QueueFrame
<1>6. CASE AcquisitionStart(c) \/ AcquisitionStop(c) \/ StartFails(c)
  BY <1>6 DEF AcquisitionStart, AcquisitionStop, StartFails
<1>7. CASE CaptureEnd(c) \/ FrameRevokeAll(c) \/ CloseCamera(c)
  BY <1>7 DEF CaptureEnd, FrameRevokeAll, CloseCamera, Without
<1>8. CASE UninstallFrameCallback(c)
  BY <1>8 DEF UninstallFrameCallback
<1> QED
  BY <1>1, <1>2, <1>3, <1>4, <1>5, <1>6, <1>7, <1>8 DEF CameraStep

LEMMA CountedType ==
  ASSUME FailTypeOK, NEW m \in MethodNames, Counted(m)
  PROVE  FailTypeOK'
<1>1. CASE m \in Methods
  <2>1. counters' = [counters EXCEPT ![m] = counters[m] + 1]
    BY <1>1 DEF Counted
  <2>2. failures' \subseteq failures /\ armed' \subseteq armed
    BY <1>1 DEF Counted
  <2>3. counters' \in [MethodNames -> Nat]
    BY <2>1 DEF FailTypeOK
  <2> QED
    BY <2>2, <2>3 DEF FailTypeOK
<1>2. CASE m \notin Methods
  BY <1>2 DEF Counted, failVars, FailTypeOK
<1> QED
  BY <1>1, <1>2

LEMMA CameraFailType ==
  ASSUME FailTypeOK, NEW c \in Cameras, CameraStep(c)
  PROVE  FailTypeOK'
<1>1. \A m \in {"payload", "announce", "start", "queue", "command"} : m \in MethodNames
  BY DEF MethodNames
<1>2. NextMethod(c) \in {"payload", "announce", "start", "queue", "command"}
  BY DEF NextMethod
<1>3. UNCHANGED failVars \/ \E m \in {"payload", "announce", "start", "queue", "command"} : Counted(m)
  BY <1>2 DEF CameraStep, OpenCamera, BeginCapture, PayloadFails, AnnounceFrame, CaptureStart,
     QueueFrame, AcquisitionStart, StartFails, StopCapture, AcquisitionStop, CaptureEnd,
     FrameRevokeAll, UninstallFrameCallback, DropCamera, CloseCamera
<1> QED
  BY <1>1, <1>3, CountedType DEF FailTypeOK, failVars

LEMMA NextType == TypeOK /\ [Next]_vars => TypeOK'
<1> SUFFICES ASSUME TypeOK, [Next]_vars PROVE TypeOK'
  OBVIOUS
<1> USE DEF TypeOK
<1>1. ASSUME NEW m \in Methods, RigStep(m) PROVE TypeOK'
  <2>1. UNCHANGED <<cameraVars, tableVars, counters, deliverVars>>
    BY <1>1 DEF RigStep, FailNext, FailNth
  <2>2. m \in MethodNames /\ \A skip \in 1 .. MaxCalls - 1 : skip \in Nat
    BY FakeAssumption
  <2>3. \A skip \in Nat : <<m, skip>> \in MethodNames \X Nat
    BY <2>2
  <2>4. failures' \subseteq MethodNames \X Nat /\ armed' \subseteq MethodNames
    BY <1>1, <2>2, <2>3 DEF RigStep, FailNext, FailNth, FailTypeOK
  <2> QED
    BY <2>1, <2>4 DEF cameraVars, tableVars, deliverVars, CameraTypeOK, TableTypeOK, FailTypeOK,
                      DeliverTypeOK
<1>2. ASSUME NEW c \in Cameras, CameraStep(c) PROVE TypeOK'
  <2>1. UNCHANGED deliverVars
    BY <1>2 DEF CameraStep, OpenCamera, BeginCapture, PayloadFails, AnnounceFrame, CaptureStart,
       QueueFrame, AcquisitionStart, StartFails, StopCapture, AcquisitionStop, CaptureEnd,
       FrameRevokeAll, UninstallFrameCallback, DropCamera, CloseCamera
  <2> QED
    BY <1>2, <2>1, CameraType, CameraFailType DEF deliverVars, DeliverTypeOK
<1>3. ASSUME NEW c \in Cameras, DeliverStep(c) PROVE TypeOK'
  <2>1. UNCHANGED <<cameraVars, announced, active, frameCallbacks, failVars, concurrent>>
        /\ counter' \in {counter, counter + 1}
    BY <1>3 DEF DeliverStep, PickFrame, InvokeClosure, ClosureGone, ClosureReturns, tableVars
  <2>2. DeliverTypeOK'
    <3>1. CASE PickFrame(c)
      <4>1. active[c] \in Seq(Nat \X Nat) /\ active[c] # <<>>
        BY <3>1 DEF PickFrame, TableTypeOK
      <4>2. Head(active[c]) \in Nat \X Nat
        BY <4>1
      <4> QED
        BY <3>1, <4>2 DEF PickFrame, DeliverTypeOK
    <3>2. CASE InvokeClosure(c)
      BY <3>2 DEF InvokeClosure, DeliverTypeOK
    <3>3. CASE ClosureGone(c) \/ ClosureReturns(c)
      BY <3>3 DEF ClosureGone, ClosureReturns, DeliverTypeOK
    <3> QED
      BY <1>3, <3>1, <3>2, <3>3 DEF DeliverStep
  <2> QED
    BY <2>1, <2>2 DEF cameraVars, failVars, CameraTypeOK, TableTypeOK, FailTypeOK
<1>4. CASE UNCHANGED vars
  BY <1>4 DEF vars, cameraVars, tableVars, failVars, deliverVars, CameraTypeOK, TableTypeOK,
              FailTypeOK, DeliverTypeOK
<1> QED
  BY <1>1, <1>2, <1>3, <1>4, NextSteps

\* Every variable keeps its type; it is the base of the other two.
THEOREM TypeCorrect == Spec => []TypeOK
BY InitType, NextType, PTL DEF Spec

-----------------------------------------------------------------------------
(* The closures.                                                             *)

\* The places of a Camera that has no capture.
Resting == {"closed", "idle", "close"}

ClosureInv ==
  /\ \A c \in Cameras : IF pc[c] \notin Resting THEN callbackId[c] < counter ELSE callbackId[c] = 0
  /\ \A c, d \in Cameras : c # d /\ pc[c] \notin Resting /\ pc[d] \notin Resting => callbackId[c] # callbackId[d]
  /\ frameCallbacks = {callbackId[c] : c \in {d \in Cameras : pc[d] \notin Resting}}

LEMMA InitClosure == Init => ClosureInv
BY DEF Init, InitCameras, InitTables, ClosureInv, Resting

LEMMA NextClosure == TypeOK /\ ClosureInv /\ [Next]_vars => ClosureInv'
<1> SUFFICES ASSUME TypeOK, ClosureInv, [Next]_vars PROVE ClosureInv'
  OBVIOUS
<1>0. CameraTypeOK /\ counter \in Nat \ {0}
  BY DEF TypeOK, TableTypeOK
<1> USE DEF cameraVars, tableVars, failVars, deliverVars, Goto, Starting
\* A step that neither begins nor ends a capture.
<1>1. ASSUME NEW c \in Cameras, NEW place, pc' = [pc EXCEPT ![c] = place],
             pc[c] \in Resting <=> place \in Resting,
             UNCHANGED <<callbackId, frameCallbacks, counter>>
      PROVE  ClosureInv'
  <2>1. \A d \in Cameras : pc[d] \in Resting <=> pc'[d] \in Resting
    BY <1>0, <1>1 DEF CameraTypeOK
  <2>2. {d \in Cameras : pc'[d] \notin Resting} = {d \in Cameras : pc[d] \notin Resting}
    BY <2>1
  <2> QED
    BY <1>1, <2>1, <2>2 DEF ClosureInv
<1>2. CASE UNCHANGED <<pc, callbackId, frameCallbacks>> /\ counter' \in {counter, counter + 1}
  BY <1>0, <1>2 DEF ClosureInv, CameraTypeOK, Resting
<1>3. ASSUME NEW c \in Cameras, BeginCapture(c) PROVE ClosureInv'
  <2>1. /\ pc[c] = "idle" /\ pc' = [pc EXCEPT ![c] = "announce"]
        /\ callbackId' = [callbackId EXCEPT ![c] = counter]
        /\ frameCallbacks' = frameCallbacks \cup {counter}
        /\ counter' = counter + 1
    BY <1>3 DEF BeginCapture
  <2>2. \A d \in Cameras \ {c} : pc'[d] = pc[d] /\ callbackId'[d] = callbackId[d]
    BY <1>0, <2>1 DEF CameraTypeOK
  <2>3. pc'[c] = "announce" /\ callbackId'[c] = counter
    BY <1>0, <2>1 DEF CameraTypeOK
  <2>4. frameCallbacks' = {callbackId'[d] : d \in {e \in Cameras : pc'[e] \notin Resting}}
    BY <2>1, <2>2, <2>3 DEF ClosureInv, Resting
  <2> QED
    BY <1>0, <2>1, <2>2, <2>3, <2>4 DEF ClosureInv, Resting, CameraTypeOK
<1>4. ASSUME NEW c \in Cameras, UninstallFrameCallback(c) PROVE ClosureInv'
  <2>1. /\ pc[c] = "uninstall" /\ pc' = [pc EXCEPT ![c] = IF dropping[c] THEN "close" ELSE "idle"]
        /\ callbackId' = [callbackId EXCEPT ![c] = 0]
        /\ frameCallbacks' = frameCallbacks \ {callbackId[c]}
        /\ counter' = counter
    BY <1>4 DEF UninstallFrameCallback
  <2>2. \A d \in Cameras \ {c} : pc'[d] = pc[d] /\ callbackId'[d] = callbackId[d]
    BY <1>0, <2>1 DEF CameraTypeOK
  <2>3. pc'[c] \in Resting /\ pc[c] \notin Resting /\ callbackId'[c] = 0
    BY <1>0, <2>1 DEF CameraTypeOK, Resting
  <2>4. frameCallbacks' = {callbackId'[d] : d \in {e \in Cameras : pc'[e] \notin Resting}}
    BY <2>1, <2>2, <2>3 DEF ClosureInv, Resting
  <2> QED
    BY <1>0, <2>1, <2>2, <2>3, <2>4 DEF ClosureInv, Resting
<1>5. ASSUME NEW c \in Cameras, CameraStep(c) PROVE ClosureInv'
  <2> USE DEF Resting
  <2>1. CASE OpenCamera(c) \/ StopCapture(c) \/ DropCamera(c) \/ CloseCamera(c)
    BY <1>1, <2>1 DEF OpenCamera, StopCapture, DropCamera, CloseCamera
  <2>2. CASE PayloadFails(c)
    BY <1>2, <2>2 DEF PayloadFails
  <2>3. CASE AnnounceFrame(c) \/ QueueFrame(c)
    BY <1>2, <2>3 DEF AnnounceFrame, QueueFrame
  <2>4. CASE CaptureStart(c)
    BY <1>1, <2>4 DEF CaptureStart
  <2>5. CASE AcquisitionStart(c) \/ AcquisitionStop(c) \/ StartFails(c)
    BY <1>1, <2>5 DEF AcquisitionStart, AcquisitionStop, StartFails
  <2>6. CASE CaptureEnd(c) \/ FrameRevokeAll(c)
    BY <1>1, <2>6 DEF CaptureEnd, FrameRevokeAll
  <2> QED
    BY <1>3, <1>4, <1>5, <2>1, <2>2, <2>3, <2>4, <2>5, <2>6 DEF CameraStep
<1>6. ASSUME NEW c \in Cameras, DeliverStep(c) PROVE ClosureInv'
  BY <1>2, <1>6 DEF DeliverStep, PickFrame, InvokeClosure, ClosureGone, ClosureReturns
<1>7. ASSUME NEW m \in Methods, RigStep(m) PROVE ClosureInv'
  BY <1>2, <1>7 DEF RigStep, FailNext, FailNth
<1>8. CASE UNCHANGED vars
  BY <1>2, <1>8 DEF vars
<1> QED
  BY <1>5, <1>6, <1>7, <1>8, NextSteps

-----------------------------------------------------------------------------
(* The slots: a camera's announced slots are those of its capture.           *)

SlotsOf(c) == {slots[c][i] : i \in DOMAIN slots[c]}
Announced(c) == {s \in DOMAIN announced : announced[s] = c}

SlotInv ==
  /\ \A s \in DOMAIN announced : s < counter
  /\ \A c \in Cameras :
       /\ pc[c] \in Resting => slots[c] = <<>>
       /\ Announced(c) = IF pc[c] = "uninstall" THEN {} ELSE SlotsOf(c)

LEMMA InitSlot == Init => SlotInv
BY DEF Init, InitCameras, InitTables, SlotInv, SlotsOf, Announced

LEMMA NextSlot == TypeOK /\ SlotInv /\ [Next]_vars => SlotInv'
<1> SUFFICES ASSUME TypeOK, SlotInv, [Next]_vars PROVE SlotInv'
  OBVIOUS
<1>0. CameraTypeOK /\ TableTypeOK
  BY DEF TypeOK
<1> USE DEF cameraVars, tableVars, failVars, deliverVars, Goto, Starting
\* A step of camera c as it looks to the others.
<1>1. ASSUME NEW c \in Cameras, counter' \in Nat, counter' >= counter,
             \A s \in DOMAIN announced' \ DOMAIN announced : s < counter',
             \A d \in Cameras \ {c} : /\ pc'[d] = pc[d] /\ slots'[d] = slots[d]
                                       /\ Announced(d)' = Announced(d),
             pc'[c] \in Resting => slots'[c] = <<>>,
             Announced(c)' = IF pc'[c] = "uninstall" THEN {} ELSE SlotsOf(c)'
      PROVE  SlotInv'
  <2>1. \A s \in DOMAIN announced' : s < counter'
    BY <1>0, <1>1 DEF SlotInv, TableTypeOK
  <2>2. \A d \in Cameras \ {c} : (pc'[d] \in Resting <=> pc[d] \in Resting) /\ SlotsOf(d)' = SlotsOf(d)
    BY <1>1 DEF Resting, SlotsOf
  <2> QED
    BY <1>1, <2>1, <2>2 DEF SlotInv
\* A step that changes neither slots nor table.
<1>2. ASSUME NEW c \in Cameras, NEW place, pc' = [pc EXCEPT ![c] = place],
             UNCHANGED <<slots, announced, counter>>,
             place \in Resting => pc[c] \in Resting, pc[c] # "uninstall", place # "uninstall"
      PROVE  SlotInv'
  <2>1. \A d \in Cameras : Announced(d)' = Announced(d) /\ SlotsOf(d)' = SlotsOf(d)
    BY <1>2 DEF Announced, SlotsOf
  <2>2. pc'[c] = place /\ \A d \in Cameras \ {c} : pc'[d] = pc[d]
    BY <1>0, <1>2 DEF CameraTypeOK
  <2>3. counter' \in Nat /\ counter' >= counter
    BY <1>0, <1>2 DEF TableTypeOK
  <2> QED
    BY <1>1, <1>2, <2>1, <2>2, <2>3 DEF SlotInv
<1>3. CASE UNCHANGED <<pc, slots, announced>> /\ counter' \in {counter, counter + 1}
  <2>1. \A d \in Cameras : Announced(d)' = Announced(d) /\ SlotsOf(d)' = SlotsOf(d)
    BY <1>3 DEF Announced, SlotsOf
  <2>2. \A s \in DOMAIN announced' : s < counter'
    BY <1>0, <1>3 DEF SlotInv, TableTypeOK
  <2> QED
    BY <1>3, <2>1, <2>2 DEF SlotInv, Resting
<1>4. ASSUME NEW c \in Cameras, BeginCapture(c) PROVE SlotInv'
  <2>1. /\ pc[c] = "idle" /\ pc' = [pc EXCEPT ![c] = "announce"]
        /\ slots' = [slots EXCEPT ![c] = <<>>] /\ announced' = announced /\ counter' = counter + 1
    BY <1>4 DEF BeginCapture
  <2>2. slots[c] = <<>> /\ Announced(c) = SlotsOf(c)
    BY <2>1 DEF SlotInv, Resting
  <2>3. slots' = slots
    BY <1>0, <2>1, <2>2 DEF CameraTypeOK
  <2>4. pc'[c] = "announce" /\ \A d \in Cameras \ {c} : pc'[d] = pc[d]
    BY <1>0, <2>1 DEF CameraTypeOK
  <2>5. \A d \in Cameras : Announced(d)' = Announced(d) /\ SlotsOf(d)' = SlotsOf(d)
    BY <2>1, <2>3 DEF Announced, SlotsOf
  <2>6. counter' \in Nat /\ counter' >= counter
    BY <1>0, <2>1 DEF TableTypeOK
  <2> QED
    BY <1>1, <2>1, <2>2, <2>3, <2>4, <2>5, <2>6 DEF Resting
<1>5. ASSUME NEW c \in Cameras, AnnounceFrame(c) PROVE SlotInv'
  <2>1. /\ pc[c] = "announce" /\ pc' = pc
        /\ slots' = [slots EXCEPT ![c] = Append(slots[c], counter)]
        /\ announced' = [s \in DOMAIN announced \cup {counter} |->
                           IF s = counter THEN c ELSE announced[s]]
        /\ counter' = counter + 1
    BY <1>5 DEF AnnounceFrame
  <2>2. counter \in Nat /\ counter \notin DOMAIN announced
    BY <1>0 DEF SlotInv, TableTypeOK
  <2>3. /\ Announced(c)' = Announced(c) \cup {counter}
        /\ \A d \in Cameras \ {c} : Announced(d)' = Announced(d)
    BY <2>1, <2>2 DEF Announced
  <2>4. slots'[c] = Append(slots[c], counter) /\ \A d \in Cameras \ {c} : slots'[d] = slots[d]
    BY <1>0, <2>1 DEF CameraTypeOK
  <2>5. SlotsOf(c)' = SlotsOf(c) \cup {counter}
    <3> DEFINE t == slots[c]
    <3>1. t \in Seq(Nat)
      BY <1>0 DEF CameraTypeOK
    <3>2. /\ DOMAIN Append(t, counter) = DOMAIN t \cup {Len(t) + 1}
          /\ \A i \in DOMAIN t : Append(t, counter)[i] = t[i]
          /\ Append(t, counter)[Len(t) + 1] = counter
      BY ONLY <2>2, <3>1
    <3> QED
      BY <2>4, <3>2 DEF SlotsOf
  <2>6. Announced(c)' = IF pc'[c] = "uninstall" THEN {} ELSE SlotsOf(c)'
    BY <2>1, <2>3, <2>5 DEF SlotInv
  <2> QED
    BY <1>1, <2>1, <2>2, <2>3, <2>4, <2>6 DEF Resting
<1>6. ASSUME NEW c \in Cameras, FrameRevokeAll(c) PROVE SlotInv'
  <2>1. /\ pc[c] = "revoke" /\ pc' = [pc EXCEPT ![c] = "uninstall"]
        /\ announced' = [s \in {t \in DOMAIN announced : announced[t] # c} |-> announced[s]]
        /\ UNCHANGED <<slots, counter>>
    BY <1>6 DEF FrameRevokeAll
  <2>2. Announced(c)' = {} /\ \A d \in Cameras \ {c} : Announced(d)' = Announced(d)
    BY <2>1 DEF Announced
  <2>3. pc'[c] = "uninstall" /\ \A d \in Cameras \ {c} : pc'[d] = pc[d]
    BY <1>0, <2>1 DEF CameraTypeOK
  <2> QED
    BY <1>0, <1>1, <2>1, <2>2, <2>3 DEF Resting, TableTypeOK
<1>7. ASSUME NEW c \in Cameras, UninstallFrameCallback(c) PROVE SlotInv'
  <2> DEFINE place == IF dropping[c] THEN "close" ELSE "idle"
  <2>1. /\ pc[c] = "uninstall" /\ pc' = [pc EXCEPT ![c] = place]
        /\ slots' = [slots EXCEPT ![c] = <<>>] /\ UNCHANGED <<announced, counter>>
    BY <1>7 DEF UninstallFrameCallback
  <2>2. pc'[c] \in {"close", "idle"} /\ slots'[c] = <<>>
    BY <1>0, <2>1 DEF CameraTypeOK
  <2>3. \A d \in Cameras \ {c} : pc'[d] = pc[d] /\ slots'[d] = slots[d]
    BY <1>0, <2>1 DEF CameraTypeOK
  <2>4. \A d \in Cameras : Announced(d)' = Announced(d)
    BY <2>1 DEF Announced
  <2>5. Announced(c) = {} /\ SlotsOf(c)' = {}
    BY <2>1, <2>2 DEF SlotInv, SlotsOf
  <2>6. counter' \in Nat /\ counter' >= counter
    BY <1>0, <2>1 DEF TableTypeOK
  <2> HIDE DEF place
  <2>7. Announced(c)' = IF pc'[c] = "uninstall" THEN {} ELSE SlotsOf(c)'
    BY <2>2, <2>4, <2>5
  <2> QED
    BY <1>1, <2>1, <2>2, <2>3, <2>4, <2>6, <2>7
<1>8. ASSUME NEW c \in Cameras, CameraStep(c) PROVE SlotInv'
  <2> USE DEF Resting
  <2>1. CASE OpenCamera(c) \/ StopCapture(c) \/ DropCamera(c) \/ CloseCamera(c)
    BY <1>2, <2>1 DEF OpenCamera, StopCapture, DropCamera, CloseCamera
  <2>2. CASE PayloadFails(c) \/ QueueFrame(c)
    BY <1>3, <2>2 DEF PayloadFails, QueueFrame
  <2>3. CASE CaptureStart(c)
    BY <1>2, <2>3 DEF CaptureStart
  <2>4. CASE AcquisitionStart(c) \/ AcquisitionStop(c)
    BY <1>2, <2>4 DEF AcquisitionStart, AcquisitionStop
  <2>5. CASE StartFails(c)
    BY <1>2, <2>5 DEF StartFails
  <2>6. CASE CaptureEnd(c)
    BY <1>2, <2>6 DEF CaptureEnd
  <2> QED
    BY <1>4, <1>5, <1>6, <1>7, <1>8, <2>1, <2>2, <2>3, <2>4, <2>5, <2>6 DEF CameraStep
<1>9. ASSUME NEW c \in Cameras, DeliverStep(c) PROVE SlotInv'
  BY <1>3, <1>9 DEF DeliverStep, PickFrame, InvokeClosure, ClosureGone, ClosureReturns
<1>10. ASSUME NEW m \in Methods, RigStep(m) PROVE SlotInv'
  BY <1>3, <1>10 DEF RigStep, FailNext, FailNth
<1>11. CASE UNCHANGED vars
  BY <1>3, <1>11 DEF vars
<1> QED
  BY <1>8, <1>9, <1>10, <1>11, NextSteps

-----------------------------------------------------------------------------
(* The queues: the queue loop moves the slots from pending to active in order. *)

Filled(c) ==
  /\ c \in DOMAIN active
  /\ Len(slots[c]) = NumBuffers
  /\ \A i \in 1 .. Len(active[c]) : active[c][i] = <<slots[c][i], callbackId[c]>>

Ahead(c) ==
  /\ Len(active[c]) + Len(pending[c]) = NumBuffers
  /\ \A i \in 1 .. Len(pending[c]) : pending[c][i] = slots[c][Len(active[c]) + i]

Queued(c) ==
  /\ pc[c] \in Resting \cup {"announce", "revoke", "uninstall"} => c \notin DOMAIN active
  /\ pc[c] = "announce" => Len(slots[c]) <= NumBuffers
  /\ pc[c] = "queue" => Filled(c) /\ Ahead(c)
  /\ pc[c] = "running" => Filled(c) /\ Len(active[c]) = NumBuffers

QueueInv == \A c \in Cameras : Queued(c)

LEMMA InitQueue == Init => QueueInv
BY DEF Init, InitCameras, InitTables, QueueInv, Queued

\* A step of one camera leaves the queues of the others alone.
LEMMA QueueLocal ==
  ASSUME QueueInv, NEW c \in Cameras, Queued(c)',
         \A d \in Cameras \ {c} :
           /\ pc'[d] = pc[d] /\ callbackId'[d] = callbackId[d]
           /\ slots'[d] = slots[d] /\ pending'[d] = pending[d]
           /\ d \in DOMAIN active' <=> d \in DOMAIN active
           /\ d \in DOMAIN active => active'[d] = active[d]
  PROVE  QueueInv'
<1> SUFFICES ASSUME NEW d \in Cameras \ {c} PROVE Queued(d)'
  BY DEF QueueInv
<1>1. Queued(d)
  BY DEF QueueInv
<1> QED
  BY <1>1 DEF Queued, Filled, Ahead

LEMMA NextQueue == TypeOK /\ QueueInv /\ [Next]_vars => QueueInv'
<1> SUFFICES ASSUME TypeOK, QueueInv, [Next]_vars PROVE QueueInv'
  OBVIOUS
<1>0. CameraTypeOK /\ TableTypeOK
  BY DEF TypeOK
<1> USE DEF cameraVars, tableVars, failVars, deliverVars, Goto
\* A step that changes the place only.
<1>1. ASSUME NEW c \in Cameras, NEW place, pc' = [pc EXCEPT ![c] = place],
             UNCHANGED <<callbackId, slots, pending, active>>,
             place \in Resting \cup {"announce", "revoke", "uninstall"} =>
               pc[c] \in Resting \cup {"revoke", "uninstall"},
             place = "announce" => pc[c] = "announce",
             place \notin {"queue", "running"}
      PROVE  QueueInv'
  <2>1. pc'[c] = place /\ \A d \in Cameras \ {c} : pc'[d] = pc[d]
    BY <1>0, <1>1 DEF CameraTypeOK
  <2>2. Queued(c)
    BY DEF QueueInv
  <2>3. Queued(c)'
    BY <1>1, <2>1, <2>2 DEF Queued
  <2> QED
    BY <1>1, <2>1, <2>3, QueueLocal
<1>2. CASE UNCHANGED <<pc, callbackId, slots, pending, active>>
  BY <1>2 DEF QueueInv, Queued, Filled, Ahead
<1>3. ASSUME NEW c \in Cameras, BeginCapture(c) PROVE QueueInv'
  <2>1. /\ pc[c] = "idle" /\ pc' = [pc EXCEPT ![c] = "announce"]
        /\ callbackId' = [callbackId EXCEPT ![c] = counter]
        /\ slots' = [slots EXCEPT ![c] = <<>>]
        /\ UNCHANGED <<pending, active>>
    BY <1>3 DEF BeginCapture
  <2>2. /\ pc'[c] = "announce" /\ slots'[c] = <<>>
        /\ \A d \in Cameras \ {c} : /\ pc'[d] = pc[d] /\ slots'[d] = slots[d]
                                    /\ callbackId'[d] = callbackId[d]
    BY <1>0, <2>1 DEF CameraTypeOK
  <2>3. c \notin DOMAIN active
    BY <2>1 DEF QueueInv, Queued, Resting
  <2>4. Len(<<>>) <= NumBuffers
    BY FakeAssumption
  <2>5. Queued(c)'
    BY <2>1, <2>2, <2>3, <2>4 DEF Queued
  <2> QED
    BY <2>1, <2>2, <2>5, QueueLocal
<1>4. ASSUME NEW c \in Cameras, AnnounceFrame(c) PROVE QueueInv'
  <2>1. /\ pc[c] = "announce" /\ Len(slots[c]) < NumBuffers
        /\ slots' = [slots EXCEPT ![c] = Append(slots[c], counter)]
        /\ UNCHANGED <<pc, callbackId, pending, active>>
    BY <1>4 DEF AnnounceFrame
  <2>2. slots[c] \in Seq(Nat) /\ counter \in Nat
    BY <1>0 DEF CameraTypeOK, TableTypeOK
  <2>3. slots'[c] = Append(slots[c], counter) /\ \A d \in Cameras \ {c} : slots'[d] = slots[d]
    BY <1>0, <2>1 DEF CameraTypeOK
  <2>4. Len(slots'[c]) <= NumBuffers
    BY <2>1, <2>2, <2>3, FakeAssumption
  <2>5. Queued(c)
    BY DEF QueueInv
  <2>6. Queued(c)'
    BY <2>1, <2>4, <2>5 DEF Queued
  <2> QED
    BY <2>1, <2>3, <2>6, QueueLocal
<1>5. ASSUME NEW c \in Cameras, CaptureStart(c) PROVE QueueInv'
  <2>1. /\ pc[c] = "announce" /\ Len(slots[c]) >= NumBuffers
        /\ active' = [d \in DOMAIN active \cup {c} |-> IF d \in DOMAIN active THEN active[d] ELSE <<>>]
        /\ pending' = [pending EXCEPT ![c] = slots[c]]
        /\ pc' = [pc EXCEPT ![c] = "queue"]
        /\ UNCHANGED <<callbackId, slots>>
    BY <1>5 DEF CaptureStart
  <2>2. c \notin DOMAIN active /\ Len(slots[c]) <= NumBuffers
    BY <2>1 DEF QueueInv, Queued
  <2>3. slots[c] \in Seq(Nat) /\ Len(slots[c]) = NumBuffers
    BY <1>0, <2>1, <2>2, FakeAssumption DEF CameraTypeOK
  <2>4. /\ pc'[c] = "queue" /\ pending'[c] = slots[c]
        /\ \A d \in Cameras \ {c} : pc'[d] = pc[d] /\ pending'[d] = pending[d]
    BY <1>0, <2>1 DEF CameraTypeOK
  <2>5. /\ c \in DOMAIN active' /\ active'[c] = <<>>
        /\ \A d \in Cameras \ {c} : /\ d \in DOMAIN active' <=> d \in DOMAIN active
                                    /\ d \in DOMAIN active => active'[d] = active[d]
    BY <2>1, <2>2
  <2>6. Len(active'[c]) = 0
    <3>1. Len(<<>>) = 0
      OBVIOUS
    <3> QED
      BY <2>5, <3>1
  <2>7. Filled(c)' /\ Ahead(c)'
    <3>1. \A i \in 1 .. NumBuffers : 0 + i = i
      BY FakeAssumption
    <3>2. 1 .. 0 = {} /\ 0 + NumBuffers = NumBuffers
      BY FakeAssumption
    <3>3. Filled(c)'
      BY <2>1, <2>3, <2>5, <2>6, <3>2 DEF Filled
    <3>4. Ahead(c)'
      BY <2>1, <2>3, <2>4, <2>6, <3>1, <3>2 DEF Ahead
    <3> QED
      BY <3>3, <3>4
  <2>8. Queued(c)'
    BY <2>4, <2>7 DEF Queued, Resting
  <2> QED
    BY <2>1, <2>4, <2>5, <2>8, QueueLocal
<1>6. ASSUME NEW c \in Cameras, QueueFrame(c) PROVE QueueInv'
  <2> DEFINE p == pending[c]
             a == active[c]
             entry == <<Head(p), callbackId[c]>>
  <2>1. /\ pc[c] = "queue" /\ p # <<>>
        /\ active' = Pushed(c, entry)
        /\ pending' = [pending EXCEPT ![c] = Tail(p)]
        /\ UNCHANGED <<pc, callbackId, slots>>
    BY <1>6 DEF QueueFrame
  <2>2. Filled(c) /\ Ahead(c)
    BY <2>1 DEF QueueInv, Queued
  <2>3. p \in Seq(Nat) /\ slots[c] \in Seq(Nat) /\ a \in Seq(Nat \X Nat) /\ callbackId[c] \in Nat
    BY <1>0, <2>2 DEF CameraTypeOK, TableTypeOK, Filled
  <2>4. /\ c \in DOMAIN active' /\ active'[c] = Append(a, entry)
        /\ \A d \in Cameras \ {c} : /\ d \in DOMAIN active' <=> d \in DOMAIN active
                                    /\ d \in DOMAIN active => active'[d] = active[d]
    BY <2>1, <2>2 DEF Pushed, Filled
  <2>5. pending'[c] = Tail(p) /\ \A d \in Cameras \ {c} : pending'[d] = pending[d]
    BY <1>0, <2>1 DEF CameraTypeOK
  <2>6. Head(p) = p[1] /\ Head(p) \in Nat /\ Len(p) \in Nat /\ Len(p) >= 1 /\ Len(a) \in Nat
    BY <2>1, <2>3
  <2>7. entry \in Nat \X Nat
    BY <2>3, <2>6
  <2>8. /\ Len(Tail(p)) = Len(p) - 1 /\ \A i \in 1 .. Len(p) - 1 : Tail(p)[i] = p[i + 1]
    BY <2>1, <2>3
  <2>9. /\ Len(Append(a, entry)) = Len(a) + 1 /\ Append(a, entry)[Len(a) + 1] = entry
        /\ \A i \in 1 .. Len(a) : Append(a, entry)[i] = a[i]
    BY <2>3, <2>7
  <2>10. /\ Len(a) + Len(p) = NumBuffers
         /\ \A i \in 1 .. Len(p) : p[i] = slots[c][Len(a) + i]
         /\ \A i \in 1 .. Len(a) : a[i] = <<slots[c][i], callbackId[c]>>
    BY <2>2 DEF Ahead, Filled
  <2>11. entry = <<slots[c][Len(a) + 1], callbackId[c]>>
    BY <2>6, <2>10
  <2> HIDE DEF p, a, entry
  <2>12. \A i \in 1 .. Len(a) + 1 : Append(a, entry)[i] = <<slots[c][i], callbackId[c]>>
    BY <2>6, <2>9, <2>10, <2>11
  <2>13. Filled(c)'
    BY <2>1, <2>2, <2>4, <2>9, <2>12 DEF Filled
  <2>14. (Len(a) + 1) + (Len(p) - 1) = NumBuffers
    BY <2>6, <2>10
  <2>15. \A i \in 1 .. Len(p) - 1 : Tail(p)[i] = slots[c][(Len(a) + 1) + i]
    <3> SUFFICES ASSUME NEW i \in 1 .. Len(p) - 1 PROVE Tail(p)[i] = slots[c][(Len(a) + 1) + i]
      OBVIOUS
    <3>1. i + 1 \in 1 .. Len(p) /\ Len(a) + (i + 1) = (Len(a) + 1) + i
      BY <2>6
    <3> QED
      BY <2>8, <2>10, <3>1
  <2>16. Ahead(c)'
    <3>1. /\ Len(active'[c]) = Len(a) + 1 /\ pending'[c] = Tail(p)
          /\ Len(pending'[c]) = Len(p) - 1 /\ slots'[c] = slots[c]
      BY <2>1, <2>4, <2>5, <2>8, <2>9
    <3>2. Len(active'[c]) + Len(pending'[c]) = NumBuffers
      BY <2>14, <3>1
    <3>3. \A i \in 1 .. Len(pending'[c]) : pending'[c][i] = slots'[c][Len(active'[c]) + i]
      BY <2>15, <3>1
    <3> QED
      BY <3>2, <3>3 DEF Ahead
  <2>17. Queued(c)'
    BY <2>1, <2>13, <2>16 DEF Queued, Resting
  <2> QED
    BY <2>1, <2>4, <2>5, <2>17, QueueLocal
<1>7. ASSUME NEW c \in Cameras, AcquisitionStart(c) PROVE QueueInv'
  <2>1. /\ pc[c] = "queue" /\ pending[c] = <<>> /\ pc' = [pc EXCEPT ![c] = "running"]
        /\ UNCHANGED <<callbackId, slots, pending, active>>
    BY <1>7 DEF AcquisitionStart
  <2>2. pc'[c] = "running" /\ \A d \in Cameras \ {c} : pc'[d] = pc[d]
    BY <1>0, <2>1 DEF CameraTypeOK
  <2>3. Filled(c) /\ Ahead(c)
    BY <2>1 DEF QueueInv, Queued
  <2>4. active[c] \in Seq(Nat \X Nat)
    BY <1>0, <2>3 DEF TableTypeOK, Filled
  <2>5. Len(active[c]) + 0 = NumBuffers /\ Len(active[c]) \in Nat
    <3>1. Len(<<>>) = 0
      OBVIOUS
    <3> QED
      BY <2>1, <2>3, <2>4, <3>1 DEF Ahead
  <2>6. Queued(c)'
    BY <2>1, <2>2, <2>3, <2>5 DEF Queued, Filled, Resting
  <2> QED
    BY <2>1, <2>2, <2>6, QueueLocal
<1>8. ASSUME NEW c \in Cameras, CaptureEnd(c) \/ CloseCamera(c) PROVE QueueInv'
  <2>1. PICK place \in {"revoke", "closed"} : pc' = [pc EXCEPT ![c] = place]
    BY <1>8 DEF CaptureEnd, CloseCamera
  <2>2. active' = Without(active, c) /\ UNCHANGED <<callbackId, slots, pending>>
    BY <1>8 DEF CaptureEnd, CloseCamera
  <2>3. pc'[c] = place /\ \A d \in Cameras \ {c} : pc'[d] = pc[d]
    BY <1>0, <2>1 DEF CameraTypeOK
  <2>4. /\ c \notin DOMAIN active'
        /\ \A d \in Cameras \ {c} : /\ d \in DOMAIN active' <=> d \in DOMAIN active
                                    /\ d \in DOMAIN active => active'[d] = active[d]
    BY <2>2 DEF Without
  <2>5. Queued(c)'
    BY <2>3, <2>4 DEF Queued, Resting
  <2> QED
    BY <2>2, <2>3, <2>4, <2>5, QueueLocal
<1>9. ASSUME NEW c \in Cameras, UninstallFrameCallback(c) PROVE QueueInv'
  <2>1. /\ pc[c] = "uninstall"
        /\ pc' = [pc EXCEPT ![c] = IF dropping[c] THEN "close" ELSE "idle"]
        /\ callbackId' = [callbackId EXCEPT ![c] = 0]
        /\ slots' = [slots EXCEPT ![c] = <<>>] /\ pending' = [pending EXCEPT ![c] = <<>>]
        /\ UNCHANGED active
    BY <1>9 DEF UninstallFrameCallback
  <2>2. /\ pc'[c] \in {"close", "idle"}
        /\ \A d \in Cameras \ {c} : /\ pc'[d] = pc[d] /\ callbackId'[d] = callbackId[d]
                                    /\ slots'[d] = slots[d] /\ pending'[d] = pending[d]
    BY <1>0, <2>1 DEF CameraTypeOK
  <2>3. c \notin DOMAIN active
    BY <2>1 DEF QueueInv, Queued
  <2>4. Queued(c)'
    BY <2>1, <2>2, <2>3 DEF Queued, Resting
  <2> QED
    BY <2>1, <2>2, <2>4, QueueLocal
<1>10. ASSUME NEW c \in Cameras, CameraStep(c) PROVE QueueInv'
  <2> USE DEF Resting
  <2>1. CASE OpenCamera(c)
    BY <1>1, <2>1 DEF OpenCamera
  <2>2. CASE StopCapture(c) \/ DropCamera(c)
    BY <1>1, <2>2 DEF StopCapture, DropCamera
  <2>3. CASE PayloadFails(c)
    BY <1>2, <2>3 DEF PayloadFails
  <2>4. CASE StartFails(c) \/ AcquisitionStop(c)
    BY <1>1, <2>4 DEF StartFails, AcquisitionStop
  <2>5. CASE FrameRevokeAll(c)
    BY <1>1, <2>5 DEF FrameRevokeAll
  <2> QED
    BY <1>3, <1>4, <1>5, <1>6, <1>7, <1>8, <1>9, <1>10, <2>1, <2>2, <2>3, <2>4, <2>5 DEF CameraStep
<1>11. ASSUME NEW c \in Cameras, DeliverStep(c) PROVE QueueInv'
  BY <1>2, <1>11 DEF DeliverStep, PickFrame, InvokeClosure, ClosureGone, ClosureReturns
<1>12. ASSUME NEW m \in Methods, RigStep(m) PROVE QueueInv'
  BY <1>2, <1>12 DEF RigStep, FailNext, FailNth
<1>13. CASE UNCHANGED vars
  BY <1>2, <1>13 DEF vars
<1> QED
  BY <1>10, <1>11, <1>12, <1>13, NextSteps

FakeInv == TypeOK /\ ClosureInv /\ SlotInv /\ QueueInv

LEMMA FakeCorrect == Spec => []FakeInv
<1>1. Init => FakeInv
  BY InitType, InitClosure, InitSlot, InitQueue DEF FakeInv
<1>2. FakeInv /\ [Next]_vars => FakeInv'
  BY NextType, NextClosure, NextSlot, NextQueue DEF FakeInv
<1> QED
  BY <1>1, <1>2, PTL DEF Spec

\* The fake's tables are those of the captures under way, for any number of cameras
\* and buffers and whatever is rigged to fail: every way out of start_capture leaves
\* them as it found them, and a running capture has each slot queued once, in order.
THEOREM TablesTheorem == Spec => []TablesExact
<1>1. FakeInv => TablesExact
  <2> SUFFICES ASSUME FakeInv PROVE TablesExact
    OBVIOUS
  <2>0. TypeOK /\ ClosureInv /\ SlotInv /\ QueueInv
    BY DEF FakeInv
  <2>1. frameCallbacks = {callbackId[c] : c \in {d \in Cameras : pc[d] \notin {"closed", "idle", "close"}}}
    BY <2>0 DEF ClosureInv, Resting
  <2>2. \A c \in Cameras :
          {s \in DOMAIN announced : announced[s] = c} =
            IF pc[c] = "uninstall" THEN {} ELSE {slots[c][i] : i \in DOMAIN slots[c]}
    BY <2>0 DEF SlotInv, Announced, SlotsOf
  <2>3. ASSUME NEW c \in Cameras, pc[c] = "running"
        PROVE  /\ c \in DOMAIN active
               /\ active[c] = [i \in 1 .. NumBuffers |-> <<slots[c][i], callbackId[c]>>]
    <3>1. Filled(c) /\ Len(active[c]) = NumBuffers
      BY <2>0, <2>3 DEF QueueInv, Queued
    <3>2. active[c] \in Seq(Nat \X Nat)
      BY <2>0, <3>1 DEF TypeOK, TableTypeOK, Filled
    <3>3. DOMAIN active[c] = 1 .. NumBuffers /\ active[c] = [i \in DOMAIN active[c] |-> active[c][i]]
      BY <3>1, <3>2
    <3> QED
      BY <3>1, <3>3 DEF Filled
  <2> QED
    BY <2>1, <2>2, <2>3 DEF TablesExact
<1> QED
  BY <1>1, FakeCorrect, PTL

-----------------------------------------------------------------------------
(* The refinement.  A test with one thread picks a frame and invokes the closure *)
(* while its Camera stands between two calls.                                    *)

DeliverInv ==
  ~concurrent => \A p \in picked :
    /\ p[1] \in Cameras /\ pc[p[1]] = "running"
    /\ p[3] = callbackId[p[1]]
    /\ invoking[p[1]] = {}

LEMMA NextDeliver == FakeInv /\ DeliverInv /\ [Next]_vars => DeliverInv'
<1> SUFFICES ASSUME FakeInv, DeliverInv, [Next]_vars PROVE DeliverInv'
  OBVIOUS
<1>0. CameraTypeOK /\ TableTypeOK /\ DeliverTypeOK /\ QueueInv
  BY DEF FakeInv, TypeOK
<1> USE DEF cameraVars, tableVars, failVars, deliverVars
<1>1. CASE UNCHANGED <<pc, callbackId, picked, invoking, concurrent>>
  BY <1>1 DEF DeliverInv
<1>2. ASSUME NEW c \in Cameras, CameraStep(c) PROVE DeliverInv'
  <2>1. UNCHANGED deliverVars /\ MayStep(c)
    BY <1>2 DEF CameraStep, OpenCamera, BeginCapture, PayloadFails, AnnounceFrame, CaptureStart,
       QueueFrame, AcquisitionStart, StartFails, StopCapture, AcquisitionStop, CaptureEnd,
       FrameRevokeAll, UninstallFrameCallback, DropCamera, CloseCamera
  <2> QED
    BY <2>1 DEF DeliverInv, MayStep
<1>3. ASSUME NEW c \in Cameras, PickFrame(c), ~concurrent PROVE DeliverInv'
  <2> DEFINE p == <<c, Head(active[c])[1], Head(active[c])[2]>>
  <2>1. /\ invoking[c] = {} /\ picked' = {p} /\ c \in DOMAIN active /\ active[c] # <<>>
        /\ pc[c] \in {"closed", "idle", "running"} /\ UNCHANGED <<pc, callbackId, invoking, concurrent>>
    BY <1>3 DEF PickFrame, MayDeliver
  <2>2. pc[c] = "running" /\ Filled(c)
    BY <1>0, <2>1 DEF QueueInv, Queued, Resting
  <2>3. Head(active[c]) = active[c][1] /\ 1 \in 1 .. Len(active[c])
    BY <1>0, <2>1 DEF TableTypeOK
  <2>4. Head(active[c])[2] = callbackId[c]
    BY <2>2, <2>3 DEF Filled
  <2> QED
    BY <2>1, <2>2, <2>4 DEF DeliverInv
<1>4. ASSUME NEW c \in Cameras, InvokeClosure(c) \/ ClosureGone(c) PROVE DeliverInv'
  BY <1>4 DEF InvokeClosure, ClosureGone, DeliverInv
<1>5. ASSUME NEW c \in Cameras, ClosureReturns(c) PROVE DeliverInv'
  <2>1. PICK call \in invoking[c] : invoking' = [invoking EXCEPT ![c] = @ \ {call}]
    BY <1>5 DEF ClosureReturns
  <2>2. \A d \in Cameras : invoking[d] = {} => invoking'[d] = {}
    BY <1>0, <2>1 DEF DeliverTypeOK
  <2> QED
    BY <1>5, <2>2 DEF ClosureReturns, DeliverInv
<1>6. ASSUME NEW c \in Cameras, PickFrame(c), concurrent PROVE DeliverInv'
  BY <1>6 DEF PickFrame, DeliverInv
<1>7. ASSUME NEW m \in Methods, RigStep(m) PROVE DeliverInv'
  BY <1>1, <1>7 DEF RigStep, FailNext, FailNth
<1>8. CASE UNCHANGED vars
  BY <1>1, <1>8 DEF vars
<1> QED
  BY <1>2, <1>3, <1>4, <1>5, <1>6, <1>7, <1>8, NextSteps DEF DeliverStep

LEMMA InitContract == Init => DeliverInv /\ Contract!Init
BY DEF Init, InitCameras, InitDelivery, DeliverInv, Contract!Init, Phase, Starting, Stopping

LEMMA StepContract == FakeInv /\ DeliverInv /\ [Next]_vars => [Contract!Next]_Contract!vars
<1> SUFFICES ASSUME FakeInv, DeliverInv, [Next]_vars
             PROVE  Contract!Next \/ UNCHANGED Contract!vars
  OBVIOUS
<1> DEFINE P == [c \in Cameras |-> Phase(c)]
           R == [c \in Cameras |-> IF concurrent THEN {} ELSE invoking[c]]
<1>0. CameraTypeOK /\ TableTypeOK /\ DeliverTypeOK /\ ClosureInv
  BY DEF FakeInv, TypeOK
<1> USE DEF cameraVars, tableVars, failVars, deliverVars, Goto
<1>s. ASSUME UNCHANGED callbackId, P' = P, R' = R PROVE UNCHANGED Contract!vars
  BY <1>s DEF Contract!vars
\* A step of one Camera from place to place.
<1>p. ASSUME NEW c \in Cameras, NEW place, pc' = [pc EXCEPT ![c] = place]
      PROVE  P' = [P EXCEPT ![c] = Phase(c)'] /\ pc'[c] = place
  BY <1>0, <1>p DEF Phase, CameraTypeOK
<1>r. ASSUME UNCHANGED deliverVars PROVE R' = R
  BY <1>r
\* ... in the same phase,
<1>h. ASSUME NEW c \in Cameras, NEW place, pc' = [pc EXCEPT ![c] = place],
             UNCHANGED <<callbackId, deliverVars>>,
             \/ pc[c] \in Starting /\ place \in Starting
             \/ pc[c] \in Stopping /\ place \in Stopping
             \/ pc[c] = "idle" /\ place = "close"
      PROVE  UNCHANGED Contract!vars
  <2>1. Phase(c)' = Phase(c)
    BY <1>h, <1>p DEF Phase, Starting, Stopping
  <2> QED
    BY <1>h, <1>p, <1>r, <1>s, <2>1
\* ... or on to the next one.
<1>o. ASSUME NEW c \in Cameras, NEW place, pc' = [pc EXCEPT ![c] = place],
             UNCHANGED <<callbackId, deliverVars>>,
             \/ pc[c] = "closed" /\ place = "idle"
             \/ pc[c] \in Starting /\ place \in {"running"} \cup Stopping
             \/ pc[c] = "running" /\ place \in Stopping
             \/ pc[c] = "close" /\ place = "closed"
      PROVE  Contract!Next
  <2>1. /\ P' = [P EXCEPT ![c] = Phase(c)']
        /\ \/ P[c] = "closed" /\ Phase(c)' = "idle"
           \/ P[c] = "starting" /\ Phase(c)' \in {"running", "stopping"}
           \/ P[c] = "running" /\ Phase(c)' = "stopping"
           \/ P[c] = "idle" /\ Phase(c)' = "closed"
    BY <1>o, <1>p DEF Phase, Starting, Stopping
  <2>2. Contract!Open(c) \/ Contract!Started(c) \/ Contract!Stop(c) \/ Contract!Close(c)
    BY <1>o, <1>r, <2>1 DEF Contract!Open, Contract!Started, Contract!Stop, Contract!Close, Contract!Enter
  <2> QED
    BY <2>2 DEF Contract!Next
<1>b. ASSUME UNCHANGED pc PROVE P' = P
  BY <1>b DEF Phase
<1>1. ASSUME NEW c \in Cameras, BeginCapture(c) PROVE Contract!Next
  <2>1. /\ pc[c] = "idle" /\ pc' = [pc EXCEPT ![c] = "announce"]
        /\ callbackId' = [callbackId EXCEPT ![c] = counter] /\ UNCHANGED deliverVars
    BY <1>1 DEF BeginCapture
  <2>2. callbackId'[c] = counter
    BY <1>0, <2>1 DEF CameraTypeOK
  <2>3. counter # 0 /\ \A d \in Cameras : counter # callbackId[d]
    BY <1>0 DEF ClosureInv, CameraTypeOK, TableTypeOK
  <2>4. P' = [P EXCEPT ![c] = "starting"] /\ P[c] = "idle"
    BY <1>p, <2>1 DEF Phase, Starting, Stopping
  <2>5. Contract!Start(c)
    BY <1>r, <2>1, <2>2, <2>3, <2>4 DEF Contract!Start, Contract!Enter
  <2> QED
    BY <2>5 DEF Contract!Next
<1>2. ASSUME NEW c \in Cameras, UninstallFrameCallback(c) PROVE Contract!Next
  <2> DEFINE place == IF dropping[c] THEN "close" ELSE "idle"
  <2>1. /\ pc[c] = "uninstall" /\ pc' = [pc EXCEPT ![c] = place] /\ MayStep(c)
        /\ callbackId' = [callbackId EXCEPT ![c] = 0] /\ UNCHANGED deliverVars
    BY <1>2 DEF UninstallFrameCallback
  <2>2. P' = [P EXCEPT ![c] = "idle"] /\ P[c] = "stopping"
    <3> HIDE DEF place
    <3>1. place \in {"close", "idle"}
      BY DEF place
    <3> QED
      BY <1>p, <2>1, <3>1 DEF Phase, Starting, Stopping
  <2>3. R[c] = {}
    BY <2>1 DEF MayStep
  <2>4. Contract!Stopped(c)
    BY <1>r, <2>1, <2>2, <2>3 DEF Contract!Stopped, Contract!Enter
  <2> QED
    BY <2>4 DEF Contract!Next
<1>3. ASSUME NEW c \in Cameras, CameraStep(c) PROVE Contract!Next \/ UNCHANGED Contract!vars
  <2> USE DEF Starting, Stopping
  <2>1. CASE PayloadFails(c) \/ AnnounceFrame(c) \/ QueueFrame(c)
    <3>1. UNCHANGED <<pc, callbackId, deliverVars>>
      BY <2>1 DEF PayloadFails, AnnounceFrame, QueueFrame
    <3> QED
      BY <1>b, <1>r, <1>s, <3>1
  <2>2. CASE OpenCamera(c) \/ StopCapture(c) \/ CloseCamera(c)
    BY <1>o, <2>2 DEF OpenCamera, StopCapture, CloseCamera
  <2>3. CASE CaptureStart(c)
    BY <1>h, <2>3 DEF CaptureStart
  <2>4. CASE AcquisitionStart(c) \/ StartFails(c)
    BY <1>o, <2>4 DEF AcquisitionStart, StartFails
  <2>5. CASE AcquisitionStop(c) \/ CaptureEnd(c)
    BY <1>h, <2>5 DEF AcquisitionStop, CaptureEnd
  <2>6. CASE FrameRevokeAll(c)
    BY <1>h, <2>6 DEF FrameRevokeAll
  <2>7. CASE DropCamera(c)
    BY <1>h, <1>o, <2>7 DEF DropCamera
  <2> QED
    BY <1>1, <1>2, <1>3, <2>1, <2>2, <2>3, <2>4, <2>5, <2>6, <2>7 DEF CameraStep
<1>4. CASE UNCHANGED <<pc, callbackId, invoking, concurrent>>
  <2>1. R' = R
    BY <1>4
  <2> QED
    BY <1>4, <1>b, <1>s, <2>1
<1>5. ASSUME NEW c \in Cameras, PickFrame(c) \/ ClosureGone(c) PROVE UNCHANGED Contract!vars
  <2>1. UNCHANGED <<pc, callbackId, invoking, concurrent>>
    BY <1>5 DEF PickFrame, ClosureGone
  <2>2. R' = R
    BY <2>1
  <2> QED
    BY <1>b, <1>s, <2>1, <2>2
\* From a thread of its own deliver_frame is not the contract's business.
<1>6. ASSUME NEW c \in Cameras, InvokeClosure(c) \/ ClosureReturns(c), concurrent
      PROVE  UNCHANGED Contract!vars
  <2>1. UNCHANGED <<pc, callbackId, concurrent>>
    BY <1>6 DEF InvokeClosure, ClosureReturns
  <2>2. R' = R
    BY <1>6, <2>1
  <2> QED
    BY <1>b, <1>s, <2>1, <2>2
<1>7. ASSUME NEW c \in Cameras, InvokeClosure(c), ~concurrent PROVE Contract!Next
  <2>1. PICK p \in picked : /\ p[1] = c
                            /\ invoking' = [invoking EXCEPT ![c] = @ \cup {<<p[2], p[3]>>}]
    BY <1>7 DEF InvokeClosure
  <2>2. UNCHANGED <<pc, callbackId, concurrent>>
    BY <1>7 DEF InvokeClosure
  <2>3. pc[c] = "running" /\ p[3] = callbackId[c] /\ invoking[c] = {}
    BY <1>7, <2>1 DEF DeliverInv
  <2> DEFINE call == <<p[2], p[3]>>
  <2>4. call[2] = callbackId[c]
    BY <2>3
  <2> HIDE DEF call
  <2>5. R' = [R EXCEPT ![c] = @ \cup {call}] /\ R[c] = {}
    BY <1>0, <1>7, <2>1, <2>2, <2>3 DEF DeliverTypeOK, call
  <2>6. R'[c] = {call}
    BY <2>5
  <2>7. P' = P /\ P[c] = "running"
    BY <1>b, <2>2, <2>3 DEF Phase, Starting, Stopping
  <2>8. Contract!Call(c)
    BY <2>2, <2>4, <2>5, <2>6, <2>7 DEF Contract!Call
  <2> QED
    BY <2>8 DEF Contract!Next
<1>8. ASSUME NEW c \in Cameras, ClosureReturns(c), ~concurrent PROVE Contract!Next
  <2>1. PICK call \in invoking[c] : invoking' = [invoking EXCEPT ![c] = @ \ {call}]
    BY <1>8 DEF ClosureReturns
  <2>2. UNCHANGED <<pc, callbackId, concurrent>>
    BY <1>8 DEF ClosureReturns
  <2>3. R' = [R EXCEPT ![c] = @ \ {call}] /\ call \in R[c]
    BY <1>0, <1>8, <2>1, <2>2 DEF DeliverTypeOK
  <2>4. Contract!Return(c)
    BY <1>b, <2>2, <2>3 DEF Contract!Return
  <2> QED
    BY <2>4 DEF Contract!Next
<1>9. ASSUME NEW m \in Methods, RigStep(m) PROVE UNCHANGED Contract!vars
  <2>1. UNCHANGED <<pc, callbackId, deliverVars>>
    BY <1>9 DEF RigStep, FailNext, FailNth
  <2> QED
    BY <1>b, <1>r, <1>s, <2>1
<1>10. CASE UNCHANGED vars
  BY <1>4, <1>10 DEF vars
<1> QED
  BY <1>3, <1>5, <1>6, <1>7, <1>8, <1>9, <1>10, NextSteps DEF DeliverStep

\* A Camera over the fake keeps the contract it keeps over the FFI adapter: in full in a
\* test that delivers from the thread of its Cameras, and as to the order of the calls
\* in one that delivers from a thread of its own.
THEOREM ContractTheorem == Spec => ContractSpec
BY InitContract, NextDeliver, StepContract, FakeCorrect, PTL DEF Spec, ContractSpec, Contract!Spec

-----------------------------------------------------------------------------
(* What deliver_frame finds.                                                 *)

\* Through Camera objects the fake never has a slot queued outside a capture, though
\* it would let a test queue one there: the order of the port calls suffices.
THEOREM QueuedTheorem == Spec => []QueuedInCapture
<1>1. FakeInv => QueuedInCapture
  <2> SUFFICES ASSUME FakeInv, NEW c \in DOMAIN active
               PROVE  pc[c] \in {"queue", "running", "command", "end"}
    BY DEF QueuedInCapture
  <2>1. c \in Cameras /\ pc[c] \in PCs
    BY DEF FakeInv, TypeOK, TableTypeOK, CameraTypeOK
  <2>2. pc[c] \notin Resting \cup {"announce", "revoke", "uninstall"}
    BY <2>1 DEF FakeInv, QueueInv, Queued
  <2> QED
    BY <2>1, <2>2 DEF PCs, Resting, Starting, Stopping
<1> QED
  BY <1>1, FakeCorrect, PTL

\* A queue holds slots of the capture with its closure until it is removed ...
Held(c) ==
  c \in DOMAIN active =>
    \A i \in DOMAIN active[c] : active[c][i][1] \in SlotsOf(c) /\ active[c][i][2] = callbackId[c]

HeldInv == \A c \in Cameras : Held(c)

\* ... and a picked frame whose closure is still installed is one of the capture its
\* camera is in.
Current(p) == pc[p[1]] \notin Resting /\ p[3] = callbackId[p[1]] /\ p[2] \in SlotsOf(p[1])

PickedInv == \A p \in picked : p[3] < counter /\ (p[3] \in frameCallbacks => Current(p))

\* The steps of a Camera by what they change for its queue: only the loop fills it,
\* and only the capture's two ends touch closure and slots.
LEMMA NextHeld == FakeInv /\ FakeInv' /\ HeldInv /\ [Next]_vars => HeldInv'
<1> SUFFICES ASSUME FakeInv, FakeInv', HeldInv, [Next]_vars, NEW d \in Cameras PROVE Held(d)'
  BY DEF HeldInv
<1>0. CameraTypeOK /\ TableTypeOK /\ Queued(d)' /\ TypeOK' /\ CameraTypeOK'
  BY DEF FakeInv, TypeOK, QueueInv
<1> USE DEF cameraVars, tableVars, failVars, deliverVars, Goto
<1>1. CASE d \in DOMAIN active' => /\ d \in DOMAIN active /\ active'[d] = active[d]
                                   /\ UNCHANGED <<callbackId[d], slots[d]>>
  BY <1>1 DEF HeldInv, Held, SlotsOf
<1>2. CASE pc'[d] \in Resting \cup {"announce", "revoke", "uninstall"}
  BY <1>0, <1>2 DEF Queued, Held
<1>3. CASE pc'[d] \in {"queue", "running"}
  <2>1. Filled(d)' /\ Len(active'[d]) <= NumBuffers
    <3>1. CASE pc'[d] = "running"
      BY <1>0, <3>1, FakeAssumption DEF Queued
    <3>2. CASE pc'[d] = "queue"
      <4>1. Filled(d)' /\ Len(active'[d]) + Len(pending'[d]) = NumBuffers
        BY <1>0, <3>2 DEF Queued, Ahead
      <4>2. active'[d] \in Seq(Nat \X Nat) /\ pending'[d] \in Seq(Nat)
        BY <1>0, <4>1 DEF TypeOK, TableTypeOK, CameraTypeOK, Filled
      <4>3. Len(active'[d]) \in Nat /\ Len(pending'[d]) \in Nat
        BY <4>2
      <4>4. \A m, n \in Nat : m + n = NumBuffers => m <= NumBuffers
        BY FakeAssumption
      <4> QED
        BY <4>1, <4>3, <4>4
    <3> QED
      BY <1>3, <3>1, <3>2
  <2>2. ASSUME TypeOK', Filled(d)', Len(active'[d]) <= NumBuffers PROVE Held(d)'
    <3>1. active'[d] \in Seq(Nat \X Nat) /\ slots'[d] \in Seq(Nat) /\ Len(slots'[d]) = NumBuffers
      BY <2>2 DEF TypeOK, TableTypeOK, CameraTypeOK, Filled
    <3> SUFFICES ASSUME NEW i \in DOMAIN active'[d]
                 PROVE  active'[d][i][1] \in SlotsOf(d)' /\ active'[d][i][2] = callbackId'[d]
      BY DEF Held
    <3>2. i \in 1 .. Len(active'[d]) /\ i \in DOMAIN slots'[d]
      BY <2>2, <3>1, FakeAssumption
    <3>3. active'[d][i] = <<slots'[d][i], callbackId'[d]>>
      BY <2>2, <3>2 DEF Filled
    <3> QED
      BY <3>2, <3>3 DEF SlotsOf
  <2> QED
    BY <1>0, <2>1, <2>2
<1>4. ASSUME NEW c \in Cameras, CameraStep(c), pc'[d] \in {"command", "end"} PROVE Held(d)'
  <2>1. UNCHANGED active \/ QueueFrame(c) \/ CaptureStart(c) \/ CaptureEnd(c) \/ CloseCamera(c)
    BY <1>4 DEF CameraStep, OpenCamera, BeginCapture, PayloadFails, AnnounceFrame, AcquisitionStart,
       StartFails, StopCapture, AcquisitionStop, FrameRevokeAll, UninstallFrameCallback, DropCamera
  <2>2. CASE UNCHANGED active
    <3>1. UNCHANGED <<callbackId, slots>> \/ BeginCapture(c) \/ AnnounceFrame(c) \/ UninstallFrameCallback(c)
      BY <1>4 DEF CameraStep, OpenCamera, PayloadFails, CaptureStart, QueueFrame, AcquisitionStart,
         StartFails, StopCapture, AcquisitionStop, CaptureEnd, FrameRevokeAll, DropCamera, CloseCamera
    <3>2. CASE BeginCapture(c) \/ AnnounceFrame(c) \/ UninstallFrameCallback(c)
      <4>1. d # c
        BY <1>0, <1>4, <3>2 DEF BeginCapture, AnnounceFrame, UninstallFrameCallback, CameraTypeOK
      <4> QED
        BY <1>0, <1>1, <2>2, <3>2, <4>1
           DEF BeginCapture, AnnounceFrame, UninstallFrameCallback, CameraTypeOK
    <3> QED
      BY <1>1, <2>2, <3>1, <3>2
  <2>3. CASE QueueFrame(c) \/ CaptureStart(c) \/ CaptureEnd(c) \/ CloseCamera(c)
    <3>1. UNCHANGED <<callbackId, slots>>
      BY <2>3 DEF QueueFrame, CaptureStart, CaptureEnd, CloseCamera
    <3>2. d # c
      BY <1>0, <1>4, <2>3 DEF QueueFrame, CaptureStart, CaptureEnd, CloseCamera, CameraTypeOK
    <3>3. d \in DOMAIN active' => d \in DOMAIN active /\ active'[d] = active[d]
      BY <2>3, <3>2 DEF QueueFrame, CaptureStart, CaptureEnd, CloseCamera, Pushed, Without
    <3> QED
      BY <1>1, <3>1, <3>3
  <2> QED
    BY <2>1, <2>2, <2>3
<1>5. ASSUME NEW c \in Cameras, DeliverStep(c) PROVE Held(d)'
  BY <1>1, <1>5 DEF DeliverStep, PickFrame, InvokeClosure, ClosureGone, ClosureReturns
<1>6. ASSUME NEW m \in Methods, RigStep(m) PROVE Held(d)'
  BY <1>1, <1>6 DEF RigStep, FailNext, FailNth
<1>7. CASE UNCHANGED vars
  BY <1>1, <1>7 DEF vars
<1>8. pc'[d] \in PCs
  BY <1>0 DEF CameraTypeOK
<1> QED
  BY <1>2, <1>3, <1>4, <1>5, <1>6, <1>7, <1>8, NextSteps DEF PCs, Starting, Stopping, Resting

LEMMA NextPicked == FakeInv /\ HeldInv /\ PickedInv /\ [Next]_vars => PickedInv'
<1> SUFFICES ASSUME FakeInv, HeldInv, PickedInv, [Next]_vars PROVE PickedInv'
  OBVIOUS
<1>0. CameraTypeOK /\ TableTypeOK /\ DeliverTypeOK /\ ClosureInv /\ QueueInv
  BY DEF FakeInv, TypeOK
<1> USE DEF cameraVars, tableVars, failVars, deliverVars, Goto
<1>1. CASE UNCHANGED <<pc, callbackId, slots, frameCallbacks>> /\ counter' \in {counter, counter + 1}
           /\ picked' \subseteq picked
  BY <1>0, <1>1 DEF PickedInv, Current, SlotsOf, DeliverTypeOK, TableTypeOK
\* A step of a Camera that keeps closure and slots of its capture.
<1>2. ASSUME NEW c \in Cameras, NEW place, pc' = [pc EXCEPT ![c] = place],
             pc[c] \notin Resting => place \notin Resting,
             UNCHANGED <<callbackId, slots, frameCallbacks, counter, picked>>
      PROVE  PickedInv'
  <2>1. \A d \in Cameras : pc[d] \notin Resting => pc'[d] \notin Resting
    BY <1>0, <1>2 DEF CameraTypeOK
  <2>2. \A p \in picked : p[1] \in Cameras
    BY <1>0 DEF DeliverTypeOK
  <2> QED
    BY <1>2, <2>1, <2>2 DEF PickedInv, Current, SlotsOf
<1>3. ASSUME NEW c \in Cameras, BeginCapture(c) PROVE PickedInv'
  <2>1. /\ pc[c] = "idle" /\ pc' = [pc EXCEPT ![c] = "announce"] /\ counter' = counter + 1
        /\ frameCallbacks' = frameCallbacks \cup {counter} /\ picked' = picked
        /\ callbackId' = [callbackId EXCEPT ![c] = counter]
        /\ slots' = [slots EXCEPT ![c] = <<>>]
    BY <1>3 DEF BeginCapture
  <2> SUFFICES ASSUME NEW p \in picked
               PROVE  p[3] < counter' /\ (p[3] \in frameCallbacks' => Current(p)')
    BY <2>1 DEF PickedInv
  <2>2. p[1] \in Cameras /\ p[3] \in Nat /\ p[3] < counter
    BY <1>0 DEF PickedInv, DeliverTypeOK
  <2>3. ASSUME p[3] \in frameCallbacks' PROVE Current(p)'
    <3>1. Current(p)
      BY <1>0, <2>1, <2>2, <2>3 DEF PickedInv, TableTypeOK
    <3>2. p[1] # c
      BY <2>1, <3>1 DEF Current, Resting
    <3> QED
      BY <1>0, <2>1, <2>2, <3>1, <3>2 DEF Current, SlotsOf, CameraTypeOK
  <2> QED
    BY <1>0, <2>1, <2>2, <2>3 DEF TableTypeOK
<1>4. ASSUME NEW c \in Cameras, AnnounceFrame(c) PROVE PickedInv'
  <2>1. /\ pc' = pc /\ counter' = counter + 1 /\ UNCHANGED <<frameCallbacks, picked, callbackId>>
        /\ slots' = [slots EXCEPT ![c] = Append(slots[c], counter)]
    BY <1>4 DEF AnnounceFrame
  <2>2. \A d \in Cameras : SlotsOf(d) \subseteq SlotsOf(d)'
    <3>1. slots[c] \in Seq(Nat) /\ counter \in Nat
      BY <1>0 DEF CameraTypeOK, TableTypeOK
    <3>2. \A i \in DOMAIN slots[c] : /\ i \in DOMAIN Append(slots[c], counter)
                                     /\ Append(slots[c], counter)[i] = slots[c][i]
      BY <3>1
    <3> QED
      BY <1>0, <2>1, <3>2 DEF SlotsOf, CameraTypeOK
  <2>3. \A p \in picked : p[1] \in Cameras /\ p[3] \in Nat
    BY <1>0 DEF DeliverTypeOK
  <2> QED
    BY <1>0, <2>1, <2>2, <2>3 DEF PickedInv, Current, TableTypeOK
<1>5. ASSUME NEW c \in Cameras, UninstallFrameCallback(c) PROVE PickedInv'
  <2>1. /\ frameCallbacks' = frameCallbacks \ {callbackId[c]} /\ UNCHANGED <<picked, counter>>
        /\ \A d \in Cameras \ {c} : /\ pc'[d] = pc[d] /\ callbackId'[d] = callbackId[d]
                                    /\ slots'[d] = slots[d]
    BY <1>0, <1>5 DEF UninstallFrameCallback, CameraTypeOK
  <2> SUFFICES ASSUME NEW p \in picked, p[3] \in frameCallbacks' PROVE Current(p)'
    BY <2>1 DEF PickedInv
  <2>2. Current(p) /\ p[1] \in Cameras
    BY <1>0, <2>1 DEF PickedInv, DeliverTypeOK
  <2>3. p[1] # c
    BY <2>1, <2>2 DEF Current
  <2> QED
    BY <2>1, <2>2, <2>3 DEF Current, SlotsOf
<1>6. ASSUME NEW c \in Cameras, CameraStep(c) PROVE PickedInv'
  <2> USE DEF Resting, Starting
  <2>1. CASE OpenCamera(c) \/ StopCapture(c) \/ DropCamera(c) \/ CloseCamera(c)
    BY <1>2, <2>1 DEF OpenCamera, StopCapture, DropCamera, CloseCamera
  <2>2. CASE PayloadFails(c) \/ QueueFrame(c)
    BY <1>1, <2>2 DEF PayloadFails, QueueFrame
  <2>3. CASE CaptureStart(c) \/ AcquisitionStart(c)
    BY <1>2, <2>3 DEF CaptureStart, AcquisitionStart
  <2>4. CASE AcquisitionStop(c) \/ StartFails(c)
    BY <1>2, <2>4 DEF AcquisitionStop, StartFails
  <2>5. CASE CaptureEnd(c) \/ FrameRevokeAll(c)
    BY <1>2, <2>5 DEF CaptureEnd, FrameRevokeAll
  <2> QED
    BY <1>3, <1>4, <1>5, <1>6, <2>1, <2>2, <2>3, <2>4, <2>5 DEF CameraStep
<1>7. ASSUME NEW c \in Cameras, PickFrame(c) PROVE PickedInv'
  <2> DEFINE p == <<c, Head(active[c])[1], Head(active[c])[2]>>
  <2>1. /\ c \in DOMAIN active /\ active[c] # <<>> /\ picked' = {p}
        /\ UNCHANGED <<pc, callbackId, slots, frameCallbacks, counter>>
    BY <1>7 DEF PickFrame
  <2>2. Head(active[c]) = active[c][1] /\ 1 \in DOMAIN active[c]
    BY <1>0, <2>1 DEF TableTypeOK
  <2>3. p[1] = c /\ p[2] \in SlotsOf(c) /\ p[3] = callbackId[c]
    BY <2>1, <2>2 DEF HeldInv, Held
  <2>4. pc[c] \notin Resting
    BY <1>0, <2>1 DEF QueueInv, Queued
  <2>5. callbackId[c] < counter
    BY <1>0, <2>4 DEF ClosureInv
  <2> HIDE DEF p
  <2> QED
    BY <2>1, <2>3, <2>4, <2>5 DEF PickedInv, Current, SlotsOf
<1>8. ASSUME NEW c \in Cameras, DeliverStep(c) PROVE PickedInv'
  BY <1>1, <1>7, <1>8 DEF DeliverStep, InvokeClosure, ClosureGone, ClosureReturns
<1>9. ASSUME NEW m \in Methods, RigStep(m) PROVE PickedInv'
  BY <1>1, <1>9 DEF RigStep, FailNext, FailNth
<1>10. CASE UNCHANGED vars
  BY <1>1, <1>10 DEF vars
<1> QED
  BY <1>6, <1>8, <1>9, <1>10, NextSteps

\* From whichever thread deliver_frame runs, and however the capture is stopped, dropped
\* and started anew between its two locks, the closure it finds for the slot it copied
\* is the one of the capture the camera is in, with a slot of that capture: a frame
\* never reaches the closure of a later capture or of another camera.
THEOREM FindsTheorem ==
  Spec => [][\A c \in Cameras : \A call \in invoking'[c] \ invoking[c] :
               /\ pc[c] \notin Resting
               /\ call[1] \in SlotsOf(c) /\ call[2] = callbackId[c]]_vars
<1> DEFINE Finds == \A c \in Cameras : \A call \in invoking'[c] \ invoking[c] :
                      /\ pc[c] \notin Resting
                      /\ call[1] \in SlotsOf(c) /\ call[2] = callbackId[c]
<1>1. Init => HeldInv /\ PickedInv
  BY DEF Init, InitTables, InitDelivery, HeldInv, Held, PickedInv
<1>2. FakeInv /\ PickedInv /\ [Next]_vars => Finds \/ UNCHANGED vars
  <2> SUFFICES ASSUME FakeInv, PickedInv, Next, NEW c \in Cameras,
                      NEW call \in invoking'[c] \ invoking[c]
               PROVE  /\ pc[c] \notin Resting
                      /\ call[1] \in SlotsOf(c) /\ call[2] = callbackId[c]
    OBVIOUS
  <2>0. DeliverTypeOK
    BY DEF FakeInv, TypeOK
  <2> USE DEF deliverVars
  <2>1. InvokeClosure(c)
    <3>1. ASSUME NEW d \in Cameras, CameraStep(d) PROVE FALSE
      BY <3>1 DEF CameraStep, OpenCamera, BeginCapture, PayloadFails, AnnounceFrame, CaptureStart,
         QueueFrame, AcquisitionStart, StartFails, StopCapture, AcquisitionStop, CaptureEnd,
         FrameRevokeAll, UninstallFrameCallback, DropCamera, CloseCamera
    <3>2. ASSUME NEW m \in Methods, RigStep(m) PROVE FALSE
      BY <3>2 DEF RigStep, FailNext, FailNth
    <3>3. ASSUME NEW d \in Cameras, PickFrame(d) \/ ClosureGone(d) \/ ClosureReturns(d) PROVE FALSE
      BY <2>0, <3>3 DEF PickFrame, ClosureGone, ClosureReturns, DeliverTypeOK
    <3>4. ASSUME NEW d \in Cameras, InvokeClosure(d), d # c PROVE FALSE
      BY <2>0, <3>4 DEF InvokeClosure, DeliverTypeOK
    <3> QED
      BY <3>1, <3>2, <3>3, <3>4, NextSteps DEF DeliverStep
  <2>2. PICK p \in picked : /\ p[1] = c /\ p[3] \in frameCallbacks
                            /\ invoking' = [invoking EXCEPT ![c] = @ \cup {<<p[2], p[3]>>}]
    BY <2>1 DEF InvokeClosure
  <2>3. call = <<p[2], p[3]>>
    BY <2>0, <2>2 DEF DeliverTypeOK
  <2> QED
    BY <2>2, <2>3 DEF PickedInv, Current
<1> HIDE DEF Finds
<1>3. Spec => [][Finds]_vars
  BY <1>1, <1>2, FakeCorrect, NextHeld, NextPicked, PTL DEF Spec
<1> QED
  BY <1>3 DEF Finds
=============================================================================
