----------------------- MODULE RuntimeLifecycleProofs -----------------------
(***************************************************************************)
(* Theorems about RuntimeLifecycle, for any number of threads, cameras and *)
(* raw handles.                                                            *)
(***************************************************************************)
EXTENDS RuntimeLifecycle, TLAPS

-----------------------------------------------------------------------------
(* The flag.  It is set exactly while a thread owns it, whatever the program   *)
(* does: no assumption on the order of startups and drops is needed.           *)

FlagInv == SystemTypeOK /\ FlagTellsOwner

LEMMA InitFlag == Init => FlagInv
<1> SUFFICES ASSUME Init PROVE FlagInv
  OBVIOUS
<1>1. SystemTypeOK
  BY DEF Init, InitAdapter, InitProgram, SystemTypeOK, PCs
<1>2. Owners = {}
  BY DEF Init, InitProgram, Owners
<1>3. ~started
  BY DEF Init, InitAdapter
<1> QED
  BY <1>1, <1>2, <1>3 DEF FlagInv, FlagTellsOwner

LEMMA NextFlag == FlagInv /\ [Next]_<<vars, program>> => FlagInv'
<1> SUFFICES ASSUME FlagInv, [Next]_<<vars, program>> PROVE FlagInv'
  OBVIOUS
<1> USE DEF FlagInv, SystemTypeOK, FlagTellsOwner, Owners, PCs, Goto
<1>1. CASE UNCHANGED <<pc, started>> /\ sdkUp' \in BOOLEAN
  BY <1>1
<1>2. ASSUME NEW s \in Systems, StartupClaim(s) PROVE FlagInv'
  BY <1>2 DEF StartupClaim
<1>3. ASSUME NEW s \in Systems, StartupRejected(s) PROVE FlagInv'
  BY <1>3 DEF StartupRejected, vars, systemVars
<1>4. ASSUME NEW s \in Systems, StartupCall(s) PROVE FlagInv'
  BY <1>4 DEF StartupCall
<1>5. ASSUME NEW s \in Systems, StartupFails(s) PROVE FlagInv'
  BY <1>5 DEF StartupFails
<1>6. ASSUME NEW s \in Systems, StartupRollback(s) PROVE FlagInv'
  BY <1>6 DEF StartupRollback
<1>7. ASSUME NEW s \in Systems, ShutdownSwap(s) PROVE FlagInv'
  BY <1>7 DEF ShutdownSwap
<1>8. ASSUME NEW s \in Systems, ShutdownCall(s) PROVE FlagInv'
  BY <1>8 DEF ShutdownCall
<1>9. CASE UNCHANGED <<vars, program>>
  BY <1>1, <1>9 DEF vars, systemVars
<1>10. ASSUME NEW s \in Systems, NEW c \in Cameras, OpenCamera(c, s) PROVE FlagInv'
  BY <1>1, <1>10 DEF OpenCamera, systemVars
<1>11. ASSUME NEW c \in Cameras, CloseTake(c) \/ CloseRaw(c) PROVE FlagInv'
  BY <1>1, <1>11 DEF CloseTake, CloseRaw, systemVars
<1> QED
  BY <1>2, <1>3, <1>4, <1>5, <1>6, <1>7, <1>8, <1>9, <1>10, <1>11 DEF Next, Step, SystemStep

\* STARTED is set exactly while one thread starts or holds a VmbSystem: a startup
\* that fails can be retried, a second one is rejected, a drop clears the flag of
\* its own system only.
THEOREM FlagTheorem == Spec => []FlagTellsOwner
<1>1. FlagInv => FlagTellsOwner
  BY DEF FlagInv
<1> QED
  BY <1>1, InitFlag, NextFlag, PTL DEF Spec

-----------------------------------------------------------------------------
(* The SDK under the flag.  When no startup overlaps a drop, a thread between   *)
(* its swap of STARTED and VmbShutdown is alone.                               *)

DropAlone == \A s \in Systems : pc[s] = "shutdown" => Owners = {}

LiveInv == FlagInv /\ (ordered => DropAlone) /\ LiveMeansUp

LEMMA InitLive == Init => LiveInv
BY InitFlag DEF Init, InitAdapter, InitProgram, LiveInv, DropAlone, LiveMeansUp, Owners

LEMMA NextLive == LiveInv /\ [Next]_<<vars, program>> => LiveInv'
<1> SUFFICES ASSUME LiveInv, [Next]_<<vars, program>> PROVE LiveInv'
  OBVIOUS
<1>0. FlagInv' /\ ordered' = ordered
  BY NextFlag DEF LiveInv, Next, program
<1> SUFFICES ASSUME ordered PROVE DropAlone' /\ LiveMeansUp'
  BY <1>0 DEF LiveInv, LiveMeansUp
<1> USE DEF LiveInv, FlagInv, SystemTypeOK, FlagTellsOwner, Owners, PCs, Goto,
            DropAlone, LiveMeansUp
<1>1. CASE UNCHANGED <<pc, sdkUp>>
  BY <1>1
<1>2. ASSUME NEW s \in Systems, StartupClaim(s) PROVE DropAlone' /\ LiveMeansUp'
  BY <1>2 DEF StartupClaim
<1>3. ASSUME NEW s \in Systems, StartupCall(s) PROVE DropAlone' /\ LiveMeansUp'
  BY <1>3 DEF StartupCall
<1>4. ASSUME NEW s \in Systems, StartupFails(s) \/ StartupRollback(s)
      PROVE  DropAlone' /\ LiveMeansUp'
  BY <1>4 DEF StartupFails, StartupRollback
<1>5. ASSUME NEW s \in Systems, ShutdownSwap(s) PROVE DropAlone' /\ LiveMeansUp'
  BY <1>5 DEF ShutdownSwap
<1>6. ASSUME NEW s \in Systems, ShutdownCall(s) PROVE DropAlone' /\ LiveMeansUp'
  BY <1>6 DEF ShutdownCall
<1>7. ASSUME NEW s \in Systems, StartupRejected(s) PROVE DropAlone' /\ LiveMeansUp'
  BY <1>1, <1>7 DEF StartupRejected, vars, systemVars
<1>8. ASSUME NEW c \in Cameras,
             CloseTake(c) \/ CloseRaw(c) \/ \E s \in Systems : OpenCamera(c, s)
      PROVE  DropAlone' /\ LiveMeansUp'
  BY <1>1, <1>8 DEF CloseTake, CloseRaw, OpenCamera, systemVars
<1>9. CASE UNCHANGED <<vars, program>>
  BY <1>1, <1>9 DEF vars, systemVars
<1> QED
  BY <1>2, <1>3, <1>4, <1>5, <1>6, <1>7, <1>8, <1>9 DEF Next, Step, SystemStep

\* When the program starts no system while another thread is dropping one, a live
\* VmbSystem always finds the SDK up.
THEOREM LiveTheorem == Spec => []LiveMeansUp
<1>1. LiveInv => LiveMeansUp
  BY DEF LiveInv
<1> QED
  BY <1>1, InitLive, NextLive, PTL DEF Spec

-----------------------------------------------------------------------------
(* The handles.  The opaque handles of open cameras are distinct and in         *)
(* FfiState.cameras, which makes the types inductive.                          *)

HandleInv ==
  /\ CameraTypeOK
  /\ \A c \in Cameras : place[c] = "open" => handle[c] \in DOMAIN cameras /\ handle[c] < counter
  /\ \A c, d \in Cameras :
       place[c] = "open" /\ place[d] = "open" /\ handle[c] = handle[d] => c = d

LEMMA InitHandle == Init => HandleInv
BY DEF Init, InitAdapter, InitProgram, HandleInv, CameraTypeOK, Places

LEMMA NextHandle == HandleInv /\ [Next]_<<vars, program>> => HandleInv'
<1> SUFFICES ASSUME HandleInv, [Next]_<<vars, program>> PROVE HandleInv'
  OBVIOUS
<1> USE DEF HandleInv, CameraTypeOK, Places
<1>1. CASE UNCHANGED <<sdkOpen, cameraVars>>
  BY <1>1 DEF cameraVars
<1>2. ASSUME NEW c \in Cameras, NEW s \in Systems, OpenCamera(c, s) PROVE HandleInv'
  <2>1. PICK r \in RawHandles \ DOMAIN sdkOpen :
          /\ sdkOpen' = [q \in DOMAIN sdkOpen \cup {r} |-> IF q = r THEN c ELSE sdkOpen[q]]
          /\ cameras' = [h \in DOMAIN cameras \cup {counter} |->
                           IF h = counter THEN r ELSE cameras[h]]
    BY <1>2 DEF OpenCamera
  <2>2. /\ handle' = [handle EXCEPT ![c] = counter] /\ counter' = counter + 1
        /\ via' = [via EXCEPT ![c] = s] /\ place' = [place EXCEPT ![c] = "open"] /\ raw' = raw
    BY <1>2 DEF OpenCamera
  <2>3. DOMAIN sdkOpen' \subseteq RawHandles /\ sdkOpen' \in [DOMAIN sdkOpen' -> Cameras]
    BY <2>1
  <2>4. DOMAIN cameras' \subseteq Nat /\ cameras' \in [DOMAIN cameras' -> RawHandles]
    BY <2>1
  <2>5. CameraTypeOK'
    BY <2>2, <2>3, <2>4
  <2> QED
    BY <2>1, <2>2, <2>5
<1>3. ASSUME NEW c \in Cameras, CloseTake(c) PROVE HandleInv'
  BY <1>3 DEF CloseTake
<1>4. ASSUME NEW c \in Cameras, CloseRaw(c) PROVE HandleInv'
  BY <1>4 DEF CloseRaw
<1>5. ASSUME NEW s \in Systems, ShutdownCall(s) PROVE HandleInv'
  BY <1>5 DEF ShutdownCall, cameraVars
<1>6. ASSUME NEW s \in Systems,
             \/ StartupClaim(s) \/ StartupRejected(s) \/ ShutdownSwap(s)
             \/ StartupCall(s) \/ StartupFails(s) \/ StartupRollback(s)
      PROVE  HandleInv'
  BY <1>1, <1>6 DEF vars, StartupClaim, StartupRejected, ShutdownSwap,
                    StartupCall, StartupFails, StartupRollback
<1>7. CASE UNCHANGED <<vars, program>>
  BY <1>1, <1>7 DEF vars
<1> QED
  BY <1>2, <1>3, <1>4, <1>5, <1>6, <1>7 DEF Next, Step, SystemStep

\* Every variable keeps its type.
THEOREM TypeCorrect == Spec => []TypeOK
<1>1. FlagInv /\ HandleInv => TypeOK
  BY DEF FlagInv, HandleInv, TypeOK
<1> QED
  BY <1>1, InitFlag, NextFlag, InitHandle, NextHandle, PTL DEF Spec

-----------------------------------------------------------------------------
(* What a handle leads to.  A Camera dropped before its VmbSystem keeps that   *)
(* system live, so no VmbShutdown comes between its open and its close.        *)

ViaLive == \A c \in Cameras : place[c] # "closed" => pc[via[c]] = "live"

ReachInv ==
  /\ LiveInv /\ HandleInv
  /\ ordered /\ nested => ViaLive
  /\ HandlesReachOwnCamera

LEMMA InitReach == Init => ReachInv
BY InitLive, InitHandle
   DEF Init, InitAdapter, InitProgram, ReachInv, ViaLive, HandlesReachOwnCamera

LEMMA NextReach == ReachInv /\ [Next]_<<vars, program>> => ReachInv'
<1> SUFFICES ASSUME ReachInv, [Next]_<<vars, program>> PROVE ReachInv'
  OBVIOUS
<1>0. LiveInv' /\ HandleInv' /\ ordered' = ordered /\ nested' = nested
  BY NextLive, NextHandle DEF ReachInv, Next, program
<1> DEFINE Reach == ViaLive /\ HandlesReachOwnCamera
<1> SUFFICES ASSUME ordered, nested PROVE Reach'
  BY <1>0 DEF ReachInv, HandlesReachOwnCamera
<1> USE DEF ReachInv, HandleInv, CameraTypeOK, Places, LiveInv, FlagInv, SystemTypeOK, Goto,
            ViaLive, HandlesReachOwnCamera
\* A step of a thread that leaves the SDK's cameras alone and takes no system
\* with open cameras out of "live".
<1>1. CASE /\ UNCHANGED <<sdkOpen, cameraVars>>
           /\ \A c \in Cameras : place[c] # "closed" => pc'[via[c]] = "live"
  BY <1>1 DEF cameraVars
<1>2. ASSUME NEW c \in Cameras, NEW s \in Systems, OpenCamera(c, s) PROVE Reach'
  <2>1. PICK r \in RawHandles \ DOMAIN sdkOpen :
          /\ sdkOpen' = [q \in DOMAIN sdkOpen \cup {r} |-> IF q = r THEN c ELSE sdkOpen[q]]
          /\ cameras' = [h \in DOMAIN cameras \cup {counter} |->
                           IF h = counter THEN r ELSE cameras[h]]
    BY <1>2 DEF OpenCamera
  <2>2. /\ handle' = [handle EXCEPT ![c] = counter] /\ pc' = pc /\ pc[s] = "live"
        /\ via' = [via EXCEPT ![c] = s] /\ place' = [place EXCEPT ![c] = "open"] /\ raw' = raw
    BY <1>2 DEF OpenCamera, systemVars
  <2> QED
    BY <2>1, <2>2
<1>3. ASSUME NEW c \in Cameras, CloseTake(c) PROVE Reach'
  BY <1>3 DEF CloseTake, systemVars
<1>4. ASSUME NEW c \in Cameras, CloseRaw(c) PROVE Reach'
  BY <1>4 DEF CloseRaw, systemVars
<1>5. ASSUME NEW s \in Systems, ShutdownCall(s) PROVE Reach'
  <2>1. \A t \in Systems : pc[t] # "live"
    BY <1>5 DEF ShutdownCall, DropAlone, Owners
  <2>2. \A c \in Cameras : place[c] = "closed"
    BY <2>1
  <2> QED
    BY <1>5, <2>2 DEF ShutdownCall, cameraVars
<1>6. ASSUME NEW s \in Systems,
             \/ StartupClaim(s) \/ StartupRejected(s)
             \/ StartupCall(s) \/ StartupFails(s) \/ StartupRollback(s)
      PROVE  Reach'
  BY <1>1, <1>6 DEF vars, systemVars, StartupClaim, StartupRejected, StartupCall,
                    StartupFails, StartupRollback
<1>7. ASSUME NEW s \in Systems, ShutdownSwap(s) PROVE Reach'
  BY <1>1, <1>7 DEF ShutdownSwap
<1>8. CASE UNCHANGED <<vars, program>>
  BY <1>1, <1>8 DEF vars, systemVars
<1> QED
  BY <1>2, <1>3, <1>4, <1>5, <1>6, <1>7, <1>8 DEF Next, Step, SystemStep

\* When cameras are dropped before the VmbSystem they were opened through, and no
\* startup overlaps a drop, the opaque handle of a Camera leads to that camera until
\* VmbCameraClose gets its open raw handle.
THEOREM HandleTheorem == Spec => []HandlesReachOwnCamera
<1>1. ReachInv => HandlesReachOwnCamera
  BY DEF ReachInv
<1> QED
  BY <1>1, InitReach, NextReach, PTL DEF Spec
-----------------------------------------------------------------------------
(* What is left behind.  The one thread that brought the SDK up keeps the flag  *)
(* until it takes it down; the entries of FfiState.cameras are the open cameras'. *)

OrphanInv == FlagInv /\ NoOrphanSdk

LEMMA NextOrphan == OrphanInv /\ [Next]_<<vars, program>> => OrphanInv'
<1> SUFFICES ASSUME OrphanInv, [Next]_<<vars, program>> PROVE OrphanInv'
  OBVIOUS
<1>0. FlagInv'
  BY NextFlag DEF OrphanInv
<1> SUFFICES NoOrphanSdk'
  BY <1>0 DEF OrphanInv
<1> USE DEF OrphanInv, FlagInv, SystemTypeOK, FlagTellsOwner, Owners, PCs, Goto, NoOrphanSdk
<1>1. CASE UNCHANGED <<pc, sdkUp>>
  BY <1>1
<1>2. ASSUME NEW s \in Systems, StartupClaim(s) \/ StartupFails(s) \/ StartupRollback(s)
      PROVE  NoOrphanSdk'
  BY <1>2 DEF StartupClaim, StartupFails, StartupRollback
<1>3. ASSUME NEW s \in Systems, StartupCall(s) PROVE NoOrphanSdk'
  BY <1>3 DEF StartupCall
<1>4. ASSUME NEW s \in Systems, ShutdownSwap(s) PROVE NoOrphanSdk'
  BY <1>4 DEF ShutdownSwap
<1>5. ASSUME NEW s \in Systems, ShutdownCall(s) PROVE NoOrphanSdk'
  BY <1>5 DEF ShutdownCall
<1>6. ASSUME NEW s \in Systems, StartupRejected(s) PROVE NoOrphanSdk'
  BY <1>1, <1>6 DEF StartupRejected, vars, systemVars
<1>7. ASSUME NEW c \in Cameras,
             CloseTake(c) \/ CloseRaw(c) \/ \E s \in Systems : OpenCamera(c, s)
      PROVE  NoOrphanSdk'
  BY <1>1, <1>7 DEF CloseTake, CloseRaw, OpenCamera, systemVars
<1>8. CASE UNCHANGED <<vars, program>>
  BY <1>1, <1>8 DEF vars, systemVars
<1> QED
  BY <1>2, <1>3, <1>4, <1>5, <1>6, <1>7, <1>8 DEF Next, Step, SystemStep

\* Whatever the order of startups, failures and drops, the SDK is up only while
\* some thread is bound to shut it down.
THEOREM OrphanTheorem == Spec => []NoOrphanSdk
<1>1. Init => OrphanInv
  BY InitFlag DEF OrphanInv, NoOrphanSdk, Init, InitProgram
<1>2. OrphanInv => NoOrphanSdk
  BY DEF OrphanInv
<1> QED
  BY <1>1, <1>2, NextOrphan, PTL DEF Spec

LeakInv == HandleInv /\ NoHandleLeak

LEMMA NextLeak == LeakInv /\ [Next]_<<vars, program>> => LeakInv'
<1> SUFFICES ASSUME LeakInv, [Next]_<<vars, program>> PROVE LeakInv'
  OBVIOUS
<1>0. HandleInv'
  BY NextHandle DEF LeakInv
<1> SUFFICES NoHandleLeak'
  BY <1>0 DEF LeakInv
<1> USE DEF LeakInv, HandleInv, CameraTypeOK, Places, NoHandleLeak
<1>1. CASE UNCHANGED cameraVars
  BY <1>1 DEF cameraVars
<1>2. ASSUME NEW c \in Cameras, NEW s \in Systems, OpenCamera(c, s) PROVE NoHandleLeak'
  BY <1>2 DEF OpenCamera
<1>3. ASSUME NEW c \in Cameras, CloseTake(c) PROVE NoHandleLeak'
  BY <1>3 DEF CloseTake
<1>4. ASSUME NEW c \in Cameras, CloseRaw(c) PROVE NoHandleLeak'
  BY <1>4 DEF CloseRaw
<1>5. ASSUME NEW s \in Systems,
             \/ StartupClaim(s) \/ StartupRejected(s) \/ ShutdownSwap(s) \/ ShutdownCall(s)
             \/ StartupCall(s) \/ StartupFails(s) \/ StartupRollback(s)
      PROVE  NoHandleLeak'
  BY <1>1, <1>5 DEF vars, StartupClaim, StartupRejected, ShutdownSwap, ShutdownCall,
                    StartupCall, StartupFails, StartupRollback
<1>6. CASE UNCHANGED <<vars, program>>
  BY <1>1, <1>6 DEF vars
<1> QED
  BY <1>2, <1>3, <1>4, <1>5, <1>6 DEF Next, Step, SystemStep

\* Every entry of FfiState.cameras belongs to an open Camera, whatever became of
\* its VmbSystem.
THEOREM HandleLeakTheorem == Spec => []NoHandleLeak
<1>1. Init => LeakInv
  BY InitHandle DEF LeakInv, NoHandleLeak, Init, InitAdapter, InitProgram
<1>2. LeakInv => NoHandleLeak
  BY DEF LeakInv
<1> QED
  BY <1>1, <1>2, NextLeak, PTL DEF Spec
=============================================================================
