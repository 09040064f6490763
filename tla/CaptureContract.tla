-------------------------- MODULE CaptureContract ---------------------------
(***************************************************************************)
(* What a Camera promises the program that owns it, and nothing about how: *)
(* start_capture installs one closure, only that closure is invoked for    *)
(* the camera's frames, only while the capture is starting, running or     *)
(* stopping, and when start_capture has failed or stop_capture has         *)
(* returned no invocation is in progress and none will follow.             *)
(***************************************************************************)
EXTENDS Naturals

CONSTANT Cameras

VARIABLES
  phase,    \* where each Camera stands
  closure,  \* the closure of its capture, 0 without one
  calls     \* invocations in progress: <<buffer, closure>>

vars == <<phase, closure, calls>>

Phases == {"closed", "idle", "starting", "running", "stopping"}

Init ==
  /\ phase = [c \in Cameras |-> "closed"]
  /\ closure = [c \in Cameras |-> 0]
  /\ calls = [c \in Cameras |-> {}]

Enter(c, p) == phase' = [phase EXCEPT ![c] = p]

\* Camera::open.
Open(c) == phase[c] = "closed" /\ Enter(c, "idle") /\ UNCHANGED <<closure, calls>>

\* start_capture: a closure no other capture has.
Start(c) ==
  /\ phase[c] = "idle"
  /\ Enter(c, "starting")
  /\ closure'[c] \notin {closure[d] : d \in Cameras} \cup {0}
  /\ closure' = [closure EXCEPT ![c] = closure'[c]]
  /\ UNCHANGED calls

\* start_capture returns Ok, or begins to unwind.
Started(c) ==
  /\ phase[c] = "starting"
  /\ Enter(c, "running") \/ Enter(c, "stopping")
  /\ UNCHANGED <<closure, calls>>

\* stop_capture, by the program or by Drop.
Stop(c) == phase[c] = "running" /\ Enter(c, "stopping") /\ UNCHANGED <<closure, calls>>

\* The call returns: the closure has been released, nothing runs it.
Stopped(c) ==
  /\ phase[c] = "stopping"
  /\ calls[c] = {}
  /\ Enter(c, "idle")
  /\ closure' = [closure EXCEPT ![c] = 0]
  /\ UNCHANGED calls

\* Drop has closed the camera.
Close(c) == phase[c] = "idle" /\ Enter(c, "closed") /\ UNCHANGED <<closure, calls>>

\* The closure is invoked with a frame whose buffer no other invocation has.
Call(c) ==
  /\ phase[c] \in {"starting", "running", "stopping"}
  /\ \E call \in calls'[c] \ calls[c] :
       /\ call[2] = closure[c]
       /\ \A other \in calls[c] : other[1] # call[1]
       /\ calls' = [calls EXCEPT ![c] = @ \cup {call}]
  /\ UNCHANGED <<phase, closure>>

Return(c) ==
  /\ \E call \in calls[c] : calls' = [calls EXCEPT ![c] = @ \ {call}]
  /\ UNCHANGED <<phase, closure>>

Next ==
  \E c \in Cameras :
    \/ Open(c) \/ Start(c) \/ Started(c) \/ Stop(c) \/ Stopped(c) \/ Close(c)
    \/ Call(c) \/ Return(c)

Spec == Init /\ [][Next]_vars
=============================================================================
