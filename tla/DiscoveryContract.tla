------------------------- MODULE DiscoveryContract --------------------------
(***************************************************************************)
(* What a DiscoveryRegistration promises the program that owns it,         *)
(* whichever runtime is underneath: its handler is called only between the *)
(* beginning of register_camera_discovery and the end of its drop, and     *)
(* when drop returns none of its handlers is running.                      *)
(***************************************************************************)
CONSTANTS
  Regs,    \* the DiscoveryRegistration objects of the program
  Events   \* what a handler may be told

VARIABLES
  phase,   \* where each registration stands
  running  \* the events its handler is being told

vars == <<phase, running>>

Init ==
  /\ phase = [r \in Regs |-> "none"]
  /\ running = [r \in Regs |-> {}]

Move(r, from, to) ==
  /\ phase[r] = from
  /\ phase' = [phase EXCEPT ![r] = to]
  /\ UNCHANGED running

\* register_camera_discovery, which may fail once its closure is installed.
Register(r) == Move(r, "none", "registering")
Registered(r) == Move(r, "registering", "live") \/ Move(r, "registering", "failing")

Drop(r) == Move(r, "live", "dropping")

\* Drop, or a register_camera_discovery that failed, returns.
Returned(r) ==
  /\ running[r] = {}
  /\ Move(r, "dropping", "none") \/ Move(r, "failing", "none")

Handle(r) ==
  /\ phase[r] # "none"
  /\ \E e \in Events : running' = [running EXCEPT ![r] = @ \cup {e}]
  /\ UNCHANGED phase

Handled(r) ==
  /\ \E e \in running[r] : running' = [running EXCEPT ![r] = @ \ {e}]
  /\ UNCHANGED phase

Next ==
  \E r \in Regs :
    \/ Register(r) \/ Registered(r) \/ Drop(r) \/ Returned(r)
    \/ Handle(r) \/ Handled(r)

Spec == Init /\ [][Next]_vars
=============================================================================
