--------------------------- MODULE DiscoveryProofs ---------------------------
(***************************************************************************)
(* Theorems about Discovery, for any registrations, cameras and event      *)
(* types.                                                                  *)
(***************************************************************************)
EXTENDS Discovery, FiniteSetTheorems, TLAPS

-----------------------------------------------------------------------------
(* Types. *)

LEMMA InitType == Init => TypeOK
BY DEF Init, InitRegs, InitFfi, InitSdk, TypeOK, RegTypeOK, FfiTypeOK, SdkTypeOK, PCs, Numbers

\* The steps of the threads that own registrations keep the types.
LEMMA RegStepType ==
  ASSUME TypeOK, UNCHANGED setting, NEW r \in Regs, Install(r) \/ DropRegistration(r) \/ RegStep(r)
  PROVE  TypeOK'
<1> USE DEF TypeOK, RegTypeOK, FfiTypeOK, PCs, Goto, ffiVars, sdkVars, setting
<1>0. listening' \subseteq Nat => SdkTypeOK'
  BY DEF SdkTypeOK, Numbers, Install, DropRegistration, RegStep, Register, RegisterFails, Insert, Undo,
         Unregister, Unregistered, UnregisterFails, Reclaim, Uninstall
<1>a. listening \subseteq Nat
  BY DEF SdkTypeOK
<1>1. CASE Install(r)
  BY <1>0, <1>a, <1>1 DEF Install
<1>2. CASE Register(r)
  BY <1>0, <1>a, <1>2 DEF Register
<1>9. CASE RegisterFails(r) \/ Undo(r)
  BY <1>0, <1>a, <1>9 DEF RegisterFails, Undo
<1>3. CASE Insert(r)
  BY <1>0, <1>a, <1>3 DEF Insert
<1>4. CASE DropRegistration(r)
  BY <1>0, <1>a, <1>4 DEF DropRegistration
<1>5. CASE Unregister(r)
  <2>1. PICK K \in SUBSET listening :
          listening' = listening \ K /\ stopped' = [stopped EXCEPT ![r] = K]
    BY <1>5 DEF Unregister
  <2> QED
    BY <1>0, <1>a, <1>5, <2>1 DEF Unregister
<1>6. CASE Unregistered(r) \/ UnregisterFails(r)
  BY <1>0, <1>a, <1>6 DEF Unregistered, UnregisterFails
<1>7. CASE Reclaim(r)
  BY <1>0, <1>a, <1>7 DEF Reclaim
<1>8. CASE Uninstall(r)
  BY <1>0, <1>a, <1>8 DEF Uninstall
<1> QED
  BY <1>1, <1>2, <1>3, <1>4, <1>5, <1>6, <1>7, <1>8, <1>9 DEF RegStep

\* So do events and trampolines.
LEMMA SdkStepType ==
  ASSUME TypeOK, UNCHANGED setting,
         (\E e \in Events : Event(e)) \/ \E c \in calls : TrampolineStep(c)
  PROVE  TypeOK'
<1> DEFINE CallType == [ctx : Nat, no : Nat, seen : Seen]
<1>0. /\ calls \subseteq CallType /\ listening \subseteq Nat /\ feature \in Events
      /\ events \in [Numbers -> SUBSET Events] /\ Numbers \subseteq Nat
  BY DEF TypeOK, SdkTypeOK, Numbers
<1>1. \A k \in Nat, n \in Nat, s \in Seen : Call(k, n, s) \in CallType
  BY DEF Call
<1>2. UNCHANGED <<regVars, ffiVars, listening>>
  BY DEF Event, TrampolineStep, ReadId, ReadType, Ignore, IgnoreUnknown, HandlerReturns, Returns
<1>3. ASSUME NEW e \in Events, Event(e)
      PROVE  calls' \subseteq CallType /\ feature' \in Events /\ events' \in [Numbers' -> SUBSET Events]
  <2>1. PICK n \in 1 .. MaxCalls :
          /\ calls' = calls \cup {Call(k, n, <<>>) : k \in listening}
          /\ events' = [m \in Numbers \cup {n} |-> IF m = n THEN {e} ELSE events[m] \cup {e}]
    BY <1>3 DEF Event
  <2>2. n \in Nat /\ <<>> \in Seen
    BY DiscoveryAssumption DEF Seen
  <2>3. calls' \subseteq CallType
    BY <1>0, <1>1, <2>1, <2>2
  <2>4. \A k : Call(k, n, <<>>).no = n
    BY DEF Call
  <2>5. Numbers' = Numbers \cup {n}
    BY <1>3, <2>1, <2>4 DEF Event, Numbers
  <2> QED
    BY <1>0, <1>3, <2>1, <2>3, <2>5 DEF Event
\* A trampoline that reads on stays where it was, with its number.
<1>4. ASSUME NEW c \in calls, NEW s \in Seen, calls' = (calls \ {c}) \cup {Call(c.ctx, c.no, s)}
      PROVE  calls' \subseteq CallType /\ Numbers' = Numbers
  <2>1. Call(c.ctx, c.no, s) \in CallType /\ Call(c.ctx, c.no, s).no = c.no
    BY <1>0, <1>1 DEF Call
  <2> QED
    BY <1>0, <1>4, <2>1 DEF Numbers
<1>5. ASSUME NEW c \in calls, TrampolineStep(c)
      PROVE  calls' \subseteq CallType /\ feature' \in Events /\ events' \in [Numbers' -> SUBSET Events]
  <2>0. UNCHANGED feature
    BY <1>5 DEF TrampolineStep, ReadId, ReadType, Ignore, IgnoreUnknown, HandlerReturns, Returns
  <2>1. CASE ReadId(c)
    <3>1. <<feature[1]>> \in Seen
      BY <1>0, DiscoveryAssumption DEF Seen
    <3> QED
      BY <1>0, <1>4, <2>0, <2>1, <3>1 DEF ReadId
  <2>2. CASE ReadType(c)
    <3>1. c.seen \in Seen /\ Len(c.seen) = 1
      BY <1>0, <2>2 DEF ReadType
    <3>2. c.seen[1] \in CameraIds /\ feature[2] \in Kinds
      BY <2>2, <3>1 DEF ReadType, Seen
    <3>3. <<c.seen[1], feature[2]>> \in Seen
      BY <3>2 DEF Seen
    <3> QED
      BY <1>0, <1>4, <2>0, <2>2, <3>3 DEF ReadType
  <2>3. CASE Returns(c)
    <3>1. calls' \subseteq calls /\ Numbers' \subseteq Numbers
      BY <2>3 DEF Returns, Numbers
    <3>2. events' = [n \in Numbers' |-> events[n]]
      BY <2>3 DEF Returns
    <3> QED
      BY <1>0, <2>0, <3>1, <3>2
  <2> QED
    BY <1>5, <2>1, <2>2, <2>3 DEF TrampolineStep, Ignore, IgnoreUnknown, HandlerReturns
<1> QED
  BY <1>2, <1>3, <1>5 DEF TypeOK, RegTypeOK, FfiTypeOK, SdkTypeOK, regVars, ffiVars, setting

LEMMA NextType == TypeOK /\ [Next]_<<vars, setting>> => TypeOK'
<1>1. ASSUME TypeOK, UNCHANGED <<vars, setting>> PROVE TypeOK'
  BY <1>1 DEF TypeOK, RegTypeOK, FfiTypeOK, SdkTypeOK, Numbers, vars, sdkVars, regVars, ffiVars, setting
<1> QED
  BY <1>1, RegStepType, SdkStepType DEF Next, Step

\* Every variable keeps its type.
THEOREM TypeCorrect == Spec => []TypeOK
BY InitType, NextType, PTL DEF Spec

-----------------------------------------------------------------------------
(* The tables of the adapter.  IDs in use are distinct, so that removing one    *)
(* registration's entry removes no other's.                                    *)

IdInv ==
  /\ \A r \in Regs : IF pc[r] = "none" THEN callbackId[r] = 0
                     ELSE callbackId[r] # 0 /\ callbackId[r] < counter
  /\ \A q, r \in Regs :
       pc[q] # "none" /\ pc[r] # "none" /\ callbackId[q] = callbackId[r] => q = r
  /\ \A r \in Regs : pc[r] = "live" => handle[r] < counter
  /\ \A q, r \in Regs : pc[q] = "live" /\ pc[r] = "live" /\ handle[q] = handle[r] => q = r

TableInv == TypeOK /\ IdInv /\ RegistriesExact

LEMMA InitTable == Init => TableInv
<1> SUFFICES ASSUME Init PROVE TableInv
  OBVIOUS
<1>1. TypeOK
  BY InitType
<1>2. \A r \in Regs : pc[r] = "none"
  BY DEF Init, InitRegs
<1>3. callbacks = {} /\ DOMAIN regs = {} /\ contexts = {}
  BY DEF Init, InitFfi
<1>4. \A r \in Regs : callbackId[r] = 0
  BY DEF Init, InitRegs
<1> QED
  BY <1>1, <1>4, <1>2, <1>3 DEF TableInv, IdInv, RegistriesExact, Holding

\* Events and trampolines leave the tables alone.
LEMMA NextTable == TableInv /\ [Next]_<<vars, setting>> => TableInv'
<1> SUFFICES ASSUME TableInv, [Next]_<<vars, setting>> PROVE TableInv'
  OBVIOUS
<1>0. TypeOK'
  BY NextType DEF TableInv
<1> DEFINE Tables == IdInv /\ RegistriesExact
<1> SUFFICES Tables'
  BY <1>0 DEF TableInv
<1> USE DEF TableInv, TypeOK, RegTypeOK, FfiTypeOK, IdInv, RegistriesExact, Holding, PCs, Goto, ffiVars, sdkVars
<1>1. CASE UNCHANGED <<regVars, ffiVars>>
  BY <1>1 DEF regVars
<1>2. ASSUME NEW r \in Regs, Install(r) PROVE Tables'
  BY <1>2 DEF Install
<1>3. ASSUME NEW r \in Regs, Register(r) PROVE Tables'
  BY <1>3 DEF Register
<1>4. ASSUME NEW r \in Regs, RegisterFails(r) PROVE Tables'
  BY <1>4 DEF RegisterFails
<1>5. ASSUME NEW r \in Regs, Insert(r) PROVE Tables'
  BY <1>5 DEF Insert
<1>6. ASSUME NEW r \in Regs, Undo(r) PROVE Tables'
  BY <1>6 DEF Undo
<1>7. ASSUME NEW r \in Regs, DropRegistration(r) PROVE Tables'
  BY <1>7 DEF DropRegistration
<1>8. ASSUME NEW r \in Regs, Unregister(r) PROVE Tables'
  BY <1>8 DEF Unregister
<1>9. ASSUME NEW r \in Regs, Unregistered(r) PROVE Tables'
  BY <1>9 DEF Unregistered
<1>14. ASSUME NEW r \in Regs, UnregisterFails(r) PROVE Tables'
  BY <1>14 DEF UnregisterFails
<1>10. ASSUME NEW r \in Regs, Reclaim(r) PROVE Tables'
  BY <1>10 DEF Reclaim
<1>11. ASSUME NEW r \in Regs, Uninstall(r) PROVE Tables'
  BY <1>11 DEF Uninstall
<1>12. ASSUME (\E e \in Events : Event(e)) \/ \E c \in calls : TrampolineStep(c) PROVE Tables'
  BY <1>1, <1>12 DEF Event, TrampolineStep, ReadId, ReadType, Ignore, IgnoreUnknown, HandlerReturns, Returns
<1>13. CASE UNCHANGED <<vars, setting>>
  BY <1>1, <1>13 DEF vars
<1> QED
  BY <1>2, <1>3, <1>4, <1>5, <1>6, <1>7, <1>8, <1>9, <1>10, <1>11, <1>12, <1>13, <1>14 DEF Next, Step, RegStep

\* The closures, registrations and boxed contexts the adapter stores are those of
\* the registrations alive, however many there are and whatever failed.
THEOREM RegistriesTheorem == Spec => []RegistriesExact
<1>1. TableInv => RegistriesExact
  BY DEF TableInv
<1> QED
  BY <1>1, InitTable, NextTable, PTL DEF Spec

-----------------------------------------------------------------------------
(* One registration at a time.  The SDK then calls the context of that          *)
(* registration only, and the unregister call cannot mean any other.           *)

AloneInv ==
  /\ \A q, r \in Regs : pc[q] # "none" /\ pc[r] # "none" => q = r
  /\ \A k \in listening : \E r \in Regs :
       callbackId[r] = k /\ pc[r] \in {"insert", "live", "unregister"}
  /\ \A r \in Regs : pc[r] \in {"insert", "live", "unregister"} => callbackId[r] \in listening
  /\ \A r \in Regs : pc[r] = "draining" => callbackId[r] \in stopped[r]
  /\ \A c \in calls : \E r \in Regs :
       callbackId[r] = c.ctx /\ pc[r] \in {"insert", "live", "unregister", "draining"}

SdkInv == TableInv /\ (Exact => AloneInv)

LEMMA InitAlone == Init => SdkInv
BY InitTable DEF Init, InitRegs, InitSdk, SdkInv, AloneInv

\* The trampolines in progress are those of listeners, or those there were before.
LEMMA CallsStep ==
  ASSUME (\E e \in Events : Event(e)) \/ \E c \in calls : TrampolineStep(c)
  PROVE  \A c \in calls' : c.ctx \in listening \/ \E d \in calls : d.ctx = c.ctx
<1>1. ASSUME NEW e \in Events, Event(e)
      PROVE  \A c \in calls' : c.ctx \in listening \/ c \in calls
  <2>1. PICK n \in 1 .. MaxCalls : calls' = calls \cup {Call(k, n, <<>>) : k \in listening}
    BY <1>1 DEF Event
  <2> QED
    BY <2>1 DEF Call
<1>2. ASSUME NEW c \in calls, TrampolineStep(c)
      PROVE  \A d \in calls' : d \in calls \/ d.ctx = c.ctx
  BY <1>2 DEF TrampolineStep, ReadId, ReadType, Ignore, IgnoreUnknown, HandlerReturns, Returns, Call
<1> QED
  BY <1>1, <1>2

LEMMA NextAlone == SdkInv /\ [Next]_<<vars, setting>> => SdkInv'
<1> SUFFICES ASSUME SdkInv, [Next]_<<vars, setting>> PROVE SdkInv'
  OBVIOUS
<1>0. TableInv'
  BY NextTable DEF SdkInv
<1>s. UNCHANGED setting
  BY DEF Next
<1> SUFFICES ASSUME single, reliable PROVE AloneInv'
  BY <1>0, <1>s DEF SdkInv, Exact, setting
<1> USE DEF Exact
<1> USE DEF SdkInv, TableInv, TypeOK, RegTypeOK, FfiTypeOK, AloneInv, PCs, Goto, ffiVars, sdkVars
<1>1. CASE UNCHANGED <<vars, setting>>
  BY <1>1 DEF vars, sdkVars, regVars
<1>2. ASSUME NEW r \in Regs, Install(r) PROVE AloneInv'
  BY <1>2 DEF Install
<1>3. ASSUME NEW r \in Regs, Register(r) PROVE AloneInv'
  BY <1>3 DEF Register
<1>4. ASSUME NEW r \in Regs, RegisterFails(r) \/ Undo(r) PROVE AloneInv'
  BY <1>4 DEF RegisterFails, Undo
<1>5. ASSUME NEW r \in Regs, Insert(r) PROVE AloneInv'
  BY <1>5 DEF Insert
<1>6. ASSUME NEW r \in Regs, DropRegistration(r) PROVE AloneInv'
  BY <1>6 DEF DropRegistration, RegistriesExact
<1>7. ASSUME NEW r \in Regs, Unregister(r) PROVE AloneInv'
  <2>1. pc[r] = "unregister" /\ \A q \in Regs : q # r => pc[q] = "none"
    BY <1>7 DEF Unregister
  <2>2. \A k \in listening : k = callbackId[r]
    BY <2>1
  <2> QED
    BY <1>7, <2>1, <2>2 DEF Unregister
<1>8. ASSUME NEW r \in Regs, Unregistered(r) PROVE AloneInv'
  <2>1. pc[r] = "draining" /\ \A q \in Regs : q # r => pc[q] = "none"
    BY <1>8 DEF Unregistered
  <2>2. \A c \in calls : c.ctx = callbackId[r]
    BY <2>1
  <2>3. calls = {}
    BY <1>8, <2>1, <2>2 DEF Unregistered, Busy
  <2> QED
    BY <1>8, <2>1, <2>3 DEF Unregistered
<1>9. ASSUME NEW r \in Regs, UnregisterFails(r) PROVE FALSE
  BY <1>9 DEF UnregisterFails, MayFail
<1>10. ASSUME NEW r \in Regs, Reclaim(r) \/ Uninstall(r) PROVE AloneInv'
  BY <1>10 DEF Reclaim, Uninstall
<1>11. ASSUME (\E e \in Events : Event(e)) \/ \E c \in calls : TrampolineStep(c)
       PROVE  AloneInv'
  <2>1. UNCHANGED <<regVars, ffiVars, listening>>
    BY <1>11 DEF Event, TrampolineStep, ReadId, ReadType, Ignore, IgnoreUnknown, HandlerReturns, Returns
  <2>2. \A c \in calls' : c.ctx \in listening \/ \E d \in calls : d.ctx = c.ctx
    BY <1>11, CallsStep
  <2>3. \A c \in calls' : \E r \in Regs :
          callbackId[r] = c.ctx /\ pc[r] \in {"insert", "live", "unregister", "draining"}
    BY <2>2
  <2> QED
    BY <2>1, <2>3 DEF regVars
<1> QED
  BY <1>1, <1>2, <1>3, <1>4, <1>5, <1>6, <1>7, <1>8, <1>9, <1>10, <1>11 DEF Next, Step, RegStep

\* With one registration at a time and an unregister call that succeeds, a
\* callback never finds its context reclaimed.
THEOREM ContextTheorem == Spec => []ContextsLive
<1>1. ASSUME RegistriesExact, AloneInv PROVE listening \cup {c.ctx : c \in calls} \subseteq contexts
  <2>1. contexts = {callbackId[r] : r \in {q \in Regs : pc[q] \in Holding}}
    BY <1>1 DEF RegistriesExact
  <2> QED
    BY <1>1, <2>1 DEF AloneInv, Holding
<1>2. SdkInv => ContextsLive
  BY <1>1 DEF SdkInv, TableInv, ContextsLive
<1> QED
  BY <1>2, InitAlone, NextAlone, PTL DEF Spec

\* Nor does a live registration miss an event.
THEOREM ListeningTheorem == Spec => []LiveIsListening
<1>1. SdkInv => LiveIsListening
  BY DEF SdkInv, AloneInv, LiveIsListening
<1> QED
  BY <1>1, InitAlone, NextAlone, PTL DEF Spec

-----------------------------------------------------------------------------
(* What handlers are told. *)

\* The features describe an event that is among those since any that is being handled,
\* and what a trampoline has read of them is from these.
ReadInv ==
  /\ \A n \in Numbers : feature \in events[n]
  /\ \A c \in calls :
       \/ c.seen = <<>>
       \/ \E d \in events[c.no] : c.seen = <<d[1]>>
       \/ \E d \in events[c.no], e \in events[c.no] : c.seen = <<d[1], e[2]>>

LEMMA NextRead == TypeOK /\ ReadInv /\ [Next]_<<vars, setting>> => ReadInv'
<1> SUFFICES ASSUME TypeOK, ReadInv, [Next]_<<vars, setting>> PROVE ReadInv'
  OBVIOUS
<1>0. \A c \in calls : c.no \in Numbers
  BY DEF Numbers
<1>1. CASE UNCHANGED <<feature, calls, events>>
  BY <1>1 DEF ReadInv, Numbers
<1>2. ASSUME NEW e \in Events, Event(e) PROVE ReadInv'
  <2>1. PICK n \in (1 .. MaxCalls) \ Numbers :
          /\ calls' = calls \cup {Call(k, n, <<>>) : k \in listening}
          /\ events' = [m \in Numbers \cup {n} |-> IF m = n THEN {e} ELSE events[m] \cup {e}]
    BY <1>2 DEF Event
  <2>2. Numbers' \subseteq Numbers \cup {n}
    BY <2>1 DEF Numbers, Call
  <2>3. feature' = e /\ \A m \in Numbers' : e \in events'[m]
    BY <1>2, <2>1, <2>2 DEF Event
  <2>4. \A c \in calls : events[c.no] \subseteq events'[c.no]
    BY <1>0, <2>1
  <2>5. \A c \in calls' : c \in calls \/ c.seen = <<>>
    BY <2>1 DEF Call
  <2> QED
    BY <2>3, <2>4, <2>5 DEF ReadInv
\* What a trampoline has read is extended, from the features as they are.
<1>3. ASSUME NEW c \in calls, NEW s, UNCHANGED <<feature, events>>,
             calls' = (calls \ {c}) \cup {Call(c.ctx, c.no, s)},
             \/ \E d \in events[c.no] : s = <<d[1]>>
             \/ \E d \in events[c.no], e \in events[c.no] : s = <<d[1], e[2]>>
      PROVE  ReadInv'
  <2>1. Call(c.ctx, c.no, s).no = c.no /\ Call(c.ctx, c.no, s).seen = s
    BY DEF Call
  <2>2. Numbers' \subseteq Numbers
    BY <1>0, <1>3, <2>1 DEF Numbers
  <2> QED
    BY <1>3, <2>1, <2>2 DEF ReadInv
<1>4. ASSUME NEW c \in calls, ReadId(c) PROVE ReadInv'
  <2>1. feature \in events[c.no]
    BY <1>0 DEF ReadInv
  <2> QED
    BY <1>3, <1>4, <2>1 DEF ReadId
<1>5. ASSUME NEW c \in calls, ReadType(c) PROVE ReadInv'
  <2>1. feature \in events[c.no] /\ Len(c.seen) = 1
    BY <1>0, <1>5 DEF ReadInv, ReadType
  <2>2. PICK d \in events[c.no] : c.seen = <<d[1]>>
    BY <2>1 DEF ReadInv
  <2>3. <<c.seen[1], feature[2]>> = <<d[1], feature[2]>>
    BY <2>2
  <2> QED
    BY <1>3, <1>5, <2>1, <2>3 DEF ReadType
<1>6. ASSUME NEW c \in calls, Returns(c) PROVE ReadInv'
  <2>1. calls' \subseteq calls /\ Numbers' \subseteq Numbers
    BY <1>6 DEF Returns, Numbers
  <2>2. \A n \in Numbers' : events'[n] = events[n]
    BY <1>6 DEF Returns
  <2>3. \A d \in calls' : d.no \in Numbers'
    BY DEF Numbers
  <2> QED
    BY <1>6, <2>1, <2>2, <2>3 DEF ReadInv, Returns
<1>7. ASSUME NEW r \in Regs, Install(r) \/ DropRegistration(r) \/ RegStep(r) PROVE ReadInv'
  BY <1>1, <1>7 DEF Install, DropRegistration, RegStep, Register, RegisterFails, Insert, Undo,
                    Unregister, Unregistered, UnregisterFails, Reclaim, Uninstall, sdkVars
<1> QED
  BY <1>1, <1>2, <1>4, <1>5, <1>6, <1>7
     DEF Next, Step, TrampolineStep, Ignore, IgnoreUnknown, HandlerReturns, vars, sdkVars

\* However many events occur while a trampoline runs, what its handler is told is of
\* events that happened, none older than the trampoline's own; it is that one if no
\* other has come since.
THEOREM EventsTheorem == Spec => []EventsReal
<1>1. Init => ReadInv
  BY DEF Init, InitSdk, ReadInv, Numbers
<1>2. TypeOK /\ ReadInv /\ [Next]_<<vars, setting>> => ReadInv'
  BY NextRead
<1>3. ReadInv => EventsReal
  BY DEF ReadInv, EventsReal
<1> QED
  BY <1>1, <1>2, <1>3, TypeCorrect, PTL DEF Spec

-----------------------------------------------------------------------------
(* What VmbFeatureInvalidationUnregister waits for, in every setting.          *)

\* No registration installs a closure under an ID used before, so a context the SDK
\* no longer calls stays out of what it calls.
Fresh(k) == \A q \in Regs : pc[q] = "register" => callbackId[q] # k

DrainInv ==
  /\ \A k \in listening : k < counter /\ Fresh(k)
  /\ \A r \in Regs : \A k \in stopped[r] : k < counter /\ k \notin listening /\ Fresh(k)

LEMMA InitDrain == Init => DrainInv
BY DEF Init, InitRegs, InitSdk, DrainInv

LEMMA NextDrain == TableInv /\ DrainInv /\ [Next]_<<vars, setting>> => DrainInv'
<1> SUFFICES ASSUME TableInv, DrainInv, [Next]_<<vars, setting>> PROVE DrainInv'
  OBVIOUS
<1> USE DEF TableInv, TypeOK, RegTypeOK, FfiTypeOK, IdInv, DrainInv, Fresh, Goto, ffiVars, sdkVars
\* A step that begins no registration and makes nobody a listener.
<1>0. listening \subseteq Nat
  BY DEF SdkTypeOK
<1>1. ASSUME \A q \in Regs : pc'[q] = "register" => pc[q] = "register" /\ callbackId'[q] = callbackId[q],
             \A q \in Regs : stopped'[q] \subseteq stopped[q],
             listening' \subseteq listening, counter' \in {counter, counter + 1}
      PROVE  DrainInv'
  BY <1>0, <1>1
<1>2. ASSUME NEW r \in Regs, Install(r) PROVE DrainInv'
  <2>1. \A k \in Nat : k < counter => k < counter' /\ k # counter
    BY <1>2 DEF Install
  <2>2. UNCHANGED <<listening, stopped>>
    BY <1>2 DEF Install
  <2>3. \A q \in Regs : pc'[q] = "register" => \/ callbackId'[q] = counter
                                               \/ pc[q] = "register" /\ callbackId'[q] = callbackId[q]
    BY <1>2 DEF Install
  <2>4. \A k \in Nat : k < counter /\ Fresh(k) => Fresh(k)'
    BY <2>1, <2>3
  <2> QED
    BY <1>0, <2>1, <2>2, <2>4
<1>3. ASSUME NEW r \in Regs, Register(r) PROVE DrainInv'
  <2>1. callbackId[r] < counter
    BY <1>3 DEF Register
  <2>2. \A q \in Regs : \A k \in stopped[q] : k # callbackId[r]
    BY <1>3 DEF Register
  <2>3. \A q \in Regs : q # r /\ pc[q] = "register" => callbackId[q] # callbackId[r]
    BY <1>3 DEF Register
  <2>4. UNCHANGED <<callbackId, stopped, counter>> /\ listening' = listening \cup {callbackId[r]}
        /\ pc' = [pc EXCEPT ![r] = "insert"]
    BY <1>3 DEF Register
  <2> QED
    BY <2>1, <2>2, <2>3, <2>4
<1>4. ASSUME NEW r \in Regs, RegisterFails(r) \/ Undo(r) PROVE DrainInv'
  BY <1>4 DEF RegisterFails, Undo
<1>5. ASSUME NEW r \in Regs, Insert(r) PROVE DrainInv'
  BY <1>1, <1>5 DEF Insert
<1>6. ASSUME NEW r \in Regs, DropRegistration(r) PROVE DrainInv'
  BY <1>6 DEF DropRegistration
<1>7. ASSUME NEW r \in Regs, Unregister(r) PROVE DrainInv'
  <2>1. PICK K \in SUBSET listening : listening' = listening \ K /\ stopped' = [stopped EXCEPT ![r] = K]
    BY <1>7 DEF Unregister
  <2>2. UNCHANGED <<callbackId, counter>> /\ pc' = [pc EXCEPT ![r] = "draining"]
    BY <1>7 DEF Unregister
  <2> QED
    BY <2>1, <2>2
<1>8. ASSUME NEW r \in Regs, Unregistered(r) \/ UnregisterFails(r) PROVE DrainInv'
  BY <1>8 DEF Unregistered, UnregisterFails
<1>9. ASSUME NEW r \in Regs, Reclaim(r) \/ Uninstall(r) PROVE DrainInv'
  BY <1>9 DEF Reclaim, Uninstall
<1>10. ASSUME (\E e \in Events : Event(e)) \/ \E c \in calls : TrampolineStep(c) PROVE DrainInv'
  <2>1. UNCHANGED <<regVars, ffiVars, listening>>
    BY <1>10 DEF Event, TrampolineStep, ReadId, ReadType, Ignore, IgnoreUnknown, HandlerReturns, Returns
  <2> QED
    BY <2>1 DEF regVars
<1>11. CASE UNCHANGED <<vars, setting>>
  BY <1>11 DEF vars, sdkVars, regVars
<1> QED
  BY <1>2, <1>3, <1>4, <1>5, <1>6, <1>7, <1>8, <1>9, <1>10, <1>11 DEF Next, Step, RegStep

\* A context that is past its registration, that the SDK does not call and none of
\* whose trampolines is in progress.
Silent(k) == k < counter /\ Fresh(k) /\ k \notin listening /\ Busy({k}) = {}

\* The contexts an unregister call has waited for are never called again, by whatever
\* the program registers and drops after it: no ID is given twice, and the SDK calls
\* listeners only.
THEOREM SilentTheorem ==
  Spec => /\ [][\A r \in Regs : Unregistered(r) => \A k \in stopped[r] : Silent(k)']_<<vars, setting>>
          /\ [][\A k \in Nat : Silent(k) => Silent(k)']_<<vars, setting>>
<1> DEFINE Waited == \A r \in Regs : Unregistered(r) => \A k \in stopped[r] : Silent(k)'
           Stays == \A k \in Nat : Silent(k) => Silent(k)'
<1>0. TypeOK /\ DrainInv => Waited
  <2> SUFFICES ASSUME TypeOK, DrainInv, NEW r \in Regs, Unregistered(r), NEW k \in stopped[r]
               PROVE  Silent(k)'
    OBVIOUS
  <2>1. k < counter /\ k \notin listening /\ Fresh(k) /\ Busy({k}) = {}
    BY DEF DrainInv, Unregistered, Busy
  <2>2. UNCHANGED <<callbackId, counter, listening, calls>> /\ pc' = [pc EXCEPT ![r] = "reclaim"]
    BY DEF Unregistered, Goto, ffiVars, sdkVars
  <2> QED
    BY <2>1, <2>2 DEF Silent, Fresh, Busy, TypeOK, RegTypeOK
<1>1. TypeOK /\ [Next]_<<vars, setting>> => Stays \/ UNCHANGED <<vars, setting>>
  <2> SUFFICES ASSUME TypeOK, Next, NEW k \in Nat, Silent(k) PROVE Silent(k)'
    OBVIOUS
  <2> USE DEF TypeOK, RegTypeOK, FfiTypeOK, Silent, Fresh, Busy, Goto, ffiVars, sdkVars
  <2>1. ASSUME NEW r \in Regs, Install(r) PROVE Silent(k)'
    BY <2>1 DEF Install
  <2>2. ASSUME NEW r \in Regs, Register(r) PROVE Silent(k)'
    BY <2>2 DEF Register
  <2>3. ASSUME NEW r \in Regs, RegisterFails(r) \/ Insert(r) \/ Undo(r) \/ DropRegistration(r)
        PROVE  Silent(k)'
    BY <2>3 DEF RegisterFails, Insert, Undo, DropRegistration
  <2>4. ASSUME NEW r \in Regs, Unregister(r) \/ Unregistered(r) \/ UnregisterFails(r) PROVE Silent(k)'
    BY <2>4 DEF Unregister, Unregistered, UnregisterFails
  <2>5. ASSUME NEW r \in Regs, Reclaim(r) \/ Uninstall(r) PROVE Silent(k)'
    BY <2>5 DEF Reclaim, Uninstall
  <2>6. ASSUME (\E e \in Events : Event(e)) \/ \E c \in calls : TrampolineStep(c) PROVE Silent(k)'
    <3>1. \A c \in calls' : c.ctx \in listening \/ \E d \in calls : d.ctx = c.ctx
      BY <2>6, CallsStep
    <3>2. UNCHANGED <<regVars, ffiVars, listening>>
      BY <2>6 DEF Event, TrampolineStep, ReadId, ReadType, Ignore, IgnoreUnknown, HandlerReturns, Returns
    <3> QED
      BY <3>1, <3>2 DEF regVars
  <2> QED
    BY <2>1, <2>2, <2>3, <2>4, <2>5, <2>6 DEF Next, Step, RegStep
<1>2. Init => TableInv /\ DrainInv
  BY InitTable, InitDrain
<1>3. TableInv /\ DrainInv /\ [Next]_<<vars, setting>> => (TableInv /\ DrainInv)'
  BY NextTable, NextDrain
<1>4. TableInv => TypeOK
  BY DEF TableInv
<1> HIDE DEF Waited, Stays
<1>5. Spec => [][Waited]_<<vars, setting>> /\ [][Stays]_<<vars, setting>>
  BY <1>0, <1>1, <1>2, <1>3, <1>4, PTL DEF Spec
<1> QED
  BY <1>5 DEF Waited, Stays

\* The steps before the callbacks that r's unregister call waits for have returned, at
\* most: a trampoline reads the camera, then the type, and then its handler returns.
Waiting(r, n) == {c \in Busy(stopped[r]) : Len(c.seen) <= n}

Load(r) == Cardinality(Waiting(r, 0)) + Cardinality(Waiting(r, 1)) + Cardinality(Busy(stopped[r]))

FiniteInv == IsFiniteSet(listening) /\ IsFiniteSet(calls)

LEMMA NextFinite == FiniteInv /\ [Next]_<<vars, setting>> => FiniteInv'
<1> SUFFICES ASSUME FiniteInv, [Next]_<<vars, setting>> PROVE FiniteInv'
  OBVIOUS
<1>1. IsFiniteSet(listening) /\ IsFiniteSet(calls)
  BY DEF FiniteInv
<1>2. \A k : IsFiniteSet(listening \cup {k}) /\ IsFiniteSet(calls \cup {k})
  BY <1>1, FS_AddElement
<1>3. \A K : IsFiniteSet(listening \ K)
  BY <1>1, FS_Subset
<1>4. IsFiniteSet(listening')
  <2>1. \/ UNCHANGED listening
        \/ \E k : listening' = listening \cup {k}
        \/ \E K : listening' = listening \ K
    BY DEF Next, Step, vars, sdkVars, RegStep, Install, DropRegistration, Register, RegisterFails, Insert, Undo,
           Unregister, Unregistered, UnregisterFails, Reclaim, Uninstall,
           Event, TrampolineStep, ReadId, ReadType, Ignore, IgnoreUnknown, HandlerReturns, Returns
  <2> QED
    BY <1>1, <1>2, <1>3, <2>1
<1>5. IsFiniteSet(calls')
  <2>1. ASSUME NEW e \in Events, Event(e) PROVE IsFiniteSet(calls')
    <3>0. PICK n \in 1 .. MaxCalls : calls' = calls \cup {Call(k, n, <<>>) : k \in listening}
      BY <2>1 DEF Event
    <3>1. IsFiniteSet({Call(k, n, <<>>) : k \in listening})
      <4> DEFINE f == [k \in listening |-> Call(k, n, <<>>)]
                 T == {f[k] : k \in listening}
      <4>1. T = {Call(k, n, <<>>) : k \in listening}
        OBVIOUS
      <4>2. f \in [listening -> T]
        OBVIOUS
      <4>3. f \in Surjection(listening, T)
        BY <4>2 DEF Surjection
      <4>4. IsFiniteSet(T)
        BY <1>1, <4>3, FS_Surjection
      <4> QED
        BY <4>1, <4>4
    <3> QED
      BY <1>1, <3>0, <3>1, FS_Union
  <2>2. ASSUME NEW c \in calls, TrampolineStep(c) PROVE IsFiniteSet(calls')
    <3>1. calls' \subseteq calls \/ \E d : calls' \subseteq calls \cup {d}
      BY <2>2 DEF TrampolineStep, ReadId, ReadType, Ignore, IgnoreUnknown, HandlerReturns, Returns
    <3> QED
      BY <1>1, <1>2, <3>1, FS_Subset
  <2>3. ASSUME UNCHANGED calls PROVE IsFiniteSet(calls')
    BY <1>1, <2>3
  <2> QED
    BY <2>1, <2>2, <2>3
       DEF Next, Step, vars, sdkVars, RegStep, Install, DropRegistration, Register, RegisterFails, Insert, Undo,
           Unregister, Unregistered, UnregisterFails, Reclaim, Uninstall
<1> QED
  BY <1>4, <1>5 DEF FiniteInv

LEMMA OneLess ==
  ASSUME NEW S, IsFiniteSet(S), NEW x \in S
  PROVE  Cardinality(S \ {x}) \in Nat /\ Cardinality(S \ {x}) = Cardinality(S) - 1
<1>1. IsFiniteSet(S \ {x})
  BY FS_Subset
<1> QED
  BY <1>1, FS_RemoveElement, FS_CardinalityType

\* One element is taken out of a finite set, and at most one put in.
LEMMA NoMore ==
  ASSUME NEW S, IsFiniteSet(S), NEW x \in S, NEW y, NEW T, T \subseteq (S \ {x}) \cup {y}
  PROVE  Cardinality(T) \in Nat /\ Cardinality(T) <= Cardinality(S)
<1> DEFINE R == S \ {x}
<1>1. IsFiniteSet(R) /\ Cardinality(R) \in Nat /\ Cardinality(R) = Cardinality(S) - 1
  BY OneLess, FS_Subset
<1>2. IsFiniteSet(R \cup {y}) /\ Cardinality(R \cup {y}) \in {Cardinality(R), Cardinality(R) + 1}
  BY <1>1, FS_AddElement
<1>3. Cardinality(T) \in Nat /\ Cardinality(T) <= Cardinality(R \cup {y})
  BY <1>2, FS_Subset, FS_CardinalityType
<1>4. Cardinality(S) \in Nat
  BY FS_CardinalityType
<1> HIDE DEF R
<1> QED
  BY <1>1, <1>2, <1>3, <1>4

LEMMA NoneMore ==
  ASSUME NEW S, IsFiniteSet(S), NEW T, T \subseteq S
  PROVE  Cardinality(T) \in Nat /\ Cardinality(T) <= Cardinality(S)
BY FS_Subset, FS_CardinalityType

\* A step of a trampoline that is waited for leaves less to wait for.
LEMMA TrampolineStepLoad ==
  ASSUME TypeOK, FiniteInv, NEW r \in Regs, NEW c \in Busy(stopped[r]), TrampolineStep(c)
  PROVE  Load(r)' < Load(r)
<1> DEFINE B == Busy(stopped[r])
           W0 == Waiting(r, 0)
           W1 == Waiting(r, 1)
<1>1. IsFiniteSet(B) /\ IsFiniteSet(W0) /\ IsFiniteSet(W1)
  BY FS_Subset DEF FiniteInv, Busy, Waiting
<1>2. Cardinality(B) \in Nat /\ Cardinality(W0) \in Nat /\ Cardinality(W1) \in Nat
  BY <1>1, FS_CardinalityType
<1>3. UNCHANGED stopped /\ c \in calls /\ c.ctx \in stopped[r]
  BY DEF TrampolineStep, ReadId, ReadType, Ignore, IgnoreUnknown, HandlerReturns, Returns, regVars, Busy
<1>4. Load(r) = Cardinality(W0) + Cardinality(W1) + Cardinality(B)
      /\ Load(r)' = Cardinality(W0') + Cardinality(W1') + Cardinality(B')
  BY DEF Load
<1>5. CASE ReadId(c)
  <2> DEFINE d == Call(c.ctx, c.no, <<feature[1]>>)
  <2>1. calls' = (calls \ {c}) \cup {d} /\ d.ctx = c.ctx /\ Len(d.seen) = 1 /\ Len(c.seen) = 0
    BY <1>5 DEF ReadId, Call
  <2> HIDE DEF d
  <2>2. W0' = W0 \ {c} /\ W1' \subseteq (W1 \ {c}) \cup {d} /\ B' \subseteq (B \ {c}) \cup {d}
        /\ c \in W0 /\ c \in W1 /\ c \in B
    BY <1>3, <2>1 DEF Waiting, Busy
  <2> HIDE DEF W0, W1, B
  <2>3. Cardinality(W0') \in Nat /\ Cardinality(W0') = Cardinality(W0) - 1
    BY <1>1, <2>2, OneLess
  <2>4. Cardinality(W1') \in Nat /\ Cardinality(W1') <= Cardinality(W1)
    BY <1>1, <2>2, NoMore
  <2>5. Cardinality(B') \in Nat /\ Cardinality(B') <= Cardinality(B)
    BY <1>1, <2>2, NoMore
  <2> QED
    BY <1>2, <1>4, <2>3, <2>4, <2>5
<1>6. CASE ReadType(c)
  <2> DEFINE d == Call(c.ctx, c.no, <<c.seen[1], feature[2]>>)
  <2>1. calls' = (calls \ {c}) \cup {d} /\ d.ctx = c.ctx /\ Len(d.seen) = 2 /\ Len(c.seen) = 1
    BY <1>6 DEF ReadType, Call
  <2> HIDE DEF d
  <2>a. Len(d.seen) = 2 /\ Len(c.seen) = 1 /\ ~(2 <= 1) /\ ~(2 <= 0) /\ ~(1 <= 0) /\ 1 <= 1
    BY <2>1
  <2>b. B' \subseteq (B \ {c}) \cup {d} /\ c \in B
    BY <1>3, <2>1 DEF Busy
  <2>c. d \notin W1' /\ d \notin W0' /\ c \in W1
    BY <2>a, <2>b DEF Waiting
  <2>d. \A x : x # d => (x \in W1' <=> x \in W1 \ {c}) /\ (x \in W0' => x \in W0)
    BY <1>3, <2>1 DEF Waiting, Busy
  <2>e. d \notin W1 \ {c}
    BY <2>a DEF Waiting
  <2>2. W0' \subseteq W0 /\ W1' = W1 \ {c} /\ B' \subseteq (B \ {c}) \cup {d} /\ c \in W1 /\ c \in B
    BY <2>b, <2>c, <2>d, <2>e
  <2> HIDE DEF W0, W1, B
  <2>3. Cardinality(W0') \in Nat /\ Cardinality(W0') <= Cardinality(W0)
    BY <1>1, <2>2, NoneMore
  <2>4. Cardinality(W1') \in Nat /\ Cardinality(W1') = Cardinality(W1) - 1
    BY <1>1, <2>2, OneLess
  <2>5. Cardinality(B') \in Nat /\ Cardinality(B') <= Cardinality(B)
    BY <1>1, <2>2, NoMore
  <2> QED
    BY <1>2, <1>4, <2>3, <2>4, <2>5
<1>7. CASE Ignore(c) \/ IgnoreUnknown(c) \/ HandlerReturns(c)
  <2>1. calls' = calls \ {c}
    BY <1>7 DEF Ignore, IgnoreUnknown, HandlerReturns, Returns
  <2>2. W0' \subseteq W0 /\ W1' \subseteq W1 /\ B' = B \ {c} /\ c \in B
    BY <1>3, <2>1 DEF Waiting, Busy
  <2> HIDE DEF W0, W1, B
  <2>3. Cardinality(W0') \in Nat /\ Cardinality(W0') <= Cardinality(W0)
    BY <1>1, <2>2, NoneMore
  <2>4. Cardinality(W1') \in Nat /\ Cardinality(W1') <= Cardinality(W1)
    BY <1>1, <2>2, NoneMore
  <2>5. Cardinality(B') \in Nat /\ Cardinality(B') = Cardinality(B) - 1
    BY <1>1, <2>2, OneLess
  <2> QED
    BY <1>2, <1>4, <2>3, <2>4, <2>5
<1> QED
  BY <1>5, <1>6, <1>7 DEF TrampolineStep

\* While an unregister call waits, no callback of a context it stopped begins, however
\* many events occur, and each step of one in progress leaves less to wait for, down
\* to nothing: it waits for a bounded number of steps, of handlers that return.
THEOREM DrainTheorem ==
  Spec => /\ [](\A r \in Regs : Load(r) \in Nat /\ (Load(r) = 0 <=> Busy(stopped[r]) = {}))
          /\ [][\A r \in Regs : pc[r] = "draining" /\ pc'[r] = "draining" =>
                  IF \E c \in Busy(stopped[r]) : TrampolineStep(c)
                  THEN Load(r)' < Load(r)
                  ELSE Busy(stopped[r])' = Busy(stopped[r])]_<<vars, setting>>
<1> DEFINE Inv == TableInv /\ DrainInv /\ FiniteInv
           Counts == \A r \in Regs : Load(r) \in Nat /\ (Load(r) = 0 <=> Busy(stopped[r]) = {})
           Drains == \A r \in Regs : pc[r] = "draining" /\ pc'[r] = "draining" =>
                       IF \E c \in Busy(stopped[r]) : TrampolineStep(c)
                       THEN Load(r)' < Load(r)
                       ELSE Busy(stopped[r])' = Busy(stopped[r])
<1>1. Init => Inv
  BY InitTable, InitDrain, FS_EmptySet DEF Init, InitSdk, FiniteInv
<1>2. Inv /\ [Next]_<<vars, setting>> => Inv'
  BY NextTable, NextDrain, NextFinite
<1>3. Inv => Counts
  <2> SUFFICES ASSUME Inv, NEW r \in Regs
               PROVE  Load(r) \in Nat /\ (Load(r) = 0 <=> Busy(stopped[r]) = {})
    OBVIOUS
  <2> DEFINE B == Busy(stopped[r])
             W0 == Waiting(r, 0)
             W1 == Waiting(r, 1)
  <2>1. IsFiniteSet(B) /\ W0 \subseteq B /\ W1 \subseteq B
    BY FS_Subset DEF FiniteInv, Busy, Waiting
  <2>2. Load(r) = Cardinality(W0) + Cardinality(W1) + Cardinality(B)
    BY DEF Load
  <2> HIDE DEF B, W0, W1
  <2>3. Cardinality(B) \in Nat /\ (Cardinality(B) = 0 <=> B = {})
    BY <2>1, FS_CardinalityType, FS_EmptySet
  <2>4. Cardinality(W0) \in Nat /\ Cardinality(W0) <= Cardinality(B)
    BY <2>1, NoneMore
  <2>5. Cardinality(W1) \in Nat /\ Cardinality(W1) <= Cardinality(B)
    BY <2>1, NoneMore
  <2>6. Load(r) \in Nat /\ (Load(r) = 0 <=> B = {})
    BY <2>2, <2>3, <2>4, <2>5
  <2> QED
    BY <2>6 DEF B
<1>4. Inv /\ [Next]_<<vars, setting>> => Drains \/ UNCHANGED <<vars, setting>>
  <2> SUFFICES ASSUME Inv, Next, NEW r \in Regs, pc[r] = "draining", pc'[r] = "draining"
               PROVE  IF \E c \in Busy(stopped[r]) : TrampolineStep(c)
                      THEN Load(r)' < Load(r)
                      ELSE Busy(stopped[r])' = Busy(stopped[r])
    OBVIOUS
  <2> USE DEF TableInv, TypeOK, RegTypeOK, Goto
  <2>1. CASE \E c \in Busy(stopped[r]) : TrampolineStep(c)
    BY <2>1, TrampolineStepLoad
  <2>2. CASE ~ \E c \in Busy(stopped[r]) : TrampolineStep(c)
    <3>1. ASSUME NEW q \in Regs, Install(q) \/ DropRegistration(q) \/ RegStep(q)
          PROVE  UNCHANGED calls /\ stopped'[r] = stopped[r]
      <4>1. UNCHANGED calls
        BY <3>1 DEF RegStep, Install, DropRegistration, Register, RegisterFails, Insert, Undo,
                    Unregister, Unregistered, UnregisterFails, Reclaim, Uninstall, sdkVars
      <4>2. CASE Unregister(q) \/ Unregistered(q)
        <5>1. q # r /\ \A p \in Regs \ {q} : stopped'[p] = stopped[p]
          BY <4>2 DEF Unregister, Unregistered
        <5> QED
          BY <4>1, <5>1
      <4>3. CASE ~(Unregister(q) \/ Unregistered(q))
        BY <3>1, <4>1, <4>3 DEF RegStep, Install, DropRegistration, Register, RegisterFails, Insert,
                    Undo, UnregisterFails, Reclaim, Uninstall
      <4> QED
        BY <4>2, <4>3
    <3>2. ASSUME NEW e \in Events, Event(e) PROVE Busy(stopped[r])' = Busy(stopped[r])
      <4>1. \A k \in stopped[r] : k \notin listening
        BY DEF DrainInv
      <4>2. PICK n \in 1 .. MaxCalls : calls' = calls \cup {Call(k, n, <<>>) : k \in listening}
        BY <3>2 DEF Event
      <4>3. UNCHANGED stopped
        BY <3>2 DEF Event, regVars
      <4> QED
        BY <4>1, <4>2, <4>3 DEF Busy, Call
    <3>3. ASSUME NEW c \in calls, TrampolineStep(c) PROVE Busy(stopped[r])' = Busy(stopped[r])
      <4>1. c.ctx \notin stopped[r] /\ UNCHANGED stopped
        BY <2>2, <3>3 DEF Busy, TrampolineStep, ReadId, ReadType, Ignore, IgnoreUnknown,
                          HandlerReturns, Returns, regVars
      <4>2. calls' = calls \ {c} \/ \E s : calls' = (calls \ {c}) \cup {Call(c.ctx, c.no, s)}
        BY <3>3 DEF TrampolineStep, ReadId, ReadType, Ignore, IgnoreUnknown, HandlerReturns, Returns
      <4> QED
        BY <4>1, <4>2 DEF Busy, Call
    <3>4. Busy(stopped[r])' = Busy(stopped[r])
      BY <3>1, <3>2, <3>3 DEF Next, Step, Busy
    <3> QED
      BY <2>2, <3>4
  <2> QED
    BY <2>1, <2>2
<1> HIDE DEF Inv, Counts, Drains
<1>5. Spec => []Counts /\ [][Drains]_<<vars, setting>>
  BY <1>1, <1>2, <1>3, <1>4, PTL DEF Spec
<1> QED
  BY <1>5 DEF Counts, Drains

-----------------------------------------------------------------------------
(* The promise of a registration. *)

\* What the contract sees of the handlers.
Running(r) == IF Exact THEN Handling(r) ELSE {}

LEMMA InitContract == Init => Contract!Init
BY DEF Init, InitRegs, InitSdk, Contract!Init, Phase, Handling, Busy, Exact

\* Every step is a step of the contract or leaves what it sees unchanged.
LEMMA StepContract ==
  SdkInv /\ [Next]_<<vars, setting>> => Contract!Next \/ UNCHANGED Contract!vars
<1> SUFFICES ASSUME SdkInv, [Next]_<<vars, setting>> PROVE Contract!Next \/ UNCHANGED Contract!vars
  OBVIOUS
<1> DEFINE P == [r \in Regs |-> Phase(r)]
           R == [r \in Regs |-> Running(r)]
           Seems(r, from, to) == Phase(r) = from /\ P' = [P EXCEPT ![r] = to]
<1>0. UNCHANGED <<single, reliable>>
  BY DEF Next, setting
<1>t. TypeOK /\ IdInv /\ (Exact => AloneInv)
  BY DEF SdkInv, TableInv
<1>s. ASSUME P' = P, R' = R PROVE UNCHANGED Contract!vars
  BY <1>s DEF Contract!vars, Running
\* A move of one registration to another phase.
<1>m. ASSUME NEW r \in Regs, NEW from, NEW to, Seems(r, from, to), R' = R,
             \/ from = "none" /\ to = "registering"
             \/ from = "registering" /\ to \in {"live", "failing"}
             \/ from = "live" /\ to = "dropping"
             \/ from \in {"dropping", "failing"} /\ to = "none" /\ Running(r) = {}
      PROVE  Contract!Next
  BY <1>m DEF Contract!Next, Contract!Register, Contract!Registered, Contract!Drop,
              Contract!Returned, Contract!Move, Running
\* The phases follow pc, and the handlers the trampolines.
<1>p. ASSUME NEW r \in Regs, NEW place \in PCs, pc' = [pc EXCEPT ![r] = place]
      PROVE  P' = [P EXCEPT ![r] = Phase(r)']
  BY <1>p, <1>t DEF Phase, TypeOK, RegTypeOK
<1>h. ASSUME calls' = calls, callbackId' = callbackId \/ (Exact => calls = {})
      PROVE  R' = R
  BY <1>0, <1>h DEF Running, Handling, Busy, Exact
\* With one registration, no other has a context and no trampoline is its.
<1>q. ASSUME NEW r \in Regs, pc[r] \notin {"none", "insert", "live", "unregister", "draining"}, Exact
      PROVE  calls = {}
  BY <1>t, <1>q DEF AloneInv
\* So a thread's step inside a phase stutters, and one that leaves it moves.
<1>i. ASSUME NEW r \in Regs, NEW place \in PCs, pc' = [pc EXCEPT ![r] = place], R' = R,
             \/ pc[r] = "register" /\ place = "insert"
             \/ /\ pc[r] \in {"unregister", "draining", "reclaim"}
                /\ place \in {"draining", "reclaim", "uninstall"}
      PROVE  UNCHANGED Contract!vars
  <2>1. P' = P
    BY <1>i, <1>t DEF Phase, TypeOK, RegTypeOK
  <2> QED
    BY <1>s, <1>i, <2>1
<1>o. ASSUME NEW r \in Regs, NEW place \in PCs, pc' = [pc EXCEPT ![r] = place], R' = R,
             \/ pc[r] = "none" /\ place = "register"
             \/ pc[r] = "insert" /\ place = "live"
             \/ pc[r] = "register" /\ place = "undo"
             \/ pc[r] = "live" /\ place \in {"unregister", "uninstall"}
             \/ pc[r] \in {"undo", "uninstall"} /\ place = "none" /\ Running(r) = {}
      PROVE  Contract!Next
  <2>1. pc'[r] = place
    BY <1>o, <1>t DEF TypeOK, RegTypeOK
  <2>2. Seems(r, Phase(r), Phase(r)')
    BY <1>o, <1>p
  <2>3. \/ Phase(r) = "none" /\ Phase(r)' = "registering"
        \/ Phase(r) = "registering" /\ Phase(r)' \in {"live", "failing"}
        \/ Phase(r) = "live" /\ Phase(r)' = "dropping"
        \/ Phase(r) \in {"dropping", "failing"} /\ Phase(r)' = "none" /\ Running(r) = {}
    BY <1>o, <2>1 DEF Phase
  <2> QED
    BY <1>m, <1>o, <2>2, <2>3
<1>1. ASSUME NEW r \in Regs, Install(r) PROVE Contract!Next
  <2>1. Exact => calls = {}
    BY <1>1, <1>t DEF Install, AloneInv, Exact
  <2> QED
    BY <1>1, <1>h, <1>o, <2>1 DEF Install, sdkVars, Goto, PCs
<1>2. ASSUME NEW r \in Regs, Register(r) PROVE UNCHANGED Contract!vars
  BY <1>2, <1>h, <1>i DEF Register, sdkVars, Goto, PCs
<1>3. ASSUME NEW r \in Regs, RegisterFails(r) \/ Insert(r) \/ DropRegistration(r) PROVE Contract!Next
  BY <1>3, <1>h, <1>o DEF RegisterFails, Insert, DropRegistration, ffiVars, sdkVars, Goto, PCs
<1>4. ASSUME NEW r \in Regs, Undo(r) \/ Uninstall(r) PROVE Contract!Next
  <2>1. Exact => calls = {}
    BY <1>4, <1>q DEF Undo, Uninstall
  <2>2. Running(r) = {}
    BY <2>1 DEF Running, Handling, Busy
  <2> QED
    BY <1>4, <1>h, <1>o, <2>1, <2>2 DEF Undo, Uninstall, sdkVars, Goto, PCs
<1>5. ASSUME NEW r \in Regs, Unregister(r) \/ Unregistered(r) \/ UnregisterFails(r) \/ Reclaim(r)
      PROVE  UNCHANGED Contract!vars
  BY <1>5, <1>h, <1>i DEF Unregister, Unregistered, UnregisterFails, Reclaim, ffiVars, sdkVars, Goto, PCs
\* The trampolines, when no handler is told anything.
<1>b. ASSUME UNCHANGED regVars PROVE P' = P
  BY <1>b DEF regVars, Phase
<1>6. ASSUME NEW e \in Events, Event(e) PROVE UNCHANGED Contract!vars
  <2>1. UNCHANGED regVars
    BY <1>6 DEF Event
  <2>2. \A r \in Regs : Handling(r)' = Handling(r)
    <3>1. PICK n \in 1 .. MaxCalls : calls' = calls \cup {Call(k, n, <<>>) : k \in listening}
      BY <1>6 DEF Event
    <3> QED
      BY <2>1, <3>1 DEF Handling, Busy, Call, regVars
  <2>3. R' = R
    BY <1>0, <2>2 DEF Running, Exact
  <2> QED
    BY <1>b, <1>s, <2>1, <2>3
<1>7. ASSUME NEW c \in calls, ReadId(c) \/ Ignore(c) \/ IgnoreUnknown(c)
      PROVE  UNCHANGED Contract!vars
  <2>1. UNCHANGED regVars
    BY <1>7 DEF ReadId, Ignore, IgnoreUnknown, Returns
  <2>2. Len(c.seen) # 2
    BY <1>7 DEF ReadId, Ignore, IgnoreUnknown
  <2>3. \A i \in CameraIds : Len(<<i>>) # 2
    OBVIOUS
  <2>4. \A r \in Regs : Handling(r)' = Handling(r)
    <3>1. calls' = calls \ {c} \/ calls' = (calls \ {c}) \cup {Call(c.ctx, c.no, <<feature[1]>>)}
      BY <1>7 DEF ReadId, Ignore, IgnoreUnknown, Returns
    <3> QED
      BY <2>1, <2>2, <3>1 DEF Handling, Busy, Call, regVars
  <2>5. R' = R
    BY <1>0, <2>4 DEF Running, Exact
  <2> QED
    BY <1>b, <1>s, <2>1, <2>5
\* A trampoline's handler is that of one registration, alive.
<1>k. ASSUME Exact, NEW c \in calls
      PROVE  \E r \in Regs : /\ pc[r] # "none" /\ c.ctx = callbackId[r]
                            /\ \A q \in Regs : q # r => callbackId[q] # c.ctx
  BY <1>k, <1>t DEF AloneInv, IdInv
<1>8. ASSUME NEW c \in calls, ReadType(c)
      PROVE  Contract!Next \/ UNCHANGED Contract!vars
  <2> DEFINE e == <<c.seen[1], feature[2]>>
  <2>1. UNCHANGED regVars /\ calls' = (calls \ {c}) \cup {Call(c.ctx, c.no, e)}
    BY <1>8 DEF ReadType
  <2>2. P' = P
    BY <1>b, <2>1
  <2>3. CASE ~Exact
    <3>1. R' = R
      BY <1>0, <2>3 DEF Running, Exact
    <3> QED
      BY <1>s, <2>2, <3>1
  <2>4. CASE Exact
    <3>1. PICK r \in Regs : /\ pc[r] # "none" /\ c.ctx = callbackId[r]
                           /\ \A q \in Regs : q # r => callbackId[q] # c.ctx
      BY <1>k, <2>4
    <3>2. c.seen \in Seen /\ Len(c.seen) = 1 /\ feature[2] \in Kinds
      BY <1>t, <1>8 DEF TypeOK, SdkTypeOK, ReadType
    <3>3. e \in CameraIds \X Kinds
      BY <3>2 DEF Seen
    <3>4. \A x, y : Len(<<x, y>>) = 2
      OBVIOUS
    <3>10. Call(c.ctx, c.no, e).ctx = callbackId[r] /\ Call(c.ctx, c.no, e).seen = e /\ Len(e) = 2
      BY <3>1, <3>4 DEF Call
    <3>11. callbackId' = callbackId
      BY <2>1 DEF regVars
    <3>5. Handling(r)' = Handling(r) \cup {e}
      BY <2>1, <3>1, <3>2, <3>10, <3>11 DEF Handling, Busy
    <3>6. \A q \in Regs : q # r => Handling(q)' = Handling(q)
      BY <2>1, <3>1 DEF Handling, Busy, Call, regVars
    <3>7. R' = [R EXCEPT ![r] = @ \cup {e}]
      BY <1>0, <2>4, <3>5, <3>6 DEF Running, Exact
    <3>8. P[r] # "none"
      BY <3>1 DEF Phase
    <3>9. Contract!Handle(r)
      BY <2>2, <3>3, <3>7, <3>8 DEF Contract!Handle, Running
    <3> QED
      BY <3>9 DEF Contract!Next
  <2> QED
    BY <2>3, <2>4
<1>9. ASSUME NEW c \in calls, HandlerReturns(c)
      PROVE  Contract!Next \/ UNCHANGED Contract!vars
  <2>1. UNCHANGED regVars /\ calls' = calls \ {c} /\ Len(c.seen) = 2
    BY <1>9 DEF HandlerReturns, Returns
  <2>2. P' = P
    BY <1>b, <2>1
  <2>3. CASE ~Exact
    <3>1. R' = R
      BY <1>0, <2>3 DEF Running, Exact
    <3> QED
      BY <1>s, <2>2, <3>1
  <2>4. CASE Exact
    <3>1. PICK r \in Regs : /\ pc[r] # "none" /\ c.ctx = callbackId[r]
                           /\ \A q \in Regs : q # r => callbackId[q] # c.ctx
      BY <1>k, <2>4
    <3>2. Handling(r)' = Handling(r) \/ Handling(r)' = Handling(r) \ {c.seen}
      BY <2>1, <3>1 DEF Handling, Busy, regVars
    <3>3. \A q \in Regs : q # r => Handling(q)' = Handling(q)
      BY <2>1, <3>1 DEF Handling, Busy, regVars
    <3>4. c.seen \in Handling(r)
      BY <2>1, <3>1 DEF Handling, Busy
    <3>5. R' = R \/ R' = [R EXCEPT ![r] = @ \ {c.seen}]
      BY <1>0, <2>4, <3>2, <3>3 DEF Running, Exact
    <3>6. c.seen \in R[r]
      BY <2>4, <3>4 DEF Running
    <3>7. R' = R \/ Contract!Handled(r)
      BY <2>2, <3>5, <3>6 DEF Contract!Handled, Running
    <3> QED
      BY <1>s, <2>2, <3>7 DEF Contract!Next
  <2> QED
    BY <2>3, <2>4
<1>10. CASE UNCHANGED <<vars, setting>>
  <2>1. UNCHANGED <<regVars, calls>>
    BY <1>10 DEF vars, sdkVars
  <2>2. callbackId' = callbackId
    BY <2>1 DEF regVars
  <2> QED
    BY <1>b, <1>h, <1>s, <2>1, <2>2
<1> QED
  BY <1>1, <1>2, <1>3, <1>4, <1>5, <1>6, <1>7, <1>8, <1>9, <1>10 DEF Next, Step, RegStep, TrampolineStep

\* The program may rely on the contract of a DiscoveryRegistration: no handler
\* outlives its drop, in the setting where the SDK can tell registrations apart.
THEOREM ContractTheorem == Spec => ContractSpec
BY InitContract, InitAlone, NextAlone, StepContract, PTL DEF Spec, ContractSpec, Contract!Spec
=============================================================================
