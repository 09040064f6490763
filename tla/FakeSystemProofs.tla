-------------------------- MODULE FakeSystemProofs ---------------------------
(* Proofs about FakeSystem, for any systems, registrations, emitters and faults. *)
EXTENDS FakeSystem, TLAPS

-----------------------------------------------------------------------------
(* Types. *)

Records == [event : Events, left : SUBSET Nat, current : SUBSET Nat, told : SUBSET Nat, mark : Nat]

LEMMA InitType == Init => TypeOK
<1> SUFFICES ASSUME Init PROVE TypeOK
  OBVIOUS
<1>1. DOMAIN regs \subseteq Nat /\ regs \in [DOMAIN regs -> Nat]
  BY DEF Init
<1>2. emission \in [Emitters -> SUBSET Records]
  BY DEF Init
<1>3. /\ pc \in [Regs -> PCs] /\ callbackId \in [Regs -> Nat] /\ handle \in [Regs -> Nat]
      /\ counter \in Nat \ {0} /\ callbacks \subseteq Nat /\ live \subseteq Systems
  BY DEF Init, PCs
<1>4. quiet \in BOOLEAN /\ started \in BOOLEAN
  BY DEF Init
<1> QED
  BY <1>1, <1>2, <1>3, <1>4 DEF TypeOK, Records

LEMMA NextType == TypeOK /\ [Next]_<<vars, quiet>> => TypeOK'
<1> SUFFICES ASSUME TypeOK, [Next]_<<vars, quiet>> PROVE TypeOK'
  OBVIOUS
<1> USE DEF TypeOK, PCs, Goto
<1>0. quiet' = quiet
  BY DEF Next
<1>1. ASSUME NEW s \in Systems, SystemStep(s) PROVE TypeOK'
  BY <1>0, <1>1 DEF SystemStep, Startup, StartupFails, DropSystem, vars, regVars, stateVars
<1>2. ASSUME NEW r \in Regs, Install(r) PROVE TypeOK'
  BY <1>0, <1>2 DEF Install
<1>3. ASSUME NEW r \in Regs, Register(r) PROVE TypeOK'
  BY <1>0, <1>3 DEF Register
<1>4. ASSUME NEW r \in Regs, RegisterFails(r) PROVE TypeOK'
  BY <1>0, <1>4 DEF RegisterFails, stateVars
<1>5. ASSUME NEW r \in Regs, DropRegistration(r) PROVE TypeOK'
  BY <1>0, <1>5 DEF DropRegistration
<1>6. ASSUME NEW r \in Regs, Uninstall(r) PROVE TypeOK'
  BY <1>0, <1>6 DEF Uninstall
<1>7. ASSUME NEW t \in Emitters, EmitterStep(t) PROVE TypeOK'
  <2> USE DEF regVars, stateVars
  <2>1. ASSUME NEW event \in Events, Emit(t, event) PROVE TypeOK'
    <3>1. Emission(event, callbacks, {}, {}, counter) \in Records
      BY DEF Emission, Records
    <3> QED
      BY <1>0, <2>1, <3>1 DEF Emit, Records
  <2>2. CASE Invoke(t)
    <3>1. PICK m \in emission[t] : \E k \in m.left :
            emission' = [emission EXCEPT ![t] = {Emission(m.event, m.left \ {k}, {k}, m.told, m.mark)}]
      BY <2>2 DEF Invoke
    <3>2. PICK k \in m.left :
            emission' = [emission EXCEPT ![t] = {Emission(m.event, m.left \ {k}, {k}, m.told, m.mark)}]
      BY <3>1
    <3>3. m \in Records /\ k \in Nat
      BY DEF Records
    <3>4. Emission(m.event, m.left \ {k}, {k}, m.told, m.mark) \in Records
      BY <3>3 DEF Emission, Records
    <3> QED
      BY <1>0, <2>2, <3>2, <3>4 DEF Invoke, Records
  <2>3. CASE HandlerReturns(t)
    <3>1. PICK m \in emission[t] :
            emission' = [emission EXCEPT ![t] = {Emission(m.event, m.left, {}, m.told \cup m.current, m.mark)}]
      BY <2>3 DEF HandlerReturns
    <3>2. m \in Records
      BY DEF Records
    <3>3. Emission(m.event, m.left, {}, m.told \cup m.current, m.mark) \in Records
      BY <3>2 DEF Emission, Records
    <3> QED
      BY <1>0, <2>3, <3>1, <3>3 DEF HandlerReturns, Records
  <2>4. CASE HandlerPanics(t) \/ EmitReturns(t)
    BY <1>0, <2>4 DEF HandlerPanics, EmitReturns
  <2> QED
    BY <1>7, <2>1, <2>2, <2>3, <2>4 DEF EmitterStep
<1>8. CASE UNCHANGED <<vars, quiet>>
  BY <1>8 DEF vars, regVars, stateVars
<1> QED
  BY <1>1, <1>2, <1>3, <1>4, <1>5, <1>6, <1>7, <1>8 DEF Next, RegStep

\* Every variable keeps its type.
THEOREM TypeCorrect == Spec => []TypeOK
BY InitType, NextType, PTL DEF Spec

-----------------------------------------------------------------------------
(* The tables.  One counter gives both closures and handles, so none is that   *)
(* of two registrations.                                                       *)

IdInv ==
  /\ \A r \in Regs : callbackId[r] < counter
  /\ \A q, r \in Regs : pc[r] # "none" /\ callbackId[q] = callbackId[r] => q = r
  /\ \A r \in Regs : pc[r] = "live" => handle[r] < counter
  /\ \A q, r \in Regs : pc[q] = "live" /\ pc[r] = "live" /\ handle[q] = handle[r] => q = r

TableInv == TypeOK /\ IdInv /\ TablesExact

LEMMA InitTable == Init => TableInv
BY InitType DEF Init, TableInv, IdInv, TablesExact

LEMMA NextTable == TableInv /\ [Next]_<<vars, quiet>> => TableInv'
<1> SUFFICES ASSUME TableInv, [Next]_<<vars, quiet>> PROVE TableInv'
  OBVIOUS
<1>0. TypeOK'
  BY NextType DEF TableInv
<1> DEFINE Tables == IdInv /\ TablesExact
<1> SUFFICES Tables'
  BY <1>0 DEF TableInv
<1> USE DEF TableInv, IdInv, TablesExact, TypeOK, Goto, PCs
<1>1. ASSUME NEW s \in Systems, SystemStep(s) PROVE Tables'
  <2>1. UNCHANGED <<regVars, counter, callbacks, regs>>
    BY <1>1 DEF SystemStep, Startup, StartupFails, DropSystem, vars, stateVars
  <2>2. (started <=> live # {})' /\ (\A q, u \in live : q = u)'
    BY <1>1 DEF SystemStep, Startup, StartupFails, DropSystem, vars, stateVars
  <2> QED
    BY <2>1, <2>2 DEF regVars
<1>2. ASSUME NEW r \in Regs, Install(r) PROVE Tables'
  BY <1>2 DEF Install
<1>3. ASSUME NEW r \in Regs, Register(r) PROVE Tables'
  BY <1>3 DEF Register
<1>4. ASSUME NEW r \in Regs, RegisterFails(r) PROVE Tables'
  BY <1>4 DEF RegisterFails, stateVars
<1>5. ASSUME NEW r \in Regs, DropRegistration(r) PROVE Tables'
  BY <1>5 DEF DropRegistration
<1>6. ASSUME NEW r \in Regs, Uninstall(r) PROVE Tables'
  BY <1>6 DEF Uninstall
<1>7. CASE UNCHANGED <<live, regVars, stateVars>>
  BY <1>7 DEF regVars, stateVars
<1>8. ASSUME NEW t \in Emitters, EmitterStep(t) PROVE Tables'
  BY <1>7, <1>8 DEF EmitterStep, Emit, Invoke, HandlerReturns, HandlerPanics, EmitReturns
<1>9. CASE UNCHANGED <<vars, quiet>>
  BY <1>7, <1>9 DEF vars
<1> QED
  BY <1>1, <1>2, <1>3, <1>4, <1>5, <1>6, <1>8, <1>9 DEF Next, RegStep

\* At most one VmbSystem holds the fake started, and its discovery tables are those of
\* the registrations alive, whatever fails and whoever shares the fake.
THEOREM TablesTheorem == Spec => []TablesExact
<1>1. TableInv => TablesExact
  BY DEF TableInv
<1> QED
  BY <1>1, InitTable, NextTable, PTL DEF Spec

-----------------------------------------------------------------------------
(* What an emission reaches.  A registration that becomes live meanwhile has a *)
(* handle no smaller than the mark.                                            *)

EmitInv ==
  /\ TableInv /\ EmissionReaches
  /\ \A t \in Emitters : \A m, n \in emission[t] : m = n
  /\ \A t \in Emitters : \A m \in emission[t] :
       m.mark <= counter /\ \A k, l \in m.current : k = l

LEMMA InitEmit == Init => EmitInv
BY InitTable DEF Init, EmitInv, EmissionReaches

\* The steps of emit_discovery replace the one record of the emitter.
LEMMA EmitterEmit ==
  ASSUME EmitInv, NEW t \in Emitters, EmitterStep(t), [Next]_<<vars, quiet>>
  PROVE  EmitInv'
<1>0. TableInv' /\ TypeOK
  BY NextTable DEF EmitInv, TableInv
<1>1. UNCHANGED <<pc, callbackId, handle, counter, callbacks>>
  BY DEF EmitterStep, Emit, Invoke, HandlerReturns, HandlerPanics, EmitReturns, regVars, stateVars
<1> DEFINE Fits(m) ==
      /\ \A r \in Regs : pc[r] = "live" /\ handle[r] < m.mark =>
           callbackId[r] \in m.left \cup m.current \cup m.told
      /\ m.told \cap (m.left \cup m.current) = {} /\ m.left \cap m.current = {}
      /\ m.mark <= counter /\ \A k, l \in m.current : k = l
<1>2. \A u \in Emitters : \A m \in emission[u] : Fits(m)
  BY DEF EmitInv, EmissionReaches
<1>3. \A u \in Emitters : \A m, n \in emission[u] : m = n
  BY DEF EmitInv
<1>4. emission \in [Emitters -> SUBSET Records]
  BY <1>0 DEF TypeOK, Records
<1>5. ASSUME \/ emission' = [emission EXCEPT ![t] = {}]
             \/ \E m : Fits(m) /\ emission' = [emission EXCEPT ![t] = {m}]
      PROVE  EmitInv'
  <2>1. \A u \in Emitters : \A m \in emission'[u] : Fits(m)
    BY <1>2, <1>4, <1>5
  <2>2. \A u \in Emitters : \A m, n \in emission'[u] : m = n
    BY <1>3, <1>4, <1>5
  <2> QED
    BY <1>0, <1>1, <2>1, <2>2 DEF EmitInv, EmissionReaches
<1>6. ASSUME NEW event \in Events, Emit(t, event) PROVE EmitInv'
  <2>1. /\ \A r \in Regs : pc[r] = "live" => callbackId[r] \in callbacks
        /\ counter <= counter
    BY <1>0 DEF EmitInv, TableInv, TablesExact, TypeOK
  <2>2. Fits(Emission(event, callbacks, {}, {}, counter))
    BY <2>1 DEF Emission
  <2> QED
    BY <1>5, <1>6, <2>2 DEF Emit
<1>7. CASE Invoke(t)
  <2>0. PICK m \in emission[t] : \E k \in m.left :
          /\ m.current = {}
          /\ emission' =
               [emission EXCEPT ![t] = {Emission(m.event, m.left \ {k}, {k}, m.told, m.mark)}]
    BY <1>7 DEF Invoke
  <2>1. PICK k \in m.left :
          /\ m.current = {}
          /\ emission' =
               [emission EXCEPT ![t] = {Emission(m.event, m.left \ {k}, {k}, m.told, m.mark)}]
    BY <2>0
  <2>2. Fits(Emission(m.event, m.left \ {k}, {k}, m.told, m.mark))
    BY <1>2, <2>1 DEF Emission
  <2> QED
    BY <1>5, <2>1, <2>2
<1>8. CASE HandlerReturns(t)
  <2>1. PICK m \in emission[t] :
          emission' =
            [emission EXCEPT ![t] = {Emission(m.event, m.left, {}, m.told \cup m.current, m.mark)}]
    BY <1>8 DEF HandlerReturns
  <2>2. Fits(Emission(m.event, m.left, {}, m.told \cup m.current, m.mark))
    BY <1>2, <2>1 DEF Emission
  <2> QED
    BY <1>5, <2>1, <2>2
<1>9. CASE HandlerPanics(t) \/ EmitReturns(t)
  BY <1>5, <1>9 DEF HandlerPanics, EmitReturns
<1> QED
  BY <1>6, <1>7, <1>8, <1>9 DEF EmitterStep

LEMMA NextEmit == EmitInv /\ [Next]_<<vars, quiet>> => EmitInv'
<1> SUFFICES ASSUME EmitInv, [Next]_<<vars, quiet>> PROVE EmitInv'
  OBVIOUS
<1>0. TableInv' /\ TypeOK
  BY NextTable DEF EmitInv, TableInv
<1>1. CASE UNCHANGED <<pc, callbackId, handle, counter, emission>>
  BY <1>0, <1>1 DEF EmitInv, EmissionReaches
<1>2. ASSUME NEW s \in Systems, SystemStep(s) PROVE EmitInv'
  BY <1>1, <1>2 DEF SystemStep, Startup, StartupFails, DropSystem, vars, regVars, stateVars
<1>3. ASSUME NEW r \in Regs, RegStep(r) PROVE EmitInv'
  <2>1. /\ emission' = emission /\ counter' \in Nat /\ counter <= counter'
        /\ \A q \in Regs : pc'[q] = "live" =>
             \/ pc[q] = "live" /\ handle'[q] = handle[q] /\ callbackId'[q] = callbackId[q]
             \/ handle'[q] = counter
    BY <1>0, <1>3 DEF RegStep, Install, Register, RegisterFails, DropRegistration, Uninstall,
                      TypeOK, Goto, PCs, stateVars
  <2>2. \A t \in Emitters : \A m \in emission[t] : m.mark \in Nat /\ counter \in Nat
    BY <1>0 DEF TypeOK
  <2> QED
    BY <1>0, <2>1, <2>2 DEF EmitInv, EmissionReaches
<1>4. ASSUME NEW t \in Emitters, EmitterStep(t) PROVE EmitInv'
  BY <1>4, EmitterEmit
<1>5. CASE UNCHANGED <<vars, quiet>>
  BY <1>1, <1>5 DEF vars, regVars, stateVars
<1> QED
  BY <1>2, <1>3, <1>4, <1>5 DEF Next

\* emit_discovery passes over no registration that is live all along, and tells none
\* twice, for any number of emissions at the same time.
THEOREM ReachTheorem == Spec => []EmissionReaches
<1>1. EmitInv => EmissionReaches
  BY DEF EmitInv
<1> QED
  BY <1>1, InitEmit, NextEmit, PTL DEF Spec

-----------------------------------------------------------------------------
(* The contract.  In a quiet test the closures of an emission are those of live  *)
(* registrations until it returns.                                               *)

QuietInv ==
  quiet => \A t \in Emitters : \A m \in emission[t] :
    /\ \A r \in Regs : pc[r] \in {"none", "live"}
    /\ m.left \cup m.current \subseteq callbacks

ContractInv == EmitInv /\ QuietInv

LEMMA InitQuiet == Init => ContractInv
BY InitEmit DEF Init, ContractInv, QuietInv

LEMMA NextQuiet == ContractInv /\ [Next]_<<vars, quiet>> => ContractInv'
<1> SUFFICES ASSUME ContractInv, [Next]_<<vars, quiet>>, quiet PROVE QuietInv'
  BY NextEmit DEF ContractInv, QuietInv, Next
<1>0. emission \in [Emitters -> SUBSET Records]
  BY DEF ContractInv, EmitInv, TableInv, TypeOK, Records
<1> DEFINE Fits(m) == /\ \A r \in Regs : pc[r] \in {"none", "live"}
                      /\ m.left \cup m.current \subseteq callbacks
<1>1. \A t \in Emitters : \A m \in emission[t] : Fits(m)
  BY DEF ContractInv, QuietInv
<1>2. CASE UNCHANGED <<pc, callbacks, emission>>
  BY <1>1, <1>2 DEF QuietInv
<1>3. ASSUME NEW s \in Systems, SystemStep(s) PROVE QuietInv'
  BY <1>2, <1>3 DEF SystemStep, Startup, StartupFails, DropSystem, vars, regVars, stateVars
<1>4. ASSUME NEW r \in Regs, RegStep(r) PROVE QuietInv'
  BY <1>4 DEF QuietInv, RegStep, Install, Register, RegisterFails, DropRegistration, Uninstall, MayStep
<1>5. ASSUME NEW t \in Emitters, EmitterStep(t) PROVE QuietInv'
  <2>1. UNCHANGED <<pc, callbacks>>
    BY <1>5 DEF EmitterStep, Emit, Invoke, HandlerReturns, HandlerPanics, EmitReturns, regVars, stateVars
  <2>2. ASSUME \/ emission' = [emission EXCEPT ![t] = {}]
               \/ \E m : Fits(m) /\ emission' = [emission EXCEPT ![t] = {m}]
        PROVE  QuietInv'
    BY <1>0, <1>1, <2>1, <2>2 DEF QuietInv
  <2>3. ASSUME NEW event \in Events, Emit(t, event) PROVE QuietInv'
    <3>1. Fits(Emission(event, callbacks, {}, {}, counter))
      BY <2>3 DEF Emit, MayEmit, Emission
    <3> QED
      BY <2>2, <2>3, <3>1 DEF Emit
  <2>4. CASE Invoke(t)
    <3>1. PICK m \in emission[t] : \E k \in m.left :
            emission' = [emission EXCEPT ![t] = {Emission(m.event, m.left \ {k}, {k}, m.told, m.mark)}]
      BY <2>4 DEF Invoke
    <3>2. PICK k \in m.left :
            emission' = [emission EXCEPT ![t] = {Emission(m.event, m.left \ {k}, {k}, m.told, m.mark)}]
      BY <3>1
    <3>3. Fits(Emission(m.event, m.left \ {k}, {k}, m.told, m.mark))
      BY <1>1, <3>2 DEF Emission
    <3> QED
      BY <2>2, <3>2, <3>3
  <2>5. CASE HandlerReturns(t)
    <3>1. PICK m \in emission[t] :
            emission' =
              [emission EXCEPT ![t] = {Emission(m.event, m.left, {}, m.told \cup m.current, m.mark)}]
      BY <2>5 DEF HandlerReturns
    <3>2. Fits(Emission(m.event, m.left, {}, m.told \cup m.current, m.mark))
      BY <1>1, <3>1 DEF Emission
    <3> QED
      BY <2>2, <3>1, <3>2
  <2>6. CASE HandlerPanics(t) \/ EmitReturns(t)
    BY <2>2, <2>6 DEF HandlerPanics, EmitReturns
  <2> QED
    BY <1>5, <2>3, <2>4, <2>5, <2>6 DEF EmitterStep
<1>6. CASE UNCHANGED <<vars, quiet>>
  BY <1>2, <1>6 DEF vars, regVars, stateVars
<1> QED
  BY <1>3, <1>4, <1>5, <1>6 DEF Next

\* What the contract sees of the handlers.
Running(r) == IF quiet THEN Telling(r) ELSE {}

LEMMA InitContract == Init => Contract!Init
<1> SUFFICES ASSUME Init PROVE Contract!Init
  OBVIOUS
<1>1. \A t \in Emitters : emission[t] = {}
  BY DEF Init
<1>2. \A r \in Regs : Running(r) = {} /\ Phase(r) = "none"
  BY <1>1 DEF Init, Running, Telling, Phase
<1> QED
  BY <1>2 DEF Contract!Init, Running

\* What the records of a set tell a registration.
Told(records, r) == {m.event : m \in {n \in records : callbackId[r] \in n.current}}

\* What the emitters but one tell it.
Others(t, r) == Told(UNION {emission[u] : u \in Emitters \ {t}}, r)

LEMMA TellingSplit ==
  ASSUME NEW t \in Emitters, NEW r PROVE Telling(r) = Others(t, r) \cup Told(emission[t], r)
BY DEF Telling, Others, Told

\* The record of one emitter is replaced.
LEMMA TellingNext ==
  ASSUME TypeOK, callbackId' = callbackId, NEW t \in Emitters, NEW after,
         emission' = [emission EXCEPT ![t] = after], NEW r
  PROVE  Telling(r)' = Others(t, r) \cup Told(after, r)
<1>1. emission'[t] = after /\ \A u \in Emitters \ {t} : emission'[u] = emission[u]
  BY DEF TypeOK
<1> QED
  BY <1>1 DEF Telling, Others, Told

LEMMA StepContract ==
  ContractInv /\ [Next]_<<vars, quiet>> => Contract!Next \/ UNCHANGED Contract!vars
<1> SUFFICES ASSUME ContractInv, [Next]_<<vars, quiet>>
    PROVE Contract!Next \/ UNCHANGED Contract!vars
  OBVIOUS
<1> DEFINE P == [r \in Regs |-> Phase(r)]
           R == [r \in Regs |-> Running(r)]
<1>t. TypeOK /\ IdInv /\ TablesExact /\ quiet' = quiet
  BY DEF ContractInv, EmitInv, TableInv, Next
<1>s. ASSUME P' = P, R' = R PROVE UNCHANGED Contract!vars
  BY <1>s DEF Contract!vars, Running
<1>m. ASSUME NEW r \in Regs, NEW place \in PCs, pc' = [pc EXCEPT ![r] = place], R' = R,
             \/ pc[r] = "none" /\ place = "register"
             \/ pc[r] = "register" /\ place \in {"live", "undo"}
             \/ pc[r] = "live" /\ place = "uninstall"
             \/ pc[r] \in {"undo", "uninstall"} /\ place = "none" /\ Running(r) = {}
      PROVE  Contract!Next
  <2>1. pc'[r] = place
    BY <1>m, <1>t DEF TypeOK
  <2>2. P' = [P EXCEPT ![r] = Phase(r)']
    BY <1>m, <1>t DEF Phase, TypeOK
  <2>3. \/ Phase(r) = "none" /\ Phase(r)' = "registering"
        \/ Phase(r) = "registering" /\ Phase(r)' \in {"live", "failing"}
        \/ Phase(r) = "live" /\ Phase(r)' = "dropping"
        \/ Phase(r) \in {"dropping", "failing"} /\ Phase(r)' = "none" /\ Running(r) = {}
    BY <1>m, <2>1 DEF Phase
  <2> QED
    BY <1>m, <2>2, <2>3 DEF Contract!Next, Contract!Register, Contract!Registered, Contract!Drop,
                            Contract!Returned, Contract!Move, Running
\* A step of a registration is taken when no handler runs, or is not looked at.
<1>e. ASSUME MayStep, emission' = emission
      PROVE  R' = R /\ \A r \in Regs : Running(r) = {}
  <2>1. ASSUME quiet PROVE \A r \in Regs : Telling(r) = {} /\ Telling(r)' = {}
    <3>1. UNION {emission[t] : t \in Emitters} = {} /\ UNION {emission'[t] : t \in Emitters} = {}
      BY <1>e, <2>1 DEF MayStep
    <3> QED
      BY <3>1 DEF Telling
  <2>2. \A r \in Regs : Running(r) = {} /\ Running(r)' = {}
    BY <1>t, <2>1 DEF Running
  <2> QED
    BY <2>2
<1>1. ASSUME NEW s \in Systems, SystemStep(s) PROVE UNCHANGED Contract!vars
  <2>1. UNCHANGED <<pc, callbackId, emission>>
    BY <1>1 DEF SystemStep, Startup, StartupFails, DropSystem, vars, regVars
  <2> QED
    BY <1>s, <1>t, <2>1 DEF Phase, Running, Telling
<1>2. ASSUME NEW r \in Regs, RegStep(r) PROVE Contract!Next
  BY <1>2, <1>e, <1>m DEF RegStep, Install, Register, RegisterFails, DropRegistration, Uninstall,
                         Goto, PCs
\* A step of an emitter changes what the handlers are told.
<1>3. ASSUME NEW t \in Emitters, EmitterStep(t) PROVE Contract!Next \/ UNCHANGED Contract!vars
  <2>1. UNCHANGED <<pc, callbackId, callbacks>>
    BY <1>3 DEF EmitterStep, Emit, Invoke, HandlerReturns, HandlerPanics, EmitReturns, regVars, stateVars
  <2>2. P' = P
    BY <2>1 DEF Phase
  <2>3. CASE ~quiet
    <3>1. R' = R
      BY <1>t, <2>3 DEF Running
    <3> QED
      BY <1>s, <2>2, <3>1
  <2>4. CASE quiet
    <3> USE <2>4
    <3>1. ASSUME NEW after, emission' = [emission EXCEPT ![t] = after],
                 \A r \in Regs : Told(after, r) = Told(emission[t], r)
          PROVE  UNCHANGED Contract!vars
      <4>1. ASSUME NEW r \in Regs PROVE Telling(r)' = Telling(r)
        <5>1. Telling(r) = Others(t, r) \cup Told(emission[t], r)
          BY TellingSplit
        <5>2. Telling(r)' = Others(t, r) \cup Told(after, r)
          BY <1>t, <2>1, <3>1, TellingNext
        <5> QED
          BY <3>1, <5>1, <5>2
      <4> QED
        BY <1>s, <1>t, <2>2, <4>1 DEF Running
    \* The closure of a handler is that of one registration, alive.
    <3>2. ASSUME NEW m \in emission[t], NEW k \in m.left \cup m.current
          PROVE  \E r \in Regs : /\ pc[r] # "none" /\ callbackId[r] = k
                                /\ \A q \in Regs : q # r => callbackId[q] # k
      BY <1>t, <3>2 DEF ContractInv, QuietInv, IdInv, TablesExact
    <3>3. \A m \in emission[t] : emission[t] = {m} /\ \A k, l \in m.current : k = l
      BY DEF ContractInv, EmitInv
    <3>4. \A m \in emission[t] : m.event \in Events
      BY <1>t DEF TypeOK
    <3>5. ASSUME NEW event \in Events, Emit(t, event) PROVE UNCHANGED Contract!vars
      <4>1. \A r \in Regs : Told({Emission(event, callbacks, {}, {}, counter)}, r) = Told(emission[t], r)
        BY <3>5 DEF Emit, Emission, Told
      <4> QED
        BY <3>1, <3>5, <4>1 DEF Emit
    <3>6. CASE Invoke(t)
      <4>1. PICK m \in emission[t] : \E k \in m.left :
              /\ m.current = {}
              /\ emission' =
                   [emission EXCEPT ![t] = {Emission(m.event, m.left \ {k}, {k}, m.told, m.mark)}]
        BY <3>6 DEF Invoke
      <4>2. PICK k \in m.left :
              /\ m.current = {}
              /\ emission' =
                   [emission EXCEPT ![t] = {Emission(m.event, m.left \ {k}, {k}, m.told, m.mark)}]
        BY <4>1
      <4> DEFINE after == {Emission(m.event, m.left \ {k}, {k}, m.told, m.mark)}
      <4>3. PICK r \in Regs : /\ pc[r] # "none" /\ callbackId[r] = k
                             /\ \A q \in Regs : q # r => callbackId[q] # k
        BY <3>2
      <4>4. \A q : Told(emission[t], q) = {}
        BY <3>3, <4>2 DEF Told
      <4>5. Told(after, r) = {m.event} /\ \A q \in Regs : q # r => Told(after, q) = {}
        <5> DEFINE e == Emission(m.event, m.left \ {k}, {k}, m.told, m.mark)
        <5>1. e.event = m.event /\ e.current = {k} /\ after = {e}
          BY DEF Emission
        <5> HIDE DEF e, after
        <5> QED
          BY <4>3, <5>1 DEF Told
      <4>6. /\ Telling(r)' = Telling(r) \cup {m.event}
            /\ \A q \in Regs : q # r => Telling(q)' = Telling(q)
        <5> HIDE DEF after
        <5>1. \A q \in Regs : Telling(q) = Others(t, q) \cup Told(emission[t], q)
          BY TellingSplit
        <5>2. emission' = [emission EXCEPT ![t] = after]
          BY <4>2 DEF after
        <5>3. \A q \in Regs : Telling(q)' = Others(t, q) \cup Told(after, q)
          BY <1>t, <2>1, <5>2, TellingNext
        <5> QED
          BY <4>4, <4>5, <5>1, <5>3
      <4>7. R' = [R EXCEPT ![r] = @ \cup {m.event}]
        BY <1>t, <4>6 DEF Running
      <4>8. P[r] # "none"
        BY <1>t, <4>3 DEF Phase
      <4>9. Contract!Handle(r)
        BY <2>2, <3>4, <4>7, <4>8 DEF Contract!Handle, Running
      <4> QED
        BY <4>9 DEF Contract!Next
    <3>7. ASSUME NEW m \in emission[t], m.current # {}, NEW after,
                 \A r : Told(after, r) = {}, emission' = [emission EXCEPT ![t] = after]
          PROVE  Contract!Next \/ UNCHANGED Contract!vars
      <4>1. PICK k : m.current = {k}
        BY <3>3, <3>7
      <4>2. PICK r \in Regs : /\ pc[r] # "none" /\ callbackId[r] = k
                             /\ \A q \in Regs : q # r => callbackId[q] # k
        BY <3>2, <4>1
      <4>3. Told(emission[t], r) = {m.event} /\ \A q \in Regs : q # r => Told(emission[t], q) = {}
        BY <3>3, <4>1, <4>2 DEF Told
      <4>4. /\ Telling(r)' = Telling(r) \/ Telling(r)' = Telling(r) \ {m.event}
            /\ m.event \in Telling(r)
            /\ \A q \in Regs : q # r => Telling(q)' = Telling(q)
        <5>1. \A q \in Regs : Telling(q) = Others(t, q) \cup Told(emission[t], q)
          BY TellingSplit
        <5>2. \A q \in Regs : Telling(q)' = Others(t, q) \cup Told(after, q)
          BY <1>t, <2>1, <3>7, TellingNext
        <5> QED
          BY <3>7, <4>3, <5>1, <5>2
      <4>5. R' = R \/ R' = [R EXCEPT ![r] = @ \ {m.event}]
        BY <1>t, <4>4 DEF Running
      <4>6. m.event \in R[r]
        BY <4>4 DEF Running
      <4>7. R' = R \/ Contract!Handled(r)
        BY <2>2, <4>5, <4>6 DEF Contract!Handled, Running
      <4> QED
        BY <1>s, <2>2, <4>7 DEF Contract!Next
    <3>8. CASE HandlerReturns(t)
      <4>1. PICK m \in emission[t] :
              /\ m.current # {}
              /\ emission' =
                   [emission EXCEPT ![t] = {Emission(m.event, m.left, {}, m.told \cup m.current, m.mark)}]
        BY <3>8 DEF HandlerReturns
      <4>2. \A r : Told({Emission(m.event, m.left, {}, m.told \cup m.current, m.mark)}, r) = {}
        BY DEF Told, Emission
      <4> QED
        BY <3>7, <4>1, <4>2
    <3>9. CASE HandlerPanics(t)
      <4>1. \A r : Told({}, r) = {}
        BY DEF Told
      <4> QED
        BY <3>7, <3>9, <4>1 DEF HandlerPanics
    <3>10. CASE EmitReturns(t)
      <4>1. \A r \in Regs : Told({}, r) = Told(emission[t], r)
        BY <3>3, <3>10 DEF EmitReturns, Told
      <4> QED
        BY <3>1, <3>10, <4>1 DEF EmitReturns
    <3> QED
      BY <1>3, <3>5, <3>6, <3>8, <3>9, <3>10 DEF EmitterStep
  <2> QED
    BY <2>3, <2>4
<1>4. CASE UNCHANGED <<vars, quiet>>
  BY <1>s, <1>t, <1>4 DEF vars, regVars, Phase, Running, Telling
<1> QED
  BY <1>1, <1>2, <1>3, <1>4 DEF Next

\* Over the fake as over the adapter, no handler outlives the drop of its registration
\* when the test is quiet.
THEOREM ContractTheorem == Spec => ContractSpec
BY InitContract, InitQuiet, NextQuiet, StepContract, PTL DEF Spec, ContractSpec, Contract!Spec
=============================================================================
