---------------------------- MODULE LoaderProofs ----------------------------
(***************************************************************************)
(* Theorems about Loader, for any number of threads, any platform and any  *)
(* files behind the candidate paths.                                       *)
(***************************************************************************)
EXTENDS Loader, SequenceTheorems, TLAPS

USE DEF Paths, FileKinds, Goto, Returns

HasLib(t) == pc[t] \in {"resolving", "live"}

\* The Library of a thread is an open handle ...
LibsOpen == \A t \in Threads : HasLib(t) => lib[t] \in DOMAIN images

\* ... that no other thread holds.
LibsOwn ==
  \A t, u \in Threads : t # u /\ HasLib(t) /\ HasLib(u) => lib[t] # lib[u]

\* A library with every symbol, which is the only one that becomes a runtime.
LiveComplete == \A t \in Threads : pc[t] = "live" => files[images[lib[t]]] = "complete"

\* The SDK only ran in such libraries, each of which still has a handle: a handle is
\* only closed when a symbol is missing.
InsideOpen ==
  \A p \in inside : files[p] = "complete" /\ \E i \in DOMAIN images : images[i] = p

\* An incomplete library has a handle only while a thread resolves its symbols.
PartialResolving ==
  \A i \in DOMAIN images : files[images[i]] = "partial" =>
    \E t \in Threads : pc[t] = "resolving" /\ lib[t] = i

IInv ==
  /\ TypeOK
  /\ LibsOpen /\ LibsOwn /\ LiveComplete
  /\ InsideOpen /\ PartialResolving

-----------------------------------------------------------------------------
\* The candidates are paths, and there is always one.
LEMMA CandidatesType ==
  ASSUME platform \in [home : BOOLEAN, arch : BOOLEAN, macos : BOOLEAN]
  PROVE  Candidates \in Seq(Paths) /\ Candidates # <<>>
<1> DEFINE g(cond, path) == IF cond THEN <<path>> ELSE <<>>
<1>1. \A cond \in BOOLEAN, path \in Paths : g(cond, path) \in Seq(Paths)
  <2> TAKE cond \in BOOLEAN, path \in Paths
  <2>1. <<path>> \in Seq(Paths) /\ <<>> \in Seq(Paths)
    OBVIOUS
  <2> HIDE DEF Paths
  <2> QED
    BY <2>1
<1> HIDE DEF g
<1>2. platform.home \in BOOLEAN /\ platform.arch \in BOOLEAN /\ platform.macos \in BOOLEAN
  OBVIOUS
<1>3. /\ g(platform.home /\ platform.arch, "arch") \in Seq(Paths)
      /\ g(platform.home, "lib") \in Seq(Paths)
      /\ g(platform.home /\ platform.macos, "framework") \in Seq(Paths)
      /\ g(platform.macos, "default") \in Seq(Paths)
  BY <1>1, <1>2
<1>4. <<"bare">> \in Seq(Paths) /\ Len(<<"bare">>) = 1
  OBVIOUS
<1>5. Candidates = g(platform.home /\ platform.arch, "arch")
                   \o g(platform.home, "lib")
                   \o g(platform.home /\ platform.macos, "framework")
                   \o g(platform.macos, "default")
                   \o <<"bare">>
  BY DEF Candidates, g
<1> QED
  BY <1>3, <1>4, <1>5

LEMMA InitInv == Init => IInv
<1> SUFFICES ASSUME Init PROVE IInv
  OBVIOUS
<1>1. DOMAIN images = {} /\ inside = {}
  BY DEF Init
<1>2. TypeOK
  BY <1>1 DEF Init, TypeOK
<1>3. \A t \in Threads : ~HasLib(t) /\ pc[t] # "live"
  BY DEF Init, HasLib
<1> QED
  BY <1>1, <1>2, <1>3
  DEF IInv, LibsOpen, LibsOwn, LiveComplete, InsideOpen, PartialResolving

-----------------------------------------------------------------------------
\* Every variable keeps its type.
LEMMA TypeStep == TypeOK /\ LibsOpen /\ [Next]_vars => TypeOK'
<1> SUFFICES ASSUME TypeOK, LibsOpen, [Next]_vars PROVE TypeOK'
  OBVIOUS
<1> USE DEF TypeOK
<1>1. ASSUME NEW t \in Threads, Load(t) PROVE TypeOK'
  BY <1>1, CandidatesType DEF Load, hostVars, processVars
<1>2. ASSUME NEW t \in Threads, OpenFails(t) PROVE TypeOK'
  BY <1>2 DEF OpenFails, hostVars, processVars
<1>3. ASSUME NEW t \in Threads, Opens(t) PROVE TypeOK'
  BY <1>3 DEF Opens, hostVars
<1>4. ASSUME NEW t \in Threads, Resolves(t) PROVE TypeOK'
  <2>1. images[lib[t]] \in Paths
    BY <1>4 DEF Resolves, LibsOpen, HasLib
  <2> QED
    BY <1>4, <2>1 DEF Resolves, hostVars, processVars
<1>5. ASSUME NEW t \in Threads, MissingSymbol(t) PROVE TypeOK'
  <2>1. images[lib[t]] \in Paths
    BY <1>5 DEF MissingSymbol, LibsOpen, HasLib
  <2> QED
    BY <1>5, <2>1 DEF MissingSymbol, Closed, hostVars
<1>6. ASSUME NEW t \in Threads, StartSdk(t) PROVE TypeOK'
  <2>1. images[lib[t]] \in Paths
    BY <1>6 DEF StartSdk, LibsOpen, HasLib
  <2> QED
    BY <1>6, <2>1 DEF StartSdk, hostVars, loadVars
<1>7. ASSUME NEW t \in Threads, ShutdownSdk(t) PROVE TypeOK'
  BY <1>7 DEF ShutdownSdk, hostVars, loadVars
<1>8. ASSUME NEW t \in Threads, DropRuntime(t) PROVE TypeOK'
  BY <1>8 DEF DropRuntime, hostVars, processVars
<1>9. ASSUME NEW p \in Paths, SdkThreadsEnd(p) PROVE TypeOK'
  BY <1>9 DEF SdkThreadsEnd, hostVars, loadVars
<1>10. CASE UNCHANGED vars
  BY <1>10 DEF vars, hostVars, loadVars, processVars
<1> QED
  BY <1>1, <1>2, <1>3, <1>4, <1>5, <1>6, <1>7, <1>8, <1>9, <1>10 DEF Next

-----------------------------------------------------------------------------
\* A step that changes no handle, no Library and no file, and gives no thread a
\* Library it had not.
LEMMA NoHandleMoves ==
  ASSUME IInv, UNCHANGED <<files, images, inside>>,
         \A t \in Threads : HasLib(t)' => pc'[t] = pc[t] /\ lib'[t] = lib[t],
         \A t \in Threads : pc[t] = "resolving" => pc'[t] = "resolving" /\ lib'[t] = lib[t]
  PROVE  (LibsOpen /\ LibsOwn /\ LiveComplete /\ InsideOpen /\ PartialResolving)'
BY DEF IInv, LibsOpen, LibsOwn, LiveComplete, InsideOpen, PartialResolving, HasLib

LEMMA StepInv == IInv /\ [Next]_vars => IInv'
<1> SUFFICES ASSUME IInv, [Next]_vars PROVE IInv'
  OBVIOUS
<1> DEFINE Held == LibsOpen /\ LibsOwn /\ LiveComplete /\ InsideOpen /\ PartialResolving
<1>0. TypeOK'
  BY TypeStep DEF IInv
<1>1. ASSUME NEW t \in Threads, Load(t) PROVE Held'
  BY <1>1, NoHandleMoves DEF Load, IInv, TypeOK, HasLib, hostVars, processVars
<1>2. ASSUME NEW t \in Threads, OpenFails(t) PROVE Held'
  BY <1>2, NoHandleMoves DEF OpenFails, IInv, TypeOK, HasLib, hostVars, processVars
<1>3. ASSUME NEW t \in Threads, Opens(t) PROVE Held'
  <2> USE <1>3 DEF Opens, IInv, TypeOK, hostVars
  <2>1. nextId \notin DOMAIN images /\ nextId \in Nat
    OBVIOUS
  <2>2. /\ DOMAIN images' = DOMAIN images \cup {nextId}
        /\ \A i \in DOMAIN images : images'[i] = images[i]
        /\ files' = files /\ inside' = inside
    BY <2>1
  <2>3. /\ pc'[t] = "resolving" /\ lib'[t] = nextId
        /\ \A u \in Threads \ {t} : pc'[u] = pc[u] /\ lib'[u] = lib[u]
    OBVIOUS
  <2>4. LibsOpen' /\ LibsOwn' /\ LiveComplete'
    BY <2>1, <2>2, <2>3 DEF LibsOpen, LibsOwn, LiveComplete, HasLib
  <2>5. InsideOpen'
    BY <2>2 DEF InsideOpen
  <2>6. PartialResolving'
    <3> SUFFICES ASSUME NEW i \in DOMAIN images', files[images'[i]] = "partial"
                 PROVE  \E u \in Threads : pc'[u] = "resolving" /\ lib'[u] = i
      BY <2>2 DEF PartialResolving
    <3>1. CASE i = nextId
      BY <3>1, <2>3
    <3>2. CASE i \in DOMAIN images
      <4>1. PICK u \in Threads : pc[u] = "resolving" /\ lib[u] = i
        BY <3>2, <2>2 DEF PartialResolving
      <4>2. u # t
        BY <4>1
      <4> QED
        BY <4>1, <4>2, <2>3
    <3> QED
      BY <3>1, <3>2, <2>2
  <2> QED
    BY <2>4, <2>5, <2>6
<1>4. ASSUME NEW t \in Threads, Resolves(t) PROVE Held'
  <2> USE <1>4 DEF Resolves, IInv, TypeOK, hostVars, processVars
  <2>1. files' = files /\ images' = images /\ inside' = inside /\ lib' = lib
    OBVIOUS
  <2>2. /\ pc'[t] = "live" /\ files[images[lib[t]]] = "complete"
        /\ \A u \in Threads \ {t} : pc'[u] = pc[u]
    OBVIOUS
  <2>3. LibsOpen' /\ LibsOwn' /\ LiveComplete'
    BY <2>1, <2>2 DEF LibsOpen, LibsOwn, LiveComplete, HasLib
  <2>4. InsideOpen'
    BY <2>1 DEF InsideOpen
  <2>5. PartialResolving'
    BY <2>1, <2>2 DEF PartialResolving
  <2> QED
    BY <2>3, <2>4, <2>5
<1>5. ASSUME NEW t \in Threads, MissingSymbol(t) PROVE Held'
  <2> USE <1>5 DEF MissingSymbol, IInv, TypeOK, hostVars
  <2>1. /\ DOMAIN images' = DOMAIN images \ {lib[t]}
        /\ \A i \in DOMAIN images' : images'[i] = images[i]
        /\ files' = files /\ inside' = inside
    BY DEF Closed
  <2>2. /\ pc'[t] = "idle" /\ files[images[lib[t]]] = "partial"
        /\ \A u \in Threads \ {t} : pc'[u] = pc[u] /\ lib'[u] = lib[u]
    OBVIOUS
  <2>3. HasLib(t) /\ \A u \in Threads : HasLib(u)' => u # t /\ HasLib(u)
    BY <2>2 DEF HasLib
  <2>4. LibsOpen' /\ LibsOwn' /\ LiveComplete'
    BY <2>1, <2>2, <2>3 DEF LibsOpen, LibsOwn, LiveComplete, HasLib
  <2>5. InsideOpen'
    <3> SUFFICES ASSUME NEW p \in inside
                 PROVE  files[p] = "complete" /\ \E i \in DOMAIN images' : images'[i] = p
      BY <2>1 DEF InsideOpen
    <3>1. PICK i \in DOMAIN images : images[i] = p
      BY DEF InsideOpen
    <3>2. files[p] = "complete"
      BY DEF InsideOpen
    <3>3. i # lib[t]
      BY <3>1, <3>2, <2>2
    <3> QED
      BY <3>1, <3>2, <3>3, <2>1
  <2>6. PartialResolving'
    <3> SUFFICES ASSUME NEW i \in DOMAIN images', files[images'[i]] = "partial"
                 PROVE  \E u \in Threads : pc'[u] = "resolving" /\ lib'[u] = i
      BY <2>1 DEF PartialResolving
    <3>1. PICK u \in Threads : pc[u] = "resolving" /\ lib[u] = i
      BY <2>1 DEF PartialResolving
    <3>2. u # t
      BY <3>1, <2>1
    <3> QED
      BY <3>1, <3>2, <2>2
  <2> QED
    BY <2>4, <2>5, <2>6
<1>6. ASSUME NEW t \in Threads, StartSdk(t) PROVE Held'
  <2> USE <1>6 DEF StartSdk, IInv, hostVars, loadVars
  <2>1. UNCHANGED <<files, images, pc, lib>> /\ inside' = inside \cup {images[lib[t]]}
    OBVIOUS
  <2>2. LibsOpen' /\ LibsOwn' /\ LiveComplete' /\ PartialResolving'
    BY <2>1 DEF LibsOpen, LibsOwn, LiveComplete, PartialResolving, HasLib
  <2>3. InsideOpen'
    BY <2>1 DEF InsideOpen, LibsOpen, LiveComplete, HasLib
  <2> QED
    BY <2>2, <2>3
<1>7. ASSUME NEW t \in Threads, ShutdownSdk(t) PROVE Held'
  BY <1>7, NoHandleMoves DEF ShutdownSdk, HasLib, hostVars, loadVars
<1>8. ASSUME NEW t \in Threads, DropRuntime(t) PROVE Held'
  BY <1>8, NoHandleMoves DEF DropRuntime, IInv, TypeOK, HasLib, hostVars, processVars
<1>9. ASSUME NEW p \in Paths, SdkThreadsEnd(p) PROVE Held'
  BY <1>9 DEF SdkThreadsEnd, IInv, LibsOpen, LibsOwn, LiveComplete, InsideOpen,
              PartialResolving, HasLib, hostVars, loadVars
<1>10. CASE UNCHANGED vars
  <2>1. UNCHANGED <<files, images, inside, pc, lib>>
    BY <1>10 DEF vars, hostVars, loadVars, processVars
  <2>2. LibsOpen' /\ LibsOwn'
    BY <2>1 DEF IInv, LibsOpen, LibsOwn, HasLib
  <2>3. LiveComplete' /\ InsideOpen'
    BY <2>1 DEF IInv, LiveComplete, InsideOpen
  <2>4. PartialResolving'
    BY <2>1 DEF IInv, PartialResolving
  <2> QED
    BY <1>0, <2>2, <2>3, <2>4 DEF IInv
<1> QED
  BY <1>0, <1>1, <1>2, <1>3, <1>4, <1>5, <1>6, <1>7, <1>8, <1>9, <1>10 DEF Next, IInv

LEMMA Invariance == Spec => []IInv
BY InitInv, StepInv, PTL DEF Spec

-----------------------------------------------------------------------------
\* Every variable keeps its type, for any threads and any bound.
THEOREM TypeCorrect == Spec => []TypeOK
<1>1. IInv => TypeOK
  BY DEF IInv
<1> QED
  BY <1>1, Invariance, PTL

\* Whatever runtimes are loaded, started and dropped on however many threads, SDK code
\* only runs in mapped images, and a refused library is unmapped.
THEOREM MappedTheorem == Spec => []MappedAsNeeded
<1>1. IInv => MappedAsNeeded
  BY DEF IInv, MappedAsNeeded, LibsOpen, HasLib, InsideOpen, PartialResolving, Mapped
<1> QED
  BY <1>1, Invariance, PTL
-----------------------------------------------------------------------------
(* What load reports. *)

\* What the suffix of a sequence from one of its elements on consists of.
LEMMA SuffixOf ==
  ASSUME NEW S, NEW c \in Seq(S), NEW k \in 1 .. Len(c),
         NEW u, u = SubSeq(c, k, Len(c))
  PROVE  /\ u # <<>> /\ Head(u) = c[k] /\ Len(u) = Len(c) - k + 1
         /\ Tail(u) = SubSeq(c, k + 1, Len(c))
<1>1. Len(c) \in Nat /\ k \in Nat /\ 1 <= k /\ k <= Len(c)
  OBVIOUS
<1>2. u \in Seq(S) /\ Len(u) = Len(c) - k + 1
  BY <1>1
<1>3. u # <<>>
  BY <1>1, <1>2, Len(u) # Len(<<>>)
<1>4. Head(u) = c[k] /\ Tail(u) = SubSeq(c, k + 1, Len(c))
  BY <1>1, HeadTailOfSubSeq
<1> QED
  BY <1>2, <1>3, <1>4

\* No candidate before the k-th opens.
Rejected(k) == \A j \in 1 .. k - 1 : files[Candidates[j]] = "none"

\* A thread in load has tried the candidates in order: those before the ones it still
\* has to try do not open, nor do those before the one it has opened.
SearchInv ==
  \A t \in Threads :
    /\ pc[t] = "opening" =>
         \E k \in 1 .. Len(Candidates) :
           untried[t] = SubSeq(Candidates, k, Len(Candidates)) /\ Rejected(k)
    /\ pc[t] = "resolving" =>
         \E k \in 1 .. Len(Candidates) :
           /\ images[lib[t]] = Candidates[k] /\ files[Candidates[k]] # "none"
           /\ Rejected(k)

\* What the files have load return.
Verdict ==
  LET cs == Candidates
      opening == {i \in DOMAIN cs : files[cs[i]] # "none"}
      first == CHOOSE i \in opening : \A j \in opening : i <= j
  IN IF opening = {} THEN [kind |-> "LibraryOpen", path |-> cs[Len(cs)]]
     ELSE [kind |-> IF files[cs[first]] = "complete" THEN "Ok" ELSE "SymbolResolution",
           path |-> cs[first]]

\* The first candidate that opens decides ...
LEMMA VerdictFirst ==
  ASSUME TypeOK, NEW k \in 1 .. Len(Candidates),
         files[Candidates[k]] # "none", Rejected(k)
  PROVE  Verdict = [kind |-> IF files[Candidates[k]] = "complete" THEN "Ok"
                             ELSE "SymbolResolution",
                    path |-> Candidates[k]]
<1> DEFINE opening == {i \in DOMAIN Candidates : files[Candidates[i]] # "none"}
<1>1. Len(Candidates) \in Nat /\ DOMAIN Candidates = 1 .. Len(Candidates)
  BY CandidatesType DEF TypeOK
<1>2. k \in opening /\ \A j \in opening : k <= j
  BY <1>1 DEF Rejected
<1>3. opening \subseteq Nat
  BY <1>1
<1> HIDE DEF opening
<1>4. \A i \in opening : (\A j \in opening : i <= j) => i = k
  BY <1>2, <1>3
<1>5. k = CHOOSE i \in opening : \A j \in opening : i <= j
  BY <1>2, <1>4
<1>6. opening # {}
  BY <1>2
<1> QED
  BY <1>5, <1>6 DEF Verdict, opening

\* ... and there is none when the last one is reached in vain.
LEMMA VerdictNone ==
  ASSUME TypeOK, Rejected(Len(Candidates)), files[Candidates[Len(Candidates)]] = "none"
  PROVE  Verdict = [kind |-> "LibraryOpen", path |-> Candidates[Len(Candidates)]]
<1>1. Len(Candidates) \in Nat /\ DOMAIN Candidates = 1 .. Len(Candidates)
  BY CandidatesType DEF TypeOK
<1>2. {i \in DOMAIN Candidates : files[Candidates[i]] # "none"} = {}
  BY <1>1 DEF Rejected
<1> QED
  BY <1>2 DEF Verdict

LEMMA SearchStep == IInv /\ SearchInv /\ [Next]_vars => SearchInv'
<1> SUFFICES ASSUME IInv, SearchInv, [Next]_vars PROVE SearchInv'
  OBVIOUS
<1> DEFINE n == Len(Candidates)
           Tries(t) == \E k \in 1 .. n : untried[t] = SubSeq(Candidates, k, n) /\ Rejected(k)
           Opened(t) == \E k \in 1 .. n : /\ images[lib[t]] = Candidates[k]
                                          /\ files[Candidates[k]] # "none" /\ Rejected(k)
           Searches(t) == /\ pc[t] = "opening" => Tries(t)
                          /\ pc[t] = "resolving" => Opened(t)
<1>1. UNCHANGED <<platform, files>>
  BY DEF Next, vars, hostVars, Load, OpenFails, Opens, Resolves, MissingSymbol, StartSdk,
         ShutdownSdk, DropRuntime, SdkThreadsEnd
<1>2. UNCHANGED Candidates /\ \A k : Rejected(k)' <=> Rejected(k)
  BY <1>1 DEF Candidates, Rejected
<1>3. Candidates \in Seq(Paths) /\ n \in Nat \ {0}
  BY CandidatesType, EmptySeq DEF IInv, TypeOK
\* A thread that does not move, and whose image stays where it is, searches as before.
<1>4. ASSUME NEW t \in Threads, UNCHANGED <<pc[t], untried[t], lib[t]>>,
             pc[t] = "resolving" => images'[lib[t]] = images[lib[t]]
      PROVE  Searches(t)'
  BY <1>1, <1>2, <1>4 DEF SearchInv
<1>5. ASSUME NEW t \in Threads, pc'[t] \notin {"opening", "resolving"} PROVE Searches(t)'
  BY <1>5
<1>6. CASE \E t \in Threads : Load(t)
  <2>1. PICK t \in Threads : Load(t)
    BY <1>6
  <2>2. Searches(t)'
    <3>1. untried'[t] = Candidates /\ pc'[t] = "opening"
      BY <2>1 DEF Load, IInv, TypeOK
    <3>2. untried'[t] = SubSeq(Candidates', 1, n') /\ 1 \in 1 .. n'
      BY <1>2, <1>3, <3>1, SubSeqFull
    <3>3. Rejected(1)'
      BY DEF Rejected
    <3>4. Tries(t)'
      BY <3>2, <3>3
    <3> QED
      BY <3>1, <3>4
  <2>3. \A u \in Threads \ {t} : UNCHANGED <<pc[u], untried[u], lib[u]>>
    BY <2>1 DEF Load, IInv, TypeOK
  <2>4. UNCHANGED images
    BY <2>1 DEF Load, processVars
  <2> QED
    BY <1>4, <2>2, <2>3, <2>4 DEF SearchInv
<1>7. CASE \E t \in Threads : OpenFails(t)
  <2>1. PICK t \in Threads : OpenFails(t)
    BY <1>7
  <2>2. Searches(t)'
    <3>1. PICK k \in 1 .. n : untried[t] = SubSeq(Candidates, k, n) /\ Rejected(k)
      BY <2>1 DEF OpenFails, SearchInv
    <3>2. /\ Head(untried[t]) = Candidates[k] /\ Len(untried[t]) = n - k + 1
          /\ Tail(untried[t]) = SubSeq(Candidates, k + 1, n)
      BY <1>3, <3>1, SuffixOf
    <3>3. /\ untried'[t] = Tail(untried[t]) /\ files[Candidates[k]] = "none"
          /\ pc'[t] = IF Len(untried[t]) = 1 THEN "idle" ELSE "opening"
      BY <2>1, <3>2 DEF OpenFails, IInv, TypeOK
    <3>4. CASE k = n
      BY <1>3, <1>5, <3>2, <3>3, <3>4
    <3>5. CASE k # n
      <4>1. k + 1 \in 1 .. n /\ Rejected(k + 1)
        BY <1>3, <3>1, <3>3, <3>5 DEF Rejected
      <4>2. untried'[t] = SubSeq(Candidates', k + 1, n') /\ Rejected(k + 1)' /\ k + 1 \in 1 .. n'
        BY <1>2, <3>2, <3>3, <4>1
      <4>3. Tries(t)'
        BY <4>2
      <4>4. pc'[t] = "opening"
        BY <1>3, <3>2, <3>3, <3>5
      <4> QED
        BY <4>3, <4>4
    <3> QED
      BY <3>4, <3>5
  <2>3. \A u \in Threads \ {t} : UNCHANGED <<pc[u], untried[u], lib[u]>>
    BY <2>1 DEF OpenFails, IInv, TypeOK
  <2>4. UNCHANGED images
    BY <2>1 DEF OpenFails, processVars
  <2> QED
    BY <1>4, <2>2, <2>3, <2>4 DEF SearchInv
<1>8. CASE \E t \in Threads : Opens(t)
  <2>1. PICK t \in Threads : Opens(t)
    BY <1>8
  <2>2. nextId \notin DOMAIN images
    BY DEF IInv, TypeOK
  <2>3. Searches(t)'
    <3>1. PICK k \in 1 .. n : untried[t] = SubSeq(Candidates, k, n) /\ Rejected(k)
      BY <2>1 DEF Opens, SearchInv
    <3>2. Head(untried[t]) = Candidates[k]
      BY <1>3, <3>1, SuffixOf
    <3>3. /\ pc'[t] = "resolving" /\ lib'[t] = nextId
          /\ images'[nextId] = Head(untried[t]) /\ files[Head(untried[t])] # "none"
      BY <2>1 DEF Opens, IInv, TypeOK
    <3>4. /\ images'[lib'[t]] = Candidates'[k] /\ files'[Candidates'[k]] # "none"
          /\ Rejected(k)' /\ k \in 1 .. n'
      BY <1>1, <1>2, <3>1, <3>2, <3>3
    <3>5. Opened(t)'
      BY <3>4
    <3> QED
      BY <3>3, <3>5
  <2>4. \A u \in Threads \ {t} : UNCHANGED <<pc[u], untried[u], lib[u]>>
    BY <2>1 DEF Opens, IInv, TypeOK
  <2>5. \A i \in DOMAIN images : images'[i] = images[i]
    BY <2>1, <2>2 DEF Opens
  <2>6. \A u \in Threads : pc[u] = "resolving" => lib[u] \in DOMAIN images
    BY DEF IInv, LibsOpen, HasLib
  <2> QED
    BY <1>4, <2>3, <2>4, <2>5, <2>6 DEF SearchInv
<1>9. CASE \E t \in Threads : Resolves(t) \/ DropRuntime(t)
  <2>1. PICK t \in Threads : Resolves(t) \/ DropRuntime(t)
    BY <1>9
  <2>2. pc'[t] \notin {"opening", "resolving"}
    BY <2>1 DEF Resolves, DropRuntime, IInv, TypeOK
  <2>3. \A u \in Threads \ {t} : UNCHANGED <<pc[u], untried[u], lib[u]>>
    BY <2>1 DEF Resolves, DropRuntime, IInv, TypeOK
  <2>4. UNCHANGED images
    BY <2>1 DEF Resolves, DropRuntime, processVars
  <2> QED
    BY <1>4, <1>5, <2>2, <2>3, <2>4 DEF SearchInv
<1>10. CASE \E t \in Threads : MissingSymbol(t)
  <2>1. PICK t \in Threads : MissingSymbol(t)
    BY <1>10
  <2>2. pc'[t] \notin {"opening", "resolving"}
    BY <2>1 DEF MissingSymbol, IInv, TypeOK
  <2>3. \A u \in Threads \ {t} : UNCHANGED <<pc[u], untried[u], lib[u]>>
    BY <2>1 DEF MissingSymbol, IInv, TypeOK
  <2>4. \A i \in DOMAIN images \ {lib[t]} : images'[i] = images[i]
    BY <2>1 DEF MissingSymbol, Closed
  <2>5. \A u \in Threads \ {t} : pc[u] = "resolving" => lib[u] \in DOMAIN images \ {lib[t]}
    BY <2>1 DEF MissingSymbol, IInv, LibsOpen, LibsOwn, HasLib
  <2> QED
    BY <1>4, <1>5, <2>2, <2>3, <2>4, <2>5 DEF SearchInv
<1>11. CASE UNCHANGED <<loadVars, images>>
  BY <1>4, <1>11 DEF SearchInv, loadVars
<1> QED
  BY <1>6, <1>7, <1>8, <1>9, <1>10, <1>11
  DEF Next, StartSdk, ShutdownSdk, SdkThreadsEnd, vars, processVars

LEMMA ReportStep == IInv /\ SearchInv /\ LoadReportsFirst /\ [Next]_vars => LoadReportsFirst'
<1> SUFFICES ASSUME IInv, SearchInv, LoadReportsFirst, [Next]_vars PROVE LoadReportsFirst'
  OBVIOUS
<1> DEFINE Reported(t) ==
      pc[t] \in {"idle", "live"} /\ outcome[t].kind # "none" => outcome[t] = Verdict
           n == Len(Candidates)
<1>1. UNCHANGED <<platform, files>>
  BY DEF Next, vars, hostVars, Load, OpenFails, Opens, Resolves, MissingSymbol, StartSdk,
         ShutdownSdk, DropRuntime, SdkThreadsEnd
<1>2. UNCHANGED Verdict
  BY <1>1 DEF Verdict, Candidates
<1>3. \A t \in Threads : Reported(t)
  BY DEF LoadReportsFirst, Verdict
<1>4. SUFFICES \A t \in Threads : Reported(t)'
  BY DEF LoadReportsFirst, Verdict
<1>5. TypeOK /\ Candidates \in Seq(Paths) /\ n \in Nat \ {0}
  BY CandidatesType, EmptySeq DEF IInv, TypeOK
<1> HIDE DEF n
<1>6. ASSUME NEW t \in Threads, UNCHANGED outcome[t],
             pc'[t] \in {"idle", "live"} => pc[t] \in {"idle", "live"}
      PROVE  Reported(t)'
  BY <1>2, <1>3, <1>6
<1>7. ASSUME NEW t \in Threads, OpenFails(t) PROVE Reported(t)'
  <2>1. PICK k \in 1 .. n : untried[t] = SubSeq(Candidates, k, n) /\ Rejected(k)
    BY <1>7 DEF OpenFails, SearchInv, n
  <2>2. Head(untried[t]) = Candidates[k] /\ Len(untried[t]) = n - k + 1
    BY <1>5, <2>1, SuffixOf DEF n
  <2>3. /\ files[Candidates[k]] = "none"
        /\ pc'[t] = IF Len(untried[t]) = 1 THEN "idle" ELSE "opening"
        /\ outcome'[t] = [kind |-> "LibraryOpen", path |-> Candidates[k]]
    BY <1>7, <2>2 DEF OpenFails, IInv, TypeOK
  <2>4. CASE k = n
    BY <1>2, <1>5, <2>1, <2>3, <2>4, VerdictNone DEF n
  <2>5. CASE k # n
    BY <1>5, <2>2, <2>3, <2>5
  <2> QED
    BY <2>4, <2>5
<1>8. ASSUME NEW t \in Threads, Resolves(t) \/ MissingSymbol(t) PROVE Reported(t)'
  <2>1. PICK k \in 1 .. n : /\ images[lib[t]] = Candidates[k]
                            /\ files[Candidates[k]] # "none" /\ Rejected(k)
    BY <1>8 DEF Resolves, MissingSymbol, SearchInv, n
  <2>2. outcome'[t] = [kind |-> IF files[Candidates[k]] = "complete" THEN "Ok"
                                ELSE "SymbolResolution",
                       path |-> Candidates[k]]
    BY <1>8, <2>1 DEF Resolves, MissingSymbol, IInv, TypeOK
  <2> QED
    BY <1>2, <1>5, <2>1, <2>2, VerdictFirst DEF n
<1>9. ASSUME NEW t \in Threads,
             Load(t) \/ Opens(t) \/ StartSdk(t) \/ ShutdownSdk(t) \/ DropRuntime(t)
      PROVE  /\ UNCHANGED outcome
             /\ \A u \in Threads : pc'[u] \in {"idle", "live"} => pc[u] \in {"idle", "live"}
  BY <1>9 DEF Load, Opens, StartSdk, ShutdownSdk, DropRuntime, loadVars, IInv, TypeOK
<1>10. ASSUME NEW t \in Threads, OpenFails(t) \/ Resolves(t) \/ MissingSymbol(t)
       PROVE  \A u \in Threads \ {t} : UNCHANGED <<pc[u], outcome[u]>>
  BY <1>10 DEF OpenFails, Resolves, MissingSymbol, IInv, TypeOK
<1>11. CASE UNCHANGED loadVars
  BY <1>6, <1>11 DEF loadVars
<1> QED
  BY <1>6, <1>7, <1>8, <1>9, <1>10, <1>11 DEF Next, SdkThreadsEnd, vars

\* On every platform, whatever lies behind the candidate paths and however many threads
\* load at once, what load returns is what the first candidate that opens gives.
THEOREM ReportTheorem == Spec => []LoadReportsFirst
<1>1. Init => SearchInv /\ LoadReportsFirst
  BY DEF Init, SearchInv, LoadReportsFirst
<1> QED
  BY <1>1, Invariance, SearchStep, ReportStep, PTL DEF Spec
=============================================================================
