------------------------------- MODULE Loader -------------------------------
(***************************************************************************)
(* VmbApi of vmb-sys (api.rs): the search for libVmbC, the resolution of   *)
(* its symbols, and how long the library stays mapped.                     *)
(*                                                                         *)
(* A thread in VmbFfiRuntime::new tries the candidate paths in order.      *)
(* Each try is a dlopen, an action of its own, as other threads load,      *)
(* start the SDK and drop their runtimes meanwhile.  A Library is a handle *)
(* of dlopen: dropping it closes the handle, and an image is unmapped with *)
(* its last handle.  Once started, the SDK may have threads inside the     *)
(* image that VmbShutdown does not end.                                    *)
(***************************************************************************)
EXTENDS Naturals, Sequences, FiniteSets

CONSTANTS
  Threads,  \* the threads that call VmbFfiRuntime::new
  MaxId     \* bound: no library is opened beyond this handle

\* The paths candidate_paths can name, see Candidates.
Paths == {"arch", "lib", "framework", "default", "bare"}

\* What a path leads to: nothing that opens, a library that lacks a required
\* symbol, or one that has them all.
FileKinds == {"none", "partial", "complete"}

ASSUME LoaderAssumption == MaxId \in Nat

VARIABLES
  platform,  \* [home, arch, macos]: VIMBA_X_HOME is set, arch_dir() is not empty, macOS
  files,     \* the kind of file behind each path
  pc,        \* where each thread stands
  untried,   \* the candidates it has still to try
  lib,       \* its open Library, 0 without one
  outcome,   \* what its last load returned: [kind, path]
  images,    \* the open handles of the process: handle -> path
  nextId,    \* the next handle
  owner,     \* {} or the one thread whose VmbSystem is started
  inside     \* the images SDK threads may be running in

hostVars == <<platform, files>>
loadVars == <<pc, untried, lib, outcome>>
processVars == <<images, nextId, owner, inside>>
vars == <<hostVars, loadVars, processVars>>

Goto(t, place) == pc' = [pc EXCEPT ![t] = place]

Returns(t, kind, path) == outcome' = [outcome EXCEPT ![t] = [kind |-> kind, path |-> path]]

\* The images mapped into the process.
Mapped == {images[i] : i \in DOMAIN images}

Closed(i) == [j \in DOMAIN images \ {i} |-> images[j]]

\* candidate_paths
Candidates ==
  LET given(cond, path) == IF cond THEN <<path>> ELSE <<>>
  IN given(platform.home /\ platform.arch, "arch")
     \o given(platform.home, "lib")
     \o given(platform.home /\ platform.macos, "framework")
     \o given(platform.macos, "default")
     \o <<"bare">>

-----------------------------------------------------------------------------
Init ==
  /\ platform \in [home : BOOLEAN, arch : BOOLEAN, macos : BOOLEAN]
  /\ files \in [Paths -> FileKinds]
  /\ pc = [t \in Threads |-> "idle"]
  /\ untried = [t \in Threads |-> <<>>]
  /\ lib = [t \in Threads |-> 0]
  /\ outcome = [t \in Threads |-> [kind |-> "none", path |-> "bare"]]
  /\ images = [i \in {} |-> "bare"] /\ nextId = 1
  /\ owner = {} /\ inside = {}

-----------------------------------------------------------------------------
(* Actions with one plausible slip each: they are part of no specification and *)
(* serve to show that the properties below can fail.                           *)

\* The handle counter of the process stands still.
OpensUncounted(t) ==
  /\ pc[t] = "opening" /\ untried[t] # <<>>
  /\ files[Head(untried[t])] # "none"
  /\ images' = [i \in DOMAIN images \cup {nextId} |->
                  IF i = nextId THEN Head(untried[t]) ELSE images[i]]
  /\ lib' = [lib EXCEPT ![t] = nextId]
  /\ untried' = [untried EXCEPT ![t] = <<>>]
  /\ Goto(t, "resolving")
  /\ UNCHANGED <<hostVars, outcome, nextId, owner, inside>>

\* The error of the first candidate is kept.
OpenFailsKeepsFirst(t) ==
  /\ pc[t] = "opening" /\ untried[t] # <<>>
  /\ files[Head(untried[t])] = "none"
  /\ IF untried[t] = Candidates THEN Returns(t, "LibraryOpen", Head(untried[t]))
     ELSE UNCHANGED outcome
  /\ untried' = [untried EXCEPT ![t] = Tail(@)]
  /\ Goto(t, IF Len(untried[t]) = 1 THEN "idle" ELSE "opening")
  /\ UNCHANGED <<hostVars, lib, processVars>>

\* Without Drop for VmbApi its Library would be closed.
DropCloses(t) ==
  /\ pc[t] = "live" /\ owner # {t}
  /\ images' = Closed(lib[t])
  /\ lib' = [lib EXCEPT ![t] = 0]
  /\ Goto(t, "idle")
  /\ UNCHANGED <<hostVars, untried, outcome, nextId, owner, inside>>

-----------------------------------------------------------------------------
(* VmbFfiRuntime::new, hence VmbApi::load. *)

Load(t) ==
  /\ pc[t] = "idle"
  /\ untried' = [untried EXCEPT ![t] = Candidates]
  /\ Goto(t, "opening")
  /\ UNCHANGED <<hostVars, lib, outcome, processVars>>

\* open_first: the error of this candidate replaces the last one.
OpenFails(t) ==
  /\ pc[t] = "opening" /\ untried[t] # <<>>
  /\ files[Head(untried[t])] = "none"
  /\ Returns(t, "LibraryOpen", Head(untried[t]))
  /\ untried' = [untried EXCEPT ![t] = Tail(@)]
  /\ Goto(t, IF Len(untried[t]) = 1 THEN "idle" ELSE "opening")
  /\ UNCHANGED <<hostVars, lib, processVars>>

Opens(t) ==
  /\ pc[t] = "opening" /\ untried[t] # <<>>
  /\ files[Head(untried[t])] # "none"
  /\ nextId <= MaxId
  /\ images' = [i \in DOMAIN images \cup {nextId} |->
                  IF i = nextId THEN Head(untried[t]) ELSE images[i]]
  /\ lib' = [lib EXCEPT ![t] = nextId]
  /\ nextId' = nextId + 1
  /\ untried' = [untried EXCEPT ![t] = <<>>]
  /\ Goto(t, "resolving")
  /\ UNCHANGED <<hostVars, outcome, owner, inside>>

\* from_library: every symbol is there.
Resolves(t) ==
  /\ pc[t] = "resolving"
  /\ files[images[lib[t]]] = "complete"
  /\ Returns(t, "Ok", images[lib[t]])
  /\ Goto(t, "live")
  /\ UNCHANGED <<hostVars, untried, lib, processVars>>

\* One is missing: the error leaves from_library, which drops its Library.
MissingSymbol(t) ==
  /\ pc[t] = "resolving"
  /\ files[images[lib[t]]] = "partial"
  /\ Returns(t, "SymbolResolution", images[lib[t]])
  /\ images' = Closed(lib[t])
  /\ lib' = [lib EXCEPT ![t] = 0]
  /\ Goto(t, "idle")
  /\ UNCHANGED <<hostVars, untried, nextId, owner, inside>>

-----------------------------------------------------------------------------
(* The life of the runtime. *)

\* VmbSystem::startup, which STARTED grants to one runtime of the process; the SDK
\* starts threads in its image.
StartSdk(t) ==
  /\ pc[t] = "live" /\ owner = {}
  /\ owner' = {t}
  /\ inside' = inside \cup {images[lib[t]]}
  /\ UNCHANGED <<hostVars, loadVars, images, nextId>>

\* Drop for VmbSystem: VmbShutdown, with threads still inside the image.
ShutdownSdk(t) ==
  /\ owner = {t}
  /\ owner' = {}
  /\ UNCHANGED <<hostVars, loadVars, images, nextId, inside>>

\* Drop for VmbApi, with the last clone of the runtime (AlreadyStarted drops it at
\* once): the Library is forgotten and its handle stays open.
DropRuntime(t) ==
  /\ pc[t] = "live" /\ owner # {t}
  /\ lib' = [lib EXCEPT ![t] = 0]
  /\ Goto(t, "idle")
  /\ UNCHANGED <<hostVars, untried, outcome, processVars>>

\* The threads in an image the SDK is not started from come to their end.
SdkThreadsEnd(p) ==
  /\ p \in inside
  /\ \A t \in owner : images[lib[t]] # p
  /\ inside' = inside \ {p}
  /\ UNCHANGED <<hostVars, loadVars, images, nextId, owner>>

-----------------------------------------------------------------------------
Next ==
  \/ \E t \in Threads :
       \/ Load(t) \/ OpenFails(t) \/ Opens(t) \/ Resolves(t) \/ MissingSymbol(t)
       \/ StartSdk(t) \/ ShutdownSdk(t) \/ DropRuntime(t)
  \/ \E p \in Paths : SdkThreadsEnd(p)

Spec == Init /\ [][Next]_vars

-----------------------------------------------------------------------------
(* Properties. *)

\* Every variable has its type.
TypeOK ==
  /\ platform \in [home : BOOLEAN, arch : BOOLEAN, macos : BOOLEAN]
  /\ files \in [Paths -> FileKinds]
  /\ pc \in [Threads -> {"idle", "opening", "resolving", "live"}]
  /\ untried \in [Threads -> Seq(Paths)]
  /\ lib \in [Threads -> Nat]
  /\ outcome \in [Threads -> [kind : {"none", "LibraryOpen", "SymbolResolution", "Ok"},
                              path : Paths]]
  /\ nextId \in Nat \ {0}
  /\ DOMAIN images \subseteq 1 .. nextId - 1 /\ images \in [DOMAIN images -> Paths]
  /\ owner \subseteq Threads /\ inside \subseteq Paths

\* No code of the SDK runs in an image that has been unmapped: neither a call through
\* a function pointer of a runtime nor a thread VmbShutdown left behind, whatever
\* other threads load and drop ("Unloading libVmbC while any such thread is still
\* running would segfault", api.rs).  And a library that was refused for a missing
\* symbol does not stay mapped.
MappedAsNeeded ==
  /\ inside \subseteq Mapped
  /\ \A t \in Threads : pc[t] = "live" => lib[t] \in DOMAIN images
  /\ \A i \in DOMAIN images : files[images[i]] = "partial" =>
       \E t \in Threads : pc[t] = "resolving" /\ lib[t] = i

\* What load returns follows from the platform and the files alone: LibraryOpen, of
\* the last candidate, exactly when none opens; otherwise the first candidate that
\* opens decides, and no other is tried when it lacks a symbol.
LoadReportsFirst ==
  LET cs == Candidates
      opening == {i \in DOMAIN cs : files[cs[i]] # "none"}
      first == CHOOSE i \in opening : \A j \in opening : i <= j
  IN \A t \in Threads :
       pc[t] \in {"idle", "live"} /\ outcome[t].kind # "none" =>
         outcome[t] =
           IF opening = {} THEN [kind |-> "LibraryOpen", path |-> cs[Len(cs)]]
           ELSE [kind |-> IF files[cs[first]] = "complete" THEN "Ok"
                          ELSE "SymbolResolution",
                 path |-> cs[first]]
=============================================================================
