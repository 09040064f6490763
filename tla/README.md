# A TLA+ model of vmb-rs

`vmb-rs` gives Rust programs the Vimba X camera SDK in three layers: a domain
layer (`vmb-core`) of RAII objects, a port trait (`VmbRuntime`), and two
implementations of it, the FFI adapter (`vmb-ffi`) and an in-memory fake
(`vmb-fake`). The code has little sequential difficulty. What is hard is that
the SDK calls back from its own threads with raw pointers the adapter must keep
alive, that every teardown is "best-effort", and that several Rust objects share
one process-wide SDK. These modules model that part.

## 1. Inventory

| Part | State | Operations | Talks to |
|---|---|---|---|
| `Camera` (`vmb-core/src/camera.rs`) | `handle`, `session` (closure ID, slots) | `open`, `start_capture`, `stop_capture`, `load_settings`, `Drop` | port calls, in a fixed order, with one error path |
| `VmbSystem` (`system.rs`) | an `Arc` of the runtime | `startup`, `list_cameras`, `open_camera`, `register_discovery`, `Drop` | `startup` / `shutdown` of the port |
| `DiscoveryRegistration` (`discovery.rs`) | handle, closure ID | `register_camera_discovery`, `Drop` | port calls |
| FFI adapter (`vmb-ffi/src/runtime.rs`, `state.rs`) | `STARTED`; `FfiState`: `cameras`, `frames`, `frame_callbacks`, `discovery_callbacks`, `discovery_regs`, `counter` | the 20 methods of the port | the SDK; one lock per table, shared by all clones |
| Trampolines (`trampoline.rs`) | the boxed contexts | frame callback, discovery callback | run on SDK threads; read contexts, call user closures, re-queue frames |
| Conversions (`error.rs`, `frame.rs`, `util.rs`, `trampoline.rs`) | none | `check`, `error_name`, `PixelFormat::from_raw`, `cstr_to_owned`, `read_string_feature`, `read_enum_feature` | the codes and strings of the SDK |
| Fake (`vmb-fake/src/lib.rs`) | the same tables, `Config` (rigged failures), call log | the port, `fail_nth`, `deliver_frame`, `emit_discovery` | tests |
| Loader (`vmb-sys/src/api.rs`) | the loaded library | `load`, `from_library`, `Drop` | the file system, `dlopen` |
| Bindings and stubs (`vmb-sys`) | none | the enums of the header; `VmbApi::stub`'s functions, which answer success | the adapter |
| SDK (external) | engines, announced and queued frames, listeners, raw handles | `Vmb*` calls | calls the trampolines |

**How they interact.** A `Camera` is used by one thread at a time (`&mut self`),
but cameras of different threads share `FfiState`. Closures are stored in a
registry under an ID; contexts are boxed, and the SDK holds raw pointers to them.
The SDK promises that `VmbCaptureEnd`, `VmbFrameRevokeAll` and
`VmbFeatureInvalidationUnregister` wait for callbacks in progress; all memory
safety rests on those promises and on the order of the calls.

**What makes each part correct.** A camera: no context is freed that the SDK may
use, none is leaked, only the closure of the capture under way runs, nothing runs
after `stop_capture`, a failed start unwinds completely. The system: one owner of
the SDK, which is up while it is owned and down afterwards; handles lead to the
camera they were opened for. A registration: called until dropped, never after.
The fake: the same promises as the adapter, so that tests mean something.

**What is hard to test.** See `hazards` in `PROJECT.json`: SDK threads against every
call, SDK calls that fail in the middle of a teardown, objects dropped in an
unusual order, two threads between an atomic flag and the call it guards.

## 2. Modules

| Module | Models | Proofs |
|---|---|---|
| `FrameCapture` | Cameras x FFI adapter x SDK x frame trampolines | `FrameCaptureProofs`, `FrameContractProofs` |
| `CaptureContract` | what a Camera promises, abstractly | |
| `RuntimeLifecycle` | `VmbSystem`, `STARTED`, raw camera handles | `RuntimeLifecycleProofs` |
| `Discovery` | registrations x adapter x discovery trampolines | `DiscoveryProofs` |
| `DiscoveryContract` | what a DiscoveryRegistration promises, abstractly | |
| `Queries` | what the adapter reads back: lists, strings, enum values, codes, formats | `QueriesProofs` |
| `FakeRuntime` | Cameras x fake x `deliver_frame` | `FakeRuntimeProofs` |
| `FakeSystem` | systems and registrations x fake x `emit_discovery` | `FakeSystemProofs` |
| `Loader` | `VmbApi`: search, symbols, how long the library stays mapped | `LoaderProofs` |

Two contracts stand between the domain and its two runtimes: `FrameCapture` and
`FakeRuntime` implement `CaptureContract`, `Discovery` and `FakeSystem` implement
`DiscoveryContract`. A test over the fake says something about the adapter only as
far as both keep the same contract.

Each `MC*` module gives the constants of its module small values. Every module has
a section of actions "with one plausible slip": they are part of no specification
and serve as the mutants `PROJECT.json` lists, which show that each property is
able to fail.

### FrameCapture

A camera's `pc` names the next port call its thread makes. One port call is one
action: each takes its lock once (two short critical sections at most, on tables
whose entries belong to this camera only), so nothing another thread does can be
told apart inside. `VmbCaptureEnd` is split in call and return because deliveries
and callbacks go on in between. The `?` operators of `start_capture` are the
`...Fails` actions, which all join the same teardown as `stop_capture`
(`AbortCapture`), starting after `AcquisitionStop`. A trampoline is a frame that
moves through `entered`, `invoking`, `requeueing`.

Contexts, SDK frames and slots have one name, the slot ID. `frames` maps a slot to
the closure its context holds. A trampoline that reads a freed context gets any
closure (`ReadCallback`), which is what undefined behaviour means for the
properties. `load_settings`, payload sizes, pixel data and timestamps are left out.

The external SDK: a frame may be delivered while the camera is capturing,
acquiring and the frame is queued; `VmbFrameRevokeAll` also waits for the camera's
callbacks (the comment at `trampoline.rs:143`); a call may fail when `Faults` names
it.

### RuntimeLifecycle

Threads that start and drop systems; the compare-exchange, `VmbStartup`, the
store back, the swap and `VmbShutdown` are steps of their own. Camera objects may
outlive their system, as in the code. The SDK gives any raw handle not in use,
so one may come back after a shutdown. `VmbStartup` on an SDK that is up may
succeed or fail, as the SDK documentation is not part of the repository. Whether the
program orders startups after drops (`ordered`) and drops cameras before their system
(`nested`) is chosen in `Init`.

### Discovery and DiscoveryContract

A registration walks through install, register, insert, and on drop through
remove, unregister, reclaim, uninstall. The unregister call carries no context
pointer, so the SDK picks any non-empty set of the listeners it has under that key.
The trampoline's two feature reads are separate steps, and events surface between them:
nothing in the code or its comments says that the SDK holds one back while a callback
reads. The auxiliary `events` remembers, for each event still being handled, what the
features have described since. `Init` chooses whether the
program has one registration at a time (`single`) and whether the unregister call
always finds what it is to stop (`reliable`); `Exact` is both.

The contract has two variables, where a registration stands and what its handler is
being told. In the refinement a registration is "dropping" through the whole of
`Drop`, and `running` is what the trampolines with both features read hand to the
handler; that a drop returns with no handler running is what `ContractSpec` adds to
`ContextsLive`.

### Queries

`list_cameras` is two calls with cameras coming and going between them. The first gives
`count`; for the second the buffer of `count` zeroed entries (`Entries`) is written by
the SDK in any order and as far as there is room (`CamerasList`), cut to the number
reported (`Truncated`) and copied entry by entry (`AllOwned`), an entry nobody wrote
becoming `"<unknown>"`. Every other query is one call. `open_camera` stores the raw
handle it has read, or the null a stub leaves, under a fresh handle of the adapter's
own, and answers that. An answer says which query, which value and which code. Bytes are three
kinds (an ASCII byte and the two bytes of a longer character) and NUL, which is all
that `from_utf8` and the cut to the buffer tell apart; the buffer of 256 bytes is
`BufSize`. `api` says whether the function pointers are the library's or the stubs',
which write no out-parameter. The error and format numbers are those of the source,
three of the formats standing for the list.

### FakeRuntime and FakeSystem

`FakeRuntime` runs the Camera code against the tables of the fake, with failures
rigged at any call of the five methods `start_capture` uses; `deliver_frame` is three steps because it takes two locks and
then runs user code. Whether the test delivers from the thread of its Camera or from
another is chosen in `Init` (`concurrent`). `QueueByHand` is a test's own call of
`queue_frame`, part of `HandSpec` only.

`FakeSystem` is the rest of the fake: systems that share it by cloning,
registrations, and `emit_discovery`, which copies the installed closures and then
calls them without a lock. A handler may panic, which unwinds through it. A failing
startup or registration is a choice, as `FakeRuntime` has how failures are rigged.
`quiet` is a test that leaves its registrations alone while it emits.

### Loader

Each thread tries the candidates one `dlopen` at a time; a `Library` is a
handle, which `from_library` closes when a symbol is missing and `Drop for VmbApi`
keeps on purpose. The platform and the files are chosen in `Init`. `candidate_paths`
also names `/Library/Frameworks` on macOS, which the doc comment of `load` leaves
out; the module follows the code. `vmb::real()` is `Load` and `StartSdk` in turn.

## 3. Runs

| Run | Question | Answer |
|---|---|---|
| `capture_serial` | two cameras in turn: reported failures, panics, `VmbCaptureEnd` and flush failing unnoticed | contexts, registry and teardown are right, and `CaptureContract` is implemented |
| `capture_overlap` | two cameras at once, any failure | registry, leaks and buffer exclusion hold |
| `capture_live` | one camera, two buffers: do calls return, do buffers survive, does `VmbCaptureEnd` end the callbacks | yes, under fairness |
| `capture_overlap_context` | are contexts alive with two captures | **no** (finding) |
| `lifecycle` | three threads and two cameras in any order | flag, SDK pairing and handle table hold; SDK up and handles right in the orders that allow it; a drop brings the SDK down, under fairness |
| `discovery` | two registrations, any failure | tables exact and nothing leaked; a handler is told nothing that no event has named since; contexts live, no late event and `DiscoveryContract` where the unregister call can be exact; register and drop return |
| `fake` | two cameras, failures at any call, deliveries from either thread | tables exact, running captures deliverable, `CaptureContract` kept |
| `fake_fail_next` | does `fail_next` fail the next call | **no** (finding) |
| `fake_queue_early` | does the fake refuse `queue_frame` outside a capture | **no** (finding) |
| `fake_system` | two systems, registrations and emitters on one fake | flag and tables exact, emissions reach who stays, `DiscoveryContract` kept |
| `queries` | what comes back from the SDK or the stubs | lists are snapshots, strings and codes are the SDK's, the zeroes the stubs leave are not taken for data; the comment of `error_name` is **wrong** (finding) |
| `loader` | any platform, any files, two threads | `load` reports what the search order gives; code stays mapped |

Assumptions are of two kinds, and the code enforces none of them. Constants: `Serial`
(captures do not overlap) and the `Faults`. Choices of `Init`, so that one run has the behaviours with
and without, and a property that needs one says so: `ordered`, `nested`, `single`,
`reliable`, `quiet`, `concurrent`. What does not hold without, as TLC shows in a few
steps when a constant or the hypothesis of a property is changed:

* `ContextsAlive` with `Serial = FALSE` (the run `capture_overlap_context`), and with
  `"revoke"` in `Faults`: `frame_revoke_all` frees the contexts whatever
  `VmbFrameRevokeAll` answered (`runtime.rs:327`);
* `LiveMeansUp` without `ordered`: `shutdown` clears `STARTED` before it calls
  `VmbShutdown`, so that it may take another thread's new system down
  (`runtime.rs:99`);
* `HandlesReachOwnCamera` without `nested`: a `Camera` dropped after its `VmbSystem`
  closes a raw handle the SDK may have given away since (`runtime.rs:183`);
* `ContextsLive` without `reliable`: the context is freed though the SDK still calls
  it (`runtime.rs:421`);
* `LiveIsListening` without `single`: the unregister call does not say which
  registration it means (`runtime.rs:410`);
* `EventsReal` with `c.seen \in events[c.no]` in its place, that camera and type are of
  one event: the code reads them by two calls (`trampoline.rs:229`, `236`), and with an
  event in between a handler is told of one that never occurred. What the property
  says is what is left: each of the two was named by the event the trampoline was
  called for or by a later one, and a type that is not known is not guessed;
* `ContractSpec` of the fake with `calls <- invoking` when `concurrent` too:
  `deliver_frame` may invoke the closure of a capture that has ended
  (`vmb-fake/src/lib.rs:331`);
* `ContractSpec` of `FakeSystem` without `quiet`: `emit_discovery` may call the handler
  of a registration that has been dropped (`vmb-fake/src/lib.rs:313`).

Of the four findings, three are violated runs. The fourth is a comment: `error.rs:85`
promises `"VmbErrorUnknown"` for a code the wrapper does not know, where the code gives
`"VmbErrorUnrecognized"`, as its tests (`error.rs:168`, `227`) want. `CodesDecoded` says
what is sensible, that such a code gets none of the header's names, and
`VmbErrorUnknown` is the header's name of -28; that it holds for three unknown codes
contradicts the comment.

Some hazards the code is simply exposed to, and no property promises otherwise: a
closure that stops its own capture and a handler that drops its own registration wait
for themselves, and a closure that panics or a failed re-queue costs the capture a
buffer. The notes of `hazards` say which part of each a property covers.

**Bounds.** `MaxId` bounds opens and captures (IDs are never reused, so behaviours do
not depend on their value): in each run it leaves room for two captures or
registrations, or an open, a capture, a drop and a second round, which
is where leftovers would show (in `fake` the two captures are of one camera or of
two; a registration takes two IDs, so `MaxId = 3` in `discovery` and `4` in
`fake_system` let a second one begin while or after the first lives). `discovery` has two
events that share neither camera nor type, one of a type that is not known, and
`MaxCalls = 2` trampolines in progress: two of one event, or one of each of two, which
is what a pair read of two events takes. One buffer per
camera is enough for contexts and
ordering; `capture_live` has two so that one may be delivered while another is
queued. Two cameras are enough for sharing (a step involves a camera and at most
one other); three threads in `RuntimeLifecycle` let a claim, a rejection and a drop
overlap. `queries` has a buffer of 3 and texts of up to 4 bytes, which are shorter
than the buffer, of its length and longer, with a character cut by its end or not,
and every code of the header besides three it lacks; one camera is opened
(`MaxHandle = 1`), which is what the other calls need. In `FakeRuntime`, `MaxCalls` bounds
the calls counted per method and `MaxRigged` the failures pending. Where a bound or the
program may end a behaviour the run does not check deadlock; that calls cannot hang is
what the liveness properties say. Symmetry is used only in runs without liveness.

**Fairness.** Threads inside a call and trampolines are weakly fair: they are OS
threads, locks are held for bounded sections, and closures are required to be fast
(`camera.rs`). Nothing obliges a program to call, or the SDK to deliver. Handlers
that stop their own capture or drop their own registration wait for themselves;
the fairness on trampolines excludes them.

## 4. Proofs

TLC checks small instances; the theorems hold for every value of the constants.

* `FrameCaptureProofs`. `TypeCorrect`. `RegistryTheorem` needs nothing but distinct
  IDs below the counter. `CleanTheorem` (nothing left between captures) needs, per
  camera, what its `pc` says of the SDK: before the revoke frames may be announced,
  after it none. It uses no assumption on other cameras. `ContextTheorem` and
  `DispatchTheorem` assume `Serial` and no failing revoke; the invariant adds that
  only one camera is in a capture, that all frames of the SDK are its own slots,
  and that a queued slot's context holds its closure. The property alone is not
  inductive: nothing in it says whose contexts a revoke clears.
* `FrameContractProofs`. `LeakTheorem` and `ExclusiveTheorem` hold for every fault
  and any overlap. The first is inductive as it stands; the second needs that the
  slots still to be announced or queued are not at the SDK (`SlotInv`), which fresh
  IDs give even after a revoke that failed, and that a slot is in one invocation.
  `RevokeTheorem` assumes that end and flush succeed, `LateTheorem` end and revoke:
  without a working end a callback may run on into the flush, and a frame left by a
  failed revoke would be delivered before the next capture has queued any.
  `SessionTheorem` follows the stages of `start_capture` (`Staged`), whose contexts
  stay put because no other camera is in a capture. `ContractTheorem` is the
  refinement of `CaptureContract`, one step per action: a new invocation is of the
  camera's own closure by `ContextInv` and of a free buffer by `BufferExclusive`, and
  a teardown ends with none by `QuietInv`.

  Five more say what runs with small instances can only suggest.
  `ForeignTheorem` and `LiveTheorem` drop `Serial`: with captures that overlap, a
  context is lost to another camera's `frame_revoke_all` and to nothing else, and a
  trampoline that still finds its context runs its own capture's closure; they bound
  the finding of `capture_overlap_context` from the other side. Each step touches one
  camera (`AppStepLocal`, `SdkStepLocal`), and slots of two cameras are disjoint
  (`OwnInv`). `StartTheorem` follows from the stages: when the SDK answers
  the four calls of `start_capture` with success, it succeeds. It needs `Serial`:
  elsewhere a context it has announced may be gone when its frame is queued.
  `BoundedTheorem` and `DrainTheorem`, without assumption, are what is left of
  `CallsReturn` without fairness: a rank of the calls still to make, lowered by each
  step of the call and moved by no other, and a count of the steps
  `VmbCaptureEnd` waits for, to which nothing is added while it waits. They need that
  slots and frames are finite sets that the loops of `start_capture` shrink
  (`LoopInv`, `FiniteInv`).
* `FakeRuntimeProofs`. `TablesTheorem` by three invariants: on closures (distinct
  IDs), on slots (the announced ones are the camera's own) and on the queue loop
  (`active` and `pending` together are the slots, in order). `ContractTheorem` adds
  that, in a test with one thread, a frame picked is of a running camera.
  `QueuedTheorem`: the `Camera` never leads the fake into the state of the finding
  `fake_queue_early`, which a test reaches by hand. `FindsTheorem` is what `deliver_frame`
  keeps in both settings: between its two locks the capture may be stopped and another
  started, but since closures are never numbered twice (`PickedInv`) the one it finds
  then is that of the slot it copied, or none. That it may still run after the stop is
  listed in section 3.
* `RuntimeLifecycleProofs`. `FlagTheorem` without assumption: only the owner steps
  that touch the flag exist. `LiveTheorem` by the invariant that, when the program is
  `ordered`, a thread about to call `VmbShutdown` is alone. `HandleTheorem` adds that
  the system of an open camera is live. `OrphanTheorem` follows from the steps that
  bring the SDK up; `HandleLeakTheorem` and `TypeCorrect` need the handle table, with
  one entry per open camera, since `CloseTake` applies it.
* `DiscoveryProofs`. `RegistriesTheorem` without assumption, from distinct IDs.
  `ContextTheorem` and `ListeningTheorem` by the invariant that, in the exact setting,
  the SDK listens to the one context there is and calls no other. `EventsTheorem`,
  without assumption, by the invariant that what the features describe is among the
  `events` of every trampoline in progress, and so is what it has read already. `ContractTheorem` is the refinement of `DiscoveryContract`, one step per
  action; a drop returns without a running handler because the contexts still called
  belong to a registration that has not reclaimed its own.
  `SilentTheorem` and `DrainTheorem` hold in every setting, the inexact ones too: the
  contexts an unregister call has stopped are not called again while it waits, so that
  it waits for a bounded number of steps, nor ever after. The invariant (`DrainInv`) is
  that no registration is about to hand the SDK a context it already calls or is
  stopping.
* `FakeSystemProofs`. `TablesTheorem` from distinct IDs and the flag's one owner.
  `ReachTheorem` needs that every closure installed before an emission has a lower
  number than the emission's mark. `ContractTheorem` is the same refinement for the
  fake, in the tests where calls and emissions exclude each other.
* `QueriesProofs`. `StringTheorem` by lemmas on where the string ends and what the
  buffer holds before that; it holds for every buffer length, 256 included.
  `ListTheorem` by a lemma on the buffer (`BufferRead`): what is left of it after
  truncation is the injection the SDK has written, whatever number it reports.
  `CodesTheorem` and `StubsTheorem` go through the queries one by one, the first by lemmas
  that `error_name` and `from_raw` undo the tables of the header, the second by what the
  early return, the saturating subtraction and the check for null make of zeroes.
* `LoaderProofs`. `MappedTheorem` without assumption: libraries the SDK ran in are
  complete, and only a handle of an incomplete library is ever closed.
  `ReportTheorem` by the invariant that every candidate a thread has passed did not
  open.

Every invariant and safety property a passing run checks is stated by a theorem. Only
model-checked is what needs fairness, which the prover does not have: `CallsReturn` of
`FrameCapture` and of `Discovery`, `KeepsDelivering` and `DropReleasesSdk`. For both
`CallsReturn`, what a proof can say short of fairness is in the theorems on ranks and
draining above. The violated properties of the first three findings stay with TLC's
counterexamples.

## 5. Not modelled, and the plan

Not modelled: the structures and function types of the bindings, the fake's call log
and its knobs that set or read one value (`pre_open_camera`, `handle_for`,
`set_camera_list`, `set_payload_size`), payload sizes, pixel data and timestamps, build
and release scripts. They keep no state that interleaves with anything. Strings of
the camera list are taken to live until they are copied (`runtime.rs:141`), as the
repository does not say how long the SDK keeps them.

Order of work, the most important first:

1. done: `FrameCapture` and its contract, with proofs;
2. done: `RuntimeLifecycle`, `Discovery`, with proofs; `FakeRuntime`, `Loader`;
3. done: `Queries`, with proofs;
4. done: `FakeSystem`, and the two contracts, each proved to be implemented by both
   runtimes;
5. done: the safety half of the liveness properties, and what still holds where
   captures overlap, an unregister call is inexact or a test delivers from another
   thread;
6. open: theorems about the two contracts alone, which then hold of both runtimes;
7. open: a composition of lifecycle and capture, in which the SDK shuts down under a
   running capture; what the SDK then does with handles and queued frames is said
   nowhere in the repository.
