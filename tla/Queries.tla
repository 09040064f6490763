------------------------------- MODULE Queries -------------------------------
(***************************************************************************)
(* What the FFI adapter reads back from the SDK: list_cameras and the      *)
(* other calls with an answer (runtime.rs), the strings, enum values and   *)
(* frames the trampolines read (trampoline.rs, util.rs, frame.rs), and the *)
(* error codes of all of them (error.rs, bindings.rs).                     *)
(*                                                                         *)
(* The SDK is external.  list_cameras asks for the number of cameras and   *)
(* then for that many entries, while cameras are plugged in and out; when  *)
(* there are more by then, the second call fails or writes what there is   *)
(* room for.  The function pointers are those of the library, or the stubs *)
(* of VmbApi::stub (api.rs, stubs.rs), which answer success and write      *)
(* nothing.                                                                *)
(*                                                                         *)
(* Bytes are abstract: an ASCII byte, the two bytes of a longer character, *)
(* and NUL.  An optional value is a set of at most one.                    *)
(***************************************************************************)
EXTENDS Integers, Sequences, FiniteSets, Functions

CONSTANTS
  CameraIds,  \* the cameras that may be connected
  Zeroed,     \* a buffer entry the SDK has not written
  Texts,      \* the values a string feature may have
  BufSize,    \* the length of read_string_feature's buffer
  Codes,      \* the error codes a failing call answers
  MaxHandle   \* bound: no camera is opened under a handle beyond this

Bytes == {"a", "lead", "cont"}
NUL == "NUL"

ASSUME QueriesAssumption ==
  /\ IsFiniteSet(CameraIds)
  /\ Zeroed \notin CameraIds
  /\ Texts \subseteq Seq(Bytes)
  /\ BufSize \in Nat \ {0}
  /\ Codes \subseteq Int \ {0}
  /\ MaxHandle \in Nat

VARIABLES
  api,         \* "library" or "stub"
  unreadable,  \* the cameras whose strings are null or not UTF-8
  pc,          \* of list_cameras: "idle", "count" or "fill", the call that comes next
  present,     \* the cameras the SDK sees
  count,       \* the local count
  counter,     \* FfiState.counter
  cameras,     \* FfiState.cameras: handle -> the raw handle, or null
  result       \* what the last call that returned has answered

host == <<api, unreadable>>
listVars == <<pc, present, count>>
ffiVars == <<counter, cameras>>
vars == <<host, listVars, ffiVars, result>>

-----------------------------------------------------------------------------
(* Error codes. *)

\* The names of the codes 0, -1, ... in error_name, without their prefix.
NamesInError ==
  <<"Success", "InternalFault", "ApiNotStarted", "NotFound", "BadHandle", "DeviceNotOpen",
    "InvalidAccess", "BadParameter", "StructSize", "MoreData", "WrongType", "InvalidValue",
    "Timeout", "Other", "Resources", "InvalidCall", "NoTL", "NotImplemented", "NotSupported",
    "Incomplete", "IO", "ValidValueSetNotPresent", "GenTLUnspecified", "Unspecified", "Busy",
    "NoData", "ParsingChunkData", "InUse", "Unknown", "Xml", "NotAvailable", "NotInitialized",
    "InvalidAddress", "Already", "NoChunkData", "UserCallbackException", "FeaturesUnavailable",
    "TLNotFound", "Unrecognized", "Ambiguous", "RetriesExceeded", "InsufficientBufferCount">>

\* The slip of error_name: the arm of -41 is forgotten.
error_name_short(code) ==
  IF code = 1 THEN "Custom"
  ELSE IF -code \in 0 .. Len(NamesInError) - 2 THEN NamesInError[1 - code] ELSE "Unrecognized"

error_name(code) ==
  IF code = 1 THEN "Custom"
  ELSE IF -code \in 0 .. Len(NamesInError) - 1 THEN NamesInError[1 - code] ELSE "Unrecognized"

\* The enum the SDK's header declares: name -> code.
VmbErrorType ==
  [Success |-> 0, InternalFault |-> -1, ApiNotStarted |-> -2, NotFound |-> -3, BadHandle |-> -4,
   DeviceNotOpen |-> -5, InvalidAccess |-> -6, BadParameter |-> -7, StructSize |-> -8,
   MoreData |-> -9, WrongType |-> -10, InvalidValue |-> -11, Timeout |-> -12, Other |-> -13,
   Resources |-> -14, InvalidCall |-> -15, NoTL |-> -16, NotImplemented |-> -17,
   NotSupported |-> -18, Incomplete |-> -19, IO |-> -20, ValidValueSetNotPresent |-> -21,
   GenTLUnspecified |-> -22, Unspecified |-> -23, Busy |-> -24, NoData |-> -25,
   ParsingChunkData |-> -26, InUse |-> -27, Unknown |-> -28, Xml |-> -29, NotAvailable |-> -30,
   NotInitialized |-> -31, InvalidAddress |-> -32, Already |-> -33, NoChunkData |-> -34,
   UserCallbackException |-> -35, FeaturesUnavailable |-> -36, TLNotFound |-> -37,
   Ambiguous |-> -39, RetriesExceeded |-> -40, InsufficientBufferCount |-> -41, Custom |-> 1]

\* What a call returns.
Answer(query, value, code, error) ==
  [query |-> query, value |-> value, code |-> code, error |-> error]
Ok(query, value) == Answer(query, {value}, 0, "none")
None(query) == Answer(query, {}, 0, "none")
InvalidString(query) == Answer(query, {}, 0, "InvalidString")

\* check, for a code that is not 0.
Sdk(query, code) == Answer(query, {}, code, error_name(code))

\* A call that asks once; list_cameras is not under way.
Returns(answer) ==
  /\ pc = "idle"
  /\ result' = answer
  /\ UNCHANGED <<host, listVars, ffiVars>>

\* What an out-parameter holds after a call that succeeded: what the library writes, or
\* what it was initialised with if the call was a stub's.
Out(initial, written) == IF api = "stub" THEN initial ELSE written

-----------------------------------------------------------------------------
(* Strings. *)

\* std::str::from_utf8 accepts them.
Utf8(s) ==
  \A i \in DOMAIN s :
    /\ s[i] = "lead" => i + 1 \in DOMAIN s /\ s[i + 1] = "cont"
    /\ s[i] = "cont" => i - 1 \in DOMAIN s /\ s[i - 1] = "lead"

SaturatingSub(a, b) == IF a >= b THEN a - b ELSE 0
AtMost(a, b) == IF a <= b THEN a ELSE b

\* The slip of End: the NUL is kept.
EndWithNul(filled) == AtMost(filled, BufSize)

\* Where the string ends in the buffer, from the length reported.
End(filled) == AtMost(SaturatingSub(filled, 1), BufSize - 1)

\* The zeroed buffer once the first n bytes of s are written to it.
Buffer(s, n) == [i \in 1 .. BufSize |-> IF i <= n THEN s[i] ELSE NUL]

ReadBack(buf, filled) ==
  LET s == SubSeq(buf, 1, End(filled)) IN IF Utf8(s) THEN {s} ELSE {}

\* What VmbFeatureStringGet may write and report when it succeeds: the text and its
\* length with the NUL; a text that is too long is cut, with or without a NUL.
Gotten(s) ==
  IF Len(s) < BufSize
  THEN {[written |-> Len(s), filled |-> Len(s) + 1]}
  ELSE [written : {BufSize - 1, BufSize}, filled : {BufSize, Len(s) + 1}]

-----------------------------------------------------------------------------
(* The list of cameras. *)

\* What VmbCamerasList may write and report when it succeeds on a buffer of n entries:
\* the cameras present in any order, as many as there is room for.
CamerasList(n) ==
  LET there == Cardinality(present)
  IN  [written : Injection(1 .. AtMost(n, there), present),
       found : IF there <= n THEN {there} ELSE {n, there}]

\* The zeroed entries once those are written to them.
Entries(n, written) == [i \in 1 .. n |-> IF i \in DOMAIN written THEN written[i] ELSE Zeroed]

\* Vec::truncate.
Truncated(buf, n) == SubSeq(buf, 1, AtMost(n, Len(buf)))

\* cstr_to_owned, for an entry of the list, and for all of them.
Owned(e) == IF e \in unreadable \cup {Zeroed} THEN "<unknown>" ELSE e
AllOwned(buf) == [i \in DOMAIN buf |-> Owned(buf[i])]

-----------------------------------------------------------------------------
(* Frames. *)

\* A PFNC code: one byte for the kind of pixel, one for its bits, two for the format.
Pfnc(kind, bits, format) == kind * 2^24 + bits * 2^16 + format

\* PixelFormat::from_raw.
from_raw(raw) ==
  CASE raw = Pfnc(1, 8, 1) -> "Mono8" [] raw = Pfnc(2, 24, 21) -> "Bgr8" [] OTHER -> "Other"

\* Of VmbPixelFormatType, with one format the wrapper passes through.
VmbPixelFormatType == [Mono8 |-> 17301505, Bgr8 |-> 35127317, Rgb8 |-> 35127316]

\* The bytes a closure is shown: none when the buffer is null.
FrameData(null, size) == IF null THEN 0 ELSE size

-----------------------------------------------------------------------------
(* The actions with one plausible slip each, see the properties below. *)

\* The buffer is not cut to the number found.
FillUntruncated ==
  /\ pc = "fill" /\ api = "library"
  /\ \E got \in CamerasList(count) :
       result' = Ok("list", AllOwned(Entries(count, got.written)))
  /\ pc' = "idle" /\ count' = 0
  /\ UNCHANGED <<host, present, ffiVars>>

\* An enum value is not checked for null.
ReadKindUnchecked ==
  \E kind \in Out({"null"}, {"known", "null", "garbled"}) : Returns(Ok("kind", kind))

-----------------------------------------------------------------------------
Init ==
  /\ api \in {"library", "stub"}
  /\ unreadable \in SUBSET CameraIds
  /\ pc = "idle" /\ count = 0
  /\ present \in SUBSET CameraIds
  /\ counter = 1 /\ cameras = [h \in {} |-> "null"]
  /\ result = None("nothing")

\* A camera is plugged in or out.
Plug(c) ==
  /\ present' = (present \cup {c}) \ (present \cap {c})
  /\ UNCHANGED <<host, pc, count, ffiVars, result>>

-----------------------------------------------------------------------------
(* list_cameras. *)

ListCameras ==
  /\ pc = "idle"
  /\ pc' = "count"
  /\ UNCHANGED <<host, present, count, ffiVars, result>>

\* The size query; with no camera, or a stub that leaves count alone, the list is
\* empty and nothing more is asked.
Count ==
  /\ pc = "count"
  /\ count' = Out(0, Cardinality(present))
  /\ IF count' = 0
     THEN pc' = "idle" /\ result' = Ok("list", <<>>)
     ELSE pc' = "fill" /\ UNCHANGED result
  /\ UNCHANGED <<host, present, ffiVars>>

\* The buffer of count entries is filled, cut to the number found, and its strings
\* copied.
Fill ==
  /\ pc = "fill" /\ api = "library"
  /\ \E got \in CamerasList(count) :
       result' = Ok("list", AllOwned(Truncated(Entries(count, got.written), got.found)))
  /\ pc' = "idle" /\ count' = 0
  /\ UNCHANGED <<host, present, ffiVars>>

\* Either call fails, the second with VmbErrorMoreData too when a camera came since
\* the first; the query is not repeated.
ListFails ==
  /\ pc \in {"count", "fill"} /\ api = "library"
  /\ \E code \in Codes \cup (IF pc = "fill" /\ Cardinality(present) > count THEN {-9} ELSE {}) :
       result' = Sdk("list", code)
  /\ pc' = "idle" /\ count' = 0
  /\ UNCHANGED <<host, present, ffiVars>>

-----------------------------------------------------------------------------
(* The calls that ask once. *)

\* A handle the adapter does not know, or a string with a NUL inside, is turned away
\* before the SDK is called.
TurnedAway(query) == Returns(InvalidString(query))

\* All but open_camera ask about an open camera.
Resolves(query) == query = "open" \/ DOMAIN cameras # {}

Fails(query) ==
  /\ api = "library" /\ Resolves(query)
  /\ \E code \in Codes : Returns(Sdk(query, code))

\* The SDK writes the size over the 0 that is there.
payload_size == Resolves("payload") /\ Returns(Ok("payload", Out(0, "size")))

\* The SDK writes a raw handle over the null that is there, or does not: whichever it
\* is, it is stored under a fresh handle of the adapter's own, which is answered.
open_camera ==
  /\ pc = "idle" /\ counter <= MaxHandle
  /\ cameras' = [h \in DOMAIN cameras \cup {counter} |->
                   IF h = counter THEN Out("null", "raw") ELSE cameras[h]]
  /\ counter' = counter + 1
  /\ result' = Ok("open", counter)
  /\ UNCHANGED <<host, listVars>>

close_camera(h) ==
  /\ pc = "idle"
  /\ cameras' = [g \in DOMAIN cameras \ {h} |-> cameras[g]]
  /\ UNCHANGED <<host, listVars, counter, result>>

\* load_settings and run_feature_command.
Command(query) == Resolves(query) /\ Returns(Ok(query, "done"))

\* read_string_feature; the stub leaves the buffer and its length at zero.
ReadText(s) ==
  \E g \in Out({[written |-> 0, filled |-> 0]}, Gotten(s)) :
    Returns(Ok("text", <<s, ReadBack(Buffer(s, g.written), g.filled)>>))

\* read_enum_feature: a null pointer is no value, one to text that is not UTF-8 an
\* empty value.
ReadKind ==
  \E kind \in Out({"null"}, {"known", "null", "garbled"}) :
    Returns(CASE kind = "null" -> None("kind")
              [] kind = "garbled" -> Ok("kind", "")
              [] OTHER -> Ok("kind", kind))

\* A read of either kind fails; the code is not passed on.
ReadFails(query) == api = "library" /\ Returns(None(query))

\* frame_callback_trampoline decodes a complete frame.
DecodeFrame ==
  \E format \in DOMAIN VmbPixelFormatType, null \in BOOLEAN, size \in {0, 1} :
    Returns(Ok("frame", <<format, from_raw(VmbPixelFormatType[format]), FrameData(null, size)>>))

-----------------------------------------------------------------------------
Handled == {"payload", "open", "settings", "command"}

Next ==
  \/ ListCameras \/ Count \/ Fill \/ ListFails
  \/ \E c \in CameraIds : Plug(c)
  \/ \E query \in Handled : TurnedAway(query) \/ Fails(query)
  \/ payload_size \/ open_camera
  \/ \E h \in DOMAIN cameras : close_camera(h)
  \/ \E query \in {"settings", "command"} : Command(query)
  \/ \E s \in Texts : ReadText(s)
  \/ \E query \in {"text", "kind"} : ReadFails(query)
  \/ ReadKind \/ DecodeFrame

Spec == Init /\ [][Next]_vars

-----------------------------------------------------------------------------
(* Properties. *)

\* A list is a snapshot: when list_cameras returns Ok its entries are cameras connected
\* at one moment of the call, its last SDK call, however they come and go between the
\* two: each camera once, those that can be named under their own name, all of them or
\* as many as were counted, and no entry the SDK has not written.
ListIsSnapshot ==
  [][ pc # "idle" /\ pc' = "idle" /\ api = "library" =>
        \A list \in result'.value :
          /\ Len(list) = AtMost(count, Cardinality(present))
          /\ \E entry \in Injection(DOMAIN list, present) :
               \A i \in DOMAIN list : entry[i] \notin unreadable => list[i] = entry[i] ]_vars

\* A string feature is read as it is when it fits, else as a prefix of it, and never
\* with what is left of the buffer; it is dropped only when it is not UTF-8, in
\* itself or for being cut.
StringsReadBack ==
  result.query = "text" /\ api = "library" =>
    \A v \in result.value :
      /\ \A t \in v[2] :
           /\ Utf8(t)
           /\ Len(t) <= Len(v[1]) /\ t = SubSeq(v[1], 1, Len(t))
           /\ Len(v[1]) < BufSize => t = v[1]
      /\ v[2] = {} => ~Utf8(v[1]) \/ Len(v[1]) >= BufSize

\* What the wrapper knows of the SDK's numbers is what the SDK's header says: an error
\* is reported under the name of its code, a code the header lacks under none of its
\* names, and a frame's format as the one its raw value stands for.  The comment of
\* error_name promises "VmbErrorUnknown" for a code the wrapper does not know, which is
\* the header's name of -28; that never happens, and the tests of error.rs want
\* "VmbErrorUnrecognized".
CodesDecoded ==
  /\ result.code # 0 =>
       LET names == {name \in DOMAIN VmbErrorType : VmbErrorType[name] = result.code}
       IN  IF names = {} THEN result.error \notin DOMAIN VmbErrorType ELSE result.error \in names
  /\ result.query = "frame" =>
       \A v \in result.value : v[2] = IF v[1] \in {"Mono8", "Bgr8"} THEN v[1] ELSE "Other"

\* "Callers that read output-only arguments will observe the pre-initialised contents"
\* (api.rs, VmbApi::stub): what the wrapper makes of those is an empty list, an empty
\* text and no enum value, by an early return, a saturating length and a check for null.
\* (open_camera makes a handle like any other of the null it reads.)
StubsAnswerEmpty ==
  api = "stub" =>
    \A v \in result.value :
      CASE result.query = "list" -> v = <<>>
        [] result.query = "text" -> v[2] = {<<>>}
        [] OTHER -> result.query # "kind"
=============================================================================
