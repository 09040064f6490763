---------------------------- MODULE QueriesProofs ----------------------------
(***************************************************************************)
(* Theorems about Queries, for any cameras, texts, buffer length and error *)
(* codes.                                                                  *)
(***************************************************************************)
EXTENDS Queries, FiniteSetTheorems, SequenceTheorems, TLAPS

-----------------------------------------------------------------------------
(* Strings. *)

\* Whatever length the SDK reports, the end stays inside the buffer, with room for a
\* NUL; the length reported for a text that fits ends it where the text does.
LEMMA EndBound ==
  ASSUME NEW filled \in Nat
  PROVE  /\ End(filled) \in 0 .. BufSize - 1
         /\ filled \in 1 .. BufSize => End(filled) = filled - 1
         /\ filled > BufSize => End(filled) = BufSize - 1
BY QueriesAssumption DEF End, AtMost, SaturatingSub

\* Reading back a text that was written at least up to its end gives its beginning,
\* if that is UTF-8.
LEMMA ReadBackPrefix ==
  ASSUME NEW s \in Seq(Bytes), NEW n \in 0 .. Len(s), NEW filled \in Nat, End(filled) <= n
  PROVE  LET t == SubSeq(s, 1, End(filled))
         IN  ReadBack(Buffer(s, n), filled) = IF Utf8(t) THEN {t} ELSE {}
<1> DEFINE e == End(filled)
           t == SubSeq(s, 1, e)
           u == SubSeq(Buffer(s, n), 1, e)
<1>0. BufSize \in Nat /\ e \in 0 .. BufSize - 1 /\ Len(s) \in Nat /\ e <= n
  BY EndBound, QueriesAssumption
<1>1. e \in Nat /\ e <= Len(s) /\ e <= BufSize /\ e <= n /\ n \in Nat
  BY <1>0
<1>2. t = [i \in 1 .. e |-> s[i]]
  BY <1>1
<1>3. u = [i \in 1 .. e |-> Buffer(s, n)[i]]
  BY <1>1
<1>4. \A i \in 1 .. e : Buffer(s, n)[i] = s[i]
  BY <1>0, <1>1 DEF Buffer
<1>5. t = u
  BY <1>2, <1>3, <1>4
<1> QED
  BY <1>5 DEF ReadBack

\* What read_string_feature answers for a text of the library.
LEMMA TextRead ==
  ASSUME NEW s \in Seq(Bytes), NEW g \in Gotten(s),
         NEW a, a = ReadBack(Buffer(s, g.written), g.filled)
  PROVE  /\ \A t \in a : /\ Utf8(t)
                         /\ Len(t) <= Len(s) /\ t = SubSeq(s, 1, Len(t))
                         /\ Len(s) < BufSize => t = s
         /\ a = {} => ~Utf8(s) \/ Len(s) >= BufSize
<1> DEFINE e == End(g.filled)
           u == SubSeq(s, 1, e)
<1>0. Len(s) \in Nat /\ BufSize \in Nat \ {0}
  BY QueriesAssumption
<1>1. /\ g.filled \in Nat /\ g.written \in 0 .. Len(s) /\ e <= g.written
      /\ Len(s) < BufSize => e = Len(s)
  <2>1. CASE Len(s) < BufSize
    <3>1. g.written = Len(s) /\ g.filled = Len(s) + 1
      BY <2>1 DEF Gotten
    <3>2. e = Len(s)
      BY <1>0, <2>1, <3>1, EndBound
    <3> QED
      BY <1>0, <3>1, <3>2
  <2>2. CASE Len(s) >= BufSize
    <3>1. g.written \in {BufSize - 1, BufSize} /\ g.filled \in {BufSize, Len(s) + 1}
      BY <1>0, <2>2 DEF Gotten
    <3>2. g.filled \in Nat
      BY <1>0, <3>1
    <3>3. e <= BufSize - 1
      BY <1>0, <3>2, EndBound
    <3>4. e \in Nat
      BY <1>0, <3>2, EndBound
    <3> QED
      BY <1>0, <2>2, <3>1, <3>2, <3>3, <3>4
  <2> QED
    BY <1>0, <2>1, <2>2
<1>2. a = IF Utf8(u) THEN {u} ELSE {}
  BY <1>1, ReadBackPrefix
<1>3. e \in Nat /\ e <= Len(s)
  <2>1. e \in 0 .. BufSize - 1
    BY <1>1, EndBound
  <2>2. e <= g.written /\ g.written \in 0 .. Len(s)
    BY <1>1
  <2> HIDE DEF e
  <2> QED
    BY <1>0, <2>1, <2>2
<1>4. u \in Seq(Bytes) /\ Len(u) = e
  BY <1>3
<1>5. Len(s) < BufSize => u = s
  BY <1>0, <1>1, <1>4
<1>6. Len(u) <= Len(s) /\ u = SubSeq(s, 1, Len(u))
  BY <1>3, <1>4
<1>7. a = {} => ~Utf8(u)
  BY <1>2
<1>8. Len(s) < BufSize \/ Len(s) >= BufSize
  BY <1>0
<1>9. \A t \in a : Utf8(t) /\ t = u
  BY <1>2
<1> QED
  BY <1>5, <1>6, <1>7, <1>8, <1>9

\* A string feature is never read as anything but itself or its beginning, however
\* long it is, whatever length the library reports for it.
THEOREM StringTheorem == Spec => []StringsReadBack
<1>1. Init => StringsReadBack
  BY DEF Init, None, Answer, StringsReadBack
<1>2. StringsReadBack /\ [Next]_vars => StringsReadBack'
  <2> SUFFICES ASSUME StringsReadBack, [Next]_vars PROVE StringsReadBack'
    OBVIOUS
  <2>1. UNCHANGED api
    BY DEF Next, vars, host, listVars, Plug, ListCameras, Count, Fill, ListFails, TurnedAway, Fails, payload_size, open_camera, close_camera, Resolves,
           Command, ReadText, ReadFails, ReadKind, DecodeFrame, Returns
  <2>2. CASE UNCHANGED result
    BY <2>1, <2>2 DEF StringsReadBack
  <2>3. CASE result'.query # "text" \/ result'.value = {}
    BY <2>3 DEF StringsReadBack
  <2>4. ASSUME NEW s \in Texts, ReadText(s), api = "library" PROVE StringsReadBack'
    <3>1. PICK g \in Gotten(s) :
            result' = Ok("text", <<s, ReadBack(Buffer(s, g.written), g.filled)>>)
      BY <2>4 DEF ReadText, Returns, Out
    <3>2. result'.value = {<<s, ReadBack(Buffer(s, g.written), g.filled)>>}
      BY <3>1 DEF Ok, Answer
    <3>3. s \in Seq(Bytes)
      BY QueriesAssumption
    <3>4. \A v \in result'.value : v[1] = s /\ v[2] = ReadBack(Buffer(s, g.written), g.filled)
      BY <3>2
    <3> QED
      BY <3>3, <3>4, TextRead DEF StringsReadBack
  <2> USE DEF Answer, Ok, None, InvalidString, Sdk
  <2>5. ASSUME Count \/ Fill \/ ListFails PROVE UNCHANGED result \/ result'.query # "text"
    BY <2>5 DEF Count, Fill, ListFails
  <2>6. ASSUME NEW query \in Handled, TurnedAway(query) \/ Fails(query) \/ Command(query)
        PROVE  result'.query # "text"
    BY <2>6 DEF Handled, TurnedAway, Fails, Command, Returns
  <2>12. ASSUME payload_size \/ open_camera PROVE result'.query # "text"
    BY <2>12 DEF payload_size, open_camera, Returns
  <2>7. ASSUME NEW query \in {"text", "kind"}, ReadFails(query) PROVE result'.value = {}
    BY <2>7 DEF ReadFails, Returns
  <2>8. ASSUME ReadKind PROVE result'.query # "text"
    <3>1. PICK kind : result' = CASE kind = "null" -> None("kind")
                                  [] kind = "garbled" -> Ok("kind", "")
                                  [] OTHER -> Ok("kind", kind)
      BY <2>8 DEF ReadKind, Returns
    <3>2. result'.query = "kind"
      BY <3>1
    <3> QED
      BY <3>2
  <2>11. ASSUME DecodeFrame PROVE result'.query # "text"
    <3>1. PICK v : result' = Ok("frame", v)
      BY <2>11 DEF DecodeFrame, Returns
    <3> QED
      BY <3>1
  <2>9. ASSUME \/ ListCameras \/ \E c \in CameraIds : Plug(c)
               \/ \E h \in DOMAIN cameras : close_camera(h)
        PROVE  UNCHANGED result
    BY <2>9 DEF ListCameras, Plug, close_camera
  <2>10. CASE api # "library"
    BY <2>1, <2>10 DEF StringsReadBack
  <2> QED
    BY <2>2, <2>3, <2>4, <2>5, <2>6, <2>7, <2>8, <2>9, <2>10, <2>11, <2>12 DEF Next, vars, Handled
<1> QED
  BY <1>1, <1>2, PTL DEF Spec

-----------------------------------------------------------------------------
(* The list of cameras. *)

CountInv == present \subseteq CameraIds /\ count \in Nat

LEMMA PresentFinite ==
  ASSUME CountInv
  PROVE  Cardinality(present) \in Nat /\ (Cardinality(present) = 0 <=> present = {})
BY QueriesAssumption, FS_Subset, FS_EmptySet, FS_CardinalityType DEF CountInv

LEMMA NextCount == CountInv /\ [Next]_vars => CountInv'
<1> SUFFICES ASSUME CountInv, [Next]_vars PROVE CountInv'
  OBVIOUS
<1>1. ASSUME NEW c \in CameraIds, Plug(c) PROVE CountInv'
  BY <1>1 DEF Plug, CountInv
<1>2. ASSUME Count \/ Fill \/ ListFails PROVE CountInv'
  BY <1>2, PresentFinite DEF Count, Out, Fill, ListFails, CountInv
<1>3. ASSUME ListCameras PROVE CountInv'
  BY <1>3 DEF ListCameras, CountInv
<1>4. \/ UNCHANGED listVars \/ Count \/ Fill \/ ListFails \/ ListCameras
      \/ \E c \in CameraIds : Plug(c)
  BY DEF Next, vars, TurnedAway, Fails, payload_size, open_camera, close_camera, Resolves, Command,
         ReadText, ReadFails, ReadKind, DecodeFrame, Returns
<1> QED
  BY <1>1, <1>2, <1>3, <1>4 DEF CountInv, listVars

\* What a list is of the cameras present, after a call with room for n of them.
Lists(list, n) ==
  /\ Len(list) = AtMost(n, Cardinality(present))
  /\ \E entry \in Injection(DOMAIN list, present) :
       \A i \in DOMAIN list : entry[i] \notin unreadable => list[i] = entry[i]

\* Cut to the number the SDK reports, the buffer holds what the SDK has written and
\* nothing else, whether or not there was room for all.
LEMMA BufferRead ==
  ASSUME CountInv, NEW got \in CamerasList(count)
  PROVE  Lists(AllOwned(Truncated(Entries(count, got.written), got.found)), count)
<1> DEFINE there == Cardinality(present)
           m == AtMost(count, there)
           w == got.written
           buf == Entries(count, w)
           cut == Truncated(buf, got.found)
           list == AllOwned(cut)
<1>1. count \in Nat /\ there \in Nat
  BY PresentFinite DEF CountInv
<1>2. m \in Nat /\ m <= count
  BY <1>1 DEF AtMost
<1>3. w \in Injection(1 .. m, present) /\ got.found \in {there, count}
      /\ (there <= count => got.found = there)
  BY DEF CamerasList
<1>4. w \in [1 .. m -> present] /\ DOMAIN w = 1 .. m
  BY <1>3 DEF Injection
<1>5. Len(buf) = count /\ DOMAIN buf = 1 .. count /\ \A i \in 1 .. m : buf[i] = w[i]
  BY <1>1, <1>2, <1>4 DEF Entries
<1>6. AtMost(got.found, Len(buf)) = m
  BY <1>1, <1>3, <1>5 DEF AtMost
<1>7. cut = [i \in 1 .. m |-> w[i]]
  <2>1. cut = SubSeq(buf, 1, m)
    BY <1>6 DEF Truncated
  <2>2. SubSeq(buf, 1, m) = [i \in 1 .. m |-> buf[i]]
    BY <1>2, <1>5
  <2> HIDE DEF cut, buf, m
  <2> QED
    BY <1>5, <2>1, <2>2
<1>8. list = [i \in 1 .. m |-> Owned(w[i])]
  BY <1>7 DEF AllOwned
<1>9. \A i \in 1 .. m : w[i] \notin unreadable => Owned(w[i]) = w[i]
  BY <1>4, QueriesAssumption DEF Owned, CountInv
<1> HIDE DEF m, list, w
<1>10. DOMAIN list = 1 .. m /\ Len(list) = m /\ \A i \in 1 .. m : list[i] = Owned(w[i])
  BY <1>2, <1>8
<1> QED
  BY <1>3, <1>9, <1>10 DEF Lists, list, m, w

\* What list_cameras returns is what there was at one moment, for any number of
\* cameras that come and go meanwhile.
THEOREM ListTheorem == Spec => ListIsSnapshot
<1> DEFINE Snapshot ==
      pc # "idle" /\ pc' = "idle" /\ api = "library" =>
        \A list \in result'.value : Lists(list, count)
<1>1. Init => CountInv
  BY DEF Init, CountInv
<1>2. CountInv /\ [Next]_vars => Snapshot \/ UNCHANGED vars
  <2> SUFFICES ASSUME CountInv, Next, pc # "idle", pc' = "idle", api = "library"
               PROVE  \A list \in result'.value : Lists(list, count)
    OBVIOUS
  <2>1. Count \/ Fill \/ ListFails
    BY DEF Next, ListCameras, Plug, TurnedAway, Fails, payload_size, open_camera, close_camera,
           Resolves, Command, ReadText, ReadFails, ReadKind, DecodeFrame, Returns
  <2>2. CASE Count
    <3>1. Cardinality(present) = 0 /\ present = {}
      BY <2>2, PresentFinite DEF Count, Out
    <3>2. result'.value = {<<>>}
      BY <2>2 DEF Count, Ok, Answer
    <3>3. <<>> \in Injection(DOMAIN <<>>, present)
      BY DEF Injection, IsInjective
    <3>4. AtMost(count, Cardinality(present)) = 0
      BY <3>1 DEF AtMost, CountInv
    <3> QED
      BY <3>2, <3>3, <3>4 DEF Lists
  <2>3. CASE Fill
    <3>1. PICK got \in CamerasList(count) :
            result' = Ok("list", AllOwned(Truncated(Entries(count, got.written), got.found)))
      BY <2>3 DEF Fill
    <3> QED
      BY <3>1, BufferRead DEF Ok, Answer
  <2>4. CASE ListFails
    BY <2>4 DEF ListFails, Sdk, Answer
  <2> QED
    BY <2>1, <2>2, <2>3, <2>4
<1> HIDE DEF Snapshot
<1>3. CountInv /\ [Next]_vars => [Snapshot]_vars
  BY <1>2
<1>4. Spec => [][Snapshot]_vars
  BY <1>1, <1>3, NextCount, PTL DEF Spec
<1> QED
  BY <1>4 DEF ListIsSnapshot, Snapshot, Lists

-----------------------------------------------------------------------------
(* Codes and formats. *)

\* Every code of the header is given the name the header gives it ...
LEMMA NamesOfCodes ==
  \A name \in DOMAIN VmbErrorType : error_name(VmbErrorType[name]) = name
BY DEF error_name, NamesInError, VmbErrorType

\* ... and the name of any other code is none of the header's: the codes error_name has
\* an arm for are those of the header.
LEMMA CodesOfNames ==
  ASSUME NEW code \in Int, error_name(code) \in DOMAIN VmbErrorType
  PROVE  VmbErrorType[error_name(code)] = code
<1>1. \A i \in 1 .. 42 : i # 39 => VmbErrorType[NamesInError[i]] = 1 - i
  BY DEF NamesInError, VmbErrorType
<1>2. Len(NamesInError) = 42 /\ NamesInError[39] = "Unrecognized"
  BY DEF NamesInError
<1>3. "Unrecognized" \notin DOMAIN VmbErrorType /\ VmbErrorType["Custom"] = 1
  BY DEF VmbErrorType
<1>4. CASE code = 1
  BY <1>3, <1>4 DEF error_name
<1>5. CASE code # 1 /\ -code \in 0 .. 41
  <2>1. error_name(code) = NamesInError[1 - code] /\ 1 - code \in 1 .. 42
    BY <1>2, <1>5 DEF error_name
  <2>2. 1 - code # 39
    BY <1>2, <1>3, <2>1
  <2> QED
    BY <1>1, <2>1, <2>2
<1>6. CASE code # 1 /\ -code \notin 0 .. 41
  BY <1>2, <1>3, <1>6 DEF error_name
<1> QED
  BY <1>4, <1>5, <1>6

\* check and error_name on any code at all.
LEMMA ErrorNamed ==
  ASSUME NEW code \in Int
  PROVE  LET names == {name \in DOMAIN VmbErrorType : VmbErrorType[name] = code}
         IN  IF names = {} THEN error_name(code) \notin DOMAIN VmbErrorType
             ELSE error_name(code) \in names
<1> DEFINE names == {name \in DOMAIN VmbErrorType : VmbErrorType[name] = code}
<1>1. ASSUME NEW name \in names PROVE error_name(code) = name
  BY <1>1, NamesOfCodes
<1>2. names = {} => error_name(code) \notin DOMAIN VmbErrorType
  BY CodesOfNames
<1> QED
  BY <1>1, <1>2

\* The raw value of a format is decoded as that format, or passed through.
LEMMA FormatDecoded ==
  ASSUME NEW format \in DOMAIN VmbPixelFormatType
  PROVE  from_raw(VmbPixelFormatType[format])
           = IF format \in {"Mono8", "Bgr8"} THEN format ELSE "Other"
<1> DEFINE raw == VmbPixelFormatType[format]
<1>1. Pfnc(1, 8, 1) = 17301505 /\ Pfnc(2, 24, 21) = 35127317
  <2>1. 2^24 = 16777216 /\ 2^16 = 65536
    OBVIOUS
  <2> QED
    BY <2>1 DEF Pfnc
<1>2. format \in {"Mono8", "Bgr8", "Rgb8"}
  BY DEF VmbPixelFormatType
<1>3. /\ raw = Pfnc(1, 8, 1) <=> format = "Mono8"
      /\ raw = Pfnc(2, 24, 21) <=> format = "Bgr8"
  BY <1>1, <1>2 DEF VmbPixelFormatType
<1> HIDE DEF raw
<1>4. from_raw(raw) = CASE format = "Mono8" -> "Mono8" [] format = "Bgr8" -> "Bgr8"
                        [] OTHER -> "Other"
  BY <1>3, Zenon DEF from_raw
<1>5. format = "Mono8" => from_raw(raw) = "Mono8"
  BY <1>4, Zenon
<1>6. format = "Bgr8" => from_raw(raw) = "Bgr8"
  BY <1>4, Zenon
<1>7. format = "Rgb8" => from_raw(raw) = "Other"
  BY <1>4, Zenon
<1> QED
  BY <1>2, <1>5, <1>6, <1>7 DEF raw

-----------------------------------------------------------------------------
(* What each query answers. *)

\* Every answer is an error under the name of its code, an answer without a value, a
\* decoded frame, or a value that the library or the stubs account for.
Answered ==
  \/ \E query \in Handled \cup {"list"}, code \in Int \ {0} : result' = Sdk(query, code)
  \/ result'.code = 0 /\ result'.query # "frame" /\ result'.value = {}
  \/ result'.code = 0 /\ \E format \in DOMAIN VmbPixelFormatType : \E data :
       result' = Ok("frame", <<format, from_raw(VmbPixelFormatType[format]), data>>)
  \/ /\ result'.code = 0
     /\ result'.query \in Handled \cup {"list", "text", "kind"}
     /\ api = "stub" => \A v \in result'.value :
          /\ result'.query = "list" => v = <<>>
          /\ result'.query = "text" => v[2] = {<<>>}
          /\ result'.query # "kind"

\* The buffer a stub leaves alone reads back as the empty text.
LEMMA EmptyText ==
  ASSUME NEW s
  PROVE  ReadBack(Buffer(s, 0), 0) = {<<>>}
<1>1. End(0) = 0
  BY QueriesAssumption DEF End, AtMost, SaturatingSub
<1>2. Buffer(s, 0) = [i \in 1 .. BufSize |-> NUL]
  BY QueriesAssumption DEF Buffer
<1>3. SubSeq(Buffer(s, 0), 1, 0) = <<>>
  BY SubSeqEmpty
<1>4. Utf8(<<>>)
  BY DEF Utf8
<1> QED
  BY <1>1, <1>3, <1>4 DEF ReadBack

LEMMA NextAnswers == [Next]_vars => UNCHANGED result \/ Answered
<1> SUFFICES ASSUME Next PROVE UNCHANGED result \/ Answered
  BY DEF vars
<1> USE DEF Ok, None, InvalidString, Answer, Returns
<1>1. ASSUME \/ ListCameras \/ \E c \in CameraIds : Plug(c)
             \/ \E h \in DOMAIN cameras : close_camera(h)
      PROVE  UNCHANGED result
  BY <1>1 DEF ListCameras, Plug, close_camera
<1>2. ASSUME Count PROVE UNCHANGED result \/ Answered
  BY <1>2 DEF Count, Answered
<1>3. ASSUME Fill PROVE Answered
  BY <1>3 DEF Fill, Answered
<1>4. ASSUME ListFails PROVE Answered
  <2>1. PICK code \in Int \ {0} : result' = Sdk("list", code)
    BY <1>4, QueriesAssumption DEF ListFails
  <2> HIDE DEF Answer
  <2> QED
    BY <2>1 DEF Answered
<1>5. ASSUME NEW query \in Handled, TurnedAway(query) PROVE Answered
  BY <1>5 DEF TurnedAway, Answered, Handled
<1>6. ASSUME NEW query \in Handled, Fails(query) PROVE Answered
  BY <1>6, QueriesAssumption DEF Fails, Answered
<1>7. ASSUME payload_size \/ open_camera PROVE Answered
  BY <1>7 DEF payload_size, open_camera, Answered, Handled
<1>8. ASSUME NEW query \in {"settings", "command"}, Command(query) PROVE Answered
  BY <1>8 DEF Command, Answered, Handled
<1>9. ASSUME NEW s \in Texts, ReadText(s) PROVE Answered
  <2>1. PICK g \in Out({[written |-> 0, filled |-> 0]}, Gotten(s)) :
          result' = Ok("text", <<s, ReadBack(Buffer(s, g.written), g.filled)>>)
    BY <1>9 DEF ReadText
  <2>2. api = "stub" => ReadBack(Buffer(s, g.written), g.filled) = {<<>>}
    BY EmptyText DEF Out
  <2> QED
    BY <2>1, <2>2 DEF Answered
<1>10. ASSUME NEW query \in {"text", "kind"}, ReadFails(query) PROVE Answered
  BY <1>10 DEF ReadFails, Answered
<1>11. ASSUME ReadKind PROVE Answered
  <2>1. PICK kind \in Out({"null"}, {"known", "null", "garbled"}) :
          result' = CASE kind = "null" -> None("kind")
                      [] kind = "garbled" -> Ok("kind", "")
                      [] OTHER -> Ok("kind", kind)
    BY <1>11 DEF ReadKind
  <2> HIDE DEF Ok, None
  <2>2. kind = "null" => result' = None("kind")
    BY <2>1, Zenon
  <2>3. kind = "garbled" => result' = Ok("kind", "")
    BY <2>1, Zenon
  <2>4. kind = "known" => result' = Ok("kind", "known")
    BY <2>1, Zenon
  <2>5. kind = "null" \/ (api # "stub" /\ kind \in {"known", "garbled"})
    BY DEF Out
  <2>6. ASSUME kind = "null" PROVE Answered
    BY <2>2, <2>6 DEF Answered, None
  <2>7. ASSUME api # "stub", NEW value, result' = Ok("kind", value) PROVE Answered
    BY <2>7 DEF Answered, Ok
  <2> QED
    BY <2>3, <2>4, <2>5, <2>6, <2>7
<1>12. ASSUME DecodeFrame PROVE Answered
  <2> HIDE DEF Ok, Answer
  <2>1. PICK format \in DOMAIN VmbPixelFormatType, null \in BOOLEAN, size \in {0, 1} :
          result' = Ok("frame", <<format, from_raw(VmbPixelFormatType[format]),
                                  FrameData(null, size)>>)
    BY <1>12 DEF DecodeFrame
  <2>2. result'.code = 0
    BY <2>1 DEF Ok, Answer
  <2> QED
    BY <2>1, <2>2, Zenon DEF Answered
<1> QED
  BY <1>1, <1>2, <1>3, <1>4, <1>5, <1>6, <1>7, <1>8, <1>9, <1>10, <1>11, <1>12 DEF Next

\* Whatever code the SDK returns, one that its header lacks included, and
\* whatever frame it delivers, the wrapper names what the header says.
THEOREM CodesTheorem == Spec => []CodesDecoded
<1>1. Init => CodesDecoded
  BY DEF Init, None, Answer, CodesDecoded
<1>2. CodesDecoded /\ [Next]_vars => CodesDecoded'
  <2> SUFFICES ASSUME CodesDecoded, UNCHANGED result \/ Answered PROVE CodesDecoded'
    BY NextAnswers
  <2>1. CASE UNCHANGED result
    BY <2>1 DEF CodesDecoded
  <2>2. ASSUME NEW query \in Handled \cup {"list"}, NEW code \in Int \ {0},
               result' = Sdk(query, code)
        PROVE  CodesDecoded'
    <3>1. result'.code = code /\ result'.error = error_name(code) /\ result'.query # "frame"
      BY <2>2 DEF Sdk, Answer, Handled
    <3> QED
      BY <3>1, ErrorNamed DEF CodesDecoded
  <2>3. CASE result'.code = 0 /\ result'.query # "frame"
    BY <2>3 DEF CodesDecoded
  <2>4. ASSUME NEW format \in DOMAIN VmbPixelFormatType, NEW data,
               result' = Ok("frame", <<format, from_raw(VmbPixelFormatType[format]), data>>)
        PROVE  CodesDecoded'
    <3>1. /\ result'.code = 0
          /\ \A v \in result'.value : v[1] = format /\ v[2] = from_raw(VmbPixelFormatType[format])
      BY <2>4 DEF Ok, Answer
    <3> QED
      BY <3>1, FormatDecoded DEF CodesDecoded
  <2> QED
    BY <2>1, <2>2, <2>3, <2>4 DEF Answered, Handled
<1> QED
  BY <1>1, <1>2, PTL DEF Spec

\* Over the stubs no query, in any order, answers with what no SDK has written.
THEOREM StubsTheorem == Spec => []StubsAnswerEmpty
<1>1. Init => StubsAnswerEmpty
  BY DEF Init, None, Answer, StubsAnswerEmpty
<1>2. StubsAnswerEmpty /\ [Next]_vars => StubsAnswerEmpty'
  <2> SUFFICES ASSUME StubsAnswerEmpty, [Next]_vars PROVE StubsAnswerEmpty'
    OBVIOUS
  <2>1. UNCHANGED api
    BY DEF Next, vars, host, listVars, Plug, ListCameras, Count, Fill, ListFails, TurnedAway, Fails, payload_size, open_camera, close_camera, Resolves,
           Command, ReadText, ReadFails, ReadKind, DecodeFrame, Returns
  <2>2. CASE UNCHANGED result
    BY <2>1, <2>2, Zenon DEF StubsAnswerEmpty
  <2>3. CASE Answered
    <3> SUFFICES ASSUME api = "stub", NEW v \in result'.value
                 PROVE  CASE result'.query = "list" -> v = <<>>
                          [] result'.query = "text" -> v[2] = {<<>>}
                          [] OTHER -> result'.query # "kind"
      BY <2>1, Zenon DEF StubsAnswerEmpty
    <3>1. /\ result'.query = "list" => v = <<>>
          /\ result'.query = "text" => v[2] = {<<>>}
          /\ result'.query # "kind"
      BY <2>3 DEF Answered, Sdk, Ok, Answer
    <3> QED
      BY <3>1, Zenon
  <2> QED
    BY <2>2, <2>3, NextAnswers
<1> QED
  BY <1>1, <1>2, PTL DEF Spec
=============================================================================
