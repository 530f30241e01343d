------------------------------- MODULE Marshal -------------------------------
(***************************************************************************)
(* Value marshaling of src/source/module.c: aws_byte_buf_init_from_napi    *)
(* (string -> owned copy with a NUL terminator; ArrayBuffer, DataView and  *)
(* TypedArray -> zero-copy view of the host's backing store),              *)
(* aws_string_new_from_napi (convert into a stack temporary, copy into an  *)
(* aws_string, clean the temporary up) and                                 *)
(* aws_napi_create_dataview_from_byte_cursor (copy native bytes into a new *)
(* ArrayBuffer wrapped in a DataView).  Host values are records; their     *)
(* contents are short byte sequences.                                      *)
(***************************************************************************)
EXTENDS Naturals, Sequences, SequencesExt, TLC

CONSTANTS
  MaxLen,     \* longest string / buffer, and largest typed-array element count
  NULL,       \* the NULL pointer
  Garbage     \* an indeterminate (uninitialized) pointer value

ASSUME MaxLen \in Nat /\ NULL # Garbage

Byte == {0, 1}
Data == BoundedSeq(Byte, MaxLen)

\* napi_typedarray_type: napi_int8_array = 0 ... napi_float64_array = 8,
\* napi_bigint64_array = 9, napi_biguint64_array = 10.
TypedArrayType ==
  [int8 |-> 0, uint8 |-> 1, uint8_clamped |-> 2, int16 |-> 3, uint16 |-> 4,
   int32 |-> 5, uint32 |-> 6, float32 |-> 7, float64 |-> 8, bigint64 |-> 9,
   biguint64 |-> 10]

\* Reference: bytes per element of each JavaScript typed array, by name.
BytesPerElement ==
  [int8 |-> 1, uint8 |-> 1, uint8_clamped |-> 1, int16 |-> 2, uint16 |-> 2,
   int32 |-> 4, uint32 |-> 4, float32 |-> 4, float64 |-> 8, bigint64 |-> 8,
   biguint64 |-> 8]

\* A fixed backing store of n bytes for typed arrays (the conversion is
\* driven by lengths, so one content per length suffices).
Pattern(n) == [i \in 1..n |-> i % 2]

HostValues ==
  [type : {"string", "arraybuffer", "dataview"}, data : Data]
  \cup { [type |-> "typedarray", kind |-> k, count |-> c,
          data |-> Pattern(c * BytesPerElement[k])] :
         k \in DOMAIN TypedArrayType, c \in 0..MaxLen }
  \cup [type : {"number", "null", "undefined", "object"}, data : {<<>>}]

\* aws_byte_buf: the bytes from buffer[0] up to capacity, len, the allocator
\* field and who owns the memory ("none", "native" or "host").
Bufs == [bytes : Seq(Byte), len : Nat, capacity : Nat,
         allocator : {NULL, Garbage, "napi"}, owner : {"none", "native", "host"}]
ZeroBuf == [bytes |-> <<>>, len |-> 0, capacity |-> 0, allocator |-> NULL,
            owner |-> "none"]

-----------------------------------------------------------------------------
(* Helpers of the host environment and of aws-c-common.                   *)

\* napi_get_value_string_utf8(env, value, buf, bufsize, &result): with a buffer
\* it copies at most bufsize - 1 bytes, writes a NUL after them and returns
\* the number copied.
NapiGetValueStringUtf8(data, bufsize) ==
  LET n == IF Len(data) < bufsize - 1 THEN Len(data) ELSE bufsize - 1
  IN [bytes |-> SubSeq(data, 1, n) \o <<0>>, result |-> n]

\* aws_byte_buf_clean_up: releases buffer through allocator when both are set.
ReleasesMemory(buf) == buf.allocator # NULL /\ buf.owner # "none"

-----------------------------------------------------------------------------
(* The conversions, as operators of the value converted.                  *)

\* Mutant: the pre-BigInt switch, with no case for types 9 and 10.
ElementSizeNoBigInt(array_type) ==
  CASE array_type \in {0, 1, 2} -> 1
    [] array_type \in {3, 4}    -> 2
    [] array_type \in {5, 6, 7} -> 4
    [] array_type = 8           -> 8
    [] OTHER                    -> 0

\* The switch on the typed-array type: 1, 2, 4 or 8 bytes per element, and 0
\* for a type the switch does not list.
ElementSize(array_type) ==
  CASE array_type \in {0, 1, 2}  -> 1
    [] array_type \in {3, 4}     -> 2
    [] array_type \in {5, 6, 7}  -> 4
    [] array_type \in {8, 9, 10} -> 8
    [] OTHER                     -> 0

\* Mutant: the typed-array branch sets capacity to the element count.
ByteBufInitCapacityIsCount(v, uninit, oom) ==
  IF v.type = "typedarray"
    THEN LET n == v.count * ElementSize(TypedArrayType[v.kind])
         IN [status |-> "napi_ok",
             buf |-> [bytes |-> v.data, len |-> n, capacity |-> v.count,
                      allocator |-> uninit, owner |-> "host"]]
    ELSE [status |-> "napi_invalid_arg", buf |-> ZeroBuf]

\* aws_byte_buf_init_from_napi(&buf, env, v) when the buffer starts as
\* uninit: a string is copied into a native buffer of length + 1 bytes (oom:
\* aws_byte_buf_init fails and zeroes buf); the three binary kinds set buffer,
\* len and capacity to the host's memory and leave allocator as it was.
ByteBufInitFromNapi(v, uninit, oom) ==
  CASE v.type = "string" /\ oom ->
         [status |-> "napi_generic_failure", buf |-> ZeroBuf]
    [] v.type = "string" ->
         LET cap == Len(v.data) + 1
             r   == NapiGetValueStringUtf8(v.data, cap)
         IN [status |-> "napi_ok",
             buf |-> [bytes |-> r.bytes, len |-> r.result, capacity |-> cap,
                      allocator |-> "napi", owner |-> "native"]]
    [] v.type \in {"arraybuffer", "dataview"} ->
         [status |-> "napi_ok",
          buf |-> [bytes |-> v.data, len |-> Len(v.data),
                   capacity |-> Len(v.data), allocator |-> uninit,
                   owner |-> "host"]]
    [] v.type = "typedarray" ->
         LET n == v.count * ElementSize(TypedArrayType[v.kind])
         IN [status |-> "napi_ok",
             buf |-> [bytes |-> v.data, len |-> n, capacity |-> n,
                      allocator |-> uninit, owner |-> "host"]]
    [] OTHER -> [status |-> "napi_invalid_arg", buf |-> ZeroBuf]

\* The bytes a buffer or a cursor over it designates.
Contents(buf) == SubSeq(buf.bytes, 1, buf.len)

\* Mutant: the ArrayBuffer is allocated one byte short of the cursor.
CreateDataviewShortBuffer(cur, fail) ==
  IF fail = "none" /\ Len(cur) <= Len(cur) - 1
    THEN [status |-> "napi_ok", data |-> cur]
    ELSE [status |-> "napi_generic_failure", data |-> <<>>]

\* aws_napi_create_dataview_from_byte_cursor(env, cur): a new ArrayBuffer of
\* cur->len bytes, filled with aws_byte_buf_write_from_whole_cursor (which
\* writes nothing and fails when the cursor exceeds the capacity left), then
\* wrapped in a DataView; fail names the host call that fails, if any.
CreateDataviewFromByteCursor(cur, fail) ==
  LET capacity == Len(cur)
  IN CASE fail = "napi_create_arraybuffer" ->
            [status |-> "napi_generic_failure", data |-> <<>>]
       [] Len(cur) > capacity ->
            [status |-> "napi_generic_failure", data |-> <<>>]
       [] fail = "napi_create_dataview" ->
            [status |-> "napi_generic_failure", data |-> <<>>]
       [] OTHER -> [status |-> "napi_ok", data |-> cur]

HostFailures == {"none", "napi_create_arraybuffer", "napi_create_dataview"}

-----------------------------------------------------------------------------
(* State: the calls of the marshaling entry points one host thread makes. *)

VARIABLES
  temp,        \* temp_buf of the last aws_string_new_from_napi, after init
  lastString,  \* [input, result] of the last aws_string_new_from_napi
  lastView,    \* [input, status, data] of the last dataview created
  tempLive,    \* native temporaries allocated and not yet released
  hostFreed    \* host-owned memory was handed to aws_mem_release

vars == <<temp, lastString, lastView, tempLive, hostFreed>>

Init ==
  /\ temp = ZeroBuf
  /\ lastString = [input |-> [type |-> "undefined", data |-> <<>>], result |-> NULL]
  /\ lastView = [input |-> <<>>, fail |-> "none", status |-> "napi_ok",
                  data |-> <<>>]
  /\ tempLive = 0
  /\ hostFreed = FALSE

\* Mutant: return NULL straight away when the aws_string copy fails,
\* skipping aws_byte_buf_clean_up(&temp_buf).
StringNewNoCleanUpOnOom(v) ==
  \E uninit \in {NULL, Garbage}, oom \in BOOLEAN, stringOom \in BOOLEAN :
    LET r == ByteBufInitFromNapi(v, uninit, oom)
    IN /\ r.status = "napi_ok" /\ stringOom /\ r.buf.owner = "native"
       /\ temp' = r.buf
       /\ lastString' = [input |-> v, result |-> NULL]
       /\ tempLive' = tempLive + 1
       /\ UNCHANGED <<lastView, hostFreed>>

\* aws_string_new_from_napi(env, v): temp_buf is a stack variable, so its
\* allocator field starts indeterminate (NULL or garbage); on a failed init
\* the result is NULL; otherwise the string is copied (stringOom: the copy
\* fails and the result is NULL) and aws_byte_buf_clean_up(&temp_buf) runs.
aws_string_new_from_napi(v) ==
  \E uninit \in {NULL, Garbage}, oom \in BOOLEAN, stringOom \in BOOLEAN :
    LET r    == ByteBufInitFromNapi(v, uninit, oom)
        made == r.status = "napi_ok" /\ r.buf.owner = "native"
    IN /\ temp' = r.buf
       /\ IF r.status # "napi_ok"
            THEN /\ lastString' = [input |-> v, result |-> NULL]
                 /\ UNCHANGED <<tempLive, hostFreed>>
            ELSE /\ lastString' = [input |-> v,
                                   result |-> IF stringOom THEN NULL
                                              ELSE Contents(r.buf)]
                 /\ tempLive' = tempLive + (IF made /\ ~ReleasesMemory(r.buf)
                                            THEN 1 ELSE 0)
                 /\ hostFreed' = (hostFreed \/ (r.buf.owner = "host"
                                                /\ ReleasesMemory(r.buf)))
       /\ UNCHANGED lastView

\* aws_napi_create_dataview_from_byte_cursor(env, &cur, &result).
aws_napi_create_dataview_from_byte_cursor(cur) ==
  \E fail \in HostFailures :
    /\ lastView' = [input |-> cur, fail |-> fail]
                    @@ CreateDataviewFromByteCursor(cur, fail)
    /\ UNCHANGED <<temp, lastString, tempLive, hostFreed>>

Next ==
  \/ \E v \in HostValues : aws_string_new_from_napi(v)
  \/ \E cur \in Data : aws_napi_create_dataview_from_byte_cursor(cur)

Spec == Init /\ [][Next]_vars

-----------------------------------------------------------------------------
(* Properties.                                                             *)

\* Every aws_byte_buf the conversion produces is valid in aws-c-common's
\* sense (aws_byte_buf_is_valid: len <= capacity).
TypeOK ==
  /\ temp \in Bufs /\ temp.len <= temp.capacity
  /\ lastString.input \in HostValues
  /\ lastString.result \in Seq(Byte) \cup {NULL}
  /\ lastView.status \in {"napi_ok", "napi_generic_failure"}
  /\ tempLive \in Nat /\ hostFreed \in BOOLEAN

\* aws_string_new_from_napi returns exactly the bytes of the value it was
\* given: all of a string without its NUL terminator, all of an ArrayBuffer
\* or DataView, and all count * element-size bytes of a typed array of any of
\* the eleven element types (the switch on array_type).
StringMatchesInput ==
  lastString.result # NULL => lastString.result = lastString.input.data

\* aws_string_new_from_napi never leaks the temporary it allocates for a
\* string: whatever the outcome of the copy, aws_byte_buf_clean_up frees it.
NoTempLeak == tempLive = 0

\* aws_napi_create_dataview_from_byte_cursor succeeds exactly when the host
\* allocations do, and the DataView then holds the cursor's bytes.
DataviewCopiesCursor ==
  /\ (lastView.status = "napi_ok") <=> (lastView.fail = "none")
  /\ lastView.status = "napi_ok" => lastView.data = lastView.input

\* aws_string_new_from_napi never hands memory it does not own (the backing
\* store of an ArrayBuffer, DataView or typed array) to aws_mem_release.
NeverFreesHostMemory == ~hostFreed
=============================================================================
