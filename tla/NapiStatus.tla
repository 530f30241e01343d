------------------------------ MODULE NapiStatus ------------------------------
(***************************************************************************)
(* aws_napi_status_to_str of src/source/module.c (lines 229-286).  A       *)
(* napi_status is named by its enumerator.  Thread-safe functions need     *)
(* N-API 4, so the NAPI_VERSION >= 3 cases are compiled in.                *)
(***************************************************************************)

\* The napi_status enumerators of N-API up to version 3 ...
NapiStatusV3 ==
  {"napi_ok", "napi_invalid_arg", "napi_object_expected",
   "napi_string_expected", "napi_name_expected", "napi_function_expected",
   "napi_number_expected", "napi_boolean_expected", "napi_array_expected",
   "napi_generic_failure", "napi_pending_exception", "napi_cancelled",
   "napi_escape_called_twice", "napi_handle_scope_mismatch",
   "napi_callback_scope_mismatch", "napi_queue_full", "napi_closing",
   "napi_bigint_expected"}

\* ... and those added since, which the switch does not list.
NapiStatusLater ==
  {"napi_date_expected", "napi_arraybuffer_expected",
   "napi_detachable_arraybuffer_expected", "napi_would_deadlock",
   "napi_no_external_buffers_allowed", "napi_cannot_run_js"}

NapiStatus == NapiStatusV3 \cup NapiStatusLater

\* The switch: "OK", a long text for invalid_arg, the enumerator's own name
\* for every other listed case except napi_string_expected, whose case sets
\* "napi_name_expected", and "UNKNOWN" for anything unlisted.
aws_napi_status_to_str(status) ==
  CASE status = "napi_ok"              -> "OK"
    [] status = "napi_invalid_arg"     ->
         "napi_invalid_arg: an invalid argument was supplied"
    [] status = "napi_string_expected" -> "napi_name_expected"
    [] status \in NapiStatusV3         -> status
    [] OTHER                           -> "UNKNOWN"
=============================================================================
