---------------------------- MODULE FailedCallback ----------------------------
(***************************************************************************)
(* s_handle_failed_callback of src/source/module.c (lines 296-375): what   *)
(* aws_napi_dispatch_threadsafe_function does when napi_call_function      *)
(* fails.  One action per N-API call of the handler, in the code's order,  *)
(* against the env state those calls read and write: the pending JS        *)
(* exception and the last error.  The host's answers (what was thrown,     *)
(* whether each string conversion succeeds) are chosen when the dispatch   *)
(* fails.  Successive failing dispatches accumulate the native strings the *)
(* handler leaves allocated.                                               *)
(***************************************************************************)
EXTENDS Naturals, Sequences, FiniteSets, NapiStatus

CONSTANTS
  MaxCalls,          \* failing dispatches in a behaviour
  Thrown,            \* what the JS callback threw; NoException if it did not
  Functions,         \* the kinds of JS function dispatched
  NonThrowFailures   \* napi_call_function statuses of a failure with no throw

NoException == "nothing"

\* napi_is_error holds of these: an ordinary Error, and Errors whose message
\* or stack getter throws.  ToString throws for the NoToString values (a
\* Symbol, an object with a null prototype).
ErrorKinds == {"error", "error_throwing_message", "error_throwing_stack"}
NoToString == {"symbol", "null_proto_object"}

ASSUME /\ MaxCalls \in Nat
       /\ NoException \in Thrown
       /\ Thrown \subseteq {NoException, "primitive"} \cup ErrorKinds \cup NoToString
       /\ Functions \subseteq {"plain", "throwing_to_string"}
       /\ NonThrowFailures \subseteq NapiStatus \ {"napi_ok", "napi_pending_exception"}

LogItems == {"engine", "function", "message", "message_failed", "stack",
             "stack_failed", "error_str", "error_str_failed"}

Steps == {"idle", "query", "last_error", "clear", "is_error", "fn_str",
          "extract", "message", "stack", "error_str"}

VARIABLES
  pending,   \* the env's pending JS exception, NoException if none
  lastError, \* the env's last_error.error_code
  hpc,       \* the step of s_handle_failed_callback; "idle" between dispatches
  h,         \* the handler's locals (exc, isError), its reason argument, and
             \* the host's answers for this call
  calls,     \* failing dispatches so far
  live,      \* native strings the handlers allocated and never destroyed
  log,       \* what the current (or last) handler logged, and the code reported
  fault      \* "none", or why an AWS_NAPI_ENSURE aborted the process:
             \* "threw" (JS run by the call threw) or "stale_pending" (an
             \* exception was already pending, so the call refused to run)

vars == <<pending, lastError, hpc, h, calls, live, log, fault>>

Running == fault = "none"

-----------------------------------------------------------------------------
(* The handler's order and its steps.                                     *)

\* Mutant: the function's text is taken before the exception is cleared.
ExceptionStepsFunctionFirst == <<"fn_str", "clear", "is_error">>

\* The exception branch up to the Error test, in the code's order:
\* napi_get_and_clear_last_exception (313), napi_is_error (317), then
\* ToString of the function (324-328).
ExceptionSteps == <<"clear", "is_error", "fn_str">>

\* The step that follows s on the exception branch.
StepAfter(s) ==
  LET i == CHOOSE i \in 1..Len(ExceptionSteps) : ExceptionSteps[i] = s
  IN IF i = Len(ExceptionSteps) THEN "extract" ELSE ExceptionSteps[i + 1]

\* AWS_NAPI_ENSURE on a failing call: the process aborts where it stands.
Abort(cause) == fault' = cause /\ UNCHANGED <<pending, lastError, hpc, h, calls, live, log>>

\* Mutant: message and stack are logged but not destroyed.
DestroyedNone == {}

\* The native strings aws_string_destroy frees right after logging them:
\* the message (340) and the stack (354).
Destroyed == {"message", "stack"}

\* Logging what aws_string_new_from_napi extracted; the strings it allocated
\* and the handler does not destroy stay allocated.
Logged(items) ==
  /\ log' = [log EXCEPT !.items = @ \cup items]
  /\ live' = live + Cardinality((items \cap {"function", "message", "stack", "error_str"})
                                \ Destroyed)

\* A failed callback hands control back to the host: the handler returns.
Return == hpc' = "idle"

\* aws_napi_dispatch_threadsafe_function's failure branch (385-392):
\* napi_call_function fails.  A callback that threw leaves its exception
\* pending and napi_pending_exception as the last error; any other failure
\* leaves only its status.  s_handle_failed_callback(env, function, status)
\* starts.
DispatchFails ==
  /\ Running /\ hpc = "idle" /\ calls < MaxCalls
  /\ \E thrown \in Thrown, fn \in Functions, fnOk, msgOk, stackOk, errOk \in BOOLEAN :
       \E reason \in IF thrown = NoException THEN NonThrowFailures
                     ELSE {"napi_pending_exception"} :
         /\ pending' = thrown
         /\ lastError' = reason
         /\ h' = [reason |-> reason, exc |-> NoException, isError |-> FALSE,
                  fn |-> fn, fnOk |-> fnOk, msgOk |-> msgOk,
                  stackOk |-> stackOk, errOk |-> errOk]
  /\ hpc' = "query"
  /\ calls' = calls + 1
  /\ log' = [items |-> {}, code |-> "napi_ok", text |-> aws_napi_status_to_str("napi_ok")]
  /\ UNCHANGED <<live, fault>>

\* napi_is_exception_pending (298-301): answers from the env and, returning
\* napi_ok, resets the last error (napi_clear_last_error).
LastErrorAfterPendingQuery(status) == "napi_ok"

IsExceptionPending ==
  /\ Running /\ hpc = "query"
  /\ lastError' = LastErrorAfterPendingQuery(lastError)
  /\ hpc' = IF pending = NoException THEN "last_error" ELSE Head(ExceptionSteps)
  /\ UNCHANGED <<pending, h, calls, live, log, fault>>

\* No exception (302-309): napi_get_last_error_info hands back the env's
\* last error, whose code is logged as text; the handler returns.
LogLastError ==
  /\ Running /\ hpc = "last_error"
  /\ log' = [items |-> {"engine"}, code |-> lastError,
             text |-> aws_napi_status_to_str(lastError)]
  /\ Return
  /\ UNCHANGED <<pending, lastError, h, calls, live, fault>>

\* napi_get_and_clear_last_exception (312-313): takes the pending exception.
GetAndClearLastException ==
  /\ Running /\ hpc = "clear"
  /\ h' = [h EXCEPT !.exc = pending]
  /\ pending' = NoException
  /\ hpc' = StepAfter("clear")
  /\ UNCHANGED <<lastError, calls, live, log, fault>>

\* napi_is_error (316-317): no JS runs, so a pending exception does not stop it.
IsError ==
  /\ Running /\ hpc = "is_error"
  /\ h' = [h EXCEPT !.isError = h.exc \in ErrorKinds]
  /\ hpc' = StepAfter("is_error")
  /\ UNCHANGED <<pending, lastError, calls, live, log, fault>>

\* napi_coerce_to_string, napi_get_named_property: calls that run JS refuse
\* with napi_pending_exception while an exception is pending (NAPI_PREAMBLE),
\* and fail when the JS they run throws.  Either way AWS_NAPI_ENSURE aborts.
JSCallFails(throws) ==
  \/ pending # NoException /\ Abort("stale_pending")
  \/ pending = NoException /\ throws /\ Abort("threw")

CanRunJS(throws) == pending = NoException /\ ~throws

\* ToString of the function (323-328), converted with aws_string_new_from_napi
\* and logged; function_str is never destroyed.
FunctionString ==
  /\ Running /\ hpc = "fn_str"
  /\ LET throws == h.fn = "throwing_to_string" IN
     \/ JSCallFails(throws)
     \/ /\ CanRunJS(throws)
        /\ Logged(IF h.fnOk THEN {"function"} ELSE {})
        /\ hpc' = StepAfter("fn_str")
        /\ UNCHANGED <<pending, lastError, h, calls, fault>>

\* if (is_error) (331, 364): an Error has its fields reported, anything else
\* its string form.
Extract ==
  /\ Running /\ hpc = "extract"
  /\ hpc' = IF h.isError THEN "message" ELSE "error_str"
  /\ UNCHANGED <<pending, lastError, h, calls, live, log, fault>>

\* Mutant: a failed message conversion is logged but does not return.
MessageNoReturn ==
  /\ Running /\ hpc = "message"
  /\ LET throws == h.exc = "error_throwing_message" IN
     \/ JSCallFails(throws)
     \/ /\ CanRunJS(throws)
        /\ Logged(IF h.msgOk THEN {"message"} ELSE {"message_failed"})
        /\ hpc' = "stack"
        /\ UNCHANGED <<pending, lastError, h, calls, fault>>

\* Error.message (332-344): read, converted, logged and destroyed; a failed
\* conversion is logged and the handler returns.
Message ==
  /\ Running /\ hpc = "message"
  /\ LET throws == h.exc = "error_throwing_message" IN
     \/ JSCallFails(throws)
     \/ /\ CanRunJS(throws)
        /\ IF h.msgOk THEN Logged({"message"}) /\ hpc' = "stack"
           ELSE Logged({"message_failed"}) /\ Return
        /\ UNCHANGED <<pending, lastError, h, calls, fault>>

\* Error.stack (346-361): the same for the stack; the handler then returns.
Stack ==
  /\ Running /\ hpc = "stack"
  /\ LET throws == h.exc = "error_throwing_stack" IN
     \/ JSCallFails(throws)
     \/ /\ CanRunJS(throws)
        /\ Logged(IF h.stackOk THEN {"stack"} ELSE {"stack_failed"})
        /\ Return
        /\ UNCHANGED <<pending, lastError, h, calls, fault>>

\* ToString of a thrown non-Error (364-374), converted and logged; error_str
\* is never destroyed.
ErrorString ==
  /\ Running /\ hpc = "error_str"
  /\ LET throws == h.exc \in NoToString IN
     \/ JSCallFails(throws)
     \/ /\ CanRunJS(throws)
        /\ Logged(IF h.errOk THEN {"error_str"} ELSE {"error_str_failed"})
        /\ Return
        /\ UNCHANGED <<pending, lastError, h, calls, fault>>

-----------------------------------------------------------------------------

Init ==
  /\ pending = NoException
  /\ lastError = "napi_ok"
  /\ hpc = "idle"
  /\ h = [reason |-> "napi_ok", exc |-> NoException, isError |-> FALSE,
          fn |-> "plain", fnOk |-> TRUE, msgOk |-> TRUE, stackOk |-> TRUE,
          errOk |-> TRUE]
  /\ calls = 0
  /\ live = 0
  /\ log = [items |-> {}, code |-> "napi_ok", text |-> aws_napi_status_to_str("napi_ok")]
  /\ fault = "none"

\* The process has aborted, or the bound on dispatches is reached.
Terminated ==
  /\ ~Running \/ (calls = MaxCalls /\ hpc = "idle")
  /\ UNCHANGED vars

Next ==
  \/ DispatchFails \/ IsExceptionPending \/ LogLastError
  \/ GetAndClearLastException \/ IsError \/ FunctionString \/ Extract
  \/ Message \/ Stack \/ ErrorString
  \/ Terminated

Spec == Init /\ [][Next]_vars

-----------------------------------------------------------------------------
(* Properties.                                                             *)

\* Types; and a failed callback leaves at most two native strings behind
\* (function_str and error_str: message and stack are destroyed).
TypeOK ==
  /\ pending \in Thrown /\ lastError \in NapiStatus /\ hpc \in Steps
  /\ h.exc \in Thrown /\ h.fn \in Functions /\ h.isError \in BOOLEAN
  /\ calls \in 0..MaxCalls
  /\ live \in 0..(2 * calls)
  /\ log.items \subseteq LogItems /\ log.code \in NapiStatus
  /\ fault \in {"none", "threw", "stale_pending"}

\* A thrown value the handler survives is reported as far as it could be
\* extracted: for an Error its message, and its stack only when the message
\* was extracted (a failed extraction is logged and ends the report); for
\* any other value its string form.  The engine branch is taken exactly
\* when nothing was thrown.
ReportsWhatItExtracts ==
  LET c == h IN
  calls > 0 /\ hpc = "idle" /\ Running =>
    /\ ("engine" \in log.items) <=> c.exc = NoException
    /\ c.exc \in ErrorKinds =>
         /\ ("message" \in log.items) <=> c.msgOk
         /\ ("message_failed" \in log.items) <=> ~c.msgOk
         /\ ("stack" \in log.items) <=> c.msgOk /\ c.stackOk
    /\ c.exc = "primitive" => (("error_str" \in log.items) <=> c.errOk)

\* The exception the callback left pending never makes one of the handler's
\* own N-API calls fail: s_handle_failed_callback clears it (line 313) before
\* its first call that runs JS (the function's ToString, line 324), so the
\* only aborts left are conversions whose JS throws anew.
NoStalePendingFailure == fault # "stale_pending"

\* Spec property 5: when napi_call_function failed with nothing thrown, the
\* handler logs the failure's status (the extended error info of the call).
EngineErrorReported ==
  calls > 0 /\ hpc = "idle" /\ Running /\ h.exc = NoException =>
    log.code = h.reason

\* Callback failures are never promoted to process faults (spec, dispatch
\* failure policy).
NeverAborts == fault = "none"

\* Every native string the handler allocates is destroyed before it returns.
NoStringLeak == live = 0

=============================================================================
