--------------------------- MODULE MCFailedCallback ---------------------------
(* Model-checking instance of FailedCallback: what a callback may throw,  *)
(* the kinds of function dispatched, and the failures with nothing thrown. *)
EXTENDS FailedCallback

AllThrown == {"nothing", "error", "error_throwing_message", "error_throwing_stack",
              "primitive", "symbol", "null_proto_object"}
Ordinary == {"nothing", "error", "primitive"}
Unconvertible == {"nothing", "primitive", "symbol"}
AllFunctions == {"plain", "throwing_to_string"}
CallFailures == {"napi_function_expected", "napi_generic_failure"}
=============================================================================
