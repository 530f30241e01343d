-------------------------------- MODULE Tsfn --------------------------------
(***************************************************************************)
(* The thread-safe function (tsfn) bridge of src/source/module.c: one     *)
(* binding owns a napi_threadsafe_function created by                      *)
(* aws_napi_create_threadsafe_function; native worker threads queue calls  *)
(* with aws_napi_queue_threadsafe_function (acquire + non-blocking call);  *)
(* the host thread pops them and runs aws_napi_dispatch_threadsafe_function*)
(* which calls the JS function and releases one reference on every path.   *)
(*                                                                         *)
(* The N-API side (thread_count, queue, is_closing, handle close and       *)
(* finalisation) is the host environment's ThreadSafeFunction and is       *)
(* modelled from its documented behaviour; the calls this repository makes *)
(* into it are modelled from module.c.                                     *)
(***************************************************************************)
EXTENDS Naturals, Sequences, SequencesExt, FiniteSets, Functions

CONSTANTS
  Workers,        \* native threads that queue calls
  MaxQueued,      \* bound on the number of queue attempts in a behaviour
  EnvTeardown,    \* whether the host environment may tear down while owned
  QueueOnNull,    \* whether workers may queue on a never-created (NULL) handle
  MaxExtra,       \* extra references the owner may take in a behaviour
  MayUnref,       \* whether the binding unrefs its function
  Null, H         \* the NULL handle and the one real handle

ASSUME MaxQueued \in Nat \ {0} /\ MaxExtra \in Nat
ASSUME EnvTeardown \in BOOLEAN /\ QueueOnNull \in BOOLEAN /\ MayUnref \in BOOLEAN
ASSUME Null # H

Items == 1..MaxQueued       \* user_data of the n-th queue attempt

VARIABLES
  handle,      \* the binding's napi_threadsafe_function field
  ownerRef,    \* "none" (never created), "held", "released"
  extra,       \* [held, taken]: extra references the owner holds / took
  tfState,     \* "unborn", "live", "deleted"   (N-API object lifetime)
  count,       \* N-API thread_count
  queue,       \* N-API queue of user_data
  closing,     \* N-API is_closing
  handlesClosing, \* N-API handles_closing: uv_close issued, Finalize pending
  refed,       \* the async handle keeps the host event loop alive (uv_ref)
  wpc,         \* per worker: [pc |-> "idle" | "acquired", item |-> n]
  main,        \* host thread: [pc |-> "idle" | "calling", item |-> n]
  sent,        \* number of queue attempts so far
  pushed,      \* history: items accepted by napi_call_threadsafe_function
  delivered,   \* history: items whose call_js ran with a live env
  dropped,     \* history: items drained by Finalize with a NULL env
     \* history: items napi_call_threadsafe_function refused (napi_closing)
  fault        \* "none" or the fatal/undefined outcome the process met

vars == <<handle, ownerRef, extra, tfState, count, queue, closing, handlesClosing,
          refed, wpc, main, sent, pushed, delivered, dropped, fault>>

Faults == {"none", "null_handle", "queue_closing", "use_after_free"}

TypeOK ==
  /\ handle \in {Null, H}
  /\ ownerRef \in {"none", "held", "released"}
  /\ extra \in [held : 0..MaxExtra, taken : 0..MaxExtra]
  /\ tfState \in {"unborn", "live", "deleted"}
  /\ count \in Nat
  /\ queue \in Seq(Items)
  /\ closing \in BOOLEAN /\ handlesClosing \in BOOLEAN /\ refed \in BOOLEAN
  /\ wpc \in [Workers -> [pc : {"idle", "acquired"}, item : 0..MaxQueued]]
  /\ main \in [pc : {"idle", "calling"}, item : 0..MaxQueued]
  /\ sent \in 0..MaxQueued
  /\ pushed \in Seq(Items) /\ delivered \in Seq(Items)
  /\ dropped \in SUBSET Items
  /\ fault \in Faults

Init ==
  /\ handle = Null
  /\ ownerRef = "none"
  /\ extra = [held |-> 0, taken |-> 0]
  /\ tfState = "unborn"
  /\ count = 0
  /\ queue = <<>>
  /\ closing = FALSE /\ handlesClosing = FALSE /\ refed = FALSE
  /\ wpc = [w \in Workers |-> [pc |-> "idle", item |-> 0]]
  /\ main = [pc |-> "idle", item |-> 0]
  /\ sent = 0
  /\ pushed = <<>> /\ delivered = <<>> /\ dropped = {}
  /\ fault = "none"

Running == fault = "none"

-----------------------------------------------------------------------------
(* N-API primitives on the live object (host environment behaviour).      *)

\* napi_release_threadsafe_function(tsfn, napi_tsfn_release): napi_invalid_arg
\* when thread_count is already 0, else thread_count--.  (Every release in
\* module.c uses napi_tsfn_release; the closing flag is set by DispatchOne.)
NapiRelease ==
  IF count = 0 THEN UNCHANGED count ELSE count' = count - 1

-----------------------------------------------------------------------------
(* Operations of the binding that owns the handle.                        *)

\* aws_napi_create_threadsafe_function: napi_create_threadsafe_function with
\* max_queue_size 0 and initial_thread_count 1 (the owner's reference).
aws_napi_create_threadsafe_function ==
  /\ Running /\ ownerRef = "none"
  /\ handle' = H /\ ownerRef' = "held"
  /\ tfState' = "live" /\ count' = 1 /\ refed' = TRUE
  /\ UNCHANGED <<extra, queue, closing, handlesClosing, wpc, main, sent,
                 pushed, delivered, dropped, fault>>

\* aws_napi_release_threadsafe_function: a no-op on a NULL handle, otherwise
\* napi_release_threadsafe_function(function, mode).  The owner drops its
\* reference once (when the binding is destroyed).
aws_napi_release_threadsafe_function ==
  /\ Running /\ ownerRef # "released"
  /\ ownerRef' = "released"
  /\ IF handle = Null
     THEN UNCHANGED <<count, fault>>
     ELSE IF tfState = "deleted"
          THEN fault' = "use_after_free" /\ UNCHANGED count
          ELSE NapiRelease /\ UNCHANGED fault
  /\ UNCHANGED <<handle, extra, tfState, queue, closing, handlesClosing, wpc, main,
                 sent, pushed, delivered, dropped, refed>>

\* aws_napi_acquire_threadsafe_function: a no-op returning napi_ok on a NULL
\* handle, otherwise napi_acquire_threadsafe_function, whose status (napi_closing
\* on a closing function, which then takes no reference) goes back to the
\* binding.  The owner takes such extra references while it has not released.
aws_napi_acquire_threadsafe_function ==
  /\ Running /\ ownerRef # "released" /\ extra.taken < MaxExtra
  /\ CASE handle = Null ->
            extra' = [extra EXCEPT !.taken = @ + 1] /\ UNCHANGED <<count, fault>>
       [] tfState = "deleted" ->
            fault' = "use_after_free" /\ UNCHANGED <<count, extra>>
       [] closing ->
            extra' = [extra EXCEPT !.taken = @ + 1] /\ UNCHANGED <<count, fault>>
       [] OTHER ->
            /\ count' = count + 1
            /\ extra' = [held |-> extra.held + 1, taken |-> extra.taken + 1]
            /\ UNCHANGED fault
  /\ UNCHANGED <<handle, ownerRef, tfState, queue, closing, handlesClosing, wpc,
                 main, sent, pushed, delivered, dropped, refed>>

\* aws_napi_release_threadsafe_function on an extra reference the owner took.
ReleaseAcquired ==
  /\ Running /\ extra.held > 0
  /\ extra' = [extra EXCEPT !.held = @ - 1]
  /\ IF tfState = "deleted"
     THEN fault' = "use_after_free" /\ UNCHANGED count
     ELSE NapiRelease /\ UNCHANGED fault
  /\ UNCHANGED <<handle, ownerRef, tfState, queue, closing, handlesClosing, wpc,
                 main, sent, pushed, delivered, dropped, refed>>

\* aws_napi_unref_threadsafe_function, on the host thread: a no-op on a NULL
\* handle, otherwise napi_unref_threadsafe_function, after which the tsfn's
\* async handle no longer keeps the host event loop alive.
aws_napi_unref_threadsafe_function ==
  /\ Running /\ MayUnref /\ ownerRef # "released"
  /\ CASE handle = Null -> UNCHANGED <<refed, fault>>
       [] tfState = "deleted" -> fault' = "use_after_free" /\ UNCHANGED refed
       [] OTHER -> refed' = FALSE /\ UNCHANGED fault
  /\ UNCHANGED <<handle, ownerRef, extra, tfState, count, queue, closing,
                 handlesClosing, wpc, main, sent, pushed, delivered, dropped>>

-----------------------------------------------------------------------------
(* aws_napi_queue_threadsafe_function, run by a native worker thread.     *)
(* Step 1: AWS_NAPI_ENSURE(napi_acquire_threadsafe_function(function)).    *)
(* AWS_NAPI_ENSURE aborts the process when the call does not return        *)
(* napi_ok; acquire on NULL aborts, acquire on a closing tsfn returns      *)
(* napi_closing.  Workers queue while the owner holds its reference (the   *)
(* contract of the binding); with QueueOnNull they also queue on a handle  *)
(* that was never created, which the spec says is a no-op.                 *)
\* Mutant: the queue call forgets to take its reference (no acquire).
QueueAcquireNoRef(w) ==
  /\ Running /\ wpc[w].pc = "idle" /\ sent < MaxQueued
  /\ ownerRef = "held" /\ handle # Null
  /\ sent' = sent + 1
  /\ IF tfState = "deleted"
     THEN fault' = "use_after_free" /\ UNCHANGED wpc
     ELSE wpc' = [wpc EXCEPT ![w] = [pc |-> "acquired", item |-> sent + 1]]
          /\ UNCHANGED fault
  /\ UNCHANGED <<count, handle, ownerRef, extra, tfState, queue, closing,
                 handlesClosing, main, pushed, delivered, dropped, refed>>

\* Mutant: user_data numbered from 0 (off by one).
QueueAcquireOffByOne(w) ==
  /\ Running /\ wpc[w].pc = "idle" /\ sent < MaxQueued
  /\ ownerRef = "held" /\ handle # Null /\ tfState = "live" /\ ~closing
  /\ sent' = sent + 1
  /\ count' = count + 1
  /\ wpc' = [wpc EXCEPT ![w] = [pc |-> "acquired", item |-> sent]]
  /\ UNCHANGED <<fault, handle, ownerRef, extra, tfState, queue, closing,
                 handlesClosing, main, pushed, delivered, dropped, refed>>

QueueAcquire(w) ==
  /\ Running /\ wpc[w].pc = "idle" /\ sent < MaxQueued
  /\ \/ ownerRef = "held"
     \/ QueueOnNull /\ handle = Null
  /\ sent' = sent + 1
  /\ CASE handle = Null ->
            fault' = "null_handle" /\ UNCHANGED <<count, wpc>>
       [] tfState = "deleted" ->
            fault' = "use_after_free" /\ UNCHANGED <<count, wpc>>
       [] closing ->
            fault' = "queue_closing" /\ UNCHANGED <<count, wpc>>
       [] OTHER ->
            /\ count' = count + 1
            /\ wpc' = [wpc EXCEPT ![w] = [pc |-> "acquired", item |-> sent + 1]]
            /\ UNCHANGED fault
  /\ UNCHANGED <<handle, ownerRef, extra, tfState, queue, closing, handlesClosing,
                 main, pushed, delivered, dropped, refed>>

\* Step 2: napi_call_threadsafe_function(function, user_data, nonblocking).
\* On a closing tsfn N-API drops the caller's reference (napi_invalid_arg if
\* thread_count is already 0) and returns napi_closing; otherwise the item is queued (the queue is unbounded).
QueuePush(w) ==
  /\ Running /\ wpc[w].pc = "acquired"
  /\ wpc' = [wpc EXCEPT ![w] = [pc |-> "idle", item |-> 0]]
  /\ CASE tfState = "deleted" ->
            fault' = "use_after_free" /\ UNCHANGED <<count, queue, pushed>>
       [] closing ->
            NapiRelease /\ UNCHANGED <<queue, pushed, fault>>
       [] OTHER ->
            /\ queue' = Append(queue, wpc[w].item)
            /\ pushed' = Append(pushed, wpc[w].item)
            /\ UNCHANGED <<count, fault>>
  /\ UNCHANGED <<handle, ownerRef, extra, tfState, closing, handlesClosing, main,
                 sent, delivered, dropped, refed>>

-----------------------------------------------------------------------------
(* The host thread.                                                       *)

\* ThreadSafeFunction::DispatchOne, run when the async handle fires: pop the
\* head of the queue and hand it to call_js; when the queue is (then) empty
\* and thread_count is 0, set is_closing and close the handles.
DispatchOne ==
  /\ Running /\ main.pc = "idle" /\ tfState = "live" /\ ~closing
  /\ \/ /\ queue # <<>>
        /\ main' = [pc |-> "calling", item |-> Head(queue)]
        /\ queue' = Tail(queue)
        /\ IF Len(queue) = 1 /\ count = 0
           THEN closing' = TRUE /\ handlesClosing' = TRUE
           ELSE UNCHANGED <<closing, handlesClosing>>
     \/ /\ queue = <<>> /\ count = 0
        /\ closing' = TRUE /\ handlesClosing' = TRUE
        /\ UNCHANGED <<main, queue>>
  /\ UNCHANGED <<handle, ownerRef, extra, tfState, count, wpc, sent, pushed,
                 delivered, dropped, fault, refed>>

\* aws_napi_dispatch_threadsafe_function, called from call_js with a live env:
\* napi_call_function either returns napi_ok or fails (the callback threw, or
\* the engine failed) and s_handle_failed_callback logs it; either way the
\* reference taken by the queue call is released with napi_tsfn_release.
\* Mutant: the reference is released only when the call succeeded.
DispatchReleaseOnSuccess(call_status) ==
  /\ Running /\ main.pc = "calling"
  /\ IF call_status = "napi_ok" THEN NapiRelease ELSE UNCHANGED count
  /\ delivered' = Append(delivered, main.item)
  /\ main' = [pc |-> "idle", item |-> 0]
  /\ UNCHANGED <<handle, ownerRef, extra, tfState, queue, closing, handlesClosing,
                 wpc, sent, pushed, dropped, fault, refed>>

\* Mutant: the failure path releases too (s_handle_failed_callback and the
\* dispatcher each drop a reference).
DispatchDoubleRelease(call_status) ==
  /\ Running /\ main.pc = "calling"
  /\ count' = IF call_status = "napi_ok" THEN count - 1
              ELSE IF count >= 2 THEN count - 2 ELSE 0
  /\ delivered' = Append(delivered, main.item)
  /\ main' = [pc |-> "idle", item |-> 0]
  /\ UNCHANGED <<handle, ownerRef, extra, tfState, queue, closing, handlesClosing,
                 wpc, sent, pushed, dropped, fault, refed>>

aws_napi_dispatch_threadsafe_function(call_status) ==
  /\ Running /\ main.pc = "calling"
  /\ NapiRelease
  /\ delivered' = Append(delivered, main.item)
  /\ main' = [pc |-> "idle", item |-> 0]
  /\ UNCHANGED <<handle, ownerRef, extra, tfState, queue, closing, handlesClosing,
                 wpc, sent, pushed, dropped, fault, refed>>

CallStatus == {"napi_ok", "napi_pending_exception", "napi_generic_failure"}

\* The close callback of the async handle: ThreadSafeFunction::Finalize and
\* EmptyQueueAndDelete.  Items still queued reach call_js with a NULL env
\* (AWS_CRT_NODEJS_ERROR_THREADSAFE_FUNCTION_NULL_NAPI_ENV); the object is freed.
Finalize ==
  /\ Running /\ main.pc = "idle" /\ tfState = "live" /\ handlesClosing
  /\ dropped' = dropped \cup ToSet(queue)
  /\ queue' = <<>>
  /\ tfState' = "deleted"
  /\ UNCHANGED <<handle, ownerRef, extra, count, closing, handlesClosing, wpc, main,
                 sent, pushed, delivered, fault, refed>>

\* ThreadSafeFunction::Cleanup, the environment's cleanup hook: the host
\* environment is torn down while the binding still owns the function --
\* terminated (EnvTeardown), or ended because its event loop ran out of
\* referenced handles once the function was unref'd.
EnvCleanup ==
  /\ Running /\ (EnvTeardown \/ ~refed) /\ main.pc = "idle"
  /\ tfState = "live" /\ ~handlesClosing
  /\ closing' = TRUE /\ handlesClosing' = TRUE
  /\ UNCHANGED <<handle, ownerRef, extra, tfState, count, queue, wpc, main, sent,
                 pushed, delivered, dropped, fault, refed>>

-----------------------------------------------------------------------------
\* The system has stopped: the process died, or the owner is gone, the
\* function is freed (or was never created) and no worker is mid-call.
Done ==
  \/ ~Running
  \/ /\ ownerRef = "released" /\ extra.held = 0 /\ tfState # "live"
     /\ \A w \in Workers : wpc[w].pc = "idle"

Terminated == Done /\ UNCHANGED vars

Next ==
  \/ aws_napi_create_threadsafe_function
  \/ aws_napi_release_threadsafe_function
  \/ aws_napi_acquire_threadsafe_function
  \/ ReleaseAcquired
  \/ aws_napi_unref_threadsafe_function
  \/ \E w \in Workers : QueueAcquire(w) \/ QueuePush(w)
  \/ DispatchOne
  \/ \E s \in CallStatus : aws_napi_dispatch_threadsafe_function(s)
  \/ Finalize
  \/ EnvCleanup
  \/ Terminated

\* Native threads run to the end of a queue call once started, and the host
\* event loop services the tsfn's async handle whenever it is signalled.
Fairness ==
  /\ \A w \in Workers : WF_vars(QueuePush(w))
  /\ WF_vars(DispatchOne)
  /\ WF_vars(\E s \in CallStatus : aws_napi_dispatch_threadsafe_function(s))
  /\ WF_vars(Finalize)

Spec == Init /\ [][Next]_vars /\ Fairness

-----------------------------------------------------------------------------
(* Properties.                                                            *)

Acquired == {w \in Workers : wpc[w].pc = "acquired"}

\* Reference balance of aws_napi_queue_threadsafe_function and
\* aws_napi_dispatch_threadsafe_function: while the function is alive its
\* thread_count is exactly the owner's reference, plus the extra references
\* it took and has not released, plus one per call that is
\* acquired, queued or being dispatched -- so no path (a throwing callback
\* included) leaks or double-releases a reference.
RefAccounting ==
  tfState = "live" =>
    count = (IF ownerRef = "held" THEN 1 ELSE 0) + extra.held
            + Cardinality(Acquired) + Len(queue)
            + (IF main.pc = "calling" THEN 1 ELSE 0)

\* No queue, dispatch or release of module.c ever aborts the process or
\* touches a freed function: a NULL handle is never acquired, a closing
\* function is never acquired under AWS_NAPI_ENSURE, and nothing runs on a
\* function N-API has already deleted.
NoFault == fault = "none"

\* A native thread that queues a call while the host environment tears the
\* function down gets a failure status, never a process abort (only setup
\* invariant violations are fatal).
QueueNeverFatal == fault # "queue_closing"

\* aws_napi_queue_threadsafe_function on a function that was never created
\* (a NULL napi_threadsafe_function) is a no-op returning success, as the
\* spec states for every thread-safe-function wrapper: queueing on it never
\* aborts the process.
NullQueueIsNoOp == fault # "null_handle"

\* Every aws_napi_queue_threadsafe_function call that has taken its
\* reference eventually runs its callback on the host thread, exactly as
\* queued: the function is not closed or freed under a call in flight.
EveryQueuedCallRuns ==
  \A w \in Workers, i \in Items :
    (wpc[w] = [pc |-> "acquired", item |-> i]) ~> (i \in ToSet(delivered))

\* The bridge implements the Mailbox: the owner's reference is the mailbox's
\* ownership, a worker between acquire and call holds an accepted slot, the
\* call being dispatched followed by N-API's queue is the inbox, and the
\* function is open from creation until N-API frees it.  So calls are run
\* once each, in the order napi_call_threadsafe_function queued them, never
\* after the function is freed, and the function is freed only once the
\* owner and every queued call are done with it.
MailboxState == INSTANCE Mailbox WITH
  Calls     <- Items,
  mbox      <- CASE tfState = "unborn" -> "unborn"
                 [] tfState = "live"   -> "open"
                 [] OTHER              -> "closed",
  owned     <- ownerRef = "held" \/ extra.held > 0,
  accepted  <- {wpc[w].item : w \in Acquired},
  inbox     <- (IF main.pc = "calling" THEN <<main.item>> ELSE <<>>) \o queue,
  delivered <- delivered

ImplementsMailbox == MailboxState!Spec

\* Once the owner has released its reference and every extra one it took,
\* the function is not pinned:
\* N-API eventually closes and frees it.
NotPinned == (ownerRef = "released" /\ extra.held = 0) ~> (tfState # "live")

=============================================================================
