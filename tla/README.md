# TLA+ models of the aws-crt-nodejs native bridge (`src/source/module.c`)

This directory holds TLA+ models of the part of aws-crt-nodejs that sits
between the native CRT libraries (aws-c-*) and Node.js. The bridge is one C
file, `src/source/module.c`. The protocol bindings it registers (HTTP, MQTT,
crypto, auth, IO) are in other files that are not part of `src/`. They show
up here only as users of the bridge's API.

## 1. Inventory

### Components

| Component | Code (module.c) | State it keeps | Operations |
|---|---|---|---|
| Value Marshaling | 69-200 | none of its own; a caller's `aws_byte_buf` (owned or borrowed) | `aws_byte_buf_init_from_napi`, `aws_string_new_from_napi`, `aws_napi_create_dataview_from_byte_cursor`, `aws_napi_is_null_or_undefined` |
| Diagnostic Translator | 202-205, 229-375 | none | `aws_napi_throw_last_error`, `aws_napi_status_to_str`, `s_handle_failed_callback` |
| Threadsafe Dispatch | 377-440 | the N-API thread-safe function (tsfn): `thread_count`, queue, `is_closing`, handles | create, release, acquire, unref, queue (acquire + non-blocking call), dispatch (call the JS function, then release) |
| Allocator Indirection | 442-483 | `s_allocator` (a cached global) and the tracer it may point to | `aws_napi_get_allocator`, `aws_napi_native_memory`, `aws_napi_native_memory_dump` |
| Process Context | 63-67, 207-221, 520-705 | the globals `s_node_uv_elg`, `s_default_host_resolver` and `s_default_client_bootstrap`; the per-load `aws_napi_context` (allocator and logger) wrapped on `exports`; the error and log-subject registrations | `NAPI_MODULE_INIT`, `s_napi_context_new`, `s_napi_context_finalize`, the getters |
| Crash handler, function registration | 485-518, 559-579, 631-705 | signal handlers; the exports object | `s_install_crash_handler`, `s_create_and_register_function` |

### How the components interact

- **Threads.** Native worker threads belong to the event-loop group and the
  resolver. They queue JS callbacks with `aws_napi_queue_threadsafe_function`.
  Node's host thread pops each queued call and runs the binding's `call_js`,
  which calls `aws_napi_dispatch_threadsafe_function`. The tsfn's
  `thread_count` is the reference count that keeps the function alive:
  - the owner holds one reference from creation;
  - each queue call takes one more;
  - each dispatch gives one back.
- **Shared globals.** Every host environment that loads the addon runs
  `NAPI_MODULE_INIT` on its own thread. That is the main thread, plus every
  `worker_thread` that requires the addon. All of them read and write the same
  static globals without a lock. Node's `process.dlopen` runs module init
  under its `dlib_load_mutex`, so inits never overlap each other.
- **Finalizer.** The context is wrapped on `exports`. Node's garbage collector
  (or environment teardown) runs `s_napi_context_finalize`. It releases the
  shared objects, joins the managed threads, unregisters the error and
  log-subject tables, destroys the logger, frees the context, and destroys the
  tracer allocator.
- **Fatal paths.** `AWS_NAPI_ENSURE` (defined in `module.h`, outside `src/`)
  aborts the process when an N-API call does not return `napi_ok`.
  `AWS_FATAL_ASSERT` aborts as well. The models treat both as the process
  aborting: the `fault` variable records it, and no step follows it.

### Hard behaviours

- Worker threads, the host thread and the owner interleave around the tsfn.
  The acquire and the non-blocking call are two separately locked steps.
- A JS callback can throw. The dispatch must still release its reference.
- The host environment can be torn down while native threads are still
  queueing calls.
- The globals are never reset, so a second load in the same process aborts at
  the first fatal assert.
- The finalizer reads memory it has already freed.
- The cached allocator must be reset when its tracer is destroyed.
- Borrowed and owned buffers are cleaned up through the same path.

### What makes each component correct

- **Threadsafe Dispatch**
  - References balance on every path.
  - No call runs on a closed or freed function.
  - Every queued call eventually runs.
  - The function is freed once the owner lets go.
  - Queueing never aborts the process (violated: finding 1).
  - Queueing on a NULL handle is a no-op (violated: finding 2).
- **Process Context**
  - The finalizer releases everything it created.
  - The finalizer never touches freed memory (violated: finding 3).
  - The event-loop thread is joined before its allocator goes, and the join returns.
  - A context never outlives its allocator.
- **Allocator Indirection**
  - The cached allocator is never a destroyed tracer.
- **Value Marshaling**
  - Owned buffers are freed and borrowed ones never are.
  - The byte length of a typed array equals count × element size.
  - Bytes round-trip (spec property 1).
- **Diagnostic Translator**
  - The failure handler reports what it extracts.
  - No call of the handler fails on the exception the callback left pending.
  - Failure reporting frees every string it allocates (violated: finding 5).
  - The failure path never aborts (violated: finding 6).
  - A failure with nothing thrown is logged with its status (violated: finding 7).

The hazards these properties target are listed, each at its line, under
`hazards` in `PROJECT.json`.

## 2. Modules

### `Tsfn` — Threadsafe Dispatch (module.c 377-440)

Constants:

- `Workers` — the native threads that queue calls.
- `MaxQueued` — the bound on queue attempts in a behaviour.
- `EnvTeardown` — whether the host environment may tear down the function while it is still owned.
- `QueueOnNull` — whether workers may queue on a handle that was never created.
- `MaxExtra` — how many extra references the owner may take with `aws_napi_acquire_threadsafe_function`.
- `MayUnref` — whether the owner may call `aws_napi_unref_threadsafe_function`.
- `Null`, `H` — model values for the NULL handle and the real handle.

Variables:

| Variable | What it models |
|---|---|
| `handle`, `ownerRef`, `extra` | the binding's tsfn field, its own reference, and the extra references it holds and has taken |
| `tfState`, `count`, `queue`, `closing`, `handlesClosing` | N-API's ThreadSafeFunction |
| `refed` | whether the tsfn's async handle keeps the event loop alive (`uv_ref`) |
| `wpc` | each worker's position in `aws_napi_queue_threadsafe_function` |
| `main` | the host thread: idle, or between pop and dispatch |
| `sent`, `pushed`, `delivered`, `dropped` | history: queue attempts, calls accepted, run, and drained with a NULL env |
| `fault` | the process aborted, or touched freed memory |

Actions:

| Action | Code it models |
|---|---|
| `aws_napi_create_threadsafe_function` | module.c 398-411 |
| `aws_napi_release_threadsafe_function` | module.c 413-420, NULL-safe |
| `aws_napi_acquire_threadsafe_function`, `ReleaseAcquired` | module.c 422-427 and 413-420: the owner takes up to `MaxExtra` extra references (a no-op on NULL, no reference on a closing function) and releases each one |
| `aws_napi_unref_threadsafe_function` | module.c 429-434: a no-op on NULL, otherwise `refed` becomes FALSE, and from then on the environment may end (`EnvCleanup`) while the function is owned |
| `QueueAcquire` | module.c 438: `AWS_NAPI_ENSURE(napi_acquire_threadsafe_function)` |
| `QueuePush` | module.c 439: `napi_call_threadsafe_function`, non-blocking |
| `aws_napi_dispatch_threadsafe_function(status)` | module.c 377-396: the call's outcome is a parameter, and the release happens for every outcome |
| `DispatchOne`, `Finalize`, `EnvCleanup`, `NapiRelease` | Node's ThreadSafeFunction: DispatchOne, the close callback (Finalize / EmptyQueueAndDelete), the environment cleanup hook (enabled by `EnvTeardown`, or once the handle is unref'd and the loop may run out of referenced handles), and Release |

The last row is the host environment, not this repository. It is modelled
from N-API's documented behaviour and marked `spec_modelled` in the map.

### `ProcessContext` — Process Context and Allocator Indirection (module.c 63-67, 207-221, 442-483, 520-705)

Constants:

- `Envs` — the host environments.
- `TraceLevels` — the possible values of `AWS_CRT_MEMORY_TRACING`, with `Unset` for an absent variable.

Pointer values are the model values `NULL`, `Default` and `Garbage`. A
tracer is named by the environment that created it and the call site that
created it.

An environment loads only after every other one has been finalized. Node
serialises module inits with its load lock, so two inits never interleave.
A load that overlaps another environment's use or finalizer is not
modelled: it would abort at line 603 anyway, because the finalizer never
resets the globals. Before that abort it could allocate its context from a
tracer the other environment is destroying. With loads serial, running
`FinalizeTracer`'s destroy (line 539) and reset (line 541) as one step is
harmless, since no other thread reads `s_allocator` between them.

`NAPI_MODULE_INIT` is split at every access to a shared global:

1. `ModuleInitStart`
2. `AllocResolve`
3. `AllocReturn` — the tracer branch re-reads `s_allocator`.
4. `ContextNew`
5. `SharedCheck(kind)` and `SharedNew(kind)`, for the event-loop group, the resolver and the bootstrap. Creating the group starts its managed thread (`loopThread`).
6. `RegisterFunctions` — registration may fail and make the load fail.

The finalizer takes four steps:

- `s_napi_context_finalize` models lines 520-525. It releases the bootstrap, resolver and event-loop group that the globals point to. Releasing the group sets its managed thread to `"stopping"` (`StopLoop`).
- `FinalizeJoin` models line 527, `aws_thread_join_all_managed`. It blocks until every managed thread of the process has exited.
- `FinalizeFree` models lines 529-536: the unregistrations and library cleanups (external tables, no state here), the logger, and `aws_mem_release` of the context.
- `FinalizeTracer` models lines 538-543. It reads `ctx->allocator` after the free, which is undefined behaviour. The read returns either the stored pointer or `Garbage`.

The other actions are:

- `NativeMemory` — `aws_napi_native_memory` and `aws_napi_native_memory_dump`.
- `UseDefaultBootstrap` — the getter bindings use.
- `LoopThreadExit(t)` — the managed thread of a released group finishes its shutdown. Its last frees go through the allocator the group was created with. This is aws-c-io behaviour, marked `spec_modelled` in the map.

### `Marshal` — Value Marshaling (module.c 69-190)

Host values are records: a string, ArrayBuffer or DataView with up to
`MaxLen` bytes over {0, 1}; a typed array of any of N-API's eleven element
types with 0..`MaxLen` elements over a backing store of count x
bytes-per-element bytes; and the non-convertible kinds (number, null,
undefined, plain object). A pointer value is `NULL` or `Garbage` (an
uninitialized field).

- `ElementSize` is the `switch (type_hack)` of lines 122-149, by type number.
  `BytesPerElement` is the reference table by name.
- `ByteBufInitFromNapi(v, uninit, oom)` is `aws_byte_buf_init_from_napi`.
  Strings are copied into a native buffer of length + 1 bytes through
  `napi_get_value_string_utf8` (modelled by what it does: at most
  bufsize - 1 bytes and a NUL). The binary kinds set `buffer`, `len` and
  `capacity` to the host's memory and leave `allocator` as it was (`uninit`).
- `CreateDataviewFromByteCursor(cur, fail)` is
  `aws_napi_create_dataview_from_byte_cursor`, with the host call that fails.
- Actions: `aws_string_new_from_napi(v)` (init, copy, which may fail, and
  `aws_byte_buf_clean_up`, whose allocator field starts as `NULL` or
  `Garbage`) and `aws_napi_create_dataview_from_byte_cursor(cur)`.
- State: the temporary after init, the last string and DataView results, the
  number of native temporaries never freed, and whether host memory was passed
  to `aws_mem_release`.

### `NapiStatus` and `FailedCallback` — Diagnostic Translator (module.c 229-375, 385-392)

- `NapiStatus` names each `napi_status` by its enumerator.
  `aws_napi_status_to_str` is the switch of lines 229-286. Thread-safe
  functions need N-API 4, so the `NAPI_VERSION >= 3` cases are compiled in.
  Statuses added to N-API later map to "UNKNOWN".
- `FailedCallback` models `s_handle_failed_callback` with one action per
  N-API call, in the code's order. The actions act on the env state those
  calls share: the pending JS exception (`pending`) and the last error
  (`lastError`).
  - `DispatchFails` (lines 385-392): `napi_call_function` fails. A throw
    leaves the exception pending. Any other failure leaves its status as the
    last error.
  - `IsExceptionPending` (298-301): it resets the last error to `napi_ok`
    (`LastErrorAfterPendingQuery`, N-API's behaviour).
  - `LogLastError` (302-310): logs the last error's code and returns.
  - `GetAndClearLastException` (313), `IsError` (317) and `FunctionString`
    (323-328) run in the order `ExceptionSteps` gives.
  - `Extract` (331, 364) picks the branch. `Message` (332-344) and `Stack`
    (346-361) handle an Error; `ErrorString` (363-375) handles anything else.
  - A call that runs JS (`napi_coerce_to_string`, `napi_get_named_property`)
    fails while an exception is pending (N-API's `NAPI_PREAMBLE`), or when
    its own JS throws. `AWS_NAPI_ENSURE` then aborts. `fault` records which
    of the two caused it (`JSCallFails`).
  - `Logged` adds what was logged, and counts the allocated strings the
    handler does not destroy (`Destroyed` is the message and the stack).
- Its inputs are what the host does:
  - what the callback threw: nothing, an Error, an Error whose `message` or
    whose `stack` getter throws, a primitive, a Symbol, or an object with a
    null prototype;
  - the kind of function (a plain one, or one whose `toString` throws);
  - whether each `aws_string_new_from_napi` succeeds.

### `Mailbox` — what the dispatch bridge promises

This is an abstract specification with no counterpart in the code:

- an owner opens the mailbox;
- while the owner holds it, threads accept a slot and then post a call;
- the host delivers posted calls in order;
- once nobody holds or uses the mailbox, it closes.

Delivery and closing are weakly fair. `Tsfn` defines
`MailboxState == INSTANCE Mailbox WITH ...` with this mapping:

| Mailbox | Tsfn |
|---|---|
| ownership | `ownerRef = "held"` |
| accepted slots | the items of workers between acquire and call |
| inbox | the call being dispatched, then N-API's queue |
| open | from creation until N-API frees the function |

The `tsfn` run checks `ImplementsMailbox == MailboxState!Spec` as a
`PROPERTY`. `DispatchOne`'s pop is a stutter of the mailbox.

## 3. Runs

Deadlock is checked in every run. Each module has a `Terminated` stutter for
its legitimate end: the process has aborted, or everything has been
finalized.

| Run | Config | Expect | What it shows |
|---|---|---|---|
| `tsfn` | `MCTsfn.cfg`: 3 workers, 4 queue attempts | pass | `RefAccounting`: the thread count is always 1 for the owner + 1 per acquired, queued or running call. `NoFault`, `EveryQueuedCallRuns` and `NotPinned` hold under weak fairness of the workers' second step and of the host thread. `ImplementsMailbox`: the bridge refines `Mailbox`. |
| `tsfn_hostile` | unref (so the environment may end under the owner) and NULL queue calls allowed; 3 workers, 5 queue attempts, 2 extra owner references | pass | `RefAccounting` holds up to any abort, through refusals with `napi_closing` and the drain at teardown. |
| `tsfn_teardown` | `EnvTeardown` | violation | Finding 1 |
| `tsfn_null` | queue on a never-created handle | violation | Finding 2 |
| `pc_serial` | 2 environments, one after the other; all tracing values | pass | Allocators stay live. The finalizer releases everything it created. `LoopThreadAllocatorLive`: the join comes before the free of the context and the tracer, so the event-loop thread never shuts down on a destroyed allocator. `FinalizeCompletes`: the finalizer's join always returns. A reload aborts at the fatal assert, as the spec intends. |
| `pc_uaf` | 1 environment | violation | Finding 3 |
| `marshal` | `MCMarshal.cfg`: all value kinds, up to 2 bytes / elements | pass | `StringMatchesInput`: every conversion yields exactly the value's bytes (the element-size switch included). `NoTempLeak`: the string temporary is always freed. `DataviewCopiesCursor`: a DataView is made, holding the cursor's bytes, exactly when the host allocations succeed. `TypeOK` includes `len <= capacity` for every buffer. |
| `marshal_free` | `MCMarshal_free.cfg` | violation | Finding 4 |
| `fc` | `MCFailedCallback.cfg`: 3 failing dispatches, every thrown kind and function kind | pass | `ReportsWhatItExtracts`: for a thrown value the handler logs what it could extract, and it stops at the first failed message or stack conversion. `NoStalePendingFailure`: no call of the handler fails on the exception the callback left pending, because `napi_get_and_clear_last_exception` comes before the first call that runs JS. `TypeOK` bounds the strings left behind at two per call. |
| `fc_leak` | ordinary exceptions | violation | Finding 5 |
| `fc_abort` | nothing, a primitive, or a Symbol thrown | violation | Finding 6 |
| `fc_engine` | failures with nothing thrown | violation | Finding 7 |

### Findings

1. After environment teardown closes a tsfn, a native thread's queue call
   gets `napi_closing` from acquire, and `AWS_NAPI_ENSURE` aborts the process.
2. `aws_napi_queue_threadsafe_function` (line 438) has no NULL test, unlike
   acquire, release and unref. On a handle that was never created,
   `napi_acquire_threadsafe_function` returns `napi_invalid_arg` and
   `AWS_NAPI_ENSURE` aborts. Spec property 3 says it is a no-op.
3. `s_napi_context_finalize` reads `ctx->allocator` (line 538) after
   `aws_mem_release` freed `ctx` (line 536).
4. `aws_string_new_from_napi` (line 168) calls `aws_byte_buf_clean_up` on a
   stack temporary whose `allocator` field `aws_byte_buf_init_from_napi` never
   sets for ArrayBuffer, DataView and typed-array inputs. If the field holds
   garbage, host-owned memory is passed to `aws_mem_release`.
5. `s_handle_failed_callback` never destroys `function_str` (line 325). For a
   non-Error it also never destroys `error_str` (line 368). Every throwing
   callback leaks one or two native strings.
6. A callback that throws a Symbol, or an object with a null prototype, makes
   `napi_coerce_to_string` fail at line 366, and `AWS_NAPI_ENSURE` aborts the
   process. A throwing `message` or `stack` getter, or a throwing `toString`
   on the function, does the same at lines 334, 348 and 324. The spec says
   callback failures never crash the process.
7. With nothing thrown, the handler logs error code `napi_ok` with a NULL
   message (line 303). `napi_is_exception_pending` has just cleared the last
   error, so the status `napi_call_function` failed with is never logged.
   Spec property 5 says the failure's extended error info is logged.

Seen while modelling, with no run of their own (see the hazards in
`PROJECT.json`):

- After an unref the environment may end while the binding still owns the
  function. Teardown frees the tsfn, and the binding's later
  `aws_napi_release_threadsafe_function` (line 416 tests only for NULL)
  touches freed memory. TLC reaches this in `tsfn_hostile`, which does not
  check `NoFault`.
- Tracing levels 0 and out of range still install a tracer wrapper (line
  460), not the default allocator. At `AWS_MEMTRACE_NONE` the wrapper forwards
  every call.
- Because of finding 7, `aws_napi_status_to_str`, whose
  `napi_string_expected` case says "napi_name_expected", is only ever called
  with `napi_ok` inside `src/`.

### Bounds

- **`tsfn`.** Three workers and four items cover:
  - two calls in the queue while a third worker is between its acquire and its push;
  - the owner releasing at any point.

  Every reference-count transition the code has appears within four calls.
  `tsfn_hostile` allows 5 calls and 2 extra references, so teardown can
  drain a queue holding several calls while another worker is between its
  acquire and its call. `tsfn` stays at 1 extra reference, because its
  liveness and refinement checks grow fast.
- **`pc_*`.** Two environments, loaded one after the other, cover a load
  after a finalize: the reset of the cached allocator, and the fatal assert
  on the never-reset globals. The tracing values cover absent, below 0, 0,
  1, 2 and above 2, which are the boundaries of the clamp.

- **`marshal`.** Two bytes or two elements distinguish a length from a
  length + 1 (the terminator) and a count from a count x size; every element
  type is enumerated, so each case of the switch is reached.

- **`fc`.** Three failing dispatches enumerate every combination of thrown
  kind, function kind and conversion outcome, and they accumulate leaked
  strings across calls.

### Fairness

- Each worker gets weak fairness on `QueuePush`. A native thread that has
  acquired a reference goes on to its non-blocking call.
- The host thread gets weak fairness on `DispatchOne`, on dispatch and on
  `Finalize`. Node's event loop services a signalled async handle and its
  close callback.
- The owner's release and unref, the workers' decisions to queue, and
  environment teardown get no fairness.
- In `ProcessContext`, the finalizer's join, free and tracer steps get weak
  fairness, and so does the exit of a stopping loop thread. Once the host
  calls the finalizer, it runs to its end on that thread. A released group's
  thread finishes its shutdown on its own. Loading, unloading and the
  bindings' calls are driven by the host and get no fairness. Liveness is stated relative to them: for example,
  `NotPinned` assumes the owner has released.

## 4. Not modelled (yet), and why

- `napi_tsfn_abort`: the bindings that choose it are outside `src/`, and
  Node's handling of abort is a detail of the host environment.
- The crash handler (OS signal glue) and the aws-c-* library init and cleanup
  internals: external. The finalizer cleans up auth and mqtt but never cal or
  http (lines 586-587 have no counterpart in lines 520-544). Those library
  globals are not state in the model.
- References to the event-loop group or the default bootstrap taken by
  bindings outside `src/` (connections, bootstraps): such a reference keeps
  the group's thread running, and `aws_thread_join_all_managed` would wait for
  it. `FinalizeCompletes` covers only releases made through the globals.
- Contents of log messages.
- Overlapping loads in two environments (see `ProcessContext`): Node's
  load lock serialises the inits, and any load while the globals are set
  aborts at line 603.
- Back-pressure: the tsfn is created with `max_queue_size` 0 and every
  queue call is non-blocking (line 410), so `napi_queue_full` never occurs
  and the queue has no limit. The spec's "back-pressure" does not exist. A
  finite model can only bound the number of calls (`MaxQueued`), so this is
  recorded as a hazard, not a run.
- `aws_napi_throw_last_error` (lines 202-205): it forwards aws-c-common's
  error strings to `napi_throw_error` and keeps no state.
- `FailedCallback` is not composed into `Tsfn`'s dispatch. The dispatch
  releases its reference before returning whatever the handler did, so the
  handler's only effect on the bridge is a process abort. `fc_abort` already
  shows that abort.
- `aws_napi_is_null_or_undefined` (lines 192-200): a stateless predicate
  that treats a failing `napi_typeof` as null; nothing to check beyond its
  two lines.

## 5. Plan

In order of importance:

1. **Done.** `Tsfn` and `ProcessContext` with the runs above.
2. **Done: `Marshal`.** The leak once listed at line 86 is not reachable:
   `napi_get_value_string_utf8` on a value already known to be a string does
   not fail, so it is not a hazard.
3. **Done: `FailedCallback` and `NapiStatus`.**
4. **Done: `Mailbox`** and the refinement `ImplementsMailbox`, checked in
   the `tsfn` run.
5. **Done: the owner's extra references** (`aws_napi_acquire_threadsafe_function`,
   `MaxExtra = 1`), included in `RefAccounting`, `NotPinned` and the
   mailbox's ownership.
6. **Done: unref** (`aws_napi_unref_threadsafe_function`), with
   `RefAccounting` checked under the teardown it allows.
7. **Done: `FailedCallback` step by step** against the env's pending
   exception and last error (`NoStalePendingFailure`, finding 7).
8. **Done: the finalizer's join** of the event-loop thread (`FinalizeJoin`,
   `LoopThreadExit`), with `LoopThreadAllocatorLive` and `FinalizeCompletes`.
9. **Larger instances.** Grow `fc` and `marshal` only where a new case
   appears. The run budget is used up, so new questions must go into
   existing runs.
