--------------------------- MODULE ProcessContext ---------------------------
(***************************************************************************)
(* Process-wide lifecycle of src/source/module.c: the lazily resolved      *)
(* allocator (aws_napi_get_allocator), NAPI_MODULE_INIT creating the       *)
(* context and the shared event-loop group, host resolver and client       *)
(* bootstrap behind AWS_FATAL_ASSERT(x == NULL) checks, and the exports    *)
(* finalizer s_napi_context_finalize that tears them down.                 *)
(*                                                                         *)
(* Each host environment (the main thread, or a worker thread that loads   *)
(* the addon) runs NAPI_MODULE_INIT and later its finalizer on its own     *)
(* thread; the static globals are shared by all of them.                  *)
(***************************************************************************)
EXTENDS Integers, FiniteSets, TLC

CONSTANTS
  Envs,          \* host environments that load the addon
  TraceLevels,   \* possible values of AWS_CRT_MEMORY_TRACING: Unset or atoi(value)
  Unset,         \* the variable is absent
  NULL,          \* the NULL pointer
  Default,       \* aws_default_allocator()
  Garbage        \* whatever a read of freed memory returns

ASSUME TraceLevels \subseteq ({Unset} \cup Int) /\ TraceLevels # {}

ASSUME Cardinality({NULL, Default, Garbage}) = 3

AWS_MEMTRACE_NONE == 0
AWS_MEMTRACE_STACKS == 2
Kinds == {"elg", "resolver", "bootstrap"}

VARIABLES
  envVar,        \* the value of AWS_CRT_MEMORY_TRACING for this process
  s_allocator,   \* the cached allocator: NULL, Default or a tracer
  tracerLevel,   \* tracer -> the memtrace level it was created with
  tracerLive,    \* tracers created and not yet destroyed
  shared,        \* kind -> s_node_uv_elg / s_default_host_resolver /
                 \*         s_default_client_bootstrap: NULL or creating env
  live,          \* shared objects <<kind, env>> not yet released
  ctx,           \* env -> [state: "none"|"live"|"freed", allocator]
  loggerLive,    \* envs whose aws_napi_logger is alive
  pc,            \* env -> step of NAPI_MODULE_INIT / s_napi_context_finalize
  alloc,         \* env -> the allocator local of NAPI_MODULE_INIT
  loopThread,    \* env -> the managed thread of the event-loop group it created:
                 \*        "none", "running", "stopping" (group released), "exited"
  readAfterFree, \* s_napi_context_finalize read ctx->allocator after freeing ctx
  fault          \* "none" or how the process aborted: "fatal_assert",
                 \* "use_after_free", "invalid_free"

vars == <<envVar, s_allocator, tracerLevel, tracerLive, shared, live,
          ctx, loggerLive, pc, alloc, loopThread, readAfterFree, fault>>

\* A tracer allocator is named by the environment whose thread created it and
\* the call site (module init or a later aws_napi_native_memory call).
TracerIds == Envs \X {"init", "query"}
Allocators == {NULL, Default, Garbage} \cup TracerIds
InitSteps == {"start", "alloc_resolve", "alloc_return", "ctx_new",
              "elg_check", "elg_new", "resolver_check", "resolver_new",
              "bootstrap_check", "bootstrap_new"}
Steps == {"unloaded"} \cup InitSteps \cup
         {"registering", "ready", "load_failed", "fin_join", "fin_free",
          "fin_tracer", "finalized"}

TypeOK ==
  /\ envVar \in TraceLevels
  /\ s_allocator \in {NULL, Default} \cup TracerIds
  /\ DOMAIN tracerLevel \subseteq TracerIds
  /\ \A t \in DOMAIN tracerLevel : tracerLevel[t] \in AWS_MEMTRACE_NONE..AWS_MEMTRACE_STACKS
  /\ tracerLive \subseteq DOMAIN tracerLevel
  /\ shared \in [Kinds -> {NULL} \cup Envs]
  /\ live \subseteq Kinds \X Envs
  /\ ctx \in [Envs -> [state : {"none", "live", "freed"}, allocator : Allocators]]
  /\ loggerLive \subseteq Envs
  /\ pc \in [Envs -> Steps]
  /\ alloc \in [Envs -> Allocators]
  /\ loopThread \in [Envs -> {"none", "running", "stopping", "exited"}]
  /\ readAfterFree \in BOOLEAN
  /\ fault \in {"none", "fatal_assert", "use_after_free", "invalid_free"}

Init ==
  /\ envVar \in TraceLevels
  /\ s_allocator = NULL
  /\ tracerLevel = [t \in {} |-> 0] /\ tracerLive = {}
  /\ shared = [k \in Kinds |-> NULL]
  /\ live = {}
  /\ ctx = [e \in Envs |-> [state |-> "none", allocator |-> NULL]]
  /\ loggerLive = {}
  /\ pc = [e \in Envs |-> "unloaded"]
  /\ alloc = [e \in Envs |-> NULL]
  /\ loopThread = [e \in Envs |-> "none"]
  /\ readAfterFree = FALSE
  /\ fault = "none"

Running == fault = "none"

Goto(e, from, to) == pc[e] = from /\ pc' = [pc EXCEPT ![e] = to]

AllocatorLive(a) == a = Default \/ a \in tracerLive

-----------------------------------------------------------------------------
(* aws_napi_get_allocator.                                                *)

\* Mutant: the upper bound check is off by one.
ClampLevelOffByOne(level) ==
  IF level < AWS_MEMTRACE_NONE \/ level > AWS_MEMTRACE_STACKS + 1
  THEN AWS_MEMTRACE_NONE ELSE level

\* atoi(value) outside [AWS_MEMTRACE_NONE, AWS_MEMTRACE_STACKS] is reported on
\* stderr and replaced by AWS_MEMTRACE_NONE.
ClampLevel(level) ==
  IF level < AWS_MEMTRACE_NONE \/ level > AWS_MEMTRACE_STACKS
  THEN AWS_MEMTRACE_NONE ELSE level

\* The body run when s_allocator == NULL: without the environment variable the
\* default allocator is cached; otherwise a tracer wrapping it is created at
\* the clamped level (aws_mem_tracer_new, 16 frames) and cached.
ResolveAllocator(id) ==
  IF envVar = Unset
  THEN s_allocator' = Default /\ UNCHANGED <<tracerLevel, tracerLive>>
  ELSE /\ s_allocator' = id
       /\ tracerLevel' = tracerLevel @@ (id :> ClampLevel(envVar))
       /\ tracerLive' = tracerLive \cup {id}

-----------------------------------------------------------------------------
(* NAPI_MODULE_INIT, one step per access to a shared global.              *)

\* s_install_crash_handler, then aws_napi_get_allocator tests s_allocator.
\* The host loads the addon into one environment at a time, after the
\* previous one has been finalized (process.dlopen runs NAPI_MODULE_INIT
\* under its dlib_load_mutex).
ModuleInitStart(e) ==
  /\ Running
  /\ \A o \in Envs \ {e} : pc[o] \in {"unloaded", "finalized"}
  /\ IF s_allocator = NULL
     THEN Goto(e, "unloaded", "alloc_resolve") /\ UNCHANGED alloc
     ELSE Goto(e, "unloaded", "ctx_new") /\ alloc' = [alloc EXCEPT ![e] = s_allocator]
  /\ UNCHANGED <<envVar, s_allocator, tracerLevel, tracerLive, shared, live,
                 ctx, loggerLive, readAfterFree, fault, loopThread>>

\* The unset branch returns the value it assigns; the tracer branch falls
\* through to "return s_allocator", a second read of the global.
AllocResolve(e) ==
  /\ Running
  /\ ResolveAllocator(<<e, "init">>)
  /\ IF envVar = Unset
     THEN Goto(e, "alloc_resolve", "ctx_new") /\ alloc' = [alloc EXCEPT ![e] = Default]
     ELSE Goto(e, "alloc_resolve", "alloc_return") /\ UNCHANGED alloc
  /\ UNCHANGED <<envVar, shared, live, ctx, loggerLive,
                 readAfterFree, fault, loopThread>>

AllocReturn(e) ==
  /\ Running
  /\ Goto(e, "alloc_return", "ctx_new")
  /\ alloc' = [alloc EXCEPT ![e] = s_allocator]
  /\ UNCHANGED <<envVar, s_allocator, tracerLevel, tracerLive, shared, live,
                 ctx, loggerLive, readAfterFree, fault, loopThread>>

\* s_napi_context_new (calloc from the allocator, napi_wrap on exports so the
\* finalizer runs when exports is collected, aws_napi_logger_new), then the
\* aws-c-* library inits and the error-info / log-subject registrations.
ContextNew(e) ==
  /\ Running
  /\ Goto(e, "ctx_new", "elg_check")
  /\ IF AllocatorLive(alloc[e])
     THEN /\ ctx' = [ctx EXCEPT ![e] = [state |-> "live", allocator |-> alloc[e]]]
          /\ loggerLive' = loggerLive \cup {e}
          /\ UNCHANGED fault
     ELSE fault' = "use_after_free" /\ UNCHANGED <<ctx, loggerLive>>
  /\ UNCHANGED <<envVar, s_allocator, tracerLevel, tracerLive, shared, live,
                 alloc, readAfterFree, loopThread>>

CheckStep == [elg |-> "elg_check", resolver |-> "resolver_check",
              bootstrap |-> "bootstrap_check"]
NewStep == [elg |-> "elg_new", resolver |-> "resolver_new",
            bootstrap |-> "bootstrap_new"]
AfterNew == [elg |-> "resolver_check", resolver |-> "bootstrap_check",
             bootstrap |-> "registering"]

\* AWS_FATAL_ASSERT(s_node_uv_elg == NULL) and its two siblings: a global that
\* is already set aborts the process.
SharedCheck(e, kind) ==
  /\ Running
  /\ pc[e] = CheckStep[kind]
  /\ IF shared[kind] = NULL
     THEN pc' = [pc EXCEPT ![e] = NewStep[kind]] /\ UNCHANGED fault
     ELSE fault' = "fatal_assert" /\ UNCHANGED pc
  /\ UNCHANGED <<envVar, s_allocator, tracerLevel, tracerLive, shared, live,
                 ctx, loggerLive, alloc, readAfterFree, loopThread>>

\* aws_event_loop_group_new_default(allocator, 1), aws_host_resolver_new_default
\* (64 entries, on the group), aws_client_bootstrap_new (group + resolver),
\* each stored into its global (creation is asserted non-NULL).  The group
\* starts one managed thread running its event loop.
SharedNew(e, kind) ==
  /\ Running
  /\ Goto(e, NewStep[kind], AfterNew[kind])
  /\ shared' = [shared EXCEPT ![kind] = e]
  /\ live' = live \cup {<<kind, e>>}
  /\ loopThread' = IF kind = "elg" THEN [loopThread EXCEPT ![e] = "running"]
                   ELSE loopThread
  /\ UNCHANGED <<envVar, s_allocator, tracerLevel, tracerLive, ctx, loggerLive,
                 alloc, readAfterFree, fault>>

\* CREATE_AND_REGISTER_FN for every binding: a failing napi_create_function or
\* napi_set_named_property throws and NAPI_MODULE_INIT returns null, so the
\* load fails; the context stays wrapped on exports and its finalizer still
\* runs when exports is collected.  (The napi_* bind calls at the end are
\* AWS_NAPI_ENSURE and are taken to succeed.)
RegisterFunctions(e) ==
  /\ Running
  /\ \E outcome \in {"ready", "load_failed"} : Goto(e, "registering", outcome)
  /\ UNCHANGED <<envVar, s_allocator, tracerLevel, tracerLive, shared, live,
                 ctx, loggerLive, alloc, readAfterFree, fault, loopThread>>

-----------------------------------------------------------------------------
(* Callables and getters used while the module is loaded.                 *)

\* aws_napi_native_memory / aws_napi_native_memory_dump: aws_napi_get_allocator
\* (resolving again if the cache was reset) and, when it is not the default
\* allocator, aws_mem_tracer_bytes / aws_mem_tracer_dump on it.
NativeMemory(e) ==
  /\ Running /\ pc[e] = "ready"
  /\ IF s_allocator = NULL
     THEN ResolveAllocator(<<e, "query">>) /\ UNCHANGED fault
     ELSE /\ IF AllocatorLive(s_allocator) THEN UNCHANGED fault
             ELSE fault' = "use_after_free"
          /\ UNCHANGED <<s_allocator, tracerLevel, tracerLive>>
  /\ UNCHANGED <<envVar, shared, live, ctx, loggerLive, pc, alloc,
                 readAfterFree, loopThread>>

\* aws_napi_get_default_client_bootstrap, read by bindings that open a
\* connection without their own bootstrap.
UseDefaultBootstrap(e) ==
  /\ Running /\ pc[e] = "ready"
  /\ shared["bootstrap"] # NULL
  /\ fault' = IF <<"bootstrap", shared["bootstrap"]>> \in live
              THEN "none" ELSE "use_after_free"
  /\ UNCHANGED <<envVar, s_allocator, tracerLevel, tracerLive, shared, live,
                 ctx, loggerLive, pc, alloc, readAfterFree, loopThread>>

-----------------------------------------------------------------------------
(* s_napi_context_finalize, run on the environment's thread when exports  *)
(* is collected.                                                          *)

\* The objects the globals point to now (whoever created them; the
\* finalizer never resets the globals).
Released == {<<k, shared[k]>> : k \in {k \in Kinds : shared[k] # NULL}}

\* Releasing the event-loop group stops its loop: the group's managed thread
\* begins to shut down.
StopLoop(rel) ==
  loopThread' = [t \in Envs |->
                  IF <<"elg", t>> \in rel /\ loopThread[t] = "running"
                  THEN "stopping" ELSE loopThread[t]]

\* Mutant: the host resolver is not released.
FinalizeKeepsResolver(e) ==
  LET rel == {r \in Released : r[1] # "resolver"} IN
  /\ Running
  /\ pc[e] \in {"ready", "load_failed"}
  /\ pc' = [pc EXCEPT ![e] = "fin_join"]
  /\ live' = live \ rel
  /\ StopLoop(rel)
  /\ fault' = IF rel \subseteq live THEN "none" ELSE "use_after_free"
  /\ UNCHANGED <<envVar, s_allocator, tracerLevel, tracerLive, shared,
                 ctx, loggerLive, alloc, readAfterFree>>

\* Mutant: the tracer is destroyed (and the cache reset) on entry, before the
\* context that was allocated from it is freed.
FinalizeTracerFirst(e) ==
  LET a == ctx[e].allocator IN
  /\ Running
  /\ pc[e] \in {"ready", "load_failed"}
  /\ pc' = [pc EXCEPT ![e] = "fin_join"]
  /\ live' = live \ Released
  /\ StopLoop(Released)
  /\ tracerLive' = tracerLive \ {a}
  /\ s_allocator' = IF s_allocator = a /\ a # Default THEN NULL ELSE s_allocator
  /\ fault' = IF Released \subseteq live THEN "none" ELSE "use_after_free"
  /\ UNCHANGED <<envVar, tracerLevel, shared, ctx, loggerLive,
                 alloc, readAfterFree>>

\* Mutant: the event-loop group is not released.
FinalizeKeepsGroup(e) ==
  LET rel == {r \in Released : r[1] # "elg"} IN
  /\ Running
  /\ pc[e] \in {"ready", "load_failed"}
  /\ pc' = [pc EXCEPT ![e] = "fin_join"]
  /\ live' = live \ rel
  /\ fault' = IF rel \subseteq live THEN "none" ELSE "use_after_free"
  /\ UNCHANGED <<envVar, s_allocator, tracerLevel, tracerLive, shared,
                 ctx, loggerLive, alloc, readAfterFree, loopThread>>

\* s_napi_context_finalize, first part: aws_client_bootstrap_release,
\* aws_host_resolver_release and aws_event_loop_group_release on the objects
\* the globals point to now.  Releasing an object that is already released
\* touches freed memory.
s_napi_context_finalize(e) ==
  /\ Running
  /\ pc[e] \in {"ready", "load_failed"}
  /\ pc' = [pc EXCEPT ![e] = "fin_join"]
  /\ live' = live \ Released
  /\ StopLoop(Released)
  /\ fault' = IF Released \subseteq live THEN "none" ELSE "use_after_free"
  /\ UNCHANGED <<envVar, s_allocator, tracerLevel, tracerLive, shared,
                 ctx, loggerLive, alloc, readAfterFree>>

\* The managed thread of a released group finishes shutting its loop down:
\* its last frees go through the allocator the group was created with.
LoopThreadExit(t) ==
  /\ Running
  /\ loopThread[t] = "stopping"
  /\ loopThread' = [loopThread EXCEPT ![t] = "exited"]
  /\ fault' = IF AllocatorLive(alloc[t]) THEN "none" ELSE "use_after_free"
  /\ UNCHANGED <<envVar, s_allocator, tracerLevel, tracerLive, shared, live,
                 ctx, loggerLive, pc, alloc, readAfterFree>>

\* Mutant: the finalizer does not wait for the managed threads.
FinalizeNoJoin(e) ==
  /\ Running
  /\ Goto(e, "fin_join", "fin_free")
  /\ UNCHANGED <<envVar, s_allocator, tracerLevel, tracerLive, shared, live,
                 ctx, loggerLive, alloc, readAfterFree, fault,
                 loopThread>>

\* aws_thread_join_all_managed: blocks until every managed thread of the
\* process has finished -- those of other environments included.
FinalizeJoin(e) ==
  /\ Running
  /\ \A t \in Envs : loopThread[t] \notin {"running", "stopping"}
  /\ Goto(e, "fin_join", "fin_free")
  /\ UNCHANGED <<envVar, s_allocator, tracerLevel, tracerLive, shared, live,
                 ctx, loggerLive, alloc, readAfterFree, fault,
                 loopThread>>

\* Unregisters the log-subject and error-info lists, cleans up auth and mqtt
\* (external tables, no state here), destroys the logger and frees the
\* context with aws_mem_release(ctx->allocator, ctx); a free through a
\* destroyed tracer touches freed memory.
FinalizeFree(e) ==
  /\ Running
  /\ Goto(e, "fin_free", "fin_tracer")
  /\ loggerLive' = loggerLive \ {e}
  /\ ctx' = [ctx EXCEPT ![e].state = "freed"]
  /\ fault' = IF AllocatorLive(ctx[e].allocator) THEN "none" ELSE "use_after_free"
  /\ UNCHANGED <<envVar, s_allocator, tracerLevel, tracerLive, shared, live,
                 alloc, readAfterFree, loopThread>>

\* Mutant: the cached allocator is not reset after its tracer is destroyed.
FinalizeTracerNoReset(e) ==
  /\ Running
  /\ Goto(e, "fin_tracer", "finalized")
  /\ readAfterFree' = (ctx[e].state = "freed")
  /\ \E v \in {ctx[e].allocator, Garbage} :
       CASE v = Default -> UNCHANGED <<tracerLive, fault>>
         [] v \in tracerLive -> tracerLive' = tracerLive \ {v} /\ UNCHANGED fault
         [] OTHER -> fault' = "invalid_free" /\ UNCHANGED tracerLive
  /\ UNCHANGED <<s_allocator, envVar, tracerLevel, shared, live,
                 ctx, loggerLive, alloc, loopThread>>

\* The tail of the finalizer reads ctx->allocator after aws_mem_release freed
\* ctx.  The read is undefined: it yields the stored pointer or whatever the
\* allocator wrote over the freed block.  A non-default value is passed to
\* aws_mem_tracer_destroy and, when it is the cached one, s_allocator is reset.
FinalizeTracer(e) ==
  /\ Running
  /\ Goto(e, "fin_tracer", "finalized")
  /\ readAfterFree' = (ctx[e].state = "freed")
  /\ \E v \in {ctx[e].allocator, Garbage} :
       CASE v = Default ->
              UNCHANGED <<s_allocator, tracerLive, fault>>
         [] v \in tracerLive ->
              /\ tracerLive' = tracerLive \ {v}
              /\ s_allocator' = IF s_allocator = v THEN NULL ELSE s_allocator
              /\ UNCHANGED fault
         [] OTHER ->
              fault' = "invalid_free" /\ UNCHANGED <<s_allocator, tracerLive>>
  /\ UNCHANGED <<envVar, tracerLevel, shared, live, ctx,
                 loggerLive, alloc, loopThread>>

-----------------------------------------------------------------------------
Done == ~Running \/ \A e \in Envs : pc[e] \in {"unloaded", "finalized"}

Terminated == Done /\ UNCHANGED vars

Next ==
  \/ \E e \in Envs :
       \/ ModuleInitStart(e) \/ AllocResolve(e) \/ AllocReturn(e)
       \/ ContextNew(e) \/ RegisterFunctions(e)
       \/ \E k \in Kinds : SharedCheck(e, k) \/ SharedNew(e, k)
       \/ NativeMemory(e) \/ UseDefaultBootstrap(e)
       \/ s_napi_context_finalize(e) \/ FinalizeJoin(e) \/ FinalizeFree(e)
       \/ FinalizeTracer(e) \/ LoopThreadExit(e)
  \/ Terminated

\* Once the host has started an environment's finalizer, that function runs
\* to its end on the environment's thread, and the managed thread of a
\* released event-loop group finishes its shutdown.  Loading, unloading and
\* the bindings' calls are driven by the host and get no fairness.
Fairness ==
  \A e \in Envs :
    /\ WF_vars(FinalizeJoin(e)) /\ WF_vars(FinalizeFree(e))
    /\ WF_vars(FinalizeTracer(e)) /\ WF_vars(LoopThreadExit(e))

Spec == Init /\ [][Next]_vars /\ Fairness

-----------------------------------------------------------------------------
(* Properties.                                                            *)

\* The cached allocator returned by aws_napi_get_allocator is never a tracer
\* that s_napi_context_finalize has destroyed: every later allocation and
\* every aws_napi_native_memory call goes through a live allocator.
CachedAllocatorLive == s_allocator = NULL \/ AllocatorLive(s_allocator)

\* A context is never alive on an allocator that is gone: the finalizer frees
\* the context before it destroys the tracer the context came from, and no
\* other environment destroys it underneath.
ContextAllocatorLive ==
  \A e \in Envs : ctx[e].state = "live" => AllocatorLive(ctx[e].allocator)

\* Once an environment's finalizer has returned (without aborting the
\* process), nothing that environment created is left: no event-loop group,
\* resolver or bootstrap, no logger, and no tracer allocator.
TeardownReleasesAll ==
  \A e \in Envs : pc[e] = "finalized" /\ Running =>
    /\ \A k \in Kinds : <<k, e>> \notin live
    /\ e \notin loggerLive
    /\ \A t \in tracerLive : t[1] # e

\* The event-loop group's managed thread never runs, or shuts down, on an
\* allocator that is gone: the finalizer joins every managed thread
\* (aws_thread_join_all_managed) before it frees the context and destroys
\* the tracer the group allocates from.
LoopThreadAllocatorLive ==
  \A t \in Envs : loopThread[t] \in {"running", "stopping"} => AllocatorLive(alloc[t])

\* A finalizer that has released the shared objects eventually returns
\* (unless the process died): its join does not wait forever on a managed
\* thread whose event-loop group nothing will ever release.
FinalizeCompletes ==
  \A e \in Envs : pc[e] = "fin_join" ~> (pc[e] = "finalized" \/ ~Running)

\* The finalizer never reads the context after releasing its memory.
FinalizeNoReadAfterFree == ~readAfterFree

=============================================================================
