-------------------------- MODULE AllReduceAdapter --------------------------
(***************************************************************************)
(* The all-reduce adapters of a TP2 pair, b12x_roce_all_reduce.py and      *)
(* b12x_pcie_all_reduce.py, in the place port_roce.py and port_pcie.py     *)
(* give them in vLLM: negotiation and construction on both ranks, the      *)
(* choice of a backend for every reduction, poisoning of the transport,    *)
(* the watchdog, publication of outputs, and close().                      *)
(*                                                                         *)
(* A reduction is one turn of a rank's GPU stream; the first is the primer *)
(* of the construction.  The transport itself is external: a reduction     *)
(* that never sees its peer ends poisoned after a bounded spin, and every  *)
(* later result of that rank is garbage.  A result feeds the next inputs   *)
(* of both ranks, so garbage reaches the peer through its next reduction,  *)
(* whichever backend that takes.                                           *)
(***************************************************************************)
EXTENDS Naturals, Sequences

CONSTANTS
  Kinds,     \* transports to start: "roce", "pcie"
  Settings,  \* rows and eager settings the two ranks may be started with
  Calls,     \* the reductions a step may issue: shape, and eager or captured
  MaxSteps   \* bound on engine steps

Ranks == {0, 1}
Peer(r) == 1 - r
Output == 0                      \* the rank whose outputs are unwrapped
Shapes == {"small", "large"}     \* rows within and beyond the smaller setting

ASSUME AdapterAssumption ==
  /\ Kinds \subseteq {"roce", "pcie"}
  /\ Settings \subseteq [Ranks -> [rows : SUBSET Shapes, eager : BOOLEAN]]
  /\ Calls \subseteq Shapes \X {"eager", "captured"}
  /\ MaxSteps \in Nat \ {0}

VARIABLES
  env,       \* transport, and each rank's settings and devices
  pc,        \* main thread of the worker
  arrived,   \* collectives of the control group a rank has entered
  runtime, session,
  active,    \* ranks whose _ACTIVE holds the adapter
  closed,    \* _closed
  stop, wd,  \* _stop, and the watchdog thread
  late,      \* join(timeout=2) gave up on the watchdog
  touched,   \* the watchdog read the health of a released runtime
  round, done, \* reductions launched and finished on the GPU
  bad,       \* the runtime is poisoned
  tainted,   \* history: results of a rank that hold garbage of a rank's transport
  steps, used, \* steps of the engine; backend each rank took for them
  out, seen, \* output thread; whether its snapshot held the adapter
  pub        \* outputs published

construction == <<env, arrived>>
resources == <<runtime, session, active, closed>>
watching == <<stop, wd, late, touched>>
stream == <<round, done, bad, tainted>>
engine == <<steps, used>>
publishing == <<out, seen, pub>>
vars == <<construction, pc, resources, watching, stream, engine, publishing>>

\* What two workers can be started with; those of a PCIe pair share an environment,
\* and a rank whose flag is off reads none of the other settings.
Environments ==
  {e \in [kind : Kinds, on : [Ranks -> BOOLEAN], valid : [Ranks -> BOOLEAN],
          set : Settings, apart : BOOLEAN] :
     /\ e.kind = "pcie" => e.on[0] = e.on[1] /\ e.set[0] = e.set[1] /\ ~ e.apart
     /\ FALSE \in {e.on[0], e.on[1]} => e.valid[0] /\ e.valid[1] /\ e.set[0] = e.set[1] /\ (e.kind = "roce" => e.apart)}

Init ==
  /\ env \in Environments
  /\ pc = [r \in Ranks |-> IF env.kind = "roce" THEN "flags" ELSE "select"]
  /\ arrived = [r \in Ranks |-> {"flags"}]
  /\ runtime = [r \in Ranks |-> "none"] /\ session = [r \in Ranks |-> "none"]
  /\ active = {} /\ closed = {}
  /\ stop = {} /\ wd = [r \in Ranks |-> "none"] /\ late = {} /\ touched = {}
  /\ round = [r \in Ranks |-> 0] /\ done = [r \in Ranks |-> 0]
  /\ bad = {} /\ tainted = [r \in Ranks |-> [q \in Ranks |-> {}]]
  /\ steps = <<>> /\ used = [r \in Ranks |-> <<>>]
  /\ out = "idle" /\ seen = FALSE /\ pub = 0

Constructing == {"exchange", "plan", "compile", "barrier", "primer", "sync", "watch"}
Closing == {"stop", "join", "sync_close", "release"}
Down == Closing \cup {"gone", "dead"}
Alive(r) == pc[r] \notin {"gone", "dead"}
Met(c) == \A r \in Ranks : c \in arrived[r]
To(r, where) == pc' = [pc EXCEPT ![r] = where]
Arrive(r, c) == arrived' = [arrived EXCEPT ![r] = @ \cup {c}]

-----------------------------------------------------------------------------
(* Selection.  maybe_create_roce and the first half of the constructor.    *)

Native(r) ==
  /\ To(r, "native")
  /\ round' = [round EXCEPT ![r] = 1] /\ done' = [done EXCEPT ![r] = 1]
  /\ UNCHANGED <<bad, tainted>>

\* The flags are gathered even when this rank's is off; a mixture raises on both.
GatherFlags(r) ==
  /\ pc[r] = "flags" /\ Met("flags")
  /\ \/ /\ \A q \in Ranks : ~ env.on[q]
        /\ Native(r)
     \/ /\ \E q \in Ranks : env.on[q]
        /\ IF \A q \in Ranks : env.on[q] THEN To(r, "config") ELSE To(r, "gone")
        /\ UNCHANGED stream
  /\ UNCHANGED <<construction, resources, watching, engine, publishing>>

\* The local checks end in a record either way, so that the gather always happens.
ReadConfig(r) ==
  /\ pc[r] = "config"
  /\ To(r, "peers") /\ Arrive(r, "peers")
  /\ UNCHANGED <<env, resources, watching, stream, engine, publishing>>

\* Mutant: the eager setting is not compared.
AgreeOnRows ==
  /\ \A r \in Ranks : env.valid[r]
  /\ env.set[0].rows = env.set[1].rows
  /\ env.apart

\* No error on either side, equal rows and eager setting, two hosts and two GPUs.
Agree ==
  /\ \A r \in Ranks : env.valid[r]
  /\ env.set[0] = env.set[1]
  /\ env.apart

\* A disagreement raises before anything is constructed.
ComparePeers(r) ==
  /\ pc[r] = "peers" /\ Met("peers")
  /\ To(r, IF Agree THEN "exchange" ELSE "gone")
  /\ IF Agree THEN Arrive(r, "exchange") ELSE UNCHANGED arrived
  /\ UNCHANGED <<env, resources, watching, stream, engine, publishing>>

\* PCIe negotiates nothing: a rank that may not use it raises alone.
SelectPcie(r) ==
  /\ pc[r] = "select"
  /\ \/ ~ env.on[r] /\ Native(r) /\ UNCHANGED arrived
     \/ env.on[r] /\ ~ env.valid[r] /\ To(r, "gone") /\ UNCHANGED <<arrived, stream>>
     \/ env.on[r] /\ env.valid[r] /\ To(r, "exchange") /\ Arrive(r, "exchange") /\ UNCHANGED stream
  /\ UNCHANGED <<env, resources, watching, engine, publishing>>

-----------------------------------------------------------------------------
(* Construction.                                                            *)

\* The runtime exchanges its registrations over the group.
Exchange(r) ==
  /\ pc[r] = "exchange" /\ Met("exchange")
  /\ runtime' = [runtime EXCEPT ![r] = "open"]
  /\ To(r, "plan")
  /\ UNCHANGED <<construction, session, active, closed, watching, stream, engine, publishing>>

OpenSession(r) ==
  /\ pc[r] = "plan"
  /\ session' = [session EXCEPT ![r] = "open"]
  /\ To(r, "compile")
  /\ UNCHANGED <<construction, runtime, active, closed, watching, stream, engine, publishing>>

\* Compilation is local; the RoCE ranks meet after it, the PCIe ranks do not.
Compile(r) ==
  /\ pc[r] = "compile"
  /\ IF env.kind = "roce" THEN To(r, "barrier") /\ Arrive(r, "barrier")
                          ELSE To(r, "primer") /\ UNCHANGED arrived
  /\ UNCHANGED <<env, resources, watching, stream, engine, publishing>>

MonitoredBarrier(r) ==
  /\ pc[r] = "barrier" /\ Met("barrier")
  /\ To(r, "primer")
  /\ UNCHANGED <<construction, resources, watching, stream, engine, publishing>>

\* The primer is launched; PCIe runs it as part of each prepared row.
Primer(r) ==
  /\ pc[r] = "primer"
  /\ round' = [round EXCEPT ![r] = 1]
  /\ To(r, "sync")
  /\ UNCHANGED <<construction, resources, watching, done, bad, tainted, engine, publishing>>

\* synchronize, then check_health: only a clean primer enables the adapter.
Enable(r) ==
  /\ pc[r] = "sync" /\ done[r] = round[r]
  /\ \/ /\ r \in bad
        /\ To(r, "stop") /\ UNCHANGED active
     \/ /\ r \notin bad
        /\ To(r, IF env.kind = "roce" THEN "watch" ELSE "serving")
        /\ active' = IF env.kind = "roce" THEN active \cup {r} ELSE active
  /\ UNCHANGED <<construction, runtime, session, closed, watching, stream, engine, publishing>>

\* Mutant: only the rank that unwraps outputs is watched.
WatchOutputOnly(r) ==
  /\ pc[r] = "watch"
  /\ wd' = [wd EXCEPT ![r] = IF r = Output THEN "waiting" ELSE "ended"]
  /\ To(r, "serving")
  /\ UNCHANGED <<construction, resources, stop, late, touched, stream, engine, publishing>>

\* A thread that cannot start leaves an unstarted one for close() to join.
StartWatchdog(r) ==
  /\ pc[r] = "watch"
  /\ \/ wd' = [wd EXCEPT ![r] = "waiting"] /\ To(r, "serving")
     \/ wd' = [wd EXCEPT ![r] = "unstarted"] /\ To(r, "stop")
  /\ UNCHANGED <<construction, resources, stop, late, touched, stream, engine, publishing>>

\* An exception inside the constructor; PCIe has no handler that closes.
Fail(r) ==
  /\ pc[r] \in Constructing \ {"watch"}
  /\ To(r, IF env.kind = "roce" THEN "stop" ELSE "gone")
  /\ UNCHANGED <<construction, resources, watching, stream, engine, publishing>>

\* A collective ends in an error once the peer is gone; the barrier's 120 s may
\* run out on one rank while its peer compiles, or just passes.
GiveUp(r) ==
  /\ \/ pc[r] = "barrier"
     \/ pc[r] \in {"peers", "exchange"} /\ pc[Peer(r)] \in Down
  /\ To(r, IF env.kind = "roce" /\ pc[r] # "peers" THEN "stop" ELSE "gone")
  /\ UNCHANGED <<construction, resources, watching, stream, engine, publishing>>

Construct(r) ==
  \/ GatherFlags(r) \/ ReadConfig(r) \/ ComparePeers(r) \/ SelectPcie(r) \/ Exchange(r)
  \/ OpenSession(r) \/ Compile(r) \/ MonitoredBarrier(r) \/ Primer(r) \/ Enable(r)
  \/ StartWatchdog(r) \/ GiveUp(r)

-----------------------------------------------------------------------------
(* Serving.  Both ranks issue the same calls; a captured call is replayed   *)
(* without the Python hooks.                                                *)

\* should_custom_ar
Backend(r, c) ==
  IF pc[r] = "serving" /\ (env.set[r].eager \/ c[2] = "captured") /\ c[1] \in env.set[r].rows
    THEN env.kind ELSE "native"

\* The calls of a rank's next step: those its peer has issued already, or any.
NextCalls(r) ==
  LET n == Len(used[r]) + 1
  IN  IF n <= Len(steps) THEN {steps[n]} ELSE Calls

Issue(r, c, backend) ==
  /\ steps' = IF Len(used[r]) < Len(steps) THEN steps ELSE Append(steps, c)
  /\ used' = [used EXCEPT ![r] = Append(@, backend)]
  /\ round' = [round EXCEPT ![r] = @ + 1]
  /\ UNCHANGED <<construction, pc, resources, watching, done, bad, tainted, publishing>>

Serving(r) == pc[r] \in {"serving", "native"} /\ Len(used[r]) < MaxSteps

\* One reduction of the engine's next step.  The hooks raise on a poisoned runtime.
Launch(r) ==
  /\ Serving(r)
  /\ \E c \in NextCalls(r) :
        /\ c[2] = "eager" => r \notin bad
        /\ Issue(r, c, Backend(r, c))

Custom(r, i) == IF i = 1 THEN TRUE ELSE used[r][i - 1] = "roce"

\* The ranks whose poisoned transports have a part in r's next result: r's own, and
\* those whose garbage is in an earlier result of either rank.
Origins(r) ==
  (bad \cap {r}) \cup {q \in Ranks : \E p \in Ranks : \E i \in tainted[p][q] : i <= done[r]}

Finish(r, origins) ==
  /\ done' = [done EXCEPT ![r] = @ + 1]
  /\ tainted' = [tainted EXCEPT ![r] = [q \in Ranks |-> @[q] \cup (IF q \in origins THEN {done[r] + 1} ELSE {})]]

\* The GPU finishes a reduction its peer has come to as well.
Reduce(r) ==
  /\ Alive(r)
  /\ done[r] < round[r] /\ done[r] < round[Peer(r)] /\ done[r] <= done[Peer(r)]
  /\ Finish(r, Origins(r))
  /\ UNCHANGED <<construction, pc, resources, watching, round, bad, engine, publishing>>

\* The bounded spin of a RoCE reduction runs out, or the link fails.
Poison(r) ==
  /\ env.kind = "roce" /\ Alive(r)
  /\ done[r] < round[r] /\ Custom(r, done[r] + 1)
  /\ Finish(r, Origins(r) \cup {r})
  /\ bad' = bad \cup {r}
  /\ UNCHANGED <<construction, pc, resources, watching, round, engine, publishing>>

\* Mutant: the output is taken before its copy event.
TakeEarly ==
  /\ out = "idle" /\ Alive(Output)
  /\ pub < Len(used[Output])
  /\ out' = "check" /\ seen' = (Output \in active)
  /\ UNCHANGED <<construction, pc, resources, watching, stream, engine, pub>>

\* The output thread waits for the copy event, then takes its snapshot of _ACTIVE.
TakeOutput ==
  /\ out = "idle" /\ Alive(Output)
  /\ pub + 1 < done[Output]
  /\ out' = "check" /\ seen' = (Output \in active)
  /\ UNCHANGED <<construction, pc, resources, watching, stream, engine, pub>>

\* check_roce_health: poison raises, and the engine shuts down; else it is published.
Publish ==
  /\ out = "check" /\ Alive(Output)
  /\ IF seen /\ Output \notin closed /\ Output \in bad
       THEN /\ out' = "raised"
            /\ IF pc[Output] = "serving" THEN To(Output, "stop") ELSE UNCHANGED pc
            /\ UNCHANGED pub
       ELSE out' = "idle" /\ pub' = pub + 1 /\ UNCHANGED pc
  /\ seen' = FALSE
  /\ UNCHANGED <<construction, resources, watching, stream, engine>>

-----------------------------------------------------------------------------
(* The watchdog and the end of a rank.                                      *)

\* Event.wait ends the thread once set; else _closed and runtime are read.
Wake(r) ==
  /\ wd[r] = "waiting" /\ pc[r] # "dead"
  /\ wd' = [wd EXCEPT ![r] = IF r \in stop THEN "ended" ELSE IF r \in closed THEN "waiting" ELSE "check"]
  /\ UNCHANGED <<construction, pc, resources, stop, late, touched, stream, engine, publishing>>

\* A poisoned worker process ends with status 70.
CheckHealth(r) ==
  /\ wd[r] = "check" /\ pc[r] # "dead"
  /\ touched' = IF runtime[r] = "released" THEN touched \cup {r} ELSE touched
  /\ IF r \in bad THEN To(r, "dead") /\ UNCHANGED wd
                    ELSE wd' = [wd EXCEPT ![r] = "waiting"] /\ UNCHANGED pc
  /\ UNCHANGED <<construction, resources, stop, late, stream, engine, publishing>>

\* The executor notices a worker that ends and takes the others down, also one
\* that waits in close() for a reduction its peer never joins.
TearDown(r) ==
  /\ pc[r] \in {"serving", "native", "sync_close"}
  /\ \E q \in Ranks : pc[q] \in Down
  /\ To(r, "dead")
  /\ UNCHANGED <<construction, resources, watching, stream, engine, publishing>>

\* The engine is asked to stop.
Shutdown(r) ==
  /\ pc[r] = "serving"
  /\ To(r, "stop")
  /\ UNCHANGED <<construction, resources, watching, stream, engine, publishing>>

-----------------------------------------------------------------------------
(* close(), which destroy() and the constructor's handler call.             *)

\* PCIe has no watchdog and waits for nothing of its own.
SetStop(r) ==
  /\ pc[r] = "stop"
  /\ stop' = IF env.kind = "roce" THEN stop \cup {r} ELSE stop
  /\ To(r, IF env.kind = "roce" THEN "join" ELSE "release")
  /\ UNCHANGED <<construction, resources, wd, late, touched, stream, engine, publishing>>

Discard(r) ==
  /\ active' = active \ {r}
  /\ To(r, IF runtime[r] = "open" THEN "sync_close" ELSE "release")

\* Mutant: the thread is not waited for.
JoinNothing(r) ==
  /\ pc[r] = "join"
  /\ Discard(r)
  /\ UNCHANGED <<construction, runtime, session, closed, watching, stream, engine, publishing>>

\* join(timeout=2): over, late in a health read, or a RuntimeError for a thread
\* that never started, which leaves everything as it is.
Join(r) ==
  /\ pc[r] = "join"
  /\ \/ wd[r] \in {"none", "ended"} /\ Discard(r) /\ UNCHANGED late
     \/ wd[r] = "check" /\ Discard(r) /\ late' = late \cup {r}
     \/ wd[r] = "unstarted" /\ To(r, "gone") /\ UNCHANGED <<late, active>>
  /\ UNCHANGED <<construction, runtime, session, closed, stop, wd, touched, stream, engine, publishing>>

\* The stream is drained before anything it uses is released; a synchronize that
\* raises has nothing left to drain, and the release goes on.
Quiesce(r) ==
  /\ pc[r] = "sync_close" /\ done[r] = round[r]
  /\ To(r, "release")
  /\ UNCHANGED <<construction, resources, watching, stream, engine, publishing>>

\* session.close, then runtime.close even if it raises; the worker ends.
Release(r) ==
  /\ pc[r] = "release"
  /\ session' = [session EXCEPT ![r] = IF @ = "open" THEN "released" ELSE @]
  /\ runtime' = [runtime EXCEPT ![r] = IF @ = "open" THEN "released" ELSE @]
  /\ closed' = closed \cup {r}
  /\ To(r, "gone")
  /\ UNCHANGED <<construction, active, watching, stream, engine, publishing>>

Close(r) == SetStop(r) \/ Join(r) \/ Quiesce(r) \/ Release(r)

Gpu(r) == Reduce(r) \/ Poison(r)
Watchdog(r) == Wake(r) \/ CheckHealth(r)

Next ==
  \/ \E r \in Ranks : Construct(r) \/ Fail(r) \/ Launch(r) \/ Gpu(r) \/ Watchdog(r)
                       \/ TearDown(r) \/ Shutdown(r) \/ Close(r)
  \/ TakeOutput \/ Publish

\* Threads run, the GPU's spin is bounded, a collective ends in an error once its
\* peer is gone, and the executor watches its workers.  Nothing is fair about faults.
Fairness ==
  /\ \A r \in Ranks : /\ WF_vars(Construct(r)) /\ WF_vars(Gpu(r)) /\ WF_vars(Watchdog(r))
                       /\ WF_vars(Close(r)) /\ WF_vars(TearDown(r))
  /\ WF_vars(TakeOutput) /\ WF_vars(Publish)

Spec == Init /\ [][Next]_vars /\ Fairness

-----------------------------------------------------------------------------
(* Properties.                                                              *)

\* The two ranks take the same backend for the same call, whatever they were
\* started with: two that differ would wait for each other in two transports.
SameBackend ==
  \A i \in 1..MaxSteps :
    (\A r \in Ranks : i <= Len(used[r])) => used[0][i] = used[1][i]

\* While the adapter serves, no output is published that the output rank's own
\* transport has put garbage into (port_roce.py: the check after the copy event and
\* before the data sees the poison of this process, and of no other).
NothingTaintedPublished ==
  pc[Output] = "serving" => \A i \in tainted[Output][Output] : i > pub + 1

\* "No post-poison fallback can return untrusted data" (roce-integration.md:68): no
\* published output of the native backend holds garbage of a poisoned transport, on
\* whichever rank that is.  Not so where graphs are replayed: README.md, 4.1.
NoUntrustedFallback ==
  pc[Output] = "serving" =>
    \A q \in Ranks : \A i \in tainted[Output][q] : ~ Custom(Output, i) => i > pub + 1

\* The RoCE adapter releases nothing under a running reduction or a health read the
\* join has waited for, and when its constructor has raised it has released what it
\* opened, except under a watchdog thread that could not be started.  PCIe closes
\* session and runtime without a synchronize of its own: nothing is said of it.
CleanRelease ==
  env.kind = "roce" =>
    /\ touched \subseteq late
    /\ \A r \in Ranks :
         /\ runtime[r] = "released" => done[r] = round[r]
         /\ pc[r] = "gone" /\ wd[r] # "unstarted" =>
              runtime[r] # "open" /\ session[r] # "open" /\ r \notin active

\* Poison on either rank ends serving on both: it never turns into a fallback,
\* and a rank nobody listens to does not go on alone.
PoisonIsFatal ==
  \A r \in Ranks : r \in bad ~> [](\A q \in Ranks : pc[q] \notin {"serving", "native"})

=============================================================================
