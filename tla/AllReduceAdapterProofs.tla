----------------------- MODULE AllReduceAdapterProofs -----------------------
(***************************************************************************)
(* The all-reduce adapters, for every setting, sequence of calls and       *)
(* number of steps: the ranks take one backend, no output with garbage of  *)
(* the output rank's own transport is published, and the RoCE close()      *)
(* releases nothing in use and leaves nothing open.                        *)
(***************************************************************************)
EXTENDS AllReduceAdapter, TLAPS

Unbuilt == {"flags", "config", "peers", "select"}
Unprimed == Unbuilt \cup {"exchange", "plan", "compile", "barrier", "primer"}
Places == Unprimed \cup {"native", "sync", "watch", "serving"} \cup Down

PlacesOK ==
  /\ pc \in [Ranks -> Places]
  /\ runtime \in [Ranks -> {"none", "open", "released"}]
  /\ session \in [Ranks -> {"none", "open", "released"}]
  /\ wd \in [Ranks -> {"none", "waiting", "check", "unstarted", "ended"}]

StreamOK ==
  /\ round \in [Ranks -> Nat] /\ done \in [Ranks -> Nat]
  /\ tainted \in [Ranks -> [Ranks -> SUBSET Nat]] /\ pub \in Nat

\* The environment, which nothing changes, and the calls.
CallsOK ==
  /\ env.kind \in {"roce", "pcie"}
  /\ env.kind = "pcie" => env.on[0] = env.on[1] /\ env.set[0] = env.set[1]
  /\ steps \in Seq(Calls) /\ used \in [Ranks -> Seq({"roce", "pcie", "native"})]

\* The places of a rank, named once.
LEMMA AllPlaces ==
  /\ Places = Unprimed \cup {"native", "sync", "watch", "serving", "stop", "join", "sync_close", "release", "gone", "dead"}
  /\ Unprimed = {"flags", "config", "peers", "select", "exchange", "plan", "compile", "barrier", "primer"}
  /\ Output \in Ranks
BY DEF Places, Unprimed, Unbuilt, Down, Closing, Output, Ranks

\* What the end of a reduction adds, and to which rank.
LEMMA FinishAdds ==
  ASSUME StreamOK, NEW r \in Ranks, NEW origins, Finish(r, origins)
  PROVE  /\ done' = [done EXCEPT ![r] = @ + 1]
         /\ tainted' \in [Ranks -> [Ranks -> SUBSET Nat]]
         /\ \A q \in Ranks : tainted'[q][Output] \subseteq tainted[q][Output] \cup {done[r] + 1}
         /\ Output \notin origins => \A q \in Ranks : tainted'[q][Output] = tainted[q][Output]
         /\ r # Output => tainted'[Output] = tainted[Output]
<1> DEFINE row == [q \in Ranks |-> tainted[r][q] \cup (IF q \in origins THEN {done[r] + 1} ELSE {})]
<1>1. /\ tainted \in [Ranks -> [Ranks -> SUBSET Nat]] /\ done[r] + 1 \in Nat /\ Output \in Ranks
      /\ done' = [done EXCEPT ![r] = @ + 1] /\ tainted' = [tainted EXCEPT ![r] = row]
  BY AllPlaces DEF StreamOK, Finish
<1>2. row \in [Ranks -> SUBSET Nat] /\ row[Output] = tainted[r][Output] \cup (IF Output \in origins THEN {done[r] + 1} ELSE {})
  BY <1>1
<1>3. tainted'[r] = row /\ \A q \in Ranks : q # r => tainted'[q] = tainted[q]
  BY <1>1
<1> HIDE DEF row
<1>4. QED
  BY <1>1, <1>2, <1>3

\* Every step keeps the places and what they stand for.
LEMMA PlacesKept ==
  ASSUME PlacesOK, Next
  PROVE  PlacesOK'
<1> USE AllPlaces DEF PlacesOK, resources, watching, To
<1>1. ASSUME NEW r \in Ranks, GatherFlags(r) \/ ReadConfig(r) \/ ComparePeers(r) \/ SelectPcie(r)
      PROVE  PlacesOK'
  BY <1>1 DEF GatherFlags, ReadConfig, ComparePeers, SelectPcie, Native
<1>2. ASSUME NEW r \in Ranks, Exchange(r) \/ OpenSession(r) \/ Compile(r) \/ MonitoredBarrier(r) \/ Primer(r)
      PROVE  PlacesOK'
  BY <1>2 DEF Exchange, OpenSession, Compile, MonitoredBarrier, Primer
<1>3. ASSUME NEW r \in Ranks, Enable(r) \/ StartWatchdog(r) \/ GiveUp(r) \/ Fail(r)
      PROVE  PlacesOK'
  BY <1>3 DEF Enable, StartWatchdog, GiveUp, Fail
<1>4. ASSUME NEW r \in Ranks, Launch(r) \/ Reduce(r) \/ Poison(r)
      PROVE  PlacesOK'
  BY <1>4 DEF Launch, Issue, Reduce, Poison
<1>5. ASSUME NEW r \in Ranks, Wake(r) \/ CheckHealth(r) \/ TearDown(r) \/ Shutdown(r)
      PROVE  PlacesOK'
  BY <1>5 DEF Wake, CheckHealth, TearDown, Shutdown
<1>6. ASSUME NEW r \in Ranks, Close(r)
      PROVE  PlacesOK'
  BY <1>6 DEF Close, SetStop, Join, Discard, Quiesce, Release
<1>7. CASE TakeOutput \/ Publish
  BY <1>7 DEF TakeOutput, Publish
<1>8. QED
  BY <1>1, <1>2, <1>3, <1>4, <1>5, <1>6, <1>7 DEF Next, Construct, Gpu, Watchdog

\* Every step keeps the shape of the streams.
LEMMA StreamKept ==
  ASSUME StreamOK, Next
  PROVE  StreamOK'
<1> USE DEF StreamOK, stream, publishing
<1>1. ASSUME NEW r \in Ranks, GatherFlags(r) \/ SelectPcie(r)
      PROVE  StreamOK'
  BY <1>1 DEF GatherFlags, SelectPcie, Native
<1>2. ASSUME NEW r \in Ranks, Primer(r)
      PROVE  StreamOK'
  BY <1>2 DEF Primer
<1>3. ASSUME NEW r \in Ranks, Launch(r)
      PROVE  StreamOK'
  BY <1>3 DEF Launch, Issue
<1>4. ASSUME NEW r \in Ranks, Reduce(r) \/ Poison(r)
      PROVE  StreamOK'
  <2>1. UNCHANGED <<round, pub>> /\ \E origins : Finish(r, origins)
    BY <1>4 DEF Reduce, Poison
  <2>2. QED
    BY <2>1, FinishAdds
<1>5. ASSUME NEW r \in Ranks, \/ ReadConfig(r) \/ ComparePeers(r) \/ Exchange(r) \/ OpenSession(r) \/ Compile(r)
                              \/ MonitoredBarrier(r) \/ Enable(r) \/ StartWatchdog(r) \/ GiveUp(r) \/ Fail(r)
                              \/ Wake(r) \/ CheckHealth(r) \/ TearDown(r) \/ Shutdown(r) \/ Close(r)
      PROVE  StreamOK'
  BY <1>5 DEF ReadConfig, ComparePeers, Exchange, OpenSession, Compile, MonitoredBarrier, Enable, StartWatchdog,
              GiveUp, Fail, Wake, CheckHealth, TearDown, Shutdown, Close, SetStop, Join, Quiesce, Release
<1>6. CASE TakeOutput \/ Publish
  <2>1. UNCHANGED <<round, done, tainted>> /\ pub' \in {pub, pub + 1}
    BY <1>6 DEF TakeOutput, Publish
  <2>2. QED
    BY <2>1
<1>7. QED
  BY <1>1, <1>2, <1>3, <1>4, <1>5, <1>6 DEF Next, Construct, Gpu, Watchdog

\* Only a launch adds a call to the common sequence.
LEMMA OnlyLaunchIssues ==
  ASSUME Next, ~ \E r \in Ranks : Launch(r)
  PROVE  UNCHANGED <<env, steps, used>>
BY DEF Next, Construct, Gpu, Watchdog, Close, construction, engine, GatherFlags, ReadConfig, ComparePeers, SelectPcie,
       Exchange, OpenSession, Compile, MonitoredBarrier, Primer, Enable, StartWatchdog, GiveUp, Fail, Reduce, Poison,
       Wake, CheckHealth, TearDown, Shutdown, SetStop, Join, Quiesce, Release, TakeOutput, Publish

\* Every step keeps the types of the calls and of what they used.
LEMMA CallsKept ==
  ASSUME CallsOK, Next
  PROVE  CallsOK'
<1>1. ASSUME NEW r \in Ranks, Launch(r)
      PROVE  CallsOK'
  <2>1. PICK c \in NextCalls(r) : Issue(r, c, Backend(r, c))
    BY <1>1 DEF Launch
  <2>2. c \in Calls
    BY <2>1 DEF NextCalls, CallsOK
  <2>3. Backend(r, c) \in {"roce", "pcie", "native"}
    BY DEF Backend, CallsOK
  <2>4. steps' \in Seq(Calls)
    BY <2>1, <2>2 DEF Issue, CallsOK
  <2>5. used' \in [Ranks -> Seq({"roce", "pcie", "native"})]
    BY <2>1, <2>3 DEF Issue, CallsOK
  <2>6. QED
    BY <2>1, <2>4, <2>5 DEF Issue, CallsOK, construction
<1>2. CASE UNCHANGED <<env, steps, used>>
  BY <1>2 DEF CallsOK
<1>3. QED
  BY <1>1, <1>2, OnlyLaunchIssues

-----------------------------------------------------------------------------
(* The two ranks take the same backend.                                     *)

\* The backend of a call, from the settings alone.
Choice(r, c) ==
  IF env.on[r] /\ (env.set[r].eager \/ c[2] = "captured") /\ c[1] \in env.set[r].rows
    THEN env.kind ELSE "native"

\* Both flags are off, or both are on and the settings are equal.
NoneOn == \A r \in Ranks : ~ env.on[r]
AllOn == \A r \in Ranks : env.on[r]
Agreed == NoneOn \/ (AllOn /\ env.set[0] = env.set[1])

\* What the settings allow at a place: past the comparison they are agreed, and
\* the native backend is for the ranks whose flags are off.
Allowed(r, place) ==
  /\ place = "select" => env.kind = "pcie"
  /\ place \in {"config", "peers"} => AllOn
  /\ place \notin Unbuilt \cup {"gone", "dead"} => Agreed /\ (env.on[r] <=> place # "native")

\* A rank's record of backends is the settings'.
Agreement ==
  \A r \in Ranks :
    /\ Allowed(r, pc[r])
    /\ used[r] # <<>> => Agreed
    /\ Len(used[r]) <= Len(steps)
    /\ \A i \in 1..Len(used[r]) : used[r][i] = Choice(r, steps[i])

AgreementInv == PlacesOK /\ CallsOK /\ Agreement

\* The agreement invariant holds before construction.
LEMMA AgreementInitially ==
  ASSUME Init
  PROVE  AgreementInv
<1>1. PlacesOK
  BY AllPlaces DEF Init, PlacesOK
<1>2. CallsOK
  <2>1. env \in Environments /\ steps = <<>> /\ used = [r \in Ranks |-> <<>>]
    BY DEF Init
  <2>2. /\ env.kind \in Kinds
        /\ env.kind = "pcie" => env.on[0] = env.on[1] /\ env.set[0] = env.set[1]
    BY <2>1 DEF Environments
  <2>3. Kinds \subseteq {"roce", "pcie"} /\ steps \in Seq(Calls)
    BY <2>1, AdapterAssumption
  <2>4. used \in [Ranks -> Seq({"roce", "pcie", "native"})]
    BY <2>1
  <2>5. QED
    BY <2>2, <2>3, <2>4 DEF CallsOK
<1>3. \A r \in Ranks : Allowed(r, pc[r])
  BY <1>2 DEF Init, Allowed, Unbuilt, CallsOK
<1>4. Agreement
  BY <1>3 DEF Init, Agreement
<1>5. QED
  BY <1>1, <1>2, <1>4 DEF AgreementInv

\* A step takes a rank only to a place that its configuration allows.
LEMMA StaysAllowed ==
  ASSUME AgreementInv, Next, NEW q \in Ranks
  PROVE  Allowed(q, pc'[q])
<1>0. /\ CallsOK /\ pc \in [Ranks -> Places]
      /\ \A r \in Ranks : Allowed(r, pc[r])
  BY DEF AgreementInv, PlacesOK, Agreement
<1> USE <1>0, AllPlaces DEF To, Unbuilt
<1>1. ASSUME NEW r \in Ranks, GatherFlags(r)
      PROVE  Allowed(q, pc'[q])
  BY <1>1 DEF GatherFlags, Native, Allowed, NoneOn, AllOn, Agreed
<1>2. ASSUME NEW r \in Ranks, ReadConfig(r) \/ ComparePeers(r)
      PROVE  Allowed(q, pc'[q])
  BY <1>2 DEF ReadConfig, ComparePeers, Agree, Allowed, AllOn, Agreed
<1>3. ASSUME NEW r \in Ranks, SelectPcie(r)
      PROVE  Allowed(q, pc'[q])
  <2>1. (env.on[r] => AllOn) /\ (~ env.on[r] => NoneOn) /\ env.set[0] = env.set[1]
    BY <1>3 DEF SelectPcie, Allowed, AllOn, NoneOn, Ranks, CallsOK
  <2>2. QED
    BY <1>3, <2>1 DEF SelectPcie, Native, Allowed, Agreed
<1>4. ASSUME NEW r \in Ranks, Exchange(r) \/ OpenSession(r) \/ Compile(r) \/ MonitoredBarrier(r) \/ Primer(r)
      PROVE  Allowed(q, pc'[q])
  BY <1>4 DEF Exchange, OpenSession, Compile, MonitoredBarrier, Primer, Allowed
<1>5. ASSUME NEW r \in Ranks, Enable(r) \/ StartWatchdog(r) \/ GiveUp(r) \/ Fail(r)
      PROVE  Allowed(q, pc'[q])
  BY <1>5 DEF Enable, StartWatchdog, GiveUp, Fail, Constructing, Allowed
<1>6. ASSUME NEW r \in Ranks, Launch(r) \/ Reduce(r) \/ Poison(r) \/ Wake(r)
      PROVE  Allowed(q, pc'[q])
  BY <1>6 DEF Launch, Issue, Reduce, Poison, Wake
<1>7. ASSUME NEW r \in Ranks, CheckHealth(r) \/ TearDown(r) \/ Shutdown(r)
      PROVE  Allowed(q, pc'[q])
  BY <1>7 DEF CheckHealth, TearDown, Shutdown, Allowed
<1>8. ASSUME NEW r \in Ranks, Close(r)
      PROVE  Allowed(q, pc'[q])
  BY <1>8 DEF Close, SetStop, Join, Discard, Quiesce, Release, Allowed
<1>9. CASE TakeOutput \/ Publish
  BY <1>9 DEF TakeOutput, Publish, Allowed
<1>10. QED
  BY <1>1, <1>2, <1>3, <1>4, <1>5, <1>6, <1>7, <1>8, <1>9 DEF Next, Construct, Gpu, Watchdog

\* Nothing changes the configuration.
LEMMA EnvironmentFixed ==
  ASSUME Next
  PROVE  env' = env
BY OnlyLaunchIssues DEF Launch, Issue, construction

\* Every step keeps the agreement invariant.
LEMMA AgreementStep ==
  ASSUME AgreementInv, Next
  PROVE  AgreementInv'
<1>1. PlacesOK' /\ CallsOK' /\ env' = env
  BY PlacesKept, CallsKept, EnvironmentFixed DEF AgreementInv
<1>2. (\A q \in Ranks : Allowed(q, pc[q]))'
  BY <1>1, StaysAllowed DEF Allowed, AllOn, Agreed, NoneOn
<1>3. CASE UNCHANGED <<steps, used>>
  BY <1>1, <1>2, <1>3 DEF AgreementInv, Agreement, Agreed, AllOn, NoneOn, Choice
<1>4. ASSUME NEW r \in Ranks, Launch(r)
      PROVE  Agreement'
  <2>1. PICK c \in NextCalls(r) : Issue(r, c, Backend(r, c))
    BY <1>4 DEF Launch
  <2> DEFINE n == Len(used[r]) + 1
  <2>2. /\ pc[r] \in {"serving", "native"} /\ Allowed(r, pc[r]) /\ Agreed
    BY <1>4, AllPlaces DEF Launch, Serving, AgreementInv, Agreement, Allowed, Unbuilt
  <2>3. Backend(r, c) = Choice(r, c)
    BY <2>2 DEF Backend, Choice, Allowed, Unbuilt
  <2>4. /\ steps \in Seq(Calls) /\ Len(used[r]) \in Nat /\ Len(used[r]) <= Len(steps)
    BY DEF AgreementInv, Agreement, CallsOK
  <2>5. /\ Len(steps') >= n /\ Len(steps') >= Len(steps) /\ steps'[n] = c
        /\ \A i \in 1..Len(steps) : steps'[i] = steps[i]
    <3>1. CASE n <= Len(steps)
      BY <2>1, <2>4, <3>1 DEF Issue, NextCalls
    <3>2. CASE n = Len(steps) + 1
      BY <2>1, <2>4, <3>2 DEF Issue, NextCalls
    <3>3. QED
      BY <2>4, <3>1, <3>2
  <2>6. used'[r] = Append(used[r], Choice(r, c)) /\ \A q \in Ranks : q # r => used'[q] = used[q]
    BY <2>1, <2>3 DEF Issue, AgreementInv, CallsOK
  <2>7. ASSUME NEW q \in Ranks
        PROVE  /\ Len(used'[q]) <= Len(steps')
               /\ \A i \in 1..Len(used'[q]) : used'[q][i] = Choice(q, steps'[i])
    <3>1. /\ used[q] \in Seq({"roce", "pcie", "native"}) /\ Len(used[q]) <= Len(steps) /\ Len(used[q]) \in Nat
          /\ \A i \in 1..Len(used[q]) : used[q][i] = Choice(q, steps[i])
      BY DEF AgreementInv, Agreement, CallsOK
    <3>2. Len(steps) \in Nat /\ Len(steps') \in Nat
      BY <1>1, <2>5 DEF CallsOK
    <3>3. \A i \in 1..Len(used[q]) : steps'[i] = steps[i]
      BY <2>5, <3>1, <3>2
    <3>4. CASE q = r
      <4>1. /\ Len(used'[q]) = n /\ used'[q][n] = Choice(q, c)
            /\ \A i \in 1..Len(used[q]) : used'[q][i] = used[q][i]
        BY <2>6, <3>1, <3>4
      <4>2. \A i \in 1..n : i = n \/ i \in 1..Len(used[q])
        BY <3>1, <3>4
      <4>3. QED
        BY <2>5, <3>1, <3>3, <4>1, <4>2
    <3>5. CASE q # r
      BY <2>5, <2>6, <3>1, <3>2, <3>3, <3>5
    <3>6. QED
      BY <3>4, <3>5
  <2>8. Agreed' /\ \A q, x : Choice(q, x)' = Choice(q, x)
    BY <1>1, <2>2 DEF Agreed, AllOn, NoneOn, Choice
  <2>9. QED
    BY <1>1, <1>2, <2>7, <2>8 DEF Agreement, Choice
<1>5. QED
  BY <1>1, <1>3, <1>4, OnlyLaunchIssues DEF AgreementInv

\* The two ranks of a pair take the same backend for every call (SameBackend).
THEOREM RanksTakeOneBackend == Spec => []SameBackend
<1>1. AgreementInv /\ [Next]_vars => AgreementInv'
  <2>1. AgreementInv /\ UNCHANGED vars => AgreementInv'
    BY DEF vars, construction, resources, watching, stream, engine, publishing, AgreementInv, PlacesOK, CallsOK,
           Agreement, Allowed, Agreed, AllOn, NoneOn, Choice
  <2>2. QED
    BY <2>1, AgreementStep
<1>2. AgreementInv => SameBackend
  <2> SUFFICES ASSUME AgreementInv, NEW i \in 1..MaxSteps, \A r \in Ranks : i <= Len(used[r])
               PROVE  used[0][i] = used[1][i]
    BY DEF SameBackend
  <2>1. \A r \in Ranks : used[r][i] = Choice(r, steps[i]) /\ Agreed
    BY AdapterAssumption DEF AgreementInv, Agreement, CallsOK
  <2>2. QED
    BY <2>1 DEF Choice, Agreed, AllOn, NoneOn, Ranks
<1>3. QED
  BY <1>1, <1>2, AgreementInitially, PTL DEF Spec

-----------------------------------------------------------------------------
(* No output with garbage of the output rank's own transport is published  *)
(* while the adapter serves.                                                *)

\* The primer is a rank's first reduction, and serving starts with a clean one.
Primed ==
  \A r \in Ranks :
    /\ done[r] <= round[r]
    /\ pc[r] \in Unprimed => round[r] = 0
    /\ pc[r] \in {"sync", "watch"} => round[r] = 1
    /\ pc[r] = "watch" => done[r] = 1 /\ r \notin bad /\ env.kind = "roce"

\* A rank that serves over RoCE is in _ACTIVE and has not been closed.
Registered ==
  \A r \in Ranks :
    /\ pc[r] \in {"watch", "serving"} /\ env.kind = "roce" => r \in active
    /\ r \in closed => pc[r] \in {"gone", "dead"}

\* The garbage of the output rank's transport came after the outputs already out, and
\* the snapshot in hand holds the adapter, so the check before the next one sees the
\* poison.  Garbage that comes back by way of the peer began on the output rank.
Guarded ==
  /\ bad # {} => env.kind = "roce"
  /\ \A q \in Ranks : tainted[q][Output] # {} => Output \in bad
  /\ pc[Output] \in Unprimed \cup {"sync", "watch"} => pub = 0 /\ out = "idle"
  /\ out = "check" => pub + 1 < done[Output]
  /\ pc[Output] = "serving" =>
       /\ pub + 1 <= done[Output] /\ \A i \in tainted[Output][Output] : i > pub + 1
       /\ out = "check" /\ env.kind = "roce" => seen

PoisonInv == PlacesOK /\ StreamOK /\ CallsOK /\ Primed /\ Registered /\ Guarded

\* The poison invariant holds before construction.
LEMMA PoisonInitially ==
  ASSUME Init
  PROVE  PoisonInv
<1>1. PlacesOK /\ CallsOK /\ Output \in Ranks
  BY AgreementInitially, AllPlaces DEF AgreementInv
<1>2. StreamOK
  BY DEF Init, StreamOK
<1>3. \A r \in Ranks : round[r] = 0 /\ done[r] = 0 /\ pc[r] \in {"flags", "select"}
  BY DEF Init
<1>4. Primed /\ Registered /\ Guarded
  BY <1>1, <1>3 DEF Init, Primed, Registered, Guarded
<1>5. QED
  BY <1>1, <1>2, <1>4 DEF PoisonInv

\* Every step keeps Primed.
LEMMA PrimedStep ==
  ASSUME PoisonInv, Next
  PROVE  Primed'
<1>0. /\ PlacesOK /\ CallsOK /\ Primed /\ PlacesOK' /\ env' = env
      /\ round \in [Ranks -> Nat] /\ done \in [Ranks -> Nat]
  BY PlacesKept, EnvironmentFixed DEF PoisonInv, StreamOK
<1> USE <1>0, AllPlaces DEF Primed, PlacesOK, To, stream
<1>1. ASSUME NEW r \in Ranks, GatherFlags(r) \/ SelectPcie(r)
      PROVE  Primed'
  BY <1>1 DEF GatherFlags, SelectPcie, Native
<1>2. ASSUME NEW r \in Ranks, ReadConfig(r) \/ ComparePeers(r) \/ Exchange(r)
      PROVE  Primed'
  BY <1>2 DEF ReadConfig, ComparePeers, Exchange
<1>3. ASSUME NEW r \in Ranks, OpenSession(r) \/ Compile(r) \/ MonitoredBarrier(r)
      PROVE  Primed'
  BY <1>3 DEF OpenSession, Compile, MonitoredBarrier
<1>4. ASSUME NEW r \in Ranks, Primer(r)
      PROVE  Primed'
  BY <1>4 DEF Primer
<1>5. ASSUME NEW r \in Ranks, Enable(r) \/ StartWatchdog(r)
      PROVE  Primed'
  BY <1>5 DEF Enable, StartWatchdog
<1>6. ASSUME NEW r \in Ranks, GiveUp(r) \/ Fail(r)
      PROVE  Primed'
  BY <1>6 DEF GiveUp, Fail, Constructing
<1>7. ASSUME NEW r \in Ranks, Launch(r)
      PROVE  Primed'
  BY <1>7 DEF Launch, Issue, Serving
<1>8. ASSUME NEW r \in Ranks, Reduce(r) \/ Poison(r)
      PROVE  Primed'
  BY <1>8 DEF Reduce, Poison, Finish
<1>9. ASSUME NEW r \in Ranks, Wake(r) \/ CheckHealth(r) \/ TearDown(r) \/ Shutdown(r)
      PROVE  Primed'
  BY <1>9 DEF Wake, CheckHealth, TearDown, Shutdown
<1>10. ASSUME NEW r \in Ranks, Close(r)
      PROVE  Primed'
  BY <1>10 DEF Close, SetStop, Join, Discard, Quiesce, Release
<1>11. CASE TakeOutput
  BY <1>11 DEF TakeOutput
<1>12. CASE Publish
  BY <1>12 DEF Publish
<1>13. QED
  BY <1>1, <1>2, <1>3, <1>4, <1>5, <1>6, <1>7, <1>8, <1>9, <1>10, <1>11, <1>12
     DEF Next, Construct, Gpu, Watchdog

\* Every step keeps Registered.
LEMMA RegisteredStep ==
  ASSUME PoisonInv, Next
  PROVE  Registered'
<1>0. /\ PlacesOK /\ StreamOK /\ CallsOK /\ Primed /\ Registered /\ Guarded
      /\ PlacesOK' /\ StreamOK' /\ env' = env
  BY PlacesKept, StreamKept, EnvironmentFixed DEF PoisonInv
<1> USE <1>0, AllPlaces DEF Registered, PlacesOK, To, resources
<1>1. ASSUME NEW r \in Ranks, GatherFlags(r) \/ SelectPcie(r)
      PROVE  Registered'
  BY <1>1 DEF GatherFlags, SelectPcie, Native
<1>2. ASSUME NEW r \in Ranks, ReadConfig(r) \/ ComparePeers(r) \/ Exchange(r)
      PROVE  Registered'
  BY <1>2 DEF ReadConfig, ComparePeers, Exchange
<1>3. ASSUME NEW r \in Ranks, OpenSession(r) \/ Compile(r) \/ MonitoredBarrier(r)
      PROVE  Registered'
  BY <1>3 DEF OpenSession, Compile, MonitoredBarrier
<1>4. ASSUME NEW r \in Ranks, Primer(r)
      PROVE  Registered'
  BY <1>4 DEF Primer
<1>5. ASSUME NEW r \in Ranks, Enable(r) \/ StartWatchdog(r)
      PROVE  Registered'
  BY <1>5 DEF Enable, StartWatchdog
<1>6. ASSUME NEW r \in Ranks, GiveUp(r) \/ Fail(r)
      PROVE  Registered'
  BY <1>6 DEF GiveUp, Fail, Constructing
<1>7. ASSUME NEW r \in Ranks, Launch(r)
      PROVE  Registered'
  BY <1>7 DEF Launch, Issue, Serving
<1>8. ASSUME NEW r \in Ranks, Reduce(r) \/ Poison(r)
      PROVE  Registered'
  BY <1>8 DEF Reduce, Poison
<1>9. ASSUME NEW r \in Ranks, Wake(r) \/ CheckHealth(r) \/ TearDown(r) \/ Shutdown(r)
      PROVE  Registered'
  BY <1>9 DEF Wake, CheckHealth, TearDown, Shutdown
<1>10. ASSUME NEW r \in Ranks, Close(r)
      PROVE  Registered'
  BY <1>10 DEF Close, SetStop, Join, Discard, Quiesce, Release
<1>11. CASE TakeOutput
  BY <1>11 DEF TakeOutput
<1>12. CASE Publish
  BY <1>12 DEF Publish
<1>13. QED
  BY <1>1, <1>2, <1>3, <1>4, <1>5, <1>6, <1>7, <1>8, <1>9, <1>10, <1>11, <1>12
     DEF Next, Construct, Gpu, Watchdog

Starting == Unprimed \cup {"sync", "watch"}

\* Moves of the main thread that neither reduce nor publish.
LEMMA GuardedMove ==
  ASSUME PoisonInv, UNCHANGED <<env, bad, tainted, pub, out, seen>>, done'[Output] \in Nat,
         done'[Output] >= done[Output],
         pc'[Output] \in Starting => pc[Output] \in Starting,
         pc'[Output] = "serving" /\ pc[Output] # "serving" =>
           pc[Output] \in Starting /\ Output \notin bad /\ done'[Output] >= 1
  PROVE  Guarded'
<1>1. /\ done[Output] \in Nat /\ pub \in Nat /\ tainted \in [Ranks -> [Ranks -> SUBSET Nat]] /\ Guarded
      /\ Output \in Ranks
  BY AllPlaces DEF PoisonInv, StreamOK
<1>2. QED
  BY <1>1 DEF Guarded, Starting

\* Every step keeps Guarded.
LEMMA GuardedStep ==
  ASSUME PoisonInv, Next
  PROVE  Guarded'
<1>0. /\ PlacesOK /\ StreamOK /\ Primed /\ Registered /\ Guarded /\ Output \in Ranks
      /\ StreamOK' /\ env' = env /\ Starting = Unprimed \cup {"sync", "watch"}
  BY AllPlaces, StreamKept, EnvironmentFixed DEF PoisonInv, Starting
<1>1. /\ done[Output] \in Nat /\ round[Output] \in Nat /\ done'[Output] \in Nat /\ pub \in Nat
      /\ done[Output] <= round[Output]
      /\ pc[Output] \in Unprimed => done[Output] = 0
      /\ pc[Output] \in Starting => done[Output] <= 1
  BY <1>0 DEF StreamOK, Primed
<1>2. ASSUME NEW r \in Ranks, GatherFlags(r) \/ SelectPcie(r)
      PROVE  Guarded'
  <2>1. /\ UNCHANGED <<bad, tainted, pub, out, seen>> /\ pc[r] \in Unprimed
        /\ pc' = [pc EXCEPT ![r] = pc'[r]] /\ pc'[r] # "serving"
        /\ done' = done \/ done' = [done EXCEPT ![r] = 1]
    BY <1>0, <1>2, AllPlaces DEF GatherFlags, SelectPcie, Native, To, publishing, stream, PlacesOK
  <2>2. pc[Output] # "serving" => pc'[Output] # "serving"
    BY <1>0, <2>1 DEF PlacesOK
  <2>3. pc'[Output] \in Starting => pc[Output] \in Starting
    BY <1>0, <2>1 DEF PlacesOK
  <2>4. done'[Output] >= done[Output]
    BY <1>0, <1>1, <2>1 DEF StreamOK
  <2>5. QED
    BY <1>0, <1>1, <2>1, <2>2, <2>3, <2>4, GuardedMove
<1>3. ASSUME NEW r \in Ranks, ReadConfig(r) \/ ComparePeers(r) \/ Exchange(r) \/ OpenSession(r) \/ Compile(r)
                              \/ MonitoredBarrier(r) \/ Primer(r)
      PROVE  Guarded'
  <2>1. /\ UNCHANGED <<bad, tainted, pub, out, seen, done>> /\ pc[r] \in Unprimed
        /\ pc' = [pc EXCEPT ![r] = pc'[r]] /\ pc'[r] # "serving"
    BY <1>0, <1>3, AllPlaces DEF ReadConfig, ComparePeers, Exchange, OpenSession, Compile, MonitoredBarrier, Primer,
                      To, publishing, stream, PlacesOK
  <2>2. pc[Output] # "serving" => pc'[Output] # "serving"
    BY <1>0, <2>1 DEF PlacesOK
  <2>3. pc'[Output] \in Starting => pc[Output] \in Starting
    BY <1>0, <2>1 DEF PlacesOK
  <2>4. QED
    BY <1>0, <1>1, <2>1, <2>2, <2>3, GuardedMove
<1>4. ASSUME NEW r \in Ranks, Enable(r) \/ StartWatchdog(r)
      PROVE  Guarded'
  <2>1. /\ UNCHANGED <<bad, tainted, pub, out, seen, done>> /\ pc[r] \in {"sync", "watch"}
        /\ pc' = [pc EXCEPT ![r] = pc'[r]] /\ (pc'[r] = "serving" => r \notin bad)
        /\ done[r] = 1
    BY <1>0, <1>4 DEF Enable, StartWatchdog, To, publishing, stream, PlacesOK, Primed, StreamOK
  <2>2. /\ pc'[Output] \in Starting => pc[Output] \in Starting
        /\ pc'[Output] = "serving" /\ pc[Output] # "serving" =>
             pc[Output] \in Starting /\ Output \notin bad /\ done[Output] = 1
    BY <1>0, <2>1 DEF PlacesOK
  <2>3. QED
    BY <1>0, <1>1, <2>1, <2>2, GuardedMove
<1>5. ASSUME NEW r \in Ranks, \/ GiveUp(r) \/ Fail(r) \/ Launch(r) \/ Wake(r) \/ CheckHealth(r)
                              \/ TearDown(r) \/ Shutdown(r) \/ Close(r)
      PROVE  Guarded'
  <2>1. /\ UNCHANGED <<bad, tainted, pub, out, seen, done>>
        /\ pc' = pc \/ (pc' = [pc EXCEPT ![r] = pc'[r]] /\ pc'[r] \in Down)
    BY <1>0, <1>5, AllPlaces DEF GiveUp, Fail, Launch, Issue, Wake, CheckHealth, TearDown, Shutdown, Close, SetStop,
         Join, Discard, Quiesce, Release, To, publishing, stream, PlacesOK, Down, Closing
  <2>2. /\ pc'[Output] \in Starting => pc[Output] \in Starting
        /\ pc'[Output] = "serving" => pc[Output] = "serving"
    BY <1>0, <2>1, AllPlaces DEF PlacesOK, Down, Closing
  <2>3. QED
    BY <1>0, <1>1, <2>1, <2>2, GuardedMove
<1>6. ASSUME NEW r \in Ranks, Reduce(r)
      PROVE  Guarded'
  <2>1. UNCHANGED <<bad, pub, out, seen, pc>> /\ Finish(r, Origins(r))
    BY <1>6 DEF Reduce, publishing
  <2>2. Output \in Origins(r) => Output \in bad
    BY <1>0 DEF Origins, Guarded
  <2>3. /\ done' = [done EXCEPT ![r] = @ + 1]
        /\ \A q \in Ranks : tainted'[q][Output] \subseteq tainted[q][Output] \cup {done[r] + 1}
        /\ Output \notin Origins(r) => \A q \in Ranks : tainted'[q][Output] = tainted[q][Output]
        /\ r # Output => tainted'[Output] = tainted[Output]
    BY <1>0, <2>1, FinishAdds
  <2>4. \A q \in Ranks : tainted'[q][Output] # {} => Output \in bad
    BY <1>0, <2>2, <2>3 DEF Guarded
  <2>5. QED
    BY <1>0, <1>1, <2>1, <2>3, <2>4 DEF Guarded, StreamOK
<1>7. ASSUME NEW r \in Ranks, Poison(r)
      PROVE  Guarded'
  <2>1. /\ UNCHANGED <<pub, out, seen, pc>> /\ Finish(r, Origins(r) \cup {r})
        /\ bad' = bad \cup {r} /\ env.kind = "roce"
    BY <1>7 DEF Poison, publishing
  <2>2. Output \in Origins(r) \cup {r} => Output \in bad'
    BY <1>0, <2>1 DEF Origins, Guarded
  <2>3. /\ done' = [done EXCEPT ![r] = @ + 1]
        /\ \A q \in Ranks : tainted'[q][Output] \subseteq tainted[q][Output] \cup {done[r] + 1}
        /\ Output \notin Origins(r) \cup {r} => \A q \in Ranks : tainted'[q][Output] = tainted[q][Output]
        /\ r # Output => tainted'[Output] = tainted[Output]
    BY <1>0, <2>1, FinishAdds
  <2>4. \A q \in Ranks : tainted'[q][Output] # {} => Output \in bad'
    BY <1>0, <2>1, <2>2, <2>3 DEF Guarded
  <2>5. QED
    BY <1>0, <1>1, <2>1, <2>3, <2>4 DEF Guarded, StreamOK
<1>8. CASE TakeOutput
  <2>1. /\ UNCHANGED <<bad, tainted, pc, done, pub>> /\ pub + 1 < done[Output] /\ seen' = (Output \in active)
    BY <1>8 DEF TakeOutput, stream
  <2>2. pc[Output] = "serving" /\ env.kind = "roce" => seen'
    BY <1>0, <2>1 DEF Registered
  <2>3. pc[Output] \notin Starting
    BY <1>1, <2>1
  <2>4. QED
    BY <1>0, <1>1, <2>1, <2>2, <2>3 DEF Guarded
<1>9. CASE Publish
  <2>1. /\ UNCHANGED <<bad, tainted, done>> /\ out = "check"
        /\ pc' = pc \/ (pc' = [pc EXCEPT ![Output] = "stop"])
    BY <1>9 DEF Publish, stream, To
  <2>2. pc[Output] \notin Starting /\ pub + 1 < done[Output]
    BY <1>0, <2>1 DEF Guarded
  <2>3. CASE seen /\ Output \notin closed /\ Output \in bad
    <3>1. pc'[Output] # "serving" /\ pc'[Output] \notin Starting /\ out' = "raised" /\ pub' = pub
      BY <1>0, <1>9, <2>2, <2>3, AllPlaces DEF Publish, To, PlacesOK
    <3>2. QED
      BY <1>0, <2>1, <3>1 DEF Guarded
  <2>4. CASE ~(seen /\ Output \notin closed /\ Output \in bad)
    <3>1. pc' = pc /\ out' = "idle" /\ pub' = pub + 1
      BY <1>9, <2>4 DEF Publish
    <3>2. pc[Output] = "serving" => tainted[Output][Output] = {}
      BY <1>0, <2>1, <2>4 DEF Guarded, Registered
    <3>3. QED
      BY <1>0, <1>1, <2>1, <2>2, <3>1, <3>2 DEF Guarded
  <2>5. QED
    BY <2>3, <2>4
<1>10. QED
  BY <1>2, <1>3, <1>4, <1>5, <1>6, <1>7, <1>8, <1>9 DEF Next, Construct, Gpu, Watchdog

\* Every step keeps the poison invariant.
LEMMA PoisonStep ==
  ASSUME PoisonInv, Next
  PROVE  PoisonInv'
BY PlacesKept, StreamKept, CallsKept, PrimedStep, RegisteredStep, GuardedStep DEF PoisonInv

\* While the adapter serves, no output goes out that the output rank's own transport
\* has put garbage into (NothingTaintedPublished).  Garbage of the peer's transport is
\* not in this theorem: it can be published (README.md, 4.1).
THEOREM NoTaintedOutput == Spec => []NothingTaintedPublished
<1>1. PoisonInv /\ [Next]_vars => PoisonInv'
  <2>1. PoisonInv /\ UNCHANGED vars => PoisonInv'
    BY DEF vars, construction, resources, watching, stream, engine, publishing, PoisonInv, PlacesOK, StreamOK, CallsOK,
           Primed, Registered, Guarded
  <2>2. QED
    BY <2>1, PoisonStep
<1>2. PoisonInv => NothingTaintedPublished
  BY DEF PoisonInv, Guarded, NothingTaintedPublished
<1>3. QED
  BY <1>1, <1>2, PoisonInitially, PTL DEF Spec

-----------------------------------------------------------------------------
(* close() releases what nothing uses any more, and all of it.              *)

\* A watchdog is over, or close() has given up on it, before anything is released.
WatchEnded ==
  /\ touched \subseteq late
  /\ \A r \in Ranks :
       /\ pc[r] \in Starting \/ env.kind = "pcie" => wd[r] = "none"
       /\ pc[r] \in {"sync_close", "release", "gone"} => wd[r] \in {"none", "ended", "unstarted"} \/ r \in late
       /\ runtime[r] = "released" => pc[r] \in {"gone", "dead"}

\* A RoCE stream is drained before its runtime is released.
Drained ==
  \A r \in Ranks :
    /\ runtime[r] = "released" => pc[r] \in {"gone", "dead"} /\ (done[r] = round[r] \/ env.kind = "pcie")
    /\ pc[r] = "release" /\ runtime[r] = "open" => done[r] = round[r] \/ env.kind = "pcie"

\* What a rank holds, place by place.
Held ==
  \A r \in Ranks :
    /\ pc[r] \in Unbuilt \cup {"exchange"} => runtime[r] = "none" /\ session[r] = "none"
    /\ pc[r] \in Unprimed \cup {"sync"} => r \notin active
    /\ pc[r] \in {"sync_close", "release"} /\ env.kind = "roce" => r \notin active
    /\ env.kind = "roce" /\ pc[r] = "gone" /\ wd[r] # "unstarted" =>
         runtime[r] # "open" /\ session[r] # "open" /\ r \notin active

CloseInv == PlacesOK /\ StreamOK /\ CallsOK /\ Primed /\ WatchEnded /\ Drained /\ Held

\* Every step keeps WatchEnded.
LEMMA WatchEndedStep ==
  ASSUME CloseInv, Next
  PROVE  WatchEnded'
<1>0. /\ PlacesOK /\ CallsOK /\ Primed /\ WatchEnded
      /\ PlacesOK' /\ env' = env
  BY PlacesKept, StreamKept, EnvironmentFixed DEF CloseInv
<1> USE <1>0, AllPlaces DEF WatchEnded, PlacesOK, Starting, To, resources, watching
<1>1. ASSUME NEW r \in Ranks, GatherFlags(r)
      PROVE  WatchEnded'
  BY <1>1 DEF GatherFlags, Native
<1>2. ASSUME NEW r \in Ranks, SelectPcie(r)
      PROVE  WatchEnded'
  BY <1>2 DEF SelectPcie, Native
<1>3. ASSUME NEW r \in Ranks, ReadConfig(r) \/ ComparePeers(r) \/ Exchange(r)
      PROVE  WatchEnded'
  BY <1>3 DEF ReadConfig, ComparePeers, Exchange
<1>4. ASSUME NEW r \in Ranks, OpenSession(r) \/ Compile(r) \/ MonitoredBarrier(r)
      PROVE  WatchEnded'
  BY <1>4 DEF OpenSession, Compile, MonitoredBarrier
<1>5. ASSUME NEW r \in Ranks, Primer(r)
      PROVE  WatchEnded'
  BY <1>5 DEF Primer
<1>6. ASSUME NEW r \in Ranks, Enable(r) \/ StartWatchdog(r)
      PROVE  WatchEnded'
  BY <1>6 DEF Enable, StartWatchdog, Primed
<1>7. ASSUME NEW r \in Ranks, GiveUp(r) \/ Fail(r)
      PROVE  WatchEnded'
  BY <1>7 DEF GiveUp, Fail, Constructing
<1>8. ASSUME NEW r \in Ranks, Launch(r)
      PROVE  WatchEnded'
  BY <1>8 DEF Launch, Issue, Serving
<1>9. ASSUME NEW r \in Ranks, Reduce(r) \/ Poison(r)
      PROVE  WatchEnded'
  BY <1>9 DEF Reduce, Poison
<1>10. ASSUME NEW r \in Ranks, Wake(r) \/ CheckHealth(r)
      PROVE  WatchEnded'
  BY <1>10 DEF Wake, CheckHealth
<1>11. ASSUME NEW r \in Ranks, TearDown(r) \/ Shutdown(r)
      PROVE  WatchEnded'
  BY <1>11 DEF TearDown, Shutdown
<1>12. ASSUME NEW r \in Ranks, Close(r)
      PROVE  WatchEnded'
  <2>1. CASE SetStop(r)
    BY <2>1 DEF SetStop, CallsOK
  <2>2. CASE Join(r)
    BY <2>2 DEF Join, Discard
  <2>3. CASE Quiesce(r)
    BY <2>3 DEF Quiesce
  <2>4. CASE Release(r)
    BY <2>4 DEF Release
  <2>5. QED
    BY <1>12, <2>1, <2>2, <2>3, <2>4 DEF Close
<1>13. CASE TakeOutput \/ Publish
  BY <1>13 DEF TakeOutput, Publish
<1>14. QED
  BY <1>1, <1>2, <1>3, <1>4, <1>5, <1>6, <1>7, <1>8, <1>9, <1>10, <1>11, <1>12, <1>13
     DEF Next, Construct, Gpu, Watchdog

\* Every step keeps Drained.
LEMMA DrainedStep ==
  ASSUME CloseInv, Next
  PROVE  Drained'
<1>0. /\ PlacesOK /\ CallsOK /\ Primed /\ Drained /\ PlacesOK' /\ env' = env
      /\ round \in [Ranks -> Nat] /\ done \in [Ranks -> Nat]
  BY PlacesKept, EnvironmentFixed DEF CloseInv, StreamOK
<1> USE <1>0, AllPlaces DEF Drained, Primed, PlacesOK, To, resources, stream
<1>1. ASSUME NEW r \in Ranks, GatherFlags(r)
      PROVE  Drained'
  BY <1>1 DEF GatherFlags, Native
<1>2. ASSUME NEW r \in Ranks, SelectPcie(r)
      PROVE  Drained'
  BY <1>2 DEF SelectPcie, Native
<1>3. ASSUME NEW r \in Ranks, ReadConfig(r) \/ ComparePeers(r) \/ Exchange(r)
      PROVE  Drained'
  BY <1>3 DEF ReadConfig, ComparePeers, Exchange
<1>4. ASSUME NEW r \in Ranks, OpenSession(r) \/ Compile(r) \/ MonitoredBarrier(r)
      PROVE  Drained'
  BY <1>4 DEF OpenSession, Compile, MonitoredBarrier
<1>5. ASSUME NEW r \in Ranks, Primer(r)
      PROVE  Drained'
  BY <1>5 DEF Primer
<1>6. ASSUME NEW r \in Ranks, Enable(r) \/ StartWatchdog(r)
      PROVE  Drained'
  BY <1>6 DEF Enable, StartWatchdog
<1>7. ASSUME NEW r \in Ranks, GiveUp(r) \/ Fail(r)
      PROVE  Drained'
  BY <1>7 DEF GiveUp, Fail, Constructing
<1>8. ASSUME NEW r \in Ranks, Launch(r)
      PROVE  Drained'
  BY <1>8 DEF Launch, Issue, Serving
<1>9. ASSUME NEW r \in Ranks, Reduce(r) \/ Poison(r)
      PROVE  Drained'
  BY <1>9 DEF Reduce, Poison, Finish
<1>10. ASSUME NEW r \in Ranks, Wake(r) \/ CheckHealth(r)
      PROVE  Drained'
  BY <1>10 DEF Wake, CheckHealth
<1>11. ASSUME NEW r \in Ranks, TearDown(r) \/ Shutdown(r)
      PROVE  Drained'
  BY <1>11 DEF TearDown, Shutdown
<1>12. ASSUME NEW r \in Ranks, Close(r)
      PROVE  Drained'
  <2>1. CASE SetStop(r)
    BY <2>1 DEF SetStop, CallsOK
  <2>2. CASE Join(r)
    BY <2>2 DEF Join, Discard
  <2>3. CASE Quiesce(r)
    BY <2>3 DEF Quiesce
  <2>4. CASE Release(r)
    BY <2>4 DEF Release
  <2>5. QED
    BY <1>12, <2>1, <2>2, <2>3, <2>4 DEF Close
<1>13. CASE TakeOutput \/ Publish
  BY <1>13 DEF TakeOutput, Publish
<1>14. QED
  BY <1>1, <1>2, <1>3, <1>4, <1>5, <1>6, <1>7, <1>8, <1>9, <1>10, <1>11, <1>12, <1>13
     DEF Next, Construct, Gpu, Watchdog

\* Every step keeps Held.
LEMMA HeldStep ==
  ASSUME CloseInv, Next
  PROVE  Held'
<1>0. /\ PlacesOK /\ Held /\ env.kind \in {"roce", "pcie"}
      /\ PlacesOK' /\ env' = env
  BY PlacesKept, StreamKept, EnvironmentFixed DEF CloseInv, CallsOK
<1> USE <1>0, AllPlaces DEF Held, PlacesOK, Unbuilt, To, resources, watching
<1>1. ASSUME NEW r \in Ranks, GatherFlags(r)
      PROVE  Held'
  BY <1>1 DEF GatherFlags, Native
<1>2. ASSUME NEW r \in Ranks, SelectPcie(r)
      PROVE  Held'
  BY <1>2 DEF SelectPcie, Native
<1>3. ASSUME NEW r \in Ranks, ReadConfig(r) \/ ComparePeers(r) \/ Exchange(r)
      PROVE  Held'
  BY <1>3 DEF ReadConfig, ComparePeers, Exchange
<1>4. ASSUME NEW r \in Ranks, OpenSession(r) \/ Compile(r) \/ MonitoredBarrier(r)
      PROVE  Held'
  BY <1>4 DEF OpenSession, Compile, MonitoredBarrier
<1>5. ASSUME NEW r \in Ranks, Primer(r)
      PROVE  Held'
  BY <1>5 DEF Primer
<1>6. ASSUME NEW r \in Ranks, Enable(r) \/ StartWatchdog(r)
      PROVE  Held'
  BY <1>6 DEF Enable, StartWatchdog
<1>7. ASSUME NEW r \in Ranks, GiveUp(r) \/ Fail(r)
      PROVE  Held'
  BY <1>7 DEF GiveUp, Fail, Constructing
<1>8. ASSUME NEW r \in Ranks, Launch(r)
      PROVE  Held'
  BY <1>8 DEF Launch, Issue, Serving
<1>9. ASSUME NEW r \in Ranks, Reduce(r) \/ Poison(r)
      PROVE  Held'
  BY <1>9 DEF Reduce, Poison
<1>10. ASSUME NEW r \in Ranks, Wake(r) \/ CheckHealth(r)
      PROVE  Held'
  BY <1>10 DEF Wake, CheckHealth
<1>11. ASSUME NEW r \in Ranks, TearDown(r) \/ Shutdown(r)
      PROVE  Held'
  BY <1>11 DEF TearDown, Shutdown
<1>12. ASSUME NEW r \in Ranks, Close(r)
      PROVE  Held'
  BY <1>12 DEF Close, SetStop, Join, Discard, Quiesce, Release
<1>13. CASE TakeOutput \/ Publish
  BY <1>13 DEF TakeOutput, Publish
<1>14. QED
  BY <1>1, <1>2, <1>3, <1>4, <1>5, <1>6, <1>7, <1>8, <1>9, <1>10, <1>11, <1>12, <1>13
     DEF Next, Construct, Gpu, Watchdog

\* The closing invariant holds before construction.
LEMMA CloseInitially ==
  ASSUME Init
  PROVE  CloseInv
<1>1. PlacesOK /\ StreamOK /\ CallsOK /\ Primed
  BY PoisonInitially DEF PoisonInv
<1>2. \A r \in Ranks : pc[r] \in {"flags", "select"}
  BY DEF Init
<1>3. WatchEnded /\ Drained /\ Held
  BY <1>2, AllPlaces DEF Init, WatchEnded, Drained, Held, Starting
<1>4. QED
  BY <1>1, <1>3 DEF CloseInv

\* The RoCE adapter releases nothing in use, and where its constructor raised or a rank
\* closed it holds nothing (CleanRelease).  It says nothing of PCIe.
THEOREM ReleaseIsClean == Spec => []CleanRelease
<1>1. PoisonInv /\ CloseInv /\ [Next]_vars => PoisonInv' /\ CloseInv'
  <2>1. CloseInv /\ UNCHANGED vars => CloseInv'
    BY DEF vars, construction, resources, watching, stream, engine, publishing, CloseInv, PlacesOK, StreamOK, CallsOK,
           Primed, WatchEnded, Drained, Held
  <2>2. PoisonInv /\ UNCHANGED vars => PoisonInv'
    BY DEF vars, construction, resources, watching, stream, engine, publishing, PoisonInv, PlacesOK, StreamOK, CallsOK,
           Primed, Registered, Guarded
  <2>3. ASSUME PoisonInv, CloseInv, Next
        PROVE  PoisonInv' /\ CloseInv'
    BY <2>3, PoisonStep, WatchEndedStep, DrainedStep, HeldStep DEF PoisonInv, CloseInv
  <2>4. QED
    BY <2>1, <2>2, <2>3
<1>2. CloseInv => CleanRelease
  BY DEF CloseInv, WatchEnded, Drained, Held, CleanRelease
<1>3. QED
  BY <1>1, <1>2, PoisonInitially, CloseInitially, PTL DEF Spec
=============================================================================
