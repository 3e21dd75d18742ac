---------------------------- MODULE RemoteWorker ----------------------------
(***************************************************************************)
(* Routed projections quantized on moa for the coordinator on rhea:        *)
(* prepare_remote.py and remote_exl3_worker.py, the worker's HTTP server,  *)
(* with GPTQModel's client, error journal and projection checkpoints,      *)
(* which are external and modelled from the configuration they are given   *)
(* (timeout_seconds, max_attempts) and the calls made of them.             *)
(*                                                                         *)
(* A request is handled by a thread of its own, numbered in the order the  *)
(* requests are sent.  What it computes is named by its number: a GPU may  *)
(* give two runs of one projection different bytes.  The worker's store is *)
(* on disk and outlives it; a timeout abandons an answer, not the thread.  *)
(***************************************************************************)
EXTENDS Naturals, TLC

CONSTANTS
  Projections,
  Images,       \* image digests for moa
  MaxAttempts,  \* max_attempts of the remote configuration
  MaxPrepares, MaxSends, MaxDeaths   \* bounds

RemoteAssumption ==
  {MaxAttempts, MaxPrepares, MaxSends, MaxDeaths} \subseteq Nat

VARIABLES
  config,   \* the endpoint's image in remote-config.json, "none" before
  secret,   \* remote.env exists
  token,    \* the token in it, 0 if there is none
  preparing, \* prepare_remote.py is about to write the token
  worker,   \* the worker's token and image, or Down
  coord,    \* the coordinator's, or Down
  sent,     \* the projection of each request
  thread,   \* each request: "none", "queued", "inside", "quantize" or "reply"
  result,   \* the record a thread is to answer with
  holder,   \* the thread that holds quantize_lock, 0 if none
  awaiting, \* the request whose answer the client waits for, per projection
  tries,    \* attempts made
  store,    \* the worker's checkpoints, 0 where there is none
  journal,  \* the coordinator's accepted records
  prepares, sends, deaths

files == <<config, secret, token, preparing>>
threads == <<sent, thread, result, holder>>
client == <<awaiting, tries>>
records == <<store, journal>>
bounds == <<prepares, sends, deaths>>
vars == <<files, worker, coord, threads, client, records, bounds>>

Requests == 1 .. MaxSends
Down == [token |-> 0, image |-> "none"]
None == [p \in Projections |-> 0]

Init ==
  /\ config = "none" /\ secret = FALSE /\ token = 0 /\ preparing = FALSE
  /\ worker = Down /\ coord = Down
  /\ sent = [r \in Requests |-> 0] /\ thread = [r \in Requests |-> "none"]
  /\ result = [r \in Requests |-> 0] /\ holder = 0
  /\ awaiting = None /\ tries = None /\ store = None /\ journal = None
  /\ prepares = 0 /\ sends = 0 /\ deaths = 0

-----------------------------------------------------------------------------
(* prepare_remote.py.                                                      *)

\* The configuration is written anew, a secret that exists is kept.
Prepare(i) ==
  /\ ~preparing /\ prepares < MaxPrepares
  /\ prepares' = prepares + 1
  /\ config' = i
  /\ secret' = TRUE /\ preparing' = ~secret
  /\ UNCHANGED <<token, worker, coord, threads, client, records, sends, deaths>>

WriteToken ==
  /\ preparing
  /\ token' = prepares /\ preparing' = FALSE
  /\ UNCHANGED <<config, secret, worker, coord, threads, client, records, bounds>>

\* Killed with the file created and nothing in it: later runs keep it empty.
PrepareKilled ==
  /\ preparing /\ preparing' = FALSE
  /\ UNCHANGED <<config, secret, token, worker, coord, threads, client, records, bounds>>

\* The operator takes a new output directory, or removes the file.
ForgetSecret ==
  /\ ~preparing /\ secret /\ prepares < MaxPrepares
  /\ secret' = FALSE /\ token' = 0
  /\ UNCHANGED <<config, preparing, worker, coord, threads, client, records, bounds>>

-----------------------------------------------------------------------------
(* The worker's life and the client's.                                     *)

\* A token of less than 32 bytes is refused.
StartWorker(i) ==
  /\ worker = Down /\ token # 0
  /\ worker' = [token |-> token, image |-> i]
  /\ UNCHANGED <<files, coord, threads, client, records, bounds>>

\* GET /v1/identity, signed: what it returns must be the configured endpoint.
Qualify ==
  /\ coord = Down /\ token # 0 /\ config # "none"
  /\ worker = [token |-> token, image |-> config]
  /\ coord' = worker
  /\ UNCHANGED <<files, worker, threads, client, records, bounds>>

NoThreads == [r \in Requests |-> "none"]

WorkerDies ==
  /\ worker # Down /\ deaths < MaxDeaths
  /\ deaths' = deaths + 1
  /\ worker' = Down /\ thread' = NoThreads /\ holder' = 0
  /\ UNCHANGED <<files, coord, sent, result, client, records, prepares, sends>>

\* The coordinator ends, to be started again; what it journaled stays.
CoordinatorEnds ==
  /\ coord # Down /\ deaths < MaxDeaths
  /\ deaths' = deaths + 1
  /\ coord' = Down /\ awaiting' = None /\ tries' = None
  /\ UNCHANGED <<files, worker, threads, records, prepares, sends>>

\* A projection's last attempt has failed.
Exhausted(p) ==
  /\ coord # Down /\ awaiting[p] = 0 /\ tries[p] = MaxAttempts /\ journal[p] = 0
  /\ coord' = Down /\ awaiting' = None /\ tries' = None
  /\ UNCHANGED <<files, worker, threads, records, bounds>>

-----------------------------------------------------------------------------
(* A request.                                                              *)

\* do_POST reads the body and checks its signature: a truncated or a wrongly
\* signed one is refused, as every request is while the worker is down.
Send(p) ==
  /\ coord # Down /\ awaiting[p] = 0 /\ journal[p] = 0
  /\ tries[p] < MaxAttempts /\ sends < MaxSends
  /\ sends' = sends + 1
  /\ tries' = [tries EXCEPT ![p] = @ + 1]
  /\ \/ /\ worker # Down /\ worker.token = coord.token
        /\ awaiting' = [awaiting EXCEPT ![p] = sends']
        /\ sent' = [sent EXCEPT ![sends'] = p]
        /\ thread' = [thread EXCEPT ![sends'] = "queued"]
     \/ UNCHANGED <<awaiting, sent, thread>>
  /\ UNCHANGED <<files, worker, coord, result, holder, records, prepares, deaths>>

\* timeout_seconds pass, or the connection breaks.
GiveUp(p) ==
  /\ awaiting[p] # 0
  /\ awaiting' = [awaiting EXCEPT ![p] = 0]
  /\ UNCHANGED <<files, worker, coord, threads, tries, records, bounds>>

\* Mutant: nothing serializes the threads.
Enter(r) ==
  /\ thread[r] = "queued"
  /\ holder' = r /\ thread' = [thread EXCEPT ![r] = "inside"]
  /\ UNCHANGED <<files, worker, coord, sent, result, client, records, bounds>>

\* with quantize_lock
Acquire(r) ==
  /\ thread[r] = "queued" /\ holder = 0
  /\ holder' = r /\ thread' = [thread EXCEPT ![r] = "inside"]
  /\ UNCHANGED <<files, worker, coord, sent, result, client, records, bounds>>

\* execute_remote_projection: a checkpoint answers the request, ...
Hit(r) ==
  /\ thread[r] = "inside" /\ store[sent[r]] # 0
  /\ result' = [result EXCEPT ![r] = store[sent[r]]]
  /\ thread' = [thread EXCEPT ![r] = "reply"] /\ holder' = 0
  /\ UNCHANGED <<files, worker, coord, sent, client, records, bounds>>

Miss(r) ==
  /\ thread[r] = "inside" /\ store[sent[r]] = 0
  /\ thread' = [thread EXCEPT ![r] = "quantize"]
  /\ UNCHANGED <<files, worker, coord, sent, result, holder, client, records, bounds>>

\* ... or the projection is quantized and checkpointed.
Quantized(r) ==
  /\ thread[r] = "quantize"
  /\ store' = [store EXCEPT ![sent[r]] = r]
  /\ result' = [result EXCEPT ![r] = r]
  /\ thread' = [thread EXCEPT ![r] = "reply"] /\ holder' = 0
  /\ UNCHANGED <<files, worker, coord, sent, client, journal, bounds>>

\* An exception: the answer is an error, and the attempt is over.
Fail(r) ==
  /\ thread[r] \in {"inside", "quantize"}
  /\ thread' = [thread EXCEPT ![r] = "none"] /\ holder' = 0
  /\ awaiting' = [p \in Projections |-> IF awaiting[p] = r THEN 0 ELSE awaiting[p]]
  /\ UNCHANGED <<files, worker, coord, sent, result, tries, records, bounds>>

\* The client accepts the answer it waits for; another finds nobody.
Reply(r) ==
  /\ thread[r] = "reply"
  /\ thread' = [thread EXCEPT ![r] = "none"]
  /\ IF awaiting[sent[r]] = r
       THEN /\ journal' = [journal EXCEPT ![sent[r]] = result[r]]
            /\ awaiting' = [awaiting EXCEPT ![sent[r]] = 0]
       ELSE UNCHANGED <<journal, awaiting>>
  /\ UNCHANGED <<files, worker, coord, sent, result, holder, tries, store, bounds>>

Next ==
  \/ \E i \in Images : Prepare(i) \/ StartWorker(i)
  \/ WriteToken \/ PrepareKilled \/ ForgetSecret
  \/ Qualify \/ WorkerDies \/ CoordinatorEnds
  \/ \E p \in Projections : Exhausted(p) \/ Send(p) \/ GiveUp(p)
  \/ \E r \in Requests : Acquire(r) \/ Hit(r) \/ Miss(r) \/ Quantized(r) \/ Fail(r) \/ Reply(r)

Spec == Init /\ [][Next]_vars

-----------------------------------------------------------------------------

\* "Projection checkpoints are enabled on the coordinator and worker"
\* (quantization/README.md:64) and a worker's checkpoint answers a repeated
\* request: whatever was given up after a timeout, retried while the abandoned
\* thread was still quantizing, or asked again after either side's restart, the
\* record the coordinator accepted is the one the worker holds.
JournalIsStored == \A p \in Projections : journal[p] # 0 => journal[p] = store[p]
=============================================================================
