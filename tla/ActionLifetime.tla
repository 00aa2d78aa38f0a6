--------------------------- MODULE ActionLifetime ---------------------------
(***************************************************************************)
(* Who keeps an action array alive, and who may have to wait for the GIL   *)
(* to drop it (core/py_envpool.h, core/env.h, core/async_envpool.h).       *)
(*                                                                         *)
(* PySend takes a reference to the caller's array that is given back under *)
(* the GIL, by whichever thread drops the last copy of it.  Each env keeps *)
(* a copy until the next SetAction; what ParseAction hands to Step are     *)
(* slices that own nothing.  The destructor of the pool joins the workers  *)
(* while it holds the GIL.                                                 *)
(***************************************************************************)
EXTENDS Integers, FiniteSets, Sequences, SequencesExt

CONSTANTS
  Envs, Workers,
  MaxSends,          \* bound: how many arrays are sent
  Nothing            \* the null pointer, and the worker that has no env

VARIABLES
  gil,               \* who holds the GIL: "main", "other" (a Python thread) or "none"
  main,              \* where the thread that drives the pool is
  arr,               \* the array PySend holds
  toSet,             \* SendImpl: the envs whose SetAction is still to come
  sending,           \* SendImpl: the envs of the call
  sends,             \* how many arrays were sent; array number n is n
  freed,             \* the arrays given back to Python
  queue,             \* action_buffer_queue_: slices [env, forceReset]
  stop,              \* stop_
  actionBatch,       \* each env's action_batch_
  at, env, force,    \* each worker: its place, its env, its force_reset
  raw,               \* each worker: the array its raw_action_ points into
  reported, idle,    \* the envs that are written but not received, and received
  asked              \* each env: the array last sent for it

ASSUME ConstantsAssumption ==
  /\ IsFiniteSet(Envs) /\ IsFiniteSet(Workers)
  /\ MaxSends \in Nat
  /\ Nothing \notin Nat /\ Nothing \notin Envs

vars == <<gil, main, arr, toSet, sending, sends, freed, queue, stop, actionBatch, at, env, force,
          raw, reported, idle, asked>>
mainVars == <<gil, main, arr, toSet, sending, sends, queue, stop, idle, asked>>
workerVars == <<at, env, force, raw, reported>>

Init ==
  /\ gil = "main" /\ main = "python"
  /\ arr = Nothing /\ toSet = {} /\ sending = {} /\ sends = 0 /\ freed = {}
  /\ queue = SetToSeq({[env |-> e, forceReset |-> TRUE] : e \in Envs})       \* async_reset
  /\ stop = FALSE
  /\ actionBatch = [e \in Envs |-> Nothing]
  /\ at = [w \in Workers |-> "dequeue"]
  /\ env = [w \in Workers |-> Nothing] /\ force = [w \in Workers |-> FALSE]
  /\ raw = [w \in Workers |-> Nothing]
  /\ reported = {} /\ idle = {}
  /\ asked = [e \in Envs |-> Nothing]

----------------------------------------------------------------------------
\* Mutation: as NumpyToArray, the arrays of a batch own nothing.
HeldBySend(a, ofSend, ofEnvs) == ofSend = a

\* Somebody holds a copy of the array a.
Held(a, ofSend, ofEnvs) == ofSend = a \/ \E e \in Envs : ofEnvs[e] = a

\* The deleter of an array nobody holds; gil_scoped_acquire is free for the thread
\* that has the GIL already.
Drop(ofSend, ofEnvs) == freed' = freed \cup {a \in 1..sends : ~Held(a, ofSend, ofEnvs)}
Unheld(ofSend, ofEnvs) == {a \in (1..sends) \ freed : ~Held(a, ofSend, ofEnvs)}

(* The thread that drives the pool *)

\* PySend: the references are made, then the GIL is released.
SendBegin(S) ==
  /\ main = "python" /\ gil = "main" /\ sends < MaxSends
  /\ S # {} /\ S \subseteq idle
  /\ sends' = sends + 1 /\ arr' = sends + 1
  /\ toSet' = S /\ sending' = S /\ idle' = idle \ S
  /\ asked' = [e \in Envs |-> IF e \in S THEN sends + 1 ELSE asked[e]]
  /\ gil' = "none" /\ main' = "setAction"
  /\ UNCHANGED <<freed, queue, stop, actionBatch>> /\ UNCHANGED workerVars

\* SetAction, which may drop the last copy of the array before: then the thread
\* needs the GIL in the middle of SendImpl.
SetAction(e) ==
  /\ main = "setAction" /\ e \in toSet
  /\ actionBatch' = [actionBatch EXCEPT ![e] = arr]
  /\ toSet' = toSet \ {e}
  /\ main' = IF Unheld(arr, actionBatch') = {} THEN "setAction" ELSE "drop"
  /\ UNCHANGED <<gil, arr, sending, sends, freed, queue, stop, idle, asked>> /\ UNCHANGED workerVars

SendDrop ==
  /\ main = "drop" /\ gil = "none"
  /\ Drop(arr, actionBatch)
  /\ main' = "setAction"
  /\ UNCHANGED <<gil, arr, toSet, sending, sends, queue, stop, actionBatch, idle, asked>>
  /\ UNCHANGED workerVars

Enqueue ==
  /\ main = "setAction" /\ toSet = {}
  /\ queue' = queue \o SetToSeq({[env |-> e, forceReset |-> FALSE] : e \in sending})
  /\ sending' = {} /\ main' = "sent"
  /\ UNCHANGED <<gil, arr, toSet, sends, freed, stop, actionBatch, idle, asked>> /\ UNCHANGED workerVars

\* PySend returns: the GIL is taken back before its arrays are dropped.
SendEnd ==
  /\ main = "sent" /\ gil = "none"
  /\ gil' = "main" /\ main' = "python" /\ arr' = Nothing
  /\ Drop(Nothing, actionBatch)
  /\ UNCHANGED <<toSet, sending, sends, queue, stop, actionBatch, idle, asked>> /\ UNCHANGED workerVars

\* PyReset of some envs: nothing is left for ParseAction, the old batches stay.
Reset(S) ==
  /\ main = "python" /\ gil = "main" /\ sends < MaxSends
  /\ S # {} /\ S \subseteq idle
  /\ queue' = queue \o SetToSeq({[env |-> e, forceReset |-> TRUE] : e \in S})
  /\ idle' = idle \ S
  /\ UNCHANGED <<gil, main, arr, toSet, sending, sends, freed, stop, actionBatch, asked>>
  /\ UNCHANGED workerVars

\* PyRecv: the GIL is released while it waits.  The caller has something to wait for.
RecvBegin ==
  /\ main = "python" /\ gil = "main" /\ idle # Envs
  /\ gil' = "none" /\ main' = "recv"
  /\ UNCHANGED <<arr, toSet, sending, sends, freed, queue, stop, actionBatch, idle, asked>>
  /\ UNCHANGED workerVars

RecvEnd ==
  /\ main = "recv" /\ gil = "none"
  /\ \E e \in reported : reported' = reported \ {e} /\ idle' = idle \cup {e}
  /\ gil' = "main" /\ main' = "python"
  /\ UNCHANGED <<arr, toSet, sending, sends, freed, queue, stop, actionBatch, at, env, force, raw, asked>>

\* The destructor, run by the interpreter: it keeps the GIL until all have left.
Destroy ==
  /\ main = "python" /\ gil = "main"
  /\ stop' = TRUE /\ main' = "join"
  /\ queue' = queue \o [w \in 1..Cardinality(Workers) |-> [env |-> Nothing, forceReset |-> FALSE]]
  /\ UNCHANGED <<gil, arr, toSet, sending, sends, freed, actionBatch, idle, asked>> /\ UNCHANGED workerVars

\* The envs go with the pool, and drop what they hold.
Joined ==
  /\ main = "join" /\ \A w \in Workers : at[w] = "left"
  /\ main' = "gone"
  /\ actionBatch' = [e \in Envs |-> Nothing]
  /\ Drop(Nothing, actionBatch')
  /\ UNCHANGED <<gil, arr, toSet, sending, sends, queue, stop, idle, asked>> /\ UNCHANGED workerVars

\* Python code switches between its threads.
OtherTakes == gil = "none" /\ gil' = "other"
OtherLeaves == gil = "other" /\ gil' = "none"
Switch ==
  /\ OtherTakes \/ OtherLeaves
  /\ UNCHANGED <<main, arr, toSet, sending, sends, queue, stop, idle, asked, freed, actionBatch>>
  /\ UNCHANGED workerVars

(* A worker *)

Dequeue(w) ==
  /\ at[w] = "dequeue" /\ queue # <<>>
  /\ queue' = Tail(queue)
  /\ IF stop
     THEN at' = [at EXCEPT ![w] = "left"] /\ UNCHANGED <<env, force>>
     ELSE /\ at' = [at EXCEPT ![w] = "begin"]
          /\ env' = [env EXCEPT ![w] = Head(queue).env]
          /\ force' = [force EXCEPT ![w] = Head(queue).forceReset]
  /\ UNCHANGED <<gil, main, arr, toSet, sending, sends, stop, idle, asked, freed, actionBatch, raw, reported>>

\* ParseAction points into the batch; an env that is done is reset whatever is asked.
Begin(w) ==
  /\ at[w] = "begin"
  /\ \/ raw' = raw
     \/ ~force[w] /\ raw' = [raw EXCEPT ![w] = actionBatch[env[w]]]
  /\ at' = [at EXCEPT ![w] = "step"]
  /\ UNCHANGED <<env, force, reported, freed, actionBatch>> /\ UNCHANGED mainVars

\* Step has read its action, and the pointers are cleared.
EndStep(w) ==
  /\ at[w] = "step"
  /\ raw' = [raw EXCEPT ![w] = Nothing]
  /\ at' = [at EXCEPT ![w] = "post"]
  /\ UNCHANGED <<env, force, reported, freed, actionBatch>> /\ UNCHANGED mainVars

\* Mutation: PostProcess drops the batch before it hands the state on.
ReleaseBatch(w) ==
  LET rest == [actionBatch EXCEPT ![env[w]] = Nothing]
  IN  /\ Unheld(arr, rest) # {} => gil = "none"
      /\ actionBatch' = rest /\ Drop(arr, rest)

\* action_batch_ stays as it is.
KeepBatch(w) == UNCHANGED <<actionBatch, freed>>

\* done_write, after which the driver may have the env.
PostProcess(w) ==
  /\ at[w] = "post"
  /\ KeepBatch(w)
  /\ reported' = reported \cup {env[w]}
  /\ at' = [at EXCEPT ![w] = "dequeue"] /\ env' = [env EXCEPT ![w] = Nothing]
  /\ UNCHANGED <<force, raw>> /\ UNCHANGED mainVars

Send == \E e \in Envs : SetAction(e)
Work(w) == Dequeue(w) \/ Begin(w) \/ EndStep(w) \/ PostProcess(w)

Next ==
  \/ \E S \in SUBSET Envs : SendBegin(S) \/ Reset(S)
  \/ Send \/ SendDrop \/ Enqueue \/ SendEnd
  \/ RecvBegin \/ RecvEnd \/ Destroy \/ Joined \/ Switch
  \/ \E w \in Workers : Work(w)

\* The workers and the thread in a call go on; a thread that waits for the GIL gets
\* it, among those that take turns with it.
Fairness ==
  /\ \A w \in Workers : WF_vars(Work(w))
  /\ WF_vars(Send) /\ WF_vars(Enqueue) /\ WF_vars(Joined) /\ WF_vars(OtherLeaves /\ Switch)
  /\ SF_vars(SendDrop) /\ SF_vars(SendEnd) /\ SF_vars(RecvEnd)

Spec == Init /\ [][Next]_vars /\ Fairness

----------------------------------------------------------------------------
\* While an env is stepped on an action, the array it reads, which its slices do not
\* own, has not been given back to Python, and it is the one last sent for this env;
\* what nobody will read again is given back (NumpyToArrayIncRef, SetAction).
StepReadsLiveArray ==
  /\ \A w \in Workers : raw[w] # Nothing => raw[w] \notin freed /\ raw[w] = asked[env[w]]
  /\ main = "gone" => freed = 1..sends

\* Every call from Python returns, also the destructor, which waits for the workers
\* with the GIL in its hands: no worker may need it, so PostProcess must not drop
\* the batch (~AsyncEnvPool, PostProcess).
CallsReturn == main # "python" ~> main \in {"python", "gone"}
----------------------------------------------------------------------------
(* The inductive invariant behind StepReadsLiveArray *)

\* The pointers that may be null, and the slices of action_buffer_queue_.
Arrays == (1..sends) \cup {Nothing}
SliceType == [env : Envs \cup {Nothing}, forceReset : BOOLEAN]

TypeOK ==
  /\ gil \in {"main", "other", "none"}
  /\ main \in {"python", "setAction", "drop", "sent", "recv", "join", "gone"}
  /\ arr \in Arrays
  /\ toSet \subseteq sending /\ sending \subseteq Envs
  /\ sends \in Nat /\ freed \subseteq 1..sends
  /\ queue \in Seq(SliceType)
  /\ stop \in BOOLEAN
  /\ actionBatch \in [Envs -> Arrays] /\ asked \in [Envs -> Arrays]
  /\ at \in [Workers -> {"dequeue", "begin", "step", "post", "left"}]
  /\ env \in [Workers -> Envs \cup {Nothing}] /\ force \in [Workers -> BOOLEAN]
  /\ raw \in [Workers -> Arrays]
  /\ reported \subseteq Envs /\ idle \subseteq Envs

\* The workers that have an env, and the envs that are queued and that are worked on.
Busy == {w \in Workers : at[w] \in {"begin", "step", "post"}}
Queued == {queue[k].env : k \in DOMAIN queue} \ {Nothing}
Worked == {env[w] : w \in Busy}

\* An env is in one place at a time, from the call that asks it to the call that
\* receives it: a Send never sets the action of an env that is worked on.
PlaceInv ==
  /\ sending \cap (Queued \cup Worked \cup reported \cup idle) = {}
  /\ Queued \cap (Worked \cup reported \cup idle) = {}
  /\ Worked \cap (reported \cup idle) = {}
  /\ reported \cap idle = {}
  /\ \A j, k \in DOMAIN queue : queue[j].env # Nothing /\ queue[j].env = queue[k].env => j = k
  /\ \A v, w \in Busy : env[v] = env[w] => v = w
  /\ \A w \in Busy : env[w] # Nothing

\* The slices without an env are those of the destructor, which waits for all workers.
StopInv ==
  /\ \A k \in DOMAIN queue : queue[k].env = Nothing => stop
  /\ stop <=> main \in {"join", "gone"}
  /\ main = "gone" => \A w \in Workers : at[w] = "left"

\* No array is given back that a Send or an env holds; but for the envs a Send has
\* still to come to, an env holds the array last sent for it, which is what a worker
\* that steps it reads.
ArrayInv ==
  /\ \A a \in freed : a # arr /\ \A e \in Envs : actionBatch[e] # a
  /\ arr # Nothing => main \in {"setAction", "drop", "sent"}
  /\ toSet # {} => main \in {"setAction", "drop"}
  /\ \A e \in toSet : asked[e] = arr
  /\ main # "gone" => \A e \in Envs \ toSet : actionBatch[e] = asked[e]
  /\ main = "gone" => freed = 1..sends
  /\ \A w \in Workers : raw[w] # Nothing => at[w] = "step" /\ raw[w] = actionBatch[env[w]]

\* All of it together is inductive.
IInv == TypeOK /\ PlaceInv /\ StopInv /\ ArrayInv
=============================================================================
