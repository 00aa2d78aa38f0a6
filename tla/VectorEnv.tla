----------------------------- MODULE VectorEnv -----------------------------
(***************************************************************************)
(* What an env pool promises the program that drives it.  The program asks *)
(* a list of envs to step or to reset; each env answers once; the answers  *)
(* come back in batches: batch of them at a time (asynchronous), or all    *)
(* that were asked, in the order of the list (synchronous).  An env whose  *)
(* last answer ended its episode, or that is asked to reset, answers with  *)
(* the first state of a new episode and ignores the action.                *)
(***************************************************************************)
EXTENDS Integers, FiniteSets, Sequences

CONSTANTS Envs, Actions, MaxEpisodeSteps, Nothing

VARIABLES
  batch, isSync,  \* what the pool was made with
  asked,      \* asked[e]: an action, "reset", or Nothing
  answer,     \* answer[e]: the answer that is ready, or Nothing
  elapsed,    \* elapsed[e]: steps since the reset of e
  done,       \* done[e]: whether the last answer of e ended its episode
  list,       \* the envs of the last request (synchronous)
  received    \* the last batch, a sequence of <<env, answer>>, until the next request

vars == <<batch, isSync, asked, answer, elapsed, done, list, received>>

Lists == UNION {{l \in [1..n -> Envs] : \A j, k \in 1..n : l[j] = l[k] => j = k}
                  : n \in 1..Cardinality(Envs)}

Busy == {e \in Envs : asked[e] # Nothing}

Init ==
  /\ batch \in 1..Cardinality(Envs) /\ isSync \in BOOLEAN
  /\ isSync => batch = Cardinality(Envs)
  /\ asked = [e \in Envs |-> Nothing]
  /\ answer = [e \in Envs |-> Nothing]
  /\ elapsed = [e \in Envs |-> -1]
  /\ done \in [Envs -> BOOLEAN]
  /\ list = <<>>
  /\ received = <<>>

Ask(l, what) ==
  LET envs == {l[k] : k \in DOMAIN l}
  IN  /\ envs \cap Busy = {}
      /\ asked' = [e \in Envs |-> IF e \in envs THEN what ELSE asked[e]]
      /\ list' = IF isSync THEN l ELSE <<>>
      /\ received' = <<>>
      /\ UNCHANGED <<batch, isSync, answer, elapsed, done>>

Answer(e) ==
  LET reset == asked[e] = "reset" \/ done[e]
      steps == IF reset THEN 0 ELSE elapsed[e] + 1
  IN  /\ e \in Busy /\ answer[e] = Nothing
      /\ \E d \in BOOLEAN :
           /\ answer' = [answer EXCEPT ![e] =
                           [did |-> IF reset THEN "reset" ELSE asked[e],
                            elapsed |-> steps,
                            done |-> d,
                            trunc |-> d /\ steps >= MaxEpisodeSteps]]
           /\ done' = [done EXCEPT ![e] = d]
      /\ elapsed' = [elapsed EXCEPT ![e] = steps]
      /\ UNCHANGED <<batch, isSync, asked, list, received>>

Deliver(l) ==
  LET envs == {l[k] : k \in DOMAIN l}
  IN  /\ \A e \in envs : answer[e] # Nothing
      /\ IF isSync THEN envs = Busy /\ l = list ELSE Len(l) = batch
      /\ received' = [k \in DOMAIN l |-> <<l[k], answer[l[k]]>>]
      /\ asked' = [e \in Envs |-> IF e \in envs THEN Nothing ELSE asked[e]]
      /\ answer' = [e \in Envs |-> IF e \in envs THEN Nothing ELSE answer[e]]
      /\ UNCHANGED <<batch, isSync, elapsed, done, list>>

Next ==
  \/ \E l \in Lists, what \in Actions \cup {"reset"} : Ask(l, what)
  \/ \E e \in Envs : Answer(e)
  \/ \E l \in Lists : Deliver(l)

Spec == Init /\ [][Next]_vars
=============================================================================
