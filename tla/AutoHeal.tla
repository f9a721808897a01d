------------------------------ MODULE AutoHeal ------------------------------
(***************************************************************************)
(* Auto-heal of backtests that miss the same data: the first one to set the  *)
(* scope's Redis lock enqueues the ingest job and swaps its placeholder for  *)
(* the job's id; the others wait for the job they find there; each verifies  *)
(* the catalog's coverage before its backtest is run again.                  *)
(* An ingest job is named after the backtest that enqueued it.               *)
(***************************************************************************)
EXTENDS Integers, FiniteSets

CONSTANTS Backtests, MaxCrashes, MaxTimeouts

VARIABLES
    lock,           \* the lock key: [holder, swapped]
    heal,           \* run_auto_heal of each backtest: [pc, waits, acquired, outcome]
    ingest,         \* the ingest job of each backtest
    covered,        \* the catalog covers the scope
    used            \* [crashes, timeouts]

vars == <<lock, heal, ingest, covered, used>>

None == "none"
Free == [holder |-> None, swapped |-> FALSE]
At(b, p)   == heal[b].pc = p
Goto(b, p) == heal' = [heal EXCEPT ![b].pc = p]
End(b, o)  == heal' = [heal EXCEPT ![b].pc = "finally", ![b].outcome = o]
Wait(b, k) == heal' = [heal EXCEPT ![b].pc = "poll", ![b].waits = k]

-----------------------------------------------------------------------------
\* Guardrails on asset class, years and symbols come first.
Guardrails(b) ==
    /\ At(b, "guard")
    /\ \/ Goto(b, "acquire")
       \/ heal' = [heal EXCEPT ![b].pc = "done", ![b].outcome = "rejected"]
    /\ UNCHANGED <<lock, ingest, covered, used>>

\* Mutant: the lock is looked up and then written.
LookThenWrite(b) ==
    /\ \/ At(b, "acquire") /\ Goto(b, IF lock = Free THEN "write" ELSE "holder") /\ UNCHANGED lock
       \/ /\ At(b, "write") /\ lock' = [holder |-> b, swapped |-> FALSE]
          /\ heal' = [heal EXCEPT ![b].pc = "enqueue", ![b].acquired = TRUE]
    /\ UNCHANGED <<ingest, covered, used>>

\* SET NX EX with a placeholder.
TryAcquire(b) ==
    /\ At(b, "acquire")
    /\ IF lock = Free
       THEN /\ lock' = [holder |-> b, swapped |-> FALSE]
            /\ heal' = [heal EXCEPT ![b].pc = "enqueue", ![b].acquired = TRUE]
       ELSE Goto(b, "holder") /\ UNCHANGED lock
    /\ UNCHANGED <<ingest, covered, used>>

\* The queue takes the job, or declines it.
EnqueueIngest(b) ==
    /\ At(b, "enqueue")
    /\ \/ ingest' = [ingest EXCEPT ![b] = "queued"] /\ Goto(b, "swap")
       \/ End(b, "ingest_failed") /\ UNCHANGED ingest
    /\ UNCHANGED <<lock, covered, used>>

\* compare_and_swap; a lost placeholder is only logged.
Swap(b) ==
    /\ At(b, "swap") /\ Wait(b, b)
    /\ lock' = IF lock = [holder |-> b, swapped |-> FALSE] THEN [lock EXCEPT !.swapped = TRUE] ELSE lock
    /\ UNCHANGED <<ingest, covered, used>>

\* A placeholder, or a lock that is gone, is looked at once more after two seconds.
ReadHolder(b) ==
    /\ At(b, "holder") \/ At(b, "holderAgain")
    /\ IF lock.swapped THEN Wait(b, lock.holder)
       ELSE IF At(b, "holder") THEN Goto(b, "holderAgain") ELSE End(b, "ingest_failed")
    /\ UNCHANGED <<lock, ingest, covered, used>>

\* The result may have left Redis (not_found): the catalog decides.
Poll(b) ==
    /\ At(b, "poll")
    /\ \/ ingest[heal[b].waits] \in {"ok", "notFound"} /\ Goto(b, "verify") /\ UNCHANGED used
       \/ ingest[heal[b].waits] = "error" /\ End(b, "ingest_failed") /\ UNCHANGED used
       \/ /\ ingest[heal[b].waits] \in {"queued", "running"} /\ End(b, "timeout")
          /\ used.timeouts < MaxTimeouts /\ used' = [used EXCEPT !.timeouts = @ + 1]
    /\ UNCHANGED <<lock, ingest, covered>>

Verify(b) ==
    /\ At(b, "verify") /\ End(b, IF covered THEN "success" ELSE "coverage_still_missing")
    /\ UNCHANGED <<lock, ingest, covered, used>>

\* Mutant: whoever ends frees the lock.
OwnsAny(b) == TRUE
\* The finally block frees the lock only of a backtest that acquired and still holds it.
Owns(b) == heal[b].acquired /\ lock.holder = b

Finally(b) ==
    /\ At(b, "finally") /\ Goto(b, "done")
    /\ lock' = IF Owns(b) THEN Free ELSE lock
    /\ UNCHANGED <<ingest, covered, used>>

\* The worker dies, and the lock stays until its time to live, which exceeds the
\* longest heal, is over.
Crash(b) ==
    /\ heal[b].pc \notin {"guard", "done"} /\ Goto(b, "done")
    /\ used.crashes < MaxCrashes /\ used' = [used EXCEPT !.crashes = @ + 1]
    /\ UNCHANGED <<lock, ingest, covered>>

ExpireLock ==
    /\ lock # Free /\ At(lock.holder, "done") /\ lock' = Free
    /\ UNCHANGED <<heal, ingest, covered, used>>

-----------------------------------------------------------------------------
\* The ingest worker: a job can fail, or succeed and still cover less than was asked.
IngestStep(k) ==
    /\ \/ ingest[k] = "queued" /\ ingest' = [ingest EXCEPT ![k] = "running"] /\ UNCHANGED covered
       \/ ingest[k] = "running" /\ ingest' = [ingest EXCEPT ![k] = "error"] /\ UNCHANGED covered
       \/ /\ ingest[k] = "running" /\ ingest' = [ingest EXCEPT ![k] = "ok"]
          /\ covered' \in {covered, TRUE}
       \/ ingest[k] \in {"ok", "error"} /\ ingest' = [ingest EXCEPT ![k] = "notFound"] /\ UNCHANGED covered
    /\ UNCHANGED <<lock, heal, used>>

Init ==
    /\ lock = Free /\ covered = FALSE /\ used = [crashes |-> 0, timeouts |-> 0]
    /\ heal = [b \in Backtests |-> [pc |-> "guard", waits |-> None, acquired |-> FALSE, outcome |-> None]]
    /\ ingest = [b \in Backtests |-> None]

Next ==
    \/ \E b \in Backtests :
         \/ Guardrails(b) \/ TryAcquire(b) \/ EnqueueIngest(b) \/ Swap(b) \/ ReadHolder(b)
         \/ Poll(b) \/ Verify(b) \/ Finally(b) \/ Crash(b) \/ IngestStep(b)
    \/ ExpireLock

Spec == Init /\ [][Next]_vars

-----------------------------------------------------------------------------
TypeOK ==
    /\ lock \in [holder : Backtests \cup {None}, swapped : BOOLEAN] /\ covered \in BOOLEAN
    /\ ingest \in [Backtests -> {None, "queued", "running", "ok", "error", "notFound"}]
    /\ \A b \in Backtests : heal[b].waits \in Backtests \cup {None}

\* One scope is downloaded once at a time: two ingest jobs of it are unfinished together
\* only after a heal has died or given up on its own.
OneIngestAtATime ==
    used.crashes + used.timeouts = 0 =>
        Cardinality({b \in Backtests : ingest[b] \in {"queued", "running"}}) <= 1

-----------------------------------------------------------------------------
(* Why one scope is downloaded once at a time.                              *)

HealType ==
    [pc : {"guard", "acquire", "enqueue", "swap", "holder", "holderAgain", "poll", "verify", "finally", "done"},
     waits : Backtests \cup {None}, acquired : BOOLEAN,
     outcome : {None, "rejected", "ingest_failed", "timeout", "success", "coverage_still_missing"}]
LockType == [holder : Backtests \cup {None}, swapped : BOOLEAN]

HealsAreTyped ==
    /\ lock \in LockType /\ (lock.swapped => lock.holder # None)
    /\ heal \in [Backtests -> HealType]
    /\ ingest \in [Backtests -> {None, "queued", "running", "ok", "error", "notFound"}]
    /\ used \in [crashes : Nat, timeouts : Nat]

\* The lock's holder acquired it, and nobody acquires it twice.
HolderAcquired(b) ==
    /\ lock.holder = b => heal[b].acquired
    /\ heal[b].acquired => heal[b].pc \notin {"guard", "acquire", "holder", "holderAgain"}

\* Without a crash or a time-out the holder waits for its own job to end.
Unfinished(b) == ingest[b] \in {"queued", "running"}
JobIsWatched(b) ==
    /\ heal[b].pc \in {"enqueue", "swap"} => lock.holder = b
    /\ Unfinished(b) => lock.holder = b /\ (heal[b].pc = "swap" \/ (heal[b].pc = "poll" /\ heal[b].waits = b))

\* The inductive invariant.
HealsAreAlone ==
    /\ HealsAreTyped
    /\ \A b \in Backtests : HolderAcquired(b)
    /\ used.crashes = 0 /\ used.timeouts = 0 => \A b \in Backtests : JobIsWatched(b)
=============================================================================
