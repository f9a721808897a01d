-------------------------- MODULE IdempotencyStore --------------------------
(***************************************************************************)
(* The Idempotency-Key of /live/start-portfolio: requests of one user that   *)
(* carry the same key reserve it in Redis, work, and commit a cacheable      *)
(* outcome or release the key. A key holds no owner: commit and release act  *)
(* on whatever is there. (owner and by are for the properties only.)         *)
(***************************************************************************)
EXTENDS Integers, FiniteSets

CONSTANTS
    Attempts,       \* requests with the key, retries of a client included
    Bodies,         \* their body hashes
    MaxSlow,        \* bound on requests that outlive RESERVATION_TTL_S
    MaxCrashes      \* bound on crashes of the API

VARIABLES
    key,            \* the Redis key: [state, body, owner, by]
    att,            \* the requests: [pc, body, answer]
    used            \* [slow, crashes, rejected]

vars == <<key, att, used>>

Nobody  == "nobody"
Missing == [state |-> "missing", body |-> Nobody, owner |-> Nobody, by |-> Nobody]
Pending(a) == [state |-> "pending", body |-> att[a].body, owner |-> a, by |-> Nobody]
At(a, pc)  == att[a].pc = pc
Goto(a, pc) == att' = [att EXCEPT ![a].pc = pc]
Answer(a, x) == att' = [att EXCEPT ![a].pc = "done", ![a].answer = x]

-----------------------------------------------------------------------------
(* reserve.                                                                 *)

\* Mutant: the key is read first and set later.
GetThenSet(a) ==
    /\ \/ At(a, "set") /\ Goto(a, IF key = Missing THEN "setAgain" ELSE "get") /\ UNCHANGED key
       \/ At(a, "setAgain") /\ key' = Pending(a) /\ Goto(a, "work")
    /\ UNCHANGED used

\* SET NX EX, the first time and after a key that was gone when it was read.
SetNx(a) ==
    /\ At(a, "set") \/ At(a, "setAgain")
    /\ IF key = Missing
       THEN key' = Pending(a) /\ Goto(a, "work")
       ELSE Goto(a, IF At(a, "set") THEN "get" ELSE "getAgain") /\ UNCHANGED key
    /\ UNCHANGED used

\* Mutant: a completed key answers whatever the body is.
ServeAnyBody(a) == IF key.state = "pending" THEN "inFlight" ELSE key.by

\* What an existing key answers: the body is compared in both states.
Served(a) == CASE key.body # att[a].body  -> "mismatch"
               [] key.state = "pending"   -> "inFlight"
               [] OTHER                   -> key.by

Get(a) ==
    /\ At(a, "get") \/ At(a, "getAgain")
    /\ IF key # Missing THEN Answer(a, Served(a))
       ELSE IF At(a, "get") THEN Goto(a, "setAgain") ELSE Answer(a, "inFlight")
    /\ UNCHANGED <<key, used>>

-----------------------------------------------------------------------------
(* The endpoint, with the key reserved.                                      *)

\* A ready, an already active or a permanently failed deployment is cacheable.
Commit(a) ==
    /\ At(a, "work")
    /\ key' = [state |-> "completed", body |-> att[a].body, owner |-> Nobody, by |-> a]
    /\ Answer(a, a) /\ UNCHANGED used

\* A halt, a poll timeout, a transient failure or an exception: released, retryable.
Release(a) ==
    /\ At(a, "work") /\ key' = Missing /\ Answer(a, "retry") /\ UNCHANGED used

\* A refusal that releases the key itself (no supervisor, invalid or rotated
\* credentials, an archived account, a conflict), then raises ...
Refuse(a) ==
    /\ At(a, "work") /\ key' = Missing /\ Goto(a, "raised")
    /\ used' = [used EXCEPT !.rejected = @ + 1]

\* ... into the handler's except, which releases again.
ReleaseAgain(a) ==
    /\ At(a, "raised") /\ key' = Missing /\ Answer(a, "refused") /\ UNCHANGED used

\* The API dies; the key stays.
Crash(a) ==
    /\ At(a, "work") \/ At(a, "raised")
    /\ used.crashes < MaxCrashes /\ used' = [used EXCEPT !.crashes = @ + 1]
    /\ Answer(a, "lost") /\ UNCHANGED key

\* Mutant: the reservation has no time to live.
NeverExpires == FALSE

\* RESERVATION_TTL_S is over: for a request that died, or one slower than it.
Expires ==
    /\ key.state = "pending"
    /\ \/ At(key.owner, "done") /\ UNCHANGED used
       \/ /\ At(key.owner, "work") /\ used.slow < MaxSlow
          /\ used' = [used EXCEPT !.slow = @ + 1]

Expire == Expires /\ key' = Missing /\ UNCHANGED att

-----------------------------------------------------------------------------
Init ==
    /\ key = Missing
    /\ \E b \in [Attempts -> Bodies] :
         att = [a \in Attempts |-> [pc |-> "set", body |-> b[a], answer |-> "none"]]
    /\ used = [slow |-> 0, crashes |-> 0, rejected |-> 0]

Request(a) == SetNx(a) \/ Get(a) \/ Commit(a) \/ Release(a) \/ Refuse(a) \/ ReleaseAgain(a)
Next == Expire \/ \E a \in Attempts : Request(a) \/ Crash(a)

Spec == Init /\ [][Next]_vars

\* Requests end, and Redis expires keys.
Fairness == WF_vars(Expire) /\ \A a \in Attempts : WF_vars(Request(a))
FairSpec == Spec /\ Fairness

-----------------------------------------------------------------------------
Working == {a \in Attempts : At(a, "work")}

TypeOK ==
    /\ key \in [state : {"missing", "pending", "completed"}, body : Bodies \cup {Nobody},
                owner : Attempts \cup {Nobody}, by : Attempts \cup {Nobody}]
    /\ \A a \in Attempts : att[a].pc \in {"set", "get", "setAgain", "getAgain", "work", "raised", "done"}

\* One key stands for one request: a cached answer is the outcome of a request with the
\* same body, and two requests with the key work at the same time only if one of them
\* has outlived its reservation or was refused after releasing it.
OneRequestPerKey ==
    /\ \A a \in Attempts : att[a].answer \in Attempts => att[att[a].answer].body = att[a].body
    /\ used.slow = 0 /\ used.rejected = 0 => Cardinality(Working) <= 1

\* The inductive invariant behind it: a pending key is a request's, a completed one has
\* the body of the request that committed it, and unless a reservation was outlived or
\* released twice the key of a request at work is its own.
Answers == {"none", "mismatch", "inFlight", "retry", "refused", "lost"}
Keys ==
    {Missing}
    \cup {[state |-> "pending", body |-> att[a].body, owner |-> a, by |-> Nobody] : a \in Attempts}
    \cup {[state |-> "completed", body |-> att[a].body, owner |-> Nobody, by |-> a] : a \in Attempts}
RequestsAreTyped ==
    /\ att \in [Attempts -> [pc : {"set", "get", "setAgain", "getAgain", "work", "raised", "done"},
                            body : Bodies, answer : Attempts \cup Answers]]
    /\ used \in [slow : Nat, crashes : Nat, rejected : Nat]
AnswersAreOfTheBody ==
    \A a \in Attempts : att[a].answer \in Attempts => att[att[a].answer].body = att[a].body
WorkHoldsTheKey ==
    used.slow = 0 /\ used.rejected = 0 =>
        \A a \in Attempts : /\ att[a].pc # "raised"
                            /\ att[a].pc = "work" => key.state = "pending" /\ key.owner = a
KeyIsSound == RequestsAreTyped /\ key \in Keys /\ AnswersAreOfTheBody /\ WorkHoldsTheKey

Held == key.state = "pending"

\* A key is not blocked for ever: not by a crash, an expiry or a late release.
KeyIsFreed == Held ~> ~Held

\* The module's docstring: "concurrent retries get InFlight", and "only the Reserved
\* branch may call commit() or release()". Without a slow request two requests never
\* hold the key at once. Does not hold: a refused request releases the key twice, the
\* second time when another may hold it.
OneHolder == used.slow = 0 => Cardinality(Working) <= 1
=============================================================================
