----------------------------- MODULE MarketData -----------------------------
(***************************************************************************)
(* The month file of one symbol: the jobs and smoke runs that merge bars     *)
(* into it, the index row that caches the file's first and last day, and the  *)
(* coverage scan that trusts the row. Smoke runs exclude one another with a    *)
(* Redis lock that ingest jobs do not take.                                    *)
(***************************************************************************)
EXTENDS Integers, FiniteSets, FiniteSetsExt

CONSTANTS
    Smokes, Jobs,           \* run_smoke calls; ingest and onboarding jobs
    LastDay,                \* trading days 1..LastDay
    Recent,                 \* the days forgiven at the trailing edge
    MaxFaults               \* failing index refreshes and locks that outlive their time to live

VARIABLES
    file,                   \* the days with bars on disk
    index,                  \* the days the index row spans, {} without a row
    lock,                   \* holder of the smoke lock
    wr,                     \* each writer: [pc, want, got, seen]
    claimed,                \* the nightly ingest of today has been claimed
    used,                   \* faults so far
    mixed                   \* a job overlapped another writer in the store

vars == <<file, index, lock, wr, claimed, used, mixed>>

Writers == Smokes \cup Jobs
Days == 1..LastDay
Windows == {a..b : a \in Days, b \in Days} \ {{}}
None == "none"
At(w, p)   == wr[w].pc = p
Goto(w, p) == wr' = [wr EXCEPT ![w].pc = p]
Rest(p)    == [pc |-> p, want |-> {}, got |-> {}, seen |-> {}]
Quit(w)    == wr' = [wr EXCEPT ![w] = Rest("done")]
InStore(w) == wr[w].pc \in {"rename", "footer", "upsert"}

\* The row keeps only the first and the last timestamp of the file's footer.
Span(days) == IF days = {} THEN {} ELSE Min(days)..Max(days)

-----------------------------------------------------------------------------
(* compute_coverage *)

\* Only a window without any cached day makes the scan walk the directory and read footers.
Scanned(want) == IF index \cap want = {} THEN Span(file) ELSE index
Full(want) ==
    LET covered == Scanned(want) \cap want IN
        covered # {} /\ (want \ covered) \subseteq Recent

-----------------------------------------------------------------------------
(* _ensure_ingested of the smoke runner *)

BeginSmoke(w, want) ==
    /\ At(w, "idle") /\ index' = Scanned(want)
    /\ IF Full(want) THEN Quit(w) ELSE wr' = [wr EXCEPT ![w].want = want, ![w].pc = "acquire"]
    /\ UNCHANGED <<file, lock, claimed, used, mixed>>

\* Mutant: the lock is overwritten.
AcquireAny(w) ==
    /\ At(w, "acquire") /\ lock' = w /\ Goto(w, "recheck")
    /\ UNCHANGED <<file, index, claimed, used, mixed>>

\* SET NX; a holder that keeps the lock for ten minutes makes the caller answer 409.
Acquire(w) ==
    /\ At(w, "acquire")
    /\ \/ lock = None /\ lock' = w /\ Goto(w, "recheck")
       \/ lock # None /\ Quit(w) /\ UNCHANGED lock
    /\ UNCHANGED <<file, index, claimed, used, mixed>>

Recheck(w) ==
    /\ At(w, "recheck") /\ index' = Scanned(wr[w].want)
    /\ Goto(w, IF Full(wr[w].want) THEN "release" ELSE "fetch")
    /\ UNCHANGED <<file, lock, claimed, used, mixed>>

\* Compare-and-delete: a lock that has passed to another run is left alone.
Release(w) ==
    /\ At(w, "release") /\ Quit(w)
    /\ lock' = IF lock = w THEN None ELSE lock
    /\ UNCHANGED <<file, index, claimed, used, mixed>>

ExpireLock ==
    /\ lock # None /\ used < MaxFaults /\ lock' = None /\ used' = used + 1
    /\ UNCHANGED <<file, index, wr, claimed, mixed>>

-----------------------------------------------------------------------------
(* Ingest jobs take no lock *)

BeginJob(w, want) ==
    /\ At(w, "idle") /\ wr' = [wr EXCEPT ![w].want = want, ![w].pc = "fetch"]
    /\ UNCHANGED <<file, index, lock, claimed, used, mixed>>

\* run_nightly_ingest: one session, of every asset of the universe.
Session(d) == {d}

\* The cron tick claims the day before it runs.
NightlyTick(w, d) ==
    /\ At(w, "idle") /\ ~claimed /\ claimed' = TRUE
    /\ wr' = [wr EXCEPT ![w].want = Session(d), ![w].pc = "fetch"]
    /\ UNCHANGED <<file, index, lock, used, mixed>>

-----------------------------------------------------------------------------
(* ingest_historical and write_bars *)

\* The vendor has bars for some days of the window; none at all is an error.
Fetch(w) ==
    /\ At(w, "fetch")
    /\ \E got \in SUBSET wr[w].want :
         wr' = [wr EXCEPT ![w].got = got, ![w].pc = IF got = {} THEN "release" ELSE "read"]
    /\ UNCHANGED <<file, index, lock, claimed, used, mixed>>

ReadExisting(w) ==
    /\ At(w, "read") /\ wr' = [wr EXCEPT ![w].seen = file, ![w].pc = "rename"]
    /\ mixed' = (mixed \/ \E v \in Writers \ {w} : InStore(v) /\ {v, w} \cap Jobs # {})
    /\ UNCHANGED <<file, index, lock, claimed, used>>

\* Mutant: the new bars replace the file.
Replaced(w) == wr[w].got
Merged(w) == wr[w].seen \cup wr[w].got

Rename(w) ==
    /\ At(w, "rename") /\ file' = Merged(w) /\ Goto(w, "footer")
    /\ UNCHANGED <<index, lock, claimed, used, mixed>>

\* Mutant: the row describes the bars of this write.
FooterOfBatch(w) == Span(wr[w].got)
FooterOf(w) == Span(file)

\* The refresh callback; a failure is logged, and the file counts as written.
ReadFooter(w) ==
    /\ At(w, "footer")
    /\ \/ wr' = [wr EXCEPT ![w].seen = FooterOf(w), ![w].pc = "upsert"] /\ UNCHANGED used
       \/ Goto(w, "release") /\ used < MaxFaults /\ used' = used + 1
    /\ UNCHANGED <<file, index, lock, claimed, mixed>>

Upsert(w) ==
    /\ At(w, "upsert") /\ index' = wr[w].seen /\ Goto(w, "release")
    /\ UNCHANGED <<file, lock, claimed, used, mixed>>

-----------------------------------------------------------------------------
\* A seeded file may have no row yet.
Init ==
    /\ file \in SUBSET Days /\ index \in {{}, Span(file)}
    /\ lock = None /\ claimed = FALSE /\ used = 0 /\ mixed = FALSE
    /\ wr = [w \in Writers |-> Rest("idle")]

Next ==
    \/ \E w \in Smokes :
         \/ \E want \in Windows : BeginSmoke(w, want)
         \/ Acquire(w) \/ Recheck(w)
    \/ \E w \in Jobs :
         \/ \E want \in Windows : BeginJob(w, want)
         \/ \E d \in Days : NightlyTick(w, d)
    \/ \E w \in Writers :
         Fetch(w) \/ ReadExisting(w) \/ Rename(w) \/ ReadFooter(w) \/ Upsert(w) \/ Release(w)
    \/ ExpireLock

Spec == Init /\ [][Next]_vars

-----------------------------------------------------------------------------
TypeOK ==
    /\ file \subseteq Days /\ index \subseteq Days /\ lock \in Smokes \cup {None}
    /\ \A w \in Writers :
         wr[w].want \subseteq Days /\ wr[w].got \subseteq Days /\ wr[w].seen \subseteq Days

\* Bars on disk are never lost to a read-merge-rename that overlaps another, as long as
\* only smoke runs that hold their lock write the month.
\* An action property: [][BarsAreKept]_vars.
BarsAreKept == mixed \/ used > 0 \/ file \subseteq file'

\* Once every writer is done, the index row is absent or spans exactly the file: what
\* the coverage scan trusts is what is on disk.
IndexFollowsFile ==
    (~mixed /\ used = 0 /\ \A w \in Writers : ~InStore(w)) => index \in {{}, Span(file)}

\* Does not hold: write_bars swallows a failed refresh because the next coverage scan
\* will read the footer again, but the scan trusts any row that meets its window.
ScanCatchesUp ==
    [][\A w \in Smokes : (At(w, "recheck") /\ wr'[w].pc # "recheck" /\ \A v \in Writers : ~InStore(v))
            => index' = Span(file)]_vars

-----------------------------------------------------------------------------
(* Why the bars are kept.                                                   *)

WriterType ==
    [pc : {"idle", "acquire", "recheck", "fetch", "read", "rename", "footer", "upsert", "release", "done"},
     want : SUBSET Int, got : SUBSET Int, seen : SUBSET Int]

WritersAreTyped ==
    /\ file \subseteq Int /\ used \in Nat /\ mixed \in BOOLEAN
    /\ lock \in Smokes \cup {None} /\ wr \in [Writers -> WriterType]
    /\ \A w \in Jobs : wr[w].pc \notin {"acquire", "recheck"}

\* A smoke run between its recheck and its release holds the lock.
HoldsLock(w) == wr[w].pc \in {"recheck", "fetch", "read", "rename", "footer", "upsert", "release"} => lock = w

\* Whoever is in the store is there alone, with the file as it is.
AloneInStore(w) ==
    /\ InStore(w) => \A v \in Writers \ {w} : ~InStore(v)
    /\ wr[w].pc = "rename" => wr[w].seen = file
    /\ wr[w].pc = "upsert" => wr[w].seen = Span(file)

\* Only between a rename and the upsert may the row differ from the file.
RowIsFresh == (\A w \in Writers : wr[w].pc \notin {"footer", "upsert"}) => index \in {{}, Span(file)}

\* The inductive invariant.
StoreIsSafe ==
    /\ WritersAreTyped
    /\ used = 0 => \A w \in Smokes : HoldsLock(w)
    /\ ~mixed /\ used = 0 => RowIsFresh /\ \A w \in Writers : AloneInStore(w)
=============================================================================
