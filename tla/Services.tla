------------------------------ MODULE Services ------------------------------
(***************************************************************************)
(* The services of the API and of the workers, one at a time.              *)
(***************************************************************************)
EXTENDS Pool, Integers, Sequences, FiniteSets

CONSTANTS
    MaxFaults, MaxJobFaults, MaxTries, MaxRows,         \* bounds, of every part
    Starts, Accounts, Users, Linkable, Approved, Editors, MaxRotations, MaxEdits,   \* DeployAdmission
    Creators, Operators, Legacy, IbAccounts, Pools,     \* BrokerAccounts
    Heals,                                              \* AutoHeal: its backtests
    Smokes, Ingests, LastDay, Recent,                   \* MarketData
    Builders, Files, MaxWrites, MaxBuilds,              \* CatalogBuild
    Onboards, Repairs, Symbols,                         \* Onboarding
    Adders, Snapshots, Strategies, Graduated,           \* LiveRevisions
    Promotable, Backable, Promoters, Clerks,            \* Candidates: promotions against clerks
    Composers, Selections, OddSelections,               \* Candidates: compositions
    Configs, Default, Nobody,                           \* Candidates: both
    Timeless, Dated, Names, Unmapped, Clients, LastDate, MaxOps,    \* Registry
    Paths, Syncs, RowIds, MaxVersion, Bad,              \* StrategySync
    Grid, Searches, Outcomes, MinHoldout, MaxHoldout, AutoDays, AutoPct, HalvingCount, HalvingDays,
    DefaultTrades, MaxTrials,                           \* ResearchSearch
    Members, Ranges, TrialCounts, Leases, Parallelism,  \* PortfolioRun
    Backtests, Researches, Portfolios, Batches, Slots,  \* Jobs
    ComputeSlots                                        \* compute_slot_limit

ASSUME AdmitAssumption == "free" \notin Starts /\ MaxRotations \in Nat
ASSUME BrokerAssumption ==
    /\ Creators \cap Operators = {} /\ Legacy \notin Creators /\ "free" \notin Operators
    /\ "env" \notin Creators \cup Operators
    /\ IbAccounts # {} /\ \A p \in Pools : p # {} /\ IsFiniteSet(p)
ASSUME HealAssumption == "none" \notin Heals
ASSUME BarsAssumption ==
    Smokes \cap Ingests = {} /\ "none" \notin Smokes \cup Ingests /\ LastDay \in Nat
ASSUME CatalogAssumption == MaxWrites \in Nat \ {0}
ASSUME RowsAssumption == MaxRows \in Nat /\ MaxRows >= 2
ASSUME OnboardAssumption == MaxTries \in Nat /\ MaxTries >= 2 /\ "none" \notin Onboards \cup Repairs
ASSUME AliasAssumption ==
    /\ LastDate \in Nat \ {0} /\ MaxOps \in Nat /\ Names # {} /\ "none" \notin Names
ASSUME SyncAssumption == RowIds \subseteq Nat /\ MaxVersion \in Nat \ {0} /\ MaxJobFaults \in Nat
ASSUME SearchAssumption ==
    /\ Grid \in Nat /\ MinHoldout \in Nat /\ MaxHoldout \in Nat /\ AutoPct \in Nat /\ MaxTrials \in Nat
    /\ \A q \in Searches :
        /\ q.days \in Nat \ {0} /\ q.train \in Nat \ {0} /\ q.test \in Nat \ {0} /\ q.step \in Nat \ {0}
        /\ q.holdout \in Int /\ q.pct \in Int /\ q.purge \in Nat /\ q.factor \in Nat \ {0}
        /\ q.fractions \subseteq 1..100
    /\ \A o \in Outcomes : o \in [kind : {"error", "nan", "ok"}, value : Int, trades : Nat, gain : BOOLEAN]
ASSUME RunAssumption ==
    /\ IsFiniteSet(Members) /\ Ranges \subseteq Nat /\ TrialCounts \subseteq Nat
    /\ Leases \subseteq Nat \ {0} /\ Parallelism \subseteq Nat
ASSUME JobsAssumption ==
    /\ Portfolios \cap (Backtests \cup Researches) = {} /\ ComputeSlots \in Nat
    /\ Slots \in [Backtests \cup Researches \cup Portfolios -> Nat]
ASSUME ComposeAssumption ==
    /\ Nobody \notin Promoters \cup Composers /\ Default \in Configs
    /\ Selections \subseteq Seq(Promotable) \ {<<>>}
    /\ Selections \cup OddSelections \subseteq Seq(Strategies) \ {<<>>}

-----------------------------------------------------------------------------
Admit == INSTANCE DeployAdmission WITH
    account <- v1, dep <- v2, cand <- v3, node <- v4, req <- v5, edit <- v6, revLock <- v7,
    acctLock <- v8, used <- v9,
    Requests <- Starts, Accounts <- Accounts, Users <- Users,
    Candidates <- Linkable, Approved <- Approved, Editors <- Editors, MaxRotations <- MaxRotations,
    MaxEdits <- MaxEdits

Broker == INSTANCE BrokerAccounts WITH
    row <- v1, secrets <- v2, creator <- v3, operator <- v4, lock <- v5, Slots <- v6,
    versions <- v7, faults <- v8,
    Creators <- Creators, Operators <- Operators, Legacy <- Legacy, IbAccounts <- IbAccounts,
    Pools <- Pools, MaxFaults <- MaxFaults

Heal == INSTANCE AutoHeal WITH
    lock <- v1, heal <- v2, ingest <- v3, covered <- v4, used <- v5,
    Backtests <- Heals, MaxCrashes <- MaxFaults, MaxTimeouts <- MaxFaults

Bars == INSTANCE MarketData WITH
    file <- v1, index <- v2, lock <- v3, wr <- v4, claimed <- v5, used <- v6, mixed <- v7,
    Smokes <- Smokes, Jobs <- Ingests, LastDay <- LastDay, Recent <- Recent, MaxFaults <- MaxFaults

Catalog == INSTANCE CatalogBuild WITH
    raw <- v1, catalog <- v2, marker <- v3, build <- v4, used <- v5, overlap <- v6,
    Builders <- Builders, Files <- Files, MaxWrites <- MaxWrites, MaxCrashes <- MaxJobFaults,
    MaxBuilds <- MaxBuilds

Onboard == INSTANCE Onboarding WITH
    row <- v1, job <- v2, pc <- v3, used <- v4,
    Requests <- Onboards, Repairs <- Repairs, Symbols <- Symbols, MaxTries <- MaxTries,
    MaxFaults <- MaxFaults

Revise == INSTANCE LiveRevisions WITH
    revs <- v1, adder <- v2, snap <- v3, lock <- v4,
    Adders <- Adders, Snapshots <- Snapshots, Strategies <- Strategies,
    Graduated <- Graduated, MaxRows <- MaxRows

\* Two promotions against an archiving clerk.
Promote == INSTANCE Candidates WITH
    cands <- v1, req <- v2, frozen <- v3, clerk <- v4,
    Strategies <- Promotable, Runnable <- Backable, Configs <- Configs, Default <- Default,
    Selections <- Selections, Creators <- {}, Promoters <- Promoters, Clerks <- Clerks,
    MaxRows <- MaxRows - 1, Nobody <- Nobody

\* Two compositions of overlapping selections.
Create == INSTANCE Candidates WITH
    cands <- v1, req <- v2, frozen <- v3, clerk <- v4,
    Strategies <- Strategies, Runnable <- Graduated, Configs <- Configs, Default <- Default,
    Selections <- Selections \cup OddSelections, Creators <- Composers, Promoters <- {}, Clerks <- {},
    MaxRows <- MaxRows, Nobody <- Nobody

Aliases == INSTANCE Registry WITH
    today <- v1, rows <- v2, client <- v3, latest <- v4, ops <- v5,
    Timeless <- Timeless, Dated <- Dated, Names <- Names, Unmapped <- Unmapped, Clients <- Clients,
    LastDay <- LastDate, MaxOps <- MaxOps

Sync == INSTANCE StrategySync WITH
    code <- v1, conf <- v2, loaded <- v3, rows <- v4, sync <- v5, gone <- v6, faults <- v7,
    Names <- Paths, Syncs <- Syncs, Ids <- RowIds, MaxVersion <- MaxVersion, Bad <- Bad,
    MaxFaults <- MaxJobFaults

Search == INSTANCE ResearchSearch WITH
    req <- v1, pc <- v2, window <- v3, stage <- v4, survivors <- v5, cand <- v6, trials <-
    v7, best <- v8, log <- v9,
    Grid <- Grid, Requests <- Searches, Outcomes <- Outcomes, MinHoldout <- MinHoldout,
    MaxHoldout <- MaxHoldout, AutoDays <- AutoDays, AutoPct <- AutoPct, HalvingCount <- HalvingCount,
    HalvingDays <- HalvingDays, DefaultTrades <- DefaultTrades, MaxTrials <- MaxTrials

Fan == INSTANCE PortfolioRun WITH
    ask <- v1, row <- v2, pc <- v3, member <- v4, window <- v5, left <- v6, asked <- v7,
    told <- v8, err <- v9, early <- v10, faults <- v11,
    Members <- Members, Ranges <- Ranges, TrialCounts <- TrialCounts,
    Leases <- Leases, Parallelism <- Parallelism, SlotLimit <- ComputeSlots, MaxFaults <- MaxJobFaults

Queue == INSTANCE Jobs WITH
    row <- v1, api <- v2, arq <- v3, pc <- v4, cancel <- v5, seen <- v6, leases <- v7, raced
    <- v8, scan <- v9, faults <- v10,
    Backtests <- Backtests, Researches <- Researches, Portfolios <- Portfolios, Batches <- Batches,
    Slots <- Slots, Limit <- ComputeSlots, MaxTries <- MaxTries, MaxFaults <- MaxJobFaults

-----------------------------------------------------------------------------
\* A behaviour is one of a single component.
Init ==
    \/ part = "Admit"   /\ Admit!Init /\ Idle10
    \/ part = "Broker"  /\ Broker!Init /\ Idle9
    \/ part = "Heal"    /\ Heal!Init /\ Idle6
    \/ part = "Bars"    /\ Bars!Init /\ Idle8
    \/ part = "Catalog" /\ Catalog!Init /\ Idle7
    \/ part = "Onboard" /\ Onboard!Init /\ Idle5
    \/ part = "Revise"  /\ Revise!Init /\ Idle5
    \/ part = "Promote" /\ Promote!Init /\ Idle5
    \/ part = "Create"  /\ Create!Init /\ Idle5
    \/ part = "Aliases" /\ Aliases!Init /\ Idle6
    \/ part = "Sync"    /\ Sync!Init /\ Idle8
    \/ part = "Search"  /\ Search!Init /\ Idle10
    \/ part = "Fan"     /\ Fan!Init /\ Idle12
    \/ part = "Queue"   /\ Queue!Init /\ Idle11

Next ==
    \/ part = "Admit"   /\ Admit!Next /\ UNCHANGED <<part, Rest10>>
    \/ part = "Broker"  /\ Broker!Next /\ UNCHANGED <<part, Rest9>>
    \/ part = "Heal"    /\ Heal!Next /\ UNCHANGED <<part, Rest6>>
    \/ part = "Bars"    /\ Bars!Next /\ UNCHANGED <<part, Rest8>>
    \/ part = "Catalog" /\ Catalog!Next /\ UNCHANGED <<part, Rest7>>
    \/ part = "Onboard" /\ Onboard!Next /\ UNCHANGED <<part, Rest5>>
    \/ part = "Revise"  /\ Revise!Next /\ UNCHANGED <<part, Rest5>>
    \/ part = "Promote" /\ Promote!Next /\ UNCHANGED <<part, Rest5>>
    \/ part = "Create"  /\ Create!Next /\ UNCHANGED <<part, Rest5>>
    \/ part = "Aliases" /\ Aliases!Next /\ UNCHANGED <<part, Rest6>>
    \/ part = "Sync"    /\ Sync!Next /\ UNCHANGED <<part, Rest8>>
    \/ part = "Search"  /\ Search!Next /\ UNCHANGED <<part, Rest10>>
    \/ part = "Fan"     /\ Fan!Next /\ UNCHANGED <<part, Rest12>>
    \/ part = "Queue"   /\ Queue!Next /\ UNCHANGED <<part, Rest11>>

Spec == Init /\ [][Next]_pool

-----------------------------------------------------------------------------
TypeOK ==
    CASE part = "Admit"   -> Admit!TypeOK
      [] part = "Broker"  -> Broker!TypeOK
      [] part = "Heal"    -> Heal!TypeOK
      [] part = "Bars"    -> Bars!TypeOK
      [] part = "Catalog" -> Catalog!TypeOK
      [] part = "Onboard" -> Onboard!TypeOK
      [] part = "Revise"  -> Revise!TypeOK
      [] part = "Promote" -> Promote!TypeOK
      [] part = "Create"  -> Create!TypeOK
      [] part = "Aliases"   -> Aliases!TypeOK
      [] part = "Sync"    -> Sync!TypeOK
      [] part = "Search"  -> Search!TypeOK
      [] part = "Fan"     -> Fan!TypeOK
      [] part = "Queue"   -> Queue!TypeOK

\* A start is admitted only for an account that is active when it commits, with the
\* credentials that are current then, and as the account's only deployment of the
\* revision. (DeployAdmission: lock_and_assert_account_active against archive and
\* rotate.)
AdmissionHolds ==
    /\ [](part = "Admit" => Admit!OneDeploymentPerAccount)
    /\ [][part = "Admit" => Admit!StartOrArchive /\ Admit!StampIsCurrent]_pool

\* The credentials store and the account rows agree, and no request gives up while a
\* slot is free. (BrokerAccounts: create, rotate and archive.)
AccountsAreSound == part = "Broker" => Broker!SecretsFollowRows /\ Broker!SlotsAreUsed

\* Market data is what it is taken for: one scope is downloaded once at a time, no
\* read-merge-rename under the lock loses bars, the index then spans the file, and a
\* marker that names the raw files as they are is true of the catalog, over crashes.
\* (AutoHeal: AutoHealLock. MarketData: ParquetStore. CatalogBuild: build_catalog_for_symbol.)
MarketDataIsSafe ==
    /\ [](part = "Heal" => Heal!OneIngestAtATime)
    /\ [](part = "Bars" => Bars!IndexFollowsFile)
    /\ [][part = "Bars" => Bars!BarsAreKept]_pool
    /\ [](part = "Catalog" => Catalog!MarkerIsTrue)

\* An accepted onboarding run has its job, and COMPLETED means every symbol.
\* (Onboarding: enqueue before commit, and redelivery.)
OnboardingEnds == part = "Onboard" => Onboard!AcceptedRunHasJob /\ Onboard!CompletedMeansAll

\* What a portfolio is composed of holds: a frozen revision stays as it was frozen, a
\* promotion names a candidate that backs every member, and a request that loses the
\* race for a candidate's slot succeeds with the winner's. (LiveRevisions:
\* _lock_draft_revision. Candidates: the unique slot index and the re-read.)
CompositionsHold ==
    /\ [][part = "Revise" => Revise!FrozenStays]_pool
    /\ [](part = "Promote" => Promote!PromotionIsBacked /\ Promote!LostRaceIsNoError)
    /\ [](part = "Create"  => Create!PromotionIsBacked /\ Create!LostRaceIsNoError)

\* An instrument has one name on every day, a live start finds the last one, a
\* registration rewrites no past day, and one bootstrap creates a definition.
\* (Registry: the alias windows.)
NamesAreStable ==
    /\ [](part = "Aliases" => Aliases!WindowsTile /\ Aliases!LatestIsLive /\ Aliases!CreatedOnce)
    /\ [][part = "Aliases" => Aliases!PastIsStable]_pool

\* No strategy is lost to overlapping synchronisations or a file that fails to import,
\* and an undisturbed one repairs duplicates. (StrategySync.)
StrategiesAreKept ==
    /\ [](part = "Sync" => Sync!NoNameLost)
    /\ [][part = "Sync" => Sync!SyncRepairs]_pool

\* A search never looks at the days it is judged by, selects a best fully trained
\* candidate, and halves without dropping the best. (ResearchSearch.)
SearchIsFair ==
    /\ [](part = "Search" => Search!NoLookahead /\ Search!SelectionIsSound)
    /\ [][part = "Search" => Search!HalvingKeepsTheBest]_pool

\* What a job came to is true and stays: a completed portfolio run rests on all members
\* and all trials, its pool stays within its lease and all jobs within the slot limit,
\* and its outcome stands against redeliveries and cancellations. (PortfolioRun:
\* orchestration. Jobs: acquire_compute_slots and PortfolioLifecycle.)
OutcomesStand ==
    /\ [](part = "Fan" => Fan!CompletedIsWhole /\ Fan!PoolWithinLease)
    /\ [](part = "Queue" => Queue!SlotLimit)
    /\ [][part = "Queue" => Queue!PortfolioOutcomeStands]_pool
=============================================================================
