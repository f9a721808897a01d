----------------------------- MODULE Candidates -----------------------------
(***************************************************************************)
(* Graduation candidates, and the paths that write them: the graduation    *)
(* pipeline (create_candidate, update_stage), the creation of a backtest   *)
(* portfolio (a portfolio_default candidate per strategy), the promotion   *)
(* of a portfolio run (an unlinked live_candidate per member of the frozen *)
(* revision it writes) and the deployment that links one.                  *)
(*                                                                         *)
(* A creation or promotion is one transaction that visits its strategies   *)
(* in order; what it inserts is invisible until it commits, and an insert  *)
(* that two partial unique indexes forbid waits for the rival transaction  *)
(* to end.  A member's merged configuration, instruments included, is one  *)
(* value: what _canonical_config_for_binding and instruments_match compare.*)
(***************************************************************************)
EXTENDS Naturals, Sequences, FiniteSets, SequencesExt

CONSTANTS
    Strategies,   \* strategies
    Runnable,     \* those whose default_config names an instrument
    Configs,      \* merged configurations
    Default,      \* the configuration of a strategy's default candidate
    Selections,   \* the sequences of strategies a request may name
    Creators,     \* requests to create a portfolio over strategies
    Promoters,    \* requests to promote a run to live
    Clerks,       \* requests to move a candidate to another stage
    MaxRows,      \* bound on the candidate rows
    Nobody        \* the inserter of a committed row

VARIABLES
    cands,  \* the candidate rows, committed or not, in order of insertion
    req,    \* the creations and promotions
    frozen, \* the frozen revisions that promotions committed
    clerk   \* the stage requests: the candidate read and the stage seen

vars == <<cands, req, frozen, clerk>>

Requests == Creators \cup Promoters

Stages == {"discovery", "validation", "paper_candidate", "paper_running", "paper_review",
           "live_candidate", "live_running", "paused", "archived"}

VALID_TRANSITIONS ==
    [discovery       |-> {"validation", "archived"},
     validation      |-> {"paper_candidate", "archived"},
     paper_candidate |-> {"paper_running", "archived"},
     paper_running   |-> {"paper_review", "archived"},
     paper_review    |-> {"live_candidate", "discovery", "archived"},
     live_candidate  |-> {"live_running", "archived"},
     live_running    |-> {"paused", "archived"},
     paused          |-> {"live_running", "archived"},
     archived        |-> {}]

\* portfolio_default is in no transition: such a row never moves
AllowedFrom(s) == IF s \in Stages THEN VALID_TRANSITIONS[s] ELSE {}

\* The subset of rows a partial unique index covers
Slot(i) == CASE cands[i].stage = "portfolio_default" -> "default"
             [] cands[i].stage = "live_candidate" /\ ~cands[i].linked -> "live"
             [] OTHER -> "none"

SlotOf(r) == IF r \in Creators THEN "default" ELSE "live"

\* Rows of strategy x in a slot that some transaction inserted, or committed
Occupants(x, slot) == {i \in DOMAIN cands : cands[i].strategy = x /\ Slot(i) = slot}

Visible(r, x) == {i \in Occupants(x, SlotOf(r)) : cands[i].by \in {r, Nobody}}

Rivals(r, x) == {cands[i].by : i \in Occupants(x, SlotOf(r))} \ {r, Nobody}

Candidate(x, stage, cfg, by) ==
    [strategy |-> x, stage |-> stage, config |-> cfg, linked |-> FALSE, by |-> by]

TypeOK ==
    /\ cands \in Seq([strategy: Strategies, stage: Stages \cup {"portfolio_default", "rolled_back"},
                      config: Configs, linked: BOOLEAN, by: Requests \cup {Nobody}])
    /\ Len(cands) <= MaxRows
    /\ req \in [Requests -> [at: {"asked", "look", "insert", "reread", "commit", "done", "refused",
                                  "error", "victim"},
                             todo: Seq(Strategies), members: Seq(Strategies), config: Configs]]
    /\ frozen \subseteq [members: SUBSET Strategies, config: Configs]
    /\ clerk \in [Clerks -> [at: {"idle", "write", "done"}, row: 0..MaxRows, to: Stages]]

\* One candidate is about to graduate when the requests arrive
Init ==
    /\ \E x \in Strategies, c \in Configs : cands = <<Candidate(x, "paper_review", c, Nobody)>>
    /\ req \in {f \in [Requests -> [at: {"asked"}, todo: Selections, members: Selections,
                                    config: Configs]] :
                  \A r \in Requests : /\ f[r].members = f[r].todo
                                      /\ r \in Creators => f[r].config = Default}
    /\ frozen = {}
    /\ clerk = [k \in Clerks |-> [at |-> "idle", row |-> 0, to |-> "archived"]]
-----------------------------------------------------------------------------
(* Creation of a portfolio, promotion of a run *)

Subject(r) == Head(req[r].todo)

To(r, at) == req' = [req EXCEPT ![r].at = at]

\* The strategy has its candidate: the next one, or the commit
Settle(r) == req' = [req EXCEPT ![r].todo = Tail(@),
                                ![r].at = IF Len(req[r].todo) = 1 THEN "commit" ELSE "look"]

\* A rollback takes back what the request inserted
RolledBack(r) == [i \in DOMAIN cands |->
                    IF cands[i].by = r
                    THEN [cands[i] EXCEPT !.stage = "rolled_back", !.by = Nobody]
                    ELSE cands[i]]

Fail(r, how) == To(r, how) /\ cands' = RolledBack(r)

\* A creation refuses a strategy named twice.  A promotion is refused for a
\* run that is not completed, an account that is not a paper account, a
\* notional above the limit, or a member without instruments: conditions on
\* data that is not modelled, so either may happen.
Admit(r) ==
    /\ req[r].at = "asked"
    /\ \/ IsInjective(req[r].todo) /\ To(r, "look")
       \/ (r \in Promoters \/ ~IsInjective(req[r].todo)) /\ To(r, "refused")
    /\ UNCHANGED <<cands, frozen, clerk>>

Reusable(r, i) == r \in Creators \/ cands[i].config = req[r].config

\* _get_or_create_default_candidate: an existing row serves.  materialize: a
\* row of the same configuration serves, any other refuses the promotion.
LookUp(r) ==
    LET found == Visible(r, Subject(r)) IN
    /\ req[r].at = "look"
    /\ \/ /\ \E i \in found : Reusable(r, i)
          /\ Settle(r) /\ UNCHANGED cands
       \/ /\ found # {} /\ \A i \in found : ~Reusable(r, i)
          /\ Fail(r, "refused")
       \/ /\ found = {} /\ (r \in Promoters \/ Subject(r) \in Runnable)
          /\ To(r, "insert") /\ UNCHANGED cands
       \/ /\ found = {} /\ r \in Creators /\ Subject(r) \notin Runnable
          /\ Fail(r, "refused")
    /\ UNCHANGED <<frozen, clerk>>

\* The insert under SAVEPOINT waits for a rival's transaction.  If the slot is
\* taken then, the savepoint is rolled back and the winner read.
InsertCandidate(r) ==
    LET x == Subject(r) IN
    /\ req[r].at = "insert"
    /\ Rivals(r, x) = {}
    /\ \/ /\ Visible(r, x) = {} /\ Len(cands) < MaxRows
          /\ cands' = Append(cands, Candidate(x,
                         IF r \in Creators THEN "portfolio_default" ELSE "live_candidate",
                         req[r].config, r))
          /\ Settle(r)
       \/ /\ Visible(r, x) # {}
          /\ To(r, "reread") /\ UNCHANGED cands
    /\ UNCHANGED <<frozen, clerk>>

\* Mutant: whoever won the race is good enough
AnyWinner(r, i) == TRUE

\* The winner serves when its configuration is the one being promoted
WinnerServes(r, i) == Reusable(r, i)

\* Mutant: the IntegrityError of a lost race leaves the handler
RereadGivesUp(r) == Fail(r, "error")

Reread(r) ==
    LET winner == Visible(r, Subject(r)) IN
    \/ winner = {} /\ Fail(r, "error")
    \/ /\ \E i \in winner : WinnerServes(r, i)
       /\ Settle(r) /\ UNCHANGED cands
    \/ /\ winner # {} /\ \A i \in winner : ~WinnerServes(r, i)
       /\ Fail(r, "refused")

RereadWinner(r) == req[r].at = "reread" /\ Reread(r) /\ UNCHANGED <<frozen, clerk>>

\* The frozen revision a promotion wrote appears with its candidates
Commit(r) ==
    /\ req[r].at = "commit"
    /\ frozen' = IF r \in Creators THEN frozen
                 ELSE frozen \cup {[members |-> ToSet(req[r].members), config |-> req[r].config]}
    /\ To(r, "done")
    /\ cands' = [i \in DOMAIN cands |->
                   IF cands[i].by = r THEN [cands[i] EXCEPT !.by = Nobody] ELSE cands[i]]
    /\ UNCHANGED clerk

\* Two requests that visit two strategies in opposite orders wait for each
\* other; the database aborts one, and its handler answers with an error
DeadlockVictim(r) ==
    /\ req[r].at = "insert"
    /\ \E o \in Rivals(r, Subject(r)) : req[o].at = "insert" /\ r \in Rivals(o, Subject(o))
    /\ Fail(r, "victim")
    /\ UNCHANGED <<frozen, clerk>>
-----------------------------------------------------------------------------
(* The graduation pipeline *)

create_candidate ==
    /\ Len(cands) < MaxRows
    /\ \E x \in Strategies, c \in Configs :
         cands' = Append(cands, Candidate(x, "discovery", c, Nobody))
    /\ UNCHANGED <<req, frozen, clerk>>

\* update_stage reads the candidate without a lock and tests the transition
ReadStage(k) ==
    /\ clerk[k].at = "idle"
    /\ \E i \in DOMAIN cands : \E s \in AllowedFrom(cands[i].stage) :
         /\ cands[i].by = Nobody
         /\ clerk' = [clerk EXCEPT ![k] = [at |-> "write", row |-> i, to |-> s]]
    /\ UNCHANGED <<cands, req, frozen>>

\* The flush: a second unlinked live_candidate is refused by the index
WriteStage(k) ==
    LET i == clerk[k].row
        x == cands[i].strategy
        others == Occupants(x, "live") \ {i}
    IN
    /\ clerk[k].at = "write"
    /\ \A j \in others : cands[j].by = Nobody
    /\ cands' = IF clerk[k].to = "live_candidate" /\ ~cands[i].linked /\ others # {}
                THEN cands
                ELSE [cands EXCEPT ![i].stage = clerk[k].to]
    /\ clerk' = [clerk EXCEPT ![k].at = "done"]
    /\ UNCHANGED <<req, frozen>>

\* A start request links the candidate to its deployment and runs it
LinkCandidate ==
    /\ \E i \in DOMAIN cands :
         /\ Slot(i) = "live" /\ cands[i].by = Nobody
         /\ cands' = [cands EXCEPT ![i].linked = TRUE, ![i].stage = "live_running"]
    /\ UNCHANGED <<req, frozen, clerk>>

Next ==
    \/ \E r \in Requests : \/ Admit(r) \/ LookUp(r) \/ InsertCandidate(r) \/ RereadWinner(r)
                           \/ Commit(r) \/ DeadlockVictim(r)
    \/ \E k \in Clerks : ReadStage(k) \/ WriteStage(k)
    \/ create_candidate
    \/ LinkCandidate

Spec == Init /\ [][Next]_vars
-----------------------------------------------------------------------------
\* A promotion that succeeded left, for every member of its frozen revision, a
\* candidate of that strategy and of exactly that configuration (a deployment
\* verifies the member against it): whoever won the race for the slot.
PromotionIsBacked ==
    \A f \in frozen : \A x \in f.members : \E i \in DOMAIN cands :
        /\ cands[i].strategy = x /\ cands[i].config = f.config
        /\ cands[i].stage # "rolled_back"

\* The creation of a portfolio never fails because another one was first to
\* create the default candidate of a strategy they share.
LostRaceIsNoError == \A r \in Creators : req[r].at # "error"

\* archived is a terminal stage.
\* Does not hold: a request that read the stage before the archival writes its
\* own over it (session.get takes no lock).
ArchivedIsTerminal ==
    [][\A i \in DOMAIN cands : cands[i].stage = "archived" => cands'[i].stage = "archived"]_vars

-----------------------------------------------------------------------------
(* What keeps the two properties inductive *)

CandidateType ==
    [strategy: Strategies, stage: Stages \cup {"portfolio_default", "rolled_back"},
     config: Configs, linked: BOOLEAN, by: Requests \cup {Nobody}]

RequestType ==
    [at: {"asked", "look", "insert", "reread", "commit", "done", "refused", "error", "victim"},
     todo: Seq(Strategies), members: Seq(Strategies), config: Configs]

CandidatesAreTyped ==
    /\ cands \in Seq(CandidateType)
    /\ req \in [Requests -> RequestType]
    /\ clerk \in [Clerks -> [at: {"idle", "write", "done"}, row: Nat, to: Stages]]
    /\ \A k \in Clerks : clerk[k].at = "write" => clerk[k].row \in DOMAIN cands

\* Row i backs a member x of configuration c for those who see what `who' inserted
Backs(i, x, c, who) ==
    /\ cands[i].strategy = x /\ cands[i].config = c
    /\ cands[i].stage # "rolled_back" /\ cands[i].by \in who

\* A promotion under way has backed the members it has settled, with rows that only
\* its own rollback can take back; at its commit that is all of them.
SettledIsBacked(r) ==
    req[r].at \in {"asked", "look", "insert", "reread", "commit"} =>
       \A x \in ToSet(req[r].members) \ ToSet(req[r].todo) :
          \E i \in DOMAIN cands : Backs(i, x, req[r].config, {r, Nobody})

TodoIsInStep(r) ==
    /\ req[r].at \in {"asked", "look", "insert", "reread"} => req[r].todo # <<>>
    /\ req[r].at = "commit" => req[r].todo = <<>>

FrozenIsBacked ==
    \A f \in frozen : \A x \in f.members : \E i \in DOMAIN cands : Backs(i, x, f.config, {Nobody})

\* The index refused the insert because of a row that stays: no rollback but the
\* request's own takes back what it sees, and a default row never moves.
WinnerStays(r) == req[r].at = "reread" => Visible(r, Subject(r)) # {}

SoundPromotions ==
    /\ CandidatesAreTyped /\ FrozenIsBacked
    /\ \A r \in Promoters : SettledIsBacked(r)
    /\ \A r \in Requests : TodoIsInStep(r)

\* where no candidate moves but by creations (Promoters = {}, Clerks = {})
SoundCreations ==
    /\ CandidatesAreTyped /\ LostRaceIsNoError /\ frozen = {}
    /\ \A r \in Requests : TodoIsInStep(r)
    /\ \A r \in Creators : WinnerStays(r)

\* And what the types take on top of them: the rows are bounded, and a frozen revision is
\* made of strategies.
RowsAreBounded ==
    /\ Len(cands) <= MaxRows /\ \A k \in Clerks : clerk[k].row <= MaxRows
    /\ frozen \subseteq [members: SUBSET Strategies, config: Configs]
=============================================================================
