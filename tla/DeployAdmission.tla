--------------------------- MODULE DeployAdmission ---------------------------
(***************************************************************************)
(* What /live/start-portfolio decides before it publishes a START: the      *)
(* broker account and its credentials, the deployment row of the identity,   *)
(* and the graduated candidate it links; against the archiving and rotation  *)
(* of accounts and the stage changes of /graduation. One frozen revision     *)
(* with one member. A request's session keeps the candidate it has read (its *)
(* identity map, expire_on_commit=False); rows that are read again under a   *)
(* lock are refreshed only where the code says populate_existing.            *)
(***************************************************************************)
EXTENDS Integers

CONSTANTS
    Requests,       \* start requests
    Accounts,       \* registered broker accounts
    Users,
    Candidates,     \* graduation candidates of the member's strategy
    Approved,       \* those whose config and instruments are the frozen member's
    Editors,        \* requests of /graduation/candidates/{id}/stage
    MaxRotations,   \* bound on credential rotations
    MaxEdits        \* bound on stops and on archived accounts

VARIABLES
    account,        \* broker_accounts: [status, version]
    dep,            \* live_deployments by identity: [status, validated]; "none" if absent
    cand,           \* graduation_candidates: [stage, dep]
    node,           \* the identities with an active live_node_processes row
    req,            \* the start requests: [pc, id, cand, copy, version]
    edit,           \* the stage changes: [pc, cand, copy]
    revLock, acctLock,  \* holder of the revision's and of each account's row lock
    used            \* [rotations, edits]

vars == <<account, dep, cand, node, req, edit, revLock, acctLock, used>>

Free       == "free"
NoDep      == [status |-> "none", validated |-> 0]
Identities == [user : Users, acct : Accounts]
NoId       == [user |-> "none", acct |-> "none"]
Active     == {"starting", "running"}
Stages     == {"discovery", "validation", "paper_candidate", "paper_running", "paper_review",
               "live_candidate", "live_running", "paused", "archived"}
ELIGIBLE_FOR_LIVE_PORTFOLIO == {"live_candidate", "live_running", "paused"}

\* GraduationService.VALID_TRANSITIONS.
VALID_TRANSITIONS ==
    [s \in Stages |->
       (IF s = "archived" THEN {} ELSE {"archived"}) \cup
       (CASE s = "discovery"       -> {"validation"}
          [] s = "validation"      -> {"paper_candidate"}
          [] s = "paper_candidate" -> {"paper_running"}
          [] s = "paper_running"   -> {"paper_review"}
          [] s = "paper_review"    -> {"live_candidate", "discovery"}
          [] s \in {"live_candidate", "paused"} -> {"live_running"}
          [] s = "live_running"    -> {"paused"}
          [] OTHER                 -> {})]

At(r, pc)   == req[r].pc = pc
Goto(r, pc) == req' = [req EXCEPT ![r].pc = pc]
Finish(r)   == Goto(r, "done")
\* Another identity has this account's deployment of the revision.
Collides(id) == \E i \in Identities : i # id /\ i.acct = id.acct /\ dep[i] # NoDep

-----------------------------------------------------------------------------
(* The start request.                                                       *)

\* _resolve_binding_for_start_portfolio: the candidate linked to the identity's
\* deployment; for a new deployment, or one that may have failed before the link, the
\* one unlinked live candidate of the strategy.
Bindings(id) ==
    LET linked   == {c \in Candidates : cand[c].dep = id}
        unlinked == {c \in Candidates : cand[c].stage = "live_candidate" /\ cand[c].dep = NoId}
        retry    == dep[id].status \in {"none", "starting", "failed", "stopped"}
    IN  IF linked # {} THEN linked ELSE IF retry THEN unlinked ELSE {}

\* The registry row of the target is active; the request's mode and the gateway's route
\* agree with it (they do not change under a request).
AccountResolves(id) == account[id.acct].status = "active"

\* A new deployment may not meet one of another identity on its revision and account.
NoOtherIdentity(id) == dep[id] = NoDep => ~Collides(id)

\* verify_member_matches_candidate, on canonical instruments.
Matches(c) == c \in Approved

\* The account and the binding, before the reservation: every failure is a 4xx with
\* nothing written. The candidate stays in the session.
Resolve(r) ==
    /\ At(r, "resolve")
    /\ LET id == req[r].id
           bs == {c \in Candidates : /\ Bindings(id) = {c} /\ Matches(c)
                                     /\ cand[c].stage \in ELIGIBLE_FOR_LIVE_PORTFOLIO}
       IN  IF AccountResolves(id) /\ NoOtherIdentity(id) /\ bs # {}
           THEN \E c \in bs :
                  req' = [req EXCEPT ![r].pc = "preflight", ![r].cand = c, ![r].copy = cand[c]]
           ELSE Finish(r)
    /\ UNCHANGED <<account, dep, cand, node, edit, revLock, acctLock, used>>

\* The latches, the supervisor's heartbeat, the revision and its strategies: the request
\* goes on, or is answered 4xx or 503 with nothing written.
Preflight(r) ==
    /\ At(r, "preflight")
    /\ Goto(r, "validate") \/ Finish(r)
    /\ UNCHANGED <<account, dep, cand, node, edit, revLock, acctLock, used>>

\* validate_account_credentials: the pinned version is read, without a lock; the store
\* may be unreachable (503) or the account archived meanwhile (422).
ValidateCredentials(r) ==
    /\ At(r, "validate")
    /\ LET a == account[req[r].id.acct]
       IN  \/ a.status = "active" /\ req' = [req EXCEPT ![r].pc = "revision", ![r].version = a.version]
           \/ Finish(r)
    /\ UNCHANGED <<account, dep, cand, node, edit, revLock, acctLock, used>>

\* The revision's row lock serialises the starts of one revision.
LockRevision(r) ==
    /\ At(r, "revision") /\ revLock = Free
    /\ revLock' = r /\ Goto(r, "account")
    /\ UNCHANGED <<account, dep, cand, node, edit, acctLock, used>>

Rejected(r) == Finish(r) /\ revLock' = Free /\ UNCHANGED acctLock

\* Mutant: the account is not read again under the lock.
AcceptsUnchecked(r) == ~Collides(req[r].id)

\* Mutant: a rotation since the validation goes unnoticed.
AcceptsRotated(r) == /\ account[req[r].id.acct].status = "active"
                     /\ ~Collides(req[r].id)

\* Mutant: only the check before the reservation sees a deployment of another identity.
AcceptsCollision(r) == LET a == account[req[r].id.acct]
                       IN  a.status = "active" /\ a.version = req[r].version

\* lock_and_assert_account_active, the rotation guard, and the collision check, all on
\* rows read under the locks.
Accepts(r) == LET a == account[req[r].id.acct]
              IN  /\ a.status = "active" /\ a.version = req[r].version
                  /\ ~Collides(req[r].id)

LockAccount(r) ==
    /\ At(r, "account") /\ acctLock[req[r].id.acct] = Free
    /\ IF Accepts(r)
       THEN /\ acctLock' = [acctLock EXCEPT ![req[r].id.acct] = r]
            /\ Goto(r, "upsert") /\ UNCHANGED revLock
       ELSE Rejected(r)
    /\ UNCHANGED <<account, dep, cand, node, edit, used>>

\* The upsert keeps an active status and stamps the validation; its commit, still under
\* the locks, releases them.
Upsert(r) ==
    /\ At(r, "upsert")
    /\ LET id == req[r].id
       IN  /\ dep' = [dep EXCEPT ![id] =
                        [status    |-> IF @.status \in Active THEN @.status ELSE "starting",
                         validated |-> req[r].version]]
           /\ acctLock' = [acctLock EXCEPT ![id.acct] = Free]
    /\ revLock' = Free /\ Goto(r, "check")
    /\ UNCHANGED <<account, cand, node, edit, used>>

\* An active process answers 200 already_active; its row is synced to running.
CheckActive(r) ==
    /\ At(r, "check")
    /\ IF req[r].id \in node
       THEN dep' = [dep EXCEPT ![req[r].id].status = "running"] /\ Finish(r)
       ELSE Goto(r, "link") /\ UNCHANGED dep
    /\ UNCHANGED <<account, cand, node, edit, revLock, acctLock, used>>

\* An error of the link or of the publication: rolled back, and the row is failed.
StartFails(r) ==
    /\ At(r, "link") \/ At(r, "publish")
    /\ dep' = [dep EXCEPT ![req[r].id].status = "failed"] /\ Finish(r)
    /\ UNCHANGED <<account, cand, node, edit, revLock, acctLock, used>>

\* The link: SELECT ... FOR UPDATE without populate_existing returns the session's own
\* object, so stage and deployment_id are the ones Resolve has read; the UPDATE writes
\* the columns that the request changed.
LinkCandidate(r) ==
    /\ At(r, "link")
    /\ LET id == req[r].id
           old == req[r].copy
       IN  /\ old.stage \in ELIGIBLE_FOR_LIVE_PORTFOLIO /\ old.dep \in {NoId, id}
           /\ cand' = [cand EXCEPT ![req[r].cand] =
                         [dep   |-> IF old.dep = id THEN @.dep ELSE id,
                          stage |-> IF old.stage = "live_running" THEN @.stage ELSE "live_running"]]
    /\ Goto(r, "publish")
    /\ UNCHANGED <<account, dep, node, edit, revLock, acctLock, used>>

\* publish_start, the supervisor's spawn (see FleetRouter) and the answer.
Publish(r) ==
    /\ At(r, "publish")
    /\ node' = node \cup {req[r].id}
    /\ dep' = [dep EXCEPT ![req[r].id].status = "running"] /\ Finish(r)
    /\ UNCHANGED <<account, cand, edit, revLock, acctLock, used>>

-----------------------------------------------------------------------------
(* The other requests.                                                      *)

Budget == used.edits < MaxEdits /\ used' = [used EXCEPT !.edits = @ + 1]

Stop(id) ==
    /\ id \in node /\ node' = node \ {id}
    /\ dep' = [dep EXCEPT ![id].status = "stopped"]
    /\ Budget /\ UNCHANGED <<account, cand, req, edit, revLock, acctLock>>

\* BrokerAccountService.archive: the row lock, then no active deployment of the account.
archive(a) ==
    /\ acctLock[a] = Free /\ account[a].status = "active"
    /\ \A i \in Identities : i.acct = a => dep[i].status \notin Active
    /\ account' = [account EXCEPT ![a].status = "archived"]
    /\ Budget /\ UNCHANGED <<dep, cand, node, req, edit, revLock, acctLock>>

\* BrokerAccountService.rotate, under the row lock.
rotate(a) ==
    /\ acctLock[a] = Free /\ account[a].status = "active"
    /\ used.rotations < MaxRotations /\ used' = [used EXCEPT !.rotations = @ + 1]
    /\ account' = [account EXCEPT ![a].version = @ + 1]
    /\ UNCHANGED <<dep, cand, node, req, edit, revLock, acctLock>>

\* update_stage reads the candidate, without a lock ...
ReadStage(e, c) ==
    /\ edit[e].pc = "idle"
    /\ edit' = [edit EXCEPT ![e] = [pc |-> "write", cand |-> c, copy |-> cand[c]]]
    /\ UNCHANGED <<account, dep, cand, node, req, revLock, acctLock, used>>

\* ... checks the transition, and commits the stage.
WriteStage(e, stage) ==
    /\ edit[e].pc = "write" /\ stage \in VALID_TRANSITIONS[edit[e].copy.stage]
    /\ cand' = [cand EXCEPT ![edit[e].cand].stage = stage]
    /\ edit' = [edit EXCEPT ![e].pc = "done"]
    /\ UNCHANGED <<account, dep, node, req, revLock, acctLock, used>>

-----------------------------------------------------------------------------
Init ==
    /\ account = [a \in Accounts |-> [status |-> "active", version |-> 1]]
    /\ dep = [i \in Identities |-> NoDep]
    /\ \E s \in [Candidates -> {"paper_review", "live_candidate"}] :
         cand = [c \in Candidates |-> [stage |-> s[c], dep |-> NoId]]
    /\ node = {}
    /\ \E id \in [Requests -> Identities], c \in Candidates :
         req = [r \in Requests |-> [pc |-> "resolve", id |-> id[r], cand |-> c,
                                    copy |-> [stage |-> "discovery", dep |-> NoId], version |-> 0]]
    /\ edit = [e \in Editors |-> [pc |-> "idle", cand |-> CHOOSE c \in Candidates : TRUE,
                                  copy |-> [stage |-> "discovery", dep |-> NoId]]]
    /\ revLock = Free /\ acctLock = [a \in Accounts |-> Free]
    /\ used = [rotations |-> 0, edits |-> 0]

Next ==
    \/ \E r \in Requests :
         \/ Resolve(r) \/ Preflight(r) \/ ValidateCredentials(r)
         \/ LockRevision(r) \/ LockAccount(r)
         \/ Upsert(r) \/ CheckActive(r) \/ LinkCandidate(r) \/ Publish(r) \/ StartFails(r)
    \/ \E id \in Identities : Stop(id)
    \/ \E a \in Accounts : archive(a) \/ rotate(a)
    \/ \E e \in Editors : \/ \E c \in Candidates : ReadStage(e, c)
                          \/ \E s \in Stages : WriteStage(e, s)

Spec == Init /\ [][Next]_vars

-----------------------------------------------------------------------------
TypeOK ==
    /\ account \in [Accounts -> [status : {"active", "archived"}, version : 1 .. MaxRotations + 1]]
    /\ \A i \in Identities : dep[i].status \in {"none", "failed", "stopped"} \cup Active
    /\ cand \in [Candidates -> [stage : Stages, dep : Identities \cup {NoId}]]
    /\ node \subseteq Identities
    /\ revLock \in Requests \cup {Free} /\ acctLock \in [Accounts -> Requests \cup {Free}]

\* A start and an archive of one account: whichever commits first wins. No deployment
\* of an archived account is started anew, and no account is archived under an active
\* one. (Each takes the account's row lock; the start asserts the account again under
\* it, the archive looks for active deployments under it. A start that has committed
\* its row is not looked at again: see ArchivedIsIdle.)
\* An action property: [][StartOrArchive]_vars.
StartOrArchive ==
    \A i \in Identities :
      /\ dep'[i].status = "starting" /\ dep[i].status # "starting"
           => account[i.acct].status = "active"
      /\ account'[i.acct] # account[i.acct] /\ account'[i.acct].status = "archived"
           => dep[i].status \notin Active

\* Stronger than what the code gives: a second start of the same identity that fails
\* after the first has committed its row flips the row to failed, the account can be
\* archived, and the first one still publishes its START.
ArchivedIsIdle ==
    \A i \in Identities : account[i.acct].status = "archived" => dep[i].status \notin Active

\* A deployment is stamped as validated only against the credentials that are current
\* when the stamp commits: a rotation after the validation sends the start away.
\* An action property: [][StampIsCurrent]_vars.
StampIsCurrent ==
    \A i \in Identities : dep'[i] # dep[i] /\ dep'[i].validated # dep[i].validated
      => dep'[i].validated = account'[i.acct].version

\* Two users' starts of one revision on one account: the second one is told of the
\* conflict, and never runs into the UNIQUE (revision, account) constraint.
OneDeploymentPerAccount ==
    \A i, j \in Identities : i.acct = j.acct /\ dep[i] # NoDep /\ dep[j] # NoDep => i = j

\* The comments of the link ("the FOR UPDATE serializes us against that and the binding
\* re-check catches any drift since pre-reserve", "guard against concurrent starts that
\* already linked this candidate to a different deployment"): a candidate that is linked
\* keeps its deployment. Does not hold: the re-check reads the session's own copy.
LinkIsExclusive ==
    [][\A c \in Candidates : cand[c].dep # NoId => cand'[c].dep = cand[c].dep]_vars

-----------------------------------------------------------------------------
(* Why the three hold.                                                      *)

AccountType == [status : {"active", "archived"}, version : Nat]
DepType     == [status : {"none", "failed", "stopped"} \cup Active, validated : Nat]
CandType    == [stage : Stages, dep : Identities \cup {NoId}]
RequestType ==
    [pc : {"resolve", "preflight", "validate", "revision", "account", "upsert", "check", "link",
           "publish", "done"},
     id : Identities, cand : Candidates, copy : CandType, version : Nat]

RowsAreTyped ==
    /\ account \in [Accounts -> AccountType] /\ dep \in [Identities -> DepType]
    /\ cand \in [Candidates -> CandType] /\ node \subseteq Identities
    /\ req \in [Requests -> RequestType] /\ acctLock \in [Accounts -> Requests \cup {Free}]

\* A row that was never written is NoDep, and whatever runs or is being started has one.
RowsAreWritten ==
    /\ \A i \in Identities : dep[i].status = "none" => dep[i] = NoDep
    /\ \A i \in node : dep[i].status # "none"
    /\ \A r \in Requests : req[r].pc \in {"check", "link", "publish"} => dep[req[r].id].status # "none"

\* One start of the revision at a time is between its locks and its commit ...
RevisionIsHeld == \A r \in Requests : req[r].pc \in {"account", "upsert"} => revLock = r

\* ... and what it was accepted on stays true until the commit.
AcceptanceStands ==
    \A r \in Requests : req[r].pc = "upsert" =>
        acctLock[req[r].id.acct] = r /\ Accepts(r)

\* The inductive invariant.
SoundAdmission ==
    RowsAreTyped /\ RowsAreWritten /\ RevisionIsHeld /\ AcceptanceStands /\ OneDeploymentPerAccount

\* And what the types take on top of it: only rotate moves a version on, and it counts.
RotationsAreCounted ==
    /\ revLock \in Requests \cup {Free} /\ used \in [rotations : 0 .. MaxRotations, edits : Nat]
    /\ \A a \in Accounts : account[a].version \in 1 .. used.rotations + 1
=============================================================================
