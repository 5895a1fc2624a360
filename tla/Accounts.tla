------------------------------ MODULE Accounts ------------------------------
(***************************************************************************)
(* Who may do what: one-use login flows, browser sessions with their two   *)
(* deadlines and their limit per user, the roles and the suspension of     *)
(* users, audited commands of masters, and the emergency revocation.       *)
(* A request runs in a task of the API and takes several steps: what it    *)
(* read before a transaction may be stale in it, and transactions that     *)
(* lock the same user's row wait for each other.  What a command does to   *)
(* credit and jobs is CreditLedger's and GenerationJobs' business.         *)
(***************************************************************************)
EXTENDS Integers, FiniteSets

CONSTANTS
  Users,        \* Google identities; the row of a user is keyed by google_sub
  FirstRoles,   \* bound: the roles users may have at first, "absent" without a row
  Flows,        \* login flows; the session a flow leads to goes by the same name
  Commands,     \* request ids of master commands
  Tasks,        \* requests the API serves at the same time
  MaxSessions,  \* 5 active sessions of a user
  Inactivity,   \* 12 hours since a session was last seen
  Lifetime,     \* 7 days since it was created
  Touch,        \* 5 minutes: how often last_seen_at is brought up to date
  FlowTtl,      \* 600 seconds from the start of a login to its callback
  MaxClock,     \* bound: the last instant
  MaxLag,       \* bound: how late a transaction may use a clock it sampled
  Nobody

ASSUME AccountAssumption ==
  /\ FirstRoles \subseteq [Users -> {"absent", "user", "master"}]
  /\ MaxSessions \in Nat \ {0}
  /\ Inactivity \in Nat /\ Lifetime \in Nat /\ Touch \in Nat /\ FlowTtl \in Nat
  /\ MaxClock \in Nat /\ MaxLag \in Nat
  /\ Nobody \notin Users
  /\ IsFiniteSet(Flows)

VARIABLES
  time,
  loginEnabled,  \* AUTH_LOGIN_ENABLED of the running API
  contained,     \* the emergency revocation took place, and no login was enabled since
  user,          \* per identity: role and status of its row in users
  flow,          \* per flow: its entry in Redis
  session,       \* per flow: the row in user_sessions its login created
  audited,       \* request ids in master_audit
  task           \* per task: the request it serves

accountsVars == <<time, loginEnabled, contained, user, flow, session, audited, task>>

Times == 0 .. MaxClock

\* "credit" stands for plan_change and bonus_grant.
Actions == {"promote", "credit", "suspend", "reactivate"}

NoFlow == [state |-> "none", created |-> 0]

\* The dates of a session that ended, and why it did, are left out.
NoSession == [state |-> "none", user |-> Nobody, created |-> 0, seen |-> 0]
Idle == [pc |-> "idle", flow |-> Nobody, user |-> Nobody, read |-> {}, actor |-> Nobody,
         action |-> "credit", command |-> Nobody]

LiveOf(u) == {s \in Flows : session[s].state = "live" /\ session[s].user = u}
ActiveMasters == {u \in Users : user[u].role = "master" /\ user[u].status = "active"}

\* A clock sampled before the transaction waited for a lock or for Google.
Sampled == {t \in Times : t <= time /\ time <= t + MaxLag}

AccountsInit ==
  /\ time = 0
  /\ loginEnabled = TRUE
  /\ contained = FALSE
  /\ \E role \in FirstRoles : user = [u \in Users |-> [role |-> role[u], status |-> "active"]]
  /\ flow = [f \in Flows |-> NoFlow]
  /\ session = [s \in Flows |-> NoSession]
  /\ audited = {}
  /\ task = [p \in Tasks |-> Idle]

Becomes(p, next) == task' = [task EXCEPT ![p] = next]

-----------------------------------------------------------------------------
(* Row locks.  A transaction that has locked rows in one step and commits  *)
(* in another holds them in between.                                       *)

\* Mutant: a command locks its target only, and takes no advisory lock.
TargetLock(actor, target) == {target}

CommandLocks(actor, target) == {actor, target, "advisory"}

Locked(p) ==
  CASE task[p].pc = "insert" -> {task[p].user}
    [] task[p].pc = "apply" -> CommandLocks(task[p].actor, task[p].user)
    [] OTHER -> {}

Unlocked(rows) == \A q \in Tasks : Locked(q) \cap rows = {}

-----------------------------------------------------------------------------
(* Login *)

\* The flow is stored under a fresh secret.
BeginLogin(f) ==
  /\ loginEnabled
  /\ flow[f].state = "none"
  /\ flow' = [flow EXCEPT ![f] = [state |-> "stored", created |-> time]]
  /\ UNCHANGED <<time, loginEnabled, contained, user, session, audited, task>>

\* Mutant: the callback reads the flow and leaves it in the store.
ConsumedNever(f) == flow

Consumed(f) == [flow EXCEPT ![f] = [state |-> "consumed", created |-> 0]]

Usable(f) == time < flow[f].created + FlowTtl

\* The callback consumes its flow before it looks at anything else, and gives up if the
\* state does not match, Google reports an error, or there is no code.
Callback(p, f) ==
  /\ task[p].pc = "idle"
  /\ loginEnabled
  /\ flow[f].state = "stored"
  /\ flow' = Consumed(f)
  /\ \/ Usable(f) /\ Becomes(p, [Idle EXCEPT !.pc = "exchange", !.flow = f])
     \/ task' = task
  /\ UNCHANGED <<time, loginEnabled, contained, user, session, audited>>

\* Google names the identity.  The transaction inserts the user unless there is one, locks
\* the row and reads the sessions; a user who is suspended is turned away.
Login(p, u) ==
  /\ task[p].pc = "exchange"
  /\ Unlocked({u})
  /\ Becomes(p, IF user[u].status = "active"
                THEN [task[p] EXCEPT !.pc = "insert", !.user = u, !.read = LiveOf(u)] ELSE Idle)
  /\ UNCHANGED <<time, loginEnabled, contained, user, flow, session, audited>>

Expired(s, now) ==
  \/ now >= session[s].created + Lifetime
  \/ now >= session[s].seen + Inactivity

\* Mutant: the newest are evicted until five remain, and one is added.
NewestAndOneMore(active) == {kept \in SUBSET active : Cardinality(kept) <= MaxSessions}

\* What may remain when the oldest of active are evicted; equals in age go by their random id.
Newest(active) ==
  {kept \in SUBSET active :
    /\ Cardinality(kept) < MaxSessions
    /\ kept = active \/ Cardinality(kept) = MaxSessions - 1
    /\ \A s \in kept, t \in active \ kept : session[t].created <= session[s].created}

Ended(s) == [NoSession EXCEPT !.state = "ended", !.user = session[s].user]

\* Mutant: a new session was never seen.
FreshUnseen(u, now) == [state |-> "live", user |-> u, created |-> now, seen |-> 0]

Fresh(u, now) == [state |-> "live", user |-> u, created |-> now, seen |-> now]

\* now is the later of the task's own sample and of the user's updated_at.
LoginCommit(p, now) ==
  LET u == task[p].user
      active == {s \in task[p].read : ~Expired(s, now)}
  IN /\ task[p].pc = "insert"
     /\ user' = [user EXCEPT ![u].role = IF @ = "absent" THEN "user" ELSE @]
     /\ \E kept \in Newest(active) :
          session' = [s \in Flows |->
            IF s = task[p].flow THEN Fresh(u, now)
            ELSE IF s \in task[p].read \ kept THEN Ended(s)
            ELSE session[s]]
     /\ Becomes(p, Idle)
     /\ UNCHANGED <<time, loginEnabled, contained, flow, audited>>

\* Google or the database fails: the transaction rolls back, the flow stays consumed.
RequestFails(p) ==
  /\ task[p].pc # "idle"
  /\ Becomes(p, Idle)
  /\ UNCHANGED <<time, loginEnabled, contained, user, flow, session, audited>>

-----------------------------------------------------------------------------
(* Sessions *)

\* A request is authenticated: its session ends at a deadline, or is seen, at most every
\* five minutes.
Authenticate(s, now) ==
  /\ session[s].state = "live"
  /\ Unlocked({session[s].user})
  /\ IF Expired(s, now) \/ user[session[s].user].status # "active"
     THEN session' = [session EXCEPT ![s] = Ended(s)]
     ELSE /\ session[s].seen + Touch <= now
          /\ session' = [session EXCEPT ![s].seen = now]
  /\ UNCHANGED <<time, loginEnabled, contained, user, flow, audited, task>>

Logout(s) ==
  /\ session[s].state = "live"
  /\ Unlocked({session[s].user})
  /\ session' = [session EXCEPT ![s] = Ended(s)]
  /\ UNCHANGED <<time, loginEnabled, contained, user, flow, audited, task>>

\* Mutant: the emergency command does not insist that logins are disabled.
EmergencyAllowedAnyway == TRUE

EmergencyAllowed == ~loginEnabled

\* Every live session is locked, whoever's it is, and ends; a login that is about to
\* commit holds those it read.
EmergencyRevoke ==
  /\ EmergencyAllowed
  /\ \A p \in Tasks, s \in Flows : s \in task[p].read => session[s].state # "live"
  /\ session' = [s \in Flows |-> IF session[s].state = "live" THEN Ended(s) ELSE session[s]]
  /\ contained' = TRUE
  /\ UNCHANGED <<time, loginEnabled, user, flow, audited, task>>

-----------------------------------------------------------------------------
(* Commands of masters *)

\* A browser request: the session is authenticated and its user's role read, in a
\* transaction that is over before the command begins.
MasterRequest(p, s) ==
  /\ task[p].pc = "idle"
  /\ session[s].state = "live" /\ ~Expired(s, time)
  /\ session[s].user \in ActiveMasters
  /\ Becomes(p, [Idle EXCEPT !.pc = "command", !.actor = session[s].user])
  /\ UNCHANGED <<time, loginEnabled, contained, user, flow, session, audited>>

\* Mutant: the role that require_master saw is taken for granted.
AuthorizedBefore(actor, action) == TRUE

\* The actor's role is read again under the lock.
Authorized(actor, action) == action = "promote" \/ actor \in ActiveMasters

Unseen(command) == command \notin audited

\* The target exists and is active, unless the command is about that; nobody suspends
\* himself or the last active master.
Sensible(actor, target, action) ==
  /\ user[target].role # "absent"
  /\ action \in {"promote", "credit"} => user[target].status = "active"
  /\ action = "suspend" =>
       /\ target # actor
       /\ target \in ActiveMasters => Cardinality(ActiveMasters) > 1

\* What is asked for is looked at under the locks only.  A command that is refused, or
\* was carried out before, leaves everything as it is.
CommandLock(p, actor, target, action, command) ==
  /\ Unlocked(CommandLocks(actor, target))
  /\ Becomes(p, IF Authorized(actor, action) /\ Unseen(command) /\ Sensible(actor, target, action)
                THEN [Idle EXCEPT !.pc = "apply", !.actor = actor, !.user = target,
                                  !.action = action, !.command = command]
                ELSE Idle)
  /\ UNCHANGED <<time, loginEnabled, contained, user, flow, session, audited>>

MasterCommand(p, target, action, command) ==
  /\ task[p].pc = "command" /\ action # "promote"
  /\ CommandLock(p, task[p].actor, target, action, command)

\* The operator's command line promotes a user in that user's own name.
OperatorCommand(p, target, command) ==
  /\ task[p].pc = "idle"
  /\ CommandLock(p, target, target, "promote", command)

\* Mutant: a suspension leaves the user's sessions to expire.
RevokedNone(p) == {}

Revoked(p) == IF task[p].action = "suspend" THEN LiveOf(task[p].user) ELSE {}

CommandCommit(p) ==
  /\ task[p].pc = "apply"
  /\ user' = [user EXCEPT ![task[p].user] =
       CASE task[p].action = "suspend" -> [@ EXCEPT !.status = "suspended"]
         [] task[p].action = "reactivate" -> [@ EXCEPT !.status = "active"]
         [] task[p].action = "promote" -> [@ EXCEPT !.role = "master"]
         [] task[p].action = "credit" -> @]
  /\ session' = [s \in Flows |-> IF s \in Revoked(p) THEN Ended(s) ELSE session[s]]
  /\ audited' = audited \cup {task[p].command}
  /\ Becomes(p, Idle)
  /\ UNCHANGED <<time, loginEnabled, contained, flow>>

-----------------------------------------------------------------------------

\* The API is deployed again, with logins enabled or not: requests under way are gone.
Deploy(enabled) ==
  /\ loginEnabled' = enabled
  /\ contained' = (contained /\ ~enabled)
  /\ task' = [p \in Tasks |-> Idle]
  /\ UNCHANGED <<time, user, flow, session, audited>>

TimePasses ==
  /\ time < MaxClock
  /\ time' = time + 1
  /\ UNCHANGED <<loginEnabled, contained, user, flow, session, audited, task>>

TaskStep(p) ==
  \/ \E f \in Flows : Callback(p, f)
  \/ \E u \in Users : Login(p, u)
  \/ \E now \in Sampled : LoginCommit(p, now)
  \/ \E s \in Flows : MasterRequest(p, s)
  \/ \E target \in Users, command \in Commands :
       \/ OperatorCommand(p, target, command)
       \/ \E action \in Actions : MasterCommand(p, target, action, command)
  \/ CommandCommit(p)
  \/ RequestFails(p)

AccountsNext ==
  \/ \E p \in Tasks : TaskStep(p)
  \/ \E f \in Flows : BeginLogin(f)
  \/ \E s \in Flows : Logout(s) \/ \E now \in Sampled : Authenticate(s, now)
  \/ EmergencyRevoke
  \/ \E enabled \in BOOLEAN : Deploy(enabled)
  \/ TimePasses

AccountsSpec == AccountsInit /\ [][AccountsNext]_accountsVars

-----------------------------------------------------------------------------
(* Properties *)

\* Rows stay within their types, and live sessions within the CHECK constraints on their
\* dates: a statement that broke one would fail, and the login or request with it.
AccountsTypeOK ==
  /\ time \in Times
  /\ loginEnabled \in BOOLEAN /\ contained \in BOOLEAN
  /\ user \in [Users -> [role : {"absent", "user", "master"}, status : {"active", "suspended"}]]
  /\ flow \in [Flows -> [state : {"none", "stored", "consumed"}, created : Times]]
  /\ session \in [Flows -> [state : {"none", "live", "ended"}, user : Users \cup {Nobody},
                            created : Times, seen : Times]]
  /\ \A s \in Flows :
       /\ session[s].state = "live" => session[s].user \in Users
       /\ session[s].created <= session[s].seen
       /\ session[s].seen <= session[s].created + Lifetime
  /\ audited \subseteq Commands
  /\ task \in [Tasks -> [pc : {"idle", "exchange", "insert", "command", "apply"},
                         flow : Flows \cup {Nobody}, user : Users \cup {Nobody}, read : SUBSET Flows,
                         actor : Users \cup {Nobody}, action : Actions, command : Commands \cup {Nobody}]]

\* A user never has more than five sessions that are not revoked, however many logins
\* complete at the same time.
SessionLimit == \A u \in Users : Cardinality(LiveOf(u)) <= MaxSessions

\* A suspended user has no live session, also when a login was under way while the
\* suspension revoked those it saw.
SuspendedHasNoSession == \A u \in Users : user[u].status = "suspended" => LiveOf(u) = {}

\* A session that ended stays ended and a session belongs to one login: a callback that is
\* sent twice neither revives it nor gives it to another user.
SessionsAreFinal ==
  [][\A s \in Flows :
       /\ session[s].state = "ended" => session'[s].state = "ended"
       /\ session[s].state # "none" => session'[s].user = session[s].user]_accountsVars

\* Once there is an active master there always is one: no order of masters suspending each
\* other ends with nobody who could reactivate them.
ActiveMasterRemains == [][ActiveMasters # {} => ActiveMasters' # {}]_accountsVars

\* A command is carried out once, and at the moment it is, its actor is an active master -
\* whatever happened since the request was authenticated.
AuthorityIsCurrent ==
  [][\A p \in Tasks : CommandCommit(p) =>
       /\ task[p].command \notin audited
       /\ task[p].action = "promote" \/ task[p].actor \in ActiveMasters]_accountsVars

\* From the emergency revocation until logins are enabled again nobody is logged in, not
\* even by a login that was under way.
ContainmentHolds == contained => \A s \in Flows : session[s].state # "live"

=============================================================================
