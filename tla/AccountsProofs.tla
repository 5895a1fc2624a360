---------------------------- MODULE AccountsProofs ----------------------------
(***************************************************************************)
(* Proofs about Accounts, for any users, flows, tasks, deadlines and limit *)
(* of sessions.                                                            *)
(***************************************************************************)
EXTENDS Accounts, FiniteSetTheorems, TLAPS

(* Rows *)

UserRow == [role : {"absent", "user", "master"}, status : {"active", "suspended"}]

FlowRow == [state : {"none", "stored", "consumed"}, created : Times]

\* A session with its dates in order, and a user while it is live.
SessionRow ==
  {r \in [state : {"none", "live", "ended"}, user : Users \cup {Nobody}, created : Times, seen : Times] :
     /\ r.state = "live" => r.user \in Users
     /\ r.created <= r.seen /\ r.seen <= r.created + Lifetime}

TaskRow == [pc : {"idle", "exchange", "insert", "command", "apply"},
            flow : Flows \cup {Nobody}, user : Users \cup {Nobody}, read : SUBSET Flows,
            actor : Users \cup {Nobody}, action : Actions, command : Commands \cup {Nobody}]

\* AccountsTypeOK, with a name for each kind of row.
Typed ==
  /\ time \in Times /\ loginEnabled \in BOOLEAN /\ contained \in BOOLEAN
  /\ user \in [Users -> UserRow] /\ flow \in [Flows -> FlowRow]
  /\ session \in [Flows -> SessionRow] /\ task \in [Tasks -> TaskRow]
  /\ audited \subseteq Commands

-----------------------------------------------------------------------------
(* The invariant *)

InLogin == {"exchange", "insert"}
InCommand == {"command", "apply"}

\* What a task needs for its next step is there.
TasksTyped ==
  \A p \in Tasks :
    /\ task[p].pc \in InLogin => task[p].flow \in Flows
    /\ task[p].pc = "insert" => task[p].user \in Users
    /\ task[p].pc \in InCommand => task[p].actor \in Users
    /\ task[p].pc = "apply" => task[p].user \in Users /\ task[p].command \in Commands

\* A flow belongs to one task from its callback on, and to no session before that.
FlowsOwned ==
  /\ \A f \in Flows : flow[f].state # "consumed" => session[f].state = "none"
  /\ \A p \in Tasks : task[p].pc \in InLogin =>
       flow[task[p].flow].state = "consumed" /\ session[task[p].flow].state = "none"
  /\ \A p, q \in Tasks :
       task[p].pc \in InLogin /\ task[q].pc \in InLogin /\ task[p].flow = task[q].flow => p = q

\* Two transactions never hold the same lock.
LocksApart == \A p, q \in Tasks : p # q => Locked(p) \cap Locked(q) = {}

\* What a login read under the lock of its user is still so.
LoginsCurrent ==
  \A p \in Tasks : task[p].pc = "insert" =>
    user[task[p].user].status = "active" /\ task[p].read = LiveOf(task[p].user)

\* What a command read under its locks is still so.
CommandsCurrent ==
  \A p \in Tasks : task[p].pc = "apply" =>
    /\ task[p].action = "promote" \/ task[p].actor \in ActiveMasters
    /\ task[p].action = "suspend" => task[p].user # task[p].actor
    /\ task[p].command \notin audited

\* Containment lasts while logins are disabled, and then no login is under way.
LoginsDisabled ==
  /\ contained => ~loginEnabled
  /\ ~loginEnabled => \A p \in Tasks : task[p].pc \notin InLogin

\* The inductive invariant.
IInv ==
  /\ Typed /\ TasksTyped
  /\ FlowsOwned /\ LocksApart /\ LoginsCurrent /\ CommandsCurrent
  /\ LoginsDisabled /\ ContainmentHolds /\ SuspendedHasNoSession

-----------------------------------------------------------------------------
(* Types *)

\* Typed says what AccountsTypeOK says.
LEMMA TypedMeans == Typed <=> AccountsTypeOK
<1>1. session \in [Flows -> SessionRow] <=>
        /\ session \in [Flows -> [state : {"none", "live", "ended"}, user : Users \cup {Nobody},
                                  created : Times, seen : Times]]
        /\ \A s \in Flows :
             /\ session[s].state = "live" => session[s].user \in Users
             /\ session[s].created <= session[s].seen
             /\ session[s].seen <= session[s].created + Lifetime
  BY DEF SessionRow
<1> QED
  BY <1>1 DEF Typed, AccountsTypeOK, UserRow, FlowRow, TaskRow

\* A task that has nothing to do is a row.
LEMMA IdleType == Idle \in TaskRow /\ Idle.pc = "idle"
  BY DEF Idle, TaskRow, Actions

\* A login that was never begun, and a session that was never made, are rows.
LEMMA FirstRows == NoFlow \in FlowRow /\ NoSession \in SessionRow /\ NoSession.state = "none"
  BY AccountAssumption DEF NoFlow, FlowRow, NoSession, SessionRow, Times

\* What a session that ended leaves is a row of the same user without dates.
LEMMA EndedType ==
  ASSUME Typed, NEW s \in Flows
  PROVE  Ended(s) \in SessionRow /\ Ended(s).state = "ended" /\ Ended(s).user = session[s].user
<1>1. session[s].user \in Users \cup {Nobody}
  BY DEF Typed, SessionRow
<1>2. Ended(s).state = "ended" /\ Ended(s).user = session[s].user
      /\ Ended(s).created = 0 /\ Ended(s).seen = 0
  BY DEF Ended, NoSession
<1>3. Ended(s) \in [state : {"none", "live", "ended"}, user : Users \cup {Nobody},
                    created : Times, seen : Times]
  <2>1. 0 \in Times
    BY AccountAssumption DEF Times
  <2> QED
    BY <1>1, <2>1 DEF Ended, NoSession
<1> QED
  BY <1>2, <1>3, AccountAssumption DEF SessionRow

\* A new session is a row.
LEMMA FreshType ==
  ASSUME NEW u \in Users, NEW now \in Times
  PROVE  Fresh(u, now) \in SessionRow /\ Fresh(u, now).state = "live" /\ Fresh(u, now).user = u
  BY AccountAssumption DEF Fresh, SessionRow, Times

\* Everything is in place at the start.
LEMMA InitIInv == AccountsInit => IInv
<1> SUFFICES ASSUME AccountsInit PROVE IInv
  OBVIOUS
<1>1. Typed
  <2>1. user \in [Users -> UserRow]
    BY AccountAssumption DEF AccountsInit, UserRow
  <2>2. time \in Times /\ session \in [Flows -> SessionRow] /\ flow \in [Flows -> FlowRow]
    BY FirstRows, AccountAssumption DEF AccountsInit, Times
  <2>3. task \in [Tasks -> TaskRow]
    BY IdleType DEF AccountsInit
  <2> QED
    BY <2>1, <2>2, <2>3 DEF AccountsInit, Typed
<1>2. TasksTyped /\ FlowsOwned /\ LocksApart /\ LoginsCurrent /\ CommandsCurrent /\ LoginsDisabled
  BY IdleType, FirstRows DEF AccountsInit, TasksTyped, FlowsOwned, LocksApart, LoginsCurrent,
     CommandsCurrent, LoginsDisabled, InLogin, InCommand, Locked
<1>3. ContainmentHolds /\ SuspendedHasNoSession
  BY DEF AccountsInit, ContainmentHolds, SuspendedHasNoSession
<1> QED
  BY <1>1, <1>2, <1>3 DEF IInv

\* What a command does to a row of users, and a lock to a task, keeps to the types.
LEMMA CommandTypes ==
  ASSUME Typed, NEW p \in Tasks, NEW actor \in Users, NEW target \in Users, NEW action \in Actions,
         NEW command \in Commands, CommandLock(p, actor, target, action, command)
  PROVE  Typed'
<1>1. [Idle EXCEPT !.pc = "apply", !.actor = actor, !.user = target,
                   !.action = action, !.command = command] \in TaskRow
  BY DEF Idle, TaskRow
<1> QED
  BY <1>1, IdleType DEF Typed, CommandLock, Becomes

\* The steps, one by one.
LEMMA Steps ==
  ASSUME AccountsNext
  PROVE  \/ \E p \in Tasks, f \in Flows : Callback(p, f)
         \/ \E p \in Tasks, u \in Users : Login(p, u)
         \/ \E p \in Tasks, now \in Sampled : LoginCommit(p, now)
         \/ \E p \in Tasks : RequestFails(p)
         \/ \E p \in Tasks, s \in Flows : MasterRequest(p, s)
         \/ \E p \in Tasks, target \in Users, action \in Actions, command \in Commands :
              MasterCommand(p, target, action, command) \/ OperatorCommand(p, target, command)
         \/ \E p \in Tasks : CommandCommit(p)
         \/ \E f \in Flows : BeginLogin(f)
         \/ \E s \in Flows : Logout(s)
         \/ \E s \in Flows, now \in Sampled : Authenticate(s, now)
         \/ EmergencyRevoke
         \/ \E enabled \in BOOLEAN : Deploy(enabled)
         \/ TimePasses
<1>1. "promote" \in Actions
  BY DEF Actions
<1>2. CASE \E p \in Tasks : TaskStep(p)
  BY <1>1, <1>2, Zenon DEF TaskStep
<1>3. CASE ~\E p \in Tasks : TaskStep(p)
  BY <1>3, Zenon DEF AccountsNext
<1> QED
  BY <1>2, <1>3

\* Every step leaves rows of their types.
LEMMA TypeStep ==
  ASSUME Typed, TasksTyped, AccountsNext
  PROVE  Typed'
<1> USE AccountAssumption
<1>1. ASSUME NEW p \in Tasks, NEW f \in Flows, Callback(p, f) PROVE Typed'
  <2>1. Consumed(f) \in [Flows -> FlowRow]
    BY DEF Typed, Consumed, FlowRow, Times
  <2>2. [Idle EXCEPT !.pc = "exchange", !.flow = f] \in TaskRow
    BY DEF Idle, TaskRow, Actions
  <2> QED
    BY <1>1, <2>1, <2>2 DEF Typed, Callback, Becomes
<1>2. ASSUME NEW p \in Tasks, NEW u \in Users, Login(p, u) PROVE Typed'
  <2>1. [task[p] EXCEPT !.pc = "insert", !.user = u, !.read = LiveOf(u)] \in TaskRow
    BY DEF Typed, TaskRow, LiveOf
  <2> QED
    BY <1>2, <2>1, IdleType DEF Typed, Login, Becomes
<1>3. ASSUME NEW p \in Tasks, NEW now \in Sampled, LoginCommit(p, now) PROVE Typed'
  <2> DEFINE u == task[p].user
  <2>1. u \in Users /\ now \in Times
    BY <1>3 DEF LoginCommit, TasksTyped, Sampled
  <2>2. user' \in [Users -> UserRow]
    BY <1>3, <2>1 DEF Typed, UserRow, LoginCommit
  <2>3. \A s \in Flows : Ended(s) \in SessionRow /\ session[s] \in SessionRow
    BY EndedType DEF Typed
  <2>4. session' \in [Flows -> SessionRow]
    BY <1>3, <2>1, <2>3, FreshType DEF LoginCommit
  <2> QED
    BY <1>3, <2>2, <2>4, IdleType DEF Typed, LoginCommit, Becomes
<1>4. ASSUME NEW p \in Tasks, RequestFails(p) PROVE Typed'
  BY <1>4, IdleType DEF Typed, RequestFails, Becomes
<1>5. ASSUME NEW p \in Tasks, NEW s \in Flows, MasterRequest(p, s) PROVE Typed'
  <2>1. session[s].user \in Users
    BY <1>5 DEF MasterRequest, ActiveMasters
  <2>2. [Idle EXCEPT !.pc = "command", !.actor = session[s].user] \in TaskRow
    BY <2>1 DEF Idle, TaskRow, Actions
  <2> QED
    BY <1>5, <2>2 DEF Typed, MasterRequest, Becomes
<1>6. ASSUME NEW p \in Tasks, NEW target \in Users, NEW action \in Actions, NEW command \in Commands,
             MasterCommand(p, target, action, command) \/ OperatorCommand(p, target, command)
      PROVE  Typed'
  <2>1. "promote" \in Actions
    BY DEF Actions
  <2>2. MasterCommand(p, target, action, command) => task[p].actor \in Users
    BY DEF MasterCommand, TasksTyped, InCommand
  <2> QED
    BY <1>6, <2>1, <2>2, CommandTypes DEF MasterCommand, OperatorCommand
<1>7. ASSUME NEW p \in Tasks, CommandCommit(p) PROVE Typed'
  <2>1. task[p].user \in Users /\ task[p].command \in Commands /\ task[p].action \in Actions
    BY <1>7 DEF CommandCommit, TasksTyped, Typed, TaskRow
  <2>2. user' \in [Users -> UserRow]
    BY <1>7, <2>1 DEF Typed, UserRow, CommandCommit, Actions
  <2>3. \A s \in Flows : Ended(s) \in SessionRow /\ session[s] \in SessionRow
    BY EndedType DEF Typed
  <2>4. session' \in [Flows -> SessionRow]
    BY <1>7, <2>3 DEF CommandCommit
  <2> QED
    BY <1>7, <2>1, <2>2, <2>4, IdleType DEF Typed, CommandCommit, Becomes
<1>8. ASSUME NEW f \in Flows, BeginLogin(f) PROVE Typed'
  BY <1>8 DEF Typed, BeginLogin, FlowRow
<1>9. ASSUME NEW s \in Flows, Logout(s) PROVE Typed'
  BY <1>9, EndedType DEF Typed, Logout
<1>10. ASSUME NEW s \in Flows, NEW now \in Sampled, Authenticate(s, now) PROVE Typed'
  <2>1. now \in Times
    BY DEF Sampled
  <2>2. CASE session' = [session EXCEPT ![s] = Ended(s)]
    BY <1>10, <2>2, EndedType DEF Typed, Authenticate
  <2>3. CASE ~Expired(s, now) /\ session[s].seen + Touch <= now
             /\ session' = [session EXCEPT ![s].seen = now]
    <3>1. session[s].created \in Times /\ session[s].seen \in Times
          /\ session[s].created <= session[s].seen
      BY DEF Typed, SessionRow
    <3>2. session[s].created <= now /\ now <= session[s].created + Lifetime
      BY <2>1, <2>3, <3>1 DEF Expired, Times
    <3>3. [session[s] EXCEPT !.seen = now] \in SessionRow
      BY <2>1, <3>2 DEF Typed, SessionRow
    <3> QED
      BY <1>10, <2>3, <3>3 DEF Typed, Authenticate
  <2> QED
    BY <1>10, <2>2, <2>3 DEF Authenticate
<1>11. CASE EmergencyRevoke
  <2>1. \A s \in Flows : Ended(s) \in SessionRow /\ session[s] \in SessionRow
    BY EndedType DEF Typed
  <2> QED
    BY <1>11, <2>1 DEF EmergencyRevoke, Typed
<1>12. ASSUME NEW enabled \in BOOLEAN, Deploy(enabled) PROVE Typed'
  BY <1>12, IdleType DEF Typed, Deploy
<1>13. CASE TimePasses
  BY <1>13 DEF Typed, TimePasses, Times
<1> QED
  BY <1>1, <1>2, <1>3, <1>4, <1>5, <1>6, <1>7, <1>8, <1>9, <1>10, <1>11, <1>12, <1>13,
     Steps

-----------------------------------------------------------------------------
(* Tasks, flows and sessions *)

\* What a task needs for its next step is there after every step.
LEMMA TasksStep ==
  ASSUME Typed, TasksTyped, AccountsNext
  PROVE  TasksTyped'
<1> USE DEF TasksTyped, InLogin, InCommand, Becomes
<1>1. ASSUME NEW p \in Tasks, NEW f \in Flows, Callback(p, f) PROVE TasksTyped'
  BY <1>1, ZenonT(60) DEF Callback, Typed, Idle
<1>2. ASSUME NEW p \in Tasks, NEW u \in Users, Login(p, u) PROVE TasksTyped'
  BY <1>2 DEF Login, Typed, TaskRow, Idle
<1>3. ASSUME NEW p \in Tasks, NEW now \in Sampled, LoginCommit(p, now) PROVE TasksTyped'
  BY <1>3 DEF LoginCommit, Typed, Idle
<1>4. ASSUME NEW p \in Tasks, RequestFails(p) PROVE TasksTyped'
  BY <1>4 DEF RequestFails, Typed, Idle
<1>5. ASSUME NEW p \in Tasks, NEW s \in Flows, MasterRequest(p, s) PROVE TasksTyped'
  BY <1>5 DEF MasterRequest, Typed, Idle, ActiveMasters
<1>6. ASSUME NEW p \in Tasks, NEW actor \in Users, NEW target \in Users, NEW action \in Actions,
             NEW command \in Commands, CommandLock(p, actor, target, action, command)
      PROVE  TasksTyped'
  BY <1>6 DEF CommandLock, Typed, Idle
<1>7. ASSUME NEW p \in Tasks, NEW target \in Users, NEW action \in Actions, NEW command \in Commands,
             MasterCommand(p, target, action, command) \/ OperatorCommand(p, target, command)
      PROVE  TasksTyped'
  BY <1>6, <1>7 DEF MasterCommand, OperatorCommand, Actions
<1>8. ASSUME NEW p \in Tasks, CommandCommit(p) PROVE TasksTyped'
  BY <1>8 DEF CommandCommit, Typed, Idle
<1>9. ASSUME NEW f \in Flows, BeginLogin(f) PROVE TasksTyped'
  BY <1>9 DEF BeginLogin
<1>10. ASSUME NEW s \in Flows, Logout(s) PROVE TasksTyped'
  BY <1>10 DEF Logout
<1>11. ASSUME NEW s \in Flows, NEW now \in Sampled, Authenticate(s, now) PROVE TasksTyped'
  BY <1>11 DEF Authenticate
<1>12. CASE EmergencyRevoke
  BY <1>12 DEF EmergencyRevoke
<1>13. ASSUME NEW enabled \in BOOLEAN, Deploy(enabled) PROVE TasksTyped'
  BY <1>13 DEF Deploy, Idle
<1>14. CASE TimePasses
  BY <1>14 DEF TimePasses
<1> QED
  BY <1>1, <1>2, <1>3, <1>4, <1>5, <1>7, <1>8, <1>9, <1>10, <1>11, <1>12, <1>13, <1>14, Steps

\* A session begins once, with the login its flow belongs to, ends once, and keeps its user.
SessionChange(s) ==
  \/ /\ session'[s].state = session[s].state
     /\ session'[s].user = session[s].user
  \/ /\ session[s].state = "live" /\ session'[s].state = "ended"
     /\ session'[s].user = session[s].user
  \/ /\ session[s].state = "none" /\ session'[s].state = "live"
     /\ \E p \in Tasks : /\ task[p].pc = "insert" /\ task[p].flow = s /\ loginEnabled
                        /\ session'[s].user = task[p].user
                        /\ task' = [task EXCEPT ![p] = Idle] /\ flow' = flow

LEMMA SessionStep ==
  ASSUME IInv, AccountsNext, NEW s \in Flows
  PROVE  SessionChange(s)
<1> USE DEF IInv
<1>1. ASSUME NEW p \in Tasks, NEW now \in Sampled, LoginCommit(p, now) PROVE SessionChange(s)
  <2> DEFINE u == task[p].user
  <2>1. u \in Users /\ now \in Times /\ task[p].flow \in Flows /\ session[task[p].flow].state = "none"
    BY <1>1 DEF LoginCommit, TasksTyped, FlowsOwned, InLogin, Sampled
  <2>2. CASE s = task[p].flow
    <3>1. session'[s] = Fresh(u, now)
      BY <1>1, <2>2 DEF LoginCommit
    <3>2. task[p].pc = "insert" /\ loginEnabled
      BY <1>1 DEF LoginCommit, LoginsDisabled, InLogin, Typed
    <3>3. task' = [task EXCEPT ![p] = Idle] /\ flow' = flow
      BY <1>1 DEF LoginCommit, Becomes
    <3>4. session[s].state = "none" /\ session'[s].state = "live" /\ session'[s].user = u
      BY <2>1, <2>2, <3>1, FreshType
    <3> QED
      BY <2>2, <3>2, <3>3, <3>4 DEF SessionChange
  <2>3. CASE s # task[p].flow
    <3>1. session'[s] = session[s] \/ (s \in task[p].read /\ session'[s] = Ended(s))
      BY <1>1, <2>3 DEF LoginCommit
    <3>2. s \in task[p].read => session[s].state = "live"
      BY <1>1 DEF LoginCommit, LoginsCurrent, LiveOf
    <3> QED
      BY <3>1, <3>2, EndedType DEF SessionChange
  <2> QED
    BY <2>2, <2>3
<1>2. ASSUME NEW p \in Tasks, CommandCommit(p) PROVE SessionChange(s)
  <2>1. session'[s] = session[s] \/ (session[s].state = "live" /\ session'[s] = Ended(s))
    BY <1>2 DEF CommandCommit, Revoked, LiveOf
  <2> QED
    BY <2>1, EndedType DEF SessionChange
<1>3. ASSUME NEW t \in Flows, Logout(t) PROVE SessionChange(s)
  BY <1>3, EndedType DEF Logout, SessionChange, Typed
<1>4. ASSUME NEW t \in Flows, NEW now \in Sampled, Authenticate(t, now) PROVE SessionChange(s)
  <2>1. CASE session' = [session EXCEPT ![t] = Ended(t)]
    BY <1>4, <2>1, EndedType DEF Authenticate, SessionChange, Typed
  <2>2. CASE session' = [session EXCEPT ![t].seen = now]
    BY <2>2 DEF SessionChange, Typed, SessionRow
  <2> QED
    BY <1>4, <2>1, <2>2 DEF Authenticate
<1>5. CASE EmergencyRevoke
  BY <1>5, EndedType DEF EmergencyRevoke, SessionChange
<1>6. CASE UNCHANGED session
  BY <1>6 DEF SessionChange
<1> QED
  BY <1>1, <1>2, <1>3, <1>4, <1>5, <1>6, Steps, ZenonT(60)
     DEF Callback, Login, RequestFails, MasterRequest, MasterCommand, OperatorCommand, CommandLock,
         BeginLogin, Deploy, TimePasses

\* No flow is ever used by two tasks, or again after its session was made.
LEMMA FlowsStep ==
  ASSUME IInv, AccountsNext
  PROVE  FlowsOwned'
<1> USE DEF IInv, InLogin, Becomes
<1>1. ASSUME NEW p \in Tasks, NEW f \in Flows, Callback(p, f) PROVE FlowsOwned'
  <2>1. flow'[f].state = "consumed" /\ \A g \in Flows \ {f} : flow'[g] = flow[g]
    BY <1>1 DEF Callback, Consumed, Typed
  <2>2. session' = session /\ session[f].state = "none"
    BY <1>1 DEF Callback, FlowsOwned
  <2>3. \A q \in Tasks : task[q].pc \in InLogin => task[q].flow # f
    BY <1>1 DEF Callback, FlowsOwned
  <2>4. task' = task \/ task' = [task EXCEPT ![p] = [Idle EXCEPT !.pc = "exchange", !.flow = f]]
    BY <1>1 DEF Callback
  <2>5. \A q \in Tasks : task'[q] = task[q] \/ (q = p /\ task'[q].pc = "exchange" /\ task'[q].flow = f)
    BY <2>4 DEF Typed, Idle
  <2> QED
    BY <2>1, <2>2, <2>3, <2>5 DEF FlowsOwned, TasksTyped
<1>2. ASSUME NEW p \in Tasks, flow' = flow, NEW next, task' = [task EXCEPT ![p] = next],
             next.pc \in InLogin => task[p].pc \in InLogin /\ next.flow = task[p].flow,
             UNCHANGED session
      PROVE  FlowsOwned'
  BY <1>2 DEF FlowsOwned, Typed
<1>3. ASSUME NEW p \in Tasks, NEW u \in Users, Login(p, u) PROVE FlowsOwned'
  BY <1>2, <1>3, IdleType DEF Login, Typed, TaskRow
<1>4. ASSUME NEW p \in Tasks, NEW now \in Sampled, LoginCommit(p, now) PROVE FlowsOwned'
  <2>1. task' = [task EXCEPT ![p] = Idle] /\ flow' = flow
    BY <1>4 DEF LoginCommit
  <2>2. \A s \in Flows : session[s].state = "none" /\ s # task[p].flow => session'[s].state = "none"
    BY <1>4 DEF LoginCommit, LoginsCurrent, LiveOf
  <2>3. task[p].pc = "insert"
    BY <1>4 DEF LoginCommit
  <2>4. \A q \in Tasks : task'[q].pc \in InLogin =>
          task[q].pc \in InLogin /\ task'[q].flow = task[q].flow /\ task[q].flow # task[p].flow
    BY <2>1, <2>3, IdleType DEF FlowsOwned, Typed
  <2> QED
    BY <2>1, <2>2, <2>3, <2>4 DEF FlowsOwned, TasksTyped
<1>5. ASSUME NEW p \in Tasks, RequestFails(p) PROVE FlowsOwned'
  BY <1>2, <1>5, IdleType DEF RequestFails
<1>6. ASSUME NEW p \in Tasks, NEW s \in Flows, MasterRequest(p, s) PROVE FlowsOwned'
  <2>1. [Idle EXCEPT !.pc = "command", !.actor = session[s].user].pc = "command"
    BY DEF Idle
  <2> QED
    BY <1>2, <1>6, <2>1 DEF MasterRequest
<1>7. ASSUME NEW p \in Tasks, NEW actor, NEW target, NEW action, NEW command,
             CommandLock(p, actor, target, action, command)
      PROVE  FlowsOwned'
  <2>1. [Idle EXCEPT !.pc = "apply", !.actor = actor, !.user = target,
                     !.action = action, !.command = command].pc = "apply"
    BY DEF Idle
  <2> QED
    BY <1>2, <1>7, <2>1, IdleType DEF CommandLock
<1>8. ASSUME NEW p \in Tasks, CommandCommit(p) PROVE FlowsOwned'
  <2>1. \A s \in Flows : session[s].state = "none" => session'[s].state = "none"
    BY <1>8 DEF CommandCommit, Revoked, LiveOf
  <2>2. task' = [task EXCEPT ![p] = Idle] /\ flow' = flow
    BY <1>8 DEF CommandCommit
  <2> QED
    BY <2>1, <2>2, IdleType DEF FlowsOwned, TasksTyped, Typed
<1>9. ASSUME NEW f \in Flows, BeginLogin(f) PROVE FlowsOwned'
  BY <1>9 DEF BeginLogin, FlowsOwned, TasksTyped, Typed
<1>10. ASSUME UNCHANGED <<flow, task>>, \A s \in Flows : session[s].state = "none" => session'[s].state = "none"
       PROVE  FlowsOwned'
  BY <1>10 DEF FlowsOwned, TasksTyped
<1>11. ASSUME UNCHANGED <<flow, task>> PROVE FlowsOwned'
  <2>1. ASSUME NEW s \in Flows, session[s].state = "none" PROVE session'[s].state = "none"
    <3>1. ASSUME NEW p \in Tasks, task[p].pc = "insert", task' = [task EXCEPT ![p] = Idle] PROVE FALSE
      BY <1>11, <3>1, IdleType DEF Typed
    <3> QED
      BY <2>1, <3>1, SessionStep DEF SessionChange
  <2> QED
    BY <1>10, <1>11, <2>1
<1>12. ASSUME NEW enabled \in BOOLEAN, Deploy(enabled) PROVE FlowsOwned'
  BY <1>12, IdleType DEF Deploy, FlowsOwned
<1> QED
  BY <1>1, <1>3, <1>4, <1>5, <1>6, <1>7, <1>8, <1>9, <1>11, <1>12, Steps
     DEF MasterCommand, OperatorCommand, Logout, Authenticate, EmergencyRevoke, TimePasses

-----------------------------------------------------------------------------
(* Locks, and what is read under them *)

\* A task that goes on takes locks no other task has.
LEMMA LockMove ==
  ASSUME LocksApart, NEW p \in Tasks, \A q \in Tasks \ {p} : task'[q] = task[q],
         \A q \in Tasks \ {p} : Locked(q) \cap Locked(p)' = {}
  PROVE  LocksApart'
<1>1. \A q \in Tasks \ {p} : Locked(q)' = Locked(q)
  BY DEF Locked
<1> QED
  BY <1>1 DEF LocksApart

\* No step gives a lock to two tasks.
LEMMA LocksStep ==
  ASSUME IInv, AccountsNext
  PROVE  LocksApart'
<1> USE DEF IInv, Becomes
<1>1. ASSUME NEW p \in Tasks, NEW next, task' = [task EXCEPT ![p] = next],
             next.pc \notin {"insert", "apply"}
      PROVE  LocksApart'
  <2>1. Locked(p)' = {} /\ \A q \in Tasks \ {p} : task'[q] = task[q]
    BY <1>1 DEF Locked, Typed
  <2> QED
    BY <2>1, LockMove
<1>2. ASSUME NEW p \in Tasks, NEW u \in Users, Login(p, u) PROVE LocksApart'
  <2>1. CASE task' = [task EXCEPT ![p] = Idle]
    BY <1>1, <2>1, IdleType
  <2>2. CASE task' = [task EXCEPT ![p] = [task[p] EXCEPT !.pc = "insert", !.user = u, !.read = LiveOf(u)]]
    <3>1. task'[p].pc = "insert" /\ task'[p].user = u /\ \A q \in Tasks \ {p} : task'[q] = task[q]
      BY <2>2 DEF Typed, TaskRow
    <3>2. Locked(p)' = {u}
      BY <3>1 DEF Locked
    <3> QED
      BY <1>2, <3>1, <3>2, LockMove DEF Login, Unlocked
  <2> QED
    BY <1>2, <2>1, <2>2 DEF Login
<1>3. ASSUME NEW p \in Tasks, NEW actor \in Users, NEW target \in Users, NEW action \in Actions,
             NEW command \in Commands, CommandLock(p, actor, target, action, command)
      PROVE  LocksApart'
  <2> DEFINE next == [Idle EXCEPT !.pc = "apply", !.actor = actor, !.user = target,
                                  !.action = action, !.command = command]
  <2>1. CASE task' = [task EXCEPT ![p] = Idle]
    BY <1>1, <2>1, IdleType
  <2>2. CASE task' = [task EXCEPT ![p] = next]
    <3>1. task'[p].pc = "apply" /\ task'[p].user = target /\ task'[p].actor = actor
          /\ \A q \in Tasks \ {p} : task'[q] = task[q]
      BY <2>2 DEF Typed, Idle
    <3>2. Locked(p)' = CommandLocks(actor, target)
      BY <3>1 DEF Locked, CommandLocks
    <3> QED
      BY <1>3, <3>1, <3>2, LockMove DEF CommandLock, Unlocked
  <2> QED
    BY <1>3, <2>1, <2>2 DEF CommandLock
<1>4. ASSUME NEW p \in Tasks, NEW target \in Users, NEW action \in Actions, NEW command \in Commands,
             MasterCommand(p, target, action, command) \/ OperatorCommand(p, target, command)
      PROVE  LocksApart'
  <2>1. "promote" \in Actions
    BY DEF Actions
  <2>2. MasterCommand(p, target, action, command) => task[p].actor \in Users
    BY DEF MasterCommand, TasksTyped, InCommand
  <2> QED
    BY <1>3, <1>4, <2>1, <2>2 DEF MasterCommand, OperatorCommand
<1>5. ASSUME NEW p \in Tasks, NEW f \in Flows, Callback(p, f) PROVE LocksApart'
  <2>1. [Idle EXCEPT !.pc = "exchange", !.flow = f].pc = "exchange"
    BY DEF Idle
  <2>2. CASE task' = task
    BY <2>2 DEF LocksApart, Locked
  <2> QED
    BY <1>1, <1>5, <2>1, <2>2 DEF Callback
<1>6. ASSUME NEW p \in Tasks, NEW s \in Flows, MasterRequest(p, s) PROVE LocksApart'
  <2>1. [Idle EXCEPT !.pc = "command", !.actor = session[s].user].pc = "command"
    BY DEF Idle
  <2> QED
    BY <1>1, <1>6, <2>1 DEF MasterRequest
<1>7. ASSUME NEW p \in Tasks,
             (\E now \in Sampled : LoginCommit(p, now)) \/ CommandCommit(p) \/ RequestFails(p)
      PROVE  LocksApart'
  BY <1>1, <1>7, IdleType DEF LoginCommit, CommandCommit, RequestFails
<1>8. CASE UNCHANGED task
  BY <1>8 DEF LocksApart, Locked
<1>9. ASSUME NEW enabled \in BOOLEAN, Deploy(enabled) PROVE LocksApart'
  BY <1>9, IdleType DEF Deploy, LocksApart, Locked
<1> QED
  BY <1>2, <1>4, <1>5, <1>6, <1>7, <1>8, <1>9, Steps
     DEF BeginLogin, Logout, Authenticate, EmergencyRevoke, TimePasses

\* While a login holds the row of its user, nobody suspends the user or touches its sessions.
LEMMA LoginHolds ==
  ASSUME IInv, AccountsNext, NEW p \in Tasks, NEW u \in Users, task[p].pc = "insert",
         task[p].user = u, task'[p] = task[p]
  PROVE  user'[u].status = user[u].status /\ LiveOf(u)' = LiveOf(u)
<1> USE DEF IInv
<1>1. u \in Locked(p) /\ task[p].read = LiveOf(u)
  BY DEF Locked, LoginsCurrent
<1>2. ASSUME NEW q \in Tasks, NEW now \in Sampled, LoginCommit(q, now)
      PROVE  user'[u].status = user[u].status /\ LiveOf(u)' = LiveOf(u)
  <2>1. q # p
    BY <1>2, IdleType DEF LoginCommit, Becomes, Typed
  <2>2. task[q].user # u /\ task[q].user \in Users
    BY <1>1, <1>2, <2>1 DEF LocksApart, Locked, LoginCommit, TasksTyped
  <2>3. user'[u] = user[u]
    BY <1>1, <1>2, <2>2 DEF LoginCommit, Typed
  <2>4. now \in Times /\ session[task[q].flow].state = "none"
    BY <1>2 DEF LoginCommit, FlowsOwned, InLogin, Sampled
  <2>5. ASSUME NEW s \in Flows
        PROVE  (session'[s].state = "live" /\ session'[s].user = u)
                 <=> (session[s].state = "live" /\ session[s].user = u)
    <3>1. CASE s = task[q].flow
      <4>1. session'[s] = Fresh(task[q].user, now)
        BY <1>2, <3>1 DEF LoginCommit
      <4> QED
        BY <2>2, <2>4, <3>1, <4>1, FreshType
    <3>2. CASE s # task[q].flow /\ session'[s] = session[s]
      BY <3>2
    <3>3. CASE s \in task[q].read /\ session'[s] = Ended(s)
      <4>1. session[s].user = task[q].user
        BY <1>2, <3>3 DEF LoginCommit, LoginsCurrent, LiveOf
      <4> QED
        BY <2>2, <3>3, <4>1, EndedType
    <3> QED
      BY <1>2, <3>1, <3>2, <3>3 DEF LoginCommit
  <2> QED
    BY <2>3, <2>5 DEF LiveOf
<1>3. ASSUME NEW q \in Tasks, CommandCommit(q)
      PROVE  user'[u].status = user[u].status /\ LiveOf(u)' = LiveOf(u)
  <2>1. task[q].user # u /\ task[q].user \in Users
    BY <1>1, <1>3 DEF LocksApart, Locked, CommandLocks, CommandCommit, TasksTyped
  <2>2. user'[u] = user[u]
    BY <1>1, <1>3, <2>1 DEF CommandCommit, Typed
  <2>3. ASSUME NEW s \in Flows
        PROVE  session'[s] = session[s] \/ (session[s].user # u /\ session'[s] = Ended(s))
    BY <1>3, <2>1 DEF CommandCommit, Revoked, LiveOf
  <2> QED
    BY <2>2, <2>3, EndedType DEF LiveOf
<1>4. ASSUME NEW t \in Flows, Logout(t)
      PROVE  user'[u].status = user[u].status /\ LiveOf(u)' = LiveOf(u)
  <2>1. session[t].user # u
    BY <1>1, <1>4 DEF Logout, Unlocked
  <2>2. \A s \in Flows : session'[s] = IF s = t THEN Ended(t) ELSE session[s]
    BY <1>4 DEF Logout, Typed
  <2> QED
    BY <1>4, <2>1, <2>2, EndedType DEF Logout, LiveOf
<1>5. ASSUME NEW t \in Flows, NEW now \in Sampled, Authenticate(t, now)
      PROVE  user'[u].status = user[u].status /\ LiveOf(u)' = LiveOf(u)
  <2>1. session[t].user # u
    BY <1>1, <1>5 DEF Authenticate, Unlocked
  <2>2. \A s \in Flows : s # t => session'[s] = session[s]
    BY <1>5 DEF Authenticate, Typed
  <2>3. CASE session' = [session EXCEPT ![t] = Ended(t)]
    BY <1>5, <2>1, <2>2, <2>3, EndedType DEF Authenticate, LiveOf, Typed
  <2>4. CASE session' = [session EXCEPT ![t].seen = now]
    <3>1. session'[t].user = session[t].user
      BY <2>4 DEF Typed, SessionRow
    <3> QED
      BY <1>5, <2>1, <2>2, <3>1 DEF Authenticate, LiveOf
  <2> QED
    BY <1>5, <2>3, <2>4 DEF Authenticate
<1>6. CASE EmergencyRevoke
  <2>1. LiveOf(u) = {}
    BY <1>1, <1>6 DEF EmergencyRevoke, LiveOf
  <2>2. \A s \in Flows : session'[s].state # "live"
    BY <1>6, EndedType DEF EmergencyRevoke
  <2> QED
    BY <1>6, <2>1, <2>2 DEF EmergencyRevoke, LiveOf
<1>7. CASE UNCHANGED <<user, session>>
  BY <1>7 DEF LiveOf
<1> QED
  BY <1>2, <1>3, <1>4, <1>5, <1>6, <1>7, Steps, ZenonT(60)
     DEF Callback, Login, RequestFails, MasterRequest, MasterCommand, OperatorCommand, CommandLock,
         BeginLogin, Deploy, TimePasses

\* A task comes to commit a login or a command by its locks only.
LEMMA OneTask ==
  ASSUME IInv, AccountsNext, NEW p \in Tasks, task'[p] # task[p]
  PROVE  \/ task'[p].pc \notin {"insert", "apply"}
         \/ \E u \in Users : /\ Login(p, u) /\ user[u].status = "active"
                            /\ task'[p].pc = "insert" /\ task'[p].user = u /\ task'[p].read = LiveOf(u)
         \/ \E actor \in Users, target \in Users, action \in Actions, command \in Commands :
              /\ Authorized(actor, action) /\ Unseen(command) /\ Sensible(actor, target, action)
              /\ UNCHANGED <<user, audited>>
              /\ task'[p].pc = "apply" /\ task'[p].actor = actor /\ task'[p].user = target
              /\ task'[p].action = action /\ task'[p].command = command
<1> USE DEF IInv, Becomes
<1>1. ASSUME NEW q \in Tasks, NEW next, task' = [task EXCEPT ![q] = next] PROVE q = p /\ task'[p] = next
  BY <1>1 DEF Typed
<1>2. ASSUME NEW q \in Tasks, NEW f \in Flows, Callback(q, f) PROVE task'[p].pc = "exchange"
  <2>1. [Idle EXCEPT !.pc = "exchange", !.flow = f].pc = "exchange"
    BY DEF Idle
  <2> QED
    BY <1>1, <1>2, <2>1 DEF Callback
<1>3. ASSUME NEW q \in Tasks, NEW u \in Users, Login(q, u)
      PROVE  task'[p].pc = "idle" \/ (/\ Login(p, u) /\ user[u].status = "active"
               /\ task'[p].pc = "insert" /\ task'[p].user = u /\ task'[p].read = LiveOf(u))
  <2> DEFINE next == [task[q] EXCEPT !.pc = "insert", !.user = u, !.read = LiveOf(u)]
  <2>1. next.pc = "insert" /\ next.user = u /\ next.read = LiveOf(u)
    BY DEF Typed, TaskRow
  <2>2. (task' = [task EXCEPT ![q] = next] /\ user[u].status = "active") \/ task' = [task EXCEPT ![q] = Idle]
    BY <1>3 DEF Login
  <2> QED
    BY <1>1, <1>3, <2>1, <2>2, IdleType
<1>4. ASSUME NEW q \in Tasks, NEW s \in Flows, MasterRequest(q, s) PROVE task'[p].pc = "command"
  <2>1. [Idle EXCEPT !.pc = "command", !.actor = session[s].user].pc = "command"
    BY DEF Idle
  <2> QED
    BY <1>1, <1>4, <2>1 DEF MasterRequest
<1>5. ASSUME NEW q \in Tasks, NEW actor \in Users, NEW target \in Users, NEW action \in Actions,
             NEW command \in Commands, CommandLock(q, actor, target, action, command)
      PROVE  task'[p].pc = "idle" \/
             (/\ Authorized(actor, action) /\ Unseen(command) /\ Sensible(actor, target, action)
              /\ UNCHANGED <<user, audited>>
              /\ task'[p].pc = "apply" /\ task'[p].actor = actor /\ task'[p].user = target
              /\ task'[p].action = action /\ task'[p].command = command)
  <2> DEFINE next == [Idle EXCEPT !.pc = "apply", !.actor = actor, !.user = target,
                                  !.action = action, !.command = command]
  <2>1. next.pc = "apply" /\ next.actor = actor /\ next.user = target
        /\ next.action = action /\ next.command = command
    BY DEF Idle
  <2>2. \/ /\ Authorized(actor, action) /\ Unseen(command) /\ Sensible(actor, target, action)
           /\ task' = [task EXCEPT ![q] = next]
        \/ task' = [task EXCEPT ![q] = Idle]
    BY <1>5 DEF CommandLock
  <2> QED
    BY <1>1, <1>5, <2>1, <2>2, IdleType DEF CommandLock
<1>6. ASSUME NEW q \in Tasks, NEW t \in Users, NEW b \in Actions, NEW c \in Commands,
             MasterCommand(q, t, b, c) \/ OperatorCommand(q, t, c)
      PROVE  task'[p].pc = "idle" \/
             \E actor \in Users, target \in Users, action \in Actions, command \in Commands :
              /\ Authorized(actor, action) /\ Unseen(command) /\ Sensible(actor, target, action)
              /\ UNCHANGED <<user, audited>>
              /\ task'[p].pc = "apply" /\ task'[p].actor = actor /\ task'[p].user = target
              /\ task'[p].action = action /\ task'[p].command = command
  <2>1. "promote" \in Actions
    BY DEF Actions
  <2>2. MasterCommand(q, t, b, c) => task[q].actor \in Users
    BY DEF MasterCommand, TasksTyped, InCommand
  <2>3. PICK actor \in Users, action \in Actions : CommandLock(q, actor, t, action, c)
    BY <1>6, <2>1, <2>2 DEF MasterCommand, OperatorCommand
  <2> QED
    BY <1>5, <2>3
<1>7. ASSUME NEW q \in Tasks,
             (\E now \in Sampled : LoginCommit(q, now)) \/ CommandCommit(q) \/ RequestFails(q)
      PROVE  task'[p].pc = "idle"
  BY <1>1, <1>7, IdleType DEF LoginCommit, CommandCommit, RequestFails
<1>8. ASSUME NEW enabled \in BOOLEAN, Deploy(enabled) PROVE task'[p].pc = "idle"
  BY <1>8, IdleType DEF Deploy
<1>9. task' # task
  OBVIOUS
<1>10. ~(\/ \E f \in Flows : BeginLogin(f)
         \/ \E s \in Flows : Logout(s)
         \/ \E s \in Flows, now \in Sampled : Authenticate(s, now)
         \/ EmergencyRevoke \/ TimePasses)
  BY <1>9 DEF BeginLogin, Logout, Authenticate, EmergencyRevoke, TimePasses
<1>11. CASE task'[p].pc \notin {"insert", "apply"}
  BY <1>11
<1>12. CASE task'[p].pc \in {"insert", "apply"}
  <2>1. \/ \E q \in Tasks, u \in Users : Login(q, u)
        \/ \E q \in Tasks, t \in Users, b \in Actions, c \in Commands :
             MasterCommand(q, t, b, c) \/ OperatorCommand(q, t, c)
    BY <1>2, <1>4, <1>7, <1>8, <1>10, <1>12, Steps
  <2> QED
    BY <1>3, <1>6, <1>12, <2>1
<1> QED
  BY <1>11, <1>12

\* What a login has read stays so until it commits.
LEMMA LoginsStep ==
  ASSUME IInv, AccountsNext
  PROVE  LoginsCurrent'
<1> USE DEF IInv
<1>1. ASSUME NEW p \in Tasks, NEW u \in Users, task'[p].pc = "insert", task'[p].user = u
      PROVE  user'[u].status = "active" /\ task'[p].read = LiveOf(u)'
  <2>1. CASE task'[p] = task[p]
    BY <1>1, <2>1, LoginHolds DEF LoginsCurrent
  <2>2. CASE task'[p] # task[p]
    <3>1. Login(p, u) /\ user[u].status = "active" /\ task'[p].read = LiveOf(u)
      BY <1>1, <2>2, OneTask
    <3> QED
      BY <3>1 DEF Login, LiveOf
  <2> QED
    BY <2>1, <2>2
<1>2. \A p \in Tasks : task'[p].pc = "insert" => task'[p].user \in Users
  BY TasksStep DEF TasksTyped
<1> QED
  BY <1>1, <1>2 DEF LoginsCurrent, LiveOf

\* What a command has read stays so until it commits.
LEMMA CommandsStep ==
  ASSUME IInv, AccountsNext
  PROVE  CommandsCurrent'
<1> USE DEF IInv
<1> SUFFICES ASSUME NEW p \in Tasks, task'[p].pc = "apply"
             PROVE  /\ task'[p].action = "promote" \/ task'[p].actor \in ActiveMasters'
                    /\ task'[p].action = "suspend" => task'[p].user # task'[p].actor
                    /\ task'[p].command \notin audited'
  BY DEF CommandsCurrent, ActiveMasters
<1>1. CASE task'[p] = task[p]
  <2>1. task[p].actor \in Users /\ {task[p].actor, "advisory"} \subseteq Locked(p)
    BY <1>1 DEF TasksTyped, InCommand, Locked, CommandLocks
  <2>2. ASSUME NEW q \in Tasks PROVE ~CommandCommit(q)
    <3>1. CommandCommit(q) => q # p
      BY <1>1, IdleType DEF Typed, Becomes, CommandCommit
    <3>2. CommandCommit(q) => "advisory" \in Locked(q)
      BY DEF CommandCommit, Locked, CommandLocks
    <3> QED
      BY <2>1, <3>1, <3>2 DEF LocksApart, CommandCommit, Becomes, Typed
  <2>3. ASSUME NEW q \in Tasks, NEW now \in Sampled, LoginCommit(q, now)
        PROVE  user'[task[p].actor] = user[task[p].actor]
    <3>1. task[q].user \in Locked(q) /\ q # p
      BY <1>1, <2>3 DEF LoginCommit, Locked
    <3>2. task[q].user # task[p].actor
      BY <2>1, <3>1 DEF LocksApart
    <3> QED
      BY <2>1, <2>3, <3>2 DEF LoginCommit, Typed
  <2>4. user'[task[p].actor] = user[task[p].actor] /\ audited' = audited
    BY <2>2, <2>3, Steps, ZenonT(60) DEF Callback, Login, LoginCommit, RequestFails, MasterRequest, MasterCommand,
       OperatorCommand, CommandLock, BeginLogin, Logout, Authenticate, EmergencyRevoke, Deploy, TimePasses
  <2> QED
    BY <1>1, <2>1, <2>4 DEF CommandsCurrent, ActiveMasters
<1>2. CASE task'[p] # task[p]
  <2>1. PICK actor \in Users, target \in Users, action \in Actions, command \in Commands :
              /\ Authorized(actor, action) /\ Unseen(command) /\ Sensible(actor, target, action)
              /\ UNCHANGED <<user, audited>>
              /\ task'[p].actor = actor /\ task'[p].user = target
              /\ task'[p].action = action /\ task'[p].command = command
    BY <1>2, OneTask
  <2> QED
    BY <2>1 DEF Authorized, Unseen, Sensible, ActiveMasters
<1> QED
  BY <1>1, <1>2

\* Only a command about the user changes the user's status, and only a suspension suspends.
LEMMA StatusStep ==
  ASSUME IInv, AccountsNext, NEW u \in Users, user'[u].status # user[u].status
  PROVE  \E p \in Tasks : /\ CommandCommit(p) /\ task[p].user = u
                          /\ user'[u].status = "suspended" => task[p].action = "suspend"
<1> USE DEF IInv
<1>1. user[u] \in UserRow
  BY DEF Typed
<1>2. ASSUME NEW p \in Tasks, NEW now \in Sampled, LoginCommit(p, now) PROVE FALSE
  <2>1. task[p].user \in Users
    BY <1>2 DEF LoginCommit, TasksTyped
  <2> QED
    BY <1>1, <1>2, <2>1 DEF LoginCommit, UserRow, Typed
<1>3. PICK p \in Tasks : CommandCommit(p)
  BY <1>2, Steps, ZenonT(60) DEF Callback, Login, RequestFails, MasterRequest, MasterCommand,
     OperatorCommand, CommandLock, BeginLogin, Logout, Authenticate, EmergencyRevoke, Deploy, TimePasses
<1>4. task[p].user = u
  BY <1>3 DEF CommandCommit, Typed
<1>5. task[p].action \in Actions
  BY DEF Typed, TaskRow
<1>6. user'[u].status = "suspended" => task[p].action = "suspend"
  BY <1>1, <1>3, <1>4, <1>5 DEF CommandCommit, Typed, UserRow, Actions
<1> QED
  BY <1>3, <1>4, <1>6

\* A suspension ends the sessions there are, and a login under way is of an active user.
LEMMA SuspendedStep ==
  ASSUME IInv, AccountsNext
  PROVE  SuspendedHasNoSession'
<1> USE DEF IInv
<1> SUFFICES ASSUME NEW u \in Users, user'[u].status = "suspended", NEW s \in Flows,
                    session'[s].state = "live", session'[s].user = u
             PROVE  FALSE
  BY DEF SuspendedHasNoSession, LiveOf
<1>1. CASE session[s].state = "live" /\ session[s].user = u
  <2>1. user[u].status # "suspended"
    BY <1>1 DEF SuspendedHasNoSession, LiveOf
  <2>2. PICK p \in Tasks : CommandCommit(p) /\ task[p].user = u /\ task[p].action = "suspend"
    BY <2>1, StatusStep
  <2>3. session'[s] = Ended(s)
    BY <1>1, <2>2 DEF CommandCommit, Revoked, LiveOf
  <2> QED
    BY <2>3, EndedType
<1>2. CASE \E p \in Tasks : /\ task[p].pc = "insert" /\ task[p].user = u
                           /\ task' = [task EXCEPT ![p] = Idle]
  <2>1. PICK p \in Tasks : /\ task[p].pc = "insert" /\ task[p].user = u
                          /\ task' = [task EXCEPT ![p] = Idle]
    BY <1>2
  <2>2. user[u].status = "active"
    BY <2>1 DEF LoginsCurrent
  <2>3. PICK q \in Tasks : CommandCommit(q)
    BY <2>2, StatusStep
  <2>4. q # p /\ task'[q] = task[q]
    BY <2>1, <2>3 DEF CommandCommit, Typed
  <2>5. task'[q] = Idle /\ task[q].pc = "apply"
    BY <2>3 DEF CommandCommit, Becomes, Typed
  <2> QED
    BY <2>4, <2>5, IdleType
<1> QED
  BY <1>1, <1>2, SessionStep DEF SessionChange

\* A task begins a login by a callback only, which takes place while logins are enabled.
LEMMA NoExchange ==
  ASSUME IInv, AccountsNext, ~loginEnabled, NEW p \in Tasks, task'[p] # task[p]
  PROVE  task'[p].pc # "exchange"
<1> USE DEF IInv, Becomes
<1> SUFFICES ASSUME task'[p].pc = "exchange" PROVE FALSE
  OBVIOUS
<1>1. ASSUME NEW q \in Tasks, NEW next, task' = [task EXCEPT ![q] = next] PROVE task'[p] = next
  BY <1>1 DEF Typed
<1>2. ASSUME NEW q \in Tasks, NEW u \in Users, Login(q, u) PROVE FALSE
  <2>1. [task[q] EXCEPT !.pc = "insert", !.user = u, !.read = LiveOf(u)].pc = "insert"
    BY DEF Typed, TaskRow
  <2> QED
    BY <1>1, <1>2, <2>1, IdleType DEF Login
<1>3. ASSUME NEW q \in Tasks, NEW s \in Flows, MasterRequest(q, s) PROVE FALSE
  <2>1. [Idle EXCEPT !.pc = "command", !.actor = session[s].user].pc = "command"
    BY DEF Idle
  <2> QED
    BY <1>1, <1>3, <2>1 DEF MasterRequest
<1>4. ASSUME NEW q \in Tasks, NEW actor, NEW target, NEW action, NEW command,
             CommandLock(q, actor, target, action, command)
      PROVE  FALSE
  <2>1. [Idle EXCEPT !.pc = "apply", !.actor = actor, !.user = target,
                     !.action = action, !.command = command].pc = "apply"
    BY DEF Idle
  <2> QED
    BY <1>1, <1>4, <2>1, IdleType DEF CommandLock
<1>5. ASSUME NEW q \in Tasks,
             (\E now \in Sampled : LoginCommit(q, now)) \/ CommandCommit(q) \/ RequestFails(q)
      PROVE  FALSE
  BY <1>1, <1>5, IdleType DEF LoginCommit, CommandCommit, RequestFails
<1>6. ASSUME NEW enabled \in BOOLEAN, Deploy(enabled) PROVE FALSE
  BY <1>6, IdleType DEF Deploy
<1> QED
  BY <1>2, <1>3, <1>4, <1>5, <1>6, Steps DEF Callback, MasterCommand, OperatorCommand,
     BeginLogin, Logout, Authenticate, EmergencyRevoke, TimePasses

\* While logins are disabled no login begins or is under way.
LEMMA DisabledStep ==
  ASSUME IInv, AccountsNext
  PROVE  LoginsDisabled'
<1> USE DEF IInv
<1>1. ASSUME NEW enabled \in BOOLEAN, Deploy(enabled) PROVE LoginsDisabled'
  BY <1>1, IdleType DEF Deploy, LoginsDisabled, InLogin, Typed
<1>2. CASE UNCHANGED loginEnabled
  <2>1. contained' => ~loginEnabled'
    BY <1>2, Steps, ZenonT(60) DEF LoginsDisabled, Callback, Login, LoginCommit, RequestFails, MasterRequest,
       MasterCommand, OperatorCommand, CommandLock, CommandCommit, BeginLogin, Logout, Authenticate,
       EmergencyRevoke, EmergencyAllowed, Deploy, TimePasses, Typed
  <2>2. ASSUME ~loginEnabled, NEW p \in Tasks PROVE task'[p].pc \notin InLogin
    <3>1. task[p].pc \notin InLogin
      BY <2>2 DEF LoginsDisabled
    <3>2. CASE task'[p] = task[p]
      BY <3>1, <3>2
    <3>3. CASE task'[p].pc = "insert" /\ task'[p] # task[p]
      <4>1. PICK u \in Users : Login(p, u)
        BY <3>3, OneTask
      <4> QED
        BY <3>1, <4>1 DEF Login, InLogin
    <3>4. CASE task'[p].pc = "exchange" /\ task'[p] # task[p]
      BY <2>2, <3>4, NoExchange
    <3> QED
      BY <3>2, <3>3, <3>4 DEF InLogin
  <2> QED
    BY <1>2, <2>1, <2>2 DEF LoginsDisabled
<1> QED
  BY <1>1, <1>2, Steps, ZenonT(60) DEF Callback, Login, LoginCommit, RequestFails, MasterRequest,
     MasterCommand, OperatorCommand, CommandLock, CommandCommit, BeginLogin, Logout, Authenticate,
     EmergencyRevoke, TimePasses

\* Nobody is logged in again while contained.
LEMMA ContainmentStep ==
  ASSUME IInv, AccountsNext
  PROVE  ContainmentHolds'
<1> USE DEF IInv
<1> SUFFICES ASSUME contained', NEW s \in Flows, session'[s].state = "live"
             PROVE  FALSE
  BY DEF ContainmentHolds
<1>1. CASE EmergencyRevoke
  BY <1>1, EndedType DEF EmergencyRevoke
<1>2. CASE ~EmergencyRevoke
  <2>1. contained
    BY <1>2, Steps, ZenonT(60) DEF Callback, Login, LoginCommit, RequestFails, MasterRequest,
       MasterCommand, OperatorCommand, CommandLock, CommandCommit, BeginLogin, Logout, Authenticate,
       Deploy, TimePasses, Typed
  <2>2. session[s].state # "live" /\ ~loginEnabled
    BY <2>1 DEF ContainmentHolds, LoginsDisabled
  <2> QED
    BY <2>2, SessionStep DEF SessionChange
<1> QED
  BY <1>1, <1>2

\* Every step preserves the invariant.
LEMMA NextIInv == IInv /\ [AccountsNext]_accountsVars => IInv'
<1>1. ASSUME IInv, AccountsNext PROVE IInv'
  BY <1>1, TypeStep, TasksStep, FlowsStep, LocksStep, LoginsStep, CommandsStep, SuspendedStep,
     DisabledStep, ContainmentStep DEF IInv
<1>2. ASSUME IInv, UNCHANGED accountsVars PROVE IInv'
  <2>1. Typed' /\ TasksTyped' /\ FlowsOwned'
    BY <1>2 DEF IInv, accountsVars, Typed, TasksTyped, FlowsOwned
  <2>2. LocksApart' /\ CommandsCurrent' /\ LoginsCurrent'
    BY <1>2 DEF IInv, accountsVars, LocksApart, Locked, CommandsCurrent, ActiveMasters,
       LoginsCurrent, LiveOf
  <2>3. LoginsDisabled' /\ ContainmentHolds' /\ SuspendedHasNoSession'
    BY <1>2 DEF IInv, accountsVars, LoginsDisabled, ContainmentHolds, SuspendedHasNoSession, LiveOf
  <2> QED
    BY <2>1, <2>2, <2>3 DEF IInv
<1> QED
  BY <1>1, <1>2

LEMMA Invariant == AccountsSpec => []IInv
  BY InitIInv, NextIInv, PTL DEF AccountsSpec

-----------------------------------------------------------------------------
(* What the invariant gives *)

\* Rows keep to their columns and the CHECK constraints on the dates of a session: no login,
\* authentication or command writes a row that PostgreSQL would refuse.
THEOREM AccountsTypeCorrect == AccountsSpec => []AccountsTypeOK
  BY Invariant, TypedMeans, PTL DEF IInv

\* Whatever logins are under way when a user is suspended, no live session is left to the
\* user: the suspension and a login wait for each other at the user's row.
THEOREM SuspensionEndsSessions == AccountsSpec => []SuspendedHasNoSession
  BY Invariant, PTL DEF IInv

\* After the emergency revocation nobody is logged in until logins are enabled again.
THEOREM ContainmentLasts == AccountsSpec => []ContainmentHolds
  BY Invariant, PTL DEF IInv

\* A session that ended never lives again, and no session passes to another user: the
\* callback of a flow is served once.
THEOREM EndedSessionsStay == AccountsSpec => SessionsAreFinal
<1>1. ASSUME IInv, AccountsNext, NEW s \in Flows
      PROVE  /\ session[s].state = "ended" => session'[s].state = "ended"
             /\ session[s].state # "none" => session'[s].user = session[s].user
  BY <1>1, SessionStep DEF SessionChange
<1>2. IInv /\ [AccountsNext]_accountsVars =>
        [\A s \in Flows :
           /\ session[s].state = "ended" => session'[s].state = "ended"
           /\ session[s].state # "none" => session'[s].user = session[s].user]_accountsVars
  BY <1>1
<1> QED
  BY <1>2, Invariant, PTL DEF AccountsSpec, SessionsAreFinal

\* A command commits in the name of an active master, or promotes, and only once: what it
\* read under the lock of its actor nobody changes before it commits.
THEOREM CommandsAreAuthorized == AccountsSpec => AuthorityIsCurrent
<1>1. ASSUME IInv, NEW p \in Tasks, CommandCommit(p)
      PROVE  /\ task[p].command \notin audited
             /\ task[p].action = "promote" \/ task[p].actor \in ActiveMasters
  BY <1>1 DEF IInv, CommandsCurrent, CommandCommit
<1>2. IInv => [\A p \in Tasks : CommandCommit(p) =>
       /\ task[p].command \notin audited
       /\ task[p].action = "promote" \/ task[p].actor \in ActiveMasters]_accountsVars
  BY <1>1
<1> QED
  BY <1>2, Invariant, PTL DEF AuthorityIsCurrent

\* No step makes a master anything else, and only a suspension makes one inactive.
LEMMA MastersStep ==
  ASSUME IInv, AccountsNext, NEW m \in ActiveMasters,
         ~\E p \in Tasks : CommandCommit(p) /\ task[p].user = m /\ task[p].action = "suspend"
  PROVE  m \in ActiveMasters'
<1> USE DEF IInv
<1>1. m \in Users /\ user[m].role = "master" /\ user[m].status = "active" /\ user[m] \in UserRow
  BY DEF ActiveMasters, Typed
<1>2. user'[m].status = "active"
  <2>1. user'[m].status \in {"active", "suspended"}
    BY <1>1, TypeStep DEF Typed, UserRow
  <2> QED
    BY <1>1, <2>1, StatusStep
<1>3. ASSUME NEW p \in Tasks, NEW now \in Sampled, LoginCommit(p, now) PROVE user'[m].role = "master"
  BY <1>1, <1>3 DEF LoginCommit, Typed, UserRow
<1>4. ASSUME NEW p \in Tasks, CommandCommit(p) PROVE user'[m].role = "master"
  <2>1. task[p].action \in Actions
    BY DEF Typed, TaskRow
  <2> QED
    BY <1>1, <1>4, <2>1 DEF CommandCommit, Typed, UserRow, Actions
<1>5. user'[m].role = "master"
  BY <1>1, <1>3, <1>4, Steps, ZenonT(60) DEF Callback, Login, RequestFails, MasterRequest, MasterCommand,
     OperatorCommand, CommandLock, BeginLogin, Logout, Authenticate, EmergencyRevoke, Deploy, TimePasses
<1> QED
  BY <1>1, <1>2, <1>5 DEF ActiveMasters

\* Masters who suspend each other never leave the system without one: who suspends holds
\* the lock of its own row, is active, and is not the one it suspends.
THEOREM SomeMasterRemains == AccountsSpec => ActiveMasterRemains
<1>1. ASSUME IInv, AccountsNext, ActiveMasters # {} PROVE ActiveMasters' # {}
  <2>1. CASE \E p \in Tasks : CommandCommit(p) /\ task[p].action = "suspend"
    <3>1. PICK p \in Tasks : CommandCommit(p) /\ task[p].action = "suspend"
      BY <2>1
    <3>2. task[p].actor \in ActiveMasters /\ task[p].actor # task[p].user
      BY <1>1, <3>1 DEF IInv, CommandsCurrent, CommandCommit
    <3>3. \A q \in Tasks : CommandCommit(q) => q = p
      <4>1. \A q \in Tasks : CommandCommit(q) => "advisory" \in Locked(q)
        BY DEF CommandCommit, Locked, CommandLocks
      <4> QED
        BY <1>1, <3>1, <4>1 DEF IInv, LocksApart
    <3> QED
      BY <1>1, <3>2, <3>3, MastersStep
  <2>2. CASE ~\E p \in Tasks : CommandCommit(p) /\ task[p].action = "suspend"
    BY <1>1, <2>2, MastersStep
  <2> QED
    BY <2>1, <2>2
<1>2. IInv /\ [AccountsNext]_accountsVars =>
        [ActiveMasters # {} => ActiveMasters' # {}]_accountsVars
  BY <1>1
<1> QED
  BY <1>2, Invariant, PTL DEF AccountsSpec, ActiveMasterRemains

-----------------------------------------------------------------------------
(* The limit of sessions *)

\* A login leaves fewer than the limit of its user's sessions beside its own.
LEMMA LoginKeepsLimit ==
  ASSUME IInv, NEW p \in Tasks, NEW u \in Users, task[p].user = u,
         NEW now \in Sampled, LoginCommit(p, now)
  PROVE  Cardinality(LiveOf(u)') <= MaxSessions
<1> USE DEF IInv
<1> DEFINE f == task[p].flow
           active == {s \in task[p].read : ~Expired(s, now)}
<1>1. task[p].read = LiveOf(u) /\ f \in Flows
  BY DEF LoginCommit, LoginsCurrent, TasksTyped, InLogin
<1>2. PICK kept \in Newest(active) :
        session' = [s \in Flows |->
            IF s = f THEN Fresh(u, now) ELSE IF s \in task[p].read \ kept THEN Ended(s) ELSE session[s]]
  BY DEF LoginCommit
<1>3. kept \subseteq Flows /\ Cardinality(kept) < MaxSessions
  BY <1>1, <1>2 DEF Newest, LiveOf
<1>4. LiveOf(u)' \subseteq kept \cup {f}
  <2> SUFFICES \A s \in Flows : session'[s].state = "live" /\ session'[s].user = u => s \in kept \cup {f}
    BY DEF LiveOf
  <2> SUFFICES ASSUME NEW s \in Flows, s # f, s \notin kept, session'[s].state = "live", session'[s].user = u
               PROVE  FALSE
    OBVIOUS
  <2>1. CASE s \in task[p].read
    BY <1>2, <2>1, EndedType
  <2>2. CASE s \notin task[p].read
    BY <1>1, <1>2, <2>2 DEF LiveOf
  <2> QED
    BY <2>1, <2>2
<1>5. IsFiniteSet(kept) /\ IsFiniteSet(kept \cup {f})
  BY <1>1, <1>3, AccountAssumption, FS_Subset, FS_AddElement
<1>6. Cardinality(kept \cup {f}) <= Cardinality(kept) + 1 /\ Cardinality(kept) \in Nat
  <2>1. Cardinality(kept) \in Nat
    BY <1>5, FS_CardinalityType
  <2>2. CASE f \in kept
    <3>1. kept \cup {f} = kept
      BY <2>2
    <3>2. Cardinality(kept \cup {f}) = Cardinality(kept)
      BY <3>1, Zenon
    <3> QED
      BY <2>1, <3>2
  <2>3. CASE f \notin kept
    BY <1>5, <2>1, <2>3, FS_AddElement
  <2> QED
    BY <2>2, <2>3, <2>1
<1>7. Cardinality(LiveOf(u)') <= Cardinality(kept \cup {f}) /\ Cardinality(LiveOf(u)') \in Nat
      /\ Cardinality(kept \cup {f}) \in Nat
  <2>1. IsFiniteSet(LiveOf(u)')
    BY <1>4, <1>5, FS_Subset
  <2> QED
    BY <1>4, <1>5, <2>1, FS_Subset, FS_CardinalityType
<1> QED
  BY <1>3, <1>6, <1>7, AccountAssumption

\* A session begins with the commit of a login of its user.
LEMMA NewSession ==
  ASSUME IInv, AccountsNext, NEW s \in Flows, session[s].state = "none", session'[s].state = "live"
  PROVE  \E p \in Tasks, now \in Sampled : LoginCommit(p, now) /\ task[p].user = session'[s].user
<1> USE DEF IInv
<1>1. PICK p \in Tasks : /\ task[p].pc = "insert" /\ session'[s].user = task[p].user
                        /\ task' = [task EXCEPT ![p] = Idle]
  BY SessionStep DEF SessionChange
<1>2. \E q \in Tasks, now \in Sampled : LoginCommit(q, now)
  <2>1. ~\E q \in Tasks : CommandCommit(q)
    BY EndedType DEF CommandCommit
  <2>2. ~\E t \in Flows : Logout(t) \/ \E now \in Sampled : Authenticate(t, now)
    BY DEF Logout, Authenticate, Typed
  <2>3. ~EmergencyRevoke
    BY DEF EmergencyRevoke
  <2> QED
    BY <2>1, <2>2, <2>3, Steps, ZenonT(60) DEF Callback, Login, RequestFails, MasterRequest, MasterCommand,
       OperatorCommand, CommandLock, BeginLogin, Deploy, TimePasses
<1>3. PICK q \in Tasks, now \in Sampled : LoginCommit(q, now)
  BY <1>2
<1>4. q = p
  <2>1. task'[q] = Idle /\ task[q].pc = "insert"
    BY <1>3 DEF LoginCommit, Becomes, Typed
  <2> QED
    BY <1>1, <2>1, IdleType DEF Typed
<1> QED
  BY <1>1, <1>3, <1>4

\* No other step gives a user a session.
LEMMA LimitStep ==
  ASSUME IInv, SessionLimit, AccountsNext
  PROVE  SessionLimit'
<1> SUFFICES ASSUME NEW u \in Users PROVE Cardinality(LiveOf(u)') <= MaxSessions
  BY DEF SessionLimit, LiveOf
<1>1. CASE \E p \in Tasks, now \in Sampled : LoginCommit(p, now) /\ task[p].user = u
  BY <1>1, LoginKeepsLimit
<1>2. CASE ~\E p \in Tasks, now \in Sampled : LoginCommit(p, now) /\ task[p].user = u
  <2>1. LiveOf(u)' \subseteq LiveOf(u)
    <3> SUFFICES ASSUME NEW s \in Flows, session'[s].state = "live", session'[s].user = u
                 PROVE  session[s].state = "live" /\ session[s].user = u
      BY DEF LiveOf
    <3>1. CASE session[s].state = "none"
      BY <1>2, <3>1, NewSession
    <3>2. CASE session[s].state # "none"
      BY <3>2, SessionStep DEF SessionChange
    <3> QED
      BY <3>1, <3>2
  <2>2. IsFiniteSet(LiveOf(u)) /\ Cardinality(LiveOf(u)) <= MaxSessions
    BY AccountAssumption, FS_Subset DEF SessionLimit, LiveOf
  <2> QED
    BY <2>1, <2>2, AccountAssumption, FS_Subset, FS_CardinalityType
<1> QED
  BY <1>1, <1>2

\* However many logins of a user complete at the same time, the user has at most five live
\* sessions: each counts them under the lock of the user's row.
THEOREM SessionsStayLimited == AccountsSpec => []SessionLimit
<1>1. AccountsInit => SessionLimit
  <2> SUFFICES ASSUME AccountsInit, NEW u \in Users PROVE Cardinality(LiveOf(u)) <= MaxSessions
    BY DEF SessionLimit
  <2>1. LiveOf(u) = {}
    BY FirstRows DEF AccountsInit, LiveOf
  <2> QED
    BY <2>1, FS_EmptySet, AccountAssumption
<1>2. IInv /\ SessionLimit /\ [AccountsNext]_accountsVars => SessionLimit'
  <2>1. ASSUME SessionLimit, UNCHANGED accountsVars PROVE SessionLimit'
    BY <2>1 DEF SessionLimit, LiveOf, accountsVars
  <2> QED
    BY <2>1, LimitStep
<1> QED
  BY <1>1, <1>2, Invariant, PTL DEF AccountsSpec

=============================================================================
