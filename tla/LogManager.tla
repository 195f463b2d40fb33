----------------------------- MODULE LogManager -----------------------------
(***************************************************************************)
(* Manager (src/src/manager.cpp) under several threads: the singleton, its *)
(* three mutexes, the registered sinks and who keeps them alive, and its   *)
(* composition with a CloudWatch sink whose worker may log itself, through *)
(* AwsLogSystem, while it calls the AWS SDK.                               *)
(*                                                                         *)
(* A call is the sequence of steps its code goes through; todo[t] is what  *)
(* thread t still has to do.  A step names the mutex it locks or unlocks,  *)
(* or what it does.  One CloudWatch sink, "cw", is a custom sink of the    *)
(* configuration "cloud"; the factory makes a "file" sink, which has no    *)
(* thread, for every configuration.  What the CloudWatch sink does with a  *)
(* log is the subject of CloudWatchSink.                                   *)
(***************************************************************************)
EXTENDS Naturals, Sequences, SequencesExt

CONSTANTS Threads,    \* the application's threads
          Worker,     \* cloudwatch_logs_thread of "cw"
          AwsLogs,    \* AwsLogSystem is installed and its channel is enabled
          MaxCalls,   \* bound: calls the application makes
          MaxForks,   \* bound: fork(2) calls followed
          MaxSinks    \* bound: length of sinks_

ASSUME ThreadsAssumption == /\ Worker \notin Threads
                            /\ {"free", "orphan"} \cap (Threads \cup {Worker}) = {}
ASSUME AwsAssumption     == AwsLogs \in BOOLEAN
ASSUME BoundsAssumption  == MaxCalls \in Nat /\ MaxForks \in Nat /\ MaxSinks \in Nat

VARIABLES
    todo,        \* remaining steps of every thread
    owner,       \* who holds manager_init_mutex_, global_context_info_mutex_, sinks_mutex_
    exists,      \* manager_ is not null
    managers,    \* Manager objects that are not destroyed
    sinks,       \* sinks_
    config,      \* config_
    app_holds,   \* the application keeps the configuration "cloud", and so its sink
    cw_alive,    \* the CloudWatch sink is not destroyed
    is_running,  \* its is_running_
    worker,      \* its thread: "loop", "flush", "done", "none", or "lost" by a fork
    alive,       \* threads of this process
    forks, calls,
    corrupt      \* undefined behaviour has happened

mgr  == <<exists, managers, sinks, config>>
cw   == <<app_holds, cw_alive, is_running>>
proc == <<alive, forks, calls>>
vars == <<todo, owner, mgr, cw, worker, proc, corrupt>>

Mutexes == {"init", "ctx", "sinks"}
All     == Threads \cup {Worker}

Step(op)  == <<op, "none">>
Lock(m)   == <<"lock", m>>
Unlock(m) == <<"unlock", m>>
Within(m, steps) == <<Lock(m)>> \o steps \o <<Unlock(m)>>

-----------------------------------------------------------------------------
(* The calls, as the steps of the code.                                      *)

Instance     == <<Step("instance")>>
Dump         == Within("ctx", <<Step("snapshot")>>) \o Within("sinks", <<Step("dump")>>)
Stop         == Within("sinks", <<Step("stop")>>)
ClearSinks   == Within("sinks", <<Step("clear")>>)
Terminate    == Stop \o ClearSinks

(* Mutant: restart_sinks walks over sinks_ without the mutex.                *)
RestartsUnlocked == <<<<"stop", "restart">>>>

RestartSinks == Within("sinks", <<<<"stop", "restart">>>>)
ResetManager == Within("init", <<Step("detach")>>)
Configure(c, clear_old_sinks) ==
    (IF clear_old_sinks THEN ClearSinks ELSE <<>>)
        \o <<<<"config", c>>>> \o Within("init", <<Step("push")>>)

(* The sinks a configuration makes or holds.                                 *)
SinksOf(c) == IF c = "cloud" THEN <<"file", "cw">> ELSE <<"file">>

(* A call of the AWS SDK by the worker logs through AwsLogSystem::LogStream. *)
AwsCall == IF AwsLogs THEN Instance \o Dump ELSE <<>>

-----------------------------------------------------------------------------
Init ==
    /\ todo = [t \in All |-> <<>>] /\ owner = [m \in Mutexes |-> "free"]
    /\ exists = FALSE /\ managers = 0 /\ sinks = <<>> /\ config = "plain"
    /\ app_holds = TRUE /\ cw_alive = TRUE /\ is_running = TRUE /\ worker = "loop"
    /\ alive = All /\ forks = 0 /\ calls = 0 /\ corrupt = FALSE

Idle(t) == t \in alive /\ todo[t] = <<>> /\ ~corrupt
Doing(t) == IF todo[t] = <<>> THEN "nothing" ELSE Head(todo[t])[1]
Arg(t) == Head(todo[t])[2]
At(t, op) == t \in alive /\ Doing(t) = op /\ ~corrupt

(* The step is done; `more` comes before the rest.                           *)
Then(t, more) == todo' = [todo EXCEPT ![t] = more \o Tail(@)]

Pending(op) == \E u \in alive : op \in ToSet(todo[u])

(* reset_manager destroys what instance() has returned to other threads: the *)
(* application calls it when no other call is in flight, and waits for it.   *)
Resetting == Pending(Step("detach")) \/ Pending(Step("release"))

Call(t, steps) ==
    /\ Idle(t) /\ calls < MaxCalls /\ ~Resetting
    /\ todo' = [todo EXCEPT ![t] = steps] /\ calls' = calls + 1
    /\ UNCHANGED <<owner, mgr, cw, worker, alive, forks, corrupt>>

log(t)           == Call(t, Instance \o Dump)
stop(t)          == Call(t, Instance \o Stop)
terminate(t)     == Call(t, Instance \o Terminate)
restart_sinks(t) == Call(t, Instance \o RestartSinks)

configure(t) ==
    \E c \in {"plain", "cloud"}, clear_old_sinks \in BOOLEAN :
        /\ c = "cloud" => app_holds /\ ~Pending(Step("drop"))
        /\ Len(sinks) + Len(SinksOf(c)) <= MaxSinks
        /\ Call(t, Instance \o Configure(c, clear_old_sinks))

reset_manager(t) ==
    /\ \A u \in Threads \cap alive : todo[u] = <<>>
    /\ Call(t, ResetManager)

(* The application gives up its reference to the configuration "cloud", when *)
(* it is not an argument of a call in flight.                                *)
drop_config(t) ==
    /\ app_holds /\ ~Pending(<<"config", "cloud">>)
    /\ Call(t, <<Step("drop")>>)

-----------------------------------------------------------------------------
(* The steps.                                                                *)

Acquire(t) ==
    /\ At(t, "lock") /\ owner[Arg(t)] = "free"
    /\ owner' = [owner EXCEPT ![Arg(t)] = t]
    /\ Then(t, <<>>)
    /\ UNCHANGED <<mgr, cw, worker, proc, corrupt>>

Release(t) ==
    /\ At(t, "unlock")
    /\ owner' = [owner EXCEPT ![Arg(t)] = "free"]
    /\ Then(t, <<>>)
    /\ UNCHANGED <<mgr, cw, worker, proc, corrupt>>

(* Double-checked locking: the first check is made without the mutex.        *)
instance(t) ==
    /\ At(t, "instance")
    /\ Then(t, IF exists THEN <<>> ELSE Within("init", <<Step("create")>>))
    /\ UNCHANGED <<owner, mgr, cw, worker, proc, corrupt>>

(* Mutant: the check is not repeated under the mutex.                        *)
CreatesAgain == TRUE

MustCreate == ~exists

create(t) ==
    /\ At(t, "create")
    /\ IF MustCreate THEN exists' = TRUE /\ managers' = managers + 1
                     ELSE UNCHANGED <<exists, managers>>
    /\ Then(t, <<>>)
    /\ UNCHANGED <<owner, sinks, config, cw, worker, proc, corrupt>>

(* The context is copied; the log is handed to every sink.                   *)
dump(t) ==
    /\ At(t, "snapshot") \/ At(t, "dump")
    /\ Then(t, <<>>)
    /\ UNCHANGED <<owner, mgr, cw, worker, proc, corrupt>>

(* stop_impl of the CloudWatch sink, reached from Sink::stop, restart_sink   *)
(* or its destructor: it joins the worker unless it was stopped before or    *)
(* the process is a fork.  What follows depends on who called it.            *)
AfterStop(purpose) == CASE purpose = "restart" -> <<Step("start")>>
                        [] purpose = "destroy" -> <<Step("gone")>>
                        [] OTHER -> <<>>

stop_impl(t) ==
    /\ At(t, "stop")
    /\ \/ /\ is_running /\ (Arg(t) = "destroy" \/ Contains(sinks, "cw"))
          /\ is_running' = FALSE
          /\ Then(t, (IF worker = "lost" THEN <<>> ELSE <<Step("join")>>) \o AfterStop(Arg(t)))
       \/ /\ ~is_running \/ (Arg(t) # "destroy" /\ ~Contains(sinks, "cw"))
          /\ Then(t, IF Arg(t) = "destroy" THEN <<Step("gone")>> ELSE <<>>)
          /\ UNCHANGED is_running
    /\ UNCHANGED <<owner, mgr, app_holds, cw_alive, worker, proc, corrupt>>

join(t) ==
    /\ At(t, "join") /\ worker = "done"
    /\ worker' = "none"
    /\ Then(t, <<>>)
    /\ UNCHANGED <<owner, mgr, cw, proc, corrupt>>

start(t) ==
    /\ At(t, "start")
    /\ is_running' = TRUE /\ worker' = "loop" /\ alive' = alive \cup {Worker}
    /\ Then(t, <<>>)
    /\ UNCHANGED <<owner, mgr, app_holds, cw_alive, forks, calls, corrupt>>

gone(t) ==
    /\ At(t, "gone")
    /\ cw_alive' = FALSE
    /\ Then(t, <<>>)
    /\ UNCHANGED <<owner, mgr, app_holds, is_running, worker, proc, corrupt>>

(* Mutant: a sink that is only registered counts as unreferenced.            *)
HeldByConfiguration(by_app, by_config, by_sinks) == by_app \/ by_config

(* The shared pointers to the CloudWatch sink: it lives while there is one.  *)
Held(by_app, by_config, by_sinks) == by_app \/ by_config \/ by_sinks

IsHeld == Held(app_holds, config = "cloud", Contains(sinks, "cw"))

(* The step that drops the last pointer runs the destructor.                 *)
Dropping(t) ==
    /\ Then(t, IF IsHeld /\ ~IsHeld' THEN <<<<"stop", "destroy">>>> ELSE <<>>)
    /\ UNCHANGED <<owner, cw_alive, is_running, worker, proc, corrupt>>

clear(t)   == /\ At(t, "clear")
              /\ sinks' = <<>> /\ UNCHANGED <<exists, managers, config, app_holds>>
              /\ Dropping(t)
config_(t) == /\ At(t, "config")
              /\ config' = Arg(t) /\ UNCHANGED <<exists, managers, sinks, app_holds>>
              /\ Dropping(t)
drop(t)    == /\ At(t, "drop")
              /\ app_holds' = FALSE /\ UNCHANGED mgr
              /\ Dropping(t)

(* Mutant: the destructor runs for a null manager_ as well.                  *)
DestroysNull == Terminate \o <<Step("release")>>

(* reset_manager: manager_ is null before the destructor runs terminate, and *)
(* config_ is released at its end.                                           *)
Destructor == IF exists THEN Terminate \o <<Step("release")>> ELSE <<>>

detach(t)  == /\ At(t, "detach")
              /\ exists' = FALSE
              /\ Then(t, Destructor)
              /\ UNCHANGED <<owner, managers, sinks, config, cw, worker, proc, corrupt>>
release(t) == /\ At(t, "release")
              /\ config' = "plain" /\ managers' = managers - 1
              /\ UNCHANGED <<exists, sinks, app_holds>>
              /\ Dropping(t)

(* configure appends under manager_init_mutex_, not sinks_mutex_.  If the    *)
(* factory throws for the "file" sink, nothing after it is registered.       *)
push(t) ==
    /\ At(t, "push")
    /\ sinks' \in {sinks, sinks \o SinksOf(config)}
    /\ Then(t, <<>>)
    /\ UNCHANGED <<owner, exists, managers, config, cw, worker, proc, corrupt>>

(* Two threads in sinks_, or in config_, under different mutexes or none.    *)
Racing(t, u) ==
    \/ Doing(t) = "push" /\ Doing(u) \in {"dump", "stop", "join", "start", "clear", "config"}
    \/ Doing(t) = "config" /\ Doing(u) = "config" /\ t # u

RacyAccess ==
    /\ \E t, u \in alive : Racing(t, u)
    /\ corrupt' = TRUE
    /\ UNCHANGED <<todo, owner, mgr, cw, worker, proc>>

-----------------------------------------------------------------------------
(* The worker of the CloudWatch sink and fork(2).                            *)

(* The loop ends when is_running_ is false; the flush calls the SDK again.   *)
Work ==
    /\ Idle(Worker)
    /\ \/ worker = "loop" /\ worker' = IF is_running THEN "loop" ELSE "flush"
       \/ worker = "flush" /\ worker' = "done"
    /\ todo' = [todo EXCEPT ![Worker] = IF worker' = "done" THEN <<>> ELSE AwsCall]
    /\ UNCHANGED <<owner, mgr, cw, proc, corrupt>>

(* Mutant: child_on_fork leaves the mutexes as they are.                     *)
ResetsNothing == owner

(* child_on_fork resets two of the three mutexes.                            *)
ForkReset == [m \in Mutexes |-> IF m # "init" /\ owner[m] = "orphan" THEN "free" ELSE owner[m]]

child_on_fork(t) ==
    /\ At(t, "fork_reset")
    /\ owner' = ForkReset
    /\ Then(t, <<>>)
    /\ UNCHANGED <<mgr, cw, worker, proc, corrupt>>

(* The child has one thread; it calls child_on_fork before it logs.          *)
Fork ==
    /\ forks < MaxForks
    /\ \E t \in Threads :
         /\ Idle(t) /\ exists
         /\ alive' = {t}
         /\ todo' = [u \in All |-> IF u = t THEN <<Step("fork_reset")>> ELSE <<>>]
    /\ owner' = [m \in Mutexes |-> IF owner[m] = "free" THEN "free" ELSE "orphan"]
    /\ worker' = IF worker = "none" THEN "none" ELSE "lost"
    /\ forks' = forks + 1
    /\ UNCHANGED <<mgr, cw, calls, corrupt>>

Begin(t) == \/ log(t) \/ stop(t) \/ terminate(t) \/ restart_sinks(t) \/ configure(t)
            \/ reset_manager(t) \/ drop_config(t)
Go(t) == \/ Acquire(t) \/ Release(t) \/ instance(t) \/ create(t) \/ dump(t)
         \/ stop_impl(t) \/ join(t) \/ start(t) \/ gone(t) \/ clear(t) \/ config_(t)
         \/ drop(t) \/ detach(t) \/ release(t) \/ push(t) \/ child_on_fork(t)

Next == \/ \E t \in Threads : Begin(t)
        \/ \E t \in All : Go(t)
        \/ Work \/ Fork \/ RacyAccess

Spec == Init /\ [][Next]_vars

(* Threads are scheduled and the SDK returns; calls are bounded, so that a   *)
(* mutex that becomes free is not taken from a waiting thread for ever.      *)
Fairness == (\A t \in All : WF_vars(Go(t))) /\ WF_vars(Work)

FairSpec == Spec /\ Fairness

-----------------------------------------------------------------------------
(* Properties                                                                *)

(* The steps of the code, each with the argument it has.                     *)
Ops == {"instance", "create", "snapshot", "dump", "clear", "detach", "release", "push",
        "drop", "join", "start", "gone", "fork_reset"}
Purposes == {"none", "restart", "destroy"}
STEPS == {Step(op) : op \in Ops} \cup {Lock(m) : m \in Mutexes} \cup {Unlock(m) : m \in Mutexes}
         \cup {<<"stop", p>> : p \in Purposes} \cup {<<"config", c>> : c \in {"plain", "cloud"}}

TypeOK ==
    /\ \A t \in All : todo[t] \in Seq(STEPS)
    /\ owner \in [Mutexes -> All \cup {"free", "orphan"}]
    /\ exists \in BOOLEAN /\ managers \in Nat
    /\ sinks \in Seq({"file", "cw"})
    /\ config \in {"plain", "cloud"} /\ app_holds \in BOOLEAN /\ cw_alive \in BOOLEAN
    /\ is_running \in BOOLEAN /\ worker \in {"loop", "flush", "done", "none", "lost"}
    /\ alive \in SUBSET All /\ forks \in 0 .. MaxForks /\ calls \in 0 .. MaxCalls
    /\ corrupt \in BOOLEAN

(* There is never a second Manager, although instance() looks at manager_    *)
(* before it locks and reset_manager destroys one: the mutex is held until   *)
(* the old one is gone.                                                      *)
OneManager == managers <= 1

(* A registered sink is not destroyed: some shared_ptr holds it, whatever    *)
(* the order in which configurations are replaced and dropped.               *)
RegisteredSinksLive == Contains(sinks, "cw") => cw_alive

(* Where the CloudWatch sink is in its life.                                 *)
Phase ==
    CASE ~cw_alive                                        -> "destroyed"
      [] cw_alive /\ is_running                           -> IF worker = "lost" THEN "orphaned" ELSE "running"
      [] cw_alive /\ ~is_running /\ worker \in {"loop", "flush", "done"} -> "stopping"
      [] OTHER                                            -> "stopped"

Life == INSTANCE SinkLifecycle WITH
    phase <- Phase, registered <- Contains(sinks, "cw"), Forks <- MaxForks > 0

(* However stops, restarts, reconfigurations, resets, the loss of the last   *)
(* reference and a fork follow or overlap, the thread of a sink is joined    *)
(* before another one is started and before the sink is gone, no sink is     *)
(* started after it was unregistered, and none is destroyed before.          *)
ImplementsLifecycle == Life!Spec

(* Every call returns, in a child too (performance.cpp: "child does not hang *)
(* after first log"); only configure and reset_manager may wait in a child   *)
(* for manager_init_mutex_, which child_on_fork does not reset.              *)
StuckInConfigure(t) == Doing(t) = "lock" /\ Arg(t) = "init" /\ owner["init"] = "orphan"

CallsReturn == \A t \in Threads :
    (todo[t] # <<>>) ~> (todo[t] = <<>> \/ corrupt \/ StuckInConfigure(t))

(* README.md "we can use it as follows": with AwsLogSystem and a CloudWatch  *)
(* sink together, no thread joins a worker that waits for a mutex it holds.  *)
NoSelfJoin == \A t \in Threads :
    Doing(t) = "join" /\ Doing(Worker) = "lock" /\ t \in alive => owner[Arg(Worker)] # t
=============================================================================
