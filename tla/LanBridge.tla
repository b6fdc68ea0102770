------------------------------- MODULE LanBridge -------------------------------
(***************************************************************************)
(* The LAN pairing bridge.  Each session is a listener thread with state   *)
(* it shares, through atomics and a mutex, with the handle that start      *)
(* returned (infrastructure/linux/lan_bridge.rs).  LanBridgeService keeps  *)
(* at most one handle and holds its mutex through a whole start or stop    *)
(* (application/lan_bridge.rs), so service calls exclude each other but    *)
(* interleave with the thread, store by store.                             *)
(*                                                                         *)
(* Abstraction.  Of a request only counts whether it can be read and       *)
(* authenticated; time is the passing of a session's deadline; last_result *)
(* is the lifecycle it explains.  What the handler does is in DevicePairing*)
(***************************************************************************)
EXTENDS Naturals

CONSTANTS
  Sessions,     \* bridges a user may start, one after the other
  MaxAttempts,  \* LAN_BRIDGE_MAX_ATTEMPTS
  None          \* no session; no result

ASSUME AttemptsAssumption == MaxAttempts \in Nat \ {0}
ASSUME NoneAssumption == None \notin Sessions

Terminal == {"completed", "expired", "failed"}
Lifecycle == {"stopped", "listening"} \cup Terminal

\* Where the listener thread is.
Serving == {"loop", "accept", "read", "handle"}
Closing == {"set-lifecycle", "set-result", "set-stop"}
Place == {"absent", "gone"} \cup Serving \cup Closing

ServiceStep == {"free", "stop", "prior", "flag", "lifecycle", "result", "join",
                "drop", "dropped", "swap"}

VARIABLES
  at,          \* per session: where its thread is
  lifecycle,   \* SharedBridgeState.lifecycle
  lastResult,  \* SharedBridgeState.last_result
  stop,        \* SharedBridgeState.stop
  attempts,    \* SharedBridgeState.attempts
  verdict,     \* the argument of the set_terminal the thread is in
  expired,     \* has the deadline passed?
  active,      \* LanBridgeService.active
  service,     \* where the service call is that holds the mutex of `active`
  fresh,       \* the session that this call has just started
  late,        \* history: connections accepted after the deadline
  served       \* history: calls of the handler and how they ended

bridgeVars == <<at, lifecycle, lastResult, stop, attempts, verdict, expired,
                active, service, fresh, late, served>>

BridgeTypeOK ==
  /\ at \in [Sessions -> Place]
  /\ lifecycle \in [Sessions -> Lifecycle]
  /\ lastResult \in [Sessions -> Lifecycle \cup {None}]
  /\ stop \in [Sessions -> BOOLEAN]
  /\ attempts \in [Sessions -> 0..MaxAttempts + 1]
  /\ verdict \in [Sessions -> Terminal \cup {None}]
  /\ expired \in [Sessions -> BOOLEAN]
  /\ active \in Sessions \cup {None}
  /\ service \in ServiceStep
  /\ fresh \in Sessions \cup {None}
  /\ late \in [Sessions -> Nat]
  /\ served \in [Sessions -> [calls : Nat, accepted : BOOLEAN]]

BridgeInit ==
  /\ at = [s \in Sessions |-> "absent"]
  /\ lifecycle = [s \in Sessions |-> "stopped"]
  /\ lastResult = [s \in Sessions |-> None]
  /\ stop = [s \in Sessions |-> FALSE]
  /\ attempts = [s \in Sessions |-> 0]
  /\ verdict = [s \in Sessions |-> None]
  /\ expired = [s \in Sessions |-> FALSE]
  /\ active = None
  /\ service = "free"
  /\ fresh = None
  /\ late = [s \in Sessions |-> 0]
  /\ served = [s \in Sessions |-> [calls |-> 0, accepted |-> FALSE]]

-----------------------------------------------------------------------------
(* The listener thread.                                                    *)

\* The thread decides on a terminal state; set_terminal takes three steps.
Terminate(s, state) ==
  /\ at' = [at EXCEPT ![s] = "set-lifecycle"]
  /\ verdict' = [verdict EXCEPT ![s] = state]

\* Mutant of PastDeadline: the deadline is not looked at.
NeverPastDeadline(s) == FALSE
PastDeadline(s) == expired[s]

LoopTop(s) ==
  /\ at[s] = "loop"
  /\ CASE stop[s] -> /\ at' = [at EXCEPT ![s] = "gone"]
                     /\ UNCHANGED verdict
       [] ~ stop[s] /\ PastDeadline(s) -> Terminate(s, "expired")
       [] OTHER -> /\ at' = [at EXCEPT ![s] = "accept"]
                   /\ UNCHANGED verdict
  /\ UNCHANGED <<lifecycle, lastResult, stop, attempts, expired, active, service,
                 fresh, late, served>>

\* No connection, or one from outside the LAN, which is turned away uncounted.
NoConnection(s) ==
  /\ at[s] = "accept"
  /\ at' = [at EXCEPT ![s] = "loop"]
  /\ UNCHANGED <<lifecycle, lastResult, stop, attempts, verdict, expired, active,
                 service, fresh, late, served>>

ListenerFails(s) ==
  /\ at[s] = "accept"
  /\ Terminate(s, "failed")
  /\ UNCHANGED <<lifecycle, lastResult, stop, attempts, expired, active, service,
                 fresh, late, served>>

Accept(s) ==
  /\ at[s] = "accept"
  /\ attempts' = [attempts EXCEPT ![s] = @ + 1]
  /\ late' = [late EXCEPT ![s] = IF expired[s] THEN @ + 1 ELSE @]
  /\ IF attempts'[s] > MaxAttempts
     THEN Terminate(s, "failed")
     ELSE /\ at' = [at EXCEPT ![s] = "read"]
          /\ UNCHANGED verdict
  /\ UNCHANGED <<lifecycle, lastResult, stop, expired, active, service, fresh,
                 served>>

\* The request is malformed, too large, too slow or not authenticated.
RejectRequest(s) ==
  /\ at[s] = "read"
  /\ at' = [at EXCEPT ![s] = "loop"]
  /\ UNCHANGED <<lifecycle, lastResult, stop, attempts, verdict, expired, active,
                 service, fresh, late, served>>

CallHandler(s) ==
  /\ at[s] = "read"
  /\ at' = [at EXCEPT ![s] = "handle"]
  /\ served' = [served EXCEPT ![s].calls = @ + 1]
  /\ UNCHANGED <<lifecycle, lastResult, stop, attempts, verdict, expired, active,
                 service, fresh, late>>

\* Mutant of HandlerReturns: only an accepted package closes the bridge.
HandlerReturnsOpen(s, ok) ==
  /\ at[s] = "handle"
  /\ served' = [served EXCEPT ![s].accepted = ok]
  /\ IF ok THEN Terminate(s, "completed")
     ELSE /\ at' = [at EXCEPT ![s] = "loop"]
          /\ UNCHANGED verdict
  /\ UNCHANGED <<lifecycle, lastResult, stop, attempts, expired, active, service,
                 fresh, late>>

\* The bridge closes whatever the handler says.
HandlerReturns(s, ok) ==
  /\ at[s] = "handle"
  /\ served' = [served EXCEPT ![s].accepted = ok]
  /\ Terminate(s, IF ok THEN "completed" ELSE "failed")
  /\ UNCHANGED <<lifecycle, lastResult, stop, attempts, expired, active, service,
                 fresh, late>>

SetTerminal(s) ==
  /\ \/ /\ at[s] = "set-lifecycle"
        /\ at' = [at EXCEPT ![s] = "set-result"]
        /\ lifecycle' = [lifecycle EXCEPT ![s] = verdict[s]]
        /\ UNCHANGED <<lastResult, stop, verdict>>
     \/ /\ at[s] = "set-result"
        /\ at' = [at EXCEPT ![s] = "set-stop"]
        /\ lastResult' = [lastResult EXCEPT ![s] = verdict[s]]
        /\ UNCHANGED <<lifecycle, stop, verdict>>
     \/ /\ at[s] = "set-stop"
        /\ at' = [at EXCEPT ![s] = "gone"]
        /\ stop' = [stop EXCEPT ![s] = TRUE]
        /\ verdict' = [verdict EXCEPT ![s] = None]
        /\ UNCHANGED <<lifecycle, lastResult>>
  /\ UNCHANGED <<attempts, expired, active, service, fresh, late, served>>

Expire(s) ==
  /\ at[s] \in Serving
  /\ ~ expired[s]
  /\ expired' = [expired EXCEPT ![s] = TRUE]
  /\ UNCHANGED <<at, lifecycle, lastResult, stop, attempts, verdict, active,
                 service, fresh, late, served>>

-----------------------------------------------------------------------------
(* The service.                                                            *)

\* Mutant of Joined: the thread is not waited for.
NotJoined(s) == TRUE
\* thread.join has returned.
Joined(s) == at[s] = "gone"

\* Mutant of CanStart: the old bridge is not asked whether it still listens.
CanAlwaysStart == TRUE
CanStart == active \in Sessions => lifecycle[active] # "listening"

\* LanBridgeService::start: the runtime spawns the thread; a handle of an
\* earlier session is then dropped by the assignment.
Start(s) ==
  /\ service = "free"
  /\ at[s] = "absent"
  /\ CanStart
  /\ at' = [at EXCEPT ![s] = "loop"]
  /\ lifecycle' = [lifecycle EXCEPT ![s] = "listening"]
  /\ IF active = None
     THEN active' = s /\ UNCHANGED <<service, fresh, stop>>
     ELSE /\ service' = "swap"
          /\ fresh' = s
          /\ stop' = [stop EXCEPT ![active] = TRUE]
          /\ UNCHANGED active
  /\ UNCHANGED <<lastResult, attempts, verdict, expired, late, served>>

\* Drop for LinuxLanBridgeHandle has joined the old thread.
FinishStart ==
  /\ service = "swap"
  /\ Joined(active)
  /\ active' = fresh
  /\ fresh' = None
  /\ service' = "free"
  /\ UNCHANGED <<at, lifecycle, lastResult, stop, attempts, verdict, expired,
                 late, served>>

\* LanBridgeService::stop looks at the status and calls the handle's stop, which
\* looks at it once more.
BeginStop ==
  /\ service = "free"
  /\ active # None
  /\ service' = IF lifecycle[active] = "listening" THEN "prior" ELSE "drop"
  /\ UNCHANGED <<at, lifecycle, lastResult, stop, attempts, verdict, expired,
                 active, fresh, late, served>>

CheckPrior ==
  /\ service = "prior"
  /\ service' = IF lifecycle[active] = "listening" THEN "flag" ELSE "join"
  /\ UNCHANGED <<at, lifecycle, lastResult, stop, attempts, verdict, expired,
                 active, fresh, late, served>>

\* The three stores of LinuxLanBridgeHandle::stop.
StoreStop ==
  /\ \/ /\ service = "flag"
        /\ service' = "lifecycle"
        /\ stop' = [stop EXCEPT ![active] = TRUE]
        /\ UNCHANGED <<lifecycle, lastResult>>
     \/ /\ service = "lifecycle"
        /\ service' = "result"
        /\ lifecycle' = [lifecycle EXCEPT ![active] = "stopped"]
        /\ UNCHANGED <<stop, lastResult>>
     \/ /\ service = "result"
        /\ service' = "join"
        /\ lastResult' = [lastResult EXCEPT ![active] = "stopped"]
        /\ UNCHANGED <<stop, lifecycle>>
  /\ UNCHANGED <<at, attempts, verdict, expired, active, fresh, late, served>>

Join ==
  /\ service = "join"
  /\ Joined(active)
  /\ service' = "drop"
  /\ UNCHANGED <<at, lifecycle, lastResult, stop, attempts, verdict, expired,
                 active, fresh, late, served>>

\* `*guard = None` drops the handle.
DropHandle ==
  /\ service = "drop"
  /\ stop' = [stop EXCEPT ![active] = TRUE]
  /\ lifecycle' = [lifecycle EXCEPT ![active] =
                     IF @ = "listening" THEN "stopped" ELSE @]
  /\ service' = "dropped"
  /\ UNCHANGED <<at, lastResult, attempts, verdict, expired, active, fresh, late,
                 served>>

EndStop ==
  /\ service = "dropped"
  /\ Joined(active)
  /\ active' = None
  /\ service' = "free"
  /\ UNCHANGED <<at, lifecycle, lastResult, stop, attempts, verdict, expired,
                 fresh, late, served>>

-----------------------------------------------------------------------------

\* The thread of s, but for its handler.
ThreadStep(s) ==
  \/ LoopTop(s)
  \/ NoConnection(s)
  \/ ListenerFails(s)
  \/ Accept(s)
  \/ RejectRequest(s)
  \/ CallHandler(s)
  \/ SetTerminal(s)

ServiceCall ==
  \/ \E s \in Sessions : Start(s)
  \/ FinishStart
  \/ BeginStop
  \/ CheckPrior
  \/ StoreStop
  \/ Join
  \/ DropHandle
  \/ EndStop

BridgeNext ==
  \/ \E s \in Sessions : ThreadStep(s)
  \/ \E s \in Sessions, ok \in BOOLEAN : HandlerReturns(s, ok)
  \/ \E s \in Sessions : Expire(s)
  \/ ServiceCall

\* Threads are scheduled, reads of a request are bounded in number and each by
\* a timeout, handlers return, and time goes on.  Nobody has to stop a bridge.
BridgeFairness ==
  \A s \in Sessions :
    /\ WF_bridgeVars(ThreadStep(s))
    /\ WF_bridgeVars(\E ok \in BOOLEAN : HandlerReturns(s, ok))
    /\ WF_bridgeVars(Expire(s))

BridgeSpec == BridgeInit /\ [][BridgeNext]_bridgeVars /\ BridgeFairness

-----------------------------------------------------------------------------

\* The capability is one-time: no second package is handled, whether or not the
\* first one was accepted.
CapabilityIsOneTime == \A s \in Sessions : served[s].calls <= 1

\* Two bridges are never open at the same time: when a second one is started,
\* the first one has taken its last request.
OneBridgeAtATime ==
  \A s, t \in Sessions : (at[s] \in Serving /\ at[t] \in Serving) => s = t

\* Without a bridge there is no thread: when stop has returned, the thread will
\* neither accept nor provision anything any more.
StoppedBridgeIsQuiet ==
  (service = "free" /\ active = None) =>
    \A s \in Sessions : at[s] \in {"absent", "gone"}

\* The deadline is looked at between connections, so at most one connection is
\* still accepted after it.
AtMostOneLateRequest == \A s \in Sessions : late[s] <= 1

\* A bridge closes by itself, whatever its clients do.
EveryBridgeCloses == \A s \in Sessions : (at[s] = "loop") ~> (at[s] = "gone")

=============================================================================
