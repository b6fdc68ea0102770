---------------------------- MODULE InstanceControl ----------------------------
(***************************************************************************)
(* Launches of the program on one profile: who owns it, and how a launch  *)
(* that finds it owned hands its activation and its deep link to the      *)
(* owner (infrastructure/linux/instance.rs, recovery_lock.rs, run() of    *)
(* main.rs, application/integration.rs, the focus handler of App.tsx).    *)
(*                                                                         *)
(* Ownership is an flock on the profile directory, which the kernel drops *)
(* with its process.  The activation socket is a name in the runtime      *)
(* directory: `file` is the launch whose socket the name leads to, alive  *)
(* or not.  A launch is one process, never restarted; whoever starts the  *)
(* program again is another launch.  A launch's deep link is named by the *)
(* launch.                                                                 *)
(***************************************************************************)
EXTENDS Naturals, Sequences, FiniteSets, SequencesExt

CONSTANTS
  Launches,
  Nobody,
  MaxLinks,      \* length of pending_deep_links; 32 in the code
  MaxDatagrams   \* datagrams the kernel queues at a socket

ASSUME LaunchAssumption ==
  /\ Nobody \notin Launches
  /\ MaxLinks \in Nat \ {0}
  /\ MaxDatagrams \in Nat \ {0}

VARIABLES
  pc,        \* pc[p]: how far launch p has got
  lock,      \* the launch that holds the profile's flock
  world,     \* runtime: is there a secure runtime directory for the socket?
             \* linked: the launches that are started with a deep link
  file,      \* the launch whose socket the socket path names
  inbox,     \* inbox[p]: datagrams queued at p's socket
  pending,   \* pending[p]: pending_deep_links of p's IntegrationService
  focused,   \* focused[p]: p's window has the focus
  drain,     \* drain[p]: its frontend is about to call takeDeepLinkIntents
  taken      \* taken[p]: the links its frontend has got

vars == <<pc, lock, world, file, inbox, pending, focused, drain, taken>>
ui   == <<pending, focused, drain, taken>>

\* Holding the lock, from acquire to the start of Drop.
Binding == {"locked", "stale", "clear", "bound"}
Owning  == Binding \cup {"starting", "running", "recovering"}
Stage   == Owning \cup {"off", "unlocked", "refused", "activated",
                        "routed", "unheard", "failed", "ended"}

World == [runtime : BOOLEAN, linked : SUBSET Launches]

Activate == [kind |-> "activate"]
DeepLink(p) == [kind |-> "link", from |-> p]
Datagram == {Activate} \cup {DeepLink(p) : p \in Launches}

InstanceTypeOK ==
  /\ pc \in [Launches -> Stage]
  /\ lock \in Launches \cup {Nobody}
  /\ world \in World
  /\ file \in Launches \cup {Nobody}
  /\ \A p \in Launches : /\ \A n \in DOMAIN inbox[p] : inbox[p][n] \in Datagram
                         /\ Len(inbox[p]) <= MaxDatagrams
                         /\ Len(pending[p]) <= MaxLinks
                         /\ Range(pending[p] \o taken[p]) \subseteq world.linked
  /\ focused \in [Launches -> BOOLEAN]
  /\ drain \in [Launches -> BOOLEAN]

Init ==
  /\ pc = [p \in Launches |-> "off"]
  /\ lock = Nobody
  /\ world \in World
  /\ file = Nobody
  /\ inbox = [p \in Launches |-> <<>>]
  /\ pending = [p \in Launches |-> <<>>]
  /\ focused = [p \in Launches |-> FALSE]
  /\ drain = [p \in Launches |-> FALSE]
  /\ taken = [p \in Launches |-> <<>>]

Go(p, stage) == pc' = [pc EXCEPT ![p] = stage]

-----------------------------------------------------------------------------
(* Becoming the owner.                                                     *)

\* Mutant of LockIsFree: LOCK_NB is taken for a success.
LockIsAlwaysFree == TRUE

LockIsFree == lock = Nobody

\* acquire: try_lock_profile_dir, and what follows from its answer.
AcquireLock(p) ==
  /\ pc[p] = "off"
  /\ IF LockIsFree
     THEN Go(p, IF world.runtime THEN "locked" ELSE "starting") /\ lock' = p
     ELSE Go(p, "refused") /\ UNCHANGED lock
  /\ UNCHANGED <<world, file, inbox, ui>>

\* bind_activation_socket: is there a file from an earlier owner?
LookForSocketFile(p) ==
  /\ pc[p] = "locked"
  /\ Go(p, IF file = Nobody THEN "clear" ELSE "stale")
  /\ UNCHANGED <<lock, world, file, inbox, ui>>

\* An error on the way: the File that holds the lock is closed.
GiveUp(p) == Go(p, "failed") /\ lock' = IF lock = p THEN Nobody ELSE lock

RemoveStaleFile(p) ==
  /\ pc[p] = "stale"
  /\ IF file = Nobody THEN GiveUp(p) ELSE Go(p, "clear") /\ UNCHANGED lock
  /\ file' = Nobody
  /\ UNCHANGED <<world, inbox, ui>>

BindSocket(p) ==
  /\ pc[p] = "clear"
  /\ IF file = Nobody THEN Go(p, "bound") /\ file' = p /\ UNCHANGED lock
                      ELSE GiveUp(p) /\ UNCHANGED file
  /\ UNCHANGED <<world, inbox, ui>>

SetSocketPermissions(p) ==
  /\ pc[p] = "bound"
  /\ IF file = p THEN Go(p, "starting") /\ UNCHANGED lock ELSE GiveUp(p)
  /\ UNCHANGED <<world, file, inbox, ui>>

\* run(): doctor, backup, repositories, the startup link, the window, whose
\* frontend asks for links when it has loaded.
FinishStartup(p) ==
  /\ pc[p] = "starting"
  /\ Go(p, "running")
  /\ pending' = [pending EXCEPT ![p] = IF p \in world.linked THEN <<p>> ELSE <<>>]
  /\ focused' = [focused EXCEPT ![p] = TRUE]
  /\ drain' = [drain EXCEPT ![p] = TRUE]
  /\ UNCHANGED <<lock, world, file, inbox, taken>>

\* Safe mode or an error during startup: run() returns, and PrimaryInstance is
\* dropped.  Drop unlocks first ...
FailStartup(p) ==
  /\ pc[p] = "starting"
  /\ Go(p, "unlocked")
  /\ lock' = IF lock = p THEN Nobody ELSE lock
  /\ UNCHANGED <<world, file, inbox, ui>>

\* ... and then removes whatever the socket path names by now.
RemoveSocketFile(p) ==
  /\ pc[p] = "unlocked"
  /\ Go(p, "failed")
  /\ file' = Nobody
  /\ UNCHANGED <<lock, world, inbox, ui>>

\* A normal close, std::process::exit in the event loop, or a crash: the kernel
\* drops the lock, the file stays.
Die(p) ==
  /\ pc[p] \in Owning
  /\ Go(p, "ended")
  /\ lock' = IF lock = p THEN Nobody ELSE lock
  /\ UNCHANGED <<world, file, inbox, ui>>

\* recovery_lock::acquire for doctor, backup, restore and the other commands.
AcquireForRecovery(p) ==
  /\ pc[p] = "off"
  /\ IF LockIsFree THEN Go(p, "recovering") /\ lock' = p
                   ELSE Go(p, "failed") /\ UNCHANGED lock
  /\ UNCHANGED <<world, file, inbox, ui>>

-----------------------------------------------------------------------------
(* Handing over to the owner.                                              *)

\* The socket of p is open while its process has it bound.
Open(p) == pc[p] \in {"bound", "starting", "running", "unlocked"}

\* Mutant of Reachable: the file alone is taken for an owner that listens.
ReachableByName == world.runtime /\ file # Nobody

Reachable == world.runtime /\ file # Nobody /\ Open(file)

\* send_to blocks while the queue of the socket is full.
Send(datagram) ==
  /\ Reachable
  /\ Len(inbox[file]) < MaxDatagrams
  /\ inbox' = [inbox EXCEPT ![file] = Append(@, datagram)]

\* acquire of a launch that did not get the lock.
RouteActivation(p) ==
  /\ pc[p] = "refused"
  /\ \/ /\ Send(Activate)
        /\ Go(p, IF p \in world.linked THEN "activated" ELSE "routed")
     \/ ~ Reachable /\ Go(p, "unheard") /\ UNCHANGED inbox
  /\ UNCHANGED <<lock, world, file, ui>>

\* run(): a launch that was routed sends its link in a datagram of its own.
RouteLink(p) ==
  /\ pc[p] = "activated"
  /\ \/ Send(DeepLink(p)) /\ Go(p, "routed")
     \/ ~ Reachable /\ Go(p, "failed") /\ UNCHANGED inbox
  /\ UNCHANGED <<lock, world, file, ui>>

-----------------------------------------------------------------------------
(* The owner's receiver thread and its frontend.                           *)

\* Mutant of EnqueueDeepLink: the new link takes the place at the front.
EnqueueInFront(links, p) ==
  <<p>> \o (IF Len(links) >= MaxLinks THEN Tail(links) ELSE links)

\* Mutant of EnqueueDeepLink: the queue has no limit.
EnqueueWithoutLimit(links, p) == Append(links, p)

\* A full queue loses its oldest link.
EnqueueDeepLink(links, p) ==
  Append(IF Len(links) >= MaxLinks THEN Tail(links) ELSE links, p)

\* Either datagram shows the window and gives it the focus; the frontend hears
\* of it only if the window did not have the focus.
Receive(p) ==
  /\ pc[p] = "running"
  /\ inbox[p] # <<>>
  /\ LET datagram == Head(inbox[p])
     IN  pending' = IF datagram = Activate THEN pending
                    ELSE [pending EXCEPT ![p] = EnqueueDeepLink(@, datagram.from)]
  /\ inbox' = [inbox EXCEPT ![p] = Tail(@)]
  /\ drain' = [drain EXCEPT ![p] = @ \/ ~ focused[p]]
  /\ focused' = [focused EXCEPT ![p] = TRUE]
  /\ UNCHANGED <<pc, lock, world, file, taken>>

\* desktop_api_take_deep_link_intents drains the queue.
TakeDeepLinks(p) ==
  /\ pc[p] = "running"
  /\ drain[p]
  /\ taken' = [taken EXCEPT ![p] = @ \o pending[p]]
  /\ pending' = [pending EXCEPT ![p] = <<>>]
  /\ drain' = [drain EXCEPT ![p] = FALSE]
  /\ UNCHANGED <<pc, lock, world, file, inbox, focused>>

\* The user turns to another window, or back to this one.
SwitchWindow(p) ==
  /\ pc[p] = "running"
  /\ focused' = [focused EXCEPT ![p] = ~ @]
  /\ drain' = [drain EXCEPT ![p] = @ \/ ~ focused[p]]
  /\ UNCHANGED <<pc, lock, world, file, inbox, pending, taken>>

-----------------------------------------------------------------------------

Startup(p) ==
  \/ LookForSocketFile(p) \/ RemoveStaleFile(p) \/ BindSocket(p)
  \/ SetSocketPermissions(p) \/ FinishStartup(p) \/ FailStartup(p)
  \/ RemoveSocketFile(p)

HandOver(p) == RouteActivation(p) \/ RouteLink(p)

Next ==
  \E p \in Launches :
    \/ AcquireLock(p) \/ AcquireForRecovery(p)
    \/ Startup(p) \/ Die(p)
    \/ HandOver(p)
    \/ Receive(p) \/ TakeDeepLinks(p) \/ SwitchWindow(p)

\* Threads that can run do run; nobody has to start the program, to switch
\* windows or to close it.
Fairness ==
  \A p \in Launches : /\ WF_vars(Startup(p))
                      /\ WF_vars(HandOver(p))
                      /\ WF_vars(Receive(p))
                      /\ WF_vars(TakeDeepLinks(p))

Spec == Init /\ [][Next]_vars /\ Fairness

-----------------------------------------------------------------------------

\* Of all launches and recovery commands at most one works on the profile, and
\* it is the one that holds the lock: neither a stale socket nor a predecessor
\* that is still dropping makes two owners, or none.
OneWriter ==
  /\ Cardinality({p \in Launches : pc[p] \in Owning}) <= 1
  /\ lock = Nobody \/ pc[lock] \in Owning
  /\ \A p \in Launches : pc[p] \in Owning => lock = p

\* While an owner lives nobody takes its socket's name away, no refused launch,
\* no recovery command, no crash, except a predecessor whose Drop has released
\* the lock and not yet removed the file.
OnlyAPredecessorTakesTheSocket ==
  [][\A p \in Launches :
       (/\ file = p /\ file' # p
        /\ pc[p] \in {"bound", "starting", "running"} /\ pc'[p] = pc[p])
         => \E q \in Launches \ {p} : pc[q] = "unlocked" /\ pc'[q] = "failed"]_vars

\* The links an owner has got, in the order in which they reached its socket.
InboxLinks(p) == SelectSeq(inbox[p], LAMBDA d : d # Activate)
Trail(p) == taken[p] \o pending[p]
              \o [n \in DOMAIN InboxLinks(p) |-> InboxLinks(p)[n].from]

\* On their way from the socket to the frontend links are neither reordered nor
\* doubled nor lost, but for the oldest one in a full queue; none arrives twice.
LinksKeepTheirOrder ==
  [][\A p \in Launches :
       (pc[p] = "running" /\ pc'[p] = "running") =>
         \/ \E s \in Launches \ Range(Trail(p)) : Trail(p)' = Append(Trail(p), s)
         \/ Trail(p)' = Trail(p)
         \/ /\ Len(pending[p]) = MaxLinks
            /\ Trail(p)' = RemoveAt(Trail(p), Len(taken[p]) + 1)]_vars

\* A launch that finds the profile owned never hangs, not even on a socket whose
\* queue is full: it is routed, or told that it can not be.
RefusedLaunchesEnd ==
  \A p \in Launches :
    pc[p] \in {"refused", "activated"} ~> pc[p] \in {"routed", "unheard", "failed"}

=============================================================================
