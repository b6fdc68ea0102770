------------------------- MODULE InstanceControlProofs -------------------------
(***************************************************************************)
(* Proofs about InstanceControl, for any set of launches and any limits.   *)
(***************************************************************************)
EXTENDS InstanceControl, FiniteSetTheorems, SequenceTheorems, TLAPS

\* The stages, and the lock and the stages of the launches: who holds the lock
\* works on the profile, and nobody else does.
OwnerInv ==
  /\ pc \in [Launches -> Stage]
  /\ lock \in Launches \cup {Nobody}
  /\ lock # Nobody => pc[lock] \in Owning
  /\ \A p \in Launches : pc[p] \in Owning => lock = p

\* Two owners would both hold the one lock.
LEMMA OwnerInvImpliesOneWriter == OwnerInv => OneWriter
<1> SUFFICES ASSUME OwnerInv PROVE OneWriter
  OBVIOUS
<1> DEFINE Owners == {p \in Launches : pc[p] \in Owning}
<1>1. Cardinality(Owners) <= 1
  <2>1. Owners \subseteq {lock}
    BY DEF OwnerInv
  <2>2. IsFiniteSet({lock}) /\ Cardinality({lock}) = 1
    BY FS_Singleton
  <2>3. Cardinality(Owners) <= Cardinality({lock})
    BY <2>1, <2>2, FS_Subset
  <2> QED BY <2>2, <2>3
<1> QED BY <1>1 DEF OwnerInv, OneWriter

\* At first nobody runs.
LEMMA InitOwnerInv == Init => OwnerInv
BY LaunchAssumption DEF Init, OwnerInv, Stage, Owning, Binding

\* The lock is taken only when it is free.
LEMMA AcquireKeeps ==
  ASSUME OwnerInv, NEW p \in Launches, AcquireLock(p) \/ AcquireForRecovery(p)
  PROVE  OwnerInv'
<1>1. CASE AcquireLock(p)
  BY <1>1, LaunchAssumption
     DEF AcquireLock, LockIsFree, Go, OwnerInv, Stage, Owning, Binding
<1>2. CASE AcquireForRecovery(p)
  BY <1>2, LaunchAssumption
     DEF AcquireForRecovery, LockIsFree, Go, OwnerInv, Stage, Owning, Binding
<1> QED BY <1>1, <1>2

\* A launch that starts up keeps the lock until it gives up.
LEMMA StartupKeeps ==
  ASSUME OwnerInv, NEW p \in Launches, Startup(p)
  PROVE  OwnerInv'
<1>1. CASE LookForSocketFile(p)
  BY <1>1 DEF LookForSocketFile, Go, OwnerInv, Stage, Owning, Binding
<1>2. CASE RemoveStaleFile(p)
  BY <1>2, LaunchAssumption DEF RemoveStaleFile, GiveUp, Go, OwnerInv, Stage, Owning, Binding
<1>3. CASE BindSocket(p)
  BY <1>3, LaunchAssumption DEF BindSocket, GiveUp, Go, OwnerInv, Stage, Owning, Binding
<1>4. CASE SetSocketPermissions(p)
  BY <1>4, LaunchAssumption
     DEF SetSocketPermissions, GiveUp, Go, OwnerInv, Stage, Owning, Binding
<1>5. CASE FinishStartup(p)
  BY <1>5 DEF FinishStartup, Go, OwnerInv, Stage, Owning, Binding
<1>6. CASE FailStartup(p)
  BY <1>6, LaunchAssumption DEF FailStartup, Go, OwnerInv, Stage, Owning, Binding
<1>7. CASE RemoveSocketFile(p)
  BY <1>7 DEF RemoveSocketFile, Go, OwnerInv, Stage, Owning, Binding
<1> QED BY <1>1, <1>2, <1>3, <1>4, <1>5, <1>6, <1>7 DEF Startup

\* The lock ends with its process.
LEMMA DieKeeps ==
  ASSUME OwnerInv, NEW p \in Launches, Die(p)
  PROVE  OwnerInv'
BY LaunchAssumption DEF Die, Go, OwnerInv, Stage, Owning, Binding

\* A refused launch never holds the lock; a running one stays where it is.
LEMMA OtherStepsKeep ==
  ASSUME OwnerInv, NEW p \in Launches,
         HandOver(p) \/ Receive(p) \/ TakeDeepLinks(p) \/ SwitchWindow(p)
  PROVE  OwnerInv'
<1>1. CASE RouteActivation(p)
  BY <1>1 DEF RouteActivation, Go, OwnerInv, Stage, Owning, Binding
<1>2. CASE RouteLink(p)
  BY <1>2 DEF RouteLink, Go, OwnerInv, Stage, Owning, Binding
<1>3. CASE Receive(p) \/ TakeDeepLinks(p) \/ SwitchWindow(p)
  BY <1>3 DEF Receive, TakeDeepLinks, SwitchWindow, OwnerInv
<1> QED BY <1>1, <1>2, <1>3 DEF HandOver

\* Every step keeps OwnerInv.
LEMMA StepKeepsOwnerInv == OwnerInv /\ [Next]_vars => OwnerInv'
<1> SUFFICES ASSUME OwnerInv, Next \/ UNCHANGED vars PROVE OwnerInv'
  OBVIOUS
<1>1. CASE UNCHANGED vars
  BY <1>1 DEF vars, OwnerInv
<1> QED BY <1>1, AcquireKeeps, StartupKeeps, DieKeeps, OtherStepsKeep DEF Next

\* The invariant holds in every behaviour.
THEOREM OwnerInvariant == Spec => []OwnerInv
BY InitOwnerInv, StepKeepsOwnerInv, PTL DEF Spec

\* However many launches and recovery commands race, one of them at most works on
\* the profile (instance.rs, recovery_lock.rs).
THEOREM OneWriterOnly == Spec => []OneWriter
BY OwnerInvariant, OwnerInvImpliesOneWriter, PTL

-----------------------------------------------------------------------------
(* The socket's name.                                                      *)

\* What OnlyAPredecessorTakesTheSocket says of a step and a launch.
KeepsItsName(p) ==
  (/\ file = p /\ file' # p
   /\ pc[p] \in {"bound", "starting", "running"} /\ pc'[p] = pc[p])
    => \E q \in Launches \ {p} : pc[q] = "unlocked" /\ pc'[q] = "failed"

\* To touch the socket path a launch holds the lock, or has just released it.
LEMMA WhoChangesTheFile ==
  ASSUME OwnerInv, Next, file' # file
  PROVE  \E q \in Launches :
           \/ pc[q] \in {"stale", "clear"} /\ pc'[q] # pc[q] /\ lock = q
           \/ pc[q] = "unlocked" /\ pc'[q] = "failed"
<1>1. PICK q \in Launches : RemoveStaleFile(q) \/ BindSocket(q) \/ RemoveSocketFile(q)
  BY DEF Next, AcquireLock, AcquireForRecovery, Startup, LookForSocketFile,
         SetSocketPermissions, FinishStartup, FailStartup, Die, HandOver,
         RouteActivation, RouteLink, Receive, TakeDeepLinks, SwitchWindow
<1>2. CASE RemoveStaleFile(q)
  BY <1>2 DEF RemoveStaleFile, GiveUp, Go, OwnerInv, Owning, Binding
<1>3. CASE BindSocket(q)
  BY <1>3 DEF BindSocket, GiveUp, Go, OwnerInv, Owning, Binding
<1>4. CASE RemoveSocketFile(q)
  BY <1>4 DEF RemoveSocketFile, Go, OwnerInv
<1> QED BY <1>1, <1>2, <1>3, <1>4

\* Only the Drop of a predecessor can take the name of a living owner's socket
\* away: it releases the lock before it removes the file (instance.rs).
THEOREM SocketsKeepTheirNames == Spec => OnlyAPredecessorTakesTheSocket
<1>1. ASSUME OwnerInv, Next, NEW p \in Launches PROVE KeepsItsName(p)
  <2> SUFFICES ASSUME file = p, file' # p,
                      pc[p] \in {"bound", "starting", "running"}, pc'[p] = pc[p]
               PROVE  \E q \in Launches \ {p} : pc[q] = "unlocked" /\ pc'[q] = "failed"
    BY DEF KeepsItsName
  <2>1. lock = p
    BY <1>1 DEF OwnerInv, Owning, Binding
  <2> QED BY <1>1, <2>1, WhoChangesTheFile
<1>2. OwnerInv /\ [Next]_vars => [\A p \in Launches : KeepsItsName(p)]_vars
  BY <1>1
<1> QED BY <1>2, OwnerInvariant, PTL
        DEF Spec, OnlyAPredecessorTakesTheSocket, KeepsItsName


-----------------------------------------------------------------------------
(* The links.                                                              *)

\* What may lie in an inbox: the links that launches were started with.
Mail == {Activate} \cup {DeepLink(q) : q \in world.linked}

\* A link is on its way only from a launch that has one, and neither the queue of
\* a socket nor the one of an owner grows beyond its limit.
MailInv ==
  /\ world \in World
  /\ file \in Launches \cup {Nobody}
  /\ focused \in [Launches -> BOOLEAN]
  /\ drain \in [Launches -> BOOLEAN]
  /\ inbox \in [Launches -> Seq(Mail)]
  /\ pending \in [Launches -> Seq(world.linked)]
  /\ taken \in [Launches -> Seq(world.linked)]
  /\ \A p \in Launches : /\ Len(inbox[p]) <= MaxDatagrams
                         /\ Len(pending[p]) <= MaxLinks
                         /\ pc[p] = "activated" => p \in world.linked

\* The mail is what InstanceTypeOK allows.
LEMMA MailInvImpliesType == OwnerInv /\ MailInv => InstanceTypeOK
<1> SUFFICES ASSUME OwnerInv, MailInv PROVE InstanceTypeOK
  OBVIOUS
<1>1. Mail \subseteq Datagram
  BY DEF Mail, Datagram, MailInv, World
<1>2. ASSUME NEW p \in Launches
      PROVE  /\ \A n \in DOMAIN inbox[p] : inbox[p][n] \in Datagram
             /\ Range(pending[p] \o taken[p]) \subseteq world.linked
  <2>1. inbox[p] \in Seq(Mail) /\ pending[p] \in Seq(world.linked)
        /\ taken[p] \in Seq(world.linked)
    BY DEF MailInv
  <2>2. inbox[p] \in [1..Len(inbox[p]) -> Mail] /\ DOMAIN inbox[p] = 1..Len(inbox[p])
    BY <2>1, LenProperties
  <2>3. pending[p] \o taken[p] \in Seq(world.linked)
    BY <2>1, ConcatProperties
  <2>4. Range(pending[p] \o taken[p]) \in SUBSET world.linked
    BY <2>3, RangeOfSeq
  <2> QED BY <1>1, <2>2, <2>4
<1> QED BY <1>2 DEF OwnerInv, MailInv, InstanceTypeOK

\* Neither mail nor links at first.
LEMMA InitMailInv == Init => MailInv
<1> SUFFICES ASSUME Init PROVE MailInv
  OBVIOUS
<1>1. << >> \in Seq(Mail) /\ << >> \in Seq(world.linked) /\ Len(<< >>) = 0
  BY EmptySeq
<1> QED BY <1>1, LaunchAssumption DEF Init, MailInv

\* What a launch queues for its own link.
LEMMA StartupLinks ==
  ASSUME NEW S, NEW q
  PROVE  /\ (IF q \in S THEN <<q>> ELSE << >>) \in Seq(S)
         /\ Len(IF q \in S THEN <<q>> ELSE << >>) <= 1
<1>1. CASE q \in S
  BY <1>1
<1>2. CASE q \notin S
  BY <1>2, EmptySeq
<1> QED BY <1>1, <1>2

\* The steps of the startup, of recovery and of an end send and take no mail.
LEMMA StartupKeepsMail ==
  ASSUME OwnerInv, MailInv, NEW p \in Launches,
         AcquireLock(p) \/ AcquireForRecovery(p) \/ Startup(p) \/ Die(p)
  PROVE  MailInv'
<1> USE DEF OwnerInv, MailInv, Mail, Go, GiveUp, ui
<1>1. CASE AcquireLock(p) \/ AcquireForRecovery(p)
  BY <1>1 DEF AcquireLock, AcquireForRecovery
<1>2. CASE LookForSocketFile(p) \/ RemoveStaleFile(p) \/ BindSocket(p)
  BY <1>2 DEF LookForSocketFile, RemoveStaleFile, BindSocket
<1>3. CASE SetSocketPermissions(p) \/ FailStartup(p) \/ RemoveSocketFile(p) \/ Die(p)
  BY <1>3 DEF SetSocketPermissions, FailStartup, RemoveSocketFile, Die
<1>4. CASE FinishStartup(p)
  <2>1. << >> \in Seq(world.linked) /\ Len(<< >>) = 0
    BY EmptySeq
  <2> DEFINE links == IF p \in world.linked THEN <<p>> ELSE << >>
  <2>2. links \in Seq(world.linked) /\ Len(links) <= 1
    BY StartupLinks
  <2>3. pending' = [pending EXCEPT ![p] = links]
    BY <1>4 DEF FinishStartup
  <2> HIDE DEF links
  <2>4. /\ pending' \in [Launches -> Seq(world.linked)]
        /\ \A q \in Launches : Len(pending'[q]) <= MaxLinks
    <3>1. Len(links) <= MaxLinks
      BY <2>2, LaunchAssumption, LenProperties
    <3> QED BY <2>2, <2>3, <3>1
  <2> QED BY <1>4, <2>4 DEF FinishStartup
<1> QED BY <1>1, <1>2, <1>3, <1>4 DEF Startup

\* A launch sends its own link only, and only when there is room.
LEMMA HandOverKeepsMail ==
  ASSUME OwnerInv, MailInv, NEW p \in Launches, HandOver(p)
  PROVE  MailInv'
<1>1. ASSUME NEW d \in Mail, Send(d), UNCHANGED world
      PROVE  /\ inbox' \in [Launches -> Seq(Mail)]
             /\ \A q \in Launches : Len(inbox'[q]) <= MaxDatagrams
  <2>1. /\ file \in Launches /\ Len(inbox[file]) < MaxDatagrams
        /\ inbox' = [inbox EXCEPT ![file] = Append(inbox[file], d)]
    BY <1>1 DEF Send, Reachable, MailInv
  <2>2. inbox[file] \in Seq(Mail)
    BY <2>1 DEF MailInv
  <2>3. /\ Append(inbox[file], d) \in Seq(Mail)
        /\ Len(Append(inbox[file], d)) = Len(inbox[file]) + 1 /\ Len(inbox[file]) \in Nat
    BY <2>2, AppendProperties, LenProperties
  <2> QED BY <2>1, <2>3, LaunchAssumption DEF MailInv
<1>2. Mail' = Mail
  BY DEF HandOver, RouteActivation, RouteLink, Mail
<1>3. CASE RouteActivation(p)
  <2>1. Activate \in Mail
    BY DEF Mail
  <2>2. /\ inbox' \in [Launches -> Seq(Mail)]
        /\ \A q \in Launches : Len(inbox'[q]) <= MaxDatagrams
    BY <1>1, <1>3, <2>1 DEF RouteActivation, MailInv
  <2>3. \A q \in Launches : pc'[q] = "activated" => q \in world.linked
    BY <1>3 DEF RouteActivation, Go, OwnerInv, MailInv
  <2> QED BY <1>2, <1>3, <2>2, <2>3 DEF RouteActivation, ui, MailInv
<1>4. CASE RouteLink(p)
  <2>1. DeepLink(p) \in Mail
    BY <1>4 DEF RouteLink, MailInv, Mail
  <2>2. /\ inbox' \in [Launches -> Seq(Mail)]
        /\ \A q \in Launches : Len(inbox'[q]) <= MaxDatagrams
    BY <1>1, <1>4, <2>1 DEF RouteLink, MailInv
  <2>3. \A q \in Launches : pc'[q] = "activated" => q \in world.linked
    BY <1>4 DEF RouteLink, Go, OwnerInv, MailInv
  <2> QED BY <1>2, <1>4, <2>2, <2>3 DEF RouteLink, ui, MailInv
<1> QED BY <1>3, <1>4 DEF HandOver

\* A link that arrives takes the place of the oldest one when the queue is full.
LEMMA EnqueuedLinks ==
  ASSUME NEW S, NEW links \in Seq(S), Len(links) <= MaxLinks, NEW q \in S
  PROVE  EnqueueDeepLink(links, q) \in Seq(S) /\ Len(EnqueueDeepLink(links, q)) <= MaxLinks
<1> DEFINE kept == IF Len(links) >= MaxLinks THEN Tail(links) ELSE links
<1>1. kept \in Seq(S) /\ Len(kept) < MaxLinks
  <2>1. CASE Len(links) >= MaxLinks
    <3>1. links # << >> /\ Len(links) \in Nat
      BY <2>1, LaunchAssumption, LenProperties, EmptySeq
    <3> QED BY <2>1, <3>1, LaunchAssumption, HeadTailProperties
  <2>2. CASE ~ (Len(links) >= MaxLinks)
    BY <2>2, LaunchAssumption, LenProperties
  <2> QED BY <2>1, <2>2
<1>2. Append(kept, q) \in Seq(S) /\ Len(Append(kept, q)) = Len(kept) + 1
  BY <1>1, AppendProperties
<1>3. Len(kept) \in Nat
  BY <1>1, LenProperties
<1> QED BY <1>1, <1>2, <1>3, LaunchAssumption DEF EnqueueDeepLink

\* The owner's thread and its frontend hand links on.
LEMMA OwnerKeepsMail ==
  ASSUME OwnerInv, MailInv, NEW p \in Launches,
         Receive(p) \/ TakeDeepLinks(p) \/ SwitchWindow(p)
  PROVE  MailInv'
<1>1. /\ inbox[p] \in Seq(Mail) /\ pending[p] \in Seq(world.linked)
      /\ taken[p] \in Seq(world.linked)
  BY DEF MailInv
<1>2. UNCHANGED <<pc, lock, world, file>> /\ Mail' = Mail
  BY DEF Receive, TakeDeepLinks, SwitchWindow, Mail
<1>3. focused' \in [Launches -> BOOLEAN] /\ drain' \in [Launches -> BOOLEAN]
  BY DEF Receive, TakeDeepLinks, SwitchWindow, MailInv
<1>4. CASE Receive(p)
  <2>1. inbox[p] # << >>
    BY <1>4 DEF Receive
  <2>2. /\ Head(inbox[p]) \in Mail /\ Tail(inbox[p]) \in Seq(Mail)
        /\ Len(Tail(inbox[p])) = Len(inbox[p]) - 1 /\ Len(inbox[p]) \in Nat
    BY <1>1, <2>1, HeadTailProperties, LenProperties
  <2>3. Head(inbox[p]) # Activate => Head(inbox[p]).from \in world.linked
    BY <2>2 DEF Mail, DeepLink
  <2>4. /\ inbox' = [inbox EXCEPT ![p] = Tail(inbox[p])]
        /\ taken' = taken
        /\ pending' = IF Head(inbox[p]) = Activate THEN pending
                      ELSE [pending EXCEPT ![p] =
                              EnqueueDeepLink(pending[p], Head(inbox[p]).from)]
    BY <1>4 DEF Receive
  <2>5. /\ inbox' \in [Launches -> Seq(Mail)]
        /\ \A q \in Launches : Len(inbox'[q]) <= MaxDatagrams
    BY <2>2, <2>4, LaunchAssumption DEF MailInv
  <2>6. /\ pending' \in [Launches -> Seq(world.linked)]
        /\ \A q \in Launches : Len(pending'[q]) <= MaxLinks
    <3>1. CASE Head(inbox[p]) = Activate
      BY <2>4, <3>1 DEF MailInv
    <3>2. CASE Head(inbox[p]) # Activate
      <4> DEFINE links == EnqueueDeepLink(pending[p], Head(inbox[p]).from)
      <4>1. links \in Seq(world.linked) /\ Len(links) <= MaxLinks
        BY <1>1, <2>3, <3>2, EnqueuedLinks DEF MailInv
      <4>2. pending' = [pending EXCEPT ![p] = links]
        BY <2>4, <3>2
      <4> HIDE DEF links
      <4> QED BY <4>1, <4>2 DEF MailInv
    <3> QED BY <3>1, <3>2
  <2> QED BY <1>2, <1>3, <2>4, <2>5, <2>6 DEF MailInv
<1>5. CASE TakeDeepLinks(p)
  <2>1. taken[p] \o pending[p] \in Seq(world.linked)
    BY <1>1, ConcatProperties
  <2>2. << >> \in Seq(world.linked) /\ Len(<< >>) = 0
    BY EmptySeq
  <2>3. /\ taken' = [taken EXCEPT ![p] = taken[p] \o pending[p]]
        /\ pending' = [pending EXCEPT ![p] = << >>]
        /\ inbox' = inbox
    BY <1>5 DEF TakeDeepLinks
  <2> QED BY <1>2, <1>3, <2>1, <2>2, <2>3, LaunchAssumption DEF MailInv
<1>6. CASE SwitchWindow(p)
  BY <1>2, <1>3, <1>6 DEF SwitchWindow, MailInv
<1> QED BY <1>4, <1>5, <1>6

\* Every step keeps MailInv.
LEMMA StepKeepsMailInv ==
  ASSUME OwnerInv, MailInv, [Next]_vars
  PROVE  MailInv'
<1>1. CASE UNCHANGED vars
  BY <1>1 DEF vars, ui, MailInv, Mail
<1> QED BY <1>1, StartupKeepsMail, HandOverKeepsMail, OwnerKeepsMail DEF Next

\* Type correctness for all launches and limits: whatever launches race, no inbox
\* holds a link nobody was started with, and neither the kernel's queue nor
\* pending_deep_links outgrows its limit (instance.rs, integration.rs).
THEOREM InstanceTypeCorrect == Spec => []InstanceTypeOK
<1>1. OwnerInv /\ MailInv /\ [Next]_vars => MailInv'
  BY StepKeepsMailInv
<1> QED BY <1>1, InitMailInv, OwnerInvariant, MailInvImpliesType, PTL DEF Spec

=============================================================================
