------------------------- MODULE DevicePairingProofs -------------------------
(***************************************************************************)
(* Proofs about linking a device, for any set of sessions, boards, bundles,*)
(* grants and plans and any attempt limit: about LanBridge, DeviceLink and *)
(* ProfileImport on their own first, then about DevicePairing, where the   *)
(* bridge and the link meet.                                               *)
(***************************************************************************)
EXTENDS DevicePairing, ProfileImport, FiniteSetTheorems, TLAPS


-----------------------------------------------------------------------------
(***************************************************************************)
(* The LAN bridge, for any set of sessions and any attempt limit.          *)
(***************************************************************************)

\* Each thread on its own: how far its counters are, given where it is.  The
\* handler is called on the way out, and a connection that was accepted after
\* the deadline is the last one, since the next look at the loop's top ends it.
ThreadInv ==
  \A s \in Sessions :
    /\ at[s] \in Serving \cup {"absent"} => attempts[s] <= MaxAttempts
    /\ at[s] \in Closing => verdict[s] \in Terminal
    /\ served[s].calls <= 1
    /\ served[s].calls = 1 => at[s] \in {"handle", "gone"} \cup Closing
    /\ late[s] <= 1
    /\ late[s] = 1 => expired[s] /\ at[s] # "accept"

\* The service knows every thread that runs, and one that still takes requests
\* says "listening" until a stop has stored its own state over that.
ServiceInv ==
  /\ service = "swap" <=> fresh # None
  /\ service # "free" => active # None
  /\ fresh # None => fresh # active
  /\ \A s \in Sessions : at[s] \notin {"absent", "gone"} => s \in {active, fresh}
  /\ \A s \in Sessions : s \in {active, fresh} => at[s] # "absent"
  /\ \A s \in Sessions :
       (at[s] \in Serving /\ s = active) =>
         /\ service # "swap"
         /\ service \in {"free", "prior", "flag", "lifecycle"} =>
              lifecycle[s] = "listening"
  /\ \A s \in Sessions : (at[s] \in Serving /\ s = fresh) => lifecycle[s] = "listening"

BridgeInv == BridgeTypeOK /\ ThreadInv /\ ServiceInv

\* No thread, no session: the invariant holds.
LEMMA InitBridgeInv == BridgeInit => BridgeInv
<1> SUFFICES ASSUME BridgeInit PROVE BridgeInv
  OBVIOUS
<1>1. BridgeTypeOK
  BY AttemptsAssumption DEF BridgeInit, BridgeTypeOK, Place, Lifecycle, ServiceStep
<1>2. ThreadInv
  <2> SUFFICES ASSUME NEW s \in Sessions
               PROVE  /\ at[s] \in Serving \cup {"absent"} => attempts[s] <= MaxAttempts
                      /\ at[s] \in Closing => verdict[s] \in Terminal
                      /\ served[s].calls <= 1
                      /\ served[s].calls = 1 => at[s] \in {"handle", "gone"} \cup Closing
                      /\ late[s] <= 1
                      /\ late[s] = 1 => expired[s] /\ at[s] # "accept"
    BY DEF ThreadInv
  <2>1. served[s] = [calls |-> 0, accepted |-> FALSE]
    BY DEF BridgeInit
  <2>2. at[s] = "absent" /\ attempts[s] = 0 /\ late[s] = 0
    BY DEF BridgeInit
  <2>3. served[s].calls = 0
    BY <2>1
  <2> QED BY <2>2, <2>3, AttemptsAssumption DEF Closing
<1>3. ServiceInv
  BY NoneAssumption DEF BridgeInit, ServiceInv, Serving
<1> QED BY <1>1, <1>2, <1>3 DEF BridgeInv

-----------------------------------------------------------------------------
(* The listener thread.                                                    *)

\* A step of a thread moves that thread only, and never back from its end or
\* into service.
ThreadMoves(s) ==
  /\ \A t \in Sessions \ {s} : at'[t] = at[t] /\ lifecycle'[t] = lifecycle[t]
  /\ at[s] \notin {"absent", "gone"} /\ at'[s] # "absent"
  /\ at'[s] \in Serving => at[s] \in Serving /\ lifecycle'[s] = lifecycle[s]
  /\ UNCHANGED <<active, service, fresh>>

\* What a thread does is no concern of the service.
LEMMA ThreadMovesKeepService ==
  ASSUME ServiceInv, NEW s \in Sessions, ThreadMoves(s)
  PROVE  ServiceInv'
BY DEF ServiceInv, ThreadMoves

\* The steps of a thread, its handler and its deadline are such moves and keep
\* what is known of each thread.
LEMMA LoopTopKeeps ==
  ASSUME BridgeInv, NEW s \in Sessions, LoopTop(s)
  PROVE  BridgeTypeOK' /\ ThreadInv' /\ ThreadMoves(s)
<1> USE DEF BridgeInv, Serving, Closing, Terminal
<1>1. BridgeTypeOK'
  BY DEF LoopTop, Terminate, BridgeTypeOK, Place
<1>2. ThreadInv'
  BY DEF LoopTop, Terminate, PastDeadline, BridgeTypeOK, ThreadInv
<1>3. ThreadMoves(s)
  BY DEF LoopTop, Terminate, BridgeTypeOK, ThreadMoves
<1> QED BY <1>1, <1>2, <1>3

LEMMA ConnectionKeeps ==
  ASSUME BridgeInv, NEW s \in Sessions,
         NoConnection(s) \/ ListenerFails(s) \/ Accept(s)
  PROVE  BridgeTypeOK' /\ ThreadInv' /\ ThreadMoves(s)
<1> USE AttemptsAssumption DEF BridgeInv, Serving, Closing, Terminal
<1>1. CASE NoConnection(s)
  <2>1. BridgeTypeOK' /\ ThreadMoves(s)
    BY <1>1 DEF NoConnection, BridgeTypeOK, ThreadMoves, Place
  <2>2. ThreadInv'
    BY <1>1 DEF NoConnection, BridgeTypeOK, ThreadInv
  <2> QED BY <2>1, <2>2
<1>2. CASE ListenerFails(s)
  <2>1. BridgeTypeOK' /\ ThreadMoves(s)
    BY <1>2 DEF ListenerFails, Terminate, BridgeTypeOK, ThreadMoves, Place
  <2>2. ThreadInv'
    BY <1>2 DEF ListenerFails, Terminate, BridgeTypeOK, ThreadInv
  <2> QED BY <2>1, <2>2
<1>3. CASE Accept(s)
  <2>1. attempts[s] <= MaxAttempts /\ attempts[s] \in Nat /\ late[s] \in Nat /\ late[s] # 1
    BY <1>3 DEF Accept, ThreadInv, BridgeTypeOK
  <2>2. late[s] = 0
    BY <2>1 DEF ThreadInv
  <2>3. ThreadMoves(s)
    BY <1>3 DEF Accept, Terminate, BridgeTypeOK, ThreadMoves
  <2>4. attempts' \in [Sessions -> 0..MaxAttempts + 1] /\ late' \in [Sessions -> Nat]
    BY <1>3, <2>1 DEF Accept, BridgeTypeOK
  <2>5. at' \in [Sessions -> Place] /\ verdict' \in [Sessions -> Terminal \cup {None}]
    BY <1>3 DEF Accept, Terminate, BridgeTypeOK, Place
  <2>6. BridgeTypeOK'
    BY <1>3, <2>4, <2>5 DEF Accept, BridgeTypeOK
  <2>7. ThreadInv'
    BY <1>3, <2>1, <2>2 DEF Accept, Terminate, BridgeTypeOK, ThreadInv
  <2> QED BY <2>3, <2>6, <2>7
<1> QED BY <1>1, <1>2, <1>3

LEMMA RequestKeeps ==
  ASSUME BridgeInv, NEW s \in Sessions,
         \/ RejectRequest(s) \/ CallHandler(s)
         \/ \E ok \in BOOLEAN : HandlerReturns(s, ok)
  PROVE  BridgeTypeOK' /\ ThreadInv' /\ ThreadMoves(s)
<1> USE DEF BridgeInv, Serving, Closing, Terminal
<1>1. CASE RejectRequest(s)
  <2>1. BridgeTypeOK' /\ ThreadMoves(s)
    BY <1>1 DEF RejectRequest, BridgeTypeOK, ThreadMoves, Place
  <2>2. ThreadInv'
    BY <1>1 DEF RejectRequest, BridgeTypeOK, ThreadInv
  <2> QED BY <2>1, <2>2
<1>2. CASE CallHandler(s)
  <2>1. served[s] \in [calls : Nat, accepted : BOOLEAN] /\ served[s].calls = 0
    <3>1. served[s] \in [calls : Nat, accepted : BOOLEAN]
      BY DEF BridgeTypeOK
    <3>2. served[s].calls \in Nat
      BY <3>1
    <3>3. served[s].calls <= 1 /\ served[s].calls # 1
      BY <1>2 DEF CallHandler, ThreadInv
    <3> QED BY <3>1, <3>2, <3>3
  <2>2. BridgeTypeOK' /\ ThreadMoves(s)
    <3>1. served' \in [Sessions -> [calls : Nat, accepted : BOOLEAN]]
      BY <1>2, <2>1 DEF CallHandler, BridgeTypeOK
    <3>2. BridgeTypeOK'
      BY <1>2, <3>1 DEF CallHandler, BridgeTypeOK, Place
    <3>3. ThreadMoves(s)
      BY <1>2 DEF CallHandler, BridgeTypeOK, ThreadMoves
    <3> QED BY <3>2, <3>3
  <2>3. ThreadInv'
    BY <1>2, <2>1 DEF CallHandler, BridgeTypeOK, ThreadInv
  <2> QED BY <2>2, <2>3
<1>3. ASSUME NEW ok \in BOOLEAN, HandlerReturns(s, ok)
      PROVE  BridgeTypeOK' /\ ThreadInv' /\ ThreadMoves(s)
  <2>1. BridgeTypeOK' /\ ThreadMoves(s)
    BY <1>3 DEF HandlerReturns, Terminate, BridgeTypeOK, ThreadMoves, Place
  <2>2. ThreadInv'
    BY <1>3 DEF HandlerReturns, Terminate, BridgeTypeOK, ThreadInv
  <2> QED BY <2>1, <2>2
<1> QED BY <1>1, <1>2, <1>3

LEMMA EndKeeps ==
  ASSUME BridgeInv, NEW s \in Sessions, SetTerminal(s) \/ Expire(s)
  PROVE  BridgeTypeOK' /\ ThreadInv' /\ ThreadMoves(s)
<1> USE DEF BridgeInv, Serving, Closing, Terminal
<1>1. CASE SetTerminal(s)
  <2>1. at[s] \in Closing => verdict[s] \in Terminal
    BY DEF ThreadInv
  <2>2. BridgeTypeOK' /\ ThreadMoves(s)
    BY <1>1, <2>1 DEF SetTerminal, BridgeTypeOK, ThreadMoves, Place, Lifecycle
  <2>3. ThreadInv'
    BY <1>1 DEF SetTerminal, BridgeTypeOK, ThreadInv
  <2> QED BY <2>2, <2>3
<1>2. CASE Expire(s)
  <2>1. BridgeTypeOK' /\ ThreadMoves(s)
    BY <1>2 DEF Expire, BridgeTypeOK, ThreadMoves
  <2>2. ThreadInv'
    BY <1>2 DEF Expire, BridgeTypeOK, ThreadInv
  <2> QED BY <2>1, <2>2
<1> QED BY <1>1, <1>2

-----------------------------------------------------------------------------
(* The service.                                                            *)

\* A new session starts only when the active one, if any, takes no request.
LEMMA StartKeeps ==
  ASSUME BridgeInv, NEW s \in Sessions, Start(s)
  PROVE  BridgeInv'
<1> USE NoneAssumption DEF BridgeInv
<1>1. BridgeTypeOK'
  BY DEF Start, BridgeTypeOK, Place, Serving, Lifecycle, ServiceStep
<1>2. ThreadInv'
  BY DEF Start, BridgeTypeOK, ThreadInv, Serving, Closing
<1>3. active # s
  BY DEF Start, ServiceInv, BridgeTypeOK
<1>4. active \in Sessions => at[active] \notin Serving
  BY DEF Start, CanStart, ServiceInv
<1>5. fresh = None
  BY DEF Start, ServiceInv
<1>6. at' = [at EXCEPT ![s] = "loop"] /\ lifecycle' = [lifecycle EXCEPT ![s] = "listening"]
  BY DEF Start
<1>7. ServiceInv'
  <2>1. CASE active = None
    BY <1>5, <1>6, <2>1 DEF Start, BridgeTypeOK, ServiceInv, Serving
  <2>2. CASE active # None
    BY <1>3, <1>4, <1>5, <1>6, <2>2 DEF Start, BridgeTypeOK, ServiceInv, Serving
  <2> QED BY <2>1, <2>2
<1> QED BY <1>1, <1>2, <1>7

\* The thread of a handle that is dropped has been joined.
LEMMA FinishStartKeeps ==
  ASSUME BridgeInv, FinishStart
  PROVE  BridgeInv'
<1> USE NoneAssumption DEF BridgeInv
<1>1. BridgeTypeOK'
  BY DEF FinishStart, BridgeTypeOK, ServiceStep
<1>2. ThreadInv'
  BY DEF FinishStart, ThreadInv
<1>3. ServiceInv'
  BY DEF FinishStart, Joined, BridgeTypeOK, ServiceInv, Serving
<1> QED BY <1>1, <1>2, <1>3

\* The steps of stop; what they store are the bridge's own fields.
LEMMA StopKeeps ==
  ASSUME BridgeInv, BeginStop \/ CheckPrior \/ StoreStop \/ Join \/ DropHandle
  PROVE  BridgeInv'
<1> USE NoneAssumption DEF BridgeInv
<1>1. BridgeTypeOK'
  BY DEF BeginStop, CheckPrior, StoreStop, Join, DropHandle, BridgeTypeOK, ServiceStep,
         Lifecycle
<1>2. ThreadInv'
  BY DEF BeginStop, CheckPrior, StoreStop, Join, DropHandle, ThreadInv
<1>3. CASE BeginStop
  BY <1>1, <1>2, <1>3 DEF BeginStop, BridgeTypeOK, ServiceInv
<1>4. CASE CheckPrior
  BY <1>1, <1>2, <1>4 DEF CheckPrior, BridgeTypeOK, ServiceInv
<1>5. CASE StoreStop
  BY <1>1, <1>2, <1>5 DEF StoreStop, BridgeTypeOK, ServiceInv
<1>6. CASE Join
  BY <1>1, <1>2, <1>6 DEF Join, BridgeTypeOK, ServiceInv
<1>7. CASE DropHandle
  BY <1>1, <1>2, <1>7 DEF DropHandle, BridgeTypeOK, ServiceInv
<1> QED BY <1>3, <1>4, <1>5, <1>6, <1>7

LEMMA EndStopKeeps ==
  ASSUME BridgeInv, EndStop
  PROVE  BridgeInv'
<1> USE NoneAssumption DEF BridgeInv
<1>1. BridgeTypeOK'
  BY DEF EndStop, BridgeTypeOK, ServiceStep
<1>2. ThreadInv'
  BY DEF EndStop, ThreadInv
<1>3. ServiceInv'
  BY DEF EndStop, Joined, BridgeTypeOK, ServiceInv, Serving
<1> QED BY <1>1, <1>2, <1>3

-----------------------------------------------------------------------------

\* Every step keeps the invariant.
LEMMA StepKeepsBridgeInv == BridgeInv /\ [BridgeNext]_bridgeVars => BridgeInv'
<1> SUFFICES ASSUME BridgeInv, BridgeNext \/ UNCHANGED bridgeVars PROVE BridgeInv'
  OBVIOUS
<1>1. CASE UNCHANGED bridgeVars
  BY <1>1 DEF bridgeVars, BridgeInv, BridgeTypeOK, ThreadInv, ServiceInv
<1>2. ASSUME NEW s \in Sessions,
             ThreadStep(s) \/ (\E ok \in BOOLEAN : HandlerReturns(s, ok)) \/ Expire(s)
      PROVE  BridgeInv'
  <2>1. BridgeTypeOK' /\ ThreadInv' /\ ThreadMoves(s)
    BY <1>2, LoopTopKeeps, ConnectionKeeps, RequestKeeps, EndKeeps DEF ThreadStep
  <2>2. ServiceInv'
    BY <2>1, ThreadMovesKeepService DEF BridgeInv
  <2> QED BY <2>1, <2>2 DEF BridgeInv
<1>3. CASE ServiceCall
  BY <1>3, StartKeeps, FinishStartKeeps, StopKeeps, EndStopKeeps DEF ServiceCall
<1> QED BY <1>1, <1>2, <1>3 DEF BridgeNext

\* The invariant holds in every behaviour.
THEOREM BridgeInvariant == BridgeSpec => []BridgeInv
BY InitBridgeInv, StepKeepsBridgeInv, PTL DEF BridgeSpec

\* Type correctness of the bridge; in particular no thread counts more than one
\* connection beyond LAN_BRIDGE_MAX_ATTEMPTS.
THEOREM BridgeTypeCorrect == BridgeSpec => []BridgeTypeOK
<1>1. BridgeInv => BridgeTypeOK
  BY DEF BridgeInv
<1> QED BY <1>1, BridgeInvariant, PTL

\* No session hands a second package to the import, whatever became of the
\* first one (lan_bridge.rs, the listener's loop).
THEOREM CapabilitiesAreOneTime == BridgeSpec => []CapabilityIsOneTime
<1>1. BridgeInv => CapabilityIsOneTime
  BY DEF BridgeInv, ThreadInv, CapabilityIsOneTime
<1> QED BY <1>1, BridgeInvariant, PTL

\* Of any number of sessions at most one takes requests, however start, stop and
\* the end of a thread race.
THEOREM BridgesExclude == BridgeSpec => []OneBridgeAtATime
<1>1. BridgeInv => OneBridgeAtATime
  BY NoneAssumption DEF BridgeInv, ServiceInv, OneBridgeAtATime, Serving
<1> QED BY <1>1, BridgeInvariant, PTL

\* When stop has returned no thread of any session is left.
THEOREM StoppedBridgesAreQuiet == BridgeSpec => []StoppedBridgeIsQuiet
<1>1. BridgeInv => StoppedBridgeIsQuiet
  BY NoneAssumption DEF BridgeInv, ServiceInv, StoppedBridgeIsQuiet
<1> QED BY <1>1, BridgeInvariant, PTL

\* A session accepts at most one connection after its deadline.
THEOREM LateRequestsAreLast == BridgeSpec => []AtMostOneLateRequest
<1>1. BridgeInv => AtMostOneLateRequest
  BY DEF BridgeInv, ThreadInv, AtMostOneLateRequest
<1> QED BY <1>1, BridgeInvariant, PTL

-----------------------------------------------------------------------------
(***************************************************************************)
(* The device link, for every set of links and boards.                     *)
(***************************************************************************)

\* Every profile that is or was linked has its secrets, its link ended accepted,
\* and the link under way has nothing to do with its keys.
PastLinks ==
  \A p \in past :
    p.linked # NoLink =>
      /\ outcome[p.linked] = "accepted"
      /\ \A k \in KeysOf(p.linked) : disk[k] = p.linked /\ memory[k] = p.linked
      /\ link # NoLink => KeysOf(p.linked) \cap KeysOf(link) = {}

\* The link under way is not over, and what it has written is in the vault.
LinkUnderWay ==
  link # NoLink =>
    /\ outcome[link] = "none"
    /\ step = "write" => \A k \in written : disk[k] = link /\ memory[k] = link

LinkInv ==
  /\ LinkTypeOK
  /\ profile \in past
  /\ PastLinks
  /\ LinkUnderWay

\* The keys of a link are keys of the vault.
LEMMA KeysAreKeys ==
  ASSUME NEW l \in Links
  PROVE  KeysOf(l) \subseteq Key
BY LinksAssumption DEF KeysOf, Key, BoardKeys

\* LinkInv is what LinkedProfileHasItsSecrets needs.
LEMMA LinkInvImpliesSecrets == LinkInv => LinkedProfileHasItsSecrets
BY DEF LinkInv, PastLinks, LinkedProfileHasItsSecrets, HasItsSecrets

\* The first process finds an empty vault and a profile that is not linked.
LEMMA InitLinkInv == LinkInit => LinkInv
<1> SUFFICES ASSUME LinkInit PROVE LinkInv
  OBVIOUS
<1>1. profile.linked = NoLink /\ profile \in Profile
  BY DEF LinkInit, Profile
<1>2. LinkTypeOK
  BY <1>1 DEF LinkInit, LinkTypeOK, Vault
<1>3. profile \in past /\ PastLinks /\ LinkUnderWay
  BY <1>1 DEF LinkInit, PastLinks, LinkUnderWay
<1> QED BY <1>2, <1>3 DEF LinkInv

\* A new link excludes the keys that are taken.
LEMMA BeginKeeps ==
  ASSUME LinkInv, NEW l \in Links, Begin(l)
  PROVE  LinkInv'
<1>1. LinkTypeOK'
  BY DEF Begin, LinkInv, LinkTypeOK
<1>2. PastLinks'
  <2> SUFFICES ASSUME NEW p \in past, p.linked # NoLink
               PROVE  /\ outcome[p.linked] = "accepted"
                      /\ \A k \in KeysOf(p.linked) :
                           disk[k] = p.linked /\ memory[k] = p.linked
                      /\ KeysOf(p.linked) \cap KeysOf(l) = {}
    BY NoLinkAssumption DEF Begin, PastLinks
  <2>1. /\ outcome[p.linked] = "accepted"
        /\ \A k \in KeysOf(p.linked) : disk[k] = p.linked /\ memory[k] = p.linked
    BY DEF LinkInv, PastLinks
  <2>2. \A k \in KeysOf(l) : memory[k] = NoLink
    BY DEF Begin, Free
  <2> QED BY <2>1, <2>2
<1>3. LinkUnderWay' /\ (profile \in past)'
  BY NoLinkAssumption DEF Begin, LinkInv, LinkTypeOK, LinkUnderWay
<1> QED BY <1>1, <1>2, <1>3 DEF LinkInv

\* A link that is turned away was not accepted before.
LEMMA RefuseKeeps ==
  ASSUME LinkInv, NEW l \in Links, Reject(l) \/ Refuse(l)
  PROVE  LinkInv'
<1>1. LinkTypeOK'
  BY DEF Reject, Refuse, LinkInv, LinkTypeOK
<1>2. PastLinks'
  BY DEF Reject, Refuse, LinkInv, LinkTypeOK, PastLinks, Profile
<1>3. LinkUnderWay' /\ (profile \in past)'
  BY NoLinkAssumption DEF Reject, Refuse, LinkInv, LinkUnderWay
<1> QED BY <1>1, <1>2, <1>3 DEF LinkInv

\* A write goes to a key of no other link, and reaches the file too.
LEMMA PutSecretKeeps ==
  ASSUME LinkInv, NEW k \in Key, PutSecret(k)
  PROVE  LinkInv'
<1>1. link \in Links /\ link # NoLink /\ k \in KeysOf(link) /\ step = "write"
  BY NoLinkAssumption DEF PutSecret, IsNextToWrite
<1>2. /\ memory' = [memory EXCEPT ![k] = link] /\ disk' = memory'
      /\ written' = written \cup {k}
      /\ UNCHANGED <<profile, link, step, outcome, past, blemish>>
  BY DEF PutSecret, Persisted
<1>3. memory \in Vault /\ memory' \in Vault
  BY <1>1, <1>2 DEF LinkInv, LinkTypeOK, Vault
<1>4. LinkTypeOK'
  BY <1>1, <1>2, <1>3 DEF LinkInv, LinkTypeOK
<1>5. PastLinks'
  <2> SUFFICES ASSUME NEW p \in past, p.linked # NoLink, NEW j \in KeysOf(p.linked)
               PROVE  memory'[j] = p.linked
    BY <1>1, <1>2 DEF LinkInv, PastLinks
  <2>1. j # k /\ memory[j] = p.linked
    BY <1>1 DEF LinkInv, PastLinks
  <2>2. j \in Key
    BY KeysAreKeys DEF LinkInv, LinkTypeOK, Profile
  <2> QED BY <1>2, <1>3, <2>1, <2>2 DEF Vault
<1>6. LinkUnderWay'
  <2>1. \A j \in written' : j \in Key /\ memory'[j] = link
    BY <1>1, <1>2, <1>3, KeysAreKeys DEF LinkInv, LinkTypeOK, LinkUnderWay, Vault
  <2> QED BY <1>1, <1>2, <2>1 DEF LinkInv, LinkUnderWay
<1> QED BY <1>2, <1>4, <1>5, <1>6 DEF LinkInv

\* What the file holds after a write or a deletion that failed.
LEMMA FailedWriteSparesPast ==
  ASSUME LinkInv, link \in Links, NEW k \in KeysOf(link), NEW v \in Links \cup {NoLink},
         NotPersisted([memory EXCEPT ![k] = v])
  PROVE  /\ disk' \in Vault /\ memory' \in Vault
         /\ \A p \in past : p.linked # NoLink =>
              \A j \in KeysOf(p.linked) : disk'[j] = p.linked /\ memory'[j] = p.linked
<1>1. memory \in Vault /\ disk \in Vault /\ link # NoLink /\ k \in Key
  BY KeysAreKeys, NoLinkAssumption DEF LinkInv, LinkTypeOK
<1>2. [memory EXCEPT ![k] = v] \in Vault
  BY <1>1 DEF Vault
<1>3. ASSUME NEW p \in past, p.linked # NoLink, NEW j \in KeysOf(p.linked)
      PROVE  /\ disk[j] = p.linked /\ memory[j] = p.linked
             /\ [memory EXCEPT ![k] = v][j] = p.linked
  <2>1. j # k /\ disk[j] = p.linked /\ memory[j] = p.linked
    BY <1>1, <1>3 DEF LinkInv, PastLinks
  <2>2. j \in Key
    BY <1>3, KeysAreKeys DEF LinkInv, LinkTypeOK, Profile
  <2> QED BY <1>1, <2>1, <2>2 DEF Vault
<1> QED BY <1>1, <1>2, <1>3 DEF NotPersisted

\* A failed write ends the link or starts its clean-up.
LEMMA FailPutKeeps ==
  ASSUME LinkInv, NEW k \in Key, FailPut(k)
  PROVE  LinkInv'
<1>1. /\ link \in Links /\ link # NoLink /\ k \in KeysOf(link)
      /\ NotPersisted([memory EXCEPT ![k] = link])
      /\ memory' = memory /\ blemish' = TRUE /\ UNCHANGED <<profile, past>>
  BY NoLinkAssumption DEF FailPut, IsNextToWrite, NotPersisted
<1>2. /\ disk' \in Vault /\ memory' \in Vault
      /\ \A p \in past : p.linked # NoLink =>
           \A j \in KeysOf(p.linked) : disk'[j] = p.linked /\ memory'[j] = p.linked
  BY <1>1, FailedWriteSparesPast
<1>3. CASE k = DeviceKey(link)
  <2>1. Ended("rejected")
    BY <1>3 DEF FailPut
  <2>2. LinkTypeOK'
    BY <1>1, <1>2, <2>1 DEF LinkInv, LinkTypeOK, Ended
  <2>3. PastLinks'
    BY <1>1, <1>2, <2>1 DEF LinkInv, LinkTypeOK, LinkUnderWay, PastLinks, Ended, Profile
  <2> QED BY <1>1, <2>1, <2>2, <2>3 DEF LinkInv, LinkUnderWay, Ended
<1>4. CASE k # DeviceKey(link)
  <2>1. step' = "clean" /\ UNCHANGED <<link, written, outcome>>
    BY <1>4 DEF FailPut
  <2>2. LinkTypeOK'
    BY <1>1, <1>2, <2>1 DEF LinkInv, LinkTypeOK
  <2>3. PastLinks'
    BY <1>1, <1>2, <2>1 DEF LinkInv, PastLinks
  <2> QED BY <1>1, <2>1, <2>2, <2>3 DEF LinkInv, LinkUnderWay
<1> QED BY <1>3, <1>4

\* The plan is committed when all its secrets are in the vault.
LEMMA ApplyPlanKeeps ==
  ASSUME LinkInv, ApplyPlan
  PROVE  LinkInv'
<1>1. /\ link \in Links /\ link # NoLink /\ step = "write"
      /\ written = KeysOf(link) /\ UNCHANGED <<memory, disk, blemish>>
      /\ profile' = [profile EXCEPT !.linked = link]
      /\ past' = past \cup {profile'} /\ Ended("accepted")
  BY NoLinkAssumption DEF ApplyPlan, AllWritten
<1>2. profile' \in Profile /\ profile'.linked = link
  BY <1>1 DEF LinkInv, LinkTypeOK, Profile
<1>3. LinkTypeOK'
  BY <1>1, <1>2 DEF LinkInv, LinkTypeOK, Ended
<1>4. PastLinks'
  <2> SUFFICES ASSUME NEW p \in past', p.linked # NoLink
               PROVE  /\ outcome'[p.linked] = "accepted"
                      /\ \A k \in KeysOf(p.linked) :
                           disk[k] = p.linked /\ memory[k] = p.linked
    BY <1>1 DEF PastLinks, Ended
  <2>1. CASE p \in past
    BY <1>1, <2>1 DEF LinkInv, LinkTypeOK, PastLinks, Ended, Profile
  <2>2. CASE p = profile'
    BY <1>1, <1>2, <2>2 DEF LinkInv, LinkTypeOK, LinkUnderWay, Ended
  <2> QED BY <1>1, <2>1, <2>2
<1> QED BY <1>1, <1>3, <1>4 DEF LinkInv, LinkUnderWay, Ended

\* A deletion touches only what the link under way has written.
LEMMA DeleteSecretKeeps ==
  ASSUME LinkInv, NEW k \in Key, DeleteSecret(k)
  PROVE  LinkInv'
<1>1. /\ step = "clean" /\ k \in written /\ written' = written \ {k}
      /\ UNCHANGED <<profile, link, step, outcome, past>>
  BY DEF DeleteSecret, IsNextToDelete
<1>2. link \in Links /\ link # NoLink /\ k \in KeysOf(link)
  BY <1>1 DEF LinkInv, LinkTypeOK
<1>3. /\ disk' \in Vault /\ memory' \in Vault /\ blemish' \in BOOLEAN
      /\ \A p \in past : p.linked # NoLink =>
           \A j \in KeysOf(p.linked) : disk'[j] = p.linked /\ memory'[j] = p.linked
  <2>1. CASE NotPersisted([memory EXCEPT ![k] = NoLink])
    BY <1>2, <2>1, FailedWriteSparesPast DEF NotPersisted
  <2>2. CASE Persisted([memory EXCEPT ![k] = NoLink]) /\ UNCHANGED blemish
    <3>1. memory \in Vault /\ memory' = [memory EXCEPT ![k] = NoLink]
          /\ disk' = memory' /\ memory' \in Vault
      BY <2>2 DEF Persisted, LinkInv, LinkTypeOK, Vault
    <3>2. ASSUME NEW p \in past, p.linked # NoLink, NEW j \in KeysOf(p.linked)
          PROVE  memory'[j] = p.linked
      <4>1. j # k /\ memory[j] = p.linked
        BY <1>2, <3>2 DEF LinkInv, PastLinks
      <4>2. j \in Key
        BY <3>2, KeysAreKeys DEF LinkInv, LinkTypeOK, Profile
      <4> QED BY <3>1, <4>1, <4>2 DEF Vault
    <3> QED BY <2>2, <3>1, <3>2 DEF LinkInv, LinkTypeOK
  <2> QED BY <2>1, <2>2 DEF DeleteSecret
<1>4. LinkTypeOK'
  BY <1>1, <1>2, <1>3 DEF LinkInv, LinkTypeOK
<1>5. PastLinks'
  BY <1>1, <1>3 DEF LinkInv, PastLinks
<1> QED BY <1>1, <1>4, <1>5 DEF LinkInv, LinkUnderWay

\* The process that follows reads the file, which has the secrets as well.
LEMMA RestartKeeps ==
  ASSUME LinkInv, Restart
  PROVE  LinkInv'
<1>1. memory' = disk /\ UNCHANGED <<profile, disk, past>>
  BY DEF Restart
<1>2. CASE link = NoLink
  <2>1. UNCHANGED <<link, step, written, outcome, blemish>>
    BY <1>2 DEF Restart
  <2> QED BY <1>1, <1>2, <2>1 DEF LinkInv, LinkTypeOK, PastLinks, LinkUnderWay
<1>3. CASE link # NoLink
  <2>1. Ended("rejected") /\ blemish' = TRUE /\ link \in Links
    BY <1>3 DEF Restart, LinkInv, LinkTypeOK
  <2>2. LinkTypeOK'
    BY <1>1, <2>1 DEF LinkInv, LinkTypeOK, Ended
  <2>3. PastLinks'
    BY <1>1, <1>3, <2>1
       DEF LinkInv, LinkTypeOK, LinkUnderWay, PastLinks, Ended, Profile
  <2> QED BY <1>1, <2>1, <2>2, <2>3 DEF LinkInv, LinkUnderWay, Ended
<1> QED BY <1>2, <1>3

\* The steps that write no secret and link nothing.
LEMMA QuietStepsKeep ==
  ASSUME LinkInv,
         \/ FailApply \/ EndCleanup \/ CreateWorkspace \/ RestoreProfile
         \/ UNCHANGED linkVars
  PROVE  LinkInv'
<1>1. CASE FailApply
  BY <1>1 DEF FailApply, LinkInv, LinkTypeOK, PastLinks, LinkUnderWay
<1>2. CASE EndCleanup
  <2>1. /\ link # NoLink => link \in Links
        /\ Ended("rejected") /\ UNCHANGED <<profile, memory, disk, past, blemish>>
    BY <1>2 DEF EndCleanup, LinkInv, LinkTypeOK
  <2>2. LinkTypeOK'
    BY <2>1 DEF LinkInv, LinkTypeOK, Ended
  <2>3. PastLinks'
    BY <2>1 DEF LinkInv, LinkTypeOK, LinkUnderWay, PastLinks, Ended, Profile
  <2> QED BY <2>1, <2>2, <2>3 DEF LinkInv, LinkUnderWay, Ended
<1>3. CASE CreateWorkspace
  <2>1. /\ profile' = [profile EXCEPT !.work = TRUE] /\ past' = past \cup {profile'}
        /\ UNCHANGED <<memory, disk, link, step, written, outcome, blemish>>
    BY <1>3 DEF CreateWorkspace
  <2>2. profile' \in Profile /\ profile'.linked = profile.linked
    BY <2>1 DEF LinkInv, LinkTypeOK, Profile
  <2>3. PastLinks'
    BY <2>1, <2>2 DEF LinkInv, PastLinks
  <2> QED BY <2>1, <2>2, <2>3 DEF LinkInv, LinkTypeOK, LinkUnderWay
<1>4. CASE RestoreProfile
  BY <1>4 DEF RestoreProfile, LinkInv, LinkTypeOK, PastLinks, LinkUnderWay
<1>5. CASE UNCHANGED linkVars
  BY <1>5 DEF linkVars, LinkInv, LinkTypeOK, PastLinks, LinkUnderWay
<1> QED BY <1>1, <1>2, <1>3, <1>4, <1>5

\* Every step keeps the invariant.
LEMMA StepKeepsLinkInv == LinkInv /\ [LinkNext]_linkVars => LinkInv'
<1> SUFFICES ASSUME LinkInv, [LinkNext]_linkVars PROVE LinkInv'
  OBVIOUS
<1>1. ASSUME NEW l \in Links, Begin(l) \/ Reject(l) \/ Refuse(l)
      PROVE  LinkInv'
  BY <1>1, BeginKeeps, RefuseKeeps
<1>2. ASSUME NEW k \in Key, PutSecret(k) \/ FailPut(k) \/ DeleteSecret(k)
      PROVE  LinkInv'
  BY <1>2, PutSecretKeeps, FailPutKeeps, DeleteSecretKeeps
<1>3. CASE ApplyPlan \/ Restart
  BY <1>3, ApplyPlanKeeps, RestartKeeps
<1>4. CASE \/ FailApply \/ EndCleanup \/ CreateWorkspace \/ RestoreProfile
           \/ UNCHANGED linkVars
  BY <1>4, QuietStepsKeep
<1> QED BY <1>1, <1>2, <1>3, <1>4 DEF LinkNext, LinkStep

\* The invariant holds in every behaviour.
THEOREM LinkInvariant == LinkSpec => []LinkInv
BY InitLinkInv, StepKeepsLinkInv, PTL DEF LinkSpec

\* Type correctness for every set of links and boards: in particular a link
\* writes only secrets of its own (apply_with_secrets).
THEOREM LinkTypeCorrect == LinkSpec => []LinkTypeOK
<1>1. LinkInv => LinkTypeOK
  BY DEF LinkInv
<1> QED BY <1>1, LinkInvariant, PTL

\* A profile that is or ever was linked finds its secrets, whatever vault write
\* or transaction fails and wherever the process dies.
THEOREM LinkedProfilesHaveSecrets == LinkSpec => []LinkedProfileHasItsSecrets
BY LinkInvariant, LinkInvImpliesSecrets, PTL

\* Only an empty profile is linked, because the preflight is repeated inside the
\* transaction of apply_plan.
THEOREM OnlyEmptyProfilesAreLinked == LinkSpec => LinkedOnlyWhenEmpty
<1>1. ASSUME LinkInv, [LinkNext]_linkVars
      PROVE  [(outcome' # outcome /\ profile'.linked # profile.linked)
                => profile = EmptyProfile]_linkVars
  <2> SUFFICES ASSUME LinkNext, outcome' # outcome, profile'.linked # profile.linked
               PROVE  profile = EmptyProfile
    BY <1>1
  <2>1. CASE ApplyPlan
    BY <2>1 DEF ApplyPlan, PreflightPasses
  <2>2. CASE CreateWorkspace \/ RestoreProfile
    BY <2>2 DEF CreateWorkspace, RestoreProfile
  <2>3. CASE ~ ApplyPlan /\ ~ CreateWorkspace /\ ~ RestoreProfile
    BY <2>3 DEF LinkNext, LinkStep, Begin, Reject, Refuse, PutSecret, FailPut,
                FailApply, DeleteSecret, EndCleanup, Restart
  <2> QED BY <2>1, <2>2, <2>3
<1> QED BY <1>1, LinkInvariant, PTL DEF LinkSpec, LinkedOnlyWhenEmpty

\* As long as the vault could be written and the process lived, what a link has
\* put there is known: it is the link under way that will delete it, or a profile
\* was linked with it.
TidyVault ==
  ~ blemish =>
    /\ disk = memory
    /\ \A k \in Key : memory[k] # NoLink =>
         \/ memory[k] = link /\ k \in written
         \/ \E p \in past : p.linked = memory[k]

\* A write adds to what is written, a deletion takes the key away from both.
LEMMA VaultWritesAreTidy ==
  ASSUME LinkInv, TidyVault, NEW k \in Key, PutSecret(k) \/ FailPut(k) \/ DeleteSecret(k)
  PROVE  TidyVault'
<1> SUFFICES ASSUME ~ blemish' PROVE TidyVault'
  BY DEF TidyVault
<1>1. PICK v \in {link, NoLink} :
        /\ Persisted([memory EXCEPT ![k] = v])
        /\ written' = IF v = NoLink THEN written \ {k} ELSE written \cup {k}
  BY NoLinkAssumption
     DEF PutSecret, IsNextToWrite, FailPut, DeleteSecret, IsNextToDelete, NotPersisted
<1>2. UNCHANGED <<link, past, blemish>>
  BY DEF PutSecret, FailPut, DeleteSecret, NotPersisted
<1>3. memory \in Vault /\ link \in Links \cup {NoLink}
  BY DEF LinkInv, LinkTypeOK
<1>4. memory' = [memory EXCEPT ![k] = v] /\ disk' = memory'
  BY <1>1 DEF Persisted
<1>5. ASSUME NEW j \in Key, memory'[j] # NoLink
      PROVE  \/ memory'[j] = link /\ j \in written'
             \/ \E p \in past : p.linked = memory'[j]
  <2>1. CASE j = k
    <3>1. memory'[j] = v
      BY <1>3, <1>4, <2>1 DEF Vault
    <3> QED BY <1>1, <1>5, <2>1, <3>1
  <2>2. CASE j # k
    <3>1. memory'[j] = memory[j]
      BY <1>3, <1>4, <2>2 DEF Vault
    <3> QED BY <1>1, <1>2, <1>5, <2>2, <3>1 DEF TidyVault
  <2> QED BY <2>1, <2>2
<1> QED BY <1>2, <1>4, <1>5 DEF TidyVault

\* Every step keeps the vault tidy: a link ends with nothing written, with its
\* plan applied, or with a blemish.
LEMMA StepKeepsTidyVault ==
  ASSUME LinkInv, TidyVault, [LinkNext]_linkVars
  PROVE  TidyVault'
<1>1. ASSUME NEW k \in Key, PutSecret(k) \/ FailPut(k) \/ DeleteSecret(k)
      PROVE  TidyVault'
  BY <1>1, VaultWritesAreTidy
<1>2. ASSUME NEW l \in Links, Begin(l) \/ Reject(l) \/ Refuse(l)
      PROVE  TidyVault'
  BY <1>2 DEF Begin, Reject, Refuse, LinkInv, LinkTypeOK, TidyVault
<1>3. CASE ApplyPlan
  <2>1. /\ profile' = [profile EXCEPT !.linked = link] /\ past' = past \cup {profile'}
        /\ UNCHANGED <<memory, disk, blemish>>
    BY <1>3 DEF ApplyPlan
  <2>2. profile'.linked = link
    BY <2>1 DEF LinkInv, LinkTypeOK, Profile
  <2> QED BY <2>1, <2>2 DEF TidyVault
<1>4. CASE FailApply \/ EndCleanup
  BY <1>4 DEF FailApply, EndCleanup, Ended, TidyVault
<1>5. CASE CreateWorkspace
  BY <1>5 DEF CreateWorkspace, TidyVault
<1>6. CASE Restart \/ RestoreProfile
  BY <1>6 DEF Restart, RestoreProfile, Ended, TidyVault
<1>7. CASE UNCHANGED linkVars
  BY <1>7 DEF linkVars, TidyVault
<1> QED BY <1>1, <1>2, <1>3, <1>4, <1>5, <1>6, <1>7 DEF LinkNext, LinkStep

\* A link that was turned away, refused or rolled back has cleaned up: between
\* links the vault holds secrets of linked profiles only (apply_with_secrets,
\* cleanup_vault_writes).
THEOREM RejectedLinksLeaveNothing == LinkSpec => []RejectedLinkLeavesNothing
<1>1. LinkInit => TidyVault
  BY DEF LinkInit, TidyVault
<1>2. TidyVault => RejectedLinkLeavesNothing
  BY DEF TidyVault, RejectedLinkLeavesNothing
<1>3. LinkInv /\ TidyVault /\ [LinkNext]_linkVars => TidyVault'
  BY StepKeepsTidyVault
<1> QED BY <1>1, <1>2, <1>3, LinkInvariant, PTL DEF LinkSpec

-----------------------------------------------------------------------------
(***************************************************************************)
(* The import: what DeviceLink says of the secrets, and what a valid plan is. *)
(***************************************************************************)

(* Plans.                                                                  *)

\* A row of a valid plan has its parent in the plan.
LEMMA ParentIsInThePlan ==
  ASSUME NEW p, ReferencesExist(p),
         NEW kind, kind # "workspace", NEW id \in Ids(p, kind)
  PROVE  ParentOf(p, kind, id) \in Ids(p, ParentKind[kind])
<1> DEFINE row == CHOOSE r \in Rows(p, kind) : r.id = id
<1>1. row \in Rows(p, kind) /\ row.id = id
  BY DEF Ids
<1>2. row \in p.rows /\ row.kind = kind /\ ParentOf(p, kind, id) = row.parent
  BY <1>1 DEF ParentOf, Rows
<1> QED BY <1>2 DEF ReferencesExist

\* What a plan says of a board or of a card is about rows of the plan.
LEMMA ScopesAreInThePlan ==
  ASSUME NEW p, ReferencesExist(p)
  PROVE  /\ \A b \in Ids(p, "board") : WorkspaceOf(p, b) \in Ids(p, "workspace")
         /\ \A k \in Ids(p, "column") : ParentOf(p, "column", k) \in Ids(p, "board")
<1>1. ASSUME NEW b \in Ids(p, "board")
      PROVE  WorkspaceOf(p, b) \in Ids(p, "workspace")
  BY ParentIsInThePlan, ParentKind["board"] = "workspace" DEF WorkspaceOf, ParentKind
<1>2. ASSUME NEW k \in Ids(p, "column")
      PROVE  ParentOf(p, "column", k) \in Ids(p, "board")
  BY ParentIsInThePlan, ParentKind["column"] = "board" DEF ParentKind
<1> QED BY <1>1, <1>2

\* Cards and checklists are in a board and a workspace of the plan.
LEMMA CardsAreInThePlan ==
  ASSUME NEW p, ReferencesExist(p), ScopesAgree(p),
         NEW r \in Rows(p, "card") \cup Rows(p, "checklist")
  PROVE  /\ r.scope.workspace \in Ids(p, "workspace")
         /\ r.scope.board \in Ids(p, "board")
<1>1. ASSUME NEW c \in Rows(p, "card")
      PROVE  /\ c.scope.workspace \in Ids(p, "workspace")
             /\ c.scope.board \in Ids(p, "board")
  <2>1. c.parent \in Ids(p, "column")
    <3>1. c \in p.rows /\ c.kind = "card" /\ ParentKind["card"] = "column"
      BY DEF Rows, ParentKind
    <3> QED BY <3>1 DEF ReferencesExist
  <2>2. /\ c.scope.board = ParentOf(p, "column", c.parent)
        /\ c.scope.workspace = WorkspaceOf(p, c.scope.board)
    BY DEF ScopesAgree
  <2> QED BY <2>1, <2>2, ScopesAreInThePlan
<1>2. CASE r \in Rows(p, "checklist")
  <2>1. r \in p.rows /\ r.kind = "checklist" /\ ParentKind["checklist"] = "card"
    BY <1>2 DEF Rows, ParentKind
  <2>2. PICK c \in Rows(p, "card") : c.id = r.parent
    BY <2>1 DEF ReferencesExist, Ids
  <2>3. r.scope = c.scope
    BY <1>2, <2>2 DEF ScopesAgree
  <2> QED BY <1>1, <2>3
<1> QED BY <1>1, <1>2

\* SQLite takes every row of a plan that validate_graph has accepted.
LEMMA ValidGraphFits ==
  ASSUME NEW p, ValidGraph(p)
  PROVE  RowsFit(p)
<1>1. TableKeysFit(p)
  BY DEF ValidGraph, TableKeysFit, IdsAreUnique, TombstonesValid, CapabilitiesValid,
         ExtensionsValid
<1>2. /\ \A r \in p.rows : r.kind # "workspace" => r.parent \in Ids(p, ParentKind[r.kind])
      /\ \A b \in Ids(p, "board") : WorkspaceOf(p, b) \in Ids(p, "workspace")
  BY ScopesAreInThePlan DEF ValidGraph, ReferencesExist
<1>3. \A r \in Rows(p, "card") \cup Rows(p, "checklist") :
        r.scope.workspace \in Ids(p, "workspace") /\ r.scope.board \in Ids(p, "board")
  BY CardsAreInThePlan DEF ValidGraph
<1>4. \A t \in p.tombstones :
        t.scope.workspace \in Ids(p, "workspace") /\ t.scope.board \in Ids(p, "board")
  BY <1>2 DEF ValidGraph, TombstonesValid
<1>5. \A c \in p.capabilities :
        c.scope.workspace \in Ids(p, "workspace") /\ c.scope.board \in Ids(p, "board")
  BY <1>2 DEF ValidGraph, CapabilitiesValid
<1> QED BY <1>1, <1>2, <1>3, <1>4, <1>5 DEF RowsFit, ForeignKeysFit

-----------------------------------------------------------------------------
(* ProfileImport implements DeviceLink.                                    *)

\* Every step of an import is a step of DeviceLink or does not concern it.
LEMMA ImportStepIsLinkStep == [ImportNext]_importVars => [LinkNext]_linkVars
<1> SUFFICES ASSUME ImportNext \/ UNCHANGED importVars PROVE [LinkNext]_linkVars
  OBVIOUS
<1>1. CASE TurnBundleAway
  BY <1>1 DEF TurnBundleAway
<1>2. ASSUME NEW p \in FilePlans, ImportPortableBundle(p) PROVE [LinkNext]_linkVars
  <2>1. CASE answer' = "imported"
    BY <1>2, <2>1 DEF ImportPortableBundle, CreateWorkspace, LinkNext
  <2>2. CASE answer' # "imported"
    BY <1>2, <2>2 DEF ImportPortableBundle, linkVars
  <2> QED BY <2>1, <2>2
<1>3. ASSUME NEW offer \in AcceptedLinks, BeginLink(offer[1], offer[2])
      PROVE  [LinkNext]_linkVars
  BY <1>3 DEF AcceptedLinks, BeginLink, LinkNext
<1>4. ASSUME NEW l \in Links, RejectLink(l) \/ RefuseLink(l) PROVE [LinkNext]_linkVars
  BY <1>4 DEF RejectLink, RefuseLink, LinkNext
<1>5. CASE WriteSecret \/ ApplyLink \/ FailLink \/ CleanUp
  BY <1>5 DEF WriteSecret, ApplyLink, FailLink, CleanUp, LinkStep, LinkNext
<1>6. CASE Disturb
  BY <1>6 DEF Disturb, LinkNext
<1>7. CASE UNCHANGED importVars
  BY <1>7 DEF importVars
<1> QED BY <1>1, <1>2, <1>3, <1>4, <1>5, <1>6, <1>7 DEF ImportNext

\* What is proved of DeviceLink holds of all imports: whatever bundle, link or
\* plan arrives, ImportService does to the vault and the profile what DeviceLink
\* allows it to.
THEOREM ImportIsLinking == ImportSpec => LinkSpec
<1>1. ImportInit => LinkInit
  BY DEF ImportInit
<1> QED BY <1>1, ImportStepIsLinkStep, PTL DEF ImportSpec, LinkSpec

\* A profile that is or ever was linked finds its secrets (apply_with_secrets),
\* whatever else is imported into it.
THEOREM ImportsKeepSecrets == ImportSpec => []LinkedProfileHasItsSecrets
BY ImportIsLinking, LinkedProfilesHaveSecrets, PTL

-----------------------------------------------------------------------------
(* validate_graph and the schema.                                          *)

\* The plan that waits for its secrets has been validated before.
PlanInv ==
  /\ link # NoLink => ValidGraph(plan)
  /\ ValidGraphsFit

\* A link is accepted with a valid plan only.
LEMMA AcceptedPlansAreValid ==
  ASSUME NEW offer \in AcceptedLinks
  PROVE  ValidGraph(offer[2])
BY DEF AcceptedLinks

\* Bundles that parse are valid.
LEMMA FilePlansAreValid ==
  ASSUME NEW p \in FilePlans
  PROVE  ValidGraph(p)
BY DEF FilePlans, Parses

\* Until it ends, a link keeps its plan.
LEMMA LinkKeepsItsPlan ==
  ASSUME PlanInv, WriteSecret \/ CleanUp \/ Disturb
  PROVE  PlanInv'
<1>1. link' \in {link, NoLink}
  BY DEF WriteSecret, CleanUp, Disturb, PutSecret, FailPut, DeleteSecret, EndCleanup,
         CreateWorkspace, Restart, RestoreProfile, Ended
<1>2. /\ answer' = "none"
      /\ plan' = IF link' = NoLink THEN NoPlan ELSE plan
  BY DEF WriteSecret, CleanUp, Disturb, Answer
<1> QED BY <1>1, <1>2 DEF PlanInv, ValidGraphsFit

\* Every step keeps PlanInv.
LEMMA StepKeepsPlanInv == PlanInv /\ [ImportNext]_importVars => PlanInv'
<1> SUFFICES ASSUME PlanInv, ImportNext \/ UNCHANGED importVars PROVE PlanInv'
  OBVIOUS
<1>1. CASE TurnBundleAway
  BY <1>1 DEF TurnBundleAway, Answer, linkVars, PlanInv, ValidGraphsFit
<1>2. ASSUME NEW p \in FilePlans, ImportPortableBundle(p) PROVE PlanInv'
  <2>1. RowsFit(p)
    BY FilePlansAreValid, ValidGraphFits
  <2> QED BY <1>2, <2>1 DEF ImportPortableBundle, Answer, PlanInv, ValidGraphsFit
<1>3. ASSUME NEW offer \in AcceptedLinks, BeginLink(offer[1], offer[2]) PROVE PlanInv'
  BY <1>3, AcceptedPlansAreValid DEF BeginLink, Answer, PlanInv, ValidGraphsFit
<1>4. ASSUME NEW l \in Links, RejectLink(l) \/ RefuseLink(l) PROVE PlanInv'
  BY <1>4 DEF RejectLink, Reject, RefuseLink, Refuse, Answer, PlanInv, ValidGraphsFit
<1>5. CASE ApplyLink
  BY <1>5 DEF ApplyLink, ApplyPlan, Ended, Answer, PlanInv, ValidGraphsFit
<1>6. CASE FailLink
  <2>1. link # NoLink /\ UNCHANGED <<link, plan>>
    BY <1>6, NoLinkAssumption DEF FailLink, FailApply, AllWritten
  <2>2. RowsFit(plan)
    BY <2>1, ValidGraphFits DEF PlanInv
  <2> QED BY <1>6, <2>1, <2>2 DEF FailLink, Answer, PlanInv, ValidGraphsFit
<1>7. CASE WriteSecret \/ CleanUp \/ Disturb
  BY <1>7, LinkKeepsItsPlan
<1>8. CASE UNCHANGED importVars
  BY <1>8 DEF importVars, linkVars, PlanInv, ValidGraphsFit
<1> QED BY <1>1, <1>2, <1>3, <1>4, <1>5, <1>6, <1>7, <1>8 DEF ImportNext

\* No plan that validate_graph accepts is refused by a key or a reference of the
\* schema, after the secrets of its link have been written already.
THEOREM ValidatedPlansFit == ImportSpec => []ValidGraphsFit
<1>1. ImportInit => PlanInv
  BY DEF ImportInit, LinkInit, PlanInv, ValidGraphsFit
<1>2. PlanInv => ValidGraphsFit
  BY DEF PlanInv
<1> QED BY <1>1, <1>2, StepKeepsPlanInv, PTL DEF ImportSpec

-----------------------------------------------------------------------------
(* What has been imported.                                                 *)

\* Where a plan comes from: a bundle of the user's, or a link, whose plan says so.
OwnPlan(p)  == p \in FilePlans
LinkPlan(p) == ValidGraph(p) /\ p.source # "portable-bundle-v1"

\* Each row of such a plan has a workspace and a board for its scope.
RowsHaveScopes(p) == \A r \in p.rows : r.scope = Scope(r.scope.workspace, r.scope.board)

\* The plan under way is a link's, and the plan applied has been validated and
\* its sections could be materialized.
ImportedInv ==
  /\ link # NoLink => LinkPlan(plan) /\ RowsHaveScopes(plan)
  /\ imported # NoPlan =>
       /\ OwnPlan(imported) \/ LinkPlan(imported)
       /\ ValidGraph(imported) /\ SectionsFit(imported) /\ RowsHaveScopes(imported)

\* The rows of a parsed bundle have scopes.
LEMMA ParsedRowsHaveScopes ==
  ASSUME NEW file
  PROVE  RowsHaveScopes(PlanOf(file))
BY DEF RowsHaveScopes, PlanOf, ScopeOfRow, CardScope, NoScope, Scope

\* The plan of a link is valid and names its source.
LEMMA OffersAreLinkPlans ==
  ASSUME NEW offer \in AcceptedLinks
  PROVE  LinkPlan(offer[2]) /\ RowsHaveScopes(offer[2])
<1>1. PICK l \in Links : /\ offer[2] \in DeviceLinkPlans(l) \cup WebNodePlans(l)
                         /\ ValidGraph(offer[2])
  BY DEF AcceptedLinks
<1>2. CASE offer[2] \in DeviceLinkPlans(l)
  <2>1. PICK file, grant : offer[2] = Provisioned(PlanOf(file), grant)
    BY <1>2 DEF DeviceLinkPlans
  <2>2. /\ offer[2].source = "device-link-v2"
        /\ offer[2].rows = PlanOf(file).rows
    BY <2>1 DEF Provisioned, PlanOf
  <2> QED BY <1>1, <2>2, ParsedRowsHaveScopes DEF LinkPlan, RowsHaveScopes
<1>3. CASE offer[2] \in WebNodePlans(l)
  <2>1. PICK p \in WebPlans : offer[2] = MadeOut(p, l)
    BY <1>3 DEF WebNodePlans
  <2>2. offer[2].source = "web-node-link-v1" /\ offer[2].rows = p.rows
    BY <2>1, WebPlansAssumption DEF MadeOut
  <2>3. RowsHaveScopes(p)
    BY WebPlansAssumption DEF RowsHaveScopes
  <2> QED BY <1>1, <2>2, <2>3 DEF LinkPlan, RowsHaveScopes
<1> QED BY <1>1, <1>2, <1>3

\* Every step keeps ImportedInv.
LEMMA StepKeepsImportedInv == ImportedInv /\ [ImportNext]_importVars => ImportedInv'
<1> SUFFICES ASSUME ImportedInv, ImportNext \/ UNCHANGED importVars PROVE ImportedInv'
  OBVIOUS
<1>1. CASE TurnBundleAway
  BY <1>1 DEF TurnBundleAway, linkVars, ImportedInv
<1>2. ASSUME NEW p \in FilePlans, ImportPortableBundle(p) PROVE ImportedInv'
  <2>1. ValidGraph(p) /\ RowsHaveScopes(p)
    BY FilePlansAreValid, ParsedRowsHaveScopes DEF FilePlans
  <2>2. CASE answer' = "imported"
    <3>1. SectionsFit(p) /\ imported' = p /\ UNCHANGED <<link, plan>>
      BY <1>2, <2>2 DEF ImportPortableBundle, Answer
    <3> QED BY <2>1, <3>1 DEF ImportedInv, OwnPlan
  <2>3. CASE answer' # "imported"
    BY <1>2, <2>3 DEF ImportPortableBundle, ImportedInv
  <2> QED BY <2>2, <2>3
<1>3. ASSUME NEW offer \in AcceptedLinks, BeginLink(offer[1], offer[2]) PROVE ImportedInv'
  BY <1>3, OffersAreLinkPlans DEF BeginLink, ImportedInv
<1>4. ASSUME NEW l \in Links, RejectLink(l) \/ RefuseLink(l) PROVE ImportedInv'
  BY <1>4 DEF RejectLink, Reject, RefuseLink, Refuse, ImportedInv
<1>5. CASE ApplyLink
  <2>1. link # NoLink /\ link' = NoLink /\ imported' = plan /\ SectionsFit(plan)
    BY <1>5, NoLinkAssumption DEF ApplyLink, ApplyPlan, AllWritten, Ended
  <2> QED BY <2>1 DEF ImportedInv, LinkPlan
<1>6. CASE FailLink
  BY <1>6 DEF FailLink, FailApply, ImportedInv
<1>7. CASE WriteSecret \/ CleanUp \/ Disturb
  <2>1. link' \in {link, NoLink}
    BY <1>7 DEF WriteSecret, CleanUp, Disturb, PutSecret, FailPut, DeleteSecret,
                EndCleanup, CreateWorkspace, Restart, RestoreProfile, Ended
  <2>2. /\ plan' = IF link' = NoLink THEN NoPlan ELSE plan
        /\ imported' \in {imported, NoPlan}
    BY <1>7 DEF WriteSecret, CleanUp, Disturb
  <2> QED BY <2>1, <2>2 DEF ImportedInv
<1>8. CASE UNCHANGED importVars
  BY <1>8 DEF importVars, linkVars, ImportedInv
<1> QED BY <1>1, <1>2, <1>3, <1>4, <1>5, <1>6, <1>7, <1>8 DEF ImportNext

\* ImportedInv holds in every behaviour.
LEMMA ImportedInvariant == ImportSpec => []ImportedInv
<1>1. ImportInit => ImportedInv
  BY DEF ImportInit, LinkInit, ImportedInv
<1> QED BY <1>1, StepKeepsImportedInv, PTL DEF ImportSpec

\* The boards in the database are whole, whatever bundles and links were imported:
\* validate_graph and materialize_parity_sections ask for what no foreign key
\* does.
THEOREM BoardsAreImportedWhole == ImportSpec => []ImportedBoardsAreWhole
<1>1. ASSUME NEW p, ValidGraph(p), SectionsFit(p), RowsHaveScopes(p)
      PROVE  /\ \A c \in Rows(p, "card") :
                  LET board == ParentOf(p, "column", c.parent)
                  IN  c.scope = Scope(WorkspaceOf(p, board), board)
             /\ \A l \in Rows(p, "checklist") :
                  \E c \in Rows(p, "card") : l.parent = c.id /\ l.scope = c.scope
             /\ \A i \in Rows(p, "checklist_item") : i.parent \in Ids(p, "checklist")
             /\ \A edge \in p.sections.cardLabels.entries :
                  \E l \in p.sections.labels.entries, c \in Rows(p, "card") :
                    edge.label = l.id /\ edge.card = c.id /\ l.board = c.scope.board
  <2>1. \A r \in p.rows : r.kind # "workspace" => r.parent \in Ids(p, ParentKind[r.kind])
    BY <1>1 DEF ValidGraph, ReferencesExist
  <2>2. ASSUME NEW c \in Rows(p, "card")
        PROVE  LET board == ParentOf(p, "column", c.parent)
               IN  c.scope = Scope(WorkspaceOf(p, board), board)
    <3>1. /\ c.scope.workspace = WorkspaceOf(p, c.scope.board)
          /\ c.scope.board = ParentOf(p, "column", c.parent)
      BY <1>1 DEF ValidGraph, ScopesAgree
    <3>2. c.scope = Scope(c.scope.workspace, c.scope.board)
      BY <1>1 DEF RowsHaveScopes, Rows
    <3> QED BY <3>1, <3>2
  <2>3. ASSUME NEW l \in Rows(p, "checklist")
        PROVE  \E c \in Rows(p, "card") : l.parent = c.id /\ l.scope = c.scope
    <3>1. l \in p.rows /\ l.kind = "checklist" /\ ParentKind["checklist"] = "card"
      BY DEF Rows, ParentKind
    <3>2. PICK c \in Rows(p, "card") : c.id = l.parent
      BY <2>1, <3>1 DEF Ids
    <3> QED BY <1>1, <3>2 DEF ValidGraph, ScopesAgree
  <2>4. ASSUME NEW i \in Rows(p, "checklist_item")
        PROVE  i.parent \in Ids(p, "checklist")
    <3>1. i \in p.rows /\ i.kind = "checklist_item"
          /\ ParentKind["checklist_item"] = "checklist"
      BY DEF Rows, ParentKind
    <3> QED BY <2>1, <3>1
  <2>5. ASSUME NEW edge \in p.sections.cardLabels.entries
        PROVE  \E l \in p.sections.labels.entries, c \in Rows(p, "card") :
                 edge.label = l.id /\ edge.card = c.id /\ l.board = c.scope.board
    <3>1. /\ edge.card \in Ids(p, "card")
          /\ \E l \in p.sections.labels.entries :
               l.id = edge.label /\ l.board = BoardOfCard(p, edge.card)
      BY <1>1 DEF SectionsFit
    <3>2. \E c \in Rows(p, "card") : c.id = edge.card /\ c.scope.board = BoardOfCard(p, edge.card)
      BY <3>1 DEF BoardOfCard, Ids
    <3> QED BY <3>1, <3>2
  <2> QED BY <2>2, <2>3, <2>4, <2>5
<1>2. ImportedInv => ImportedBoardsAreWhole
  BY <1>1 DEF ImportedInv, ImportedBoardsAreWhole
<1> QED BY <1>2, ImportedInvariant, PTL

-----------------------------------------------------------------------------
(* Export and import again.                                                *)

\* A parent looked up in one place is the one looked up in another, when they
\* have the same rows but for what is not looked at, and ids are unique.
SameParents(x, y) ==
  /\ \A r \in x.rows : \E q \in y.rows : q.kind = r.kind /\ q.id = r.id /\ q.parent = r.parent
  /\ \A q \in y.rows : \E r \in x.rows : q.kind = r.kind /\ q.id = r.id /\ q.parent = r.parent

LEMMA SameParentsAreFound ==
  ASSUME NEW x, NEW p, SameParents(x, p), IdsAreUnique(p)
  PROVE  \A kind : /\ Ids(x, kind) = Ids(p, kind)
                   /\ \A id : ParentOf(x, kind, id) = ParentOf(p, kind, id)
<1> SUFFICES ASSUME NEW kind
             PROVE  /\ Ids(x, kind) = Ids(p, kind)
                    /\ \A id : ParentOf(x, kind, id) = ParentOf(p, kind, id)
  OBVIOUS
<1>1. Ids(x, kind) = Ids(p, kind)
  BY DEF SameParents, Ids, Rows
<1>2. ASSUME NEW id \in Ids(p, kind)
      PROVE  ParentOf(x, kind, id) = ParentOf(p, kind, id)
  <2> DEFINE a == CHOOSE r \in Rows(x, kind) : r.id = id
             b == CHOOSE r \in Rows(p, kind) : r.id = id
  <2>1. a \in Rows(x, kind) /\ a.id = id
    BY <1>1, <1>2 DEF Ids
  <2>2. b \in Rows(p, kind) /\ b.id = id
    BY <1>2 DEF Ids
  <2>3. PICK q \in p.rows : q.kind = a.kind /\ q.id = a.id /\ q.parent = a.parent
    BY <2>1 DEF SameParents, Rows
  <2>4. q = b
    BY <2>1, <2>2, <2>3 DEF IdsAreUnique, Rows
  <2>5. a.parent = b.parent
    BY <2>3, <2>4
  <2> QED BY <1>1, <2>5 DEF ParentOf
<1>3. ASSUME NEW id, id \notin Ids(p, kind)
      PROVE  ParentOf(x, kind, id) = ParentOf(p, kind, id)
  BY <1>1, <1>3 DEF ParentOf
<1> QED BY <1>1, <1>2, <1>3

\* A bundle, its plan and the bundle that is written from the plan have the same
\* rows.
LEMMA FilesAndPlansHaveSameRows ==
  ASSUME NEW x
  PROVE  SameParents(x, PlanOf(x)) /\ SameParents(FileOf(x), x)
<1>1. \A r \in x.rows : \E q \in PlanOf(x).rows :
        q.kind = r.kind /\ q.id = r.id /\ q.parent = r.parent
  <2> SUFFICES ASSUME NEW r \in x.rows
               PROVE  \E q \in PlanOf(x).rows :
                        q.kind = r.kind /\ q.id = r.id /\ q.parent = r.parent
    OBVIOUS
  <2>1. [kind |-> r.kind, id |-> r.id, parent |-> r.parent, scope |-> ScopeOfRow(x, r),
         archived |-> r.kind = "card" /\ r.archived] \in PlanOf(x).rows
    BY DEF PlanOf
  <2> QED BY <2>1
<1>2. \A q \in PlanOf(x).rows : \E r \in x.rows :
        q.kind = r.kind /\ q.id = r.id /\ q.parent = r.parent
  BY DEF PlanOf
<1>3. \A r \in FileOf(x).rows : \E q \in x.rows :
        q.kind = r.kind /\ q.id = r.id /\ q.parent = r.parent
  BY DEF FileOf
<1>4. \A q \in x.rows : \E r \in FileOf(x).rows :
        q.kind = r.kind /\ q.id = r.id /\ q.parent = r.parent
  <2> SUFFICES ASSUME NEW q \in x.rows
               PROVE  \E r \in FileOf(x).rows :
                        q.kind = r.kind /\ q.id = r.id /\ q.parent = r.parent
    OBVIOUS
  <2>1. [kind |-> q.kind, id |-> q.id, parent |-> q.parent,
         archived |-> HasArchivedAt(q) /\ "archivedAt" \in ExtensionKeys(x, q),
         keys |-> IF HasArchivedAt(q) THEN ExtensionKeys(x, q) \ {"archivedAt"}
                                      ELSE ExtensionKeys(x, q)] \in FileOf(x).rows
    BY DEF FileOf
  <2> QED BY <2>1
<1> QED BY <1>1, <1>2, <1>3, <1>4 DEF SameParents

\* The scope of a row depends on the parents only.
LEMMA SameScopes ==
  ASSUME NEW x, NEW y, NEW r, NEW q, q.kind = r.kind, q.id = r.id, q.parent = r.parent,
         \A kind : \A id : ParentOf(x, kind, id) = ParentOf(y, kind, id)
  PROVE  ScopeOfRow(x, r) = ScopeOfRow(y, q)
<1>1. \A id : CardScope(x, id) = CardScope(y, id)
  BY DEF CardScope, WorkspaceOf
<1> QED BY <1>1 DEF ScopeOfRow

\* What a bundle of the user's becomes: which extension belongs to a row, and
\* that an archived card keeps its time there.
LEMMA ExtensionsOfRows ==
  ASSUME NEW file \in Files, Parses(file)
  PROVE  LET p == PlanOf(file)
         IN  /\ \A e \in p.extensions, r \in p.rows :
                  (e.kind = r.kind /\ e.id = r.id) => ExtensionKeys(p, r) = e.keys
             /\ \A r \in p.rows :
                  ExtensionKeys(p, r) # {} =>
                    r.kind # "workspace"
                    /\ [kind |-> r.kind, id |-> r.id, keys |-> ExtensionKeys(p, r)]
                         \in p.extensions
             /\ \A c \in Rows(p, "card") :
                  c.archived <=> "archivedAt" \in ExtensionKeys(p, c)
<1> DEFINE p == PlanOf(file)
<1>1. ValidGraph(p)
  BY DEF Parses
<1>2. p.extensions = Extensions(file)
  BY DEF PlanOf
<1>3. ASSUME NEW e \in p.extensions
      PROVE  /\ e.keys # {} /\ e.kind # "workspace"
             /\ e = [kind |-> e.kind, id |-> e.id, keys |-> e.keys]
             /\ \E f \in file.rows : f.kind = e.kind /\ f.id = e.id /\ KeysOfRow(f) = e.keys
  BY <1>2, <1>3 DEF Extensions
<1>4. ASSUME NEW e \in p.extensions, NEW r \in p.rows, e.kind = r.kind, e.id = r.id
      PROVE  ExtensionKeys(p, r) = e.keys
  <2>1. {d \in p.extensions : d.kind = r.kind /\ d.id = r.id} = {e}
    BY <1>1, <1>4 DEF ValidGraph, ExtensionsValid
  <2>2. {d.keys : d \in {d \in p.extensions : d.kind = r.kind /\ d.id = r.id}} = {e.keys}
    BY <2>1
  <2> QED BY <2>2 DEF ExtensionKeys
<1>5. ASSUME NEW r \in p.rows, ExtensionKeys(p, r) # {}
      PROVE  /\ r.kind # "workspace"
             /\ [kind |-> r.kind, id |-> r.id, keys |-> ExtensionKeys(p, r)] \in p.extensions
  <2>1. PICK e \in p.extensions : e.kind = r.kind /\ e.id = r.id
    BY <1>5 DEF ExtensionKeys
  <2>2. ExtensionKeys(p, r) = e.keys
    BY <1>4, <2>1
  <2> QED BY <1>3, <2>1, <2>2
<1>6. ASSUME NEW c \in Rows(p, "card")
      PROVE  c.archived <=> "archivedAt" \in ExtensionKeys(p, c)
  <2>1. c \in p.rows /\ c.kind = "card"
    BY DEF Rows
  <2>2. PICK f \in file.rows :
          c = [kind |-> f.kind, id |-> f.id, parent |-> f.parent,
               scope |-> ScopeOfRow(file, f), archived |-> f.kind = "card" /\ f.archived]
    BY <2>1 DEF PlanOf
  <2>3. /\ f.kind = "card" /\ f.id = c.id /\ f.archived \in BOOLEAN
        /\ "archivedAt" \notin f.keys /\ (c.archived <=> f.archived)
    BY <2>1, <2>2, FilesAssumption
  <2>4. ASSUME c.archived PROVE "archivedAt" \in ExtensionKeys(p, c)
    <3>1. "archivedAt" \in KeysOfRow(f)
      BY <2>3, <2>4 DEF KeysOfRow
    <3>2. [kind |-> f.kind, id |-> f.id, keys |-> KeysOfRow(f)] \in p.extensions
      BY <1>2, <2>3, <3>1 DEF Extensions
    <3>3. ExtensionKeys(p, c) = KeysOfRow(f)
      BY <1>4, <2>1, <2>3, <3>2
    <3> QED BY <3>1, <3>3
  <2>5. ASSUME "archivedAt" \in ExtensionKeys(p, c) PROVE c.archived
    <3>1. PICK e \in p.extensions : /\ e.kind = "card" /\ e.id = c.id
                                    /\ "archivedAt" \in e.keys
      BY <2>1, <2>5 DEF ExtensionKeys
    <3>2. PICK g \in file.rows : g.kind = "card" /\ g.id = c.id /\ KeysOfRow(g) = e.keys
      BY <1>3, <3>1
    <3>3. g.archived /\ g.archived \in BOOLEAN
      BY <3>1, <3>2, FilesAssumption DEF KeysOfRow
    <3>4. PICK d \in p.rows : d.id = g.id /\ (d.archived <=> g.archived)
      <4>1. [kind |-> g.kind, id |-> g.id, parent |-> g.parent,
             scope |-> ScopeOfRow(file, g), archived |-> g.kind = "card" /\ g.archived]
              \in p.rows
        BY DEF PlanOf
      <4> QED BY <3>2, <3>3, <4>1
    <3>5. d = c
      BY <1>1, <2>1, <3>2, <3>4 DEF ValidGraph, IdsAreUnique
    <3> QED BY <3>3, <3>4, <3>5
  <2> QED BY <2>4, <2>5
<1> QED BY <1>4, <1>5, <1>6

\* A bundle that was exported is parsed to the plan it was written from.
LEMMA ExportedPlansParse ==
  ASSUME NEW file \in Files, Parses(file)
  PROVE  LET p == PlanOf(file)
         IN  /\ Exportable(p)
             /\ Parses(FileOf(p))
             /\ PlanOf(FileOf(p)) = p
<1> DEFINE p == PlanOf(file)
           copy == FileOf(p)
<1>1. /\ ValidGraph(p) /\ OneBoard(file)
      /\ \A c \in Rows(file, "card") : c.parent \in Ids(file, "column")
      /\ \A l \in Rows(file, "checklist") : l.parent \in Ids(file, "card")
  BY DEF Parses
<1>2. /\ p.source = "portable-bundle-v1" /\ p.receipt = file.scope /\ p.principal = NoId
      /\ p.tombstones = {} /\ p.capabilities = {} /\ p.sections = file.sections
  BY DEF PlanOf
<1>3. /\ copy.manifest = file.scope /\ copy.scope = file.scope /\ ~ copy.localMetadata
      /\ copy.sections = file.sections
  BY <1>2 DEF FileOf
<1>4. SameParents(file, p) /\ SameParents(copy, p)
  BY FilesAndPlansHaveSameRows
<1>5. \A kind : /\ Ids(copy, kind) = Ids(file, kind)
                /\ \A id : ParentOf(copy, kind, id) = ParentOf(file, kind, id)
  BY <1>1, <1>4, SameParentsAreFound DEF ValidGraph
<1>6. Exportable(p)
  <2>1. file.scope.workspace # NoId /\ file.scope.board # NoId
    BY <1>1, FilesAssumption DEF OneBoard, Ids, Rows
  <2> QED BY <1>1, <1>2, <2>1, ExtensionsOfRows DEF Exportable
<1>7. copy.rows = {[kind |-> r.kind, id |-> r.id, parent |-> r.parent,
                    archived |-> HasArchivedAt(r) /\ "archivedAt" \in ExtensionKeys(p, r),
                    keys |-> IF HasArchivedAt(r) THEN ExtensionKeys(p, r) \ {"archivedAt"}
                                                 ELSE ExtensionKeys(p, r)] : r \in p.rows}
  BY DEF FileOf
<1> DEFINE Copied(r) ==
             [kind |-> r.kind, id |-> r.id, parent |-> r.parent,
              archived |-> HasArchivedAt(r) /\ "archivedAt" \in ExtensionKeys(p, r),
              keys |-> IF HasArchivedAt(r) THEN ExtensionKeys(p, r) \ {"archivedAt"}
                                           ELSE ExtensionKeys(p, r)]
           Planned(q) ==
             [kind |-> q.kind, id |-> q.id, parent |-> q.parent,
              scope |-> ScopeOfRow(copy, q), archived |-> q.kind = "card" /\ q.archived]
<1>8. ASSUME NEW r \in p.rows
      PROVE  /\ Planned(Copied(r)) = r
             /\ KeysOfRow(Copied(r)) = ExtensionKeys(p, r)
  <2>1. PICK f \in file.rows :
          r = [kind |-> f.kind, id |-> f.id, parent |-> f.parent,
               scope |-> ScopeOfRow(file, f), archived |-> f.kind = "card" /\ f.archived]
    BY DEF PlanOf
  <2>2. ScopeOfRow(copy, Copied(r)) = ScopeOfRow(file, f)
    <3>1. /\ Copied(r).kind = f.kind /\ Copied(r).id = f.id
          /\ Copied(r).parent = f.parent
      BY <2>1
    <3> HIDE DEF Copied, copy
    <3> QED BY <1>5, <3>1, SameScopes
  <2>3. (Copied(r).kind = "card" /\ Copied(r).archived) = (f.kind = "card" /\ f.archived)
    <3>1. CASE f.kind = "card"
      <4>1. r \in Rows(p, "card") /\ r.kind = "card" /\ f.archived \in BOOLEAN
        BY <2>1, <3>1, FilesAssumption DEF Rows
      <4>2. r.archived <=> "archivedAt" \in ExtensionKeys(p, r)
        BY <4>1, ExtensionsOfRows
      <4> QED BY <2>1, <3>1, <4>1, <4>2 DEF HasArchivedAt
    <3>2. CASE f.kind # "card"
      BY <2>1, <3>2
    <3> QED BY <3>1, <3>2
  <2>4. Planned(Copied(r)) = r
    BY <2>1, <2>2, <2>3
  <2>5. KeysOfRow(Copied(r)) = ExtensionKeys(p, r)
    BY DEF KeysOfRow, HasArchivedAt
  <2> QED BY <2>4, <2>5
<1>9. PlanOf(copy).rows = p.rows
  <2>1. PlanOf(copy).rows = {Planned(q) : q \in copy.rows}
    BY DEF PlanOf
  <2>2. copy.rows = {Copied(r) : r \in p.rows}
    BY <1>7
  <2> HIDE DEF Planned, Copied, p, copy
  <2> QED BY <1>8, <2>1, <2>2
<1>10. Extensions(copy) = p.extensions
  <2>1. copy.rows = {Copied(r) : r \in p.rows}
    BY <1>7
  <2>2. \A r \in p.rows : Copied(r).kind = r.kind /\ Copied(r).id = r.id
    OBVIOUS
  <2>3. ASSUME NEW e \in Extensions(copy)
        PROVE  e \in p.extensions
    <3>1. PICK q \in copy.rows : /\ q.kind # "workspace" /\ KeysOfRow(q) # {}
                                 /\ e = [kind |-> q.kind, id |-> q.id, keys |-> KeysOfRow(q)]
      BY DEF Extensions
    <3>2. PICK r \in p.rows : q = Copied(r)
      BY <2>1
    <3>3. e = [kind |-> r.kind, id |-> r.id, keys |-> ExtensionKeys(p, r)]
      BY <1>8, <2>2, <3>1, <3>2
    <3> QED BY <1>8, <3>1, <3>2, <3>3, ExtensionsOfRows
  <2>4. ASSUME NEW e \in p.extensions
        PROVE  e \in Extensions(copy)
    <3>1. /\ e.keys # {} /\ e.kind # "workspace" /\ e.id \in Ids(p, e.kind)
          /\ e = [kind |-> e.kind, id |-> e.id, keys |-> e.keys]
      <4>1. e \in Extensions(file)
        BY DEF PlanOf
      <4>2. e.keys # {} /\ e = [kind |-> e.kind, id |-> e.id, keys |-> e.keys]
        BY <4>1 DEF Extensions
      <4> QED BY <1>1, <4>2 DEF ValidGraph, ExtensionsValid
    <3>2. PICK r \in p.rows : r.kind = e.kind /\ r.id = e.id
      BY <3>1 DEF Ids, Rows
    <3>3. ExtensionKeys(p, r) = e.keys
      BY <3>2, ExtensionsOfRows
    <3>4. /\ Copied(r) \in copy.rows /\ KeysOfRow(Copied(r)) = e.keys
          /\ Copied(r).kind = e.kind /\ Copied(r).id = e.id
      BY <1>8, <2>1, <2>2, <3>2, <3>3
    <3> HIDE DEF Copied, p, copy
    <3> QED BY <3>1, <3>4 DEF Extensions
  <2> QED BY <2>3, <2>4
<1>11. PlanOf(copy) = p
  <2>1. PlanOf(copy) = [source |-> "portable-bundle-v1", receipt |-> file.scope,
                        principal |-> NoId, rows |-> p.rows, tombstones |-> {},
                        capabilities |-> {}, extensions |-> p.extensions,
                        sections |-> file.sections]
    BY <1>3, <1>9, <1>10 DEF PlanOf
  <2>2. p = [source |-> "portable-bundle-v1", receipt |-> file.scope,
             principal |-> NoId, rows |-> p.rows, tombstones |-> {},
             capabilities |-> {}, extensions |-> p.extensions,
             sections |-> file.sections]
    BY DEF PlanOf
  <2> QED BY <2>1, <2>2
<1>12. OneBoard(copy)
  <2>1. \A kind, id : Ids(copy, kind) = {id} => Cardinality(Rows(copy, kind)) = 1
    <3> SUFFICES ASSUME NEW kind, NEW id, Ids(copy, kind) = {id}
                 PROVE  Cardinality(Rows(copy, kind)) = 1
      OBVIOUS
    <3>1. PICK q \in Rows(copy, kind) : q.id = id
      BY DEF Ids
    <3>2. ASSUME NEW o \in Rows(copy, kind) PROVE o = q
      <4>1. o.id = q.id /\ o \in copy.rows /\ q \in copy.rows
        BY <3>1 DEF Ids, Rows
      <4>2. PICK r \in p.rows : o = Copied(r)
        BY <1>7, <4>1
      <4>3. PICK t \in p.rows : q = Copied(t)
        BY <1>7, <4>1
      <4>4. r = t
        BY <1>1, <4>1, <4>2, <4>3 DEF ValidGraph, IdsAreUnique
      <4> QED BY <4>2, <4>3, <4>4
    <3>3. Rows(copy, kind) = {q}
      BY <3>2
    <3> QED BY <3>3, FS_Singleton
  <2>2. ASSUME NEW k \in Rows(copy, "column") PROVE k.parent = file.scope.board
    <3>1. PICK r \in p.rows : r.kind = k.kind /\ r.parent = k.parent
      BY <1>4 DEF SameParents, Rows
    <3>2. PICK f \in file.rows : f.kind = r.kind /\ f.parent = r.parent
      BY <1>4 DEF SameParents
    <3> QED BY <1>1, <3>1, <3>2 DEF OneBoard, Rows
  <2>3. /\ Ids(copy, "workspace") = {file.scope.workspace}
        /\ Ids(copy, "board") = {file.scope.board}
        /\ WorkspaceOf(copy, file.scope.board) = file.scope.workspace
    BY <1>1, <1>5 DEF OneBoard, WorkspaceOf
  <2> HIDE DEF copy, p
  <2> QED BY <1>3, <2>1, <2>2, <2>3 DEF OneBoard
<1>13. Parses(copy)
  <2>1. ASSUME NEW c \in Rows(copy, "card") PROVE c.parent \in Ids(copy, "column")
    <3>1. PICK r \in p.rows : r.kind = c.kind /\ r.parent = c.parent
      BY <1>4 DEF SameParents, Rows
    <3>2. PICK f \in file.rows : f.kind = r.kind /\ f.parent = r.parent
      BY <1>4 DEF SameParents
    <3> QED BY <1>1, <1>5, <3>1, <3>2 DEF Rows
  <2>2. ASSUME NEW l \in Rows(copy, "checklist") PROVE l.parent \in Ids(copy, "card")
    <3>1. PICK r \in p.rows : r.kind = l.kind /\ r.parent = l.parent
      BY <1>4 DEF SameParents, Rows
    <3>2. PICK f \in file.rows : f.kind = r.kind /\ f.parent = r.parent
      BY <1>4 DEF SameParents
    <3> QED BY <1>1, <1>5, <3>1, <3>2 DEF Rows
  <2> HIDE DEF copy, p
  <2> QED BY <1>1, <1>3, <1>11, <1>12, <2>1, <2>2 DEF Parses
<1> QED BY <1>6, <1>11, <1>13

\* A bundle that was imported can be exported, and what is exported is parsed to
\* the same plan again, for all bundles that parse (parse_portable_bundle_v1,
\* serialize_portable_bundle_v1).
THEOREM ExportsReimport == ImportSpec => []ExportReimports
<1>1. ImportedInv => ExportReimports
  <2> SUFFICES ASSUME ImportedInv, imported # NoPlan, imported.source = "portable-bundle-v1"
               PROVE  /\ Exportable(imported)
                      /\ Parses(FileOf(imported))
                      /\ PlanOf(FileOf(imported)) = imported
    BY DEF ExportReimports
  <2>1. PICK file \in Files : Parses(file) /\ imported = PlanOf(file)
    BY DEF ImportedInv, OwnPlan, LinkPlan, FilePlans
  <2> QED BY <2>1, ExportedPlansParse
<1> QED BY <1>1, ImportedInvariant, PTL

-----------------------------------------------------------------------------
(***************************************************************************)
(* Pairing: the bridge and the link together, and the death of the process.*)
(***************************************************************************)

\* "completed" is said, and about to be said, of accepted links only.
CompletedIsAccepted(s) ==
  /\ (at[s] = "set-lifecycle" /\ verdict[s] = "completed") => outcome[s] = "accepted"
  /\ lifecycle[s] = "completed" => outcome[s] = "accepted"

\* What the bridge says of a session and what became of its link: only a handler
\* that has been called has a link under way, and a link that was accepted has
\* linked the profile.
HandlerInv ==
  /\ link # NoLink => at[link] = "handle"
  /\ \A s \in Sessions :
       /\ outcome[s] = "accepted" => \E p \in past : p.linked = s
       /\ CompletedIsAccepted(s)

PairInv == BridgeInv /\ LinkInv /\ HandlerInv

\* Neither a bridge nor a link at first.
LEMMA InitPairInv == PairInit => PairInv
<1> SUFFICES ASSUME PairInit PROVE PairInv
  OBVIOUS
<1>1. BridgeInv /\ LinkInv
  BY InitBridgeInv, InitLinkInv DEF PairInit
<1>2. HandlerInv
  BY PairingAssumption DEF PairInit, BridgeInit, LinkInit, HandlerInv, CompletedIsAccepted
<1> QED BY <1>1, <1>2 DEF PairInv

\* When the process dies no thread of it is left.
LEMMA CrashKeepsBridgeInv ==
  ASSUME BridgeInv, Crash
  PROVE  BridgeInv'
<1> USE NoneAssumption DEF BridgeInv
<1>1. /\ at' = [s \in Sessions |-> IF at[s] = "absent" THEN "absent" ELSE "gone"]
      /\ active' = None /\ service' = "free" /\ fresh' = None
      /\ UNCHANGED <<lifecycle, lastResult, stop, attempts, verdict, expired, late, served>>
  BY DEF Crash
<1>2. BridgeTypeOK'
  BY <1>1 DEF BridgeTypeOK, Place, ServiceStep
<1>3. ThreadInv'
  BY <1>1 DEF ThreadInv, Serving, Closing
<1>4. ServiceInv'
  BY <1>1 DEF ServiceInv, Serving
<1> QED BY <1>2, <1>3, <1>4

\* What links do under a handler, they do under DeviceLink; what threads and
\* service calls do, they do under LanBridge.
LEMMA PairStepsAreTheirSteps ==
  ASSUME PairInv, PairNext \/ UNCHANGED pairVars
  PROVE  /\ [LinkNext]_linkVars
         /\ [BridgeNext]_bridgeVars \/ Crash
<1>1. ASSUME NEW s \in Sessions, ThreadStep(s) \/ Expire(s), UNCHANGED linkVars
      PROVE  [LinkNext]_linkVars /\ [BridgeNext]_bridgeVars
  BY <1>1 DEF BridgeNext
<1>2. CASE ServiceCall /\ UNCHANGED linkVars
  BY <1>2 DEF BridgeNext
<1>3. ASSUME NEW s \in Sessions, CallImport(s)
      PROVE  [LinkNext]_linkVars /\ [BridgeNext]_bridgeVars
  BY <1>3, PairingAssumption DEF CallImport, LinkNext
<1>4. CASE LinkStep /\ UNCHANGED bridgeVars
  BY <1>4 DEF LinkNext
<1>5. ASSUME NEW s \in Sessions, ReportImport(s)
      PROVE  [LinkNext]_linkVars /\ [BridgeNext]_bridgeVars
  <2>1. (outcome[s] = "accepted") \in BOOLEAN
    OBVIOUS
  <2> QED BY <1>5, <2>1 DEF ReportImport, BridgeNext
<1>6. CASE Crash
  BY <1>6 DEF Crash, LinkNext
<1>7. CASE UNCHANGED pairVars
  BY <1>7 DEF pairVars
<1> QED BY <1>1, <1>2, <1>3, <1>4, <1>5, <1>6, <1>7 DEF PairNext

\* A step of a link: no link that was accepted is taken back, and only the plan
\* of the link under way makes one accepted.
LEMMA LinksStayAccepted ==
  ASSUME LinkInv, [LinkNext]_linkVars
  PROVE  /\ past \subseteq past'
         /\ \A l \in Links :
              /\ outcome[l] = "accepted" => outcome'[l] = "accepted"
              /\ outcome'[l] = "accepted" =>
                   outcome[l] = "accepted" \/ \E p \in past' : p.linked = l
<1> USE DEF LinkInv, LinkTypeOK, LinkUnderWay
<1>1. ASSUME NEW l \in Links, Begin(l) \/ Reject(l) \/ Refuse(l)
      PROVE  /\ past' = past
             /\ \A m \in Links : outcome'[m] = "accepted" <=> outcome[m] = "accepted"
  BY <1>1 DEF Begin, Reject, Refuse
<1>2. ASSUME NEW k \in Key, PutSecret(k) \/ FailPut(k) \/ DeleteSecret(k)
      PROVE  /\ past' = past
             /\ \A m \in Links : outcome'[m] = "accepted" <=> outcome[m] = "accepted"
  <2>1. outcome' = outcome \/ (link \in Links /\ Ended("rejected"))
    BY <1>2 DEF PutSecret, FailPut, DeleteSecret, IsNextToWrite
  <2>2. link \in Links => link # NoLink
    BY NoLinkAssumption
  <2> QED BY <1>2, <2>1, <2>2 DEF PutSecret, FailPut, DeleteSecret, Ended
<1>3. CASE ApplyPlan
  <2>1. /\ link \in Links /\ link # NoLink /\ Ended("accepted")
        /\ profile' = [profile EXCEPT !.linked = link] /\ past' = past \cup {profile'}
    BY <1>3, NoLinkAssumption DEF ApplyPlan, AllWritten
  <2>2. profile'.linked = link
    BY <2>1 DEF Profile
  <2> QED BY <2>1, <2>2 DEF Ended
<1>4. CASE FailApply \/ CreateWorkspace \/ RestoreProfile \/ UNCHANGED linkVars
  BY <1>4 DEF FailApply, CreateWorkspace, RestoreProfile, linkVars
<1>5. CASE EndCleanup \/ Restart
  <2>1. past' = past /\ (outcome' = outcome \/ Ended("rejected"))
    BY <1>5 DEF EndCleanup, Restart
  <2> QED BY <2>1, NoLinkAssumption DEF Ended
<1> QED BY <1>1, <1>2, <1>3, <1>4, <1>5 DEF LinkNext, LinkStep

\* Only a handler that was called begins a link, and it waits for its end.
LEMMA StepKeepsLinksHandled ==
  ASSUME PairInv, PairNext \/ UNCHANGED pairVars, link' # NoLink
  PROVE  at'[link'] = "handle"
<1> USE DEF PairInv, HandlerInv
<1>1. ASSUME NEW s \in Sessions, ThreadStep(s) \/ Expire(s), UNCHANGED linkVars
      PROVE  at'[link'] = "handle"
  <2>1. link \in Sessions /\ at[link] = "handle" /\ link' = link
    BY <1>1, PairingAssumption DEF linkVars, LinkInv, LinkTypeOK
  <2>2. at' = at \/ (at[s] # "handle" /\ \A t \in Sessions \ {s} : at'[t] = at[t])
    BY <1>1, LoopTopKeeps, ConnectionKeeps, RequestKeeps, EndKeeps
       DEF ThreadStep, ThreadMoves, LoopTop, NoConnection, ListenerFails, Accept,
           RejectRequest, CallHandler, SetTerminal, Expire
  <2> QED BY <2>1, <2>2
<1>2. CASE ServiceCall /\ UNCHANGED linkVars
  <2>1. link \in Sessions /\ at[link] = "handle" /\ link' = link
    BY <1>2, PairingAssumption DEF linkVars, LinkInv, LinkTypeOK
  <2>2. at' = at \/ \E s \in Sessions : at[s] = "absent" /\ at' = [at EXCEPT ![s] = "loop"]
    BY <1>2 DEF ServiceCall, Start, FinishStart, BeginStop, CheckPrior, StoreStop, Join,
                DropHandle, EndStop
  <2> QED BY <2>1, <2>2 DEF BridgeInv, BridgeTypeOK
<1>3. ASSUME NEW s \in Sessions, CallImport(s)
      PROVE  at'[link'] = "handle"
  BY <1>3 DEF CallImport, Begin, Reject, Refuse, bridgeVars
<1>4. CASE LinkStep /\ UNCHANGED bridgeVars
  <2>1. link' = link
    BY <1>4 DEF LinkStep, PutSecret, FailPut, ApplyPlan, FailApply, DeleteSecret,
                EndCleanup, Ended
  <2> QED BY <1>4, <2>1 DEF bridgeVars
<1>5. ASSUME NEW s \in Sessions, ReportImport(s)
      PROVE  at'[link'] = "handle"
  <2>1. link \in Sessions /\ at[link] = "handle" /\ link' = link /\ link # s
    BY <1>5, PairingAssumption DEF ReportImport, linkVars, LinkInv, LinkTypeOK
  <2> QED BY <1>5, <2>1 DEF ReportImport, HandlerReturns, Terminate, BridgeInv, BridgeTypeOK
<1>6. CASE Crash
  BY <1>6 DEF Crash, Restart, Ended
<1>7. CASE UNCHANGED pairVars
  BY <1>7 DEF pairVars, linkVars, bridgeVars
<1> QED BY <1>1, <1>2, <1>3, <1>4, <1>5, <1>6, <1>7 DEF PairNext

\* A thread decides that it is completed only on the word of the import.
LEMMA ThreadsKeepVerdicts ==
  ASSUME PairInv, NEW s \in Sessions, UNCHANGED linkVars,
         NEW t \in Sessions, ThreadStep(t) \/ Expire(t) \/ ReportImport(t)
  PROVE  CompletedIsAccepted(s)'
<1> USE DEF PairInv, HandlerInv, BridgeInv, BridgeTypeOK, CompletedIsAccepted, linkVars
<1>1. CompletedIsAccepted(s)
  OBVIOUS
<1>2. CASE LoopTop(t) \/ NoConnection(t) \/ ListenerFails(t)
  BY <1>1, <1>2 DEF LoopTop, NoConnection, ListenerFails, Terminate
<1>3. CASE Accept(t) \/ RejectRequest(t) \/ CallHandler(t)
  BY <1>1, <1>3 DEF Accept, RejectRequest, CallHandler, Terminate
<1>4. CASE SetTerminal(t)
  BY <1>1, <1>4 DEF SetTerminal
<1>5. CASE Expire(t)
  BY <1>1, <1>5 DEF Expire
<1>6. CASE ReportImport(t)
  BY <1>1, <1>6 DEF ReportImport, HandlerReturns, Terminate
<1> QED BY <1>2, <1>3, <1>4, <1>5, <1>6 DEF ThreadStep

\* No call of the service says that a bridge is completed.
LEMMA CallsKeepVerdicts ==
  ASSUME PairInv, NEW s \in Sessions, UNCHANGED linkVars, ServiceCall
  PROVE  CompletedIsAccepted(s)'
<1> USE DEF PairInv, HandlerInv, BridgeInv, BridgeTypeOK, CompletedIsAccepted, linkVars
<1>1. CompletedIsAccepted(s)
  OBVIOUS
<1>2. ASSUME NEW t \in Sessions, Start(t) PROVE CompletedIsAccepted(s)'
  BY <1>1, <1>2 DEF Start
<1>3. CASE FinishStart \/ BeginStop \/ CheckPrior \/ Join \/ EndStop
  BY <1>1, <1>3 DEF FinishStart, BeginStop, CheckPrior, Join, EndStop
<1>4. CASE StoreStop
  BY <1>1, <1>4 DEF StoreStop
<1>5. CASE DropHandle
  BY <1>1, <1>5 DEF DropHandle
<1> QED BY <1>2, <1>3, <1>4, <1>5 DEF ServiceCall

\* Every step keeps what the bridge says true.
LEMMA StepKeepsVerdicts ==
  ASSUME PairInv, PairNext \/ UNCHANGED pairVars, NEW s \in Sessions
  PROVE  CompletedIsAccepted(s)'
<1>1. CompletedIsAccepted(s)
  BY DEF PairInv, HandlerInv
<1>2. outcome[s] = "accepted" => outcome'[s] = "accepted"
  BY LinksStayAccepted, PairStepsAreTheirSteps, PairingAssumption DEF PairInv
<1>3. ASSUME NEW t \in Sessions, ThreadStep(t) \/ Expire(t), UNCHANGED linkVars
      PROVE  CompletedIsAccepted(s)'
  BY <1>3, ThreadsKeepVerdicts
<1>4. ASSUME NEW t \in Sessions, ReportImport(t)
      PROVE  CompletedIsAccepted(s)'
  BY <1>4, ThreadsKeepVerdicts DEF ReportImport
<1>5. CASE ServiceCall /\ UNCHANGED linkVars
  BY <1>5, CallsKeepVerdicts
<1>6. CASE UNCHANGED bridgeVars
  BY <1>1, <1>2, <1>6 DEF bridgeVars, CompletedIsAccepted
<1>7. CASE Crash
  BY <1>1, <1>2, <1>7 DEF Crash, CompletedIsAccepted
<1> QED BY <1>3, <1>4, <1>5, <1>6, <1>7 DEF PairNext, CallImport, pairVars

\* Every step keeps the invariant.
LEMMA StepKeepsPairInv == PairInv /\ [PairNext]_pairVars => PairInv'
<1> SUFFICES ASSUME PairInv, PairNext \/ UNCHANGED pairVars PROVE PairInv'
  OBVIOUS
<1>1. [LinkNext]_linkVars /\ ([BridgeNext]_bridgeVars \/ Crash)
  BY PairStepsAreTheirSteps
<1>2. BridgeInv' /\ LinkInv'
  BY <1>1, StepKeepsBridgeInv, CrashKeepsBridgeInv, StepKeepsLinkInv DEF PairInv
<1>3. \A s \in Sessions : outcome'[s] = "accepted" => \E p \in past' : p.linked = s
  BY <1>1, LinksStayAccepted, PairingAssumption DEF PairInv, HandlerInv
<1>4. HandlerInv'
  BY <1>3, StepKeepsLinksHandled, StepKeepsVerdicts DEF HandlerInv
<1> QED BY <1>2, <1>4 DEF PairInv

\* The invariant holds in every behaviour, whatever threads, calls of the service
\* and crashes do.
THEOREM PairingInvariant == PairSpec => []PairInv
BY InitPairInv, StepKeepsPairInv, PTL DEF PairSpec

\* After stop has returned nobody is linked any more: the thread that runs the
\* import has been joined (LanBridgeService::stop, provision_handler).
THEOREM StoppedBridgesDoNotLink == PairSpec => []NoLinkWithoutBridge
<1>1. PairInv => NoLinkWithoutBridge
  <2> SUFFICES ASSUME PairInv, NoBridge, link # NoLink PROVE FALSE
    BY DEF NoLinkWithoutBridge
  <2>1. link \in Sessions /\ at[link] = "handle"
    BY PairingAssumption DEF PairInv, HandlerInv, LinkInv, LinkTypeOK
  <2>2. at[link] \in {"absent", "gone"}
    BY <2>1, NoneAssumption DEF PairInv, BridgeInv, ServiceInv, NoBridge
  <2> QED BY <2>1, <2>2
<1> QED BY <1>1, PairingInvariant, PTL

\* A bridge that says completed has linked the profile: what set_terminal stores
\* is what the import has answered (lan_bridge.rs, the listener's loop).
THEOREM CompletedBridgesHaveLinked == PairSpec => []CompletedMeansLinked
<1>1. PairInv => CompletedMeansLinked
  BY DEF PairInv, HandlerInv, CompletedIsAccepted, CompletedMeansLinked
<1> QED BY <1>1, PairingInvariant, PTL

\* What is proved of the two parts holds of the whole, also when the process dies
\* at any step of either: one bridge takes requests, and one package each, and a
\* linked profile has its secrets.
THEOREM PairingKeepsItsParts ==
  PairSpec => [](CapabilityIsOneTime /\ OneBridgeAtATime /\ LinkedProfileHasItsSecrets)
<1>1. PairInv => CapabilityIsOneTime /\ OneBridgeAtATime
  BY NoneAssumption DEF PairInv, BridgeInv, ThreadInv, ServiceInv, CapabilityIsOneTime,
                        OneBridgeAtATime, Serving
<1>2. PairInv => LinkedProfileHasItsSecrets
  BY LinkInvImpliesSecrets DEF PairInv
<1> QED BY <1>1, <1>2, PairingInvariant, PTL

=============================================================================
