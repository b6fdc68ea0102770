----------------------------- MODULE DevicePairing -----------------------------
(***************************************************************************)
(* The LAN bridge and the device link together: the handler of a session,  *)
(* provision_handler in application/lan_bridge.rs, runs one link on the    *)
(* listener thread.  A session is a link: it makes the device key.         *)
(* A restore needs the profile's lock, which the process that runs the     *)
(* bridge holds; it and the user's own work are left to DeviceLink.        *)
(***************************************************************************)
EXTENDS LanBridge, DeviceLink

ASSUME PairingAssumption == Links = Sessions

pairVars == <<bridgeVars, linkVars>>

PairInit == BridgeInit /\ LinkInit

\* The handler calls the import.
CallImport(s) ==
  /\ at[s] = "handle"
  /\ Begin(s) \/ Reject(s) \/ Refuse(s)
  /\ UNCHANGED bridgeVars

\* Mutant of ReportImport: the result of the import is not looked at.
ReportSuccess(s) ==
  /\ link # s
  /\ HandlerReturns(s, TRUE)
  /\ UNCHANGED linkVars

\* The handler returns: the import's result, or an error of its own before it
\* has called the import.
ReportImport(s) ==
  /\ link # s
  /\ HandlerReturns(s, outcome[s] = "accepted")
  /\ UNCHANGED linkVars

NoBridge == service = "free" /\ active = None

\* The process dies, threads and all.
Crash ==
  /\ at' = [s \in Sessions |-> IF at[s] = "absent" THEN "absent" ELSE "gone"]
  /\ active' = None
  /\ service' = "free"
  /\ fresh' = None
  /\ UNCHANGED <<lifecycle, lastResult, stop, attempts, verdict, expired, late, served>>
  /\ Restart

PairNext ==
  \/ \E s \in Sessions : ThreadStep(s) /\ UNCHANGED linkVars
  \/ \E s \in Sessions : Expire(s) /\ UNCHANGED linkVars
  \/ ServiceCall /\ UNCHANGED linkVars
  \/ \E s \in Sessions : CallImport(s)
  \/ LinkStep /\ UNCHANGED bridgeVars
  \/ \E s \in Sessions : ReportImport(s)
  \/ Crash

PairSpec == PairInit /\ [][PairNext]_pairVars

-----------------------------------------------------------------------------

\* When stop has returned, or no bridge was started, no link is under way: the
\* user who has stopped a bridge is not linked afterwards.
NoLinkWithoutBridge == NoBridge => link = NoLink

\* A bridge that says completed has linked the profile.
CompletedMeansLinked ==
  \A s \in Sessions :
    lifecycle[s] = "completed" => \E p \in past : p.linked = s

=============================================================================
