----------------------------- MODULE CardLifecycle -----------------------------
(***************************************************************************)
(* What roaming promises about the life of a card, with no word of clocks, *)
(* markers, outboxes, batches or transactions: a card is created once, by  *)
(* one replica; other replicas may learn of it; any of them may delete it, *)
(* several of them concurrently; a replica that has learnt of a delete     *)
(* never shows the card again and remembers the newest delete it has       *)
(* learnt of.  A card disappears from a replica for no other reason.       *)
(***************************************************************************)
EXTENDS VersionStamps

CONSTANTS
  Cards,
  Clocks   \* the clocks a delete may carry

VARIABLES
  created,  \* the cards that some replica has created
  deletes,  \* deletes[c]: the stamps of the deletes of c, anywhere
  live,     \* live[r]: the cards replica r shows
  tomb      \* tomb[r][c]: the newest delete of c that r has learnt of

lifeVars == <<created, deletes, live, tomb>>

Init ==
  /\ created = {}
  /\ deletes = [c \in Cards |-> {}]
  /\ live = [r \in Replicas |-> {}]
  /\ tomb = [r \in Replicas |-> [c \in Cards |-> NoStamp]]

Create(r, c) ==
  /\ c \notin created
  /\ tomb[r][c] = NoStamp
  /\ created' = created \cup {c}
  /\ live' = [live EXCEPT ![r] = @ \cup {c}]
  /\ UNCHANGED <<deletes, tomb>>

\* The stamp is new, but need not be newer than what r has learnt meanwhile.
Delete(r, c, n) ==
  LET s == [clock |-> n, replica |-> r]
  IN  /\ c \in created
      /\ \A x \in Cards : s \notin deletes[x]
      /\ deletes' = [deletes EXCEPT ![c] = @ \cup {s}]
      /\ live' = [live EXCEPT ![r] = @ \ {c}]
      /\ tomb' = [tomb EXCEPT ![r][c] = IF Newer(s, @) THEN s ELSE @]
      /\ UNCHANGED created

\* What r may make of anything it hears: cards L shown and deletes T known.
MayLearn(r, L, T) ==
  /\ L \subseteq live[r] \cup created
  /\ \A c \in Cards :
       \/ T[c] = tomb[r][c]
       \/ T[c] \in deletes[c] /\ Newer(T[c], tomb[r][c])
  /\ \A c \in L : T[c] = NoStamp
  /\ \A c \in live[r] \ L : T[c] # NoStamp

Learn(r) ==
  /\ \E L \in SUBSET Cards,
        T \in [Cards -> {NoStamp} \cup UNION {deletes[c] : c \in Cards}] :
       /\ MayLearn(r, L, T)
       /\ live' = [live EXCEPT ![r] = L]
       /\ tomb' = [tomb EXCEPT ![r] = T]
  /\ UNCHANGED <<created, deletes>>

Next == \E r \in Replicas :
          \/ \E c \in Cards : Create(r, c)
          \/ \E c \in Cards, n \in Clocks : Delete(r, c, n)
          \/ Learn(r)

Spec == Init /\ [][Next]_lifeVars

=============================================================================
