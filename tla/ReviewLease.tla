----------------------------- MODULE ReviewLease -----------------------------
(***************************************************************************)
(* What the review slot of a pull request promises, apart from how: a      *)
(* lease.  Its holder can be replaced by a newcomer, until it seals the    *)
(* lease because it begins to write on the pull request; a sealed lease    *)
(* can be taken only after it has lapsed; and who lost the lease, or was   *)
(* refused it, never has it again.                                         *)
(*                                                                         *)
(* It abstracts the rules at the head of packages/review-session/src/      *)
(* run.ts.  ReviewWorkflow implements it (SlotIsALease).                   *)
(***************************************************************************)
CONSTANT NoOne

VARIABLES
  holder,  \* who holds the lease, or NoOne
  sealed,  \* the holder is writing
  lapsed,  \* the holder was not heard of for too long
  issued   \* all who ever asked for the lease

vars == <<holder, sealed, lapsed, issued>>

Init == holder = NoOne /\ sealed = FALSE /\ lapsed = FALSE /\ issued = {}

(* A newcomer gets the lease; its holder, if there is one, loses it. *)
Take ==
  /\ sealed => lapsed
  /\ holder' \notin issued \cup {NoOne} /\ issued' = issued \cup {holder'}
  /\ sealed' = FALSE /\ lapsed' = FALSE

(* A newcomer goes without. *)
Pass == issued \subseteq issued' /\ UNCHANGED <<holder, sealed, lapsed>>

Report == holder # NoOne /\ lapsed' = FALSE /\ UNCHANGED <<holder, sealed, issued>>

Lapse == holder # NoOne /\ lapsed' = TRUE /\ UNCHANGED <<holder, sealed, issued>>

Seal == holder # NoOne /\ sealed' = TRUE /\ lapsed' = FALSE /\ UNCHANGED <<holder, issued>>

(* The holder is done, has failed or is forgotten. *)
Leave == holder' = NoOne /\ sealed' = FALSE /\ lapsed' = FALSE /\ UNCHANGED issued

Next == Take \/ Pass \/ Report \/ Lapse \/ Seal \/ Leave

Spec == Init /\ [][Next]_vars
=============================================================================
