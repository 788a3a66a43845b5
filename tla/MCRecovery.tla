----------------------------- MODULE MCRecovery -----------------------------
(***************************************************************************)
(* What the control plane comes back from, in one run: a pull request's    *)
(* slot from jobs that crash, throw, return early or go unheard, and the   *)
(* store from a database that sleeps and processes that end.  The two      *)
(* share nothing; one is chosen at the start and the other stays.          *)
(***************************************************************************)
EXTENDS Persistence

CONSTANTS
  Webhooks, Commands, MaxHead, Tries, MaxHeal, MaxBeats, MaxLost, MaxCrashes, MaxRestarts, StaleAfter

VARIABLES
  part,
  prHead, slot, pc, head, runs, failures, heals, check, beats, posted, lost, crashes, restarts

W == INSTANCE ReviewWorkflow WITH MaxAttempts <- Tries

ASSUME StoreConstants == PersistenceAssumption

slotVars == <<prHead, slot, pc, head, runs, failures, heals, check, beats, posted, lost, crashes, restarts>>
allVars == <<part, slotVars, vars>>

Start == part \in {"slot", "store"} /\ W!Init /\ Init

SlotStep == part = "slot" /\ W!Next /\ UNCHANGED <<part, vars>>
StoreStep == part = "store" /\ Next /\ UNCHANGED <<part, slotVars>>

Step == SlotStep \/ StoreStep

(* A part that was not chosen stays where none of its fair actions is enabled. *)
FairStart == Start /\ [][Step]_allVars /\ W!Fairness /\ Fairness

(* The slot's property; the store's are its module's own. *)
SlotComesFree == W!SlotComesFree
=============================================================================
