---- MODULE TurnLedger ----
(***************************************************************************)
(* What a caller may rely on when it asks CRUZ something: a turn is closed *)
(* once, its exchange enters the conversation whole and at most once, and  *)
(* only while the turn is open.  A turn that was held for approval or that *)
(* failed leaves no answer behind.                                         *)
(***************************************************************************)
EXTENDS Sequences, FiniteSets, SequencesExt

CONSTANTS
  Turns, \* the requests
  Convs  \* the conversations

VARIABLES
  ledger, \* per conversation, the turns whose answer is in its history
  phase   \* what the caller of a turn has been told

ledgerVars == <<ledger, phase>>

Closed == {"answered", "held", "failed", "gone"}

Committed(t) == \E c \in Convs : t \in ToSet(ledger[c])

LedgerInit ==
  /\ ledger = [c \in Convs |-> <<>>]
  /\ phase = [t \in Turns |-> "open"]

Commit(t) ==
  /\ phase[t] = "open"
  /\ ~Committed(t)
  /\ \E c \in Convs : ledger' = [ledger EXCEPT ![c] = Append(@, t)]
  /\ UNCHANGED phase

\* The caller hears of a hold or a failure only if nothing was committed.
Close(t, how) ==
  /\ phase[t] = "open"
  /\ how \in {"held", "failed"} => ~Committed(t)
  /\ phase' = [phase EXCEPT ![t] = how]
  /\ UNCHANGED ledger

\* The process restarts: every turn that is open is gone.
CloseAll(T) ==
  /\ \A t \in T : phase[t] = "open"
  /\ phase' = [t \in Turns |-> IF t \in T THEN "gone" ELSE phase[t]]
  /\ UNCHANGED ledger

LedgerNext ==
  \/ \E t \in Turns : Commit(t) \/ \E how \in Closed : Close(t, how)
  \/ \E T \in SUBSET Turns : CloseAll(T)

LedgerSpec == LedgerInit /\ [][LedgerNext]_ledgerVars
====
