---------------------------- MODULE MC_LedgerModes ---------------------------
(* One run explores two settings; mode says which and never changes.        *)
(*   races   reviewed requests, the handlers that read again under the row  *)
(*           lock, crashes                                                  *)
(*   serial  one handler at a time, from the creation of the requests, over *)
(*           every handler but the amount, pool and delete endpoints        *)
EXTENDS MC_BudgetLedger
VARIABLE mode

(* No handler that was left out is under way.                               *)
SerialSteps == Steps \ {"patch", "delete", "pool_patch"}
OthersIdle(s) == \A t \in Sessions \ {s} : At(t, "idle")

ModeInit ==
    \/ mode = "races" /\ ReviewedInit
    \/ mode = "serial" /\ Init

RacesNext == Next /\ \A s \in Sessions : sess'[s].pc \in RowLockedSteps

SerialNext ==
    \E s \in Sessions :
        /\ OthersIdle(s)
        /\ Start(s) \/ Step(s)
        /\ sess'[s].pc \in SerialSteps

ModeNext ==
    /\ UNCHANGED mode
    /\ \/ mode = "races" /\ RacesNext
       \/ mode = "serial" /\ SerialNext

ModeSpec == ModeInit /\ [][ModeNext]_<<mode, vars>>

(* LedgerBalanced of BudgetLedger, with one handler at a time.              *)
SerialBalanced == mode = "serial" => LedgerBalanced

Symmetry == Permutations(Sessions) \cup Permutations(Requests)
==============================================================================
