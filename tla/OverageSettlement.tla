--------------------------- MODULE OverageSettlement ---------------------------
(***************************************************************************)
(* The overage of UsageQuota's rows on its way to Stripe.  The monthly     *)
(* batch and the settlement sent off by a cancellation, a downgrade or the *)
(* end of a subscription run settle_overage_for_org: it loads the row with *)
(* no lock, sends a meter event for whole units and only then credits them *)
(* locally.  Stripe accepts each identifier once; the identifier names     *)
(* organisation, month and the credit the settlement started from.         *)
(***************************************************************************)
EXTENDS UsageQuota

CONSTANTS
    Settlers,  \* settlements that may run at once
    Unit       \* tokens in a unit of the meter (1 000 000)

SettleEvents == {"batch", "final", "send_error"}

ASSUME SettlementConstants ==
    /\ None \notin Settlers
    /\ Unit \in Nat \ {0}
    /\ Ops \subseteq CallEvents \cup SettleEvents

VARIABLES
    reported, \* overage_reported_tokens of each month's row
    meter,    \* the events Stripe has accepted
    settler   \* the row each settlement loaded and where it is

settleVars == <<reported, meter, settler>>
vars == <<now, plan, usage, holder, call, reported, meter, settler>>

(* An event charges the tokens from base, the credit its settlement loaded *)
(* and put into the identifier, to upto: (upto - base) / Unit units.       *)
Events == [month : Months, base : Nat, upto : Nat]
Settler == [pc : {"idle", "sending", "marking"}, month : Months, base : Nat, upto : Nat]
NoSettler == [pc |-> "idle", month |-> 1, base |-> 0, upto |-> 0]

TypeOK ==
    /\ CallTypeOK
    /\ reported \in [Months -> Nat]
    /\ meter \subseteq Events
    /\ settler \in [Settlers -> Settler]

Init ==
    /\ CallInit
    /\ reported = [m \in Months |-> 0]
    /\ meter = {}
    /\ settler = [s \in Settlers |-> NoSettler]
-----------------------------------------------------------------------------
(* The tokens of the units that delta tokens are billed as.                *)
WholeUnits(delta) == Unit * ((delta + Unit - 1) \div Unit)

(* A call that spans midnight would still commit to a month being settled; *)
(* the batch runs an hour into the next one, "so the target month is       *)
(* always closed before reporting".                                        *)
Closed(m) == m < now /\ Holding(m) = {}

(* The row is loaded; nothing unreported is a clean skip.                  *)
Settle(s, m) ==
    /\ settler[s].pc = "idle"
    /\ \/ "batch" \in Ops /\ Closed(m) /\ m = now - 1
       \/ "final" \in Ops /\ m <= now
    /\ usage[m].overage > reported[m]
    /\ settler' = [settler EXCEPT ![s] =
           [pc |-> "sending", month |-> m, base |-> reported[m],
            upto |-> reported[m] + WholeUnits(usage[m].overage - reported[m])]]
    /\ UNCHANGED <<reported, meter>>

(* Mutant: an identifier made up for every request.                        *)
SameIdentifier_Fresh(e, s) == FALSE

SameIdentifier(e, s) == e.month = settler[s].month /\ e.base = settler[s].base

Accepted(s) ==
    IF \E e \in meter : SameIdentifier(e, s) THEN meter
    ELSE meter \cup {[month |-> settler[s].month, base |-> settler[s].base,
                      upto |-> settler[s].upto]}

(* MeterEvent.create succeeds, or Stripe answers "already exists": both    *)
(* lead to _mark_reported.                                                 *)
Send(s) ==
    /\ settler[s].pc = "sending"
    /\ meter' = Accepted(s)
    /\ settler' = [settler EXCEPT ![s].pc = "marking"]
    /\ UNCHANGED reported

(* Mutant: every exception is taken for "already exists".                  *)
SendFails_Marks(s) ==
    /\ "send_error" \in Ops /\ settler[s].pc = "sending"
    /\ meter' \in {meter, Accepted(s)}
    /\ settler' = [settler EXCEPT ![s].pc = "marking"]
    /\ UNCHANGED reported

(* The request or its answer is lost: logged, and left to a settlement of  *)
(* the same month that may come later.                                     *)
SendFails(s) ==
    /\ "send_error" \in Ops /\ settler[s].pc = "sending"
    /\ meter' \in {meter, Accepted(s)}
    /\ settler' = [settler EXCEPT ![s] = NoSettler]
    /\ UNCHANGED reported

(* save(update_fields): the credit is computed from the row loaded first.  *)
Mark(s) ==
    LET me == settler[s] IN
    /\ me.pc = "marking" /\ Free(me.month)
    /\ reported' = [reported EXCEPT ![me.month] = me.upto]
    /\ settler' = [settler EXCEPT ![s] = NoSettler]
    /\ UNCHANGED meter

CrashSettler(s) ==
    /\ "crash" \in Ops /\ settler[s].pc # "idle"
    /\ settler' = [settler EXCEPT ![s] = NoSettler]
    /\ UNCHANGED <<reported, meter>>

SettleNext ==
    \E s \in Settlers :
        \/ \E m \in Months : Settle(s, m)
        \/ Send(s) \/ SendFails(s) \/ Mark(s) \/ CrashSettler(s)

Next ==
    \/ CallNext /\ UNCHANGED settleVars
    \/ SettleNext /\ UNCHANGED callVars

Spec == Init /\ [][Next]_vars
-----------------------------------------------------------------------------
(* No token of overage is charged by two events, and no unit is charged    *)
(* that does not begin within the overage: cancel-time, period-end and     *)
(* monthly settlements "never double-charge", across crashes, lost answers *)
(* and retries, and overbill by less than a unit (settle_final_overage,    *)
(* settle_overage_for_org).                                                *)
NeverOvercharged ==
    /\ \A e, f \in meter :
           e.month = f.month /\ e # f => e.upto <= f.base \/ f.upto <= e.base
    /\ \A e \in meter : e.upto < usage[e.month].overage + Unit

(* What is credited locally was sent, without a gap: no overage is written *)
(* off unbilled when an answer is lost and the settlement is run again     *)
(* (_mark_reported after "this exact delta was already received").         *)
Reached(m, tokens) == tokens = 0 \/ \E e \in meter : e.month = m /\ e.upto = tokens

CreditIsCharged ==
    /\ \A m \in Months : Reached(m, reported[m])
    /\ \A e \in meter : Reached(e.month, e.base)
=============================================================================
