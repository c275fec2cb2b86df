------------------------------ MODULE RiskControl ------------------------------
(***************************************************************************)
(* The risk manager (domain/risk/manager.py): the latching circuit breaker *)
(* its evaluate method trips and consults, the position sizer              *)
(* (domain/risk/sizing.py), and a caller that opens what was allowed.      *)
(*                                                                         *)
(* A RiskState is reduced to what evaluate tells apart: the set of halt    *)
(* conditions it shows and the exposures.  Timestamps are the caller's     *)
(* clock; tripped_at and the details are only reported and are left out.   *)
(***************************************************************************)
EXTENDS Integers, FiniteSetsExt

CONSTANTS
    Transient,        \* halt reasons that clear after a cooldown
    Critical,         \* halt reasons that need a manual reset (MAX_DRAWDOWN)
    KillSwitch,       \* MANUAL_KILL_SWITCH
    Cooldown,         \* limits.cooldown_seconds
    Symbols,
    GrossLimit,       \* equity * min(maximum_gross_exposure, maximum_leverage)
    SymbolLimit,      \* equity * maximum_symbol_exposure
    Lot,              \* lot_size, in notional units
    MinimumNotional,
    RiskBudgets,      \* the notionals the risk-based sizing methods may come to
    MaxTime,          \* bound on the clock
    None

ASSUME RiskAssumption ==
    /\ Cooldown \in Nat \ {0} /\ MaxTime \in Nat
    /\ GrossLimit \in Nat /\ SymbolLimit \in Nat /\ MinimumNotional \in Nat
    /\ Lot \in Nat \ {0} /\ RiskBudgets \in SUBSET Nat /\ IsFiniteSet(Symbols)
    /\ None \notin Nat /\ None \notin [symbol : Symbols, notional : Nat]

VARIABLES
    now,
    reasons,   \* CircuitBreaker._reasons
    resume,    \* _resume_at
    manual,    \* _manual_reset_required
    trip,      \* history: the last trip since the last reset, see NoTrip
    exposure,  \* symbol -> open notional
    decision   \* the allowed RiskDecision the caller has not acted on, or None

(* trip.at: its time; trip.latched: some trip since the reset was critical. *)
NoTrip == [at |-> None, latched |-> FALSE]

breaker == <<reasons, resume, manual>>
vars == <<now, breaker, trip, exposure, decision>>

Reasons == Transient \cup Critical \cup {KillSwitch}

Clear == [reasons |-> {}, resume |-> None, manual |-> FALSE]
Breaker == [reasons |-> reasons, resume |-> resume, manual |-> manual]
SetBreaker(b) == reasons' = b.reasons /\ resume' = b.resume /\ manual' = b.manual

MutTripped(b, halts, needsManual) ==  \* mutant: a later transient trip forgets the latch
    LET candidate == now + Cooldown
    IN  IF halts = {} THEN b
        ELSE [reasons |-> b.reasons \cup halts, manual |-> needsManual,
              resume |-> IF needsManual THEN None
                         ELSE IF b.resume = None \/ candidate > b.resume THEN candidate ELSE b.resume]

(* trip, for a batch of halts that all happen now.                         *)
Tripped(b, halts, needsManual) ==
    LET latched == b.manual \/ needsManual
        candidate == now + Cooldown
    IN  IF halts = {} THEN b
        ELSE [reasons |-> b.reasons \cup halts, manual |-> latched,
              resume |-> IF latched THEN None
                         ELSE IF b.resume = None \/ candidate > b.resume THEN candidate ELSE b.resume]

(* The condition under which status() clears the breaker.                  *)
Elapsed(b) == b.reasons # {} /\ ~b.manual /\ b.resume # None /\ now >= b.resume

(* status: a query that clears a breaker whose cooldown is over.           *)
Checked(b) == IF Elapsed(b) THEN Clear ELSE b

-----------------------------------------------------------------------------
(* PositionSizer.size: the smallest candidate, rounded down to lots.       *)
Gross == MapThenSumSet(LAMBDA s : exposure[s], Symbols)

Room(limit, used) == Max({limit - used, 0})

MutCandidates(s, budget) ==  \* mutant: only the sizing method's own candidate
    {budget, Room(SymbolLimit, exposure[s])}

(* Gross exposure and leverage share one limit; an exchange is treated as  *)
(* the symbol is.                                                          *)
Candidates(s, budget) ==
    {budget, Room(GrossLimit, Gross), Room(SymbolLimit, exposure[s])}

RoundedToLot(n) == (n \div Lot) * Lot

(* 0 when the sizer rejects.                                               *)
Size(s, budget) ==
    LET notional == RoundedToLot(Min(Candidates(s, budget)))
    IN  IF notional >= MinimumNotional THEN notional ELSE 0

-----------------------------------------------------------------------------
Init ==
    /\ now = 0
    /\ reasons = {} /\ resume = None /\ manual = FALSE
    /\ trip = NoTrip
    /\ exposure = [s \in Symbols |-> 0]
    /\ decision = None

Remember(halts) ==
    trip' = IF halts = {} THEN trip
            ELSE [at |-> now, latched |-> trip.latched \/ halts \cap Critical # {}]

HasCapacity(s) == Gross < GrossLimit /\ exposure[s] < SymbolLimit

(* evaluate, for an entry: every halt condition shown trips the breaker,   *)
(* transient ones first; then it is consulted.  `rejected' stands for the  *)
(* reasons that trip nothing: an expired signal, an unknown regime, low    *)
(* confidence, too many positions, an input the sizer refuses.             *)
EvaluateEntry(s, halts, rejected, budget) ==
    /\ decision = None
    /\ LET b == Checked(Tripped(Tripped(Breaker, halts \cap Transient, FALSE),
                                halts \cap Critical, TRUE))
           allowed == halts = {} /\ ~rejected /\ HasCapacity(s) /\ b.reasons = {}
       IN  /\ SetBreaker(b)
           /\ decision' = IF allowed /\ Size(s, budget) > 0
                          THEN [symbol |-> s, notional |-> Size(s, budget)] ELSE None
    /\ Remember(halts)
    /\ UNCHANGED <<now, exposure>>

(* evaluate, for EXIT and REDUCE: always allowed, and the status is read   *)
(* (and the breaker perhaps cleared) for the report; the caller then keeps *)
(* what it likes of the position.                                          *)
EvaluateExit(s) ==
    /\ SetBreaker(Checked(Breaker))
    /\ \E left \in 0 .. exposure[s] : exposure' = [exposure EXCEPT ![s] = left]
    /\ UNCHANGED <<now, trip, decision>>

ActivateKillSwitch ==
    /\ SetBreaker(Tripped(Breaker, {KillSwitch}, TRUE))
    /\ trip' = [at |-> now, latched |-> TRUE]
    /\ UNCHANGED <<now, exposure, decision>>

(* reset_kill_switch with the exact confirmation.                          *)
ResetKillSwitch ==
    /\ SetBreaker(Clear)
    /\ trip' = NoTrip
    /\ UNCHANGED <<now, exposure, decision>>

(* The caller opens the position it was allowed, or lets it go.            *)
Act ==
    /\ decision # None
    /\ decision' = None
    /\ \/ exposure' = [exposure EXCEPT ![decision.symbol] = @ + decision.notional]
       \/ exposure' = exposure
    /\ UNCHANGED <<now, breaker, trip>>

Tick ==
    /\ now < MaxTime
    /\ now' = now + 1
    /\ UNCHANGED <<breaker, trip, exposure, decision>>

Next ==
    \/ \E s \in Symbols, halts \in SUBSET (Transient \cup Critical),
          rejected \in BOOLEAN, budget \in RiskBudgets :
          EvaluateEntry(s, halts, rejected, budget)
    \/ \E s \in Symbols : EvaluateExit(s)
    \/ ActivateKillSwitch \/ ResetKillSwitch \/ Act \/ Tick

Spec == Init /\ [][Next]_vars

-----------------------------------------------------------------------------
TypeOK ==
    /\ now \in Nat
    /\ reasons \in SUBSET Reasons
    /\ resume \in Nat \cup {None}
    /\ manual \in BOOLEAN
    /\ trip \in [at : Nat \cup {None}, latched : BOOLEAN]
    /\ exposure \in [Symbols -> Nat]
    /\ decision \in [symbol : Symbols, notional : Nat] \cup {None}

Allows == decision = None /\ decision' # None

(* Whatever mixture of transient and critical halts, exits and queries     *)
(* came before: no entry is allowed before the cooldown of the last halt   *)
(* is over, nor, after a critical halt or the kill switch, before a reset. *)
EntryWaits ==
    [][Allows => ~trip.latched /\ (trip.at # None => now >= trip.at + Cooldown)]_vars

(* Acting on allowed entries one at a time never exceeds a limit.          *)
WithinLimits ==
    /\ Gross <= GrossLimit
    /\ \A s \in Symbols : exposure[s] <= SymbolLimit
=============================================================================
