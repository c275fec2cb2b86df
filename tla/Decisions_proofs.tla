--------------------------- MODULE Decisions_proofs ---------------------------
(***************************************************************************)
(* What may be traded and on which evidence: the three decision makers of  *)
(* MCDecisions (the risk manager, the leg machine, the validation splits)  *)
(* and the certification run, each for every value of its constants.       *)
(*                                                                         *)
(* Risk manager.  EntryWaits speaks of the history `trip'; LatchInv ties   *)
(* that history to the three fields the code has, and is inductive.        *)
(* WithinLimits is not inductive: RoomInv adds that a decision the caller  *)
(* has not acted on still fits, because exposures only shrink meanwhile.   *)
(*                                                                         *)
(* Leg machine.  What its states claim holds for every target, every       *)
(* exposure limit and every order of calls and late reports.               *)
(*                                                                         *)
(* Splits.  A request never changes before it is answered, so the          *)
(* invariant is a statement about the operators; the arithmetic is linear  *)
(* once the offset of a window and the bounds of a fold are named.         *)
(*                                                                         *)
(* Certification.  An attempt has issued every certificate before its row  *)
(* says COMPLETED, and a stored certificate is never replaced: from then   *)
(* on nobody can issue or promote, so that what any export reads and seals *)
(* is the same, however attempts and exports overlap.                      *)
(*                                                                         *)
(* Verdicts.  A sorted sample is a ranking of its places; neighbours in    *)
(* order put a whole stream in order, and whole intervals between          *)
(* neighbours put every settlement on the grid of the first, whatever      *)
(* events a sample holds.                                                  *)
(***************************************************************************)
EXTENDS RiskControl, LegExecution, DataSplits, Certification, SumTheorems, TLAPS

-----------------------------------------------------------------------------
(* The circuit breaker.                                                    *)

BreakerTyped(b) ==
    /\ b = [reasons |-> b.reasons, resume |-> b.resume, manual |-> b.manual]
    /\ b.resume \in Nat \cup {None}
    /\ b.manual \in BOOLEAN

(* The breaker b remembers a last trip at time t, latched or not.          *)
Remembers(b, t, latched) ==
    /\ latched => b.manual
    /\ b.manual => b.reasons # {}
    /\ t # None /\ ~b.manual =>
           IF b.reasons = {} THEN now >= t + Cooldown
           ELSE b.resume # None /\ b.resume >= t + Cooldown

LatchInv ==
    /\ now \in Nat
    /\ trip \in [at : Nat \cup {None}, latched : BOOLEAN]
    /\ BreakerTyped(Breaker)
    /\ Remembers(Breaker, trip.at, trip.latched)

-----------------------------------------------------------------------------
(* A trip now is remembered; no trip changes nothing.                      *)
LEMMA TrippedRemembers ==
    ASSUME NEW STATE b, NEW STATE halts, NEW needsManual \in BOOLEAN,
           NEW STATE t, t \in Nat \cup {None}, NEW STATE latched, latched \in BOOLEAN,
           now \in Nat, BreakerTyped(b), Remembers(b, t, latched),
           halts # {}, NEW STATE known, known \in BOOLEAN, known => latched \/ needsManual
    PROVE  /\ BreakerTyped(Tripped(b, halts, needsManual))
           /\ Remembers(Tripped(b, halts, needsManual), now, known)
<1> DEFINE c == Tripped(b, halts, needsManual)
<1>1. c = [reasons |-> b.reasons \cup halts, manual |-> b.manual \/ needsManual,
           resume |-> IF b.manual \/ needsManual THEN None
                      ELSE IF b.resume = None \/ now + Cooldown > b.resume
                           THEN now + Cooldown ELSE b.resume]
  BY DEF Tripped
<1> HIDE DEF c
<1>2. /\ c.reasons # {}
      /\ c.manual = (b.manual \/ needsManual)
      /\ c.resume = IF c.manual THEN None
                    ELSE IF b.resume = None \/ now + Cooldown > b.resume
                         THEN now + Cooldown ELSE b.resume
  BY <1>1
<1>3. now + Cooldown \in Nat
  BY RiskAssumption
<1>4. BreakerTyped(c)
  BY <1>1, <1>2, <1>3 DEF BreakerTyped
<1>5. Remembers(c, now, known)
  <2>1. known => c.manual
    BY <1>2 DEF Remembers
  <2>2. ~c.manual => c.resume # None /\ c.resume >= now + Cooldown
    BY <1>2, <1>3, RiskAssumption DEF BreakerTyped
  <2>3. QED
    BY <1>2, <2>1, <2>2 DEF Remembers
<1>6. QED
  BY <1>4, <1>5 DEF c

(* status() forgets a trip only when its cooldown is over.                 *)
LEMMA CheckedRemembers ==
    ASSUME NEW STATE b, NEW ACTION t, t \in Nat \cup {None}, NEW ACTION latched, latched \in BOOLEAN,
           now \in Nat, BreakerTyped(b), Remembers(b, t, latched)
    PROVE  /\ BreakerTyped(Checked(b))
           /\ Remembers(Checked(b), t, latched)
<1>1. CASE Elapsed(b)
  <2>1. Checked(b) = Clear
    BY <1>1 DEF Checked
  <2>2. ~latched /\ (t # None => now >= t + Cooldown)
    BY <1>1, RiskAssumption DEF Elapsed, Remembers, BreakerTyped
  <2>3. QED
    BY <2>1, <2>2 DEF Clear, BreakerTyped, Remembers
<1>2. CASE ~Elapsed(b)
  BY <1>2 DEF Checked
<1>3. QED
  BY <1>1, <1>2

LEMMA BreakerPrimed ==
    ASSUME NEW STATE b, BreakerTyped(b), SetBreaker(b)
    PROVE  Breaker' = b
BY DEF BreakerTyped, SetBreaker, Breaker

(* An evaluation with halts leaves a breaker that remembers them.          *)
LEMMA EvaluationRemembers ==
    ASSUME LatchInv, NEW halts \in SUBSET (Transient \cup Critical), Remember(halts)
    PROVE  LET b == Checked(Tripped(Tripped(Breaker, halts \cap Transient, FALSE),
                                    halts \cap Critical, TRUE))
           IN  /\ BreakerTyped(b)
               /\ Remembers(b, trip'.at, trip'.latched)
<1> DEFINE b1 == Tripped(Breaker, halts \cap Transient, FALSE)
           b2 == Tripped(b1, halts \cap Critical, TRUE)
           t1 == IF halts \cap Transient = {} THEN trip.at ELSE now
<1>0. /\ now \in Nat /\ trip.at \in Nat \cup {None} /\ trip.latched \in BOOLEAN
      /\ BreakerTyped(Breaker) /\ Remembers(Breaker, trip.at, trip.latched)
  BY DEF LatchInv
<1>1. BreakerTyped(b1) /\ Remembers(b1, t1, trip.latched)
  <2>1. CASE halts \cap Transient = {}
    BY <1>0, <2>1 DEF Tripped
  <2>2. CASE halts \cap Transient # {}
    <3> DEFINE ht == halts \cap Transient
    <3>1. ht # {}
      BY <2>2
    <3> HIDE DEF ht
    <3>2. /\ BreakerTyped(Tripped(Breaker, ht, FALSE))
          /\ Remembers(Tripped(Breaker, ht, FALSE), now, trip.latched)
      BY <1>0, <3>1, TrippedRemembers
    <3>3. QED
      BY <2>2, <3>2 DEF ht
  <2>3. QED
    BY <2>1, <2>2
<1>2. BreakerTyped(b2) /\ Remembers(b2, trip'.at, trip'.latched)
  <2>1. CASE halts \cap Critical = {}
    <3>1. b2 = b1
      BY <2>1 DEF Tripped
    <3>2. trip'.at = t1 /\ trip'.latched = trip.latched
      <4>1. CASE halts = {}
        BY <1>0, <4>1 DEF Remember, LatchInv
      <4>2. CASE halts # {}
        BY <1>0, <2>1, <4>2 DEF Remember
      <4>3. QED
        BY <4>1, <4>2
    <3>3. QED
      BY <1>1, <3>1, <3>2
  <2>2. CASE halts \cap Critical # {}
    <3> DEFINE hc == halts \cap Critical
    <3>1. hc # {} /\ t1 \in Nat \cup {None}
      BY <1>0, <2>2
    <3> HIDE DEF hc, b1, t1
    <3>2. /\ BreakerTyped(Tripped(b1, hc, TRUE))
          /\ Remembers(Tripped(b1, hc, TRUE), now, TRUE)
      BY <1>0, <1>1, <3>1, TrippedRemembers
    <3>3. trip'.at = now /\ trip'.latched = TRUE
      BY <1>0, <2>2 DEF Remember
    <3>4. QED
      BY <3>2, <3>3 DEF hc
  <2>3. QED
    BY <2>1, <2>2
<1>3. trip'.at \in Nat \cup {None} /\ trip'.latched \in BOOLEAN
  BY <1>0 DEF Remember, LatchInv
<1>4. BreakerTyped(Checked(b2)) /\ Remembers(Checked(b2), trip'.at, trip'.latched)
  <2> HIDE DEF b2
  <2>1. QED
    BY <1>0, <1>2, <1>3, CheckedRemembers
<1>5. QED
  BY <1>4

-----------------------------------------------------------------------------
LEMMA LatchInit == Init => LatchInv
<1> SUFFICES ASSUME Init PROVE LatchInv
  OBVIOUS
<1>1. trip = NoTrip /\ now = 0
  BY DEF Init
<1>2. Breaker = [reasons |-> {}, resume |-> None, manual |-> FALSE]
  BY DEF Init, Breaker
<1>3. BreakerTyped(Breaker)
  BY <1>2 DEF BreakerTyped
<1>4. Remembers(Breaker, trip.at, trip.latched)
  BY <1>1, <1>2 DEF Remembers, NoTrip
<1>5. QED
  BY <1>1, <1>3, <1>4 DEF LatchInv, NoTrip

(* now only grows, and Remembers only gains by it.                         *)
LEMMA LatchSame ==
    ASSUME LatchInv, now' \in Nat, now' >= now, UNCHANGED <<breaker, trip>>
    PROVE  LatchInv'
<1>1. Breaker' = Breaker
  BY DEF breaker, Breaker
<1>2. Remembers(Breaker, trip.at, trip.latched)'
  <2>1. trip.at # None => trip.at \in Nat
    BY DEF LatchInv
  <2>2. QED
    BY <1>1, <2>1, RiskAssumption DEF LatchInv, Remembers
<1>3. BreakerTyped(Breaker)'
  BY <1>1 DEF LatchInv, BreakerTyped
<1>4. QED
  BY <1>2, <1>3 DEF LatchInv

LEMMA LatchStep == LatchInv /\ [Next]_vars => LatchInv'
<1> SUFFICES ASSUME LatchInv, [Next]_vars PROVE LatchInv'
  OBVIOUS
<1>0. /\ now \in Nat /\ trip.at \in Nat \cup {None} /\ trip.latched \in BOOLEAN
      /\ BreakerTyped(Breaker) /\ Remembers(Breaker, trip.at, trip.latched)
      /\ trip \in [at : Nat \cup {None}, latched : BOOLEAN]
  BY DEF LatchInv
<1>1. ASSUME NEW s \in Symbols, NEW halts \in SUBSET (Transient \cup Critical),
             NEW rejected \in BOOLEAN, NEW budget \in RiskBudgets,
             EvaluateEntry(s, halts, rejected, budget)
      PROVE  LatchInv'
  <2> DEFINE b == Checked(Tripped(Tripped(Breaker, halts \cap Transient, FALSE),
                                  halts \cap Critical, TRUE))
  <2>1. SetBreaker(b) /\ Remember(halts) /\ now' = now
    BY <1>1 DEF EvaluateEntry
  <2>2. BreakerTyped(b) /\ Remembers(b, trip'.at, trip'.latched)
    BY <2>1, EvaluationRemembers
  <2>3. Breaker' = b
    <3> HIDE DEF b
    <3>1. QED
      BY <2>1, <2>2, BreakerPrimed
  <2>4. trip' \in [at : Nat \cup {None}, latched : BOOLEAN]
    BY <1>0, <2>1 DEF Remember
  <2> HIDE DEF b
  <2>5. QED
    BY <1>0, <2>1, <2>2, <2>3, <2>4 DEF LatchInv, BreakerTyped, Remembers
<1>2. ASSUME NEW s \in Symbols, EvaluateExit(s)
      PROVE  LatchInv'
  <2> DEFINE b == Checked(Breaker)
  <2>1. SetBreaker(b) /\ trip' = trip /\ now' = now
    BY <1>2 DEF EvaluateExit
  <2>2. BreakerTyped(b) /\ Remembers(b, trip.at, trip.latched)
    BY <1>0, CheckedRemembers
  <2> HIDE DEF b
  <2>3. Breaker' = b
    BY <2>1, <2>2, BreakerPrimed
  <2>4. QED
    BY <1>0, <2>1, <2>2, <2>3 DEF LatchInv, BreakerTyped, Remembers
<1>3. ASSUME ActivateKillSwitch PROVE LatchInv'
  <2> DEFINE b == Tripped(Breaker, {KillSwitch}, TRUE)
  <2>1. SetBreaker(b) /\ now' = now /\ trip' = [at |-> now, latched |-> TRUE]
    BY <1>3 DEF ActivateKillSwitch
  <2>2. BreakerTyped(b) /\ Remembers(b, now, TRUE)
    <3> DEFINE k == {KillSwitch}
    <3>1. k # {}
      OBVIOUS
    <3> HIDE DEF k
    <3>2. /\ BreakerTyped(Tripped(Breaker, k, TRUE))
          /\ Remembers(Tripped(Breaker, k, TRUE), now, TRUE)
      BY <1>0, <3>1, TrippedRemembers
    <3>3. QED
      BY <3>2 DEF k
  <2> HIDE DEF b
  <2>3. Breaker' = b
    BY <2>1, <2>2, BreakerPrimed
  <2>4. QED
    BY <1>0, <2>1, <2>2, <2>3 DEF LatchInv, BreakerTyped, Remembers
<1>4. ASSUME ResetKillSwitch PROVE LatchInv'
  <2>1. Breaker' = [reasons |-> {}, resume |-> None, manual |-> FALSE]
    BY <1>4 DEF ResetKillSwitch, SetBreaker, Clear, Breaker
  <2>2. trip' = NoTrip /\ now' = now
    BY <1>4 DEF ResetKillSwitch
  <2>3. trip' \in [at : Nat \cup {None}, latched : BOOLEAN] /\ trip'.at = None /\ ~trip'.latched
    BY <2>2 DEF NoTrip
  <2>4. QED
    BY <1>0, <2>1, <2>2, <2>3 DEF LatchInv, BreakerTyped, Remembers
<1>5. ASSUME Act \/ UNCHANGED vars PROVE LatchInv'
  <2>1. UNCHANGED <<breaker, trip>> /\ now' = now
    BY <1>5 DEF Act, vars
  <2>2. QED
    BY <1>0, <2>1, LatchSame
<1>6. ASSUME Tick PROVE LatchInv'
  <2>1. UNCHANGED <<breaker, trip>> /\ now' \in Nat /\ now' >= now
    BY <1>0, <1>6 DEF Tick
  <2>2. QED
    BY <2>1, LatchSame
<1>7. QED
  BY <1>1, <1>2, <1>3, <1>4, <1>5, <1>6 DEF Next

-----------------------------------------------------------------------------
(* Only an evaluation allows, and only of a breaker that is clear after    *)
(* status().                                                               *)
LEMMA AllowedWaits ==
    ASSUME LatchInv, Next, Allows
    PROVE  ~trip.latched /\ (trip.at # None => now >= trip.at + Cooldown)
<1>0. /\ now \in Nat /\ trip.at \in Nat \cup {None} /\ trip.latched \in BOOLEAN
      /\ BreakerTyped(Breaker) /\ Remembers(Breaker, trip.at, trip.latched)
  BY DEF LatchInv
<1>1. PICK s \in Symbols, halts \in SUBSET (Transient \cup Critical),
           rejected \in BOOLEAN, budget \in RiskBudgets :
           EvaluateEntry(s, halts, rejected, budget)
  BY DEF Next, Allows, EvaluateExit, ActivateKillSwitch, ResetKillSwitch, Act, Tick
<1>2. /\ halts = {}
      /\ Checked(Tripped(Tripped(Breaker, halts \cap Transient, FALSE),
                         halts \cap Critical, TRUE)).reasons = {}
  BY <1>1 DEF EvaluateEntry, Allows
<1>3. Tripped(Tripped(Breaker, halts \cap Transient, FALSE), halts \cap Critical, TRUE) = Breaker
  <2>1. halts \cap Transient = {} /\ halts \cap Critical = {}
    BY <1>2
  <2>2. QED
    BY <2>1 DEF Tripped
<1>4. Remembers(Checked(Breaker), trip.at, trip.latched) /\ Checked(Breaker).reasons = {}
  BY <1>0, <1>2, <1>3, CheckedRemembers
<1>5. QED
  BY <1>0, <1>4 DEF Remembers

(* EntryWaits: no entry is allowed before the cooldown of the last halt is *)
(* over, nor after a critical halt before a reset; for every cooldown,     *)
(* every set of reasons and every interleaving of evaluations, exits and   *)
(* switches (CircuitBreaker.trip, status and reset; RiskManager.evaluate). *)
THEOREM HaltsHold == Spec => EntryWaits
<1>1. Init => LatchInv
  BY LatchInit
<1>2. LatchInv /\ [Next]_vars => LatchInv'
  BY LatchStep
<1>3. LatchInv /\ [Next]_vars
      => [Allows => ~trip.latched /\ (trip.at # None => now >= trip.at + Cooldown)]_vars
  BY AllowedWaits
<1>4. QED
  BY <1>1, <1>2, <1>3, PTL DEF Spec, EntryWaits

-----------------------------------------------------------------------------
(* The sizer.                                                              *)

(* A decision that waits for its caller still fits.                        *)
Fits(d) ==
    /\ d.symbol \in Symbols /\ d.notional \in Nat
    /\ Gross + d.notional <= GrossLimit
    /\ exposure[d.symbol] + d.notional <= SymbolLimit

RoomInv ==
    /\ exposure \in [Symbols -> Nat]
    /\ WithinLimits
    /\ decision # None => Fits(decision)

(* Min and Max of numbers that are listed.                                 *)
LEMMA MinOfThree ==
    ASSUME NEW a \in Int, NEW b \in Int, NEW c \in Int
    PROVE  /\ Min({a, b, c}) \in {a, b, c}
           /\ Min({a, b, c}) <= a /\ Min({a, b, c}) <= b /\ Min({a, b, c}) <= c
<1>1. \E x \in {a, b, c} : \A y \in {a, b, c} : x <= y
  OBVIOUS
<1> QED
  BY <1>1 DEF Min

(* The room under a limit that is kept is what is left of it.              *)
LEMMA RoomLeft ==
    ASSUME NEW limit \in Nat, NEW used \in Nat, used <= limit
    PROVE  Room(limit, used) = limit - used
<1>1. \E x \in {limit - used, 0} : \A y \in {limit - used, 0} : x >= y
  OBVIOUS
<1> QED
  BY <1>1 DEF Room, Max

(* Rounding to lots rounds down.                                           *)
LEMMA LotsRoundDown ==
    ASSUME NEW n \in Nat
    PROVE  RoundedToLot(n) \in Nat /\ RoundedToLot(n) <= n
<1>1. Lot \in Nat \ {0}
  BY RiskAssumption
<1>2. n \div Lot \in Nat /\ n % Lot \in 0 .. Lot - 1
  BY <1>1
<1>3. n = Lot * (n \div Lot) + (n % Lot)
  BY <1>1
<1>4. (n \div Lot) * Lot = Lot * (n \div Lot) /\ Lot * (n \div Lot) \in Nat
  BY <1>1, <1>2
<1> QED
  BY <1>2, <1>3, <1>4 DEF RoundedToLot

(* The gross exposure is a sum.                                            *)
LEMMA GrossIsSum ==
    ASSUME exposure \in [Symbols -> Nat]
    PROVE  Gross = Sum(exposure, Symbols) /\ Gross \in Nat
<1>1. Gross = Sum(exposure, Symbols)
  BY DEF Gross, Sum
<1>2. IsFiniteSet(Symbols)
  BY RiskAssumption
<1>3. Sum(exposure, Symbols) \in Nat
  BY <1>2, SumType
<1> QED
  BY <1>1, <1>3

(* It follows one symbol.                                                  *)
LEMMA GrossFollows ==
    ASSUME exposure \in [Symbols -> Nat], NEW s \in Symbols, NEW n \in Nat,
           exposure' = [exposure EXCEPT ![s] = n]
    PROVE  exposure' \in [Symbols -> Nat] /\ Gross' = Gross + (n - exposure[s])
<1>1. exposure' \in [Symbols -> Nat]
  OBVIOUS
<1>2. Gross = Sum(exposure, Symbols)
  BY GrossIsSum
<1>3. Gross' = Sum(exposure', Symbols)
  BY DEF Gross, Sum, MapThenSumSet, MapThenFoldSet
<1> DEFINE f == exposure
           h == exposure'
<1>4. /\ IsFiniteSet(Symbols) /\ h[s] = n /\ \A x \in Symbols : f[x] \in Int
      /\ \A x \in Symbols : x # s => h[x] = f[x]
  BY RiskAssumption
<1> HIDE DEF f, h
<1>5. Sum(h, Symbols) = Sum(f, Symbols) + (h[s] - f[s])
  BY <1>4, SumChanges
<1> QED
  BY <1>1, <1>2, <1>3, <1>4, <1>5 DEF f, h

(* PositionSizer.size stays within both limits, whatever budget the sizing *)
(* method comes to.                                                        *)
LEMMA SizeFits ==
    ASSUME RoomInv, NEW s \in Symbols, NEW budget \in RiskBudgets
    PROVE  /\ Size(s, budget) \in Nat
           /\ Gross + Size(s, budget) <= GrossLimit
           /\ exposure[s] + Size(s, budget) <= SymbolLimit
<1> DEFINE g == Room(GrossLimit, Gross)
           l == Room(SymbolLimit, exposure[s])
           n == Min({budget, g, l})
<1>1. Gross \in Nat /\ exposure[s] \in Nat /\ budget \in Nat /\ GrossLimit \in Nat /\ SymbolLimit \in Nat
  BY GrossIsSum, RiskAssumption DEF RoomInv
<1>2. Gross <= GrossLimit /\ exposure[s] <= SymbolLimit
  BY DEF RoomInv, WithinLimits
<1>3. g = GrossLimit - Gross /\ l = SymbolLimit - exposure[s]
  BY <1>1, <1>2, RoomLeft
<1>4. g \in Nat /\ l \in Nat
  BY <1>1, <1>2, <1>3
<1> HIDE DEF g, l
<1>5. n \in Nat /\ n <= g /\ n <= l
  <2>1. budget \in Int /\ g \in Int /\ l \in Int
    BY <1>1, <1>4
  <2> HIDE DEF n
  <2>2. n \in {budget, g, l} /\ n <= g /\ n <= l
    BY <2>1, MinOfThree DEF n
  <2> QED
    BY <1>1, <1>4, <2>2
<1>6. Candidates(s, budget) = {budget, g, l}
  BY DEF Candidates, g, l
<1> HIDE DEF n
<1>7. RoundedToLot(n) \in Nat /\ RoundedToLot(n) <= n
  BY <1>5, LotsRoundDown
<1>8. Size(s, budget) \in {RoundedToLot(n), 0}
  BY <1>6 DEF Size, n
<1> QED
  BY <1>1, <1>2, <1>3, <1>4, <1>5, <1>7, <1>8

(* A step that leaves the exposures alone and allows nothing.              *)
LEMMA RoomSame ==
    ASSUME RoomInv, UNCHANGED exposure, decision' = decision \/ decision' = None
    PROVE  RoomInv'
<1>1. Gross' = Gross
  BY DEF Gross, MapThenSumSet, MapThenFoldSet
<1> QED
  BY <1>1 DEF RoomInv, WithinLimits, Fits

LEMMA RoomStep == RoomInv /\ [Next]_vars => RoomInv'
<1> SUFFICES ASSUME RoomInv, [Next]_vars PROVE RoomInv'
  OBVIOUS
<1>0. GrossLimit \in Nat /\ SymbolLimit \in Nat /\ Gross \in Nat /\ exposure \in [Symbols -> Nat]
  BY RiskAssumption, GrossIsSum DEF RoomInv
<1>1. ASSUME NEW s \in Symbols, NEW halts \in SUBSET (Transient \cup Critical),
             NEW rejected \in BOOLEAN, NEW budget \in RiskBudgets,
             EvaluateEntry(s, halts, rejected, budget)
      PROVE  RoomInv'
  <2>1. exposure' = exposure
    BY <1>1 DEF EvaluateEntry
  <2>2. decision' \in {None, [symbol |-> s, notional |-> Size(s, budget)]}
    BY <1>1 DEF EvaluateEntry
  <2>3. CASE decision' = None
    BY <2>1, <2>3, RoomSame
  <2>4. CASE decision' # None
    <3>1. decision'.symbol = s /\ decision'.notional = Size(s, budget)
      BY <2>2, <2>4
    <3>2. Gross' = Gross
      BY <2>1 DEF Gross, MapThenSumSet, MapThenFoldSet
    <3>3. Fits(decision)'
      BY <2>1, <3>1, <3>2, SizeFits DEF Fits
    <3> QED
      BY <2>1, <3>2, <3>3 DEF RoomInv, WithinLimits
  <2> QED
    BY <2>3, <2>4
<1>2. ASSUME NEW s \in Symbols, EvaluateExit(s)
      PROVE  RoomInv'
  <2>1. PICK left \in 0 .. exposure[s] : exposure' = [exposure EXCEPT ![s] = left]
    BY <1>2 DEF EvaluateExit
  <2>2. left \in Nat /\ left <= exposure[s] /\ exposure[s] \in Nat /\ decision' = decision
    BY <1>0, <1>2 DEF EvaluateExit
  <2>3. exposure' \in [Symbols -> Nat] /\ Gross' = Gross + (left - exposure[s])
    BY <1>0, <2>1, <2>2, GrossFollows
  <2>4. \A x \in Symbols : exposure'[x] \in Nat /\ exposure[x] \in Nat /\ exposure'[x] <= exposure[x]
    BY <1>0, <2>1, <2>2
  <2>5. Gross' \in Int /\ Gross' <= Gross
    BY <1>0, <2>2, <2>3
  <2>6. WithinLimits'
    BY <1>0, <2>4, <2>5 DEF RoomInv, WithinLimits
  <2>7. decision # None => Fits(decision)'
    BY <1>0, <2>2, <2>4, <2>5 DEF RoomInv, Fits
  <2> QED
    BY <2>2, <2>3, <2>6, <2>7 DEF RoomInv
<1>3. ASSUME ActivateKillSwitch \/ ResetKillSwitch \/ Tick \/ UNCHANGED vars PROVE RoomInv'
  BY <1>3, RoomSame DEF ActivateKillSwitch, ResetKillSwitch, Tick, vars
<1>4. ASSUME Act PROVE RoomInv'
  <2> DEFINE s == decision.symbol
             n == exposure[s] + decision.notional
  <2>1. decision # None /\ decision' = None /\ Fits(decision)
    BY <1>4 DEF Act, RoomInv
  <2>2. CASE exposure' = exposure
    BY <2>1, <2>2, RoomSame
  <2>3. CASE exposure' # exposure
    <3>1. exposure' = [exposure EXCEPT ![s] = n]
      BY <1>4, <2>3 DEF Act
    <3>2. s \in Symbols /\ n \in Nat /\ n <= SymbolLimit /\ exposure[s] \in Nat
          /\ decision.notional \in Nat /\ Gross + decision.notional <= GrossLimit
      BY <1>0, <2>1 DEF Fits
    <3> DEFINE d == decision.notional
    <3>3. n = exposure[s] + d
      OBVIOUS
    <3> HIDE DEF s, n
    <3>4. exposure' \in [Symbols -> Nat] /\ Gross' = Gross + (n - exposure[s])
      BY <1>0, <3>1, <3>2, GrossFollows
    <3> HIDE DEF d
    <3>5. Gross' <= GrossLimit
      <4>1. d \in Nat /\ Gross + d <= GrossLimit
        BY <3>2 DEF d
      <4> QED
        BY <1>0, <3>2, <3>3, <3>4, <4>1
    <3>6. \A x \in Symbols : exposure'[x] <= SymbolLimit
      BY <1>0, <3>1, <3>2 DEF RoomInv, WithinLimits
    <3> QED
      BY <2>1, <3>4, <3>5, <3>6 DEF RoomInv, WithinLimits
  <2> QED
    BY <2>2, <2>3
<1> QED
  BY <1>1, <1>2, <1>3, <1>4 DEF Next

(* WithinLimits: acting on allowed entries one at a time, with exits,      *)
(* halts and resets in between, never exceeds the gross or a symbol limit, *)
(* for any number of symbols, all limits, lots and budgets                 *)
(* (PositionSizer.size, RiskManager.evaluate).                             *)
THEOREM LimitsHold == Spec => []WithinLimits
<1>1. Init => RoomInv
  <2> SUFFICES ASSUME Init PROVE RoomInv
    OBVIOUS
  <2>1. exposure = [s \in Symbols |-> 0] /\ decision = None
    BY DEF Init
  <2>2. IsFiniteSet(Symbols) /\ GrossLimit \in Nat /\ SymbolLimit \in Nat
    BY RiskAssumption
  <2>3. Sum(exposure, Symbols) = 0
    BY <2>1, <2>2, SumOfZeros
  <2>4. Gross = 0
    BY <2>1, <2>3, GrossIsSum
  <2> QED
    BY <2>1, <2>2, <2>4 DEF RoomInv, WithinLimits
<1>2. RoomInv => WithinLimits
  BY DEF RoomInv
<1> QED
  BY <1>1, <1>2, RoomStep, PTL DEF Spec

-----------------------------------------------------------------------------
(* The leg machine.                                                        *)

(* ClaimsTrue is about the venues; a late reconcile keeps it only because  *)
(* the machine's own record already shows the claim.                       *)
ClaimsRecorded ==
    /\ state = "COMPLETED" => first = Target
    /\ state = "FIRST_FILLED" => first = Target

LegInv == LegTypeOK /\ ClaimsTrue /\ ClaimsRecorded /\ FillStatesAreSafe

LEMMA LegInvInit == LegInit => LegInv
BY LegAssumption DEF LegInit, LegInv, LegTypeOK, ClaimsTrue, ClaimsRecorded, FillStatesAreSafe, States

(* A transition goes to a state that claims nothing about fills.           *)
LEMMA TransitionKeeps ==
    ASSUME LegInv, NEW to, NEW legs \in SUBSET {1, 2}, Transition(to, legs),
           to \in {"FIRST_SUBMITTED", "SECOND_SUBMITTED", "UNWINDING", "HALTED"}
    PROVE  LegInv'
<1>1. LegTypeOK'
  BY DEF LegInv, LegTypeOK, Transition, States
<1>2. ClaimsTrue' /\ ClaimsRecorded'
  BY DEF LegInv, ClaimsTrue, ClaimsRecorded, Transition
<1>3. FillStatesAreSafe'
  BY DEF FillStatesAreSafe, Transition
<1>4. QED
  BY <1>1, <1>2, <1>3 DEF LegInv

(* The state reconcile reads off the fills is true of them, or is the old  *)
(* state where both records are still what they were.                      *)
LEMMA ReconcileKeeps ==
    ASSUME LegInv, NEW f \in 0 .. filled[1], NEW s \in 0 .. filled[2], Reconcile(f, s)
    PROVE  LegInv'
<1>0. /\ f \in 0 .. Target /\ s \in 0 .. Target /\ f >= first /\ s >= second
      /\ first' = f /\ second' = s /\ filled' = filled /\ sent' = sent /\ age' = age
      /\ first \in 0 .. Target /\ second \in 0 .. Target
      /\ filled \in [{1, 2} -> 0 .. Target]
      /\ f <= filled[1] /\ s <= filled[2]
      /\ state' = IF NakedExposure(f, s) > MaximumNaked THEN "HALTED" ELSE Reconciled(f, s)
  BY LegAssumption DEF Reconcile, Monotone, LegInv, LegTypeOK
<1>1. CASE f = Target /\ s = Target
  <2>1. Reconciled(f, s) = "COMPLETED"
    BY <1>1, LegAssumption DEF Reconciled
  <2>2. filled = [leg \in {1, 2} |-> Target]
    BY <1>0, <1>1, LegAssumption
  <2>3. QED
    BY <1>0, <1>1, <2>1, <2>2, LegAssumption
    DEF LegInv, LegTypeOK, ClaimsTrue, ClaimsRecorded, FillStatesAreSafe, States, NakedExposure, Abs
<1>2. CASE f \in 1 .. Target - 1 /\ s = f
  <2>1. Reconciled(f, s) = "HEDGED"
    BY <1>2, LegAssumption DEF Reconciled
  <2>2. QED
    BY <1>0, <1>2, <2>1, LegAssumption
    DEF LegInv, LegTypeOK, ClaimsTrue, ClaimsRecorded, FillStatesAreSafe, States, NakedExposure, Abs
<1>3. CASE f = Target /\ s # Target
  <2>1. Reconciled(f, s) = "FIRST_FILLED"
    BY <1>3, LegAssumption DEF Reconciled
  <2>2. QED
    BY <1>0, <1>3, <2>1, LegAssumption
    DEF LegInv, LegTypeOK, ClaimsTrue, ClaimsRecorded, FillStatesAreSafe, States, NakedExposure, Abs
<1>4. CASE f \in 1 .. Target - 1 /\ s # f
  <2>1. Reconciled(f, s) = "FIRST_PARTIAL"
    BY <1>4, LegAssumption DEF Reconciled
  <2>2. QED
    BY <1>0, <1>4, <2>1, LegAssumption
    DEF LegInv, LegTypeOK, ClaimsTrue, ClaimsRecorded, FillStatesAreSafe, States, NakedExposure, Abs
<1>5. CASE f = 0
  <2>1. first = 0
    BY <1>0, <1>5
  <2>2. Reconciled(f, s) = state
    BY <1>5, LegAssumption DEF Reconciled
  <2>3. state \notin {"HEDGED", "COMPLETED", "FIRST_FILLED"}
    BY <2>1, LegAssumption DEF LegInv, ClaimsTrue, ClaimsRecorded
  <2>4. QED
    BY <1>0, <1>5, <2>1, <2>2, <2>3, LegAssumption
    DEF LegInv, LegTypeOK, ClaimsTrue, ClaimsRecorded, FillStatesAreSafe, States, NakedExposure, Abs
<1>6. QED
  BY <1>0, <1>1, <1>2, <1>3, <1>4, <1>5, LegAssumption

LEMMA LegStep == LegInv /\ [LegNext]_legVars => LegInv'
<1> SUFFICES ASSUME LegInv, [LegNext]_legVars PROVE LegInv'
  OBVIOUS
<1>1. CASE SubmitFirst
  BY <1>1, TransitionKeeps DEF SubmitFirst
<1>2. ASSUME NEW inLimit \in BOOLEAN, SubmitSecond(inLimit) PROVE LegInv'
  BY <1>2, TransitionKeeps DEF SubmitSecond
<1>3. ASSUME NEW f \in 0 .. filled[1], NEW s \in 0 .. filled[2], Reconcile(f, s)
      PROVE  LegInv'
  BY <1>3, ReconcileKeeps
<1>4. CASE CheckTimeout
  BY <1>4, TransitionKeeps DEF CheckTimeout
<1>5. ASSUME NEW valid \in BOOLEAN, NEW healthy \in BOOLEAN, NEW alternate \in BOOLEAN,
             NEW inLimit \in BOOLEAN, NEW fillable \in 0 .. Target,
             HandlePreflightChange(valid, healthy, alternate, fillable, inLimit)
      PROVE  LegInv'
  <2>1. PICK to \in {"SECOND_SUBMITTED", "UNWINDING", "HALTED"}, legs \in SUBSET {1, 2} :
            Transition(to, legs)
    BY <1>5, LegAssumption DEF HandlePreflightChange
  <2>2. QED
    BY <2>1, TransitionKeeps
<1>6. ASSUME NEW leg \in {1, 2}, VenueFills(leg) PROVE LegInv'
  <2>1. filled' \in [{1, 2} -> 0 .. Target] /\ \A l \in {1, 2} : filled[l] <= filled'[l]
    BY <1>6, LegAssumption DEF VenueFills, LegInv, LegTypeOK
  <2>2. UNCHANGED <<state, first, second, age, sent>>
    BY <1>6 DEF VenueFills
  <2>3. LegTypeOK' /\ FillStatesAreSafe'
    BY <2>1, <2>2 DEF LegInv, LegTypeOK, FillStatesAreSafe
  <2>4. state # "COMPLETED" \/ filled' = filled
    BY <1>6, LegAssumption DEF VenueFills, LegInv, ClaimsTrue
  <2>5. ClaimsTrue' /\ ClaimsRecorded'
    BY <2>1, <2>2, <2>4, LegAssumption DEF LegInv, ClaimsTrue, ClaimsRecorded, LegTypeOK
  <2>6. QED
    BY <2>3, <2>5 DEF LegInv
<1>7. CASE Later \/ UNCHANGED legVars
  <2>1. UNCHANGED <<state, first, second, sent, filled>> /\ age' \in Nat
    BY <1>7 DEF Later, legVars, LegInv, LegTypeOK
  <2>2. QED
    BY <2>1 DEF LegInv, LegTypeOK, ClaimsTrue, ClaimsRecorded, FillStatesAreSafe
<1>8. QED
  BY <1>1, <1>2, <1>3, <1>4, <1>5, <1>6, <1>7 DEF LegNext

(* ClaimsTrue and FillStatesAreSafe hold of LegExecutionMachine for every  *)
(* target and every limit: reconcile refuses decreasing fills, and the     *)
(* other methods only move to states that claim nothing about fills.       *)
THEOREM LegClaims == LegSpec => [](ClaimsTrue /\ FillStatesAreSafe)
<1>1. LegInit => LegInv
  BY LegInvInit
<1>2. LegInv /\ [LegNext]_legVars => LegInv'
  BY LegStep
<1>3. LegInv => ClaimsTrue /\ FillStatesAreSafe
  BY DEF LegInv
<1>4. QED
  BY <1>1, <1>2, <1>3, PTL DEF LegSpec

-----------------------------------------------------------------------------
(* The splits.                                                             *)

(* A multiple of the step that is larger is larger by a step at least.     *)
LEMMA MultiplesApart ==
    ASSUME NEW s \in Nat, NEW k \in Nat, NEW l \in Nat, k < l
    PROVE  l * s >= k * s + s
<1>1. PICK d \in Nat : l = k + 1 + d
  <2>1. l - k - 1 \in Nat
    OBVIOUS
  <2> QED BY <2>1
<1>2. l * s = k * s + s + d * s
  BY <1>1
<1>3. d * s \in Nat
  OBVIOUS
<1> QED BY <1>2, <1>3

(* walk_forward_splits never lets a block reach into the gap before the    *)
(* next one, whatever the offset.                                          *)
LEMMA WalkForwardLemma ==
    ASSUME NEW c \in WalkForwardCalls
    PROVE  WalkForwardSound(c)
<1> SUFFICES ASSUME NEW o \in Windows(c)
             PROVE  /\ Apart(Train(c, o), Validation(c, o), c.purge + c.embargo)
                    /\ Apart(Validation(c, o), OutOfSample(c, o), c.purge + c.embargo)
                    /\ Apart(Train(c, o), OutOfSample(c, o), c.purge + c.embargo)
                    /\ Train(c, o) # {} /\ OutOfSample(c, o) # {}
                    /\ Train(c, o) \cup Validation(c, o) \cup OutOfSample(c, o) \subseteq Block(0, c.n)
  BY DEF WalkForwardSound
<1>1. /\ c.n \in Nat /\ c.train \in Nat /\ c.validation \in Nat /\ c.oos \in Nat /\ c.oos > 0
      /\ c.step \in Nat /\ c.anchored \in BOOLEAN /\ c.purge \in Nat /\ c.embargo \in Nat
  BY DEF WalkForwardCalls
<1>2. o \in Nat /\ Accepted(c) /\ OosStart(c, o) + c.oos <= c.n
  BY <1>1 DEF Windows, Offsets
<1> DEFINE start == IF c.anchored THEN 0 ELSE o
<1>3. start \in Nat /\ start <= o
  BY <1>1, <1>2
<1>4. Train(c, o) = start .. c.train + o - c.purge - 1
  BY <1>1, <1>2, <1>3 DEF Train, Block, TrainEnd
<1>5. Validation(c, o) = IF c.validation = 0 THEN {}
                         ELSE c.train + o + c.embargo .. c.train + o + c.embargo + c.validation - c.purge - 1
  BY <1>1, <1>2 DEF Validation, Block, ValidationStart, ValidationEnd, TrainEnd
<1>6. OosStart(c, o) = IF c.validation = 0 THEN c.train + o + c.embargo
                       ELSE c.train + o + c.embargo + c.validation + c.embargo
  BY <1>1, <1>2 DEF OosStart, ValidationEnd, ValidationStart, TrainEnd
<1>7. OosStart(c, o) \in Nat
  BY <1>1, <1>2, <1>6
<1>8. OutOfSample(c, o) = OosStart(c, o) .. OosStart(c, o) + c.oos - 1
  BY <1>1, <1>7 DEF OutOfSample, Block
<1>9. c.train > c.purge /\ (c.validation = 0 \/ c.validation > c.purge)
  BY <1>2 DEF Accepted
<1> HIDE DEF start
<1>10. Apart(Train(c, o), Validation(c, o), c.purge + c.embargo)
  <2> SUFFICES ASSUME NEW i \in Train(c, o), NEW j \in Validation(c, o)
               PROVE  j - i > c.purge + c.embargo
    BY DEF Apart
  <2>1. i \in Int /\ i <= c.train + o - c.purge - 1
    BY <1>1, <1>2, <1>3, <1>4
  <2>2. j \in Int /\ j >= c.train + o + c.embargo
    BY <1>1, <1>2, <1>5
  <2> QED BY <1>1, <1>2, <2>1, <2>2
<1>11. Apart(Validation(c, o), OutOfSample(c, o), c.purge + c.embargo)
  <2> SUFFICES ASSUME NEW i \in Validation(c, o), NEW j \in OutOfSample(c, o)
               PROVE  j - i > c.purge + c.embargo
    BY DEF Apart
  <2>1. /\ c.validation # 0
        /\ i \in Int /\ i <= c.train + o + c.embargo + c.validation - c.purge - 1
    BY <1>1, <1>2, <1>5
  <2>2. j \in Int /\ j >= c.train + o + c.embargo + c.validation + c.embargo
    BY <1>1, <1>2, <1>6, <1>7, <1>8, <2>1
  <2> QED BY <1>1, <1>2, <2>1, <2>2
<1>12. Apart(Train(c, o), OutOfSample(c, o), c.purge + c.embargo)
  <2> SUFFICES ASSUME NEW i \in Train(c, o), NEW j \in OutOfSample(c, o)
               PROVE  j - i > c.purge + c.embargo
    BY DEF Apart
  <2>1. i \in Int /\ i <= c.train + o - c.purge - 1
    BY <1>1, <1>2, <1>3, <1>4
  <2>2. OosStart(c, o) >= c.train + o + c.embargo
    BY <1>1, <1>2, <1>6
  <2>3. j \in Int /\ j >= OosStart(c, o)
    BY <1>1, <1>7, <1>8
  <2> QED BY <1>1, <1>2, <1>7, <2>1, <2>2, <2>3
<1>13. Train(c, o) # {}
  <2>1. start \in start .. c.train + o - c.purge - 1
    BY <1>1, <1>2, <1>3, <1>9
  <2> QED BY <2>1, <1>4
<1>14. OutOfSample(c, o) # {}
  <2>1. OosStart(c, o) \in OosStart(c, o) .. OosStart(c, o) + c.oos - 1
    BY <1>1, <1>7
  <2> QED BY <2>1, <1>8
<1>15. Train(c, o) \subseteq Block(0, c.n)
  <2> SUFFICES ASSUME NEW i \in Train(c, o)
               PROVE  i \in 0 .. c.n - 1
    BY DEF Block
  <2>1. i \in Int /\ 0 <= i /\ i <= c.train + o - c.purge - 1
    BY <1>1, <1>2, <1>3, <1>4
  <2>2. OosStart(c, o) >= c.train + o
    BY <1>1, <1>2, <1>6
  <2> QED BY <1>1, <1>2, <1>7, <2>1, <2>2
<1>16. Validation(c, o) \subseteq Block(0, c.n)
  <2> SUFFICES ASSUME NEW i \in Validation(c, o)
               PROVE  i \in 0 .. c.n - 1
    BY DEF Block
  <2>1. /\ c.validation # 0
        /\ i \in Int /\ 0 <= i
        /\ i <= c.train + o + c.embargo + c.validation - c.purge - 1
    BY <1>1, <1>2, <1>5
  <2> QED BY <1>1, <1>2, <1>6, <2>1
<1>17. OutOfSample(c, o) \subseteq Block(0, c.n)
  BY <1>1, <1>2, <1>7, <1>8 DEF Block
<1> QED BY <1>10, <1>11, <1>12, <1>13, <1>14, <1>15, <1>16, <1>17

(* The out-of-sample blocks of two windows are disjoint.                   *)
LEMMA OosLemma ==
    ASSUME NEW c \in WalkForwardCalls
    PROVE  OosOnce(c)
<1> SUFFICES ASSUME NEW o \in Windows(c), NEW p \in Windows(c), o < p, c.step >= c.oos
             PROVE  OutOfSample(c, o) \cap OutOfSample(c, p) = {}
  BY DEF OosOnce
<1>1. /\ c.n \in Nat /\ c.train \in Nat /\ c.validation \in Nat /\ c.oos \in Nat
      /\ c.step \in Nat /\ c.embargo \in Nat
  BY DEF WalkForwardCalls
<1>2. PICK k \in 0 .. c.n : o = k * c.step
  BY DEF Windows, Offsets
<1>3. PICK l \in 0 .. c.n : p = l * c.step
  BY DEF Windows, Offsets
<1>4. o \in Nat /\ p \in Nat
  BY <1>1, <1>2, <1>3
<1>5. k < l
  <2> SUFFICES ASSUME ~(k < l)
               PROVE  FALSE
    OBVIOUS
  <2>1. CASE l = k
    BY <2>1, <1>2, <1>3, <1>4
  <2>2. CASE l < k
    <3>1. k * c.step >= l * c.step + c.step
      BY <2>2, <1>1, MultiplesApart
    <3> QED BY <3>1, <1>1, <1>2, <1>3, <1>4
  <2> QED BY <2>1, <2>2, <1>1
<1>6. p >= o + c.step
  <2>1. l * c.step >= k * c.step + c.step
    BY <1>1, <1>5, MultiplesApart
  <2> QED BY <2>1, <1>2, <1>3
<1>7. OosStart(c, p) = OosStart(c, o) + (p - o) /\ OosStart(c, o) \in Nat
  BY <1>1, <1>4 DEF OosStart, ValidationEnd, ValidationStart, TrainEnd
<1> QED BY <1>1, <1>4, <1>6, <1>7 DEF OutOfSample, Block

(* chronological_split, however its boundaries are rounded.                *)
LEMMA ChronologicalLemma ==
    ASSUME NEW c \in ChronologicalCalls
    PROVE  ChronologicalSound(c)
<1>1. c.n \in Nat /\ c.purge \in Nat /\ c.embargo \in Nat
  BY DEF ChronologicalCalls
<1>2. TrainBoundary(c) \in Int /\ ValidationBoundary(c) \in Int
  BY DEF ChronologicalCalls, TrainBoundary, ValidationBoundary, Boundary
<1>3. Apart(ChronoTrain(c), ChronoValidation(c), c.purge + c.embargo)
  BY <1>1, <1>2 DEF Apart, ChronoTrain, ChronoValidation, Block
<1>4. Apart(ChronoValidation(c), ChronoOos(c), c.purge + c.embargo)
  BY <1>1, <1>2 DEF Apart, ChronoOos, ChronoValidation, Block
<1>5. ASSUME SplitMade(c)
      PROVE  ChronoTrain(c) \cup ChronoValidation(c) \cup ChronoOos(c) \subseteq Block(0, c.n)
  <2>1. PICK i \in ChronoTrain(c) : TRUE
    BY <1>5 DEF SplitMade
  <2>2. PICK j \in ChronoValidation(c) : TRUE
    BY <1>5 DEF SplitMade
  <2>3. PICK k \in ChronoOos(c) : TRUE
    BY <1>5 DEF SplitMade
  <2>4. 0 <= TrainBoundary(c) /\ ValidationBoundary(c) <= c.n /\ 0 <= ValidationBoundary(c)
        /\ TrainBoundary(c) <= c.n
    BY <1>1, <1>2, <2>1, <2>2, <2>3 DEF ChronoTrain, ChronoValidation, ChronoOos, Block
  <2> QED BY <1>1, <1>2, <2>4 DEF ChronoTrain, ChronoValidation, ChronoOos, Block
<1> QED BY <1>3, <1>4, <1>5 DEF ChronologicalSound

(* The fold a test observation lies in.  The first r of the folds have     *)
(* q + 1 observations, the others q.                                       *)
LEMMA FoldBounds ==
    ASSUME NEW c \in FoldCalls, FoldsMade(c)
    PROVE  /\ c.n \div c.splits \in Nat /\ c.n % c.splits \in Nat
           /\ c.n \div c.splits >= 1 /\ c.n % c.splits < c.splits
           /\ c.n = c.splits * (c.n \div c.splits) + (c.n % c.splits)
<1>1. c.n \in Nat /\ c.splits \in Nat /\ c.splits > 1 /\ c.splits <= c.n
  BY DEF FoldCalls, FoldsMade
<1>2. c.n \div c.splits \in Nat /\ c.n % c.splits \in 0 .. c.splits - 1
  BY <1>1
<1>3. c.n = c.splits * (c.n \div c.splits) + (c.n % c.splits)
  BY <1>1
<1>4. c.n \div c.splits # 0
  BY <1>1, <1>2, <1>3
<1> QED BY <1>1, <1>2, <1>3, <1>4

LEMMA TestStartType ==
    ASSUME NEW c \in FoldCalls, FoldsMade(c), NEW k \in Nat
    PROVE  TestStart(c, k) \in Nat
<1>1. c.n \div c.splits \in Nat /\ c.n % c.splits \in Nat
  BY FoldBounds
<1>2. k * (c.n \div c.splits) \in Nat
  BY <1>1
<1> QED BY <1>1, <1>2 DEF TestStart, Smaller

LEMMA TestStartMonotone ==
    ASSUME NEW c \in FoldCalls, FoldsMade(c), NEW k \in Nat, NEW l \in Nat, k < l
    PROVE  TestStart(c, k) < TestStart(c, l)
<1> DEFINE q == c.n \div c.splits
           r == c.n % c.splits
<1>1. q \in Nat /\ q >= 1 /\ r \in Nat
  BY FoldBounds
<1>2. TestStart(c, k) = k * q + Smaller(k, r) /\ TestStart(c, l) = l * q + Smaller(l, r)
  BY DEF TestStart
<1> HIDE DEF q, r
<1>3. l * q >= k * q + q
  BY <1>1, MultiplesApart
<1>4. k * q \in Nat /\ l * q \in Nat
  BY <1>1
<1>5. Smaller(k, r) <= Smaller(l, r) /\ Smaller(k, r) \in Nat /\ Smaller(l, r) \in Nat
  BY <1>1 DEF Smaller
<1> QED BY <1>1, <1>2, <1>3, <1>4, <1>5

(* Every observation is in a fold.                                         *)
LEMMA FoldsCover ==
    ASSUME NEW c \in FoldCalls, FoldsMade(c), NEW i \in Block(0, c.n)
    PROVE  \E k \in Folds(c) : TestStart(c, k) <= i /\ i < TestStart(c, k + 1)
<1> DEFINE q == c.n \div c.splits
           r == c.n % c.splits
           m == c.splits
<1>1. q \in Nat /\ q >= 1 /\ r \in Nat /\ r < m /\ c.n = m * q + r /\ m \in Nat
  BY FoldBounds DEF FoldCalls
<1>2. \A k : TestStart(c, k) = k * q + Smaller(k, r)
  BY DEF TestStart
<1>3. i \in Nat /\ i < m * q + r
  BY <1>1 DEF Block
<1>4. Folds(c) = 0 .. m - 1
  BY DEF Folds
<1> HIDE DEF q, r, m
<1>5. CASE i < r * (q + 1)
  <2> DEFINE k == i \div (q + 1)
             x == i % (q + 1)
  <2>1. k \in Nat /\ x \in Nat /\ x < q + 1 /\ i = (q + 1) * k + x
    BY <1>1, <1>3
  <2> HIDE DEF k, x
  <2>2. k < r
    <3> SUFFICES ASSUME k >= r
                 PROVE  FALSE
      BY <1>1, <2>1
    <3>1. k = r \/ k * (q + 1) >= r * (q + 1) + (q + 1)
      BY <1>1, <2>1, MultiplesApart
    <3>2. k * (q + 1) = (q + 1) * k
      BY <1>1, <2>1
    <3> QED BY <3>1, <3>2, <1>1, <1>3, <1>5, <2>1
  <2>3. (q + 1) * k = k * q + k /\ (k + 1) * q = k * q + q /\ k * q \in Nat
    BY <1>1, <2>1
  <2>4. TestStart(c, k) = k * q + k /\ TestStart(c, k + 1) = (k + 1) * q + (k + 1)
    BY <1>1, <1>2, <2>1, <2>2 DEF Smaller
  <2>5. TestStart(c, k) <= i /\ i < TestStart(c, k + 1)
    BY <1>1, <1>3, <2>1, <2>3, <2>4
  <2>6. k \in Folds(c)
    BY <1>1, <1>4, <2>1, <2>2
  <2> QED BY <2>5, <2>6
<1>6. CASE i >= r * (q + 1)
  <2>1. r * (q + 1) \in Nat /\ r * (q + 1) = r * q + r /\ r * q \in Nat
    BY <1>1
  <2> DEFINE y == i - r * (q + 1)
             d == y \div q
             x == y % q
  <2>2. y \in Nat /\ i = r * q + r + y
    BY <1>3, <1>6, <2>1
  <2> HIDE DEF y
  <2>3. d \in Nat /\ x \in Nat /\ x < q /\ y = q * d + x
    BY <1>1, <2>2
  <2> HIDE DEF d, x
  <2> DEFINE k == r + d
  <2>4. k \in Nat /\ k * q = r * q + q * d /\ k * q \in Nat /\ (k + 1) * q = k * q + q
    BY <1>1, <2>3
  <2>5. k >= r
    BY <1>1, <2>3
  <2> HIDE DEF k
  <2>6. TestStart(c, k) = k * q + r /\ TestStart(c, k + 1) = (k + 1) * q + r
    BY <1>1, <1>2, <2>4, <2>5 DEF Smaller
  <2>7. TestStart(c, k) <= i /\ i < TestStart(c, k + 1)
    BY <1>1, <1>3, <2>1, <2>2, <2>3, <2>4, <2>6
  <2>8. k < m
    <3> SUFFICES ASSUME k >= m
                 PROVE  FALSE
      BY <1>1, <2>4
    <3>1. k = m \/ k * q >= m * q + q
      BY <1>1, <2>4, MultiplesApart
    <3>2. m * q \in Nat
      BY <1>1
    <3> QED BY <3>1, <3>2, <1>1, <1>3, <2>4, <2>6, <2>7
  <2>9. k \in Folds(c)
    BY <1>1, <1>4, <2>4, <2>8
  <2> QED BY <2>7, <2>9
<1>7. r * (q + 1) \in Nat
  BY <1>1
<1> QED BY <1>3, <1>5, <1>6, <1>7

(* purged_kfold: the gaps around a fold, and every observation tested once. *)
LEMMA FoldLemma ==
    ASSUME NEW c \in FoldCalls
    PROVE  FoldsSound(c)
<1> SUFFICES ASSUME FoldsMade(c)
             PROVE  /\ \A k \in Folds(c) : \A i \in FoldTrain(c, k), j \in Test(c, k) :
                          IF i < j THEN j - i > c.purge ELSE i - j > c.embargo
                    /\ \A i \in Block(0, c.n) :
                          \E k \in Folds(c) : /\ i \in Test(c, k)
                                              /\ \A l \in Folds(c) \ {k} : i \notin Test(c, l)
  BY DEF FoldsSound
<1>1. c.n \in Nat /\ c.splits \in Nat /\ c.purge \in Nat /\ c.embargo \in Nat
  BY DEF FoldCalls
<1>2. \A k \in Folds(c) : k \in Nat /\ k + 1 \in Nat
  BY <1>1 DEF Folds
<1>3. \A k \in Folds(c) : TestStart(c, k) \in Nat /\ TestStart(c, k + 1) \in Nat
  BY <1>2, TestStartType
<1>4. ASSUME NEW k \in Folds(c), NEW i \in FoldTrain(c, k), NEW j \in Test(c, k)
      PROVE  IF i < j THEN j - i > c.purge ELSE i - j > c.embargo
  BY <1>1, <1>3, <1>4 DEF FoldTrain, Test, Excluded, Block, Larger, Smaller
<1>5. ASSUME NEW i \in Block(0, c.n)
      PROVE  \E k \in Folds(c) : /\ i \in Test(c, k)
                                 /\ \A l \in Folds(c) \ {k} : i \notin Test(c, l)
  <2>1. PICK k \in Folds(c) : TestStart(c, k) <= i /\ i < TestStart(c, k + 1)
    BY <1>5, FoldsCover
  <2>2. i \in Nat
    BY <1>1 DEF Block
  <2>3. i \in Test(c, k)
    BY <1>3, <2>1, <2>2 DEF Test, Block
  <2>4. ASSUME NEW l \in Folds(c) \ {k}
        PROVE  i \notin Test(c, l)
    <3>1. CASE l < k
      <4>1. TestStart(c, l + 1) <= TestStart(c, k)
        <5>1. CASE l + 1 = k
          BY <5>1, <1>3
        <5>2. CASE l + 1 < k
          BY <5>2, <1>2, <1>3, TestStartMonotone
        <5> QED BY <5>1, <5>2, <3>1, <1>2
      <4> QED BY <4>1, <1>3, <2>1, <2>2 DEF Test, Block
    <3>2. CASE k < l
      <4>1. TestStart(c, k + 1) <= TestStart(c, l)
        <5>1. CASE k + 1 = l
          BY <5>1, <1>3
        <5>2. CASE k + 1 < l
          BY <5>2, <1>2, <1>3, TestStartMonotone
        <5> QED BY <5>1, <5>2, <3>2, <1>2
      <4> QED BY <4>1, <1>3, <2>1, <2>2 DEF Test, Block
    <3> QED BY <3>1, <3>2, <2>4, <1>2
  <2> QED BY <2>3, <2>4
<1> QED BY <1>4, <1>5

(* What walk_forward_splits, purged_kfold and chronological_split return   *)
(* is free of leaks and tests nothing twice, for every call they accept.   *)
THEOREM SplitsAreSound == SplitSpec => []SplitsSound
<1> DEFINE Kinds == request = Idle \/ request \in Requests
<1>1. SplitInit => Kinds
  BY DEF SplitInit
<1>2. Kinds /\ [SplitNext]_request => Kinds'
  BY DEF SplitNext, Ask, Answered
<1>3. Kinds => SplitsSound
  <2> SUFFICES ASSUME Kinds
               PROVE  SplitsSound
    OBVIOUS
  <2>1. CASE request = Idle
    BY <2>1 DEF Idle, SplitsSound
  <2>2. CASE request \in WalkForwardCalls
    <3>1. request.kind = "walk"
      BY <2>2 DEF WalkForwardCalls
    <3> QED BY <3>1, <2>2, WalkForwardLemma, OosLemma DEF SplitsSound
  <2>3. CASE request \in FoldCalls
    <3>1. request.kind = "fold"
      BY <2>3 DEF FoldCalls
    <3> QED BY <3>1, <2>3, FoldLemma DEF SplitsSound
  <2>4. CASE request \in ChronologicalCalls
    <3>1. request.kind = "chrono"
      BY <2>4 DEF ChronologicalCalls
    <3> QED BY <3>1, <2>4, ChronologicalLemma DEF SplitsSound
  <2> QED BY <2>1, <2>2, <2>3, <2>4, RequestsAssumption
<1> QED BY <1>1, <1>2, <1>3, PTL DEF SplitSpec

-----------------------------------------------------------------------------
(* Certification.                                                          *)

(* An attempt in one of these places issues and promotes nothing more; it  *)
(* may still write a row or a line of the log.                             *)
Past == {"export", "echo", "fail", "failLog", "restore", "unwind", "exit", "dead"}
Writing == {"row", "log"}
Judging == {"certify", "promote", "produce", "artifact"}
Places == {"idle", "open", "audit", "acquire", "collect", "release"}
          \cup Past \cup Writing \cup Judging

(* The stage a process writes next, where its place decides it.            *)
StageAt(p, n) ==
    /\ p \in {"idle", "open"} => n = 1
    /\ p = "audit" => n = 3
    /\ p = "acquire" => n = 4
    /\ p = "collect" => n = 5
    /\ p \in Judging \cup {"release"} => n = 6
    /\ p \in Writing => n <= 7

(* Attempt a issued the certificates of the first n capabilities.          *)
Issued(a, n) == \A j \in 1..n : certs[Capabilities[j]].by = a
IssuedAll(a) == Issued(a, Len(Capabilities))

(* What the database owes attempt a at place p, with stage n to write next *)
(* and capability k to judge.                                              *)
Standing(a, p, n, k) ==
    /\ StageAt(p, n)
    /\ p \notin Past /\ n <= 5 => k = 1
    /\ p \in Judging => k <= Len(Capabilities)
    /\ p = "certify" => Issued(a, k - 1)
    /\ p \in Judging \ {"certify"} => Issued(a, k)
    /\ p = "release" => IssuedAll(a)
    /\ p \in Writing /\ n >= 6 => IssuedAll(a)

Retired(p, n) ==
    /\ p \in Past \cup Writing \cup {"release"}
    /\ p \in Writing => n >= 6

(* Attempt b issued every certificate and will promote nothing more: no    *)
(* step of any attempt changes the certificates and promotions again.      *)
Settled(b) == b \in Attempts /\ IssuedAll(b) /\ Retired(pc[b], at[b])

LauncherKnown ==
    /\ lau = [at |-> lau.at, of |-> lau.of]
    /\ lau.at # "idle" => lau.of \in Attempts

CertTyped ==
    /\ pc \in [Attempts -> Places]
    /\ at \in [Attempts -> 1..8]
    /\ cap \in [Attempts -> 1..(Len(Capabilities) + 1)]
    /\ how \in [Attempts -> {Nothing, "FAILED", "CANCELED"}]
    /\ certs = [c \in Caps |-> certs[c]]
    /\ promos \in [Caps -> BOOLEAN]
    /\ prod = [c \in Caps |-> prod[c]]
    /\ file = [records |-> file.records, promotions |-> file.promotions,
               manifest |-> file.manifest, run |-> file.run, marker |-> file.marker]
    /\ exp = [a \in Attempts |-> [at |-> exp[a].at, rows |-> exp[a].rows, sha |-> exp[a].sha]]
    /\ LauncherKnown

(* What a promotion and a production event rest on.                        *)
CertBacking ==
    /\ \A c \in Caps :
         /\ certs[c].by = Nothing => ~PromoteGates(certs[c])
         /\ promos[c] => PromoteGates(certs[c])
         /\ prod[c] # Nothing => promos[c] /\ prod[c] = certs[c].by
    /\ \A a \in Attempts : pc[a] = "produce" => promos[Capability(a)]

(* An export under way and a manifest on disk are of a settled attempt.    *)
Truthful ==
    /\ row.status = "COMPLETED" => Settled(row.by)
    /\ \A a \in Attempts : exp[a].at # "idle" =>
         /\ Settled(exp[a].rows.by)
         /\ exp[a].rows.certs = certs /\ exp[a].rows.promos = promos
         /\ exp[a].at # "records" => file.records = certs /\ file.promotions = promos
    /\ file.manifest # NoManifest =>
         /\ Settled(file.manifest.run)
         /\ file.manifest.records = certs /\ file.manifest.promotions = promos

CertInv ==
    /\ CertTyped
    /\ \A a \in Attempts : Standing(a, pc[a], at[a], cap[a])
    /\ CertBacking
    /\ Truthful
-----------------------------------------------------------------------------
USE DEF LauncherKnown

(* Every capability is at a place of the sequence, and conversely.         *)
LEMMA CapsOf ==
    /\ Len(Capabilities) \in Nat \ {0}
    /\ DOMAIN Capabilities = 1..Len(Capabilities)
    /\ \A i \in 1..Len(Capabilities) : Capabilities[i] \in Caps
    /\ \A c \in Caps : \E i \in 1..Len(Capabilities) : c = Capabilities[i]
<1>1. Len(Capabilities) \in Nat \ {0} /\ DOMAIN Capabilities = 1..Len(Capabilities)
  BY CapabilitiesAssumption
<1> QED
  BY <1>1 DEF Caps

LEMMA IssuedEvery ==
    ASSUME NEW b, IssuedAll(b)
    PROVE  \A c \in Caps : certs[c].by = b
  BY CapsOf DEF IssuedAll, Issued

(* Only one attempt can be settled.                                        *)
LEMMA SettledOnce ==
    ASSUME NEW b, NEW d, Settled(b), Settled(d)
    PROVE  b = d
<1>1. PICK c \in Caps : TRUE
  BY CapsOf
<1> QED
  BY <1>1, IssuedEvery DEF Settled

LEMMA CertStarts == CertInit => CertInv
<1> SUFFICES ASSUME CertInit PROVE CertInv
  OBVIOUS
<1>1. /\ pc = [a \in Attempts |-> "idle"] /\ at = [a \in Attempts |-> 1]
      /\ cap = [a \in Attempts |-> 1] /\ how = [a \in Attempts |-> Nothing]
      /\ row.status = Nothing /\ lau = [at |-> "idle", of |-> Nothing]
      /\ certs = [c \in Caps |-> NoCert] /\ promos = [c \in Caps |-> FALSE]
      /\ prod = [c \in Caps |-> Nothing]
      /\ exp = [a \in Attempts |-> NoExport] /\ file.manifest = NoManifest
  BY DEF CertInit, NoRows
<1>2. CertTyped
  <2>1. file = [records |-> file.records, promotions |-> file.promotions,
                manifest |-> file.manifest, run |-> file.run, marker |-> file.marker]
    BY DEF CertInit
  <2>2. exp = [a \in Attempts |-> [at |-> exp[a].at, rows |-> exp[a].rows, sha |-> exp[a].sha]]
    BY <1>1 DEF NoExport
  <2> QED
    BY <1>1, <2>1, <2>2, CapsOf DEF CertTyped, Places
<1>3. \A a \in Attempts : Standing(a, pc[a], at[a], cap[a])
  BY <1>1 DEF Standing, StageAt, Judging, Writing
<1>4. CertBacking
  BY <1>1 DEF CertBacking, PromoteGates, NoCert, Nothing
<1>5. Truthful
  BY <1>1 DEF Truthful, NoExport, Nothing
<1> QED
  BY <1>2, <1>3, <1>4, <1>5 DEF CertInv

-----------------------------------------------------------------------------
(* Attempt a moves to place p, stage n and capability k.                   *)
Moved(a, p, n, k) ==
    /\ pc' = [pc EXCEPT ![a] = p]
    /\ at' = [at EXCEPT ![a] = n]
    /\ cap' = [cap EXCEPT ![a] = k]
    /\ how' \in [Attempts -> {Nothing, "FAILED", "CANCELED"}]

(* It leaves the evidence alone.                                           *)
LEMMA Moves ==
    ASSUME CertInv, NEW a \in Attempts, NEW STATE p, p \in Places,
           NEW STATE n, n \in 1..8, NEW STATE k, k \in 1..(Len(Capabilities) + 1),
           Moved(a, p, n, k),
           Standing(a, p, n, k), p # "produce",
           Retired(pc[a], at[a]) => Retired(p, n),
           UNCHANGED <<certs, promos, prod, file>>,
           row' = row \/ row'.status # "COMPLETED" \/ (row'.by = a /\ IssuedAll(a) /\ Retired(p, n)),
           exp' = exp \/ exp' = [exp EXCEPT ![a] = NoExport],
           LauncherKnown'
    PROVE  CertInv'
<1>1. CertTyped'
  <2>1. exp' = [d \in Attempts |-> [at |-> exp'[d].at, rows |-> exp'[d].rows, sha |-> exp'[d].sha]]
    <3>1. CASE exp' = exp
      BY <3>1 DEF CertInv, CertTyped
    <3>2. CASE exp' = [exp EXCEPT ![a] = NoExport]
      <4>1. exp' = [d \in Attempts |-> IF d = a THEN NoExport ELSE exp[d]]
        BY <3>2 DEF CertInv, CertTyped
      <4>2. \A d \in Attempts :
              exp'[d] = [at |-> exp'[d].at, rows |-> exp'[d].rows, sha |-> exp'[d].sha]
        BY <4>1 DEF CertInv, CertTyped, NoExport
      <4> QED
        BY <4>1, <4>2
    <3> QED
      BY <3>1, <3>2
  <2>2. /\ pc' \in [Attempts -> Places] /\ at' \in [Attempts -> 1..8]
        /\ cap' \in [Attempts -> 1..(Len(Capabilities) + 1)]
        /\ how' \in [Attempts -> {Nothing, "FAILED", "CANCELED"}]
    BY DEF CertInv, CertTyped, Moved
  <2> QED
    BY <2>1, <2>2 DEF CertInv, CertTyped
<1>2. /\ pc'[a] = p /\ at'[a] = n /\ cap'[a] = k
      /\ \A d \in Attempts \ {a} : pc'[d] = pc[d] /\ at'[d] = at[d] /\ cap'[d] = cap[d]
  BY DEF CertInv, CertTyped, Moved
<1>3. ASSUME NEW d \in Attempts PROVE Standing(d, pc[d], at[d], cap[d])'
  <2>1. Standing(d, pc'[d], at'[d], cap'[d])
    BY <1>2 DEF CertInv
  <2> QED
    BY <2>1 DEF Standing, Issued, IssuedAll
<1>4. CertBacking'
  <2>1. ASSUME NEW d \in Attempts, pc'[d] = "produce" PROVE promos'[Capability(d)']
    <3>1. d # a /\ pc[d] = "produce" /\ cap'[d] = cap[d]
      BY <2>1, <1>2
    <3> QED
      BY <3>1 DEF CertInv, CertBacking, Capability
  <2> QED
    BY <2>1 DEF CertInv, CertBacking
<1>5. ASSUME NEW d, Settled(d) PROVE Settled(d)'
  <2>1. d \in Attempts /\ IssuedAll(d)' /\ Retired(pc'[d], at'[d])
    BY <1>2, <1>5 DEF Settled, IssuedAll, Issued
  <2> QED
    BY <2>1 DEF Settled
<1>6. Truthful'
  <2>1. row'.status = "COMPLETED" => Settled(row.by)'
    <3>1. CASE row' = row
      BY <3>1, <1>5 DEF CertInv, Truthful
    <3>2. CASE row'.by = a /\ IssuedAll(a) /\ Retired(p, n)
      BY <3>2, <1>2 DEF Settled, IssuedAll, Issued
    <3> QED
      BY <3>1, <3>2
  <2>2. ASSUME NEW d \in Attempts, exp'[d].at # "idle"
        PROVE  exp'[d] = exp[d]
    <3>1. CASE exp' = exp
      BY <3>1
    <3>2. CASE exp' = [exp EXCEPT ![a] = NoExport]
      <4>1. exp' = [e \in Attempts |-> IF e = a THEN NoExport ELSE exp[e]]
        BY <3>2 DEF CertInv, CertTyped
      <4> QED
        BY <2>2, <4>1 DEF NoExport
    <3> QED
      BY <3>1, <3>2
  <2>3. file'.manifest # NoManifest =>
         /\ Settled(file.manifest.run)'
         /\ file'.manifest.records = certs' /\ file'.manifest.promotions = promos'
    BY <1>5 DEF CertInv, Truthful
  <2>4. ASSUME NEW d \in Attempts, exp'[d].at # "idle"
        PROVE  /\ Settled(exp[d].rows.by)'
               /\ exp'[d].rows.certs = certs' /\ exp'[d].rows.promos = promos'
               /\ exp'[d].at # "records" => file'.records = certs' /\ file'.promotions = promos'
    <3>1. exp'[d] = exp[d] /\ exp[d].at # "idle"
      BY <2>2, <2>4
    <3>2. Settled(exp[d].rows.by)
      BY <3>1 DEF CertInv, Truthful
    <3>3. Settled(exp[d].rows.by)'
      <4> DEFINE b == exp[d].rows.by
      <4>1. b' = b
        BY <3>1
      <4>2. PICK e : e = b
        OBVIOUS
      <4>3. Settled(e)'
        BY <4>2, <3>2, <1>5
      <4> QED
        BY <4>1, <4>2, <4>3 DEF Settled
    <3> QED
      BY <3>1, <3>3 DEF CertInv, Truthful
  <2> QED
    BY <2>1, <2>3, <2>4 DEF Truthful
<1> QED
  BY <1>1, <1>3, <1>4, <1>6 DEF CertInv

(* The launcher moves, a lease expires: attempts and evidence are as       *)
(* before.                                                                 *)
LEMMA Rests ==
    ASSUME CertInv,
           UNCHANGED <<pc, at, cap, how, row, certs, promos, prod, file, exp>>,
           LauncherKnown'
    PROVE  CertInv'
<1>1. CertTyped'
  BY DEF CertInv, CertTyped
<1>2. (\A a \in Attempts : Standing(a, pc[a], at[a], cap[a]))'
  BY DEF CertInv, Standing, Issued, IssuedAll
<1>3. CertBacking'
  BY DEF CertInv, CertBacking, Capability
<1>4. Truthful'
  BY DEF CertInv, Truthful, Settled, IssuedAll, Issued
<1> QED
  BY <1>1, <1>2, <1>3, <1>4 DEF CertInv

(* What a step finds in its process.                                       *)
LEMMA CertTypes ==
    ASSUME CertInv, NEW a \in Attempts
    PROVE  /\ pc[a] \in Places /\ at[a] \in 1..8
           /\ cap[a] \in 1..(Len(Capabilities) + 1)
           /\ how[a] \in {Nothing, "FAILED", "CANCELED"}
           /\ pc = [pc EXCEPT ![a] = pc[a]] /\ at = [at EXCEPT ![a] = at[a]]
           /\ cap = [cap EXCEPT ![a] = cap[a]] /\ how = [how EXCEPT ![a] = how[a]]
           /\ Standing(a, pc[a], at[a], cap[a])
           /\ LauncherKnown
  BY DEF CertInv, CertTyped

(* A place reached by an exception is past everything.                     *)
LEMMA PastStands ==
    ASSUME NEW a, NEW STATE p, p \in Past, NEW STATE n, n \in 1..8, NEW STATE k
    PROVE  Standing(a, p, n, k) /\ Retired(p, n) /\ p \in Places /\ p # "produce"
  BY DEF Standing, StageAt, Retired, Past, Places, Judging, Writing

(* A move that changes the place only.                                     *)
LEMMA Goes ==
    ASSUME CertInv, NEW a \in Attempts, NEW STATE p, p \in Places, p # "produce",
           pc' = [pc EXCEPT ![a] = p], UNCHANGED <<at, cap>>,
           how' = how \/ \E h \in {"FAILED", "CANCELED"} : how' = [how EXCEPT ![a] = h],
           Standing(a, p, at[a], cap[a]), Retired(pc[a], at[a]) => Retired(p, at[a]),
           UNCHANGED <<certs, promos, prod, file>>,
           row' = row \/ row'.status # "COMPLETED"
             \/ (row'.by = a /\ IssuedAll(a) /\ Retired(p, at[a])),
           exp' = exp \/ exp' = [exp EXCEPT ![a] = NoExport],
           LauncherKnown'
    PROVE  CertInv'
<1>1. /\ at' = [at EXCEPT ![a] = at[a]] /\ at[a] \in 1..8
      /\ cap' = [cap EXCEPT ![a] = cap[a]] /\ cap[a] \in 1..(Len(Capabilities) + 1)
  BY CertTypes
<1>2. how' \in [Attempts -> {Nothing, "FAILED", "CANCELED"}]
  BY DEF CertInv, CertTyped
<1>3. Moved(a, p, at[a], cap[a])
  BY <1>1, <1>2 DEF Moved
<1> QED
  BY <1>1, <1>3, Moves

LEMMA Raises ==
    ASSUME CertInv, NEW a \in Attempts, NEW status \in {"FAILED", "CANCELED"},
           Raise(a, status), UNCHANGED <<at, cap, row, certs, promos, prod, file>>,
           exp' = exp \/ exp' = [exp EXCEPT ![a] = NoExport],
           LauncherKnown'
    PROVE  CertInv'
<1>1. PICK p \in {"fail", "restore"} :
        pc' = [pc EXCEPT ![a] = p] /\ how' = [how EXCEPT ![a] = status]
  BY DEF Raise, Goto
<1>2. p \in Past
  BY <1>1 DEF Past
<1>3. Standing(a, p, at[a], cap[a]) /\ Retired(p, at[a]) /\ p \in Places /\ p # "produce"
  BY <1>2, CertTypes, PastStands
<1> QED
  BY <1>1, <1>3, CertTypes, Goes

LEMMA Ends ==
    ASSUME CertInv, NEW a \in Attempts, NEW label \in {"exit", "dead"},
           End(a, label), UNCHANGED <<row, certs, promos, prod, file>>,
           exp' = exp \/ exp' = [exp EXCEPT ![a] = NoExport],
           LauncherKnown'
    PROVE  CertInv'
<1>1. label \in Past
  BY DEF Past
<1>2. Standing(a, label, 1, 1) /\ Retired(label, 1) /\ label \in Places /\ label # "produce"
  BY <1>1, PastStands
<1>3. 1 \in 1..8 /\ 1 \in 1..(Len(Capabilities) + 1)
  BY CapsOf
<1>4. how' \in [Attempts -> {Nothing, "FAILED", "CANCELED"}]
  BY DEF End, CertInv, CertTyped
<1>5. Moved(a, label, 1, 1)
  BY <1>4 DEF End, Goto, Moved
<1> QED
  BY <1>2, <1>3, <1>5, Moves

LEMMA InterruptedKeeps ==
    ASSUME CertInv, NEW a \in Attempts, NEW status \in {"FAILED", "CANCELED"},
           Interrupted(a, status), UNCHANGED <<row, certs, promos, prod, file>>,
           LauncherKnown'
    PROVE  CertInv'
<1>1. exp' = [exp EXCEPT ![a] = NoExport]
  BY DEF Interrupted
<1>2. CASE Raise(a, status) /\ UNCHANGED <<at, cap, grp>>
  BY <1>1, <1>2, Raises
<1>3. CASE Goto(a, "restore") /\ UNCHANGED <<at, cap, how, grp>>
  <2>1. "restore" \in Past
    BY DEF Past
  <2>2. /\ Standing(a, "restore", at[a], cap[a]) /\ Retired("restore", at[a])
        /\ "restore" \in Places /\ "restore" # "produce"
    BY <2>1, CertTypes, PastStands
  <2> QED
    BY <1>1, <1>3, <2>2, CertTypes, Goes DEF Goto
<1>4. CASE End(a, "dead")
  BY <1>1, <1>4, Ends
<1> QED
  BY <1>2, <1>3, <1>4 DEF Interrupted

(* The steps of an attempt that leave certificates, promotions, files and  *)
(* exports alone.                                                          *)
LEMMA StartKeeps ==
    ASSUME CertInv, NEW a \in Attempts, StartDirect(a) \/ Launch(a)
    PROVE  CertInv'
<1>1. /\ pc[a] = "idle" /\ pc' = [pc EXCEPT ![a] = "open"]
      /\ UNCHANGED <<at, cap, how, database, file, exp>>
      /\ LauncherKnown'
  BY CertTypes DEF StartDirect, Launch, Start, Goto
<1>2. Standing(a, "open", at[a], cap[a]) /\ ~Retired(pc[a], at[a])
  BY <1>1, CertTypes DEF Standing, StageAt, Retired, Judging, Writing, Past
<1>3. "open" \in Places
  BY DEF Places
<1> QED
  BY <1>1, <1>2, <1>3, CertTypes, Goes DEF database

LEMMA OpenKeeps ==
    ASSUME CertInv, NEW a \in Attempts, Open(a)
    PROVE  CertInv'
<1>1. /\ pc[a] = "open" /\ pc' = [pc EXCEPT ![a] = "row"]
      /\ UNCHANGED <<at, cap, how, certs, promos, prod, file, exp, lau>>
      /\ row'.status = "STARTING"
  BY DEF Open, Goto
<1>2. Standing(a, "row", at[a], cap[a]) /\ ~Retired(pc[a], at[a])
  BY <1>1, CertTypes DEF Standing, StageAt, Retired, Judging, Writing, Past
<1>3. "row" \in Places
  BY DEF Places, Writing
<1> QED
  BY <1>1, <1>2, <1>3, CertTypes, Goes

LEMMA StageRowKeeps ==
    ASSUME CertInv, NEW a \in Attempts, StageRow(a)
    PROVE  CertInv'
<1>1. /\ pc[a] = "row" /\ pc' = [pc EXCEPT ![a] = "log"]
      /\ UNCHANGED <<at, cap, how, certs, promos, prod, file, exp, lau>>
      /\ row' = [by |-> a, status |-> StageStatus(StageNames[at[a]]),
                 stage |-> StageNames[at[a]]]
  BY DEF StageRow, Goto
<1>2. /\ Standing(a, "log", at[a], cap[a])
      /\ Retired(pc[a], at[a]) => Retired("log", at[a])
      /\ at[a] \in 1..7 /\ (at[a] >= 6 => IssuedAll(a))
  BY <1>1, CertTypes DEF Standing, StageAt, Retired, Judging, Writing, Past
<1>3. "log" \in Places
  BY DEF Places, Writing
<1>4. row'.status = "COMPLETED" => at[a] = 7
  BY <1>1, <1>2 DEF StageStatus, StageNames
<1>5. row'.status = "COMPLETED" => row'.by = a /\ IssuedAll(a) /\ Retired("log", at[a])
  BY <1>1, <1>2, <1>4 DEF Retired, Writing
<1> QED
  BY <1>1, <1>2, <1>3, <1>5, CertTypes, Goes

LEMMA StageLogKeeps ==
    ASSUME CertInv, NEW a \in Attempts, StageLog(a)
    PROVE  CertInv'
<1>1. /\ pc[a] = "log" /\ pc' = [pc EXCEPT ![a] = After(StageNames[at[a]])]
      /\ at' = [at EXCEPT ![a] = at[a] + 1]
      /\ UNCHANGED <<cap, how, database, file, exp, lau>>
  BY DEF StageLog, Goto
<1>2. at[a] \in 1..7 /\ Standing(a, "log", at[a], cap[a])
  BY <1>1, CertTypes DEF Standing, StageAt, Writing
<1>3. PICK p : p = After(StageNames[at[a]])
  OBVIOUS
<1>4. p = IF at[a] = 2 THEN "audit" ELSE IF at[a] = 3 THEN "acquire"
          ELSE IF at[a] = 4 THEN "collect" ELSE IF at[a] = 5 THEN "certify"
          ELSE IF at[a] = 7 THEN "export" ELSE "row"
  BY <1>2, <1>3 DEF After, StageNames
<1>5. at[a] <= 5 => cap[a] = 1
  BY <1>2 DEF Standing, Past
<1>6. at[a] >= 6 => IssuedAll(a)
  BY <1>2 DEF Standing, Writing
<1>7. Standing(a, p, at[a] + 1, cap[a])
  <2>1. StageAt(p, at[a] + 1)
    BY <1>2, <1>4 DEF StageAt, Judging, Writing
  <2>2. p \notin Past /\ at[a] + 1 <= 5 => cap[a] = 1
    BY <1>2, <1>5
  <2>3. p = "certify" => cap[a] = 1 /\ Issued(a, cap[a] - 1)
    BY <1>2, <1>4, <1>5 DEF Issued
  <2>4. /\ p \notin Judging \ {"certify"} /\ p # "release"
        /\ (p \in Judging => p = "certify")
        /\ p \in Writing /\ at[a] + 1 >= 6 => IssuedAll(a)
    BY <1>2, <1>4, <1>6 DEF Judging, Writing
  <2> QED
    BY <2>1, <2>2, <2>3, <2>4, CapsOf DEF Standing
<1>8. Retired(pc[a], at[a]) => Retired(p, at[a] + 1)
  BY <1>1, <1>2, <1>4 DEF Retired, Past, Writing
<1>9. p \in Places /\ p # "produce"
  BY <1>4 DEF Places, Past, Judging, Writing
<1>10. at[a] + 1 \in 1..8
  BY <1>2
<1>11. /\ cap' = [cap EXCEPT ![a] = cap[a]] /\ cap[a] \in 1..(Len(Capabilities) + 1)
       /\ how' \in [Attempts -> {Nothing, "FAILED", "CANCELED"}]
       /\ UNCHANGED <<certs, promos, prod, file>> /\ row' = row /\ exp' = exp
       /\ LauncherKnown'
  BY <1>1, CertTypes DEF CertInv, CertTyped, database
<1>12. Moved(a, p, at[a] + 1, cap[a])
  BY <1>1, <1>3, <1>11 DEF Moved
<1> QED
  BY <1>1, <1>7, <1>8, <1>9, <1>10, <1>11, <1>12, Moves

(* Audit, acquisition and collection go on to a stage or raise.            *)
LEMMA AuditKeeps ==
    ASSUME CertInv, NEW a \in Attempts, Audit(a) \/ Acquire(a) \/ Collect(a)
    PROVE  CertInv'
<1>1. /\ pc[a] \in {"audit", "acquire", "collect"}
      /\ UNCHANGED <<at, cap, row, certs, promos, prod, file, exp, lau>>
      /\ \/ Raise(a, "FAILED")
         \/ pc' = [pc EXCEPT ![a] = "row"] /\ UNCHANGED how
  BY DEF Audit, Acquire, Collect, Goto, database
<1>2. CASE Raise(a, "FAILED")
  BY <1>1, <1>2, CertTypes, Raises
<1>3. CASE pc' = [pc EXCEPT ![a] = "row"] /\ UNCHANGED how
  <2>1. Standing(a, "row", at[a], cap[a]) /\ ~Retired(pc[a], at[a])
    BY <1>1, CertTypes DEF Standing, StageAt, Retired, Judging, Writing, Past
  <2>2. "row" \in Places
    BY DEF Places, Writing
  <2> QED
    BY <1>1, <1>3, <2>1, <2>2, CertTypes, Goes
<1> QED
  BY <1>1, <1>2, <1>3

LEMMA WriteArtifactKeeps ==
    ASSUME CertInv, NEW a \in Attempts, WriteArtifact(a)
    PROVE  CertInv'
<1>1. /\ pc[a] = "artifact"
      /\ pc' = [pc EXCEPT ![a] = IF cap[a] = Len(Capabilities) THEN "release" ELSE "certify"]
      /\ cap' = [cap EXCEPT ![a] = cap[a] + 1]
      /\ UNCHANGED <<at, how, database, file, exp, lau>>
  BY DEF WriteArtifact, Goto
<1>2. at[a] = 6 /\ cap[a] \in 1..Len(Capabilities) /\ Issued(a, cap[a])
  BY <1>1, CertTypes, CapsOf DEF Standing, StageAt, Judging
<1>3. PICK p : p = IF cap[a] = Len(Capabilities) THEN "release" ELSE "certify"
  OBVIOUS
<1>4. Standing(a, p, at[a], cap[a] + 1)
  BY <1>2, <1>3, CapsOf DEF Standing, StageAt, Judging, Writing, Past, IssuedAll
<1>5. ~Retired(pc[a], at[a])
  BY <1>1 DEF Retired, Past, Writing
<1>6. p \in Places /\ p # "produce"
  BY <1>3 DEF Places, Judging
<1>7. cap[a] + 1 \in 1..(Len(Capabilities) + 1)
  BY <1>2, CapsOf
<1>8. /\ at' = [at EXCEPT ![a] = at[a]] /\ at[a] \in 1..8
      /\ how' \in [Attempts -> {Nothing, "FAILED", "CANCELED"}]
      /\ UNCHANGED <<certs, promos, prod, file>> /\ row' = row /\ exp' = exp
      /\ LauncherKnown'
  BY <1>1, CertTypes DEF CertInv, CertTyped, database
<1>9. Moved(a, p, at[a], cap[a] + 1)
  BY <1>1, <1>3, <1>8 DEF Moved
<1> QED
  BY <1>1, <1>4, <1>5, <1>6, <1>7, <1>8, <1>9, Moves

LEMMA ReleaseKeeps ==
    ASSUME CertInv, NEW a \in Attempts, Release(a)
    PROVE  CertInv'
<1>1. /\ pc[a] = "release" /\ pc' = [pc EXCEPT ![a] = "row"]
      /\ UNCHANGED <<at, cap, how, row, certs, promos, prod, file, exp, lau>>
  BY DEF Release, Goto
<1>2. at[a] = 6 /\ IssuedAll(a)
  BY <1>1, CertTypes DEF Standing, StageAt
<1>3. Standing(a, "row", at[a], cap[a]) /\ Retired("row", at[a])
  BY <1>2 DEF Standing, StageAt, Judging, Writing, Past, Retired
<1>4. "row" \in Places
  BY DEF Places, Writing
<1> QED
  BY <1>1, <1>3, <1>4, CertTypes, Goes

(* The end of an attempt: fail, its log line, the summary, finally.        *)
LEMMA LastStepsKeep ==
    ASSUME CertInv, NEW a \in Attempts,
           Fail(a) \/ FailLog(a) \/ Echo(a) \/ Restore(a) \/ Unwind(a)
    PROVE  CertInv'
<1>1. CASE Unwind(a)
  BY <1>1, CertTypes, Ends DEF Unwind
<1>2. CASE Fail(a) \/ FailLog(a) \/ Echo(a) \/ Restore(a)
  <2>1. PICK p \in {"failLog", "restore", "unwind"} :
          /\ pc' = [pc EXCEPT ![a] = p]
          /\ UNCHANGED <<at, cap, how, certs, promos, prod, file, exp, lau>>
          /\ row' = row \/ row'.status = how[a]
    BY <1>2 DEF Fail, FailLog, Echo, Restore, Goto, database
  <2>2. p \in Past
    BY <2>1 DEF Past
  <2>3. Standing(a, p, at[a], cap[a]) /\ Retired(p, at[a]) /\ p \in Places /\ p # "produce"
    BY <2>2, CertTypes, PastStands
  <2>4. row' = row \/ row'.status # "COMPLETED"
    BY <2>1, CertTypes DEF Nothing
  <2> QED
    BY <2>1, <2>3, <2>4, CertTypes, Goes
<1> QED
  BY <1>1, <1>2

-----------------------------------------------------------------------------
(* While a certificate is missing or an attempt promotes, nothing is       *)
(* completed, exported or sealed.                                          *)
LEMMA Unsettled ==
    ASSUME CertInv, \A b : ~Settled(b)
    PROVE  /\ row.status # "COMPLETED" /\ file.manifest = NoManifest
           /\ \A a \in Attempts : exp[a].at = "idle"
  BY DEF CertInv, Truthful

LEMMA CertifyKeeps ==
    ASSUME CertInv, NEW a \in Attempts, Certify(a)
    PROVE  CertInv'
<1>1. PICK o \in Outcomes[Capability(a)] :
        IF o.raises \/ certs[Capability(a)].by # Nothing
        THEN Raise(a, "FAILED") /\ UNCHANGED certs
        ELSE /\ certs' = [certs EXCEPT ![Capability(a)] =
                            [by |-> a, verdict |-> o.verdict, gate |-> o.gate,
                             sound |-> o.sound]]
             /\ Goto(a, IF o.gate # "closed" THEN "promote" ELSE "artifact")
             /\ UNCHANGED how
  BY DEF Certify
<1>2. /\ pc[a] = "certify"
      /\ UNCHANGED <<at, cap, row, promos, prod, file, exp, lau>>
  BY DEF Certify
<1>3. CASE o.raises \/ certs[Capability(a)].by # Nothing
  BY <1>1, <1>2, <1>3, CertTypes, Raises
<1>4. CASE ~(o.raises \/ certs[Capability(a)].by # Nothing)
  <2> PICK p \in {"promote", "artifact"} :
        p = IF o.gate # "closed" THEN "promote" ELSE "artifact"
    OBVIOUS
  <2> PICK new : new = [by |-> a, verdict |-> o.verdict, gate |-> o.gate, sound |-> o.sound]
    OBVIOUS
  <2>1. /\ pc' = [pc EXCEPT ![a] = p] /\ UNCHANGED how
        /\ certs' = [certs EXCEPT ![Capability(a)] = new] /\ new.by = a
    BY <1>1, <1>4 DEF Goto
  <2>2. /\ at[a] = 6 /\ cap[a] \in 1..Len(Capabilities) /\ Issued(a, cap[a] - 1)
        /\ Capability(a) = Capabilities[cap[a]] /\ Capability(a) \in Caps
    BY <1>2, CertTypes, CapsOf DEF Standing, StageAt, Judging, Capability
  <2>3. certs[Capability(a)].by = Nothing /\ Nothing \notin Attempts
    BY <1>4, AttemptsAssumption
  <2>4. \A c \in Caps : certs'[c] = IF c = Capability(a) THEN new ELSE certs[c]
    BY <2>1 DEF CertInv, CertTyped
  <2>5. \A b : ~Settled(b)
    BY <2>2, <2>3, IssuedEvery DEF Settled
  <2>6. ASSUME NEW d \in Attempts, NEW n \in 0..Len(Capabilities), Issued(d, n)
        PROVE  Issued(d, n)'
    BY <2>1, <2>2, <2>3, <2>4, <2>6, CapsOf DEF Issued
  <2>7. Issued(a, cap[a])'
    <3>1. PICK n \in 0..Len(Capabilities) : n = cap[a] - 1 /\ Issued(a, n)
      BY <2>2, CapsOf
    <3>2. Issued(a, n)'
      BY <3>1, <2>6
    <3>3. certs'[Capabilities[n + 1]].by = a /\ cap'[a] = n + 1
      BY <1>2, <2>1, <2>2, <2>4, <3>1
    <3>4. Issued(a, n + 1)'
      BY <3>1, <3>2, <3>3 DEF Issued
    <3> QED
      BY <3>3, <3>4 DEF Issued
  <2>8. CertTyped'
    <3>1. p \in Places
      BY DEF Places, Judging
    <3>2. certs' = [c \in Caps |-> certs'[c]]
      BY <2>1 DEF CertInv, CertTyped
    <3> QED
      BY <1>2, <2>1, <3>1, <3>2 DEF CertInv, CertTyped
  <2>9. ASSUME NEW d \in Attempts PROVE Standing(d, pc[d], at[d], cap[d])'
    <3>1. /\ at'[d] = at[d] /\ cap'[d] = cap[d]
          /\ pc'[d] = IF d = a THEN p ELSE pc[d]
      BY <1>2, <2>1 DEF CertInv, CertTyped
    <3>2. CASE d = a
      BY <3>1, <3>2, <2>2, <2>7, <1>2 DEF Standing, StageAt, Judging, Writing, Past
    <3>3. CASE d # a
      <4>1. Standing(d, pc[d], at[d], cap[d]) /\ cap[d] \in 1..(Len(Capabilities) + 1)
        BY CertTypes
      <4>2. /\ pc[d] = "certify" => Issued(d, cap[d] - 1)'
            /\ pc[d] \in Judging \ {"certify"} => Issued(d, cap[d])'
            /\ IssuedAll(d) => IssuedAll(d)'
        <5>1. pc[d] \in Judging => cap[d] - 1 \in 0..Len(Capabilities)
                                   /\ cap[d] \in 0..Len(Capabilities)
          BY <4>1, CapsOf DEF Standing
        <5>2. Len(Capabilities) \in 0..Len(Capabilities)
          BY CapsOf
        <5>3. pc[d] = "certify" => Issued(d, cap[d] - 1)'
          <6> PICK n : n = cap[d] - 1
            OBVIOUS
          <6> QED
            BY <3>1, <4>1, <5>1, <2>6 DEF Standing, Judging, Issued
        <5>4. pc[d] \in Judging \ {"certify"} => Issued(d, cap[d])'
          BY <3>1, <4>1, <5>1, <2>6 DEF Standing, Issued
        <5>5. IssuedAll(d) => IssuedAll(d)'
          BY <5>2, <2>6 DEF IssuedAll
        <5> QED
          BY <5>3, <5>4, <5>5
      <4> QED
        BY <3>1, <3>3, <4>1, <4>2 DEF Standing
    <3> QED
      BY <3>2, <3>3
  <2>10. CertBacking'
    <3>1. ASSUME NEW c \in Caps
          PROVE  /\ certs'[c].by = Nothing => ~PromoteGates(certs'[c])
                 /\ promos'[c] => PromoteGates(certs'[c])
                 /\ prod'[c] # Nothing => promos'[c] /\ prod'[c] = certs'[c].by
      <4>1. CASE c = Capability(a)
        <5>1. ~promos[c] /\ prod[c] = Nothing
          BY <4>1, <2>3 DEF CertInv, CertBacking
        <5>2. certs'[c].by # Nothing
          BY <4>1, <2>1, <2>3, <2>4
        <5> QED
          BY <5>1, <5>2, <1>2
      <4>2. CASE c # Capability(a)
        BY <4>2, <2>4, <1>2 DEF CertInv, CertBacking
      <4> QED
        BY <4>1, <4>2
    <3>2. ASSUME NEW d \in Attempts, pc'[d] = "produce" PROVE promos'[Capability(d)']
      <4>1. pc[d] = "produce"
        BY <3>2, <2>1, <1>2 DEF CertInv, CertTyped
      <4> QED
        BY <4>1, <1>2 DEF CertInv, CertBacking, Capability
    <3> QED
      BY <3>1, <3>2 DEF CertBacking, PromoteGates
  <2>11. Truthful'
    BY <1>2, <2>5, Unsettled DEF Truthful
  <2> QED
    BY <2>8, <2>9, <2>10, <2>11 DEF CertInv
<1> QED
  BY <1>3, <1>4

LEMMA PromoteKeeps ==
    ASSUME CertInv, NEW a \in Attempts, Promote(a)
    PROVE  CertInv'
<1>1. /\ pc[a] = "promote"
      /\ UNCHANGED <<at, cap, row, certs, prod, file, exp, lau>>
  BY DEF Promote
<1>2. CASE Raise(a, "FAILED") /\ UNCHANGED promos
  BY <1>1, <1>2, CertTypes, Raises
<1>3. CASE /\ certs[Capability(a)].by = a /\ PromoteGates(certs[Capability(a)])
           /\ promos' = [promos EXCEPT ![Capability(a)] = TRUE]
           /\ Goto(a, "produce") /\ UNCHANGED how
  <2>1. /\ at[a] = 6 /\ cap[a] \in 1..Len(Capabilities) /\ Issued(a, cap[a])
        /\ Capability(a) \in Caps
    BY <1>1, CertTypes, CapsOf DEF Standing, StageAt, Judging, Capability
  <2>2. \A b : ~Settled(b)
    <3>1. ASSUME NEW b, Settled(b) PROVE FALSE
      <4>1. b = a
        BY <3>1, <1>3, <2>1, IssuedEvery DEF Settled
      <4> QED
        BY <3>1, <4>1, <1>1 DEF Settled, Retired, Past, Writing
    <3> QED
      BY <3>1
  <2>3. /\ pc' = [pc EXCEPT ![a] = "produce"]
        /\ \A c \in Caps : promos'[c] = IF c = Capability(a) THEN TRUE ELSE promos[c]
    BY <1>3 DEF Goto, CertInv, CertTyped
  <2>4. CertTyped'
    <3>1. "produce" \in Places
      BY DEF Places, Judging
    <3>2. promos' \in [Caps -> BOOLEAN]
      BY <1>3 DEF CertInv, CertTyped
    <3> QED
      BY <1>1, <1>3, <2>3, <3>1, <3>2 DEF CertInv, CertTyped
  <2>5. ASSUME NEW d \in Attempts PROVE Standing(d, pc[d], at[d], cap[d])'
    <3>1. pc'[d] = IF d = a THEN "produce" ELSE pc[d]
      BY <2>3 DEF CertInv, CertTyped
    <3>2. Standing(d, pc'[d], at[d], cap[d])
      BY <1>1, <2>1, <3>1, CertTypes DEF Standing, StageAt, Judging, Writing, Past
    <3> QED
      BY <1>1, <3>2 DEF Standing, Issued, IssuedAll
  <2>6. CertBacking'
    <3>1. ASSUME NEW d \in Attempts, pc'[d] = "produce" PROVE promos'[Capability(d)']
      <4>1. CASE d = a
        BY <4>1, <1>1, <2>1, <2>3 DEF Capability
      <4>2. CASE d # a
        <5>1. pc[d] = "produce" /\ cap'[d] = cap[d]
          BY <3>1, <4>2, <1>1, <2>3 DEF CertInv, CertTyped
        <5>2. promos[Capability(d)] /\ Capability(d) \in Caps
          BY <5>1, CertTypes, CapsOf DEF CertInv, CertBacking, Capability, Standing, Judging
        <5> QED
          BY <5>1, <5>2, <2>3 DEF Capability
      <4> QED
        BY <4>1, <4>2
    <3>2. ASSUME NEW c \in Caps
          PROVE  /\ certs'[c].by = Nothing => ~PromoteGates(certs'[c])
                 /\ promos'[c] => PromoteGates(certs'[c])
                 /\ prod'[c] # Nothing => promos'[c] /\ prod'[c] = certs'[c].by
      BY <1>1, <1>3, <2>3 DEF CertInv, CertBacking
    <3> QED
      BY <3>1, <3>2 DEF CertBacking, PromoteGates
  <2>7. Truthful'
    BY <1>1, <2>2, Unsettled DEF Truthful
  <2> QED
    BY <2>4, <2>5, <2>6, <2>7 DEF CertInv
<1> QED
  BY <1>2, <1>3 DEF Promote

(* The certified attempt's own window goes to production.                  *)
LEMMA ProduceKeeps ==
    ASSUME CertInv, NEW a \in Attempts, Produce(a)
    PROVE  CertInv'
<1>1. /\ pc[a] = "produce" /\ pc' = [pc EXCEPT ![a] = "artifact"]
      /\ prod' = [prod EXCEPT ![Capability(a)] = a]
      /\ UNCHANGED <<at, cap, how, row, certs, promos, file, exp, lau>>
  BY DEF Produce, Goto
<1>2. /\ at[a] = 6 /\ cap[a] \in 1..Len(Capabilities) /\ Issued(a, cap[a])
      /\ Capability(a) = Capabilities[cap[a]] /\ Capability(a) \in Caps
  BY <1>1, CertTypes, CapsOf DEF Standing, StageAt, Judging, Capability
<1>3. certs[Capability(a)].by = a /\ promos[Capability(a)]
  BY <1>1, <1>2 DEF Issued, CertInv, CertBacking
<1>4. \A c \in Caps : prod'[c] = IF c = Capability(a) THEN a ELSE prod[c]
  BY <1>1 DEF CertInv, CertTyped
<1>5. CertTyped'
  <2>1. "artifact" \in Places
    BY DEF Places, Judging
  <2>2. prod' = [c \in Caps |-> prod'[c]]
    BY <1>1 DEF CertInv, CertTyped
  <2> QED
    BY <1>1, <2>1, <2>2 DEF CertInv, CertTyped
<1>6. \A d \in Attempts : pc'[d] = IF d = a THEN "artifact" ELSE pc[d]
  BY <1>1 DEF CertInv, CertTyped
<1>7. ASSUME NEW d \in Attempts PROVE Standing(d, pc[d], at[d], cap[d])'
  <2>1. Standing(d, pc'[d], at[d], cap[d])
    BY <1>2, <1>6, CertTypes DEF Standing, StageAt, Judging, Writing, Past
  <2> QED
    BY <1>1, <2>1 DEF Standing, Issued, IssuedAll
<1>8. CertBacking'
  <2>1. ASSUME NEW d \in Attempts, pc'[d] = "produce" PROVE promos'[Capability(d)']
    BY <2>1, <1>1, <1>6 DEF CertInv, CertBacking, Capability
  <2>2. ASSUME NEW c \in Caps
        PROVE  /\ certs'[c].by = Nothing => ~PromoteGates(certs'[c])
               /\ promos'[c] => PromoteGates(certs'[c])
               /\ prod'[c] # Nothing => promos'[c] /\ prod'[c] = certs'[c].by
    BY <1>1, <1>3, <1>4 DEF CertInv, CertBacking
  <2> QED
    BY <2>1, <2>2 DEF CertBacking, PromoteGates
<1>9. ASSUME NEW b, Settled(b) PROVE Settled(b)'
  BY <1>9, <1>1, <1>6 DEF Settled, IssuedAll, Issued, Retired, Past, Writing
<1>10. Truthful'
  BY <1>1, <1>9 DEF CertInv, Truthful
<1> QED
  BY <1>5, <1>7, <1>8, <1>10 DEF CertInv

-----------------------------------------------------------------------------
(* A step of an export, beside which at most its own attempt moves on.     *)
LEMMA ExportsKeep ==
    ASSUME CertInv, NEW x \in Attempts, ReadRows(x) \/ ExportFiles(x),
           UNCHANGED <<row, certs, promos>>,
           \A b \in Attempts : Retired(pc[b], at[b]) => Retired(pc'[b], at'[b])
    PROVE  /\ Truthful'
           /\ exp' = [a \in Attempts |-> [at |-> exp'[a].at, rows |-> exp'[a].rows,
                                          sha |-> exp'[a].sha]]
           /\ file' = [records |-> file'.records, promotions |-> file'.promotions,
                       manifest |-> file'.manifest, run |-> file'.run,
                       marker |-> file'.marker]
<1>1. PICK e : e = exp'[x]
  OBVIOUS
<1>2. /\ exp' = [a \in Attempts |-> IF a = x THEN e ELSE exp[a]]
      /\ e = [at |-> e.at, rows |-> e.rows, sha |-> e.sha]
  <2>1. /\ exp[x] = [at |-> exp[x].at, rows |-> exp[x].rows, sha |-> exp[x].sha]
        /\ exp = [a \in Attempts |-> exp[a]]
    BY DEF CertInv, CertTyped
  <2>2. CASE ReadRows(x)
    BY <1>1, <2>1, <2>2 DEF ReadRows
  <2>3. CASE WriteMarker(x)
    BY <1>1, <2>1, <2>3 DEF WriteMarker, NoExport
  <2>4. CASE WriteRecords(x)
    BY <1>1, <2>1, <2>4 DEF WriteRecords, ExportStep
  <2>5. CASE WriteRun(x)
    BY <1>1, <2>1, <2>5 DEF WriteRun, ExportStep
  <2>6. CASE WriteManifest(x)
    BY <1>1, <2>1, <2>6 DEF WriteManifest
  <2> QED
    BY <2>2, <2>3, <2>4, <2>5, <2>6 DEF ExportFiles
<1>3. exp' = [a \in Attempts |-> [at |-> exp'[a].at, rows |-> exp'[a].rows,
                                  sha |-> exp'[a].sha]]
  <2>1. \A a \in Attempts : exp'[a] = [at |-> exp'[a].at, rows |-> exp'[a].rows,
                                       sha |-> exp'[a].sha]
    BY <1>1, <1>2 DEF CertInv, CertTyped
  <2> QED
    BY <1>2, <2>1
<1>4. /\ file' = [records |-> file'.records, promotions |-> file'.promotions,
                  manifest |-> file'.manifest, run |-> file'.run,
                  marker |-> file'.marker]
      /\ \/ file'.records = file.records /\ file'.promotions = file.promotions
         \/ /\ exp[x].at = "records"
            /\ file'.records = exp[x].rows.certs /\ file'.promotions = exp[x].rows.promos
      /\ \/ file'.manifest = file.manifest
         \/ /\ exp[x].at = "manifest"
            /\ file'.manifest = [run |-> exp[x].rows.by, log |-> log,
                                 records |-> file.records, promotions |-> file.promotions]
  <2>1. file = [records |-> file.records, promotions |-> file.promotions,
                manifest |-> file.manifest, run |-> file.run, marker |-> file.marker]
    BY DEF CertInv, CertTyped
  <2>2. CASE ReadRows(x)
    BY <2>1, <2>2 DEF ReadRows
  <2>3. CASE WriteMarker(x)
    BY <2>1, <2>3 DEF WriteMarker
  <2>4. CASE WriteRecords(x)
    BY <2>1, <2>4 DEF WriteRecords, ExportStep
  <2>5. CASE WriteRun(x)
    BY <2>1, <2>5 DEF WriteRun, ExportStep
  <2>6. CASE WriteManifest(x)
    BY <2>1, <2>6 DEF WriteManifest
  <2> QED
    BY <2>2, <2>3, <2>4, <2>5, <2>6 DEF ExportFiles
<1>5. \/ e.at = "idle"
      \/ /\ e.at = "records" /\ row.status = "COMPLETED"
         /\ e.rows = [by |-> row.by, certs |-> certs, promos |-> promos]
      \/ /\ e.at # "records" /\ e.rows = exp[x].rows /\ exp[x].at # "idle"
         /\ exp[x].at = "records" =>
              file'.records = exp[x].rows.certs /\ file'.promotions = exp[x].rows.promos
  <2>1. e = exp'[x] /\ exp[x] = [at |-> exp[x].at, rows |-> exp[x].rows, sha |-> exp[x].sha]
    BY <1>2 DEF CertInv, CertTyped
  <2>2. CASE ReadRows(x)
    BY <2>2, <2>1, <1>2 DEF ReadRows, Exportable, CertInv, CertTyped
  <2>3. CASE WriteMarker(x)
    BY <2>3, <2>1, <1>2 DEF WriteMarker, NoExport, CertInv, CertTyped
  <2>4. CASE WriteRecords(x)
    <3>1. e = [at |-> "manifest", rows |-> exp[x].rows, sha |-> exp[x].sha]
      BY <2>4, <2>1 DEF WriteRecords, ExportStep, CertInv, CertTyped
    <3> QED
      BY <2>4, <3>1 DEF WriteRecords, ExportStep, CertInv, CertTyped
  <2>5. CASE WriteRun(x)
    <3>1. e = [at |-> "marker", rows |-> exp[x].rows, sha |-> exp[x].sha]
      BY <2>5, <2>1 DEF WriteRun, ExportStep, CertInv, CertTyped
    <3> QED
      BY <2>5, <3>1 DEF WriteRun, ExportStep
  <2>6. CASE WriteManifest(x)
    <3>1. e.at = "run" /\ e.rows = exp[x].rows
      BY <2>6, <2>1 DEF WriteManifest, CertInv, CertTyped
    <3> QED
      BY <2>6, <3>1 DEF WriteManifest
  <2> QED
    BY <2>2, <2>3, <2>4, <2>5, <2>6 DEF ExportFiles
<1>6. exp[x].at # "idle" =>
        /\ Settled(exp[x].rows.by) /\ exp[x].rows.certs = certs /\ exp[x].rows.promos = promos
        /\ exp[x].at # "records" => file.records = certs /\ file.promotions = promos
  BY DEF CertInv, Truthful
<1>7. Truthful'
  <2>1. row'.status = "COMPLETED" => Settled(row.by)'
    BY DEF CertInv, Truthful, Settled, IssuedAll, Issued
  <2>2. \A a \in Attempts : exp'[a].at # "idle" =>
         /\ Settled(exp[a].rows.by)'
         /\ exp'[a].rows.certs = certs' /\ exp'[a].rows.promos = promos'
         /\ exp'[a].at # "records" => file'.records = certs' /\ file'.promotions = promos'
    <3>1. ASSUME NEW a \in Attempts, a # x, exp'[a].at # "idle"
          PROVE  /\ Settled(exp[a].rows.by)'
                 /\ exp'[a].rows.certs = certs' /\ exp'[a].rows.promos = promos'
                 /\ exp'[a].at # "records" =>
                      file'.records = certs' /\ file'.promotions = promos'
      <4>1. exp'[a] = exp[a]
        BY <3>1, <1>2
      <4> QED
        BY <3>1, <4>1, <1>2, <1>4, <1>6 DEF CertInv, Truthful, Settled, IssuedAll, Issued
    <3>2. ASSUME exp'[x].at # "idle"
          PROVE  /\ Settled(exp[x].rows.by)'
                 /\ exp'[x].rows.certs = certs' /\ exp'[x].rows.promos = promos'
                 /\ exp'[x].at # "records" =>
                      file'.records = certs' /\ file'.promotions = promos'
      BY <3>2, <1>2, <1>4, <1>5, <1>6 DEF CertInv, Truthful, Settled, IssuedAll, Issued
    <3> QED
      BY <3>1, <3>2
  <2>3. file'.manifest # NoManifest =>
         /\ Settled(file.manifest.run)'
         /\ file'.manifest.records = certs' /\ file'.manifest.promotions = promos'
    BY <1>2, <1>4, <1>6 DEF CertInv, Truthful, Settled, IssuedAll, Issued
  <2> QED
    BY <2>1, <2>2, <2>3 DEF Truthful
<1> QED
  BY <1>3, <1>4, <1>7

LEMMA ExportOwnKeeps ==
    ASSUME CertInv, NEW a \in Attempts, ExportOwn(a)
    PROVE  CertInv'
<1>1. pc[a] = "export" /\ UNCHANGED <<at, cap, row, certs, promos, prod, lau>>
  BY DEF ExportOwn, database
<1>2. CASE Raise(a, "FAILED") /\ UNCHANGED <<exp, file>>
  BY <1>1, <1>2, CertTypes, Raises
<1>3. CASE /\ ReadRows(a) \/ ExportFiles(a)
           /\ (UNCHANGED pc \/ Goto(a, "echo")) /\ UNCHANGED how
  <2>1. \A b \in Attempts : pc'[b] = pc[b] \/ (b = a /\ pc'[b] = "echo")
    BY <1>3 DEF Goto, CertInv, CertTyped
  <2>2. \A b \in Attempts : Retired(pc[b], at[b]) => Retired(pc'[b], at'[b])
    BY <1>1, <2>1 DEF Retired, Past, Writing
  <2>3. /\ Truthful'
        /\ exp' = [d \in Attempts |-> [at |-> exp'[d].at, rows |-> exp'[d].rows,
                                       sha |-> exp'[d].sha]]
        /\ file' = [records |-> file'.records, promotions |-> file'.promotions,
                    manifest |-> file'.manifest, run |-> file'.run,
                    marker |-> file'.marker]
    BY <1>1, <1>3, <2>2, ExportsKeep
  <2>4. CertTyped'
    <3>1. "echo" \in Places
      BY DEF Places, Past
    <3>2. pc' \in [Attempts -> Places]
      BY <1>3, <3>1 DEF Goto, CertInv, CertTyped
    <3> QED
      BY <1>1, <1>3, <2>3, <3>2 DEF CertInv, CertTyped
  <2>5. ASSUME NEW d \in Attempts PROVE Standing(d, pc[d], at[d], cap[d])'
    <3>1. Standing(d, pc'[d], at[d], cap[d])
      BY <2>1, CertTypes DEF Standing, StageAt, Judging, Writing, Past
    <3> QED
      BY <1>1, <3>1 DEF Standing, Issued, IssuedAll
  <2>6. CertBacking'
    <3>1. \A d \in Attempts : pc'[d] = "produce" => pc[d] = "produce"
      BY <2>1
    <3> QED
      BY <1>1, <3>1 DEF CertInv, CertBacking, Capability
  <2> QED
    BY <2>3, <2>4, <2>5, <2>6 DEF CertInv
<1> QED
  BY <1>2, <1>3 DEF ExportOwn, ExportFiles

LEMMA ExportCommandKeeps ==
    ASSUME CertInv, ExportCommand
    PROVE  CertInv'
<1>1. /\ row.status = "COMPLETED"
      /\ UNCHANGED <<pc, at, cap, how, row, certs, promos, prod, exp, lau>>
      /\ file'.records = certs /\ file'.promotions = promos
      /\ file'.manifest = [run |-> row.by, log |-> log, records |-> certs, promotions |-> promos]
  BY DEF ExportCommand, Exportable, process, database
<1>2. CertTyped'
  <2>1. file' = [records |-> file'.records, promotions |-> file'.promotions,
                 manifest |-> file'.manifest, run |-> file'.run, marker |-> file'.marker]
    BY DEF ExportCommand
  <2> QED
    BY <1>1, <2>1 DEF CertInv, CertTyped
<1>3. (\A a \in Attempts : Standing(a, pc[a], at[a], cap[a]))'
  BY <1>1 DEF CertInv, Standing, Issued, IssuedAll
<1>4. CertBacking'
  BY <1>1 DEF CertInv, CertBacking, Capability
<1>5. Truthful'
  BY <1>1 DEF CertInv, Truthful, Settled, IssuedAll, Issued
<1> QED
  BY <1>2, <1>3, <1>4, <1>5 DEF CertInv

LEMMA LauncherKeeps ==
    ASSUME CertInv, Launcher \/ Deadline
    PROVE  CertInv'
<1>1. LauncherKnown
  BY DEF CertInv, CertTyped
<1>2. CASE Watchdog \/ PollRow \/ PollPid \/ Deadline
  BY <1>1, <1>2, Rests DEF Watchdog, PollRow, PollPid, Deadline, process, database
<1>3. CASE Unload
  <2>1. /\ lau.of \in Attempts /\ LauncherKnown'
        /\ UNCHANGED <<row, certs, promos, prod, file>>
    BY <1>1, <1>3 DEF Unload, database
  <2>2. PICK a \in Attempts : a = lau.of
    BY <2>1
  <2>3. CASE Interrupted(a, "CANCELED")
    BY <2>1, <2>3, InterruptedKeeps
  <2>4. CASE UNCHANGED <<process, exp>>
    BY <2>1, <2>4, Rests DEF process
  <2> QED
    BY <1>3, <2>2, <2>3, <2>4 DEF Unload
<1>4. CASE UnloadEnds
  <2>1. /\ lau.of \in Attempts /\ LauncherKnown'
        /\ UNCHANGED <<row, certs, promos, prod, file>>
    BY <1>1, <1>4 DEF UnloadEnds, database
  <2>2. PICK a \in Attempts : a = lau.of
    BY <2>1
  <2>3. CASE Killed(a)
    BY <2>1, <2>3, Ends DEF Killed
  <2>4. CASE UNCHANGED <<process, exp>>
    BY <2>1, <2>4, Rests DEF process
  <2> QED
    BY <1>4, <2>2, <2>3, <2>4 DEF UnloadEnds
<1> QED
  BY <1>2, <1>3, <1>4 DEF Launcher

LEMMA TroubleKeeps ==
    ASSUME CertInv, NEW a \in Attempts, Signal(a) \/ IOError(a) \/ Kill(a)
    PROVE  CertInv'
<1>1. UNCHANGED <<row, certs, promos, prod, file, lau>>
  BY DEF Signal, IOError, Kill, database
<1>2. CASE Signal(a)
  BY <1>1, <1>2, CertTypes, InterruptedKeeps DEF Signal
<1>3. CASE IOError(a)
  BY <1>1, <1>3, CertTypes, InterruptedKeeps DEF IOError
<1>4. CASE Kill(a)
  BY <1>1, <1>4, CertTypes, Ends DEF Kill, Killed
<1> QED
  BY <1>2, <1>3, <1>4

LEMMA CertKeeps == CertInv /\ [CertNext]_certVars => CertInv'
<1> SUFFICES ASSUME CertInv, [CertNext]_certVars PROVE CertInv'
  OBVIOUS
<1>1. ASSUME NEW a \in Attempts, Process(a) PROVE CertInv'
  BY <1>1, OpenKeeps, StageRowKeeps, StageLogKeeps, AuditKeeps, CertifyKeeps, PromoteKeeps,
     ProduceKeeps, WriteArtifactKeeps, ReleaseKeeps, ExportOwnKeeps, LastStepsKeep DEF Process
<1>2. ASSUME NEW a \in Attempts, StartDirect(a) \/ Launch(a) PROVE CertInv'
  BY <1>2, StartKeeps
<1>3. CASE UNCHANGED certVars
  BY <1>3, Rests DEF certVars, process, database, CertInv, CertTyped
<1>4. CASE LeaseExpires
  BY <1>4, Rests DEF LeaseExpires, process, CertInv, CertTyped
<1> QED
  BY <1>1, <1>2, <1>3, <1>4, TroubleKeeps, ExportCommandKeeps, LauncherKeeps DEF CertNext

HIDE DEF LauncherKnown

LEMMA CertHolds == CertSpec => []CertInv
  BY CertStarts, CertKeeps, PTL DEF CertSpec

-----------------------------------------------------------------------------
(* Production events and promotions rest on a stored PASS of the very      *)
(* attempt that collected the window, for any number of attempts however   *)
(* they overlap and wherever they are struck (promote and                  *)
(* _insert_certification refuse everything else).                          *)
THEOREM ProductionIsBacked == CertSpec => []PromotionBacked
<1>1. CertInv => PromotionBacked
  BY DEF CertInv, CertBacking, PromotionBacked
<1> QED
  BY <1>1, CertHolds, PTL

(* What reconstruct_from_artifacts and verify_run accept is the database's *)
(* evidence of one attempt, though attempts, their exports and the export  *)
(* command overlap in every way: the first attempt that is COMPLETED has   *)
(* issued every certificate, and after it nothing changes any more.        *)
THEOREM SealsAreTruthful == CertSpec => []SealTruthful
<1>1. CertInv => SealTruthful
  <2> SUFFICES ASSUME CertInv, Reconstructs
               PROVE  /\ file.records = certs /\ file.promotions = promos
                      /\ \A c \in Caps : certs[c].by = file.manifest.run
                      /\ Verifies => row.by = file.manifest.run
    BY DEF SealTruthful
  <2>1. /\ Settled(file.manifest.run)
        /\ file.records = certs /\ file.promotions = promos
    BY DEF Reconstructs, CertInv, Truthful
  <2>2. \A c \in Caps : certs[c].by = file.manifest.run
    BY <2>1, IssuedEvery DEF Settled
  <2>3. Verifies => Settled(row.by)
    BY DEF Verifies, CertInv, Truthful
  <2> QED
    BY <2>1, <2>2, <2>3, SettledOnce
<1> QED
  BY <1>1, CertHolds, PTL

-----------------------------------------------------------------------------
(* Verdicts.  Sorting by position.                                         *)

(* R orders S strictly and totally.                                        *)
Orders(R, S) ==
    /\ IsFiniteSet(S)
    /\ \A x \in S : <<x, x>> \notin R
    /\ \A x, y \in S : x # y => <<x, y>> \in R \/ <<y, x>> \in R
    /\ \A x, y, z \in S : <<x, y>> \in R /\ <<y, z>> \in R => <<x, z>> \in R

(* What sorting by position returns: every element once, in order.         *)
LEMMA RankedSorts ==
    ASSUME NEW S, NEW R, Orders(R, S), NEW s, s = Ranked(S, R)
    PROVE  /\ Cardinality(S) \in Nat
           /\ s \in [1 .. Cardinality(S) -> S]
           /\ \A x \in S : \E n \in 1 .. Cardinality(S) : s[n] = x
           /\ \A m, n \in 1 .. Cardinality(S) : m < n => <<s[m], s[n]>> \in R
<1> DEFINE Below(x) == {y \in S : <<y, x>> \in R}
           N == Cardinality(S)
           rank == [x \in S |-> Cardinality(Below(x)) + 1]
<1>1. IsFiniteSet(S) /\ N \in Nat
  BY FS_CardinalityType DEF Orders
<1>2. \A x \in S : IsFiniteSet(Below(x)) /\ Cardinality(Below(x)) \in Nat /\ Cardinality(Below(x)) < N
  <2> SUFFICES ASSUME NEW x \in S
               PROVE  IsFiniteSet(Below(x)) /\ Cardinality(Below(x)) \in Nat /\ Cardinality(Below(x)) < N
    OBVIOUS
  <2>1. Below(x) \in SUBSET S /\ Below(x) # S
    BY DEF Orders
  <2> HIDE DEF Below
  <2> QED
    BY <1>1, <2>1, FS_Subset, FS_CardinalityType
<1>3. \A x, y \in S : <<x, y>> \in R => Cardinality(Below(x)) < Cardinality(Below(y))
  <2> SUFFICES ASSUME NEW x \in S, NEW y \in S, <<x, y>> \in R
               PROVE  Cardinality(Below(x)) < Cardinality(Below(y))
    OBVIOUS
  <2>1. Below(x) \in SUBSET Below(y) /\ Below(x) # Below(y) /\ IsFiniteSet(Below(y))
    <3>1. Below(x) \in SUBSET Below(y)
      BY DEF Orders
    <3>2. x \in Below(y) /\ x \notin Below(x)
      BY DEF Orders
    <3> QED
      BY <1>2, <3>1, <3>2
  <2> HIDE DEF Below
  <2> QED
    BY <1>2, <2>1, FS_Subset
<1>4. \A n \in 1 .. N : s[n] = CHOOSE x \in S : Cardinality(Below(x)) = n - 1
  BY DEF Ranked
<1>5. DOMAIN s = 1 .. N /\ s = [n \in 1 .. N |-> s[n]]
  <2> DEFINE g(n) == CHOOSE x \in S : Cardinality(Below(x)) = n - 1
  <2>1. s = [n \in 1 .. N |-> g(n)]
    BY DEF Ranked
  <2> HIDE DEF g, N
  <2> QED
    BY <2>1
<1> HIDE DEF Below, N
<1>6. rank \in [S -> 1 .. N] /\ \A x \in S : rank[x] = Cardinality(Below(x)) + 1
  BY <1>1, <1>2
<1> HIDE DEF rank
<1>7. \A x, y \in S : rank[x] = rank[y] => x = y
  <2> SUFFICES ASSUME NEW x \in S, NEW y \in S, x # y PROVE rank[x] # rank[y]
    OBVIOUS
  <2>1. <<x, y>> \in R \/ <<y, x>> \in R
    BY DEF Orders
  <2>2. PICK a \in Nat : a = Cardinality(Below(x))
    BY <1>2
  <2>3. PICK b \in Nat : b = Cardinality(Below(y))
    BY <1>2
  <2>4. a < b \/ b < a
    BY <1>3, <2>1, <2>2, <2>3
  <2> QED
    BY <1>6, <2>2, <2>3, <2>4
<1>8. \A n \in 1 .. N : \E x \in S : rank[x] = n
  <2>1. IsFiniteSet(1 .. N) /\ Cardinality(1 .. N) = N
    BY <1>1, FS_Interval
  <2>2. rank \in Injection(S, 1 .. N)
    BY <1>6, <1>7 DEF Injection, IsInjective
  <2>3. rank \in Surjection(S, 1 .. N)
    BY <1>1, <2>1, <2>2, FS_Injection DEF N
  <2> QED
    BY <2>3 DEF Surjection
<1>9. \A n \in 1 .. N : s[n] \in S /\ rank[s[n]] = n
  <2> SUFFICES ASSUME NEW n \in 1 .. N PROVE s[n] \in S /\ rank[s[n]] = n
    OBVIOUS
  <2>1. n \in Int /\ n - 1 \in Int /\ (n - 1) + 1 = n
    BY <1>1
  <2>2. PICK x \in S : rank[x] = n
    BY <1>8
  <2>3. Cardinality(Below(x)) = n - 1
    <3>1. PICK a \in Nat : a = Cardinality(Below(x))
      BY <1>2
    <3> QED
      BY <1>6, <2>1, <2>2, <3>1
  <2>4. s[n] \in S /\ Cardinality(Below(s[n])) = n - 1
    BY <1>4, <2>3
  <2> QED
    BY <1>6, <2>1, <2>4
<1>10. s \in [1 .. N -> S]
  BY <1>5, <1>9
<1>11. \A x \in S : \E n \in 1 .. N : s[n] = x
  BY <1>6, <1>7, <1>9
<1>12. ASSUME NEW m \in 1 .. N, NEW n \in 1 .. N, m < n PROVE <<s[m], s[n]>> \in R
  <2>1. s[m] \in S /\ s[n] \in S /\ rank[s[m]] = m /\ rank[s[n]] = n
    BY <1>9
  <2>2. PICK x \in S : x = s[m]
    BY <2>1
  <2>3. PICK y \in S : y = s[n]
    BY <2>1
  <2>4. x # y
    BY <1>12, <2>1, <2>2, <2>3
  <2>5. CASE <<y, x>> \in R
    <3>1. PICK a \in Nat : a = Cardinality(Below(x))
      BY <1>2
    <3>2. PICK b \in Nat : b = Cardinality(Below(y))
      BY <1>2
    <3>3. b < a /\ rank[x] = a + 1 /\ rank[y] = b + 1
      BY <1>3, <1>6, <2>5, <3>1, <3>2
    <3>4. m = a + 1 /\ n = b + 1
      BY <2>1, <2>2, <2>3, <3>3
    <3> QED
      BY <1>12, <3>3, <3>4
  <2> QED
    BY <2>2, <2>3, <2>4, <2>5 DEF Orders
<1> QED
  BY <1>1, <1>10, <1>11, <1>12 DEF N

(* Events sorted by a key of two numbers that tells them apart.            *)
KeyFor(key, S) ==
    /\ IsFiniteSet(S) /\ key \in [S -> Int \X Int]
    /\ \A i, j \in S : key[i] = key[j] => i = j

SortedBy(events, key, r, N, S, s) ==
    /\ s \in [1 .. N -> S]
    /\ \A n \in 1 .. N : r[n] = events[s[n]]
    /\ \A i \in S : \E n \in 1 .. N : s[n] = i
    /\ \A m, n \in 1 .. N : m < n => Earlier(key[s[m]], key[s[n]])

PickInts(a) == a[1] \in Int /\ a[2] \in Int

LEMMA ArrangedSorts ==
    ASSUME NEW events \in Seq(RawEvents), NEW S \in SUBSET DOMAIN events, NEW key, KeyFor(key, S),
           NEW r, r = Arranged(events, S, key)
    PROVE  /\ r \in Seq(RawEvents) /\ Cardinality(S) \in Nat /\ Len(r) = Cardinality(S)
           /\ \E s : SortedBy(events, key, r, Cardinality(S), S, s)
<1> DEFINE R == {p \in S \X S : Earlier(key[p[1]], key[p[2]])}
           N == Cardinality(S)
<1>1. \A i, j \in S : <<i, j>> \in R <=> Earlier(key[i], key[j])
  OBVIOUS
<1>2. Orders(R, S)
  <2>1. \A i \in S : PickInts(key[i])
    BY DEF KeyFor, PickInts
  <2>2. \A i \in S : <<i, i>> \notin R
    BY <1>1, <2>1 DEF Earlier, PickInts
  <2>3. ASSUME NEW i \in S, NEW j \in S, i # j PROVE Earlier(key[i], key[j]) \/ Earlier(key[j], key[i])
    <3>1. PICK a \in Int, b \in Int : key[i] = <<a, b>>
      BY DEF KeyFor
    <3>2. PICK c \in Int, d \in Int : key[j] = <<c, d>>
      BY DEF KeyFor
    <3>3. <<a, b>> # <<c, d>>
      BY <2>3, <3>1, <3>2 DEF KeyFor
    <3>4. a # c \/ b # d
      BY <3>3
    <3> QED
      BY <3>1, <3>2, <3>4 DEF Earlier
  <2>4. ASSUME NEW i \in S, NEW j \in S, NEW k \in S, Earlier(key[i], key[j]), Earlier(key[j], key[k])
        PROVE  Earlier(key[i], key[k])
    BY <2>1, <2>4 DEF Earlier, PickInts
  <2>5. IsFiniteSet(S)
    BY DEF KeyFor
  <2> HIDE DEF R
  <2> QED
    BY <1>1, <2>2, <2>3, <2>4, <2>5 DEF Orders
<1>3. r = [n \in 1 .. N |-> events[Ranked(S, R)[n]]]
  BY DEF Arranged
<1> HIDE DEF R
<1>4. PICK s : s = Ranked(S, R)
  OBVIOUS
<1>5. /\ N \in Nat /\ s \in [1 .. N -> S]
      /\ \A x \in S : \E n \in 1 .. N : s[n] = x
      /\ \A m, n \in 1 .. N : m < n => <<s[m], s[n]>> \in R
  BY <1>2, <1>4, RankedSorts
<1> HIDE DEF N
<1>6. r = [n \in 1 .. N |-> events[s[n]]]
  BY <1>3, <1>4
<1>7. \A n \in 1 .. N : events[s[n]] \in RawEvents
  BY <1>5
<1>8. r \in Seq(RawEvents) /\ Len(r) = N
  BY <1>5, <1>6, <1>7
<1>9. \A m, n \in 1 .. N : m < n => Earlier(key[s[m]], key[s[n]])
  BY <1>1, <1>5
<1>10. \A n \in 1 .. N : r[n] = events[s[n]]
  BY <1>6
<1>11. SortedBy(events, key, r, N, S, s)
  BY <1>5, <1>9, <1>10 DEF SortedBy
<1> QED
  BY <1>5, <1>8, <1>11 DEF N

LEMMA EventTyped ==
    ASSUME NEW x \in RawEvents
    PROVE  /\ x.id \in Int /\ x.recv \in Int /\ x.xts \in Int /\ x.seq \in Int /\ x.tid \in Int
           /\ TimeOf(x) \in Int
  BY DEF RawEvents, NONE, TimeOf

LEMMA PlacesFinite ==
    ASSUME NEW events \in Seq(RawEvents), NEW S \in SUBSET DOMAIN events
    PROVE  IsFiniteSet(S)
<1>1. PICK n \in Nat : DOMAIN events = 1 .. n
  OBVIOUS
<1>2. IsFiniteSet(1 .. n)
  BY FS_Interval
<1> QED
  BY <1>1, <1>2, FS_Subset

LEMMA SelectedTyped ==
    ASSUME NEW events \in Seq(RawEvents)
    PROVE  Selected(events) \in Seq(RawEvents)
<1> DEFINE S == {i \in DOMAIN events : events[i].recv \in 0 .. Window}
           key == [i \in S |-> <<i, 0>>]
<1>1. S \in SUBSET DOMAIN events /\ DOMAIN events = 1 .. Len(events) /\ Len(events) \in Nat
  OBVIOUS
<1>2. Selected(events) = Arranged(events, S, key)
  BY DEF Selected
<1>3. KeyFor(key, S)
  <2>1. IsFiniteSet(S)
    BY <1>1, PlacesFinite
  <2>2. key \in [S -> Int \X Int] /\ \A i \in S : key[i] = <<i, 0>>
    BY <1>1
  <2> HIDE DEF S, key
  <2> QED
    BY <2>1, <2>2 DEF KeyFor
<1> HIDE DEF S, key
<1> QED
  BY <1>1, <1>2, <1>3, ArrangedSorts

LEMMA StreamTyped ==
    ASSUME NEW events \in Seq(RawEvents), NEW e
    PROVE  Stream(events, e) \in Seq(RawEvents)
<1> DEFINE S == {i \in DOMAIN events : events[i].epoch = e}
           key == [i \in S |-> <<events[i].recv, i>>]
<1>1. S \in SUBSET DOMAIN events /\ DOMAIN events = 1 .. Len(events) /\ Len(events) \in Nat
  OBVIOUS
<1>2. Stream(events, e) = Arranged(events, S, key)
  BY DEF Stream
<1>3. KeyFor(key, S)
  <2>1. IsFiniteSet(S)
    BY <1>1, PlacesFinite
  <2>2. \A i \in DOMAIN events : events[i].recv \in Int
    <3>1. \A i \in DOMAIN events : events[i] \in RawEvents
      OBVIOUS
    <3> QED
      BY <3>1, EventTyped
  <2>3. key \in [S -> Int \X Int] /\ \A i \in S : key[i] = <<events[i].recv, i>>
    BY <1>1, <2>2
  <2> HIDE DEF S, key
  <2> QED
    BY <2>1, <2>3 DEF KeyFor
<1> HIDE DEF S, key
<1> QED
  BY <1>1, <1>2, <1>3, ArrangedSorts

(* Neighbours in order are all in order.                                   *)
LEMMA NeighboursAscend ==
    ASSUME NEW n \in Nat, NEW g \in [1 .. n -> Int], \A i \in 1 .. (n - 1) : g[i] <= g[i + 1]
    PROVE  Ascending(g)
<1> DEFINE N == {d \in Nat : \A i \in 1 .. n : i + d \in 1 .. n => g[i] <= g[i + d]}
<1>1. 0 \in N
  <2>1. \A i \in 1 .. n : i + 0 = i /\ g[i] \in Int
    OBVIOUS
  <2> QED
    BY <2>1
<1>2. ASSUME NEW d \in Nat, d \in N PROVE d + 1 \in N
  <2> SUFFICES ASSUME NEW i \in 1 .. n, i + (d + 1) \in 1 .. n PROVE g[i] <= g[i + (d + 1)]
    OBVIOUS
  <2>1. PICK j \in Int : j = i + d
    OBVIOUS
  <2>2. j \in 1 .. n /\ j \in 1 .. (n - 1) /\ j + 1 = i + (d + 1) /\ j + 1 \in 1 .. n
    BY <2>1
  <2>3. g[i] <= g[j] /\ g[j] <= g[j + 1]
    BY <1>2, <2>1, <2>2
  <2>4. g[i] \in Int /\ g[j] \in Int /\ g[j + 1] \in Int
    BY <2>2
  <2>5. g[i] <= g[j + 1]
    BY <2>3, <2>4
  <2> QED
    BY <2>2, <2>5
<1> HIDE DEF N
<1>3. Nat \subseteq N
  BY <1>1, <1>2, SetInduction
<1>4. ASSUME NEW i \in 1 .. n, NEW j \in 1 .. n, i < j PROVE g[i] <= g[j]
  <2>1. PICK d \in Nat : d = j - i /\ i + d = j
    BY <1>4
  <2> QED
    BY <1>3, <2>1 DEF N
<1> QED
  BY <1>4 DEF Ascending

(* Trades of which no two neighbours are out of order.                     *)
LEMMA TradesInOrder ==
    ASSUME NEW t \in Seq(RawEvents), \A i \in 1 .. (Len(t) - 1) : ~OutOfOrder(t[i], t[i + 1])
    PROVE  StreamOrdered(t)
<1>1. PICK n \in Nat : n = Len(t) /\ DOMAIN t = 1 .. n
  OBVIOUS
<1> DEFINE seqs == [i \in DOMAIN t |-> t[i].seq]
           tids == [i \in DOMAIN t |-> t[i].tid]
           xtss == [i \in DOMAIN t |-> t[i].xts]
<1>2. \A i \in 1 .. n : t[i].seq \in Int /\ t[i].tid \in Int /\ t[i].xts \in Int
  <2>1. \A i \in 1 .. n : t[i] \in RawEvents
    BY <1>1
  <2> QED
    BY <2>1, EventTyped
<1>3. seqs \in [1 .. n -> Int] /\ tids \in [1 .. n -> Int] /\ xtss \in [1 .. n -> Int]
  BY <1>1, <1>2
<1>4. \A i \in 1 .. n : seqs[i] = t[i].seq /\ tids[i] = t[i].tid /\ xtss[i] = t[i].xts
  BY <1>1
<1>5. SUFFICES ASSUME \A i, j \in DOMAIN t : xtss[i] = xtss[j] => i = j
               PROVE  /\ Carried(seqs) => Ascending(seqs)
                      /\ Lacking(seqs) /\ Carried(tids) => Ascending(tids)
                      /\ Lacking(seqs) /\ Lacking(tids) /\ Carried(xtss) => Ascending(xtss)
  BY DEF StreamOrdered
<1> HIDE DEF seqs, tids, xtss
<1>6. \A i \in 1 .. (n - 1) : i \in 1 .. n /\ i + 1 \in 1 .. n /\ xtss[i + 1] # xtss[i]
  <2> SUFFICES ASSUME NEW i \in 1 .. (n - 1)
               PROVE  i \in 1 .. n /\ i + 1 \in 1 .. n /\ xtss[i + 1] # xtss[i]
    OBVIOUS
  <2>1. i \in 1 .. n /\ i + 1 \in 1 .. n /\ i + 1 # i
    OBVIOUS
  <2> QED
    BY <1>1, <1>5, <2>1
<1>7. \A i \in 1 .. (n - 1) :
         ~(IF seqs[i] # NONE /\ seqs[i + 1] # NONE THEN seqs[i + 1] < seqs[i]
           ELSE IF tids[i] # NONE /\ tids[i + 1] # NONE THEN tids[i + 1] < tids[i]
           ELSE xtss[i] # NONE /\ xtss[i + 1] # NONE /\ xtss[i + 1] < xtss[i])
  <2> SUFFICES ASSUME NEW i \in 1 .. (n - 1)
               PROVE  ~(IF seqs[i] # NONE /\ seqs[i + 1] # NONE THEN seqs[i + 1] < seqs[i]
                        ELSE IF tids[i] # NONE /\ tids[i + 1] # NONE THEN tids[i + 1] < tids[i]
                        ELSE xtss[i] # NONE /\ xtss[i + 1] # NONE /\ xtss[i + 1] < xtss[i])
    OBVIOUS
  <2>1. PICK x : x = t[i]
    OBVIOUS
  <2>2. PICK y : y = t[i + 1]
    OBVIOUS
  <2>3. ~OutOfOrder(x, y)
    BY <1>1, <2>1, <2>2
  <2>4. seqs[i] = x.seq /\ tids[i] = x.tid /\ xtss[i] = x.xts
    BY <1>4, <1>6, <2>1
  <2>5. seqs[i + 1] = y.seq /\ tids[i + 1] = y.tid /\ xtss[i + 1] = y.xts
    BY <1>4, <1>6, <2>2
  <2>6. y.xts # x.xts
    BY <1>6, <2>4, <2>5
  <2> QED
    BY <2>3, <2>4, <2>5, <2>6 DEF OutOfOrder
<1>8. DOMAIN seqs = 1 .. n /\ DOMAIN tids = 1 .. n /\ DOMAIN xtss = 1 .. n
  BY <1>3
<1>9. Carried(seqs) => Ascending(seqs)
  <2> SUFFICES ASSUME Carried(seqs) PROVE Ascending(seqs)
    OBVIOUS
  <2>1. \A i \in 1 .. (n - 1) : ~(seqs[i + 1] < seqs[i])
    BY <1>6, <1>7, <1>8 DEF Carried
  <2>2. \A i \in 1 .. (n - 1) : seqs[i] <= seqs[i + 1]
    BY <1>3, <1>6, <2>1
  <2> QED
    BY <1>3, <2>2, NeighboursAscend
<1>10. Lacking(seqs) /\ Carried(tids) => Ascending(tids)
  <2> SUFFICES ASSUME Lacking(seqs), Carried(tids) PROVE Ascending(tids)
    OBVIOUS
  <2>1. \A i \in 1 .. (n - 1) : ~(tids[i + 1] < tids[i])
    BY <1>6, <1>7, <1>8 DEF Carried, Lacking
  <2>2. \A i \in 1 .. (n - 1) : tids[i] <= tids[i + 1]
    BY <1>3, <1>6, <2>1
  <2> QED
    BY <1>3, <2>2, NeighboursAscend
<1>11. Lacking(seqs) /\ Lacking(tids) /\ Carried(xtss) => Ascending(xtss)
  <2> SUFFICES ASSUME Lacking(seqs), Lacking(tids), Carried(xtss) PROVE Ascending(xtss)
    OBVIOUS
  <2>1. \A i \in 1 .. (n - 1) : ~(xtss[i + 1] < xtss[i])
    BY <1>6, <1>7, <1>8 DEF Carried, Lacking
  <2>2. \A i \in 1 .. (n - 1) : xtss[i] <= xtss[i + 1]
    BY <1>3, <1>6, <2>1
  <2> QED
    BY <1>3, <2>2, NeighboursAscend
<1> QED
  BY <1>9, <1>10, <1>11

(* What Judge has looked at when it returns PASS.                          *)
SpecOf(c, s) == IF c = "trade" THEN Interval ELSE ObservedInterval(s.current)

LEMMA JudgedPass ==
    ASSUME NEW c, NEW s, NEW norm, norm = Normalized(c, Selected(s.events)),
           Judge(c, s).verdict = "PASS"
    PROVE  /\ s.contract /\ ~Broken(norm) /\ norm # <<>> /\ ~(KnownSkew(c, norm) < MinSkewed)
           /\ c = "trade" => ~LiveOutOfOrder(norm)
           /\ ~OffSchedule(c, norm, SpecOf(c, s))
  BY DEF Judge, SpecOf

LEMMA JudgedHistory ==
    ASSUME NEW s, NEW norm, norm = Normalized("funding_history", Selected(s.events))
    PROVE  Judge("funding_history", s).verdict = "FAIL" <=>
              \/ ~s.contract \/ Broken(norm)
              \/ "mismatch" \in FundingGaps(norm, ObservedInterval(s.current)).pairs
  BY DEF Judge, Historical, OffSchedule

LEMMA HistoryNeverPasses ==
    ASSUME NEW s PROVE Judge("funding_history", s).verdict # "PASS"
<1>1. PICK norm : norm = Normalized("funding_history", Selected(s.events))
  OBVIOUS
<1>2. KnownSkew("funding_history", norm) = 0
  BY DEF KnownSkew, Historical
<1>3. 0 < MinSkewed
  BY SkewAssumption
<1> QED
  BY <1>1, <1>2, <1>3, JudgedPass

LEMMA PassIsMeant ==
    ASSUME NEW c, NEW s \in SampleRecords, Judge(c, s).verdict = "PASS"
    PROVE  PassMeans(c, Selected(s.events), s.contract)
<1>1. PICK events \in Seq(RawEvents) : events = Selected(s.events)
  BY SelectedTyped DEF SampleRecords
<1>2. c # "funding_history"
  BY HistoryNeverPasses
<1>3. Normalized(c, events) = events
  BY <1>2 DEF Normalized, Historical
<1>4. /\ s.contract /\ ~Broken(events) /\ events # <<>>
      /\ c = "trade" => ~LiveOutOfOrder(events)
      /\ ~OffSchedule(c, events, SpecOf(c, s))
  BY <1>1, <1>3, JudgedPass
<1>5. \A i \in DOMAIN events : events[i].ok
  BY <1>4 DEF Broken
<1>6. ASSUME c = "trade", NEW e \in Epochs(events) PROVE StreamOrdered(Stream(events, e))
  <2>1. PICK t \in Seq(RawEvents) : t = Stream(events, e)
    BY StreamTyped
  <2>2. \A i \in 1 .. (Len(t) - 1) : ~OutOfOrder(t[i], t[i + 1])
    BY <1>4, <1>6, <2>1 DEF LiveOutOfOrder
  <2> QED
    BY <2>1, <2>2, TradesInOrder
<1>7. c = "funding_current" => \A i, k \in DOMAIN events : events[i].gap = events[k].gap
  BY <1>4 DEF OffSchedule
<1> QED
  BY <1>1, <1>4, <1>5, <1>6, <1>7 DEF PassMeans

-----------------------------------------------------------------------------
(* Settlements on a grid.                                                  *)

LEMMA LeastOf ==
    ASSUME NEW T \in SUBSET Nat, T # {}
    PROVE  Min(T) \in T /\ \A y \in T : Min(T) <= y
  BY LeastNat DEF Min

LEMMA Multiples ==
    ASSUME NEW n \in Nat \ {0}, NEW a \in Int
    PROVE  a % n = 0 <=> \E q \in Int : a = q * n
<1>1. ASSUME a % n = 0 PROVE \E q \in Int : a = q * n
  <2>1. PICK q \in Int : q = a \div n
    OBVIOUS
  <2>2. a = n * q + (a % n)
    BY <2>1
  <2>3. a = q * n
    BY <1>1, <2>2
  <2> QED
    BY <2>3
<1>2. ASSUME NEW q \in Int, a = q * n PROVE a % n = 0
  BY <1>2
<1> QED
  BY <1>1, <1>2

LEMMA MultiplesAdd ==
    ASSUME NEW n \in Nat \ {0}, NEW a \in Int, NEW b \in Int, a % n = 0, b % n = 0
    PROVE  (a + b) % n = 0 /\ (a - b) % n = 0
<1>1. PICK p \in Int : a = p * n
  BY Multiples
<1>2. PICK q \in Int : b = q * n
  BY Multiples
<1>3. PICK x \in Int : x = p + q
  OBVIOUS
<1>4. PICK y \in Int : y = p - q
  OBVIOUS
<1>5. a + b = x * n
  BY <1>1, <1>2, <1>3
<1>6. a - b = y * n
  BY <1>1, <1>2, <1>4
<1>7. a + b \in Int /\ a - b \in Int
  OBVIOUS
<1> QED
  BY <1>5, <1>6, <1>7, Multiples

(* Steps of whole intervals stay on the grid, and conversely.              *)
LEMMA StepsOnGrid ==
    ASSUME NEW k \in Nat \ {0}, NEW M \in SUBSET Nat, M # {}, NEW n \in Nat, NEW s \in [1 .. n -> M],
           \A t \in M : \E i \in 1 .. n : s[i] = t,
           \A i, j \in 1 .. n : i < j => s[i] < s[j]
    PROVE  (\A i \in 1 .. (n - 1) : (s[i + 1] - s[i]) % k = 0)
              <=> (\A t \in M : (t - Min(M)) % k = 0)
<1>1. PICK m \in Nat : m = Min(M) /\ m \in M /\ \A y \in M : m <= y
  BY LeastOf
<1>2. \A i \in 1 .. n : s[i] \in Nat /\ s[i] \in M
  OBVIOUS
<1>3. n >= 1 /\ 1 \in 1 .. n /\ s[1] = m
  <2>1. PICK i \in 1 .. n : s[i] = m
    BY <1>1
  <2>2. n >= 1 /\ 1 \in 1 .. n
    OBVIOUS
  <2>3. i = 1 \/ 1 < i
    OBVIOUS
  <2>4. 1 < i => s[1] < s[i]
    BY <2>2
  <2>5. m <= s[1] /\ s[1] \in Nat
    BY <1>1, <1>2, <2>2
  <2> QED
    BY <2>1, <2>2, <2>3, <2>4, <2>5
<1>4. ASSUME \A i \in 1 .. (n - 1) : (s[i + 1] - s[i]) % k = 0
      PROVE  \A t \in M : (t - m) % k = 0
  <2> DEFINE N == {d \in Nat : d + 1 \in 1 .. n => (s[d + 1] - m) % k = 0}
  <2>1. 0 \in N
    <3>1. s[0 + 1] - m = 0
      BY <1>3
    <3>2. 0 % k = 0
      OBVIOUS
    <3> QED
      BY <3>1, <3>2
  <2>2. ASSUME NEW d \in Nat, d \in N PROVE d + 1 \in N
    <3> SUFFICES ASSUME (d + 1) + 1 \in 1 .. n PROVE (s[(d + 1) + 1] - m) % k = 0
      OBVIOUS
    <3>1. PICK i \in Nat : i = d + 1
      OBVIOUS
    <3>2. i \in 1 .. (n - 1) /\ i \in 1 .. n /\ i + 1 \in 1 .. n
      BY <3>1
    <3>3. PICK a \in Int : a = s[i] - m
      BY <1>2, <3>2
    <3>4. PICK b \in Int : b = s[i + 1] - s[i]
      BY <1>2, <3>2
    <3>5. a % k = 0 /\ b % k = 0
      BY <1>4, <2>2, <3>1, <3>2, <3>3, <3>4
    <3>6. (a + b) % k = 0
      BY <3>5, MultiplesAdd
    <3>7. a + b = s[i + 1] - m
      <4>1. PICK x \in Nat : x = s[i]
        BY <1>2, <3>2
      <4>2. PICK y \in Nat : y = s[i + 1]
        BY <1>2, <3>2
      <4> QED
        BY <3>3, <3>4, <4>1, <4>2
    <3> QED
      BY <3>1, <3>6, <3>7
  <2> HIDE DEF N
  <2>3. Nat \subseteq N
    BY <2>1, <2>2, SetInduction
  <2> SUFFICES ASSUME NEW t \in M PROVE (t - m) % k = 0
    OBVIOUS
  <2>4. PICK i \in 1 .. n : s[i] = t
    OBVIOUS
  <2>5. PICK d \in Nat : d + 1 = i
    <3>1. i - 1 \in Nat /\ (i - 1) + 1 = i
      OBVIOUS
    <3> QED
      BY <3>1
  <2>6. d \in N
    BY <2>3
  <2> QED
    BY <2>4, <2>5, <2>6 DEF N
<1>5. ASSUME \A t \in M : (t - m) % k = 0, NEW i \in 1 .. (n - 1)
      PROVE  (s[i + 1] - s[i]) % k = 0
  <2>1. i \in 1 .. n /\ i + 1 \in 1 .. n
    OBVIOUS
  <2>2. PICK x \in Nat : x = s[i] /\ x \in M
    BY <1>2, <2>1
  <2>3. PICK y \in Nat : y = s[i + 1] /\ y \in M
    BY <1>2, <2>1
  <2>4. PICK a \in Int : a = y - m
    OBVIOUS
  <2>5. PICK b \in Int : b = x - m
    OBVIOUS
  <2>6. a % k = 0 /\ b % k = 0
    BY <1>5, <2>2, <2>3, <2>4, <2>5
  <2>7. (a - b) % k = 0
    BY <2>6, MultiplesAdd
  <2>8. a - b = y - x
    BY <2>4, <2>5
  <2> QED
    BY <2>2, <2>3, <2>7, <2>8
<1> QED
  BY <1>1, <1>4, <1>5

LEMMA MomentsOf ==
    ASSUME NEW events \in Seq(RawEvents)
    PROVE  /\ Moments(events) \in SUBSET Nat /\ IsFiniteSet(Moments(events))
           /\ \A i \in Finalized(events) : i \in DOMAIN events /\ events[i].final /\ events[i].xts # NONE
<1>1. \A i \in Finalized(events) : i \in DOMAIN events /\ events[i].final /\ events[i].xts # NONE
  BY DEF Finalized
<1>2. \A i \in Finalized(events) : events[i].xts \in Nat
  <2>1. \A i \in Finalized(events) : events[i] \in RawEvents
    BY <1>1
  <2> QED
    BY <1>1, <2>1 DEF RawEvents
<1>3. IsFiniteSet(Finalized(events))
  BY <1>1, PlacesFinite
<1> DEFINE f == [i \in Finalized(events) |-> events[i].xts]
<1>4. f \in Surjection(Finalized(events), Moments(events))
  BY DEF Surjection, Moments
<1> HIDE DEF f
<1>5. IsFiniteSet(Moments(events))
  BY <1>3, <1>4, FS_Surjection
<1> QED
  BY <1>1, <1>2, <1>5 DEF Moments

(* The settlement times are those of the events, in order.                 *)
TimesIn(M, s, n) ==
    /\ s \in [1 .. n -> M] /\ Len(s) = n
    /\ \A t \in M : \E i \in 1 .. n : s[i] = t
    /\ \A i, j \in 1 .. n : i < j => s[i] < s[j]

LEMMA TimesSorted ==
    ASSUME NEW events \in Seq(RawEvents), NEW s, s = FundingTimes(events)
    PROVE  \E n \in Nat : TimesIn(Moments(events), s, n)
<1>1. PICK M \in SUBSET Nat : M = Moments(events) /\ IsFiniteSet(M)
  BY MomentsOf
<1>2. PICK R : R = {p \in M \X M : p[1] < p[2]}
  OBVIOUS
<1>3. \A t, u \in M : <<t, u>> \in R <=> t < u
  BY <1>2
<1>4. Orders(R, M)
  <2>1. \A t \in M : <<t, t>> \notin R
    BY <1>3
  <2>2. \A t, u \in M : t # u => <<t, u>> \in R \/ <<u, t>> \in R
    BY <1>3
  <2>3. \A t, u, v \in M : <<t, u>> \in R /\ <<u, v>> \in R => <<t, v>> \in R
    BY <1>3
  <2> QED
    BY <1>1, <2>1, <2>2, <2>3 DEF Orders
<1>5. s = Ranked(M, R)
  BY <1>1, <1>2 DEF FundingTimes
<1>6. PICK n \in Nat : n = Cardinality(M)
  BY <1>1, FS_CardinalityType
<1>7. /\ s \in [1 .. n -> M]
      /\ \A x \in M : \E i \in 1 .. n : s[i] = x
      /\ \A i, j \in 1 .. n : i < j => <<s[i], s[j]>> \in R
  BY <1>4, <1>5, <1>6, RankedSorts
<1>8. \A i, j \in 1 .. n : i < j => s[i] < s[j]
  BY <1>3, <1>7
<1>9. Len(s) = n
  <2>1. s = [i \in 1 .. n |-> s[i]] /\ \A i \in 1 .. n : s[i] \in M
    BY <1>7
  <2>2. [i \in 1 .. n |-> s[i]] \in Seq(M)
    BY <2>1
  <2>3. s \in Seq(M) /\ DOMAIN s = 1 .. n
    BY <1>7, <2>1, <2>2
  <2> QED
    BY <2>3
<1>10. TimesIn(M, s, n)
  BY <1>7, <1>8, <1>9 DEF TimesIn
<1> QED
  BY <1>1, <1>10

(* Between two settlements, with the contract's interval.                  *)
LEMMA PairOffGrid ==
    ASSUME NEW events \in Seq(RawEvents), \A i \in DOMAIN events : events[i].gap = NONE,
           NEW t \in Moments(events), NEW u \in Moments(events), t < u
    PROVE  Pair(events, Interval, t, u) = "mismatch" <=> (u - t) % Interval # 0
<1>1. \A v \in Moments(events) : GapAt(events, v) = NONE
  <2> SUFFICES ASSUME NEW v \in Moments(events) PROVE GapAt(events, v) = NONE
    OBVIOUS
  <2>1. PICK T : T = {i \in Finalized(events) : events[i].xts = v}
    OBVIOUS
  <2>2. T \in SUBSET DOMAIN events /\ T # {}
    BY <2>1, MomentsOf DEF Moments
  <2>3. T \in SUBSET Nat
    <3>1. DOMAIN events \in SUBSET Nat
      OBVIOUS
    <3> QED
      BY <2>2, <3>1
  <2>4. Min(T) \in T
    BY <2>2, <2>3, LeastOf
  <2>5. GapAt(events, v) = events[Min(T)].gap
    BY <2>1 DEF GapAt
  <2> QED
    BY <2>2, <2>4, <2>5
<1>2. t \in Nat /\ u \in Nat
  BY MomentsOf
<1>3. PICK a \in Nat : a = u - t /\ a > 0
  BY <1>2
<1>4. PICK n \in Nat \ {0} : n = Interval
  BY WindowAssumption
<1>5. Pair(events, Interval, t, u) =
         IF a % n = 0 /\ a \div n > 1 THEN "missing" ELSE IF a = n THEN "whole" ELSE "mismatch"
  BY <1>1, <1>3, <1>4 DEF Pair
<1>6. a % n = 0 /\ ~(a \div n > 1) => a = n
  <2> SUFFICES ASSUME a % n = 0, ~(a \div n > 1) PROVE a = n
    OBVIOUS
  <2>1. PICK q \in Int : q = a \div n
    OBVIOUS
  <2>2. a = n * q
    <3>1. a = n * q + (a % n)
      BY <2>1
    <3> QED
      BY <3>1
  <2>3. q <= 1
    BY <2>1
  <2>4. q > 0
    <3>1. q < 0 => n * q < 0
      BY ProductSigns
    <3>2. q = 0 => n * q = 0
      BY ProductSigns
    <3> QED
      BY <1>3, <2>2, <3>1, <3>2
  <2> QED
    BY <2>2, <2>3, <2>4
<1>7. a = n => a % n = 0
  OBVIOUS
<1> QED
  BY <1>3, <1>4, <1>5, <1>6, <1>7

(* The history that is judged has some event of every id, and no other.    *)
Represents(norm, events, n, k, i) ==
    /\ n \in DOMAIN norm /\ k \in DOMAIN events
    /\ norm[n] = events[k] /\ events[k].id = events[i].id

LEMMA HistoryIsNormalized ==
    ASSUME NEW events \in Seq(RawEvents), NEW norm, norm = Normalized("funding_history", events)
    PROVE  /\ norm \in Seq(RawEvents)
           /\ \A n \in DOMAIN norm : \E i \in DOMAIN events : norm[n] = events[i]
           /\ \A i \in DOMAIN events : \E n, k : Represents(norm, events, n, k, i)
<1> DEFINE S == Firsts(events)
           key == [i \in S |-> <<TimeOf(events[i]), events[i].id>>]
<1>1. S \in SUBSET DOMAIN events /\ DOMAIN events = 1 .. Len(events) /\ Len(events) \in Nat
  BY DEF Firsts
<1>2. norm = Arranged(events, S, key)
  BY DEF Normalized, Historical
<1>3. \A i, j \in S : events[i].id = events[j].id => i = j
  <2> SUFFICES ASSUME NEW i \in S, NEW j \in S, i < j PROVE events[i].id # events[j].id
    BY <1>1
  <2>1. i \in 1 .. (j - 1)
    BY <1>1
  <2> QED
    BY <2>1 DEF Firsts
<1>4. \A i \in S : TimeOf(events[i]) \in Int /\ events[i].id \in Int
  <2>1. \A i \in S : events[i] \in RawEvents
    BY <1>1
  <2> QED
    BY <2>1, EventTyped
<1>5. KeyFor(key, S)
  <2>1. IsFiniteSet(S)
    BY <1>1, PlacesFinite
  <2>2. key \in [S -> Int \X Int] /\ \A i \in S : key[i] = <<TimeOf(events[i]), events[i].id>>
    BY <1>4
  <2> HIDE DEF S, key
  <2> QED
    BY <1>3, <2>1, <2>2 DEF KeyFor
<1> HIDE DEF key, S
<1>6. PICK n \in Nat : n = Cardinality(S)
  BY <1>1, <1>2, <1>5, ArrangedSorts
<1>7. norm \in Seq(RawEvents) /\ Len(norm) = n
  BY <1>1, <1>2, <1>5, <1>6, ArrangedSorts
<1>8. PICK s \in [1 .. n -> S] : /\ \A m \in 1 .. n : norm[m] = events[s[m]]
                                 /\ \A i \in S : \E m \in 1 .. n : s[m] = i
  <2>1. PICK s : SortedBy(events, key, norm, Cardinality(S), S, s)
    BY <1>1, <1>2, <1>5, ArrangedSorts
  <2>2. SortedBy(events, key, norm, n, S, s)
    BY <1>6, <2>1
  <2>3. s \in [1 .. n -> S]
    BY <2>2 DEF SortedBy
  <2>4. \A m \in 1 .. n : norm[m] = events[s[m]]
    BY <2>2 DEF SortedBy
  <2>5. \A i \in S : \E m \in 1 .. n : s[m] = i
    BY <2>2 DEF SortedBy
  <2> QED
    BY <2>3, <2>4, <2>5
<1>9. DOMAIN norm = 1 .. n
  BY <1>7
<1>10. \A m \in DOMAIN norm : \E i \in DOMAIN events : norm[m] = events[i]
  BY <1>1, <1>8, <1>9
<1>11. ASSUME NEW i \in DOMAIN events
       PROVE  \E m, k : Represents(norm, events, m, k, i)
  <2>1. PICK T : T = {k \in DOMAIN events : events[k].id = events[i].id}
    OBVIOUS
  <2>2. T \in SUBSET Nat /\ T # {}
    BY <1>1, <2>1
  <2>3. PICK k \in T : \A y \in T : k <= y
    BY <2>2, LeastNat
  <2>4. k \in DOMAIN events /\ events[k].id = events[i].id
    BY <2>1
  <2>5. k \in S
    <3> SUFFICES ASSUME NEW j \in 1 .. (k - 1), events[j].id = events[k].id PROVE FALSE
      BY <2>4 DEF S, Firsts
    <3>1. j \in DOMAIN events /\ j < k
      BY <1>1, <2>4
    <3>2. j \in T
      BY <2>1, <2>4, <3>1
    <3>3. k <= j
      BY <2>3, <3>2
    <3> QED
      BY <1>1, <2>4, <3>1, <3>3
  <2>6. PICK m \in 1 .. n : s[m] = k
    BY <1>8, <2>5
  <2>7. norm[m] = events[k] /\ m \in DOMAIN norm
    BY <1>8, <1>9, <2>6
  <2>8. Represents(norm, events, m, k, i)
    BY <2>4, <2>7 DEF Represents
  <2> QED
    BY <2>8
<1> QED
  BY <1>7, <1>10, <1>11

(* Normalising a history loses no settlement time.                         *)
LEMMA MomentsSame ==
    ASSUME NEW events \in Seq(RawEvents), Agree(events),
           NEW norm, norm = Normalized("funding_history", events)
    PROVE  Moments(norm) = Moments(events)
<1>1. ASSUME NEW n \in Finalized(norm) PROVE norm[n].xts \in Moments(events)
  <2>1. n \in DOMAIN norm /\ norm[n].final /\ norm[n].xts # NONE
    BY <1>1 DEF Finalized
  <2>2. PICK i \in DOMAIN events : norm[n] = events[i]
    BY <2>1, HistoryIsNormalized
  <2>3. i \in Finalized(events)
    BY <2>1, <2>2 DEF Finalized
  <2> QED
    BY <2>2, <2>3 DEF Moments
<1>2. ASSUME NEW i \in Finalized(events) PROVE events[i].xts \in Moments(norm)
  <2>1. i \in DOMAIN events /\ events[i].final /\ events[i].xts # NONE
    BY <1>2 DEF Finalized
  <2>2. PICK n, k : Represents(norm, events, n, k, i)
    BY <2>1, HistoryIsNormalized
  <2>3. events[k].xts = events[i].xts /\ events[k].final = events[i].final
    BY <2>1, <2>2 DEF Agree, Represents
  <2>4. n \in Finalized(norm) /\ norm[n].xts = events[i].xts
    BY <2>1, <2>2, <2>3 DEF Finalized, Represents
  <2> QED
    BY <2>4 DEF Moments
<1> QED
  BY <1>1, <1>2 DEF Moments

(* A pair of settlements is a mismatch exactly when one is off the grid.   *)
LEMMA GapsMeanGrid ==
    ASSUME NEW norm \in Seq(RawEvents), \A i \in DOMAIN norm : norm[i].gap = NONE
    PROVE  "mismatch" \in FundingGaps(norm, Interval).pairs <=> OffGrid(norm)
<1>1. PICK s : s = FundingTimes(norm)
  OBVIOUS
<1>2. PICK M \in SUBSET Nat : M = Moments(norm)
  BY MomentsOf
<1>3. PICK n \in Nat : /\ s \in [1 .. n -> M] /\ Len(s) = n
                       /\ \A t \in M : \E i \in 1 .. n : s[i] = t
                       /\ \A i, j \in 1 .. n : i < j => s[i] < s[j]
  <2>1. PICK n \in Nat : TimesIn(M, s, n)
    BY <1>1, <1>2, TimesSorted
  <2>2. s \in [1 .. n -> M] /\ Len(s) = n
    BY <2>1 DEF TimesIn
  <2>3. \A t \in M : \E i \in 1 .. n : s[i] = t
    BY <2>1 DEF TimesIn
  <2>4. \A i, j \in 1 .. n : i < j => s[i] < s[j]
    BY <2>1 DEF TimesIn
  <2> QED
    BY <2>2, <2>3, <2>4
<1>4. FundingGaps(norm, Interval).pairs = {Pair(norm, Interval, s[i], s[i + 1]) : i \in 1 .. (n - 1)}
  BY <1>1, <1>3 DEF FundingGaps
<1>5. \A i \in 1 .. (n - 1) :
         Pair(norm, Interval, s[i], s[i + 1]) = "mismatch" <=> (s[i + 1] - s[i]) % Interval # 0
  <2> SUFFICES ASSUME NEW i \in 1 .. (n - 1)
               PROVE  Pair(norm, Interval, s[i], s[i + 1]) = "mismatch" <=> (s[i + 1] - s[i]) % Interval # 0
    OBVIOUS
  <2>1. i \in 1 .. n /\ i + 1 \in 1 .. n /\ i < i + 1
    OBVIOUS
  <2>2. s[i] \in M /\ s[i + 1] \in M /\ s[i] < s[i + 1]
    BY <1>3, <2>1
  <2>3. PICK t \in M : t = s[i]
    BY <2>2
  <2>4. PICK u \in M : u = s[i + 1]
    BY <2>2
  <2>5. t \in Moments(norm) /\ u \in Moments(norm) /\ t < u
    BY <1>2, <2>2, <2>3, <2>4
  <2>6. Pair(norm, Interval, t, u) = "mismatch" <=> (u - t) % Interval # 0
    BY <2>5, PairOffGrid
  <2> QED
    BY <2>3, <2>4, <2>6
<1>6. "mismatch" \in FundingGaps(norm, Interval).pairs <=>
         ~ \A i \in 1 .. (n - 1) : (s[i + 1] - s[i]) % Interval = 0
  BY <1>4, <1>5
<1>7. CASE M = {}
  <2>1. n = 0
    <3>1. n >= 1 => 1 \in 1 .. n
      OBVIOUS
    <3>2. \A i \in 1 .. n : s[i] \in M
      BY <1>3
    <3> QED
      BY <1>7, <3>1, <3>2
  <2>2. \A i \in 1 .. (n - 1) : FALSE
    BY <2>1
  <2>3. ~OffGrid(norm)
    BY <1>2, <1>7 DEF OffGrid
  <2> QED
    BY <1>6, <2>2, <2>3
<1>8. CASE M # {}
  <2>1. PICK k \in Nat \ {0} : k = Interval
    BY WindowAssumption
  <2>2. (\A i \in 1 .. (n - 1) : (s[i + 1] - s[i]) % k = 0) <=> (\A t \in M : (t - Min(M)) % k = 0)
    BY <1>3, <1>8, StepsOnGrid
  <2>3. OffGrid(norm) <=> ~ \A t \in M : (t - Min(M)) % k = 0
    BY <1>2, <2>1 DEF OffGrid
  <2> QED
    BY <1>6, <2>1, <2>2, <2>3
<1> QED
  BY <1>7, <1>8

LEMMA GridIsMeant ==
    ASSUME NEW s \in SampleRecords, NEW events, events = Selected(s.events),
           s.contract, s.current = <<>>, Agree(events),
           \A i \in DOMAIN events : events[i].ok /\ events[i].gap = NONE
    PROVE  Judge("funding_history", s).verdict = "FAIL" <=> OffGrid(events)
<1>1. events \in Seq(RawEvents)
  BY SelectedTyped DEF SampleRecords
<1>2. PICK norm : norm = Normalized("funding_history", events)
  OBVIOUS
<1>3. norm \in Seq(RawEvents) /\ \A n \in DOMAIN norm : \E i \in DOMAIN events : norm[n] = events[i]
  BY <1>1, <1>2, HistoryIsNormalized
<1>4. \A n \in DOMAIN norm : norm[n].ok /\ norm[n].gap = NONE
  BY <1>3
<1>5. ~Broken(norm)
  BY <1>4 DEF Broken
<1>6. ObservedInterval(s.current) = Interval
  BY DEF ObservedInterval
<1>7. Judge("funding_history", s).verdict = "FAIL" <=> "mismatch" \in FundingGaps(norm, Interval).pairs
  BY <1>2, <1>5, <1>6, JudgedHistory
<1>8. OffGrid(norm) <=> OffGrid(events)
  BY <1>1, <1>2, MomentsSame DEF OffGrid
<1> QED
  BY <1>3, <1>4, <1>7, <1>8, GapsMeanGrid

(* Every sample's verdict means what it has to.                            *)
LEMMA ReferenceHolds ==
    ASSUME NEW c, NEW s \in SampleRecords PROVE Reference(c, s, Judge(c, s))
<1>1. PICK events : events = Selected(s.events)
  OBVIOUS
<1>2. PICK j : j = Judge(c, s)
  OBVIOUS
<1>3. j.verdict = "PASS" => PassMeans(c, events, s.contract)
  BY <1>1, <1>2, PassIsMeant
<1>4. ASSUME c = "funding_history", s.contract, s.current = <<>>, Agree(events),
             \A i \in DOMAIN events : events[i].ok /\ events[i].gap = NONE
      PROVE  j.verdict = "FAIL" <=> OffGrid(events)
  BY <1>1, <1>2, <1>4, GridIsMeant
<1> QED
  BY <1>1, <1>2, <1>3, <1>4 DEF Reference

-----------------------------------------------------------------------------
(* Only certify writes a certificate, and what it writes is sound.         *)
LEMMA OutcomesSound ==
    ASSUME NEW c \in Caps, NEW o \in Outcomes[c] PROVE o.sound = TRUE
<1>1. PICK s \in Samples[c] : o = LET j == Judge(c, s) IN
                                   [verdict |-> j.verdict, raises |-> j.raises, gate |-> Gate(j),
                                    sound |-> Reference(c, s, j)]
  BY DEF Outcomes
<1>2. s \in SampleRecords
  BY SamplesAssumption
<1>3. o.sound = Reference(c, s, Judge(c, s))
  BY <1>1
<1>4. Reference(c, s, Judge(c, s)) = TRUE
  <2>1. Reference(c, s, Judge(c, s))
    BY <1>2, ReferenceHolds
  <2>2. Reference(c, s, Judge(c, s)) \in BOOLEAN
    BY DEF Reference
  <2> QED
    BY <2>1, <2>2
<1> QED
  BY <1>3, <1>4

LEMMA CertifySound ==
    ASSUME CertInv, VerdictSound, NEW a \in Attempts, Certify(a) PROVE VerdictSound'
<1>1. Capability(a) \in Caps
  <2>1. pc[a] = "certify"
    BY DEF Certify
  <2>2. cap[a] \in 1 .. (Len(Capabilities) + 1) /\ cap[a] <= Len(Capabilities)
    BY <2>1 DEF CertInv, CertTyped, Standing, Judging
  <2>3. cap[a] \in 1 .. Len(Capabilities)
    BY <2>2, CapsOf
  <2> QED
    BY <2>3, CapsOf DEF Capability
<1>2. CASE UNCHANGED certs
  BY <1>2 DEF VerdictSound
<1>3. ASSUME NEW o \in Outcomes[Capability(a)],
             certs' = [certs EXCEPT ![Capability(a)] =
                         [by |-> a, verdict |-> o.verdict, gate |-> o.gate, sound |-> o.sound]]
      PROVE  VerdictSound'
  <2>1. o.sound
    BY <1>1, OutcomesSound
  <2>2. certs = [c \in Caps |-> certs[c]]
    BY DEF CertInv, CertTyped
  <2>3. ASSUME NEW c \in Caps PROVE certs'[c].sound
    <3>1. CASE c = Capability(a)
      <4>1. certs'[c] = [by |-> a, verdict |-> o.verdict, gate |-> o.gate, sound |-> o.sound]
        BY <1>1, <1>3, <2>2, <3>1
      <4> QED
        BY <2>1, <4>1
    <3>2. CASE c # Capability(a)
      <4>1. certs'[c] = certs[c]
        BY <1>3, <2>2, <3>2
      <4> QED
        BY <4>1 DEF VerdictSound
    <3> QED
      BY <3>1, <3>2
  <2> QED
    BY <2>3 DEF VerdictSound
<1> QED
  BY <1>2, <1>3 DEF Certify

LEMMA OthersKeepVerdicts ==
    ASSUME [CertNext]_certVars, ~ \E a \in Attempts : Certify(a) PROVE UNCHANGED certs
<1>1. ASSUME NEW a \in Attempts, Process(a) PROVE UNCHANGED certs
  <2>1. CASE Open(a) \/ StageRow(a) \/ StageLog(a) \/ Audit(a) \/ Acquire(a) \/ Collect(a)
    BY <2>1 DEF Open, StageRow, StageLog, Audit, Acquire, Collect, database
  <2>2. CASE Promote(a) \/ Produce(a) \/ WriteArtifact(a) \/ Release(a) \/ ExportOwn(a)
    BY <2>2 DEF Promote, Produce, WriteArtifact, Release, ExportOwn, database
  <2>3. CASE Echo(a) \/ Fail(a) \/ FailLog(a) \/ Restore(a) \/ Unwind(a)
    BY <2>3 DEF Echo, Fail, FailLog, Restore, Unwind, database
  <2> QED
    BY <1>1, <2>1, <2>2, <2>3 DEF Process
<1>2. ASSUME NEW a \in Attempts, StartDirect(a) \/ Launch(a) PROVE UNCHANGED certs
  BY <1>2 DEF StartDirect, Launch, Start, database
<1>3. ASSUME NEW a \in Attempts, Signal(a) \/ IOError(a) \/ Kill(a) PROVE UNCHANGED certs
  BY <1>3 DEF Signal, IOError, Kill, database
<1>4. CASE Launcher \/ Deadline
  BY <1>4 DEF Launcher, Watchdog, PollRow, PollPid, Unload, UnloadEnds, Deadline, database
<1>5. CASE ExportCommand \/ LeaseExpires \/ UNCHANGED certVars
  BY <1>5 DEF ExportCommand, LeaseExpires, certVars, database
<1> QED
  BY <1>1, <1>2, <1>3, <1>4, <1>5 DEF CertNext

(* Every certificate's verdict means what Reference says, for samples of   *)
(* any events and any length: after a PASS of certify each connection's    *)
(* trades ascend in the key live_trade_out_of_order_count compares and the *)
(* funding rates share one schedule; a history without intervals of its    *)
(* own fails in analyze_funding_intervals exactly when a settlement is off *)
(* the contract's grid.                                                    *)
THEOREM VerdictsAreSound == CertSpec => []VerdictSound
<1>1. CertInit => VerdictSound
  BY DEF CertInit, VerdictSound, NoRows, NoCert
<1>2. CertInv /\ VerdictSound /\ [CertNext]_certVars => VerdictSound'
  <2> SUFFICES ASSUME CertInv, VerdictSound, [CertNext]_certVars PROVE VerdictSound'
    OBVIOUS
  <2>1. CASE \E a \in Attempts : Certify(a)
    BY <2>1, CertifySound
  <2>2. CASE ~ \E a \in Attempts : Certify(a)
    <3>1. UNCHANGED certs
      BY <2>2, OthersKeepVerdicts
    <3> QED
      BY <3>1 DEF VerdictSound
  <2> QED
    BY <2>1, <2>2
<1> QED
  BY <1>1, <1>2, CertHolds, PTL DEF CertSpec
=============================================================================
