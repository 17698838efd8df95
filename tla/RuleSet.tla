------------------------------ MODULE RuleSet ------------------------------
(***************************************************************************)
(* The rules as a set: the books they read, the thresholds of a            *)
(* configuration, their scaling by sensitivity (apply_sensitivity), and    *)
(* what each rule built from them says of each row of its data set         *)
(* (load_trust_rules_from_config).  Both run.py and replay/engine.py build *)
(* their rules this way.                                                   *)
(***************************************************************************)
EXTENDS TrustRules

CONSTANTS
  Thresholds,    \* the thresholds of the configuration
  Parts,         \* bulkMin is given in this many parts of a cent
  RoundedUp      \* a float halfway between two cents may be rounded either way

Books == [matters : Seq(Matter), ledger : Seq(Entry), lines : Seq(Line),
          periods : Seq(Period), register : Seq(Invoice), allocations : Seq(Allocation)]

\* load_config: thresholds in days are positive, bulkMin is not negative.
ASSUME ThresholdAssumption ==
  /\ Thresholds \in [dormancy : Nat \ {0}, unmatched : Nat \ {0}, unreconciled : Nat \ {0},
                     fit : Nat \ {0}, bulkMin : Nat]
  /\ Parts \in Nat \ {0}
  /\ RoundedUp \subseteq Nat

Rule == {"R01", "R02", "R03", "R04", "R05", "R06", "R07", "R08", "R09", "R10",
         "R12", "R13", "R14"}
Mode == {"broad", "standard", "precise"}

-----------------------------------------------------------------------------
\* _SENSITIVITY_MULTIPLIER, in halves.
\* Mutant: precise and broad are swapped.
HalvesSwapped(m) == CASE m = "broad" -> 3 [] m = "standard" -> 2 [] m = "precise" -> 1
Halves(m) == CASE m = "broad" -> 1 [] m = "standard" -> 2 [] m = "precise" -> 3

\* Days are rounded half up and stay positive.
ScaleDays(days, m) == LET d == (days * Halves(m) + 1) \div 2 IN IF d < 1 THEN 1 ELSE d
\* round(value * multiplier, 2): the product in 2 * Parts parts of a cent, to the
\* nearest cent; of two equally near ones RoundedUp says which.
RoundsUp(n, d) == 2 * (n % d) > d \/ (2 * (n % d) = d /\ n \in RoundedUp)
ToCents(n, d) == IF RoundsUp(n, d) THEN n \div d + 1 ELSE n \div d
ScaleAmount(amount, m) == ToCents(amount * Halves(m), 2 * Parts)

(***************************************************************************)
(* What a rule says of each row of its data set.                           *)
(***************************************************************************)
VerdictsOn(b, r, at, m) ==
  CASE r = "R01" -> [i \in DOMAIN b.ledger  |-> R01(b.ledger[i])]
    [] r = "R02" -> [i \in DOMAIN b.matters |-> R02(b.matters[i], ScaleDays(Thresholds.dormancy, m), at)]
    [] r = "R03" -> [i \in DOMAIN b.periods |-> R03(b.periods[i])]
    [] r = "R04" -> [i \in DOMAIN b.lines   |-> R04(b.lines[i], ScaleDays(Thresholds.unmatched, m), at)]
    [] r = "R05" -> [i \in DOMAIN b.ledger  |-> R05(b.ledger[i], ScaleDays(Thresholds.unreconciled, m), at)]
    [] r = "R06" -> [i \in DOMAIN b.matters |-> R06(b.matters[i], ScaleDays(Thresholds.fit, m), at)]
    [] r = "R07" -> [i \in DOMAIN b.ledger  |-> R07(b.ledger[i])]
    [] r = "R08" -> [i \in DOMAIN b.ledger  |-> R08(b.ledger[i], b.register)]
    [] r = "R09" -> [i \in DOMAIN b.ledger  |-> R09(b.ledger[i], b.register)]
    [] r = "R10" -> [i \in DOMAIN b.ledger  |-> R10(b.ledger[i], b.register)]
    [] r = "R12" -> [i \in DOMAIN b.lines   |-> R12(b.lines[i], b.allocations, b.ledger,
                                                    ScaleAmount(Thresholds.bulkMin, m))]
    [] r = "R13" -> [i \in DOMAIN b.lines   |-> R13(b.lines[i])]
    [] r = "R14" -> [i \in DOMAIN b.periods |-> R14(b.periods[i])]

RowsWith(verdict, b, r, at, m) ==
  {i \in DOMAIN VerdictsOn(b, r, at, m) : VerdictsOn(b, r, at, m)[i] = verdict}

Raised(b, at, m) == \E r \in Rule : RowsWith("raises", b, r, at, m) # {}
=============================================================================
