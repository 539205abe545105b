-------------------------------- MODULE Lots --------------------------------
(***************************************************************************)
(* Quantities.  Parents and positions count canonical lots of the          *)
(* instrument (InstrumentTable::lot_size); a child order counts native     *)
(* lots of its exchange (book.lot_size).  Lot sizes are real numbers in    *)
(* the code (0.001 BTC); here they are integer multiples of a base unit.   *)
(***************************************************************************)
EXTENDS Integers

CONSTANTS
  kMaxInstruments,   \* number of instruments; valid ids are 0..kMaxInstruments-1
  ActiveExchanges,   \* number of exchanges; ids are 0..ActiveExchanges-1
  InstrumentLot,     \* [Instruments -> base units], 0 = unconfigured
  kFallbackLotSize,  \* lot size of an unconfigured or unknown instrument
  BookLot,           \* [Exchanges -> base units], the native lot of a book
  RoundsDown         \* canonical quantities n whose double quotient (n*l)/l
                     \* lands just below n (29 lots of 0.01, for example)

Instruments == 0..(kMaxInstruments - 1)
Exchanges == 0..(ActiveExchanges - 1)

ASSUME LotsAssumption ==
  /\ kMaxInstruments \in Nat \ {0}
  /\ ActiveExchanges \in Nat \ {0}
  /\ kFallbackLotSize \in Nat \ {0}
  /\ InstrumentLot \in [Instruments -> Nat]
  /\ BookLot \in [Exchanges -> Nat \ {0}]
  /\ RoundsDown \subseteq Nat \ {0, 1, 2}

\* InstrumentTable::lot_size
LotSize(i) ==
  IF i \in Instruments /\ InstrumentLot[i] > 0 THEN InstrumentLot[i]
                                               ELSE kFallbackLotSize

\* sor::to_lots of q canonical lots of instrument i on exchange e: the double
\* quotient is truncated, so it loses a partial native lot, and a whole one
\* when the quotient of an exact multiple is rounded below it.
ToLots(q, i, e) ==
  LET base == q * LotSize(i)
  IN  IF base % BookLot[e] = 0 /\ q \in RoundsDown
      THEN (base \div BookLot[e]) - 1
      ELSE base \div BookLot[e]

\* MUTANT of ToCanonicalLots: native lots are taken for canonical ones.
NativeLots(n, i, e) == n

\* ExecutionCore::to_canonical_lots: std::round(native * native_lot / ref_lot).
ToCanonicalLots(n, i, e) ==
  (2 * n * BookLot[e] + LotSize(i)) \div (2 * LotSize(i))

\* Every native lot is a whole number of canonical lots: what an exchange trades
\* can be counted in canonical lots.
DivisibleLots ==
  \A i \in Instruments, e \in Exchanges : \E k \in Nat \ {0} : BookLot[e] = k * LotSize(i)

\* Every exchange quotes the instrument in its canonical lot.
UniformLots == \A i \in Instruments, e \in Exchanges : BookLot[e] = LotSize(i)
=============================================================================
