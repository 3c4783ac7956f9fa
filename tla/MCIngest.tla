------------------------------ MODULE MCIngest ------------------------------
(***************************************************************************)
(* Small instances of IngestService for TLC.                               *)
(***************************************************************************)
EXTENDS IngestProperties

CONSTANTS e1, e2, r1, r2

\* Errors and thresholds: even numbers are singles, an odd one rounds down.
MCDoubles == 0 .. 9
MCSingles == {d \in MCDoubles : d % 2 = 0}
MCReal32 == [d \in MCDoubles |-> d - (d % 2)]

\* A window with a NaN has error NaN, one whose squares overflow float32 has
\* error +inf; otherwise each high reading adds 4 (4 is the warning
\* threshold itself, 8 is above the critical one).
MCReconError(w) ==
    LET has(v) == \E k \in DOMAIN w : w[k] = v
    IN  IF has("nan") THEN NaN
        ELSE IF has("huge") THEN Inf
        ELSE 4 * Cardinality({k \in DOMAIN w : w[k] = "hi"})

R(e, v) == [engine_id |-> e, value |-> v]

\* An empty batch, one with every kind of reading, mixed engines, and one that
\* is too long.
MCBatches ==
    { <<>>,
      <<R(e1, "hi"), R(e1, "lo"), R(e1, "hi")>>,
      <<R(e1, "hi"), R(e2, "hi"), R(e1, "hi")>>,
      <<R(e1, "huge"), R(e2, "hi"), R(e2, "lo")>>,
      <<R(e1, "lo"), R(e1, "nan"), R(e1, "bad")>>,
      <<R(e1, "hi"), R(e1, "hi"), R(e1, "hi"), R(e1, "hi")>> }
=============================================================================
