------------------------------ MODULE Severity ------------------------------
(***************************************************************************)
(* app/detection/severity.py: the severity of a reconstruction error, and  *)
(* what is left of it once the event is a row of anomaly_events, whose     *)
(* reconstruction_error and thresholds are REAL (32-bit) columns.          *)
(*                                                                         *)
(* Finite 64-bit floats are abstracted to a set Doubles of integers that   *)
(* keeps their order; Singles are those a 32-bit float holds exactly, and  *)
(* Real32 is the rounding of the column type.  The error itself comes out  *)
(* of a float32 tensor, so it is a single, an infinity or a NaN.           *)
(***************************************************************************)
EXTENDS Integers

CONSTANTS
    Doubles,             \* finite 64-bit values, in their order
    Singles,             \* the doubles that are exact in 32 bits
    Real32,              \* float8 -> float4 rounding of a REAL column
    Inf, NaN,            \* +infinity and not-a-number
    threshold_warning,   \* ModelMetadata.threshold_warning
    threshold_critical   \* ModelMetadata.threshold_critical

\* Rounding to a coarser grid is monotone and leaves the grid alone.
ASSUME FloatAssumption ==
    /\ Doubles \subseteq Int
    /\ Singles \subseteq Doubles
    /\ Inf \notin Int /\ NaN \notin Int /\ Inf # NaN
    /\ Real32 \in [Doubles -> Singles]
    /\ \A x \in Singles : Real32[x] = x
    /\ \A x, y \in Doubles : x <= y => Real32[x] <= Real32[y]

ASSUME ThresholdAssumption ==
    threshold_warning \in Doubles /\ threshold_critical \in Doubles

\* What a reconstruction error can be.
Errors == Singles \cup {Inf, NaN}

\* The IEEE comparison error >= threshold: +inf passes it, NaN never does.
AtLeast(error, threshold) ==
    error = Inf \/ (error \in Int /\ error >= threshold)

AlertSeverity == {"NORMAL", "WARNING", "CRITICAL"}

\* classify_severity: both thresholds are inclusive.
classify_severity(error, warning, critical) ==
    IF AtLeast(error, critical) THEN "CRITICAL"
    ELSE IF AtLeast(error, warning) THEN "WARNING"
    ELSE "NORMAL"

\* predict(): the severity of an error under the loaded metadata.
Score(error) == classify_severity(error, threshold_warning, threshold_critical)
=============================================================================
