---------------------------- MODULE WindowBuffer ----------------------------
(***************************************************************************)
(* app/detection/window_buffer.py: SlidingWindowBuffer as operators on its *)
(* deque, a sequence of at most window_size readings, oldest first.        *)
(* The check of the feature count (n_features is the length of             *)
(* sensor_cols in one and the same metadata file) is not modelled.         *)
(***************************************************************************)
EXTENDS Integers, Sequences

CONSTANT window_size   \* ModelMetadata.window_size, the deque's maxlen

ASSUME WindowSizeAssumption == window_size \in Nat \ {0}

\* Mutant: a list in place of the deque, nothing ever falls out.
PushUnbounded(buf, values) == Append(buf, values)

\* Mutant: a deque filled from the wrong end: the newest value is dropped.
PushDropsNewest(buf, values) ==
    IF Len(buf) = window_size THEN buf ELSE Append(buf, values)

\* push(): append to deque(maxlen=window_size), which drops its oldest entry.
push(buf, values) ==
    IF Len(buf) = window_size THEN Append(Tail(buf), values)
                              ELSE Append(buf, values)

\* Mutant: off by one in the fill level.
ReadyOneEarly(buf) == Len(buf) >= window_size - 1

\* The condition under which push() returns a window and is_ready() is true.
is_ready(buf) == Len(buf) = window_size

\* The last n elements of s, or all of it while it is shorter.
LastOf(s, n) == IF Len(s) <= n THEN s ELSE SubSeq(s, Len(s) - n + 1, Len(s))
=============================================================================
