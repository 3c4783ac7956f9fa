------------------------------ MODULE Trainer ------------------------------
(***************************************************************************)
(* train() of ml/training/trainer.py: the epochs with early stopping, the  *)
(* checkpoint model.pt and its reload.  Of a network only its identity is  *)
(* kept: the training and the epoch it comes from, and its architecture.   *)
(*                                                                         *)
(* A file is written in two steps, the first of which truncates it: a      *)
(* reader that comes in between finds it Partial, and its load raises.     *)
(***************************************************************************)
EXTENDS Integers, Sequences

CONSTANTS
    Losses,          \* finite validation losses, in units of a float's order
    Diverged,        \* a loss that is NaN or infinite
    Infinity,        \* best_val_loss before the first improvement
    Shapes,          \* the architectures the arguments may ask for
    max_epochs, patience, min_delta,   \* of TrainConfig
    Absent, Partial  \* a file that does not exist, or is not complete

\* What identifies the weights in a complete model.pt.
Weights == [training : Nat, epoch : Nat \ {0}, shape : Shapes]

ASSUME TrainerAssumption ==
    /\ Losses \subseteq Int
    /\ Diverged \notin Int /\ Infinity \notin Int
    /\ max_epochs \in Nat /\ patience \in Nat /\ min_delta \in Nat
    /\ Absent # Partial /\ {Absent, Partial} \cap Weights = {}

VARIABLES
    at,                 \* "off", "epoch", "saving", "reload", "returned", "raised"
    training,           \* number of the training, counted over all calls
    shape,              \* its architecture
    losses,             \* val_loss of its epochs so far
    best_val_loss,
    patience_counter,
    model_pt,           \* the file
    result              \* the weights of TrainResult.model

progressVars == <<losses, best_val_loss, patience_counter>>
trainerVars == <<at, training, shape, progressVars, model_pt, result>>

\* No training before the first call has left a file.
TrainerInit ==
    /\ at = "off" /\ training = 0 /\ shape \in Shapes
    /\ losses = <<>> /\ best_val_loss = Infinity /\ patience_counter = 0
    /\ model_pt = Absent /\ result = Absent

\* The loop goes on unless this was the last epoch.
NextEpoch(epoch) == IF epoch = max_epochs THEN "reload" ELSE "epoch"

\* train() is called: a new model, no loss yet.
Call ==
    /\ at = "off"
    /\ at' = NextEpoch(0)
    /\ losses' = <<>> /\ best_val_loss' = Infinity /\ patience_counter' = 0
    /\ UNCHANGED <<training, shape, model_pt, result>>

\* val_loss < best_val_loss - min_delta, which no NaN and no infinity passes.
Improves(loss) ==
    /\ loss # Diverged
    /\ best_val_loss # Infinity => loss < best_val_loss - min_delta

\* Mutant: the patience counter is not reset by an improvement.
ImproveKeepsCounter(loss) ==
    /\ at = "epoch" /\ Improves(loss)
    /\ losses' = Append(losses, loss)
    /\ best_val_loss' = loss
    /\ model_pt' = Partial
    /\ at' = "saving"
    /\ UNCHANGED <<training, shape, patience_counter, result>>

\* An epoch whose loss is an improvement: torch.save opens the checkpoint.
Improve(loss) ==
    /\ at = "epoch" /\ Improves(loss)
    /\ losses' = Append(losses, loss)
    /\ best_val_loss' = loss /\ patience_counter' = 0
    /\ model_pt' = Partial
    /\ at' = "saving"
    /\ UNCHANGED <<training, shape, result>>

\* torch.save completes.
Save ==
    /\ at = "saving"
    /\ model_pt' = [training |-> training, epoch |-> Len(losses), shape |-> shape]
    /\ at' = NextEpoch(Len(losses))
    /\ UNCHANGED <<training, shape, progressVars, result>>

\* Mutant: torch.save outside of the if, in every epoch.
StallSaves(loss) ==
    /\ at = "epoch" /\ ~Improves(loss)
    /\ losses' = Append(losses, loss)
    /\ patience_counter' = patience_counter + 1
    /\ model_pt' = Partial
    /\ at' = IF patience_counter' >= patience THEN "reload" ELSE "saving"
    /\ UNCHANGED <<training, shape, best_val_loss, result>>

\* Mutant: no break when the patience is exhausted.
StallGoesOn(loss) ==
    /\ at = "epoch" /\ ~Improves(loss)
    /\ losses' = Append(losses, loss)
    /\ patience_counter' = patience_counter + 1
    /\ at' = NextEpoch(Len(losses) + 1)
    /\ UNCHANGED <<training, shape, best_val_loss, model_pt, result>>

\* An epoch without an improvement: early stopping, or the next epoch.
Stall(loss) ==
    /\ at = "epoch" /\ ~Improves(loss)
    /\ losses' = Append(losses, loss)
    /\ patience_counter' = patience_counter + 1
    /\ at' = IF patience_counter' >= patience THEN "reload"
                                              ELSE NextEpoch(Len(losses) + 1)
    /\ UNCHANGED <<training, shape, best_val_loss, model_pt, result>>

\* load_state_dict(torch.load(path)) accepts a complete file whose weights
\* have the architecture of the model.
Loads(file, architecture) == file \notin {Absent, Partial} /\ file.shape = architecture

\* Mutant: the model as the last epoch left it is returned.
ReloadLast ==
    /\ at = "reload"
    /\ result' = [training |-> training, epoch |-> Len(losses), shape |-> shape]
    /\ at' = "returned"
    /\ UNCHANGED <<training, shape, progressVars, model_pt>>

\* The weights of model.pt become those of the model, which is returned.
Reload ==
    /\ at = "reload" /\ Loads(model_pt, shape) /\ losses # <<>>
    /\ result' = model_pt
    /\ at' = "returned"
    /\ UNCHANGED <<training, shape, progressVars, model_pt>>

\* Mutant: a missing checkpoint is waited for.
ReloadWaits ==
    /\ at = "reload" /\ ~Loads(model_pt, shape)
    /\ UNCHANGED trainerVars

\* No checkpoint, a broken one, or one of another architecture; or no epoch
\* was asked for, and the number of the last one is not defined.
ReloadRaises ==
    /\ at = "reload" /\ (Loads(model_pt, shape) => losses = <<>>)
    /\ at' = "raised"
    /\ UNCHANGED <<training, shape, progressVars, model_pt, result>>

TrainerStep ==
    \/ \E loss \in Losses \cup {Diverged} : Improve(loss) \/ Stall(loss)
    \/ Save \/ Reload \/ ReloadRaises
=============================================================================
