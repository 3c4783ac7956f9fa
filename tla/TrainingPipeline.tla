-------------------------- MODULE TrainingPipeline --------------------------
(***************************************************************************)
(* main() of ml/scripts/train.py, which writes scaler.joblib, model.pt (in *)
(* train(), module Trainer) and model_metadata.json one after the other,   *)
(* and AnomalyDetector.load of app/detection/inference.py, which reads     *)
(* the three files in another order from the same directory.               *)
(*                                                                         *)
(* Trainings follow each other, may be killed and may be followed by       *)
(* another one with other arguments.  The application starts at any time.  *)
(***************************************************************************)
EXTENDS Trainer

CONSTANT MaxTrainings    \* bound on the trainings of a behaviour

\* The metadata by what its thresholds were calibrated with: the weights and
\* the scaler.
Metadata == [training : Nat, weights : Weights, scaler : Nat, shape : Shapes]

ASSUME PipelineAssumption ==
    /\ MaxTrainings \in Nat
    /\ {Absent, Partial} \cap (Nat \cup Metadata) = {}

VARIABLES
    \* the training script
    stage,           \* "idle", "scaler", "train" or "metadata"
    completed,       \* TRUE from the end of a training to the start of the next
    scaler_joblib,   \* file: the training whose data the scaler was fitted to
    model_metadata,  \* file
    \* the application
    start_up,        \* "off", "model", "scaler", "no_model" or "ready"
    metadata,        \* what load() has read so far
    weights,
    scaler

scriptVars == <<stage, completed, scaler_joblib, model_metadata>>
loadVars == <<start_up, metadata, weights, scaler>>
vars == <<trainerVars, scriptVars, loadVars>>

Init ==
    /\ TrainerInit
    /\ stage = "idle" /\ completed = FALSE
    /\ scaler_joblib = Absent /\ model_metadata = Absent
    /\ start_up = "off"
    /\ metadata = Absent /\ weights = Absent /\ scaler = Absent

\* The scaler is fitted and its file opened.
Start(architecture) ==
    /\ stage = "idle" /\ training < MaxTrainings
    /\ stage' = "scaler" /\ completed' = FALSE
    /\ training' = training + 1 /\ shape' = architecture
    /\ scaler_joblib' = Partial
    /\ UNCHANGED <<at, progressVars, model_pt, result, model_metadata, loadVars>>

\* save_scaler completes, and train() is called.
SaveScaler ==
    /\ stage = "scaler"
    /\ stage' = "train"
    /\ scaler_joblib' = training
    /\ Call
    /\ UNCHANGED <<completed, model_metadata, loadVars>>

Train ==
    /\ stage = "train"
    /\ TrainerStep
    /\ UNCHANGED <<scriptVars, loadVars>>

\* train() has returned; both thresholds are calibrated with its model, and
\* the metadata file is opened.
Calibrate ==
    /\ stage = "train" /\ at = "returned"
    /\ stage' = "metadata"
    /\ model_metadata' = Partial
    /\ UNCHANGED <<trainerVars, completed, scaler_joblib, loadVars>>

\* The script is over, and its variables with it.
Over ==
    /\ stage' = "idle" /\ at' = "off"
    /\ losses' = <<>> /\ best_val_loss' = Infinity /\ patience_counter' = 0
    /\ result' = Absent
    /\ UNCHANGED <<training, shape, model_pt>>

\* json.dump completes.
WriteMetadata ==
    /\ stage = "metadata"
    /\ model_metadata' = [training |-> training, weights |-> result,
                          scaler |-> training, shape |-> shape]
    /\ completed' = TRUE
    /\ Over
    /\ UNCHANGED <<scaler_joblib, loadVars>>

\* train() raises, and the script ends.
TrainRaises ==
    /\ stage = "train" /\ at = "raised"
    /\ Over
    /\ UNCHANGED <<completed, scaler_joblib, model_metadata, loadVars>>

\* The script is killed, or the disk is full: the files stay as they are.
Die ==
    /\ stage # "idle"
    /\ Over
    /\ UNCHANGED <<completed, scaler_joblib, model_metadata, loadVars>>

\* FileNotFoundError: the application runs without a model.
NoModel ==
    /\ start_up' = "no_model"
    /\ metadata' = Absent /\ weights' = Absent /\ scaler' = Absent

\* Any other exception ends the process, which starts again.
StartUpFails ==
    /\ start_up' = "off"
    /\ metadata' = Absent /\ weights' = Absent /\ scaler' = Absent

\* load() begins with the metadata.
ReadMetadata ==
    /\ start_up = "off"
    /\ IF model_metadata = Absent THEN NoModel
       ELSE IF model_metadata = Partial THEN StartUpFails
       ELSE start_up' = "model" /\ metadata' = model_metadata /\ UNCHANGED <<weights, scaler>>
    /\ UNCHANGED <<trainerVars, scriptVars>>

\* Then the weights, into a network of the architecture in the metadata.
ReadWeights ==
    /\ start_up = "model"
    /\ IF model_pt = Absent THEN NoModel
       ELSE IF ~Loads(model_pt, metadata.shape) THEN StartUpFails
       ELSE start_up' = "scaler" /\ weights' = model_pt /\ UNCHANGED <<metadata, scaler>>
    /\ UNCHANGED <<trainerVars, scriptVars>>

\* Mutant: the metadata is read again, after the scaler.
ReadScalerAndMetadata ==
    /\ start_up = "scaler"
    /\ IF Absent \in {scaler_joblib, model_metadata} THEN NoModel
       ELSE IF Partial \in {scaler_joblib, model_metadata} THEN StartUpFails
       ELSE /\ start_up' = "ready"
            /\ scaler' = scaler_joblib /\ metadata' = model_metadata
            /\ UNCHANGED weights
    /\ UNCHANGED <<trainerVars, scriptVars>>

\* Then the scaler, and the detector is ready.
ReadScaler ==
    /\ start_up = "scaler"
    /\ IF scaler_joblib = Absent THEN NoModel
       ELSE IF scaler_joblib = Partial THEN StartUpFails
       ELSE start_up' = "ready" /\ scaler' = scaler_joblib /\ UNCHANGED <<metadata, weights>>
    /\ UNCHANGED <<trainerVars, scriptVars>>

\* The application stops, at any time.
Stop ==
    /\ start_up # "off"
    /\ StartUpFails
    /\ UNCHANGED <<trainerVars, scriptVars>>

Script == SaveScaler \/ Train \/ Calibrate \/ WriteMetadata \/ TrainRaises

Next ==
    \/ \E architecture \in Shapes : Start(architecture)
    \/ Script \/ Die
    \/ ReadMetadata \/ ReadWeights \/ ReadScaler \/ Stop

\* A training that was started goes on.
Spec == Init /\ [][Next]_vars /\ WF_vars(Script)

-----------------------------------------------------------------------------
File(contents) == contents \cup {Absent, Partial}

\* The type of every variable, with how long a training may go on.
TypeOK ==
    /\ at \in {"off", "epoch", "saving", "reload", "returned", "raised"}
    /\ training \in Nat /\ shape \in Shapes
    /\ losses \in Seq(Losses \cup {Diverged}) /\ Len(losses) <= max_epochs
    /\ at = "epoch" => Len(losses) < max_epochs
    /\ at = "saving" => Len(losses) > 0
    /\ best_val_loss \in Losses \cup {Infinity}
    /\ patience_counter \in 0 .. patience \/ patience_counter = 1
    /\ at \in {"epoch", "saving"} => patience_counter = 0 \/ patience_counter < patience
    /\ model_pt \in File(Weights) /\ result \in Weights \cup {Absent}
    /\ stage \in {"idle", "scaler", "train", "metadata"} /\ completed \in BOOLEAN
    /\ stage \in {"idle", "scaler"} <=> at = "off"
    /\ at = "returned" => result \in Weights
    /\ stage = "metadata" => at = "returned"
    /\ scaler_joblib \in File(Nat) /\ model_metadata \in File(Metadata)
    /\ start_up \in {"off", "model", "scaler", "no_model", "ready"}
    /\ metadata \in Metadata \cup {Absent}
    /\ weights \in Weights \cup {Absent} /\ scaler \in Nat \cup {Absent}

\* The epoch of the last improvement, 0 before the first.
BestEpoch == Len(losses) - patience_counter

\* trainer.py: early stopping looks back at the right epoch.  best_val_loss is
\* the loss of the epoch patience_counter epochs ago, no loss so far is better
\* by more than min_delta, and without any such epoch every loss diverged.
BestAccounted ==
    at # "off" =>
        /\ BestEpoch >= 0
        /\ IF BestEpoch = 0 THEN best_val_loss = Infinity
                            ELSE best_val_loss = losses[BestEpoch]
        /\ \A k \in 1 .. Len(losses) : losses[k] # Diverged =>
               BestEpoch > 0 /\ losses[k] >= best_val_loss - min_delta

\* model.pt is the checkpoint of the best epoch of this training, as soon as
\* there is one, and train() returns nothing else.
CheckpointIsBest ==
    LET best == [training |-> training, epoch |-> BestEpoch, shape |-> shape]
    IN  BestEpoch > 0 =>
            /\ at \in {"epoch", "reload", "returned", "raised"} => model_pt = best
            /\ at = "returned" => result = best
            /\ at # "raised"

\* From the end of a training to the next start the three files belong
\* together: the thresholds were calibrated with these weights and this scaler,
\* even if the training left the weights of an earlier one in place.
CompletedIsConsistent ==
    completed => /\ model_metadata.weights = model_pt
                 /\ model_metadata.scaler = scaler_joblib
                 /\ model_pt.shape = model_metadata.shape

\* Weights v are not from a later epoch or training than weights w.
NotNewer(v, w) ==
    \/ v.training < w.training
    \/ v.training = w.training /\ v.epoch <= w.epoch

\* A detector never has thresholds newer than its weights or its scaler,
\* however load() and the scripts interleave: load() reads the files in the
\* opposite order of their writing.
ThresholdsNotNewer ==
    start_up = "ready" =>
        NotNewer(metadata.weights, weights) /\ metadata.scaler <= scaler

\* A training that was started ends.
TrainingEnds == stage # "idle" ~> stage = "idle"

\* trainer.py: "Returns a TrainResult with the loaded best model": a model of
\* this training.
ReturnsOwnModel == at = "returned" => result.training = training

\* README: "Thresholds: Calibrated on normal-data reconstruction errors": those
\* of the weights and the scaler the detector uses.
CalibratedForDetector ==
    start_up = "ready" => metadata.weights = weights /\ metadata.scaler = scaler
=============================================================================
