--------------------------- MODULE TrainingProofs ---------------------------
(***************************************************************************)
(* Theorems about TrainingPipeline, for any number of trainings, epochs,   *)
(* losses and architectures.                                               *)
(***************************************************************************)
EXTENDS TrainingPipeline, TLAPS

-----------------------------------------------------------------------------
(* Types.                                                                  *)

LEMMA TypeInit == Init => TypeOK
<1> SUFFICES ASSUME Init PROVE TypeOK
  OBVIOUS
<1> USE TrainerAssumption, PipelineAssumption DEF Init, TrainerInit
<1>1. losses \in Seq(Losses \cup {Diverged}) /\ Len(losses) = 0
  OBVIOUS
<1>2. model_pt \in File(Weights) /\ scaler_joblib \in File(Nat) /\ model_metadata \in File(Metadata)
  BY DEF File
<1>3. Len(losses) <= max_epochs /\ 0 \in 0 .. patience
  BY <1>1
<1> QED
  BY <1>1, <1>2, <1>3 DEF TypeOK

LEMMA TypeEpoch ==
    ASSUME TypeOK, NEW loss \in Losses \cup {Diverged},
           Improve(loss) \/ Stall(loss), stage = "train", UNCHANGED <<scriptVars, loadVars>>
    PROVE  TypeOK'
<1> USE TrainerAssumption DEF TypeOK
<1>1. losses' \in Seq(Losses \cup {Diverged}) /\ Len(losses') = Len(losses) + 1
  <2>1. losses' = Append(losses, loss) /\ losses \in Seq(Losses \cup {Diverged})
    BY DEF Improve, Stall
  <2> QED
    BY <2>1
<1>2. Len(losses') <= max_epochs
  BY <1>1 DEF Improve, Stall
<1>3. CASE Improve(loss)
  <2>1. best_val_loss' \in Losses /\ patience_counter' \in 0 .. patience /\ patience_counter' = 0
    BY <1>3 DEF Improve, Improves
  <2>2. model_pt' \in File(Weights) /\ at' = "saving"
    BY <1>3 DEF Improve, File
  <2> QED
    BY <1>1, <1>2, <1>3, <2>1, <2>2 DEF Improve, scriptVars, loadVars
<1>4. CASE Stall(loss)
  <2>1. /\ patience_counter' = patience_counter + 1
        /\ patience_counter' \in 0 .. patience \/ patience_counter' = 1
    BY <1>4 DEF Stall
  <2>2. /\ at' \in {"epoch", "reload"}
        /\ at' = "epoch" => patience_counter' < patience /\ Len(losses') < max_epochs
    BY <1>1, <1>2, <1>4, <2>1 DEF Stall, NextEpoch
  <2> QED
    BY <1>1, <1>2, <1>4, <2>1, <2>2 DEF Stall, scriptVars, loadVars
<1> QED
  BY <1>3, <1>4

LEMMA TypeFile ==
    ASSUME TypeOK, Save \/ Reload \/ ReloadRaises, stage = "train",
           UNCHANGED <<scriptVars, loadVars>>
    PROVE  TypeOK'
<1> USE TrainerAssumption DEF TypeOK
<1>1. CASE Save
  <2>1. Len(losses) \in Nat \ {0}
    BY <1>1 DEF Save
  <2> QED
    BY <1>1, <2>1 DEF Save, Weights, File, NextEpoch, progressVars, scriptVars, loadVars
<1>2. CASE Reload
  BY <1>2 DEF Reload, Loads, File, progressVars, scriptVars, loadVars
<1>3. CASE ReloadRaises
  BY <1>3 DEF ReloadRaises, progressVars, scriptVars, loadVars
<1> QED
  BY <1>1, <1>2, <1>3

\* What the end of the script leaves.
LEMMA TypeOver ==
    ASSUME TypeOK, Over, completed' \in BOOLEAN, scaler_joblib' = scaler_joblib,
           model_metadata' \in File(Metadata), UNCHANGED loadVars
    PROVE  TypeOK'
<1>1. losses' \in Seq(Losses \cup {Diverged}) /\ Len(losses') = 0
  BY DEF Over
<1> QED
  BY <1>1, TrainerAssumption DEF TypeOK, Over, loadVars

LEMMA TypeScript ==
    ASSUME TypeOK, Script \/ Die \/ \E architecture \in Shapes : Start(architecture)
    PROVE  TypeOK'
<1> USE TrainerAssumption DEF TypeOK
<1>1. ASSUME NEW architecture \in Shapes, Start(architecture)
      PROVE  TypeOK'
  <2>1. training' \in Nat
    BY <1>1 DEF Start
  <2>2. scaler_joblib' \in File(Nat)
    BY <1>1 DEF Start, File
  <2>3. completed' \in BOOLEAN
    BY <1>1 DEF Start
  <2>4. at' = "off" /\ stage' = "scaler"
    BY <1>1 DEF Start
  <2> QED
    BY <1>1, <2>1, <2>2, <2>3, <2>4 DEF Start, progressVars, loadVars
<1>2. CASE SaveScaler
  <2>1. losses' \in Seq(Losses \cup {Diverged}) /\ Len(losses') = 0
    BY <1>2 DEF SaveScaler, Call
  <2>2. at' \in {"epoch", "reload"} /\ (at' = "epoch" => max_epochs > 0)
    BY <1>2 DEF SaveScaler, Call, NextEpoch
  <2> QED
    BY <1>2, <2>1, <2>2 DEF SaveScaler, Call, File, loadVars
<1>3. CASE Train
  BY <1>3, TypeEpoch, TypeFile DEF Train, TrainerStep
<1>4. CASE Calibrate
  BY <1>4 DEF Calibrate, File, trainerVars, progressVars, loadVars
<1>5. CASE WriteMetadata
  <2>1. model_metadata' \in File(Metadata)
    BY <1>5 DEF WriteMetadata, File, Metadata
  <2> QED
    BY <1>5, <2>1, TypeOver DEF WriteMetadata
<1>6. CASE TrainRaises \/ Die
  BY <1>6, TypeOver DEF TrainRaises, Die
<1> QED
  BY <1>1, <1>2, <1>3, <1>4, <1>5, <1>6 DEF Script

LEMMA TypeLoad ==
    ASSUME TypeOK, ReadMetadata \/ ReadWeights \/ ReadScaler \/ Stop
    PROVE  TypeOK'
<1> USE DEF TypeOK, trainerVars, progressVars, scriptVars
<1>1. CASE ReadMetadata
  BY <1>1 DEF ReadMetadata, NoModel, StartUpFails, File
<1>2. CASE ReadWeights
  BY <1>2 DEF ReadWeights, NoModel, StartUpFails, Loads, File
<1>3. CASE ReadScaler
  BY <1>3 DEF ReadScaler, NoModel, StartUpFails, File
<1>4. CASE Stop
  BY <1>4 DEF Stop, StartUpFails
<1> QED
  BY <1>1, <1>2, <1>3, <1>4

LEMMA TypeNext == TypeOK /\ [Next]_vars => TypeOK'
<1> SUFFICES ASSUME TypeOK, [Next]_vars PROVE TypeOK'
  OBVIOUS
<1>1. CASE UNCHANGED vars
  BY <1>1 DEF TypeOK, vars, trainerVars, progressVars, scriptVars, loadVars
<1> QED
  BY <1>1, TypeScript, TypeLoad DEF Next

\* Types of every variable, and the limits of a training.
THEOREM TrainingTypeCorrect == Spec => []TypeOK
  BY TypeInit, TypeNext, PTL DEF Spec

-----------------------------------------------------------------------------
(* Early stopping and the checkpoint.  The inductive invariant adds where  *)
(* the progress variables are reset, that an improvement resets the        *)
(* patience counter before its checkpoint is complete, and that the best   *)
(* loss is finite.                                                         *)

Reset == losses = <<>> /\ patience_counter = 0

FitInv ==
    /\ at = "off" => Reset
    /\ at = "saving" => patience_counter = 0
    /\ BestEpoch > 0 => best_val_loss \in Losses
    /\ BestAccounted
    /\ CheckpointIsBest

LEMMA FitInit == Init => FitInv
  BY DEF Init, TrainerInit, FitInv, Reset, BestEpoch, BestAccounted, CheckpointIsBest

\* A step that leaves the training where it is, or ends it.
LEMMA FitElsewhere ==
    ASSUME TypeOK, FitInv,
           \/ UNCHANGED trainerVars
           \/ Over
           \/ at = "off" /\ at' = "off" /\ UNCHANGED progressVars
           \/ Call
    PROVE  FitInv'
<1>1. CASE UNCHANGED trainerVars
  BY <1>1 DEF FitInv, Reset, BestEpoch, BestAccounted, CheckpointIsBest, trainerVars, progressVars
<1>2. CASE Over
  BY <1>2 DEF FitInv, Over, Reset, BestEpoch, BestAccounted, CheckpointIsBest
<1>3. CASE at = "off" /\ at' = "off" /\ UNCHANGED progressVars
  BY <1>3 DEF FitInv, Reset, BestEpoch, BestAccounted, CheckpointIsBest, progressVars
<1>4. CASE Call
  BY <1>4 DEF FitInv, Call, NextEpoch, Reset, BestEpoch, BestAccounted, CheckpointIsBest
<1> QED
  BY <1>1, <1>2, <1>3, <1>4

LEMMA FitImprove ==
    ASSUME TypeOK, FitInv, NEW loss \in Losses \cup {Diverged}, Improve(loss)
    PROVE  FitInv'
<1> USE TrainerAssumption DEF TypeOK
<1> DEFINE n == Len(losses)
<1>1. /\ n \in Nat /\ Len(losses') = n + 1 /\ losses'[n + 1] = loss
      /\ \A k \in 1 .. n : losses'[k] = losses[k]
  BY DEF Improve
<1>2. /\ at = "epoch" /\ at' = "saving" /\ patience_counter' = 0 /\ best_val_loss' = loss
      /\ loss \in Losses
  BY DEF Improve, Improves
<1>3. BestEpoch' = n + 1
  BY <1>1, <1>2 DEF BestEpoch
<1>4. ASSUME NEW k \in 1 .. n, losses[k] # Diverged
      PROVE  losses[k] >= loss - min_delta
  <2>1. BestEpoch > 0 /\ losses[k] >= best_val_loss - min_delta /\ best_val_loss \in Losses
    BY <1>2, <1>4 DEF FitInv, BestAccounted
  <2>2. loss < best_val_loss - min_delta
    BY <2>1 DEF Improve, Improves
  <2>3. losses[k] \in Losses
    BY <1>4
  <2>4. losses[k] \in Int /\ loss \in Int /\ best_val_loss \in Int /\ min_delta \in Nat
    BY <1>2, <2>1, <2>3
  <2> HIDE DEF TypeOK
  <2> QED
    BY <2>1, <2>2, <2>4
<1>5. BestAccounted'
  BY <1>1, <1>2, <1>3, <1>4 DEF BestAccounted
<1>6. CheckpointIsBest'
  BY <1>2 DEF CheckpointIsBest
<1> QED
  BY <1>2, <1>5, <1>6 DEF FitInv

LEMMA FitStall ==
    ASSUME TypeOK, FitInv, NEW loss \in Losses \cup {Diverged}, Stall(loss)
    PROVE  FitInv'
<1> USE TrainerAssumption DEF TypeOK
<1> DEFINE n == Len(losses)
<1>1. /\ n \in Nat /\ Len(losses') = n + 1 /\ losses'[n + 1] = loss
      /\ \A k \in 1 .. n : losses'[k] = losses[k]
  BY DEF Stall
<1>2. /\ at = "epoch" /\ at' \in {"epoch", "reload"}
      /\ patience_counter' = patience_counter + 1
      /\ UNCHANGED <<training, shape, best_val_loss, model_pt, result>>
  BY DEF Stall, NextEpoch
<1>3. BestEpoch' = BestEpoch /\ BestEpoch \in Int /\ BestEpoch <= n
  BY <1>1, <1>2 DEF BestEpoch
<1>4. loss # Diverged => BestEpoch > 0 /\ loss >= best_val_loss - min_delta
  <2> SUFFICES ASSUME loss # Diverged
               PROVE  BestEpoch > 0 /\ loss >= best_val_loss - min_delta
    OBVIOUS
  <2>1. best_val_loss # Infinity /\ ~(loss < best_val_loss - min_delta)
    BY DEF Stall, Improves
  <2>2. BestEpoch > 0 /\ best_val_loss \in Losses
    BY <1>2, <1>3, <2>1 DEF FitInv, BestAccounted
  <2> QED
    BY <2>1, <2>2
<1>5. BestAccounted'
  <2>1. /\ at # "off" => BestEpoch >= 0
        /\ BestEpoch = 0 => best_val_loss = Infinity
        /\ BestEpoch > 0 => best_val_loss = losses[BestEpoch]
        /\ \A k \in 1 .. n : losses[k] # Diverged =>
               BestEpoch > 0 /\ losses[k] >= best_val_loss - min_delta
    BY <1>2, <1>3 DEF FitInv, BestAccounted
  <2>2. BestEpoch > 0 => losses'[BestEpoch] = losses[BestEpoch]
    BY <1>1, <1>3
  <2>3. \A k \in 1 .. n + 1 : k = n + 1 \/ k \in 1 .. n
    BY <1>1
  <2> HIDE DEF n, TypeOK
  <2> QED
    BY <1>1, <1>2, <1>3, <1>4, <2>1, <2>2, <2>3 DEF BestAccounted
<1>6. CheckpointIsBest'
  BY <1>2, <1>3 DEF FitInv, CheckpointIsBest
<1> QED
  BY <1>2, <1>3, <1>5, <1>6 DEF FitInv

LEMMA FitFile ==
    ASSUME TypeOK, FitInv, Save \/ Reload \/ ReloadRaises
    PROVE  FitInv'
<1> USE TrainerAssumption DEF TypeOK
<1>1. /\ UNCHANGED <<training, shape, losses, best_val_loss, patience_counter>>
      /\ at \in {"saving", "reload"}
      /\ at' \in {"epoch", "reload", "returned", "raised"}
  BY DEF Save, Reload, ReloadRaises, NextEpoch, progressVars
<1>2. BestEpoch' = BestEpoch
  BY <1>1 DEF BestEpoch
<1>3. BestAccounted'
  BY <1>1, <1>2 DEF FitInv, BestAccounted
<1>4. CASE Save
  <2>1. BestEpoch = Len(losses)
    BY <1>4 DEF FitInv, Save, BestEpoch
  <2>2. CheckpointIsBest'
    BY <1>1, <1>2, <1>4, <2>1 DEF CheckpointIsBest, Save, NextEpoch
  <2> QED
    BY <1>1, <1>2, <1>3, <2>2 DEF FitInv
<1>5. CASE Reload
  <2>1. CheckpointIsBest'
    BY <1>1, <1>2, <1>5 DEF FitInv, CheckpointIsBest, Reload
  <2> QED
    BY <1>1, <1>2, <1>3, <2>1 DEF FitInv
<1>6. CASE ReloadRaises
  <2>1. ~(BestEpoch > 0)
    <3> SUFFICES ASSUME BestEpoch > 0 PROVE FALSE
      OBVIOUS
    <3>1. model_pt = [training |-> training, epoch |-> BestEpoch, shape |-> shape]
      BY <1>6 DEF FitInv, CheckpointIsBest, ReloadRaises
    <3>2. model_pt \in Weights
      BY <3>1 DEF Weights, BestEpoch
    <3>3. losses # <<>>
      <4>1. Len(losses) > 0
        BY DEF BestEpoch
      <4> QED
        BY <4>1
    <3> QED
      BY <1>6, <3>1, <3>2, <3>3 DEF ReloadRaises, Loads
  <2>2. CheckpointIsBest'
    BY <1>2, <2>1 DEF CheckpointIsBest
  <2> QED
    BY <1>1, <1>2, <1>3, <2>2 DEF FitInv
<1> QED
  BY <1>4, <1>5, <1>6

LEMMA FitNext == TypeOK /\ FitInv /\ [Next]_vars => FitInv'
<1> SUFFICES ASSUME TypeOK, FitInv, [Next]_vars PROVE FitInv'
  OBVIOUS
<1>1. ASSUME NEW architecture \in Shapes, Start(architecture)
      PROVE  FitInv'
  BY <1>1, FitElsewhere DEF Start, TypeOK
<1>2. CASE SaveScaler
  BY <1>2, FitElsewhere DEF SaveScaler
<1>3. CASE Train
  BY <1>3, FitImprove, FitStall, FitFile DEF Train, TrainerStep
<1>4. CASE Calibrate \/ WriteMetadata \/ TrainRaises \/ Die
  BY <1>4, FitElsewhere DEF Calibrate, WriteMetadata, TrainRaises, Die
<1>5. CASE ReadMetadata \/ ReadWeights \/ ReadScaler \/ Stop
  BY <1>5, FitElsewhere DEF ReadMetadata, ReadWeights, ReadScaler, Stop
<1>6. CASE UNCHANGED vars
  BY <1>6, FitElsewhere DEF vars
<1> QED
  BY <1>1, <1>2, <1>3, <1>4, <1>5, <1>6 DEF Next, Script

LEMMA FitCorrect == Spec => []FitInv
  BY TypeInit, TypeNext, FitInit, FitNext, PTL DEF Spec

\* Early stopping counts from the epoch of the best loss, and no epoch was
\* better by more than min_delta.
THEOREM BestAccountedCorrect == Spec => []BestAccounted
<1>1. FitInv => BestAccounted
  BY DEF FitInv
<1> QED
  BY <1>1, FitCorrect, PTL

\* model.pt, and what train() returns, are of the best epoch of this training.
THEOREM CheckpointIsBestCorrect == Spec => []CheckpointIsBest
<1>1. FitInv => CheckpointIsBest
  BY DEF FitInv
<1> QED
  BY <1>1, FitCorrect, PTL

-----------------------------------------------------------------------------
(* The directory and the detectors loaded from it.  Metadata that exist    *)
(* while a training is under way are of an earlier one, which is why what  *)
(* the training writes is never older than what they were calibrated with. *)

\* What holds of metadata, in the file or in a detector.
Dated(m) ==
    /\ m.weights.training <= training /\ m.scaler <= training
    /\ stage # "idle" => m.weights.training < training /\ m.scaler < training
    /\ model_pt \in Weights => NotNewer(m.weights, model_pt)
    /\ scaler_joblib \in Nat => m.scaler <= scaler_joblib

ScriptPlace ==
    /\ completed => stage = "idle"
    /\ stage \in {"train", "metadata"} => scaler_joblib = training
    /\ at = "returned" => result = model_pt /\ result.shape = shape
    /\ model_pt \in Weights => model_pt.training <= training

LoadPlace ==
    /\ start_up \in {"model", "scaler", "ready"} => metadata \in Metadata
    /\ start_up \in {"scaler", "ready"} =>
          weights \in Weights /\ NotNewer(metadata.weights, weights)
    /\ start_up = "ready" => scaler \in Nat /\ metadata.scaler <= scaler

DirInv ==
    /\ ScriptPlace
    /\ CompletedIsConsistent
    /\ \A m \in Metadata : m \in {model_metadata, metadata} => Dated(m)
    /\ LoadPlace

LEMMA DirInit == Init => DirInv
  BY TrainerAssumption, PipelineAssumption
  DEF Init, TrainerInit, DirInv, ScriptPlace, CompletedIsConsistent, LoadPlace

\* A step of train() dates nothing back.
LEMMA DirTrain ==
    ASSUME TypeOK, DirInv, Train
    PROVE  DirInv'
<1> USE TrainerAssumption DEF DirInv
<1>1. /\ stage = "train" /\ UNCHANGED <<scriptVars, loadVars>> /\ UNCHANGED <<training, shape>>
      /\ ~completed
  BY DEF Train, TrainerStep, Improve, Stall, Save, Reload, ReloadRaises, ScriptPlace
<1>2. \/ model_pt' = Partial
      \/ model_pt' = model_pt
      \/ model_pt'.training = training
  BY DEF Train, TrainerStep, Improve, Stall, Save, Reload, ReloadRaises
<1>3. at' = "returned" => result' = model_pt' /\ result'.shape = shape'
  BY DEF Train, TrainerStep, Improve, Stall, Save, Reload, ReloadRaises, Loads, NextEpoch
<1>4. ScriptPlace'
  BY <1>1, <1>2, <1>3 DEF ScriptPlace, scriptVars, TypeOK
<1>5. ASSUME NEW m \in Metadata, m \in {model_metadata', metadata'}
      PROVE  Dated(m)'
  <2>1. Dated(m) /\ m.weights.training < training
    BY <1>1, <1>5 DEF scriptVars, loadVars, Dated
  <2> QED
    BY <1>1, <1>2, <2>1 DEF Dated, NotNewer, scriptVars
<1>6. LoadPlace'
  BY <1>1 DEF LoadPlace, loadVars, NotNewer
<1> QED
  BY <1>1, <1>4, <1>5, <1>6 DEF CompletedIsConsistent, scriptVars

LEMMA DirScript ==
    ASSUME TypeOK, DirInv,
           \/ \E architecture \in Shapes : Start(architecture)
           \/ SaveScaler \/ Calibrate \/ TrainRaises \/ Die
    PROVE  DirInv'
<1> USE TrainerAssumption, PipelineAssumption DEF DirInv
<1>1. UNCHANGED <<model_pt, loadVars>>
  BY DEF Start, SaveScaler, Calibrate, TrainRaises, Die, Call, Over, trainerVars
<1>2. /\ ~completed'
      /\ model_metadata' \in {model_metadata, Partial}
  BY DEF Start, SaveScaler, Calibrate, TrainRaises, Die, ScriptPlace
<1>3. ScriptPlace'
  <2>1. ASSUME NEW architecture \in Shapes, Start(architecture)
        PROVE  ScriptPlace'
    <3>1. at' = "off" /\ stage' = "scaler" /\ training' = training + 1 /\ training \in Nat
      BY <2>1 DEF Start, TypeOK
    <3>2. model_pt \in Weights => model_pt.training <= training /\ model_pt.training \in Nat
      BY DEF ScriptPlace, Weights
    <3> QED
      BY <1>1, <1>2, <3>1, <3>2 DEF ScriptPlace
  <2>2. CASE SaveScaler
    BY <1>1, <1>2, <2>2 DEF SaveScaler, Call, NextEpoch, ScriptPlace
  <2>3. CASE Calibrate
    BY <1>1, <1>2, <2>3 DEF Calibrate, ScriptPlace, trainerVars
  <2>4. CASE TrainRaises \/ Die
    BY <1>1, <1>2, <2>4 DEF TrainRaises, Die, Over, ScriptPlace
  <2> QED
    BY <2>1, <2>2, <2>3, <2>4
<1>4. ASSUME NEW m \in Metadata, m \in {model_metadata', metadata'}
      PROVE  Dated(m)'
  <2>1. Dated(m) /\ m.weights.training \in Nat /\ m.scaler \in Nat
    BY <1>1, <1>2, <1>4 DEF loadVars, Metadata, Weights
  <2> QED
    BY <1>1, <2>1 DEF Dated, NotNewer, Start, SaveScaler, Calibrate, TrainRaises, Die,
                      Call, Over, trainerVars, TypeOK
<1>5. LoadPlace'
  BY <1>1 DEF LoadPlace, loadVars, NotNewer
<1> QED
  BY <1>2, <1>3, <1>4, <1>5 DEF CompletedIsConsistent

\* The end of a training: the files belong together.
LEMMA DirWrite ==
    ASSUME TypeOK, DirInv, WriteMetadata
    PROVE  DirInv'
<1> USE TrainerAssumption, PipelineAssumption DEF DirInv
<1>1. /\ stage = "metadata" /\ at = "returned" /\ result \in Weights
      /\ result = model_pt /\ result.shape = shape /\ scaler_joblib = training
      /\ training \in Nat
  BY DEF WriteMetadata, ScriptPlace, TypeOK
<1>2. /\ stage' = "idle" /\ at' = "off"
      /\ UNCHANGED <<training, shape, model_pt, scaler_joblib, loadVars>>
  BY DEF WriteMetadata, Over
<1>3. /\ model_metadata'.weights = model_pt /\ model_metadata'.scaler = training
      /\ model_metadata'.shape = shape
  BY <1>1 DEF WriteMetadata
<1>4. ScriptPlace'
  BY <1>1, <1>2 DEF ScriptPlace
<1>5. CompletedIsConsistent'
  BY <1>1, <1>2, <1>3 DEF CompletedIsConsistent
<1>6. ASSUME NEW m \in Metadata, m \in {model_metadata', metadata'}
      PROVE  Dated(m)'
  <2>1. CASE m = model_metadata'
    BY <1>1, <1>2, <1>3, <2>1 DEF Dated, NotNewer, ScriptPlace, Weights
  <2>2. CASE m = metadata'
    <3>1. Dated(m)
      BY <1>2, <2>2 DEF loadVars
    <3>2. m.weights.training \in Nat /\ m.scaler \in Nat
      BY DEF Metadata, Weights
    <3> QED
      BY <1>1, <1>2, <3>1, <3>2 DEF Dated, NotNewer
  <2> QED
    BY <1>6, <2>1, <2>2
<1>7. LoadPlace'
  BY <1>2 DEF LoadPlace, loadVars, NotNewer
<1> QED
  BY <1>4, <1>5, <1>6, <1>7

LEMMA DirLoad ==
    ASSUME TypeOK, DirInv, ReadMetadata \/ ReadWeights \/ ReadScaler \/ Stop
    PROVE  DirInv'
<1> USE TrainerAssumption, PipelineAssumption DEF DirInv
<1>1. UNCHANGED <<trainerVars, scriptVars>>
  BY DEF ReadMetadata, ReadWeights, ReadScaler, Stop
<1>2. ScriptPlace' /\ CompletedIsConsistent'
  BY <1>1 DEF ScriptPlace, CompletedIsConsistent, trainerVars, scriptVars
<1>3. metadata' \in {metadata, model_metadata, Absent}
  BY DEF ReadMetadata, ReadWeights, ReadScaler, Stop, NoModel, StartUpFails
<1>4. ASSUME NEW m \in Metadata, m \in {model_metadata', metadata'}
      PROVE  Dated(m)'
  <2>1. Dated(m)
    BY <1>1, <1>3, <1>4 DEF scriptVars
  <2> QED
    BY <1>1, <2>1 DEF Dated, NotNewer, trainerVars, scriptVars
<1>5. CASE ReadMetadata
  <2>1. start_up' = "model" => metadata' \in Metadata
    BY <1>5 DEF ReadMetadata, NoModel, StartUpFails, TypeOK, File
  <2>2. start_up' \in {"off", "no_model", "model"}
    BY <1>5 DEF ReadMetadata, NoModel, StartUpFails
  <2> QED
    BY <1>2, <1>4, <2>1, <2>2 DEF LoadPlace
<1>6. CASE ReadWeights
  <2>1. start_up' \in {"off", "no_model", "scaler"}
    BY <1>6 DEF ReadWeights, NoModel, StartUpFails
  <2>2. start_up' = "scaler" => /\ metadata' = metadata /\ metadata \in Metadata
                               /\ weights' = model_pt /\ model_pt \in Weights
    BY <1>6 DEF ReadWeights, NoModel, StartUpFails, Loads, LoadPlace, TypeOK, File
  <2>3. start_up' = "scaler" => NotNewer(metadata'.weights, weights')
    BY <2>2 DEF Dated
  <2> QED
    BY <1>2, <1>4, <2>1, <2>2, <2>3 DEF LoadPlace, NotNewer
<1>7. CASE ReadScaler
  <2>1. start_up' \in {"off", "no_model", "ready"}
    BY <1>7 DEF ReadScaler, NoModel, StartUpFails
  <2>2. start_up' = "ready" =>
            /\ metadata' = metadata /\ metadata \in Metadata
            /\ weights' = weights /\ weights \in Weights
            /\ NotNewer(metadata.weights, weights)
            /\ scaler' = scaler_joblib /\ scaler_joblib \in Nat
    BY <1>7 DEF ReadScaler, NoModel, StartUpFails, LoadPlace, TypeOK, File
  <2>3. start_up' = "ready" => metadata'.scaler <= scaler'
    BY <2>2 DEF Dated
  <2> QED
    BY <1>2, <1>4, <2>1, <2>2, <2>3 DEF LoadPlace, NotNewer
<1>8. CASE Stop
  <2>1. start_up' = "off"
    BY <1>8 DEF Stop, StartUpFails
  <2> QED
    BY <1>2, <1>4, <2>1 DEF LoadPlace
<1> QED
  BY <1>5, <1>6, <1>7, <1>8

LEMMA DirNext == TypeOK /\ DirInv /\ [Next]_vars => DirInv'
<1> SUFFICES ASSUME TypeOK, DirInv, [Next]_vars PROVE DirInv'
  OBVIOUS
<1>1. CASE UNCHANGED vars
  BY <1>1 DEF DirInv, ScriptPlace, CompletedIsConsistent, Dated, NotNewer, LoadPlace,
              vars, trainerVars, progressVars, scriptVars, loadVars
<1> QED
  BY <1>1, DirTrain, DirScript, DirWrite, DirLoad DEF Next, Script

LEMMA DirCorrect == Spec => []DirInv
  BY TypeInit, TypeNext, DirInit, DirNext, PTL DEF Spec

\* Between two trainings, after a complete one, thresholds, weights and scaler
\* belong together.
THEOREM CompletedIsConsistentCorrect == Spec => []CompletedIsConsistent
<1>1. DirInv => CompletedIsConsistent
  BY DEF DirInv
<1> QED
  BY <1>1, DirCorrect, PTL

\* Thresholds are never newer than the weights or the scaler they are loaded
\* with, whatever trainings run, are killed or follow during the load.
THEOREM ThresholdsNotNewerCorrect == Spec => []ThresholdsNotNewer
<1>1. DirInv => ThresholdsNotNewer
  BY DEF DirInv, LoadPlace, ThresholdsNotNewer
<1> QED
  BY <1>1, DirCorrect, PTL

-----------------------------------------------------------------------------
(* Progress.  What a training has left to do at most: two steps for every  *)
(* epoch, one that tries it and one that saves it, and those around.       *)

ToGo ==
    CASE stage = "scaler" -> 2 * max_epochs + 4
      [] stage = "train" /\ at = "epoch"    -> 2 * (max_epochs - Len(losses)) + 3
      [] stage = "train" /\ at = "saving"   -> 2 * (max_epochs - Len(losses)) + 4
      [] stage = "train" /\ at = "reload"   -> 3
      [] stage = "train" /\ at = "returned" -> 2
      [] stage = "train" /\ at = "raised"   -> 1
      [] stage = "metadata" -> 1
      [] OTHER -> 0

\* The way to the end is bounded, and it is over when no training runs.
ToGoBounded == ToGo \in 0 .. 2 * max_epochs + 4 /\ (ToGo = 0 <=> stage = "idle")

\* A step of a running script shortens its way, and no load() makes it longer.
TrainingShrinks ==
    [][stage # "idle" => /\ ToGo' <= ToGo
                         /\ Script \/ Die => ToGo' < ToGo]_vars

\* The values of ToGo, place by place.
LEMMA ToGoValues ==
    ASSUME TypeOK
    PROVE  /\ stage = "idle" => ToGo = 0
           /\ stage = "scaler" => ToGo = 2 * max_epochs + 4
           /\ stage = "train" => at \in {"epoch", "saving", "reload", "returned", "raised"}
           /\ stage = "train" /\ at = "epoch" => ToGo = 2 * (max_epochs - Len(losses)) + 3
           /\ stage = "train" /\ at = "saving" => ToGo = 2 * (max_epochs - Len(losses)) + 4
           /\ stage = "train" /\ at = "reload" => ToGo = 3
           /\ stage = "train" /\ at = "returned" => ToGo = 2
           /\ stage = "train" /\ at = "raised" => ToGo = 1
           /\ stage = "metadata" => ToGo = 1
  BY DEF TypeOK, ToGo

\* The same after the step.
LEMMA ToGoValuesNext ==
    ASSUME TypeOK'
    PROVE  /\ stage' = "idle" => ToGo' = 0
           /\ stage' = "train" /\ at' = "epoch" => ToGo' = 2 * (max_epochs - Len(losses')) + 3
           /\ stage' = "train" /\ at' = "saving" => ToGo' = 2 * (max_epochs - Len(losses')) + 4
           /\ stage' = "train" /\ at' = "reload" => ToGo' = 3
           /\ stage' = "train" /\ at' = "returned" => ToGo' = 2
           /\ stage' = "train" /\ at' = "raised" => ToGo' = 1
           /\ stage' = "metadata" => ToGo' = 1
  BY DEF TypeOK, ToGo

\* The epochs a training has left.
LEMMA EpochsLeft ==
    ASSUME TypeOK
    PROVE  /\ max_epochs - Len(losses) \in Nat /\ max_epochs - Len(losses) <= max_epochs
           /\ at = "epoch" => max_epochs - Len(losses) > 0
           /\ max_epochs \in Nat
  BY TrainerAssumption DEF TypeOK

LEMMA ToGoInRange == TypeOK => ToGoBounded
<1> SUFFICES ASSUME TypeOK PROVE ToGoBounded
  OBVIOUS
<1>1. PICK n \in Nat : n = max_epochs - Len(losses) /\ n <= max_epochs
  BY EpochsLeft
<1>2. max_epochs \in Nat
  BY TrainerAssumption
<1>3. stage \in {"idle", "scaler", "train", "metadata"}
  BY DEF TypeOK
<1>4. CASE stage = "train"
  <2>1. \/ at = "epoch" /\ ToGo = 2 * n + 3
        \/ at = "saving" /\ ToGo = 2 * n + 4
        \/ ToGo \in {1, 2, 3}
    BY <1>1, <1>4, ToGoValues
  <2>2. ToGo \in 1 .. 2 * max_epochs + 4
    BY <1>1, <1>2, <2>1
  <2> QED
    BY <1>2, <1>4, <2>2 DEF ToGoBounded
<1>5. CASE stage # "train"
  BY <1>2, <1>3, <1>5, ToGoValues DEF ToGoBounded
<1> QED
  BY <1>4, <1>5

\* An epoch, with or without its checkpoint.
LEMMA EpochShrinks ==
    ASSUME TypeOK, TypeOK', stage = "train", stage' = "train",
           NEW loss \in Losses \cup {Diverged}, Improve(loss) \/ Stall(loss)
    PROVE  ToGo' < ToGo
<1>1. Len(losses') = Len(losses) + 1 /\ Len(losses) \in Nat /\ at = "epoch"
  BY DEF Improve, Stall, TypeOK
<1>2. PICK n \in Nat : n = max_epochs - Len(losses) /\ n > 0
  BY <1>1, EpochsLeft
<1>3. max_epochs - Len(losses') = n - 1
  BY <1>1, <1>2, EpochsLeft
<1>4. ToGo = 2 * n + 3
  BY <1>1, <1>2, ToGoValues
<1>5. at' \in {"epoch", "saving", "reload"}
  BY DEF Improve, Stall, NextEpoch
<1>6. ToGo' \in {2 * (n - 1) + 3, 2 * (n - 1) + 4, 3}
  BY <1>3, <1>5, ToGoValuesNext
<1> QED
  BY <1>2, <1>4, <1>6

LEMMA TrainShrinks == TypeOK /\ TypeOK' /\ Train => ToGo' < ToGo
<1> SUFFICES ASSUME TypeOK, TypeOK', Train PROVE ToGo' < ToGo
  OBVIOUS
<1>1. stage = "train" /\ stage' = "train" /\ TrainerStep
  BY DEF Train, scriptVars
<1>2. CASE \E loss \in Losses \cup {Diverged} : Improve(loss) \/ Stall(loss)
  BY <1>1, <1>2, EpochShrinks
<1>3. CASE Save
  <2>1. losses' = losses /\ at = "saving" /\ at' \in {"epoch", "reload"}
    BY <1>3 DEF Save, NextEpoch, progressVars
  <2>2. PICK n \in Nat : n = max_epochs - Len(losses)
    BY EpochsLeft
  <2>3. ToGo = 2 * n + 4 /\ ToGo' \in {2 * n + 3, 3}
    BY <1>1, <2>1, <2>2, ToGoValues, ToGoValuesNext
  <2> QED
    BY <2>2, <2>3
<1>4. CASE Reload \/ ReloadRaises
  <2>1. at = "reload" /\ at' \in {"returned", "raised"}
    BY <1>4 DEF Reload, ReloadRaises
  <2> QED
    BY <1>1, <2>1, ToGoValues, ToGoValuesNext
<1> QED
  BY <1>1, <1>2, <1>3, <1>4 DEF TrainerStep

LEMMA ScriptShrinks ==
    ASSUME TypeOK, TypeOK', Script \/ Die
    PROVE  ToGo' < ToGo
<1>1. CASE SaveScaler
  <2>1. /\ stage = "scaler" /\ stage' = "train" /\ at' \in {"epoch", "reload"}
        /\ max_epochs - Len(losses') = max_epochs
    BY <1>1, TrainerAssumption DEF SaveScaler, Call, NextEpoch
  <2>2. ToGo = 2 * max_epochs + 4 /\ ToGo' \in {2 * max_epochs + 3, 3}
    BY <2>1, ToGoValues, ToGoValuesNext
  <2> QED
    BY <2>2, TrainerAssumption
<1>2. CASE Train
  BY <1>2, TrainShrinks
<1>3. CASE Calibrate
  BY <1>3, ToGoValues, ToGoValuesNext DEF Calibrate
<1>4. CASE WriteMetadata \/ TrainRaises \/ Die
  <2>1. stage # "idle" /\ stage' = "idle"
    BY <1>4 DEF WriteMetadata, TrainRaises, Die, Over
  <2>2. ToGo' = 0
    BY <2>1, ToGoValuesNext
  <2>3. ToGo # 0 /\ ToGo \in 0 .. 2 * max_epochs + 4
    BY <2>1, ToGoInRange DEF ToGoBounded
  <2> QED
    BY <2>2, <2>3, TrainerAssumption
<1> QED
  BY <1>1, <1>2, <1>3, <1>4 DEF Script

\* The safety part of "every training ends": a training that was started has a
\* bounded number of steps before it, every step of the script and every kill
\* brings it closer to its end, and no start-up of the application holds it up.
THEOREM TrainingsShrink == Spec => []ToGoBounded /\ TrainingShrinks
<1>1. TypeOK /\ TypeOK' /\ [Next]_vars
         => [stage # "idle" => /\ ToGo' <= ToGo
                               /\ Script \/ Die => ToGo' < ToGo]_vars
  <2> SUFFICES ASSUME TypeOK, TypeOK', Next, stage # "idle"
               PROVE  ToGo' <= ToGo /\ (Script \/ Die => ToGo' < ToGo)
    OBVIOUS
  <2>1. ToGo \in Nat /\ ToGo' \in Nat
    <3>1. ToGoBounded /\ (TypeOK' => ToGo' \in 0 .. 2 * max_epochs + 4)
      <4>1. TypeOK' => ToGoBounded'
        BY ToGoInRange, PTL
      <4> QED
        BY <4>1, ToGoInRange DEF ToGoBounded
    <3> QED
      BY <3>1, TrainerAssumption DEF ToGoBounded
  <2>2. Script \/ Die => ToGo' < ToGo
    BY ScriptShrinks
  <2>3. CASE ReadMetadata \/ ReadWeights \/ ReadScaler \/ Stop
    <3>1. UNCHANGED <<stage, at, losses>>
      BY <2>3 DEF ReadMetadata, ReadWeights, ReadScaler, Stop, trainerVars, progressVars,
                  scriptVars
    <3>2. ToGo' = ToGo
      BY <3>1 DEF ToGo
    <3> QED
      BY <2>1, <2>2, <3>2
  <2>4. ~ \E architecture \in Shapes : Start(architecture)
    BY DEF Start
  <2> QED
    BY <2>1, <2>2, <2>3, <2>4 DEF Next
<1> QED
  BY <1>1, ToGoInRange, TrainingTypeCorrect, PTL DEF Spec, TrainingShrinks
=============================================================================
