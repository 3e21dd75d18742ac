------------------------------- MODULE MCRecipe -------------------------------
(***************************************************************************)
(* The two ends of the recipe: the calibration corpus that is built for    *)
(* the quantization, and the memory guard of a node that serves its        *)
(* result, across a reboot.  They share nothing, so a behaviour is one of  *)
(* them, and the variables of the other stay where they are.               *)
(***************************************************************************)
EXTENDS MCCalibrationCorpus, SparkGuard

VARIABLE end  \* the one this behaviour is of

corpusVars == vars

CorpusIdle ==
  /\ pc = "start" /\ seed = "idle" /\ split = "idle" /\ draw = 1
  /\ queues = <<>> /\ pass = {} /\ progress = FALSE /\ got = <<>>
  /\ selected = Nothing /\ screening = {} /\ files = {} /\ staged = FALSE

RecipeInit ==
  /\ end \in {"corpus", "guard"}
  /\ GuardInit
  /\ IF end = "corpus" THEN Init ELSE CorpusIdle

RecipeNext ==
  /\ UNCHANGED end
  /\ \/ end = "corpus" /\ Next /\ UNCHANGED guardVars
     \/ end = "guard" /\ GuardNext /\ UNCHANGED corpusVars

RecipeSpec == RecipeInit /\ [][RecipeNext]_<<end, corpusVars, guardVars>>
=============================================================================
