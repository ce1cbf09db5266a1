---------------------- MODULE PipelineDefinitionStatus ----------------------
(***************************************************************************)
(* The state machine of a pipeline definition (and of a MediaPipe graph    *)
(* definition): PipelineDefinitionStatus and its states in                 *)
(* src/dags/pipelinedefinitionstatus.cpp.  An event that a state does not  *)
(* expect throws std::logic_error and leaves the state as it is.           *)
(***************************************************************************)

States == {"BEGIN", "RELOADING", "LOADING_PRECONDITION_FAILED",
           "LOADING_PRECONDITION_FAILED_REQUIRED_REVALIDATION",
           "AVAILABLE_REQUIRED_REVALIDATION", "AVAILABLE", "RETIRED"}

isAvailable(s) == s \in {"AVAILABLE", "AVAILABLE_REQUIRED_REVALIDATION"}

isRevalidationRequired(s) ==
  s \in {"LOADING_PRECONDITION_FAILED_REQUIRED_REVALIDATION",
         "AVAILABLE_REQUIRED_REVALIDATION"}

\* What canEndLoaded adds to isAvailable.
MayBecomeLoaded(s) ==
  s \in {"LOADING_PRECONDITION_FAILED_REQUIRED_REVALIDATION", "BEGIN",
         "RELOADING"}

\* The states that a definition known to the factory rests in.
Settled == {"AVAILABLE", "AVAILABLE_REQUIRED_REVALIDATION",
            "LOADING_PRECONDITION_FAILED",
            "LOADING_PRECONDITION_FAILED_REQUIRED_REVALIDATION"}

\* The states that expect event e.
Expects(e) ==
  CASE e = "Reload"           -> Settled \cup {"RETIRED"}
    [] e = "UsedModelChanged" -> Settled
    [] e = "Retire"           -> Settled
    [] OTHER -> {"BEGIN", "RELOADING"} \cup {s \in States : isRevalidationRequired(s)}

\* The state after s handled e.
After(s, e) ==
  CASE s \notin Expects(e)      -> s
    [] e = "Reload"             -> "RELOADING"
    [] e = "ValidationPassed"   -> "AVAILABLE"
    [] e = "ValidationFailed"   -> "LOADING_PRECONDITION_FAILED"
    [] e = "Retire"             -> "RETIRED"
    [] OTHER -> IF isAvailable(s)
                  THEN "AVAILABLE_REQUIRED_REVALIDATION"
                  ELSE "LOADING_PRECONDITION_FAILED_REQUIRED_REVALIDATION"

=============================================================================
