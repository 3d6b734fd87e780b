------------------------------- MODULE MCSurfaces -------------------------------
(***************************************************************************)
(* What a window is turned into a candidate with, on small instances: the  *)
(* liveness of a function and the surfaces of its windows, the memory      *)
(* surface of a pair of windows, and the inference that combines them.  A  *)
(* behaviour runs one of the three.                                        *)
(***************************************************************************)
EXTENDS MCLiveness, MCMemorySurface, MCSurfaceInference

VARIABLE part

surfacesVars == <<part, vars, memorySurfaceVars, inferenceVars>>

SurfacesInit ==
    \/ part = "liveness" /\ Init /\ MemorySurfacesOff /\ InferenceOff
    \/ part = "memory" /\ MemorySurfaceInit /\ function = 1 /\ Init /\ InferenceOff
    \/ part = "inference" /\ InferenceInit /\ function = 1 /\ Init /\ MemorySurfacesOff

SurfacesNext ==
    \/ part = "liveness" /\ Next /\ UNCHANGED <<part, memorySurfaceVars, inferenceVars>>
    \/ part = "memory" /\ MemorySurfaceNext /\ UNCHANGED <<part, vars, inferenceVars>>
    \/ part = "inference" /\ InferenceNext /\ UNCHANGED <<part, vars, memorySurfaceVars>>

(* The fixpoint loop is sequential code: it runs on until it returns.      *)
SurfacesSpec ==
    /\ SurfacesInit
    /\ [][SurfacesNext]_surfacesVars
    /\ WF_surfacesVars(part = "liveness" /\ Step /\ UNCHANGED <<part, memorySurfaceVars, inferenceVars>>)

-----------------------------------------------------------------------------

(* The loop over a function reaches its fixpoint and stops.                *)
AnalysisEnds == (part = "liveness") ~> done

=============================================================================
