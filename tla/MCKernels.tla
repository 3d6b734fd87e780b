------------------------------- MODULE MCKernels -------------------------------
(***************************************************************************)
(* Small instances of the synthetic pipeline: a suite of kernels is run    *)
(* through it, or a kernel is written, checked and materialized.  A        *)
(* behaviour does one of these.                                            *)
(***************************************************************************)
EXTENDS MCKernelPipeline, MCKernelSchema

CONSTANT Parts

VARIABLE part

AllParts == {"pipeline", "schema"}

kernelsVars == <<part, vars, schemaVars>>

\* A kernel nothing is written of.
SchemaIdle ==
    /\ signature = CHOOSE s \in Signatures : TRUE
    /\ memoryObjects = CHOOSE objs \in ObjectSets(signature) : TRUE

KernelsInit ==
    /\ Init
    /\ part \in Parts
    /\ part = "pipeline" => SchemaIdle
    /\ SchemaInit

PipelineNext == part = "pipeline" /\ Next /\ UNCHANGED <<part, schemaVars>>

KernelNext == part = "schema" /\ SchemaNext /\ UNCHANGED <<part, vars>>

(* The loop of run() is one thread that goes on if clang and the solver    *)
(* return.                                                                 *)
KernelsSpec ==
    /\ KernelsInit
    /\ [][PipelineNext \/ KernelNext]_kernelsVars
    /\ WF_kernelsVars(PipelineNext)

-----------------------------------------------------------------------------

(* Every kernel gets its record in the end, whatever fails.                *)
SuiteEnds == (part = "pipeline") ~> (Len(records) = Len(Kernels) /\ step = "done")

(* The body of a kernel and its declaration agree access by access, every  *)
(* name has one definition, and no two accesses overlap in part.           *)
BodyIsFaithful == BodyMatchesDeclaration /\ BodyIsSSA /\ AccessesDoNotStraddle


=============================================================================
