------------------------------ MODULE Programs ------------------------------
(***************************************************************************)
(* Three subjects that share no variable, each of them apart from the      *)
(* databases: a process of one of the services, which validates its        *)
(* settings and then runs; any other program that builds schemas of        *)
(* shared/validate; and the access tokens between accounts and gateway.    *)
(* A behaviour is about one of them: interleaving them could show no more. *)
(***************************************************************************)
EXTENDS Service, Schemas, Access

VARIABLE subject

programVars == <<serviceVars, schemaVars, vars, subject>>

ProgramsInit ==
    /\ subject \in {"process", "schema", "tokens"}
    /\ ServiceInit /\ SchemasInit /\ Init
    /\ subject # "tokens" => offset = 0 /\ barred = {}

ProgramsNext ==
    /\ \/ subject = "process" /\ ServiceNext /\ UNCHANGED <<schemaVars, vars>>
       \/ subject = "schema" /\ SchemasNext /\ UNCHANGED <<serviceVars, vars>>
       \/ subject = "tokens" /\ Next /\ UNCHANGED <<serviceVars, schemaVars>>
    /\ UNCHANGED subject

ProgramsSpec == ProgramsInit /\ [][ProgramsNext]_programVars /\ ServiceFairness

\* Every variable keeps its type, no more connections are out than the pool
\* has, and the rules of a schema accept values of its type only.
ProgramsTypeOK == ServiceTypeOK /\ SchemasTypeOK
=============================================================================
