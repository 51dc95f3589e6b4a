----------------------------- MODULE Parameters -----------------------------
(***************************************************************************)
(* The versions of the protocol parameters.  An edit writes a version in a  *)
(* transaction of its own and then has the process that served it read them *)
(* all again.  Every process answers from the versions it read last: when   *)
(* it started, or after an edit of its own.  Two reads of one process may    *)
(* end in the other order.                                                  *)
(***************************************************************************)
EXTENDS DemoClock, FiniteSets

CONSTANTS Edits,          \* the edits operators make; a version has its edit's name
          EffectiveAt,    \* the instant each takes effect
          DemoParameters  \* in force before any version

ASSUME ParametersAssumption ==
    /\ DOMAIN EffectiveAt = Edits /\ \A e \in Edits : EffectiveAt[e] \in Nat
    /\ DemoParameters \notin Edits

VARIABLES versions,   \* the protocol_parameter_version table
          registry,   \* the versions each process holds in memory
          edit,       \* where each edit has got to
          editor,     \* the process that serves it
          reading,    \* what its reload has read
          overtaken   \* the processes where an older reading was kept last

parameterVars == <<versions, registry, edit, editor, reading, overtaken>>

Applicable(p) == {v \in registry[p] : EffectiveAt[v] <= Now(p)}

(* The newest version that has taken effect by this process's clock.         *)
Current(p) ==
    IF Applicable(p) = {} THEN DemoParameters
    ELSE CHOOSE v \in Applicable(p) :
           \A w \in Applicable(p) : EffectiveAt[w] <= EffectiveAt[v]

ParametersTypeOK ==
    /\ versions \subseteq Edits
    /\ registry \in [Processes -> SUBSET Edits]
    /\ edit \in [Edits -> {"none", "write", "reload", "keep", "done", "failed"}]
    /\ editor \in [Edits -> Processes]
    /\ reading \in [Edits -> SUBSET Edits]
    /\ overtaken \subseteq Processes

ParametersInit ==
    /\ versions = {}
    /\ registry = [p \in Processes |-> {}]
    /\ edit = [e \in Edits |-> "none"]
    /\ editor \in [Edits -> Processes]
    /\ reading = [e \in Edits |-> {}]
    /\ overtaken = {}

BeginEdit(e) ==
    /\ edit[e] = "none"
    /\ edit' = [edit EXCEPT ![e] = "write"]
    /\ UNCHANGED <<versions, registry, editor, reading, overtaken>>

(* Variant: the process serves the version before it is committed.           *)
RollBackKept(e) ==
    /\ edit[e] = "write"
    /\ registry' = [registry EXCEPT ![editor[e]] = @ \cup {e}]
    /\ edit' = [edit EXCEPT ![e] = "failed"]
    /\ UNCHANGED <<versions, editor, reading, overtaken>>

(* The version or its audit entry cannot be written.                        *)
RollBack(e) ==
    /\ edit[e] = "write"
    /\ edit' = [edit EXCEPT ![e] = "failed"]
    /\ UNCHANGED <<versions, registry, editor, reading, overtaken>>

CommitVersion(e) ==
    /\ edit[e] = "write"
    /\ versions' = versions \cup {e}
    /\ edit' = [edit EXCEPT ![e] = "reload"]
    /\ UNCHANGED <<registry, editor, reading, overtaken>>

ReadVersions(e) ==
    /\ edit[e] = "reload"
    /\ reading' = [reading EXCEPT ![e] = versions]
    /\ edit' = [edit EXCEPT ![e] = "keep"]
    /\ UNCHANGED <<versions, registry, editor, overtaken>>

(* The version stays; the operator is told that the edit failed.             *)
ReloadFails(e) ==
    /\ edit[e] = "reload"
    /\ edit' = [edit EXCEPT ![e] = "failed"]
    /\ UNCHANGED <<versions, registry, editor, reading, overtaken>>

(* Variant: the process keeps what it has if it has read anything.           *)
KeepFirst(e) ==
    /\ edit[e] = "keep"
    /\ registry' = [registry EXCEPT ![editor[e]] = IF @ = {} THEN reading[e] ELSE @]
    /\ edit' = [edit EXCEPT ![e] = "done"]
    /\ UNCHANGED <<versions, editor, reading, overtaken>>

KeepVersions(e) ==
    LET p == editor[e]
    IN  /\ edit[e] = "keep"
        /\ registry' = [registry EXCEPT ![p] = reading[e]]
        /\ overtaken' = IF \A f \in Edits : edit[f] = "done" /\ editor[f] = p
                                                => reading[f] \subseteq reading[e]
                          THEN overtaken \ {p} ELSE overtaken \cup {p}
        /\ edit' = [edit EXCEPT ![e] = "done"]
        /\ UNCHANGED <<versions, editor, reading>>

StartRegistry(p) ==
    /\ registry' = [registry EXCEPT ![p] = versions]
    /\ overtaken' = overtaken \ {p}
    /\ edit' = [e \in Edits |-> IF editor[e] = p /\ edit[e] \in {"write", "reload", "keep"}
                                THEN "failed" ELSE edit[e]]
    /\ UNCHANGED <<versions, editor, reading>>

ParametersStep ==
    \E e \in Edits : \/ BeginEdit(e) \/ RollBack(e) \/ CommitVersion(e)
                     \/ ReadVersions(e) \/ ReloadFails(e) \/ KeepVersions(e)

-----------------------------------------------------------------------------
(* No process serves a version that was never committed ("a rollback would   *)
(* otherwise leave the served copy holding a version that never committed"). *)
ServedIsCommitted == \A p \in Processes : registry[p] \subseteq versions

(* An operator who is told that an edit was made finds it, and every version *)
(* committed before the reload, in the process that made it, and once it has *)
(* taken effect there nothing that takes effect earlier is in force, unless  *)
(* an older reading of the same process was kept after a newer one.         *)
OwnEditServed ==
    \A e \in Edits : edit[e] = "done" /\ editor[e] \notin overtaken
      => /\ e \in registry[editor[e]] /\ reading[e] \subseteq registry[editor[e]]
         /\ EffectiveAt[e] <= Now(editor[e])
              => EffectiveAt[Current(editor[e])] >= EffectiveAt[e]
=============================================================================
