------------------------------ MODULE MCEngine ------------------------------
(* Finite instances of the engine: InstNames names for the instances of each  *)
(* service, SessNames names for the sessions of each instance, and an address *)
(* for each service's key to hash to.                                         *)
EXTENDS EngineProperties, TLC

CONSTANTS InstNames, SessNames

MCInsts == Services \X (1..InstNames)
MCServiceOf == [i \in Insts |-> i[1]]
MCSessions == Insts \X (1..SessNames)
MCOwnerOf == [s \in Sessions |-> s[1]]
MCAddresses == Services \X {"address"}
MCHome == [k \in Services |-> <<k, "address">>]

\* With a single service the instances are interchangeable, and so are the callers.
MCOnlyService == [i \in Insts |-> CHOOSE k \in Services : TRUE]
Symmetry == Permutations(Callers) \cup Permutations(Insts)

=============================================================================
