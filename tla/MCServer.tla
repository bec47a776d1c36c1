------------------------------ MODULE MCServer ------------------------------
(***************************************************************************)
(* Parts of the server that share no state, side by side for TLC: a        *)
(* behaviour is one of the part named by active, the others stay at a      *)
(* fixed initial state.                                                    *)
(***************************************************************************)
EXTENDS TokenAuth, JwtKeys, SessionDirectory, Forgetting, Migration

VARIABLE active

serverPartVars == <<active, tokenVars, jwtVars, directoryVars, forgettingVars, vars>>

Parts == {"tokens", "jwt", "directory", "forgetting", "migration"}

BothThresholds == [maxAge |-> 1, maxIdle |-> 0, budget |-> 1]
SomePolicies ==
    {BothThresholds,
     [BothThresholds EXCEPT !.budget = Unset],
     [BothThresholds EXCEPT !.maxIdle = Unset],
     [BothThresholds EXCEPT !.maxAge = Unset, !.budget = Unset],
     [BothThresholds EXCEPT !.maxAge = Unset, !.maxIdle = Unset]}

ServerInit ==
    /\ active \in Parts
    /\ TokenInit /\ JwtInit /\ DirectoryInit /\ ForgettingInit /\ Init
    /\ active # "directory" => reconstructs = FALSE
    /\ active # "forgetting" => policy = BothThresholds
    /\ active # "migration" => type = [k \in Keys |-> "none"]

ServerNext ==
    \/ /\ active = "tokens" /\ TokenNext
       /\ UNCHANGED <<active, jwtVars, directoryVars, forgettingVars, vars>>
    \/ /\ active = "jwt" /\ JwtNext
       /\ UNCHANGED <<active, tokenVars, directoryVars, forgettingVars, vars>>
    \/ /\ active = "directory" /\ DirectoryNext
       /\ UNCHANGED <<active, tokenVars, jwtVars, forgettingVars, vars>>
    \/ /\ active = "forgetting" /\ ForgettingNext
       /\ UNCHANGED <<active, tokenVars, jwtVars, directoryVars, vars>>
    \/ /\ active = "migration" /\ Next
       /\ UNCHANGED <<active, tokenVars, jwtVars, directoryVars, forgettingVars>>

ServerSpec == ServerInit /\ [][ServerNext]_serverPartVars

\* Every part keeps to its types, and what is at rest holds nothing.
ServerTypeOK == TokenTypeOK /\ JwtTypeOK /\ DirectoryTypeOK /\ ForgettingTypeOK /\ TypeOK
=============================================================================
