----------------------------- MODULE MCPlatform -----------------------------
(***************************************************************************)
(* The four small components of the server, checked in one run.  They      *)
(* share no state, so a behaviour follows one of them.                     *)
(***************************************************************************)
EXTENDS Tokens, Members, Catalog, RowLocks

VARIABLE component

platformVars == <<component, tokenVars, memberVars, catalogVars, lockVars>>

Init ==
    /\ component \in {"tokens", "members", "catalog", "locks"}
    /\ TokensInit /\ MembersInit /\ CatalogInit /\ RowLocksInit
    /\ component # "members" => role[CHOOSE u \in Users : TRUE] = "owner"
    /\ component # "catalog" =>
        source = "agentrail_server" /\ shop[1].price = CHOOSE p \in Prices : TRUE

Only(name, next, others) == component = name /\ next /\ UNCHANGED others

Next ==
    /\ UNCHANGED component
    /\ \/ Only("tokens", TokensNext, <<memberVars, catalogVars, lockVars>>)
       \/ Only("members", MembersNext, <<tokenVars, catalogVars, lockVars>>)
       \/ Only("catalog", CatalogNext, <<tokenVars, memberVars, lockVars>>)
       \/ Only("locks", RowLocksNext, <<tokenVars, memberVars, catalogVars>>)

Spec == Init /\ [][Next]_platformVars

(* Every variable has its type, whichever component a behaviour follows.    *)
PlatformTypeOK == TokensTypeOK /\ MembersTypeOK /\ CatalogTypeOK /\ RowLocksTypeOK
=============================================================================
