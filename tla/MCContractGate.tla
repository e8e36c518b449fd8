---------------------------- MODULE MCContractGate ----------------------------
(* A small instance of ContractGate: a list that is read and written, and an   *)
(* entry of it, two schemas and a boundary nobody claims yet.                  *)
EXTENDS ContractGate

MCRoutes == {"GET list", "POST list", "GET other"}
MCReads == {"GET list", "GET other"}
MCPathOf == [r \in MCRoutes |-> IF r = "GET other" THEN "other" ELSE "list"]
MCPrefixOf == [p \in {"list", "other"} |-> p]

Object == [Blank EXCEPT !.kind = "object"]
Read == [answer |-> "Page", inline |-> Blank, body |-> Unsaid,
         param |-> [where |-> "query", required |-> FALSE, of |-> Unsaid]]
Write == [answer |-> "Page", inline |-> Blank, body |-> "Create", param |-> Unsaid]
Doc == [ops |-> [r \in MCRoutes |-> CASE r = "GET list" -> Read
                                      [] r = "POST list" -> Write
                                      [] OTHER -> Unsaid],
        schemas |-> [Page |-> [Object EXCEPT !.field["items"] = "required"], Create |-> Object],
        refusals |-> {}, readable |-> TRUE]
MCBegan == [contract |-> Doc, app |-> Doc]
=============================================================================
