---------------------------- MODULE RfcFunctions ----------------------------
(***************************************************************************)
(* The curated catalogue of functions (seed_functions in client.rs) and    *)
(* the two gates in front of a call: the mock client's and that of the     *)
(* live SOAP client, which asks the same catalogue what may be called in   *)
(* read-only mode.                                                         *)
(***************************************************************************)

ReadOnlyFunctions ==
    {"RFC_SYSTEM_INFO", "BAPI_MATERIAL_GET_DETAIL", "RFC_READ_TABLE", "DDIF_FIELDINFO_GET"}

\* Writes that leave the commit to the caller.
CommitRequired ==
    {"BAPI_ACC_DOCUMENT_POST", "BAPI_PO_CREATE1", "BAPI_SALESORDER_CREATEFROMDAT2",
     "BAPI_CUSTOMER_CHANGEFROMDATA1"}

\* Writes that commit by themselves, and the two that end a unit of work.
SelfCommitting == {"TMS_MGR_FORWARD_TR_REQUEST"}
TransactionFunctions == {"BAPI_TRANSACTION_COMMIT", "BAPI_TRANSACTION_ROLLBACK"}

Catalogued == ReadOnlyFunctions \cup CommitRequired \cup SelfCommitting \cup TransactionFunctions

\* Import parameters that are not optional.
RequiredImports(f) ==
    CASE f = "BAPI_MATERIAL_GET_DETAIL" -> {"MATERIAL"}
      [] f = "BAPI_ACC_DOCUMENT_POST" -> {"DOCUMENTHEADER"}
      [] f = "BAPI_PO_CREATE1" -> {"POHEADER", "POHEADERX"}
      [] f = "BAPI_SALESORDER_CREATEFROMDAT2" -> {"ORDER_HEADER_IN"}
      [] f = "BAPI_CUSTOMER_CHANGEFROMDATA1" -> {"CUSTOMERNO"}
      [] f = "TMS_MGR_FORWARD_TR_REQUEST" -> {"IV_TARGET_SYSTEM", "IV_REQUEST"}
      [] f = "RFC_READ_TABLE" -> {"QUERY_TABLE"}
      [] f = "DDIF_FIELDINFO_GET" -> {"TABNAME"}
      [] OTHER -> {}

Functions == Catalogued \cup {"Z_CUSTOM"}   \* and one nobody catalogued

\* Mutant: the mode is not looked at.
MockCallAnyMode(f, params, readOnlyMode) ==
    CASE f \notin Catalogued -> "NotFound"
      [] OTHER -> IF params = {"text"} \/ ~(RequiredImports(f) \subseteq params)
                  THEN "InvalidParameter" ELSE "none"

\* call_rfc of the mock; params is the set of names given, "text" no object.
MockCall(f, params, readOnlyMode) ==
    CASE f \notin Catalogued -> "NotFound"
      [] f \in Catalogued \ ReadOnlyFunctions /\ readOnlyMode -> "PermissionDenied"
      [] OTHER -> IF params = {"text"} \/ ~(RequiredImports(f) \subseteq params)
                  THEN "InvalidParameter" ELSE "none"

\* call_rfc of the SOAP client up to the point where it sends anything.
SoapPrecheck(f, params, readOnlyMode) ==
    CASE readOnlyMode /\ f \notin ReadOnlyFunctions -> "PermissionDenied"
      [] OTHER -> IF params \in {{"text"}, {"<x>"}} THEN "InvalidParameter" ELSE "none"
=============================================================================
