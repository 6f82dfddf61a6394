------------------------- MODULE ZclAttributeUpdate -------------------------
(***************************************************************************)
(* The multi-attribute write of zcl-core-attribute.c: updateAttributeHandler*)
(* run on one endpoint for a POST (ordinary or undivided) or a PUT, and    *)
(* the mapping of its status to a CoAP response by                         *)
(* chZclUriClusterAttributeHandler and chZclUriClusterAttributeIdHandler.  *)
(*                                                                         *)
(* The handler walks the CBOR map of the payload once per pass; each step  *)
(* of the model is one map entry, so that the store can be inspected       *)
(* between the entries of a pass.  A payload entry is an attribute id and  *)
(* either the value it decodes to, BadValue (emCborDecodeValue fails) or  *)
(* TruncValue (the payload ends inside the value: decoding and skipping it *)
(* both fail).  The handler writes through chZclWriteAttributeEntry of the *)
(* store module, so a write can be vetoed by pre-change or refused by the  *)
(* external write callback.                                                *)
(***************************************************************************)
EXTENDS ZclAttributeStore

CONSTANTS
  DecodeStatuses,  \* what chZclCborValueReadStatusToChipStatus may answer
  Requests         \* the requests that may arrive: Receive's arguments, with the query
                   \* segments in place of the undivided flag

VARIABLES
  phase,             \* "idle" between requests, "busy" inside the handler
  req,               \* the request: endpoint, cluster, code, undivided, PUT target, entries
  pass,              \* the pass under way (1 or 2)
  passes,            \* numberOfPasses
  pos,               \* the next entry of the payload map
  numDecoded,        \* numDecodedAttributeIds of this pass
  precheckFailed,
  failureMapCreated,
  failureMap,        \* the <<attribute id, status>> pairs encoded so far
  result,            \* the handler's overall status
  response,          \* the last response sent
  storeAtStart,      \* the store when the request arrived
  served,            \* the number of requests received so far
  skipped            \* history: the ids whose unsupported status the pass skipped

updVars == <<phase, req, pass, passes, pos, numDecoded, precheckFailed,
             failureMapCreated, failureMap, result, response, storeAtStart, served, skipped>>
allVars == <<store, notified, updVars>>

BadValue == -1
TruncValue == -2

NoResponse == [code |-> 0, body |-> "none", status |-> "NULL", map |-> <<>>,
               successEncoded |-> FALSE]

\* The response envelope: code, what it carries ("none", the status alone,
\* or the CborState: the failure map or the encoded success status).
Response(code, body, status, map, successEncoded) ==
  [code |-> code, body |-> body, status |-> status, map |-> map,
   successEncoded |-> successEncoded]

(***************************************************************************)
(* The status switch of the POST branch of chZclUriClusterAttributeHandler *)
(* and of the PUT branch of chZclUriClusterAttributeIdHandler.             *)
(***************************************************************************)
Respond(code, status, map, successEncoded) ==
  CASE status = "SUCCESS"           -> Response(204, "none", status, map, successEncoded)
    [] status = "FAILURE"           -> Response(500, "none", status, map, successEncoded)
    [] status = "MALFORMED_COMMAND" -> Response(400, "status", status, map, successEncoded)
    [] status = "NULL" /\ code = "POST" -> Response(412, "state", status, map, successEncoded)
    [] code = "POST"                -> Response(204, "state", status, map, successEncoded)
    [] OTHER                        -> Response(400, "state", status, map, successEncoded)

UpdInit ==
  /\ store = [s \in Instances |-> DefaultMinMax(s[1], "DEFAULT")]
  /\ notified = [x \in Endpoints \X Attrs |-> NotNotified]
  /\ phase = "idle"
  /\ req = [e |-> 0, c |-> 0, code |-> "POST", undivided |-> FALSE, putAttr |-> NoAttr,
            entries |-> <<>>]
  /\ pass = 1 /\ passes = 1 /\ pos = 1 /\ numDecoded = 0
  /\ precheckFailed = FALSE /\ failureMapCreated = FALSE /\ failureMap = <<>>
  /\ result = "MALFORMED_COMMAND"
  /\ response = NoResponse
  /\ storeAtStart = store
  /\ served = 0
  /\ skipped = {}

(***************************************************************************)
(* A request reaches updateAttributeHandler for endpoint e and cluster c:  *)
(* two passes when undivided or PUT (the first only prechecks), one        *)
(* otherwise; the overall result starts as MALFORMED_COMMAND.              *)
(***************************************************************************)
Receive(e, c, code, undivided, putAttr, entries) ==
  /\ phase = "idle"
  /\ phase' = "busy"
  /\ req' = [e |-> e, c |-> c, code |-> code, undivided |-> undivided,
             putAttr |-> putAttr, entries |-> entries]
  /\ passes' = IF undivided \/ code = "PUT" THEN 2 ELSE 1
  /\ pass' = 1 /\ pos' = 1 /\ numDecoded' = 0
  /\ precheckFailed' = FALSE /\ failureMapCreated' = FALSE /\ failureMap' = <<>>
  /\ result' = "MALFORMED_COMMAND"
  /\ storeAtStart' = store
  /\ served' = served + 1
  /\ skipped' = {}
  /\ UNCHANGED <<store, notified, response>>

(***************************************************************************)
(* chZclAttributeUriQueryUndividedParse: a "u" segment of the query marks  *)
(* the request undivided, and is accepted, only when it is one byte long. *)
(***************************************************************************)
UndividedParse(segment) == Len(segment) = 1

\* The URI dispatcher's 4.00 for a request a query parser refused: the
\* handler does not run.
Refuse ==
  /\ phase = "idle"
  /\ response' = Response(400, "none", "NULL", <<>>, FALSE)
  /\ served' = served + 1
  /\ UNCHANGED <<store, notified, phase, req, pass, passes, pos, numDecoded, precheckFailed,
                 failureMapCreated, failureMap, result, storeAtStart, skipped>>

(***************************************************************************)
(* A request with the "u" segments of its query: each is handed to the     *)
(* undivided parse, and the request is refused if one is refused;          *)
(* otherwise it is undivided when it has one.                              *)
(***************************************************************************)
Dispatch(e, c, code, query, putAttr, entries) ==
  IF \A k \in DOMAIN query : UndividedParse(query[k])
    THEN Receive(e, c, code, query # <<>>, putAttr, entries)
    ELSE Refuse

\* The attribute an entry addresses: for a PUT, the URI's attribute, and
\* only as the first id of the map; for a POST, the local attribute found
\* in the cluster.
EntryAttr(id, n) ==
  IF req.code = "PUT"
    THEN IF n = 1 /\ AttrTable[req.putAttr].id = id THEN req.putAttr ELSE NoAttr
    ELSE FindAttribute(req.c, id, FALSE)

\* The entry is skipped (emCborDecodeSkipValue) rather than decoded: it has
\* no attribute (NoAttr is not in Attrs) or a read-only one.
Skipped(a) == a \notin {x \in Attrs : AttrTable[x].writable}

(***************************************************************************)
(* The outcomes of one decoded entry: the status the handler computes for  *)
(* it and the store it leaves.  An unknown id (a POST) or a misplaced id   *)
(* (a PUT) has no attribute; a read-only attribute is refused; a value     *)
(* that does not decode takes the decoder's status; any other is written   *)
(* with chZclWriteAttributeEntry(endpoint, attribute, buffer, size,        *)
(* !prechecking), whose veto and external-write outcomes are chosen only   *)
(* when the write gets that far.                                           *)
(***************************************************************************)
EntryOutcomes(a, val, enableUpdate) ==
  LET keep(s) == [status |-> s, store |-> store, notified |-> notified]
  IN  IF a = NoAttr
        THEN {keep(IF req.code = "PUT" THEN "MALFORMED_COMMAND" ELSE "UNSUPPORTED_ATTRIBUTE")}
      ELSE IF ~AttrTable[a].writable THEN {keep("READ_ONLY")}
      ELSE IF val \in {BadValue, TruncValue} THEN {keep(d) : d \in DecodeStatuses}
      ELSE LET in      == [raw |-> val, len |-> AttrTable[a].size]
               reached == enableUpdate /\ Check(req.e, a, in) = "SUCCESS"
           IN  {WriteEntry(req.e, a, in, enableUpdate, v, x, 0) :
                  v \in IF reached THEN SUBSET EndpointsOf(a) ELSE {{}},
                  x \in IF reached /\ AttrTable[a].external THEN ExtWriteStatuses
                                                            ELSE {"SUCCESS"}}

\* A variant that prechecks only an undivided POST, forgetting the PUT.
PrecheckingUndividedOnly == req.undivided /\ pass = 1

\* The current pass only prechecks: the first of two.
Prechecking == passes > 1 /\ pass = 1

(***************************************************************************)
(* One iteration of the while loop: decode the next attribute id and its   *)
(* value, record the status as the overall result while no failure map    *)
(* exists, and encode a failure into the map unless it is an unsupported   *)
(* attribute outside a precheck; a failure while prechecking fails the     *)
(* precheck.                                                               *)
(***************************************************************************)
DecodeEntry ==
  /\ phase = "busy"
  /\ pos <= Len(req.entries)
  /\ LET ent         == req.entries[pos]
         a           == EntryAttr(ent.id, numDecoded + 1)
         prechecking == Prechecking
     IN  /\ ~(Skipped(a) /\ ent.val = TruncValue)
         /\ \E o \in EntryOutcomes(a, ent.val, ~prechecking) :
              LET reported == /\ o.status # "SUCCESS"
                              /\ o.status # "UNSUPPORTED_ATTRIBUTE" \/ prechecking
              IN  /\ store' = o.store
                  /\ notified' = o.notified
                  /\ result' = IF failureMapCreated THEN result ELSE o.status
                  /\ precheckFailed' = (precheckFailed \/ (reported /\ prechecking))
                  /\ failureMapCreated' = (failureMapCreated \/ reported)
                  /\ failureMap' = IF reported THEN Append(failureMap, <<ent.id, o.status>>)
                                   ELSE failureMap
                  /\ skipped' = IF o.status = "UNSUPPORTED_ATTRIBUTE" /\ ~prechecking
                               THEN skipped \cup {ent.id} ELSE skipped
  /\ pos' = pos + 1
  /\ numDecoded' = numDecoded + 1
  /\ UNCHANGED <<phase, req, pass, passes, response, storeAtStart, served>>

(***************************************************************************)
(* An entry that is skipped (no attribute, or read-only) but whose value   *)
(* cannot be skipped: the handler returns FAILURE at once, which both URI  *)
(* handlers answer with 500.                                               *)
(***************************************************************************)
SkipFails ==
  /\ phase = "busy"
  /\ pos <= Len(req.entries)
  /\ LET ent == req.entries[pos]
     IN  Skipped(EntryAttr(ent.id, numDecoded + 1)) /\ ent.val = TruncValue
  /\ phase' = "idle"
  /\ response' = Respond(req.code, "FAILURE", failureMap, FALSE)
  /\ UNCHANGED <<store, notified, req, pass, passes, pos, numDecoded, precheckFailed,
                 failureMapCreated, failureMap, result, storeAtStart, served, skipped>>

\* A variant of the for-loop condition that forgets "!precheckFailed".
EndPassIgnoringPrecheck ==
  /\ phase = "busy"
  /\ pos > Len(req.entries)
  /\ pass < passes
  /\ pass' = pass + 1 /\ pos' = 1 /\ numDecoded' = 0
  /\ UNCHANGED <<store, notified, phase, req, passes, precheckFailed, failureMapCreated,
                 failureMap, result, response, storeAtStart, served, skipped>>

(***************************************************************************)
(* The for loop moves to the next pass, the decoder restarting at the      *)
(* beginning of the payload, unless the precheck failed.                   *)
(***************************************************************************)
EndPass ==
  /\ phase = "busy"
  /\ pos > Len(req.entries)
  /\ pass < passes /\ ~precheckFailed
  /\ pass' = pass + 1 /\ pos' = 1 /\ numDecoded' = 0
  /\ UNCHANGED <<store, notified, phase, req, passes, precheckFailed, failureMapCreated,
                 failureMap, result, response, storeAtStart, served, skipped>>

(***************************************************************************)
(* After the loop: close the failure map or encode the success status,     *)
(* return NULL for an undivided write whose precheck failed and the        *)
(* overall result otherwise, and respond.                                  *)
(***************************************************************************)
Finish ==
  /\ phase = "busy"
  /\ pos > Len(req.entries)
  /\ pass = passes \/ precheckFailed
  /\ LET status == IF req.undivided /\ precheckFailed THEN "NULL" ELSE result
     IN  response' = Respond(req.code, status, failureMap, result = "SUCCESS")
  /\ phase' = "idle"
  /\ UNCHANGED <<store, notified, req, pass, passes, pos, numDecoded, precheckFailed,
                 failureMapCreated, failureMap, result, storeAtStart, served, skipped>>

UpdNext ==
  \/ \E r \in Requests : Dispatch(r.e, r.c, r.code, r.query, r.putAttr, r.entries)
  \/ DecodeEntry
  \/ SkipFails
  \/ EndPass
  \/ Finish

UpdSpec == UpdInit /\ [][UpdNext]_allVars
=============================================================================
