------------------------ MODULE ZclAttributeResponse ------------------------
(***************************************************************************)
(* The client's write request, chipZclSendAttributeWrite, and its         *)
(* handling of the answer to chipZclSendAttributeRead and                  *)
(* chipZclSendAttributeWrite: readWriteResponseHandler, handleRead and     *)
(* handleWrite.  The handler's effect is the sequence of calls it makes to *)
(* the application's read or write handler.                                *)
(*                                                                         *)
(* A payload is abstracted to what the CBOR decoder finds in it: whether   *)
(* it opens with a map, and the entries of that map.  A unicast answer     *)
(* holds attribute entries [id, key, val] (key "v" for a value, "s" for a *)
(* status); a group answer holds, per endpoint, [ep, body] with body such  *)
(* a map.                                                                  *)
(***************************************************************************)
EXTENDS ZclAttributeStore
LOCAL INSTANCE SequencesExt

GroupNull    == -1    \* CHIP_ZCL_GROUP_NULL
EndpointNull == -1    \* CHIP_ZCL_ENDPOINT_NULL
NoId         == -1    \* the final call passes no value; its attribute fields are not modelled
NoBuffer     == -1    \* the final call's NULL buffer

\* A variant of the write request that encodes every id without looking it up.
SendAttributeWriteNoLookup(c, entries) == [status |-> "SUCCESS", entries |-> entries]

(***************************************************************************)
(* chipZclSendAttributeWrite(destination, clusterSpec, data, count,       *)
(* handler): every id must name an attribute of the cluster (remote ones   *)
(* included) or the call returns BAD_ARGUMENT before anything is sent;     *)
(* each value is encoded with its attribute's id, type and size, and the   *)
(* map is POSTed.  The encoder running out of buffer (ERR_FATAL) is not    *)
(* modelled: the payloads are small.                                       *)
(***************************************************************************)
SendAttributeWrite(c, entries) ==
  IF \E k \in DOMAIN entries : FindAttribute(c, entries[k].id, TRUE) = NoAttr
    THEN [status |-> "BAD_ARGUMENT", entries |-> <<>>]
    ELSE [status |-> "SUCCESS", entries |-> entries]

\* The context chipZclSendAttributeRead/Write fill in from the destination.
ResponseContext(dest) ==
  [groupId    |-> IF dest.type = "GROUP" THEN dest.id ELSE GroupNull,
   endpointId |-> IF dest.type = "ENDPOINT" THEN dest.id ELSE EndpointNull]

\* A call of the application's handler.  final marks readHandler(.., NULL,
\* 0), the end of a read, and every writeHandler call.  value is what the
\* buffer passed holds.
Report(status, code, ep, id, attrStatus, value) ==
  [final |-> FALSE, status |-> status, code |-> code, ep |-> ep, id |-> id,
   attrStatus |-> attrStatus, value |-> value]
Final(status, code, ep) ==
  [final |-> TRUE, status |-> status, code |-> code, ep |-> ep, id |-> NoId,
   attrStatus |-> "NULL", value |-> NoBuffer]

\* The decoded entry as handleRead reports it: a value is reported with
\* SUCCESS, a status with the status read back from the buffer.
ReportEntry(status, code, ep, e) ==
  Report(status, code, ep, e.id, IF e.key = "v" THEN "SUCCESS" ELSE e.val, e.val)

\* A variant that makes the final call only when the body is not a map.
HandleReadNoFinalAfterMap(status, code, ep, body, c) ==
  IF ~body.map THEN <<Final(status, code, ep)>>
  ELSE LET known == SelectSeq(body.entries, LAMBDA e : FindAttribute(c, e.id, TRUE) # NoAttr)
       IN  [k \in 1..Len(known) |-> ReportEntry(status, code, ep, known[k])]

(***************************************************************************)
(* handleRead: each attribute entry of the map whose id the cluster has    *)
(* (remote ones included) is reported with SUCCESS for a value or its      *)
(* status, and the decoded buffer; an unknown id is skipped.  Then the     *)
(* final call, whether the body was a map or not.                          *)
(***************************************************************************)
HandleRead(status, code, ep, body, c) ==
  LET known == SelectSeq(IF body.map THEN body.entries ELSE <<>>,
                         LAMBDA e : FindAttribute(c, e.id, TRUE) # NoAttr)
  IN  [k \in 1..Len(known) |-> ReportEntry(status, code, ep, known[k])]
      \o <<Final(status, code, ep)>>

\* handleWrite: one call of the write handler.
HandleWrite(status, code, ep) == <<Final(status, code, ep)>>

Handle(isRead, status, code, ep, body, c) ==
  IF isRead THEN HandleRead(status, code, ep, body, c) ELSE HandleWrite(status, code, ep)

\* A variant that makes no call when the transport reports a failure.
ResponseHandlerSilentOnFailure(coapStatus, code, isRead, ctx, payload, c) ==
  IF coapStatus # "COAP_RESPONSE" THEN <<>>
  ELSE IF ctx.groupId = GroupNull
    THEN Handle(isRead, coapStatus, code, ctx.endpointId, payload, c)
  ELSE IF payload.map
    THEN FoldLeft(LAMBDA acc, x : acc \o Handle(isRead, coapStatus, code, x.ep, x.body, c),
                  <<>>, payload.entries)
  ELSE <<Final(coapStatus, code, ctx.endpointId)>>

\* A variant that keeps the request's endpoint for every endpoint of a
\* group answer, forgetting to set the context's endpoint to the one decoded.
ResponseHandlerStaleEndpoint(coapStatus, code, isRead, ctx, payload, c) ==
  IF coapStatus = "COAP_RESPONSE" /\ ctx.groupId = GroupNull
    THEN Handle(isRead, coapStatus, code, ctx.endpointId, payload, c)
  ELSE IF coapStatus = "COAP_RESPONSE" /\ payload.map
    THEN FoldLeft(LAMBDA acc, x : acc \o Handle(isRead, coapStatus, code, ctx.endpointId, x.body, c),
                  <<>>, payload.entries)
  ELSE <<Final(coapStatus, code, ctx.endpointId)>>

(***************************************************************************)
(* readWriteResponseHandler: a CoAP response to a unicast request goes to  *)
(* handleRead or handleWrite; a CoAP response to a group request that     *)
(* opens with a map goes to them once per endpoint id decoded, with the    *)
(* context's endpoint set to it.  Anything else (a transport failure or   *)
(* timeout, a group answer that is not a map) makes one final call.       *)
(***************************************************************************)
ResponseHandler(coapStatus, code, isRead, ctx, payload, c) ==
  IF coapStatus = "COAP_RESPONSE" /\ ctx.groupId = GroupNull
    THEN Handle(isRead, coapStatus, code, ctx.endpointId, payload, c)
  ELSE IF coapStatus = "COAP_RESPONSE" /\ payload.map
    THEN FoldLeft(LAMBDA acc, x : acc \o Handle(isRead, coapStatus, code, x.ep, x.body, c),
                  <<>>, payload.entries)
  ELSE <<Final(coapStatus, code, ctx.endpointId)>>

=============================================================================
