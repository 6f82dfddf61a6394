------------------------ MODULE MC_ZclAttributeUpdate ------------------------
(***************************************************************************)
(* Write requests to cluster 6 of endpoint 2 of MC_ZclConfig (endpoint     *)
(* index 1 of the cluster, shared with endpoint 1 by the singleton): every *)
(* payload of up to two entries drawn from Entries, as an ordinary POST,   *)
(* an undivided POST, or a PUT to attribute 6/0, up to MaxRequests of them *)
(* one after another on the same store.  One of them may come from a      *)
(* client's chipZclSendAttributeWrite: its POST travels to the server, the *)
(* answer travels back to readWriteResponseHandler, and the client's       *)
(* transport may time the exchange out at any point while it is open.      *)
(***************************************************************************)
EXTENDS ZclAttributeUpdate, ZclAttributeResponse, MC_ZclConfig

VARIABLES
  exchange,     \* the client's write: "none", "refused", "sent", "serving", "answered", "handled"
  wpayload,     \* the entries the client asked to write
  answer,       \* the server's response to the client's POST
  answerStore,  \* the store when that response was sent
  answerSkipped, \* history: the ids the server skipped as unsupported for it
  calls         \* the calls readWriteResponseHandler made of the write handler

clientVars == <<exchange, wpayload, answer, answerStore, answerSkipped, calls>>

\* The number of requests a behaviour receives: two, so that a request
\* meets a store an earlier (partly applied) request left.
MaxRequests == 2

\* A value in range, one below the minimum, one for the signed singleton,
\* one for the external attribute, one for the read-only attribute, an
\* unknown id, a value that does not decode, and a payload that ends
\* inside a value.
Entries ==
  { [id |-> 0, val |-> 150], [id |-> 0, val |-> 1], [id |-> 1, val |-> 3],
    [id |-> 3, val |-> 9], [id |-> 4, val |-> 5], [id |-> 7, val |-> 0],
    [id |-> 0, val |-> BadValue], [id |-> 7, val |-> TruncValue] }

\* TruncValue ends the payload, so it is only ever the last entry.
Payloads ==
  {p \in UNION {[1..n -> Entries] : n \in 0..2} :
     \A k \in 1..Len(p) - 1 : p[k].val # TruncValue}

\* A POST's query: none, "?u" (undivided), or "?u=1", a "u" segment the
\* undivided parse refuses.  A PUT has none.
PostQueries == {<<>>, <<<<"u">>>>, <<<<"u", "=", "1">>>>}

MCRequests ==
  [e : {2}, c : {6}, code : {"POST"}, query : PostQueries, putAttr : {NoAttr},
   entries : Payloads]
  \cup [e : {2}, c : {6}, code : {"PUT"}, query : {<<>>}, putAttr : {1},
         entries : Payloads]

\* The writes a client asks for: values of the attribute's width, to ids
\* the cluster has and to one it does not (7).
ClientEntries ==
  { [id |-> 0, val |-> 150], [id |-> 0, val |-> 1], [id |-> 1, val |-> 3],
    [id |-> 3, val |-> 9], [id |-> 4, val |-> 5], [id |-> 7, val |-> 0] }
ClientPayloads == UNION {[1..n -> ClientEntries] : n \in 0..2}

Unicast == [type |-> "ENDPOINT", id |-> 2]

WriteInit ==
  /\ UpdInit
  /\ exchange = "none"
  /\ wpayload = <<>>
  /\ answer = NoResponse
  /\ answerStore = store
  /\ answerSkipped = {}
  /\ calls = <<>>

\* The application calls chipZclSendAttributeWrite for cluster 6 of
\* endpoint 2; a refused call sends nothing.
ClientWrite ==
  /\ exchange = "none"
  /\ served < MaxRequests
  /\ \E p \in ClientPayloads :
       IF SendAttributeWrite(6, p).status = "SUCCESS"
         THEN exchange' = "sent" /\ wpayload' = p
         ELSE exchange' = "refused" /\ wpayload' = wpayload
  /\ UNCHANGED <<allVars, answer, answerStore, answerSkipped, calls>>

\* The exchange is open: the client waits for an answer.
Open == exchange \in {"sent", "serving", "answered"}

\* The client's POST reaches updateAttributeHandler.
ClientArrive ==
  /\ exchange = "sent" /\ served < MaxRequests
  /\ Receive(2, 6, "POST", FALSE, NoAttr, wpayload)
  /\ exchange' = "serving"
  /\ UNCHANGED <<wpayload, answer, answerStore, answerSkipped, calls>>

\* A peer's request reaches updateAttributeHandler, before the client
\* writes or while its exchange is open, leaving room for a client's POST
\* still on its way.
PeerArrive ==
  /\ exchange = "none" \/ Open
  /\ served + (IF exchange = "sent" THEN 1 ELSE 0) < MaxRequests
  /\ \E r \in Requests : Dispatch(r.e, r.c, r.code, r.query, r.putAttr, r.entries)
  /\ UNCHANGED clientVars

\* A step of the handler; the response that ends the client's request is
\* what the client will be answered.
Serve(A) ==
  /\ A
  /\ IF exchange = "serving" /\ phase' = "idle"
       THEN /\ exchange' = "answered" /\ answer' = response'
            /\ answerStore' = store' /\ answerSkipped' = skipped'
       ELSE UNCHANGED <<exchange, answer, answerStore, answerSkipped>>
  /\ UNCHANGED <<wpayload, calls>>

\* The answer reaches the client: readWriteResponseHandler runs.
Deliver ==
  /\ exchange = "answered"
  /\ exchange' = "handled"
  /\ calls' = ResponseHandler("COAP_RESPONSE", answer.code, FALSE, ResponseContext(Unicast),
                               [map |-> FALSE, entries |-> <<>>], 6)
  /\ UNCHANGED <<allVars, wpayload, answer, answerStore, answerSkipped>>

\* The client's transport gives up on the open exchange (request or answer
\* lost, or the answer late); a later answer is dropped.
Timeout ==
  /\ Open
  /\ exchange' = "handled"
  /\ calls' = ResponseHandler("TIMEOUT", 0, FALSE, ResponseContext(Unicast),
                               [map |-> FALSE, entries |-> <<>>], 6)
  /\ UNCHANGED <<allVars, wpayload, answer, answerStore, answerSkipped>>

WriteNext ==
  \/ ClientWrite \/ ClientArrive \/ PeerArrive
  \/ Serve(DecodeEntry) \/ Serve(SkipFails) \/ Serve(EndPass) \/ Serve(Finish)
  \/ Deliver \/ Timeout

\* The transport's timer runs while the client's exchange is open (spec.md
\* section 5); nothing forces the server or the network.
WriteSpec ==
  /\ WriteInit /\ [][WriteNext]_<<allVars, clientVars>>
  /\ WF_<<allVars, clientVars>>(Timeout)

\* Behaviours end once the handler is idle and no more can happen: the
\* client's exchange is closed, or MaxRequests requests were answered
\* before the client wrote.
Bounded == phase = "busy" \/ Open \/ (exchange = "none" /\ served < MaxRequests)

(***************************************************************************)
(* The first pass of a two-pass request (undivided POST, PUT) changes      *)
(* neither the store nor any post-change notification: the handler passes *)
(* enableUpdate = !prechecking to chZclWriteAttributeEntry, which returns  *)
(* before pre-change, the write and post-change.                           *)
(***************************************************************************)
PrecheckNeverMutates ==
  [][phase = "busy" /\ passes = 2 /\ pass = 1 => UNCHANGED <<store, notified>>]_allVars

(***************************************************************************)
(* After an undivided POST answered 412 (precheck failed), the store is    *)
(* what it was when the request arrived: the for loop stops once           *)
(* precheckFailed is set, so the writing pass never starts.                *)
(***************************************************************************)
PreconditionFailedLeavesStore ==
  (phase = "idle" /\ response.code = 412) => store = storeAtStart

(***************************************************************************)
(* A PUT is all or nothing: when the handler answers a PUT with anything   *)
(* but 2.04, the store is as the PUT found it.  Only the precheck pass     *)
(* keeps a second id (caught by numDecodedAttributeIds, line 754) or a     *)
(* value that does not decode or fit from leaving the entries before it   *)
(* written.                                                                *)
(***************************************************************************)
PutAllOrNothing ==
  [][phase = "busy" /\ phase' = "idle" /\ req.code = "PUT" /\ response'.code # 204
       => store' = storeAtStart]_allVars

\* The attribute ids the failure map of the last request reports.
Reported == {failureMap[k][1] : k \in DOMAIN failureMap}

(***************************************************************************)
(* When the handler has gone through the whole payload without a failed    *)
(* precheck, every writable attribute the payload addresses holds the      *)
(* value of the last entry for it unless the failure map names it or the   *)
(* commit pass skipped its UNSUPPORTED_ATTRIBUTE status (lines 799-802,    *)
(* reached for a known attribute when the external write callback answers *)
(* it): a write that failed otherwise (veto, external write refused,       *)
(* out of bounds, undecodable value) is always reported, whatever the      *)
(* order of the entries and whichever status ends up as the result.        *)
(***************************************************************************)
NotReportedMeansApplied ==
  (phase = "idle" /\ served > 0 /\ pos > Len(req.entries) /\ ~precheckFailed)
    => \A k \in 1..Len(req.entries) :
         LET ent == req.entries[k]
             a   == FindAttribute(req.c, ent.id, FALSE)
         IN  (/\ a \in Attrs /\ AttrTable[a].writable /\ ent.val >= 0
              /\ ent.id \notin Reported \cup skipped
              /\ \A j \in k + 1..Len(req.entries) : req.entries[j].id # ent.id)
               => ReadValue(req.e, a)
                    = StoredValue(a, [raw |-> ent.val, len |-> AttrTable[a].size], 0)

(***************************************************************************)
(* spec.md: an undivided write is all-or-nothing.  An undivided POST that  *)
(* is not answered with success leaves the store as it found it.           *)
(***************************************************************************)
UndividedAllOrNothing ==
  (phase = "idle" /\ served > 0 /\ req.undivided /\ response.status # "SUCCESS")
    => store = storeAtStart

(***************************************************************************)
(* spec.md: "payload-bearing error responses always carry a map from       *)
(* attribute id to status": a response that sends the handler's CborState  *)
(* sends a non-empty failure map.                                          *)
(***************************************************************************)
PayloadIsFailureMap ==
  response.body = "state" => response.map # <<>>

(***************************************************************************)
(* A client write the server acknowledged with 2.04 and no payload was     *)
(* applied, but for what the server skipped as unsupported: every id the   *)
(* client sent names a writable attribute of the cluster, which held, when *)
(* the answer was sent, the value of the last entry for it unless the      *)
(* external write callback answered it UNSUPPORTED_ATTRIBUTE.  The write   *)
(* handler sees only the code, so this must hold through                   *)
(* chipZclSendAttributeWrite's lookup, the server's status rules (the      *)
(* overall result is the last entry's status while no failure map exists) *)
(* and the vetoes and external writes of the store.                       *)
(***************************************************************************)
WriteAcknowledgedIsApplied ==
  (/\ exchange = "handled" /\ calls # <<>>
   /\ calls[1].status = "COAP_RESPONSE" /\ calls[1].code = 204 /\ answer.body = "none")
    => \A k \in DOMAIN wpayload :
         LET a == FindAttribute(6, wpayload[k].id, FALSE)
         IN  /\ a \in Attrs /\ AttrTable[a].writable
             /\ (/\ \A j \in k + 1..Len(wpayload) : wpayload[j].id # wpayload[k].id
                 /\ wpayload[k].id \notin answerSkipped)
                  => answerStore[Slot(2, a)]
                       = StoredValue(a, [raw |-> wpayload[k].val, len |-> AttrTable[a].size], 0)

(***************************************************************************)
(* Every write the client sent ends with a call of its write handler,      *)
(* answered or timed out: readWriteResponseHandler calls it on a transport *)
(* failure as well as on an answer.                                        *)
(***************************************************************************)
WriteEventuallyEnds ==
  (exchange = "sent") ~> (exchange = "handled" /\ \E k \in DOMAIN calls : calls[k].final)

=============================================================================
