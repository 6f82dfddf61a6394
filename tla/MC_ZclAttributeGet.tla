------------------------- MODULE MC_ZclAttributeGet -------------------------
(***************************************************************************)
(* The GET of a cluster's attributes, end to end.  A request reaches the   *)
(* server in one of three ways:                                            *)
(*   - from a peer, with any query: a cluster and its query segments;     *)
(*   - from a peer, for one attribute of cluster 6 (../a/XXXX), with or    *)
(*     without a "meta=" segment;                                         *)
(*   - from the client's chipZclSendAttributeRead on cluster 6, which      *)
(*     turns a list of attribute ids into the "f=" value first.           *)
(* The server then parses the query (ZclQuery) and lists the cluster's    *)
(* attributes or encodes the one addressed (ZclAttributeGet), reading the *)
(* values from the store.  The answer to a client's read travels back to  *)
(* readWriteResponseHandler (ZclAttributeResponse), or the transport times *)
(* the exchange out.  A read goes to endpoint 2 or to a group.  Before a   *)
(* single-attribute GET or a client's read the application may have       *)
(* written one attribute with chipZclWriteAttribute.  Every raw "f=" value *)
(* of up to MaxLength symbols of Alphabet is given to the same parse       *)
(* directly, in ParseMatchesGrammar.                                       *)
(***************************************************************************)
EXTENDS ZclAttributeClient, ZclAttributeGet, ZclAttributeResponse, MC_ZclConfig
LOCAL INSTANCE Functions

CONSTANTS
  Alphabet,   \* the symbols of a peer's raw "f=" value
  MaxLength   \* the longest raw value

VARIABLES cluster, segments, ids, dest, sent, query, response, answer, calls, phase,
          target   \* the attribute id a single-attribute GET addresses, or NoTarget

getVars == <<cluster, segments, ids, dest, sent, query, response, answer, calls, phase, target>>

\* Symbols of a token: "1-3" is <<"1", "-", "3">>.
Tokens ==
  { <<"0">>, <<"1">>, <<"3">>, <<"5">>, <<"*">>,
    <<"0", "-", "1">>, <<"1", "-", "3">>,
    <<"0", "+", "2">>, <<"1", "+", "1">>, <<"1", "+", "2">>, <<"2", "+", "1">>,
    <<"0", "+", "0">> }

\* "f=" values of one to three tokens joined by commas.
FilterValues ==
  { t1 : t1 \in Tokens }
  \cup { t1 \o <<",">> \o t2 : t1, t2 \in Tokens }
  \cup { t1 \o <<",">> \o t2 \o <<",">> \o t3 : t1, t2, t3 \in Tokens }

\* Every "f=" value of up to MaxLength symbols, well formed or not.
RawValues == UNION {[1..n -> Alphabet] : n \in 0..MaxLength}

\* "meta=" values: keywords and one the parser does not know.  A listing
\* tries three of them; a single-attribute GET all four.
MetaValues    == { <<"*">>, <<"$base">>, <<"$x">> }
AllMetaValues == MetaValues \cup { <<"$acc">> }

FSeg(v) == [key |-> "f", value |-> v]
MSeg(m) == [key |-> "meta", value |-> m]

PeerRequests ==
  UNION { { <<>> }, { <<FSeg(v)>> : v \in FilterValues },
          { <<MSeg(m)>> : m \in MetaValues },
          { <<FSeg(v), MSeg(m)>> : v \in FilterValues, m \in MetaValues } }

\* Lists of distinct ids, existing (0-4) or not (5), and lists of ids two
\* apart, none of which joins its neighbour in a range.
DistinctLists == UNION {{s \in [1..n -> {0, 1, 2, 3, 5}] :
                          \A j, k \in 1..n : j # k => s[j] # s[k]} : n \in 1..4}
SpreadLists == {[k \in 1..n |-> 2 * k] : n \in {18, 19, 20, 21}}

\* Lists that repeat an id: right after itself (1,1), or after the range it
\* started has grown (1,2,1), before or after a merge.
RepeatLists == {<<1, 1>>, <<1, 2, 1>>, <<1, 1, 2>>, <<1, 2, 1, 2>>}

NoSend     == [status |-> "NONE", query |-> <<>>, last |-> 0]
NoResponse == [code |-> 0, ids |-> <<>>]
NoPayload  == [map |-> FALSE, entries |-> <<>>]
NoTarget   == -1

\* The attributes ../6/a/XXXX can address: those the URI dispatcher finds.
SingleTargets == {AttrTable[a].id : a \in {x \in Attrs : AttrTable[x].cluster = 6 /\ Local(x)}}

\* What the application's external read callback may answer.
ExtStatuses == {"SUCCESS", "FAILURE"}

\* The writes the application may make before a read: a new value of the
\* plain unsigned attribute (0), of the singleton (1), or of the string (2).
AppInputs == (1 :> [raw |-> 150, len |-> 1]) @@ (2 :> [raw |-> 50, len |-> 1])
             @@ (3 :> [raw |-> 2, len |-> 3])

\* Group 1 holds endpoints 1 and 2, group 2 endpoint 2; both have cluster 6.
GroupMembers == (1 :> <<1, 2>>) @@ (2 :> <<2>>)
Unicast      == [type |-> "ENDPOINT", id |-> 2]
Destinations == {Unicast} \cup {[type |-> "GROUP", id |-> g] : g \in DOMAIN GroupMembers}

\* The endpoints of a group that answer for the cluster.
Answering(g) == SelectSeq(GroupMembers[g], LAMBDA e : 6 \in EndpointClusters[e])

(***************************************************************************)
(* The payload of endpoint e's answer: a 2.05 carries the map of the      *)
(* listed attributes, each encoded by encodeAttributeResponseMap with its  *)
(* value or read status as the decoder finds it; any other code carries    *)
(* no map.  A group answer maps each answering endpoint to its own map,    *)
(* read there, with its own answer of the external read callback.          *)
(***************************************************************************)
Body(r, e, extStatus) ==
  LET enc(k) == EncodeResponseMap(e, FindAttribute(6, r.ids[k], FALSE), "NONE", TRUE, extStatus)
  IN  [map |-> r.code = 205,
       entries |-> [k \in 1..Len(r.ids) |->
                     [id |-> enc(k).id, key |-> enc(k).items[1].key, val |-> enc(k).items[1].val]]]

Answers(r, d) ==
  IF d.type = "ENDPOINT" THEN {Body(r, d.id, x) : x \in ExtStatuses}
  ELSE IF r.code # 205 THEN {NoPayload}
  ELSE LET eps == Answering(d.id)
       IN  { [map |-> TRUE,
              entries |-> [k \in 1..Len(eps) |-> [ep |-> eps[k], body |-> Body(r, eps[k], x[k])]]]
             : x \in [1..Len(eps) -> ExtStatuses] }

GetInit ==
  /\ Init
  /\ cluster = 6
  /\ segments = <<>>
  /\ ids = <<>>
  /\ dest = Unicast
  /\ phase = "idle"
  /\ sent = NoSend
  /\ answer = NoPayload
  /\ calls = <<>>
  /\ query = QueryInit
  /\ response = NoResponse
  /\ target = NoTarget

\* The application writes one attribute of cluster 6 at endpoint 1 or 2
\* (chipZclWriteAttribute; no pre-change veto, no external attribute).
AppWrite ==
  /\ phase = "idle"
  /\ phase' = "written"
  /\ \E e \in {1, 2}, a \in DOMAIN AppInputs :
       LocalWrite(e, 6, AttrTable[a].id, AppInputs[a], {}, "SUCCESS", 0)
  /\ UNCHANGED <<cluster, segments, ids, dest, sent, query, response, answer, calls, target>>

(***************************************************************************)
(* A peer's GET reaches the server, or the application is about to read.  *)
(* Requests about the query parsers and the listing come before any write; *)
(* a single-attribute GET and a client's read may follow one.              *)
(***************************************************************************)
Arrive ==
  /\ phase \in {"idle", "written"}
  /\ \/ /\ phase = "idle"
        /\ cluster' \in {6, 8}
        /\ segments' \in PeerRequests
        /\ ids' = <<>>
        /\ dest' = Unicast
        /\ phase' = "received"
        /\ UNCHANGED target
     \/ /\ cluster' = 6
        /\ target' \in SingleTargets
        /\ segments' \in {<<>>} \cup { <<MSeg(m)>> : m \in AllMetaValues }
        /\ ids' = <<>>
        /\ dest' = Unicast
        /\ phase' = "received"
     \/ /\ cluster' = 6
        /\ segments' = <<>>
        /\ \/ ids' \in DistinctLists \cup SpreadLists \cup RepeatLists /\ dest' = Unicast
           \/ ids' \in DistinctLists \cup RepeatLists /\ dest' \in Destinations \ {Unicast}
        /\ phase' = "call"
        /\ UNCHANGED target
  /\ UNCHANGED <<store, notified, sent, answer, calls, query, response>>

\* The application calls chipZclSendAttributeRead(ids) for cluster 6; a
\* call that returns an error sends nothing.
Send ==
  /\ phase = "call"
  /\ sent' = SendAttributeRead(ids)
  /\ phase' = IF sent'.status = "SUCCESS" THEN "received" ELSE "done"
  /\ segments' = IF sent'.status = "SUCCESS" THEN <<FSeg(sent'.query)>> ELSE <<>>
  /\ UNCHANGED <<store, notified, cluster, ids, dest, query, response, answer, calls, target>>

(***************************************************************************)
(* GET zcl/e/2/<cluster>/a?<segments>: the parsers, then the handler; a    *)
(* refused query is answered 4.00 by the dispatcher.  The answer to a      *)
(* client's read is put on the way back; a peer's request ends here.       *)
(***************************************************************************)
\* The dispatcher's response to the parsed query q whose listing is l: 4.00
\* when a parser refused the query, otherwise the listing's code and ids.
ListingResponse(q, l) ==
  IF ~q.ok THEN [code |-> 400, ids |-> <<>>] ELSE [code |-> GetCode(l.status), ids |-> l.ids]

\* The response r to the query q: put on the way back to a client's read,
\* or the end of a peer's request.
Respond(q, r) ==
  /\ query' = q
  /\ response' = r
  /\ IF ids # <<>>
       THEN phase' = "answered" /\ answer' \in Answers(r, dest)
       ELSE phase' = "served" /\ answer' = answer

ServeListing(q) == Respond(q, ListingResponse(q, GetAttributeIds(q, cluster)))

Get ==
  /\ phase = "received" /\ target = NoTarget
  /\ ServeListing(ParseQuery(segments, QueryInit))
  /\ UNCHANGED <<store, notified, cluster, segments, ids, dest, sent, calls, target>>

(***************************************************************************)
(* GET zcl/e/2/6/a/<target>?<segments>: the parsers, then                  *)
(* getAttributeHandler for endpoint 2 and the GET case of                  *)
(* chZclUriClusterAttributeIdHandler.  The URI dispatcher (not in this     *)
(* source) has already found the addressed attribute.                      *)
\* The handler's result h, as the client receives it.
RespondOne(h) ==
  /\ response' = [code |-> GetOneCode(h.status), ids |-> <<>>]
  /\ answer' = h.body

\* The addressed attribute of endpoint 2 encoded for the parsed query q,
\* whatever the external read callback answers.
ServeOne(q) ==
  /\ query' = q
  /\ \E x \in ExtStatuses :
       RespondOne(GetAttributeHandler(2, FindAttribute(6, target, FALSE), q.metadata, x))

(***************************************************************************)
GetOne ==
  /\ phase = "received" /\ target # NoTarget
  /\ phase' = "served"
  /\ ServeOne(ParseQuery(segments, QueryInit))
  /\ UNCHANGED <<store, notified, cluster, segments, ids, dest, sent, calls, target>>

\* The answer reaches the client: readWriteResponseHandler runs.
Deliver ==
  /\ phase = "answered"
  /\ phase' = "handled"
  /\ calls' = ResponseHandler("COAP_RESPONSE", response.code, TRUE, ResponseContext(dest), answer, 6)
  /\ UNCHANGED <<store, notified, cluster, segments, ids, dest, sent, query, response, answer, target>>

(***************************************************************************)
(* The client's transport gives up on an open exchange: the request or    *)
(* its answer was lost, or the answer is late.  readWriteResponseHandler   *)
(* is called with the failure status; an answer arriving after it no      *)
(* longer matches an exchange and is dropped.                              *)
(***************************************************************************)
Timeout ==
  /\ phase \in {"received", "answered"} /\ ids # <<>>
  /\ phase' = "handled"
  /\ calls' = ResponseHandler("TIMEOUT", 0, TRUE, ResponseContext(dest), NoPayload, 6)
  /\ UNCHANGED <<store, notified, cluster, segments, ids, dest, sent, query, response, answer, target>>

GetNext == AppWrite \/ Arrive \/ Send \/ Get \/ GetOne \/ Deliver \/ Timeout

(***************************************************************************)
(* The spec has the transport surface every exchange that gets no answer  *)
(* as a failure: its timer keeps running while an exchange is open, so a   *)
(* timeout that stays possible eventually happens.  Nothing forces the     *)
(* server to answer or the network to deliver.                             *)
(***************************************************************************)
GetSpec ==
  /\ GetInit /\ [][GetNext]_<<vars, getVars>>
  /\ WF_<<vars, getVars>>(Timeout)

done == response # NoResponse

\* The request answered was a listing, ../a?<query>.
listed == done /\ target = NoTarget

-----------------------------------------------------------------------------
(***************************************************************************)
(* What a query asks for: the local attribute ids of the cluster that each *)
(* filter selects, a count filter start+n selecting the first n of them    *)
(* from start on; with no filter, all of them.                             *)
(***************************************************************************)
LocalIds(c) == SelectSeq([i \in 1..Len(AttrTable) |-> i],
                         LAMBDA i : AttrTable[i].cluster = c /\ Local(i))

IdsOf(rows) == {AttrTable[rows[k]].id : k \in DOMAIN rows}

Selects(f, c) ==
  LET rows == LocalIds(c)
      from == SelectSeq(rows, LAMBDA i : AttrTable[i].id >= f.a)
  IN  CASE f.type = "ID"       -> IdsOf(rows) \cap {f.a}
        [] f.type = "RANGE"    -> {x \in IdsOf(rows) : f.a <= x /\ x <= f.b}
        [] f.type = "WILDCARD" -> IdsOf(rows)
        [] f.type = "COUNT"    -> IdsOf(SubSeq(from, 1, IF f.b < Len(from) THEN f.b ELSE Len(from)))

Selected(q, c) ==
  IF q.filters = <<>> THEN IdsOf(LocalIds(c))
  ELSE UNION {Selects(q.filters[k], c) : k \in DOMAIN q.filters}

Listed == {response.ids[k] : k \in DOMAIN response.ids}

(***************************************************************************)
(* The grammar of an "f=" value, stated apart from the parser: the fields  *)
(* between commas, hex numbers of one to four digits and their values, and *)
(* the filter each well-formed field denotes.                              *)
(***************************************************************************)
Commas(s) == {i \in 1..Len(s) : s[i] = ","}

Fields(s) ==
  LET cuts == <<0>> \o [k \in 1..Cardinality(Commas(s)) |->
                          CHOOSE i \in Commas(s) :
                            Cardinality({j \in Commas(s) : j < i}) = k - 1]
                    \o <<Len(s) + 1>>
  IN  [k \in 1..Len(cuts) - 1 |-> SubSeq(s, cuts[k] + 1, cuts[k + 1] - 1)]

RefNumber(s) == Len(s) \in 1..Nibbles /\ {s[i] : i \in DOMAIN s} \subseteq Hex

RefValue(s) ==
  LET digit(d) == CHOOSE k \in 0..15 : HexDigits[k + 1] = d
      RECURSIVE sum(_)
      sum(n) == IF n = 0 THEN 0 ELSE sum(n - 1) + digit(s[n]) * 16 ^ (Len(s) - n)
  IN  sum(Len(s))

\* The positions at which a field splits into <hex> "-" <hex> with a
\* growing range, or <hex> "+" <hex>.
Operators(t) ==
  LET l(j) == SubSeq(t, 1, j - 1)
      r(j) == SubSeq(t, j + 1, Len(t))
  IN  {j \in 1..Len(t) : /\ t[j] \in {"-", "+"}
                         /\ RefNumber(l(j)) /\ RefNumber(r(j))
                         /\ t[j] = "-" => RefValue(l(j)) < RefValue(r(j))}

\* The filters a field denotes: none, or exactly one.
Denotes(t) ==
  IF t = <<"*">> THEN {[type |-> "WILDCARD", a |-> 0, b |-> 0]}
  ELSE IF RefNumber(t) THEN {[type |-> "ID", a |-> RefValue(t), b |-> 0]}
  ELSE {[type |-> IF t[j] = "-" THEN "RANGE" ELSE "COUNT",
         a    |-> RefValue(SubSeq(t, 1, j - 1)),
         b    |-> RefValue(SubSeq(t, j + 1, Len(t)))] : j \in Operators(t)}

Meaning(s) == [k \in DOMAIN Fields(s) |-> CHOOSE f \in Denotes(Fields(s)[k]) : TRUE]

InGrammar(s) ==
  /\ s # <<>>
  /\ \A k \in DOMAIN Fields(s) : Denotes(Fields(s)[k]) # {}
  /\ \A j, k \in DOMAIN Fields(s) : j < k => Meaning(s)[j] # Meaning(s)[k]

\* The request is a single "f=" segment.
SingleFilterValue == Len(segments) = 1 /\ segments[1].key = "f"

LocalIdsOf6 == IdsOf(LocalIds(6))

-----------------------------------------------------------------------------
\* The parse of one "f=" value agrees with the grammar.
ParsedAsGrammar(q, v) ==
  /\ q.ok = InGrammar(v)
  /\ q.ok => q.filters = Meaning(v)

\* Every raw value of up to MaxLength symbols, parsed as the server parses
\* a request's only segment.  The parse is a function of the value alone,
\* so this is checked once, in the initial state.
RawValuesParsedAsGrammar ==
  \A v \in RawValues : ParsedAsGrammar(ParseQuery(<<FSeg(v)>>, QueryInit), v)

(***************************************************************************)
(* tokenize, the token loop and the duplicate check together accept        *)
(* exactly the "f=" values of the grammar, and turn each into the filters  *)
(* its fields denote, in order: an empty field, a trailing comma, an       *)
(* operand of five digits, a range that does not grow, or a repeated       *)
(* filter (1 and 01 alike) is refused.  This holds of every raw value of   *)
(* up to MaxLength symbols, and of the single "f=" value of every request  *)
(* served (a peer's filters, or the query a client's read built).          *)
(***************************************************************************)
ParseMatchesGrammar ==
  /\ phase = "idle" => RawValuesParsedAsGrammar
  /\ done /\ SingleFilterValue => ParsedAsGrammar(query, segments[1].value)

(***************************************************************************)
(* Every token of the first "f=" value has a slot in the tokens array of   *)
(* the filter parse, and every filter of the query a slot in               *)
(* attributeQuery.filters: neither tokenize nor "filters[filterCount++]"   *)
(* checks the bound.                                                       *)
(***************************************************************************)
FiltersFitArrays ==
  done =>
    /\ segments # <<>> /\ segments[1].key = "f"
         => Len(Tokenize(segments[1].value)) <= MaxQuerySegments
    /\ Len(query.filters) <= FilterCapacity

(***************************************************************************)
(* A 2.05 listing leaves out no attribute that a filter of the query       *)
(* selects: the early return of an id, range or wildcard match must not    *)
(* cost a count filter the attributes it selects.                          *)
(***************************************************************************)
ListingCoversQuery ==
  listed /\ response.code = 205 => Selected(query, cluster) \subseteq Listed

(***************************************************************************)
(* A query of count filters only is answered with exactly the attributes   *)
(* their windows select: the largest count left among the filters reached, *)
(* with usedCounts keeping each filter from starting twice.                *)
(***************************************************************************)
CountFiltersListTheirWindows ==
  (/\ listed /\ response.code = 205
   /\ \A k \in DOMAIN query.filters : query.filters[k].type = "COUNT")
    => Listed = Selected(query, cluster)

(***************************************************************************)
(* A 2.05 listing holds only attributes some filter of the query selects.  *)
(***************************************************************************)
ListedOnlyIfSelected ==
  listed /\ response.code = 205 => Listed \subseteq Selected(query, cluster)

(***************************************************************************)
(* A metadata query the parser does not know is answered 4.04, whether it  *)
(* asks for a listing or for one attribute: the spec has                   *)
(* chZclAttributeUriMetadataQueryParse mark it unsupported so that the     *)
(* request is later refused as not found.                                  *)
(***************************************************************************)
UnsupportedMetadataNotFound ==
  done /\ query.ok /\ query.metadata = "NOT_SUPPORTED" => response.code = 404

(***************************************************************************)
(* A read the client sends is refused only when the application repeated  *)
(* an id, and is otherwise answered 2.05 with exactly the requested ids    *)
(* the cluster has: the range compression, the hex text and the server's  *)
(* tokenize, range parse, duplicate check and filterAttribute must agree.  *)
(* A repeated id starts a new range, and two equal ranges (1,1 or          *)
(* 1-2,1-2) are refused by the duplicate check; other repeats are merged   *)
(* by the listing.                                                         *)
(***************************************************************************)
ReadServesRequestedIds ==
  done /\ ids # <<>> /\ sent.status = "SUCCESS" =>
    /\ response.code # 205 => ~IsInjective(ids)
    /\ response.code = 205 => Listed = {ids[k] : k \in DOMAIN ids} \cap LocalIdsOf6

(***************************************************************************)
(* The first loop of chipZclSendAttributeRead writes no datum past the     *)
(* end of filterRangeData: the comment above the array says its 19 slots   *)
(* are protected by the check in the loop.                                 *)
(***************************************************************************)
RangesWithinArray ==
  sent.last < RangeArrayLength


(***************************************************************************)
(* The client's side of a read.  Calls is what readWriteResponseHandler   *)
(* made of the application's read handler; its last call is the final.    *)
(***************************************************************************)
Requested == {ids[k] : k \in DOMAIN ids} \cap LocalIdsOf6
LastCall  == calls[Len(calls)]
Delivered == calls # <<>> /\ LastCall.status = "COAP_RESPONSE"

(***************************************************************************)
(* A unicast read ends, delivered or not, with exactly one final call, for *)
(* endpoint 2, after the reports.  A delivered answer reports each         *)
(* requested attribute the server has exactly once, in ascending id order *)
(* (the order of the server's table walk); a refused or timed-out one     *)
(* reports none.                                                           *)
(* This spans the client's range compression, the URI, the server's       *)
(* parse and listing, the CBOR map and handleRead's decoding loop.         *)
(***************************************************************************)
ReadReportsRequestedIds ==
  phase = "handled" /\ dest = Unicast =>
    /\ calls # <<>> /\ LastCall.final /\ LastCall.ep = 2
    /\ \A k \in 1..Len(calls) - 1 : ~calls[k].final
    /\ \A j, k \in 1..Len(calls) - 1 : j < k => calls[j].id < calls[k].id
    /\ {calls[k].id : k \in 1..Len(calls) - 1} = IF Delivered /\ response.code = 205 THEN Requested ELSE {}

(***************************************************************************)
(* A group read answered 2.05 reports, for every endpoint of the group     *)
(* with the cluster, the requested attributes and one final call with that *)
(* endpoint's id; every report is followed by the final call of its own    *)
(* endpoint before that of any other.  readWriteResponseHandler must set   *)
(* the context's endpoint to each endpoint id it decodes before calling    *)
(* handleRead, and handleRead must end every endpoint's map with its call. *)
(***************************************************************************)
GroupReportsPerEndpoint ==
  phase = "handled" /\ dest # Unicast /\ Delivered /\ response.code = 205 =>
    LET eps == {Answering(dest.id)[k] : k \in DOMAIN Answering(dest.id)}
    IN  /\ \A e \in eps :
             /\ Cardinality({k \in DOMAIN calls : calls[k].final /\ calls[k].ep = e}) = 1
             /\ {calls[k].id : k \in {j \in DOMAIN calls : ~calls[j].final /\ calls[j].ep = e}}
                  = Requested
        /\ \A k \in DOMAIN calls : calls[k].ep \in eps
        /\ \A j, k \in DOMAIN calls :
             (j < k /\ calls[k].final /\ \A m \in j..k - 1 : ~calls[m].final)
               => calls[j].ep = calls[k].ep

(***************************************************************************)
(* Every read chZclSend accepted ends with a final call of the read        *)
(* handler, whether its request or answer is lost or not: the application  *)
(* is told the read is over.  readWriteResponseHandler must make the call  *)
(* on a transport failure as well as on an answer.                         *)
(***************************************************************************)
ReadEventuallyEnds ==
  (phase = "received" /\ ids # <<>>) ~> (\E k \in DOMAIN calls : calls[k].final)

(***************************************************************************)
(* The value an endpoint holds for an attribute of cluster 6: what         *)
(* chipZclReadAttribute reads there into a buffer of the attribute's size  *)
(* when the external callback, if any, succeeds.                           *)
(***************************************************************************)
Held(e, id) ==
  ReadAttribute(e, 6, id, AttrTable[FindAttribute(6, id, FALSE)].size, "SUCCESS").value

SingletonIds == {AttrTable[a].id : a \in {x \in Attrs : AttrTable[x].singleton}}

(***************************************************************************)
(* Every value the server hands out is the one the endpoint holds, after   *)
(* the application's write: a 2.05 single-attribute GET with no metadata   *)
(* query answers {id: {"v": value}} with the value endpoint 2 holds, and a *)
(* read the client made reports, for each endpoint, the value that         *)
(* endpoint holds.  Only the external attribute, whose callback can fail,  *)
(* is ever answered with a status.  The reports of a singleton from two    *)
(* endpoints of a group agree.  This spans chipZclWriteAttribute, the      *)
(* storage locator, chZclReadAttributeEntry with the buffer size the       *)
(* encoder passes, encodeAttributeResponseMap and handleRead.              *)
(***************************************************************************)
ValuesAreReads ==
  /\ phase = "served" /\ target # NoTarget /\ query.metadata = "NONE" =>
       /\ response.code = 205 /\ answer.keyed /\ answer.id = target
       /\ answer.items[1].key = "v" => answer.items[1].val = Held(2, target)
       /\ answer.items[1].key = "s" => FindAttribute(6, target, FALSE) \in ExternalAttrs
  /\ phase = "handled" =>
       \A k \in DOMAIN calls :
         /\ ~calls[k].final /\ calls[k].attrStatus = "SUCCESS"
              => calls[k].value = Held(calls[k].ep, calls[k].id)
         /\ ~calls[k].final /\ calls[k].attrStatus # "SUCCESS"
              => FindAttribute(6, calls[k].id, FALSE) \in ExternalAttrs
  /\ \A j, k \in DOMAIN calls :
       (/\ ~calls[j].final /\ ~calls[k].final /\ calls[j].id = calls[k].id
        /\ calls[j].id \in SingletonIds
        /\ calls[j].attrStatus = "SUCCESS" /\ calls[k].attrStatus = "SUCCESS")
         => calls[j].value = calls[k].value

=============================================================================
