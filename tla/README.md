# TLA+ models of the ZCL attribute engine

This directory holds TLA+ models of the attribute engine in
`src/src/framework/zcl/zcl-core/zcl-core-attribute.c`, the TLC
configurations that check them, and `PROJECT.json`. `PROJECT.json` records
the following:

- the components;
- the runs;
- the mutants;
- the map from every modelling definition to the source lines it translates;
- the findings;
- the hazards.

## The system

`zcl-core-attribute.c` maps a cluster/endpoint/attribute address space onto one
statically allocated data buffer. It has these parts.

| Part | Code | Role |
|------|------|------|
| Metadata and storage | `chZclFindAttribute`, `attributeDataLocation`, `attributeDefaultMinMaxLocation`, `chZclAttributeSize` | Find an attribute's row in the sorted generated table and the bytes it occupies. A singleton attribute has one slot shared by every endpoint of its cluster; any other attribute has one slot per endpoint index. |
| Numeric bounds codec | `isLessThan`, `chZclSignExtendAttributeBuffer`, `convertBufferToTwosComplement`, `chZclGetAbsDifference` | Compare a written value with the generated minimum and maximum, byte by byte in two's complement. |
| Single-attribute engine | `chZclWriteAttributeEntry`, `writeAttribute`, `callPreAttributeChange`, `callPostAttributeChange`, `chZclReadAttributeEntry` | Run the checks in order: unknown or remote, no endpoint index, size, length, bounds. Then stop if only prechecking. Otherwise ask pre-change (a singleton asks every endpoint and any veto aborts), write to RAM or to the application's external store, and notify post-change on success. |
| Application API | `chipZclWriteAttribute`, `chipZclReadAttribute`, `chipZclResetAttributes`, `chipZclExternalAttributeChanged` | The entry points the application calls. |
| Multi-attribute write | `updateAttributeHandler` and the POST/PUT branches of `chZclUriClusterAttributeHandler` and `chZclUriClusterAttributeIdHandler` | Decode a CBOR map `{id: value}`. An undivided POST or a PUT makes a precheck pass first, then a commit pass. The handler builds a failure map and an overall status, which the URI handlers turn into 2.04, 4.00, 4.12 or 5.00. |
| Attribute read (GET) | `getAttributeIdsHandler`, `filterAttribute`, `encodeAttributeResponseMap`, `makeMetadataTypeString`, `makeMetadataAccessValue`, `getAttributeHandler`, the GET branches of `chZclUriClusterAttributeHandler` and `chZclUriClusterAttributeIdHandler` | List a cluster's local attributes as an array of ids (no filter) or a map (filters given), through the id, range, count and wildcard filters. Each map entry is `{"v": value}` or `{"s": status}` as read at that moment, or the `$base`/`$access` metadata. A GET of one attribute encodes its map alone. Map the status to 2.05, 4.04 or 5.00. |
| URI query parsers | `tokenize`, `chZclAttributeUriQueryFilterParse`, `chZclAttributeUriMetadataQueryParse` | Split an `f=` value at its commas, parse each token into a filter slot, refuse empty ranges and duplicate filters; read the `meta=` keyword. |
| Client | `chipZclSendAttributeRead`, `chipZclSendAttributeWrite`, `readWriteResponseHandler` | Compress the requested ids into ranges and write them as the `f=` query of a GET; send writes; dispatch responses to the application's read or write handler. All three are modelled; the CBOR encoding of written values is abstracted to the entries. |

Everything runs on one thread, inside the transport's delivery callback. The
only interleavings are the following:

- between the application's API calls and incoming requests;
- between the entries and passes of one request, since the callbacks run
  inside them;
- between a client's request in flight, the server's other requests, the
  answer and the client transport's timeout.

The other files under `src/` are of three kinds:

- declarations and data with no behaviour: the DTLS manager header, plugin
  and token headers, the LED PWM table and the generated structs;
- `src/src/app/tests/TestWriteInteraction.cpp`, which tests a
  WriteClient/WriteHandler whose implementation is not under `src/`.

## Modules

- **`ZclNumeric`**
  - Values are little-endian byte sequences; element 1 is the least
    significant byte, which is the code's order after sign extension.
  - `ByteBase` (256) and `MaxSize` (`CHIP_ZCL_ATTRIBUTE_MAX_SIZE`) are
    constants.
  - Operators:
    - `SignExtend` is `chZclSignExtendAttributeBuffer`.
    - `AddOneFrom` and `TwosComplement` are the invert-then-ripple-carry of
      `convertBufferToTwosComplement`.
    - `AddBytes` is the add loop of `chZclGetAbsDifference`; the final carry
      is dropped.
    - `GetAbsDifference`.
    - `IsLessThan`: the size is the largest of the two lengths and the
      attribute size, plus one guard byte, and it answers FALSE above
      `MaxSize`.
  - `Unsigned`, `ToInt` and `Encode` are reference definitions: the integer
    a buffer denotes, and the bytes of a natural number.
- **`ZclAttributeStore`**
  - Constants:
    - `AttrTable`, the generated attribute table, with records for the mask
      bits;
    - `EndpointTable` and `EndpointClusters`;
    - `LookupTable`, the default/min/max constants;
    - `WriteValues`, the values callers write;
    - `ShortBuffers` and `GarbageBytes`, which model a caller passing a
      buffer shorter than the attribute and the bytes an over-read then
      picks up.
  - State:
    - `store` maps each storage instance `<<attribute, endpoint index>>` to
      its value. A singleton uses `<<attribute, 0>>`, as
      `attributeDataLocation` computes. The application's external store
      lives in the same variable.
    - `notified[<<endpoint, attribute>>]` holds the value the last
      post-change callback reported.
  - Operators:
    - `CheckStatus` is the early returns of `chZclWriteAttributeEntry`, in
      code order.
    - `WriteEntry` is the whole function: the checks, the `enableUpdate`
      stop, the pre-change veto, the write, and post-change. An external
      attribute is written by the application's callback, whose status
      (`ExtWriteStatuses`: SUCCESS, FAILURE or UNSUPPORTED_ATTRIBUTE) is
      returned as it is. It returns the status and the new state.
    - `Check` and `CheckTable` compute `CheckStatus` once per input, and
      `FoundTable` the lookup of every cluster and id of the table; they
      only save time.
    - `ReadEntry` is `chZclReadAttributeEntry`: UNSUPPORTED for a missing
      or remote attribute or an endpoint without the cluster, the external
      callback's status, INSUFFICIENT_SPACE for a buffer shorter than the
      current value (a string's length byte counts), else the value.
      `ReadAttribute` is `chipZclReadAttribute`, which looks the attribute
      up without remote ones. Reads change no state.
  - Actions:
    - `LocalWrite` (`chipZclWriteAttribute`);
    - `ResetAttributes` (`chipZclResetAttributes`, which ignores the write
      status);
    - `ExternalAttributeChanged`.
  - Two lookups are modelled from the spec because they are not under
    `src/`: `EndpointIndex` (`chipZclEndpointIdToIndex`) and `HasCluster`.
- **`ZclAttributeUpdate`** (EXTENDS the store)
  - Models `updateAttributeHandler` one map entry per step, with the
    handler's locals as variables: `pass`, `passes`, `pos`, `numDecoded`,
    `precheckFailed`, `failureMapCreated`, `failureMap` and `result`.
    The history variable `skipped` collects the ids whose
    UNSUPPORTED_ATTRIBUTE status the commit pass skipped (lines 799-802);
    the code keeps no such record, and no action reads it.
  - Actions:
    - `Dispatch` hands each "u" segment of a POST's query to
      `UndividedParse` (`chZclAttributeUriQueryUndividedParse`, which
      accepts only a one-byte segment). A refused query is `Refuse`, the
      dispatcher's 4.00 without running the handler; otherwise `Receive`
      runs with `undivided` set when the query had a segment.
    - `Receive` starts a request. A payload entry is an id and either a
      value, `BadValue` (the decode fails) or `TruncValue` (the decode and
      the skip both fail).
    - `DecodeEntry` is one loop iteration. It looks the attribute up, or
      takes the PUT's URI attribute for the first id only, then applies the
      read-only check, the decode and `WriteEntry` with
      `enableUpdate = !prechecking`. It updates the result, the failure map
      and `precheckFailed`.
    - `SkipFails` is the early FAILURE return.
    - `EndPass` is the for loop, which stops on `precheckFailed`.
    - `Finish` encodes the result; an undivided request whose precheck
      failed returns NULL.
  - `Respond` is the POST and PUT status switches. The response records its
    code and whether it carries nothing, the status, or the `CborState`
    (failure map or encoded success).
- **`ZclQuery`**
  - A query value is a sequence of symbols: hex digits and `,`, `-`, `+`,
    `*`. A filter is a record `[type, a, b]`.
  - `Tokenize` is `tokenize`; `EmptyToken` is its check for an empty token
    or a trailing comma.
  - `ParseToken` is the loop body of `chZclAttributeUriQueryFilterParse`:
    wildcard, then the first `-` or else the first `+` with two hex
    operands of 1–4 digits (`IsNumber`), then a plain id. `ParseTokens`
    gives each token the next slot before looking at it, as
    `filters[filterCount++]` does, and stops at the first failure.
    `FilterParse` adds the `tokenCount == 0` refusal and the duplicate
    check (`HasDuplicate`). It answers how many tokens were stored.
  - `MetadataParse` is the prefix compare of the metadata parser.
  - Hex decoding (`emHexStringToInt`) is outside `src/` and is modelled
    from the spec (`HexValue`).
- **`ZclAttributeGet`** (EXTENDS the store and `ZclQuery`)
  - `FilterFrom` is `filterAttribute`: the early return on an id, range or
    wildcard match; `CountReached`, the count case with the `usedCounts`
    test; `SetBit`, which loses a bit beyond `UsedCountsBits`; and the
    count decrement after the loop.
  - `ListFrom` and `GetAttributeIds` are `getAttributeIdsHandler`: the
    walk of the sorted table, the wildcard-metadata NOT_FOUND, and the
    unsupported-metadata NOT_FOUND of the map listing. A map entry is
    abstracted to its id.
  - `GetCode` is the GET status switch. `ParseQuery` hands each segment to
    its parser, as the URI dispatcher does (outside `src/`).
  - `EncodeResponseMap` is `encodeAttributeResponseMap`: with no metadata
    query it reads the attribute into a buffer of its size (`ReadEntry`)
    and gives the item `v` with the value or `s` with the status; a
    metadata query gives `$base` (`MetadataTypeString`: "uint8",
    "int8", "string", ...) and/or `$access` (`MetadataAccessValue`, the
    readable, writable and reportable bits or-ed with `Bitwise`), and
    nothing for an unknown keyword. The items are keyed by the attribute
    id unless the query is a metadata one and `makeAttrIdMap` is false.
    A CBOR map is the sequence of its items.
  - `GetAttributeHandler` is `getAttributeHandler` (`makeAttrIdMap`
    false); `GetOneCode` is the GET switch of
    `chZclUriClusterAttributeIdHandler`.
- **`ZclAttributeClient`** (EXTENDS `ZclQuery`)
  - `CompressFrom` is the first loop of `chipZclSendAttributeRead`: an id
    one above the current datum extends it, otherwise a new datum starts.
    The bound check is translated as written:
    `d + 1 > RangeArrayLength * RangeDatumBytes`. `WriteDatum` writes past
    the array when that check lets it.
  - `RangeText` and `WriteQueryFrom` are the second loop: four hex digits
    per id (`HexId`, modelled from `chZclIntToHexString`), `-` and the end
    for a range, and the URI length check.
- **`ZclAttributeResponse`** (EXTENDS `ZclAttributeStore`)
  - `ResponseHandler` is `readWriteResponseHandler`. A CoAP response to a
    unicast request goes to `Handle` once. A CoAP response to a group
    request that decodes as a map goes to it once per endpoint entry, with
    that endpoint. Anything else (a transport failure, a group answer that
    is not a map) makes one `Final` call.
  - `HandleRead` is `handleRead`: each entry whose id the cluster knows
    (remote ones included) becomes a `Report` (`ReportEntry`) with SUCCESS
    for a `v` key or the status of an `s` key, and the decoded buffer;
    unknown ids are skipped; then one `Final`
    call (`readHandler(.., NULL, 0)`). `HandleWrite` is one write-handler
    call.
  - A payload is abstracted to what the decoder finds: whether it opens
    with a map, and its entries.
- **`MC_ZclAttributeGet`** composes the client, the parsers, the listing,
  the encoder, the store and the response handling. `AppWrite` is one
  `chipZclWriteAttribute` of the unsigned attribute, the singleton or the
  string at endpoint 1 or 2. `Arrive` picks the request: a peer's listing
  GET (any query; before any write), a peer's GET of one attribute of
  cluster 6 with or without `meta=`, or a read the client builds from a
  list of ids (`Send`), sent to endpoint 2 or to group 1 (endpoints 1 and
  2) or group 2 (endpoint 2). `Get` serves a listing and, for a client
  read, puts the answer on the way back: `Body` is the 2.05 map, each
  entry encoded by `EncodeResponseMap` at the answering endpoint with the
  external callback answering SUCCESS or FAILURE, and `Answers` wraps it
  per answering endpoint for a group (`ServeListing`, with the dispatcher's
  codes in `ListingResponse` and the hand-off in `Respond`). `GetOne`
  serves a single-attribute GET at endpoint 2 (`ServeOne`, `RespondOne`).
  These helpers take the parsed query and the response as operator
  arguments rather than as LET definitions used several times: TLC's
  coverage reporting expands every use of a LET definition when it builds
  its cost model, and the LET form took minutes to start. `Deliver` runs
  `readWriteResponseHandler` on it; `Timeout`, possible while the exchange
  is open, runs it with a failure status (a lost request, a lost or a late
  answer).
  The grammar of `f=` values (`Fields`, `Denotes`, `Meaning`, `InGrammar`)
  and the selection of each filter (`Selects`, `Selected`) are stated
  apart from the code, as references. Raw `f=` values are not requests of
  the model: the parse is a function of the value, so
  `RawValuesParsedAsGrammar` gives every one of them to `ParseQuery` in the
  initial state.
- **`MC_ZclConfig`** is a small generated configuration.
  - Endpoints 1–3; cluster 6 on endpoints 1 and 2, cluster 8 on endpoints
    2 and 3.
  - One attribute of each kind the engine treats differently:
    - a bounded uint8 with default 10 and bounds [2, 200];
    - a bounded signed singleton with bounds [-5, 100];
    - a string;
    - an external uint8;
    - a read-only uint16 with a maximum of 1000;
    - a remote attribute.
- **`ZclAttributeView`** is the abstract specification of the store, taken
  from what spec.md promises rather than from the code. Its state is the
  value each `<<endpoint, attribute>>` address reads. A singleton's
  addresses always read alike (`Peers`, `Shared`). A step either writes
  one address and its peers, or resets an endpoint, which may change an
  address only to its default and only if the address or a peer belongs to
  that endpoint. `MC_ZclAttributeStore` instantiates it with `view` mapped
  to `ReadValue` of each address and checks `View!ViewSpec` as a PROPERTY.
  A refused write leaves the view as it was; `ViewNext` tests that case
  first.
- **`MC_ZclAttributeStore`** lets the application write, reset and report
  external changes in any order. `WriteInputs` tries every input only
  where the value is looked at: a write of a remote attribute, or at an
  endpoint without the cluster, is refused before that, so one input
  stands for all. The pre-change vetoes are none or one endpoint of those
  asked: one veto aborts the write as several do.
- **`MC_ZclAttributeUpdate`** also composes a client's write with the
  handler. `ClientWrite` is `chipZclSendAttributeWrite` for cluster 6 of
  endpoint 2: `SendAttributeWrite` refuses an id the cluster lacks,
  otherwise the POST is on its way. `ClientArrive` hands it to `Receive`
  as an ordinary POST. `PeerArrive` brings peers' requests. `Serve` wraps
  each handler step and records the response that ends the client's
  request. `Deliver` runs `readWriteResponseHandler`, which calls
  `handleWrite`. `Timeout` is possible while the exchange is open.
- **`MC_ZclNumeric`**, **`MC_ZclAttributeStore`** and
  **`MC_ZclAttributeUpdate`** instantiate the modules and state the
  properties.

## Runs

| Run | Checks | Result |
|-----|--------|--------|
| `numeric_order` | `LessThanIsIntegerOrder`: `IsLessThan` equals integer `<`. It covers every 1-byte buffer, all 2-byte buffers over the edge bytes {0, 1, 0x7F, 0x80, 0xFE, 0xFF}, three types and attribute sizes 1–2. | Passes (about 1M states). It shows the code computes dataA < dataB, while the comment says "true if dataB < dataA". |
| `store` | `TypeOK`: each slot holds a value of its width. `RamNotifiedMatchesStored`: the last post-change of a RAM attribute equals what the endpoint reads, singletons included. `StoredWithinBounds`: no bounded RAM attribute holds a value outside its bounds. `StoreImplementsView`: the store refines `ZclAttributeView` (see Modules). | Passes (2888 states, about two minutes for the refinement). |
| `store_postchange` | `PostChangeReportsStoredValue` extended to external attributes. | Violated: a reset whose external write is refused still notifies the default. |
| `store_shortbuf` | `StoredWithinBounds` with short buffers and garbage bytes {0, 255}. | Violated: a 1-byte buffer passes the 2-byte maximum check and 0xFF05 is stored. |
| `update` | `PrecheckNeverMutates` (action property): a precheck pass changes neither `store` nor `notified`. `PreconditionFailedLeavesStore`: after a 4.12 the store is as the request found it. `PutAllOrNothing` (action property): a PUT answered anything but 2.04 leaves the store as it found it. `NotReportedMeansApplied`: after a completed loop with no failed precheck, every addressed writable attribute that is neither in the failure map nor skipped as unsupported holds its last entry's value. `WriteAcknowledgedIsApplied`: a client write answered 2.04 without payload names only writable attributes, each holding its last value when the answer was sent unless the server skipped it as unsupported; the write handler sees only the code, and a 2.04 with a failure map is ambiguous to it. `WriteEventuallyEnds`: every client write sent ends with a write-handler call. | Passes (about 390k states). |
| `update_undivided` | `UndividedAllOrNothing`. | Violated: POST?u [6/0 = 150, 6/0 = 150] passes the precheck; in the commit pass pre-change vetoes the first entry and accepts the second. The answer is 5.00 with the attribute written. |
| `update_payload` | `PayloadIsFailureMap`. | Violated: POST [7 = 0] (an unknown id), or [6/0 = 150, 7 = 0], is answered 2.04 with an empty `CborState`. |
| `get_listing` | `ParseMatchesGrammar`: a single `f=` value is accepted exactly when it is in the grammar, and parsed into the filters its fields denote. `ListingCoversQuery`: a 2.05 listing holds every attribute a filter selects. `CountFiltersListTheirWindows`: a query of count filters lists exactly their windows. `ReadServesRequestedIds`: a read the client sends is refused only when the application repeated an id, and is otherwise answered 2.05 with exactly the requested ids the cluster has. `ReadReportsRequestedIds`: a unicast read ends with exactly one final call after its reports, which are the requested ids the cluster has, once each and in ascending order, or none when it was refused or timed out. `GroupReportsPerEndpoint`: a group read answered 2.05 reports the requested ids and one final call for each answering endpoint, each report before its own endpoint's final call. `ValuesAreReads`: after the application's write, a single-attribute GET answers the value endpoint 2 holds, every report of a client read carries the value its endpoint holds, only the external attribute is ever answered with a status, and a singleton is reported alike by every endpoint of a group. `ReadEventuallyEnds`: every read sent ends with a final call. | Passes (about 65k states, about a minute). |
| `query_capacity` | `FiltersFitArrays`, with the tokens and filters arrays scaled to two slots. | Violated by `f=0,0,1`: three filters are written before the duplicate check refuses the query. |
| `get_overselect` | `ListedOnlyIfSelected`: a 2.05 listing holds only attributes some filter selects. | Violated by `f=0,0+2` on cluster 6: the id filter takes 0 before the count filter starts there, and the count of two then takes 1 and 2. |
| `get_unsupported_meta` | `UnsupportedMetadataNotFound`: an unknown metadata keyword is answered 4.04, listing or single attribute, as the spec says. | Violated by `GET ../6/a/0000?meta=$x`: 2.05 with an empty map. A listing `?meta=$x` is answered 2.05 with every id as well. |
| `read_ranges` | `RangesWithinArray`: the client's first loop writes no datum past `filterRangeData`. | Violated by 20 ids two apart: the guard compares an element offset with the array's size in bytes, and `filterRangeData[19]` is written before the URI length check refuses the call. |

Each property of a passing run has a mutant in `PROJECT.json` that TLC must
find violated:

| Mutant | Breaks |
|--------|--------|
| No guard byte in `isLessThan` | `LessThanIsIntegerOrder` |
| Copying the caller's length | `TypeOK` |
| No singleton case in `attributeDataLocation` | `RamNotifiedMatchesStored` |
| Checking only the minimum | `StoredWithinBounds` |
| Ignoring `precheckFailed` in the for loop | `PreconditionFailedLeavesStore` |
| Ignoring the external write status | `NotReportedMeansApplied` |
| Prechecking only undivided POSTs, not PUT | `PrecheckNeverMutates` |
| The same mutant, seen from the answer to a PUT | `PutAllOrNothing` |
| An empty-token check that forgets the trailing comma | `ParseMatchesGrammar` |
| A range test that leaves out the range's end | `ListingCoversQuery` |
| A count filter that ignores `usedCounts` | `CountFiltersListTheirWindows` |
| Writing a single id as a range `a-a` | `ReadServesRequestedIds` |
| `handleRead` making its final call only when the body is not a map | `ReadReportsRequestedIds` |
| The group loop keeping the request's endpoint in the context | `GroupReportsPerEndpoint` |
| No handler call on a transport failure | `ReadEventuallyEnds` |
| A reset that writes the default into every instance, not only the reset endpoint's | `StoreImplementsView` |
| A read's space check that also refuses a buffer exactly as long as the value | `ValuesAreReads` |

## Bounds and why they are enough

- **Numeric.** The operand sets contain every one-byte value, and the
  two-byte values at the signed and unsigned edges. The guard byte and the
  carry only matter at those edges. Mixing lengths 1 and 2 exercises the
  sign extension of the shorter operand.
- **Store.** Three endpoints give the following cases:
  - a cluster on two endpoints, so a singleton is shared and the endpoint
    index is 1 for the second;
  - an endpoint without the cluster.

  The write values of each attribute fall in range, below, above, negative
  (signed), too long (string) and wider than the slot (external).
- **Update.** Requests go to endpoint 2, cluster 6.
  - Payloads have up to two entries drawn from these eight:
    - in range;
    - below the minimum;
    - the singleton;
    - the external attribute;
    - the read-only attribute;
    - an unknown id;
    - a value that does not decode;
    - a truncated value, which can only come last.
  - The external attribute's write callback answers SUCCESS, FAILURE
    (standing for every status the handler reports) or
    UNSUPPORTED_ATTRIBUTE (the one it skips).
  - Each payload is sent as an ordinary POST, an undivided POST ("?u"), a
    POST with the query "?u=1" (refused by the undivided parse), or a PUT
    to 6/0.
  - Two requests run in a row (`MaxRequests`, enforced by the state
    constraint `Bounded`), so a request meets a store that a partly applied
    one left behind.
  - Two entries are the fewest that show ordering, partial application and
    the PUT single-id rule.
  - The client's write carries up to two of six entries: in range, below
    the minimum, the singleton, the external attribute, the read-only
    attribute and an unknown id. Its POST counts toward `MaxRequests`. Peers' requests
    arrive before or during the client's exchange, so the answer can follow
    a peer's write to the same attribute.

- **GET.** Cluster 6 has five local attributes (ids 0–4) and cluster 8
  one remote attribute.
  - Peer queries have up to three tokens of twelve, chosen to overlap:
    ids inside and outside the cluster, ranges, counts of 0, 1 and 2 with
    different starts, and the wildcard; each may be followed by a
    `meta=` segment with one of three keywords or an unknown one.
  - Every raw `f=` value of up to five symbols over
    {0, 1, 2, A, `,`, `-`, `+`, `*`} checks the parser against the
    grammar: empty fields, trailing commas, two operators, empty ranges
    and duplicates such as `1,01` all occur. The violation runs of this
    module leave them out (`MaxLength` 0): their counterexamples come from
    the structured requests.
  - A single-attribute GET addresses each of the five attributes with no
    `meta=` or with `*`, `$base`, `$acc` or an unknown keyword.
  - The application's write before a read changes the plain attribute
    (150) or the string (length 2) at endpoint 1 or 2, or the singleton
    (50) through either endpoint. Group 1 then answers with two endpoints
    that differ in the plain attribute and must agree on the singleton.
  - Client reads are every list of up to four distinct ids of
    {0, 1, 2, 3, 5}, where adjacent ids form ranges, and lists of 18 to
    21 ids two apart, which reach the range array's bound, and four
    lists that repeat an id (`RepeatLists`: 1,1; 1,2,1; 1,1,2;
    1,2,1,2). Two of those make equal ranges, which the server's
    duplicate check refuses with 4.00. The other two are merged by the
    listing.
  - Group reads take the short lists only. The long lists probe the URI
    length, and `UriPathLength` is the length of an endpoint path.
  - A read is answered, answered and timed out, or timed out before an
    answer. The external read callback answers SUCCESS or FAILURE at each
    answering endpoint, so a group answer can mix `v` and `s` entries. This covers both branches of
    `readWriteResponseHandler` and of `handleRead`'s key test.
  - The real sizes of the tokens and filters arrays are defined outside
    `src/`. The capacity run scales them to two, so that five symbols can
    pass them.

## Fairness

`get_listing` checks one liveness property, `ReadEventuallyEnds`, under
weak fairness on `Timeout` alone.

- The spec (§5) has the transport surface every exchange that gets no
  answer as a response-failure event: its timer runs while the exchange is
  open, so a timeout that stays possible eventually happens.
- Nothing forces the server to answer or the network to deliver. The
  property therefore holds because `readWriteResponseHandler` makes its
  final call on a failure as well as on an answer.
- The update run checks `WriteEventuallyEnds` under weak fairness on its
  own `Timeout`, for the same reason.
- The handlers' loops are finite by construction, and the update run checks
  deadlock.

## Not modelled, and the plan

- **CBOR encoding.** It is abstracted to the failure map. An encoder out of
  buffer space (a FAILURE return after partial writes) is not modelled.
- **GET encoding.** An encoder out of buffer space (a FAILURE and 5.00
  after part of the map) is not modelled. `chZclReadEncodeAttributeKeyValue`
  has no caller under `src/` and is not modelled. Metadata answers are
  encoded but no passing property is about their content: they are a
  function of the table row alone.
- **Pointer indirection (`isValueLocIndirect`, lines 388-400).** Whether
  the client's encoder is handed the string buffer or a pointer to it is
  memory layout; the model keeps the value and its string type.
- **Declarations and the `default: assert(false)` arms.** Prototypes,
  macros and the unreachable method arms (the dispatcher only routes GET,
  POST and PUT) change no state.
- **`chipZclEndpointIdToIndex` and `chZclEndpointHasCluster`.** These are
  outside `src/` and are modelled from the spec.
- **Group dispatch on the server.** `chZclMultiEndpointDispatch` is outside
  `src/`. The model has a group answer map each endpoint of the group that
  has the cluster to its own listing, and every group has at least one such
  endpoint: an empty group map would make `readWriteResponseHandler` call
  nothing at all.
- **Group writes.** These are not sent. `handleWrite` does not consume the
  value under each endpoint id, and what the next decode does then is the
  decoder's business (see the hazard at line 1082).
- **An external write answered UNSUPPORTED_ATTRIBUTE.** This is not a
  property violation but a behaviour to know: the commit pass skips the
  status as it skips an unknown id, so a POST of [6/3 = 9, 6/0 = 150] whose
  external callback answers UNSUPPORTED_ATTRIBUTE is answered 2.04 with no
  payload and 6/3 unwritten. `NotReportedMeansApplied` and
  `WriteAcknowledgedIsApplied` state their claims with this exception, and
  hold for every other failure (see the hazard at line 801).
- **The interaction-model write (`TestWriteInteraction.cpp`).** WriteClient
  and WriteHandler are not in the repository. The same contract for this
  file's write path, one final call per write whether answered or timed
  out, is `WriteEventuallyEnds`.
