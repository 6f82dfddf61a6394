------------------------ MODULE MC_ZclAttributeStore ------------------------
(***************************************************************************)
(* The store under the configuration of MC_ZclConfig: the application's   *)
(* writes (chipZclWriteAttribute with every input of MCWriteValues),       *)
(* resets and external-attribute changes in any order.                     *)
(***************************************************************************)
EXTENDS ZclAttributeStore, MC_ZclConfig

\* The inputs tried at each endpoint and attribute.  A write of a remote
\* attribute, or at an endpoint without the cluster, is refused before
\* the value is looked at, so one input stands for all of them.
WriteInputs ==
  [x \in Endpoints \X Attrs |->
     IF Local(x[2]) /\ HasCluster(x[1], x[2]) THEN Inputs[x[2]]
     ELSE {CHOOSE in \in Inputs[x[2]] : TRUE}]

StoreNext ==
  \/ \E e \in Endpoints, a \in Attrs, garbage \in GarbageBytes :
       \E in \in WriteInputs[<<e, a>>] :
         \* The veto and external-callback outcomes only matter to a write
         \* that passes the checks; one vetoing endpoint (any of those that
         \* are asked) aborts as many do.
         LET reached == Check(e, a, in) = "SUCCESS" IN
         \E vetoes \in (IF reached THEN {{}} \cup {{x} : x \in EndpointsOf(a)} ELSE {{}}),
            extStatus \in (IF reached /\ a \in ExternalAttrs THEN ExtWriteStatuses
                                                           ELSE {"SUCCESS"}) :
           LocalWrite(e, AttrTable[a].cluster, AttrTable[a].id, in, vetoes, extStatus, garbage)
  \/ \E e \in Endpoints, extOk \in [ExternalAttrs -> BOOLEAN] : ResetAttributes(e, extOk)
  \* The application stores values of the attribute's width.
  \/ \E a \in ExternalAttrs :
       \E e \in EndpointsOf(a), v \in {x \in WriteValues[a] : x < ByteBase ^ AttrTable[a].size} :
         ExternalAttributeChanged(e, a, v)

StoreSpec == Init /\ [][StoreNext]_vars

\* The addresses the view is about, the singletons and the defaults,
\* computed once.
ViewAddrs      == {x \in Endpoints \X Attrs : HasCluster(x[1], x[2]) /\ Local(x[2])}
ViewSingletons == {a \in Attrs : AttrTable[a].singleton}
ViewDefault    == [a \in Attrs |-> DefaultMinMax(a, "DEFAULT")]

\* The value each endpoint reads of each local attribute of its clusters.
View == INSTANCE ZclAttributeView WITH
          Addrs      <- ViewAddrs,
          Singletons <- ViewSingletons,
          Default    <- ViewDefault,
          view       <- [x \in ViewAddrs |-> ReadValue(x[1], x[2])]

BoundOf(a, bit) == ToInt(Encode(DefaultMinMax(a, bit), AttrTable[a].size), AttrTable[a].type)

\* The generated defaults lie within their attributes' bounds.
ASSUME \A a \in 1..Len(MCAttrTable) :
         MCAttrTable[a].bounded =>
           LET d == ToInt(Encode(DefaultMinMax(a, "DEFAULT"), MCAttrTable[a].size),
                          MCAttrTable[a].type)
           IN  BoundOf(a, "MINIMUM") <= d /\ d <= BoundOf(a, "MAXIMUM")

\* The integer bounds of each attribute, computed once.
Bounds == [a \in Attrs |-> [lo |-> BoundOf(a, "MINIMUM"), hi |-> BoundOf(a, "MAXIMUM")]]

\* Every instance holds what fits its slot: a string length below the
\* slot size, or a bit pattern of the attribute's size.
TypeOK ==
  /\ DOMAIN store = Instances
  /\ \A s \in Instances :
       store[s] \in IF AttrTable[s[1]].type \in StringTypes
                      THEN 0..AttrTable[s[1]].size - 1
                      ELSE 0..ByteBase ^ AttrTable[s[1]].size - 1
  /\ notified \in [Endpoints \X Attrs -> Nat \cup {NotNotified}]

(***************************************************************************)
(* The last post-change callback an endpoint received for a RAM attribute  *)
(* reports the value that endpoint now reads.  A singleton written on one  *)
(* endpoint must notify every endpoint of its cluster (callPostAttribute-  *)
(* Change fan-out), and the value must land in the instance every one of   *)
(* them reads (attributeDataLocation), through writes and resets in any    *)
(* order.                                                                  *)
(***************************************************************************)
RamNotifiedMatchesStored ==
  \A e \in Endpoints, a \in Attrs :
    (/\ Local(a) /\ ~AttrTable[a].external /\ HasCluster(e, a)
     /\ notified[<<e, a>>] # NotNotified)
      => notified[<<e, a>>] = ReadValue(e, a)

(***************************************************************************)
(* The same for every local attribute, external ones included: spec.md     *)
(* describes post-attribute-change as a notification "called after         *)
(* mutation".                                                              *)
(***************************************************************************)
PostChangeReportsStoredValue ==
  \A e \in Endpoints, a \in Attrs :
    (HasCluster(e, a) /\ Local(a) /\ notified[<<e, a>>] # NotNotified)
      => notified[<<e, a>>] = ReadValue(e, a)

(***************************************************************************)
(* Every instance of a bounded numeric RAM attribute holds a value within  *)
(* its minimum and maximum, as an integer of the attribute's type: the     *)
(* byte-wise bound check of chZclWriteAttributeEntry admits nothing else   *)
(* into storage.                                                           *)
(***************************************************************************)
StoredWithinBounds ==
  \A s \in DOMAIN store :
    LET a == s[1] IN
    (AttrTable[a].bounded /\ AttrTable[a].type \in NumericTypes /\ ~AttrTable[a].external)
      => LET v == ToInt(Encode(store[s], AttrTable[a].size), AttrTable[a].type)
         IN  Bounds[a].lo <= v /\ v <= Bounds[a].hi

(***************************************************************************)
(* The store implements the per-endpoint view: every write, reset and      *)
(* external change is a step of ZclAttributeView under the mapping that    *)
(* reads each address through chZclReadAttributeEntry.  A singleton        *)
(* written or reset on one endpoint reads the same on all endpoints of its *)
(* cluster, a non-singleton written on one endpoint leaves the others      *)
(* alone, and chipZclResetAttributes touches only what the reset endpoint *)
(* reads: it is about attributeDataLocation, chipZclEndpointIdToIndex and  *)
(* the reset loop together.                                                *)
(***************************************************************************)
StoreImplementsView == View!ViewSpec

=============================================================================
