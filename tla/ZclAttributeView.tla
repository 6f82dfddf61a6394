--------------------------- MODULE ZclAttributeView ---------------------------
(***************************************************************************)
(* What the attribute store promises its users, stated over addresses      *)
(* <<endpoint, attribute>> rather than storage: the value each endpoint    *)
(* reads.  A singleton attribute has one value shared by every endpoint    *)
(* that implements its cluster; a non-singleton attribute has one value    *)
(* per endpoint, independent of the others (spec.md, section 3 and the     *)
(* round-trip requirement).  A write sets the value at one address and at  *)
(* the addresses sharing it; a reset of an endpoint puts some of the       *)
(* values it reads back to their defaults, and touches nothing else.       *)
(***************************************************************************)
CONSTANTS
  Addrs,       \* the <<endpoint, attribute>> pairs that can be read
  Singletons,  \* the attributes with one shared instance
  Default      \* attribute -> its compiled default

VARIABLE view

\* The addresses that read the same value as each address.
PeerTable == [x \in Addrs |-> IF x[2] \in Singletons THEN {y \in Addrs : y[2] = x[2]} ELSE {x}]
Peers(x) == PeerTable[x]

\* Every address reads the value of all of its peers.
Shared(v) == \A x \in Addrs : \A y \in Peers(x) : v[y] = v[x]

ViewInit == view = [x \in Addrs |-> Default[x[2]]]

\* A write at x: x and its peers take one new value, the rest keep theirs.
Write(x, old, new) == \A y \in Addrs \ Peers(x) : new[y] = old[y]

\* A reset of endpoint e: an address changes only to its default, and only
\* when it or a peer is e's.
Reset(e, old, new) ==
  \A y \in Addrs :
    new[y] # old[y] => new[y] = Default[y[2]] /\ \E z \in Peers(y) : z[1] = e

\* A step from view to view': none (a refused write), or a new view that
\* keeps peers equal and is a write at one address or a reset of one
\* endpoint.
ViewNext ==
  LET old == view
      new == view'
  IN  \/ new = old
      \/ /\ DOMAIN new = Addrs
         /\ Shared(new)
         /\ \E x \in Addrs : Write(x, old, new) \/ Reset(x[1], old, new)

ViewSpec == ViewInit /\ [][ViewNext]_view

=============================================================================
