---------------------------- MODULE ReadViewAudit ---------------------------
(***************************************************************************)
(* GenerationalColumn with history variables: how many logical rows the    *)
(* column had when a reader loaded current_ and when it loaded the active  *)
(* prefix.  They are written and never read by the column.                 *)
(***************************************************************************)
EXTENDS GenerationalColumnProps

VARIABLES
  atLoad,      \* atLoad[r]: LogicalLen at r's load of current_
  atPrefix     \* atPrefix[r]: LogicalLen at r's load of visible_size_

auditVars == <<vars, atLoad, atPrefix>>

AuditInit ==
  /\ Init
  /\ atLoad = [r \in Readers |-> 0]
  /\ atPrefix = [r \in Readers |-> 0]

\* Moves of reader r from one step of acquire_read_view to another.
Moves(r, from, to) == rpc[r] = from /\ rpc'[r] = to

AuditNext ==
  /\ Next
  /\ atLoad' = [r \in Readers |->
       IF Moves(r, "calling", "loaded") THEN LogicalLen ELSE atLoad[r]]
  /\ atPrefix' = [r \in Readers |->
       IF Moves(r, "loaded", "sized") THEN LogicalLen ELSE atPrefix[r]]

AuditSpec == AuditInit /\ [][AuditNext]_auditVars

\* generational_column.hpp:88: "The acquire load plus active-prefix acquire is
\* the read-view linearization point": the view holds the rows the column had
\* at one of these two loads.  The code takes effect at neither when a merge
\* closes the loaded delta in between.
ViewIsOfOneOfItsLoads ==
  \A r \in Readers : rpc[r] \in {"sized", "view"} =>
    LogicalSize(states[rst[r]], rlen[r]) \in {atLoad[r], atPrefix[r]}
=============================================================================
