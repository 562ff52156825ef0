-------------------------- MODULE GenerationQueries -------------------------
(***************************************************************************)
(* generation_equal, generation_less, ... (src/susano/                     *)
(* generation_read_view.hpp): queries over a read view, while appends and  *)
(* merges go on.  The main of a state is queried through its encoding.     *)
(***************************************************************************)
EXTENDS GenerationalColumnProps, DictionaryColumn

\* Seeded fault: the rows of a merge under way are not looked at.
GenerationQuery_NoClosed(s, prefix, op, target) ==
  LET inMain == MainMatches(BuildEncoded(s.main), op, target)
  IN  IF inMain = Thrown THEN Thrown
      ELSE inMain \o RawMatches(prefix, s.base, op, target)

\* generation_equal and generation_range: main, then closed delta, then prefix.
GenerationQuery(s, prefix, op, target) ==
  LET inMain == MainMatches(BuildEncoded(s.main), op, target)
      inClosed == IF s.closed = NoDelta THEN << >>
                  ELSE RawMatches(s.closed.rows, s.closed.base, op, target)
  IN  IF inMain = Thrown THEN Thrown
      ELSE inMain \o inClosed \o RawMatches(prefix, s.base, op, target)

ViewQuery(r, op, target) ==
  GenerationQuery(states[rst[r]], SubSeq(ActiveRows(rst[r]), 1, rlen[r]), op, target)

QueryNow(op, target) ==
  GenerationQuery(states[current], ActiveRows(current), op, target)

-----------------------------------------------------------------------------
(* Properties *)

\* The main a merge built decodes to the rows it was built from, -0.0 as +0.0:
\* what GenerationalColumn takes MainColumn to do.
BuiltMainDecodes ==
  \A m \in Mergers : mpc[m] \in {"built", "publish"} =>
    LET encoded == BuildEncoded(RawRows(m))
    IN  job[m].built = [k \in 1..ColumnSize(encoded) |-> DecodedRow(encoded, k - 1)]

\* Whatever merge a view was acquired in the middle of, a query over it returns
\* the RowIds that a scan of its rows would, each once and in row order.
ViewQueriesMatch ==
  \A r \in Readers : rpc[r] = "view" =>
    \A op \in Ops, target \in Values :
      ViewQuery(r, op, target) = QueryOf(ViewRows(r, rlen[r]), op, target)

\* An answer only ever gains rows at its end: whatever handoffs and publications
\* came after a view was acquired, and they renumber every dictionary id, the
\* current answer starts with the answer over the view.
ViewAnswersGrow ==
  \A r \in Readers : rpc[r] = "view" =>
    \A op \in Ops, target \in Values :
      LET before == ViewQuery(r, op, target)
          now == QueryNow(op, target)
      IN  before # Thrown =>
            /\ Len(before) <= Len(now)
            /\ \A k \in DOMAIN before : now[k] = before[k]
=============================================================================
