-------------------------- MODULE DiagnosticQuery --------------------------
(* The diagnostic routes of the query API (observability-query.ts,          *)
(* server.ts:70-93): metrics and spans newest first, a page at an offset,   *)
(* over tables that the Collector inserts into and the retention window     *)
(* moves over while a client walks through the pages.                       *)
(*                                                                          *)
(* A row is what SELECT DISTINCT tells apart: its time and the rest of the  *)
(* sort key; rows that agree in both may come in either order.              *)
EXTENDS Integers, Sequences, FiniteSets, FiniteSetsExt

CONSTANTS
    DiagnosticRows, \* rows that may be inserted: [time, key, id]
    Limits,         \* limits a client asks for
    Window,         \* how far back a query without "from" looks
    MaxOffset,      \* the largest offset that is accepted
    LastTime

ASSUME DiagnosticsAssumption ==
    /\ IsFiniteSet(DiagnosticRows)
    /\ \A r \in DiagnosticRows : r.time \in Nat /\ r.key \in Int
    /\ Limits \subseteq Nat /\ Window \in Nat

VARIABLES
    inserted,
    present,
    lowerBound, \* the lower bound the client gives on every page: a set, empty for none
    limit,
    offset,     \* the offset of the next page
    shown,      \* the rows the client has got
    atStart,    \* the rows that matched when the walk began
    walk        \* "idle", "walking", "end" or "refused"

diagnosticsVars == <<inserted, present, lowerBound, limit, offset, shown, atStart, walk>>

DiagnosticsInit ==
    /\ inserted \in SUBSET {r \in DiagnosticRows : r.time = 0}
    /\ present = 0
    /\ lowerBound = {} /\ limit \in Limits /\ offset = 0
    /\ shown = {} /\ atStart = {}
    /\ walk = "idle"

----------------------------------------------------------------------------
(* The Collector exports what it has received, which may be late.           *)
InsertRow(r) ==
    /\ r \in DiagnosticRows \ inserted /\ r.time <= present
    /\ inserted' = inserted \cup {r}
    /\ UNCHANGED <<present, lowerBound, limit, offset, shown, atStart, walk>>

PresentMoves ==
    /\ present < LastTime
    /\ present' = present + 1
    /\ UNCHANGED <<inserted, lowerBound, limit, offset, shown, atStart, walk>>

----------------------------------------------------------------------------
\* diagnosticQuery: the predicates of a request.
Since(bound) == IF bound # {} THEN Max(bound) ELSE Max({0, present - Window})
MatchingFrom(bound) == {r \in inserted : r.time >= Since(bound)}
Matching == MatchingFrom(lowerBound)

SortsBefore(a, b) == a.time > b.time \/ (a.time = b.time /\ a.key < b.key)

\* A result of the query for one row more than the limit: the rows after the
\* first offset ones of some order that agrees with ORDER BY.
QueryResults ==
    LET ordered(skipped, rest) == \A a \in skipped, b \in rest : ~SortsBefore(b, a)
    IN {page \in SUBSET Matching :
        /\ Cardinality(page) =
               Min({limit + 1, Max({Cardinality(Matching) - offset, 0})})
        /\ \E skipped \in kSubset(Min({offset, Cardinality(Matching)}), Matching \ page) :
            /\ ordered(skipped, page)
            /\ ordered(skipped \cup page, Matching \ (skipped \cup page))}

\* What is left of a result when it has more than limit rows: all but a last one.
Slices(result) ==
    IF Cardinality(result) <= limit THEN {result}
    ELSE {slice \in kSubset(limit, result) : \A a \in slice, b \in result \ slice : ~SortsBefore(b, a)}

\* Mutant: nextOffset counts the extra row.
NextOffsetPastExtra == offset + limit + 1
NextOffset == offset + limit

BeginWalk(bound) ==
    /\ walk = "idle"
    /\ lowerBound' = bound /\ walk' = "walking"
    /\ atStart' = MatchingFrom(bound)
    /\ UNCHANGED <<inserted, present, limit, offset, shown>>

ReadPage ==
    /\ walk = "walking" /\ offset <= MaxOffset
    /\ \E result \in QueryResults : \E slice \in Slices(result) :
        /\ shown' = shown \cup slice
        /\ IF Cardinality(result) > limit
           THEN offset' = NextOffset /\ UNCHANGED walk
           ELSE walk' = "end" /\ UNCHANGED offset
    /\ UNCHANGED <<inserted, present, lowerBound, limit, atStart>>

\* INVALID_offset: integer refuses the nextOffset it has answered.
OffsetRefused ==
    /\ walk = "walking" /\ offset > MaxOffset
    /\ walk' = "refused"
    /\ UNCHANGED <<inserted, present, lowerBound, limit, offset, shown, atStart>>

DiagnosticsNext ==
    \/ PresentMoves \/ ReadPage \/ OffsetRefused
    \/ \E r \in DiagnosticRows : InsertRow(r)
    \/ \E bound \in {{}, {1}} : BeginWalk(bound)

DiagnosticsSpec == DiagnosticsInit /\ [][DiagnosticsNext]_diagnosticsVars
----------------------------------------------------------------------------
\* No other row has the time and the key of r.
Sole(r) == \A q \in inserted : q.time = r.time /\ q.key = r.key => q = r

(* A walk that came to its end has shown every row that was there from its  *)
(* beginning and is still in the window, whatever was inserted meanwhile,   *)
(* unless another row has the same sort key.                                *)
NothingSkipped ==
    walk = "end" => {r \in atStart \cap Matching : Sole(r)} \subseteq shown
============================================================================
