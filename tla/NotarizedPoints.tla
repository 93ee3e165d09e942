-------------------------- MODULE NotarizedPoints --------------------------
(***************************************************************************)
(* The list NPOINTS of notarisations a node has seen, and its lookup       *)
(* komodo_notarizeddata (src/komodo_notary.h).  A point records that the   *)
(* block at nHeight carried a notarisation of block `block`.  The lookup   *)
(* starts at the cached position last_NPOINTSi when it can and falls back  *)
(* to a scan from the start; it is pure here: it returns the index of the  *)
(* point found (0 for none) together with the new cache position.          *)
(* Points are numbered from 1, the cache position from 0 as in the code.   *)
(***************************************************************************)
EXTENDS Naturals, Sequences, FiniteSets

(* The first point from position i on that is not below height h, or one   *)
(* past the end: where the loops of komodo_notarizeddata stop.             *)
StopAt(points, i, h) ==
    i + Cardinality({j \in i..Len(points) : \A k \in i..j : points[k].nHeight < h})

(* Mutant: the cached point need not be below the height. *)
UsesCacheUnchecked(points, last, h) == 0 < last /\ last < Len(points)

(* Whether the scan may start from the cached position. *)
UsesCache(points, last, h) ==
    /\ 0 < last /\ last < Len(points)
    /\ points[last].nHeight < h

ScanFromStart(points, last, h) ==
    LET stop == StopAt(points, 1, h)
    IN [found |-> stop - 1, last |-> IF stop > 1 THEN stop - 2 ELSE last]

ScanFromCache(points, last, h) ==
    LET stop == StopAt(points, last + 1, h)
    IN [found |-> stop - 1, last |-> IF stop > last + 1 THEN stop - 2 ELSE last]

(* A cached scan that runs off the end only moves the cache, and the scan  *)
(* from the start decides.                                                 *)
NotarizedData(points, last, h) ==
    LET cached == ScanFromCache(points, last, h)
    IN IF UsesCache(points, last, h)
         THEN IF cached.found < Len(points) THEN cached
              ELSE ScanFromStart(points, cached.last, h)
         ELSE ScanFromStart(points, last, h)
=============================================================================
