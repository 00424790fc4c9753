----------------------------- MODULE EngineScan -----------------------------
(***************************************************************************)
(* EngineIterator, composed with the engine it was made from.  The         *)
(* iterator borrows nothing: it owns copies of the memtables' entries and  *)
(* the paths and indexes of the tables, and opens a file again for every   *)
(* block it comes to.  Writes, flushes, compactions, even close and a new  *)
(* open go on while it is in use.                                          *)
(***************************************************************************)
EXTENDS Engine, SequencesExt

CONSTANT ScanReadsFail     \* whether a read of the iterator may fail

(* A crash ends the iterator, and nothing is left to say of it.            *)
ASSUME ScanAssumption ==
    ScanReadsFail \in BOOLEAN /\ Faults \intersect {"kill", "power"} = {}

VARIABLES
    scan,        \* "none", "on", or "ended" when next has returned None
    bounds,      \* start and end
    sources,     \* PeekSource: newest first, memory before tables
    yielded,     \* history: the pairs next has returned
    snapshot,    \* history: what the engine held when scan was called
    scanFailed   \* history: whether next has returned an error

scanVars == <<scan, bounds, sources, yielded, snapshot, scanFailed>>

(* std::ops::Bound.                                                        *)
Bounds == {[kind |-> "unbounded", key |-> EmptyKey]}
            \union [kind : {"included", "excluded"}, key : Keys]

InRange(k, start, end) ==
    /\ CASE start.kind = "unbounded" -> TRUE
         [] start.kind = "included"  -> k >= start.key
         [] start.kind = "excluded"  -> k > start.key
    /\ CASE end.kind = "unbounded" -> TRUE
         [] end.kind = "included"  -> k <= end.key
         [] end.kind = "excluded"  -> k < end.key

PastEnd(k, end) ==
    \/ end.kind = "included" /\ k > end.key
    \/ end.kind = "excluded" /\ k >= end.key

ScanInit ==
    /\ scan = "none" /\ bounds = <<>> /\ sources = <<>>
    /\ yielded = <<>> /\ snapshot = EmptyTable /\ scanFailed = FALSE

-----------------------------------------------------------------------------
(* A source: the id of a table, 0 for memory; the entries in memory; the   *)
(* entry `next' holds, with EmptyKey for None.                             *)
MemSource(t, b) ==
    [id |-> 0,
     items |-> [k \in {j \in DOMAIN t : InRange(j, b[1], b[2])} |-> t[k]],
     key |-> EmptyKey, entry |-> Tombstone]
TableSource(h) == [id |-> h.id, items |-> EmptyTable, key |-> EmptyKey, entry |-> Tombstone]

Readable(s) == s.id = 0 \/ s.id \in DOMAIN files
ContentOf(s) == IF s.id = 0 THEN s.items ELSE files[s.id]

(* advance and next_in_range: the entries before the start are skipped,    *)
(* the first one behind the end ends the source.                           *)
AdvanceSource(s, b) ==
    LET stops == {k \in DOMAIN ContentOf(s) :
                    k > s.key /\ (InRange(k, b[1], b[2]) \/ PastEnd(k, b[2]))}
    IN  IF stops = {} \/ ~ InRange(Min(stops), b[1], b[2])
        THEN [s EXCEPT !.key = EmptyKey, !.entry = Tombstone]
        ELSE [s EXCEPT !.key = Min(stops), !.entry = ContentOf(s)[Min(stops)]]

(* Engine::scan and EngineIterator::new: the memtables, then the tables of *)
(* the version in search order.                                            *)
NewSources(b) ==
    LET tables == SetToSortSeq(version, Before)
        all == <<MemSource(mem, b), MemSource(imm, b)>>
                 \o [i \in DOMAIN tables |-> TableSource(tables[i])]
    IN  [i \in DOMAIN all |-> AdvanceSource(all[i], b)]

Scan(start, end) ==
    /\ status = "up" /\ wpc = "idle" /\ scan = "none"
    /\ \A h \in version : h.id \in DOMAIN files
    /\ scan' = "on"
    /\ bounds' = <<start, end>>
    /\ sources' = NewSources(<<start, end>>)
    /\ snapshot' = [k \in {j \in Keys : InRange(j, start, end) /\ Get(j) # Tombstone}
                      |-> Get(k)]
    /\ UNCHANGED <<yielded, scanFailed, vars>>

ScanHeads == {i \in DOMAIN sources : sources[i].key # EmptyKey}
BestKey == Min({sources[i].key : i \in ScanHeads})
OnBest == {i \in DOMAIN sources : sources[i].key = BestKey}
WinnerIdx_Last == Max(OnBest)
WinnerIdx == Min(OnBest)

(* One turn of the loop in next.                                           *)
AdvanceBest ==
    [i \in DOMAIN sources |-> IF i \in OnBest THEN AdvanceSource(sources[i], bounds)
                                              ELSE sources[i]]

ScanTurn ==
    /\ scan = "on" /\ ScanHeads # {}
    /\ \A i \in OnBest : Readable(sources[i])
    /\ sources' = AdvanceBest
    /\ yielded' = IF sources[WinnerIdx].entry = Tombstone THEN yielded
                  ELSE Append(yielded, <<BestKey, sources[WinnerIdx].entry>>)
    /\ UNCHANGED <<scan, bounds, snapshot, scanFailed, vars>>

ScanEnds ==
    /\ scan = "on" /\ ScanHeads = {}
    /\ scan' = "ended"
    /\ UNCHANGED <<bounds, sources, yielded, snapshot, scanFailed, vars>>

(* advance fails for source i: the sources before it have moved on, the    *)
(* others have not, and the caller gets the error.  The iterator can still *)
(* be used.                                                                *)
ScanTurnFails ==
    /\ scan = "on" /\ ScanHeads # {}
    /\ \E i \in OnBest :
          /\ sources[i].id # 0
          /\ ScanReadsFail \/ ~ Readable(sources[i])
          /\ \A j \in OnBest : j < i => Readable(sources[j])
          /\ sources' = [j \in DOMAIN sources |->
                           IF j \in OnBest /\ j < i THEN AdvanceSource(sources[j], bounds)
                                                    ELSE sources[j]]
    /\ scanFailed' = TRUE
    /\ UNCHANGED <<scan, bounds, yielded, snapshot, vars>>

(* Every step of the engine leaves the iterator alone.                     *)
EngineStep == Next /\ UNCHANGED scanVars

ScanNext ==
    \/ EngineStep
    \/ \E start, end \in Bounds : Scan(start, end)
    \/ ScanTurn \/ ScanEnds \/ ScanTurnFails

ScanSpec == Init /\ ScanInit /\ [][ScanNext]_<<vars, scanVars>>

-----------------------------------------------------------------------------
(* Whatever happens to the engine meanwhile, next returns the live entries *)
(* of the moment scan was called, those within the bounds, in key order    *)
(* and without a gap; when it returns None there are no more (README: the  *)
(* merged, newest-wins view).  An error voids the claim but for the order: *)
(* no key is returned twice, none after a larger one.                      *)
ScanExact ==
    /\ \A i, j \in DOMAIN yielded : i < j => yielded[i][1] < yielded[j][1]
    /\ ~ scanFailed =>
          /\ \A i \in DOMAIN yielded :
                /\ yielded[i][1] \in DOMAIN snapshot
                /\ yielded[i][2] = snapshot[yielded[i][1]]
                /\ \A k \in DOMAIN snapshot :
                      k < yielded[i][1] => \E j \in DOMAIN yielded : yielded[j][1] = k
          /\ scan = "ended" => Len(yielded) = Cardinality(DOMAIN snapshot)

(* The iterator keeps no table alive, and still never meets a file that is *)
(* gone: only its caller's disk can make it fail (SsTableIterator,         *)
(* compact_once).                                                          *)
ScanFilesExist ==
    scan = "on" => \A i \in DOMAIN sources : Readable(sources[i])
=============================================================================
