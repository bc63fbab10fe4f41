---------------------------- MODULE HybridWindow ----------------------------
(***************************************************************************)
(* HybridSkiQF (hybrid_skiqf.hpp) over AdaptiveFilter: whether a false     *)
(* positive adapts the filter is decided by two moving averages over       *)
(* windows of queries for absent keys, the repeated false positives and    *)
(* the false positives that adaptations have corrected.                    *)
(*                                                                         *)
(* An average is kept in steps of 1 / Scale, rounded down, where the code  *)
(* has a double.  The smoothing factor is 7/10, as there.                  *)
(***************************************************************************)
EXTENDS AdaptiveFilter

CONSTANTS WindowSize,            \* windowSize: 1000000 in the code
          RepeatedFpThreshold,   \* repeatedFpThreshold: 6 in the code
          FingerprintSpace,      \* 2^(qbits + rbits)
          PiecesOf,              \* the four 16-bit pieces of a key, as a set
          Scale

ASSUME HybridAssumption ==
    /\ Policy = "HybridSkiQF"
    /\ {WindowSize, FingerprintSpace, Scale} \subseteq Nat \ {0}
    /\ RepeatedFpThreshold \in Nat

VARIABLES window,      \* the window's counts, the averages and the threshold
          detector,    \* repeatDetectorFilter, the bits set
          numAdapts,
          lastQuery,   \* history: the key asked for last
          peak         \* history: the most repeats a full window has had

hvars == <<vars, window, detector, numAdapts, lastQuery, peak>>

HInit ==
    /\ Init
    /\ window = [progress |-> 0, repeats |-> 0, corrected |-> 0,
                 avgRepeats |-> 0, avgCorrected |-> 0, threshold |-> 0]
    /\ detector = {}
    /\ numAdapts = 0
    /\ lastQuery \in {CHOOSE k \in Keys : TRUE}
    /\ peak = 0

Average(avg, count) == (3 * avg + 7 * Scale * count) \div 10

\* The window after one more query, with the counts of a new window if it
\* was the last.
Rolled(w) ==
    [progress |-> 0, repeats |-> 0, corrected |-> 0,
     avgRepeats |-> Average(w.avgRepeats, w.repeats),
     avgCorrected |-> Average(w.avgCorrected, w.corrected),
     threshold |-> (2 * WindowSize * numAdapts) \div FingerprintSpace]

\* Mutant: the counts of a window go on into the next.
Progress_KeepsCounts(w) ==
    LET full == w.progress + 1 = WindowSize IN
    /\ window' = IF full THEN [Rolled(w) EXCEPT !.repeats = w.repeats, !.corrected = w.corrected]
                 ELSE [w EXCEPT !.progress = @ + 1]
    /\ peak' = IF full /\ w.repeats > peak THEN w.repeats ELSE peak

Progress(w) ==
    LET full == w.progress + 1 = WindowSize IN
    /\ window' = IF full THEN Rolled(w) ELSE [w EXCEPT !.progress = @ + 1]
    /\ peak' = IF full /\ w.repeats > peak THEN w.repeats ELSE peak

Full == window.progress + 1 = WindowSize

\* Mutant: every negative counts as a correction.
IsCorrected_Any(k) == TRUE

\* ret_ext_len is the length of the last item of the minirun.
IsCorrected(k) ==
    LET items == miniruns[FpOf[k]] IN items # <<>> /\ items[Len(items)].ext_len > 0

\* queryFilter on a key it answers "absent".
QueryNegative(k) ==
    /\ phase = "query"
    /\ ~Positive(k)
    /\ Progress([window EXCEPT !.corrected = IF IsCorrected(k) THEN @ + 1 ELSE @])
    /\ detector' = IF Full THEN {} ELSE detector
    /\ lastQuery' = k
    /\ UNCHANGED <<vars, numAdapts>>

\* The key is in the database: nothing is counted.
QueryStored(k) ==
    /\ phase = "query"
    /\ k \in db
    /\ lastQuery' = k
    /\ UNCHANGED <<vars, window, detector, numAdapts, peak>>

\* The first half of adapt: the repeat detector and the window.
CountFalsePositive(k) ==
    LET repeated == PiecesOf[k] \subseteq detector IN
    /\ Progress([window EXCEPT !.repeats = IF repeated THEN @ + 1 ELSE @])
    /\ detector' = IF Full THEN {} ELSE detector \union PiecesOf[k]

\* Mutant: both averages have to be above their thresholds.
Worthwhile_Both(w) ==
    w.avgRepeats > Scale * RepeatedFpThreshold /\ w.avgCorrected > Scale * w.threshold

\* Worthwhile, going by the averages.
Worthwhile(w) ==
    w.avgRepeats > Scale * RepeatedFpThreshold \/ w.avgCorrected > Scale * w.threshold

HybridAdapts(k, i) ==
    /\ \/ \E n \in 1 .. MaxExt : Adapt(k, i, n)
       \/ \E n \in 1 .. MaxExt : \E m \in 1 .. n - 1 : AdaptNoSpace(k, i, n, m)
    /\ CountFalsePositive(k)
    /\ Worthwhile(window')
    /\ numAdapts' = numAdapts + 1
    /\ lastQuery' = k

HybridDeclines(k, i) ==
    /\ FalsePositive(k, i)
    /\ CountFalsePositive(k)
    /\ ~Worthwhile(window')
    /\ lastQuery' = k
    /\ UNCHANGED <<vars, numAdapts>>

HybridLoads ==
    /\ EndLoad \/ \E k \in Keys : Insert(k)
    /\ UNCHANGED <<window, detector, numAdapts, lastQuery, peak>>

HybridQueries ==
    \E k \in Keys :
        \/ QueryNegative(k)
        \/ QueryStored(k)
        \/ \E i \in DOMAIN miniruns[FpOf[k]] : HybridAdapts(k, i) \/ HybridDeclines(k, i)

HNext == HybridLoads \/ HybridQueries

HSpec == HInit /\ [][HNext]_hvars /\ WF_hvars(HybridQueries)

-----------------------------------------------------------------------------
(***************************************************************************)
(* A query is counted once: as a repeat, as a correction or as neither, in *)
(* a window that is closed when it is full.                                *)
(***************************************************************************)
CountedOnce ==
    window.repeats + window.corrected <= window.progress /\ window.progress < WindowSize

(***************************************************************************)
(* Hybrid adapts for the first time only after a window with more repeats  *)
(* than the threshold: corrections, of which any would do while no         *)
(* adaptation has been made, cannot start it, since only an adaptation     *)
(* makes a minirun answer "absent".                                        *)
(***************************************************************************)
RepeatsComeFirst == numAdapts > 0 => peak > RepeatedFpThreshold

(***************************************************************************)
(* A false positive that is all that is asked for from some point on is    *)
(* corrected: its repeats fill the windows, and the averages decide for    *)
(* adapting.                                                               *)
(***************************************************************************)
AttackCorrected ==
    \A k \in Keys : <>[](phase = "query" /\ k \notin db /\ lastQuery = k) => <>[]~Positive(k)
=============================================================================
