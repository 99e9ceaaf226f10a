------------------------------ MODULE PullPage ------------------------------
(***************************************************************************)
(* How GET /v1/sync cuts what is past a cursor into pages (routes/sync.rs  *)
(* page_len and pull), in rows and in bytes, on a vault nobody writes to.  *)
(* VaultServer's PageEnds is the row-counting half of it.                  *)
(***************************************************************************)
EXTENDS Integers, Sequences, FiniteSetsExt

CONSTANTS MaxPullPage,     \* MAX_PULL_PAGE
          MaxBytes,        \* MAX_PAGE_BYTES
          MaxPerBatch,     \* MAX_CHANGES_PER_BATCH
          Sizes,           \* the answer bytes a row may take
          MaxRows          \* bound: how many rows the vault has

ASSUME PullPageAssumption == /\ MaxPullPage \in Nat \ {0}
                             /\ MaxBytes \in Nat \ {0}
                             /\ MaxPerBatch \in Nat \ {0}
                             /\ Sizes \subseteq Nat
                             /\ MaxRows \in Nat

VARIABLES table,        \* the vault's rows, [revision, bytes], in revision order
          since,        \* the client's cursor
          sent          \* every row sent so far

pullVars == <<table, since, sent>>

\* Mutant of Upto: the cursor's own revision is taken as not yet sent.
UptoBefore(cursor) == Max({0} \cup {k \in DOMAIN table : table[k].revision < cursor})

\* How many rows the cursor covers (they come first: ORDER BY revision), the
\* rows past it, and as much of them as the size query returns.
Upto(cursor) == Max({0} \cup {k \in DOMAIN table : table[k].revision <= cursor})
After(cursor) == SubSeq(table, Upto(cursor) + 1, Len(table))
Window == MaxPullPage + MaxPerBatch + 1
Sized(cursor) == SubSeq(After(cursor), 1, Min({Window, Len(After(cursor))}))

Bytes(rows) ==
    LET upTo[k \in 0..Len(rows)] == IF k = 0 THEN 0 ELSE upTo[k - 1] + rows[k].bytes
    IN  upTo[Len(rows)]

\* Where the last revision of a full window starts; it may be cut short.
Complete(rows, windowFull) ==
    IF rows # <<>> /\ windowFull
    THEN Min({k \in DOMAIN rows : rows[k].revision = rows[Len(rows)].revision}) - 1
    ELSE Len(rows)

\* The loop of page_len: take the revision at end + 1 whole, or stop.
Grow(rows, complete) ==
    LET growFrom[end \in 0..Len(rows)] ==
          IF end >= complete THEN end
          ELSE LET next == Max({k \in DOMAIN rows : rows[k].revision = rows[end + 1].revision})
               IN  IF end > 0 /\ (next > MaxPullPage \/ Bytes(SubSeq(rows, 1, next)) > MaxBytes)
                   THEN end ELSE growFrom[next]
    IN  growFrom[0]

PageLen(rows, windowFull) == Grow(rows, Complete(rows, windowFull))

\* One pull: the page, whether the client is told to ask again, and the cursor
\* it asks with.
End == PageLen(Sized(since), Len(Sized(since)) = Window)
HasMore == End < Len(Sized(since))

Pull == /\ End > 0
        /\ \E through \in {Sized(since)[End].revision} :
              /\ since' = through
              /\ sent' = sent \o SubSeq(table, Upto(since) + 1, Upto(through))
        /\ UNCHANGED table

\* Nothing left: the cursor stays at the last revision.
PullIdle == /\ After(since) = <<>>
        /\ UNCHANGED pullVars

\* A vault: each revision touched between one and MaxPerBatch rows.  A new
\* batch starts at each k of `starts`.
Vault(n, starts, bytes) ==
    [k \in 1..n |-> [revision |-> Cardinality({j \in starts : j <= k}), bytes |-> bytes[k]]]

PullPageInit ==
    /\ \E n \in 0..MaxRows : \E starts \in SUBSET (1..n), bytes \in [1..n -> Sizes] :
          /\ n > 0 => 1 \in starts
          /\ \A k \in 1..(n - MaxPerBatch) : \E j \in starts : j > k /\ j <= k + MaxPerBatch
          /\ table = Vault(n, starts, bytes)
    /\ since = 0
    /\ sent = <<>>

PullPageNext == Pull \/ PullIdle

PullPageSpec == PullPageInit /\ [][PullPageNext]_pullVars

-----------------------------------------------------------------------------
(* Properties                                                              *)

\* What the client has is what the server has up to the cursor: no row is
\* skipped, cut off in the middle of its batch, or sent twice.
\* (sync.rs: "a page may only end where a revision ends".)
NothingSkipped ==
    /\ sent = SubSeq(table, 1, Len(sent))
    /\ \A k \in DOMAIN table : table[k].revision <= since <=> k <= Len(sent)

\* The reference: over every row past the cursor, not the window, the page is
\* the longest run of whole revisions within both limits, or else the first
\* revision alone.
Boundaries(rows) ==
    {k \in DOMAIN rows : k = Len(rows) \/ rows[k].revision # rows[k + 1].revision}

ReferenceLen(rows) ==
    LET first == Min(Boundaries(rows))
        fitting == {k \in Boundaries(rows) : /\ k <= MaxPullPage
                                             /\ Bytes(SubSeq(rows, 1, k)) <= MaxBytes}
    IN  Max(fitting \cup {first})

\* page_len never finds an empty page while rows are left (the Internal error
\* of pull), its page is the reference's although it sees only a window, and a
\* client that is told there is no more has it all.
\* (sync.rs: "reading one page's worth plus one batch's worth is always
\* enough to find the boundary and still make progress".)
WindowIsEnough ==
    After(since) # <<>> =>
        /\ End = ReferenceLen(After(since))
        /\ HasMore <=> End < Len(After(since))

\* Pages are as long as they may be and leave nothing out.
PagesAreWhole == NothingSkipped /\ WindowIsEnough
=============================================================================
