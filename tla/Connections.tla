---------------------------- MODULE Connections ----------------------------
(***************************************************************************)
(* The bridge's connections: the accept loop and its limit, a reader and a *)
(* writer thread per connection with a bounded outbox between them, the    *)
(* background threads that hold a request which waits for the owner, the   *)
(* events sent to every connection, and the token buckets all of them      *)
(* share.  A peer may leave at any time; a writer notices when it writes,  *)
(* a reader when it reads.                                                 *)
(***************************************************************************)
EXTENDS Naturals, FiniteSets

CONSTANTS Peers,            \* connections the native hosts may open
          MaxConnections, MaxBackground, Outbox,
          BucketSize        \* capacity of a bucket, in requests

ASSUME ConnectionsAssumption ==
    {MaxConnections, MaxBackground, Outbox, BucketSize} \subseteq Nat \ {0}

VARIABLES conn,             \* [Peers -> the connection's threads]
          registered,       \* Inner::connections
          tokens            \* what is left of the secret bucket

connVars == <<conn, registered, tokens>>

\* bg: background threads running; held: those whose answer waits for room.
Closed == [peer |-> FALSE, reader |-> "none", writer |-> FALSE, box |-> 0, bg |-> 0, held |-> 0]

ConnInit ==
    /\ conn = [c \in Peers |-> Closed]
    /\ registered = {}
    /\ tokens = BucketSize

SetConn(c, k) == conn' = [conn EXCEPT ![c] = k]

\* The channel has a receiver as long as the writer thread runs.
CanSend(c) == conn[c].writer /\ conn[c].box < Outbox

-----------------------------------------------------------------------------
\* A peer of the same user connects while there is room; past the limit, or
\* when a thread cannot be started, the stream is dropped.
Accept(c) ==
    /\ conn[c] = Closed /\ c \notin registered
    /\ Cardinality(registered) < MaxConnections
    /\ registered' = registered \cup {c}
    /\ SetConn(c, [Closed EXCEPT !.peer = TRUE, !.reader = "reading", !.writer = TRUE])
    /\ UNCHANGED tokens

PeerLeaves(c) ==
    /\ conn[c].peer
    /\ SetConn(c, [conn[c] EXCEPT !.peer = FALSE])
    /\ UNCHANGED <<registered, tokens>>

Forget(c) == registered \ {c}

\* A frame is answered in turn: a token is taken where the class asks for
\* one, and without one the answer is RateLimited, an answer all the same.
ReadRequest(c, limited) ==
    /\ conn[c].reader = "reading" /\ conn[c].peer
    /\ tokens' = IF limited /\ tokens > 0 THEN tokens - 1 ELSE tokens
    /\ SetConn(c, [conn[c] EXCEPT !.reader = "sending"])
    /\ UNCHANGED registered

\* A request that may wait for the owner gets a background slot, or Busy.
ReadWaiting(c) ==
    /\ conn[c].reader = "reading" /\ conn[c].peer
    /\ SetConn(c, IF conn[c].bg < MaxBackground THEN [conn[c] EXCEPT !.bg = @ + 1]
                  ELSE [conn[c] EXCEPT !.reader = "sending"])
    /\ UNCHANGED <<registered, tokens>>

\* A frame over the limit is answered once, and the connection is closed.
ReadTooLarge(c) ==
    /\ conn[c].reader = "reading" /\ conn[c].peer
    /\ SetConn(c, [conn[c] EXCEPT !.reader = "last"])
    /\ UNCHANGED <<registered, tokens>>

\* tx.send: blocks while the outbox is full, fails when the writer is gone.
ReaderSends(c) ==
    /\ conn[c].reader \in {"sending", "last"}
    /\ conn[c].writer => CanSend(c)
    /\ IF conn[c].writer /\ conn[c].reader = "sending"
         THEN /\ SetConn(c, [conn[c] EXCEPT !.reader = "reading", !.box = @ + 1])
              /\ UNCHANGED registered
         ELSE /\ SetConn(c, [conn[c] EXCEPT !.reader = "none",
                                            !.box = IF conn[c].writer THEN @ + 1 ELSE @])
              /\ registered' = Forget(c)
    /\ UNCHANGED tokens

\* The peer closed, or nothing came for IDLE_TIMEOUT.
ReaderEnds(c) ==
    /\ conn[c].reader = "reading"
    /\ SetConn(c, [conn[c] EXCEPT !.reader = "none"])
    /\ registered' = Forget(c)
    /\ UNCHANGED tokens

BackgroundAnswers(c) ==
    /\ conn[c].bg > conn[c].held
    /\ SetConn(c, [conn[c] EXCEPT !.held = @ + 1])
    /\ UNCHANGED <<registered, tokens>>

\* The slot is dropped with the thread, whether or not the answer was sent.
BackgroundSends(c) ==
    /\ conn[c].held > 0
    /\ conn[c].writer => CanSend(c)
    /\ SetConn(c, [conn[c] EXCEPT !.bg = @ - 1, !.held = @ - 1,
                                  !.box = IF conn[c].writer THEN @ + 1 ELSE @])
    /\ UNCHANGED <<registered, tokens>>

\* A frame goes out, or the write fails and the writer ends with what is left.
Write(c) ==
    /\ conn[c].writer /\ conn[c].box > 0
    /\ SetConn(c, IF conn[c].peer THEN [conn[c] EXCEPT !.box = @ - 1]
                  ELSE [conn[c] EXCEPT !.writer = FALSE, !.box = 0])
    /\ UNCHANGED <<registered, tokens>>

\* Every sender is gone: the channel closes and with it the stream.
WriterEnds(c) ==
    /\ conn[c].writer /\ conn[c].box = 0 /\ conn[c].reader = "none" /\ conn[c].bg = 0
    /\ c \notin registered
    /\ SetConn(c, [conn[c] EXCEPT !.writer = FALSE, !.peer = FALSE])
    /\ UNCHANGED <<registered, tokens>>

\* The last thread of a connection whose writer failed is gone.
Reaped(c) ==
    /\ conn[c] # Closed /\ ~conn[c].writer /\ conn[c].reader = "none" /\ conn[c].bg = 0
    /\ SetConn(c, Closed)
    /\ UNCHANGED <<registered, tokens>>

\* An event is dropped where the outbox is full, and a connection whose
\* writer is gone is dropped from the list.
Notify ==
    /\ registered # {}
    /\ conn' = [c \in Peers |-> IF c \in registered /\ CanSend(c)
                                  THEN [conn[c] EXCEPT !.box = @ + 1] ELSE conn[c]]
    /\ registered' = {c \in registered : conn[c].writer}
    /\ UNCHANGED tokens

\* Time passes: the bucket fills up to its capacity.
Refill ==
    /\ tokens < BucketSize /\ tokens' = tokens + 1
    /\ UNCHANGED <<conn, registered>>

ConnThreads(c) ==
    \/ ReaderSends(c) \/ (~conn[c].peer /\ ReaderEnds(c))
    \/ BackgroundAnswers(c) \/ BackgroundSends(c)
    \/ Write(c) \/ WriterEnds(c) \/ Reaped(c)

ConnNext ==
    \/ \E c \in Peers :
         \/ Accept(c) \/ PeerLeaves(c) \/ ReaderEnds(c) \/ ConnThreads(c)
         \/ \E limited \in BOOLEAN : ReadRequest(c, limited)
         \/ ReadWaiting(c) \/ ReadTooLarge(c)
    \/ Notify \/ Refill

\* Threads run: a reader that can read or send does, a background request
\* ends (the owner's dialog times out), a writer writes.
ConnFairness == \A c \in Peers : WF_connVars(ConnThreads(c))

ConnSpec == ConnInit /\ [][ConnNext]_connVars /\ ConnFairness

-----------------------------------------------------------------------------
ConnTypeOK ==
    /\ registered \subseteq Peers /\ tokens \in 0 .. BucketSize
    /\ \A c \in Peers : /\ conn[c].reader \in {"none", "reading", "sending", "last"}
                        /\ conn[c].box \in 0 .. Outbox /\ conn[c].held \in 0 .. conn[c].bg

\* A connection whose peer left is forgotten, also when its reader waits for
\* room in an outbox nobody empties any more: the slot is free for another.
GoneIsForgotten == \A c \in Peers : ~conn[c].peer ~> (c \notin registered)
=============================================================================
