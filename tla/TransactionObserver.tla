-------------------------- MODULE TransactionObserver --------------------------
(***************************************************************************)
(* TransactionObserver: a filter between a graph and an observer that      *)
(* holds the events of a transaction back.  A client brackets its changes  *)
(* with TRANSACTION_START and TRANSACTION_STOP; the observer behind the    *)
(* filter may throw, which ends the emitting loop of a STOP in the middle. *)
(***************************************************************************)
EXTENDS Integers, Sequences

CONSTANTS
  MaxEvents,      \* bound: events the graph issues
  MaxDepth,       \* bound: transactions a client nests
  Balanced,       \* clients stop only transactions they have started
  ObserverThrows  \* the observer behind the filter may throw

ASSUME BoundAssumption ==
  /\ MaxEvents \in Nat /\ MaxDepth \in Nat
  /\ Balanced \in BOOLEAN /\ ObserverThrows \in BOOLEAN

VARIABLES
  mEvents,            \* events held back
  mTransactionLevel,
  sent,               \* number of events issued by the graph
  delivered,          \* events mpObserver->notify was called with, in order
  depth,              \* transactions the client has open
  innerDepth,         \* transactions open for the observer behind the filter
  stopFailed          \* an exception has left the emitting loop of a STOP

vars == <<mEvents, mTransactionLevel, sent, delivered, depth, innerDepth, stopFailed>>

Init ==
  /\ mEvents = <<>>
  /\ mTransactionLevel = 0
  /\ sent = 0
  /\ delivered = <<>>
  /\ depth = 0
  /\ innerDepth = 0
  /\ stopFailed = FALSE

inTransaction == mTransactionLevel > 0

\* notify of a vertex or an edge. A throw of the observer reaches the graph
\* after the event was passed on.
AddEvent ==
  /\ sent < MaxEvents
  /\ sent' = sent + 1
  /\ \/ inTransaction /\ mEvents' = Append(mEvents, sent + 1) /\ UNCHANGED delivered
     \/ ~inTransaction /\ delivered' = Append(delivered, sent + 1) /\ UNCHANGED mEvents
  /\ UNCHANGED <<mTransactionLevel, depth, innerDepth, stopFailed>>

\* A transaction event is passed on after it was handled.
Start ==
  /\ depth < MaxDepth
  /\ depth' = depth + 1
  /\ mTransactionLevel' = mTransactionLevel + 1
  /\ innerDepth' = innerDepth + 1
  /\ UNCHANGED <<mEvents, sent, delivered, stopFailed>>

\* Mutant of Emitted: the loop stops before the last event.
EmittedButLast == delivered \o SubSeq(mEvents, 1, Len(mEvents) - 1)

Emitted == delivered \o mEvents

\* A STOP on any level emits everything that is held. Without a matching
\* START it throws, unforwarded, but the level has already been lowered.
Stop ==
  /\ Balanced => depth > 0
  /\ mTransactionLevel >= -MaxDepth
  /\ delivered' = Emitted
  /\ mEvents' = <<>>
  /\ mTransactionLevel' = mTransactionLevel - 1
  /\ innerDepth' = IF mTransactionLevel > 0 THEN innerDepth - 1 ELSE innerDepth
  /\ depth' = IF depth > 0 THEN depth - 1 ELSE 0
  /\ UNCHANGED <<sent, stopFailed>>

\* The observer throws on the n-th event of the loop: nothing is cleared and
\* the level stays. The client gives the transaction up or will try again.
StopThrows ==
  /\ ObserverThrows
  /\ Balanced => depth > 0
  /\ Len(delivered) <= 2 * MaxEvents
  /\ \E n \in 1 .. Len(mEvents) :
       delivered' = delivered \o SubSeq(mEvents, 1, n)
  /\ depth' \in {depth, IF depth > 0 THEN depth - 1 ELSE 0}
  /\ stopFailed' = TRUE
  /\ UNCHANGED <<mEvents, mTransactionLevel, sent, innerDepth>>

Next == AddEvent \/ Start \/ Stop \/ StopThrows

Spec == Init /\ [][Next]_vars

-----------------------------------------------------------------------------
TypeOK ==
  /\ sent \in 0 .. MaxEvents
  /\ mEvents \in Seq(1 .. sent)
  /\ delivered \in Seq(1 .. sent)
  /\ mTransactionLevel \in Int
  /\ depth \in 0 .. MaxDepth
  /\ innerDepth \in Int
  /\ stopFailed \in BOOLEAN

\* However transactions nest, the observer gets every event once and in the
\* order of issue: what it has got, followed by what is held, is the history
\* (until it throws out of an emitting loop, which is why stopFailed records it).
OrderKept == ~stopFailed => delivered \o mEvents = [n \in 1 .. sent |-> n]

\* A client that stops what it starts finds the level at its own depth, the
\* observer behind the filter is told of the same transactions, and nothing
\* is held when none is open.
LevelIsDepth ==
  ~stopFailed =>
    /\ mTransactionLevel = depth /\ innerDepth = depth
    /\ depth = 0 => mEvents = <<>>

\* "Store all events until a transaction has been ended": no event issued
\* while the client has a transaction open is passed on at once.
HeldInTransaction ==
  [][sent' # sent /\ depth > 0 => delivered' = delivered]_vars

\* A failed STOP never leaves the filter passing events through while the
\* client still has a transaction open: the level is at least the depth.
LevelCoversDepth == mTransactionLevel >= depth

\* The documented behaviour, with the held events as the waiting ones.
Contract == INSTANCE TransactionContract WITH waiting <- mEvents

\* The filter implements its documentation as long as transactions are not
\* nested; "held until the outermost transaction has been finished" fails
\* for nested ones.
ImplementsContract == Contract!Spec
=============================================================================
