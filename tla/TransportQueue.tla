--------------------------- MODULE TransportQueue ---------------------------
(***************************************************************************)
(* What Transport promises the Hub, without threads, clock or connection  *)
(* states: a FIFO of accepted payloads that a running worker POSTs from   *)
(* the head, one at a time, unless the server has told it to back off     *)
(* (429).  A payload whose first POST gets a status other than 200 and    *)
(* 429 goes once more to the tail, unless the transport is closing.  The *)
(* worker ends only once closing has been requested and the queue is      *)
(* empty.  Accepting is best effort: nothing stops a payload from joining *)
(* the queue after the worker has gone (see Transport's TaskNotStranded). *)
(***************************************************************************)
EXTENDS Naturals, Sequences

CONSTANTS Payloads, Outcomes

VARIABLES
  queue,     \* the accepted items, oldest first
  posts,     \* per payload: the outcomes of its POSTs
  closing,   \* stop has been requested
  running,   \* the worker is running
  blocked    \* the server answered 429

avars == <<queue, posts, closing, running, blocked>>

Items == [payload : Payloads, retry : BOOLEAN]

Init ==
  /\ queue = <<>>
  /\ posts = [p \in Payloads |-> <<>>]
  /\ closing = FALSE
  /\ running = FALSE
  /\ blocked = FALSE

Start ==
  /\ ~running /\ ~closing
  /\ running' = TRUE
  /\ UNCHANGED <<queue, posts, closing, blocked>>

Known(p) == posts[p] # <<>> \/ \E i \in 1..Len(queue) : queue[i].payload = p

(* A payload is accepted once.                                             *)
Accept(p) ==
  /\ ~Known(p)
  /\ queue' = Append(queue, [payload |-> p, retry |-> FALSE])
  /\ UNCHANGED <<posts, closing, running, blocked>>

(* The head is POSTed and leaves the queue; its one retry joins the tail. *)
Post(o) ==
  /\ running /\ ~blocked /\ queue # <<>>
  /\ LET h == Head(queue)
         again == o = "OTHER_STATUS" /\ ~h.retry /\ ~closing
     IN  /\ posts' = [posts EXCEPT ![h.payload] = Append(@, o)]
         /\ queue' = IF again
                       THEN Append(Tail(queue), [payload |-> h.payload, retry |-> TRUE])
                       ELSE Tail(queue)
  /\ blocked' = (o = "TOO_MANY_REQUESTS")
  /\ UNCHANGED <<closing, running>>

Close ==
  /\ ~closing
  /\ closing' = TRUE
  /\ UNCHANGED <<queue, posts, running, blocked>>

Exit ==
  /\ running /\ closing /\ queue = <<>>
  /\ running' = FALSE
  /\ UNCHANGED <<queue, posts, closing, blocked>>

Next ==
  \/ Start \/ Close \/ Exit
  \/ \E p \in Payloads : Accept(p)
  \/ \E o \in Outcomes : Post(o)

(* A running, unblocked worker keeps POSTing, and ends once it may.        *)
Spec ==
  /\ Init /\ [][Next]_avars
  /\ WF_avars(Start)
  /\ WF_avars(\E o \in Outcomes : Post(o))
  /\ WF_avars(Exit)

=============================================================================
