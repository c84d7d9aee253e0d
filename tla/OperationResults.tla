-------------------------- MODULE OperationResults --------------------------
(***************************************************************************)
(* One kind of operation in the OperationResultStore: the results that     *)
(* wait for their client, and what a client that polls is told meanwhile.  *)
(* Both are queues of [id, value] of the same capacity; a full queue drops *)
(* its oldest entry.  The store's lock makes each operation atomic.        *)
(***************************************************************************)
EXTENDS Naturals, Sequences

CONSTANT Capacity       \* kNetworkResultQueueCapacity and its like

\* A client's newest request and the one before it must both have room
ASSUME CapacityAssumption == Capacity \in Nat /\ Capacity >= 2

EmptyBox == [results |-> <<>>, statuses |-> <<>>]

Ids(queue) == {queue[i].id : i \in DOMAIN queue}

\* upsert_..._poll_status_locked, and the queueing of results
Put(queue, id, value) ==
    LET entry == [id |-> id, value |-> value] IN
    IF id \in Ids(queue)
    THEN [i \in DOMAIN queue |-> IF queue[i].id = id THEN entry ELSE queue[i]]
    ELSE Append(IF Len(queue) >= Capacity THEN Tail(queue) ELSE queue, entry)

\* The place of the first entry of a request
Place(queue, id) ==
    CHOOSE i \in DOMAIN queue :
        queue[i].id = id /\ \A j \in 1..i - 1 : queue[j].id # id

\* remove_..._poll_status_locked: what comes after the entry moves up
Without(queue, id) ==
    IF id \notin Ids(queue) THEN queue
    ELSE [i \in 1..Len(queue) - 1 |->
             IF i < Place(queue, id) THEN queue[i] ELSE queue[i + 1]]

\* note_..._poll_status; "notready" withdraws what was noted
Note(box, id, status) ==
    [box EXCEPT !.statuses = IF status = "notready" THEN Without(@, id)
                                                    ELSE Put(@, id, status)]

\* publish_..._result
PublishResult(box, id, value) ==
    [results |-> Put(box.results, id, value),
     statuses |-> Put(box.statuses, id, "ready")]

\* Variant for the runs' mutants: the poll status outlives its result
TakeKeepsStatus(box, id) == [box EXCEPT !.results = Without(@, id)]

\* take_..._result, of a result that is there
Take(box, id) ==
    [results |-> Without(box.results, id),
     statuses |-> Without(box.statuses, id)]

\* get_..._poll_status
PollStatus(box, id) ==
    IF id \in Ids(box.results) THEN "ready"
    ELSE IF id \in Ids(box.statuses)
         THEN (CHOOSE entry \in {box.statuses[i] : i \in DOMAIN box.statuses} :
                   entry.id = id).value
         ELSE "notready"

=============================================================================
