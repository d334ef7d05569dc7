-------------------------------- MODULE Fifo --------------------------------
(***************************************************************************)
(* What message queues and stream buffers promise, without scheduler,      *)
(* wait lists or interrupt levels: a bounded sequence that grows at one    *)
(* end and shrinks at the other.  A request is made while the buffer       *)
(* exists, has its effect in one step and ends with it, or fails; the      *)
(* answer says what the effect was.                                        *)
(***************************************************************************)
EXTENDS Naturals, SequencesExt

CONSTANTS Client, NoClient, Request, NoRequest

VARIABLES
    room,       \* how many elements fit
    contents,   \* the elements, the oldest first
    alive,      \* the buffer has not been deleted
    request,    \* the request each client has made
    waiting,    \* the clients whose requests could not be served at once
    answer      \* what the last request that ended was answered, and whose

fvars == <<room, contents, alive, request, waiting, answer>>

FInit ==
    /\ room \in Nat
    /\ contents = <<>>
    /\ alive = TRUE
    /\ request = [c \in Client |-> NoRequest]
    /\ waiting = {}
    /\ answer = [to |-> NoClient, bytes |-> <<>>]

\* A client makes a request, of a buffer that exists.
Begin(c) ==
    /\ alive
    /\ request[c] = NoRequest
    /\ request'[c] \in Request
    /\ request' = [request EXCEPT ![c] = request'[c]]
    /\ UNCHANGED <<room, contents, alive, waiting, answer>>

\* It has to wait: to send into a full buffer, to receive from or look into one
\* that is not full.
Wait(c) ==
    /\ request[c] # NoRequest
    /\ \/ request[c].op = "send" /\ Len(contents) = room
       \/ request[c].op \in {"receive", "peek"} /\ Len(contents) < room
    /\ waiting' = waiting \cup {c}
    /\ UNCHANGED <<room, contents, alive, request, answer>>

\* The first elements of s, as many as fit; the oldest ones here, up to n.
Fitting(s) == SubSeq(s, 1, Min({Len(s), room - Len(contents)}))
Oldest(n) == SubSeq(contents, 1, Min({n, Len(contents)}))

\* Request r is served and c gets the answer.
Serve(c, r) ==
    \/ /\ r.op = "send"
       /\ contents' = contents \o Fitting(r.bytes)
       /\ answer' = [to |-> c, bytes |-> Fitting(r.bytes)]
    \/ /\ r.op = "receive"
       /\ contents' = SubSeq(contents, Min({r.max, Len(contents)}) + 1, Len(contents))
       /\ answer' = [to |-> c, bytes |-> Oldest(r.max)]
    \/ /\ r.op = "peek"
       /\ contents' = contents
       /\ answer' = [to |-> c, bytes |-> Oldest(r.max)]

End(c) ==
    /\ request[c] # NoRequest
    /\ request' = [request EXCEPT ![c] = NoRequest]
    /\ waiting' = waiting \ {c}
    /\ UNCHANGED room

\* The request of c is served, also when the buffer was deleted since.
Answer(c) == Serve(c, request[c]) /\ End(c) /\ UNCHANGED alive

\* A request that had to wait fails and has no effect.
GiveUp(c) ==
    /\ c \in waiting
    /\ answer' = [to |-> c, bytes |-> <<>>]
    /\ End(c)
    /\ UNCHANGED <<contents, alive>>

\* A reset, a deletion, or another trigger level.
Manage(c) ==
    /\ request[c].op \in {"reset", "delete", "set_trigger_level"}
    /\ contents' = IF request[c].op = "reset" THEN <<>> ELSE contents
    /\ alive' = (alive /\ request[c].op # "delete")
    /\ answer' = [to |-> c, bytes |-> <<>>]
    /\ End(c)

\* An interrupt sends or receives at least one element.
Interrupt ==
    /\ alive
    /\ contents' # contents
    /\ UNCHANGED <<room, alive, request, waiting>>
    /\ \E r \in Request : r.op \in {"send", "receive"} /\ Serve(NoClient, r)

\* The buffer is created again, when nobody has a request.
Renew ==
    /\ ~alive
    /\ request = [c \in Client |-> NoRequest]
    /\ alive' = TRUE
    /\ contents' = <<>>
    /\ UNCHANGED <<room, request, waiting, answer>>

FNext ==
    \/ Interrupt \/ Renew
    \/ \E c \in Client : Begin(c) \/ Wait(c) \/ Answer(c) \/ GiveUp(c) \/ Manage(c)

FSpec == FInit /\ [][FNext]_fvars
=============================================================================
