------------------------------ MODULE Semaphore ------------------------------
(***************************************************************************)
(* What counting semaphores promise, without scheduler, lists or           *)
(* interrupts.  A client calls a semaphore that exists, and the call is    *)
(* answered later, by then perhaps after a deletion: a take has one token, *)
(* fails or waits; a give adds one token to the count, hands one to a      *)
(* client that waits, or is refused at the capacity; and a client that     *)
(* waits is granted one token, gives up, or is told that the semaphore is  *)
(* gone.  An interrupt gives in one step.                                  *)
(***************************************************************************)
EXTENDS Naturals

CONSTANTS Client, Sem, NoSem, MaxCount, InitCount

VARIABLES
    alive,    \* the semaphores that exist
    avail,    \* the tokens of each semaphore that nobody holds
    target,   \* the semaphore each client's call is for
    phase     \* where that call is

svars == <<alive, avail, target, phase>>

SInit ==
    /\ alive = [s \in Sem |-> TRUE]
    /\ avail = [s \in Sem |-> InitCount]
    /\ target = [c \in Client |-> NoSem]
    /\ phase = [c \in Client |-> "out"]

\* A client calls a semaphore.
Call(c, s, op) ==
    /\ alive[s] /\ phase[c] = "out"
    /\ target' = [target EXCEPT ![c] = s]
    /\ phase' = [phase EXCEPT ![c] = op]
    /\ UNCHANGED <<alive, avail>>

\* The call of client c is over.
Done(c) ==
    /\ target' = [target EXCEPT ![c] = NoSem]
    /\ phase' = [phase EXCEPT ![c] = "out"]

\* A take that a token answers at once.
TakeNow(c, s) ==
    /\ target[c] = s /\ phase[c] = "take" /\ avail[s] > 0
    /\ avail' = [avail EXCEPT ![s] = @ - 1]
    /\ Done(c)
    /\ UNCHANGED alive

\* A take that has to wait.
Ask(c, s) ==
    /\ target[c] = s /\ phase[c] = "take" /\ avail[s] = 0
    /\ phase' = [phase EXCEPT ![c] = "asked"]
    /\ UNCHANGED <<alive, avail, target>>

\* A take that does not wait, a give beyond the capacity.
Refuse(c, s) ==
    /\ target[c] = s
    /\ \/ phase[c] = "take" /\ avail[s] = 0
       \/ phase[c] = "give" /\ avail[s] = MaxCount
    /\ Done(c)
    /\ UNCHANGED <<alive, avail>>

\* A token goes to the semaphore.
GiveNow(c, s) ==
    /\ target[c] = s /\ phase[c] = "give" /\ avail[s] < MaxCount
    /\ avail' = [avail EXCEPT ![s] = @ + 1]
    /\ Done(c)
    /\ UNCHANGED alive

\* Client d's token goes straight to client c, which waits.
Hand(d, c, s) ==
    /\ target[d] = s /\ phase[d] = "give"
    /\ target[c] = s /\ phase[c] = "asked"
    /\ target' = [target EXCEPT ![d] = NoSem]
    /\ phase' = [phase EXCEPT ![c] = "granted", ![d] = "out"]
    /\ UNCHANGED <<alive, avail>>

\* An interrupt handler gives.
IsrGiveNow(s) ==
    /\ alive[s] /\ avail[s] < MaxCount
    /\ avail' = [avail EXCEPT ![s] = @ + 1]
    /\ UNCHANGED <<alive, target, phase>>

IsrHand(c, s) ==
    /\ alive[s] /\ target[c] = s /\ phase[c] = "asked"
    /\ phase' = [phase EXCEPT ![c] = "granted"]
    /\ UNCHANGED <<alive, avail, target>>

Expire(c) ==
    /\ phase[c] = "asked"
    /\ phase' = [phase EXCEPT ![c] = "expired"]
    /\ UNCHANGED <<alive, avail, target>>

\* The wait is over.
Return(c) ==
    /\ phase[c] \in {"granted", "expired", "cancelled"}
    /\ Done(c)
    /\ UNCHANGED <<alive, avail>>

\* Client d deletes the semaphore; some of those that wait are told so.
Cancel(d, s) ==
    /\ target[d] = s /\ phase[d] = "delete"
    /\ alive' = [alive EXCEPT ![s] = FALSE]
    /\ \E C \in SUBSET {c \in Client : target[c] = s /\ phase[c] = "asked"} :
        phase' = [c \in Client |-> IF c \in C THEN "cancelled"
                                   ELSE IF c = d THEN "out" ELSE phase[c]]
    /\ target' = [target EXCEPT ![d] = NoSem]
    /\ UNCHANGED avail

Renew(s) ==
    /\ ~alive[s] /\ \A c \in Client : target[c] # s
    /\ alive' = [alive EXCEPT ![s] = TRUE]
    /\ avail' = [avail EXCEPT ![s] = InitCount]
    /\ UNCHANGED <<target, phase>>

SNext ==
    \/ \E s \in Sem : IsrGiveNow(s) \/ Renew(s)
    \/ \E c \in Client : Expire(c) \/ Return(c)
    \/ \E c \in Client, s \in Sem :
        \/ \E op \in {"take", "give", "delete"} : Call(c, s, op)
        \/ TakeNow(c, s) \/ Ask(c, s) \/ Refuse(c, s) \/ GiveNow(c, s)
        \/ IsrHand(c, s)
        \/ Cancel(c, s)
        \/ \E d \in Client : Hand(d, c, s)

SSpec == SInit /\ [][SNext]_svars
=============================================================================
