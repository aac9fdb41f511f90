------------------------------ MODULE SyncService ------------------------------
(***************************************************************************)
(* The front of the account service that stands beside Sub2API: sixteen    *)
(* request slots, the signature with its time window, the nonce that is    *)
(* claimed in Redis before the action, the database transaction of the     *)
(* action through a psql process, the sign-in call to Sub2API, and what    *)
(* each way of failing is answered with.  What an action does to the       *)
(* account is InviteProvisioning's subject; here it is one change.         *)
(*                                                                         *)
(* A signed request can be delivered any number of times, long after it    *)
(* was signed.  Redis keeps the nonces over a restart (an append-only file *)
(* that is synced on every write, and no eviction); the service loses      *)
(* everything it holds.                                                    *)
(***************************************************************************)
EXTENDS Integers, FiniteSets

CONSTANTS
    Requests,       \* the signed requests, each with a nonce of its own
    Logins,         \* those that sign in; the others change an account
    Threads,        \* the threads that can run at once: MAX_REQUEST_THREADS of them
    SIGNATURE_MAX_SKEW_SECONDS,
    Ahead,          \* how far the signer's clock can be ahead of the service's
    Pause,          \* how long the claim can come after the look at the clock
    LastSecond,     \* the clock stops here
    MaxTrouble,     \* how many calls get lost, time out or fail, and restarts
    None

ASSUME WindowAssumption ==
    /\ SIGNATURE_MAX_SKEW_SECONDS \in Nat /\ Ahead \in Nat /\ Pause \in Nat
    /\ Ahead + Pause <= SIGNATURE_MAX_SKEW_SECONDS

ASSUME NoneAssumption == None \notin Int

ASSUME ThreadsAssumption == IsFiniteSet(Threads)

ASSUME LoginsAssumption == Logins \subseteq Requests

VARIABLES
    now,        \* seconds, cut off as int(time.time()) cuts them off
    stamp,      \* request -> the timestamp signed with it, None before
    slots,      \* permits left in the semaphore
    thread,     \* thread -> where its request is, which one, and when it saw the clock
    nonce,      \* Redis: request -> the second in which its nonce was claimed
    entered,    \* request -> how often its action began
    commits,    \* requests whose COMMIT the database has and has not decided
    changed,    \* request -> how often its transaction was committed
    told,       \* request -> the binding answers it was given
    trouble

vars == <<now, stamp, slots, thread, nonce, entered, commits, changed, told, trouble>>

Idle == [at |-> "idle", req |-> None, seen |-> None]
Places == {"read", "claim", "work", "commit", "upstream", "answer"}

\* An answer says that it is done, that another try is pointless (final), that one may help
\* (again), or that this delivery is refused or not authorized.  The first two are given by the
\* action, after its nonce was claimed: they are kept, for they bind the service.  A refusal is
\* also marked as not to be retried, but it speaks of what arrived and not of what was signed:
\* the same request may have acted before, or act when it is delivered whole.
Binding == {"done", "final"}

MutantForgetsNonceEarly == SIGNATURE_MAX_SKEW_SECONDS

\* A nonce claimed by a request whose clock is ahead has to last until the clock has passed it by
\* as much again.
NONCE_TTL_SECONDS == 2 * SIGNATURE_MAX_SKEW_SECONDS + 1

\* TypeOK: the clock and the counters, a place and a request for each busy thread.
TypeOK ==
    /\ now \in Nat /\ trouble \in Nat /\ slots \in Int
    /\ stamp \in [Requests -> Int \union {None}]
    /\ nonce \in [Requests -> Int \union {None}]
    /\ thread \in [Threads -> {Idle} \union
                   [at : Places, req : Requests, seen : Int \union {None}]]
    /\ entered \in [Requests -> Nat] /\ changed \in [Requests -> Nat]
    /\ commits \subseteq Requests
    /\ told \in [Requests -> SUBSET Binding]

Init ==
    /\ now = 0 /\ trouble = 0
    /\ slots = Cardinality(Threads)
    /\ stamp = [r \in Requests |-> None]
    /\ thread = [h \in Threads |-> Idle]
    /\ nonce = [r \in Requests |-> None]
    /\ entered = [r \in Requests |-> 0] /\ changed = [r \in Requests |-> 0]
    /\ commits = {}
    /\ told = [r \in Requests |-> {}]

\* ---------------------------------------------------------------- the world

\* The caller signs a request with its own clock.
Signs(r) ==
    /\ stamp[r] = None
    /\ \E ahead \in 0 .. Ahead : stamp' = [stamp EXCEPT ![r] = now + ahead]
    /\ UNCHANGED <<now, slots, thread, nonce, entered, commits, changed, told, trouble>>

\* A second passes.  No claim comes more than Pause after its look at the clock.
Tick ==
    /\ now < LastSecond
    /\ \A h \in Threads : thread[h].at = "claim" => now < thread[h].seen + Pause
    /\ now' = now + 1
    /\ UNCHANGED <<stamp, slots, thread, nonce, entered, commits, changed, told, trouble>>

Trouble == trouble < MaxTrouble /\ trouble' = trouble + 1

\* The database decides a COMMIT it was sent, also when nobody waits for the answer.
Decides(r) ==
    /\ r \in commits
    /\ commits' = commits \ {r}
    /\ \/ changed' = [changed EXCEPT ![r] = @ + 1] /\ UNCHANGED trouble
       \/ Trouble /\ UNCHANGED changed
    /\ UNCHANGED <<now, stamp, slots, thread, nonce, entered, told>>

\* The service is restarted: threads and permits are those of a new process, and an open
\* transaction ends with the psql process that held it.
Restarts ==
    /\ Trouble
    /\ slots' = Cardinality(Threads)
    /\ thread' = [h \in Threads |-> Idle]
    /\ UNCHANGED <<now, stamp, nonce, entered, commits, changed, told>>

\* ---------------------------------------------------------------- a request

\* The listener takes a permit and starts a thread, or answers that it has none.
Connects(r) ==
    /\ stamp[r] # None
    /\ IF slots = 0
       THEN UNCHANGED <<slots, thread>>
       ELSE \E h \in Threads :
              /\ thread[h] = Idle
              /\ slots' = slots - 1
              /\ thread' = [thread EXCEPT ![h] = [at |-> "read", req |-> r, seen |-> None]]
    /\ UNCHANGED <<now, stamp, told, nonce, entered, commits, changed, trouble>>

MutantKeepsPermit(h) == UNCHANGED slots /\ thread' = [thread EXCEPT ![h] = Idle]

\* The thread ends, with or without an answer, and gives its permit back.
Ends(h) ==
    /\ slots' = slots + 1
    /\ thread' = [thread EXCEPT ![h] = Idle]

Says(h, answer) == told' = [told EXCEPT ![thread[h].req] = @ \union ({answer} \intersect Binding)]

Answered(h, answer) == Ends(h) /\ Says(h, answer)

At(h, place) == thread[h].at = place

Moves(h, place) ==
    thread' = [thread EXCEPT ![h] = [at |-> place, req |-> thread[h].req, seen |-> None]]

\* verify_request: the timestamp is not further from the clock than it may be.
InWindow(r) ==
    /\ now - stamp[r] <= SIGNATURE_MAX_SKEW_SECONDS
    /\ stamp[r] - now <= SIGNATURE_MAX_SKEW_SECONDS

\* The path, type, length and body are read.  A caller that sends nothing for four seconds is told
\* to try again.  One whose request arrives in part, or on another path, with another type or
\* length than it was sent with, is refused before its signature is looked at.
Reads(h) ==
    /\ At(h, "read")
    /\ \/ /\ InWindow(thread[h].req)
          /\ thread' = [thread EXCEPT ![h] =
                          [at |-> "claim", req |-> thread[h].req, seen |-> now]]
          /\ UNCHANGED <<slots, told, trouble>>
       \/ ~InWindow(thread[h].req) /\ Answered(h, "unauthorized") /\ UNCHANGED trouble
       \/ Trouble /\ \E answer \in {"again", "refused"} : Answered(h, answer)
    /\ UNCHANGED <<now, stamp, nonce, entered, commits, changed>>

\* The key expires in the course of the second that is NONCE_TTL_SECONDS after the claim.
Present(r) == nonce[r] # None /\ now <= nonce[r] + NONCE_TTL_SECONDS
Absent(r)  == nonce[r] # None => now >= nonce[r] + NONCE_TTL_SECONDS

\* SET with NX: the only request that is let on to its action is one whose key was not there.
\* A command that fails or is not answered ends the request, whether it set the key or not.
Claims(h) ==
    LET r == thread[h].req IN
    /\ At(h, "claim")
    /\ \/ /\ Absent(r)
          /\ nonce' = [nonce EXCEPT ![r] = now]
          /\ \/ /\ entered' = [entered EXCEPT ![r] = @ + 1]
                /\ Moves(h, "work")
                /\ UNCHANGED <<slots, told, trouble>>
             \/ Trouble /\ Answered(h, "again") /\ UNCHANGED entered
       \/ /\ Present(r)
          /\ Answered(h, "unauthorized")
          /\ UNCHANGED <<nonce, entered, trouble>>
       \/ Trouble /\ Answered(h, "again") /\ UNCHANGED <<nonce, entered>>
    /\ UNCHANGED <<now, stamp, commits, changed>>

\* The statements of the action.  The last one is followed by COMMIT; an error or a deadline
\* rolls back, and what is answered follows from the error: a conflict or an argument that is
\* refused, a database that is not there, anything unexpected.
Works(h) ==
    /\ At(h, "work")
    /\ \/ Moves(h, "commit") /\ commits' = commits \union {thread[h].req}
          /\ UNCHANGED <<slots, told, trouble>>
       \/ Answered(h, "final") /\ UNCHANGED <<commits, trouble>>
       \/ Trouble /\ UNCHANGED commits
          /\ \E answer \in {"again", "final"} : Answered(h, answer)
    /\ UNCHANGED <<now, stamp, nonce, entered, changed>>

MutantTimeoutIsFinal(h) ==
    LET r == thread[h].req IN
    /\ At(h, "commit")
    /\ \/ /\ r \notin commits /\ changed[r] > 0
          /\ Moves(h, IF r \in Logins THEN "upstream" ELSE "answer")
          /\ UNCHANGED <<slots, told, trouble>>
       \/ r \notin commits /\ changed[r] = 0 /\ Answered(h, "again") /\ UNCHANGED trouble
       \/ Trouble /\ Answered(h, "final")
    /\ UNCHANGED <<now, stamp, nonce, entered, commits, changed>>

MutantMissesEndOfFile(h) ==
    LET r == thread[h].req IN
    /\ At(h, "commit")
    /\ r \notin commits /\ changed[r] > 0
    /\ Moves(h, IF r \in Logins THEN "upstream" ELSE "answer")
    /\ UNCHANGED <<slots, told, trouble, now, stamp, nonce, entered, commits, changed>>

\* COMMIT was answered: a sign-in goes on to Sub2API, any other action is done.
\* Without an answer before the deadline psql is ended, and the database may still commit.
Commits(h) ==
    LET r == thread[h].req IN
    /\ At(h, "commit")
    /\ \/ /\ r \notin commits /\ changed[r] > 0
          /\ Moves(h, IF r \in Logins THEN "upstream" ELSE "answer")
          /\ UNCHANGED <<slots, told, trouble>>
       \/ r \notin commits /\ changed[r] = 0 /\ Answered(h, "again") /\ UNCHANGED trouble
       \/ Trouble /\ Answered(h, "again")
    /\ UNCHANGED <<now, stamp, nonce, entered, commits, changed>>

\* Sub2API signs the account in and its answer is for the account of the invite; or it refuses,
\* limits, is not there, or answers with something else.
SignsIn(h) ==
    /\ At(h, "upstream")
    /\ \/ Moves(h, "answer") /\ UNCHANGED <<slots, told, trouble>>
       \/ \E answer \in {"again", "final"} : Answered(h, answer) /\ UNCHANGED trouble
    /\ UNCHANGED <<now, stamp, nonce, entered, commits, changed>>

\* The answer is written, or the caller has gone.
Responds(h) ==
    /\ At(h, "answer")
    /\ \/ Answered(h, "done") /\ UNCHANGED trouble
       \/ Trouble /\ Ends(h) /\ UNCHANGED told
    /\ UNCHANGED <<now, stamp, nonce, entered, commits, changed>>

Serves(h) == Reads(h) \/ Claims(h) \/ Works(h) \/ Commits(h) \/ SignsIn(h) \/ Responds(h)

Next ==
    \/ Tick
    \/ Restarts
    \/ \E r \in Requests : Signs(r) \/ Connects(r) \/ Decides(r)
    \/ \E h \in Threads : Serves(h)

\* Every wait of a thread has a time limit (the socket's four seconds, the action's deadline),
\* and the database decides what it was sent.
Spec ==
    /\ Init /\ [][Next]_vars
    /\ \A h \in Threads : WF_vars(Serves(h))
    /\ \A r \in Requests : WF_vars(Decides(r))

\* ---------------------------------------------------------------- properties

\* However often and however late a signed request is delivered, its action begins once: the
\* nonce outlives every second in which the signature is still accepted (claim_nonce,
\* verify_request).
ActsOnce == \A r \in Requests : entered[r] <= 1 /\ changed[r] <= 1

\* What the action answers of a change is what happened to it, then and ever after: done means
\* it is committed, and an answer of the action that says not to try again means it never will
\* be, however often the request is delivered (DatabaseTransaction.__exit__, Handler.do_POST).
\* Of the refusals that come before the action it says nothing: see Binding.
AnswerIsTrue ==
    \A r \in Requests :
        /\ "done" \in told[r] => changed[r] > 0
        /\ r \notin Logins /\ "final" \in told[r]
             => changed[r] = 0 /\ r \notin commits

\* A permit is missing from the semaphore exactly while a thread holds it, whichever way the
\* thread ends (process_request, process_request_thread).
SlotsAreHeld ==
    slots + Cardinality({h \in Threads : thread[h] # Idle}) = Cardinality(Threads)

\* Every thread ends and gives its permit back, whatever the caller, Redis, the database and
\* Sub2API do.
PermitsReturn == \A h \in Threads : thread[h] # Idle ~> thread[h] = Idle
=============================================================================
