--------------------------- MODULE SyncServiceProofs ---------------------------
(***************************************************************************)
(* A signed request acts once, and what its action answered stays true,    *)
(* for any number of requests and threads and any length of the window:    *)
(* proved from the assumption that the signer's clock is not so far ahead, *)
(* and the claim not so late, that the two together exceed the window.     *)
(***************************************************************************)
EXTENDS SyncService, FiniteSetTheorems, TLAPS

Skew == SIGNATURE_MAX_SKEW_SECONDS

\* A timestamp is at most Ahead of the clock, and a nonce was not claimed earlier than that.
StampInv ==
    \A r \in Requests :
        /\ stamp[r] # None => stamp[r] - Ahead <= now
        /\ nonce[r] # None => stamp[r] # None /\ stamp[r] - Ahead <= nonce[r]

\* Whoever is about to claim saw the clock inside the window, and not long ago.
ClaimInv ==
    \A h \in Threads :
        /\ thread[h].at # "idle" => stamp[thread[h].req] # None
        /\ thread[h].at = "claim" =>
            /\ thread[h].seen # None
            /\ now <= thread[h].seen + Pause
            /\ thread[h].seen - stamp[thread[h].req] <= Skew

\* The thread is in the middle of the action of a request.
Working(h, r) == thread[h].at = "work" /\ thread[h].req = r

\* The action of a request is in one place: not begun, at work, sent to the database, decided.
Token(r) ==
    /\ entered[r] <= 1 /\ changed[r] <= 1
    /\ entered[r] = 1 => nonce[r] # None
    /\ entered[r] = 0 =>
        /\ changed[r] = 0 /\ r \notin commits /\ told[r] = {}
        /\ \A h \in Threads :
             thread[h].at # "idle" /\ thread[h].req = r => thread[h].at \in {"read", "claim"}
    /\ r \in commits => changed[r] = 0
    /\ \A h \in Threads : Working(h, r) => changed[r] = 0 /\ r \notin commits
    /\ \A g, h \in Threads : Working(g, r) /\ Working(h, r) => g = h
    /\ "done" \in told[r] => changed[r] > 0
    /\ r \notin Logins /\ "final" \in told[r] =>
        /\ changed[r] = 0 /\ r \notin commits
        /\ \A h \in Threads : ~Working(h, r)

TokenInv == \A r \in Requests : Token(r)

\* Who answers, or goes on to Sub2API, does so after a commit; only a sign-in goes on.
AnswerInv ==
    \A h \in Threads :
        /\ thread[h].at \in {"upstream", "answer"} => changed[thread[h].req] > 0
        /\ thread[h].at = "upstream" => thread[h].req \in Logins

IInv == TypeOK /\ StampInv /\ ClaimInv /\ TokenInv /\ AnswerInv

\* In the first state nothing has been signed, claimed, begun or told.
LEMMA InitInv == Init => IInv
<1> SUFFICES ASSUME Init PROVE IInv
    OBVIOUS
<1>1. Cardinality(Threads) \in Nat
    BY ThreadsAssumption, FS_CardinalityType
<1>2. TypeOK
    BY <1>1 DEF Init, TypeOK, Idle, Places, Binding
<1>3. StampInv /\ ClaimInv
    BY DEF Init, StampInv, ClaimInv, Idle
<1>4. TokenInv
    BY DEF Init, TokenInv, Token, Working, Idle
<1>5. AnswerInv
    BY DEF Init, AnswerInv, Idle
<1> QED BY <1>2, <1>3, <1>4, <1>5 DEF IInv

\* What the steps of a thread have in common: the thread is busy with a request.
LEMMA BusyThread ==
    ASSUME TypeOK, NEW h \in Threads, thread[h].at # "idle"
    PROVE  thread[h] \in [at : Places, req : Requests, seen : Int \union {None}]
BY DEF TypeOK, Idle

\* Every step keeps the types.
LEMMA TypeStep == TypeOK /\ [Next]_vars => TypeOK'
<1> SUFFICES ASSUME TypeOK, [Next]_vars PROVE TypeOK'
    OBVIOUS
<1> USE DEF TypeOK
<1>1. CASE Tick
    BY <1>1 DEF Tick
<1>2. CASE Restarts
  <2>1. Cardinality(Threads) \in Int
      BY ThreadsAssumption, FS_CardinalityType
  <2>2. [h \in Threads |-> Idle] \in [Threads -> {Idle} \union
                   [at : Places, req : Requests, seen : Int \union {None}]]
      OBVIOUS
  <2> QED BY <1>2, <2>1, <2>2 DEF Restarts, Trouble
<1>3. ASSUME NEW r \in Requests, Signs(r) PROVE TypeOK'
    BY <1>3 DEF Signs
<1>4. ASSUME NEW r \in Requests, Connects(r) PROVE TypeOK'
    BY <1>4 DEF Connects, Places
<1>5. ASSUME NEW r \in Requests, Decides(r) PROVE TypeOK'
    BY <1>5 DEF Decides, Trouble
<1>6. ASSUME NEW h \in Threads, Serves(h) PROVE TypeOK'
  <2>1. thread[h] \in [at : Places, req : Requests, seen : Int \union {None}]
      BY <1>6, BusyThread
      DEF Serves, Reads, Claims, Works, Commits, SignsIn, Responds, At
  <2> DEFINE r == thread[h].req
  <2>2. r \in Requests
      BY <2>1
  <2>3. ASSUME NEW answer, Answered(h, answer)
        PROVE  /\ slots' \in Int /\ told' \in [Requests -> SUBSET Binding]
               /\ thread' \in [Threads -> {Idle} \union
                     [at : Places, req : Requests, seen : Int \union {None}]]
      BY <2>2, <2>3 DEF Answered, Ends, Says
  <2>4. ASSUME NEW place \in Places, Moves(h, place)
        PROVE  thread' \in [Threads -> {Idle} \union
                     [at : Places, req : Requests, seen : Int \union {None}]]
      BY <2>2, <2>4 DEF Moves
  <2>5. CASE Reads(h)
      BY <2>2, <2>3, <2>5 DEF Reads, Trouble, Places
  <2>6. CASE Claims(h)
      BY <2>2, <2>3, <2>4, <2>6 DEF Claims, Trouble, Places
  <2>7. CASE Works(h)
      BY <2>2, <2>3, <2>4, <2>7 DEF Works, Trouble, Places
  <2>8. CASE Commits(h)
      BY <2>2, <2>3, <2>4, <2>8 DEF Commits, Trouble, Places
  <2>9. CASE SignsIn(h)
      BY <2>2, <2>3, <2>4, <2>9 DEF SignsIn, Trouble, Places
  <2>10. CASE Responds(h)
      BY <2>2, <2>3, <2>10 DEF Responds, Ends, Trouble
  <2> QED BY <1>6, <2>5, <2>6, <2>7, <2>8, <2>9, <2>10 DEF Serves
<1>7. CASE UNCHANGED vars
    BY <1>7 DEF vars
<1> QED BY <1>1, <1>2, <1>3, <1>4, <1>5, <1>6, <1>7 DEF Next

\* A step of one thread leaves the other threads, the clock, the stamps and, but for the step
\* that claims, the nonces alone.
LEMMA ServesFrame ==
    ASSUME TypeOK, NEW h \in Threads, Serves(h)
    PROVE  /\ thread[h].at # "idle"
           /\ UNCHANGED <<now, stamp>>
           /\ \A g \in Threads : g # h => thread'[g] = thread[g]
           /\ \/ thread'[h] = Idle
              \/ thread'[h].req = thread[h].req /\ thread'[h].at # "idle"
           /\ thread'[h].at = "claim" => Reads(h)
           /\ ~Claims(h) => UNCHANGED <<nonce, entered>>
<1> USE DEF TypeOK, At, Idle
<1>1. ASSUME NEW answer, Answered(h, answer)
      PROVE  /\ \A g \in Threads : g # h => thread'[g] = thread[g]
             /\ thread'[h] = Idle
    BY <1>1 DEF Answered, Ends
<1>2. ASSUME NEW place \in Places, Moves(h, place)
      PROVE  /\ \A g \in Threads : g # h => thread'[g] = thread[g]
             /\ thread'[h].req = thread[h].req /\ thread'[h].at = place /\ place # "idle"
    BY <1>2 DEF Moves, Places
<1>3. CASE Reads(h)
    BY <1>1, <1>3 DEF Reads
<1>4. CASE Claims(h)
    BY <1>1, <1>2, <1>4 DEF Claims, Places
<1>5. CASE Works(h)
    BY <1>1, <1>2, <1>5 DEF Works, Places
<1>6. CASE Commits(h)
    BY <1>1, <1>2, <1>6 DEF Commits, Places
<1>7. CASE SignsIn(h)
    BY <1>1, <1>2, <1>7 DEF SignsIn, Places
<1>8. CASE Responds(h)
    BY <1>1, <1>8 DEF Responds, Ends
<1> QED BY <1>3, <1>4, <1>5, <1>6, <1>7, <1>8 DEF Serves

\* The nonce that is in Redis cannot have expired while a request is inside its window: a claim
\* that succeeds is the first.
LEMMA FirstClaim ==
    ASSUME TypeOK, StampInv, ClaimInv, NEW h \in Threads, At(h, "claim"), Absent(thread[h].req)
    PROVE  nonce[thread[h].req] = None
<1> DEFINE r == thread[h].req
<1>1. /\ r \in Requests /\ thread[h].seen \in Int \union {None}
    BY BusyThread DEF At
<1>2. /\ stamp[r] \in Int /\ thread[h].seen \in Int
      /\ now <= thread[h].seen + Pause /\ thread[h].seen - stamp[r] <= Skew
    BY <1>1 DEF ClaimInv, At, TypeOK
<1>3. SUFFICES ASSUME nonce[r] # None PROVE FALSE
    OBVIOUS
<1>4. nonce[r] \in Int /\ stamp[r] - Ahead <= nonce[r]
    BY <1>1, <1>3 DEF StampInv, TypeOK
<1>5. now >= nonce[r] + (2 * Skew + 1)
    BY <1>3 DEF Absent, NONCE_TTL_SECONDS, Skew
<1>6. now \in Nat /\ Skew \in Nat /\ Ahead \in Nat /\ Pause \in Nat /\ Ahead + Pause <= Skew
    BY WindowAssumption DEF Skew, TypeOK
<1> HIDE DEF r
<1> QED BY <1>2, <1>4, <1>5, <1>6

\* The steps that look at the clock or at Redis keep what is known of stamps, nonces and claims.
LEMMA WindowStep == IInv /\ [Next]_vars => StampInv' /\ ClaimInv'
<1> SUFFICES ASSUME IInv, [Next]_vars PROVE StampInv' /\ ClaimInv'
    OBVIOUS
<1> USE NoneAssumption, WindowAssumption DEF IInv
<1>1. CASE Tick
  <2>1. StampInv'
      BY <1>1 DEF Tick, TypeOK, StampInv
  <2>2. ClaimInv'
      BY <1>1 DEF Tick, TypeOK, ClaimInv, Idle
  <2> QED BY <2>1, <2>2
<1>2. CASE Restarts
    BY <1>2 DEF Restarts, Idle, StampInv, ClaimInv
<1>3. ASSUME NEW r \in Requests, Signs(r) PROVE StampInv' /\ ClaimInv'
  <2>1. StampInv'
      BY <1>3 DEF Signs, TypeOK, StampInv
  <2>2. ASSUME NEW h \in Threads, thread[h].at # "idle" PROVE thread[h].req # r
      BY <1>3, <2>2 DEF Signs, ClaimInv
  <2>3. ClaimInv'
      BY <1>3, <2>2, BusyThread DEF Signs, TypeOK, ClaimInv
  <2> QED BY <2>1, <2>3
<1>4. ASSUME NEW r \in Requests, Connects(r) PROVE StampInv' /\ ClaimInv'
    BY <1>4 DEF Connects, TypeOK, StampInv, ClaimInv
<1>5. ASSUME NEW r \in Requests, Decides(r) PROVE StampInv' /\ ClaimInv'
    BY <1>5 DEF Decides, StampInv, ClaimInv
<1>6. ASSUME NEW h \in Threads, Serves(h) PROVE StampInv' /\ ClaimInv'
  <2> DEFINE r == thread[h].req
  <2>1. /\ thread[h].at # "idle" /\ r \in Requests /\ stamp[r] \in Int
      BY <1>6, ServesFrame, BusyThread DEF ClaimInv, TypeOK
  <2>2. StampInv'
    <3>1. CASE Claims(h)
        BY <2>1, <3>1 DEF Claims, TypeOK, StampInv
    <3>2. CASE ~Claims(h)
        BY <1>6, <3>2, ServesFrame DEF StampInv
    <3> QED BY <3>1, <3>2
  <2>3. ASSUME NEW g \in Threads, g # h
        PROVE  /\ thread'[g].at # "idle" => stamp'[thread'[g].req] # None
               /\ thread'[g].at = "claim" =>
                    /\ thread'[g].seen # None /\ now' <= thread'[g].seen + Pause
                    /\ thread'[g].seen - stamp'[thread'[g].req] <= Skew
      BY <1>6, <2>3, ServesFrame DEF ClaimInv
  <2>4. thread'[h].at # "idle" => stamp'[thread'[h].req] # None
      BY <1>6, <2>1, ServesFrame DEF Idle
  <2>5. thread'[h].at = "claim" =>
            /\ thread'[h].seen # None /\ now' <= thread'[h].seen + Pause
            /\ thread'[h].seen - stamp'[thread'[h].req] <= Skew
    <3> SUFFICES ASSUME thread'[h].at = "claim"
        PROVE  /\ thread'[h].seen # None /\ now' <= thread'[h].seen + Pause
               /\ thread'[h].seen - stamp'[thread'[h].req] <= Skew
        OBVIOUS
    <3>1. Reads(h)
        BY <1>6, ServesFrame
    <3>2. CASE InWindow(r) /\ thread' = [thread EXCEPT ![h] =
                          [at |-> "claim", req |-> thread[h].req, seen |-> now]]
        BY <2>1, <3>1, <3>2 DEF Reads, InWindow, Skew, TypeOK
    <3>3. CASE thread' = [thread EXCEPT ![h] = Idle]
        BY <3>3 DEF TypeOK, Idle
    <3> QED BY <3>1, <3>2, <3>3 DEF Reads, Answered, Ends
  <2> QED BY <2>2, <2>3, <2>4, <2>5 DEF ClaimInv
<1>7. CASE UNCHANGED vars
    BY <1>7 DEF vars, StampInv, ClaimInv
<1> QED BY <1>1, <1>2, <1>3, <1>4, <1>5, <1>6, <1>7 DEF Next

\* What the requests of other threads keep in a step of h.
LEMMA OthersToken ==
    ASSUME IInv, NEW h \in Threads, Serves(h), NEW r \in Requests, r # thread[h].req
    PROVE  Token(r)'
<1>1. /\ \A g \in Threads : g # h => thread'[g] = thread[g]
      /\ thread'[h] = Idle \/ thread'[h].req = thread[h].req
    BY ServesFrame DEF IInv
<1>2. \A g \in Threads : thread'[g].at # "idle" /\ thread'[g].req = r => thread'[g] = thread[g]
    BY <1>1 DEF Idle
<1>3. thread[h].req \in Requests
    BY ServesFrame, BusyThread DEF IInv
<1>4. ASSUME NEW answer, Says(h, answer) PROVE told'[r] = told[r]
    BY <1>4 DEF Says, IInv, TypeOK
<1>5. /\ nonce'[r] = nonce[r] /\ entered'[r] = entered[r] /\ changed'[r] = changed[r]
      /\ told'[r] = told[r] /\ (r \in commits' <=> r \in commits)
  <2> USE DEF IInv, TypeOK
  <2>1. CASE Reads(h)
      BY <1>4, <2>1 DEF Reads, Answered
  <2>2. CASE Claims(h)
      BY <1>4, <2>2 DEF Claims, Answered
  <2>3. CASE Works(h)
      BY <1>4, <2>3 DEF Works, Answered
  <2>4. CASE Commits(h)
      BY <1>4, <2>4 DEF Commits, Answered
  <2>5. CASE SignsIn(h)
      BY <1>4, <2>5 DEF SignsIn, Answered
  <2>6. CASE Responds(h)
      BY <1>4, <2>6 DEF Responds, Answered
  <2> QED BY <2>1, <2>2, <2>3, <2>4, <2>5, <2>6 DEF Serves
<1>6. Token(r)
    BY DEF IInv, TokenInv
<1> QED BY <1>2, <1>5, <1>6 DEF Token, Working

\* The action of the request that a thread serves stays in one place.
LEMMA OwnToken ==
    ASSUME IInv, NEW h \in Threads, Serves(h), NEW r \in Requests, r = thread[h].req
    PROVE  Token(r)'
<1>1. /\ thread[h].at # "idle" /\ r \in Requests
      /\ \A g \in Threads : g # h => thread'[g] = thread[g]
      /\ thread'[h] = Idle \/ thread'[h].req = r
    BY ServesFrame, BusyThread DEF IInv
<1>2. Token(r)
    BY <1>1 DEF IInv, TokenInv
<1>3. ASSUME NEW answer, Answered(h, answer)
      PROVE  told'[r] = told[r] \union ({answer} \intersect Binding) /\ thread'[h] = Idle
    BY <1>1, <1>3 DEF Answered, Ends, Says, IInv, TypeOK
<1>4. ASSUME NEW place, Moves(h, place)
      PROVE  thread'[h].at = place
    BY <1>1, <1>4 DEF Moves, IInv, TypeOK
<1>5. /\ entered[r] \in Nat /\ changed[r] \in Nat
    BY <1>1 DEF IInv, TypeOK
<1> USE DEF Binding, Idle
<1>6. CASE Reads(h)
  <2>1. thread'[h].at \in {"idle", "claim"}
      BY <1>1, <1>3, <1>6 DEF Reads, IInv, TypeOK
  <2>2. UNCHANGED <<nonce, entered, changed, commits>> /\ told'[r] = told[r]
      BY <1>3, <1>6 DEF Reads
  <2> QED BY <1>1, <1>2, <2>1, <2>2 DEF Token, Working
<1>7. CASE Claims(h)
  <2>1. CASE UNCHANGED entered
    <3>1. thread'[h].at = "idle" /\ told'[r] = told[r] /\ UNCHANGED <<changed, commits>>
        BY <1>3, <1>5, <1>7, <2>1, <1>1 DEF Claims, IInv, TypeOK
    <3>2. nonce[r] # None => nonce'[r] # None
        BY <1>1, <1>7, NoneAssumption DEF Claims, IInv, TypeOK
    <3> QED BY <1>1, <1>2, <2>1, <3>1, <3>2 DEF Token, Working
  <2>2. CASE ~UNCHANGED entered
    <3>1. /\ At(h, "claim") /\ Absent(r) /\ nonce' = [nonce EXCEPT ![r] = now]
          /\ entered' = [entered EXCEPT ![r] = @ + 1] /\ Moves(h, "work")
          /\ UNCHANGED <<told, changed, commits>>
        BY <1>7, <2>2 DEF Claims
    <3>2. nonce[r] = None
        BY <3>1, FirstClaim DEF IInv
    <3>3. entered[r] = 0
        BY <1>2, <1>5, <3>2 DEF Token
    <3>4. entered'[r] = 1 /\ nonce'[r] # None
        BY <1>1, <3>1, <3>3, NoneAssumption DEF IInv, TypeOK
    <3>5. \A g \in Threads : g # h => ~Working(g, r)'
        BY <1>1, <1>2, <3>3 DEF Token, Working
    <3> QED BY <1>1, <1>2, <3>1, <3>3, <3>4, <3>5 DEF Token, Working
  <2> QED BY <2>1, <2>2
<1>8. CASE Works(h)
  <2>1. Working(h, r) /\ UNCHANGED <<nonce, entered, changed>>
      BY <1>8 DEF Works, Working, At
  <2>2. /\ changed[r] = 0 /\ r \notin commits /\ entered[r] # 0 /\ nonce[r] # None
        /\ \A g \in Threads : g # h => ~Working(g, r)
      BY <1>1, <1>2, <1>5, <2>1 DEF Token, Working
  <2>3. ~Working(h, r)'
    <3>1. CASE Moves(h, "commit")
        BY <1>4, <3>1 DEF Working
    <3>2. ASSUME NEW answer, Answered(h, answer) PROVE ~Working(h, r)'
        BY <1>3, <3>2 DEF Working
    <3> QED BY <1>8, <3>1, <3>2 DEF Works
  <2>4. \A g \in Threads : ~Working(g, r)'
      BY <1>1, <2>2, <2>3 DEF Working
  <2>5. CASE Moves(h, "commit") /\ commits' = commits \union {r} /\ UNCHANGED told
    <3>1. r \notin Logins => "final" \notin told[r]
        BY <1>1, <1>2, <2>1 DEF Token
    <3> QED BY <1>2, <2>1, <2>2, <2>4, <2>5, <3>1 DEF Token
  <2>6. CASE UNCHANGED commits /\ \E answer \in {"again", "final"} : Answered(h, answer)
    <3>1. "done" \in told'[r] => "done" \in told[r]
        BY <1>3, <2>6
    <3> QED BY <1>2, <2>1, <2>2, <2>4, <2>6, <3>1 DEF Token
  <2> QED BY <1>8, <2>5, <2>6 DEF Works
<1>9. CASE Commits(h) \/ SignsIn(h) \/ Responds(h)
  <2>1. /\ thread[h].at \in {"commit", "upstream", "answer"}
        /\ UNCHANGED <<nonce, entered, changed, commits>>
      BY <1>9 DEF Commits, SignsIn, Responds, At
  <2>2. entered[r] # 0
      BY <1>1, <1>2, <2>1 DEF Token
  <2>3. ~Working(h, r)'
    <3>1. ASSUME NEW place, place # "work", Moves(h, place) PROVE ~Working(h, r)'
        BY <1>4, <3>1 DEF Working
    <3>2. CASE Ends(h)
        BY <3>2 DEF Ends, Working, IInv, TypeOK
    <3> QED BY <1>9, <3>1, <3>2 DEF Commits, SignsIn, Responds, Answered
  <2>4. \A g \in Threads : Working(g, r)' => Working(g, r)
      BY <1>1, <2>3 DEF Working
  <2>5. r \notin Logins /\ "final" \in told'[r] => "final" \in told[r]
      BY <1>3, <1>9 DEF Commits, SignsIn, Responds, At, IInv, AnswerInv
  <2>6. "done" \in told'[r] => "done" \in told[r] \/ changed[r] > 0
      BY <1>3, <1>9 DEF Commits, SignsIn, Responds, At, IInv, AnswerInv
  <2> QED BY <1>2, <2>1, <2>2, <2>4, <2>5, <2>6 DEF Token
<1> QED BY <1>6, <1>7, <1>8, <1>9 DEF Serves

\* Every step keeps the action of every request in one place.
LEMMA TokenStep == IInv /\ [Next]_vars => TokenInv'
<1> SUFFICES ASSUME IInv, [Next]_vars, NEW r \in Requests PROVE Token(r)'
    BY DEF TokenInv
<1> USE DEF Token, Working
<1>1. Token(r)
    BY DEF IInv, TokenInv
<1>2. CASE Tick
    BY <1>1, <1>2 DEF Tick
<1>3. CASE Restarts
    BY <1>1, <1>3 DEF Restarts, Idle
<1>4. ASSUME NEW q \in Requests, Signs(q) PROVE Token(r)'
    BY <1>1, <1>4 DEF Signs
<1>5. ASSUME NEW q \in Requests, Connects(q) PROVE Token(r)'
    BY <1>1, <1>5 DEF Connects, IInv, TypeOK, Idle
<1>6. ASSUME NEW q \in Requests, Decides(q) PROVE Token(r)'
  <2>1. CASE q = r
      BY <1>1, <1>6, <2>1 DEF Decides, IInv, TypeOK
  <2>2. CASE q # r
      BY <1>1, <1>6, <2>2 DEF Decides, IInv, TypeOK
  <2> QED BY <2>1, <2>2
<1>7. ASSUME NEW h \in Threads, Serves(h) PROVE Token(r)'
    BY <1>7, OthersToken, OwnToken
<1>8. CASE UNCHANGED vars
    BY <1>1, <1>8 DEF vars
<1> QED BY <1>2, <1>3, <1>4, <1>5, <1>6, <1>7, <1>8 DEF Next

\* Nothing takes a commit back, and a thread that goes on has seen one.
LEMMA AnswerStep == IInv /\ [Next]_vars => AnswerInv'
<1> SUFFICES ASSUME IInv, [Next]_vars PROVE AnswerInv'
    OBVIOUS
<1> USE DEF IInv, AnswerInv
<1>1. CASE Tick
    BY <1>1 DEF Tick
<1>2. CASE Restarts
    BY <1>2 DEF Restarts, Idle
<1>3. ASSUME NEW r \in Requests, Signs(r) PROVE AnswerInv'
    BY <1>3 DEF Signs
<1>4. ASSUME NEW r \in Requests, Connects(r) PROVE AnswerInv'
    BY <1>4 DEF Connects, TypeOK
<1>5. ASSUME NEW r \in Requests, Decides(r) PROVE AnswerInv'
  <2>1. \A q \in Requests : changed[q] > 0 => changed'[q] > 0
      BY <1>5 DEF Decides, TypeOK
  <2>2. \A h \in Threads : thread[h].at # "idle" => thread[h].req \in Requests
      BY BusyThread
  <2> QED BY <1>5, <2>1, <2>2 DEF Decides
<1>6. ASSUME NEW h \in Threads, Serves(h) PROVE AnswerInv'
  <2>1. /\ \A g \in Threads : g # h => thread'[g] = thread[g]
        /\ UNCHANGED changed
    <3>1. UNCHANGED changed
        BY <1>6 DEF Serves, Reads, Claims, Works, Commits, SignsIn, Responds
    <3> QED BY <1>6, <3>1, ServesFrame
  <2>2. /\ thread'[h].at \in {"upstream", "answer"} => changed[thread'[h].req] > 0
        /\ thread'[h].at = "upstream" => thread'[h].req \in Logins
    <3>1. ASSUME Ends(h) PROVE thread'[h].at = "idle"
        BY <3>1 DEF Ends, TypeOK, Idle
    <3>2. ASSUME NEW place, Moves(h, place)
          PROVE  thread'[h].at = place /\ thread'[h].req = thread[h].req
        BY <3>2 DEF Moves, TypeOK
    <3>3. CASE Reads(h)
      <4>1. thread'[h].at \in {"claim", "idle"}
          BY <3>1, <3>3 DEF Reads, Answered, TypeOK
      <4> QED BY <4>1
    <3>4. CASE Claims(h)
        BY <3>1, <3>2, <3>4 DEF Claims, Answered
    <3>5. CASE Works(h)
        BY <3>1, <3>2, <3>5 DEF Works, Answered
    <3>6. CASE Commits(h)
        BY <3>1, <3>2, <3>6 DEF Commits, Answered
    <3>7. CASE SignsIn(h)
        BY <3>1, <3>2, <3>7 DEF SignsIn, Answered, At
    <3>8. CASE Responds(h)
        BY <3>1, <3>8 DEF Responds, Answered
    <3> QED BY <1>6, <3>3, <3>4, <3>5, <3>6, <3>7, <3>8 DEF Serves
  <2> QED BY <2>1, <2>2
<1>7. CASE UNCHANGED vars
    BY <1>7 DEF vars
<1> QED BY <1>1, <1>2, <1>3, <1>4, <1>5, <1>6, <1>7 DEF Next

LEMMA Invariance == Spec => []IInv
<1>1. IInv /\ [Next]_vars => IInv'
    BY TypeStep, WindowStep, TokenStep, AnswerStep DEF IInv
<1> QED BY InitInv, <1>1, PTL DEF Spec

\* The types hold in every state.
THEOREM TypeCorrect == Spec => []TypeOK
<1>1. IInv => TypeOK
    BY DEF IInv
<1> QED BY Invariance, <1>1, PTL

\* For every length of the window, every number of requests and threads, and every delivery:
\* the action of a signed request begins at most once (claim_nonce, verify_request).
THEOREM OneActionPerNonce == Spec => []ActsOnce
<1>1. IInv => ActsOnce
    BY DEF IInv, TokenInv, Token, ActsOnce
<1> QED BY Invariance, <1>1, PTL

\* What the action answered to be done is committed, and what it answered not to be tried again
\* never will be (DatabaseTransaction.__exit__, Handler.do_POST); a refusal before the action
\* promises nothing of either.
THEOREM ToldTrue == Spec => []AnswerIsTrue
<1>1. IInv => AnswerIsTrue
    BY DEF IInv, TokenInv, Token, AnswerIsTrue
<1> QED BY Invariance, <1>1, PTL

Busy == {h \in Threads : thread[h] # Idle}

\* A permit is taken with the thread that starts and comes back with the thread that ends.
LEMMA SlotsStep == TypeOK /\ SlotsAreHeld /\ [Next]_vars => SlotsAreHeld'
<1> SUFFICES ASSUME TypeOK, SlotsAreHeld, [Next]_vars PROVE SlotsAreHeld'
    OBVIOUS
<1> USE DEF TypeOK
<1>1. /\ IsFiniteSet(Busy) /\ Cardinality(Busy) \in Nat
      /\ slots + Cardinality(Busy) = Cardinality(Threads) /\ Cardinality(Threads) \in Nat
    BY ThreadsAssumption, FS_Subset, FS_CardinalityType DEF SlotsAreHeld, Busy
<1>2. SUFFICES slots' + Cardinality(Busy') = Cardinality(Threads)
    BY DEF SlotsAreHeld, Busy
<1>3. CASE UNCHANGED slots /\ Busy' = Busy
    BY <1>1, <1>3
<1>4. ASSUME NEW h \in Threads, thread[h] # Idle, Ends(h)
      PROVE  slots' + Cardinality(Busy') = Cardinality(Threads)
  <2>1. Busy' = Busy \ {h} /\ h \in Busy /\ slots' = slots + 1
      BY <1>4 DEF Ends, Busy
  <2>2. Cardinality(Busy') = Cardinality(Busy) - 1
      BY <1>1, <2>1, FS_RemoveElement
  <2> QED BY <1>1, <2>1, <2>2
<1>5. CASE Tick \/ (\E r \in Requests : Signs(r) \/ Decides(r)) \/ UNCHANGED vars
  <2>1. UNCHANGED <<slots, thread>>
      BY <1>5 DEF Tick, Signs, Decides, vars
  <2> QED BY <1>3, <2>1 DEF Busy
<1>6. CASE Restarts
  <2>1. Busy' = {} /\ slots' = Cardinality(Threads)
      BY <1>6 DEF Restarts, Busy
  <2> QED BY <1>1, <2>1, FS_EmptySet
<1>7. ASSUME NEW r \in Requests, Connects(r) PROVE slots' + Cardinality(Busy') = Cardinality(Threads)
  <2>1. CASE slots = 0
      BY <1>3, <1>7, <2>1 DEF Connects, Busy
  <2>2. CASE slots # 0
    <3>1. PICK h \in Threads :
            /\ thread[h] = Idle /\ slots' = slots - 1
            /\ thread' = [thread EXCEPT ![h] = [at |-> "read", req |-> r, seen |-> None]]
        BY <1>7, <2>2 DEF Connects
    <3>2. Busy' = Busy \union {h} /\ h \notin Busy
        BY <3>1 DEF Busy, Idle
    <3>3. Cardinality(Busy') = Cardinality(Busy) + 1
        BY <1>1, <3>2, FS_AddElement
    <3> QED BY <1>1, <3>1, <3>3
  <2> QED BY <2>1, <2>2
<1>8. ASSUME NEW h \in Threads, Serves(h) PROVE slots' + Cardinality(Busy') = Cardinality(Threads)
  <2>1. thread[h] # Idle
      BY <1>8, ServesFrame DEF Idle
  <2>2. CASE Ends(h)
      BY <1>4, <2>1, <2>2
  <2>3. ASSUME NEW place, place # "idle", Moves(h, place), UNCHANGED slots
        PROVE  slots' + Cardinality(Busy') = Cardinality(Threads)
    <3>1. Busy' = Busy
        BY <2>1, <2>3 DEF Busy, Moves, Idle
    <3> QED BY <1>3, <2>3, <3>1
  <2>4. CASE Reads(h) /\ ~Ends(h)
    <3>1. Busy' = Busy /\ UNCHANGED slots
        BY <2>1, <2>4 DEF Reads, Answered, Busy, Idle
    <3> QED BY <1>3, <3>1
  <2>5. CASE (Claims(h) \/ Works(h) \/ Commits(h) \/ SignsIn(h) \/ Responds(h)) /\ ~Ends(h)
      BY <2>3, <2>5 DEF Claims, Works, Commits, SignsIn, Responds, Answered
  <2> QED BY <1>8, <2>2, <2>4, <2>5 DEF Serves
<1> QED BY <1>5, <1>6, <1>7, <1>8 DEF Next

\* No permit is lost or made up, however a request ends (process_request,
\* process_request_thread).
THEOREM PermitsAreKept == Spec => []SlotsAreHeld
<1>1. Init => SlotsAreHeld
  <2>1. Init => Busy = {} /\ slots = Cardinality(Threads)
      BY DEF Init, Busy
  <2> QED BY <2>1, ThreadsAssumption, FS_CardinalityType, FS_EmptySet DEF SlotsAreHeld, Busy
<1>2. TypeOK /\ SlotsAreHeld /\ [Next]_vars => SlotsAreHeld'
    BY SlotsStep
<1> QED BY TypeCorrect, <1>1, <1>2, PTL DEF Spec
=============================================================================
