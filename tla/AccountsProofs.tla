--------------------------- MODULE AccountsProofs ---------------------------
(***************************************************************************)
(* Tokens of former credentials are refused, and what was refused stays    *)
(* refused, for any number of requests, tokens, logins and crashes, as     *)
(* long as one request at a time changes the credentials.  What is proved  *)
(* of signing out, of spent refresh tokens and of failed logins holds      *)
(* without that hypothesis.                                                *)
(***************************************************************************)
EXTENDS Accounts, FiniteSetTheorems, TLAPS

\* The names of the steps of a request, one by one.
LEMMA Names ==
  /\ "idle" \in Steps /\ "login" \in Steps /\ "last_login" \in Steps
  /\ "reset" \in Steps /\ "incr" \in Steps /\ "expire" \in Steps
  /\ "change" \in Steps /\ "deactivate" \in Steps
  /\ "refresh" \in Steps /\ "rotate" \in Steps /\ "mint" \in Steps
  BY DEF Steps

\* Nothing to do is the state of a request.
LEMMA DoneType == Done \in RequestState
  BY Names, BoundsAssumption DEF Done, RequestState

\* Moving a request to a step keeps it typed, and its locals as they are.
LEMMA GotoMoves ==
  ASSUME request \in [Requests -> RequestState], NEW r \in Requests,
         NEW step \in Steps, Goto(r, step)
  PROVE  /\ request' \in [Requests -> RequestState]
         /\ request'[r].pc = step
         /\ request'[r].ver = request[r].ver /\ request'[r].epoch = request[r].epoch
         /\ request'[r].pair = request[r].pair
         /\ \A q \in Requests : q # r => request'[q] = request[q]
  BY DEF Goto, RequestState

\* A request that has ended is typed and idle, and no other one moves.
LEMMA FinishMoves ==
  ASSUME request \in [Requests -> RequestState], NEW r \in Requests, Finish(r)
  PROVE  /\ request' \in [Requests -> RequestState]
         /\ request'[r] = Done
         /\ \A q \in Requests : q # r => request'[q] = request[q]
  BY DoneType DEF Finish

\* The pairs issued are numbered within the bound, and each is one.
LEMMA PairsAreTyped ==
  ASSUME pairs \in Seq(Pair), Len(pairs) \in 1..MaxPairs, NEW i \in DOMAIN pairs
  PROVE  i \in 1..MaxPairs /\ pairs[i].ver \in Nat /\ pairs[i].epoch \in Nat
<1>1. pairs[i] \in Pair OBVIOUS
<1> QED BY <1>1, BoundsAssumption DEF Pair

\* Issuing a pair appends it and changes no earlier one.
LEMMA IssueAppends ==
  ASSUME pairs \in Seq(Pair), Len(pairs) \in 1..MaxPairs, access \subseteq DOMAIN pairs,
         NEW ver \in Nat, NEW ep \in Nat, Issue(ver, ep)
  PROVE  /\ pairs' \in Seq(Pair) /\ Len(pairs') \in 1..MaxPairs
         /\ access' \subseteq DOMAIN pairs'
         /\ DOMAIN pairs' = DOMAIN pairs \cup {Len(pairs) + 1}
         /\ \A i \in DOMAIN pairs : pairs'[i] = pairs[i]
         /\ pairs'[Len(pairs) + 1] = [ver |-> ver, epoch |-> ep]
<1>1. [ver |-> ver, epoch |-> ep] \in Pair BY DEF Pair
<1> QED BY <1>1, BoundsAssumption DEF Issue

-----------------------------------------------------------------------------
(* Type correctness.                                                       *)

\* What TypeOK asks of requests, by itself: it only needs the pairs to stay.
RequestsOK ==
    /\ request \in [Requests -> RequestState]
    /\ \A r \in Requests :
        /\ request[r].pc \in {"refresh", "rotate", "mint"} => request[r].pair \in DOMAIN pairs
        /\ request[r].pc \in {"change", "deactivate"} => r \in Changers

\* Requests stay well formed when one ends and no pair is lost.
LEMMA FinishRequestsOK ==
  ASSUME RequestsOK, NEW r \in Requests, Finish(r), DOMAIN pairs \subseteq DOMAIN pairs'
  PROVE  RequestsOK'
<1>1. /\ request' \in [Requests -> RequestState]
      /\ request'[r] = Done
      /\ \A q \in Requests : q # r => request'[q] = request[q]
  BY FinishMoves DEF RequestsOK
<1>2. ASSUME NEW q \in Requests
      PROVE  /\ request'[q].pc \in {"refresh", "rotate", "mint"} => request'[q].pair \in DOMAIN pairs'
             /\ request'[q].pc \in {"change", "deactivate"} => q \in Changers
  <2>1. CASE q = r BY <1>1, <2>1 DEF Done
  <2>2. CASE q # r BY <1>1, <2>2 DEF RequestsOK
  <2> QED BY <2>1, <2>2
<1> QED BY <1>1, <1>2 DEF RequestsOK

\* Requests stay well formed when one goes to a step that asks nothing of it.
LEMMA GotoRequestsOK ==
  ASSUME RequestsOK, NEW r \in Requests,
         NEW step \in {"login", "last_login", "reset", "incr", "expire"},
         Goto(r, step), UNCHANGED pairs
  PROVE  RequestsOK'
<1>0. step \in Steps BY Names
<1>1. /\ request' \in [Requests -> RequestState]
      /\ request'[r].pc = step
      /\ \A q \in Requests : q # r => request'[q] = request[q]
  BY <1>0, GotoMoves DEF RequestsOK
<1>2. ASSUME NEW q \in Requests
      PROVE  /\ request'[q].pc \in {"refresh", "rotate", "mint"} => request'[q].pair \in DOMAIN pairs'
             /\ request'[q].pc \in {"change", "deactivate"} => q \in Changers
  <2>1. CASE q = r BY <1>1, <2>1
  <2>2. CASE q # r BY <1>1, <2>2 DEF RequestsOK
  <2> QED BY <2>1, <2>2
<1> QED BY <1>1, <1>2 DEF RequestsOK

\* The steps of a request keep the state well typed.
LEMMA RequestStepTypeOK ==
  ASSUME TypeOK, NEW r \in Requests, RequestArrives(r) \/ RequestStep(r)
  PROVE  TypeOK'
<1> USE DEF tokens
<1>0. /\ RequestsOK /\ request[r] \in RequestState /\ Done \in RequestState
      /\ request[r].ver \in Nat /\ request[r].epoch \in Nat
      /\ user.token_version \in Nat /\ epoch \in Nat
  BY DoneType DEF TypeOK, RequestsOK, RequestState
<1>00. RequestsOK' /\ UNCHANGED <<user, epoch, tokens, attempts, crashes>> => TypeOK'
  BY DEF TypeOK, RequestsOK
<1>1. CASE LoginCheck(r)
  BY <1>0, <1>00, <1>1, GotoRequestsOK DEF LoginCheck
<1>2. CASE LoginVerify(r)
  <2>1. CASE Goto(r, "incr")
    BY <1>0, <1>00, <1>2, <2>1, GotoRequestsOK DEF LoginVerify
  <2>2. CASE Finish(r)
    BY <1>0, <1>00, <1>2, <2>2, FinishRequestsOK DEF LoginVerify
  <2>3. CASE request' = [request EXCEPT ![r] = [Done EXCEPT !.pc = "last_login",
                             !.ver = user.token_version, !.epoch = epoch]]
    <3>1. [Done EXCEPT !.pc = "last_login", !.ver = user.token_version, !.epoch = epoch]
            \in RequestState
      BY <1>0, Names DEF RequestState
    <3>2. RequestsOK' BY <1>0, <1>2, <2>3, <3>1 DEF LoginVerify, RequestsOK, Done
    <3> QED BY <1>00, <1>2, <3>2 DEF LoginVerify
  <2> QED BY <1>2, <2>1, <2>2, <2>3 DEF LoginVerify
<1>3. CASE LoginStamp(r)
  BY <1>0, <1>00, <1>3, GotoRequestsOK DEF LoginStamp
<1>4. CASE LoginReset(r)
  <2>1. /\ pairs' \in Seq(Pair) /\ Len(pairs') \in 1..MaxPairs
        /\ DOMAIN pairs \subseteq DOMAIN pairs' /\ access' \subseteq DOMAIN pairs'
    BY <1>0, <1>4, IssueAppends DEF LoginReset, TypeOK
  <2>2. RequestsOK' BY <1>0, <1>4, <2>1, FinishRequestsOK DEF LoginReset
  <2>3. attempts' \in [count : Nat, expires : BOOLEAN] BY <1>4 DEF LoginReset, NoAttempt
  <2> QED BY <1>4, <2>1, <2>2, <2>3 DEF LoginReset, TypeOK, RequestsOK
<1>5. CASE RecordFailure(r)
  <2>1. attempts' \in [count : Nat, expires : BOOLEAN] BY <1>5 DEF RecordFailure, TypeOK
  <2>2. Goto(r, "expire") \/ Finish(r) BY <1>5 DEF RecordFailure
  <2>3. RequestsOK'
    BY <1>0, <1>5, <2>2, GotoRequestsOK, FinishRequestsOK DEF RecordFailure
  <2> QED BY <1>5, <2>1, <2>3 DEF RecordFailure, TypeOK, RequestsOK
<1>6. CASE RecordExpire(r)
  <2>1. attempts' \in [count : Nat, expires : BOOLEAN] BY <1>6 DEF RecordExpire, TypeOK
  <2>2. RequestsOK' BY <1>0, <1>6, FinishRequestsOK DEF RecordExpire
  <2> QED BY <1>6, <2>1, <2>2 DEF RecordExpire, TypeOK, RequestsOK
<1>7. CASE ChangeRead(r)
  <2>1. PICK step \in {"change", "deactivate"} :
           request' = [request EXCEPT ![r] = [Done EXCEPT !.pc = step,
                           !.ver = user.token_version, !.epoch = epoch]]
    BY <1>7 DEF ChangeRead
  <2>2. [Done EXCEPT !.pc = step, !.ver = user.token_version, !.epoch = epoch]
          \in RequestState
    BY <1>0, Names DEF RequestState
  <2>3. RequestsOK' BY <1>0, <1>7, <2>1, <2>2 DEF ChangeRead, RequestsOK, Done
  <2> QED BY <1>00, <1>7, <2>3 DEF ChangeRead
<1>8. CASE ChangeCommit(r)
  <2>1. epoch' \in Nat /\ request[r].ver + 1 \in Nat BY <1>0, <1>8 DEF ChangeCommit
  <2>2. /\ pairs' \in Seq(Pair) /\ Len(pairs') \in 1..MaxPairs
        /\ DOMAIN pairs \subseteq DOMAIN pairs' /\ access' \subseteq DOMAIN pairs'
    BY <1>8, <2>1, IssueAppends DEF ChangeCommit, TypeOK
  <2>3. RequestsOK' BY <1>0, <1>8, <2>2, FinishRequestsOK DEF ChangeCommit
  <2>4. user' \in [token_version : Nat, is_active : BOOLEAN]
    BY <1>8, <2>1 DEF ChangeCommit, TypeOK
  <2> QED BY <1>8, <2>1, <2>2, <2>3, <2>4 DEF ChangeCommit, TypeOK, RequestsOK
<1>9. CASE DeactivateCommit(r)
  <2>1. epoch' \in Nat /\ user' \in [token_version : Nat, is_active : BOOLEAN]
    BY <1>0, <1>9 DEF DeactivateCommit
  <2>2. RequestsOK' BY <1>0, <1>9, FinishRequestsOK DEF DeactivateCommit
  <2> QED BY <1>9, <2>1, <2>2 DEF DeactivateCommit, TypeOK, RequestsOK
<1>10. CASE RefreshCheck(r)
  <2>1. PICK i \in DOMAIN pairs :
           request' = [request EXCEPT ![r] = [Done EXCEPT !.pc = "refresh", !.pair = i]]
    BY <1>10 DEF RefreshCheck
  <2>2. i \in 0..MaxPairs BY BoundsAssumption DEF TypeOK
  <2>3. [Done EXCEPT !.pc = "refresh", !.pair = i] \in RequestState
    BY <1>0, <2>2, Names DEF RequestState
  <2>4. RequestsOK' BY <1>0, <1>10, <2>1, <2>3 DEF RefreshCheck, RequestsOK, Done
  <2> QED BY <1>00, <1>10, <2>4 DEF RefreshCheck
<1>11. CASE RefreshRead(r)
  <2>1. CASE Finish(r)
    BY <1>0, <1>00, <1>11, <2>1, FinishRequestsOK DEF RefreshRead
  <2>2. CASE request' = [request EXCEPT ![r].pc = "rotate", ![r].ver = user.token_version,
                                        ![r].epoch = pairs[request[r].pair].epoch]
    <3>1. request[r].pair \in DOMAIN pairs BY <1>0, <1>11 DEF RefreshRead, RequestsOK
    <3>2. pairs[request[r].pair].epoch \in Nat BY <3>1, PairsAreTyped DEF TypeOK
    <3>3. request' \in [Requests -> RequestState]
      BY <1>0, <2>2, <3>2, Names DEF RequestState, RequestsOK
    <3>4. RequestsOK' BY <1>0, <1>11, <2>2, <3>1, <3>3 DEF RefreshRead, RequestsOK
    <3> QED BY <1>00, <1>11, <3>4 DEF RefreshRead
  <2> QED BY <1>11, <2>1, <2>2 DEF RefreshRead
<1>12. CASE Rotate(r)
  <2>1. request[r].pair \in DOMAIN pairs BY <1>0, <1>12 DEF Rotate, RequestsOK
  <2>2. /\ pairs' \in Seq(Pair) /\ Len(pairs') \in 1..MaxPairs
        /\ DOMAIN pairs \subseteq DOMAIN pairs' /\ access' \subseteq DOMAIN pairs'
    BY <1>0, <1>12, IssueAppends DEF Rotate, TypeOK
  <2>3. RequestsOK' BY <1>0, <1>12, <2>2, FinishRequestsOK DEF Rotate
  <2> QED BY <1>12, <2>2, <2>3 DEF Rotate, TypeOK, RequestsOK
<1>13. CASE AutoRefreshCheck(r)
  <2>1. PICK i \in DOMAIN pairs :
           request' = [request EXCEPT ![r] = [Done EXCEPT !.pc = "mint", !.pair = i]]
    BY <1>13 DEF AutoRefreshCheck
  <2>2. i \in 0..MaxPairs BY BoundsAssumption DEF TypeOK
  <2>3. [Done EXCEPT !.pc = "mint", !.pair = i] \in RequestState
    BY <1>0, <2>2, Names DEF RequestState
  <2>4. RequestsOK' BY <1>0, <1>13, <2>1, <2>3 DEF AutoRefreshCheck, RequestsOK, Done
  <2> QED BY <1>00, <1>13, <2>4 DEF AutoRefreshCheck
<1>14. CASE Mint(r)
  <2>1. request[r].pair \in DOMAIN pairs BY <1>0, <1>14 DEF Mint, RequestsOK
  <2>2. access' \subseteq DOMAIN pairs' BY <1>14, <2>1 DEF Mint, TypeOK
  <2>3. RequestsOK' BY <1>0, <1>14, FinishRequestsOK DEF Mint
  <2> QED BY <1>14, <2>2, <2>3 DEF Mint, TypeOK, RequestsOK
<1> QED
  BY <1>1, <1>2, <1>3, <1>4, <1>5, <1>6, <1>7, <1>8, <1>9, <1>10, <1>11, <1>12,
     <1>13, <1>14
  DEF RequestArrives, RequestStep

\* What happens beside the requests keeps the state well typed.
LEMMA EventTypeOK ==
  ASSUME TypeOK,
         (\E i \in 1..MaxPairs : AccessExpires(i)) \/ AttemptsExpire \/ Logout \/ Crash
  PROVE  TypeOK'
<1> USE DEF tokens
<1>1. CASE AttemptsExpire BY <1>1 DEF AttemptsExpire, NoAttempt, TypeOK
<1>2. CASE Logout BY <1>2 DEF Logout, TypeOK
<1>3. CASE Crash BY <1>3, DoneType, BoundsAssumption DEF Crash, Done, TypeOK
<1>4. CASE \E i \in 1..MaxPairs : AccessExpires(i) BY <1>4 DEF AccessExpires, TypeOK
<1> QED BY <1>1, <1>2, <1>3, <1>4

\* Accounts: the row, the tokens, the counter and the requests stay well typed,
\* whatever logins, changes, refreshes and crashes come together.
THEOREM TypeCorrect == Spec => []TypeOK
<1>1. Init => TypeOK
  BY DoneType, BoundsAssumption DEF Init, TypeOK, Done, NoAttempt, Pair
<1>2. TypeOK /\ [Next]_vars => TypeOK'
  <2> SUFFICES ASSUME TypeOK, [Next]_vars PROVE TypeOK'
    OBVIOUS
  <2>1. CASE UNCHANGED vars BY <2>1 DEF vars, tokens, TypeOK
  <2>2. CASE Next BY <2>2, RequestStepTypeOK, EventTypeOK DEF Next
  <2> QED BY <2>1, <2>2
<1> QED BY <1>1, <1>2, PTL DEF Spec

-----------------------------------------------------------------------------
(* Tokens of former credentials.                                           *)

\* What makes a version ver of credentials of epoch ep harmless when the row has
\* version tv in epoch now: neither is ahead, and a version is behind the row's
\* when its credentials are of an earlier epoch.
Behind(ver, ep, tv, now) ==
    /\ ver <= tv /\ ep <= now
    /\ ep < now => ver < tv

PairsSound ==
    \A i \in DOMAIN pairs :
        Behind(pairs[i].ver, pairs[i].epoch, user.token_version, epoch)

\* A request carries such a version to the tokens it will issue, or, when it is
\* about to change the credentials, the version of the row itself.
RequestSound(r) ==
    /\ request[r].pc \in {"last_login", "reset", "rotate"} =>
           Behind(request[r].ver, request[r].epoch, user.token_version, epoch)
    /\ request[r].pc \in {"change", "deactivate"} =>
           request[r].ver = user.token_version

TokensInv == TypeOK /\ PairsSound /\ \A r \in Requests : RequestSound(r)

\* What is behind the row stays behind it when both counters are incremented.
LEMMA BehindBumped ==
  ASSUME NEW ver \in Nat, NEW ep \in Nat, NEW tv \in Nat, NEW now \in Nat,
         Behind(ver, ep, tv, now)
  PROVE  Behind(ver, ep, tv + 1, now + 1)
  BY DEF Behind

\* The version of the row, for credentials in force, is behind the row.
LEMMA BehindItself ==
  ASSUME NEW tv \in Nat, NEW now \in Nat
  PROVE  Behind(tv, now, tv, now)
  BY DEF Behind

\* Issuing a pair that is behind the row leaves all of them behind it.
LEMMA IssueSound ==
  ASSUME TypeOK, NEW ver \in Nat, NEW ep \in Nat, Issue(ver, ep),
         Behind(ver, ep, user'.token_version, epoch'),
         \A i \in DOMAIN pairs :
             Behind(pairs[i].ver, pairs[i].epoch, user'.token_version, epoch')
  PROVE  PairsSound'
<1>1. /\ DOMAIN pairs' = DOMAIN pairs \cup {Len(pairs) + 1}
      /\ \A i \in DOMAIN pairs : pairs'[i] = pairs[i]
      /\ pairs'[Len(pairs) + 1] = [ver |-> ver, epoch |-> ep]
  BY IssueAppends DEF TypeOK
<1>2. \A i \in DOMAIN pairs' :
          Behind(pairs'[i].ver, pairs'[i].epoch, user'.token_version, epoch')
  BY <1>1
<1> QED BY <1>2 DEF PairsSound

\* A step of one request that leaves the row alone leaves the others sound.
LEMMA OthersSound ==
  ASSUME NEW r \in Requests, \A q \in Requests : RequestSound(q),
         UNCHANGED <<user, epoch>>, RequestSound(r)',
         \A q \in Requests : q # r => request'[q] = request[q]
  PROVE  \A q \in Requests : RequestSound(q)'
<1>1. ASSUME NEW q \in Requests, q # r PROVE RequestSound(q)'
  BY <1>1 DEF RequestSound
<1> QED BY <1>1

\* Steps of logins, refreshes and the reading of a change keep tokens sound.
LEMMA ReadingSound ==
  ASSUME TokensInv, NEW r \in Requests, RequestArrives(r) \/ RequestStep(r),
         ~ ChangeCommit(r), ~ DeactivateCommit(r)
  PROVE  PairsSound' /\ \A q \in Requests : RequestSound(q)'
<1> USE DEF tokens
<1>0. /\ request \in [Requests -> RequestState]
      /\ RequestSound(r) /\ \A q \in Requests : RequestSound(q)
      /\ request[r].ver \in Nat /\ request[r].epoch \in Nat
      /\ user.token_version \in Nat /\ epoch \in Nat
      /\ PairsSound /\ TypeOK
  BY DEF TokensInv, TypeOK, RequestState
<1>1. UNCHANGED <<user, epoch, pairs>> => PairsSound' BY <1>0 DEF PairsSound
<1>2. Finish(r) => /\ RequestSound(r)'
                   /\ \A q \in Requests : q # r => request'[q] = request[q]
  BY <1>0, FinishMoves DEF RequestSound, Done
<1>3. ASSUME NEW step \in {"login", "incr", "expire"}, Goto(r, step)
      PROVE  /\ RequestSound(r)'
             /\ \A q \in Requests : q # r => request'[q] = request[q]
  <2>1. step \in Steps BY Names
  <2> QED BY <1>0, <1>3, <2>1, GotoMoves DEF RequestSound
<1>4. CASE LoginCheck(r)
  BY <1>0, <1>1, <1>3, <1>4, OthersSound DEF LoginCheck
<1>5. CASE LoginVerify(r)
  <2>1. CASE Goto(r, "incr")
    BY <1>0, <1>1, <1>3, <1>5, <2>1, OthersSound DEF LoginVerify
  <2>2. CASE Finish(r)
    BY <1>0, <1>1, <1>2, <1>5, <2>2, OthersSound DEF LoginVerify
  <2>3. CASE request' = [request EXCEPT ![r] = [Done EXCEPT !.pc = "last_login",
                             !.ver = user.token_version, !.epoch = epoch]]
    <3>1. /\ request'[r].pc = "last_login" /\ request'[r].ver = user.token_version
          /\ request'[r].epoch = epoch
          /\ \A q \in Requests : q # r => request'[q] = request[q]
      BY <1>0, <2>3 DEF Done
    <3>2. UNCHANGED <<user, epoch, pairs>> BY <1>5 DEF LoginVerify
    <3>3. RequestSound(r)' BY <1>0, <3>1, <3>2, BehindItself DEF RequestSound
    <3> QED BY <1>0, <1>1, <3>1, <3>2, <3>3, OthersSound
  <2> QED BY <1>5, <2>1, <2>2, <2>3 DEF LoginVerify
<1>6. CASE LoginStamp(r)
  <2>1. UNCHANGED <<user, epoch, pairs>> /\ request[r].pc = "last_login"
    BY <1>6 DEF LoginStamp
  <2>2. /\ request'[r].pc = "reset"
        /\ request'[r].ver = request[r].ver /\ request'[r].epoch = request[r].epoch
        /\ \A q \in Requests : q # r => request'[q] = request[q]
    BY <1>0, <1>6, Names, GotoMoves DEF LoginStamp
  <2>3. RequestSound(r)' BY <1>0, <2>1, <2>2 DEF RequestSound
  <2> QED BY <1>0, <1>1, <2>1, <2>2, <2>3, OthersSound
<1>7. CASE LoginReset(r) \/ Rotate(r)
  <2>1. /\ UNCHANGED <<user, epoch>> /\ request[r].pc \in {"reset", "rotate"}
        /\ Issue(request[r].ver, request[r].epoch) /\ Finish(r)
    BY <1>7 DEF LoginReset, Rotate
  <2>2. Behind(request[r].ver, request[r].epoch, user.token_version, epoch)
    BY <1>0, <2>1 DEF RequestSound
  <2>3. PairsSound' BY <1>0, <2>1, <2>2, IssueSound DEF PairsSound
  <2> QED BY <1>0, <1>2, <2>1, <2>3, OthersSound
<1>8. CASE RecordFailure(r)
  <2>1. Goto(r, "expire") \/ Finish(r) BY <1>8 DEF RecordFailure
  <2> QED BY <1>0, <1>1, <1>2, <1>3, <1>8, <2>1, OthersSound DEF RecordFailure
<1>9. CASE RecordExpire(r)
  BY <1>0, <1>1, <1>2, <1>9, OthersSound DEF RecordExpire
<1>10. CASE ChangeRead(r)
  <2>1. PICK step \in {"change", "deactivate"} :
           request' = [request EXCEPT ![r] = [Done EXCEPT !.pc = step,
                           !.ver = user.token_version, !.epoch = epoch]]
    BY <1>10 DEF ChangeRead
  <2>2. /\ request'[r].pc = step /\ request'[r].ver = user.token_version
        /\ \A q \in Requests : q # r => request'[q] = request[q]
    BY <1>0, <2>1 DEF Done
  <2>3. UNCHANGED <<user, epoch, pairs>> BY <1>10 DEF ChangeRead
  <2>4. RequestSound(r)' BY <2>2, <2>3 DEF RequestSound
  <2> QED BY <1>0, <1>1, <2>2, <2>3, <2>4, OthersSound
<1>11. CASE RefreshCheck(r)
  <2>1. PICK i \in DOMAIN pairs :
           request' = [request EXCEPT ![r] = [Done EXCEPT !.pc = "refresh", !.pair = i]]
    BY <1>11 DEF RefreshCheck
  <2>2. /\ request'[r].pc = "refresh"
        /\ \A q \in Requests : q # r => request'[q] = request[q]
    BY <1>0, <2>1 DEF Done
  <2>3. UNCHANGED <<user, epoch, pairs>> BY <1>11 DEF RefreshCheck
  <2>4. RequestSound(r)' BY <2>2 DEF RequestSound
  <2> QED BY <1>0, <1>1, <2>2, <2>3, <2>4, OthersSound
<1>12. CASE RefreshRead(r)
  <2>1. CASE Finish(r)
    BY <1>0, <1>1, <1>2, <1>12, <2>1, OthersSound DEF RefreshRead
  <2>2. CASE ~ Finish(r)
    <3> DEFINE i == request[r].pair
    <3>1. i \in DOMAIN pairs BY <1>0, <1>12 DEF RefreshRead, TypeOK
    <3>2. /\ pairs[i].ver = user.token_version
          /\ request' = [request EXCEPT ![r].pc = "rotate",
                             ![r].ver = user.token_version, ![r].epoch = pairs[i].epoch]
          /\ UNCHANGED <<user, epoch, pairs>>
      BY <1>12, <2>2 DEF RefreshRead, Accepted
    <3>3. /\ request'[r].pc = "rotate" /\ request'[r].ver = pairs[i].ver
          /\ request'[r].epoch = pairs[i].epoch
          /\ \A q \in Requests : q # r => request'[q] = request[q]
      BY <1>0, <3>2 DEF RequestState
    <3>4. Behind(pairs[i].ver, pairs[i].epoch, user.token_version, epoch)
      BY <1>0, <3>1 DEF PairsSound
    <3>5. RequestSound(r)' BY <3>2, <3>3, <3>4 DEF RequestSound
    <3> QED BY <1>0, <1>1, <3>2, <3>3, <3>5, OthersSound
  <2> QED BY <2>1, <2>2
<1>13. CASE AutoRefreshCheck(r)
  <2>1. PICK i \in DOMAIN pairs :
           request' = [request EXCEPT ![r] = [Done EXCEPT !.pc = "mint", !.pair = i]]
    BY <1>13 DEF AutoRefreshCheck
  <2>2. /\ request'[r].pc = "mint"
        /\ \A q \in Requests : q # r => request'[q] = request[q]
    BY <1>0, <2>1 DEF Done
  <2>3. UNCHANGED <<user, epoch, pairs>> BY <1>13 DEF AutoRefreshCheck
  <2>4. RequestSound(r)' BY <2>2 DEF RequestSound
  <2> QED BY <1>0, <1>1, <2>2, <2>3, <2>4, OthersSound
<1>14. CASE Mint(r)
  BY <1>0, <1>1, <1>2, <1>14, OthersSound DEF Mint
<1> QED
  BY <1>4, <1>5, <1>6, <1>7, <1>8, <1>9, <1>10, <1>11, <1>12, <1>13, <1>14
  DEF RequestArrives, RequestStep

\* A change of the credentials leaves every version issued or read before it
\* behind, when no other change is under way.
LEMMA ChangingSound ==
  ASSUME TokensInv, NEW r \in Requests, ChangeCommit(r) \/ DeactivateCommit(r),
         \A q, s \in Changers : q = s
  PROVE  PairsSound' /\ \A q \in Requests : RequestSound(q)'
<1> USE DEF tokens
<1> DEFINE tv == user.token_version
<1>0. /\ request \in [Requests -> RequestState] /\ TypeOK
      /\ request[r].pc \in {"change", "deactivate"} /\ r \in Changers
      /\ request[r].ver = tv /\ tv \in Nat /\ epoch \in Nat
  BY DEF TokensInv, TypeOK, RequestSound, ChangeCommit, DeactivateCommit
<1>1. user'.token_version = tv + 1 /\ epoch' = epoch + 1 /\ Finish(r)
  BY <1>0 DEF ChangeCommit, DeactivateCommit, TypeOK
<1>2. \A i \in DOMAIN pairs :
          Behind(pairs[i].ver, pairs[i].epoch, user'.token_version, epoch')
  <2>1. ASSUME NEW i \in DOMAIN pairs
        PROVE  Behind(pairs[i].ver, pairs[i].epoch, tv + 1, epoch + 1)
    <3>1. pairs[i].ver \in Nat /\ pairs[i].epoch \in Nat
      BY <1>0, PairsAreTyped DEF TypeOK
    <3>2. Behind(pairs[i].ver, pairs[i].epoch, tv, epoch) BY DEF TokensInv, PairsSound
    <3> QED BY <1>0, <3>1, <3>2, BehindBumped
  <2> QED BY <1>1, <2>1
<1>3. PairsSound'
  <2>1. CASE ChangeCommit(r)
    <3>1. Issue(tv + 1, epoch + 1) BY <1>0, <2>1 DEF ChangeCommit
    <3>2. tv + 1 \in Nat /\ epoch + 1 \in Nat BY <1>0
    <3>3. Behind(tv + 1, epoch + 1, user'.token_version, epoch')
      BY <1>1, <3>2, BehindItself
    <3> HIDE DEF tv
    <3> QED BY <1>0, <1>2, <3>1, <3>2, <3>3, IssueSound
  <2>2. CASE DeactivateCommit(r)
    BY <1>2, <2>2 DEF DeactivateCommit, PairsSound
  <2> QED BY <2>1, <2>2
<1>4. /\ request'[r] = Done
      /\ \A q \in Requests : q # r => request'[q] = request[q]
  BY <1>0, <1>1, FinishMoves
<1>5. ASSUME NEW q \in Requests PROVE RequestSound(q)'
  <2>1. CASE q = r BY <1>4, <2>1 DEF RequestSound, Done
  <2>2. CASE q # r
    <3>1. request'[q] = request[q] BY <1>4, <2>2
    <3>2. request[q].pc \notin {"change", "deactivate"}
      BY <1>0, <2>2 DEF TypeOK
    <3>3. ASSUME request[q].pc \in {"last_login", "reset", "rotate"}
          PROVE  Behind(request[q].ver, request[q].epoch, tv + 1, epoch + 1)
      <4>1. Behind(request[q].ver, request[q].epoch, tv, epoch)
        BY <3>3 DEF TokensInv, RequestSound
      <4>2. request[q].ver \in Nat /\ request[q].epoch \in Nat
        BY <1>0 DEF RequestState
      <4> QED BY <1>0, <4>1, <4>2, BehindBumped
    <3> QED BY <1>1, <3>1, <3>2, <3>3 DEF RequestSound
  <2> QED BY <2>1, <2>2
<1> QED BY <1>3, <1>5

\* The invariant holds at first and is kept, when one request changes at a time.
LEMMA TokensInvariant ==
  ASSUME \A q, s \in Changers : q = s
  PROVE  /\ Init => TokensInv
         /\ TokensInv /\ [Next]_vars => TokensInv'
<1>1. Init => TokensInv
  <2> SUFFICES ASSUME Init PROVE TokensInv
    OBVIOUS
  <2>1. TypeOK
    BY DoneType, BoundsAssumption DEF Init, TypeOK, Done, NoAttempt, Pair
  <2>2. PairsSound BY DEF Init, PairsSound, Behind
  <2>3. \A r \in Requests : RequestSound(r) BY DEF Init, RequestSound, Done
  <2> QED BY <2>1, <2>2, <2>3 DEF TokensInv
<1>2. TokensInv /\ [Next]_vars => TokensInv'
  <2> SUFFICES ASSUME TokensInv, [Next]_vars PROVE TokensInv'
    OBVIOUS
  <2>0. TypeOK BY DEF TokensInv
  <2>1. CASE UNCHANGED vars
    <3>1. TypeOK' BY <2>0, <2>1 DEF vars, tokens, TypeOK
    <3> QED BY <2>1, <3>1 DEF vars, tokens, TokensInv, PairsSound, RequestSound
  <2>2. CASE \E r \in Requests : RequestArrives(r) \/ RequestStep(r)
    <3>1. PICK r \in Requests : RequestArrives(r) \/ RequestStep(r) BY <2>2
    <3>2. TypeOK' BY <2>0, <3>1, RequestStepTypeOK
    <3> QED BY <3>1, <3>2, ReadingSound, ChangingSound DEF TokensInv
  <2>3. CASE (\E i \in 1..MaxPairs : AccessExpires(i)) \/ AttemptsExpire \/ Logout
    <3>1. TypeOK' BY <2>0, <2>3, EventTypeOK
    <3>2. UNCHANGED <<user, epoch, pairs, request>>
      BY <2>3 DEF AccessExpires, AttemptsExpire, Logout, tokens
    <3> QED BY <3>1, <3>2 DEF TokensInv, PairsSound, RequestSound
  <2>4. CASE Crash
    <3>1. TypeOK' BY <2>0, <2>4, EventTypeOK
    <3>2. UNCHANGED <<user, epoch, pairs>> /\ request' = [r \in Requests |-> Done]
      BY <2>4 DEF Crash, tokens
    <3>3. PairsSound' BY <3>2 DEF TokensInv, PairsSound
    <3>4. \A r \in Requests : RequestSound(r)' BY <3>2 DEF RequestSound, Done
    <3> QED BY <3>1, <3>3, <3>4 DEF TokensInv
  <2> QED BY <2>1, <2>2, <2>3, <2>4 DEF Next
<1> QED BY <1>1, <1>2

\* Accounts: no token issued for credentials that were changed since is accepted,
\* by get_current_user or by refresh, however late the login or refresh that was
\* begun before issues it, as long as changes of one account do not overlap.
THEOREM StaleTokensAreRefused ==
  ASSUME \A q, s \in Changers : q = s
  PROVE  Spec => []StaleTokensRefused
<1>1. TokensInv => StaleTokensRefused
  <2> SUFFICES ASSUME TokensInv, NEW i \in DOMAIN pairs, pairs[i].epoch < epoch
               PROVE  ~ Accepted(i)
    BY DEF StaleTokensRefused
  <2>1. Behind(pairs[i].ver, pairs[i].epoch, user.token_version, epoch)
    BY DEF TokensInv, PairsSound
  <2>2. pairs[i].ver \in Nat /\ user.token_version \in Nat
    BY PairsAreTyped DEF TokensInv, TypeOK
  <2> QED BY <2>1, <2>2 DEF Behind, Accepted
<1> QED BY <1>1, TokensInvariant, PTL DEF Spec

\* A pair that was issued is never altered.
LEMMA PairsKept ==
  ASSUME TypeOK, Next, NEW i \in DOMAIN pairs
  PROVE  pairs'[i] = pairs[i]
<1> USE DEF tokens
<1>1. \A ver, ep \in Nat : Issue(ver, ep) => pairs'[i] = pairs[i]
  BY IssueAppends DEF TypeOK
<1>2. ASSUME NEW r \in Requests, RequestArrives(r) \/ RequestStep(r)
      PROVE  pairs'[i] = pairs[i]
  <2>0. request[r].ver \in Nat /\ request[r].epoch \in Nat
        /\ request[r].ver + 1 \in Nat /\ epoch + 1 \in Nat
    BY DEF TypeOK, RequestState
  <2>1. CASE LoginReset(r) \/ Rotate(r) BY <1>1, <2>0, <2>1 DEF LoginReset, Rotate
  <2>2. CASE ChangeCommit(r) BY <1>1, <2>0, <2>2 DEF ChangeCommit
  <2>3. CASE UNCHANGED pairs BY <2>3
  <2> QED
    BY <1>2, <2>1, <2>2, <2>3
    DEF RequestArrives, RequestStep, LoginCheck, ChangeRead, RefreshCheck, LoginVerify,
        LoginStamp, RecordFailure, RecordExpire, DeactivateCommit, RefreshRead,
        AutoRefreshCheck, Mint
<1> QED BY <1>2 DEF Next, AccessExpires, AttemptsExpire, Logout, Crash

\* The version of the row never falls, and an inactive account stays inactive.
LEMMA RowMoves ==
  ASSUME TokensInv, Next
  PROVE  /\ user'.token_version >= user.token_version
         /\ user'.is_active => user.is_active
<1> USE DEF tokens
<1>0. user \in [token_version : Nat, is_active : BOOLEAN] BY DEF TokensInv, TypeOK
<1>1. ASSUME NEW r \in Requests, ChangeCommit(r)
      PROVE  /\ user'.token_version >= user.token_version
             /\ user'.is_active => user.is_active
  <2>1. request[r].ver = user.token_version
    BY <1>1 DEF ChangeCommit, TokensInv, RequestSound
  <2> QED BY <1>0, <1>1, <2>1 DEF ChangeCommit
<1>2. ASSUME NEW r \in Requests, DeactivateCommit(r)
      PROVE  /\ user'.token_version >= user.token_version
             /\ user'.is_active => user.is_active
  <2>1. request[r].ver = user.token_version
    BY <1>2 DEF DeactivateCommit, TokensInv, RequestSound
  <2> QED BY <1>0, <1>2, <2>1 DEF DeactivateCommit
<1>3. UNCHANGED user \/ \E r \in Requests : ChangeCommit(r) \/ DeactivateCommit(r)
  BY DEF Next, RequestArrives, RequestStep, LoginCheck, ChangeRead, RefreshCheck,
         LoginVerify, LoginStamp, LoginReset, RecordFailure, RecordExpire, RefreshRead,
         Rotate, AutoRefreshCheck, Mint, AccessExpires, AttemptsExpire, Logout, Crash
<1> QED BY <1>0, <1>1, <1>2, <1>3

\* Accounts: what was refused once is refused for good, as the version only grows,
\* no token has a version to come, and nothing activates an account again.
THEOREM RefusedStaysRefused ==
  ASSUME \A q, s \in Changers : q = s
  PROVE  Spec => RefusedForGood
<1>1. TokensInv /\ [Next]_vars =>
          [\A i \in DOMAIN pairs : ~ Accepted(i) => ~ Accepted(i)']_vars
  <2> SUFFICES ASSUME TokensInv, Next, NEW i \in DOMAIN pairs, ~ Accepted(i)
               PROVE  ~ Accepted(i)'
    OBVIOUS
  <2>1. /\ pairs[i].ver <= user.token_version
        /\ pairs[i].ver \in Nat /\ user.token_version \in Nat
    BY PairsAreTyped DEF TokensInv, PairsSound, Behind, TypeOK
  <2>2. pairs'[i] = pairs[i] BY <2>1, PairsKept DEF TokensInv
  <2>3. CASE pairs[i].ver # user.token_version
    BY <2>1, <2>2, <2>3, RowMoves DEF Accepted
  <2>4. CASE ~ user.is_active BY <2>4, RowMoves DEF Accepted
  <2> QED BY <2>3, <2>4 DEF Accepted
<1> QED BY <1>1, TokensInvariant, PTL DEF Spec, RefusedForGood

-----------------------------------------------------------------------------
(* What one step of a request does to the program counters.                *)

\* The steps that only take a request to another one of its steps.
LEMMA Moves ==
  ASSUME TypeOK, NEW r \in Requests, RequestArrives(r) \/ RequestStep(r)
  PROVE  /\ \A q \in Requests : q # r => request'[q] = request[q]
         /\ request'[r].pc = "mint" => AutoRefreshCheck(r)
         /\ request'[r].pc \in {"login", "incr"} => LoginCheck(r) \/ LoginVerify(r)
         /\ request'[r].pc = "expire" => RecordFailure(r)
         /\ request'[r].pc = "refresh" => RefreshCheck(r)
         /\ request'[r].pc = "rotate" => RefreshRead(r)
<1>0. request \in [Requests -> RequestState] /\ request[r].pc \in Steps
  BY DEF TypeOK, RequestState
<1>1. ASSUME NEW step \in Steps, Goto(r, step)
      PROVE  /\ request'[r].pc = step
             /\ \A q \in Requests : q # r => request'[q] = request[q]
  BY <1>0, <1>1, GotoMoves
<1>2. ASSUME Finish(r)
      PROVE  /\ request'[r].pc = "idle"
             /\ \A q \in Requests : q # r => request'[q] = request[q]
  BY <1>0, <1>2, FinishMoves DEF Done
<1>3. CASE LoginCheck(r) BY <1>1, <1>3, Names DEF LoginCheck
<1>4. CASE LoginVerify(r)
  <2>1. CASE Goto(r, "incr") BY <1>1, <1>4, <2>1, Names
  <2>2. CASE Finish(r) BY <1>2, <2>2
  <2>3. CASE request' = [request EXCEPT ![r] = [Done EXCEPT !.pc = "last_login",
                             !.ver = user.token_version, !.epoch = epoch]]
    BY <1>0, <2>3 DEF Done
  <2> QED BY <1>4, <2>1, <2>2, <2>3 DEF LoginVerify
<1>5. CASE LoginStamp(r) BY <1>1, <1>5, Names DEF LoginStamp
<1>6. CASE LoginReset(r) BY <1>2, <1>6 DEF LoginReset
<1>7. CASE RecordFailure(r)
  <2>1. Goto(r, "expire") \/ Finish(r) BY <1>7 DEF RecordFailure
  <2> QED BY <1>1, <1>2, <1>7, <2>1, Names
<1>8. CASE RecordExpire(r) BY <1>2, <1>8 DEF RecordExpire
<1>9. CASE ChangeRead(r)
  <2>1. PICK step \in {"change", "deactivate"} :
           request' = [request EXCEPT ![r] = [Done EXCEPT !.pc = step,
                           !.ver = user.token_version, !.epoch = epoch]]
    BY <1>9 DEF ChangeRead
  <2> QED BY <1>0, <2>1 DEF Done
<1>10. CASE ChangeCommit(r) BY <1>2, <1>10 DEF ChangeCommit
<1>11. CASE DeactivateCommit(r) BY <1>2, <1>11 DEF DeactivateCommit
<1>12. CASE RefreshCheck(r)
  <2>1. PICK i \in DOMAIN pairs :
           request' = [request EXCEPT ![r] = [Done EXCEPT !.pc = "refresh", !.pair = i]]
    BY <1>12 DEF RefreshCheck
  <2> QED BY <1>0, <1>12, <2>1 DEF Done
<1>13. CASE RefreshRead(r)
  <2>1. CASE Finish(r) BY <1>2, <2>1
  <2>2. CASE request' = [request EXCEPT ![r].pc = "rotate", ![r].ver = user.token_version,
                                        ![r].epoch = pairs[request[r].pair].epoch]
    BY <1>0, <1>13, <2>2 DEF RequestState
  <2> QED BY <1>13, <2>1, <2>2 DEF RefreshRead
<1>14. CASE Rotate(r) BY <1>2, <1>14 DEF Rotate
<1>15. CASE AutoRefreshCheck(r)
  <2>1. PICK i \in DOMAIN pairs :
           request' = [request EXCEPT ![r] = [Done EXCEPT !.pc = "mint", !.pair = i]]
    BY <1>15 DEF AutoRefreshCheck
  <2> QED BY <1>0, <1>15, <2>1 DEF Done
<1>16. CASE Mint(r) BY <1>2, <1>16 DEF Mint
<1> QED
  BY <1>3, <1>4, <1>5, <1>6, <1>7, <1>8, <1>9, <1>10, <1>11, <1>12, <1>13, <1>14, <1>15,
     <1>16
  DEF RequestArrives, RequestStep

-----------------------------------------------------------------------------
(* Signing out.                                                            *)

\* A session that has been signed out stays so through every step of a request.
LEMMA RequestKeepsSignedOut ==
  ASSUME TypeOK, NEW r \in Requests, RequestArrives(r) \/ RequestStep(r),
         NEW i \in DOMAIN pairs, SignedOut(i)
  PROVE  SignedOut(i)'
<1> USE DEF tokens
<1>1. denied \subseteq denied'
  BY DEF RequestArrives, RequestStep, LoginCheck, LoginVerify, LoginStamp, LoginReset,
         RecordFailure, RecordExpire, ChangeRead, ChangeCommit, DeactivateCommit,
         RefreshCheck, RefreshRead, Rotate, AutoRefreshCheck, Mint
<1>2. i \notin access'
  <2>1. i # Len(pairs) + 1 /\ i \notin access BY DEF TypeOK, SignedOut
  <2>2. CASE LoginReset(r) \/ Rotate(r) \/ ChangeCommit(r)
    BY <2>1, <2>2 DEF LoginReset, Rotate, ChangeCommit, Issue
  <2>3. CASE Mint(r)
    <3>1. request[r].pair # i BY <2>3 DEF Mint, SignedOut
    <3> QED BY <2>1, <2>3, <3>1 DEF Mint
  <2>4. CASE UNCHANGED access BY <2>1, <2>4
  <2> QED
    BY <2>2, <2>3, <2>4
    DEF RequestArrives, RequestStep, LoginCheck, LoginVerify, LoginStamp, RecordFailure,
        RecordExpire, ChangeRead, DeactivateCommit, RefreshCheck, RefreshRead,
        AutoRefreshCheck
<1>3. ASSUME NEW q \in Requests, request'[q].pc = "mint"
      PROVE  request'[q].pair # i
  <2>1. CASE q # r
    <3>1. request'[q] = request[q] BY <2>1, Moves
    <3> QED BY <1>3, <3>1 DEF SignedOut
  <2>2. CASE q = r
    <3>1. AutoRefreshCheck(r) BY <1>3, <2>2, Moves
    <3>2. PICK j \in DOMAIN pairs \ (access \cup denied) :
             request' = [request EXCEPT ![r] = [Done EXCEPT !.pc = "mint", !.pair = j]]
      BY <3>1 DEF AutoRefreshCheck
    <3>3. request'[r].pair = j BY <3>2 DEF TypeOK, Done
    <3> QED BY <2>2, <3>2, <3>3 DEF SignedOut
  <2> QED BY <2>1, <2>2
<1> QED BY <1>1, <1>2, <1>3 DEF SignedOut

\* Accounts: a session that was signed out, has no access token left and none on the way
\* never has one again, whatever requests the middleware and the endpoints serve.
THEOREM SignedOutIsForGood == Spec => SignedOutForGood
<1>1. TypeOK /\ [Next]_vars =>
          [\A i \in DOMAIN pairs : SignedOut(i) => SignedOut(i)']_vars
  <2> SUFFICES ASSUME TypeOK, Next, NEW i \in DOMAIN pairs, SignedOut(i)
               PROVE  SignedOut(i)'
    OBVIOUS
  <2>1. CASE \E r \in Requests : RequestArrives(r) \/ RequestStep(r)
    BY <2>1, RequestKeepsSignedOut
  <2>2. CASE (\E j \in 1..MaxPairs : AccessExpires(j)) \/ AttemptsExpire \/ Logout
    BY <2>2 DEF AccessExpires, AttemptsExpire, Logout, tokens, SignedOut
  <2>3. CASE Crash BY <2>3 DEF Crash, tokens, SignedOut, Done
  <2> QED BY <2>1, <2>2, <2>3 DEF Next
<1> QED BY <1>1, TypeCorrect, PTL DEF Spec, SignedOutForGood

\* A refresh token that is spent stays so through every step of a request.
LEMMA RequestKeepsSpent ==
  ASSUME TypeOK, NEW r \in Requests, RequestArrives(r) \/ RequestStep(r),
         NEW i \in DOMAIN pairs, Spent(i)
  PROVE  Spent(i)'
<1>1. denied \subseteq denied'
  BY DEF RequestArrives, RequestStep, LoginCheck, LoginVerify, LoginStamp, LoginReset,
         RecordFailure, RecordExpire, ChangeRead, ChangeCommit, DeactivateCommit,
         RefreshCheck, RefreshRead, Rotate, AutoRefreshCheck, Mint, tokens
<1>2. ASSUME NEW q \in Requests, request'[q].pc \in {"refresh", "rotate"}
      PROVE  request'[q].pair # i
  <2>1. CASE q # r
    <3>1. request'[q] = request[q] BY <2>1, Moves
    <3> QED BY <1>2, <3>1 DEF Spent
  <2>2. CASE q = r
    <3>1. CASE RefreshCheck(r)
      <4>1. PICK j \in DOMAIN pairs \ denied :
               request' = [request EXCEPT ![r] = [Done EXCEPT !.pc = "refresh", !.pair = j]]
        BY <3>1 DEF RefreshCheck
      <4>2. request'[r].pair = j BY <4>1 DEF TypeOK, Done
      <4> QED BY <2>2, <4>1, <4>2 DEF Spent
    <3>2. CASE RefreshRead(r)
      <4>1. request[r].pc = "refresh" /\ request[r].pair # i
        BY <3>2 DEF RefreshRead, Spent
      <4>2. request[r].pair # i /\ (request'[r].pair = request[r].pair \/ request'[r] = Done)
        BY <3>2, <4>1 DEF RefreshRead, Finish, TypeOK, RequestState
      <4> QED BY <1>2, <2>2, <4>2 DEF Done
    <3>3. ~ RefreshCheck(r) /\ ~ RefreshRead(r) => request'[r].pc \notin {"refresh", "rotate"}
      BY Moves
    <3> QED BY <1>2, <2>2, <3>1, <3>2, <3>3
  <2> QED BY <2>1, <2>2
<1> QED BY <1>1, <1>2 DEF Spent

\* Accounts: a refresh token on the denylist, and held by no request that passed the check
\* before, is exchanged by none after: of the refreshes with one token only those that
\* overlap each get a pair.
THEOREM SpentIsForGood == Spec => SpentForGood
<1>1. TypeOK /\ [Next]_vars => [\A i \in DOMAIN pairs : Spent(i) => Spent(i)']_vars
  <2> SUFFICES ASSUME TypeOK, Next, NEW i \in DOMAIN pairs, Spent(i)
               PROVE  Spent(i)'
    OBVIOUS
  <2>1. CASE \E r \in Requests : RequestArrives(r) \/ RequestStep(r)
    BY <2>1, RequestKeepsSpent
  <2>2. CASE (\E j \in 1..MaxPairs : AccessExpires(j)) \/ AttemptsExpire \/ Logout
    BY <2>2 DEF AccessExpires, AttemptsExpire, Logout, tokens, Spent
  <2>3. CASE Crash BY <2>3 DEF Crash, tokens, Spent, Done
  <2> QED BY <2>1, <2>2, <2>3 DEF Next
<1> QED BY <1>1, TypeCorrect, PTL DEF Spec, SpentForGood

-----------------------------------------------------------------------------
(* Failed logins.                                                          *)

\* Accounts: a counter of failed logins never stays without an expiry while the process
\* runs, whichever of the logins side by side counted to one or reset it.
THEOREM CountersDoExpire == Spec => []CountersExpire
<1>1. Init => CountersExpire BY DEF Init, CountersExpire, NoAttempt
<1>2. TypeOK /\ CountersExpire /\ [Next]_vars => CountersExpire'
  <2> SUFFICES ASSUME TypeOK, CountersExpire, [Next]_vars,
                      attempts'.count > 0, ~ attempts'.expires, ~ crashes' > 0
               PROVE  \E s \in Requests : request'[s].pc = "expire"
    BY DEF CountersExpire
  <2> USE DEF tokens
  <2>0. /\ attempts \in [count : Nat, expires : BOOLEAN] /\ crashes \in Nat
        /\ attempts.count \in Nat
    BY BoundsAssumption DEF TypeOK
  <2>1. ASSUME NEW r \in Requests, RecordFailure(r)
        PROVE  \E s \in Requests : request'[s].pc = "expire"
    <3>1. attempts'.count = attempts.count + 1 /\ attempts'.expires = attempts.expires
      BY <2>0, <2>1 DEF RecordFailure
    <3>2. CASE attempts'.count = 1
      <4>1. Goto(r, "expire") BY <2>1, <3>2 DEF RecordFailure
      <4>2. request'[r].pc = "expire" BY <4>1, Names, GotoMoves DEF TypeOK
      <4> QED BY <4>2
    <3>3. CASE attempts'.count # 1
      <4>1. attempts.count > 0 BY <2>0, <3>1, <3>3
      <4>2. crashes' = crashes BY <2>1 DEF RecordFailure
      <4>3. PICK s \in Requests : request[s].pc = "expire"
        BY <3>1, <4>1, <4>2 DEF CountersExpire
      <4>4. s # r BY <2>1, <4>3 DEF RecordFailure
      <4>5. request'[s] = request[s] BY <2>1, <4>4, Moves DEF RequestStep
      <4> QED BY <4>3, <4>5
    <3> QED BY <3>2, <3>3
  <2>2. ASSUME NEW r \in Requests, RecordExpire(r)
        PROVE  FALSE
    <3>1. attempts'.count = attempts.count
          /\ attempts'.expires = (attempts.expires \/ attempts.count > 0)
      BY <2>0, <2>2 DEF RecordExpire
    <3> QED BY <3>1
  <2>3. ASSUME NEW r \in Requests, RequestArrives(r) \/ RequestStep(r),
               ~ RecordFailure(r), ~ RecordExpire(r)
        PROVE  \E s \in Requests : request'[s].pc = "expire"
    <3>1. CASE attempts' = NoAttempt BY <3>1 DEF NoAttempt
    <3>2. CASE UNCHANGED <<attempts, crashes>> /\ request[r].pc # "expire"
      <4>1. PICK s \in Requests : request[s].pc = "expire" BY <3>2 DEF CountersExpire
      <4>2. request'[s] = request[s] BY <2>3, <3>2, <4>1, Moves
      <4> QED BY <4>1, <4>2
    <3> QED
      BY <2>3, <3>1, <3>2
      DEF RequestArrives, RequestStep, LoginCheck, LoginVerify, LoginStamp, LoginReset,
          ChangeRead, ChangeCommit, DeactivateCommit, RefreshCheck, RefreshRead, Rotate,
          AutoRefreshCheck, Mint
  <2>4. CASE (\E i \in 1..MaxPairs : AccessExpires(i)) \/ Logout \/ UNCHANGED vars
    <3>1. UNCHANGED <<attempts, request, crashes>>
      BY <2>4 DEF AccessExpires, Logout, vars
    <3> QED BY <3>1 DEF CountersExpire
  <2>5. CASE AttemptsExpire BY <2>5 DEF AttemptsExpire, NoAttempt
  <2>6. CASE Crash BY <2>0, <2>6 DEF Crash
  <2> QED BY <2>1, <2>2, <2>3, <2>4, <2>5, <2>6 DEF Next
<1> QED BY <1>1, <1>2, TypeCorrect, PTL DEF Spec

\* The logins that passed the check and may still count a failure.
Failing == {r \in Requests : request[r].pc \in {"login", "incr"}}

\* Each of them may count once, so the bound holds of the sum.
AttemptsInv == attempts.count + Cardinality(Failing) < MaxLoginAttempts + Cardinality(Requests)

\* The logins in flight are no more than there are requests.
LEMMA FailingBounded ==
  /\ Cardinality(Requests) \in Nat
  /\ IsFiniteSet(Failing) /\ Cardinality(Failing) \in Nat
  /\ Cardinality(Failing) <= Cardinality(Requests)
<1>1. Failing \in SUBSET Requests BY DEF Failing
<1> QED BY <1>1, RequestsAssumption, FS_Subset, FS_CardinalityType

\* Where the logins in flight do not grow in number nor the counter in value, or the
\* counter is below the limit, the sum stays below its bound.
LEMMA SumKept ==
  ASSUME TypeOK, AttemptsInv, attempts'.count \in Nat,
         \/ attempts'.count < MaxLoginAttempts
         \/ Failing' \subseteq Failing /\ attempts'.count <= attempts.count
  PROVE  AttemptsInv'
<1>0. attempts.count \in Nat /\ MaxLoginAttempts \in Nat BY BoundsAssumption DEF TypeOK
<1>1. /\ Failing' \in SUBSET Requests
      /\ Cardinality(Failing') \in Nat /\ Cardinality(Failing') <= Cardinality(Requests)
  <2>1. Failing' \in SUBSET Requests BY DEF Failing
  <2> QED BY <2>1, RequestsAssumption, FS_Subset, FS_CardinalityType
<1>2. Failing' \subseteq Failing => Cardinality(Failing') <= Cardinality(Failing)
  BY FailingBounded, FS_Subset
<1> QED BY <1>0, <1>1, <1>2, FailingBounded DEF AttemptsInv

\* Accounts: logins that are checked side by side overshoot the limit of failed ones by
\* their number at most, whoever of them resets the counter meanwhile.
THEOREM AttemptsAreBounded == Spec => []AttemptsBounded
<1>1. Init => AttemptsInv
  <2> SUFFICES ASSUME Init PROVE AttemptsInv OBVIOUS
  <2>1. Failing = {} BY DEF Init, Failing, Done
  <2>2. Cardinality(Failing) = 0 BY <2>1, FS_EmptySet
  <2> QED BY <2>2, FailingBounded, BoundsAssumption DEF Init, AttemptsInv, NoAttempt
<1>2. TypeOK /\ TypeOK' /\ AttemptsInv /\ [Next]_vars => AttemptsInv'
  <2> SUFFICES ASSUME TypeOK, TypeOK', AttemptsInv, [Next]_vars PROVE AttemptsInv'
    OBVIOUS
  <2> USE DEF tokens
  <2>0. /\ attempts \in [count : Nat, expires : BOOLEAN]
        /\ attempts.count \in Nat /\ attempts'.count \in Nat
    BY DEF TypeOK
  <2>1. ASSUME NEW r \in Requests, RecordFailure(r) PROVE AttemptsInv'
    <3>1. attempts'.count = attempts.count + 1 BY <2>0, <2>1 DEF RecordFailure
    <3>2. request[r].pc = "incr" /\ r \in Failing BY <2>1 DEF RecordFailure, Failing
    <3>3. request'[r].pc \notin {"login", "incr"}
      <4>1. ~ LoginCheck(r) /\ ~ LoginVerify(r) BY <3>2 DEF LoginCheck, LoginVerify
      <4> QED BY <2>1, <4>1, Moves DEF RequestStep
    <3>4. \A q \in Requests : q # r => request'[q] = request[q]
      BY <2>1, Moves DEF RequestStep
    <3>5. Failing' = Failing \ {r} BY <3>3, <3>4 DEF Failing
    <3>6. Cardinality(Failing') = Cardinality(Failing) - 1
      BY <3>2, <3>5, FailingBounded, FS_RemoveElement
    <3> QED BY <2>0, <3>1, <3>6, FailingBounded, BoundsAssumption DEF AttemptsInv
  <2>2. ASSUME NEW r \in Requests, LoginCheck(r) PROVE AttemptsInv'
    BY <2>0, <2>2, SumKept DEF LoginCheck
  <2>3. ASSUME NEW r \in Requests, RequestArrives(r) \/ RequestStep(r),
               ~ RecordFailure(r), ~ LoginCheck(r)
        PROVE  AttemptsInv'
    <3>1. attempts'.count <= attempts.count
      <4>1. UNCHANGED attempts \/ attempts' = NoAttempt \/ attempts'.count = attempts.count
        BY <2>0, <2>3
        DEF RequestArrives, RequestStep, LoginVerify, LoginStamp, LoginReset, RecordExpire,
            ChangeRead, ChangeCommit, DeactivateCommit, RefreshCheck, RefreshRead, Rotate,
            AutoRefreshCheck, Mint
      <4> QED BY <2>0, <4>1 DEF NoAttempt
    <3>2. Failing' \subseteq Failing
      <4>1. ASSUME NEW q \in Requests, request'[q].pc \in {"login", "incr"}
            PROVE  request[q].pc \in {"login", "incr"}
        <5>1. CASE q # r BY <2>3, <4>1, <5>1, Moves
        <5>2. CASE q = r
          <6>1. LoginVerify(r) BY <2>3, <4>1, <5>2, Moves
          <6> QED BY <5>2, <6>1 DEF LoginVerify
        <5> QED BY <5>1, <5>2
      <4> QED BY <4>1 DEF Failing
    <3> QED BY <2>0, <3>1, <3>2, SumKept
  <2>4. CASE (\E i \in 1..MaxPairs : AccessExpires(i)) \/ Logout \/ AttemptsExpire
             \/ UNCHANGED vars
    <3>1. Failing' = Failing BY <2>4 DEF AccessExpires, Logout, AttemptsExpire, vars, Failing
    <3>2. attempts'.count <= attempts.count
      BY <2>0, <2>4 DEF AccessExpires, Logout, AttemptsExpire, vars, NoAttempt
    <3> QED BY <2>0, <3>1, <3>2, SumKept
  <2>5. CASE Crash
    <3>1. Failing' = {} BY <2>5 DEF Crash, Failing, Done
    <3>2. attempts'.count = attempts.count BY <2>5 DEF Crash
    <3> QED BY <2>0, <3>1, <3>2, SumKept
  <2> QED BY <2>1, <2>2, <2>3, <2>4, <2>5 DEF Next
<1>3. TypeOK /\ AttemptsInv => AttemptsBounded
  BY FailingBounded, BoundsAssumption DEF TypeOK, AttemptsInv, AttemptsBounded
<1> QED BY <1>1, <1>2, <1>3, TypeCorrect, PTL DEF Spec

=============================================================================
