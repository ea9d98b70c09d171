------------------------------ MODULE Accounts ------------------------------
(***************************************************************************)
(* One account: the users row, the tokens issued for it, the denylist of   *)
(* refresh tokens and the counter of failed logins (app/auth, app/user,    *)
(* app/core/security.py), with requests handled side by side.              *)
(*                                                                         *)
(* An access token and the refresh token issued with it are one pair; both *)
(* carry the token version they were issued under.  An access token that   *)
(* expired is replaced by a middleware, with the version of the refresh    *)
(* token beside it.  Refresh tokens do not expire here, so that more of    *)
(* them are accepted than in the program.                                  *)
(***************************************************************************)
EXTENDS Naturals, Sequences, FiniteSets

CONSTANTS
    Requests,          \* bound: requests handled at once
    Changers,          \* those of them that may change the password or deactivate
    MaxLoginAttempts,  \* MAX_LOGIN_ATTEMPTS
    MaxPairs,          \* bound: pairs of tokens issued
    MaxCrashes         \* bound: crashes of the process

ASSUME RequestsAssumption == IsFiniteSet(Requests)
ASSUME ChangersAssumption == Changers \subseteq Requests
ASSUME BoundsAssumption   ==
    MaxLoginAttempts \in Nat \ {0} /\ MaxPairs \in Nat \ {0} /\ MaxCrashes \in Nat

VARIABLES
    user,      \* the users row: token_version and is_active
    epoch,     \* history: changes of the password and deactivations so far
    pairs,     \* token pairs by number: version, the epoch of the credentials
    access,    \* the pairs whose access token has not expired
    denied,    \* Redis blacklist:refresh:{token}, by pair
    attempts,  \* Redis login_attempts:{email}: its count, and whether it expires
    request,   \* the handler of each request
    crashes    \* how many crashes happened

tokens == <<pairs, access, denied>>
vars   == <<user, epoch, tokens, attempts, request, crashes>>

Steps     == {"idle", "login", "last_login", "reset", "incr", "expire",
              "change", "deactivate", "refresh", "rotate", "mint"}
Done      == [pc |-> "idle", ver |-> 0, epoch |-> 0, pair |-> 0]
NoAttempt == [count |-> 0, expires |-> FALSE]

RequestState == [pc : Steps, ver : Nat, epoch : Nat, pair : 0..MaxPairs]
Pair         == [ver : Nat, epoch : Nat]

TypeOK ==
    /\ user \in [token_version : Nat, is_active : BOOLEAN]
    /\ epoch \in Nat
    /\ pairs \in Seq(Pair) /\ Len(pairs) \in 1..MaxPairs
    /\ access \subseteq DOMAIN pairs /\ denied \subseteq DOMAIN pairs
    /\ attempts \in [count : Nat, expires : BOOLEAN]
    /\ request \in [Requests -> RequestState]
    /\ \A r \in Requests :
        /\ request[r].pc \in {"refresh", "rotate", "mint"} => request[r].pair \in DOMAIN pairs
        /\ request[r].pc \in {"change", "deactivate"} => r \in Changers
    /\ crashes \in 0..MaxCrashes

\* register has created the user and issued a first pair.
Init ==
    /\ user = [token_version |-> 0, is_active |-> TRUE]
    /\ epoch = 0
    /\ pairs = <<[ver |-> 0, epoch |-> 0]>> /\ access = {1} /\ denied = {}
    /\ attempts = NoAttempt
    /\ request = [r \in Requests |-> Done]
    /\ crashes = 0

\* What get_current_user and refresh ask of the version a token carries.
Accepted(i) == pairs[i].ver = user.token_version /\ user.is_active

Issue(ver, ep) ==
    /\ Len(pairs) < MaxPairs
    /\ pairs' = Append(pairs, [ver |-> ver, epoch |-> ep])
    /\ access' = access \cup {Len(pairs) + 1}

Goto(r, step) == request' = [request EXCEPT ![r].pc = step]
Finish(r)     == request' = [request EXCEPT ![r] = Done]

-----------------------------------------------------------------------------
(* Faulty variants of steps below, in no specification: each shows that a   *)
(* property notices the bug it names.                                       *)

\* A lock-out that begins one failure late.
LoginCheckOffByOne(r) ==
    /\ request[r].pc = "idle" /\ attempts.count <= MaxLoginAttempts
    /\ Goto(r, "login")
    /\ UNCHANGED <<user, epoch, tokens, attempts, crashes>>

\* A commit of update_last_login that writes the whole row as it was read.
LoginStampWholeRow(r) ==
    /\ request[r].pc = "last_login"
    /\ user' = [token_version |-> request[r].ver, is_active |-> TRUE]
    /\ Goto(r, "reset")
    /\ UNCHANGED <<epoch, tokens, attempts, crashes>>

\* A login that reads the version again when it issues the tokens.
LoginResetFreshVersion(r) ==
    /\ request[r].pc = "reset"
    /\ attempts' = NoAttempt
    /\ Issue(user.token_version, request[r].epoch)
    /\ Finish(r)
    /\ UNCHANGED <<user, epoch, denied, crashes>>

\* A successful login that takes one failure back instead of deleting the key.
LoginResetDecrements(r) ==
    /\ request[r].pc = "reset"
    /\ attempts' = [attempts EXCEPT !.count = @ - 1]
    /\ Issue(request[r].ver, request[r].epoch)
    /\ Finish(r)
    /\ UNCHANGED <<user, epoch, denied, crashes>>

\* A counter that expires only once it has locked the account.
RecordFailureExpireLate(r) ==
    /\ request[r].pc = "incr"
    /\ attempts' = [attempts EXCEPT !.count = @ + 1]
    /\ IF attempts'.count > MaxLoginAttempts THEN Goto(r, "expire") ELSE Finish(r)
    /\ UNCHANGED <<user, epoch, tokens, crashes>>

\* A middleware that does not ask the denylist.
AutoRefreshUnchecked(r) ==
    /\ request[r].pc = "idle"
    /\ \E i \in DOMAIN pairs \ access :
           request' = [request EXCEPT ![r] = [Done EXCEPT !.pc = "mint", !.pair = i]]
    /\ UNCHANGED <<user, epoch, tokens, attempts, crashes>>

\* A refresh that checks its token's signature and does not ask the denylist.
RefreshCheckUnchecked(r) ==
    /\ request[r].pc = "idle"
    /\ \E i \in DOMAIN pairs :
           request' = [request EXCEPT ![r] = [Done EXCEPT !.pc = "refresh", !.pair = i]]
    /\ UNCHANGED <<user, epoch, tokens, attempts, crashes>>

-----------------------------------------------------------------------------
(* login.                                                                  *)

LoginCheck(r) ==
    /\ request[r].pc = "idle" /\ attempts.count < MaxLoginAttempts
    /\ Goto(r, "login")
    /\ UNCHANGED <<user, epoch, tokens, attempts, crashes>>

\* The password is the one in force, or not; an inactive user is not counted.
LoginVerify(r) ==
    /\ request[r].pc = "login"
    /\ \/ Goto(r, "incr")
       \/ ~ user.is_active /\ Finish(r)
       \/ /\ user.is_active
          /\ request' = [request EXCEPT ![r] = [Done EXCEPT !.pc = "last_login",
                             !.ver = user.token_version, !.epoch = epoch]]
    /\ UNCHANGED <<user, epoch, tokens, attempts, crashes>>

\* The commit of update_last_login writes that column alone.
LoginStamp(r) ==
    /\ request[r].pc = "last_login"
    /\ Goto(r, "reset")
    /\ UNCHANGED <<user, epoch, tokens, attempts, crashes>>

\* The tokens carry the version of the row as it was read.
LoginReset(r) ==
    /\ request[r].pc = "reset"
    /\ attempts' = NoAttempt
    /\ Issue(request[r].ver, request[r].epoch)
    /\ Finish(r)
    /\ UNCHANGED <<user, epoch, denied, crashes>>

RecordFailure(r) ==
    /\ request[r].pc = "incr"
    /\ attempts' = [attempts EXCEPT !.count = @ + 1]
    /\ IF attempts'.count = 1 THEN Goto(r, "expire") ELSE Finish(r)
    /\ UNCHANGED <<user, epoch, tokens, crashes>>

\* EXPIRE sets nothing on a key that was deleted meanwhile.
RecordExpire(r) ==
    /\ request[r].pc = "expire"
    /\ attempts' = [attempts EXCEPT !.expires = @ \/ attempts.count > 0]
    /\ Finish(r)
    /\ UNCHANGED <<user, epoch, tokens, crashes>>

AttemptsExpire ==
    /\ attempts.expires /\ attempts' = NoAttempt
    /\ UNCHANGED <<user, epoch, tokens, request, crashes>>

-----------------------------------------------------------------------------
(* change_password and deactivate_account, by a holder of an accepted token *)
(* whose row is the one the commit is computed from.                       *)

ChangeRead(r) ==
    /\ request[r].pc = "idle" /\ r \in Changers
    /\ \E i \in access : Accepted(i)
    /\ \E step \in {"change", "deactivate"} :
           request' = [request EXCEPT ![r] = [Done EXCEPT !.pc = step,
                           !.ver = user.token_version, !.epoch = epoch]]
    /\ UNCHANGED <<user, epoch, tokens, attempts, crashes>>

\* The new password and version, and a pair for the session that asked for it.
ChangeCommit(r) ==
    /\ request[r].pc = "change"
    /\ user' = [user EXCEPT !.token_version = request[r].ver + 1]
    /\ epoch' = epoch + 1
    /\ Issue(request[r].ver + 1, epoch')
    /\ Finish(r)
    /\ UNCHANGED <<denied, attempts, crashes>>

DeactivateCommit(r) ==
    /\ request[r].pc = "deactivate"
    /\ user' = [token_version |-> request[r].ver + 1, is_active |-> FALSE]
    /\ epoch' = epoch + 1
    /\ Finish(r)
    /\ UNCHANGED <<tokens, attempts, crashes>>

-----------------------------------------------------------------------------
(* refresh and logout.                                                     *)

RefreshCheck(r) ==
    /\ request[r].pc = "idle"
    /\ \E i \in DOMAIN pairs \ denied :
           request' = [request EXCEPT ![r] = [Done EXCEPT !.pc = "refresh", !.pair = i]]
    /\ UNCHANGED <<user, epoch, tokens, attempts, crashes>>

RefreshRead(r) ==
    /\ request[r].pc = "refresh"
    /\ IF Accepted(request[r].pair)
       THEN request' = [request EXCEPT ![r].pc = "rotate", ![r].ver = user.token_version,
                                       ![r].epoch = pairs[request[r].pair].epoch]
       ELSE Finish(r)
    /\ UNCHANGED <<user, epoch, tokens, attempts, crashes>>

\* The presented token is put on the denylist and a new pair is issued.
Rotate(r) ==
    LET i == request[r].pair IN
    /\ request[r].pc = "rotate"
    /\ denied' = denied \cup {i}
    /\ Issue(request[r].ver, request[r].epoch)
    /\ Finish(r)
    /\ UNCHANGED <<user, epoch, attempts, crashes>>

Logout ==
    /\ \E i \in DOMAIN pairs : denied' = denied \cup {i}
    /\ UNCHANGED <<user, epoch, pairs, access, attempts, request, crashes>>

-----------------------------------------------------------------------------
(* The middleware that replaces an expired access token.                   *)

\* The refresh token beside it is not on the denylist.
AutoRefreshCheck(r) ==
    /\ request[r].pc = "idle"
    /\ \E i \in DOMAIN pairs \ (access \cup denied) :
           request' = [request EXCEPT ![r] = [Done EXCEPT !.pc = "mint", !.pair = i]]
    /\ UNCHANGED <<user, epoch, tokens, attempts, crashes>>

\* The new access token has the version of the refresh token.
Mint(r) ==
    /\ request[r].pc = "mint"
    /\ access' = access \cup {request[r].pair}
    /\ Finish(r)
    /\ UNCHANGED <<user, epoch, pairs, denied, attempts, crashes>>

AccessExpires(i) ==
    /\ i \in access /\ access' = access \ {i}
    /\ UNCHANGED <<user, epoch, pairs, denied, attempts, request, crashes>>

\* The process dies with its requests; PostgreSQL and Redis keep theirs.
Crash ==
    /\ crashes < MaxCrashes /\ crashes' = crashes + 1
    /\ request' = [r \in Requests |-> Done]
    /\ UNCHANGED <<user, epoch, tokens, attempts>>

-----------------------------------------------------------------------------
(* The specification.                                                      *)

RequestArrives(r) ==
    LoginCheck(r) \/ ChangeRead(r) \/ RefreshCheck(r) \/ AutoRefreshCheck(r)

RequestStep(r) ==
    \/ LoginVerify(r) \/ LoginStamp(r) \/ LoginReset(r)
    \/ RecordFailure(r) \/ RecordExpire(r)
    \/ ChangeCommit(r) \/ DeactivateCommit(r) \/ RefreshRead(r) \/ Rotate(r) \/ Mint(r)

Next ==
    \/ \E r \in Requests : RequestArrives(r) \/ RequestStep(r)
    \/ \E i \in 1..MaxPairs : AccessExpires(i)
    \/ AttemptsExpire \/ Logout \/ Crash

Spec == Init /\ [][Next]_vars

-----------------------------------------------------------------------------
(* Properties.                                                             *)

\* No token issued for the credentials of an earlier epoch is accepted, not
\* even one that a login or a refresh, begun before a change of the password
\* was committed, issues after it: it carries the version that was read.
StaleTokensRefused ==
    \A i \in DOMAIN pairs : pairs[i].epoch < epoch => ~ Accepted(i)

\* What was refused once stays refused: the version never returns to a value it
\* had, and nobody is activated again.
RefusedForGood ==
    [][\A i \in DOMAIN pairs : ~ Accepted(i) => ~ Accepted(i)']_vars

\* Signing out ends a session for good: once its refresh token is on the denylist, its
\* access token has expired and no request that passed the check is about to replace
\* it, none ever will be.
SignedOut(i) ==
    /\ i \in denied \ access
    /\ \A r \in Requests : ~ (request[r].pc = "mint" /\ request[r].pair = i)

SignedOutForGood == [][\A i \in DOMAIN pairs : SignedOut(i) => SignedOut(i)']_vars

\* A refresh token has, if not a single use, a last one: once it is on the denylist and
\* the refreshes that passed the check beside the one that put it there have ended, no
\* request ever exchanges it again.
Spent(i) ==
    /\ i \in denied
    /\ \A r \in Requests : ~ (request[r].pc \in {"refresh", "rotate"} /\ request[r].pair = i)

SpentForGood == [][\A i \in DOMAIN pairs : Spent(i) => Spent(i)']_vars

\* The counter is checked before the password and incremented after it, so
\* that logins side by side may overshoot the limit, by their number at most.
AttemptsBounded == attempts.count < MaxLoginAttempts + Cardinality(Requests)

\* A lock-out ends: whatever logins fail, succeed or reset the counter side by side, a
\* counter expires or one of them is about to make it, unless the process died in
\* between, which may leave the account locked for good.
CountersExpire ==
    attempts.count > 0 /\ ~ attempts.expires =>
        crashes > 0 \/ \E r \in Requests : request[r].pc = "expire"

=============================================================================
