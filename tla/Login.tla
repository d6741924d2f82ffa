------------------------------- MODULE Login -------------------------------
(***************************************************************************)
(* Logging in and signing requests: the client's shared signer and its     *)
(* `with_login` loop (client/src/lib.rs, client/src/commands.rs), and the  *)
(* proxy's table of challenges and logins (proxy/src/login.rs).            *)
(*                                                                         *)
(* A client runs several request futures at once, all signing with the     *)
(* same credentials.  The proxy refuses what it cannot authorize with a    *)
(* fresh challenge; the first refused future to take the login lock has    *)
(* the SSH agent sign the challenge, and the others retry with what it     *)
(* got.  A login is identified by the nonce of the challenge it answered.  *)
(*                                                                         *)
(* A request is on the `wire` until the proxy checks it, and `routed` from *)
(* then until the rack has answered it.  A request whose future was        *)
(* dropped is still delivered, from nobody (Gone).                         *)
(***************************************************************************)
EXTENDS Naturals, FiniteSets, Sequences, SequencesExt, SeqWindow

CONSTANTS
    Futures,          \* the request futures of the client
    Gone, Free,       \* nobody; the login lock is not held
    MaxNonces,        \* MAX_OUTSTANDING_NONCES
    MaxIdentities     \* MAX_CACHED_IDENTITIES

ASSUME LoginAssumption ==
    /\ MaxNonces \in Nat \ {0} /\ MaxIdentities \in Nat \ {0}
    /\ Gone \notin Futures /\ Free \notin Futures

VARIABLES
    signer,      \* AuthzState: credentials, how often set, next seq, lock
    task,        \* the with_login call each future is in
    wire,        \* requests sent and not yet seen by the proxy
    routed,      \* requests the proxy let through, not yet answered
    proxy,       \* Logins: nonces and identities, least recently used first
    spent,       \* history: the requests authorized that are under way again,
                 \* by login and number
    upsets       \* disturbances to come

loginVars == <<signer, task, wire, routed, proxy, spent, upsets>>

Idle == [pc |-> "off", kind |-> "none", arg |-> <<>>, gen |-> 0,
         loggedIn |-> FALSE, used |-> 0, nonce |-> 0,
         reply |-> "none", data |-> <<>>, reached |-> 0]

LoginInit ==
    /\ signer = [authz |-> 0, generation |-> 0, next |-> 1, lock |-> Free]
    /\ task = [t \in Futures |-> Idle]
    /\ wire = {} /\ routed = {}
    /\ proxy = [nonces |-> <<>>, identities |-> <<>>, minted |-> 0]
    /\ spent = {}

-----------------------------------------------------------------------------
(* The client side.                                                        *)

\* with_login starts.  `retry` is FALSE for the requests made without it.
Begun(kind, arg, retry) ==
    [Idle EXCEPT !.pc = "ready", !.kind = kind, !.arg = arg, !.loggedIn = ~retry]

\* The credentials of a request: with no login it only claims a key, which no
\* proxy authorizes ...
Claimed(t) ==
    [from |-> t, kind |-> task[t].kind, arg |-> task[t].arg, login |-> 0, seq |-> 0]

\* ... and with one it is signed with the key of the login, under a number.
Bound(t) == [Claimed(t) EXCEPT !.login = signer.authz, !.seq = signer.next]

\* The credentials of a login answer a challenge.
Initial(t) ==
    [from |-> t, kind |-> "login", arg |-> <<>>, login |-> task[t].nonce, seq |-> 0]

\* with_login notes the generation of the credentials, and sign_request, the
\* pre-send hook, takes the credentials and the next sequence number, before
\* any connection is made.
Send(t) ==
    /\ task[t].pc = "ready"
    /\ IF signer.authz = 0
       THEN wire' = wire \cup {Claimed(t)} /\ UNCHANGED signer
       ELSE wire' = wire \cup {Bound(t)} /\ signer' = [signer EXCEPT !.next = @ + 1]
    /\ task' = [task EXCEPT ![t].pc = "sent", ![t].used = signer.authz,
                            ![t].gen = signer.generation]
    /\ UNCHANGED <<routed, proxy, spent, upsets>>

\* A refusal is answered by logging in, once in a call; any other answer is
\* the result of the call.
IsRefused(t) ==
    task[t].pc = "answered" /\ task[t].reply = "refused" /\ ~task[t].loggedIn

IsDone(t) == task[t].pc = "answered" /\ ~IsRefused(t)

\* Mutant of LoginNeeded: whoever takes the lock logs in.
LoginAlwaysNeeded(t) == TRUE

\* login_needed: whoever takes the lock logs in, unless the credentials were
\* set while it waited; then it retries with those.
LoginNeeded(t) == signer.generation = task[t].gen

\* Mutant of TakeLock: a request whose answer was lost is made again.
TakeLockOrRepeat(t) ==
    /\ task[t].pc = "answered" /\ task[t].reply \in {"refused", "lost"}
    /\ signer.lock = Free
    /\ task' = [task EXCEPT ![t].pc = IF task[t].reply = "lost" THEN "ready" ELSE "agent"]
    /\ signer' = IF task[t].reply = "lost" THEN signer ELSE [signer EXCEPT !.lock = t]
    /\ UNCHANGED <<wire, routed, proxy, spent, upsets>>

TakeLock(t) ==
    /\ IsRefused(t)
    /\ signer.lock = Free
    /\ IF LoginNeeded(t)
       THEN /\ signer' = [signer EXCEPT !.lock = t]
            /\ task' = [task EXCEPT ![t].pc = "agent"]
       ELSE /\ task' = [task EXCEPT ![t].pc = "ready"]
            /\ UNCHANGED signer
    /\ UNCHANGED <<wire, routed, proxy, spent, upsets>>

\* The call ends in an error, and drops the login lock if it held it.
Failed(t, why) ==
    /\ task' = [task EXCEPT ![t].pc = "answered", ![t].reply = why, ![t].loggedIn = TRUE]
    /\ signer' = [signer EXCEPT !.lock = IF @ = t THEN Free ELSE @]

\* The agent is asked for the key's identity, which may fail ...
AskAgent(t) ==
    /\ task[t].pc = "agent"
    /\ \/ /\ task' = [task EXCEPT ![t].pc = "touch"]
          /\ UNCHANGED <<signer, upsets>>
       \/ /\ upsets > 0
          /\ upsets' = upsets - 1
          /\ Failed(t, "error")
    /\ UNCHANGED <<wire, routed, proxy, spent>>

\* ... and then for a signature of the challenge, which its user may have to
\* touch a key for; the credentials are posted to /iam.
SignChallenge(t) ==
    /\ task[t].pc = "touch"
    /\ task' = [task EXCEPT ![t].pc = "posted"]
    /\ wire' = wire \cup {Initial(t)}
    /\ UNCHANGED <<signer, routed, proxy, spent, upsets>>

\* Mutant of LoggedIn: the lock is kept for the retry.
LoggedInLocked(t) ==
    /\ task[t].pc = "loginAnswered"
    /\ \/ /\ task[t].reply = "ok"
          /\ signer' = [authz |-> task[t].nonce, generation |-> signer.generation + 1,
                        next |-> 1, lock |-> t]
          /\ task' = [task EXCEPT ![t].pc = "ready", ![t].loggedIn = TRUE]
       \/ task[t].reply # "ok" /\ Failed(t, task[t].reply)
    /\ UNCHANGED <<wire, routed, proxy, spent, upsets>>

\* set_credentials, and the retry.  A refused login ends the call.
LoggedIn(t) ==
    /\ task[t].pc = "loginAnswered"
    /\ \/ /\ task[t].reply = "ok"
          /\ signer' = [authz |-> task[t].nonce, generation |-> signer.generation + 1,
                        next |-> 1, lock |-> Free]
          /\ task' = [task EXCEPT ![t].pc = "ready", ![t].loggedIn = TRUE]
       \/ task[t].reply # "ok" /\ Failed(t, task[t].reply)
    /\ UNCHANGED <<wire, routed, proxy, spent, upsets>>

\* One step of the call that future t is in.
CallStep(t) ==
    \/ Send(t)
    \/ TakeLock(t)
    \/ AskAgent(t)
    \/ SignChallenge(t)
    \/ LoggedIn(t)

\* Dropping a future lets its request go on, from nobody, and frees the lock.
Orphaned(rs, T) == {[r EXCEPT !.from = IF @ \in T THEN Gone ELSE @] : r \in rs}

Unlocked(T) == [signer EXCEPT !.lock = IF @ \in T THEN Free ELSE @]

-----------------------------------------------------------------------------
(* The proxy side.                                                         *)

\* The futures' calls once request r is answered; nobody hears an orphan's.
Answered(r, reply, data, nonce) ==
    IF r.from = Gone THEN task
    ELSE [task EXCEPT ![r.from].pc =
                        IF r.kind = "login" THEN "loginAnswered" ELSE "answered",
                      ![r.from].reply = reply,
                      ![r.from].data = data,
                      ![r.from].nonce = IF nonce = 0 THEN @ ELSE nonce]

\* A cache that keeps its `max` most recently used entries.
Put(cache, max, x) ==
    LET longer == Append(cache, x)
    IN  IF Len(longer) > max THEN Tail(longer) ELSE longer

\* A challenge is a nonce that was not used before.
Challenge(nonce) == [nonce |-> nonce, fresh |-> TRUE]

\* refuse_failure: every failure mints a challenge, so that the client can
\* log in again.
Refuse(r, nonces, identities) ==
    LET nonce == proxy.minted + 1
    IN  /\ proxy' = [minted |-> nonce,
                     nonces |-> Put(nonces, MaxNonces, Challenge(nonce)),
                     identities |-> identities]
        /\ task' = Answered(r, "refused", <<>>, nonce)
        /\ UNCHANGED <<routed, spent>>

\* What a login caches.
NewIdentity(login) == [login |-> login, valid |-> TRUE, window |-> NewWindow]

\* Authn: a request is a login by the credentials it comes with.
IsInitial(r) == r.kind = "login"

\* verify_login claims the nonce, and caches an identity for it; a nonce that
\* has expired is claimed in vain.
CheckLogin(r) ==
    LET others == SelectSeq(proxy.nonces, LAMBDA c : c.nonce # r.login)
    IN  /\ IsInitial(r)
        /\ IF Challenge(r.login) \in ToSet(proxy.nonces)
           THEN /\ proxy' = [proxy EXCEPT
                     !.nonces = others,
                     !.identities = Put(@, MaxIdentities, NewIdentity(r.login))]
                /\ task' = Answered(r, "ok", <<>>, 0)
                /\ UNCHANGED <<routed, spent>>
           ELSE Refuse(r, others, proxy.identities)

\* The key of a login verifies what was signed with it, and nothing else.
Verifies(c, r) == c.login = r.login

\* verify_request: finding the identity makes it the most recently used, even
\* when it has expired (it is then dropped) or the number is spent.
CheckRequest(r) ==
    LET found == SelectSeq(proxy.identities, LAMBDA c : Verifies(c, r))
        others == SelectSeq(proxy.identities, LAMBDA c : ~Verifies(c, r))
    IN  /\ ~IsInitial(r)
        /\ IF r.login = 0 \/ found = <<>> THEN Refuse(r, proxy.nonces, proxy.identities)
           ELSE IF ~Head(found).valid THEN Refuse(r, proxy.nonces, others)
           ELSE IF ~Unspent(Head(found).window, r.seq)
           THEN Refuse(r, proxy.nonces, others \o found)
           ELSE /\ proxy' = [proxy EXCEPT !.identities =
                       Append(others, [Head(found) EXCEPT !.window = Spend(@, r.seq)])]
                /\ spent' = {s \in spent \cup {<<r.login, r.seq>>} :
                               \E q \in wire' : s = <<q.login, q.seq>>}
                /\ routed' = routed \cup {[r EXCEPT !.seq = 0]}
                /\ task' = IF r.from = Gone THEN task
                           ELSE [task EXCEPT ![r.from].reached = @ + 1]

\* check_login, on a request that needs one.
ProxyCheck(r) ==
    /\ r \in wire
    /\ wire' = wire \ {r}
    /\ CheckLogin(r) \/ CheckRequest(r)
    /\ UNCHANGED <<signer, upsets>>

-----------------------------------------------------------------------------
(* Disturbances.                                                           *)

Upset == upsets > 0 /\ upsets' = upsets - 1

\* The proxy restarts: its tables are only in memory.
ProxyRestart ==
    /\ Upset
    /\ proxy.identities # <<>> \/ proxy.nonces # <<>>
    /\ proxy' = [proxy EXCEPT !.nonces = <<>>, !.identities = <<>>]
    /\ UNCHANGED <<signer, task, wire, routed, spent>>

\* A login outlives IDENTITY_MAX_TTL, or is idle for IDENTITY_IDLE_TTL.
Expire(i) ==
    /\ Upset
    /\ proxy.identities[i].valid
    /\ proxy' = [proxy EXCEPT !.identities[i].valid = FALSE]
    /\ UNCHANGED <<signer, task, wire, routed, spent>>

\* A challenge outlives NONCE_TTL before it is answered.
ExpireNonce(i) ==
    /\ Upset
    /\ proxy.nonces[i].fresh
    /\ proxy' = [proxy EXCEPT !.nonces[i].fresh = FALSE]
    /\ UNCHANGED <<signer, task, wire, routed, spent>>

\* Someone else is refused, which mints a challenge, or logs in.  Their nonce
\* is no login of this client's.
OtherUser ==
    /\ Upset
    /\ \/ proxy' = [proxy EXCEPT !.nonces = Put(@, MaxNonces, Challenge(0))]
       \/ proxy' = [proxy EXCEPT !.identities = Put(@, MaxIdentities, NewIdentity(0))]
    /\ UNCHANGED <<signer, task, wire, routed, spent>>

\* The connection fails under a request, or the client's own timeout fires:
\* the request may still arrive, or not.
Cut(r, why) ==
    /\ Upset
    /\ r \in wire \cup routed /\ r.from # Gone
    /\ task' = Answered(r, why, <<>>, 0)
    /\ \/ wire' = wire \ {r} /\ routed' = routed \ {r}
       \/ wire' = Orphaned(wire, {r.from}) /\ routed' = Orphaned(routed, {r.from})
    /\ UNCHANGED <<signer, proxy, spent>>

\* A request is delivered, and will be again.
Duplicate(r) ==
    /\ Upset
    /\ r \in wire /\ r.from # Gone
    /\ wire' = (wire \ {r}) \cup {[r EXCEPT !.from = Gone]}
    /\ CheckLogin(r) \/ CheckRequest(r)
    /\ UNCHANGED signer

LoginUpset ==
    \/ ProxyRestart
    \/ \E i \in DOMAIN proxy.identities : Expire(i)
    \/ \E i \in DOMAIN proxy.nonces : ExpireNonce(i)
    \/ OtherUser
    \/ \E r \in wire \cup routed, why \in {"lost", "timeout"} : Cut(r, why)
    \/ \E r \in wire : Duplicate(r)

=============================================================================
