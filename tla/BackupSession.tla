--------------------------- MODULE BackupSession ---------------------------
(***************************************************************************)
(* The session of hosted backup: sign-up and claim, login, recovery,       *)
(* logout, account deletion and the authenticated calls                    *)
(* (internal/backup/auth, client, keychain, oidc, crypto and the backup    *)
(* commands), run by several processes of one user that share the OS       *)
(* keychain and the refresh lock.  The service is external: it is modelled *)
(* by the answers the client and docs/contracts rely on.                   *)
(*                                                                         *)
(* A key derived from a secret and a salt is the pair of both, so keys are *)
(* equal exactly when secret and salt are.                                 *)
(***************************************************************************)
EXTENDS Naturals, Sequences, FiniteSets

CONSTANTS
  Procs, Emails,
  Passphrases,
  Plans,        \* what a user runs: [cmd, email, pass]
  None,
  MaxRetries,   \* RetryPolicy.MaxRetries
  MaxCmds, MaxAccounts, MaxExpiries, MaxFaults   \* bounds

Commands == {"status", "push", "login", "recover", "signup", "logout", "delete"}

ASSUME SessionBounds ==
  /\ MaxRetries \in Nat /\ MaxCmds \in Nat /\ MaxAccounts \in Nat
  /\ MaxExpiries \in Nat /\ MaxFaults \in Nat
  /\ \A x \in Plans : x.email \in Emails /\ x.pass \in Passphrases /\ x.cmd \in Commands
  /\ None \notin Procs

Ids == 1..MaxAccounts
NoId == 0        \* no account, and no token
Phrase(e) == <<"phrase", e>>
DeriveKeys(secret, salt) == <<secret, salt>>

VARIABLES
  \* The service
  accounts,    \* accounts[a]: [email, live, salt, password, wrapped, recovery]
  owner,       \* owner[n]: the account of the n-th pair of tokens
  goodRT, goodAT, ticket,   \* tokens the service accepts; accounts with a recovery token out
  \* The machine
  kc,          \* keychain: [cur, rt, at, dek, wrapped]
  lock,        \* holder of refresh.lock, or None
  stale,       \* access tokens this machine's clock takes for expired
  proc,        \* the processes
  cmds, expiries, faults, salts,
  \* What the properties remember
  told,        \* told[p]: how the last command of p ended
  burnt,       \* a rotated refresh token never reached the keychain
  early,       \* an access token ran out in the call that had just fetched it
  closed,      \* accounts signed out of or deleted so far
  sealed       \* pairs <<account, data key>> of what was uploaded

server == <<accounts, owner, goodRT, goodAT, ticket>>
clock == <<expiries, early>>
counters == <<cmds, clock, salts>>
ghosts == <<told, burnt, closed, sealed>>
vars == <<server, kc, lock, stale, proc, counters, faults, ghosts>>

Fault == faults < MaxFaults /\ faults' = faults + 1
Fine == UNCHANGED faults

Idle == [pc |-> "idle", cmd |-> "none", email |-> None, pass |-> None, req |-> "none",
         uid |-> NoId, rt |-> NoId, at |-> NoId, sent |-> NoId, got |-> 0, step |-> 0,
         tries |-> 0, refreshed |-> FALSE, ok |-> TRUE]

Init ==
  /\ accounts = <<>> /\ owner = <<>> /\ goodRT = {} /\ goodAT = {} /\ ticket = {}
  /\ kc = [cur |-> NoId, rt |-> [a \in Ids |-> NoId], at |-> [a \in Ids |-> NoId],
           dek |-> [a \in Ids |-> NoId], wrapped |-> [a \in Ids |-> <<>>]]
  /\ lock = None /\ stale = {} /\ proc = [p \in Procs |-> Idle]
  /\ cmds = 0 /\ expiries = 0 /\ faults = 0 /\ salts = 0
  /\ told = [p \in Procs |-> <<"none", "none", NoId>>]
  /\ burnt = FALSE /\ early = FALSE /\ closed = {} /\ sealed = {}

Live(e) == {a \in DOMAIN accounts : accounts[a].live /\ accounts[a].email = e}
Set(p, r) == proc' = [proc EXCEPT ![p] = r]
Unlock(p) == lock' = IF lock = p THEN None ELSE lock

\* The command of p returns; nothing of its memory survives the process.
End(p, how) ==
  /\ Set(p, Idle) /\ told' = [told EXCEPT ![p] = <<proc[p].cmd, how, proc[p].uid>>] /\ Unlock(p)

-----------------------------------------------------------------------------
(* The commands up to their first request. *)

\* loadCachedAccess: a cached access token near its expiry is not used.
CachedAccess(a) == IF kc.at[a] \in stale THEN NoId ELSE kc.at[a]

\* Hydrate: refresh token and access token of one user.
Hydrated(r, a) == [r EXCEPT !.uid = a, !.rt = kc.rt[a], !.at = CachedAccess(a)]

\* HydrateFromCurrent: a missing pointer, a pointer without a token and a
\* keychain that cannot be read all leave the session empty.
HydrateFromCurrent(r) ==
  IF kc.cur = NoId THEN r ELSE IF kc.rt[kc.cur] = NoId THEN r ELSE Hydrated(r, kc.cur)

\* RunBackup and RunAccount build the session and dispatch to the handler.
Start(p, x) ==
  /\ proc[p].pc = "idle" /\ cmds < MaxCmds /\ cmds' = cmds + 1
  /\ LET r == [Idle EXCEPT !.pc = "begin", !.cmd = x.cmd, !.email = x.email, !.pass = x.pass] IN
     \/ Fine /\ Set(p, HydrateFromCurrent(r))
     \/ Fault /\ kc.cur # NoId /\ Set(p, r)
  /\ UNCHANGED <<server, kc, lock, stale, clock, salts, ghosts>>

\* Client.Do is entered with a request; logout sends the refresh token it read.
Ask(r, req) == [r EXCEPT !.pc = "send", !.req = req, !.tries = 0, !.refreshed = FALSE, !.sent = r.rt]
Forgetting(r) == [r EXCEPT !.pc = "forget", !.step = IF r.uid = NoId THEN 5 ELSE 1]

\* runBackupStatus, and every other command that only calls the service:
\* nothing is sent without a session.
BeginStatus(p) ==
  /\ proc[p].pc = "begin" /\ proc[p].cmd = "status" /\ Fine
  /\ IF proc[p].rt = NoId THEN End(p, "signed_out")
     ELSE Set(p, Ask(proc[p], "me")) /\ UNCHANGED <<lock, told>>
  /\ UNCHANGED <<server, kc, stale, counters, burnt, closed, sealed>>

\* PushVersion reads both keys of the current user before it calls.
BeginPush(p) ==
  /\ proc[p].pc = "begin" /\ proc[p].cmd = "push" /\ Fine
  /\ LET a == proc[p].uid IN
     IF a = NoId THEN End(p, "no_keys")
     ELSE IF kc.dek[a] = NoId \/ kc.wrapped[a] = <<>> THEN End(p, "no_keys")
     ELSE Set(p, Ask([proc[p] EXCEPT !.got = kc.dek[a]], "post")) /\ UNCHANGED <<lock, told>>
  /\ UNCHANGED <<server, kc, stale, counters, burnt, closed, sealed>>

\* runBackupLogin and runBackupRecover fetch the salt first.
BeginLogin(p) ==
  /\ proc[p].pc = "begin" /\ proc[p].cmd \in {"login", "recover"} /\ Fine
  /\ Set(p, Ask(proc[p], "pre"))
  /\ UNCHANGED <<server, kc, lock, stale, counters, ghosts>>

\* runBackupSignup and runBackupClaim: the recovery file is written before
\* anything is sent.
BeginSignup(p) ==
  /\ proc[p].pc = "begin" /\ proc[p].cmd = "signup"
  /\ \/ Fine /\ salts' = salts + 1 /\ Set(p, Ask([proc[p] EXCEPT !.got = salts + 1], "signup"))
        /\ UNCHANGED <<lock, told>>
     \/ Fault /\ End(p, "no_recovery_file") /\ UNCHANGED salts
  /\ UNCHANGED <<server, kc, stale, cmds, clock, burnt, closed, sealed>>

\* Logout without a session only clears the pointer; runAccountDelete asks
\* the service first.
BeginLeave(p) ==
  /\ proc[p].pc = "begin" /\ proc[p].cmd \in {"logout", "delete"} /\ Fine
  /\ closed' = closed \cup {proc[p].uid}
  /\ Set(p, IF proc[p].cmd = "delete" THEN Ask(proc[p], "delete")
            ELSE IF proc[p].rt = NoId THEN Forgetting(proc[p]) ELSE Ask(proc[p], "logout"))
  /\ UNCHANGED <<server, kc, lock, stale, counters, told, burnt, sealed>>

-----------------------------------------------------------------------------
(* Requests. *)

\* A call that failed: logout goes on, every other command reports it.
Fail(p, how) ==
  IF proc[p].cmd = "logout"
  THEN Set(p, Forgetting(proc[p])) /\ Unlock(p) /\ UNCHANGED told
  ELSE End(p, how)

\* Discovery comes before the first request and is cached for the rest of the
\* process; a service that does not advertise what the engine needs fails like
\* one that cannot be reached.
Discovery(p) ==
  /\ proc[p].pc = "send" /\ proc[p].tries = 0 /\ ~proc[p].refreshed
  /\ proc[p].req \notin {"login", "recover", "finalize"}
  /\ Fault /\ Fail(p, "unreachable")
  /\ UNCHANGED <<server, kc, stale, counters, burnt, closed, sealed>>

\* AccessToken: no bearer rather than one about to expire.
Bearer(r) == IF r.at \in stale THEN NoId ELSE r.at
Authorised(r) == Bearer(r) \in goodAT /\ accounts[owner[Bearer(r)]].live

Request(r) == IF r.pc = "rotate" THEN "refresh" ELSE r.req

\* The account a request is about, among the live ones.
Subject(r) ==
  CASE Request(r) = "login" -> {a \in Live(r.email) : accounts[a].password = DeriveKeys(r.pass, r.got)}
    [] Request(r) = "recover" -> {a \in Live(r.email) : accounts[a].recovery = DeriveKeys(Phrase(r.email), r.got)}
    [] Request(r) = "finalize" -> Live(r.email) \cap ticket
    [] Request(r) = "pre" -> Live(r.email)
    [] Request(r) = "refresh" -> IF r.rt \in goodRT THEN {owner[r.rt]} ELSE {}
    [] Request(r) = "signup" -> IF Live(r.email) = {} /\ Len(accounts) < MaxAccounts THEN {Len(accounts) + 1} ELSE {}
    [] OTHER -> IF Authorised(r) THEN {owner[Bearer(r)]} ELSE {}

Fresh == Len(owner) + 1
Mint(a, spent) ==
  /\ owner' = Append(owner, a) /\ goodAT' = goodAT \cup {Fresh}
  /\ goodRT' = (goodRT \ spent) \cup {Fresh}

\* What the service does with a request it accepts.
Serve(r, a) ==
  \/ Request(r) \in {"me", "post", "pre"} /\ UNCHANGED server
  \/ /\ Request(r) = "signup"
     /\ LET key == DeriveKeys(r.pass, r.got) IN
        accounts' = Append(accounts, [email |-> r.email, live |-> TRUE, salt |-> r.got, password |-> key,
                                      wrapped |-> key, recovery |-> DeriveKeys(Phrase(r.email), r.got)])
     /\ Mint(a, {}) /\ UNCHANGED ticket
  \/ Request(r) = "login" /\ Mint(a, {}) /\ UNCHANGED <<accounts, ticket>>
  \/ Request(r) = "recover" /\ ticket' = ticket \cup {a} /\ UNCHANGED <<accounts, owner, goodRT, goodAT>>
  \/ /\ Request(r) = "finalize" /\ ticket' = ticket \ {a}
     /\ LET key == DeriveKeys(r.pass, r.got) IN
        accounts' = [accounts EXCEPT ![a].salt = r.got, ![a].password = key, ![a].wrapped = key]
     /\ Mint(a, {})
  \/ Request(r) = "refresh" /\ Mint(a, {r.rt}) /\ UNCHANGED <<accounts, ticket>>
  \/ /\ Request(r) = "logout" /\ goodRT' = goodRT \ {r.sent}
     /\ UNCHANGED <<accounts, owner, goodAT, ticket>>
  \/ /\ Request(r) = "delete" /\ accounts' = [accounts EXCEPT ![a].live = FALSE]
     /\ goodRT' = {n \in goodRT : owner[n] # a} /\ UNCHANGED <<owner, goodAT, ticket>>

Signed_KeepsOld(r, a, pc) ==
  [r EXCEPT !.pc = pc, !.uid = a, !.rt = IF pc = "keep" THEN r.rt ELSE Fresh, !.at = Fresh, !.step = 1]

\* SetTokens, then Persist.
Signed(r, a, pc) == [r EXCEPT !.pc = pc, !.uid = a, !.rt = Fresh, !.at = Fresh, !.step = 1]

\* What the client does with an answer.
Proceed(p, a) ==
  LET r == proc[p] IN
  \/ Request(r) = "me" /\ End(p, "ok") /\ UNCHANGED <<sealed, salts>>
  \/ Request(r) = "post" /\ End(p, "ok") /\ sealed' = sealed \cup {<<a, r.got>>} /\ UNCHANGED salts
  \/ /\ Request(r) = "pre" /\ Set(p, Ask([r EXCEPT !.got = accounts[a].salt], r.cmd))
     /\ UNCHANGED <<lock, told, sealed, salts>>
  \/ /\ Request(r) = "recover" /\ salts' = salts + 1
     /\ Set(p, Ask([r EXCEPT !.got = salts + 1], "finalize")) /\ UNCHANGED <<lock, told, sealed>>
  \/ /\ Request(r) \in {"login", "signup", "finalize"} /\ Set(p, Signed(r, a, "persist"))
     /\ UNCHANGED <<lock, told, sealed, salts>>
  \/ Request(r) = "refresh" /\ Set(p, Signed(r, r.uid, "keep")) /\ UNCHANGED <<lock, told, sealed, salts>>
  \/ Request(r) \in {"logout", "delete"} /\ Set(p, Forgetting(r)) /\ UNCHANGED <<lock, told, sealed, salts>>

Sending(p) == proc[p].pc \in {"send", "rotate"}

\* The request is accepted and the answer arrives.
Accepted(p) ==
  /\ Sending(p) /\ Fine
  /\ \E a \in Subject(proc[p]) : Serve(proc[p], a) /\ Proceed(p, a)
  /\ UNCHANGED <<kc, stale, cmds, clock, burnt, closed>>

\* A 401 leads to one refresh of the token; neither the refresh itself nor the
\* end of a recovery, which carries a bearer of its own, is refreshed for.
MayRefresh_Never(r) == FALSE
MayRefresh(r) == r.pc = "send" /\ ~r.refreshed /\ r.req # "finalize"

Denied(p) ==
  /\ Sending(p) /\ Fine /\ Subject(proc[p]) = {} /\ Request(proc[p]) \notin {"pre", "signup"}
  /\ IF MayRefresh(proc[p])
     THEN Set(p, [proc[p] EXCEPT !.pc = "lock"]) /\ UNCHANGED <<lock, told>>
     ELSE Fail(p, "auth_required")
  /\ UNCHANGED <<server, kc, stale, counters, burnt, closed, sealed>>

\* Any other refusal is final: no such account, or an account that exists.
Rejected(p) ==
  /\ Sending(p) /\ Fine /\ Subject(proc[p]) = {} /\ Request(proc[p]) \in {"pre", "signup"}
  /\ Fail(p, "rejected")
  /\ UNCHANGED <<server, kc, stale, counters, burnt, closed, sealed>>

\* The connection breaks before or after the service acted, or the service is
\* busy: the request is sent again until the retries are used up.  A refresh
\* that cannot be made is reported as the 401 that led to it.
Lost(p) ==
  /\ Sending(p) /\ Fault
  /\ \/ UNCHANGED <<server, burnt>>
     \/ \E a \in Subject(proc[p]) : Serve(proc[p], a) /\ burnt' = (burnt \/ proc[p].pc = "rotate")
  /\ IF proc[p].tries < MaxRetries
     THEN Set(p, [proc[p] EXCEPT !.tries = @ + 1]) /\ UNCHANGED <<lock, told>>
     ELSE Fail(p, IF proc[p].pc = "rotate" THEN "auth_required" ELSE "unreachable")
  /\ UNCHANGED <<kc, stale, counters, closed, sealed>>

\* processResponse refuses an answer from a newer schema after the service
\* acted; it is not asked again.
Refused(p) ==
  /\ Sending(p) /\ Fault
  /\ \E a \in Subject(proc[p]) : Serve(proc[p], a) /\ burnt' = (burnt \/ proc[p].pc = "rotate")
  /\ Fail(p, IF proc[p].pc = "rotate" THEN "auth_required" ELSE "incompatible")
  /\ UNCHANGED <<kc, stale, counters, closed, sealed>>

-----------------------------------------------------------------------------
(* refreshAccessToken *)

\* The session as the keychain has it now; without an entry memory stands.
Rehydrated_Current(r) == IF kc.cur = NoId THEN r ELSE Hydrated(r, kc.cur)
Rehydrated(r) == IF r.uid = NoId \/ kc.rt[r.uid] = NoId THEN r ELSE Hydrated(r, r.uid)

\* Under the lock of all processes: an access token another process got in
\* the meantime is used, otherwise the refresh token is rotated.
LockRefresh(p) ==
  /\ proc[p].pc = "lock" /\ lock = None
  /\ LET r == Rehydrated(proc[p]) IN
     \/ /\ Fine /\ Bearer(r) # NoId
        /\ Set(p, [r EXCEPT !.pc = "send", !.refreshed = TRUE]) /\ UNCHANGED <<lock, told>>
     \/ Fine /\ Bearer(r) = NoId /\ r.rt = NoId /\ Fail(p, "auth_required")
     \/ /\ Fine /\ Bearer(r) = NoId /\ r.rt # NoId /\ lock' = p
        /\ Set(p, [r EXCEPT !.pc = "rotate", !.tries = 0]) /\ UNCHANGED told
     \/ Fault /\ Fail(p, "auth_required")         \* the lock or the keychain fails
  /\ UNCHANGED <<server, kc, stale, counters, burnt, closed, sealed>>

-----------------------------------------------------------------------------
(* The keychain. *)

Stored_ByPointer(r) ==
  CASE r.step = 1 -> [kc EXCEPT !.rt[r.uid] = r.rt]
    [] r.step = 2 -> [kc EXCEPT !.at[r.uid] = r.at]
    [] r.step = 3 -> [kc EXCEPT !.cur = r.uid]
    [] r.step = 4 -> [kc EXCEPT !.dek[kc.cur] = kc.cur]
    [] r.step = 5 -> [kc EXCEPT !.wrapped[kc.cur] = DeriveKeys(r.pass, r.got)]

\* Persist: refresh token, access token, pointer; then the two keys.
Stored(r) ==
  CASE r.step = 1 -> [kc EXCEPT !.rt[r.uid] = r.rt]
    [] r.step = 2 -> [kc EXCEPT !.at[r.uid] = r.at]
    [] r.step = 3 -> [kc EXCEPT !.cur = r.uid]
    [] r.step = 4 -> [kc EXCEPT !.dek[r.uid] = r.uid]          \* the DEK, unwrapped
    [] r.step = 5 -> [kc EXCEPT !.wrapped[r.uid] = DeriveKeys(r.pass, r.got)]

Persist(p) ==
  /\ proc[p].pc = "persist"
  /\ \/ /\ Fine /\ kc' = Stored(proc[p])
        /\ IF proc[p].step < 5 THEN Set(p, [proc[p] EXCEPT !.step = @ + 1]) /\ UNCHANGED <<lock, told>>
           ELSE End(p, "ok")
     \/ Fault /\ End(p, "keychain") /\ UNCHANGED kc
  /\ UNCHANGED <<server, stale, counters, burnt, closed, sealed>>

\* After a rotation the lock goes and the call is made again.
KeepTokens(p) ==
  /\ proc[p].pc = "keep"
  /\ \/ /\ Fine /\ kc' = Stored(proc[p]) /\ UNCHANGED <<told, burnt>>
        /\ IF proc[p].step < 3 THEN Set(p, [proc[p] EXCEPT !.step = @ + 1]) /\ UNCHANGED lock
           ELSE Set(p, [proc[p] EXCEPT !.pc = "send", !.refreshed = TRUE]) /\ Unlock(p)
     \/ Fault /\ Fail(p, "auth_required") /\ UNCHANGED kc /\ burnt' = (burnt \/ proc[p].step = 1)
  /\ UNCHANGED <<server, stale, counters, closed, sealed>>

\* Forget: every entry, the pointer last; the first error is kept.
Forget(p) ==
  /\ proc[p].pc = "forget"
  /\ LET r == proc[p] a == r.uid
         good == \/ Fine /\ kc' = CASE r.step = 1 -> [kc EXCEPT !.rt[a] = NoId]
                                    [] r.step = 2 -> [kc EXCEPT !.dek[a] = NoId]
                                    [] r.step = 3 -> [kc EXCEPT !.wrapped[a] = <<>>]
                                    [] r.step = 4 -> [kc EXCEPT !.at[a] = NoId]
                                    [] r.step = 5 -> [kc EXCEPT !.cur = NoId]
         bad == Fault /\ UNCHANGED kc
     IN  \/ r.step < 5 /\ good /\ Set(p, [r EXCEPT !.step = @ + 1]) /\ UNCHANGED <<lock, told>>
         \/ r.step < 5 /\ bad /\ Set(p, [r EXCEPT !.step = @ + 1, !.ok = FALSE]) /\ UNCHANGED <<lock, told>>
         \/ r.step = 5 /\ good /\ End(p, IF r.ok THEN "ok" ELSE "keychain")
         \/ r.step = 5 /\ bad /\ End(p, "keychain")
  /\ UNCHANGED <<server, stale, counters, burnt, closed, sealed>>

-----------------------------------------------------------------------------
(* Surroundings. *)

\* The access token of r comes from a refresh made for the call under way.
JustFetched(r) == r.pc = "keep" \/ (r.pc = "send" /\ r.refreshed)

\* An access token runs out, for the service and for this machine's clock.
Expire(n) ==
  /\ n \in goodAT /\ expiries < MaxExpiries /\ expiries' = expiries + 1
  /\ early' = (early \/ \E p \in Procs : JustFetched(proc[p]) /\ proc[p].at = n)
  /\ goodAT' = goodAT \ {n} /\ stale' = stale \cup {n}
  /\ UNCHANGED <<accounts, owner, goodRT, ticket, kc, lock, proc, cmds, salts, faults, ghosts>>

\* The service takes a token for expired that this clock still trusts.
Skew(n) ==
  /\ n \in goodAT /\ Fault /\ goodAT' = goodAT \ {n}
  /\ UNCHANGED <<accounts, owner, goodRT, ticket, kc, lock, stale, proc, counters, ghosts>>

\* A process dies; the operating system releases its lock.
Crash(p) ==
  /\ proc[p].pc # "idle" /\ Fault /\ End(p, "died")
  /\ burnt' = (burnt \/ (proc[p].pc = "keep" /\ proc[p].step = 1))
  /\ UNCHANGED <<server, kc, stale, counters, closed, sealed>>

Step(p) ==
  \/ BeginStatus(p) \/ BeginPush(p) \/ BeginLogin(p) \/ BeginSignup(p)
  \/ BeginLeave(p) \/ Discovery(p) \/ Accepted(p) \/ Denied(p) \/ Rejected(p) \/ Lost(p) \/ Refused(p)
  \/ LockRefresh(p) \/ Persist(p) \/ KeepTokens(p) \/ Forget(p)

Next ==
  \/ \E p \in Procs : (\E x \in Plans : Start(p, x)) \/ Step(p) \/ Crash(p)
  \/ \E n \in goodAT : Expire(n) \/ Skew(n)

Spec == Init /\ [][Next]_vars

-----------------------------------------------------------------------------
(* Properties. *)

\* Tokens, keys and processes have their types; the lock is held exactly by a
\* process that rotates a refresh token or stores the new one.
SessionTypeOK ==
  /\ \A a \in Ids : kc.rt[a] \in 0..Len(owner) /\ kc.at[a] \in 0..Len(owner) /\ kc.dek[a] \in {NoId, a}
  /\ kc.cur \in 0..Len(accounts) /\ ticket \subseteq DOMAIN accounts
  /\ goodRT \cup goodAT \cup stale \subseteq DOMAIN owner /\ \A n \in DOMAIN owner : owner[n] \in DOMAIN accounts
  /\ \A p \in Procs : lock = p <=> proc[p].pc \in {"rotate", "keep"}
  /\ \A p \in Procs : proc[p].tries \in 0..MaxRetries /\ proc[p].uid \in 0..Len(accounts)

\* The refresh token in the keychain is one the service accepts, however many
\* processes refresh, log in and retry at once: only a sign-out, or a rotation
\* whose answer never reached the keychain, leaves a dead one.
StoredTokenIsLive ==
  \A a \in DOMAIN accounts :
     kc.rt[a] # NoId /\ accounts[a].live /\ a \notin closed /\ ~burnt /\ kc.rt[a] \notin goodRT =>
       \E p \in Procs : proc[p].pc = "keep" /\ proc[p].uid = a /\ proc[p].step = 1

\* While nothing fails and the user did not sign out, no call of a signed-in
\* process ends with the request to log in again, however often its access
\* tokens run out.  A call is refreshed for once, so the token that a refresh
\* brings has to last until the call is made again.
NoSpuriousSignOut ==
  \A p \in Procs : told[p][1] \in {"status", "push"} /\ told[p][2] = "auth_required" =>
     faults > 0 \/ early \/ told[p][3] \in closed

\* What is uploaded to an account is encrypted with that account's key, even
\* when another process signs in as somebody else meanwhile.
SealedForOwner == \A s \in sealed : s[1] = s[2]

\* A sign-up, login or recovery that succeeded leaves the refresh token and
\* both keys of its account in the keychain until the user leaves the account.
SignedInHasKeys ==
  \A p \in Procs : told[p][1] \in {"login", "signup", "recover"} /\ told[p][2] = "ok" =>
     LET a == told[p][3] IN
     a \in closed \/ (kc.rt[a] # NoId /\ kc.dek[a] = a /\ kc.wrapped[a] # <<>>)

\* The recovery phrase of an account keeps recovering it.  The code does not have
\* this property: README, Known divergences.
RecoveryKeyUnlocks ==
  \A p \in Procs : told[p][1] = "recover" => told[p][2] # "auth_required"

-----------------------------------------------------------------------------
(* What the proofs know of every reachable state. *)

WrappedKey == (Passphrases \cup {None}) \X Nat

Account == [email : Emails \cup {None}, live : BOOLEAN, salt : Nat,
            password : WrappedKey, wrapped : WrappedKey,
            recovery : {Phrase(e) : e \in Emails \cup {None}} \X Nat]

Requests == {"none", "me", "post", "pre", "login", "recover", "finalize", "signup", "logout", "delete"}

Process == [pc : {"idle", "begin", "send", "lock", "rotate", "keep", "persist", "forget"},
            cmd : Commands \cup {"none"}, email : Emails \cup {None}, pass : Passphrases \cup {None},
            req : Requests, uid : Nat, rt : Nat, at : Nat, sent : Nat, got : Nat, step : Nat,
            tries : Nat, refreshed : BOOLEAN, ok : BOOLEAN]

Keychain == [cur : Nat, rt : [Ids -> Nat], at : [Ids -> Nat], dek : [Ids -> Nat],
             wrapped : [Ids -> WrappedKey \cup {<<>>}]]

Endings == {"none", "ok", "signed_out", "no_keys", "no_recovery_file", "unreachable",
            "auth_required", "rejected", "incompatible", "keychain", "died"}

Typed ==
  /\ accounts \in Seq(Account) /\ Len(accounts) <= MaxAccounts
  /\ owner \in Seq(Nat) /\ \A n \in DOMAIN owner : owner[n] \in DOMAIN accounts
  /\ goodRT \cup goodAT \cup stale \subseteq DOMAIN owner /\ ticket \subseteq DOMAIN accounts
  /\ kc \in Keychain
  /\ kc.cur \in {NoId} \cup DOMAIN accounts
  /\ proc \in [Procs -> Process] /\ \A p \in Procs : proc[p].uid \in {NoId} \cup DOMAIN accounts
  /\ faults \in Nat /\ salts \in Nat
  /\ told \in [Procs -> (Commands \cup {"none"}) \X Endings \X Nat]

\* Token n, if it is one, is a token of account a.
TokenOf(n, a) == n # NoId => n \in DOMAIN owner /\ owner[n] = a

\* What the keychain keeps for an account, and what a process keeps in memory,
\* belongs to that account.
TokensOwned ==
  /\ \A a \in Ids : TokenOf(kc.rt[a], a) /\ TokenOf(kc.at[a], a) /\ kc.dek[a] \in {NoId, a}
  /\ \A p \in Procs : TokenOf(proc[p].rt, proc[p].uid) /\ TokenOf(proc[p].at, proc[p].uid)

\* The request a process makes is one of its command's.
RequestFits(r) ==
  CASE r.cmd = "status" -> r.req = "me"
    [] r.cmd = "push" -> r.req = "post"
    [] r.cmd = "login" -> r.req \in {"pre", "login"}
    [] r.cmd = "recover" -> r.req \in {"pre", "recover", "finalize"}
    [] r.cmd = "signup" -> r.req = "signup"
    [] r.cmd = "logout" -> r.req = "logout"
    [] r.cmd = "delete" -> r.req = "delete"
    [] OTHER -> FALSE

\* Where a process can be, and what it has then.
ProcessKnown(r) ==
  /\ r.pc \in {"send", "lock", "rotate", "keep"} => RequestFits(r)
  /\ r.pc = "rotate" => r.rt # NoId
  /\ r.pc = "keep" => r.rt # NoId /\ r.at # NoId /\ r.step \in 1..3
  /\ r.pc = "persist" =>
       r.rt # NoId /\ r.at # NoId /\ r.step \in 1..5 /\ r.cmd \in {"login", "recover", "signup"}
  /\ r.pc = "forget" => /\ r.cmd \in {"logout", "delete"} /\ r.step \in 1..5
                        /\ r.uid = NoId => r.step = 5
  /\ r.uid # NoId => r.rt # NoId
  /\ r.pc \in {"send", "lock", "rotate", "keep"} =>
       /\ r.cmd \in {"status", "push"} => r.uid # NoId
       /\ r.cmd = "push" => r.got = r.uid

ProcessesKnown == \A p \in Procs : ProcessKnown(proc[p])

\* A process that leaves an account has said so, and sends that account's token.
LeavingIsClosed ==
  /\ \A p \in Procs :
       proc[p].cmd \in {"logout", "delete"} /\ proc[p].pc \notin {"idle", "begin"} =>
          /\ proc[p].uid \in closed
          /\ proc[p].pc # "forget" => TokenOf(proc[p].sent, proc[p].uid)
  /\ \A a \in DOMAIN accounts : accounts[a].live \/ a \in closed

\* The lock is held exactly by the process that rotates or keeps a token.
LockIsHeld == \A p \in Procs : lock = p <=> proc[p].pc \in {"rotate", "keep"}

\* A process has a new refresh token that it did not store yet.
Unstored(r) == r.pc \in {"keep", "persist"} /\ r.step = 1

\* Nobody else knows such a token, and the service accepts it.
NewTokenIsGood ==
  \A p \in Procs : Unstored(proc[p]) =>
     /\ \A q \in Procs : q # p => proc[q].rt # proc[p].rt
     /\ \A a \in Ids : kc.rt[a] # proc[p].rt
     /\ proc[p].uid \in closed \/ proc[p].rt \in goodRT

\* What persist has stored stays until the account is left.
PersistedSoFar(r) ==
  r.pc = "persist" /\ r.uid \notin closed =>
    /\ r.step > 1 => kc.rt[r.uid] # NoId
    /\ r.step > 4 => kc.dek[r.uid] = r.uid

KeysKept ==
  /\ \A p \in Procs : PersistedSoFar(proc[p])
  /\ \A p \in Procs : proc[p].pc # "persist" /\ proc[p].uid # NoId =>
       proc[p].uid \in closed \/ kc.rt[proc[p].uid] # NoId

\* Without a fault an account that nobody left can always go on.
TokenIsUsable ==
  faults = 0 =>
    /\ ~burnt
    /\ \A p \in Procs : LET r == proc[p] IN
         /\ r.at \in {NoId} \cup goodAT \cup stale
         /\ r.pc = "rotate" => r.uid \in closed \/ r.rt \in goodRT
         /\ JustFetched(r) => early \/ r.uid \in closed \/ r.at \in goodAT \ stale
    /\ \A a \in Ids : kc.at[a] \in {NoId} \cup goodAT \cup stale

=============================================================================
